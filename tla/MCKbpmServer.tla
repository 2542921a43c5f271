---------------------------- MODULE MCKbpmServer ----------------------------
(* Instances of KbpmServer for TLC. *)
EXTENDS KbpmServerApps, TLC

CONSTANTS a, b, c

\* App names are only compared, so they may be exchanged (safety runs only).
Symmetry == Permutations({a, b})

\* The executions in which no list-changing request was taken up during boot.
NoRace == ~raced

\* The live run's requests: every command, apps by their names, and the third app only
\* as the one too many for the list.
LiveRequests ==
  /\ client'.buffer.kind = "text" => client'.buffer.word \in Apps
  /\ client' # client /\ client'.buffer.word = c =>
       client'.buffer.kind = "json" /\ process_count = ListSize

\* A program that died is relaunched or given up by the supervisor loop.  Apps are
\* only compared, so one of them stands for all.
FallenIsHandled == HandlesFall(a)
=============================================================================
