---------------------------- MODULE MCKbpmKillTree ----------------------------
(* Instances of KbpmKillTree for TLC. *)
EXTENDS KbpmKillTreeProps

\* /proc can always be opened and no process ends by itself: what escapes a walk then
\* escapes it by forking alone.
QuietSpec == Init /\ [][Next /\ ~OpenFails /\ \A p \in Pid : ~Exit(p)]_vars
==============================================================================
