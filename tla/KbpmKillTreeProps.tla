--------------------------- MODULE KbpmKillTreeProps ---------------------------
(* What stopping an app promises to the app and to every other process. *)
EXTENDS KbpmKillTree

\* Every variable keeps to its values.
TypeOK ==
  /\ proc \in [Pid -> Process]
  /\ pc \in {"idle", "open", "read", "kill", "children", "done", "segv"}
  /\ stack \in Seq([pid : Pid, unread : SUBSET Pid, children : SUBSET Pid])
  /\ app \in Roots \cup {Init1}
  /\ dirs \in [Pid -> Nat]
  /\ due \subseteq Pid
  /\ stack = <<>> <=> pc \in {"idle", "done", "segv"}

\* The walk kills processes of the app it was started for and no others, however the
\* trees grow, shrink and are handed over while it reads them.
OnlyAppKilled ==
  [][pc = "kill" /\ pc' = "children" =>
       \A p \in Pid : proc'[p].st # proc[p].st => proc[p].app = app]_vars

\* When the walk is over, every process that was below the app's root when it began is
\* dead, unless a process between them ended by itself meanwhile.
StoppedDies == pc = "done" => \A p \in due : proc[p].st # "live"

\* A stop costs the daemon one open directory for each process the app has had, at most,
\* and none for others: the walk comes to no process twice, whoever its parent is when
\* its status is read (proc_status.c:27; nothing closes the directory).
OneDirEach == \A p \in Pid : dirs[p] > 0 => dirs[p] = 1 /\ proc[p].app = app

\* The recursion comes to an end.
StopEnds == pc = "open" ~> pc \in {"done", "segv"}

\* "stop all the child processes when stopping an app" (README.md:27): no process
\* of the app is left when the stop has been carried out.
AllChildrenStopped ==
  pc = "done" => \A p \in Pid : proc[p].st = "live" => proc[p].app # app
===============================================================================
