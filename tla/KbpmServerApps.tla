----------------------------- MODULE KbpmServerApps -----------------------------
(***************************************************************************)
(* KbpmServer implements KbpmApps.  Two threads, a mutex, pids, zombies and*)
(* an array of slots are the registry of KbpmApps, except where a request  *)
(* that changes the list was taken up while the boot loop ran (raced).     *)
(***************************************************************************)
EXTENDS KbpmServerProps, Sequences

\* The first n entries of a list, or of the file, as the apps they stand for.
ListOf(l, n) == [i \in 1 .. n |-> [app |-> l[i - 1].app, run |-> l[i - 1].is_running]]

IsUp     == server = "up"
AppsOf   == ListOf(process_list, process_count)
FileOf   == ListOf(config, get_process_list_count(config))
AliveOf  == {a \in Apps : \E p \in Pid : proc[p].st = "live" /\ proc[p].app = a}
PhaseOf  ==
  CASE sock.pc = "write"                                      -> "saving"
    [] sock.pc \in {"startall", "stopall", "respond", "save"} -> "busy"
    [] OTHER                                                  -> "ready"

A == INSTANCE KbpmApps WITH
       up <- IsUp, apps <- AppsOf, alive <- AliveOf, file <- FileOf, phase <- PhaseOf

\* Seen through its registry, its programs and its file, the daemon does what KbpmApps
\* says and nothing else: requests take effect at once, only a dead program of an app
\* marked running is launched, and a restart brings back what was saved last.  It says so of
\* every step that no overtaken boot loop reaches: a race ends with its daemon, and the next
\* daemon is held to KbpmApps again, from the file the raced one left.
ImplementsApps ==
  A!AppsInit /\ [][~raced /\ ~raced' => [A!AppsNext]_(A!appsVars)]_vars
===============================================================================
