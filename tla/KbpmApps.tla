------------------------------- MODULE KbpmApps -------------------------------
(***************************************************************************)
(* What the KB_PM service promises, without its threads, processes and     *)
(* locks: an ordered registry of apps in which each request takes effect   *)
(* at once, a program for each app that is marked running, a supervisor    *)
(* that launches programs again, and a file that brings the registry back. *)
(*                                                                         *)
(* KbpmServerApps shows that the daemon of KbpmServer implements it,       *)
(* KbpmClient puts commands on top of it, and KbpmRegistry is what is left *)
(* of it without order, marks and programs.  An operator marked [mutant] is*)
(* the next one with a mistake; no action uses it.                         *)
(***************************************************************************)
EXTENDS Integers, Sequences

CONSTANT Apps  \* the application names

VARIABLES
  up,     \* a daemon runs
  apps,   \* the apps it knows; the one at position i has id i - 1
  alive,  \* the apps that have a program running under the daemon
  file,   \* the apps the next daemon will know
  phase   \* of the request at hand: none ("ready"), "busy", the file is emptied ("saving")

appsVars == <<up, apps, alive, file, phase>>

App == [app : Apps, run : BOOLEAN]
Names(l)  == {l[i].app : i \in DOMAIN l}
Marked(l) == {l[i].app : i \in {j \in DOMAIN l : l[j].run}}

AppsInit ==
  /\ up = FALSE
  /\ apps = <<>>
  /\ alive = {}
  /\ file = <<>>
  /\ phase = "ready"

\* `kbpm service start`
Boot ==
  /\ ~up
  /\ up' = TRUE
  /\ apps' = file
  /\ UNCHANGED <<alive, file, phase>>

\* The daemon goes down, whatever the reason; only the file remains.
Down ==
  /\ up
  /\ up' = FALSE
  /\ apps' = <<>>
  /\ alive' = {}
  /\ phase' = "ready"
  /\ UNCHANGED file

-------------------------------------------------------------------------------
(* Requests *)

\* `startall` and `stopall` take a step for each app, all others one step.
Request ==
  /\ up /\ phase # "saving"
  /\ phase' = "busy"
  /\ UNCHANGED <<up, file>>

\* [mutant] the mutex is free before the list is saved
RequestUnsaved == Request
\* What the request before it changed is in the file.
NewRequest     == phase = "ready" /\ Request

\* Ping, status, and every request that is refused.
Serve == Request /\ UNCHANGED <<apps, alive>>

Add(a) ==
  /\ NewRequest
  /\ a \notin Names(apps)
  /\ apps' = Append(apps, [app |-> a, run |-> TRUE])
  /\ alive' = alive \cup {a}

Start(i) ==
  /\ Request
  /\ ~apps[i].run
  /\ apps' = [apps EXCEPT ![i].run = TRUE]
  /\ alive' = alive \cup {apps[i].app}

Stop(i) ==
  /\ Request
  /\ apps[i].run
  /\ apps' = [apps EXCEPT ![i].run = FALSE]
  /\ alive' = alive \ {apps[i].app}

Restart(i) ==
  /\ NewRequest
  /\ apps[i].run
  /\ alive' = alive \cup {apps[i].app}
  /\ UNCHANGED apps

Without(l, i) == [k \in 1 .. Len(l) - 1 |-> IF k < i THEN l[k] ELSE l[k + 1]]

Remove(i) ==
  /\ NewRequest
  /\ apps' = Without(apps, i)
  /\ alive' = alive \ {apps[i].app}

\* After the answer the file is emptied and written again.
Truncate ==
  /\ up /\ phase = "busy"
  /\ phase' = "saving"
  /\ file' = <<>>
  /\ UNCHANGED <<up, apps, alive>>

Save ==
  /\ up /\ phase = "saving"
  /\ phase' = "ready"
  /\ file' = apps
  /\ UNCHANGED <<up, apps, alive>>

-------------------------------------------------------------------------------
(* Programs and their supervisor *)

Ends(a) ==
  /\ a \in alive
  /\ alive' = alive \ {a}
  /\ UNCHANGED <<up, apps, file, phase>>

\* Only what is marked running and is not running is launched, after a boot or an end.
Relaunch(i) ==
  /\ up /\ apps[i].run /\ apps[i].app \notin alive
  /\ alive' = alive \cup {apps[i].app}
  /\ UNCHANGED <<up, apps, file, phase>>

\* The program ended within the second it was launched in: it is left stopped.  That
\* never happens in the middle of a request.
GiveUp(i) ==
  /\ up /\ phase = "ready"
  /\ apps[i].run /\ apps[i].app \notin alive
  /\ apps' = [apps EXCEPT ![i].run = FALSE]
  /\ UNCHANGED <<up, alive, file, phase>>

-------------------------------------------------------------------------------
ServiceNext ==
  \/ Boot \/ Down
  \/ Truncate \/ Save
  \/ \E a \in alive : Ends(a)
  \/ \E i \in DOMAIN apps : Relaunch(i) \/ GiveUp(i)

RequestNext ==
  \/ Serve
  \/ \E a \in Apps : Add(a)
  \/ \E i \in DOMAIN apps : Start(i) \/ Stop(i) \/ Restart(i) \/ Remove(i)

AppsNext == ServiceNext \/ RequestNext

AppsSpec == AppsInit /\ [][AppsNext]_appsVars
===============================================================================
