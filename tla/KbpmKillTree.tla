----------------------------- MODULE KbpmKillTree -----------------------------
(***************************************************************************)
(* Stopping an app: kill_process_by_pid() walks the app's process tree.    *)
(*                                                                         *)
(* For each process it reads the children from /proc (get_child_pids),     *)
(* kills the process, and does the same for every child it has read.  All  *)
(* the while the processes of the machine go on: they fork, end, are       *)
(* waited for and handed over to init.  KbpmServer takes the whole walk as *)
(* one step on one process; this module looks into it.                     *)
(*                                                                         *)
(* A pid is not used again while the walk lasts: the kernel cycles through *)
(* its pid space, so that would take as many forks as there are pids.      *)
(***************************************************************************)
EXTENDS Integers, Sequences, FiniteSets

CONSTANTS
  MaxPid,    \* the processes are 1 .. MaxPid, in the order readdir() lists them
  Roots,     \* those the daemon launched: one `bash -c cmd` per app
  PidLimit,  \* 32767, the largest pid get_child_pids looks at
  Init1,     \* process 1, which adopts the children of processes that end
  Daemon     \* the daemon itself

ASSUME TreeAssumption ==
  /\ MaxPid \in Nat /\ PidLimit \in Nat
  /\ Roots \subseteq 1 .. MaxPid
  /\ Init1 \notin Nat /\ Daemon \notin Nat /\ Init1 # Daemon

Pid == 1 .. MaxPid

VARIABLES
  proc,   \* the process table: state, parent, and the app (root) it was born into
  pc,     \* where the socket thread is in the walk
  stack,  \* the calls of kill_process_by_pid, the running one first
  app,    \* the root the walk was started for
  dirs,   \* the DIR streams on /proc that get_child_pids has left open, for whom
  due     \* history: processes of the app that the walk owes a kill

vars == <<proc, pc, stack, app, dirs, due>>
walkVars == <<pc, stack, app, dirs>>

-------------------------------------------------------------------------------
(* The process table *)

State == {"unused", "live", "zombie", "gone"}
Process == [st : State, parent : Pid \cup {Init1, Daemon}, app : Pid \cup {Init1}]

\* A zombie has a directory in /proc until its parent has waited for it.
Listed(p) == proc[p].st \in {"live", "zombie"}

Children(S) == {c \in Pid : Listed(c) /\ proc[c].parent \in S}

\* The tree of p: the least set that has p and, with a process, its children.
Below(p) ==
  LET closed == {S \in SUBSET ({p} \cup Children(Pid)) : p \in S /\ Children(S) \subseteq S}
  IN  {q \in Pid : \A S \in closed : q \in S}

\* p ends: what is left is a zombie, and init takes over its children.
Ended(p) == [q \in Pid |->
  IF q = p THEN [proc[q] EXCEPT !.st = "zombie"]
  ELSE IF proc[q].parent = p THEN [proc[q] EXCEPT !.parent = Init1]
  ELSE proc[q]]

-------------------------------------------------------------------------------
Init ==
  /\ proc = [p \in Pid |-> IF p \in Roots
                           THEN [st |-> "live", parent |-> Daemon, app |-> p]
                           ELSE [st |-> "unused", parent |-> Init1, app |-> Init1]]
  /\ pc = "idle"
  /\ stack = <<>>
  /\ app = Init1
  /\ dirs = [p \in Pid |-> 0]
  /\ due = {}

(* What the processes of the machine do by themselves *)

Fork(p, c) ==
  /\ proc[p].st = "live" /\ proc[c].st = "unused"
  /\ proc' = [proc EXCEPT ![c] = [st |-> "live", parent |-> p, app |-> proc[p].app]]
  /\ UNCHANGED <<walkVars, due>>

\* The processes below p leave the app's tree, and with it the reach of the walk.
Exit(p) ==
  /\ proc[p].st = "live"
  /\ proc' = Ended(p)
  /\ due' = due \ (Below(p) \ {p})
  /\ UNCHANGED walkVars

\* wait() in the parent: the daemon's main thread, init, or a program.
Reap(p) ==
  /\ proc[p].st = "zombie"
  /\ proc' = [proc EXCEPT ![p].st = "gone"]
  /\ UNCHANGED <<walkVars, due>>

-------------------------------------------------------------------------------
(* The walk *)

Top == Head(stack)
Call(p) == [pid |-> p, unread |-> {}, children |-> {}]
WithTop(f) == <<f>> \o Tail(stack)
Least(p, S) == p \in S /\ \A q \in S : p <= q

\* server_stop_process on an app marked running, whose process may have died unnoticed.
\* The walk can find what is below the root, through pids get_child_pids looks at.
Stop(r) ==
  /\ pc = "idle"
  /\ app' = r
  /\ stack' = <<Call(r)>>
  /\ pc' = "open"
  /\ due' = {p \in Below(r) : \A q \in Below(r) \ {r} : q > PidLimit => p \notin Below(q)}
  /\ UNCHANGED <<proc, dirs>>

\* opendir("/proc") and the listing, which readdir() buffers; only processes at most
\* PidLimit are looked at.
Open ==
  /\ pc = "open"
  /\ stack' = WithTop([Top EXCEPT !.unread = {p \in Pid : p <= PidLimit /\ Listed(p)}])
  /\ pc' = "read"
  /\ dirs' = [dirs EXCEPT ![Top.pid] = @ + 1]
  /\ UNCHANGED <<proc, app, due>>

\* opendir() may fail, for want of descriptors say: no children are found.
OpenFails ==
  /\ pc = "open"
  /\ pc' = "kill"
  /\ due' = due \ (Below(Top.pid) \ {Top.pid})
  /\ UNCHANGED <<proc, stack, app, dirs>>

\* "PPid" in the status file of p.
\* [mutant] the answer of strcmp() is taken for its opposite
ChildOfInverted(p, parent) == proc[p].parent # parent
ChildOf(p, parent) == proc[p].parent = parent

ReadStatus ==
  /\ pc = "read"
  /\ \E p \in Pid :
       /\ Least(p, Top.unread) /\ Listed(p)
       /\ stack' = WithTop([Top EXCEPT !.unread = @ \ {p},
                                       !.children = IF ChildOf(p, Top.pid) THEN @ \cup {p} ELSE @])
  /\ UNCHANGED <<proc, pc, app, dirs, due>>

\* The process was waited for after it was listed: fopen() answers NULL, unchecked.
ReadGone ==
  /\ pc = "read"
  /\ \E p \in Pid : Least(p, Top.unread) /\ ~Listed(p)
  /\ pc' = "segv"
  /\ stack' = <<>>
  /\ UNCHANGED <<proc, app, dirs, due>>

ReadEnd ==
  /\ pc = "read" /\ Top.unread = {}
  /\ pc' = "kill"
  /\ UNCHANGED <<proc, stack, app, dirs, due>>

\* kill(pid, SIGKILL); a dead process is left alone.
Kill ==
  /\ pc = "kill"
  /\ proc' = IF proc[Top.pid].st = "live" THEN Ended(Top.pid) ELSE proc
  /\ pc' = "children"
  /\ UNCHANGED <<stack, app, dirs, due>>

\* [mutant] only the first child is gone into; the loop does not advance
ChildrenFirstOnly(p) == WithTop([Top EXCEPT !.children = {}])
ChildrenSame(p)      == stack
ChildrenLeft(p)      == WithTop([Top EXCEPT !.children = @ \ {p}])

Recurse ==
  /\ pc = "children"
  /\ \E p \in Pid : Least(p, Top.children) /\ stack' = <<Call(p)>> \o ChildrenLeft(p)
  /\ pc' = "open"
  /\ UNCHANGED <<proc, app, dirs, due>>

\* [mutant] the return of one call is taken for the end of the walk
ReturnFromAll ==
  /\ pc = "children" /\ Top.children = {}
  /\ stack' = Tail(stack)
  /\ pc' = "done"
  /\ UNCHANGED <<proc, app, dirs, due>>
Return ==
  /\ pc = "children" /\ Top.children = {}
  /\ stack' = Tail(stack)
  /\ pc' = IF Len(stack) = 1 THEN "done" ELSE "children"
  /\ UNCHANGED <<proc, app, dirs, due>>

-------------------------------------------------------------------------------
Walk == Open \/ OpenFails \/ ReadStatus \/ ReadGone \/ ReadEnd \/ Kill \/ Recurse \/ Return

Next ==
  \/ \E r \in Roots : Stop(r)
  \/ Walk
  \/ \E p, c \in Pid : Fork(p, c)
  \/ \E p \in Pid : Exit(p) \/ Reap(p)

Spec == Init /\ [][Next]_vars
FairSpec == Spec /\ WF_vars(Walk)

===============================================================================
