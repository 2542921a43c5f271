--------------------------- MODULE KbpmKillTreeProofs ---------------------------
(***************************************************************************)
(* Proofs about KbpmKillTree, for any number of processes and apps: the    *)
(* walk keeps to its types, it kills only processes of the app that is     *)
(* being stopped, and it kills all of those it owes it to.                 *)
(*                                                                         *)
(* A process is killed because of what /proc said some time ago.  By then  *)
(* it may have ended, or init may have taken it over; what cannot have     *)
(* changed is the app it was born into.  FamilyInv says that parents and   *)
(* children share it and that every call of the walk is about it.          *)
(***************************************************************************)
EXTENDS KbpmKillTreeProps, SequenceTheorems, TLAPS

\* A process that was ever started has the app of its parent; a root is its own app.
FamilyInv ==
  /\ \A p \in Pid : proc[p].parent \in Pid =>
       /\ proc[p].st # "unused" /\ proc[proc[p].parent].st # "unused"
       /\ proc[p].app = proc[proc[p].parent].app
  /\ \A r \in Roots : proc[r].st # "unused" /\ proc[r].app = r

\* q belongs to the app that is being stopped.
OfApp(q) == proc[q].st # "unused" /\ proc[q].app = app

\* Each call of the walk is about such a process, and has found such children.
StackInv ==
  \A k \in 1 .. Len(stack) :
    OfApp(stack[k].pid) /\ \A c \in stack[k].children : OfApp(c)

KillInv == TypeOK /\ FamilyInv /\ StackInv

Frame == [pid : Pid, unread : SUBSET Pid, children : SUBSET Pid]

-------------------------------------------------------------------------------
(* The stack *)

LEMMA PushFrame ==
  ASSUME NEW f \in Frame, NEW s \in Seq(Frame)
  PROVE  /\ <<f>> \o s \in Seq(Frame) /\ Len(<<f>> \o s) = Len(s) + 1 /\ <<f>> \o s # <<>>
         /\ (<<f>> \o s)[1] = f /\ \A k \in 2 .. Len(s) + 1 : (<<f>> \o s)[k] = s[k - 1]
<1>1. <<f>> \in Seq(Frame) /\ Len(<<f>>) = 1 /\ <<f>>[1] = f
  OBVIOUS
<1>2. <<f>> \o s \in Seq(Frame) /\ Len(<<f>> \o s) = Len(s) + 1
  BY <1>1
<1> QED BY <1>1, <1>2

LEMMA NoFrames ==
  ASSUME NEW s \in Seq(Frame)
  PROVE  s = <<>> <=> Len(s) = 0
<1> QED BY EmptySeq

\* While the walk is under way there is a running call.
LEMMA TopFrame ==
  ASSUME TypeOK, pc \notin {"idle", "done", "segv"}
  PROVE  /\ stack \in Seq(Frame) /\ stack # <<>> /\ Len(stack) \in Nat \ {0}
         /\ Top \in Frame /\ Top = stack[1]
         /\ Tail(stack) \in Seq(Frame) /\ Len(Tail(stack)) = Len(stack) - 1
         /\ \A k \in 1 .. Len(Tail(stack)) : Tail(stack)[k] = stack[k + 1]
<1>1. stack \in Seq(Frame) /\ stack # <<>>
  BY DEF TypeOK, Frame
<1> QED
  BY <1>1 DEF Top

\* Replacing the running call keeps the others.
LEMMA NewTop ==
  ASSUME TypeOK, pc \notin {"idle", "done", "segv"}, NEW f \in Frame
  PROVE  /\ WithTop(f) \in Seq(Frame) /\ WithTop(f) # <<>>
         /\ Len(WithTop(f)) = Len(stack)
         /\ WithTop(f)[1] = f
         /\ \A k \in 2 .. Len(stack) : WithTop(f)[k] = stack[k]
<1>1. /\ Tail(stack) \in Seq(Frame) /\ Len(Tail(stack)) = Len(stack) - 1 /\ Len(stack) \in Nat \ {0}
      /\ \A k \in 1 .. Len(Tail(stack)) : Tail(stack)[k] = stack[k + 1]
  BY TopFrame
<1>2. <<f>> \in Seq(Frame) /\ Len(<<f>>) = 1 /\ <<f>>[1] = f
  OBVIOUS
<1>3. /\ WithTop(f) \in Seq(Frame) /\ Len(WithTop(f)) = Len(stack) /\ WithTop(f)[1] = f
      /\ \A k \in 2 .. Len(stack) : WithTop(f)[k] = Tail(stack)[k - 1]
  BY <1>1, <1>2 DEF WithTop
<1>4. WithTop(f) # <<>>
  BY <1>1, <1>3
<1>5. ASSUME NEW k \in 2 .. Len(stack) PROVE WithTop(f)[k] = stack[k]
  BY <1>1, <1>3
<1> QED BY <1>3, <1>4, <1>5

-------------------------------------------------------------------------------
(* The tree of a process *)

\* A set that has p and is closed under children has the tree of p.
LEMMA BelowLeast ==
  ASSUME NEW p \in Pid, NEW S \in SUBSET Pid, p \in S,
         \A c \in Pid : Listed(c) /\ proc[c].parent \in S => c \in S
  PROVE  Below(p) \subseteq S
<1> DEFINE T == S \cap ({p} \cup Children(Pid))
<1>1. T \in SUBSET ({p} \cup Children(Pid)) /\ p \in T /\ Children(T) \subseteq T
  BY DEF Children
<1>2. Below(p) \subseteq T
  <2> HIDE DEF T
  <2> QED BY <1>1 DEF Below
<1> QED BY <1>2

\* The tree of p has p and is itself closed under children.
LEMMA BelowClosed ==
  ASSUME NEW p \in Pid
  PROVE  /\ Below(p) \subseteq Pid /\ p \in Below(p)
         /\ \A c \in Pid : Listed(c) /\ proc[c].parent \in Below(p) => c \in Below(p)
<1>1. Below(p) \subseteq Pid /\ p \in Below(p)
  BY DEF Below
<1>2. ASSUME NEW c \in Pid, Listed(c), proc[c].parent \in Below(p),
             NEW S \in SUBSET ({p} \cup Children(Pid)), p \in S, Children(S) \subseteq S
      PROVE  c \in S
  <2>1. proc[c].parent \in S
    BY <1>2 DEF Below
  <2> QED BY <1>2, <2>1 DEF Children
<1> QED BY <1>1, <1>2 DEF Below

LEMMA BelowTrans ==
  ASSUME NEW p \in Pid, NEW q \in Below(p)
  PROVE  Below(q) \subseteq Below(p)
<1>1. q \in Pid
  BY BelowClosed
<1> QED BY <1>1, BelowClosed, BelowLeast

\* A process that has another one below it has a child.
LEMMA BelowChild ==
  ASSUME NEW p \in Pid, NEW q \in Below(p), q # p
  PROVE  \E c \in Pid : Listed(c) /\ proc[c].parent = p
<1>1. SUFFICES ASSUME \A c \in Pid : Listed(c) => proc[c].parent # p PROVE FALSE
  OBVIOUS
<1>2. Below(p) \subseteq {p}
  BY <1>1, BelowLeast
<1> QED BY <1>2

-------------------------------------------------------------------------------
(* The steps *)

\* What Ended(p) leaves as it was.
LEMMA EndedFacts ==
  ASSUME TypeOK, NEW p \in Pid, proc[p].st = "live"
  PROVE  /\ Ended(p) \in [Pid -> Process]
         /\ \A q \in Pid : /\ Ended(p)[q].app = proc[q].app
                           /\ q # p => Ended(p)[q].st = proc[q].st
                           /\ Ended(p)[q].st = "unused" <=> proc[q].st = "unused"
                           /\ Ended(p)[q].parent \in Pid => Ended(p)[q].parent = proc[q].parent
<1>1. proc \in [Pid -> Process] /\ Init1 \notin Pid
  BY TreeAssumption DEF TypeOK, Pid
<1>2. ASSUME NEW q \in Pid
      PROVE  /\ Ended(p)[q] \in Process /\ Ended(p)[q].app = proc[q].app
             /\ q # p => Ended(p)[q].st = proc[q].st
             /\ Ended(p)[q].st = "unused" <=> proc[q].st = "unused"
             /\ Ended(p)[q].parent \in Pid => Ended(p)[q].parent = proc[q].parent
  <2>1. proc[q] \in Process /\ proc[p] \in Process
    BY <1>1
  <2>2. CASE q = p
    BY <2>1, <2>2 DEF Ended, Process, State
  <2>3. CASE q # p /\ proc[q].parent = p
    BY <1>1, <2>1, <2>3 DEF Ended, Process, State
  <2>4. CASE q # p /\ proc[q].parent # p
    BY <2>1, <2>4 DEF Ended
  <2> QED BY <2>2, <2>3, <2>4
<1> QED BY <1>2 DEF Ended

\* When no process gets another app and none becomes unused, families stay families.
LEMMA FamilyKept ==
  ASSUME TypeOK, FamilyInv, NEW t, proc' = t,
         \A q \in Pid : /\ t[q].app = proc[q].app
                        /\ t[q].st = "unused" <=> proc[q].st = "unused"
                        /\ t[q].parent \in Pid => t[q].parent = proc[q].parent
  PROVE  FamilyInv' /\ \A q \in Pid : app' = app /\ OfApp(q) => OfApp(q)'
<1>1. Roots \subseteq Pid
  BY TreeAssumption DEF Pid
<1> QED BY <1>1 DEF FamilyInv, OfApp

\* Calls and children that were of the app are, when stack and app stay.
LEMMA StackKept ==
  ASSUME TypeOK, StackInv, stack' = stack,
         \A q \in Pid : OfApp(q) => OfApp(q)'
  PROVE  StackInv'
<1>1. stack \in Seq(Frame)
  BY DEF TypeOK, Frame
<1>2. \A k \in 1 .. Len(stack) : stack[k] \in Frame
  BY <1>1
<1> QED BY <1>2 DEF StackInv, Frame

LEMMA InitKill == Init => KillInv
<1> SUFFICES ASSUME Init PROVE KillInv
  OBVIOUS
<1>1. Roots \subseteq Pid /\ Init1 \notin Pid /\ Daemon \notin Pid
  BY TreeAssumption DEF Pid
<1>2. TypeOK
  BY <1>1 DEF Init, TypeOK, Process, State
<1>3. FamilyInv
  BY <1>1 DEF Init, FamilyInv
<1>4. StackInv
  BY DEF Init, StackInv
<1> QED BY <1>2, <1>3, <1>4 DEF KillInv

LEMMA ForkKill ==
  ASSUME KillInv, NEW p \in Pid, NEW c \in Pid, Fork(p, c)
  PROVE  KillInv'
<1> USE DEF KillInv, Fork, walkVars
<1>1. proc \in [Pid -> Process] /\ proc[p] \in Process /\ p # c
  BY DEF TypeOK
<1>2. [st |-> "live", parent |-> p, app |-> proc[p].app] \in Process
  BY <1>1 DEF Process, State
<1>3. TypeOK'
  BY <1>2 DEF TypeOK
<1>4. \A q \in Pid : proc'[q] = IF q = c THEN [st |-> "live", parent |-> p, app |-> proc[p].app] ELSE proc[q]
  BY <1>1
<1>5. FamilyInv'
  <2>1. Roots \subseteq Pid
    BY TreeAssumption DEF Pid
  <2> QED BY <1>1, <1>4, <2>1 DEF FamilyInv
<1>6. \A q \in Pid : OfApp(q) => OfApp(q)'
  BY <1>4 DEF OfApp
<1>7. StackInv'
  BY <1>6, StackKept
<1> QED BY <1>3, <1>5, <1>7

LEMMA ExitKill ==
  ASSUME KillInv, NEW p \in Pid, Exit(p)
  PROVE  KillInv'
<1> USE DEF KillInv, Exit, walkVars
<1>1. /\ Ended(p) \in [Pid -> Process]
      /\ \A q \in Pid : /\ Ended(p)[q].app = proc[q].app
                        /\ Ended(p)[q].st = "unused" <=> proc[q].st = "unused"
                        /\ Ended(p)[q].parent \in Pid => Ended(p)[q].parent = proc[q].parent
  BY EndedFacts
<1>2. TypeOK'
  BY <1>1 DEF TypeOK
<1>3. FamilyInv' /\ \A q \in Pid : OfApp(q) => OfApp(q)'
  BY <1>1, FamilyKept
<1>4. StackInv'
  BY <1>3, StackKept
<1> QED BY <1>2, <1>3, <1>4

LEMMA ReapKill ==
  ASSUME KillInv, NEW p \in Pid, Reap(p)
  PROVE  KillInv'
<1> USE DEF KillInv, Reap, walkVars
<1>1. proc \in [Pid -> Process] /\ proc[p] \in Process
  BY DEF TypeOK
<1>2. \A q \in Pid : proc'[q] = IF q = p THEN [proc[q] EXCEPT !.st = "gone"] ELSE proc[q]
  BY <1>1
<1>3. TypeOK'
  <2>1. proc' \in [Pid -> Process]
    BY <1>1 DEF Process, State
  <2> QED BY <2>1 DEF TypeOK
<1>4. \A q \in Pid : /\ proc'[q].app = proc[q].app
                     /\ proc'[q].st = "unused" <=> proc[q].st = "unused"
                     /\ proc'[q].parent \in Pid => proc'[q].parent = proc[q].parent
  BY <1>1, <1>2 DEF Process
<1>5. FamilyInv' /\ \A q \in Pid : OfApp(q) => OfApp(q)'
  BY <1>4, FamilyKept
<1>6. StackInv'
  BY <1>5, StackKept
<1> QED BY <1>3, <1>5, <1>6

\* The walk starts at a root, which is of its own app.
LEMMA StopKill ==
  ASSUME KillInv, NEW r \in Roots, Stop(r)
  PROVE  KillInv'
<1> USE DEF KillInv, Stop
<1>1. r \in Pid
  BY TreeAssumption DEF Pid
<1>2. Call(r) \in Frame
  BY <1>1 DEF Call, Frame
<1>3. stack' = <<Call(r)>> /\ stack' \in Seq(Frame) /\ stack' # <<>> /\ Len(stack') = 1 /\ stack'[1] = Call(r)
  BY <1>2
<1>4. TypeOK'
  BY <1>1, <1>3, BelowClosed DEF TypeOK, Frame
<1>5. FamilyInv'
  BY DEF FamilyInv
<1>6. proc[r].st # "unused" /\ proc[r].app = r
  BY DEF FamilyInv
<1>7. StackInv'
  BY <1>3, <1>6 DEF StackInv, OfApp, Call
<1> QED BY <1>4, <1>5, <1>7

\* A step that changes only the running call: it is still about the same process, and
\* the children it has found are of the app.
LEMMA TopKill ==
  ASSUME KillInv, pc \notin {"idle", "done", "segv"}, pc' \in {"open", "read", "kill", "children"},
         NEW f \in Frame, stack' = WithTop(f), f.pid = Top.pid, \A c \in f.children : OfApp(c),
         due' \subseteq due, dirs' \in [Pid -> Nat], UNCHANGED <<proc, app>>
  PROVE  KillInv'
<1> USE DEF KillInv
<1>1. /\ stack' \in Seq(Frame) /\ stack' # <<>> /\ Len(stack') = Len(stack)
      /\ stack'[1] = f /\ \A k \in 2 .. Len(stack) : stack'[k] = stack[k]
  BY NewTop
<1>2. stack \in Seq(Frame) /\ Top = stack[1] /\ Len(stack) \in Nat \ {0}
  BY TopFrame
<1>3. TypeOK'
  BY <1>1 DEF TypeOK, Frame
<1>4. FamilyInv'
  BY DEF FamilyInv
<1>5. StackInv'
  <2>1. OfApp(f.pid) /\ \A c \in f.children : OfApp(c)
    BY <1>2 DEF StackInv
  <2>2. ASSUME NEW k \in 1 .. Len(stack)
        PROVE  OfApp(stack'[k].pid) /\ \A c \in stack'[k].children : OfApp(c)
    BY <1>1, <1>2, <2>1, <2>2 DEF StackInv
  <2> QED BY <1>1, <2>2 DEF StackInv, OfApp
<1> QED BY <1>3, <1>4, <1>5

\* A step that changes neither calls nor processes.
LEMMA PcKill ==
  ASSUME KillInv, pc \notin {"idle", "done", "segv"}, pc' \in {"open", "read", "kill", "children"},
         due' \subseteq due, UNCHANGED <<proc, stack, app, dirs>>
  PROVE  KillInv'
<1> USE DEF KillInv
<1>1. TypeOK'
  BY DEF TypeOK
<1> QED BY <1>1 DEF FamilyInv, StackInv, OfApp

\* The running call has found children of its own process: they have its app.
LEMMA ReadStatusKill ==
  ASSUME KillInv, ReadStatus
  PROVE  KillInv'
<1> USE DEF KillInv, ReadStatus
<1>1. Top \in Frame /\ Top = stack[1] /\ Len(stack) \in Nat \ {0}
  BY TopFrame
<1>2. PICK p \in Pid :
        /\ Least(p, Top.unread) /\ Listed(p)
        /\ stack' = WithTop([Top EXCEPT !.unread = @ \ {p},
                                        !.children = IF ChildOf(p, Top.pid) THEN @ \cup {p} ELSE @])
  OBVIOUS
<1> DEFINE f == [Top EXCEPT !.unread = @ \ {p},
                            !.children = IF ChildOf(p, Top.pid) THEN @ \cup {p} ELSE @]
<1>3. OfApp(Top.pid) /\ \A c \in Top.children : OfApp(c)
  BY <1>1 DEF StackInv
<1>4. ChildOf(p, Top.pid) => OfApp(p)
  BY <1>1, <1>3 DEF ChildOf, FamilyInv, OfApp, Frame
<1>5. f \in Frame /\ f.pid = Top.pid /\ \A c \in f.children : OfApp(c)
  BY <1>1, <1>3, <1>4 DEF Frame
<1> QED BY <1>2, <1>5, TopKill DEF TypeOK

LEMMA KillKill ==
  ASSUME KillInv, Kill
  PROVE  /\ KillInv'
         /\ \A p \in Pid : proc'[p].st # proc[p].st => proc[p].app = app
<1> USE DEF KillInv, Kill
<1>1. Top.pid \in Pid /\ OfApp(Top.pid)
  BY TopFrame DEF StackInv, Frame
<1>2. CASE proc[Top.pid].st = "live"
  <2>1. proc' = Ended(Top.pid) /\ pc' = "children" /\ UNCHANGED <<stack, app, due>>
    BY <1>2
  <2>2. /\ proc' \in [Pid -> Process]
        /\ \A q \in Pid : /\ proc'[q].app = proc[q].app
                          /\ q # Top.pid => proc'[q].st = proc[q].st
                          /\ proc'[q].st = "unused" <=> proc[q].st = "unused"
                          /\ proc'[q].parent \in Pid => proc'[q].parent = proc[q].parent
    BY <1>1, <1>2, <2>1, EndedFacts
  <2>3. TypeOK'
    BY <2>1, <2>2 DEF TypeOK
  <2>4. FamilyInv' /\ \A q \in Pid : OfApp(q) => OfApp(q)'
    BY <2>1, <2>2, FamilyKept
  <2>5. StackInv'
    BY <2>1, <2>4, StackKept
  <2> QED BY <1>1, <2>2, <2>3, <2>4, <2>5 DEF OfApp
<1>3. CASE proc[Top.pid].st # "live"
  BY <1>3, PcKill
<1> QED BY <1>2, <1>3

\* The new call is for a child that was found, and that is of the app.
LEMMA RecurseKill ==
  ASSUME KillInv, Recurse
  PROVE  KillInv'
<1> USE DEF KillInv, Recurse
<1>1. Top \in Frame /\ Top = stack[1] /\ Len(stack) \in Nat \ {0}
  BY TopFrame
<1>2. PICK p \in Pid : Least(p, Top.children) /\ stack' = <<Call(p)>> \o ChildrenLeft(p)
  OBVIOUS
<1> DEFINE f == [Top EXCEPT !.children = @ \ {p}]
           rest == WithTop(f)
<1>3. f \in Frame /\ f.pid = Top.pid /\ f.children \subseteq Top.children
  BY <1>1 DEF Frame
<1>4. /\ rest \in Seq(Frame) /\ Len(rest) = Len(stack)
      /\ rest[1] = f /\ \A k \in 2 .. Len(stack) : rest[k] = stack[k]
  BY <1>3, NewTop
<1> HIDE DEF rest, f
<1>5. Call(p) \in Frame /\ Call(p).pid = p /\ Call(p).children = {}
  BY DEF Call, Frame
<1>6. /\ stack' \in Seq(Frame) /\ stack' # <<>> /\ Len(stack') = Len(stack) + 1
      /\ stack'[1] = Call(p) /\ \A k \in 2 .. Len(stack') : stack'[k] = rest[k - 1]
  <2>1. stack' = <<Call(p)>> \o rest
    BY <1>2 DEF ChildrenLeft, rest, f
  <2> DEFINE s == <<Call(p)>> \o rest
  <2>2. /\ s \in Seq(Frame) /\ s # <<>> /\ Len(s) = Len(rest) + 1 /\ s[1] = Call(p)
        /\ \A k \in 2 .. Len(rest) + 1 : s[k] = rest[k - 1]
    BY <1>4, <1>5, PushFrame
  <2> QED BY <1>4, <2>1, <2>2
<1>7. TypeOK'
  BY <1>6 DEF TypeOK, Frame
<1>8. FamilyInv'
  BY DEF FamilyInv
<1>9. StackInv'
  <2>1. OfApp(Top.pid) /\ \A c \in Top.children : OfApp(c)
    BY <1>1 DEF StackInv
  <2>2. OfApp(p)
    BY <1>2, <2>1 DEF Least
  <2>3. \A k \in 1 .. Len(stack) : OfApp(rest[k].pid) /\ \A c \in rest[k].children : OfApp(c)
    BY <1>1, <1>3, <1>4, <2>1 DEF StackInv
  <2>4. ASSUME NEW k \in 1 .. Len(stack')
        PROVE  OfApp(stack'[k].pid) /\ \A c \in stack'[k].children : OfApp(c)
    <3>1. CASE k = 1
      BY <1>5, <1>6, <2>2, <3>1
    <3>2. CASE k # 1
      <4>1. k \in 2 .. Len(stack') /\ k - 1 \in 1 .. Len(stack)
        BY <1>1, <1>6, <3>2
      <4> QED BY <1>6, <2>3, <4>1
    <3> QED BY <3>1, <3>2
  <2> QED BY <2>4 DEF StackInv, OfApp
<1> QED BY <1>7, <1>8, <1>9

LEMMA ReturnKill ==
  ASSUME KillInv, Return
  PROVE  KillInv'
<1> USE DEF KillInv, Return
<1>1. /\ Len(stack) \in Nat \ {0} /\ stack' \in Seq(Frame) /\ Len(stack') = Len(stack) - 1
      /\ \A k \in 1 .. Len(stack') : stack'[k] = stack[k + 1]
  BY TopFrame
<1>2. stack' = <<>> <=> Len(stack) = 1
  <2>1. stack' = <<>> <=> Len(stack') = 0
    BY <1>1, NoFrames
  <2> QED BY <1>1, <2>1
<1>3. TypeOK'
  BY <1>1, <1>2 DEF TypeOK, Frame
<1>4. FamilyInv'
  BY DEF FamilyInv
<1>5. ASSUME NEW k \in 1 .. Len(stack')
      PROVE  OfApp(stack'[k].pid) /\ \A c \in stack'[k].children : OfApp(c)
  <2>1. k + 1 \in 1 .. Len(stack)
    BY <1>1
  <2> QED BY <1>1, <2>1 DEF StackInv
<1>6. StackInv'
  BY <1>5 DEF StackInv, OfApp
<1> QED BY <1>3, <1>4, <1>6

LEMMA OpenKill ==
  ASSUME KillInv, Open
  PROVE  KillInv'
<1> DEFINE f == [Top EXCEPT !.unread = {p \in Pid : p <= PidLimit /\ Listed(p)}]
<1>1. Top \in Frame /\ Top = stack[1] /\ Len(stack) \in Nat \ {0}
  BY TopFrame DEF KillInv, Open
<1>2. f \in Frame /\ f.pid = Top.pid /\ f.children = Top.children
  BY <1>1 DEF Frame
<1>3. \A c \in Top.children : OfApp(c)
  BY <1>1 DEF KillInv, StackInv
<1>4. dirs' \in [Pid -> Nat]
  BY <1>1 DEF Open, KillInv, TypeOK, Frame
<1> QED BY <1>2, <1>3, <1>4, TopKill DEF Open

\* The daemon dies in the middle of the walk.
LEMMA ReadGoneKill ==
  ASSUME KillInv, ReadGone
  PROVE  KillInv'
<1>1. TypeOK'
  BY DEF KillInv, TypeOK, ReadGone
<1> QED BY <1>1 DEF KillInv, ReadGone, FamilyInv, StackInv

-------------------------------------------------------------------------------
(* The walk's types, and whom it kills *)

LEMMA NextKill ==
  ASSUME KillInv, [Next]_vars
  PROVE  KillInv'
<1>1. ASSUME NEW r \in Roots, Stop(r) PROVE KillInv'
  BY <1>1, StopKill
<1>2. CASE Walk
  <2>1. CASE OpenFails
    BY <2>1, PcKill DEF OpenFails
  <2>2. CASE ReadEnd
    BY <2>2, PcKill DEF ReadEnd
  <2> QED BY <1>2, <2>1, <2>2, OpenKill, ReadStatusKill, ReadGoneKill, KillKill, RecurseKill, ReturnKill DEF Walk
<1>3. ASSUME NEW p \in Pid, NEW c \in Pid, Fork(p, c) PROVE KillInv'
  BY <1>3, ForkKill
<1>4. ASSUME NEW p \in Pid, Exit(p) \/ Reap(p) PROVE KillInv'
  BY <1>4, ExitKill, ReapKill
<1>5. CASE UNCHANGED vars
  BY <1>5 DEF vars, KillInv, TypeOK, FamilyInv, StackInv, OfApp
<1> QED BY <1>1, <1>2, <1>3, <1>4, <1>5 DEF Next

LEMMA KillInvariant == Spec => []KillInv
<1> QED BY InitKill, NextKill, PTL DEF Spec

\* However many processes there are and whatever they do, the walk keeps to its types:
\* get_child_pids() returns processes, and the recursion returns to its callers.
THEOREM WalkTypeCorrect == Spec => []TypeOK
<1>1. KillInv => TypeOK
  BY DEF KillInv
<1> QED BY <1>1, KillInvariant, PTL

\* kill_process_by_pid() sends SIGKILL to processes of the stopped app only, although it
\* goes by what /proc said before the process ended or init took it over.
THEOREM OnlyAppKilledCorrect == Spec => OnlyAppKilled
<1>1. ASSUME KillInv, [Next]_vars, pc = "kill", pc' = "children", NEW p \in Pid, proc'[p].st # proc[p].st
      PROVE  proc[p].app = app
  <2>1. Kill
    BY <1>1 DEF Next, vars, walkVars, Walk, Stop, Fork, Exit, Reap, Open, OpenFails, ReadStatus,
                ReadGone, ReadEnd, Recurse, Return
  <2> QED BY <1>1, <2>1, KillKill
<1>2. KillInv /\ [Next]_vars =>
        [pc = "kill" /\ pc' = "children" =>
           \A p \in Pid : proc'[p].st # proc[p].st => proc[p].app = app]_vars
  BY <1>1
<1> QED BY <1>2, KillInvariant, PTL DEF Spec, OnlyAppKilled

-------------------------------------------------------------------------------
(***************************************************************************)
(* What the walk reaches.  A process it owes a kill may be several calls   *)
(* away, so the invariant speaks of sets of processes that leave nothing   *)
(* to find: whoever has what the calls under way are still to kill or to   *)
(* go into (Seeds), and with a process the children the walk can find      *)
(* (Tied), has every living process that is owed a kill.  When no call is  *)
(* left, the empty set is such a set.                                      *)
(***************************************************************************)

\* S has, with a process, its living children among those owed a kill that
\* get_child_pids() looks at.
Tied(S) ==
  \A c \in due : proc[c].st = "live" /\ c <= PidLimit /\ proc[c].parent \in S => c \in S

\* What the running calls are about to kill or to go into.
Seeds == {q \in Pid : \/ pc \in {"open", "read", "kill"} /\ q = Top.pid
                      \/ \E k \in 1 .. Len(stack) : q \in stack[k].children}

\* A parent lives: the children of one that ends go to init.
ParentsLive ==
  \A c \in Pid : proc[c].parent \in Pid => proc[proc[c].parent].st = "live" /\ proc[c].parent # c

DueStarted ==
  /\ pc = "idle" => due = {}
  /\ \A c \in due : proc[c].st # "unused"

\* c is a child of the process the running call is about, owed a kill.
DueChild(c) == c \in due /\ proc[c].st = "live" /\ c <= PidLimit /\ proc[c].parent = Top.pid

\* get_child_pids() has such a child in its answer or still has to read its status.
ChildrenFound ==
  /\ pc = "read" => \A c \in Pid : DueChild(c) => c \in Top.unread \cup Top.children
  /\ pc = "kill" => \A c \in Pid : DueChild(c) => c \in Top.children

Covers(S) == Seeds \subseteq S /\ Tied(S)
DueReached ==
  pc # "segv" =>
    \A S \in SUBSET Pid : Covers(S) => \A p \in due : proc[p].st = "live" => p \in S

DueInv == KillInv /\ ParentsLive /\ DueStarted /\ ChildrenFound /\ DueReached

-------------------------------------------------------------------------------
(* The steps, and what they leave to be reached *)

\* What is below D goes, or is still to be gone into: the rest is reached as before.
LEMMA ReachedKept ==
  ASSUME TypeOK, DueReached, pc # "segv", NEW D \in SUBSET Pid,
         due' \subseteq due, Seeds \subseteq Seeds' \cup D,
         \A c \in due' : proc'[c].st = "live" => proc[c].st = "live" /\ (c \in D => c \in Seeds'),
         \A c \in due : proc[c].st = "live" /\ c <= PidLimit =>
           /\ proc[c].parent \in D => c \in Seeds' \cup D
           /\ c \notin D => /\ c \in due' /\ proc'[c].st = "live"
                            /\ proc[c].parent \in Pid \ D => proc'[c].parent = proc[c].parent
  PROVE  DueReached'
<1> SUFFICES ASSUME NEW S \in SUBSET Pid, Covers(S)', NEW p \in due', proc'[p].st = "live"
             PROVE  p \in S
  BY DEF DueReached
<1>1. Seeds' \subseteq S
  BY DEF Covers
<1>2. Tied(S \cup D)
  <2> SUFFICES ASSUME NEW c \in due, proc[c].st = "live", c <= PidLimit, proc[c].parent \in S \cup D
               PROVE  c \in S \cup D
    BY DEF Tied
  <2>1. CASE proc[c].parent \in D
    BY <1>1, <2>1
  <2>2. CASE proc[c].parent \notin D /\ c \notin D
    <3>1. c \in due' /\ proc'[c].st = "live" /\ proc'[c].parent \in S
      BY <2>2
    <3> QED BY <3>1 DEF Covers, Tied
  <2> QED BY <2>1, <2>2
<1>3. p \in S \cup D
  BY <1>1, <1>2 DEF DueReached, Covers
<1> QED BY <1>1, <1>3

\* A step of the walk that kills nobody: what was to be gone into still is.
LEMMA WalkDue ==
  ASSUME DueInv, KillInv', pc \notin {"idle", "done", "segv"}, pc' \notin {"idle", "segv"},
         ChildrenFound', Seeds \subseteq Seeds', UNCHANGED <<proc, due>>
  PROVE  DueInv'
<1> USE DEF DueInv
<1>1. ParentsLive' /\ DueStarted'
  BY DEF ParentsLive, DueStarted
<1>2. DueReached'
  BY ReachedKept, {} \in SUBSET Pid DEF KillInv
<1> QED BY <1>1, <1>2

\* A process does what it does, and the walk waits: seeds and findings stay.
LEMMA ProcDue ==
  ASSUME DueInv, KillInv', UNCHANGED walkVars, ParentsLive', due' \subseteq due, NEW D \in SUBSET Pid,
         \A c \in due' : /\ proc'[c].st # "unused"
                         /\ proc'[c].st = "live" => proc[c].st = "live" /\ c \notin D
                         /\ proc'[c].parent \in Pid => proc'[c].parent = proc[c].parent,
         \A c \in due : proc[c].st = "live" /\ c <= PidLimit =>
           /\ proc[c].parent \in D => c \in D
           /\ c \notin D => /\ c \in due' /\ proc'[c].st = "live"
                            /\ proc[c].parent \in Pid \ D => proc'[c].parent = proc[c].parent
  PROVE  DueInv'
<1> USE DEF DueInv, walkVars
<1>1. Seeds' = Seeds
  BY DEF Seeds, Top
<1>2. DueStarted'
  BY DEF DueStarted
<1>3. ChildrenFound'
  <2>1. CASE pc \in {"read", "kill"}
    <3>1. Top' = Top /\ Top.pid \in Pid
      BY <2>1, TopFrame DEF KillInv, Frame, Top
    <3>2. \A c \in Pid : DueChild(c)' => DueChild(c)
      BY <3>1 DEF DueChild
    <3> QED BY <3>1, <3>2 DEF ChildrenFound
  <2> QED BY <2>1 DEF ChildrenFound
<1>4. DueReached'
  <2>1. CASE pc = "segv"
    BY <2>1 DEF DueReached
  <2>2. CASE pc # "segv"
    BY <1>1, <2>2, ReachedKept DEF KillInv
  <2> QED BY <2>1, <2>2
<1> QED BY <1>2, <1>3, <1>4

LEMMA InitDue == Init => DueInv
<1> SUFFICES ASSUME Init PROVE DueInv
  OBVIOUS
<1>1. Roots \subseteq Pid /\ Init1 \notin Pid /\ Daemon \notin Pid
  BY TreeAssumption DEF Pid
<1>2. ParentsLive
  BY <1>1 DEF Init, ParentsLive
<1>3. DueStarted /\ ChildrenFound /\ DueReached
  BY DEF Init, DueStarted, ChildrenFound, DueReached
<1> QED BY <1>2, <1>3, InitKill DEF DueInv

\* A process that is forked while the walk goes on is owed no kill.
LEMMA ForkDue ==
  ASSUME DueInv, NEW p \in Pid, NEW c \in Pid, Fork(p, c)
  PROVE  DueInv'
<1> USE DEF DueInv, Fork
<1>1. KillInv' /\ due' = due /\ due \subseteq Pid
  BY ForkKill DEF KillInv, TypeOK
<1>2. \A q \in Pid : proc'[q] = IF q = c THEN [st |-> "live", parent |-> p, app |-> proc[p].app] ELSE proc[q]
  BY DEF KillInv, TypeOK
<1>3. p # c /\ c \notin due
  BY DEF DueStarted
<1>4. \A q \in due : proc'[q] = proc[q]
  BY <1>1, <1>2, <1>3
<1>5. ParentsLive'
  BY <1>2, <1>3 DEF ParentsLive
<1> DEFINE D == {}
<1>6. D \in SUBSET Pid /\ \A q \in Pid : q \notin D
  OBVIOUS
<1> HIDE DEF D
<1>7. \A q \in due' : /\ proc'[q].st # "unused"
                      /\ proc'[q].st = "live" => proc[q].st = "live" /\ q \notin D
                      /\ proc'[q].parent \in Pid => proc'[q].parent = proc[q].parent
  BY <1>1, <1>4, <1>5, <1>6 DEF DueStarted
<1>8. \A q \in due : proc[q].st = "live" =>
        /\ proc[q].parent \notin D /\ q \in due' /\ proc'[q].st = "live"
        /\ proc[q].parent \in Pid \ D => proc'[q].parent = proc[q].parent
  BY <1>1, <1>4, <1>5, <1>6
<1> QED BY <1>1, <1>5, <1>6, <1>7, <1>8, ProcDue

LEMMA ReapDue ==
  ASSUME DueInv, NEW p \in Pid, Reap(p)
  PROVE  DueInv'
<1> USE DEF DueInv, Reap
<1>1. KillInv' /\ due' = due /\ due \subseteq Pid
  BY ReapKill DEF KillInv, TypeOK
<1>2. \A q \in Pid : proc'[q] = IF q = p THEN [proc[q] EXCEPT !.st = "gone"] ELSE proc[q]
  BY DEF KillInv, TypeOK
<1>3. \A q \in Pid : /\ proc'[q].parent = proc[q].parent
                     /\ q # p => proc'[q].st = proc[q].st
  BY <1>2 DEF KillInv, TypeOK, Process
<1>4. proc'[p].st = "gone"
  BY <1>2 DEF KillInv, TypeOK, Process
<1>5. ParentsLive'
  BY <1>3 DEF ParentsLive
<1> DEFINE D == {}
<1>6. D \in SUBSET Pid /\ \A q \in Pid : q \notin D
  OBVIOUS
<1> HIDE DEF D
<1>7. \A q \in due' : /\ proc'[q].st # "unused"
                      /\ proc'[q].st = "live" => proc[q].st = "live" /\ q \notin D
                      /\ proc'[q].parent \in Pid => proc'[q].parent = proc[q].parent
  BY <1>1, <1>3, <1>4, <1>5, <1>6 DEF DueStarted
<1>8. \A q \in due : proc[q].st = "live" =>
        /\ proc[q].parent \notin D /\ q \in due' /\ proc'[q].st = "live"
        /\ proc[q].parent \in Pid \ D => proc'[q].parent = proc[q].parent
  BY <1>1, <1>3, <1>4, <1>5, <1>6
<1> QED BY <1>1, <1>5, <1>6, <1>7, <1>8, ProcDue

\* What Ended(p) does to p and to its children.
LEMMA EndedMore ==
  ASSUME TypeOK, NEW p \in Pid
  PROVE  /\ Ended(p)[p].st = "zombie"
         /\ \A q \in Pid : /\ Ended(p)[q].parent = p => q = p
                           /\ proc[q].parent # p => Ended(p)[q].parent = proc[q].parent
<1>1. proc \in [Pid -> Process] /\ Init1 # p
  BY TreeAssumption DEF TypeOK, Pid
<1>2. ASSUME NEW q \in Pid
      PROVE  /\ q = p => Ended(p)[q].st = "zombie"
             /\ Ended(p)[q].parent = p => q = p
             /\ proc[q].parent # p => Ended(p)[q].parent = proc[q].parent
  <2>1. proc[q] \in Process
    BY <1>1
  <2>2. CASE q = p
    BY <2>1, <2>2 DEF Ended, Process
  <2>3. CASE q # p
    BY <1>1, <2>1, <2>3 DEF Ended, Process
  <2> QED BY <2>2, <2>3
<1> QED BY <1>2

\* The dead are nobody's parents.
LEMMA EndedParents ==
  ASSUME TypeOK, ParentsLive, NEW p \in Pid, proc[p].st = "live", proc' = Ended(p)
  PROVE  ParentsLive'
<1>1. \A q \in Pid : /\ q # p => Ended(p)[q].st = proc[q].st
                     /\ Ended(p)[q].parent \in Pid => Ended(p)[q].parent = proc[q].parent
                     /\ Ended(p)[q].parent = p => q = p
  BY EndedFacts, EndedMore
<1> QED BY <1>1 DEF ParentsLive

\* What was below a process that ends by itself is owed no kill any more.
LEMMA ExitDue ==
  ASSUME DueInv, NEW p \in Pid, Exit(p)
  PROVE  DueInv'
<1> USE DEF DueInv, Exit
<1>1. KillInv' /\ due' \subseteq due /\ due \subseteq Pid
  BY ExitKill DEF KillInv, TypeOK
<1>2. ParentsLive'
  BY EndedParents DEF KillInv
<1>3. /\ Below(p) \in SUBSET Pid /\ p \in Below(p)
      /\ \A c \in Pid : Listed(c) /\ proc[c].parent \in Below(p) => c \in Below(p)
  BY BelowClosed
<1>4. /\ proc'[p].st = "zombie"
      /\ \A q \in Pid : /\ q # p => proc'[q].st = proc[q].st
                        /\ proc'[q].st = "unused" <=> proc[q].st = "unused"
                        /\ proc'[q].parent \in Pid => proc'[q].parent = proc[q].parent
                        /\ proc[q].parent # p => proc'[q].parent = proc[q].parent
  BY EndedFacts, EndedMore DEF KillInv
<1>5. ASSUME NEW c \in due'
      PROVE  /\ proc'[c].st # "unused"
             /\ proc'[c].st = "live" => proc[c].st = "live" /\ c \notin Below(p)
             /\ proc'[c].parent \in Pid => proc'[c].parent = proc[c].parent
  BY <1>1, <1>4 DEF DueStarted
<1>6. ASSUME NEW c \in due, proc[c].st = "live"
      PROVE  /\ proc[c].parent \in Below(p) => c \in Below(p)
             /\ c \notin Below(p) =>
                  /\ c \in due' /\ proc'[c].st = "live"
                  /\ proc[c].parent \in Pid \ Below(p) => proc'[c].parent = proc[c].parent
  <2>1. proc[c].parent \in Below(p) => c \in Below(p)
    BY <1>1, <1>3, <1>6 DEF Listed
  <2>2. c \notin Below(p) => c \in due' /\ c # p
    BY <1>3
  <2>3. proc[c].parent \notin Below(p) => proc[c].parent # p
    BY <1>3
  <2> QED BY <1>1, <1>4, <1>6, <2>1, <2>2, <2>3
<1> QED BY <1>1, <1>2, <1>3, <1>5, <1>6, ProcDue

\* The walk owes a kill to what is in the tree of its root, through pids it looks at.
LEMMA StopDue ==
  ASSUME DueInv, NEW r \in Roots, Stop(r)
  PROVE  DueInv'
<1> USE DEF DueInv, Stop
<1>1. r \in Pid /\ KillInv' /\ Roots \subseteq Pid
  BY StopKill, TreeAssumption DEF Pid
<1>2. stack' = <<Call(r)>> /\ Top' = Call(r) /\ Len(stack') = 1 /\ stack'[1] = Call(r) /\ pc' = "open"
  BY DEF Top
<1>3. /\ Below(r) \subseteq Pid /\ r \in Below(r)
      /\ \A c \in Pid : Listed(c) /\ proc[c].parent \in Below(r) => c \in Below(r)
  BY <1>1, BelowClosed
<1>4. ParentsLive' /\ ChildrenFound'
  BY <1>2 DEF ParentsLive, ChildrenFound
<1>5. Seeds' = {r}
  BY <1>1, <1>2 DEF Seeds, Call
<1>6. DueStarted'
  \* Whoever is in the tree has been listed: a set without the unused ones is closed.
  <2>1. Below(r) \subseteq {q \in Pid : proc[q].st # "unused"}
    BY <1>1, BelowLeast DEF Listed, KillInv, FamilyInv
  <2> QED BY <1>2, <2>1 DEF DueStarted
<1>7. DueReached'
  <2> SUFFICES ASSUME NEW S \in SUBSET Pid, r \in S, Tied(S)', NEW p \in due', proc[p].st = "live"
               PROVE  p \in S
    BY <1>5 DEF DueReached, Covers
  <2>1. p \in Pid /\ p \in Below(r) /\ \A q \in Below(r) \ {r} : q > PidLimit => p \notin Below(q)
    BY <1>3
  \* Those between r and p, p included, are in S.
  <2> DEFINE T == {q \in Below(r) : p \in Below(q) => q \in S}
  <2>2. T \in SUBSET Pid /\ r \in T
    BY <1>3
  <2>3. ASSUME NEW c \in Pid, Listed(c), proc[c].parent \in T PROVE c \in T
    <3>1. proc[c].parent \in Pid /\ proc[c].parent \in Below(r) /\ c \in Below(r)
      BY <1>3, <2>3
    <3>2. SUFFICES ASSUME p \in Below(c), c # r PROVE c \in S
      BY <1>3, <3>1
    <3>3. c \in Below(proc[c].parent)
      BY <2>3, <3>1, BelowClosed
    <3>4. p \in Below(proc[c].parent)
      BY <3>1, <3>2, <3>3, BelowTrans
    <3>5. proc[c].parent \in S
      BY <2>3, <3>4
    <3>6. proc[c].st = "live"
      BY <3>2, BelowChild DEF ParentsLive
    <3>7. c <= PidLimit
      BY <2>1, <3>1, <3>2, TreeAssumption DEF Pid
    <3>8. c \in due'
      <4>1. ASSUME NEW q \in Below(r) \ {r}, q > PidLimit, c \in Below(q) PROVE FALSE
        BY <1>3, <2>1, <3>2, <4>1, BelowTrans
      <4> QED BY <3>1, <4>1
    <3> QED BY <3>5, <3>6, <3>7, <3>8 DEF Tied
  <2>4. Below(r) \subseteq T
    BY <1>1, <2>2, <2>3, BelowLeast
  <2>5. p \in Below(p)
    BY <2>1, BelowClosed
  <2> QED BY <2>1, <2>4, <2>5
<1> QED BY <1>1, <1>4, <1>6, <1>7

\* A step that changes only the running call, which keeps the children it has found.
LEMMA TopSeeds ==
  ASSUME KillInv, pc \notin {"idle", "done", "segv"}, pc' \in {"open", "read", "kill"},
         NEW f \in Frame, stack' = WithTop(f), f.pid = Top.pid, Top.children \subseteq f.children
  PROVE  Top' = f /\ Seeds \subseteq Seeds'
<1> USE DEF KillInv
<1>1. /\ stack' \in Seq(Frame) /\ stack' # <<>> /\ Len(stack') = Len(stack)
      /\ stack'[1] = f /\ \A k \in 2 .. Len(stack) : stack'[k] = stack[k]
  BY NewTop
<1>2. stack \in Seq(Frame) /\ Top = stack[1] /\ Len(stack) \in Nat \ {0}
  BY TopFrame
<1>3. Top' = f
  BY <1>1 DEF Top
<1>4. \A k \in 1 .. Len(stack) : stack[k].children \subseteq stack'[k].children
  BY <1>1, <1>2
<1> QED BY <1>1, <1>3, <1>4 DEF Seeds

LEMMA OpenDue ==
  ASSUME DueInv, Open
  PROVE  DueInv'
<1> USE DEF DueInv, Open
<1> DEFINE f == [Top EXCEPT !.unread = {p \in Pid : p <= PidLimit /\ Listed(p)}]
<1>1. Top \in Frame /\ KillInv'
  BY TopFrame, OpenKill DEF KillInv
<1>2. f \in Frame /\ f.pid = Top.pid /\ f.children = Top.children
      /\ f.unread = {p \in Pid : p <= PidLimit /\ Listed(p)}
  BY <1>1 DEF Frame
<1>3. stack' = WithTop(f)
  OBVIOUS
<1> HIDE DEF f
<1>4. Top' = f /\ Seeds \subseteq Seeds'
  BY <1>2, <1>3, TopSeeds
<1>5. ChildrenFound'
  BY <1>2, <1>4 DEF ChildrenFound, DueChild, Listed
<1> QED BY <1>1, <1>4, <1>5, WalkDue

\* The children of the running call's process are passed over no more than others are.
LEMMA ReadStatusDue ==
  ASSUME DueInv, ReadStatus
  PROVE  DueInv'
<1> USE DEF DueInv, ReadStatus
<1>1. Top \in Frame /\ KillInv'
  BY TopFrame, ReadStatusKill DEF KillInv
<1>2. PICK p \in Pid :
        /\ Least(p, Top.unread) /\ Listed(p)
        /\ stack' = WithTop([Top EXCEPT !.unread = @ \ {p},
                                        !.children = IF ChildOf(p, Top.pid) THEN @ \cup {p} ELSE @])
  OBVIOUS
<1> DEFINE f == [Top EXCEPT !.unread = @ \ {p},
                            !.children = IF ChildOf(p, Top.pid) THEN @ \cup {p} ELSE @]
<1>3. /\ f \in Frame /\ f.pid = Top.pid /\ f.unread = Top.unread \ {p}
      /\ f.children = IF ChildOf(p, Top.pid) THEN Top.children \cup {p} ELSE Top.children
  BY <1>1 DEF Frame
<1>4. stack' = WithTop(f) /\ pc = "read" /\ pc' = "read" /\ UNCHANGED <<proc, due>>
  BY <1>2
<1> HIDE DEF f
<1>5. Top' = f /\ Seeds \subseteq Seeds'
  BY <1>3, <1>4, TopSeeds
<1>6. ChildrenFound'
  <2>1. ASSUME NEW c \in Pid, DueChild(c)' PROVE c \in f.unread \cup f.children
    <3>1. DueChild(c) /\ ChildOf(c, Top.pid)
      BY <1>3, <1>4, <1>5, <2>1 DEF DueChild, ChildOf
    <3>2. c \in Top.unread \cup Top.children
      BY <1>4, <3>1 DEF ChildrenFound
    <3> QED BY <1>3, <3>1, <3>2
  <2> QED BY <1>4, <1>5, <2>1 DEF ChildrenFound
<1> QED BY <1>1, <1>4, <1>5, <1>6, WalkDue

LEMMA ReadEndDue ==
  ASSUME DueInv, ReadEnd
  PROVE  DueInv'
<1> USE DEF DueInv, ReadEnd
<1>1. KillInv'
  BY PcKill
<1>2. Top' = Top
  BY DEF Top
<1>3. Seeds \subseteq Seeds'
  BY <1>2 DEF Seeds
<1>4. ChildrenFound'
  BY <1>2 DEF ChildrenFound, DueChild
<1> QED BY <1>1, <1>3, <1>4, WalkDue

\* When /proc cannot be opened, what is below the process is not reached, nor owed.
LEMMA OpenFailsDue ==
  ASSUME DueInv, OpenFails
  PROVE  DueInv'
<1> USE DEF DueInv, OpenFails
<1>1. KillInv' /\ due' \subseteq due /\ due \subseteq Pid /\ Top.pid \in Pid
  BY PcKill, TopFrame DEF KillInv, TypeOK, Frame
<1>2. Top' = Top
  BY DEF Top
<1>3. Seeds' = Seeds /\ Top.pid \in Seeds'
  BY <1>1, <1>2 DEF Seeds
<1>4. ParentsLive' /\ DueStarted'
  BY <1>1 DEF ParentsLive, DueStarted
<1> DEFINE D == Below(Top.pid)
<1>5. /\ D \in SUBSET Pid /\ Top.pid \in D
      /\ \A c \in Pid : Listed(c) /\ proc[c].parent \in D => c \in D
  BY <1>1, BelowClosed
<1>6. due' = due \ (D \ {Top.pid}) /\ proc' = proc
  OBVIOUS
<1> HIDE DEF D
<1>7. ChildrenFound'
  <2>1. ASSUME NEW c \in Pid, DueChild(c)' PROVE FALSE
    BY <1>1, <1>2, <1>5, <1>6, <2>1 DEF DueChild, Listed, ParentsLive
  <2> QED BY <2>1 DEF ChildrenFound
<1>8. DueReached'
  <2>1. \A c \in due' : c \in D => c \in Seeds'
    BY <1>3, <1>6
  <2>2. ASSUME NEW c \in due, proc[c].st = "live"
        PROVE  /\ proc[c].parent \in D => c \in Seeds' \cup D
               /\ c \notin D => c \in due'
    BY <1>1, <1>5, <1>6, <2>2 DEF Listed
  <2> QED BY <1>1, <1>3, <1>5, <1>6, <2>1, <2>2, ReachedKept DEF KillInv
<1> QED BY <1>1, <1>4, <1>7, <1>8

\* The process is killed, its living children are known: the calls for them follow.
LEMMA KillDue ==
  ASSUME DueInv, Kill
  PROVE  DueInv'
<1> USE DEF DueInv, Kill
<1>1. /\ KillInv' /\ due' = due /\ due \subseteq Pid /\ pc' = "children" /\ stack' = stack
      /\ Top.pid \in Pid /\ Top = stack[1] /\ Len(stack) \in Nat \ {0} /\ Top.children \subseteq Pid
  BY KillKill, TopFrame DEF KillInv, TypeOK, Frame
<1> DEFINE p == Top.pid
<1>2. /\ proc'[p].st # "live"
      /\ \A q \in Pid : /\ q # p => proc'[q].st = proc[q].st
                        /\ proc'[q].st = "unused" <=> proc[q].st = "unused"
                        /\ proc[q].parent # p => proc'[q].parent = proc[q].parent
  <2>1. CASE proc[p].st = "live"
    BY <1>1, <2>1, EndedFacts, EndedMore DEF KillInv
  <2>2. CASE proc[p].st # "live"
    BY <2>2
  <2> QED BY <2>1, <2>2
<1>3. ParentsLive'
  BY <1>1, EndedParents DEF KillInv, ParentsLive
<1>4. DueStarted' /\ ChildrenFound'
  BY <1>1, <1>2 DEF DueStarted, ChildrenFound
<1>5. Seeds \subseteq Seeds' \cup {p} /\ Top.children \subseteq Seeds'
  BY <1>1 DEF Seeds
<1>6. ASSUME NEW c \in due, proc[c].st = "live", c <= PidLimit, proc[c].parent = p
      PROVE  c \in Seeds'
  BY <1>1, <1>5, <1>6 DEF ChildrenFound, DueChild
<1>7. {p} \in SUBSET Pid
  BY <1>1
<1>8. DueReached'
  <2> DEFINE D == {p}
  <2>1. D \in SUBSET Pid /\ Seeds \subseteq Seeds' \cup D /\ p \in D /\ \A c \in D : c = p
    BY <1>5, <1>7
  <2> HIDE DEF D
  <2>2. \A c \in due' : proc'[c].st = "live" => proc[c].st = "live" /\ (c \in D => c \in Seeds')
    BY <1>1, <1>2, <2>1
  <2>3. \A c \in due : proc[c].st = "live" /\ c <= PidLimit =>
          /\ proc[c].parent \in D => c \in Seeds' \cup D
          /\ c \notin D => /\ c \in due' /\ proc'[c].st = "live"
                           /\ proc[c].parent \in Pid \ D => proc'[c].parent = proc[c].parent
    BY <1>1, <1>2, <1>6, <2>1
  <2> HIDE DEF p
  <2> QED BY <1>1, <2>1, <2>2, <2>3, ReachedKept DEF KillInv
<1> QED BY <1>1, <1>3, <1>4, <1>8

\* The child that is gone into leaves the list, and is the next to be killed.
LEMMA RecurseDue ==
  ASSUME DueInv, Recurse
  PROVE  DueInv'
<1> USE DEF DueInv, Recurse
<1>1. Top \in Frame /\ Top = stack[1] /\ Len(stack) \in Nat \ {0} /\ KillInv'
  BY TopFrame, RecurseKill DEF KillInv
<1>2. PICK p \in Pid : Least(p, Top.children) /\ stack' = <<Call(p)>> \o ChildrenLeft(p)
  OBVIOUS
<1> DEFINE f == [Top EXCEPT !.children = @ \ {p}]
           rest == WithTop(f)
<1>3. f \in Frame /\ f.pid = Top.pid /\ f.children = Top.children \ {p}
  BY <1>1 DEF Frame
<1>4. /\ rest \in Seq(Frame) /\ Len(rest) = Len(stack)
      /\ rest[1] = f /\ \A k \in 2 .. Len(stack) : rest[k] = stack[k]
  BY <1>3, NewTop DEF KillInv
<1>5. stack' = <<Call(p)>> \o rest
  BY <1>2 DEF ChildrenLeft
<1> HIDE DEF rest, f
<1>6. Call(p) \in Frame /\ Call(p).pid = p
  BY DEF Call, Frame
<1>7. /\ stack' \in Seq(Frame) /\ stack' # <<>> /\ Len(stack') = Len(stack) + 1 /\ stack'[1] = Call(p)
      /\ \A k \in 2 .. Len(stack) + 1 : stack'[k] = rest[k - 1]
  <2> DEFINE s == <<Call(p)>> \o rest
  <2>1. /\ s \in Seq(Frame) /\ s # <<>> /\ Len(s) = Len(rest) + 1 /\ s[1] = Call(p)
        /\ \A k \in 2 .. Len(rest) + 1 : s[k] = rest[k - 1]
    BY <1>4, <1>6, PushFrame
  <2> QED BY <1>4, <1>5, <2>1
<1>8. Top'.pid = p /\ p \in Seeds'
  <2>1. Top' = stack'[1]
    BY <1>7 DEF Top
  <2> QED BY <1>6, <1>7, <2>1 DEF Seeds
<1>9. Seeds \subseteq Seeds'
  <2>1. ASSUME NEW q \in Pid, NEW k \in 1 .. Len(stack), q \in stack[k].children, q # p
        PROVE  \E j \in 1 .. Len(stack') : q \in stack'[j].children
    <3>1. q \in rest[k].children
      BY <1>1, <1>3, <1>4, <2>1
    <3>2. k + 1 \in 2 .. Len(stack) + 1 /\ (k + 1) - 1 = k /\ k + 1 \in 1 .. Len(stack')
      BY <1>1, <1>7
    <3>3. stack'[k + 1] = rest[k]
      BY <1>7, <3>2
    <3> QED BY <3>1, <3>2, <3>3
  <2> QED BY <1>8, <2>1 DEF Seeds
<1>10. ChildrenFound'
  BY DEF ChildrenFound
<1> QED BY <1>1, <1>9, <1>10, WalkDue

\* A call returns when it has gone into all the children it has found.
LEMMA ReturnDue ==
  ASSUME DueInv, Return
  PROVE  DueInv'
<1> USE DEF DueInv, Return
<1>1. /\ Len(stack) \in Nat \ {0} /\ Len(stack') = Len(stack) - 1 /\ Top = stack[1] /\ KillInv'
      /\ \A k \in 1 .. Len(stack') : stack'[k] = stack[k + 1]
  BY TopFrame, ReturnKill DEF KillInv
<1>2. Seeds \subseteq Seeds'
  <2>1. ASSUME NEW q \in Pid, NEW k \in 1 .. Len(stack), q \in stack[k].children
        PROVE  \E j \in 1 .. Len(stack') : q \in stack'[j].children
    <3>1. k # 1
      BY <1>1, <2>1
    <3>2. k - 1 \in 1 .. Len(stack') /\ (k - 1) + 1 = k
      BY <1>1, <3>1
    <3>3. stack'[k - 1] = stack[k]
      BY <1>1, <3>2
    <3> QED BY <2>1, <3>2, <3>3
  <2> QED BY <2>1 DEF Seeds
<1>3. ChildrenFound'
  BY DEF ChildrenFound
<1> QED BY <1>1, <1>2, <1>3, WalkDue

\* The daemon dies: there is no end of the walk to speak of.
LEMMA ReadGoneDue ==
  ASSUME DueInv, ReadGone
  PROVE  DueInv'
<1>1. KillInv'
  BY ReadGoneKill DEF DueInv
<1> QED BY <1>1 DEF DueInv, ReadGone, ParentsLive, DueStarted, ChildrenFound, DueReached

LEMMA NextDue ==
  ASSUME DueInv, [Next]_vars
  PROVE  DueInv'
<1>1. ASSUME NEW r \in Roots, Stop(r) PROVE DueInv'
  BY <1>1, StopDue
<1>2. CASE Walk
  BY <1>2, OpenDue, OpenFailsDue, ReadStatusDue, ReadGoneDue, ReadEndDue, KillDue, RecurseDue, ReturnDue DEF Walk
<1>3. ASSUME NEW p \in Pid, NEW c \in Pid, Fork(p, c) PROVE DueInv'
  BY <1>3, ForkDue
<1>4. ASSUME NEW p \in Pid, Exit(p) \/ Reap(p) PROVE DueInv'
  BY <1>4, ExitDue, ReapDue
<1>5. CASE UNCHANGED vars
  <2>1. KillInv'
    BY <1>5, NextKill DEF DueInv
  <2> QED BY <1>5, <2>1 DEF vars, DueInv, ParentsLive, DueStarted, ChildrenFound, DueChild,
                            DueReached, Covers, Tied, Seeds, Top
<1> QED BY <1>1, <1>2, <1>3, <1>4, <1>5 DEF Next

\* Whatever forks, ends, is waited for or is handed to init in the meantime: when
\* server_stop_process() has walked the tree of an app, every process that was in it is
\* dead, but for those cut off because a process above them ended by itself, its
\* children could not be listed, or its pid is beyond what get_child_pids() looks at.
THEOREM StoppedDiesCorrect == Spec => []StoppedDies
<1>1. Spec => []DueInv
  BY InitDue, NextDue, PTL DEF Spec
<1>2. ASSUME DueInv PROVE StoppedDies
  <2> SUFFICES ASSUME pc = "done", NEW p \in due PROVE proc[p].st # "live"
    BY DEF StoppedDies
  <2>1. stack = <<>> /\ Seeds = {}
    BY <1>2 DEF DueInv, KillInv, TypeOK, Seeds
  <2>2. Covers({}) /\ {} \in SUBSET Pid
    BY <2>1 DEF Covers, Tied
  <2> QED BY <1>2, <2>2 DEF DueInv, DueReached
<1> QED BY <1>1, <1>2, PTL

-------------------------------------------------------------------------------
(***************************************************************************)
(* The walk comes to no process twice.  It finds a process as the child of *)
(* the one it is about to kill, and afterwards that process is nobody's    *)
(* child within the app: init has it, or it is dead.                       *)
(***************************************************************************)

\* c is nobody's child any more, or it is of the process that is to be killed next.
Orphan(c) == proc[c].parent \notin Pid
Found(k, c) ==
  /\ dirs[c] = 0
  /\ Orphan(c) \/ (k = 1 /\ pc \in {"read", "kill"} /\ proc[c].parent = Top.pid)
  /\ \A j \in 1 .. Len(stack) : c \in stack[j].children => j = k

\* No directory has been opened for the root at first, nor for a child that was found;
\* and a child has been found in one call only.
OnceInv ==
  /\ \A r \in Roots : Orphan(r)
  /\ pc = "idle" => \A p \in Pid : dirs[p] = 0
  /\ \A p \in Pid : dirs[p] > 0 => dirs[p] = 1 /\ OfApp(p) /\ Orphan(p)
  /\ pc = "open" => /\ dirs[Top.pid] = 0 /\ Orphan(Top.pid)
                    /\ \A k \in 1 .. Len(stack) : Top.pid \notin stack[k].children
  /\ \A k \in 1 .. Len(stack) : \A c \in stack[k].children : Found(k, c)

\* The calls under way are of the app that is being stopped.
LEMMA CallFacts ==
  ASSUME KillInv, NEW k \in 1 .. Len(stack)
  PROVE  /\ stack[k].pid \in Pid /\ OfApp(stack[k].pid)
         /\ stack[k].children \subseteq Pid /\ \A c \in stack[k].children : OfApp(c)
<1>1. stack \in Seq(Frame)
  BY DEF KillInv, TypeOK, Frame
<1>2. stack[k] \in Frame
  BY <1>1
<1> QED BY <1>2 DEF KillInv, StackInv, Frame

LEMMA InitOnce == Init => OnceInv
<1> SUFFICES ASSUME Init PROVE OnceInv
  OBVIOUS
<1>1. Roots \subseteq Pid /\ Daemon \notin Pid
  BY TreeAssumption DEF Pid
<1>2. \A r \in Roots : Orphan(r)
  BY <1>1 DEF Init, Orphan
<1>3. Len(stack) = 0 /\ pc = "idle" /\ \A p \in Pid : dirs[p] = 0
  BY DEF Init
<1> QED BY <1>2, <1>3 DEF OnceInv

\* The processes of the walk get no new parents.
LEMMA ProcOnce ==
  ASSUME DueInv, OnceInv, UNCHANGED walkVars,
         \A q \in Pid : OfApp(q) => OfApp(q)',
         \A q \in Pid : proc[q].st # "unused" /\ proc'[q].parent \in Pid =>
                          proc'[q].parent = proc[q].parent
  PROVE  OnceInv'
<1> USE DEF walkVars
<1>1. stack' = stack /\ pc' = pc /\ dirs' = dirs /\ Top' = Top /\ Roots \subseteq Pid
  BY TreeAssumption DEF Top, Pid
<1>2. \A q \in Pid : OfApp(q) /\ Orphan(q) => Orphan(q)'
  BY DEF OfApp, Orphan
<1>3. \A r \in Roots : Orphan(r)'
  BY <1>1 DEF OnceInv, DueInv, KillInv, FamilyInv, Orphan
<1>4. \A p \in Pid : dirs'[p] > 0 => dirs'[p] = 1 /\ OfApp(p)' /\ Orphan(p)'
  BY <1>1, <1>2 DEF OnceInv
<1>5. \A k \in 1 .. Len(stack) : /\ stack[k].pid \in Pid /\ OfApp(stack[k].pid)
                                 /\ \A c \in stack[k].children : c \in Pid /\ OfApp(c)
  BY CallFacts DEF DueInv
<1>6. pc = "open" => Orphan(Top.pid)'
  <2>1. pc = "open" => Top = stack[1] /\ Len(stack) \in Nat \ {0}
    BY TopFrame DEF DueInv, KillInv
  <2> QED BY <1>1, <1>2, <1>5, <2>1 DEF OnceInv, Orphan
<1>7. ASSUME NEW k \in 1 .. Len(stack), NEW c \in stack[k].children
      PROVE  Found(k, c)'
  <2>1. Found(k, c) /\ c \in Pid /\ OfApp(c)
    BY <1>5 DEF OnceInv
  <2>2. Orphan(c)' \/ (k = 1 /\ pc \in {"read", "kill"} /\ proc'[c].parent = Top.pid)
    BY <1>2, <2>1 DEF Found, Orphan, OfApp
  <2> QED BY <1>1, <2>1, <2>2 DEF Found
<1> QED BY <1>1, <1>3, <1>4, <1>6, <1>7 DEF OnceInv

\* What happens to the processes of the machine.
LEMMA MachineOnce ==
  ASSUME DueInv, OnceInv, NEW p \in Pid,
         (\E c \in Pid : Fork(p, c)) \/ Exit(p) \/ Reap(p)
  PROVE  OnceInv'
<1> USE DEF DueInv, KillInv
<1>1. ASSUME NEW c \in Pid, Fork(p, c) PROVE OnceInv'
  <2>1. \A q \in Pid : q # c => proc'[q] = proc[q]
    BY <1>1 DEF Fork, TypeOK
  <2> QED BY <1>1, <2>1, ProcOnce DEF Fork, OfApp, walkVars
<1>2. CASE Exit(p)
  <2>1. \A q \in Pid : /\ proc'[q].app = proc[q].app
                       /\ proc'[q].st = "unused" <=> proc[q].st = "unused"
                       /\ proc'[q].parent \in Pid => proc'[q].parent = proc[q].parent
    BY <1>2, EndedFacts DEF Exit
  <2> QED BY <1>2, <2>1, ProcOnce DEF Exit, OfApp, walkVars
<1>3. CASE Reap(p)
  <2>1. \A q \in Pid : proc'[q] = IF q = p THEN [proc[q] EXCEPT !.st = "gone"] ELSE proc[q]
    BY <1>3 DEF Reap, TypeOK
  <2>2. \A q \in Pid : /\ proc'[q].app = proc[q].app /\ proc'[q].parent = proc[q].parent
                       /\ proc[q].st # "unused" => proc'[q].st # "unused"
    BY <2>1 DEF TypeOK, Process
  <2> QED BY <1>3, <2>2, ProcOnce DEF Reap, OfApp, walkVars
<1> QED BY <1>1, <1>2, <1>3

\* The walk starts with no directory opened, at a root, which is no child.
LEMMA StopOnce ==
  ASSUME DueInv, OnceInv, NEW r \in Roots, Stop(r)
  PROVE  OnceInv'
<1> USE DEF Stop
<1>1. r \in Pid /\ stack' = <<Call(r)>> /\ Top' = Call(r) /\ Len(stack') = 1 /\ stack'[1] = Call(r)
  BY TreeAssumption DEF Pid, Top
<1>2. Call(r).pid = r /\ Call(r).children = {}
  BY DEF Call
<1> QED BY <1>1, <1>2 DEF OnceInv, Orphan

\* get_child_pids() opens the directory for a process it has not been called for.
LEMMA OpenOnce ==
  ASSUME DueInv, OnceInv, Open
  PROVE  OnceInv'
<1> USE DEF Open
<1> DEFINE f == [Top EXCEPT !.unread = {p \in Pid : p <= PidLimit /\ Listed(p)}]
<1>1. KillInv /\ Top \in Frame /\ Top = stack[1] /\ Len(stack) \in Nat \ {0}
  BY TopFrame DEF DueInv, KillInv
<1>2. f \in Frame /\ f.pid = Top.pid /\ f.children = Top.children /\ stack' = WithTop(f)
  BY <1>1 DEF Frame
<1> HIDE DEF f
<1>3. /\ Len(stack') = Len(stack) /\ stack'[1] = f
      /\ \A k \in 2 .. Len(stack) : stack'[k] = stack[k]
  <2>1. /\ Len(WithTop(f)) = Len(stack) /\ WithTop(f)[1] = f
        /\ \A k \in 2 .. Len(stack) : WithTop(f)[k] = stack[k]
    BY <1>1, <1>2, NewTop DEF KillInv
  <2> QED BY <1>2, <2>1
<1>4. Top.pid \in Pid /\ OfApp(Top.pid)
  BY <1>1 DEF Frame, KillInv, StackInv
<1>5. \A p \in Pid : dirs'[p] = IF p = Top.pid THEN 1 ELSE dirs[p]
  BY <1>1, <1>4 DEF OnceInv, KillInv, TypeOK
<1>6. UNCHANGED <<proc, app>> /\ pc = "open" /\ pc' = "read"
  OBVIOUS
<1>7. \A p \in Pid : dirs'[p] > 0 => dirs'[p] = 1 /\ OfApp(p)' /\ Orphan(p)'
  BY <1>4, <1>5, <1>6 DEF OnceInv, OfApp, Orphan
<1>8. ASSUME NEW k \in 1 .. Len(stack) PROVE stack'[k].children = stack[k].children
  <2>1. CASE k = 1
    BY <1>1, <1>2, <1>3, <2>1
  <2>2. CASE k # 1
    BY <1>1, <1>3, <2>2
  <2> QED BY <2>1, <2>2
<1>9. ASSUME NEW k \in 1 .. Len(stack), NEW c \in stack[k].children PROVE Found(k, c)'
  <2>1. Found(k, c) /\ c # Top.pid /\ c \in Pid
    BY <1>1, <1>6, CallFacts DEF OnceInv
  <2> QED BY <1>3, <1>5, <1>6, <1>8, <2>1 DEF Found, Orphan
<1> QED BY <1>3, <1>6, <1>7, <1>8, <1>9 DEF OnceInv, Orphan

\* The answer grows by a child of the running call's process: no other call has it.
LEMMA ReadStatusOnce ==
  ASSUME DueInv, OnceInv, ReadStatus
  PROVE  OnceInv'
<1> USE DEF ReadStatus
<1>1. KillInv /\ Top \in Frame /\ Top = stack[1] /\ Len(stack) \in Nat \ {0}
  BY TopFrame DEF DueInv, KillInv
<1>2. PICK p \in Pid :
        stack' = WithTop([Top EXCEPT !.unread = @ \ {p},
                                     !.children = IF ChildOf(p, Top.pid) THEN @ \cup {p} ELSE @])
  OBVIOUS
<1> DEFINE f == [Top EXCEPT !.unread = @ \ {p},
                            !.children = IF ChildOf(p, Top.pid) THEN @ \cup {p} ELSE @]
<1>3. /\ f \in Frame /\ f.pid = Top.pid /\ stack' = WithTop(f)
      /\ f.children = IF ChildOf(p, Top.pid) THEN Top.children \cup {p} ELSE Top.children
  BY <1>1, <1>2 DEF Frame
<1> HIDE DEF f
<1>4. /\ Len(stack') = Len(stack) /\ stack'[1] = f /\ stack' # <<>>
      /\ \A k \in 2 .. Len(stack) : stack'[k] = stack[k]
  BY <1>1, <1>3, NewTop DEF KillInv
<1>5. UNCHANGED <<proc, app, dirs>> /\ pc = "read" /\ pc' = "read" /\ Top'.pid = Top.pid
  <2>1. stack' \in Seq(Frame) /\ Top' = stack'[1]
    BY <1>1, <1>3, <1>4, NewTop DEF KillInv, Top
  <2> QED BY <1>3, <1>4, <2>1
<1>6. Top.pid \in Pid /\ stack[1].children \subseteq stack'[1].children
  BY <1>1, <1>3, <1>4 DEF Frame
<1>7. ChildOf(p, Top.pid) =>
        dirs[p] = 0 /\ \A k \in 2 .. Len(stack) : p \notin stack[k].children
  <2>1. ASSUME ChildOf(p, Top.pid) PROVE ~Orphan(p)
    BY <1>6, <2>1 DEF ChildOf, Orphan
  <2>2. ASSUME ~Orphan(p) PROVE dirs[p] = 0
    BY <1>1, <2>2 DEF OnceInv, KillInv, TypeOK
  <2>3. ASSUME ~Orphan(p), NEW k \in 2 .. Len(stack) PROVE p \notin stack[k].children
    BY <1>1, <2>3 DEF OnceInv, Found
  <2> QED BY <2>1, <2>2, <2>3
<1>8. ASSUME NEW k \in 1 .. Len(stack), NEW c \in stack'[k].children PROVE Found(k, c)'
  <2>1. CASE c \in stack[k].children
    <3>1. Found(k, c)
      BY <2>1 DEF OnceInv
    <3>2. ASSUME NEW j \in 1 .. Len(stack), c \in stack'[j].children PROVE j = k
      <4>1. CASE c \in stack[j].children
        BY <3>1, <4>1 DEF Found
      <4>2. CASE c \notin stack[j].children
        <5>1. j = 1 /\ c = p /\ ChildOf(p, Top.pid)
          BY <1>1, <1>3, <1>4, <3>2, <4>2
        <5> QED BY <1>1, <1>7, <2>1, <5>1
      <4> QED BY <4>1, <4>2
    <3> QED BY <1>4, <1>5, <3>1, <3>2 DEF Found, Orphan
  <2>2. CASE c \notin stack[k].children
    <3>1. k = 1 /\ c = p /\ ChildOf(p, Top.pid)
      BY <1>1, <1>3, <1>4, <1>8, <2>2
    <3>2. \A j \in 1 .. Len(stack) : c \in stack'[j].children => j = 1
      BY <1>4, <1>7, <3>1
    <3> QED BY <1>4, <1>5, <1>7, <3>1, <3>2 DEF Found, ChildOf
  <2> QED BY <2>1, <2>2
<1> QED BY <1>4, <1>5, <1>8 DEF OnceInv, OfApp, Orphan

\* Steps that leave processes, calls and directories alone.
LEMMA PcOnce ==
  ASSUME DueInv, OnceInv, OpenFails \/ ReadEnd
  PROVE  OnceInv'
<1>1. /\ UNCHANGED <<proc, stack, app, dirs>> /\ pc \in {"open", "read"} /\ pc' = "kill"
      /\ Top' = Top
  BY DEF OpenFails, ReadEnd, Top
<1>2. ASSUME NEW k \in 1 .. Len(stack), NEW c \in stack[k].children PROVE Found(k, c)'
  <2>1. Found(k, c)
    BY DEF OnceInv
  <2> QED BY <1>1, <2>1 DEF Found, Orphan
<1> QED BY <1>1, <1>2 DEF OnceInv, OfApp, Orphan

\* Once its process is dead, what a call has found is nobody's child.
LEMMA KillOnce ==
  ASSUME DueInv, OnceInv, Kill
  PROVE  OnceInv'
<1> USE DEF DueInv, Kill
<1>1. /\ KillInv' /\ pc' = "children" /\ UNCHANGED <<stack, app, dirs>>
      /\ Top.pid \in Pid /\ Roots \subseteq Pid
  BY KillKill, TopFrame, TreeAssumption DEF KillInv, Frame, Pid
<1> DEFINE p == Top.pid
<1>2. \A q \in Pid : /\ proc'[q].app = proc[q].app
                     /\ proc'[q].st = "unused" <=> proc[q].st = "unused"
                     /\ proc'[q].parent \in Pid => proc'[q].parent = proc[q].parent
                     /\ proc'[q].parent # p
  <2>1. CASE proc[p].st = "live"
    BY <1>1, <2>1, EndedFacts, EndedMore DEF KillInv, ParentsLive
  <2>2. CASE proc[p].st # "live"
    BY <1>1, <2>2 DEF ParentsLive
  <2> QED BY <2>1, <2>2
<1>3. \A q \in Pid : /\ Orphan(q) => Orphan(q)'
                     /\ OfApp(q) => OfApp(q)'
                     /\ proc[q].parent = p => Orphan(q)'
  BY <1>1, <1>2 DEF Orphan, OfApp
<1>4. \A k \in 1 .. Len(stack) : stack[k].children \subseteq Pid
  BY CallFacts
<1> HIDE DEF p
<1>5. ASSUME NEW k \in 1 .. Len(stack), NEW c \in stack[k].children PROVE Found(k, c)'
  <2>1. Found(k, c) /\ c \in Pid
    BY <1>4 DEF OnceInv
  <2>2. Orphan(c)'
    BY <1>3, <2>1 DEF Found, p
  <2> QED BY <1>1, <2>1, <2>2 DEF Found
<1> QED BY <1>1, <1>3, <1>5 DEF OnceInv

\* The child that is gone into is in no list any more.
LEMMA RecurseOnce ==
  ASSUME DueInv, OnceInv, Recurse
  PROVE  OnceInv'
<1> USE DEF DueInv, Recurse
<1>1. Top \in Frame /\ Top = stack[1] /\ Len(stack) \in Nat \ {0} /\ pc = "children"
  BY TopFrame DEF KillInv
<1>2. PICK p \in Pid : Least(p, Top.children) /\ stack' = <<Call(p)>> \o ChildrenLeft(p)
  OBVIOUS
<1> DEFINE f == [Top EXCEPT !.children = @ \ {p}]
           rest == WithTop(f)
<1>3. f \in Frame /\ f.pid = Top.pid /\ f.children = Top.children \ {p}
  BY <1>1 DEF Frame
<1>4. /\ rest \in Seq(Frame) /\ Len(rest) = Len(stack)
      /\ rest[1] = f /\ \A k \in 2 .. Len(stack) : rest[k] = stack[k]
  BY <1>3, NewTop DEF KillInv
<1>5. stack' = <<Call(p)>> \o rest
  BY <1>2 DEF ChildrenLeft
<1> HIDE DEF rest, f
<1>6. Call(p) \in Frame /\ Call(p).pid = p /\ Call(p).children = {}
  BY DEF Call, Frame
<1>7. /\ Len(stack') = Len(stack) + 1 /\ stack'[1] = Call(p) /\ Top' = Call(p)
      /\ \A k \in 2 .. Len(stack) + 1 : stack'[k] = rest[k - 1]
  <2> DEFINE s == <<Call(p)>> \o rest
  <2>1. /\ s \in Seq(Frame) /\ s # <<>> /\ Len(s) = Len(rest) + 1 /\ s[1] = Call(p)
        /\ \A k \in 2 .. Len(rest) + 1 : s[k] = rest[k - 1]
    BY <1>4, <1>6, PushFrame
  <2> HIDE DEF s
  <2> QED BY <1>4, <1>5, <2>1 DEF Top, s
<1>8. p \in stack[1].children
  BY <1>1, <1>2 DEF Least
<1>9. Found(1, p) /\ dirs[p] = 0 /\ Orphan(p)
  BY <1>1, <1>8 DEF OnceInv, Found
<1>10. UNCHANGED <<proc, app, dirs>> /\ pc' = "open"
  OBVIOUS
\* A child in a list of the new stack was in the list of the call below it.
<1>11. ASSUME NEW k \in 1 .. Len(stack'), NEW c \in stack'[k].children
       PROVE  k - 1 \in 1 .. Len(stack) /\ c \in stack[k - 1].children /\ c # p
  <2>1. k # 1
    BY <1>6, <1>7, <1>11
  <2>2. k \in 2 .. Len(stack) + 1 /\ k - 1 \in 1 .. Len(stack)
    BY <1>1, <1>7, <2>1
  <2>3. c \in rest[k - 1].children
    BY <1>7, <1>11, <2>2
  <2>4. CASE k - 1 = 1
    BY <1>1, <1>3, <1>4, <2>2, <2>3, <2>4
  <2>5. CASE k - 1 # 1
    <3>1. k - 1 \in 2 .. Len(stack)
      BY <2>2, <2>5
    <3>2. c \in stack[k - 1].children
      BY <1>4, <2>3, <3>1
    <3> QED BY <1>9, <2>2, <2>5, <3>2 DEF Found
  <2> QED BY <2>4, <2>5
<1>12. ASSUME NEW k \in 1 .. Len(stack'), NEW c \in stack'[k].children PROVE Found(k, c)'
  <2>1. k - 1 \in 1 .. Len(stack) /\ Found(k - 1, c)
    BY <1>11 DEF OnceInv
  <2>2. Orphan(c) /\ dirs[c] = 0
    BY <1>1, <2>1 DEF Found
  <2>3. ASSUME NEW j \in 1 .. Len(stack'), c \in stack'[j].children PROVE j = k
    <3>1. j - 1 \in 1 .. Len(stack) /\ c \in stack[j - 1].children
      BY <1>11, <2>3
    <3>2. j - 1 = k - 1
      BY <2>1, <3>1 DEF Found
    <3>3. j \in Int /\ k \in Int
      OBVIOUS
    <3> QED BY <3>2, <3>3
  <2> QED BY <1>10, <2>2, <2>3 DEF Found, Orphan
<1>13. /\ dirs'[Top'.pid] = 0 /\ Orphan(Top.pid)'
       /\ \A k \in 1 .. Len(stack') : Top'.pid \notin stack'[k].children
  <2>1. Top'.pid = p
    BY <1>6, <1>7
  <2>2. dirs'[p] = 0 /\ proc'[p].parent \notin Pid
    BY <1>9, <1>10 DEF Orphan
  <2>3. \A k \in 1 .. Len(stack') : p \notin stack'[k].children
    BY <1>11
  <2> QED BY <2>1, <2>2, <2>3 DEF Orphan
<1> QED BY <1>10, <1>12, <1>13 DEF OnceInv, OfApp, Orphan

LEMMA ReturnOnce ==
  ASSUME DueInv, OnceInv, Return
  PROVE  OnceInv'
<1> USE DEF DueInv, Return
<1>1. /\ Len(stack) \in Nat \ {0} /\ Len(stack') = Len(stack) - 1 /\ Top = stack[1]
      /\ \A k \in 1 .. Len(stack') : stack'[k] = stack[k + 1]
  BY TopFrame DEF KillInv
<1>2. UNCHANGED <<proc, app, dirs>> /\ pc = "children" /\ pc' \in {"children", "done"}
  OBVIOUS
<1>3. ASSUME NEW k \in 1 .. Len(stack'), NEW c \in stack'[k].children PROVE Found(k, c)'
  <2>1. k + 1 \in 1 .. Len(stack) /\ c \in stack[k + 1].children
    BY <1>1, <1>3
  <2>2. Found(k + 1, c)
    BY <2>1 DEF OnceInv
  <2>3. ASSUME NEW j \in 1 .. Len(stack'), c \in stack'[j].children PROVE j = k
    <3>1. j + 1 \in 1 .. Len(stack) /\ c \in stack[j + 1].children
      BY <1>1, <2>3
    <3>2. j + 1 = k + 1
      BY <2>2, <3>1 DEF Found
    <3>3. j \in Int /\ k \in Int
      OBVIOUS
    <3> QED BY <3>2, <3>3
  <2>4. Orphan(c) /\ dirs[c] = 0
    BY <1>2, <2>2 DEF Found
  <2> QED BY <1>2, <2>3, <2>4 DEF Found, Orphan
<1> QED BY <1>2, <1>3 DEF OnceInv, OfApp, Orphan

LEMMA ReadGoneOnce ==
  ASSUME DueInv, OnceInv, ReadGone
  PROVE  OnceInv'
<1>1. Len(stack') = 0 /\ pc' = "segv" /\ UNCHANGED <<proc, app, dirs>>
  BY DEF ReadGone
<1> QED BY <1>1 DEF OnceInv, OfApp, Orphan

LEMMA NextOnce ==
  ASSUME DueInv, OnceInv, [Next]_vars
  PROVE  OnceInv'
<1>1. CASE UNCHANGED vars
  BY <1>1, ProcOnce DEF vars, walkVars, OfApp
<1>2. CASE Walk
  BY <1>2, OpenOnce, PcOnce, ReadStatusOnce, ReadGoneOnce, KillOnce, RecurseOnce, ReturnOnce DEF Walk
<1> QED BY <1>1, <1>2, StopOnce, MachineOnce DEF Next

\* Whatever the processes do, a stop leaves at most one directory open for each process
\* of the app and none for others: what get_child_pids() costs a daemon is bounded by
\* the processes its apps have had, and kill_process_by_pid() calls itself no oftener.
THEOREM OneDirCorrect == Spec => []OneDirEach
<1>1. Init => DueInv /\ OnceInv
  BY InitDue, InitOnce
<1>2. DueInv /\ OnceInv /\ [Next]_vars => DueInv' /\ OnceInv'
  BY NextDue, NextOnce
<1>3. OnceInv => OneDirEach
  BY DEF OnceInv, OneDirEach, OfApp
<1> QED BY <1>1, <1>2, <1>3, PTL DEF Spec
===============================================================================
