------------------------ MODULE KbpmServerAppsProofs ------------------------
(***************************************************************************)
(* Theorems about KbpmServer, part 5: it implements KbpmApps.  First what  *)
(* the daemon's operations do to the registry and the programs KbpmApps    *)
(* sees, then one step for each action.                                    *)
(***************************************************************************)
EXTENDS KbpmServerApps, KbpmServerMutexProofs, SequenceTheorems

-------------------------------------------------------------------------------
(* The list as a registry *)

\* A row of the registry.
AppRec == [app : AppName, run : BOOLEAN]

\* Entry i of the array is position i + 1 of the registry.
LEMMA ListRows ==
  ASSUME NEW l \in [Slot -> Entry], NEW n \in 0 .. ListSize
  PROVE  /\ ListOf(l, n) \in Seq(AppRec)
         /\ Len(ListOf(l, n)) = n /\ DOMAIN ListOf(l, n) = 1 .. n
         /\ \A i \in 0 .. n - 1 : /\ i \in Slot /\ i + 1 \in 1 .. n
                                  /\ ListOf(l, n)[i + 1].app = l[i].app
                                  /\ ListOf(l, n)[i + 1].run = l[i].is_running
<1>1. \A i \in 1 .. n : i - 1 \in Slot /\ l[i - 1] \in Entry
  BY ServerAssumption DEF Slot
<1>2. ListOf(l, n) \in [1 .. n -> AppRec]
  BY <1>1 DEF ListOf, AppRec, Entry
<1>3. n \in Nat
  BY ServerAssumption
<1>4. ListOf(l, n) \in Seq(AppRec) /\ Len(ListOf(l, n)) = n /\ DOMAIN ListOf(l, n) = 1 .. n
  BY <1>2, <1>3
<1>5. ASSUME NEW i \in 0 .. n - 1
      PROVE  /\ i \in Slot /\ i + 1 \in 1 .. n
             /\ ListOf(l, n)[i + 1].app = l[i].app
             /\ ListOf(l, n)[i + 1].run = l[i].is_running
  <2>1. i \in Slot /\ i + 1 \in 1 .. n /\ (i + 1) - 1 = i
    BY <1>3, ServerAssumption DEF Slot
  <2>2. ListOf(l, n)[i + 1] = [app |-> l[i].app, run |-> l[i].is_running]
    BY <2>1 DEF ListOf
  <2>3. QED BY <2>1, <2>2
<1>6. QED BY <1>4, <1>5

\* Ids, pids and start times do not count.
LEMMA ListSame ==
  ASSUME NEW l, NEW m, NEW n \in 0 .. ListSize,
         \A i \in 0 .. n - 1 : m[i].app = l[i].app /\ m[i].is_running = l[i].is_running
  PROVE  ListOf(m, n) = ListOf(l, n)
<1>1. \A j \in 1 .. n : j - 1 \in 0 .. n - 1
  BY ServerAssumption
<1>2. QED BY <1>1 DEF ListOf

\* Marking one entry, or clearing its mark.
LEMMA ListMarked ==
  ASSUME NEW l \in [Slot -> Entry], NEW n \in 0 .. ListSize, NEW i \in 0 .. n - 1, NEW m,
         \A j \in 0 .. n - 1 : /\ m[j].app = l[j].app
                               /\ j # i => m[j].is_running = l[j].is_running
  PROVE  ListOf(m, n) = [ListOf(l, n) EXCEPT ![i + 1].run = m[i].is_running]
<1> DEFINE s == ListOf(l, n)
<1>1. /\ DOMAIN s = 1 .. n
      /\ \A j \in 1 .. n : s[j] = [app |-> l[j - 1].app, run |-> l[j - 1].is_running]
  BY DEF ListOf
<1>2. n \in Nat /\ i + 1 \in 1 .. n /\ (i + 1) - 1 = i
  BY ServerAssumption
<1>3. \A j \in 1 .. n : j - 1 \in 0 .. n - 1 /\ (j - 1 = i => j = i + 1)
  BY <1>2
<1>4. ASSUME NEW j \in 1 .. n
      PROVE  [app |-> m[j - 1].app, run |-> m[j - 1].is_running]
               = [s EXCEPT ![i + 1].run = m[i].is_running][j]
  <2>1. CASE j = i + 1
    BY <1>1, <1>2, <1>3, <2>1
  <2>2. CASE j # i + 1
    BY <1>1, <1>2, <1>3, <2>2
  <2>3. QED BY <2>1, <2>2
<1>5. DOMAIN [s EXCEPT ![i + 1].run = m[i].is_running] = 1 .. n
  BY <1>1
<1>6. ListOf(m, n) = [j \in 1 .. n |-> [s EXCEPT ![i + 1].run = m[i].is_running][j]]
  BY <1>4 DEF ListOf
<1>7. QED BY <1>5, <1>6

\* One more entry.
LEMMA ListAppended ==
  ASSUME NEW l \in [Slot -> Entry], NEW m \in [Slot -> Entry], NEW n \in 0 .. ListSize - 1,
         \A j \in 0 .. n - 1 : m[j].app = l[j].app /\ m[j].is_running = l[j].is_running
  PROVE  ListOf(m, n + 1) = Append(ListOf(l, n), [app |-> m[n].app, run |-> m[n].is_running])
<1> DEFINE e == [app |-> m[n].app, run |-> m[n].is_running]
<1>1. n \in 0 .. ListSize /\ n + 1 \in 0 .. ListSize /\ n \in Slot /\ n \in Nat
  BY ServerAssumption DEF Slot
<1>2. e \in AppRec
  BY <1>1 DEF AppRec, Entry
<1>3. /\ ListOf(l, n) \in Seq(AppRec) /\ Len(ListOf(l, n)) = n
      /\ ListOf(m, n + 1) \in Seq(AppRec) /\ Len(ListOf(m, n + 1)) = n + 1
  BY <1>1, ListRows
<1>4. /\ Append(ListOf(l, n), e) \in Seq(AppRec) /\ Len(Append(ListOf(l, n), e)) = n + 1
      /\ \A j \in 1 .. n : Append(ListOf(l, n), e)[j] = ListOf(l, n)[j]
      /\ Append(ListOf(l, n), e)[n + 1] = e
  BY <1>2, <1>3, AppendProperties
<1>5. ASSUME NEW j \in 1 .. n + 1 PROVE ListOf(m, n + 1)[j] = Append(ListOf(l, n), e)[j]
  <2>1. ListOf(m, n + 1)[j] = [app |-> m[j - 1].app, run |-> m[j - 1].is_running]
    BY DEF ListOf
  <2>2. CASE j = n + 1
    BY <1>1, <1>4, <2>1, <2>2
  <2>3. CASE j # n + 1
    <3>1. j \in 1 .. n /\ j - 1 \in 0 .. n - 1
      BY <1>1, <2>3
    <3>2. ListOf(l, n)[j] = [app |-> l[j - 1].app, run |-> l[j - 1].is_running]
      BY <3>1 DEF ListOf
    <3>3. QED BY <1>4, <2>1, <3>1, <3>2
  <2>4. QED BY <2>2, <2>3
<1>6. QED BY <1>3, <1>4, <1>5, SeqEqual

\* One entry less.
LEMMA ListDeleted ==
  ASSUME NEW l \in [Slot -> Entry], NEW n \in 1 .. ListSize, NEW k \in 0 .. n - 1, NEW m,
         \A j \in 0 .. n - 2 :
           LET from == IF j < k THEN j ELSE j + 1
           IN  m[j].app = l[from].app /\ m[j].is_running = l[from].is_running
  PROVE  ListOf(m, n - 1) = A!Without(ListOf(l, n), k + 1)
<1> DEFINE s == ListOf(l, n)
<1>1. n \in 0 .. ListSize /\ n \in Nat /\ Len(s) = n
  BY ListRows, ServerAssumption
<1>2. \A j \in 1 .. n : s[j] = [app |-> l[j - 1].app, run |-> l[j - 1].is_running]
  BY DEF ListOf
<1>3. A!Without(s, k + 1) = [j \in 1 .. n - 1 |-> IF j < k + 1 THEN s[j] ELSE s[j + 1]]
  BY <1>1 DEF A!Without
<1> HIDE DEF s
<1>4. ASSUME NEW j \in 1 .. n - 1
      PROVE  [app |-> m[j - 1].app, run |-> m[j - 1].is_running]
               = IF j < k + 1 THEN s[j] ELSE s[j + 1]
  <2>1. /\ j - 1 \in 0 .. n - 2 /\ (j - 1) + 1 = j
        /\ j \in 1 .. n /\ j + 1 \in 1 .. n /\ (j + 1) - 1 = j
    BY <1>1
  <2>2. CASE j < k + 1
    <3>1. j - 1 < k
      BY <1>1, <2>1, <2>2
    <3>2. m[j - 1].app = l[j - 1].app /\ m[j - 1].is_running = l[j - 1].is_running
      BY <2>1, <3>1
    <3>3. QED BY <1>2, <2>1, <2>2, <3>2
  <2>3. CASE ~(j < k + 1)
    <3>1. ~(j - 1 < k)
      BY <1>1, <2>1, <2>3
    <3>2. m[j - 1].app = l[j].app /\ m[j - 1].is_running = l[j].is_running
      BY <2>1, <3>1
    <3>3. QED BY <1>2, <2>1, <2>3, <3>2
  <2>4. QED BY <2>2, <2>3
<1>5. ListOf(m, n - 1)
        = [j \in 1 .. n - 1 |-> [app |-> m[j - 1].app, run |-> m[j - 1].is_running]]
  BY DEF ListOf
<1>6. ListOf(m, n - 1) = A!Without(s, k + 1)
  BY <1>3, <1>4, <1>5
<1>7. QED BY <1>6 DEF s

-------------------------------------------------------------------------------
(* The process table as a set of running apps *)

\* AliveOf, for any process table.
AliveIn(t) == {a \in Apps : \E p \in Pid : t[p].st = "live" /\ t[p].app = a}

\* fork() adds an app to those that run.
LEMMA AliveForked ==
  ASSUME NEW t \in [Pid -> Process], NEW p \in Pid, t[p].st = "free", NEW a \in Apps
  PROVE  AliveIn(Forked(t, p, a)) = AliveIn(t) \cup {a}
<1>1. /\ Forked(t, p, a)[p].st = "live" /\ Forked(t, p, a)[p].app = a
      /\ \A q \in Pid : q # p => Forked(t, p, a)[q] = t[q]
  BY DEF Forked
<1>2. QED BY <1>1 DEF AliveIn

\* An entry without a process, or whose process was waited for, has none alive.
LEMMA NoneAlive ==
  ASSUME NEW l, NEW n \in 0 .. ListSize, NEW k, NEW t \in [Pid -> Process], NEW hand,
         Filled(l, n), Agrees(l, n, k, t, hand, 0),
         NEW i \in 0 .. n - 1, l[i].pid = 0 \/ l[i].pid = hand
  PROVE  l[i].app \notin AliveIn(t)
<1>1. ASSUME NEW p \in Pid, t[p].st = "live", t[p].app = l[i].app PROVE FALSE
  <2>1. PICK j \in 0 .. n - 1 : l[j].pid = p /\ l[j].app = t[p].app
    BY <1>1 DEF Agrees, Pid
  <2>2. j = i
    BY <1>1, <2>1 DEF Filled
  <2>3. QED BY <1>1, <2>1, <2>2 DEF Agrees, Pid
<1>2. QED BY <1>1 DEF AliveIn

\* Killing the process of an entry is the end of its app and of no other.
LEMMA AliveKilled ==
  ASSUME NEW l, NEW n \in 0 .. ListSize, NEW t \in [Pid -> Process], NEW hand,
         Filled(l, n), Agrees(l, n, n, t, hand, 0), NEW i \in 0 .. n - 1, l[i].is_running
  PROVE  AliveIn(Killed(t, l[i].pid)) = AliveIn(t) \ {l[i].app}
<1> DEFINE q == l[i].pid
<1>1. q \in Pid
  BY ServerAssumption DEF Agrees
<1>2. \A p \in Pid : /\ p # q => Killed(t, q)[p] = t[p]
                     /\ Killed(t, q)[q].st # "live"
  BY <1>1 DEF Killed, Process
<1>3. \A p \in Pid : t[p].st = "live" => (t[p].app = l[i].app <=> p = q)
  <2>1. SUFFICES ASSUME NEW p \in Pid, t[p].st = "live" PROVE t[p].app = l[i].app <=> p = q
    OBVIOUS
  <2>2. PICK j \in 0 .. n - 1 : l[j].pid = p /\ l[j].app = t[p].app
    BY <2>1 DEF Agrees, Pid
  <2>3. t[p].app = l[i].app => j = i
    BY <2>2 DEF Filled
  <2>4. p = q => j = i
    BY <1>1, <2>2 DEF Agrees, Pid
  <2>5. QED BY <2>2, <2>3, <2>4
<1> HIDE DEF q
<1>4. QED BY <1>1, <1>2, <1>3 DEF AliveIn, q

\* A daemon that is gone has none.
LEMMA AliveGone ==
  ASSUME NEW t \in [Pid -> Process], NEW u \in {Orphaned(t), GroupKilled(t)}
  PROVE  AliveIn(u) = {}
<1>1. \A p \in Pid : u[p].st # "live"
  BY DEF Orphaned, GroupKilled, Process, Free
<1>2. QED BY <1>1 DEF AliveIn

-------------------------------------------------------------------------------
(* What each step of KbpmApps asks of the daemon *)

\* The phase, by where the socket thread is; before a step and after it.
LEMMA Phases ==
  /\ sock.pc = "write" => PhaseOf = "saving"
  /\ sock.pc \in {"startall", "stopall", "respond", "save"} => PhaseOf = "busy"
  /\ sock.pc \notin {"startall", "stopall", "respond", "save", "write"} => PhaseOf = "ready"
  /\ sock'.pc = "write" => PhaseOf' = "saving"
  /\ sock'.pc \in {"startall", "stopall", "respond", "save"} => PhaseOf' = "busy"
  /\ sock'.pc \notin {"startall", "stopall", "respond", "save", "write"} => PhaseOf' = "ready"
BY DEF PhaseOf

\* Nothing that KbpmApps sees has changed.
LEMMA Stutters ==
  ASSUME UNCHANGED <<IsUp, AppsOf, AliveOf, FileOf, PhaseOf>>
  PROVE  [A!AppsNext]_(A!appsVars)
BY DEF A!appsVars

\* The daemon is at a request, before the file is emptied.
Asked == IsUp /\ IsUp' /\ PhaseOf # "saving" /\ PhaseOf' = "busy" /\ UNCHANGED FileOf

\* What KbpmApps requires of every request.
LEMMA AskedRequest == Asked => A!Request
<1>1. IsUp \in BOOLEAN /\ IsUp' \in BOOLEAN
  BY DEF IsUp
<1>2. QED BY <1>1 DEF Asked, A!Request

\* Ping, status, and what is refused.
LEMMA Serves == ASSUME Asked, UNCHANGED <<AppsOf, AliveOf>> PROVE A!AppsNext
BY AskedRequest DEF A!AppsNext, A!RequestNext, A!Serve

\* A new app.
LEMMA Adds ==
  ASSUME Asked, PhaseOf = "ready", NEW a \in Apps, a \notin A!Names(AppsOf),
         AppsOf' = Append(AppsOf, [app |-> a, run |-> TRUE]),
         AliveOf' = AliveOf \cup {a}
  PROVE  A!AppsNext
BY AskedRequest DEF A!AppsNext, A!RequestNext, A!Add, A!NewRequest

\* A stopped app starts.
LEMMA Starts ==
  ASSUME Asked, NEW i \in DOMAIN AppsOf, ~AppsOf[i].run,
         AppsOf' = [AppsOf EXCEPT ![i].run = TRUE],
         AliveOf' = AliveOf \cup {AppsOf[i].app}
  PROVE  A!AppsNext
BY AskedRequest DEF A!AppsNext, A!RequestNext, A!Start

\* A running app stops.
LEMMA Stops ==
  ASSUME Asked, NEW i \in DOMAIN AppsOf, AppsOf[i].run,
         AppsOf' = [AppsOf EXCEPT ![i].run = FALSE],
         AliveOf' = AliveOf \ {AppsOf[i].app}
  PROVE  A!AppsNext
BY AskedRequest DEF A!AppsNext, A!RequestNext, A!Stop

\* A running app restarts.
LEMMA Restarts ==
  ASSUME Asked, PhaseOf = "ready", NEW i \in DOMAIN AppsOf, AppsOf[i].run,
         AppsOf' = AppsOf,
         AliveOf' = AliveOf \cup {AppsOf[i].app}
  PROVE  A!AppsNext
BY AskedRequest DEF A!AppsNext, A!RequestNext, A!Restart, A!NewRequest

\* An app is removed.
LEMMA Removes ==
  ASSUME Asked, PhaseOf = "ready", NEW i \in DOMAIN AppsOf,
         AppsOf' = A!Without(AppsOf, i),
         AliveOf' = AliveOf \ {AppsOf[i].app}
  PROVE  A!AppsNext
BY AskedRequest DEF A!AppsNext, A!RequestNext, A!Remove, A!NewRequest

\* A dead app is launched.
LEMMA Relaunches ==
  ASSUME IsUp, NEW i \in DOMAIN AppsOf, AppsOf[i].run, AppsOf[i].app \notin AliveOf,
         AliveOf' = AliveOf \cup {AppsOf[i].app},
         UNCHANGED <<IsUp, AppsOf, FileOf, PhaseOf>>
  PROVE  A!AppsNext
BY DEF A!AppsNext, A!ServiceNext, A!Relaunch

\* A dead app is given up.
LEMMA GivesUp ==
  ASSUME IsUp, PhaseOf = "ready", NEW i \in DOMAIN AppsOf,
         AppsOf[i].run, AppsOf[i].app \notin AliveOf,
         AppsOf' = [AppsOf EXCEPT ![i].run = FALSE],
         UNCHANGED <<IsUp, AliveOf, FileOf, PhaseOf>>
  PROVE  A!AppsNext
BY DEF A!AppsNext, A!ServiceNext, A!GiveUp

\* A program ends.
LEMMA EndsOne ==
  ASSUME NEW a \in AliveOf, AliveOf' = AliveOf \ {a},
         UNCHANGED <<IsUp, AppsOf, FileOf, PhaseOf>>
  PROVE  A!AppsNext
BY DEF A!AppsNext, A!ServiceNext, A!Ends

-------------------------------------------------------------------------------
(* The state the daemon is in, seen through KbpmApps *)

\* The invariants the steps below start from.
Good == Inv /\ ChildInv /\ MutexHeld /\ OneChildPerApp /\ ~raced

\* What they give.
LEMMA GoodFacts ==
  ASSUME Good
  PROVE  /\ process_list \in [Slot -> Entry] /\ process_count \in 0 .. ListSize
         /\ proc \in [Pid -> Process] /\ main \in MainThread /\ sock \in SockThread
         /\ client \in Client
         /\ Filled(process_list, process_count)
         /\ main.pc # "off" \/ sock.pc # "off" => IsUp
         /\ AliveOf = AliveIn(proc) /\ AliveOf' = AliveIn(proc')
BY DEF Good, Inv, TypeOK, ListInv, ChildInv, DownInv, IsUp, AliveOf, AliveIn

\* Entry i of the daemon's list.
LEMMA UsedFacts ==
  ASSUME Good, NEW i \in Used
  PROVE  /\ i \in 0 .. process_count - 1 /\ i \in Slot
         /\ process_list[i] \in Entry /\ process_list[i].app \in Apps
         /\ i + 1 \in DOMAIN AppsOf
         /\ AppsOf[i + 1].app = process_list[i].app
         /\ AppsOf[i + 1].run = process_list[i].is_running
<1>1. /\ process_list \in [Slot -> Entry] /\ process_count \in 0 .. ListSize
      /\ Filled(process_list, process_count)
  BY GoodFacts
<1>2. i \in 0 .. process_count - 1 /\ i \in Slot /\ i < process_count
  BY <1>1, ServerAssumption DEF Used, Slot
<1>3. process_list[i] \in Entry /\ process_list[i].app \in Apps
  BY <1>1, <1>2 DEF Entry, AppName, Filled
<1>4. QED BY <1>1, <1>2, <1>3, ListRows DEF AppsOf

\* What KbpmApps sees of a step that only touches ids, pids and start times.
LEMMA SameList ==
  ASSUME Good, UNCHANGED process_count,
         \A i \in Used : /\ process_list'[i].app = process_list[i].app
                         /\ process_list'[i].is_running = process_list[i].is_running
  PROVE  AppsOf' = AppsOf
BY GoodFacts, ListSame DEF AppsOf, Used

\* The file is seen through its entries only.
LEMMA SameFile == ASSUME UNCHANGED config PROVE UNCHANGED FileOf
BY DEF FileOf, ListOf, get_process_list_count

\* A step that leaves list, processes and file alone, and the phase what it was.
LEMMA Unseen ==
  ASSUME UNCHANGED <<server, process_list, process_count, proc, config, PhaseOf>>
  PROVE  [A!AppsNext]_(A!appsVars)
<1>1. UNCHANGED <<IsUp, AppsOf, AliveOf, FileOf>>
  BY SameFile DEF IsUp, AppsOf, AliveOf, ListOf
<1>2. QED BY <1>1, Stutters

\* The daemon goes down, with or without its children.
LEMMA GoesDown ==
  ASSUME Good, IsUp, NEW cause \in DownCause, NEW t \in [Pid -> Process], NEW u,
         u \in {Orphaned(t), GroupKilled(t)},
         ServerDies(cause, u)
  PROVE  A!AppsNext
<1>1. IsUp \in BOOLEAN /\ IsUp' = FALSE
  BY DEF IsUp, ServerDies, DownCause
<1>2. AppsOf' = <<>>
  <2>1. process_list' \in [Slot -> Entry] /\ process_count' = 0
    BY BlankTypes DEF ServerDies
  <2>2. 0 \in 0 .. ListSize
    BY ServerAssumption
  <2>3. ListOf(process_list', 0) \in Seq(AppRec) /\ Len(ListOf(process_list', 0)) = 0
    BY <2>1, <2>2, ListRows
  <2>4. ListOf(process_list', 0) = <<>>
    BY <2>3, EmptySeq
  <2>5. QED BY <2>1, <2>4 DEF AppsOf
<1>3. AliveOf' = {}
  BY GoodFacts, AliveGone DEF ServerDies
<1>4. PhaseOf' = "ready"
  BY Phases DEF ServerDies, SockOff
<1>5. UNCHANGED FileOf
  BY SameFile DEF ServerDies, fileVars
<1>6. QED BY <1>1, <1>2, <1>3, <1>4, <1>5 DEF A!AppsNext, A!ServiceNext, A!Down

\* server_start_process, seen through KbpmApps: what it does when the fork succeeds.
LaunchedApp(l, n, i, t, next) ==
  /\ UNCHANGED <<server, main, config>> /\ sock' = next /\ process_count' = n
  /\ AliveIn(proc') = AliveIn(t) \cup {l[i].app}
  /\ \A j \in 0 .. n - 1 : /\ process_list'[j].app = l[j].app
                           /\ j # i => process_list'[j].is_running = l[j].is_running
  /\ process_list'[i].is_running = TRUE
  /\ process_list' \in [Slot -> Entry]

\* It does that, or fails and the daemon leaves.
LEMMA LaunchMaps ==
  ASSUME NEW l \in [Slot -> Entry], NEW n \in 0 .. ListSize, NEW i \in 0 .. n - 1,
         l[i].app \in Apps, NEW t \in [Pid -> Process], NEW next,
         \A p \in Pid : proc[p].st = "free" => t[p].st = "free",
         Launch(l, n, i, t, next), ~ServerDies("exit", Orphaned(t))
  PROVE  LaunchedApp(l, n, i, t, next)
<1>1. PICK p \in Forkable :
        /\ proc' = Forked(t, p, l[i].app)
        /\ process_list' = [l EXCEPT ![i] = Started(l[i], p)]
        /\ process_count' = n /\ sock' = next
        /\ UNCHANGED <<server, main, config>>
  BY DEF Launch, fileVars
<1>2. p \in Pid /\ t[p].st = "free" /\ i \in Slot /\ l[i] \in Entry
  BY ServerAssumption DEF Forkable, Slot
<1>3. /\ Started(l[i], p) \in Entry /\ Started(l[i], p).app = l[i].app
      /\ Started(l[i], p).is_running = TRUE
  <2>1. Started(l[i], p) \in Entry /\ Started(l[i], p).app = l[i].app
    BY <1>2, EntryTypes
  <2>2. Started(l[i], p).is_running = TRUE
    BY <1>2 DEF Started, Entry
  <2>3. QED BY <2>1, <2>2
<1>4. AliveIn(proc') = AliveIn(t) \cup {l[i].app}
  BY <1>1, <1>2, AliveForked
<1> DEFINE e == Started(l[i], p)
<1>5. /\ process_list' = [l EXCEPT ![i] = e] /\ e \in Entry /\ e.app = l[i].app
      /\ e.is_running = TRUE
  BY <1>1, <1>3
<1> HIDE DEF e
<1>6. \A j \in 0 .. n - 1 : j \in Slot /\ process_list'[j] = IF j = i THEN e ELSE l[j]
  BY <1>5, ServerAssumption DEF Slot
<1>7. process_list' \in [Slot -> Entry]
  BY <1>2, <1>5
<1>8. QED BY <1>1, <1>4, <1>5, <1>6, <1>7 DEF LaunchedApp

\* server_stop_process on a used slot, behind the boot loop.
LEMMA StopMaps ==
  ASSUME Good, ~Booting, NEW i \in Used
  PROVE  /\ AliveIn(KilledAt(i)) = AliveIn(proc) \ {process_list[i].app}
         /\ StoppedAt(i) \in [Slot -> Entry]
         /\ \A j \in Used : /\ StoppedAt(i)[j].app = process_list[j].app
                            /\ j # i => StoppedAt(i)[j] = process_list[j]
         /\ StoppedAt(i)[i].is_running = FALSE
<1>1. /\ process_list \in [Slot -> Entry] /\ process_count \in 0 .. ListSize
      /\ proc \in [Pid -> Process] /\ Filled(process_list, process_count)
      /\ i \in 0 .. process_count - 1 /\ i \in Slot /\ process_list[i] \in Entry
  BY GoodFacts, UsedFacts
<1>2. Agrees(process_list, process_count, process_count, proc, Hand, 0)
  BY Settled DEF Good
<1>3. AliveIn(KilledAt(i)) = AliveIn(proc) \ {process_list[i].app}
  <2>1. CASE process_list[i].is_running
    BY <1>1, <1>2, <2>1, AliveKilled DEF KilledAt
  <2>2. CASE ~process_list[i].is_running
    <3>1. process_list[i].pid = 0
      BY <1>1, <1>2, <2>2 DEF Agrees
    <3>2. process_list[i].app \notin AliveIn(proc)
      BY <1>1, <1>2, <3>1, NoneAlive
    <3>3. QED BY <2>2, <3>2 DEF KilledAt
  <2>3. QED BY <2>1, <2>2
<1>4. /\ Stopped(process_list[i]) \in Entry
      /\ Stopped(process_list[i]).app = process_list[i].app
      /\ Stopped(process_list[i]).is_running = FALSE
  <2>1. Stopped(process_list[i]) \in Entry /\ Stopped(process_list[i]).app = process_list[i].app
    BY <1>1, EntryTypes
  <2>2. Stopped(process_list[i]).is_running = FALSE
    BY <1>1 DEF Stopped, Entry
  <2>3. QED BY <2>1, <2>2
<1> DEFINE e == Stopped(process_list[i])
<1>5. /\ StoppedAt(i) = [process_list EXCEPT ![i] = e]
      /\ e \in Entry /\ e.app = process_list[i].app /\ e.is_running = FALSE
  BY <1>4 DEF StoppedAt
<1> HIDE DEF e
<1>6. \A j \in Used : j \in Slot
  BY UsedFacts
<1>7. QED BY <1>1, <1>3, <1>5, <1>6

-------------------------------------------------------------------------------
(* The steps of the main thread *)

\* `kbpm service start` brings back the saved list.
LEMMA StartMaps == ASSUME Good, ServiceStart PROVE A!AppsNext
<1>1. PICK n \in 0 .. ListSize : Filled(config, n)
  BY DEF Good, Inv, ListInv
<1>2. get_process_list_count(config) = n
  BY <1>1, CountLemma
<1>3. /\ ~IsUp /\ IsUp' = TRUE /\ UNCHANGED <<proc, config>>
      /\ process_list' = Loaded(config) /\ process_count' = n
      /\ sock.pc = "off" /\ sock'.pc = "accept"
  BY <1>2 DEF ServiceStart, IsUp, LoadedCount, SockOff, Good, ChildInv, DownInv
<1>4. \A i \in 0 .. n - 1 : /\ Loaded(config)[i].app = config[i].app
                            /\ Loaded(config)[i].is_running = config[i].is_running
  <2>1. \A i \in Slot : Loaded(config)[i] = [Blank EXCEPT !.app = config[i].app,
                                                          !.is_running = config[i].is_running]
    BY DEF Loaded
  <2>2. \A i \in Slot : /\ Loaded(config)[i].app = config[i].app
                        /\ Loaded(config)[i].is_running = config[i].is_running
    BY <2>1 DEF Blank
  <2>3. \A i \in 0 .. n - 1 : i \in Slot
    BY ServerAssumption DEF Slot
  <2>4. QED BY <2>2, <2>3
<1>5. AppsOf' = FileOf
  <2>1. ListOf(Loaded(config), n) = ListOf(config, n)
    BY <1>4, ListSame
  <2>2. QED BY <1>2, <1>3, <2>1 DEF AppsOf, FileOf
<1>6. UNCHANGED <<AliveOf, FileOf, PhaseOf>>
  BY <1>3, SameFile, Phases DEF AliveOf
<1>7. QED BY <1>3, <1>5, <1>6 DEF A!AppsNext, A!ServiceNext, A!Boot

\* A launch for an entry that is marked running and has no process any more, from the
\* boot loop or from the supervisor loop.
LEMMA FallenIsDead ==
  ASSUME Good, NEW i \in Used, process_list[i].is_running,
         \/ main.pc = "boot_fork" /\ i = main.i
         \/ main.pc = "scan" /\ i \in Hit
  PROVE  process_list[i].app \notin AliveOf
<1>1. /\ process_count \in 0 .. ListSize /\ proc \in [Pid -> Process]
      /\ Filled(process_list, process_count) /\ AliveOf = AliveIn(proc)
      /\ i \in 0 .. process_count - 1
  BY GoodFacts, UsedFacts
<1>2. CASE main.pc = "boot_fork" /\ i = main.i
  <2>1. Agrees(process_list, process_count, main.i, proc, 0, 0)
    BY <1>2 DEF Good, ChildInv, ListedInv, LaunchedCount, Hand, Newborn, Booting, BootPc
  <2>2. process_list[i].pid = 0
    BY <1>1, <1>2, <2>1 DEF Agrees
  <2>3. QED BY <1>1, <2>1, <2>2, NoneAlive
<1>3. CASE main.pc = "scan" /\ i \in Hit
  <2>1. Agrees(process_list, process_count, process_count, proc, main.pid, 0)
    BY <1>3, Settled DEF Good, Hand, Booting, BootPc
  <2>2. process_list[i].pid = main.pid
    BY <1>3 DEF Hit
  <2>3. QED BY <1>1, <2>1, <2>2, NoneAlive
<1>4. QED BY <1>2, <1>3

\* Boot numbers entries, launches what is marked running and records it; the
\* supervisor relaunches or gives up.
LEMMA MainMaps == ASSUME Good, MainNext PROVE [A!AppsNext]_(A!appsVars)
<1>t. /\ process_list \in [Slot -> Entry] /\ process_count \in 0 .. ListSize
      /\ proc \in [Pid -> Process] /\ main \in MainThread
      /\ AliveOf = AliveIn(proc) /\ AliveOf' = AliveIn(proc')
      /\ \A i \in Used : i \in Slot
  BY GoodFacts, UsedFacts
<1>u. IsUp
  <2>1. main.pc # "off"
    BY DEF MainNext, BootVisit, BootFork, BootRecord, BootDone, MainWait, MainLock,
           MainScanQuick, MainScanRestart, MainScanEnd
  <2>2. QED BY <2>1, GoodFacts
<1>p. ASSUME UNCHANGED sock PROVE UNCHANGED PhaseOf
  BY <1>p DEF PhaseOf
<1>1. CASE BootVisit
  <2>1. /\ UNCHANGED <<server, process_count, sock, proc, config>> /\ main.i \in Slot
        /\ process_list' = [process_list EXCEPT ![main.i].id = main.i]
    BY <1>1, <1>t, ServerAssumption DEF BootVisit, sockVars, fileVars, MainThread, Slot
  <2>2. \A i \in Used : /\ process_list'[i].app = process_list[i].app
                        /\ process_list'[i].is_running = process_list[i].is_running
    BY <1>t, <2>1 DEF Entry
  <2>3. UNCHANGED <<IsUp, AppsOf, AliveOf, FileOf, PhaseOf>>
    BY <1>p, <1>t, <2>1, <2>2, SameList, SameFile DEF IsUp
  <2>4. QED BY <2>3, Stutters
<1>2. CASE BootFork
  <2>1. CASE ServerDies("exit", Orphaned(proc))
    BY <1>t, <1>u, <2>1, GoesDown DEF DownCause
  <2>2. CASE ~ServerDies("exit", Orphaned(proc))
    <3>1. PICK p \in Forkable :
            /\ proc' = Forked(proc, p, process_list[main.i].app)
            /\ UNCHANGED <<server, process_list, process_count, sock, config>>
      BY <1>2, <2>2 DEF BootFork, listVars, sockVars, fileVars
    <3>2. main.pc = "boot_fork" /\ main.i \in Used /\ process_list[main.i].is_running
      <4>1. /\ main.pc = "boot_fork" /\ main.i < process_count
            /\ process_list[main.i].is_running
        BY <1>2 DEF BootFork, Good, ChildInv, BootInv
      <4>2. main.i \in 0 .. ListSize
        BY <1>t DEF MainThread
      <4>3. main.i \in Used
        BY <1>t, <4>1, <4>2, ServerAssumption DEF Used
      <4>4. QED BY <4>1, <4>3
    <3>3. /\ process_list[main.i].app \in Apps /\ main.i + 1 \in DOMAIN AppsOf
          /\ AppsOf[main.i + 1].app = process_list[main.i].app /\ AppsOf[main.i + 1].run
      BY <3>2, UsedFacts
    <3>4. p \in Pid /\ proc[p].st = "free"
      BY DEF Forkable
    <3>5. AliveOf' = AliveOf \cup {AppsOf[main.i + 1].app}
      BY <1>t, <3>1, <3>3, <3>4, AliveForked
    <3>6. AppsOf[main.i + 1].app \notin AliveOf
      BY <3>2, <3>3, FallenIsDead
    <3>7. UNCHANGED <<IsUp, AppsOf, FileOf, PhaseOf>>
      BY <1>p, <3>1, SameList, SameFile DEF IsUp
    <3>8. QED BY <1>u, <3>3, <3>5, <3>6, <3>7, Relaunches
  <2>3. QED BY <2>1, <2>2
<1>3. CASE BootRecord
  <2>1. /\ UNCHANGED <<server, process_count, sock, proc, config>>
        /\ process_list' = [process_list EXCEPT ![main.i] =
                              Started(process_list[main.i], main.pid)]
        /\ main.pid \in Pid /\ main.i \in Slot /\ process_list[main.i].is_running
    BY <1>3 DEF BootRecord, sockVars, fileVars, Good, ChildInv, BootInv, Inv, ListInv
  <2> DEFINE e == Started(process_list[main.i], main.pid)
  <2>2. e.app = process_list[main.i].app /\ e.is_running = process_list[main.i].is_running
    <3>1. process_list[main.i] \in Entry
      BY <1>t, <2>1
    <3>2. e.app = process_list[main.i].app
      BY <2>1, <3>1, EntryTypes
    <3>3. e.is_running = TRUE /\ process_list[main.i].is_running = TRUE
      BY <2>1, <3>1 DEF Started, Entry
    <3>4. QED BY <3>2, <3>3
  <2>3. process_list' = [process_list EXCEPT ![main.i] = e]
    BY <2>1
  <2> HIDE DEF e
  <2>4. \A i \in Used : /\ process_list'[i].app = process_list[i].app
                        /\ process_list'[i].is_running = process_list[i].is_running
    BY <1>t, <2>2, <2>3
  <2>5. UNCHANGED <<IsUp, AppsOf, AliveOf, FileOf, PhaseOf>>
    BY <1>p, <1>t, <2>1, <2>4, SameList, SameFile DEF IsUp
  <2>6. QED BY <2>5, Stutters
<1>4. CASE BootDone \/ MainLock \/ MainScanEnd
  <2>1. UNCHANGED <<server, process_list, process_count, sock, proc, config>>
    BY <1>4 DEF BootDone, MainLock, MainScanEnd, listVars, sockVars, fileVars
  <2>2. QED BY <1>p, <2>1, Unseen
<1>5. CASE MainWait
  <2>1. UNCHANGED <<server, process_list, process_count, sock, config>>
    BY <1>5 DEF MainWait, listVars, sockVars, fileVars
  <2>2. AliveIn(proc') = AliveIn(proc)
    <3>1. CASE UNCHANGED proc
      BY <3>1 DEF AliveIn
    <3>2. CASE \E p \in Pid : proc[p].st = "zombie" /\ proc' = [proc EXCEPT ![p] = Free]
      <4>1. PICK p \in Pid : proc[p].st = "zombie" /\ proc' = [proc EXCEPT ![p] = Free]
        BY <3>2
      <4>2. \A q \in Pid : proc'[q].st = "live" <=> proc[q].st = "live"
        BY <1>t, <4>1 DEF Free
      <4>3. \A q \in Pid : proc[q].st = "live" => proc'[q] = proc[q]
        BY <1>t, <4>1
      <4>4. QED BY <4>2, <4>3 DEF AliveIn
    <3>3. QED BY <1>5, <3>1, <3>2 DEF MainWait
  <2>3. UNCHANGED <<IsUp, AppsOf, AliveOf, FileOf, PhaseOf>>
    BY <1>p, <1>t, <2>1, <2>2, SameList, SameFile DEF IsUp
  <2>4. QED BY <2>3, Stutters
<1>6. CASE MainScanQuick
  <2>1. PICK i \in Hit :
          /\ process_list[i].is_running
          /\ process_list' = [process_list EXCEPT ![i].is_running = FALSE, ![i].pid = 0]
    BY <1>6 DEF MainScanQuick
  <2>2. main.pc = "scan" /\ UNCHANGED <<server, process_count, sock, proc, config>>
    BY <1>6 DEF MainScanQuick, sockVars, fileVars
  <2>3. i \in Used /\ i \in Slot
    BY <1>t DEF Hit
  <2>4. /\ i \in 0 .. process_count - 1 /\ i + 1 \in DOMAIN AppsOf
        /\ AppsOf[i + 1].app = process_list[i].app /\ AppsOf[i + 1].run
    BY <2>1, <2>3, UsedFacts
  <2>5. AppsOf[i + 1].app \notin AliveOf
    BY <2>1, <2>2, <2>3, <2>4, FallenIsDead
  <2>6. PhaseOf = "ready"
    BY <2>2, Phases DEF Good, MutexHeld, InHandler
  <2>7. /\ \A j \in 0 .. process_count - 1 :
             /\ process_list'[j].app = process_list[j].app
             /\ j # i => process_list'[j].is_running = process_list[j].is_running
        /\ process_list'[i].is_running = FALSE
    BY <1>t, <2>1, <2>3 DEF Used, Entry
  <2>8. AppsOf' = [AppsOf EXCEPT ![i + 1].run = FALSE]
    <3>1. ListOf(process_list', process_count)
            = [ListOf(process_list, process_count) EXCEPT
                 ![i + 1].run = process_list'[i].is_running]
      BY <1>t, <2>4, <2>7, ListMarked
    <3>2. QED BY <2>2, <2>7, <3>1 DEF AppsOf
  <2>9. UNCHANGED <<IsUp, AliveOf, FileOf, PhaseOf>>
    BY <1>p, <1>t, <2>2, SameFile DEF IsUp
  <2>10. QED BY <1>u, <2>4, <2>5, <2>6, <2>8, <2>9, GivesUp
<1>7. CASE MainScanRestart
  <2>1. PICK i \in Hit : /\ process_list[i].is_running
                         /\ Launch(process_list, process_count, i, proc, sock)
    BY <1>7 DEF MainScanRestart
  <2>2. CASE ServerDies("exit", Orphaned(proc))
    BY <1>t, <1>u, <2>2, GoesDown DEF DownCause
  <2>3. CASE ~ServerDies("exit", Orphaned(proc))
    <3>1. main.pc = "scan" /\ i \in Used
      BY <1>7 DEF MainScanRestart, Hit
    <3>2. /\ i \in 0 .. process_count - 1 /\ i + 1 \in DOMAIN AppsOf
          /\ process_list[i].app \in Apps
          /\ AppsOf[i + 1].app = process_list[i].app /\ AppsOf[i + 1].run
      BY <2>1, <3>1, UsedFacts
    <3>a. \A p \in Pid : proc[p].st = "free" => proc[p].st = "free"
      OBVIOUS
    <3>3. /\ UNCHANGED <<server, config, sock, process_count>>
          /\ AliveIn(proc') = AliveIn(proc) \cup {process_list[i].app}
          /\ \A j \in 0 .. process_count - 1 :
               /\ process_list'[j].app = process_list[j].app
               /\ j # i => process_list'[j].is_running = process_list[j].is_running
          /\ process_list'[i].is_running = TRUE
      <4>1. LaunchedApp(process_list, process_count, i, proc, sock)
        BY <1>t, <2>1, <2>3, <3>2, <3>a, LaunchMaps
      <4>2. QED BY <4>1 DEF LaunchedApp
    <3>4. process_list[i].is_running = TRUE
      BY <1>t, <2>1, <3>1 DEF Entry
    <3>5. UNCHANGED <<IsUp, AppsOf, FileOf, PhaseOf>>
      BY <1>p, <3>3, <3>4, SameList, SameFile DEF IsUp, Used
    <3>6. AppsOf[i + 1].app \notin AliveOf
      BY <2>1, <3>1, <3>2, FallenIsDead
    <3>7. QED BY <1>t, <1>u, <3>2, <3>3, <3>5, <3>6, Relaunches
  <2>4. QED BY <2>2, <2>3
<1>8. QED BY <1>1, <1>2, <1>3, <1>4, <1>5, <1>6, <1>7 DEF MainNext

-------------------------------------------------------------------------------
(* The steps of the socket thread *)

\* A stopped app is launched by a request.
LEMMA StartsOne ==
  ASSUME Good, IsUp, PhaseOf # "saving", NEW i \in Used, ~process_list[i].is_running,
         NEW next, next.pc \in {"startall", "respond"},
         Launch(process_list, process_count, i, proc, next)
  PROVE  A!AppsNext
<1>t. /\ process_list \in [Slot -> Entry] /\ process_count \in 0 .. ListSize
      /\ proc \in [Pid -> Process] /\ AliveOf = AliveIn(proc) /\ AliveOf' = AliveIn(proc')
  BY GoodFacts
<1>1. CASE ServerDies("exit", Orphaned(proc))
  BY <1>t, <1>1, GoesDown DEF DownCause
<1>2. CASE ~ServerDies("exit", Orphaned(proc))
  <2>1. /\ i \in 0 .. process_count - 1 /\ i + 1 \in DOMAIN AppsOf
        /\ process_list[i].app \in Apps
        /\ AppsOf[i + 1].app = process_list[i].app /\ ~AppsOf[i + 1].run
    BY UsedFacts
  <2>2. \A p \in Pid : proc[p].st = "free" => proc[p].st = "free"
    OBVIOUS
  <2>3. /\ UNCHANGED <<server, config, process_count>> /\ sock' = next
        /\ AliveIn(proc') = AliveIn(proc) \cup {process_list[i].app}
        /\ \A j \in 0 .. process_count - 1 :
             /\ process_list'[j].app = process_list[j].app
             /\ j # i => process_list'[j].is_running = process_list[j].is_running
        /\ process_list'[i].is_running = TRUE
    <3>1. LaunchedApp(process_list, process_count, i, proc, next)
      BY <1>t, <1>2, <2>1, <2>2, LaunchMaps
    <3>2. QED BY <3>1 DEF LaunchedApp
  <2>4. AppsOf' = [AppsOf EXCEPT ![i + 1].run = TRUE]
    <3>1. ListOf(process_list', process_count)
            = [ListOf(process_list, process_count) EXCEPT
                 ![i + 1].run = process_list'[i].is_running]
      BY <1>t, <2>1, <2>3, ListMarked
    <3>2. QED BY <2>3, <3>1 DEF AppsOf
  <2>5. Asked
    BY <2>3, Phases, SameFile DEF Asked, IsUp
  <2>6. QED BY <1>t, <2>1, <2>3, <2>4, <2>5, Starts
<1>3. QED BY <1>1, <1>2

\* A running app is stopped by a request.
LEMMA StopsOne ==
  ASSUME Good, IsUp, PhaseOf # "saving", ~Booting,
         NEW i \in Used, process_list[i].is_running,
         proc' = KilledAt(i), process_list' = StoppedAt(i),
         UNCHANGED <<server, process_count, config>>, PhaseOf' = "busy"
  PROVE  A!AppsNext
<1>t. /\ process_list \in [Slot -> Entry] /\ process_count \in 0 .. ListSize
      /\ AliveOf = AliveIn(proc) /\ AliveOf' = AliveIn(proc')
  BY GoodFacts
<1>1. /\ i \in 0 .. process_count - 1 /\ i + 1 \in DOMAIN AppsOf
      /\ AppsOf[i + 1].app = process_list[i].app /\ AppsOf[i + 1].run
  BY UsedFacts
<1>2. /\ AliveIn(proc') = AliveIn(proc) \ {process_list[i].app}
      /\ \A j \in 0 .. process_count - 1 :
           /\ process_list'[j].app = process_list[j].app
           /\ j # i => process_list'[j].is_running = process_list[j].is_running
      /\ process_list'[i].is_running = FALSE
  BY StopMaps DEF Used
<1>3. AppsOf' = [AppsOf EXCEPT ![i + 1].run = FALSE]
  <2>1. ListOf(process_list', process_count)
          = [ListOf(process_list, process_count) EXCEPT
               ![i + 1].run = process_list'[i].is_running]
    BY <1>t, <1>1, <1>2, ListMarked
  <2>2. QED BY <1>2, <2>1 DEF AppsOf
<1>4. Asked
  BY SameFile DEF Asked, IsUp
<1>5. QED BY <1>t, <1>1, <1>2, <1>3, <1>4, Stops

\* start <file>: the new app is the last one and it runs.
LEMMA StartCmdMaps == ASSUME Good, IsUp, SockStartCmd PROVE A!AppsNext
<1> DEFINE new == [Blank EXCEPT !.app = arg.word, !.id = process_count]
           l   == [process_list EXCEPT ![process_count] = new]
           n   == process_count
<1>t. /\ process_list \in [Slot -> Entry] /\ process_count \in 0 .. ListSize
      /\ proc \in [Pid -> Process] /\ client \in Client /\ sock \in SockThread
      /\ Filled(process_list, process_count)
      /\ AliveOf = AliveIn(proc) /\ AliveOf' = AliveIn(proc')
  BY GoodFacts
<1>1. /\ sock.pc = "apply" /\ IsCmd /\ ~NameTaken(arg.word) /\ n < ListSize
      /\ Launch(l, n + 1, n, proc, Responding)
  BY DEF SockStartCmd, Applying, SockAt
<1>2. n \in Slot /\ n \in 0 .. ListSize - 1 /\ n + 1 \in 0 .. ListSize /\ n \in 0 .. (n + 1) - 1
  BY <1>t, <1>1, ServerAssumption DEF Slot
<1>3. arg.word \in Apps
  <2>1. arg \in Buffer /\ arg.kind = "json"
    BY <1>t, <1>1 DEF Client, arg, IsCmd
  <2>2. QED BY <2>1 DEF Buffer, Text, Json, Empty
<1>4. new \in Entry /\ new.app = arg.word
  <2>1. n \in -ListSize .. ListSize /\ 0 \in 0 .. MaxPid
    BY <1>2, ServerAssumption
  <2>2. QED BY <1>3, <2>1 DEF Blank, Entry, AppName
<1> HIDE DEF new
<1>5. /\ l \in [Slot -> Entry] /\ l[n].app = arg.word
      /\ \A j \in 0 .. n - 1 : l[j] = process_list[j] /\ j # n
  BY <1>t, <1>2, <1>4, ServerAssumption DEF Slot
<1>6. CASE ServerDies("exit", Orphaned(proc))
  BY <1>t, <1>6, GoesDown DEF DownCause
<1>7. CASE ~ServerDies("exit", Orphaned(proc))
  <2> HIDE DEF l
  <2>1. \A p \in Pid : proc[p].st = "free" => proc[p].st = "free"
    OBVIOUS
  <2>2. /\ UNCHANGED <<server, config>> /\ sock' = Responding /\ process_count' = n + 1
        /\ AliveIn(proc') = AliveIn(proc) \cup {l[n].app}
        /\ \A j \in 0 .. (n + 1) - 1 :
             /\ process_list'[j].app = l[j].app
             /\ j # n => process_list'[j].is_running = l[j].is_running
        /\ process_list'[n].is_running = TRUE
        /\ process_list' \in [Slot -> Entry]
    <3>1. LaunchedApp(l, n + 1, n, proc, Responding)
      BY <1>t, <1>1, <1>2, <1>3, <1>5, <1>7, <2>1, LaunchMaps
    <3>2. QED BY <3>1 DEF LaunchedApp
  <2>3. /\ \A j \in 0 .. n - 1 : /\ process_list'[j].app = process_list[j].app
                                 /\ process_list'[j].is_running = process_list[j].is_running
        /\ process_list'[n].app = arg.word
    BY <1>2, <1>5, <2>2
  <2>4. AppsOf' = Append(AppsOf, [app |-> arg.word, run |-> TRUE])
    <3>1. ListOf(process_list', n + 1)
            = Append(ListOf(process_list, n),
                     [app |-> process_list'[n].app, run |-> process_list'[n].is_running])
      BY <1>t, <1>2, <2>2, <2>3, ListAppended
    <3>2. QED BY <2>2, <2>3, <3>1 DEF AppsOf
  <2>5. arg.word \notin A!Names(AppsOf)
    <3>1. \A i \in Used : process_list[i].app # arg.word
      BY <1>1 DEF NameTaken, Named
    <3>2. /\ DOMAIN AppsOf = 1 .. n
          /\ \A j \in 1 .. n : AppsOf[j].app = process_list[j - 1].app /\ j - 1 \in Used
      BY <1>t DEF AppsOf, ListOf, Used
    <3>3. QED BY <3>1, <3>2 DEF A!Names
  <2>6. sock'.pc = "respond" /\ PhaseOf = "ready"
    BY <1>t, <1>1, <2>2, Phases DEF Responding, SockThread
  <2>7. Asked
    BY <2>2, <2>6, Phases, SameFile DEF Asked, IsUp
  <2>8. QED BY <1>t, <1>3, <1>5, <2>2, <2>4, <2>5, <2>6, <2>7, Adds
<1>8. QED BY <1>6, <1>7

\* restart: one process for another; the mark stays.
LEMMA RestartMaps == ASSUME Good, IsUp, SockRestart PROVE A!AppsNext
<1> DEFINE i == Target
<1>t. /\ process_list \in [Slot -> Entry] /\ process_count \in 0 .. ListSize
      /\ proc \in [Pid -> Process] /\ sock \in SockThread
      /\ AliveOf = AliveIn(proc) /\ AliveOf' = AliveIn(proc')
  BY GoodFacts
<1>1. /\ sock.pc = "apply" /\ Resolves /\ process_list[i].is_running
      /\ Launch(StoppedAt(i), process_count, i, KilledAt(i), Responding)
  BY DEF SockRestart, Applying, SockAt, Refused
<1>2. i \in Used /\ ~Booting
  BY <1>1, TargetLemma DEF Good, ChildInv, BootInv, ChangesList
<1> HIDE DEF i
<1>3. /\ i \in 0 .. process_count - 1 /\ i + 1 \in DOMAIN AppsOf /\ i \in Slot
      /\ process_list[i].app \in Apps /\ process_list[i] \in Entry
      /\ AppsOf[i + 1].app = process_list[i].app /\ AppsOf[i + 1].run
  BY <1>1, <1>2, UsedFacts
<1>4. /\ AliveIn(KilledAt(i)) = AliveIn(proc) \ {process_list[i].app}
      /\ StoppedAt(i) \in [Slot -> Entry]
      /\ \A j \in Used : /\ StoppedAt(i)[j].app = process_list[j].app
                         /\ j # i => StoppedAt(i)[j] = process_list[j]
  BY <1>2, StopMaps
<1>5. /\ KilledAt(i) \in [Pid -> Process]
      /\ \A p \in Pid : proc[p].st = "free" => KilledAt(i)[p].st = "free"
  <2>1. KilledAt(i) \in [Pid -> Process]
    BY <1>2, StoppedLemma DEF Good
  <2>2. \A p \in Pid : proc[p].st = "free" => KilledAt(i)[p].st = "free"
    BY <1>t DEF KilledAt, Killed
  <2>3. QED BY <2>1, <2>2
<1>6. CASE ServerDies("exit", Orphaned(KilledAt(i)))
  BY <1>5, <1>6, GoesDown DEF DownCause
<1>7. CASE ~ServerDies("exit", Orphaned(KilledAt(i)))
  <2>1. StoppedAt(i)[i].app \in Apps
    BY <1>2, <1>3, <1>4
  <2>2. /\ UNCHANGED <<server, config, process_count>> /\ sock' = Responding
        /\ AliveIn(proc') = AliveIn(KilledAt(i)) \cup {StoppedAt(i)[i].app}
        /\ \A j \in 0 .. process_count - 1 :
             /\ process_list'[j].app = StoppedAt(i)[j].app
             /\ j # i => process_list'[j].is_running = StoppedAt(i)[j].is_running
        /\ process_list'[i].is_running = TRUE
    <3>1. LaunchedApp(StoppedAt(i), process_count, i, KilledAt(i), Responding)
      BY <1>t, <1>1, <1>3, <1>4, <1>5, <1>7, <2>1, LaunchMaps
    <3>2. QED BY <3>1 DEF LaunchedApp
  <2>3. process_list[i].is_running = TRUE
    BY <1>1, <1>3 DEF Entry
  <2>4. \A j \in Used : /\ process_list'[j].app = process_list[j].app
                        /\ process_list'[j].is_running = process_list[j].is_running
    BY <1>4, <2>2, <2>3 DEF Used
  <2>5. UNCHANGED AppsOf
    BY <2>2, <2>4, SameList
  <2>6. AliveOf' = AliveOf \cup {AppsOf[i + 1].app}
    BY <1>t, <1>2, <1>3, <1>4, <2>2
  <2>7. sock'.pc = "respond" /\ PhaseOf = "ready"
    BY <1>t, <1>1, <2>2, Phases DEF Responding, SockThread
  <2>8. Asked
    BY <2>2, <2>7, Phases, SameFile DEF Asked, IsUp
  <2>9. QED BY <1>3, <2>5, <2>6, <2>7, <2>8, Restarts
<1>8. QED BY <1>6, <1>7

\* remove: the app is gone and so is its process.
LEMMA RemoveMaps == ASSUME Good, IsUp, SockRemove PROVE A!AppsNext
<1> DEFINE i == Target
           n == process_count
           l == StoppedAt(Target)
<1>t. /\ process_list \in [Slot -> Entry] /\ process_count \in 0 .. ListSize
      /\ sock \in SockThread
      /\ AliveOf = AliveIn(proc) /\ AliveOf' = AliveIn(proc')
  BY GoodFacts
<1>1. /\ sock.pc = "apply" /\ Resolves /\ sock'.pc = "respond"
      /\ proc' = KilledAt(i) /\ UNCHANGED <<server, config>> /\ process_count' = n - 1
      /\ process_list' = del_process_by_app_name(l, process_list[i].app)
  BY <1>t DEF SockRemove, Applying, SockAt, SockTo, SockThread, fileVars
<1>2. i \in Used /\ ~Booting
  BY <1>1, TargetLemma DEF Good, ChildInv, BootInv, ChangesList
<1>3. /\ i \in 0 .. n - 1 /\ i + 1 \in DOMAIN AppsOf
      /\ AppsOf[i + 1].app = process_list[i].app
  BY <1>2, UsedFacts
<1>4. /\ AliveIn(proc') = AliveIn(proc) \ {process_list[i].app}
      /\ \A j \in 0 .. n - 1 : /\ l[j].app = process_list[j].app
                               /\ j # i => l[j] = process_list[j]
  BY <1>1, <1>2, StopMaps DEF Used
<1>5. ListOK(l, n) /\ l[i].app = process_list[i].app
  BY <1>2, StoppedLemma DEF Good
<1> HIDE DEF i, l
<1>6. process_list' = [j \in Slot |-> IF j \in i .. n - 1 THEN ShiftedFrom(l, j + 1) ELSE l[j]]
  <2>1. n \in 0 .. ListSize - 1
    BY RemoveLemma DEF Good
  <2>2. QED BY <1>1, <1>3, <1>5, <2>1, DeleteLemma
<1>7. n \in 1 .. ListSize
  BY <1>t, <1>3, ServerAssumption
<1>8. ASSUME NEW j \in 0 .. n - 2
      PROVE  LET from == IF j < i THEN j ELSE j + 1
             IN  /\ process_list'[j].app = process_list[from].app
                 /\ process_list'[j].is_running = process_list[from].is_running
  <2>1. j \in Slot /\ j \in 0 .. n - 1 /\ j + 1 \in Slot /\ j + 1 \in 0 .. n - 1
    BY <1>7, ServerAssumption DEF Slot
  <2>2. CASE j < i
    <3>1. process_list'[j] = l[j] /\ j # i
      BY <1>3, <1>6, <1>7, <2>1, <2>2
    <3>2. QED BY <1>4, <2>1, <2>2, <3>1
  <2>3. CASE ~(j < i)
    <3>1. process_list'[j] = ShiftedFrom(l, j + 1) /\ j + 1 # i
      BY <1>3, <1>6, <1>7, <2>1, <2>3
    <3>2. l[j + 1] = process_list[j + 1] /\ l[j + 1] \in Entry /\ l[j + 1].app # NoApp
      BY <1>4, <1>5, <2>1, <3>1 DEF ListOK, Filled
    <3>3. process_list'[j] = [l[j + 1] EXCEPT !.id = l[j + 1].id - 1]
      BY <2>1, <3>1, <3>2 DEF ShiftedFrom
    <3>4. /\ process_list'[j].app = l[j + 1].app
          /\ process_list'[j].is_running = l[j + 1].is_running
      BY <3>2, <3>3 DEF Entry
    <3>5. QED BY <2>3, <3>2, <3>4
  <2>4. QED BY <2>2, <2>3
<1>9. AppsOf' = A!Without(AppsOf, i + 1)
  <2>1. ListOf(process_list', n - 1) = A!Without(ListOf(process_list, n), i + 1)
    BY <1>t, <1>3, <1>7, <1>8, ListDeleted
  <2>2. QED BY <1>1, <2>1 DEF AppsOf
<1>10. Asked /\ PhaseOf = "ready"
  BY <1>1, Phases, SameFile DEF Asked, IsUp
<1>11. QED BY <1>t, <1>3, <1>4, <1>9, <1>10, Removes

\* The save: emptied, then what the list is.
LEMMA SaveMaps == ASSUME Good, IsUp, SockTruncate \/ SockWrite PROVE A!AppsNext
<1>t. /\ process_list \in [Slot -> Entry] /\ process_count \in 0 .. ListSize
      /\ sock \in SockThread /\ Filled(process_list, process_count)
  BY GoodFacts
<1>1. /\ UNCHANGED <<server, process_list, process_count, proc>>
      /\ UNCHANGED <<IsUp, AppsOf, AliveOf>>
  BY DEF SockTruncate, SockWrite, listVars, IsUp, AppsOf, ListOf, AliveOf
<1>2. CASE SockTruncate
  <2>1. sock.pc = "save" /\ sock'.pc = "write" /\ config' = EmptyFile
    BY <1>2, <1>t DEF SockTruncate, SockAt, SockTo, SockThread
  <2>2. FileOf' = <<>>
    <3>1. 0 \in 0 .. ListSize /\ \A i \in Slot : EmptyFile[i].app = NoApp /\ ~(i < 0)
      BY ServerAssumption DEF EmptyFile, Slot
    <3>2. get_process_list_count(EmptyFile) = 0
      BY <3>1, CountLemma DEF Filled
    <3>3. [i \in Slot |-> Blank] \in [Slot -> Entry]
      BY BlankTypes
    <3>4. /\ ListOf([i \in Slot |-> Blank], 0) \in Seq(AppRec)
          /\ Len(ListOf([i \in Slot |-> Blank], 0)) = 0
      BY <3>1, <3>3, ListRows
    <3>5. ListOf([i \in Slot |-> Blank], 0) = <<>>
      BY <3>4, EmptySeq
    <3>6. \A i \in 0 .. 0 - 1 : FALSE
      OBVIOUS
    <3>7. ListOf(EmptyFile, 0) = ListOf([i \in Slot |-> Blank], 0)
      BY <3>1, <3>6, ListSame
    <3>8. QED BY <2>1, <3>2, <3>5, <3>7 DEF FileOf
  <2>3. QED BY <1>1, <2>1, <2>2, Phases DEF A!AppsNext, A!ServiceNext, A!Truncate
<1>3. CASE SockWrite
  <2>1. get_process_list_count(process_list) = process_count
    BY <1>t, CountLemma
  <2>2. /\ sock.pc = "write" /\ sock'.pc = "accept"
        /\ config' = [i \in Slot |-> IF i < process_count
                                     THEN SavedAs(process_list[i]) ELSE EmptyFile[i]]
    BY <1>3, <1>t, <2>1 DEF SockWrite, SockAt, SockTo, SockThread
  <2>3. \A i \in Slot : config'[i].app = process_list[i].app
    BY <1>t, <2>2 DEF SavedAs, EmptyFile, Filled
  <2>4. \A i \in 0 .. process_count - 1 : i \in Slot /\ config'[i] = SavedAs(process_list[i])
    BY <1>t, <2>2, ServerAssumption DEF Slot
  <2>5. \A i \in 0 .. process_count - 1 :
          /\ config'[i].app = process_list[i].app
          /\ config'[i].is_running = process_list[i].is_running
    <3>1. \A e : SavedAs(e).app = e.app /\ SavedAs(e).is_running = e.is_running
      BY DEF SavedAs
    <3>2. QED BY <2>4, <3>1, Zenon
  <2>6. get_process_list_count(config') = process_count
    <3>1. Filled(config', process_count)
      BY <1>t, <2>3, <2>5 DEF Filled
    <3>2. QED BY <1>t, <3>1, CountLemma
  <2>7. FileOf' = AppsOf
    <3>1. ListOf(config', process_count) = ListOf(process_list, process_count)
      BY <1>t, <2>5, ListSame
    <3>2. QED BY <2>6, <3>1 DEF FileOf, AppsOf
  <2>8. QED BY <1>1, <2>2, <2>7, Phases DEF A!AppsNext, A!ServiceNext, A!Save
<1>4. QED BY <1>2, <1>3

\* One round of "start all" or of "stop all".
LEMMA RoundMaps ==
  ASSUME Good, IsUp, SockStartAll \/ SockStopAll PROVE [A!AppsNext]_(A!appsVars)
<1>t. /\ process_list \in [Slot -> Entry] /\ process_count \in 0 .. ListSize
      /\ proc \in [Pid -> Process] /\ sock \in SockThread
      /\ AliveOf = AliveIn(proc) /\ AliveOf' = AliveIn(proc')
  BY GoodFacts
<1>1. /\ sock.pc \in {"startall", "stopall"} /\ sock.i < process_count
      /\ sock.pc = "startall" <=> SockStartAll
  BY DEF SockStartAll, SockStopAll, SockAt
<1>2. sock.i \in Used /\ ~Booting /\ PhaseOf = "busy" /\ SockRound.pc = sock.pc
  <2>1. sock.i \in Used
    BY <1>1, <1>t, ServerAssumption DEF SockThread, Used
  <2>2. ~Booting
    BY <1>1 DEF Good, ChildInv, BootInv, ChangesList
  <2>3. PhaseOf = "busy"
    BY <1>1, Phases
  <2>4. QED BY <1>t, <2>1, <2>2, <2>3 DEF SockRound, SockThread
<1>3. CASE SockStartAll /\ process_list[sock.i].is_running
  <2>1. UNCHANGED <<server, process_list, process_count, proc, config>> /\ sock' = SockRound
    BY <1>3 DEF SockStartAll, listVars, fileVars
  <2>2. UNCHANGED PhaseOf
    BY <1>1, <1>2, <2>1, Phases
  <2>3. QED BY <2>1, <2>2, Unseen
<1>4. CASE SockStartAll /\ ~process_list[sock.i].is_running
  <2>1. Launch(process_list, process_count, sock.i, proc, SockRound)
    BY <1>4 DEF SockStartAll
  <2>2. SockRound.pc \in {"startall", "respond"}
    BY <1>1, <1>2, <1>4
  <2>3. QED BY <1>2, <1>4, <2>1, <2>2, StartsOne
<1>5. CASE SockStopAll
  <2>1. /\ proc' = KilledAt(sock.i) /\ process_list' = StoppedAt(sock.i)
        /\ UNCHANGED <<server, process_count, config>> /\ sock' = SockRound
    BY <1>5 DEF SockStopAll, fileVars
  <2>2. PhaseOf' = "busy"
    BY <1>1, <1>2, <2>1, Phases
  <2>3. CASE process_list[sock.i].is_running
    BY <1>2, <2>1, <2>2, <2>3, StopsOne
  <2>4. CASE ~process_list[sock.i].is_running
    <3>1. proc' = proc /\ process_list' = process_list
      <4>1. process_list' = [process_list EXCEPT ![sock.i] = process_list[sock.i]]
        BY <2>1, <2>4 DEF StoppedAt, Stopped
      <4>2. QED BY <1>t, <2>1, <2>4, <4>1 DEF KilledAt
    <3>2. QED BY <1>2, <2>1, <2>2, <3>1, Unseen
  <2>5. QED BY <2>3, <2>4
<1>6. QED BY <1>3, <1>4, <1>5

\* A request is taken up, refused, carried out and saved.
LEMMA SockMaps == ASSUME Good, SockAccept \/ SockServe PROVE [A!AppsNext]_(A!appsVars)
<1>t. /\ process_list \in [Slot -> Entry] /\ process_count \in 0 .. ListSize
      /\ proc \in [Pid -> Process] /\ sock \in SockThread
  BY GoodFacts
<1>u. IsUp
  <2>1. sock.pc # "off"
    BY DEF SockServe, SockAccept, SockLock, SockRead, SockPong, SockRead2, SockAnswer,
           SockStartCmd, SockStartOverflow, SockStart, SockKillZero, SockScanSegv, Stopping,
           SockStop, SockRestart, SockRemove, SockRemoveOverflow, SockStartAll, SockStopAll,
           SockStatus, SockRespond, SockTruncate, SockWrite, Applying, SockAt
  <2>2. QED BY <2>1, GoodFacts
<1>s. \A pc : SockTo(pc) => sock'.pc = pc
  BY <1>t DEF SockTo, SockThread
<1>d. \A cause \in DownCause : ServerDies(cause, Orphaned(proc)) => A!AppsNext
  BY <1>t, <1>u, GoesDown
<1>r. ASSUME UNCHANGED <<server, process_list, process_count, proc, config>>,
             PhaseOf # "saving", PhaseOf' = "busy"
      PROVE  A!AppsNext
  <2>1. UNCHANGED <<AppsOf, AliveOf>>
    BY <1>r DEF AppsOf, ListOf, AliveOf
  <2>2. Asked
    BY <1>r, <1>u, SameFile DEF Asked, IsUp
  <2>3. QED BY <2>1, <2>2, Serves
<1>1. CASE SockAccept \/ SockLock \/ SockRead2
  <2>1. /\ UNCHANGED <<server, process_list, process_count, proc, config>>
        /\ sock.pc \in {"accept", "lock", "read2"} /\ sock'.pc \in {"lock", "read", "apply"}
    BY <1>1, <1>s DEF SockAccept, SockLock, SockRead2, SockAt, listVars, fileVars
  <2>2. UNCHANGED PhaseOf
    BY <2>1, Phases
  <2>3. QED BY <2>1, <2>2, Unseen
<1>2. CASE SockRead
  <2>1. /\ UNCHANGED <<server, process_list, process_count, proc, config>> /\ sock.pc = "read"
    BY <1>2 DEF SockRead, SockAt, listVars
  <2>2. PhaseOf = "ready"
    BY <2>1, Phases
  <2>3. sock'.pc \in {"startall", "stopall", "respond", "save"} => A!AppsNext
    BY <1>r, <2>1, <2>2, Phases
  <2>4. sock'.pc \notin {"startall", "stopall", "respond", "save", "write"}
          => [A!AppsNext]_(A!appsVars)
    <3>1. ASSUME sock'.pc \notin {"startall", "stopall", "respond", "save", "write"}
          PROVE  UNCHANGED PhaseOf
      BY <2>2, <3>1, Phases
    <3>2. QED BY <2>1, <3>1, Unseen
  <2>5. sock'.pc # "write"
    <3>1. client.cmd \in Command
      BY GoodFacts DEF Client
    <3>2. CASE client.sent = 1
      <4>1. CASE client.cmd \in TwoPhase
        BY <1>2, <1>s, <3>2, <4>1 DEF SockRead, TwoPhase
      <4>2. CASE client.cmd = "ping"
        BY <1>2, <1>s, <3>2, <4>2 DEF SockRead, TwoPhase
      <4>3. CASE client.cmd \in {"startall", "stopall", "status"}
        BY <1>2, <1>s, <3>2, <4>3 DEF SockRead, TwoPhase
      <4>4. QED BY <3>1, <4>1, <4>2, <4>3 DEF Command
    <3>3. CASE client.sent # 1
      BY <1>2, <1>s, <3>3 DEF SockRead
    <3>4. QED BY <3>2, <3>3
  <2>6. QED BY <2>3, <2>4, <2>5
<1>3. CASE SockPong
  <2>1. CASE ServerDies("sigpipe", Orphaned(proc))
    BY <1>d, <2>1 DEF DownCause
  <2>2. CASE ~ServerDies("sigpipe", Orphaned(proc))
    <3>1. /\ UNCHANGED <<server, process_list, process_count, proc, config>>
          /\ sock.pc = "pong" /\ sock'.pc = "read2"
      BY <1>3, <1>s, <2>2 DEF SockPong, SockAt, listVars, fileVars
    <3>2. UNCHANGED PhaseOf
      BY <3>1, Phases
    <3>3. QED BY <3>1, <3>2, Unseen
  <2>3. QED BY <2>1, <2>2
<1>4. CASE SockAnswer
  <2>1. /\ UNCHANGED <<server, process_list, process_count, proc, config>>
        /\ sock.pc \in {"apply", "startall", "stopall"} /\ sock'.pc = "respond"
    BY <1>4, <1>s DEF SockAnswer, SockAt, listVars, fileVars
  <2>2. PhaseOf # "saving" /\ PhaseOf' = "busy"
    BY <2>1, Phases
  <2>3. QED BY <1>r, <2>1, <2>2
<1>5. CASE SockStatus \/ SockRespond
  <2>1. CASE ServerDies("segv", Orphaned(proc)) \/ ServerDies("sigpipe", Orphaned(proc))
    BY <1>d, <2>1 DEF DownCause
  <2>2. CASE ~(ServerDies("segv", Orphaned(proc)) \/ ServerDies("sigpipe", Orphaned(proc)))
    <3>1. /\ UNCHANGED <<server, process_list, process_count, proc, config>>
          /\ sock.pc \in {"status", "respond"} /\ sock'.pc \in {"respond", "save"}
      BY <1>5, <1>s, <2>2 DEF SockStatus, SockRespond, SockAt, listVars, fileVars
    <3>2. PhaseOf # "saving" /\ PhaseOf' = "busy"
      BY <3>1, Phases
    <3>3. QED BY <1>r, <3>1, <3>2
  <2>3. QED BY <2>1, <2>2
<1>6. CASE SockStartOverflow
  <2>1. CASE ServerDies("exit", Orphaned(proc))
    BY <1>d, <2>1 DEF DownCause
  <2>2. CASE \E p \in Forkable : ServerDies("overflow", Orphaned(Forked(proc, p, arg.word)))
    <3>1. PICK p \in Forkable : ServerDies("overflow", Orphaned(Forked(proc, p, arg.word)))
      BY <2>2
    <3>2. arg.word \in AppName /\ p \in Pid
      <4>1. arg \in Buffer /\ arg.kind = "json"
        BY <1>6, GoodFacts DEF SockStartOverflow, Client, arg, IsCmd
      <4>2. QED BY <4>1 DEF Buffer, Text, Json, Empty, AppName, Forkable
    <3>3. Forked(proc, p, arg.word) \in [Pid -> Process]
      BY <1>t, <3>2, ProcTypes
    <3>4. QED BY <1>u, <3>1, <3>3, GoesDown DEF DownCause
  <2>3. QED BY <1>6, <2>1, <2>2 DEF SockStartOverflow
<1>7. CASE SockKillZero
  BY <1>7, <1>t, <1>u, GoesDown DEF SockKillZero, DownCause
<1>8. CASE SockScanSegv
  <2>1. PICK i \in Stopping : \E t \in {proc, KilledAt(i)} : ServerDies("segv", Orphaned(t))
    BY <1>8 DEF SockScanSegv
  <2>2. PICK t \in {proc, KilledAt(i)} : ServerDies("segv", Orphaned(t))
    BY <2>1
  <2>3. i \in Used
    BY DEF Stopping
  <2>4. t \in [Pid -> Process]
    BY <1>t, <2>3, StoppedLemma DEF Good
  <2>5. QED BY <1>u, <2>2, <2>4, GoesDown DEF DownCause
<1>9. CASE SockStart
  <2>1. /\ Resolves /\ ~process_list[Target].is_running /\ sock.pc = "apply"
        /\ Launch(process_list, process_count, Target, proc, Responding)
    BY <1>9 DEF SockStart, Refused, Applying, SockAt
  <2>2. Target \in Used /\ PhaseOf # "saving"
    BY <2>1, TargetLemma, Phases DEF Good
  <2>3. Responding.pc \in {"startall", "respond"}
    BY <1>t DEF Responding, SockThread
  <2>4. QED BY <1>u, <2>1, <2>2, <2>3, StartsOne
<1>10. CASE SockStop
  <2>1. /\ Resolves /\ process_list[Target].is_running /\ sock.pc = "apply"
        /\ proc' = KilledAt(Target) /\ process_list' = StoppedAt(Target)
        /\ UNCHANGED <<server, process_count, config>> /\ sock'.pc = "respond"
    BY <1>10, <1>s DEF SockStop, Refused, Applying, SockAt, fileVars
  <2>2. Target \in Used /\ ~Booting /\ PhaseOf # "saving" /\ PhaseOf' = "busy"
    BY <2>1, TargetLemma, Phases DEF Good, ChildInv, BootInv, ChangesList
  <2>3. QED BY <1>u, <2>1, <2>2, StopsOne
<1>11. CASE SockStartCmd \/ SockRestart \/ SockRemove \/ SockTruncate \/ SockWrite
  BY <1>11, <1>u, StartCmdMaps, RestartMaps, RemoveMaps, SaveMaps
<1>11b. CASE SockRemoveOverflow
  <2>1. Target \in Used
    BY <1>11b, TargetLemma DEF SockRemoveOverflow, Good
  <2>2. KilledAt(Target) \in [Pid -> Process]
    BY <2>1, StoppedLemma DEF Good
  <2>3. QED BY <1>11b, <1>u, <2>2, GoesDown DEF SockRemoveOverflow, DownCause
<1>12. CASE SockStartAll \/ SockStopAll
  BY <1>12, <1>u, RoundMaps
<1>13. QED BY <1>1, <1>2, <1>3, <1>4, <1>5, <1>6, <1>7, <1>8, <1>9, <1>10, <1>11, <1>11b,
           <1>12 DEF SockServe

-------------------------------------------------------------------------------
(* The steps of the world *)

\* The clock ticks.
LEMMA TickMaps == ASSUME Good, Tick PROVE [A!AppsNext]_(A!appsVars)
<1>1. /\ UNCHANGED <<server, process_count, sock, proc, config>>
      /\ process_list' = [i \in Slot |-> [process_list[i] EXCEPT !.fresh = FALSE]]
  BY DEF Tick, sockVars, fileVars
<1>2. \A i \in Used : /\ process_list'[i].app = process_list[i].app
                      /\ process_list'[i].is_running = process_list[i].is_running
  BY <1>1, GoodFacts, UsedFacts DEF Entry
<1>3. UNCHANGED <<IsUp, AppsOf, AliveOf, FileOf, PhaseOf>>
  BY <1>1, <1>2, SameList, SameFile DEF IsUp, AliveOf, PhaseOf
<1>4. QED BY <1>3, Stutters

\* A program ends; it was the only one of its app.
LEMMA ExitMaps ==
  ASSUME Good, NEW p \in Pid, ProcExit(p) PROVE [A!AppsNext]_(A!appsVars)
<1>t. proc \in [Pid -> Process] /\ AliveOf = AliveIn(proc) /\ AliveOf' = AliveIn(proc')
  BY GoodFacts
<1>1. UNCHANGED <<IsUp, AppsOf, FileOf, PhaseOf>>
  BY SameFile DEF ProcExit, listVars, sockVars, fileVars, IsUp, AppsOf, ListOf, PhaseOf
<1>2. \A q \in Pid : q # p => proc'[q] = proc[q]
  BY <1>t DEF ProcExit
<1>3. proc'[p].st # "live"
  BY <1>t DEF ProcExit, Free, Process
<1>4. CASE proc[p].st = "live" /\ proc[p].app \in Apps
  <2>1. proc[p].app \in AliveOf
    BY <1>t, <1>4 DEF AliveIn
  <2>2. \A q \in Pid : proc[q].st = "live" /\ proc[q].app = proc[p].app => q = p
    BY <1>4 DEF Good, OneChildPerApp
  <2>3. AliveOf' = AliveOf \ {proc[p].app}
    BY <1>t, <1>2, <1>3, <2>2 DEF AliveIn
  <2>4. QED BY <1>1, <2>1, <2>3, EndsOne
<1>5. CASE ~(proc[p].st = "live" /\ proc[p].app \in Apps)
  <2>1. AliveOf' = AliveOf
    BY <1>t, <1>2, <1>3, <1>5 DEF AliveIn
  <2>2. QED BY <1>1, <2>1, Stutters
<1>6. QED BY <1>4, <1>5

-------------------------------------------------------------------------------
(* Theorem: the refinement *)

\* A service that was never started knows nothing.
LEMMA InitMaps == Init => A!AppsInit
<1> SUFFICES ASSUME Init PROVE A!AppsInit
  OBVIOUS
<1>1. /\ IsUp = FALSE /\ sock.pc = "off" /\ config = EmptyFile /\ process_count = 0
      /\ process_list \in [Slot -> Entry] /\ proc = [p \in Pid |-> Free]
  BY BlankTypes DEF Init, IsUp, SockOff
<1>2. 0 \in 0 .. ListSize
  BY ServerAssumption
<1>3. ListOf(process_list, 0) = <<>>
  <2>1. ListOf(process_list, 0) \in Seq(AppRec) /\ Len(ListOf(process_list, 0)) = 0
    BY <1>1, <1>2, ListRows
  <2>2. QED BY <2>1, EmptySeq
<1>4. get_process_list_count(EmptyFile) = 0
  <2>1. \A i \in Slot : EmptyFile[i].app = NoApp /\ ~(i < 0)
    BY ServerAssumption DEF EmptyFile, Slot
  <2>2. QED BY <1>2, <2>1, CountLemma DEF Filled
<1>5. ListOf(EmptyFile, 0) = <<>>
  <2>1. \A i \in 0 .. 0 - 1 : FALSE
    OBVIOUS
  <2>2. ListOf(EmptyFile, 0) = ListOf(process_list, 0)
    BY <1>2, <2>1, ListSame
  <2>3. QED BY <1>3, <2>2
<1>6. AppsOf = <<>> /\ FileOf = <<>>
  BY <1>1, <1>3, <1>4, <1>5 DEF AppsOf, FileOf
<1>7. AliveOf = {}
  BY <1>1 DEF AliveOf, Free
<1>8. PhaseOf = "ready"
  BY <1>1, Phases
<1>9. QED BY <1>1, <1>6, <1>7, <1>8 DEF A!AppsInit

\* Every step is one of KbpmApps or invisible to it.
LEMMA StepMaps == Good /\ [Next]_vars => [A!AppsNext]_(A!appsVars)
<1> SUFFICES ASSUME Good, [Next]_vars PROVE [A!AppsNext]_(A!appsVars)
  OBVIOUS
<1>1. CASE UNCHANGED vars
  BY <1>1, Unseen DEF vars, PhaseOf
<1>2. CASE Crash
  <2>1. ServerDies("exit", Orphaned(proc)) /\ IsUp
    BY <1>2 DEF Crash, IsUp
  <2>2. QED BY <2>1, GoodFacts, GoesDown DEF DownCause
<1>3. CASE ClientNext
  <2>1. UNCHANGED <<server, process_list, process_count, sock, proc, config>>
    BY <1>3 DEF ClientNext, ClientSend, ClientSend2, ClientDies, ClientStep, listVars, fileVars
  <2>2. UNCHANGED PhaseOf
    BY <2>1 DEF PhaseOf
  <2>3. QED BY <2>1, <2>2, Unseen
<1>4. QED BY <1>1, <1>2, <1>3, StartMaps, MainMaps, SockMaps, TickMaps, ExitMaps DEF Next

\* The daemon, threads, mutex, pids and crashes included, keeps to the registry in every step
\* except those after a list-changing request overtook the boot loop of the same daemon.
THEOREM RefinementCorrect == Spec => ImplementsApps
<1>1. Inv /\ ChildInv /\ MutexHeld /\ OneChildPerApp /\ [Next]_vars
        => (~raced /\ ~raced' => [A!AppsNext]_(A!appsVars))
  BY StepMaps DEF Good
<1>2. QED BY <1>1, InitMaps, ListInvariant, ChildCorrect, MutexCorrect, OneChildCorrect, PTL
          DEF Spec, ImplementsApps
=============================================================================
