------------------------ MODULE KbpmServerMutexProofs ------------------------
(***************************************************************************)
(* Theorems about KbpmServer, part 4: the mutex, what follows from it for  *)
(* the supervisor's launches, what a request touches, whom the daemon      *)
(* kills, and the file.                                                    *)
(***************************************************************************)
EXTENDS KbpmServerChildProofs

-------------------------------------------------------------------------------
(* Theorems: the mutex *)

\* The critical sections are where they were.
LEMMA KeptMutex ==
  ASSUME MutexHeld, UNCHANGED mutex,
         main'.pc = "scan" <=> main.pc = "scan", InHandler' <=> InHandler
  PROVE  MutexHeld'
BY DEF MutexHeld

\* The mutex dies with the daemon.
LEMMA DiesMutex ==
  ASSUME NEW cause, NEW t, ServerDies(cause, t) PROVE MutexHeld'
BY DEF ServerDies, MutexHeld, InHandler, MainOff, SockOff

\* A launch inside a critical section stays inside it.
LEMMA LaunchMutex ==
  ASSUME MutexHeld, NEW l, NEW n, NEW i, NEW t, NEW next,
         next.pc \in {"off", "accept", "lock"} <=> ~InHandler,
         Launch(l, n, i, t, next)
  PROVE  MutexHeld'
<1>1. CASE ServerDies("exit", Orphaned(t))
  BY <1>1, DiesMutex
<1>2. CASE ~ServerDies("exit", Orphaned(t))
  <2>1. UNCHANGED <<mutex, main>> /\ sock' = next
    BY <1>2 DEF Launch
  <2>2. QED BY <2>1, KeptMutex DEF InHandler
<1>3. QED BY <1>1, <1>2

\* The main thread takes the mutex to scan and gives it back.
LEMMA MainMutex == Inv /\ MutexHeld /\ MainNext => MutexHeld'
<1> SUFFICES ASSUME Inv, MutexHeld, MainNext PROVE MutexHeld'
  OBVIOUS
<1>t. main \in MainThread
  BY DEF Inv, TypeOK
<1>d. \A t : ServerDies("exit", t) => MutexHeld'
  BY DiesMutex
<1>k. ASSUME UNCHANGED <<mutex, sock>>, main.pc # "scan", main'.pc # "scan"
      PROVE  MutexHeld'
  BY <1>k, KeptMutex DEF InHandler
<1>1. CASE BootVisit
  BY <1>1, <1>t, <1>k DEF BootVisit, MainThread, sockVars
<1>2. CASE BootFork
  BY <1>2, <1>t, <1>d, <1>k DEF BootFork, MainThread, sockVars
<1>3. CASE BootRecord
  BY <1>3, <1>t, <1>k DEF BootRecord, MainThread, sockVars
<1>4. CASE BootDone
  BY <1>4, <1>t, <1>k DEF BootDone, MainThread, sockVars
<1>5. CASE MainWait
  BY <1>5, <1>t, <1>k DEF MainWait, MainThread, sockVars
<1>6. CASE MainLock
  <2>1. mutex = "free" /\ mutex' = "main" /\ main'.pc = "scan" /\ UNCHANGED sock
    BY <1>6, <1>t DEF MainLock, MainThread, sockVars
  <2>2. QED BY <2>1 DEF MutexHeld, InHandler
<1>7. CASE MainScanQuick \/ MainScanEnd
  <2>1. main.pc = "scan" /\ mutex' = "free" /\ main'.pc = "wait" /\ UNCHANGED sock
    BY <1>7, <1>t DEF MainScanQuick, MainScanEnd, MainUnlock, MainThread, sockVars
  <2>2. QED BY <2>1 DEF MutexHeld, InHandler
<1>8. CASE MainScanRestart
  <2>1. PICK i \in Hit : Launch(process_list, process_count, i, proc, sock)
    BY <1>8 DEF MainScanRestart
  <2>2. QED BY <2>1, LaunchMutex DEF InHandler
<1>9. QED BY <1>1, <1>2, <1>3, <1>4, <1>5, <1>6, <1>7, <1>8 DEF MainNext

\* The socket thread holds the mutex from lock to the end of the save.
LEMMA SockMutex == Inv /\ MutexHeld /\ (SockAccept \/ SockServe) => MutexHeld'
<1> SUFFICES ASSUME Inv, MutexHeld, SockAccept \/ SockServe PROVE MutexHeld'
  OBVIOUS
<1>t. sock \in SockThread /\ client.cmd \in Command
  BY DEF Inv, TypeOK, Client
<1>s. \A pc : SockTo(pc) => sock'.pc = pc
  BY <1>t DEF SockTo, SockThread
<1>d. \A cause, t : ServerDies(cause, t) => MutexHeld'
  BY DiesMutex
<1>k. ASSUME UNCHANGED <<mutex, main>>, InHandler, sock'.pc \notin {"off", "accept", "lock"}
      PROVE  MutexHeld'
  BY <1>k, KeptMutex DEF InHandler
<1>r. ASSUME InHandler PROVE \A pc : pc # "off" /\ pc # "accept" /\ pc # "lock" /\ SockTo(pc)
                                     /\ UNCHANGED <<mutex, main>> => MutexHeld'
  BY <1>k, <1>r, <1>s
<1>n. /\ Responding.pc = "respond"
      /\ SockRound.pc = sock.pc
  BY <1>t DEF Responding, SockRound, SockThread
<1>l. ASSUME NEW l, NEW n, NEW i, NEW t, NEW next, InHandler, Launch(l, n, i, t, next),
             next.pc \notin {"off", "accept", "lock"}
      PROVE  MutexHeld'
  BY <1>l, LaunchMutex
<1>1. CASE SockAccept
  <2>1. SockAt("accept") /\ UNCHANGED <<mutex, main>> /\ sock'.pc = "lock"
    BY <1>1, <1>s DEF SockAccept
  <2>2. QED BY <2>1, KeptMutex DEF InHandler, SockAt
<1>2. CASE SockLock
  <2>1. mutex = "free" /\ mutex' = "sock" /\ sock'.pc = "read" /\ UNCHANGED main
    BY <1>2, <1>s DEF SockLock
  <2>2. QED BY <2>1 DEF MutexHeld, InHandler
<1>3. CASE SockRead
  <2>1. SockAt("read") /\ UNCHANGED <<mutex, main>>
    BY <1>3 DEF SockRead
  <2>2. PICK pc \in SockPc : SockTo(pc) /\ pc \notin {"off", "accept", "lock"}
    <3>1. CASE client.sent = 1
      <4>1. CASE client.cmd \in TwoPhase
        BY <1>3, <3>1, <4>1 DEF SockRead, SockPc, TwoPhase
      <4>2. CASE client.cmd = "ping"
        BY <1>3, <3>1, <4>2 DEF SockRead, SockPc, TwoPhase
      <4>3. CASE client.cmd \in {"startall", "stopall", "status"}
        BY <1>3, <3>1, <4>3 DEF SockRead, SockPc, TwoPhase
      <4>4. QED BY <1>t, <4>1, <4>2, <4>3 DEF Command
    <3>2. CASE client.sent # 1
      BY <1>3, <3>2 DEF SockRead, SockPc
    <3>3. QED BY <3>1, <3>2
  <2>3. QED BY <1>k, <1>s, <2>1, <2>2 DEF SockAt, InHandler
<1>4. CASE SockPong \/ SockRead2 \/ SockAnswer \/ SockStop \/ SockStatus \/ SockTruncate
  <2>1. CASE \E cause, t : ServerDies(cause, t)
    BY <1>d, <2>1
  <2>2. CASE ~\E cause, t : ServerDies(cause, t)
    <3>1. UNCHANGED <<mutex, main>> /\ InHandler
      BY <1>4, <2>2 DEF SockPong, SockRead2, SockAnswer, SockStop, SockStatus, SockTruncate,
                        Applying, SockAt, InHandler
    <3>2. \E pc \in {"read2", "apply", "respond", "write"} : SockTo(pc)
      BY <1>4, <2>2 DEF SockPong, SockRead2, SockAnswer, SockStop, SockStatus, SockTruncate
    <3>3. QED BY <1>r, <3>1, <3>2
  <2>3. QED BY <2>1, <2>2
<1>5. CASE SockRemove
  BY <1>5, <1>r DEF SockRemove, Applying, SockAt, InHandler
<1>6. CASE SockStartOverflow \/ SockRemoveOverflow \/ SockKillZero \/ SockScanSegv
  BY <1>6, <1>d DEF SockStartOverflow, SockRemoveOverflow, SockKillZero, SockScanSegv
<1>7. CASE SockStartCmd \/ SockStart \/ SockRestart
  <2>1. InHandler
    BY <1>7 DEF SockStartCmd, SockStart, SockRestart, Applying, SockAt, InHandler
  <2>2. \E l, n, i, t : Launch(l, n, i, t, Responding)
    BY <1>7 DEF SockStartCmd, SockStart, SockRestart
  <2>3. QED BY <1>l, <1>n, <2>1, <2>2
<1>8. CASE SockStartAll
  <2>1. SockAt("startall") /\ InHandler
    BY <1>8 DEF SockStartAll, SockAt, InHandler
  <2>2. CASE sock' = SockRound /\ UNCHANGED <<mutex, main>>
    BY <1>k, <1>n, <2>1, <2>2 DEF SockAt
  <2>3. CASE Launch(process_list, process_count, sock.i, proc, SockRound)
    BY <1>l, <1>n, <2>1, <2>3 DEF SockAt
  <2>4. QED BY <1>8, <2>2, <2>3 DEF SockStartAll
<1>9. CASE SockStopAll
  BY <1>9, <1>k, <1>n DEF SockStopAll, SockAt, InHandler
<1>10. CASE SockRespond
  BY <1>10, <1>d, <1>k DEF SockRespond, SockAt, InHandler
<1>11. CASE SockWrite
  <2>1. SockAt("write") /\ mutex' = "free" /\ sock'.pc = "accept" /\ UNCHANGED main
    BY <1>11, <1>s DEF SockWrite
  <2>2. QED BY <2>1 DEF MutexHeld, InHandler, SockAt
<1>12. QED BY <1>1, <1>2, <1>3, <1>4, <1>5, <1>6, <1>7, <1>8, <1>9, <1>10, <1>11 DEF SockServe

\* MutexHeld is inductive; a daemon that is down holds nothing.
LEMMA StepMutex == Inv /\ ChildInv /\ MutexHeld /\ [Next]_vars => MutexHeld'
<1> SUFFICES ASSUME Inv, ChildInv, MutexHeld, [Next]_vars PROVE MutexHeld'
  OBVIOUS
<1>1. CASE UNCHANGED vars
  BY <1>1, KeptMutex DEF vars, InHandler
<1>2. CASE ServiceStart
  <2>1. /\ main.pc = "off" /\ sock.pc = "off" /\ UNCHANGED mutex
        /\ main'.pc = "boot" /\ sock'.pc = "accept"
    BY <1>2 DEF ServiceStart, MainOff, SockOff, ChildInv, DownInv
  <2>2. QED BY <2>1, KeptMutex DEF InHandler
<1>3. CASE Crash
  BY <1>3, DiesMutex DEF Crash
<1>4. CASE ClientNext \/ Tick \/ \E p \in Pid : ProcExit(p)
  <2>1. UNCHANGED <<mutex, main, sock>>
    BY <1>4 DEF ClientNext, ClientSend, ClientSend2, ClientDies, ClientStep, Tick, ProcExit, sockVars
  <2>2. QED BY <2>1, KeptMutex DEF InHandler
<1>5. QED BY <1>1, <1>2, <1>3, <1>4, MainMutex, SockMutex DEF Next

\* The two critical sections exclude each other and are entered and left with the mutex.
THEOREM MutexCorrect == Spec => []MutexHeld
<1>1. Init => MutexHeld
  BY DEF Init, MainOff, SockOff, MutexHeld, InHandler
<1>2. QED BY <1>1, StepMutex, ListInvariant, ChildCorrect, PTL DEF Spec

-------------------------------------------------------------------------------
(* Theorem: what the supervisor launches *)

\* While the list is scanned, a free pid comes to life only by MainScanRestart.
LEMMA ScanLaunch ==
  ASSUME Inv, ChildInv, MutexHeld, [Next]_vars, main.pc = "scan",
         NEW p \in Pid, proc[p].st = "free", proc'[p].st = "live"
  PROVE  \E i \in Hit : /\ process_list[i].is_running
                        /\ proc'[p].app = process_list[i].app
<1>t. proc \in [Pid -> Process] /\ mutex = "main" /\ ~InHandler /\ server = "up"
  BY DEF Inv, TypeOK, MutexHeld, ChildInv, DownInv
<1>d. \A cause : ~ServerDies(cause, Orphaned(proc))
  BY <1>t DEF ServerDies, Orphaned, Process, Free
<1>1. CASE MainScanRestart
  <2>1. PICK i \in Hit : process_list[i].is_running
                         /\ Launch(process_list, process_count, i, proc, sock)
    BY <1>1 DEF MainScanRestart
  <2>2. PICK q \in Forkable : proc' = Forked(proc, q, process_list[i].app)
    BY <1>d, <2>1 DEF Launch
  <2>3. p = q /\ proc'[p].app = process_list[i].app
    BY <1>t, <2>2 DEF Forked, Forkable
  <2>4. QED BY <2>1, <2>3
<1>2. CASE UNCHANGED proc
  BY <1>2
<1>3. CASE Crash
  BY <1>3, <1>d DEF Crash
<1>4. CASE \E q \in Pid : ProcExit(q)
  BY <1>4, <1>t DEF ProcExit, Free, Process
<1>5. ASSUME SockServe PROVE FALSE
  BY <1>t, <1>5 DEF SockServe, SockLock, SockRead, SockPong, SockRead2, SockAnswer, SockStartCmd,
       SockStartOverflow, SockStart, SockKillZero, SockScanSegv, Stopping, SockStop, SockRestart,
       SockRemove, SockRemoveOverflow, SockStartAll, SockStopAll, SockStatus, SockRespond, SockTruncate, SockWrite,
       Applying, SockAt, InHandler
<1>6. ASSUME MainNext PROVE MainScanRestart \/ UNCHANGED proc
  BY <1>6 DEF MainNext, BootVisit, BootFork, BootRecord, BootDone, MainWait, MainLock,
              MainScanQuick, MainScanEnd
<1>7. ASSUME ServiceStart \/ SockAccept \/ ClientNext \/ Tick \/ UNCHANGED vars
      PROVE  UNCHANGED proc
  BY <1>7 DEF ServiceStart, SockAccept, ClientNext, ClientSend, ClientSend2, ClientDies,
              ClientStep, Tick, vars
<1>8. QED BY <1>1, <1>2, <1>3, <1>4, <1>5, <1>6, <1>7 DEF Next

\* The supervisor revives only what died: an app marked running that has no live child.
THEOREM RelaunchCorrect == Spec => RelaunchOnlyDead
<1> DEFINE A == main.pc = "scan" /\ ~raced =>
                  \A p \in Pid : proc[p].st = "free" /\ proc'[p].st = "live" =>
                    /\ \E i \in Used : process_list[i].is_running
                                       /\ process_list[i].app = proc'[p].app
                    /\ \A q \in Pid : proc[q].st = "live" => proc[q].app # proc'[p].app
<1>1. Inv /\ ChildInv /\ MutexHeld /\ [Next]_vars => A
  <2>1. SUFFICES ASSUME Inv, ChildInv, MutexHeld, [Next]_vars, main.pc = "scan", ~raced,
                        NEW p \in Pid, proc[p].st = "free", proc'[p].st = "live"
                 PROVE  /\ \E i \in Used : process_list[i].is_running
                                           /\ process_list[i].app = proc'[p].app
                        /\ \A q \in Pid : proc[q].st = "live" => proc[q].app # proc'[p].app
    OBVIOUS
  <2>2. PICK i \in Hit : process_list[i].is_running /\ proc'[p].app = process_list[i].app
    BY <2>1, ScanLaunch
  <2>3. i \in Used /\ process_list[i].pid = main.pid /\ main.pid # 0
    BY DEF Hit
  <2>4. Agrees(process_list, process_count, process_count, proc, main.pid, 0)
    BY <2>1, Settled DEF Hand, Booting, BootPc
  <2>5. ASSUME NEW q \in Pid, proc[q].st = "live", proc[q].app = process_list[i].app PROVE FALSE
    <3>1. PICK j \in Used : process_list[j].pid = q /\ process_list[j].app = proc[q].app
      BY <2>4, <2>5 DEF Agrees, Used, Pid
    <3>2. Filled(process_list, process_count)
      BY <2>1 DEF Inv, ListInv
    <3>3. j = i
      BY <2>3, <2>5, <3>1, <3>2 DEF Filled, Used
    <3>4. q = main.pid
      BY <2>3, <3>1, <3>3
    <3>5. QED BY <2>4, <2>5, <3>4 DEF Agrees
  <2>6. QED BY <2>2, <2>3, <2>5
<1>2. Inv /\ ChildInv /\ MutexHeld /\ [Next]_vars => [A]_vars
  BY <1>1
<1>3. [][Inv /\ ChildInv /\ MutexHeld /\ [Next]_vars]_vars => [][A]_vars
  BY <1>2, PTL
<1>4. QED BY <1>3, ListInvariant, ChildCorrect, MutexCorrect, PTL DEF Spec, RelaunchOnlyDead

-------------------------------------------------------------------------------
(* Theorem: a request touches only what it means *)

\* A client that has sent its argument has sent one.
Spoken == client.sent = 2 => client.buffer.kind # "empty"

\* No step of anyone changes that.
LEMMA StepSpoken == Inv /\ Spoken /\ [Next]_vars => Spoken'
<1> SUFFICES ASSUME Inv, Spoken, [Next]_vars PROVE Spoken'
  OBVIOUS
<1>t. client \in Client
  BY DEF Inv, TypeOK
<1>k. ASSUME UNCHANGED client PROVE Spoken'
  BY <1>k DEF Spoken
<1>n. ASSUME client' = NoClient \/ client' = [NoClient EXCEPT !.alive = TRUE] PROVE Spoken'
  BY <1>n DEF Spoken, NoClient
<1>d. ASSUME NEW cause, NEW t, ServerDies(cause, t) PROVE Spoken'
  BY <1>d, <1>n DEF ServerDies
<1>l. ASSUME NEW l, NEW n, NEW i, NEW t, NEW next, Launch(l, n, i, t, next) PROVE Spoken'
  BY <1>d, <1>k, <1>l DEF Launch
<1>1. CASE UNCHANGED vars \/ ServiceStart \/ Crash \/ Tick \/ \E p \in Pid : ProcExit(p)
  BY <1>1, <1>k, <1>d DEF vars, ServiceStart, Crash, Tick, ProcExit, sockVars
<1>2. CASE MainNext
  <2>1. CASE BootFork \/ MainScanRestart
    BY <2>1, <1>k, <1>d, <1>l DEF BootFork, MainScanRestart, sockVars
  <2>2. CASE ~(BootFork \/ MainScanRestart)
    BY <1>2, <1>k, <2>2 DEF MainNext, BootVisit, BootRecord, BootDone, MainWait, MainLock,
                            MainScanQuick, MainScanEnd, sockVars
  <2>3. QED BY <2>1, <2>2
<1>3. CASE SockAccept \/ SockRespond
  BY <1>3, <1>n, <1>d DEF SockAccept, SockRespond
<1>4. CASE SockPong
  <2>1. CASE client' = [client EXCEPT !.pong = TRUE]
    BY <1>t, <2>1 DEF Client, Spoken
  <2>2. QED BY <1>4, <1>d, <2>1 DEF SockPong
<1>5. CASE SockStartOverflow \/ SockRemoveOverflow \/ SockKillZero \/ SockScanSegv \/ SockStatus
  BY <1>5, <1>d, <1>k DEF SockStartOverflow, SockRemoveOverflow, SockKillZero, SockScanSegv,
                          SockStatus
<1>6. CASE SockStartCmd \/ SockStart \/ SockRestart \/ SockStartAll
  BY <1>6, <1>k, <1>l DEF SockStartCmd, SockStart, SockRestart, SockStartAll
<1>7. CASE SockLock \/ SockRead \/ SockRead2 \/ SockAnswer \/ SockStop \/ SockRemove
           \/ SockStopAll \/ SockTruncate \/ SockWrite
  BY <1>7, <1>k DEF SockLock, SockRead, SockRead2, SockAnswer, SockStop, SockRemove,
                    SockStopAll, SockTruncate, SockWrite
<1>8. CASE ClientSend \/ ClientDies
  <2>1. \/ client'.sent = 1
        \/ client'.sent = client.sent /\ client'.buffer = client.buffer
    BY <1>8, <1>t DEF ClientSend, ClientDies, Client
  <2>2. QED BY <2>1 DEF Spoken
<1>9. CASE ClientSend2
  <2>1. CASE client' = [client EXCEPT !.pong = FALSE]
    BY <1>t, <2>1 DEF Spoken, Client
  <2>2. CASE \E b \in Request(client.cmd) : client' = [client EXCEPT !.buffer = b, !.sent = 2]
    <3>1. PICK b \in Request(client.cmd) : client' = [client EXCEPT !.buffer = b, !.sent = 2]
      BY <2>2
    <3>2. b.kind # "empty" /\ client'.buffer = b
      BY <1>t, <3>1 DEF Request, Text, Json, Client
    <3>3. QED BY <3>2 DEF Spoken
  <2>3. QED BY <1>9, <2>1, <2>2 DEF ClientSend2
<1>10. QED BY <1>1, <1>2, <1>3, <1>4, <1>5, <1>6, <1>7, <1>8, <1>9 DEF Next, SockServe, ClientNext

\* The target of a request is what the request means.
LEMMA TargetIsMeant ==
  ASSUME Inv, Resolves, arg.kind # "empty"
  PROVE  process_list[Target].app \in Meant(arg)
<1>1. process_list[Target].app = IF IsId THEN process_list[atoi].app ELSE arg.word
  BY TargetLemma
<1>2. arg.kind = "text" /\ \A w \in Used : w \in Number
  BY ServerAssumption DEF Resolves, IsId, IsAppName, is_number, Inv, TypeOK, Used, Number
<1>3. CASE IsId
  <2>1. arg.word \in Used /\ atoi = arg.word
    BY <1>2, <1>3 DEF IsId, atoi
  <2>2. Meant(arg) = {process_list[arg.word].app}
    BY <1>2, <2>1 DEF Meant
  <2>3. QED BY <1>1, <1>3, <2>1, <2>2
<1>4. CASE ~IsId
  <2>1. arg.word \notin Used
    BY <1>2, <1>4 DEF IsId, is_number, atoi
  <2>2. Meant(arg) = {arg.word}
    BY <1>2, <2>1 DEF Meant
  <2>3. QED BY <1>1, <1>4, <2>2
<1>5. QED BY <1>3, <1>4

\* A write into one entry is seen in the status of its app only.
LEMMA WriteTouches ==
  ASSUME UNCHANGED process_count, NEW i \in Used, NEW a, a # process_list[i].app,
         process_list'[i].app = process_list[i].app,
         \A j \in Used : j # i => process_list'[j] = process_list[j]
  PROVE  StatusOf(a)' = StatusOf(a)
<1>1. Used' = Used
  BY DEF Used
<1>2. Named(a)' = Named(a) /\ \A j \in Named(a) : process_list'[j] = process_list[j]
  BY <1>1 DEF Named
<1>3. QED BY <1>2 DEF StatusOf

\* server_start_process on a used slot, server_stop_process before it or not.
LEMMA LaunchTouches ==
  ASSUME Inv, NEW i \in Used, NEW a, a # process_list[i].app, NEW l \in [Slot -> Entry],
         l[i].app = process_list[i].app,
         \A j \in Used : j # i => l[j] = process_list[j],
         NEW t, NEW next, Launch(l, process_count, i, t, next), server' = "up"
  PROVE  StatusOf(a)' = StatusOf(a)
<1>1. PICK p \in Forkable : /\ process_list' = [l EXCEPT ![i] = Started(l[i], p)]
                            /\ UNCHANGED process_count
  BY DEF Launch, ServerDies
<1>2. i \in Slot /\ l[i] \in Entry /\ p \in Pid /\ \A j \in Used : j \in Slot
  BY ServerAssumption DEF Inv, TypeOK, Used, Slot, Forkable
<1>3. Started(l[i], p).app = l[i].app
  BY <1>2, EntryTypes
<1>4. /\ process_list'[i].app = process_list[i].app
      /\ \A j \in Used : j # i => process_list'[j] = process_list[j]
  <2> DEFINE e == Started(l[i], p)
  <2>1. process_list' = [l EXCEPT ![i] = e] /\ e.app = l[i].app
    BY <1>1, <1>3
  <2> HIDE DEF e
  <2>2. QED BY <1>2, <2>1
<1>5. QED BY <1>1, <1>4, WriteTouches

\* An app that is appended changes the status of no other.
LEMMA AppendTouches ==
  ASSUME Inv, NEW a, a # arg.word, SockStartCmd, server' = "up"
  PROVE  StatusOf(a)' = StatusOf(a)
<1> DEFINE n   == process_count
           new == [Blank EXCEPT !.app = arg.word, !.id = n]
           l   == [process_list EXCEPT ![n] = new]
<1>1. n < ListSize /\ Launch(l, n + 1, n, proc, Responding)
  BY DEF SockStartCmd
<1>2. /\ n \in Slot /\ process_list \in [Slot -> Entry] /\ n \in Nat
      /\ \A j \in Used : j \in Slot /\ j # n
  BY <1>1, ServerAssumption DEF Inv, TypeOK, Slot, Used
<1>3. PICK p : process_list' = [l EXCEPT ![n] = Started(l[n], p)] /\ process_count' = n + 1
  BY <1>1 DEF Launch, ServerDies
<1> HIDE DEF new
<1>4. l[n] = new /\ \A j \in Used : process_list'[j] = process_list[j]
  BY <1>2, <1>3
<1>5. process_list'[n].app = arg.word
  <2>1. process_list'[n] = Started(new, p)
    BY <1>2, <1>3, <1>4
  <2>2. Started(new, p).app = arg.word
    BY DEF Started, new, Blank
  <2>3. QED BY <2>1, <2>2
<1>6. Used' = Used \cup {n}
  <2>1. process_count' = process_count + 1 /\ process_count \in Nat
    BY <1>2, <1>3
  <2> HIDE DEF n, l
  <2>2. 0 .. process_count = (0 .. process_count - 1) \cup {process_count}
    BY <2>1
  <2>3. Used' = 0 .. process_count /\ Used = 0 .. process_count - 1
    BY <2>1 DEF Used
  <2>4. QED BY <2>2, <2>3 DEF n
<1>7. Named(a)' = Named(a)
  BY <1>4, <1>5, <1>6 DEF Named
<1>8. \A j \in Named(a) : process_list'[j] = process_list[j]
  BY <1>4 DEF Named
<1>9. QED BY <1>7, <1>8 DEF StatusOf

\* A removal moves the entries behind it; their numbers apart they stay what they are.
LEMMA DeleteTouches ==
  ASSUME Inv, process_count < ListSize,
         NEW k \in Used, NEW a \in Apps, a # process_list[k].app,
         process_list' = del_process_by_app_name(StoppedAt(k), process_list[k].app),
         process_count' = process_count - 1
  PROVE  StatusOf(a)' = StatusOf(a)
<1> DEFINE n    == process_count
           l    == StoppedAt(k)
           f(j) == IF j < k THEN j ELSE j + 1
           g(i) == IF i < k THEN i ELSE i - 1
           Row(e) == [e EXCEPT !.id = 0]
<1>1. /\ process_list \in [Slot -> Entry] /\ n \in 1 .. ListSize /\ n \in 0 .. ListSize - 1
      /\ k \in 0 .. n - 1 /\ k \in Slot /\ ListOK(l, n) /\ l[k].app = process_list[k].app
  BY StoppedLemma, ServerAssumption DEF Inv, TypeOK, Used, Slot
<1>2. /\ \A j \in Slot : j # k => l[j] = process_list[j]
      /\ process_list' = del_process_by_app_name(l, l[k].app)
  BY <1>1 DEF StoppedAt
<1> HIDE DEF l
<1>3. process_list' = [j \in Slot |-> IF j \in k .. n - 1 THEN ShiftedFrom(l, j + 1) ELSE l[j]]
  BY <1>1, <1>2, DeleteLemma
<1>4. ASSUME NEW j \in 0 .. n - 2
      PROVE  /\ f(j) \in 0 .. n - 1 /\ f(j) # k
             /\ process_list'[j].app = process_list[f(j)].app
             /\ Row(process_list'[j]) = Row(process_list[f(j)])
  <2>1. j \in Slot /\ f(j) \in Slot /\ f(j) \in 0 .. n - 1 /\ f(j) # k
    BY <1>1, ServerAssumption DEF Slot
  <2>2. l[f(j)] = process_list[f(j)] /\ l[f(j)] \in Entry /\ l[f(j)].app # NoApp
    BY <1>1, <1>2, <2>1 DEF ListOK, Filled
  <2>3. CASE j < k
    <3>1. process_list'[j] = l[j] /\ f(j) = j
      BY <1>1, <1>3, <2>1, <2>3
    <3>2. QED BY <2>1, <2>2, <3>1
  <2>4. CASE ~(j < k)
    <3>1. process_list'[j] = ShiftedFrom(l, j + 1) /\ f(j) = j + 1
      BY <1>1, <1>3, <2>1, <2>4
    <3>2. process_list'[j] = [l[j + 1] EXCEPT !.id = l[j + 1].id - 1]
      BY <2>1, <2>2, <3>1 DEF ShiftedFrom
    <3>3. /\ process_list'[j].app = l[j + 1].app
          /\ Row(process_list'[j]) = Row(l[j + 1])
      BY <2>2, <3>1, <3>2 DEF Entry
    <3>4. QED BY <2>1, <2>2, <3>1, <3>3
  <2>5. QED BY <2>3, <2>4
<1>5. \A i \in 0 .. n - 1 : i # k => g(i) \in 0 .. n - 2 /\ f(g(i)) = i
  BY <1>1
<1>6. Used = 0 .. n - 1 /\ Used' = 0 .. n - 2
  BY <1>1 DEF Used
<1> HIDE DEF f, g, Row
<1>7. \A i \in Named(a) : g(i) \in Named(a)' /\ Row(process_list'[g(i)]) = Row(process_list[i])
  BY <1>4, <1>5, <1>6 DEF Named
<1>8. \A j \in Named(a)' : f(j) \in Named(a) /\ Row(process_list[f(j)]) = Row(process_list'[j])
  BY <1>4, <1>6 DEF Named
<1>9. {Row(process_list'[j]) : j \in Named(a)'} = {Row(process_list[i]) : i \in Named(a)}
  BY <1>7, <1>8
<1>10. QED BY <1>9 DEF StatusOf, Row

\* One step at a time.
LEMMA StepTouches ==
  ASSUME Inv, ChildInv, Spoken, [Next]_vars,
         SockAt("apply"), sock' # sock, server' = "up", client.sent = 2
  PROVE  TouchesOnly(Meant(client.buffer))
<1>t. /\ process_list \in [Slot -> Entry] /\ server = "up" /\ arg.kind # "empty"
      /\ \A j \in Used : j \in Slot
  BY ServerAssumption DEF Inv, TypeOK, ChildInv, DownInv, SockAt, Spoken, arg, Used, Slot
<1>d. \A cause \in DownCause : \A t : ~ServerDies(cause, t)
  BY DEF ServerDies, DownCause
<1>1. SockServe
  <2>1. ~ServiceStart /\ ~Crash /\ ~Tick /\ ~ClientNext /\ ~SockAccept /\ ~UNCHANGED vars
        /\ \A p \in Pid : ~ProcExit(p)
    BY <1>t, <1>d DEF ServiceStart, Crash, DownCause, Tick, ClientNext, ClientSend, ClientSend2,
       ClientDies, ClientStep, SockAccept, SockAt, ProcExit, sockVars, vars
  <2>2. ~MainNext
    BY <1>d DEF MainNext, BootVisit, BootFork, BootRecord, BootDone, MainWait, MainLock,
       MainScanQuick, MainScanRestart, MainScanEnd, Launch, sockVars, DownCause
  <2>3. QED BY <2>1, <2>2 DEF Next
<1>2. SUFFICES ASSUME NEW a \in Apps, a \notin Meant(arg) PROVE StatusOf(a)' = StatusOf(a)
  BY DEF TouchesOnly, arg
<1>m. ASSUME Resolves PROVE Target \in Used /\ a # process_list[Target].app
  BY <1>t, <1>2, <1>m, TargetLemma, TargetIsMeant
<1>3. CASE SockAnswer
  BY <1>3 DEF SockAnswer, listVars, StatusOf, Named, Used
<1>4. CASE SockStartCmd
  <2>1. arg.kind = "json"
    BY <1>4 DEF SockStartCmd, IsCmd
  <2>2. a # arg.word
    BY <1>2, <2>1 DEF Meant
  <2>3. QED BY <1>4, <2>2, AppendTouches
<1>5. CASE SockStart
  <2>1. Resolves /\ Launch(process_list, process_count, Target, proc, Responding)
    BY <1>5 DEF SockStart
  <2>2. \A j \in Used : j # Target => process_list[j] = process_list[j]
    OBVIOUS
  <2>3. QED BY <1>t, <1>m, <2>1, <2>2, LaunchTouches
<1>6. ASSUME NEW k \in Used
      PROVE  /\ StoppedAt(k) \in [Slot -> Entry] /\ StoppedAt(k)[k].app = process_list[k].app
             /\ \A j \in Used : j # k => StoppedAt(k)[j] = process_list[j]
  <2>1. StoppedAt(k) \in [Slot -> Entry] /\ StoppedAt(k)[k].app = process_list[k].app
    BY StoppedLemma DEF ListOK
  <2>2. \A j \in Used : j # k => StoppedAt(k)[j] = process_list[j]
    BY <1>t DEF StoppedAt
  <2>3. QED BY <2>1, <2>2
<1>7. CASE SockRestart
  <2>1. /\ Resolves
        /\ Launch(StoppedAt(Target), process_count, Target, KilledAt(Target), Responding)
    BY <1>7 DEF SockRestart
  <2>2. QED BY <1>m, <1>6, <2>1, LaunchTouches
<1>8. CASE SockStop
  <2>1. Resolves /\ process_list' = StoppedAt(Target) /\ UNCHANGED process_count
    BY <1>8 DEF SockStop
  <2>2. QED BY <1>m, <1>6, <2>1, WriteTouches
<1>9. CASE SockRemove
  <2>1. /\ Resolves /\ process_count' = process_count - 1
        /\ process_list' = del_process_by_app_name(StoppedAt(Target), process_list[Target].app)
    BY <1>9 DEF SockRemove
  <2>2. process_count < ListSize
    BY <1>9, RemoveLemma, ServerAssumption
  <2>3. QED BY <1>m, <2>1, <2>2, DeleteTouches
<1>10. CASE ~(SockAnswer \/ SockStartCmd \/ SockStart \/ SockRestart \/ SockStop \/ SockRemove)
  <2>1. CASE SockStartOverflow \/ SockRemoveOverflow \/ SockKillZero \/ SockScanSegv
    BY <1>d, <2>1 DEF SockStartOverflow, SockRemoveOverflow, SockKillZero, SockScanSegv, DownCause
  <2>2. CASE ~(SockStartOverflow \/ SockRemoveOverflow \/ SockKillZero \/ SockScanSegv)
    BY <1>1, <1>10, <2>2 DEF SockServe, SockLock, SockRead, SockPong, SockRead2, SockStartAll,
       SockStopAll, SockStatus, SockRespond, SockTruncate, SockWrite, SockAt
  <2>3. QED BY <2>1, <2>2
<1>11. QED BY <1>3, <1>4, <1>5, <1>7, <1>8, <1>9, <1>10

\* Whoever else's entries a request moves or renumbers, it touches no app but the one
\* its argument means.
THEOREM OnlyMeantCorrect == Spec => OnlyMeantTouched
<1> DEFINE B == SockAt("apply") /\ sock' # sock /\ server' = "up" /\ client.sent = 2 =>
                  TouchesOnly(Meant(client.buffer))
<1>1. Init => Spoken
  BY DEF Init, NoClient, Spoken
<1>2. Inv /\ ChildInv /\ Spoken /\ [Next]_vars => [B]_vars
  BY StepTouches
<1>3. [][Inv /\ ChildInv /\ Spoken /\ [Next]_vars]_vars => [][B]_vars
  BY <1>2, PTL
<1>4. Spec => []Spoken
  BY <1>1, StepSpoken, ListInvariant, PTL DEF Spec
<1>5. QED BY <1>3, <1>4, ListInvariant, ChildCorrect, PTL DEF Spec, OnlyMeantTouched

-------------------------------------------------------------------------------
(* Theorem: who is killed with pid 0 *)

\* Behind the boot loop everything that is marked running has a pid, so only a request
\* that overtook boot stops an entry without one.
LEMMA KillZeroRaced == ASSUME Inv, ChildInv, SockKillZero PROVE raced
<1> SUFFICES ASSUME ~raced PROVE FALSE
  OBVIOUS
<1>1. PICK i \in Stopping : NoPid(i)
  BY DEF SockKillZero
<1>2. i \in 0 .. process_count - 1 /\ process_list[i].is_running /\ process_list[i].pid = 0
  BY <1>1 DEF Stopping, NoPid, Used
<1>3. ~Booting
  BY <1>1 DEF Stopping, SockAt, ChildInv, BootInv, ChangesList
<1>4. process_list[i].pid \in Pid
  <2>1. process_count \in Nat /\ i < process_count
    BY <1>2, ServerAssumption DEF Inv, TypeOK
  <2>2. Agrees(process_list, process_count, process_count, proc, Hand, 0)
    BY <1>3, Settled
  <2>3. QED BY <1>2, <2>1, <2>2 DEF Agrees
<1>5. QED BY <1>2, <1>4 DEF Pid

\* The daemon kills its own process group at most where a request overtook boot.
THEOREM OwnGroupCorrect == Spec => OwnGroupSpared
<1> DEFINE A == server' = "kill0" /\ server = "up" => raced
<1>1. Inv /\ ChildInv /\ [Next]_vars => A
  <2>1. SUFFICES ASSUME Inv, ChildInv, [Next]_vars, server' = "kill0", server = "up" PROVE raced
    OBVIOUS
  <2>d. \A cause, t : ServerDies(cause, t) => cause = "kill0"
    BY <2>1 DEF ServerDies
  <2>2. ASSUME SockServe PROVE SockKillZero
    BY <2>1, <2>2, <2>d DEF SockServe, SockLock, SockRead, SockPong, SockRead2, SockAnswer,
       SockStartCmd, SockStartOverflow, SockStart, SockScanSegv, SockStop, SockRestart,
       SockRemove, SockRemoveOverflow, SockStartAll, SockStopAll, SockStatus, SockRespond,
       SockTruncate, SockWrite, Launch
  <2>3. ~MainNext
    BY <2>1, <2>d DEF MainNext, BootVisit, BootFork, BootRecord, BootDone, MainWait, MainLock,
       MainScanQuick, MainScanRestart, MainScanEnd, Launch
  <2>4. /\ ~ServiceStart /\ ~Crash /\ ~SockAccept /\ ~ClientNext /\ ~Tick /\ ~UNCHANGED vars
        /\ \A p \in Pid : ~ProcExit(p)
    BY <2>1, <2>d DEF ServiceStart, Crash, SockAccept, ClientNext, ClientSend, ClientSend2,
       ClientDies, ClientStep, Tick, ProcExit, vars
  <2>5. QED BY <2>1, <2>2, <2>3, <2>4, KillZeroRaced DEF Next
<1>2. Inv /\ ChildInv /\ [Next]_vars => [A]_vars
  BY <1>1
<1>3. [][Inv /\ ChildInv /\ [Next]_vars]_vars => [][A]_vars
  BY <1>2, PTL
<1>4. QED BY <1>3, ListInvariant, ChildCorrect, PTL DEF Spec, OwnGroupSpared

-------------------------------------------------------------------------------
(* Theorem: the file *)

\* A step that renames nothing, marks nothing running and leaves the file alone.
LEMMA KeptFile ==
  ASSUME FileCoversList, UNCHANGED <<config, process_count>>, FileInStep' => FileInStep,
         ~raced' => /\ ~raced
                    /\ \A i \in Slot : process_list'[i].app = process_list[i].app
                    /\ \A i \in Used : process_list'[i].is_running => process_list[i].is_running
  PROVE  FileCoversList'
BY DEF FileCoversList, Used

\* The file of a daemon that is down is not compared with anything.
LEMMA DiesFile == ASSUME NEW cause, NEW t, ServerDies(cause, t) PROVE FileCoversList'
BY DEF ServerDies, SockOff, FileCoversList, FileInStep

\* What one write into an entry does to names and running marks.
LEMMA EntryWrite ==
  ASSUME Inv, NEW i \in Slot, NEW e \in Entry, e.app = process_list[i].app,
         e.is_running => process_list[i].is_running,
         process_list' = [process_list EXCEPT ![i] = e]
  PROVE  /\ \A j \in Slot : process_list'[j].app = process_list[j].app
         /\ \A j \in Used : process_list'[j].is_running => process_list[j].is_running
<1>1. process_list \in [Slot -> Entry] /\ \A j \in Used : j \in Slot
  BY ServerAssumption DEF Inv, TypeOK, Used, Slot
<1>2. \A j \in Slot : process_list'[j] = IF j = i THEN e ELSE process_list[j]
  BY <1>1
<1>3. QED BY <1>1, <1>2

\* The main thread marks nothing running that the file does not.
LEMMA MainFile == Inv /\ ChildInv /\ FileCoversList /\ MainNext => FileCoversList'
<1> SUFFICES ASSUME Inv, ChildInv, FileCoversList, MainNext PROVE FileCoversList'
  OBVIOUS
<1>t. /\ process_list \in [Slot -> Entry] /\ process_count \in 0 .. ListSize
      /\ main \in MainThread /\ \A i \in Used : i \in Slot
  BY ServerAssumption DEF Inv, TypeOK, Used, Slot
<1>k. ASSUME UNCHANGED <<config, process_count, process_list, sock, raced>>
      PROVE  FileCoversList'
  BY <1>k, KeptFile DEF FileInStep
<1>w. ASSUME UNCHANGED <<config, process_count, sock, raced>>,
             raced \/ \E i \in Slot, e \in Entry :
               /\ e.app = process_list[i].app
               /\ e.is_running => process_list[i].is_running
               /\ process_list' = [process_list EXCEPT ![i] = e]
      PROVE  FileCoversList'
  <2>1. ~raced' => /\ ~raced
                   /\ \A i \in Slot : process_list'[i].app = process_list[i].app
                   /\ \A i \in Used : process_list'[i].is_running => process_list[i].is_running
    BY <1>w, EntryWrite
  <2>2. QED BY <1>w, <2>1, KeptFile DEF FileInStep
<1>1. CASE BootVisit
  <2> DEFINE e == [process_list[main.i] EXCEPT !.id = main.i]
  <2>1. main.i \in Slot /\ main.i \in -ListSize .. ListSize
    BY <1>1, <1>t, ServerAssumption DEF BootVisit, Slot, MainThread
  <2>2. e \in Entry /\ e.app = process_list[main.i].app
        /\ e.is_running = process_list[main.i].is_running
    BY <1>t, <2>1 DEF Entry
  <2>3. /\ UNCHANGED <<config, process_count, sock, raced>>
        /\ process_list' = [process_list EXCEPT ![main.i] = e]
    BY <1>1 DEF BootVisit, sockVars, fileVars
  <2> HIDE DEF e
  <2>4. QED BY <1>w, <2>1, <2>2, <2>3
<1>2. CASE BootRecord
  <2> DEFINE e == Started(process_list[main.i], main.pid)
  <2>1. main.i \in Slot /\ main.pid \in Pid /\ (raced \/ process_list[main.i].is_running)
    BY <1>2 DEF BootRecord, Inv, ListInv, ChildInv, BootInv
  <2>2. e \in Entry /\ e.app = process_list[main.i].app
    BY <1>t, <2>1, EntryTypes
  <2>3. /\ UNCHANGED <<config, process_count, sock, raced>>
        /\ process_list' = [process_list EXCEPT ![main.i] = e]
    BY <1>2 DEF BootRecord, sockVars, fileVars
  <2> HIDE DEF e
  <2>4. QED BY <1>w, <2>1, <2>2, <2>3
<1>3. CASE BootFork
  <2>1. CASE ServerDies("exit", Orphaned(proc))
    BY <2>1, DiesFile
  <2>2. CASE ~ServerDies("exit", Orphaned(proc))
    BY <1>3, <1>k, <2>2 DEF BootFork, listVars, sockVars, fileVars
  <2>3. QED BY <2>1, <2>2
<1>4. CASE BootDone \/ MainWait \/ MainLock \/ MainScanEnd
  BY <1>4, <1>k DEF BootDone, MainWait, MainLock, MainScanEnd, listVars, sockVars, fileVars
<1>5. CASE MainScanQuick
  <2>1. PICK i \in Hit : process_list' =
          [process_list EXCEPT ![i] = [process_list[i] EXCEPT !.is_running = FALSE, !.pid = 0]]
    BY <1>5 DEF MainScanQuick
  <2> DEFINE e == [process_list[i] EXCEPT !.is_running = FALSE, !.pid = 0]
  <2>2. i \in Slot /\ 0 \in 0 .. MaxPid
    BY <1>t, ServerAssumption DEF Hit
  <2>3. e \in Entry /\ e.app = process_list[i].app /\ ~e.is_running
    BY <1>t, <2>2 DEF Entry
  <2>4. UNCHANGED <<config, process_count, sock, raced>>
    BY <1>5 DEF MainScanQuick, sockVars, fileVars
  <2>5. process_list' = [process_list EXCEPT ![i] = e]
    BY <2>1
  <2> HIDE DEF e
  <2>6. QED BY <1>w, <2>2, <2>3, <2>4, <2>5
<1>6. CASE MainScanRestart
  <2>1. PICK i \in Hit : process_list[i].is_running
                         /\ Launch(process_list, process_count, i, proc, sock)
    BY <1>6 DEF MainScanRestart
  <2>2. CASE ServerDies("exit", Orphaned(proc))
    BY <2>2, DiesFile
  <2>3. CASE ~ServerDies("exit", Orphaned(proc))
    <3>1. PICK p \in Forkable :
            /\ process_list' = [process_list EXCEPT ![i] = Started(process_list[i], p)]
            /\ UNCHANGED <<config, process_count, sock, raced>>
      BY <2>1, <2>3 DEF Launch, fileVars
    <3> DEFINE e == Started(process_list[i], p)
    <3>2. i \in Slot /\ p \in Pid
      BY <1>t DEF Hit, Forkable
    <3>3. e \in Entry /\ e.app = process_list[i].app
      BY <1>t, <3>2, EntryTypes
    <3>4. process_list' = [process_list EXCEPT ![i] = e]
      BY <3>1
    <3> HIDE DEF e
    <3>5. QED BY <1>w, <2>1, <3>1, <3>2, <3>3, <3>4
  <2>4. QED BY <2>2, <2>3
<1>7. QED BY <1>1, <1>2, <1>3, <1>4, <1>5, <1>6 DEF MainNext

\* A request moves list and file apart and the save brings them together again.
LEMMA SockFile == Inv /\ ChildInv /\ FileCoversList /\ (SockAccept \/ SockServe) => FileCoversList'
<1> SUFFICES ASSUME Inv, ChildInv, FileCoversList, SockAccept \/ SockServe PROVE FileCoversList'
  OBVIOUS
<1>t. sock \in SockThread /\ process_count \in 0 .. ListSize
  BY DEF Inv, TypeOK
<1>s. \A pc : SockTo(pc) => sock'.pc = pc
  BY <1>t DEF SockTo, SockThread
<1>d. \A cause, t : ServerDies(cause, t) => FileCoversList'
  BY DiesFile
<1>k. ASSUME UNCHANGED <<config, process_count, process_list>>, FileInStep, ~raced' => ~raced
      PROVE  FileCoversList'
  BY <1>k, KeptFile
<1>o. ASSUME sock'.pc \in {"startall", "stopall", "respond", "save", "write"}
      PROVE  FileCoversList'
  BY <1>o DEF FileCoversList, FileInStep
<1>n. /\ Responding.pc = "respond"
      /\ SockRound.pc = sock.pc
  BY <1>t DEF Responding, SockRound, SockThread
<1>l. ASSUME NEW l, NEW n, NEW i, NEW t, NEW next, Launch(l, n, i, t, next),
             next.pc \in {"startall", "respond"}
      PROVE  FileCoversList'
  BY <1>d, <1>l, <1>o DEF Launch
<1>1. CASE SockAccept \/ SockLock
  BY <1>1, <1>k DEF SockAccept, SockLock, SockAt, FileInStep, listVars, fileVars
<1>2. CASE SockRead
  <2>1. UNCHANGED <<config, process_count, process_list>> /\ FileInStep
    BY <1>2 DEF SockRead, SockAt, FileInStep, listVars
  <2>2. raced' = (raced \/ (Booting /\ client.cmd \in Mutating)) \/ raced' = raced
    BY <1>2 DEF SockRead
  <2>3. ~raced' => ~raced
    BY <2>2, Zenon
  <2>4. QED BY <1>k, <2>1, <2>3
<1>3. CASE SockPong \/ SockRead2 \/ SockAnswer \/ SockStop \/ SockStatus \/ SockTruncate
  <2>1. CASE \E cause, t : ServerDies(cause, t)
    BY <1>d, <2>1
  <2>2. CASE SockRead2
    BY <1>k, <2>2 DEF SockRead2, SockAt, FileInStep, listVars, fileVars
  <2>3. CASE SockPong /\ ~\E cause, t : ServerDies(cause, t)
    BY <1>k, <2>3 DEF SockPong, SockAt, FileInStep, listVars, fileVars
  <2>4. CASE (SockAnswer \/ SockStop \/ SockStatus \/ SockTruncate)
             /\ ~\E cause, t : ServerDies(cause, t)
    <3>1. \E pc \in {"respond", "write"} : SockTo(pc)
      BY <2>4 DEF SockAnswer, SockStop, SockStatus, SockTruncate
    <3>2. QED BY <1>o, <1>s, <3>1
  <2>5. QED BY <1>3, <2>1, <2>2, <2>3, <2>4
<1>4. CASE SockRemove
  BY <1>4, <1>o, <1>s DEF SockRemove
<1>5. CASE SockStartOverflow \/ SockRemoveOverflow \/ SockKillZero \/ SockScanSegv
  BY <1>5, <1>d DEF SockStartOverflow, SockRemoveOverflow, SockKillZero, SockScanSegv
<1>6. CASE SockStartCmd \/ SockStart \/ SockRestart
  <2>1. \E l, n, i, t : Launch(l, n, i, t, Responding)
    BY <1>6 DEF SockStartCmd, SockStart, SockRestart
  <2>2. QED BY <1>l, <1>n, <2>1
<1>7. CASE SockStartAll
  <2>1. CASE sock' = SockRound
    BY <1>7, <1>n, <1>o, <2>1 DEF SockStartAll, SockAt
  <2>2. CASE Launch(process_list, process_count, sock.i, proc, SockRound)
    BY <1>7, <1>l, <1>n, <2>2 DEF SockStartAll, SockAt
  <2>3. QED BY <1>7, <2>1, <2>2 DEF SockStartAll
<1>8. CASE SockStopAll
  BY <1>8, <1>n, <1>o DEF SockStopAll, SockAt
<1>9. CASE SockRespond
  BY <1>9, <1>d, <1>o DEF SockRespond
<1>10. CASE SockWrite
  <2>1. get_process_list_count(process_list) = process_count
    BY <1>t, CountLemma DEF Inv, ListInv
  <2>2. /\ UNCHANGED <<process_list, process_count>>
        /\ config' = [i \in Slot |-> IF i < process_count
                                     THEN SavedAs(process_list[i]) ELSE EmptyFile[i]]
    BY <1>10, <2>1 DEF SockWrite, listVars
  <2>3. \A i \in Slot : config'[i].app = process_list[i].app
    BY <2>2 DEF SavedAs, EmptyFile, Inv, ListInv, Filled
  <2>4. \A i \in Used : i \in Slot /\ config'[i] = SavedAs(process_list[i])
    BY <1>t, <2>2, ServerAssumption DEF Used, Slot
  <2>5. \A i \in Used : config'[i].is_running = process_list[i].is_running
    <3>1. \A e : SavedAs(e).is_running = e.is_running
      BY DEF SavedAs
    <3>2. QED BY <2>4, <3>1, Zenon
  <2>6. QED BY <2>2, <2>3, <2>5 DEF FileCoversList, Used
<1>11. QED BY <1>1, <1>2, <1>3, <1>4, <1>5, <1>6, <1>7, <1>8, <1>9, <1>10 DEF SockServe

\* FileCoversList is inductive, given the invariants of parts 1 and 3.
LEMMA StepFile == Inv /\ ChildInv /\ FileCoversList /\ [Next]_vars => FileCoversList'
<1> SUFFICES ASSUME Inv, ChildInv, FileCoversList, [Next]_vars PROVE FileCoversList'
  OBVIOUS
<1>1. CASE UNCHANGED vars
  BY <1>1 DEF vars, FileCoversList, FileInStep, Used
<1>2. CASE ServiceStart
  <2>1. PICK n \in 0 .. ListSize : Filled(config, n)
    BY DEF Inv, ListInv
  <2>2. process_count' = n /\ process_list' = Loaded(config) /\ UNCHANGED config
    BY <1>2, <2>1, CountLemma DEF ServiceStart, LoadedCount
  <2>3. ASSUME NEW i \in Slot
        PROVE  /\ process_list'[i].app = config[i].app
               /\ process_list'[i].is_running = config[i].is_running
    <3>1. process_list'[i] = [Blank EXCEPT !.app = config[i].app,
                                           !.is_running = config[i].is_running]
      BY <2>2 DEF Loaded
    <3>2. QED BY <3>1 DEF Blank
  <2>4. \A i \in Used' : i \in Slot
    <3>1. \A m \in 0 .. ListSize : \A i \in 0 .. m - 1 : i \in Slot
      BY ServerAssumption DEF Slot
    <3>2. QED BY <2>2, <3>1 DEF Used
  <2>5. QED BY <2>2, <2>3, <2>4 DEF FileCoversList
<1>3. CASE Crash
  BY <1>3, DiesFile DEF Crash
<1>4. CASE ClientNext \/ \E p \in Pid : ProcExit(p)
  <2>1. UNCHANGED <<config, process_count, process_list, sock, raced>>
    BY <1>4 DEF ClientNext, ClientSend, ClientSend2, ClientDies, ClientStep, ProcExit,
                listVars, sockVars, fileVars
  <2>2. QED BY <2>1, KeptFile DEF FileInStep
<1>5. CASE Tick
  <2>1. /\ UNCHANGED <<config, process_count, sock, raced>>
        /\ process_list' = [i \in Slot |-> [process_list[i] EXCEPT !.fresh = FALSE]]
    BY <1>5 DEF Tick, sockVars, fileVars
  <2>2. /\ \A i \in Slot : process_list'[i].app = process_list[i].app
        /\ \A i \in Slot : process_list'[i].is_running = process_list[i].is_running
    BY <2>1 DEF Inv, TypeOK, Entry
  <2>3. \A i \in Used : i \in Slot
    BY ServerAssumption DEF Inv, TypeOK, Used, Slot
  <2>4. QED BY <2>1, <2>2, <2>3, KeptFile DEF FileInStep
<1>6. QED BY <1>1, <1>2, <1>3, <1>4, <1>5, MainFile, SockFile DEF Next

\* Between two requests the file covers the list: a crash then forgets no app.
THEOREM FileCorrect == Spec => []FileCoversList
<1>1. Init => FileCoversList
  BY DEF Init, SockOff, FileCoversList, FileInStep
<1>2. QED BY <1>1, StepFile, ListInvariant, ChildCorrect, PTL DEF Spec

==============================================================================
