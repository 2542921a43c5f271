------------------------ MODULE KbpmServerChildProofs ------------------------
(***************************************************************************)
(* Theorems about KbpmServer, part 3: apps and processes.  ChildInv is     *)
(* carried through every action, and what it says of supervised apps, lost *)
(* children and double instances is read off from it.                      *)
(***************************************************************************)
EXTENDS KbpmServerAgreesProofs

-------------------------------------------------------------------------------
(* What single operations of the daemon do to ChildInv *)

\* A daemon that is gone leaves neither threads nor children nor entries.
LEMMA DiesChild ==
  ASSUME NEW cause \in DownCause, NEW t \in [Pid -> Process], NEW u,
         u \in {Orphaned(t), GroupKilled(t)},
         ServerDies(cause, u)
  PROVE  ChildInv'
<1>1. \A p \in Pid : u[p].st \notin {"live", "zombie"}
  BY DEF Orphaned, GroupKilled, Process, Free
<1>2. /\ process_count' = 0 /\ proc' = u /\ process_list' = [i \in Slot |-> Blank]
      /\ main'.pc = "off" /\ sock'.pc = "off"
  BY DEF ServerDies, MainOff, SockOff
<1>3. Agrees(process_list', 0, 0, u, 0, 0)
  BY <1>1, AgreesFresh, ServerAssumption
<1>4. ~Booting' /\ LaunchedCount' = 0 /\ Hand' = 0 /\ Newborn' = 0
  BY <1>2 DEF Booting, BootPc, LaunchedCount, Hand, Newborn
<1>5. DownInv'
  BY <1>1, <1>2 DEF DownInv
<1>6. BootInv'
  BY <1>2, <1>4 DEF BootInv
<1>7. ListedInv'
  BY <1>2, <1>3, <1>4 DEF ListedInv
<1>8. QED BY <1>5, <1>6, <1>7 DEF ChildInv

\* A step that leaves list, processes and main thread alone.
LEMMA KeptChild ==
  ASSUME ChildInv, UNCHANGED <<listVars, main, proc>>, ~raced' => ~raced,
         Booting /\ ~raced' => ~ChangesList',
         server' # "up" => server # "up" /\ UNCHANGED sock
  PROVE  ChildInv'
<1>1. UNCHANGED <<LaunchedCount, Hand, Newborn, Booting>>
  BY DEF listVars, LaunchedCount, Hand, Newborn, Booting
<1>2. DownInv'
  BY DEF ChildInv, DownInv, listVars
<1>3. BootInv'
  BY <1>1 DEF ChildInv, BootInv, listVars
<1>4. ListedInv'
  BY <1>1 DEF ChildInv, ListedInv, listVars
<1>5. QED BY <1>2, <1>3, <1>4 DEF ChildInv

\* A step that ends behind the boot loop.
LEMMA PastBoot ==
  ASSUME server' = "up",
         ~raced' => /\ main'.pc \notin BootPc
                    /\ Agrees(process_list', process_count', process_count', proc', Hand', 0)
  PROVE  ChildInv'
<1>1. DownInv'
  BY DEF DownInv
<1>2. CASE raced'
  BY <1>1, <1>2 DEF ChildInv, BootInv, ListedInv
<1>3. CASE ~raced'
  <2>1. ~Booting' /\ LaunchedCount' = process_count' /\ Newborn' = 0
        /\ main'.pc \notin {"boot_fork", "boot_record"}
    BY <1>3 DEF Booting, BootPc, LaunchedCount, Newborn
  <2>2. BootInv' /\ ListedInv'
    BY <1>3, <2>1 DEF BootInv, ListedInv
  <2>3. QED BY <1>1, <2>2 DEF ChildInv
<1>4. QED BY <1>2, <1>3

\* Behind the boot loop every entry has been numbered and launched.
LEMMA Settled ==
  ASSUME ChildInv, ~raced, ~Booting
  PROVE  Agrees(process_list, process_count, process_count, proc, Hand, 0)
BY DEF ChildInv, ListedInv, LaunchedCount, Newborn, Booting, BootPc

\* server_start_process on an entry without a process keeps every child listed.
LEMMA LaunchChild ==
  ASSUME server = "up", NEW l \in [Slot -> Entry], NEW n \in 0 .. ListSize,
         NEW i \in 0 .. n - 1, NEW t \in [Pid -> Process], NEW next,
         \A p \in Pid : proc[p].st = "free" => t[p].st = "free",
         ~raced => /\ ~Booting
                   /\ Agrees(l, n, n, t, Hand, 0)
                   /\ ~l[i].is_running \/ l[i].pid = Hand,
         Launch(l, n, i, t, next)
  PROVE  ChildInv'
<1>1. CASE ServerDies("exit", Orphaned(t))
  BY <1>1, DiesChild DEF DownCause
<1>2. CASE ~ServerDies("exit", Orphaned(t))
  <2>1. PICK p \in Forkable :
          /\ proc' = Forked(t, p, l[i].app)
          /\ process_list' = [l EXCEPT ![i] = Started(l[i], p)]
          /\ process_count' = n
          /\ UNCHANGED <<server, main, raced>>
    BY <1>2 DEF Launch, fileVars
  <2>2. p \in Pid /\ t[p].st = "free" /\ p # Hand /\ Hand' = Hand
    BY <2>1 DEF Forkable, Hand, Pid
  <2>3. ASSUME ~raced'
        PROVE  /\ main'.pc \notin BootPc
               /\ Agrees(process_list', process_count', process_count', proc', Hand', 0)
    <3>1. Agrees([l EXCEPT ![i] = Started(l[i], p)], n, n, Forked(t, p, l[i].app), Hand, 0)
      BY <2>1, <2>2, <2>3, AgreesLaunch
    <3>2. QED BY <2>1, <2>2, <2>3, <3>1 DEF Booting
  <2>4. server' = "up"
    BY <2>1
  <2>5. QED BY <2>3, <2>4, PastBoot
<1>3. QED BY <1>1, <1>2

-------------------------------------------------------------------------------
(* ChildInv, action by action *)

\* The main thread: boot loop, wait, scan.
LEMMA MainChild == Inv /\ ChildInv /\ MainNext => ChildInv'
<1> SUFFICES ASSUME Inv, ChildInv, MainNext PROVE ChildInv'
  OBVIOUS
<1>t. /\ process_list \in [Slot -> Entry] /\ process_count \in 0 .. ListSize
      /\ proc \in [Pid -> Process] /\ main \in MainThread
  BY DEF Inv, TypeOK
<1>c. ListSize \in Nat /\ MaxPid \in Nat /\ 0 \notin Pid
  BY ServerAssumption DEF Pid
<1>u. server = "up"
  <2>1. main.pc # "off"
    BY DEF MainNext, BootVisit, BootFork, BootRecord, BootDone, MainWait, MainLock,
           MainScanQuick, MainScanRestart, MainScanEnd
  <2>2. QED BY <2>1 DEF ChildInv, DownInv
<1>1. CASE BootVisit
  <2>1. /\ main.pc = "boot" /\ main.i \in 0 .. process_count - 1 /\ main.i + 1 <= process_count
        /\ process_list' = [process_list EXCEPT ![main.i] = [process_list[main.i] EXCEPT !.id = main.i]]
        /\ UNCHANGED <<server, process_count, sock, proc, raced>>
    BY <1>1, <1>t DEF BootVisit, MainThread, sockVars, fileVars
  <2>2. CASE raced
    BY <1>u, <2>1, <2>2 DEF ChildInv, DownInv, BootInv, ListedInv
  <2>3. CASE ~raced
    <3>1. Agrees(process_list, process_count, main.i, proc, 0, 0) /\ ~ChangesList
      BY <2>1, <2>3 DEF ChildInv, BootInv, ListedInv, LaunchedCount, Hand, Newborn, Booting, BootPc
    <3>2. /\ Agrees(process_list', process_count, main.i, proc, 0, 0)
          /\ ~process_list[main.i].is_running =>
               Agrees(process_list', process_count, main.i + 1, proc, 0, 0)
          /\ process_list'[main.i].is_running = process_list[main.i].is_running
          /\ process_list'[main.i].id = main.i
      <4>1. process_list' = Numbered(process_list, main.i)
        BY <2>1 DEF Numbered
      <4>2. main.i \in 0 .. process_count - 1
        BY <2>1
      <4>3. /\ Agrees(Numbered(process_list, main.i), process_count, main.i, proc, 0, 0)
            /\ ~process_list[main.i].is_running =>
                 Agrees(Numbered(process_list, main.i), process_count, main.i + 1, proc, 0, 0)
            /\ Numbered(process_list, main.i)[main.i].is_running
                 = process_list[main.i].is_running
            /\ Numbered(process_list, main.i)[main.i].id = main.i
        BY <1>t, <3>1, <4>2, AgreesVisit
      <4>4. QED BY <4>1, <4>3
    <3>3. ~ChangesList'
      BY <2>1, <3>1 DEF ChangesList
    <3>4. CASE process_list[main.i].is_running
      <4>1. main'.pc = "boot_fork" /\ main'.i = main.i
        BY <1>1, <1>t, <3>4 DEF BootVisit, MainThread
      <4>2. LaunchedCount' = main.i /\ Hand' = 0 /\ Newborn' = 0
        BY <4>1 DEF LaunchedCount, Hand, Newborn, Booting, BootPc
      <4>3. BootInv' /\ ListedInv'
        BY <1>t, <2>1, <3>2, <3>3, <3>4, <4>1, <4>2 DEF BootInv, ListedInv
      <4>4. QED BY <1>u, <2>1, <4>3 DEF ChildInv, DownInv
    <3>5. CASE ~process_list[main.i].is_running
      <4>1. main'.pc = "boot" /\ main'.i = main.i + 1
        BY <1>1, <1>t, <3>5 DEF BootVisit, MainThread
      <4>2. LaunchedCount' = main.i + 1 /\ Hand' = 0 /\ Newborn' = 0
        BY <4>1 DEF LaunchedCount, Hand, Newborn, Booting, BootPc
      <4>3. BootInv' /\ ListedInv'
        BY <2>1, <3>2, <3>3, <3>5, <4>1, <4>2 DEF BootInv, ListedInv
      <4>4. QED BY <1>u, <2>1, <4>3 DEF ChildInv, DownInv
    <3>6. QED BY <3>4, <3>5
  <2>4. QED BY <2>2, <2>3
<1>2. CASE BootFork
  <2>1. CASE ServerDies("exit", Orphaned(proc))
    BY <1>t, <2>1, DiesChild DEF DownCause
  <2>2. CASE ~ServerDies("exit", Orphaned(proc))
    <3>1. PICK p \in Forkable :
            /\ proc' = Forked(proc, p, process_list[main.i].app)
            /\ main' = [main EXCEPT !.pc = "boot_record", !.pid = p]
            /\ UNCHANGED <<server, process_list, process_count, sock, raced>>
      BY <1>2, <2>2 DEF BootFork, listVars, sockVars, fileVars
    <3>2. main.pc = "boot_fork"
      BY <1>2 DEF BootFork
    <3>3. p \in Pid /\ proc[p].st = "free"
      BY DEF Forkable
    <3>4. main'.pc = "boot_record" /\ main'.i = main.i /\ main'.pid = p
      BY <1>t, <3>1 DEF MainThread
    <3>5. CASE raced
      BY <1>u, <3>1, <3>5 DEF ChildInv, DownInv, BootInv, ListedInv
    <3>6. CASE ~raced
      <4>1. /\ Agrees(process_list, process_count, main.i, proc, 0, 0) /\ ~ChangesList
            /\ main.i \in 0 .. process_count - 1
            /\ process_list[main.i].is_running /\ process_list[main.i].id = main.i
        BY <1>t, <3>2, <3>6 DEF ChildInv, BootInv, ListedInv, LaunchedCount, Hand, Newborn,
                                Booting, BootPc, MainThread
      <4>2. Agrees(process_list, process_count, main.i, proc', 0, p)
        BY <1>t, <3>1, <3>3, <4>1, AgreesBootFork
      <4>3. LaunchedCount' = main.i /\ Hand' = 0 /\ Newborn' = p
        BY <3>4 DEF LaunchedCount, Hand, Newborn, Booting, BootPc
      <4>4. BootInv' /\ ListedInv'
        BY <1>t, <3>1, <3>4, <4>1, <4>2, <4>3 DEF BootInv, ListedInv, ChangesList
      <4>5. QED BY <1>u, <3>1, <4>4 DEF ChildInv, DownInv
    <3>7. QED BY <3>5, <3>6
  <2>3. QED BY <2>1, <2>2
<1>3. CASE BootRecord
  <2>1. /\ main.pc = "boot_record" /\ main.pid \in Pid /\ main.i \in 0 .. ListSize
        /\ process_list' = [process_list EXCEPT ![main.i] = Started(process_list[main.i], main.pid)]
        /\ UNCHANGED <<server, process_count, sock, proc, raced>>
    BY <1>3, <1>t DEF BootRecord, Inv, ListInv, MainThread, sockVars, fileVars
  <2>2. main'.pc = "boot" /\ main'.i = main.i + 1
    BY <1>3, <1>t DEF BootRecord, MainThread
  <2>3. CASE raced
    BY <1>u, <2>1, <2>3 DEF ChildInv, DownInv, BootInv, ListedInv
  <2>4. CASE ~raced
    <3>1. /\ Agrees(process_list, process_count, main.i, proc, 0, main.pid) /\ ~ChangesList
          /\ main.i \in 0 .. process_count - 1 /\ main.i + 1 <= process_count
          /\ process_list[main.i].id = main.i
      BY <1>t, <2>1, <2>4 DEF ChildInv, BootInv, ListedInv, LaunchedCount, Hand, Newborn,
                              Booting, BootPc
    <3>2. Agrees(process_list', process_count, main.i + 1, proc, 0, 0)
      BY <1>t, <2>1, <3>1, AgreesBootRecord
    <3>3. LaunchedCount' = main.i + 1 /\ Hand' = 0 /\ Newborn' = 0
      BY <2>2 DEF LaunchedCount, Hand, Newborn, Booting, BootPc
    <3>4. BootInv' /\ ListedInv'
      BY <2>1, <2>2, <3>1, <3>2, <3>3 DEF BootInv, ListedInv, ChangesList
    <3>5. QED BY <1>u, <2>1, <3>4 DEF ChildInv, DownInv
  <2>5. QED BY <2>3, <2>4
<1>4. CASE BootDone
  <2>1. /\ main.pc = "boot" /\ main.i >= process_count /\ main.i \in 0 .. ListSize
        /\ main'.pc = "wait"
        /\ UNCHANGED <<server, process_list, process_count, proc, raced>>
    BY <1>4, <1>t DEF BootDone, MainThread, listVars, fileVars
  <2>2. ASSUME ~raced'
        PROVE  /\ main'.pc \notin BootPc
               /\ Agrees(process_list', process_count', process_count', proc', Hand', 0)
    <3>1. Agrees(process_list, process_count, main.i, proc, 0, 0) /\ main.i = process_count
      BY <1>t, <2>1, <2>2 DEF ChildInv, BootInv, ListedInv, LaunchedCount, Hand, Newborn,
                              Booting, BootPc
    <3>2. QED BY <2>1, <3>1 DEF Hand, BootPc
  <2>3. QED BY <1>u, <2>1, <2>2, PastBoot
<1>5. CASE MainWait
  <2>1. /\ main.pc = "wait" /\ main'.pc = "lock"
        /\ UNCHANGED <<server, process_list, process_count, raced>>
    BY <1>5, <1>t DEF MainWait, MainThread, listVars, fileVars
  <2>2. ASSUME ~raced'
        PROVE  /\ main'.pc \notin BootPc
               /\ Agrees(process_list', process_count', process_count', proc', Hand', 0)
    <3>1. Agrees(process_list, process_count, process_count, proc, 0, 0)
      BY <2>1, <2>2, Settled DEF Hand, Booting, BootPc
    <3>2. CASE main' = [main EXCEPT !.pc = "lock", !.pid = 0] /\ UNCHANGED proc
      <4>1. Hand' = 0
        BY <1>t, <2>1, <3>2 DEF Hand, MainThread
      <4>2. QED BY <2>1, <3>1, <3>2, <4>1 DEF BootPc
    <3>3. CASE \E p \in Pid : /\ proc[p].st = "zombie"
                              /\ proc' = [proc EXCEPT ![p] = Free]
                              /\ main' = [main EXCEPT !.pc = "lock", !.pid = p]
      <4>1. PICK p \in Pid : /\ proc[p].st = "zombie"
                             /\ proc' = [proc EXCEPT ![p] = Free]
                             /\ main' = [main EXCEPT !.pc = "lock", !.pid = p]
        BY <3>3
      <4>2. Hand' = p
        BY <1>t, <2>1, <4>1 DEF Hand, MainThread
      <4>3. Agrees(process_list, process_count, process_count, proc', p, 0)
        BY <1>t, <3>1, <4>1, AgreesReap
      <4>4. QED BY <2>1, <4>2, <4>3 DEF BootPc
    <3>4. QED BY <1>5, <3>2, <3>3 DEF MainWait
  <2>3. QED BY <1>u, <2>1, <2>2, PastBoot
<1>6. CASE MainLock
  <2>1. /\ main.pc = "lock" /\ main'.pc = "scan" /\ main'.pid = main.pid
        /\ UNCHANGED <<server, process_list, process_count, proc, raced>>
    BY <1>6, <1>t DEF MainLock, MainThread, listVars, fileVars
  <2>2. ASSUME ~raced'
        PROVE  /\ main'.pc \notin BootPc
               /\ Agrees(process_list', process_count', process_count', proc', Hand', 0)
    <3>1. Agrees(process_list, process_count, process_count, proc, main.pid, 0)
      BY <2>1, <2>2, Settled DEF Hand, Booting, BootPc
    <3>2. QED BY <2>1, <3>1 DEF Hand, BootPc
  <2>3. QED BY <1>u, <2>1, <2>2, PastBoot
<1>7. ASSUME main.pc = "scan", ~raced
      PROVE  /\ Agrees(process_list, process_count, process_count, proc, main.pid, 0)
             /\ ~Booting /\ Hand = main.pid
  BY <1>7, Settled DEF Hand, Booting, BootPc
<1>8. ASSUME main.pc = "scan", ~raced, NEW j \in 0 .. process_count - 1,
             process_list[j].pid = main.pid, process_list[j].is_running
      PROVE  j \in Hit
  <2>1. main.pid # 0
    BY <1>7, <1>8, <1>c, <1>t DEF Agrees
  <2>2. \A k \in 0 .. j - 1 : k \in 0 .. process_count - 1 /\ k # j
    BY <1>t
  <2>3. QED BY <1>7, <1>8, <2>1, <2>2 DEF Hit, Used, Agrees
<1>9. CASE MainScanQuick
  <2>1. PICK i \in Hit : process_list' =
          [process_list EXCEPT ![i] = [process_list[i] EXCEPT !.is_running = FALSE, !.pid = 0]]
    BY <1>9 DEF MainScanQuick
  <2>2. /\ main.pc = "scan" /\ main'.pc = "wait"
        /\ UNCHANGED <<server, process_count, proc, raced>>
    BY <1>9, <1>t DEF MainScanQuick, MainUnlock, MainThread, fileVars
  <2>3. ASSUME ~raced'
        PROVE  /\ main'.pc \notin BootPc
               /\ Agrees(process_list', process_count', process_count', proc', Hand', 0)
    <3>1. Agrees(process_list, process_count, process_count, proc, main.pid, 0)
      BY <1>7, <2>2, <2>3
    <3>2. i \in 0 .. process_count - 1 /\ i \in Slot /\ process_list[i] \in Entry
          /\ process_list[i].pid = main.pid /\ main.pid # 0
      BY <1>t, <1>c DEF Hit, Used, Slot
    <3>3. /\ \A j \in 0 .. process_count - 1 : j # i => process_list'[j] = process_list[j]
          /\ process_list'[i].pid = 0 /\ ~process_list'[i].is_running
          /\ process_list'[i].id = process_list[i].id
      BY <1>t, <1>c, <2>1, <3>2 DEF Slot, Entry
    <3>4. Agrees(process_list', process_count, process_count, proc, 0, 0)
      <4>1. \A p \in Pid : proc[p].st = "live" =>
              \E j \in 0 .. process_count - 1 :
                process_list'[j].pid = p /\ process_list'[j].is_running
                /\ process_list'[j].app = proc[p].app
        <5>1. SUFFICES ASSUME NEW p \in Pid, proc[p].st = "live"
                       PROVE  \E j \in 0 .. process_count - 1 :
                                process_list'[j].pid = p /\ process_list'[j].is_running
                                /\ process_list'[j].app = proc[p].app
          OBVIOUS
        <5>2. PICK j \in 0 .. process_count - 1 :
                process_list[j].pid = p /\ process_list[j].is_running
                /\ process_list[j].app = proc[p].app
          BY <1>c, <3>1, <5>1 DEF Agrees
        <5>3. j # i
          BY <3>1, <3>2, <5>1, <5>2 DEF Agrees
        <5>4. QED BY <3>3, <5>2, <5>3
      <4>2. \A j \in 0 .. process_count - 1 :
              /\ ~process_list'[j].is_running => process_list'[j].pid = 0
              /\ process_list'[j].id = j
              /\ process_list'[j].is_running =>
                   /\ process_list'[j].pid \in Pid
                   /\ proc[process_list'[j].pid].st \in {"live", "zombie"}
                   /\ proc[process_list'[j].pid].app = process_list'[j].app
        BY <1>t, <3>1, <3>2, <3>3 DEF Agrees
      <4>3. \A j, k \in 0 .. process_count - 1 :
              process_list'[j].pid = process_list'[k].pid /\ process_list'[j].pid # 0 => j = k
        BY <3>1, <3>3 DEF Agrees
      <4>4. QED BY <1>c, <1>t, <4>1, <4>2, <4>3 DEF Agrees
    <3>5. QED BY <2>2, <3>4 DEF Hand, BootPc
  <2>4. QED BY <1>u, <2>2, <2>3, PastBoot
<1>10. CASE MainScanRestart
  <2>1. PICK i \in Hit : Launch(process_list, process_count, i, proc, sock)
    BY <1>10 DEF MainScanRestart
  <2>2. i \in 0 .. process_count - 1 /\ process_list[i].pid = main.pid
    BY DEF Hit, Used
  <2>3. ~raced => /\ ~Booting /\ process_list[i].pid = Hand
                  /\ Agrees(process_list, process_count, process_count, proc, Hand, 0)
    BY <1>7, <1>10, <2>2 DEF MainScanRestart
  <2>4. QED BY <1>t, <1>u, <2>1, <2>2, <2>3, LaunchChild
<1>11. CASE MainScanEnd
  <2>1. /\ main.pc = "scan" /\ main'.pc = "wait"
        /\ \A i \in Hit : ~process_list[i].is_running
        /\ UNCHANGED <<server, process_list, process_count, proc, raced>>
    BY <1>11, <1>t DEF MainScanEnd, MainUnlock, MainThread, listVars, fileVars
  <2>2. ASSUME ~raced'
        PROVE  /\ main'.pc \notin BootPc
               /\ Agrees(process_list', process_count', process_count', proc', Hand', 0)
    <3>1. Agrees(process_list, process_count, process_count, proc, main.pid, 0)
      BY <1>7, <2>1, <2>2
    <3>2. \A j \in 0 .. process_count - 1 :
            process_list[j].is_running => process_list[j].pid # main.pid
      BY <1>8, <2>1, <2>2
    <3>3. Agrees(process_list, process_count, process_count, proc, 0, 0)
      BY <3>1, <3>2, AgreesDrop
    <3>4. QED BY <2>1, <3>3 DEF Hand, BootPc
  <2>3. QED BY <1>u, <2>1, <2>2, PastBoot
<1>12. QED BY <1>1, <1>2, <1>3, <1>4, <1>5, <1>6, <1>9, <1>10, <1>11 DEF MainNext

\* What server_stop_process on a used slot leaves, behind the boot loop.
LEMMA StoppedChild ==
  ASSUME Inv, ChildInv, ~raced, ~Booting, NEW i \in Used
  PROVE  /\ Agrees(StoppedAt(i), process_count, process_count, KilledAt(i), Hand, 0)
         /\ ~StoppedAt(i)[i].is_running
         /\ \A p \in Pid : proc[p].st = "free" => KilledAt(i)[p].st = "free"
<1>1. /\ process_list \in [Slot -> Entry] /\ process_count \in 0 .. ListSize
      /\ proc \in [Pid -> Process] /\ i \in 0 .. process_count - 1
  BY DEF Inv, TypeOK, Used
<1>2. Agrees(process_list, process_count, process_count, proc, Hand, 0)
  BY Settled
<1>3. /\ Agrees(StoppedAt(i), process_count, process_count, KilledAt(i), Hand, 0)
      /\ ~StoppedAt(i)[i].is_running
  BY <1>1, <1>2, AgreesStop DEF StoppedAt, KilledAt
<1>4. \A p \in Pid : proc[p].st = "free" => KilledAt(i)[p].st = "free"
  BY <1>1 DEF KilledAt, Killed
<1>5. QED BY <1>3, <1>4

\* The socket thread: the requests.
LEMMA SockChild == Inv /\ ChildInv /\ (SockAccept \/ SockServe) => ChildInv'
<1> SUFFICES ASSUME Inv, ChildInv, SockAccept \/ SockServe PROVE ChildInv'
  OBVIOUS
<1>t. /\ process_list \in [Slot -> Entry] /\ process_count \in 0 .. ListSize
      /\ proc \in [Pid -> Process] /\ sock \in SockThread /\ client \in Client
  BY DEF Inv, TypeOK
<1>l. ListOK(process_list, process_count)
  BY DEF Inv, TypeOK, ListInv, ListOK
<1>o. sock.pc # "off" => server = "up"
  BY DEF ChildInv, DownInv
<1>b. ASSUME ChangesList, ~raced PROVE ~Booting
  BY <1>b DEF ChildInv, BootInv
<1>d. \A cause \in DownCause, t \in [Pid -> Process] :
        ServerDies(cause, Orphaned(t)) \/ ServerDies(cause, GroupKilled(t)) => ChildInv'
  BY DiesChild
<1>q. ASSUME UNCHANGED <<server, listVars, main, proc, raced>>, server = "up",
             sock'.pc \notin {"pong", "read2", "apply", "startall", "stopall"} \/ ChangesList
      PROVE  ChildInv'
  <2>1. Booting /\ ~raced' => ~ChangesList'
    BY <1>b, <1>q DEF ChangesList
  <2>2. QED BY <1>q, <2>1, KeptChild
<1>s. \A pc : SockTo(pc) => sock'.pc = pc
  BY <1>t DEF SockTo, SockThread
<1>1. CASE SockAccept
  BY <1>1, <1>o, <1>q, <1>s DEF SockAccept, SockAt, fileVars
<1>2. CASE SockLock
  BY <1>2, <1>o, <1>q, <1>s DEF SockLock, SockAt, fileVars
<1>3. CASE SockRead
  <2>1. UNCHANGED <<server, listVars, main, proc>> /\ server = "up" /\ (~raced' => ~raced)
    <3>1. UNCHANGED <<server, listVars, main, proc>> /\ server = "up"
      BY <1>3, <1>o DEF SockRead, SockAt
    <3>2. raced' = (raced \/ (Booting /\ client.cmd \in Mutating)) \/ raced' = raced
      BY <1>3 DEF SockRead
    <3>3. ~raced' => ~raced
      BY <3>2, Zenon
    <3>4. QED BY <3>1, <3>3
  <2>2. Booting /\ ~raced' => ~ChangesList'
    <3>1. SUFFICES ASSUME Booting, ~raced' PROVE sock'.pc \in {"status", "respond"}
      BY DEF ChangesList
    <3>2. CASE client.sent = 1
      <4>1. client.cmd \in {"status", "ping"}
        <5>1. raced' = (raced \/ (Booting /\ client.cmd \in Mutating))
          BY <1>3, <3>2 DEF SockRead
        <5>2. client.cmd \notin Mutating
          BY <3>1, <5>1
        <5>3. client.cmd \in Command
          BY <1>t DEF Client
        <5>4. QED BY <5>2, <5>3 DEF Command, Mutating
      <4>2. QED BY <1>3, <1>s, <3>2, <4>1 DEF SockRead, TwoPhase
    <3>3. CASE client.sent # 1
      <4>1. SockTo("respond")
        BY <1>3, <3>3 DEF SockRead
      <4>2. sock'.pc = "respond"
        BY <1>s, <4>1
      <4>3. QED BY <4>2
    <3>4. QED BY <3>2, <3>3
  <2>3. QED BY <2>1, <2>2, KeptChild
<1>4. CASE SockPong
  <2>1. CASE ServerDies("sigpipe", Orphaned(proc))
    BY <1>d, <1>t, <2>1 DEF DownCause
  <2>2. CASE ~ServerDies("sigpipe", Orphaned(proc))
    BY <1>4, <1>o, <1>q, <2>2 DEF SockPong, SockAt, ChangesList, fileVars
  <2>3. QED BY <2>1, <2>2
<1>5. CASE SockRead2
  BY <1>5, <1>o, <1>q DEF SockRead2, SockAt, ChangesList, fileVars
<1>6. CASE SockAnswer
  BY <1>6, <1>o, <1>q DEF SockAnswer, SockAt, ChangesList, fileVars
<1>7. CASE SockStartCmd
  <2> DEFINE new == [Blank EXCEPT !.app = arg.word, !.id = process_count]
             l   == [process_list EXCEPT ![process_count] = new]
  <2>1. Launch(l, process_count + 1, process_count, proc, Responding)
    BY <1>7 DEF SockStartCmd
  <2>2. /\ process_count \in 0 .. ListSize - 1 /\ process_count + 1 \in 0 .. ListSize
        /\ process_count \in 0 .. (process_count + 1) - 1 /\ process_count \in Slot
        /\ process_count \in -ListSize .. ListSize
    BY <1>7, <1>t, ServerAssumption DEF SockStartCmd, Slot
  <2>3. new \in Entry /\ ~new.is_running /\ new.pid = 0 /\ new.id = process_count
    <3>1. arg.word \in AppName
      BY <1>7, <1>t DEF SockStartCmd, IsCmd, arg, Client, Buffer, Text, Empty, Json, AppName
    <3>2. Blank \in Entry /\ ~Blank.is_running /\ Blank.pid = 0
      BY BlankTypes DEF Blank
    <3>3. QED BY <2>2, <3>1, <3>2 DEF Entry
  <2> HIDE DEF new
  <2>4. l \in [Slot -> Entry] /\ l[process_count] = new
    BY <1>t, <2>2, <2>3
  <2>5. ~raced => /\ ~Booting
                  /\ Agrees(l, process_count + 1, process_count + 1, proc, Hand, 0)
                  /\ ~l[process_count].is_running
    <3>1. SUFFICES ASSUME ~raced
                   PROVE  ~Booting /\ Agrees(l, process_count + 1, process_count + 1, proc, Hand, 0)
      BY <2>3, <2>4
    <3>2. ~Booting
      BY <1>7, <1>b, <3>1 DEF SockStartCmd, Applying, SockAt, ChangesList
    <3>3. Agrees(process_list, process_count, process_count, proc, Hand, 0)
      BY <3>1, <3>2, Settled
    <3>4. QED BY <1>t, <2>2, <2>3, <3>2, <3>3, AgreesAppend
  <2> HIDE DEF l
  <2>6. server = "up"
    BY <1>7, <1>o DEF SockStartCmd, Applying, SockAt
  <2>7. QED BY <1>t, <2>1, <2>2, <2>4, <2>5, <2>6, LaunchChild
<1>8. CASE SockStartOverflow
  <2>1. ASSUME NEW p \in Forkable, ServerDies("overflow", Orphaned(Forked(proc, p, arg.word)))
        PROVE  ChildInv'
    <3>1. p \in Pid /\ arg.word \in AppName
      BY <1>8, <1>t DEF Forkable, SockStartOverflow, IsCmd, arg, Client, Buffer, Text, Empty, Json,
                        AppName
    <3>2. Forked(proc, p, arg.word) \in [Pid -> Process]
      BY <1>t, <3>1, ProcTypes
    <3>3. QED BY <1>d, <2>1, <3>2 DEF DownCause
  <2>2. CASE ServerDies("exit", Orphaned(proc))
    BY <1>d, <1>t, <2>2 DEF DownCause
  <2>3. QED BY <1>8, <2>1, <2>2 DEF SockStartOverflow
<1>9. CASE SockStart
  <2>1. Target \in 0 .. process_count - 1
    BY <1>9, TargetLemma DEF SockStart, Used
  <2>2. server = "up" /\ ChangesList /\ ~process_list[Target].is_running
    BY <1>9, <1>o DEF SockStart, Applying, SockAt, ChangesList, Refused
  <2>3. ~raced => /\ ~Booting /\ ~process_list[Target].is_running
                  /\ Agrees(process_list, process_count, process_count, proc, Hand, 0)
    BY <1>b, <2>2, Settled
  <2>4. QED BY <1>9, <1>t, <2>1, <2>2, <2>3, LaunchChild DEF SockStart
<1>10. CASE SockKillZero
  BY <1>10, <1>d, <1>t DEF SockKillZero, DownCause
<1>11. CASE SockScanSegv
  <2>1. PICK i \in Stopping : \E t \in {proc, KilledAt(i)} : ServerDies("segv", Orphaned(t))
    BY <1>11 DEF SockScanSegv
  <2>2. PICK t \in {proc, KilledAt(i)} : ServerDies("segv", Orphaned(t))
    BY <2>1
  <2>3. i \in Used
    BY DEF Stopping
  <2>4. t \in [Pid -> Process]
    BY <1>t, <2>3, StoppedLemma
  <2>5. QED BY <1>d, <2>2, <2>4 DEF DownCause
<1>12. CASE SockStop
  <2>1. Target \in Used
    BY <1>12, TargetLemma DEF SockStop
  <2>2. /\ ChangesList /\ server' = "up" /\ UNCHANGED <<process_count, main, raced>>
        /\ proc' = KilledAt(Target) /\ process_list' = StoppedAt(Target)
    BY <1>12, <1>o DEF SockStop, Applying, SockAt, ChangesList, fileVars
  <2>3. ASSUME ~raced'
        PROVE  /\ main'.pc \notin BootPc
               /\ Agrees(process_list', process_count', process_count', proc', Hand', 0)
    BY <1>b, <2>1, <2>2, <2>3, StoppedChild DEF Booting, Hand
  <2>4. QED BY <2>2, <2>3, PastBoot
<1>13. CASE SockRestart
  <2>1. Target \in Used /\ Target \in 0 .. process_count - 1
    BY <1>13, TargetLemma DEF SockRestart, Used
  <2>2. /\ ChangesList /\ server = "up"
        /\ Launch(StoppedAt(Target), process_count, Target, KilledAt(Target), Responding)
    BY <1>13, <1>o DEF SockRestart, Applying, SockAt, ChangesList
  <2>3. StoppedAt(Target) \in [Slot -> Entry] /\ KilledAt(Target) \in [Pid -> Process]
    BY <2>1, StoppedLemma DEF ListOK
  <2>4. ~raced => /\ ~Booting /\ ~StoppedAt(Target)[Target].is_running
                  /\ Agrees(StoppedAt(Target), process_count, process_count,
                            KilledAt(Target), Hand, 0)
    BY <1>b, <2>1, <2>2, StoppedChild
  <2>5. \A p \in Pid : proc[p].st = "free" => KilledAt(Target)[p].st = "free"
    BY <1>t DEF KilledAt, Killed
  <2>6. QED BY <1>t, <2>1, <2>2, <2>3, <2>4, <2>5, LaunchChild
<1>14. CASE SockRemove
  <2>1. /\ Target \in Used /\ Target \in 0 .. process_count - 1
        /\ process_count \in 0 .. ListSize - 1
    BY <1>14, RemoveLemma
  <2>2. /\ ChangesList /\ server' = "up" /\ UNCHANGED <<main, raced>>
        /\ proc' = KilledAt(Target) /\ process_count' = process_count - 1
        /\ process_list' = del_process_by_app_name(StoppedAt(Target), process_list[Target].app)
    BY <1>14, <1>o DEF SockRemove, Applying, SockAt, ChangesList, fileVars
  <2>3. /\ ListOK(StoppedAt(Target), process_count)
        /\ StoppedAt(Target)[Target].app = process_list[Target].app
        /\ KilledAt(Target) \in [Pid -> Process]
    BY <2>1, StoppedLemma
  <2>4. ASSUME ~raced'
        PROVE  /\ main'.pc \notin BootPc
               /\ Agrees(process_list', process_count', process_count', proc', Hand', 0)
    <3>1. ~Booting
      BY <1>b, <2>2, <2>4
    <3>2. /\ Agrees(StoppedAt(Target), process_count, process_count, KilledAt(Target), Hand, 0)
          /\ ~StoppedAt(Target)[Target].is_running
      BY <2>1, <2>2, <2>4, <3>1, StoppedChild
    <3>3. Agrees(del_process_by_app_name(StoppedAt(Target), StoppedAt(Target)[Target].app),
                 process_count - 1, process_count - 1, KilledAt(Target), Hand, 0)
      BY <1>t, <2>1, <2>3, <3>2, AgreesDelete
    <3>4. QED BY <2>2, <2>3, <3>1, <3>3 DEF Booting, Hand
  <2>5. QED BY <2>2, <2>4, PastBoot
<1>14b. CASE SockRemoveOverflow
  <2>1. Target \in Used
    BY <1>14b, TargetLemma DEF SockRemoveOverflow
  <2>2. KilledAt(Target) \in [Pid -> Process] /\ "overflow" \in DownCause
    BY <2>1, StoppedLemma DEF DownCause
  <2>3. QED BY <1>14b, <1>d, <2>2 DEF SockRemoveOverflow
<1>15. CASE SockStartAll
  <2>1. SockAt("startall") /\ sock.i \in 0 .. process_count - 1 /\ server = "up" /\ ChangesList
    BY <1>15, <1>o, <1>t DEF SockStartAll, SockAt, SockThread, ChangesList
  <2>2. CASE process_list[sock.i].is_running
    BY <1>15, <1>q, <2>1, <2>2 DEF SockStartAll, fileVars
  <2>3. CASE ~process_list[sock.i].is_running
    <3>1. Launch(process_list, process_count, sock.i, proc, SockRound)
      BY <1>15, <2>3 DEF SockStartAll
    <3>2. ~raced => /\ ~Booting
                    /\ Agrees(process_list, process_count, process_count, proc, Hand, 0)
      BY <1>b, <2>1, Settled
    <3>3. QED BY <1>t, <2>1, <2>3, <3>1, <3>2, LaunchChild
  <2>4. QED BY <2>2, <2>3
<1>16. CASE SockStopAll
  <2>1. sock.i \in Used
    BY <1>16, <1>t DEF SockStopAll, SockThread, Used
  <2>2. /\ ChangesList /\ server' = "up" /\ UNCHANGED <<process_count, main, raced>>
        /\ proc' = KilledAt(sock.i) /\ process_list' = StoppedAt(sock.i)
    BY <1>16, <1>o DEF SockStopAll, SockAt, ChangesList, fileVars
  <2>3. ASSUME ~raced'
        PROVE  /\ main'.pc \notin BootPc
               /\ Agrees(process_list', process_count', process_count', proc', Hand', 0)
    BY <1>b, <2>1, <2>2, <2>3, StoppedChild DEF Booting, Hand
  <2>4. QED BY <2>2, <2>3, PastBoot
<1>17. CASE SockStatus
  <2>1. CASE ServerDies("segv", Orphaned(proc))
    BY <1>d, <1>t, <2>1 DEF DownCause
  <2>2. CASE ~ServerDies("segv", Orphaned(proc))
    BY <1>17, <1>o, <1>q, <1>s, <2>2 DEF SockStatus, SockAt, fileVars
  <2>3. QED BY <2>1, <2>2
<1>18. CASE SockRespond
  <2>1. CASE ServerDies("sigpipe", Orphaned(proc))
    BY <1>d, <1>t, <2>1 DEF DownCause
  <2>2. CASE ~ServerDies("sigpipe", Orphaned(proc))
    BY <1>18, <1>o, <1>q, <2>2 DEF SockRespond, SockAt, fileVars
  <2>3. QED BY <2>1, <2>2
<1>19. CASE SockTruncate
  BY <1>19, <1>o, <1>q, <1>s DEF SockTruncate, SockAt
<1>20. CASE SockWrite
  BY <1>20, <1>o, <1>q, <1>s DEF SockWrite, SockAt
<1>21. QED BY <1>1, <1>2, <1>3, <1>4, <1>5, <1>6, <1>7, <1>8, <1>9, <1>10, <1>11, <1>12,
              <1>13, <1>14, <1>14b, <1>15, <1>16, <1>17, <1>18, <1>19, <1>20 DEF SockServe

\* The service starts: nothing is launched yet.
LEMMA StartChild == Inv /\ ChildInv /\ ServiceStart => ChildInv'
<1> SUFFICES ASSUME Inv, ChildInv, ServiceStart PROVE ChildInv'
  OBVIOUS
<1>1. process_count' \in 0 .. ListSize
  BY StartInv DEF Inv, TypeOK
<1>2. /\ server' = "up" /\ main'.pc = "boot" /\ main'.i = 0 /\ sock'.pc = "accept"
      /\ proc' = proc /\ process_list' = Loaded(config)
      /\ \A p \in Pid : proc[p].st \notin {"live", "zombie"}
  BY DEF ServiceStart, MainOff, SockOff, ChildInv, DownInv
<1>3. \A i \in 0 .. process_count' - 1 : process_list'[i].pid = 0
  <2>1. \A i \in Slot : Loaded(config)[i].pid = 0
    <3>1. SUFFICES ASSUME NEW i \in Slot PROVE Loaded(config)[i].pid = 0
      OBVIOUS
    <3>2. Loaded(config)[i] = [Blank EXCEPT !.app = config[i].app,
                                            !.is_running = config[i].is_running]
      BY DEF Loaded
    <3>3. Blank \in Entry /\ Blank.pid = 0
      BY BlankTypes DEF Blank
    <3>4. QED BY <3>2, <3>3 DEF Entry
  <2>2. \A i \in 0 .. process_count' - 1 : i \in Slot
    <3>1. \A n \in 0 .. ListSize : \A i \in 0 .. n - 1 : i \in Slot
      BY ServerAssumption DEF Slot
    <3>2. QED BY <1>1, <3>1
  <2>3. process_list' = Loaded(config)
    BY <1>2
  <2>4. QED BY <2>1, <2>2, <2>3, Zenon
<1>4. Agrees(process_list', process_count', 0, proc', 0, 0)
  BY <1>1, <1>2, <1>3, AgreesFresh
<1>5. LaunchedCount' = 0 /\ Hand' = 0 /\ Newborn' = 0 /\ ~ChangesList'
  BY <1>2 DEF LaunchedCount, Hand, Newborn, Booting, BootPc, ChangesList
<1>6. DownInv' /\ BootInv' /\ ListedInv'
  BY <1>1, <1>2, <1>4, <1>5 DEF DownInv, BootInv, ListedInv
<1>7. QED BY <1>6 DEF ChildInv

\* The clock and the end of programs.
LEMMA TickChild == Inv /\ ChildInv /\ Tick => ChildInv'
<1> SUFFICES ASSUME Inv, ChildInv, Tick PROVE ChildInv'
  OBVIOUS
<1>t. /\ process_list \in [Slot -> Entry] /\ process_count \in 0 .. ListSize
      /\ main \in MainThread
  BY DEF Inv, TypeOK
<1>1. /\ UNCHANGED <<server, process_count, main, sock, proc, raced>>
      /\ process_list' = [i \in Slot |-> [process_list[i] EXCEPT !.fresh = FALSE]]
  BY DEF Tick, sockVars, fileVars
<1>2. \A i \in 0 .. process_count - 1 :
        /\ process_list'[i].app = process_list[i].app
        /\ process_list'[i].id = process_list[i].id
        /\ process_list'[i].pid = process_list[i].pid
        /\ process_list'[i].is_running = process_list[i].is_running
  BY <1>t, <1>1, ServerAssumption DEF Slot, Entry
<1>3. UNCHANGED <<LaunchedCount, Hand, Newborn, Booting, ChangesList>>
  BY <1>1 DEF LaunchedCount, Hand, Newborn, Booting, ChangesList
<1>4. DownInv'
  BY <1>1 DEF ChildInv, DownInv
<1>5. CASE raced
  BY <1>1, <1>4, <1>5 DEF ChildInv, BootInv, ListedInv
<1>6. CASE ~raced
  <2>1. main.pc \in {"boot_fork", "boot_record"} => main.i \in 0 .. process_count - 1
    BY <1>t, <1>6 DEF ChildInv, BootInv, MainThread
  <2>2. LaunchedCount \in 0 .. process_count /\ (Newborn = 0 \/ LaunchedCount < process_count)
    BY <1>t, <1>6, <2>1 DEF ChildInv, BootInv, LaunchedCount, Newborn, MainThread, Booting, BootPc
  <2>3. Agrees(process_list, process_count, LaunchedCount, proc, Hand, Newborn)
    BY <1>6 DEF ChildInv, ListedInv
  <2>4. Agrees(process_list', process_count, LaunchedCount, proc, Hand, Newborn)
    <3>1. process_count \in Nat
      BY <1>t
    <3>2. QED BY <1>2, <2>2, <2>3, <3>1, AgreesSame
  <2>5. BootInv'
    BY <1>1, <1>2, <1>3, <1>6, <2>1 DEF ChildInv, BootInv
  <2>6. ListedInv'
    BY <1>1, <1>3, <2>4 DEF ListedInv
  <2>7. QED BY <1>4, <2>5, <2>6 DEF ChildInv
<1>7. QED BY <1>5, <1>6

\* A program that ends, or a survivor of an earlier daemon.
LEMMA ExitChild == ASSUME Inv, ChildInv, NEW p \in Pid, ProcExit(p) PROVE ChildInv'
<1>t. proc \in [Pid -> Process]
  BY DEF Inv, TypeOK
<1>1. UNCHANGED <<server, process_list, process_count, main, sock, raced>>
  BY DEF ProcExit, listVars, sockVars, fileVars
<1>2. UNCHANGED <<LaunchedCount, Hand, Newborn, Booting, ChangesList>>
  BY <1>1 DEF LaunchedCount, Hand, Newborn, Booting, ChangesList
<1>3. DownInv'
  BY <1>t, <1>1 DEF ChildInv, DownInv, ProcExit, Free, Process
<1>4. BootInv'
  BY <1>1, <1>2 DEF ChildInv, BootInv
<1>5. ASSUME ~raced
      PROVE  Agrees(process_list, process_count, LaunchedCount, proc', Hand, Newborn)
  <2>1. Agrees(process_list, process_count, LaunchedCount, proc, Hand, Newborn)
    BY <1>5 DEF ChildInv, ListedInv
  <2>2. CASE proc[p].st = "live" /\ proc' = [proc EXCEPT ![p].st = "zombie"]
    BY <1>t, <2>1, <2>2, AgreesExit
  <2>3. CASE proc[p].st = "orphan" /\ proc' = [proc EXCEPT ![p] = Free]
    BY <1>t, <2>1, <2>3, AgreesOrphan
  <2>4. QED BY <2>2, <2>3 DEF ProcExit
<1>6. ListedInv'
  BY <1>1, <1>2, <1>5 DEF ListedInv
<1>7. QED BY <1>3, <1>4, <1>6 DEF ChildInv

-------------------------------------------------------------------------------
(* Theorems: apps and processes *)

\* Before the first start there is nothing to disagree about.
LEMMA InitChild == Init => ChildInv
<1> SUFFICES ASSUME Init PROVE ChildInv
  OBVIOUS
<1>1. /\ process_count = 0 /\ process_list = [i \in Slot |-> Blank] /\ ~Booting
      /\ main.pc = "off" /\ sock.pc = "off" /\ \A p \in Pid : proc[p].st = "free"
  BY DEF Init, MainOff, SockOff, Free, Booting, BootPc
<1>2. LaunchedCount = 0 /\ Hand = 0 /\ Newborn = 0
  BY <1>1 DEF LaunchedCount, Hand, Newborn
<1>3. Agrees(process_list, 0, 0, proc, 0, 0)
  BY <1>1, AgreesFresh, ServerAssumption
<1>4. QED BY <1>1, <1>2, <1>3 DEF ChildInv, DownInv, BootInv, ListedInv

\* ChildInv is inductive, given the invariant of part 1.
LEMMA StepChild == Inv /\ ChildInv /\ [Next]_vars => ChildInv'
<1> SUFFICES ASSUME Inv, ChildInv, [Next]_vars PROVE ChildInv'
  OBVIOUS
<1>1. CASE UNCHANGED vars
  <2>1. Booting /\ ~raced' => ~ChangesList'
    BY <1>1 DEF vars, ChildInv, BootInv, ChangesList
  <2>2. QED BY <1>1, <2>1, KeptChild DEF vars, listVars
<1>2. CASE Crash
  BY <1>2, DiesChild DEF Crash, DownCause, Inv, TypeOK
<1>3. CASE ClientNext
  <2>1. UNCHANGED <<server, listVars, main, sock, proc, raced>>
    BY <1>3 DEF ClientNext, ClientSend, ClientSend2, ClientDies, ClientStep, fileVars
  <2>2. Booting /\ ~raced' => ~ChangesList'
    BY <2>1 DEF ChildInv, BootInv, ChangesList
  <2>3. QED BY <2>1, <2>2, KeptChild
<1>4. QED BY <1>1, <1>2, <1>3, StartChild, MainChild, SockChild, TickChild, ExitChild DEF Next

\* List and process table agree, whatever is requested, crashes or exits, as long as
\* no list-changing request overtook the boot loop.
THEOREM ChildCorrect == Spec => []ChildInv
<1>1. Init => Inv /\ ChildInv
  BY InitInv, InitChild
<1>2. Inv /\ ChildInv /\ [Next]_vars => (Inv /\ ChildInv)'
  BY StepInv, StepChild
<1>3. QED BY <1>1, <1>2, PTL DEF Spec

\* The part of ChildInv the properties below are read off from.
LEMMA ChildFacts ==
  ASSUME Inv, ChildInv, ~raced
  PROVE  /\ Agrees(process_list, process_count, LaunchedCount, proc, Hand, Newborn)
         /\ process_count \in 0 .. ListSize
         /\ \A i \in Used : Launched(i) <=> i < LaunchedCount
BY DEF Inv, TypeOK, ChildInv, ListedInv, Launched, LaunchedCount, Used

\* An app marked running has a process the supervisor will hear of.
THEOREM SupervisedCorrect == Spec => []Supervised
<1>1. Inv /\ ChildInv => Supervised
  <2>1. SUFFICES ASSUME Inv, ChildInv, ~raced, NEW i \in Used
                 PROVE  LET pid == process_list[i].pid IN
                        /\ ~process_list[i].is_running => pid = 0
                        /\ process_list[i].is_running /\ Launched(i) =>
                             /\ pid \in Pid
                             /\ \/ InHand(pid)
                                \/ /\ proc[pid].st \in {"live", "zombie"}
                                   /\ proc[pid].app = process_list[i].app
    BY DEF Supervised
  <2>2. \A pid \in Pid : pid = Hand => InHand(pid)
    BY DEF Hand, InHand, Pid
  <2>3. QED BY <2>1, <2>2, ChildFacts DEF Agrees, Used
<1>2. QED BY <1>1, ListInvariant, ChildCorrect, PTL

\* No live child is unaccounted for: what was stopped or removed is dead.
THEOREM NoLostChildCorrect == Spec => []NoLostChild
<1>1. Inv /\ ChildInv => NoLostChild
  <2>1. \A p \in Pid : p = Newborn => main.pc = "boot_record" /\ main.pid = p
    BY DEF Newborn, Pid
  <2>2. QED BY <2>1, ChildFacts DEF Agrees, Used, NoLostChild
<1>2. QED BY <1>1, ListInvariant, ChildCorrect, PTL

\* The daemon never runs an app twice.
THEOREM OneChildCorrect == Spec => []OneChildPerApp
<1>1. Inv /\ ChildInv => OneChildPerApp
  <2>1. SUFFICES ASSUME Inv, ChildInv, ~raced, NEW p \in Pid, NEW q \in Pid,
                        proc[p].st = "live", proc[q].st = "live", proc[p].app = proc[q].app
                 PROVE  p = q
    BY DEF OneChildPerApp
  <2>2. /\ \A i, j \in Used : process_list[i].app = process_list[j].app => i = j
        /\ 0 \notin Pid
    <3>1. Filled(process_list, process_count)
      BY <2>1 DEF Inv, ListInv
    <3>2. QED BY <3>1 DEF Filled, Used, Pid
  <2>3. \A r \in Pid : proc[r].st = "live" =>
          r = Newborn \/ \E i \in Used : process_list[i].pid = r /\ process_list[i].app = proc[r].app
    BY <2>1, ChildFacts DEF Agrees, Used
  <2>4. ASSUME Newborn \in Pid
        PROVE  /\ main.i \in Used /\ proc[Newborn].app = process_list[main.i].app
               /\ process_list[main.i].pid = 0
    <3>1. main.pc = "boot_record" /\ LaunchedCount = main.i
      BY <2>2, <2>4 DEF Newborn, LaunchedCount, Booting, BootPc
    <3>2. main.i \in Used
      BY <2>1, <3>1 DEF ChildInv, BootInv, Used, Inv, TypeOK, MainThread
    <3>3. QED BY <2>1, <2>4, <3>1, <3>2, ChildFacts DEF Agrees, Used
  <2>5. QED BY <2>1, <2>2, <2>3, <2>4
<1>2. QED BY <1>1, ListInvariant, ChildCorrect, PTL

==============================================================================
