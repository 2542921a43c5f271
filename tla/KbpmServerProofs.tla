--------------------------- MODULE KbpmServerProofs ---------------------------
(***************************************************************************)
(* Theorems about KbpmServer, for every set of apps, list size and pid     *)
(* space.                                                                  *)
(*                                                                         *)
(* Part 1: the list and the file.  TypeOK is not inductive by itself: that *)
(* a count read from the file stays inside the array, and that a delete    *)
(* leaves a list the next count is right about, needs ListInv.             *)
(***************************************************************************)
EXTENDS KbpmServerProps, TLAPS

-------------------------------------------------------------------------------
(* Lemmas about process_list *)

\* A list of n entries as the service keeps it.
ListOK(l, n) ==
  /\ l \in [Slot -> Entry]
  /\ n \in 0 .. ListSize
  /\ Filled(l, n)
  /\ \A i \in Slot : l[i].id >= i - ListSize

\* get_process_list_count returns n on every list whose first n slots are filled.
LEMMA CountLemma ==
  ASSUME NEW l, NEW n \in 0 .. ListSize, Filled(l, n)
  PROVE  get_process_list_count(l) = n
<1> DEFINE P(m) == /\ \A i \in 0 .. m - 1 : l[i].app # NoApp
                   /\ m < ListSize => l[m].app = NoApp
<1>1. P(n)
  BY ServerAssumption DEF Filled, Slot
<1>2. ASSUME NEW m \in 0 .. ListSize, P(m) PROVE m = n
  <2>1. CASE m < n
    BY <1>2, <2>1, ServerAssumption DEF Filled, Slot
  <2>2. CASE n < m
    BY <1>2, <2>2, ServerAssumption DEF Filled, Slot
  <2>3. QED BY <2>1, <2>2, ServerAssumption
<1> HIDE DEF P
<1>3. (CHOOSE m \in 0 .. ListSize : P(m)) = n
  BY <1>1, <1>2
<1>4. QED BY <1>3 DEF get_process_list_count, P

\* Deleting the app of slot k of a list that is not full removes that slot, moves the
\* later ones down by one and leaves a gapless list with one entry less.
LEMMA DeleteLemma ==
  ASSUME NEW l, NEW n \in 0 .. ListSize - 1, ListOK(l, n), NEW k \in 0 .. n - 1
  PROVE  /\ ListOK(del_process_by_app_name(l, l[k].app), n - 1)
         /\ del_process_by_app_name(l, l[k].app) =
              [i \in Slot |-> IF i \in k .. n - 1 THEN ShiftedFrom(l, i + 1) ELSE l[i]]
<1> DEFINE d == [i \in Slot |-> IF i \in k .. n - 1 THEN ShiftedFrom(l, i + 1) ELSE l[i]]
           found == {i \in 0 .. n - 1 : l[i].app = l[k].app}
<1>1. get_process_list_count(l) = n
  BY CountLemma DEF ListOK
<1>2. found = {k}
  BY DEF ListOK, Filled
<1>3. (CHOOSE i \in found : \A j \in found : j <= i) = k
  BY <1>2
<1>4. del_process_by_app_name(l, l[k].app) = d
  BY <1>1, <1>2, <1>3 DEF del_process_by_app_name
<1>5. ASSUME NEW i \in Slot
      PROVE  /\ d[i] \in Entry
             /\ d[i].id >= i - ListSize
             /\ d[i].app = IF i < k THEN l[i].app ELSE IF i < n - 1 THEN l[i + 1].app ELSE NoApp
  <2>1. CASE i \notin k .. n - 1
    BY <2>1, ServerAssumption DEF ListOK, Filled, Slot
  <2>2. CASE i \in k .. n - 1 /\ i + 1 \notin Slot
    BY <2>2, ServerAssumption DEF Slot
  <2>3. CASE i \in k .. n - 1 /\ i + 1 \in Slot /\ l[i + 1].app = NoApp
    <3>1. d[i] = l[i + 1]
      BY <2>3 DEF ShiftedFrom
    <3>2. l[i + 1] \in Entry /\ l[i + 1].id >= (i + 1) - ListSize /\ i = n - 1
      BY <2>3, ServerAssumption DEF ListOK, Filled, Slot
    <3>3. l[i + 1].id \in Int
      BY <3>2, ServerAssumption DEF Entry
    <3> HIDE DEF d
    <3>4. QED BY <2>3, <3>1, <3>2, <3>3, ServerAssumption DEF Slot
  <2>4. CASE i \in k .. n - 1 /\ i + 1 \in Slot /\ l[i + 1].app # NoApp
    <3>1. d[i] = [l[i + 1] EXCEPT !.id = l[i + 1].id - 1]
      BY <2>4 DEF ShiftedFrom
    <3>2. l[i + 1] \in Entry /\ l[i + 1].id >= (i + 1) - ListSize /\ i + 1 < n
      BY <2>4, ServerAssumption DEF ListOK, Filled, Slot
    <3>3. l[i + 1].id - 1 \in -ListSize .. ListSize
      BY <3>2, ServerAssumption DEF Entry, Slot
    <3>4. QED BY <2>4, <3>1, <3>2, <3>3, ServerAssumption DEF Entry, Slot
  <2>5. QED BY <2>1, <2>2, <2>3, <2>4
<1>6. d \in [Slot -> Entry]
  BY <1>5
<1> HIDE DEF d
<1>7. \A i \in Slot : d[i].app # NoApp <=> i < n - 1
  <2> SUFFICES ASSUME NEW i \in Slot PROVE d[i].app # NoApp <=> i < n - 1
    OBVIOUS
  <2>1. CASE i < n - 1
    <3>1. l[i].app # NoApp /\ l[i + 1].app # NoApp
      BY <2>1, ServerAssumption DEF ListOK, Filled, Slot
    <3>2. QED BY <1>5, <2>1, <3>1
  <2>2. CASE ~(i < n - 1)
    BY <1>5, <2>2, ServerAssumption DEF Slot
  <2>3. QED BY <2>1, <2>2
<1>8. \A i, j \in 0 .. n - 2 : d[i].app = d[j].app => i = j
  <2> SUFFICES ASSUME NEW i \in 0 .. n - 2, NEW j \in 0 .. n - 2, d[i].app = d[j].app
               PROVE  i = j
    OBVIOUS
  <2> DEFINE f(x) == IF x < k THEN x ELSE x + 1
  <2>1. \A x \in 0 .. n - 2 : x \in Slot /\ f(x) \in 0 .. n - 1 /\ d[x].app = l[f(x)].app
    BY <1>5, ServerAssumption DEF Slot
  <2>2. f(i) = f(j)
    BY <2>1 DEF ListOK, Filled
  <2>3. QED BY <2>2
<1>9. ListOK(d, n - 1)
  BY <1>5, <1>6, <1>7, <1>8, ServerAssumption DEF ListOK, Filled
<1>10. QED BY <1>4, <1>9 DEF d

\* Writing the fields a start or a stop writes leaves names and ids alone.
LEMMA SameNames ==
  ASSUME NEW l, NEW m, NEW n, ListOK(l, n), m \in [Slot -> Entry],
         \A i \in Slot : m[i].app = l[i].app /\ m[i].id = l[i].id
  PROVE  ListOK(m, n)
BY ServerAssumption DEF ListOK, Filled, Slot

-------------------------------------------------------------------------------
(* The invariant of part 1 *)

Inv == TypeOK /\ ListInv

\* A start and a stop write neither the name nor the id of an entry.
LEMMA EntryTypes ==
  ASSUME NEW e \in Entry
  PROVE  /\ \A p \in Pid : /\ Started(e, p) \in Entry
                           /\ Started(e, p).app = e.app /\ Started(e, p).id = e.id
         /\ Stopped(e) \in Entry /\ Stopped(e).app = e.app /\ Stopped(e).id = e.id
<1>1. \A p \in Pid : p \in 0 .. MaxPid
  BY ServerAssumption DEF Pid
<1>2. ASSUME NEW p \in Pid
      PROVE  Started(e, p) \in Entry /\ Started(e, p).app = e.app /\ Started(e, p).id = e.id
  BY <1>1 DEF Started, Entry
<1>3. 0 \in 0 .. MaxPid
  BY ServerAssumption
<1>4. Stopped(e) \in {e, [e EXCEPT !.pid = 0, !.is_running = FALSE, !.fresh = FALSE]}
  BY DEF Stopped
<1>5. Stopped(e) \in Entry /\ Stopped(e).app = e.app /\ Stopped(e).id = e.id
  BY <1>3, <1>4 DEF Entry
<1>6. QED BY <1>2, <1>5

\* What the process table operators return.
LEMMA ProcTypes ==
  ASSUME NEW t \in [Pid -> Process]
  PROVE  /\ \A p \in Pid, x \in AppName : Forked(t, p, x) \in [Pid -> Process]
         /\ \A q : Killed(t, q) \in [Pid -> Process]
         /\ Orphaned(t) \in [Pid -> Process]
         /\ GroupKilled(t) \in [Pid -> Process]
<1>1. \A p \in Pid, x \in AppName : Forked(t, p, x) \in [Pid -> Process]
  BY DEF Forked, Process
<1>2. \A q : Killed(t, q) \in [Pid -> Process]
  BY DEF Killed, Process
<1>3. Orphaned(t) \in [Pid -> Process]
  BY DEF Orphaned, Process, Free, AppName
<1>4. GroupKilled(t) \in [Pid -> Process]
  BY DEF GroupKilled, Process, Free, AppName
<1>5. QED BY <1>1, <1>2, <1>3, <1>4

\* The list of a daemon that is down.
LEMMA BlankList == ListOK([i \in Slot |-> Blank], 0)
BY ServerAssumption DEF ListOK, Filled, Slot, Blank, Entry, AppName

\* An unused slot is an entry, a connection without client a client.
LEMMA BlankTypes == Blank \in Entry /\ NoClient \in Client
<1>1. Blank \in Entry
  BY ServerAssumption DEF Blank, Entry, AppName
<1>2. NoClient \in Client
  BY DEF NoClient, Client, Command, TwoPhase, Buffer
<1>3. QED BY <1>1, <1>2

\* A dead daemon has an empty list; the file is what it was.
LEMMA DiesInv ==
  ASSUME Inv, NEW cause \in DownCause, NEW t \in [Pid -> Process], ServerDies(cause, t)
  PROVE  Inv'
<1>1. ListOK(process_list, process_count)'
  BY BlankList DEF ServerDies
<1>2. (\E n \in 0 .. ListSize : Filled(config, n))'
  BY DEF ServerDies, fileVars, Inv, ListInv, Filled
<1>3. MainOff \in MainThread
  BY ServerAssumption DEF MainOff, MainPc, MainThread
<1>4. SockOff \in SockThread
  BY ServerAssumption DEF SockOff, SockPc, SockThread
<1>5. NoClient \in Client
  BY BlankTypes
<1>6. TypeOK'
  BY <1>1, <1>3, <1>4, <1>5 DEF ServerDies, fileVars, Inv, TypeOK, ListOK
<1>7. main'.pc = "off"
  BY DEF ServerDies, MainOff
<1>8. QED BY <1>1, <1>2, <1>6, <1>7 DEF Inv, ListInv, ListOK

\* A launch from a good list, on a slot of it, gives a good list.
LEMMA LaunchInv ==
  ASSUME Inv,
         NEW l, NEW n, ListOK(l, n), NEW i \in 0 .. n - 1, NEW t \in [Pid -> Process],
         NEW next \in SockThread,
         Launch(l, n, i, t, next)
  PROVE  Inv'
<1>1. CASE ServerDies("exit", Orphaned(t))
  BY <1>1, DiesInv, ProcTypes DEF DownCause
<1>2. CASE ~ServerDies("exit", Orphaned(t))
  <2>1. PICK p \in Forkable :
          /\ proc' = Forked(t, p, l[i].app)
          /\ process_list' = [l EXCEPT ![i] = Started(l[i], p)]
          /\ process_count' = n
          /\ sock' = next
          /\ UNCHANGED <<server, mutex, main, client, fileVars>>
    BY <1>2 DEF Launch
  <2>2. p \in Pid /\ i \in Slot /\ l[i] \in Entry /\ l[i].app \in AppName
    BY ServerAssumption DEF Forkable, ListOK, Slot, Entry
  <2>3. process_list' \in [Slot -> Entry]
    BY <2>1, <2>2, EntryTypes DEF ListOK
  <2>4. \A j \in Slot : process_list'[j].app = l[j].app /\ process_list'[j].id = l[j].id
    BY <2>1, <2>2, EntryTypes DEF ListOK
  <2>5. ListOK(process_list', process_count')
    BY <2>1, <2>3, <2>4, SameNames
  <2>6. proc' \in [Pid -> Process]
    BY <2>1, <2>2, ProcTypes
  <2>7. TypeOK'
    BY <2>1, <2>5, <2>6 DEF Inv, TypeOK, ListOK, fileVars
  <2>8. (\E m \in 0 .. ListSize : Filled(config, m))'
    BY <2>1 DEF Inv, ListInv, Filled, fileVars
  <2>9. QED BY <2>1, <2>5, <2>7, <2>8 DEF Inv, ListInv, ListOK
<1>3. QED BY <1>1, <1>2

\* Target is a used slot: the one that was meant, found again by its name.
LEMMA TargetLemma ==
  ASSUME Inv, Resolves
  PROVE  /\ Target \in Used
         /\ process_count \in 1 .. ListSize
         /\ process_list[Target].app = IF IsId THEN process_list[atoi].app ELSE arg.word
<1> DEFINE name == IF IsId THEN process_list[atoi].app ELSE arg.word
<1>1. Named(name) # {}
  BY DEF Resolves, IsId, IsAppName, Named
<1>2. \A i, j \in Named(name) : i = j
  BY DEF Inv, ListInv, Filled, Named, Used
<1>3. Target \in Named(name)
  BY <1>1, <1>2 DEF Target, get_pos_in_process_list, Used, Named
<1>4. Target \in Used /\ process_list[Target].app = name
  BY <1>3 DEF Named
<1>5. QED BY <1>4, ServerAssumption DEF Used, Inv, TypeOK

\* An update of the list in place keeps the invariant when names and ids stay.
LEMMA SameNamesInv ==
  ASSUME Inv, TypeOK', UNCHANGED <<process_count, config>>,
         main'.pc \notin {"boot_fork", "boot_record"} \/ UNCHANGED main,
         \A i \in Slot : /\ process_list'[i].app = process_list[i].app
                         /\ process_list'[i].id = process_list[i].id
  PROVE  Inv'
<1>1. ListOK(process_list, process_count)
  BY DEF Inv, TypeOK, ListInv, ListOK
<1>2. ListOK(process_list', process_count)
  BY <1>1, SameNames DEF TypeOK
<1>3. QED BY <1>2 DEF Inv, ListInv, ListOK, Filled

\* A step that leaves list and file alone, inside the boot loop or out of it.
LEMMA KeptListInv ==
  ASSUME Inv, TypeOK', UNCHANGED <<listVars, config>>,
         main'.pc \notin {"boot_fork", "boot_record"} \/ UNCHANGED main
  PROVE  Inv'
BY DEF Inv, ListInv, Filled, listVars

\* server_stop_process on a used slot: still a good list, and a process table.
LEMMA StoppedLemma ==
  ASSUME Inv, NEW i \in Used
  PROVE  /\ i \in Slot
         /\ ListOK(StoppedAt(i), process_count)
         /\ StoppedAt(i)[i].app = process_list[i].app
         /\ KilledAt(i) \in [Pid -> Process]
<1>1. i \in Slot /\ process_list[i] \in Entry /\ process_list \in [Slot -> Entry]
  BY ServerAssumption DEF Used, Slot, Inv, TypeOK
<1>2. ListOK(process_list, process_count)
  BY DEF Inv, TypeOK, ListInv, ListOK
<1>3. /\ StoppedAt(i) \in [Slot -> Entry]
      /\ \A j \in Slot : /\ StoppedAt(i)[j].app = process_list[j].app
                         /\ StoppedAt(i)[j].id = process_list[j].id
  BY <1>1, EntryTypes DEF StoppedAt
<1>4. ListOK(StoppedAt(i), process_count)
  BY <1>2, <1>3, SameNames
<1>5. KilledAt(i) \in [Pid -> Process]
  BY ProcTypes DEF KilledAt, Inv, TypeOK
<1>6. QED BY <1>1, <1>3, <1>4, <1>5

\* A removal that comes to its end found its app, in a list that was not full.
LEMMA RemoveLemma ==
  ASSUME Inv, SockRemove
  PROVE  /\ Target \in Used /\ Target \in 0 .. process_count - 1
         /\ process_count \in 0 .. ListSize - 1
<1>1. Target \in Used /\ process_count \in 1 .. ListSize
  BY TargetLemma DEF SockRemove
<1>2. process_count < ListSize
  BY CountLemma DEF SockRemove, Inv, TypeOK, ListInv
<1>3. QED BY <1>1, <1>2, ServerAssumption DEF Used

\* The main thread's steps keep the invariant.
LEMMA MainInv == Inv /\ MainNext => Inv'
<1> SUFFICES ASSUME Inv, MainNext PROVE Inv'
  OBVIOUS
<1>c. ListSize \in Nat /\ 0 \in 0 .. ListSize /\ 0 \in 0 .. MaxPid /\ \A p \in Pid : p \in 0 .. MaxPid
  BY ServerAssumption DEF Pid
<1>t. /\ TypeOK
      /\ process_list \in [Slot -> Entry] /\ process_count \in 0 .. ListSize
      /\ proc \in [Pid -> Process] /\ main \in MainThread /\ sock \in SockThread
  BY DEF Inv, TypeOK
<1>l. ListOK(process_list, process_count)
  BY DEF Inv, TypeOK, ListInv, ListOK
<1>b. /\ main.pc \in {"boot_fork", "boot_record"} => main.i \in Slot
      /\ main.pc = "boot_record" => main.pid \in Pid
  BY DEF Inv, ListInv
<1>1. CASE BootVisit
  <2>1. main.i \in Slot /\ main.i \in -ListSize .. ListSize /\ main.i >= main.i - ListSize
    BY <1>1, <1>c, <1>t DEF BootVisit, Slot, MainThread
  <2>2. process_list' = [process_list EXCEPT ![main.i] = [process_list[main.i] EXCEPT !.id = main.i]]
    BY <1>1 DEF BootVisit
  <2>3. process_list' \in [Slot -> Entry]
    BY <1>t, <2>1, <2>2 DEF Entry
  <2>4. /\ \A i \in Slot : process_list'[i].app = process_list[i].app
        /\ \A i \in Slot : process_list'[i].id >= i - ListSize
    BY <1>t, <1>l, <2>1, <2>2 DEF Entry, ListOK
  <2>5. main' \in {[main EXCEPT !.pc = "boot_fork"], [main EXCEPT !.i = main.i + 1]}
    BY <1>1 DEF BootVisit
  <2>6. main.pc = "boot" /\ main.i + 1 \in 0 .. ListSize
    BY <1>1, <1>c, <2>1 DEF BootVisit, Slot
  <2>7. /\ main' \in MainThread
        /\ main'.pc \in {"boot_fork", "boot_record"} => main'.i \in Slot
        /\ main'.pc # "boot_record"
    BY <1>t, <2>1, <2>5, <2>6 DEF MainThread, MainPc, BootPc
  <2>8. TypeOK'
    BY <1>1, <1>t, <2>3, <2>7 DEF BootVisit, TypeOK, sockVars, fileVars
  <2>9. Filled(process_list', process_count)
    BY <1>c, <1>l, <2>4 DEF ListOK, Filled, Slot
  <2>10. QED BY <1>1, <2>4, <2>7, <2>8, <2>9 DEF BootVisit, Inv, ListInv, Filled, fileVars
<1>2. CASE BootFork
  <2>1. CASE ServerDies("exit", Orphaned(proc))
    BY <1>t, <2>1, DiesInv, ProcTypes DEF DownCause
  <2>2. CASE ~ServerDies("exit", Orphaned(proc))
    <3>1. PICK p \in Forkable :
            /\ proc' = Forked(proc, p, process_list[main.i].app)
            /\ main' = [main EXCEPT !.pc = "boot_record", !.pid = p]
            /\ UNCHANGED <<server, listVars, mutex, sockVars, fileVars>>
      BY <1>2, <2>2 DEF BootFork
    <3>2. main.i \in Slot /\ p \in Pid /\ p \in 0 .. MaxPid
      BY <1>2, <1>b, <1>c DEF BootFork, Forkable
    <3>3. proc' \in [Pid -> Process]
      BY <1>t, <3>1, <3>2, ProcTypes DEF Entry
    <3>4. main' \in MainThread /\ main'.i \in Slot /\ main'.pid \in Pid
      BY <1>t, <3>1, <3>2 DEF MainThread, MainPc, BootPc
    <3>5. TypeOK'
      BY <1>t, <3>1, <3>3, <3>4 DEF TypeOK, listVars, sockVars, fileVars
    <3>6. QED BY <3>1, <3>4, <3>5 DEF Inv, ListInv, Filled, listVars, fileVars
  <2>3. QED BY <2>1, <2>2
<1>3. CASE BootRecord
  <2>1. main.i \in Slot /\ main.pid \in Pid
    BY <1>3, <1>b DEF BootRecord
  <2>2. process_list' = [process_list EXCEPT ![main.i] = Started(process_list[main.i], main.pid)]
    BY <1>3 DEF BootRecord
  <2>3. /\ process_list' \in [Slot -> Entry]
        /\ \A i \in Slot : /\ process_list'[i].app = process_list[i].app
                           /\ process_list'[i].id = process_list[i].id
    <3> DEFINE e == Started(process_list[main.i], main.pid)
    <3>1. /\ process_list[main.i] \in Entry /\ e \in Entry
          /\ e.app = process_list[main.i].app /\ e.id = process_list[main.i].id
      BY <1>t, <2>1, EntryTypes
    <3> HIDE DEF e
    <3>2. process_list' = [process_list EXCEPT ![main.i] = e]
      BY <2>2 DEF e
    <3>3. QED BY <1>t, <2>1, <3>1, <3>2
  <2>4. main' = [main EXCEPT !.pc = "boot", !.i = main.i + 1, !.pid = 0]
    BY <1>3 DEF BootRecord
  <2>5. main' \in MainThread /\ main'.pc = "boot"
    <3>1. main.i + 1 \in 0 .. ListSize /\ "boot" \in MainPc
      BY <1>c, <2>1 DEF Slot, MainPc, BootPc
    <3>2. QED BY <1>c, <1>t, <2>4, <3>1 DEF MainThread
  <2>6. TypeOK'
    BY <1>3, <1>t, <2>3, <2>5 DEF BootRecord, TypeOK, sockVars, fileVars
  <2>7. QED BY <1>3, <2>3, <2>5, <2>6, SameNamesInv DEF BootRecord, fileVars
<1>4. CASE BootDone
  <2>1. main' = [main EXCEPT !.pc = "wait", !.i = 0]
    BY <1>4 DEF BootDone
  <2>2. main' \in MainThread /\ main'.pc = "wait"
    BY <1>c, <1>t, <2>1 DEF MainThread, MainPc
  <2>3. TypeOK'
    BY <1>4, <1>t, <2>2 DEF BootDone, TypeOK, listVars, sockVars, fileVars
  <2>4. QED BY <1>4, <2>2, <2>3, KeptListInv DEF BootDone, fileVars
<1>5. CASE MainWait
  <2>1. PICK p \in 0 .. MaxPid : main' = [main EXCEPT !.pc = "lock", !.pid = p]
    <3>1. CASE \E p \in Pid : main' = [main EXCEPT !.pc = "lock", !.pid = p]
      BY <1>c, <3>1
    <3>2. CASE main' = [main EXCEPT !.pc = "lock", !.pid = 0]
      BY <1>c, <3>2
    <3>3. QED BY <1>5, <3>1, <3>2 DEF MainWait
  <2>2. main' \in MainThread /\ main'.pc = "lock"
    BY <1>c, <1>t, <2>1 DEF MainThread, MainPc
  <2>3. Free \in Process
    BY DEF Free, Process, AppName
  <2>4. proc' \in [Pid -> Process]
    BY <1>5, <1>t, <2>3 DEF MainWait
  <2>5. TypeOK'
    BY <1>5, <1>t, <2>2, <2>4 DEF MainWait, TypeOK, listVars, sockVars, fileVars
  <2>6. QED BY <1>5, <2>2, <2>5, KeptListInv DEF MainWait, fileVars
<1>6. CASE MainLock
  <2>1. main' \in MainThread /\ main'.pc = "scan" /\ mutex' = "main"
    BY <1>6, <1>t DEF MainLock, MainThread, MainPc
  <2>2. TypeOK'
    BY <1>6, <1>t, <2>1 DEF MainLock, TypeOK, listVars, sockVars, fileVars
  <2>3. QED BY <1>6, <2>1, <2>2, KeptListInv DEF MainLock, fileVars
<1>7. ASSUME MainUnlock PROVE main' \in MainThread /\ main'.pc = "wait" /\ mutex' = "free"
  BY <1>c, <1>t, <1>7 DEF MainUnlock, MainThread, MainPc
<1>8. CASE MainScanQuick
  <2>1. PICK i \in Hit : process_list' =
          [process_list EXCEPT ![i] = [process_list[i] EXCEPT !.is_running = FALSE, !.pid = 0]]
    BY <1>8 DEF MainScanQuick
  <2>2. i \in Slot /\ 0 \in 0 .. MaxPid
    BY <1>c, <1>t DEF Hit, Used, Slot
  <2>3. process_list' \in [Slot -> Entry]
    BY <1>t, <2>1, <2>2 DEF Entry
  <2>4. \A j \in Slot : process_list'[j].app = process_list[j].app
                        /\ process_list'[j].id = process_list[j].id
    BY <1>t, <2>1, <2>2 DEF Entry
  <2>5. TypeOK'
    BY <1>7, <1>8, <1>t, <2>3 DEF MainScanQuick, TypeOK, sockVars, fileVars
  <2>6. QED BY <1>7, <1>8, <2>4, <2>5, SameNamesInv DEF MainScanQuick, fileVars
<1>9. CASE MainScanRestart
  <2>1. PICK i \in Hit : Launch(process_list, process_count, i, proc, sock)
    BY <1>9 DEF MainScanRestart
  <2>2. i \in 0 .. process_count - 1
    BY DEF Hit, Used
  <2>3. QED BY <1>t, <1>l, <2>1, <2>2, LaunchInv
<1>10. CASE MainScanEnd
  <2>1. TypeOK'
    BY <1>7, <1>10, <1>t DEF MainScanEnd, TypeOK, listVars, sockVars, fileVars
  <2>2. QED BY <1>7, <1>10, <2>1, KeptListInv DEF MainScanEnd, fileVars
<1>11. QED BY <1>1, <1>2, <1>3, <1>4, <1>5, <1>6, <1>8, <1>9, <1>10 DEF MainNext

\* Moving the socket thread on, and what a client sends, is well typed.
LEMMA SockTypes ==
  ASSUME TypeOK
  PROVE  /\ \A pc \in SockPc : [sock EXCEPT !.pc = pc] \in SockThread
         /\ sock.i < ListSize => SockRound \in SockThread
         /\ Responding \in SockThread
<1>1. sock \in SockThread
  BY DEF TypeOK
<1>2. \A pc \in SockPc : [sock EXCEPT !.pc = pc] \in SockThread
  BY <1>1 DEF SockThread
<1>3. sock.i < ListSize => SockRound \in SockThread
  <2>1. SUFFICES ASSUME sock.i < ListSize PROVE SockRound \in SockThread
    OBVIOUS
  <2>2. sock.i + 1 \in 0 .. ListSize
    BY <1>1, <2>1, ServerAssumption DEF SockThread
  <2>3. QED BY <1>1, <2>2 DEF SockThread, SockRound
<1>4. "respond" \in SockPc
  BY DEF SockPc
<1>5. QED BY <1>2, <1>3, <1>4 DEF Responding

\* The steps of the socket thread that leave list, file and process table alone.
LEMMA SockQuietInv ==
  ASSUME Inv, NEW pc \in SockPc, SockTo(pc), mutex' \in {"free", "main", "sock"},
         client' \in Client, raced' \in BOOLEAN,
         UNCHANGED <<server, listVars, main, proc, config>>
  PROVE  Inv'
<1>1. TypeOK
  BY DEF Inv
<1>2. sock' \in SockThread
  BY <1>1, SockTypes DEF SockTo
<1>3. TypeOK'
  BY <1>1, <1>2 DEF TypeOK, listVars
<1>4. QED BY <1>3, KeptListInv

\* The socket thread's steps keep the invariant.
LEMMA SockInv == Inv /\ (SockAccept \/ SockServe) => Inv'
<1> SUFFICES ASSUME Inv, SockAccept \/ SockServe PROVE Inv'
  OBVIOUS
<1>t. /\ TypeOK
      /\ process_list \in [Slot -> Entry] /\ process_count \in 0 .. ListSize
      /\ proc \in [Pid -> Process] /\ sock \in SockThread /\ client \in Client
      /\ mutex \in {"free", "main", "sock"} /\ raced \in BOOLEAN
  BY DEF Inv, TypeOK
<1>l. ListOK(process_list, process_count)
  BY DEF Inv, TypeOK, ListInv, ListOK
<1>r. "respond" \in SockPc /\ Responding \in SockThread
  BY <1>t, SockTypes DEF SockPc
<1>d. \A cause \in DownCause : ServerDies(cause, Orphaned(proc)) => Inv'
  BY <1>t, DiesInv, ProcTypes
<1>1. CASE SockAccept
  <2>1. client' \in Client /\ "lock" \in SockPc
    BY <1>1, BlankTypes DEF SockAccept, Client, SockPc
  <2>2. QED BY <1>1, <1>t, <2>1, SockQuietInv DEF SockAccept, fileVars
<1>2. CASE SockLock
  <2>1. "read" \in SockPc
    BY DEF SockPc
  <2>2. QED BY <1>2, <1>t, <2>1, SockQuietInv DEF SockLock, fileVars
<1>3. CASE SockRead
  <2>1. PICK pc \in SockPc : SockTo(pc)
    <3>1. client.cmd \in Command
      BY <1>t DEF Client
    <3>2. CASE client.sent = 1
      <4>1. CASE client.cmd \in TwoPhase
        BY <1>3, <3>2, <4>1 DEF SockRead, SockPc, TwoPhase
      <4>2. CASE client.cmd = "ping"
        BY <1>3, <3>2, <4>2 DEF SockRead, SockPc, TwoPhase
      <4>3. CASE client.cmd \in {"startall", "stopall", "status"}
        BY <1>3, <3>2, <4>3 DEF SockRead, SockPc, TwoPhase
      <4>4. QED BY <3>1, <4>1, <4>2, <4>3 DEF Command
    <3>3. CASE client.sent # 1
      BY <1>3, <1>r, <3>3 DEF SockRead
    <3>4. QED BY <3>2, <3>3
  <2>2. raced' \in BOOLEAN
    BY <1>3, <1>t DEF SockRead, Booting
  <2>3. QED BY <1>3, <1>t, <2>1, <2>2, SockQuietInv DEF SockRead
<1>4. CASE SockPong
  <2>1. CASE ServerDies("sigpipe", Orphaned(proc))
    BY <1>d, <2>1 DEF DownCause
  <2>2. CASE ~ServerDies("sigpipe", Orphaned(proc))
    <3>1. client' \in Client /\ "read2" \in SockPc
      BY <1>4, <1>t, <2>2 DEF SockPong, Client, SockPc
    <3>2. QED BY <1>4, <1>t, <2>2, <3>1, SockQuietInv DEF SockPong, fileVars
  <2>3. QED BY <2>1, <2>2
<1>5. CASE SockRead2
  <2>1. "apply" \in SockPc
    BY DEF SockPc
  <2>2. QED BY <1>5, <1>t, <2>1, SockQuietInv DEF SockRead2, fileVars
<1>6. CASE SockAnswer
  BY <1>6, <1>t, <1>r, SockQuietInv DEF SockAnswer, fileVars
<1>7. CASE SockStartCmd
  <2> DEFINE new == [Blank EXCEPT !.app = arg.word, !.id = process_count]
             l   == [process_list EXCEPT ![process_count] = new]
  <2>1. Launch(l, process_count + 1, process_count, proc, Responding)
    BY <1>7 DEF SockStartCmd
  <2>2. /\ arg.word \in Apps /\ \A i \in Used : process_list[i].app # arg.word
        /\ process_count < ListSize
    BY <1>7, <1>t DEF SockStartCmd, NameTaken, IsCmd, arg, Client, Buffer, Text, Empty, Json, Named
  <2>3. ListOK(l, process_count + 1)
    <3>1. process_count \in Slot /\ process_count \in -ListSize .. ListSize
      BY <1>t, <2>2, ServerAssumption DEF Slot
    <3>2. new \in Entry /\ new.app = arg.word /\ new.id = process_count
      <4>1. arg.word \in AppName
        BY <2>2 DEF AppName
      <4>2. process_count \in -ListSize .. ListSize
        BY <3>1
      <4>3. QED BY <4>1, <4>2, BlankTypes DEF Entry
    <3> HIDE DEF new
    <3>3. /\ l \in [Slot -> Entry]
          /\ \A i \in Slot : l[i] = IF i = process_count THEN new ELSE process_list[i]
      BY <1>t, <3>1, <3>2
    <3> HIDE DEF l
    <3>4. \A i \in Slot : l[i].app # NoApp <=> i < process_count + 1
      BY <1>t, <1>l, <2>2, <3>1, <3>2, <3>3, ServerAssumption DEF ListOK, Filled, Slot
    <3>5. \A i, j \in 0 .. (process_count + 1) - 1 : l[i].app = l[j].app => i = j
      <4>1. \A i \in 0 .. (process_count + 1) - 1 : i \in Slot /\ (i \in Used \/ i = process_count)
        BY <1>t, <2>2, ServerAssumption DEF Slot, Used
      <4>2. QED BY <1>l, <2>2, <3>2, <3>3, <4>1 DEF ListOK, Filled, Used
    <3>6. \A i \in Slot : l[i].id >= i - ListSize
      BY <1>l, <1>t, <3>2, <3>3, ServerAssumption DEF ListOK, Slot
    <3>7. process_count + 1 \in 0 .. ListSize
      BY <1>t, <2>2, ServerAssumption
    <3>8. QED BY <3>3, <3>4, <3>5, <3>6, <3>7 DEF ListOK, Filled
  <2>4. process_count \in 0 .. (process_count + 1) - 1
    BY <1>t, ServerAssumption
  <2> HIDE DEF l
  <2>5. QED BY <1>t, <1>r, <2>1, <2>3, <2>4, LaunchInv
<1>8. CASE SockStartOverflow
  <2>1. ASSUME NEW p \in Forkable, ServerDies("overflow", Orphaned(Forked(proc, p, arg.word)))
        PROVE  Inv'
    <3>1. p \in Pid /\ arg.word \in AppName
      BY <1>8, <1>t DEF Forkable, SockStartOverflow, IsCmd, arg, Client, Buffer, Text, Empty, Json,
                        AppName
    <3>2. Orphaned(Forked(proc, p, arg.word)) \in [Pid -> Process] /\ "overflow" \in DownCause
      BY <1>t, <3>1, ProcTypes DEF DownCause
    <3>3. QED BY <2>1, <3>2, DiesInv
  <2>2. CASE ServerDies("exit", Orphaned(proc))
    <3>1. Orphaned(proc) \in [Pid -> Process] /\ "exit" \in DownCause
      BY <1>t, ProcTypes DEF DownCause
    <3>2. QED BY <2>2, <3>1, DiesInv
  <2>3. QED BY <1>8, <2>1, <2>2 DEF SockStartOverflow
<1>9. CASE SockStart
  <2>1. Target \in 0 .. process_count - 1
    BY <1>9, TargetLemma DEF SockStart, Used
  <2>2. QED BY <1>9, <1>t, <1>l, <1>r, <2>1, LaunchInv DEF SockStart
<1>10. CASE SockKillZero
  <2>1. GroupKilled(proc) \in [Pid -> Process] /\ "kill0" \in DownCause
    BY <1>t, ProcTypes DEF DownCause
  <2>2. QED BY <1>10, <2>1, DiesInv DEF SockKillZero
<1>11. CASE SockScanSegv
  <2>1. PICK i \in Used : \E t \in {proc, KilledAt(i)} : ServerDies("segv", Orphaned(t))
    BY <1>11 DEF SockScanSegv, Stopping
  <2> PICK t \in {proc, KilledAt(i)} : ServerDies("segv", Orphaned(t))
    BY <2>1
  <2>2. Orphaned(t) \in [Pid -> Process] /\ "segv" \in DownCause
    BY <1>t, ProcTypes, StoppedLemma DEF DownCause
  <2>3. QED BY <2>1, <2>2, DiesInv
<1>12. CASE SockStop
  <2>1. Target \in Used
    BY <1>12, TargetLemma DEF SockStop
  <2>2. /\ ListOK(StoppedAt(Target), process_count)
        /\ KilledAt(Target) \in [Pid -> Process]
    BY <2>1, StoppedLemma
  <2>3. sock' \in SockThread
    BY <1>12, <1>t, <1>r, SockTypes DEF SockStop, SockTo
  <2>4. TypeOK'
    BY <1>12, <1>t, <2>2, <2>3 DEF SockStop, TypeOK, ListOK, fileVars
  <2>5. QED BY <1>12, <2>2, <2>4 DEF SockStop, Inv, ListInv, ListOK, fileVars, Filled
<1>13. CASE SockRestart
  <2>1. Target \in Used
    BY <1>13, TargetLemma DEF SockRestart
  <2>2. /\ ListOK(StoppedAt(Target), process_count)
        /\ KilledAt(Target) \in [Pid -> Process]
    BY <2>1, StoppedLemma
  <2>3. Target \in 0 .. process_count - 1
    BY <2>1 DEF Used
  <2>4. QED BY <1>13, <1>r, <2>2, <2>3, LaunchInv DEF SockRestart
<1>14. CASE SockRemove
  <2> DEFINE l == StoppedAt(Target)
  <2>1. /\ Target \in Used /\ Target \in 0 .. process_count - 1
        /\ process_count \in 0 .. ListSize - 1
    BY <1>14, RemoveLemma
  <2>2. /\ ListOK(l, process_count)
        /\ l[Target].app = process_list[Target].app
        /\ KilledAt(Target) \in [Pid -> Process]
    BY <2>1, StoppedLemma
  <2> HIDE DEF l
  <2>3. ListOK(del_process_by_app_name(l, l[Target].app), process_count - 1)
    BY <2>1, <2>2, DeleteLemma
  <2>4. /\ process_list' = del_process_by_app_name(l, l[Target].app)
        /\ process_count' = process_count - 1
        /\ proc' = KilledAt(Target)
    BY <1>14, <2>2 DEF SockRemove, l
  <2>5. sock' \in SockThread
    BY <1>14, <1>t, <1>r, SockTypes DEF SockRemove, SockTo
  <2>6. ListOK(process_list', process_count')
    BY <2>3, <2>4
  <2>7. TypeOK'
    BY <1>14, <1>t, <2>2, <2>4, <2>5, <2>6 DEF SockRemove, TypeOK, ListOK, fileVars
  <2>8. QED BY <1>14, <2>6, <2>7 DEF SockRemove, Inv, ListInv, ListOK, fileVars, Filled
<1>14b. CASE SockRemoveOverflow
  <2>1. Target \in Used
    BY <1>14b, TargetLemma DEF SockRemoveOverflow
  <2>2. Orphaned(KilledAt(Target)) \in [Pid -> Process] /\ "overflow" \in DownCause
    BY <2>1, StoppedLemma, ProcTypes DEF DownCause
  <2>3. QED BY <1>14b, <2>2, DiesInv DEF SockRemoveOverflow
<1>15. CASE SockStartAll
  <2>1. sock.i \in 0 .. process_count - 1 /\ sock.i < ListSize /\ SockRound \in SockThread
    BY <1>15, <1>t, SockTypes, ServerAssumption DEF SockStartAll, SockThread
  <2>2. CASE process_list[sock.i].is_running
    <3>1. TypeOK'
      BY <1>15, <1>t, <2>1, <2>2 DEF SockStartAll, TypeOK, listVars, fileVars
    <3>2. QED BY <1>15, <2>2, <3>1, KeptListInv DEF SockStartAll, fileVars
  <2>3. CASE ~process_list[sock.i].is_running
    BY <1>15, <1>t, <1>l, <2>1, <2>3, LaunchInv DEF SockStartAll
  <2>4. QED BY <2>2, <2>3
<1>16. CASE SockStopAll
  <2>1. sock.i \in Used /\ sock.i < ListSize /\ SockRound \in SockThread
    BY <1>16, <1>t, SockTypes, ServerAssumption DEF SockStopAll, SockThread, Used
  <2>2. /\ ListOK(StoppedAt(sock.i), process_count)
        /\ KilledAt(sock.i) \in [Pid -> Process]
    BY <2>1, StoppedLemma
  <2>3. TypeOK'
    BY <1>16, <1>t, <2>1, <2>2 DEF SockStopAll, TypeOK, ListOK, fileVars
  <2>4. QED BY <1>16, <2>2, <2>3 DEF SockStopAll, Inv, ListInv, ListOK, fileVars, Filled
<1>17. CASE SockStatus
  <2>1. CASE ServerDies("segv", Orphaned(proc))
    BY <1>d, <2>1 DEF DownCause
  <2>2. CASE ~ServerDies("segv", Orphaned(proc))
    BY <1>17, <1>t, <1>r, <2>2, SockQuietInv DEF SockStatus, fileVars
  <2>3. QED BY <2>1, <2>2
<1>18. CASE SockRespond
  <2>1. CASE ServerDies("sigpipe", Orphaned(proc))
    BY <1>d, <2>1 DEF DownCause
  <2>2. CASE ~ServerDies("sigpipe", Orphaned(proc))
    <3>1. client' \in Client
      BY <1>18, <2>2, BlankTypes DEF SockRespond
    <3>2. sock' \in SockThread
      BY <1>18, <2>2, ServerAssumption DEF SockRespond, SockThread, SockPc
    <3>3. TypeOK'
      BY <1>18, <1>t, <2>2, <3>1, <3>2 DEF SockRespond, TypeOK, listVars, fileVars
    <3>4. QED BY <1>18, <2>2, <3>3, KeptListInv DEF SockRespond, fileVars
  <2>3. QED BY <2>1, <2>2
<1>19. CASE SockTruncate
  <2>1. EmptyFile \in [Slot -> Saved] /\ Filled(EmptyFile, 0)
    BY ServerAssumption DEF EmptyFile, Saved, AppName, Filled, Slot
  <2>2. sock' \in SockThread
    BY <1>19, <1>t, SockTypes DEF SockTruncate, SockTo, SockPc
  <2>3. TypeOK'
    BY <1>19, <1>t, <2>1, <2>2 DEF SockTruncate, TypeOK, listVars
  <2>4. QED BY <1>19, <2>1, <2>3, ServerAssumption DEF SockTruncate, Inv, ListInv, Filled, listVars
<1>20. CASE SockWrite
  <2>1. get_process_list_count(process_list) = process_count
    BY <1>t, <1>l, CountLemma DEF ListOK
  <2>2. config' = [i \in Slot |->
          IF i < process_count
          THEN [app |-> process_list[i].app, is_running |-> process_list[i].is_running]
          ELSE [app |-> NoApp, is_running |-> FALSE]]
    BY <1>20, <2>1 DEF SockWrite, SavedAs, EmptyFile
  <2>3. config' \in [Slot -> Saved] /\ Filled(config', process_count)
    <3>1. config' \in [Slot -> Saved]
      BY <1>t, <2>2 DEF Saved, Entry, AppName
    <3>2. \A i \in Slot : config'[i].app = process_list[i].app
      BY <1>t, <1>l, <2>2 DEF ListOK, Filled, Slot
    <3>3. QED BY <1>l, <1>t, <3>1, <3>2, ServerAssumption DEF ListOK, Filled, Slot
  <2>4. sock' \in SockThread
    BY <1>20, <1>t, SockTypes DEF SockWrite, SockTo, SockPc
  <2>5. TypeOK'
    BY <1>20, <1>t, <2>3, <2>4 DEF SockWrite, TypeOK, listVars
  <2>6. QED BY <1>20, <1>t, <2>3, <2>5 DEF SockWrite, Inv, ListInv, Filled, listVars
<1>21. QED BY <1>1, <1>2, <1>3, <1>4, <1>5, <1>6, <1>7, <1>8, <1>9, <1>10, <1>11, <1>12, <1>13,
              <1>14, <1>15, <1>16, <1>17, <1>18, <1>19, <1>20, <1>14b DEF SockServe

\* A start of the service loads a good list from a good file.
LEMMA StartInv == Inv /\ ServiceStart => Inv'
<1> SUFFICES ASSUME Inv, ServiceStart PROVE Inv'
  OBVIOUS
<1>1. PICK n \in 0 .. ListSize : Filled(config, n)
  BY DEF Inv, ListInv
<1>2. process_count' = n
  BY <1>1, CountLemma DEF ServiceStart, LoadedCount
<1>3. process_list' = [i \in Slot |-> [Blank EXCEPT !.app = config[i].app,
                                                    !.is_running = config[i].is_running]]
  BY DEF ServiceStart, Loaded
<1>4. config \in [Slot -> Saved]
  BY DEF Inv, TypeOK
<1>5. /\ process_list' \in [Slot -> Entry]
      /\ \A i \in Slot : process_list'[i].app = config[i].app /\ process_list'[i].id = 0
  <2>1. Blank \in Entry /\ Blank.id = 0
    BY BlankTypes DEF Blank
  <2>2. ASSUME NEW i \in Slot
        PROVE  /\ process_list'[i] \in Entry
               /\ process_list'[i].app = config[i].app /\ process_list'[i].id = 0
    <3>1. config[i].app \in AppName /\ config[i].is_running \in BOOLEAN
      BY <1>4 DEF Saved
    <3>2. process_list'[i] = [Blank EXCEPT !.app = config[i].app, !.is_running = config[i].is_running]
      BY <1>3
    <3>3. QED BY <2>1, <3>1, <3>2 DEF Entry
  <2>3. QED BY <1>3, <2>2
<1>6. ListOK(process_list', n)
  BY <1>1, <1>5, ServerAssumption DEF ListOK, Filled, Slot
<1>7. /\ main' \in MainThread /\ sock' \in SockThread
      /\ main'.pc \notin {"boot_fork", "boot_record"}
  BY ServerAssumption DEF ServiceStart, MainOff, SockOff, MainThread, SockThread, MainPc, BootPc, SockPc
<1>8. TypeOK'
  BY <1>2, <1>5, <1>7 DEF ServiceStart, Inv, TypeOK
<1>9. QED BY <1>1, <1>2, <1>6, <1>7, <1>8 DEF ServiceStart, Inv, ListInv, ListOK, Filled

\* Clients, the clock and the managed programs.
LEMMA WorldInv == Inv /\ (Crash \/ ClientNext \/ Tick \/ \E p \in Pid : ProcExit(p)) => Inv'
<1> SUFFICES ASSUME Inv, Crash \/ ClientNext \/ Tick \/ \E p \in Pid : ProcExit(p) PROVE Inv'
  OBVIOUS
<1>t. TypeOK /\ proc \in [Pid -> Process] /\ client \in Client /\ process_list \in [Slot -> Entry]
  BY DEF Inv, TypeOK
<1>1. CASE Crash
  BY <1>1, <1>t, DiesInv, ProcTypes DEF Crash, DownCause
<1>2. CASE ClientNext
  <2>1. client' \in Client /\ ClientStep
    <3>1. CASE ClientSend
      <4>1. PICK cmd \in Command : client' = [client EXCEPT !.cmd = cmd, !.sent = 1]
        BY <3>1 DEF ClientSend
      <4>2. client' \in Client
        <5>1. client \in Client /\ 1 \in 0 .. 2 /\ 2 \in 0 .. 2
          BY <1>t
        <5>2. QED BY <4>1, <5>1, Zenon DEF Client
      <4>3. ClientStep
        BY <3>1 DEF ClientSend
      <4>4. QED BY <4>2, <4>3
    <3>2. CASE ClientSend2
      <4>1. \/ \E b \in Buffer : client' = [client EXCEPT !.buffer = b, !.sent = 2]
            \/ client' = [client EXCEPT !.pong = FALSE]
        BY <3>2 DEF ClientSend2, Request, Buffer
      <4>2. client' \in Client
        <5>1. client \in Client /\ 2 \in 0 .. 2
          BY <1>t
        <5>2. CASE \E b \in Buffer : client' = [client EXCEPT !.buffer = b, !.sent = 2]
          <6>1. PICK b \in Buffer : client' = [client EXCEPT !.buffer = b, !.sent = 2]
            BY <5>2
          <6>2. QED BY <5>1, <6>1, Zenon DEF Client
        <5>3. CASE client' = [client EXCEPT !.pong = FALSE]
          BY <5>1, <5>3 DEF Client
        <5>4. QED BY <4>1, <5>2, <5>3
      <4>3. ClientStep
        BY <3>2 DEF ClientSend2
      <4>4. QED BY <4>2, <4>3
    <3>3. CASE ClientDies
      BY <1>t, <3>3 DEF ClientDies, Client
    <3>4. QED BY <1>2, <3>1, <3>2, <3>3 DEF ClientNext
  <2>2. TypeOK'
    BY <1>t, <2>1 DEF ClientStep, TypeOK, listVars, fileVars
  <2>3. QED BY <2>1, <2>2, KeptListInv DEF ClientStep, fileVars
<1>3. CASE Tick
  <2>1. /\ process_list' \in [Slot -> Entry]
        /\ \A i \in Slot : /\ process_list'[i].app = process_list[i].app
                           /\ process_list'[i].id = process_list[i].id
    BY <1>3, <1>t DEF Tick, Entry
  <2>2. TypeOK'
    BY <1>3, <1>t, <2>1 DEF Tick, TypeOK, sockVars, fileVars
  <2>3. QED BY <1>3, <2>1, <2>2, SameNamesInv DEF Tick, fileVars
<1>4. CASE \E p \in Pid : ProcExit(p)
  <2>1. Free \in Process
    BY DEF Free, Process, AppName
  <2>2. proc' \in [Pid -> Process]
    BY <1>4, <1>t, <2>1 DEF ProcExit, Process
  <2>3. TypeOK'
    BY <1>4, <1>t, <2>2 DEF ProcExit, TypeOK, listVars, sockVars, fileVars
  <2>4. QED BY <1>4, <2>3, KeptListInv DEF ProcExit, fileVars
<1>5. QED BY <1>1, <1>2, <1>3, <1>4

\* Before the first start list and file are empty.
LEMMA InitInv == Init => Inv
<1> SUFFICES ASSUME Init PROVE Inv
  OBVIOUS
<1>1. ListOK(process_list, process_count)
  BY BlankList DEF Init
<1>2. config \in [Slot -> Saved] /\ Filled(config, 0)
  BY ServerAssumption DEF Init, EmptyFile, Saved, AppName, Filled, Slot
<1>3. main \in MainThread /\ sock \in SockThread /\ main.pc = "off"
  BY ServerAssumption DEF Init, MainOff, SockOff, MainThread, SockThread, MainPc, SockPc
<1>4. client \in Client
  BY DEF Init, NoClient, Client, Command, TwoPhase, Buffer
<1>5. proc \in [Pid -> Process]
  BY DEF Init, Free, Process, AppName
<1>6. TypeOK
  BY <1>1, <1>2, <1>3, <1>4, <1>5 DEF Init, TypeOK, ListOK, DownCause
<1>7. QED BY <1>1, <1>2, <1>3, <1>6, ServerAssumption DEF Inv, ListInv, ListOK

\* Inv is inductive.
LEMMA StepInv == Inv /\ [Next]_vars => Inv'
<1> SUFFICES ASSUME Inv, [Next]_vars PROVE Inv'
  OBVIOUS
<1>1. CASE UNCHANGED vars
  BY <1>1 DEF vars, Inv, TypeOK, ListInv, Filled
<1>2. CASE Next
  BY <1>2, StartInv, MainInv, SockInv, WorldInv DEF Next
<1>3. QED BY <1>1, <1>2

\* The inductive invariant: types, and a list and a file that stay gapless and free of
\* duplicates, races of the boot loop included.
THEOREM ListInvariant == Spec => []Inv
<1>1. QED BY InitInv, StepInv, PTL DEF Spec

\* The part of it that speaks of the list and of the file it is saved to.
THEOREM ListCorrect == Spec => []ListInv
<1>1. Inv => ListInv
  BY DEF Inv
<1>2. QED BY <1>1, ListInvariant, PTL

\* Every variable keeps to its values, whatever the two threads, the clients, the
\* programs and crashes do, up to the access behind the array that ends the daemon.
THEOREM TypeCorrect == Spec => []TypeOK
<1>1. Inv => TypeOK
  BY DEF Inv
<1>2. QED BY <1>1, ListInvariant, PTL

=============================================================================
