------------------------------ MODULE KbpmServer ------------------------------
(***************************************************************************)
(* The KB_PM service: one daemon with two threads that share process_list. *)
(*                                                                         *)
(*   main    service_start(): the boot loop that launches what the config  *)
(*           file marks running, then the supervisor loop around wait().   *)
(*   sock    server_socket_handle_thread_func(): one client request at a   *)
(*           time, from accept() to save_process_list().                   *)
(*                                                                         *)
(* Around them: the client of the connection being served, the kernel's    *)
(* process table, the wall clock and the config file, which is all that    *)
(* survives when the daemon dies.                                          *)
(*                                                                         *)
(* What the data is abstracted to: an application stands for its app_name, *)
(* cmd and dir; start_time is kept as whether the clock still shows the    *)
(* second in which the process was started (`fresh`); restart_times and    *)
(* memory, which no decision of the service reads, are left out.           *)
(*                                                                         *)
(* An operator marked [mutant] is the one that follows it with a mistake   *)
(* the code could have made; no action uses it.  Put in that one's place it*)
(* breaks a property (the README lists which), so the property can fail.   *)
(***************************************************************************)
EXTENDS Integers, FiniteSets

CONSTANTS
  Apps,      \* the application names; a numeral may be one of them
  NoApp,     \* the empty app_name of an unused slot
  ListSize,  \* LIST_SIZE
  MaxPid     \* process ids are 1 .. MaxPid

ASSUME ServerAssumption ==
  /\ NoApp \notin Apps
  /\ ListSize \in Nat \ {0}
  /\ MaxPid \in Nat \ {0}

Pid     == 1 .. MaxPid
Slot    == 0 .. ListSize - 1
AppName == Apps \cup {NoApp}

VARIABLES
  server,         \* "up", or why the daemon is not running
  process_list,   \* the array process_list[LIST_SIZE]
  process_count,  \* the quantity of processes in process_list
  mutex,          \* process_list_mutex: "free" or the thread that holds it
  main,           \* the main thread: pc, loop index i, pid in hand
  sock,           \* the socket thread: pc, loop index i
  client,         \* the client of the connection being served
  proc,           \* the kernel's process table
  config,         \* ~/.kbpm/process_list.json
  raced           \* history: a list-changing request was taken up during boot

vars == <<server, process_list, process_count, mutex, main, sock, client,
          proc, config, raced>>
listVars == <<process_list, process_count>>
sockVars == <<sock, client>>
fileVars == <<config, raced>>

-------------------------------------------------------------------------------
(* Data *)

TwoPhase == {"start", "stop", "restart", "remove"}
Command  == TwoPhase \cup {"startall", "stopall", "status", "ping"}
Mutating == TwoPhase \cup {"startall", "stopall"}

\* The second message of a request: a word (app name or number), the JSON of a
\* program to start, or nothing at all because the client went away.
Number == 0 .. ListSize
Text   == [kind : {"text"}, word : Apps \cup Number]
Json   == [kind : {"json"}, word : Apps]
Empty  == [kind |-> "empty", word |-> NoApp]
Buffer == Text \cup Json \cup {Empty}

Request(cmd) == Text \cup (IF cmd = "start" THEN Json ELSE {})

\* process_s; pid 0 is "no process"
Entry == [app : AppName, is_running : BOOLEAN, pid : 0 .. MaxPid,
          id : -ListSize .. ListSize, fresh : BOOLEAN]
Blank == [app |-> NoApp, is_running |-> FALSE, pid |-> 0, id |-> 0, fresh |-> FALSE]

\* A process is a live child of the daemon, a child that died and was not waited
\* for yet, or a survivor of an earlier daemon ("orphan").
Process == [app : AppName, st : {"free", "live", "zombie", "orphan"}]
Free    == [app |-> NoApp, st |-> "free"]

Saved     == [app : AppName, is_running : BOOLEAN]
EmptyFile == [i \in Slot |-> [app |-> NoApp, is_running |-> FALSE]]

MainOff  == [pc |-> "off", i |-> 0, pid |-> 0]
SockOff  == [pc |-> "off", i |-> 0]
NoClient == [alive |-> FALSE, sent |-> 0, pong |-> FALSE, cmd |-> "ping", buffer |-> Empty]

BootPc    == {"boot", "boot_fork", "boot_record"}
MainPc    == BootPc \cup {"off", "wait", "lock", "scan"}
SockPc    == {"off", "accept", "lock", "read", "pong", "read2", "apply", "startall",
              "stopall", "status", "respond", "save", "write"}

MainThread == [pc : MainPc, i : 0 .. ListSize, pid : 0 .. MaxPid]
SockThread == [pc : SockPc, i : 0 .. ListSize]
Client     == [alive : BOOLEAN, sent : 0 .. 2, pong : BOOLEAN, cmd : Command, buffer : Buffer]

DownCause == {"exit", "sigpipe", "segv", "kill0", "overflow"}

Booting == main.pc \in BootPc
Used    == 0 .. process_count - 1

-------------------------------------------------------------------------------
(* process_list *)

\* The first slot whose name is empty; works on the list and on the saved file.
get_process_list_count(l) ==
  CHOOSE n \in 0 .. ListSize :
    /\ \A i \in 0 .. n - 1 : l[i].app # NoApp
    /\ n < ListSize => l[n].app = NoApp

Named(name) == {i \in Used : process_list[i].app = name}

NameTaken(name) == Named(name) # {}

get_pos_in_process_list(name) ==
  CHOOSE i \in Named(name) : \A j \in Named(name) : i <= j

\* process_list[i + 1].id--; process_list[i] = process_list[i + 1].  The id of an
\* unused slot is never read before it is rewritten and is kept at 0.
ShiftedFrom(l, i) == IF l[i].app = NoApp THEN l[i] ELSE [l[i] EXCEPT !.id = @ - 1]

\* [mutant] the last entry goes; the slot becomes a hole
DelLast(l, name)   == [l EXCEPT ![get_process_list_count(l) - 1] = Blank]
DelToHole(l, name) == [i \in Slot |-> IF l[i].app = name THEN Blank ELSE l[i]]

\* Of a list with an unused slot: what is shifted then lies inside the array.
del_process_by_app_name(l, name) ==
  LET count == get_process_list_count(l)
      found == {i \in 0 .. count - 1 : l[i].app = name}
      index == CHOOSE i \in found : \A j \in found : j <= i
  IN  IF found = {} THEN l
      ELSE [i \in Slot |-> IF i \in index .. count - 1 THEN ShiftedFrom(l, i + 1) ELSE l[i]]

\* server_start_process in the parent, and server_stop_process.
\* [mutant]
StartedUnrecorded(e, p) == [e EXCEPT !.is_running = TRUE, !.fresh = TRUE]
Started(e, p) == [e EXCEPT !.pid = p, !.is_running = TRUE, !.fresh = TRUE]
\* [mutant]
StoppedKeepingPid(e) == [e EXCEPT !.is_running = FALSE, !.fresh = FALSE]
Stopped(e) ==
  IF e.is_running THEN [e EXCEPT !.pid = 0, !.is_running = FALSE, !.fresh = FALSE] ELSE e

-------------------------------------------------------------------------------
(* Resolving the argument of a request *)

arg       == client.buffer
is_number == arg.kind = "empty" \/ (arg.kind = "text" /\ arg.word \in Number)
atoi      == IF arg.kind = "empty" THEN 0 ELSE arg.word

IsId      == is_number /\ atoi \in Used
IsAppName == ~IsId /\ arg.kind = "text" /\ Named(arg.word) # {}
IsCmd     == arg.kind = "json"
Resolves  == IsId \/ IsAppName

\* The slot a request for an id or a name works on, found again by its name.
Target == get_pos_in_process_list(IF IsId THEN process_list[atoi].app ELSE arg.word)

-------------------------------------------------------------------------------
(* The kernel *)

\* fork() hands out a free pid.  The kernel cycles through the pid space, so the
\* pid the main thread has just waited for is not handed out at once.
Forkable == {p \in Pid : proc[p].st = "free" /\ p # main.pid}

Forked(t, p, a) == [t EXCEPT ![p] = [app |-> a, st |-> "live"]]

\* kill(pid, SIGKILL) of a child; a dead or waited-for pid is left alone.
Killed(t, q) == [p \in Pid |-> IF p = q /\ t[p].st = "live"
                               THEN [t[p] EXCEPT !.st = "zombie"] ELSE t[p]]

\* The daemon is gone: live children live on, dead ones are waited for by init.
Orphaned(t) == [p \in Pid |->
  CASE t[p].st = "live"   -> [t[p] EXCEPT !.st = "orphan"]
    [] t[p].st = "zombie" -> Free
    [] OTHER              -> t[p]]

\* kill(0, SIGKILL) takes the daemon's process group with it, children included.
GroupKilled(t) == [p \in Pid |-> IF t[p].st = "orphan" THEN t[p] ELSE Free]

ServerDies(cause, t) ==
  /\ server' = cause
  /\ proc' = t
  /\ process_list' = [i \in Slot |-> Blank]
  /\ process_count' = 0
  /\ mutex' = "free"
  /\ main' = MainOff
  /\ sock' = SockOff
  /\ client' = NoClient
  /\ UNCHANGED fileVars

\* server_start_process on slot i of list l (of n entries) and process table t: the
\* child is recorded, or fork() fails and the daemon leaves.
Launch(l, n, i, t, next) ==
  \/ \E p \in Forkable :
       /\ proc' = Forked(t, p, l[i].app)
       /\ process_list' = [l EXCEPT ![i] = Started(@, p)]
       /\ process_count' = n
       /\ sock' = next
       /\ UNCHANGED <<server, mutex, main, client, fileVars>>
  \/ ServerDies("exit", Orphaned(t))

-------------------------------------------------------------------------------
(* Starting the service *)

Init ==
  /\ server = "exit"
  /\ process_list = [i \in Slot |-> Blank]
  /\ process_count = 0
  /\ mutex = "free"
  /\ main = MainOff
  /\ sock = SockOff
  /\ client = NoClient
  /\ proc = [p \in Pid |-> Free]
  /\ config = EmptyFile
  /\ raced = FALSE

\* parse_process_list_from_path: a missing, empty or torn file counts 0 entries.
Loaded(file) ==
  [i \in Slot |-> [Blank EXCEPT !.app = file[i].app, !.is_running = file[i].is_running]]

\* parse_process_list_from_path answers -1 for such a file; service_start corrects it.
\* [mutant]
LoadedCountRaw(file) == IF file = EmptyFile THEN -1 ELSE get_process_list_count(file)
LoadedCount(file)    == get_process_list_count(file)

\* `kbpm service start` (after `service clean`): load the list, start both threads.
ServiceStart ==
  /\ server # "up"
  /\ server' = "up"
  /\ process_list' = Loaded(config)
  /\ process_count' = LoadedCount(config)
  /\ main' = [MainOff EXCEPT !.pc = "boot"]
  /\ sock' = [SockOff EXCEPT !.pc = "accept"]
  /\ raced' = FALSE
  /\ UNCHANGED <<mutex, client, proc, config>>

\* The daemon is killed, or leaves by exit(EXIT_FAILURE).
Crash ==
  /\ server = "up"
  /\ ServerDies("exit", Orphaned(proc))

-------------------------------------------------------------------------------
(* Main thread: the boot loop, which does not take the mutex *)

\* Number the entry; launch it when the file says it was running.
BootVisit ==
  /\ main.pc = "boot"
  /\ main.i < process_count
  /\ process_list' = [process_list EXCEPT ![main.i].id = main.i]
  /\ main' = IF process_list[main.i].is_running
             THEN [main EXCEPT !.pc = "boot_fork"]
             ELSE [main EXCEPT !.i = @ + 1]
  /\ UNCHANGED <<server, process_count, mutex, sockVars, proc, fileVars>>

\* The child runs what the slot holds when fork() copies the address space.
BootFork ==
  /\ main.pc = "boot_fork"
  /\ \/ \E p \in Forkable :
          /\ proc' = Forked(proc, p, process_list[main.i].app)
          /\ main' = [main EXCEPT !.pc = "boot_record", !.pid = p]
          /\ UNCHANGED <<server, listVars, mutex, sockVars, fileVars>>
     \/ ServerDies("exit", Orphaned(proc))

BootRecord ==
  /\ main.pc = "boot_record"
  /\ process_list' = [process_list EXCEPT ![main.i] = Started(@, main.pid)]
  /\ main' = [main EXCEPT !.pc = "boot", !.i = @ + 1, !.pid = 0]
  /\ UNCHANGED <<server, process_count, mutex, sockVars, proc, fileVars>>

BootDone ==
  /\ main.pc = "boot"
  /\ main.i >= process_count
  /\ main' = [main EXCEPT !.pc = "wait", !.i = 0]
  /\ UNCHANGED <<server, listVars, mutex, sockVars, proc, fileVars>>

-------------------------------------------------------------------------------
(* Main thread: the supervisor loop *)

\* [mutant]
MainWaitUnreaped ==
  /\ main.pc = "wait"
  /\ \E p \in Pid : proc[p].st = "zombie" /\ main' = [main EXCEPT !.pc = "lock", !.pid = p]
  /\ UNCHANGED <<server, listVars, mutex, sockVars, proc, fileVars>>

\* wait(NULL): a dead child, or -1 (kept as 0) when there is no child at all.
MainWait ==
  /\ main.pc = "wait"
  /\ \/ \E p \in Pid :
          /\ proc[p].st = "zombie"
          /\ proc' = [proc EXCEPT ![p] = Free]
          /\ main' = [main EXCEPT !.pc = "lock", !.pid = p]
     \/ /\ \A p \in Pid : proc[p].st \notin {"live", "zombie"}
        /\ main' = [main EXCEPT !.pc = "lock", !.pid = 0]
        /\ UNCHANGED proc
  /\ UNCHANGED <<server, listVars, mutex, sockVars, fileVars>>

MainLock ==
  /\ main.pc = "lock"
  /\ mutex = "free"
  /\ mutex' = "main"
  /\ main' = [main EXCEPT !.pc = "scan"]
  /\ UNCHANGED <<server, listVars, sockVars, proc, fileVars>>

\* The first entry whose pid is the one wait() returned, if there is one.  After
\* a restart the entry has another pid, so the next hit is the next match.
\* [mutant]
HitNotFirst == {i \in Used : i # 0 /\ process_list[i].pid = main.pid}
HitRunning  == {i \in Used : /\ main.pid # 0 /\ process_list[i].is_running
                             /\ \A j \in 0 .. i - 1 : ~process_list[j].is_running}
Hit == {i \in Used :
          /\ main.pid # 0
          /\ process_list[i].pid = main.pid
          /\ \A j \in 0 .. i - 1 : process_list[j].pid # main.pid}

\* [mutant]
MainKeepsLock == mutex' = mutex /\ main' = [main EXCEPT !.pc = "wait", !.pid = 0]
MainUnlock ==
  /\ mutex' = "free"
  /\ main' = [main EXCEPT !.pc = "wait", !.pid = 0]

\* Still the second in which it was started: give up on the app.
MainScanQuick ==
  /\ main.pc = "scan"
  /\ \E i \in Hit :
       /\ process_list[i].is_running
       /\ process_list[i].fresh
       /\ process_list' = [process_list EXCEPT ![i].is_running = FALSE, ![i].pid = 0]
  /\ MainUnlock
  /\ UNCHANGED <<server, process_count, sockVars, proc, fileVars>>

MainScanRestart ==
  /\ main.pc = "scan"
  /\ \E i \in Hit :
       /\ process_list[i].is_running
       /\ ~process_list[i].fresh
       /\ Launch(process_list, process_count, i, proc, sock)

MainScanEnd ==
  /\ main.pc = "scan"
  /\ \A i \in Hit : ~process_list[i].is_running
  /\ MainUnlock
  /\ UNCHANGED <<server, listVars, sockVars, proc, fileVars>>

-------------------------------------------------------------------------------
(* Socket thread: receiving a request *)

SockAt(pc) == sock.pc = pc
SockTo(pc) == sock' = [sock EXCEPT !.pc = pc]
SockRound  == [sock EXCEPT !.i = @ + 1]
Responding == [sock EXCEPT !.pc = "respond"]

SockAccept ==
  /\ SockAt("accept")
  /\ client' = [NoClient EXCEPT !.alive = TRUE]
  /\ SockTo("lock")
  /\ UNCHANGED <<server, listVars, mutex, main, proc, fileVars>>

SockLock ==
  /\ SockAt("lock")
  /\ mutex = "free"
  /\ mutex' = "sock"
  /\ SockTo("read")
  /\ UNCHANGED <<server, listVars, main, client, proc, fileVars>>

\* read() of the command; it returns nothing when the client died before sending.
SockRead ==
  /\ SockAt("read")
  /\ \/ /\ client.sent = 1
        /\ SockTo(CASE client.cmd \in TwoPhase -> "pong"
                    [] client.cmd = "ping"     -> "respond"
                    [] OTHER                   -> client.cmd)
        /\ raced' = (raced \/ (Booting /\ client.cmd \in Mutating))
     \/ /\ client.sent = 0 /\ ~client.alive
        /\ SockTo("respond")
        /\ UNCHANGED raced
  /\ UNCHANGED <<server, listVars, mutex, main, client, proc, config>>

\* Writing to a connection whose peer is gone raises SIGPIPE, which is not ignored.
SockPong ==
  /\ SockAt("pong")
  /\ \/ /\ client.alive
        /\ client' = [client EXCEPT !.pong = TRUE]
        /\ SockTo("read2")
        /\ UNCHANGED <<server, listVars, mutex, main, proc, fileVars>>
     \/ ~client.alive /\ ServerDies("sigpipe", Orphaned(proc))

\* read() of the argument; the buffer stays empty when the client died first.
SockRead2 ==
  /\ SockAt("read2")
  /\ client.sent = 2 \/ ~client.alive
  /\ SockTo("apply")
  /\ UNCHANGED <<server, listVars, mutex, main, client, proc, fileVars>>

-------------------------------------------------------------------------------
(* Socket thread: the requests *)

Applying(cmd) == SockAt("apply") /\ client.cmd = cmd

\* Nothing to do: no such app, name taken, already running, not running, all done.
\* [mutant]
RefusedUnlessNew ==
  \/ ~Resolves /\ ~IsCmd
  \/ IsCmd /\ NameTaken(arg.word)
  \/ Resolves /\ client.cmd \in {"stop", "restart"} /\ ~process_list[Target].is_running
Refused ==
  \/ ~Resolves /\ ~IsCmd
  \/ IsCmd /\ NameTaken(arg.word)
  \/ Resolves /\ client.cmd = "start" /\ process_list[Target].is_running
  \/ Resolves /\ client.cmd \in {"stop", "restart"} /\ ~process_list[Target].is_running

SockAnswer ==
  /\ \/ SockAt("apply") /\ Refused
     \/ SockAt("startall") /\ sock.i >= process_count
     \/ SockAt("stopall") /\ sock.i >= process_count
  /\ SockTo("respond")
  /\ UNCHANGED <<server, listVars, mutex, main, client, proc, fileVars>>

\* start <file>: launched, then appended.
SockStartCmd ==
  /\ Applying("start") /\ IsCmd /\ ~NameTaken(arg.word)
  /\ process_count < ListSize
  /\ LET new == [Blank EXCEPT !.app = arg.word, !.id = process_count]
     IN  Launch([process_list EXCEPT ![process_count] = new], process_count + 1,
                process_count, proc, Responding)

\* The 257th app is launched, then written behind the array, beyond the daemon's data:
\* the access ends it.
SockStartOverflow ==
  /\ Applying("start") /\ IsCmd /\ ~NameTaken(arg.word)
  /\ process_count = ListSize
  /\ \/ \E p \in Forkable : ServerDies("overflow", Orphaned(Forked(proc, p, arg.word)))
     \/ ServerDies("exit", Orphaned(proc))

SockStart ==
  /\ Applying("start") /\ Resolves /\ ~Refused
  /\ Launch(process_list, process_count, Target, proc, Responding)

\* server_stop_process on slot i: what the list and the process table become.
StoppedAt(i) == [process_list EXCEPT ![i] = Stopped(@)]
\* [mutant]
KilledNone(i) == IF i \in Used THEN proc ELSE GroupKilled(proc)
KilledAt(i)  == IF process_list[i].is_running THEN Killed(proc, process_list[i].pid) ELSE proc

\* Marked running, and boot has not launched it yet.
NoPid(i) == process_list[i].is_running /\ process_list[i].pid = 0

\* The running slots server_stop_process is called on next (one, or none).
Stopping == {i \in Used :
  /\ process_list[i].is_running
  /\ \/ /\ SockAt("apply") /\ client.cmd \in {"stop", "restart", "remove"}
        /\ Resolves /\ i = Target
     \/ SockAt("stopall") /\ i = sock.i}

SockKillZero ==
  /\ \E i \in Stopping : NoPid(i)
  /\ ServerDies("kill0", GroupKilled(proc))

\* Before and after the kill, get_child_pids opens the status file of every process
\* of the machine; one that has ended since readdir() saw it leaves a NULL stream.
SockScanSegv ==
  \E i \in Stopping : \E t \in {proc, KilledAt(i)} : ServerDies("segv", Orphaned(t))

SockStop ==
  /\ Applying("stop") /\ Resolves /\ ~Refused /\ ~NoPid(Target)
  /\ proc' = KilledAt(Target)
  /\ process_list' = StoppedAt(Target)
  /\ SockTo("respond")
  /\ UNCHANGED <<server, process_count, mutex, main, client, fileVars>>

SockRestart ==
  /\ Applying("restart") /\ Resolves /\ ~Refused /\ ~NoPid(Target)
  /\ Launch(StoppedAt(Target), process_count, Target, KilledAt(Target), Responding)

SockRemove ==
  /\ Applying("remove") /\ Resolves /\ ~NoPid(Target)
  /\ get_process_list_count(process_list) < ListSize
  /\ proc' = KilledAt(Target)
  /\ process_list' = del_process_by_app_name(StoppedAt(Target), process_list[Target].app)
  /\ process_count' = process_count - 1
  /\ SockTo("respond")
  /\ UNCHANGED <<server, mutex, main, client, fileVars>>

\* On a full list the last slot is filled from behind the array, and the id there is
\* decremented first.  It lies beyond the daemon's data, and the access ends it.
SockRemoveOverflow ==
  /\ Applying("remove") /\ Resolves /\ ~NoPid(Target)
  /\ get_process_list_count(process_list) = ListSize
  /\ ServerDies("overflow", Orphaned(KilledAt(Target)))

\* One round of the loop of server_start_all_process.
SockStartAll ==
  /\ SockAt("startall") /\ sock.i < process_count
  /\ \/ /\ process_list[sock.i].is_running
        /\ sock' = SockRound
        /\ UNCHANGED <<server, listVars, mutex, main, client, proc, fileVars>>
     \/ /\ ~process_list[sock.i].is_running
        /\ Launch(process_list, process_count, sock.i, proc, SockRound)

\* One round of the loop of server_stop_all_process.
SockStopAll ==
  /\ SockAt("stopall") /\ sock.i < process_count /\ ~NoPid(sock.i)
  /\ proc' = KilledAt(sock.i)
  /\ process_list' = StoppedAt(sock.i)
  /\ sock' = SockRound
  /\ UNCHANGED <<server, process_count, mutex, main, client, fileVars>>

\* Running entries whose /proc/<pid>/status cannot be opened: not launched yet,
\* or waited for by the main thread, which now queues for the mutex.
Unreadable == {i \in Used : /\ process_list[i].is_running
                            /\ NoPid(i) \/ proc[process_list[i].pid].st = "free"}

\* get_mem_by_pid reads from the NULL stream of a status file that is not there.
SockStatus ==
  /\ SockAt("status")
  /\ \/ /\ Unreadable = {}
        /\ SockTo("respond")
        /\ UNCHANGED <<server, listVars, mutex, main, client, proc, fileVars>>
     \/ Unreadable # {} /\ ServerDies("segv", Orphaned(proc))

-------------------------------------------------------------------------------
(* Socket thread: answering and saving *)

SockRespond ==
  /\ SockAt("respond")
  /\ \/ /\ client.alive
        /\ sock' = [pc |-> "save", i |-> 0]
        /\ client' = NoClient
        /\ UNCHANGED <<server, listVars, mutex, main, proc, fileVars>>
     \/ ~client.alive /\ ServerDies("sigpipe", Orphaned(proc))

\* fopen(path, "w") empties the file before anything is written to it.
SockTruncate ==
  /\ SockAt("save")
  /\ config' = EmptyFile
  /\ SockTo("write")
  /\ UNCHANGED <<server, listVars, mutex, main, client, proc, raced>>

\* [mutant]
SavedStopped(e) == [app |-> e.app, is_running |-> FALSE]
SavedAs(e)      == [app |-> e.app, is_running |-> e.is_running]

\* The entries up to the first unused slot; then the mutex is released.
SockWrite ==
  /\ SockAt("write")
  /\ config' = [i \in Slot |->
       IF i < get_process_list_count(process_list)
       THEN SavedAs(process_list[i]) ELSE EmptyFile[i]]
  /\ mutex' = "free"
  /\ SockTo("accept")
  /\ UNCHANGED <<server, listVars, main, client, proc, raced>>

-------------------------------------------------------------------------------
(* The client of the current connection, and the rest of the world *)

\* A client waits for its answer: it is there until "respond" unless it dies.
Connected == client.alive /\ sock.pc \notin {"off", "accept", "save", "write"}

ClientStep ==
  UNCHANGED <<server, listVars, mutex, main, sock, proc, fileVars>>

ClientSend ==
  /\ Connected /\ client.sent = 0
  /\ \E cmd \in Command : client' = [client EXCEPT !.cmd = cmd, !.sent = 1]
  /\ ClientStep

\* The argument.  An empty word is a write() of no bytes: nothing is sent, and the
\* client goes on to wait for its answer.
ClientSend2 ==
  /\ Connected /\ client.sent = 1 /\ client.pong
  /\ \/ \E b \in Request(client.cmd) : client' = [client EXCEPT !.buffer = b, !.sent = 2]
     \/ client' = [client EXCEPT !.pong = FALSE]
  /\ ClientStep

ClientDies ==
  /\ Connected
  /\ client' = [client EXCEPT !.alive = FALSE]
  /\ ClientStep

\* A managed program ends by itself.
ProcExit(p) ==
  /\ \/ proc[p].st = "live"   /\ proc' = [proc EXCEPT ![p].st = "zombie"]
     \/ proc[p].st = "orphan" /\ proc' = [proc EXCEPT ![p] = Free]
  /\ UNCHANGED <<server, listVars, mutex, main, sockVars, fileVars>>

\* The clock enters a new second.
Tick ==
  /\ \E i \in Slot : process_list[i].fresh
  /\ process_list' = [i \in Slot |-> [process_list[i] EXCEPT !.fresh = FALSE]]
  /\ UNCHANGED <<server, process_count, mutex, main, sockVars, proc, fileVars>>

-------------------------------------------------------------------------------
(* Specification *)

MainNext == \/ BootVisit \/ BootFork \/ BootRecord \/ BootDone
            \/ MainWait \/ MainLock \/ MainScanQuick \/ MainScanRestart \/ MainScanEnd

SockServe == \/ SockLock \/ SockRead \/ SockPong \/ SockRead2 \/ SockAnswer
             \/ SockStartCmd \/ SockStartOverflow \/ SockStart
             \/ SockKillZero \/ SockScanSegv \/ SockStop \/ SockRestart
             \/ SockRemove \/ SockRemoveOverflow
             \/ SockStartAll \/ SockStopAll \/ SockStatus
             \/ SockRespond \/ SockTruncate \/ SockWrite

ClientNext == ClientSend \/ ClientSend2 \/ ClientDies

Next == \/ ServiceStart \/ Crash
        \/ MainNext \/ SockAccept \/ SockServe \/ ClientNext
        \/ Tick
        \/ \E p \in Pid : ProcExit(p)

Spec == Init /\ [][Next]_vars

\* Neither thread stops while it can go on; nothing forces a client to connect.
ThreadFairness == WF_vars(MainNext) /\ WF_vars(SockServe)

\* No client has to send anything: read() waits for ever if it does not.
FairSpec == Spec /\ ThreadFairness /\ SF_vars(SockLock)

===============================================================================
