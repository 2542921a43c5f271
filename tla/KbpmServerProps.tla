----------------------------- MODULE KbpmServerProps -----------------------------
(***************************************************************************)
(* What the KB_PM service of KbpmServer promises: its type invariant, the  *)
(* relations between list, processes and file that must survive every      *)
(* interleaving, what a step may never do, what must eventually happen, and*)
(* what the comments and the README say of it that the code does not keep. *)
(*                                                                         *)
(* `raced` holds once a list-changing request was taken up while the boot  *)
(* loop ran, which the code does not exclude; see MainKeepsOut.            *)
(***************************************************************************)
EXTENDS KbpmServer

-------------------------------------------------------------------------------
(* Safety *)

\* Every variable keeps to the values the code can give it, up to the access behind the
\* array that ends the daemon (RemoveDeletes).
TypeOK ==
  /\ server \in DownCause \cup {"up"}
  /\ process_list \in [Slot -> Entry]
  /\ process_count \in 0 .. ListSize
  /\ mutex \in {"free", "main", "sock"}
  /\ main \in MainThread
  /\ sock \in SockThread
  /\ client \in Client
  /\ proc \in [Pid -> Process]
  /\ config \in [Slot -> Saved]
  /\ raced \in BOOLEAN

\* Filled(l, n): exactly the first n slots of l carry names, and no name twice.
Filled(l, n) ==
  /\ \A i \in Slot : l[i].app # NoApp <=> i < n
  /\ \A i, j \in 0 .. n - 1 : l[i].app = l[j].app => i = j

\* The list, and the file it is saved to, are gapless and free of duplicates; an id
\* is at most ListSize removals below the slot it stands in; the boot loop, which
\* does not notice that entries move, still writes inside the array.
ListInv ==
  /\ Filled(process_list, process_count)
  /\ \E n \in 0 .. ListSize : Filled(config, n)
  /\ \A i \in Slot : process_list[i].id >= i - ListSize
  /\ main.pc \in {"boot_fork", "boot_record"} => main.i \in Slot
  /\ main.pc = "boot_record" => main.pid \in Pid

\* Entry i has passed the boot loop.
Launched(i) == ~Booting \/ i < main.i

\* wait() has returned the pid and the main thread has not looked it up yet.
InHand(p) == main.pc \in {"lock", "scan"} /\ main.pid = p

\* An app marked running has a process the supervisor will hear of: a child that
\* lives, one that waits to be reaped, or the very one being handled.
Supervised ==
  ~raced => \A i \in Used :
    LET pid == process_list[i].pid IN
    /\ ~process_list[i].is_running => pid = 0
    /\ process_list[i].is_running /\ Launched(i) =>
         /\ pid \in Pid
         /\ \/ InHand(pid)
            \/ proc[pid].st \in {"live", "zombie"} /\ proc[pid].app = process_list[i].app

\* No child is lost: each live one is recorded by an entry that is marked running
\* (or is being recorded by the boot loop), so stopped and removed apps are dead.
NoLostChild ==
  ~raced => \A p \in Pid : proc[p].st = "live" =>
    \/ main.pc = "boot_record" /\ main.pid = p
    \/ \E i \in Used : /\ process_list[i].pid = p
                       /\ process_list[i].is_running
                       /\ process_list[i].app = proc[p].app

\* At most one instance of an app runs under the daemon.
OneChildPerApp ==
  ~raced => \A p, q \in Pid :
    proc[p].st = "live" /\ proc[q].st = "live" /\ proc[p].app = proc[q].app => p = q

\* The socket thread is between pthread_mutex_lock and pthread_mutex_unlock.
InHandler == sock.pc \notin {"off", "accept", "lock"}

\* The mutex is held by the thread that is in its critical section and by no other:
\* a request never meets the supervisor half-way through the list.
MutexHeld ==
  /\ mutex = "sock" <=> InHandler
  /\ mutex = "main" <=> main.pc = "scan"

\* The first n entries of list l agree with the process table t: the first k have been
\* numbered and launched, the others have no process yet; a pid is recorded in one
\* entry only; `hand` was waited for and not given to another process since; `child`
\* was forked for entry k and is not recorded yet (0 stands for none).
Agrees(l, n, k, t, hand, child) ==
  /\ \A i \in 0 .. n - 1 :
       /\ ~l[i].is_running => l[i].pid = 0
       /\ i >= k => l[i].pid = 0
       /\ i < k => l[i].id = i
       /\ i < k /\ l[i].is_running =>
            /\ l[i].pid \in Pid
            /\ \/ l[i].pid = hand
               \/ t[l[i].pid].st \in {"live", "zombie"} /\ t[l[i].pid].app = l[i].app
  /\ \A i, j \in 0 .. n - 1 : l[i].pid = l[j].pid /\ l[i].pid # 0 => i = j
  /\ \A p \in Pid : t[p].st = "live" =>
       \/ p = child
       \/ \E i \in 0 .. n - 1 : l[i].pid = p /\ l[i].is_running /\ l[i].app = t[p].app
  /\ hand \in Pid => t[hand].st = "free"
  /\ child \in Pid => /\ t[child].st \in {"live", "zombie"} /\ t[child].app = l[k].app
                      /\ \A i \in 0 .. n - 1 : l[i].pid # child

LaunchedCount == IF Booting THEN main.i ELSE process_count
Hand          == IF main.pc \in {"lock", "scan"} THEN main.pid ELSE 0
Newborn       == IF main.pc = "boot_record" THEN main.pid ELSE 0

\* What Supervised, NoLostChild and OneChildPerApp rest on: a daemon that
\* is down has neither threads nor children; a request that changes the list was
\* taken up after boot, unless `raced`; then list and process table agree.
ChangesList == sock.pc \in {"pong", "read2", "apply", "startall", "stopall"}
DownInv ==
  server # "up" => /\ main.pc = "off" /\ sock.pc = "off" /\ process_count = 0
                   /\ \A p \in Pid : proc[p].st \notin {"live", "zombie"}
BootInv ==
  ~raced => /\ Booting => ~ChangesList /\ main.i <= process_count
            /\ main.pc \in {"boot_fork", "boot_record"} =>
                 /\ main.i < process_count
                 /\ process_list[main.i].is_running /\ process_list[main.i].id = main.i
ListedInv ==
  ~raced => Agrees(process_list, process_count, LaunchedCount, proc, Hand, Newborn)
ChildInv == DownInv /\ BootInv /\ ListedInv

\* Between two requests the file lists the same apps in the same order, and marks
\* running every app that runs: a crash then forgets no app.
FileInStep == sock.pc \in {"accept", "lock", "read", "pong", "read2", "apply", "status"}
FileCoversList ==
  ~raced /\ FileInStep =>
    /\ \A i \in Slot : config[i].app = process_list[i].app
    /\ \A i \in Used : process_list[i].is_running => config[i].is_running

-------------------------------------------------------------------------------
(* What a step may never do *)

\* The supervisor launches only an app that is marked running and has no other
\* live child: it neither revives a stopped app nor doubles a restarted one.
RelaunchOnlyDead ==
  [][main.pc = "scan" /\ ~raced =>
       \A p \in Pid : proc[p].st = "free" /\ proc'[p].st = "live" =>
         /\ \E i \in Used : process_list[i].is_running /\ process_list[i].app = proc'[p].app
         /\ \A q \in Pid : proc[q].st = "live" => proc[q].app # proc'[p].app]_vars

\* What the argument of a request means to the user: the app of that name, or the
\* one with that number in the status table.
Meant(b) ==
  CASE b.kind = "text" /\ b.word \in Used -> {process_list[b.word].app}
    [] b.kind = "empty"                   -> {}
    [] OTHER                              -> {b.word}

StatusOf(name) == {[process_list[i] EXCEPT !.id = 0] : i \in Named(name)}
TouchesOnly(names) == \A a \in Apps \ names : StatusOf(a)' = StatusOf(a)

\* A request touches no app but the one it means: the others keep their entry,
\* running state and process, also when a removal moves them in the array.
OnlyMeantTouched ==
  [][SockAt("apply") /\ sock' # sock /\ server' = "up" /\ client.sent = 2 =>
       TouchesOnly(Meant(client.buffer))]_vars

\* kill() of pid 0 would take the daemon and all its programs with it.  Outside a race
\* with boot no request does that: what it finds marked running has a pid, whatever was
\* waited for, given up, stopped or moved before (server.c:589, process.c:69).
OwnGroupSpared == [][server' = "kill0" /\ server = "up" => raced]_vars

-------------------------------------------------------------------------------
(* What the comments, the usage text and the README promise *)

\* "need mutex when access process_list" (server.c:116): while the socket thread
\* holds the mutex, no step of the main thread changes the list.  Boot does.
MainKeepsOut ==
  [][mutex = "sock" /\ main' # main /\ server' = "up" => process_list' = process_list]_vars

\* An app whose memory cannot be read is shown with "cannot get memory"
\* (process.c:456): answering a status request never takes the daemon down.
StatusIsAnswered == [][SockAt("status") => server' # "segv"]_vars

\* "delete a process in process list, if find the app, return 1" (process.h:84):
\* removing an app that is there does not take the daemon down.
RemoveDeletes == [][Applying("remove") => server' # "overflow"]_vars

-------------------------------------------------------------------------------
(* Liveness *)

\* Marked running, past the boot loop, and without a live process.
Fallen(name) ==
  \E i \in Used :
    LET e == process_list[i] IN
    /\ e.app = name /\ e.is_running /\ Launched(i)
    /\ e.pid = 0 \/ proc[e.pid].st # "live"

FinitelyManyRequests == <>[][~SockAccept]_vars

\* The socket thread waits in read(), with the mutex held, for a client that is there.
Waits ==
  /\ client.alive
  /\ \/ SockAt("read")  /\ client.sent = 0
     \/ SockAt("read2") /\ client.sent # 2

\* No client keeps it waiting for ever; nothing in the code sees to that (server.c:268).
ClientsSpeak == []<>~Waits

\* "Keep a group of programs running continuously": once clients stop connecting, and if
\* none of them stays silent, the named program, if it died, is relaunched or given up,
\* unless the daemon goes down.
HandlesFall(name) ==
  FinitelyManyRequests /\ ClientsSpeak =>
    Fallen(name) ~> (~Fallen(name) \/ server # "up" \/ raced)

\* If no client stays silent, a connection that was accepted comes to its end, answered,
\* saved and closed or with the daemon: the threads never leave the mutex locked.
RequestIsServed == ClientsSpeak => (sock.pc = "lock" ~> sock.pc \in {"accept", "off"})

=============================================================================
