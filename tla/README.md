# KB_PM: a TLA+ model of the process manager

KB_PM (`src/`) keeps programs running: a daemon (`kbpm service start`) launches
them, restarts those that die, and answers a command line client over a UNIX
socket. This directory holds two abstract specifications of what the service promises
and four TLA+ models of the program: the daemon, the commands and daemons that meet
at its socket, the recursive kill, and the command line client with its table. With
them come the configurations that check them with TLC, and theorems about them that
TLAPS checks.

## 1. Inventory

| component | source | state it keeps | operations |
|---|---|---|---|
| main thread | `src/src/server.c:127-228` | loop index, the pid `wait()` returned | load the registry, boot loop, supervisor loop (wait, lock, scan, give up / restart, unlock) |
| socket thread | `src/src/server.c:238-652` | the connection, `buffer`, `response` | accept, read, pong, second read, the commands `start stop restart remove startall stopall status ping`, answer, save |
| process list | `src/src/process.c`, `process.h` | `process_list[LIST_SIZE]`, `process_count` | lookup by id and by name, append, delete (shift), count |
| registry file | `src/src/process.c:89-147` | `~/.kbpm/process_list.json` | load, truncate, write |
| process trees, /proc | `src/src/process.c:56-77`, `proc_status.c` | none (reads /proc) | collect the children of a pid, kill recursively, read the memory of a pid |
| client | `src/src/client.c` | one connection | one-message commands, two-message commands, ping |
| `kbpm` command | `src/src/kbpm.c` | none | dispatch, `service start` (ping, then become the daemon), `service clean` (unlink the socket) |
| text helpers | `src/src/utils.c` | none | `is_number`, `str_split` |
| status table | `src/src/box_drawing.c` | none | draws an answer on the terminal |
| cJSON | `src/lib/` | vendored | parse and print JSON |
| init scripts, build, test | `src/scripts`, `src/build`, `src/test` | none | call `kbpm service start`, kill by name |

How they interact. The two threads share `process_list` and `process_count`. The
socket thread holds `process_list_mutex` from just after `accept()` until the list
is saved, reads from the client included. The supervisor holds it while it looks
up the pid that `wait()` returned; `wait()` itself runs outside. The boot loop runs
after the socket thread was created and does not take the mutex at all. The
registry is read once, at start, and rewritten after every request; it holds no
pids. Programs are children of the daemon whichever thread forked them. A client
learns nothing but the answer to its request.

What is hard here: two threads and an unlocked phase; children that die at any
moment, between `wait()` and the lookup in particular; a copy of an entry found
again by name; ids that are array indexes maintained by hand through removals; a
file that is emptied before it is rewritten; clients that die before, between and
after their messages; a daemon that can die anywhere and leaves its children
behind; a blocking read under the mutex; process trees that change while they are
read; commands made of several connections, each of which may meet another daemon.

What makes each part correct:

- *process list*: gapless, no name twice, `process_count` equal to the count of
  named slots that `delete` and `save` recompute, ids equal to indexes once boot is over.
- *both threads*: an app marked running has a process the supervisor will hear of;
  a live child is recorded by an app marked running; at most one per app; the
  supervisor revives only what died.
- *socket thread*: a request changes the app it means and no other, never kills the
  daemon's own process group, and comes to its end if its client says what it wants.
- *registry*: between requests it lists every app, and marks running what runs.
- *mutex*: held exactly inside the two critical sections.
- *supervision*: a program that died is relaunched or given up.
- *service and clients*: the daemon that runs is the one the socket file names; a
  command that queues is served; `service start` leaves a daemon serving.
- *stopping*: what was there when the stop began dies, nothing of another app does,
  and the recursion ends.
- *client and table*: an id read off a table means the app it stands beside as long as
  it can; a `start` shows what it started; uptimes are right; a command ends, but for
  the three ways to wait for ever in `read()`.

`PROJECT.json` lists the hazards at their lines, with the properties that cover
each of them or the reason why none does.

## 2. Modules

| module | what it is |
|---|---|
| `KbpmRegistry` | abstract specification: the set of apps that outlives every daemon |
| `KbpmApps` | abstract specification: registry, running apps, file, requests that take effect at once |
| `KbpmServer` | the daemon, the client it serves, the kernel's process table, the clock, the file |
| `KbpmServerProps` | type invariant, invariants, action and liveness properties, promises of the docs |
| `KbpmServerApps` | the refinement mapping: `KbpmServer` implements `KbpmApps` |
| `MCKbpmServer` + `MCKbpmServer_*.cfg` | the instances TLC checks |
| `KbpmServerProofs` | part 1 of the proofs: list, file, types |
| `KbpmServerAgreesProofs` | part 2: lemmas about a list and a process table that agree |
| `KbpmServerChildProofs` | part 3: apps and processes |
| `KbpmServerMutexProofs` | part 4: mutex, relaunches, what a request touches, file |
| `KbpmServerAppsProofs` | part 5: the refinement |
| `KbpmService` | `kbpm` commands, the socket file, the accept queue, daemons that come and go |
| `KbpmServiceProps`, `MCKbpmService` + `MCKbpmService_*.cfg` | its properties and instances |
| `KbpmServiceProofs` | its theorems |
| `KbpmKillTree` | `kill_process_by_pid` and `get_child_pids` against process trees that change |
| `KbpmKillTreeProps`, `MCKbpmKillTree` + `MCKbpmKillTree_*.cfg`, `KbpmKillTreeProofs` | its properties, instances, theorems |
| `KbpmClient` | one terminal's commands, connection by connection, and its table, on top of `KbpmApps` |
| `KbpmClientProps`, `MCKbpmClient` + `MCKbpmClient_client.cfg`, `KbpmClientProofs` | its properties, instance, theorems |

How they compose. `KbpmServer` is the daemon in full detail. `KbpmApps` is what it
amounts to for whoever uses it, and `ImplementsApps` says so (section 3). `KbpmClient`
EXTENDS `KbpmApps` and so may use the promises of the daemon in place of its threads.
`KbpmKillTree` looks into one step of `KbpmServer`, the kill of an app. `KbpmService`
looks at several daemons, which the others have one after the other. That both views
are of one thing is what `KbpmRegistry` is for: both keep it (`KeepsRegistry`).

        KbpmServer --ImplementsApps--> KbpmApps --KeepsRegistry--> KbpmRegistry
        KbpmService ------------------------------KeepsRegistry--> KbpmRegistry

### The state of `KbpmServer`

| variable | in the code |
|---|---|
| `server` | whether the daemon runs, or what ended it: `exit` (a crash or `exit(EXIT_FAILURE)`), `sigpipe`, `segv`, `kill0`, `overflow` |
| `process_list`, `process_count` | the arrays of `server.c:119-123` |
| `mutex` | `process_list_mutex` |
| `main` | program counter of `service_start`, the index `i` of the boot loop, `pid` |
| `sock` | program counter of the socket thread, the index of `startall` and `stopall` |
| `client` | the peer of the accepted connection: alive, messages sent, pong received, command, argument |
| `proc` | per pid: free, live child, zombie, or orphan of an earlier daemon, and the app it runs |
| `config` | the registry file: name and `is_running` of each entry |
| `raced` | history only: a request that changes the list was taken up while the boot loop ran |

An application stands for its `app_name`, `cmd` and `dir`, none of which an
operation changes separately. `start_time` is read in one place only, to ask whether
the clock still shows the second of the launch; it is kept as that Boolean, `fresh`,
which `Tick` clears. `restart_times` and memory figures decide nothing and are left
out. Response texts are left out; an answer matters by being written. The JSON of
the registry and of a `start` message stands for the entry it encodes. A word of a
request is an app name or a number; a name that is a numeral shadowed by an id is
included when a numeral is put into `Apps`.

### The state of `KbpmService`

| variable | in the code |
|---|---|
| `daemon` | how far each daemon is: between load and `unlink`, `bind`, `listen`, serving, answered and about to save, about to `write` the file it has emptied, or `deaf` (its `bind` failed) |
| `known` | the apps in its `process_list`, all running |
| `conn`, `queue` | the accepted connection, and the connections in the backlog |
| `socket`, `heirs` | its listening socket while anyone holds it, and the apps whose programs inherited it |
| `path` | whose socket `/tmp/kbpm.sock` names |
| `file` | the apps in the registry |
| `client` | per terminal: the command and the exchanges it still has to do |
| `clash` | history only: a daemon was started, or the socket file cleaned, while another ran; a start with no daemon running ends it |

The two models meet in one place. `KbpmServer` looks into one connection: messages,
mutex, list, processes. `KbpmService` takes a connection as one step that may change
the set of known apps, and looks at what is around it: which daemon a connection
reaches, in what order connections are accepted, what a command does next, and what
a daemon leaves behind. A command is its row of exchanges: ping, request, and the
ping and status for the table it prints. `service start` is one ping; when that fails
the command daemonizes (`ServiceStart`), unlinks, binds and listens in separate steps,
so that other commands come in between.

Two system facts carry most of its behaviour. Programs are forked without
close-on-exec, so they hold the listening socket after the daemon is gone; a
connection to it is accepted into the backlog by the kernel and never served. A
program forked between `accept()` and `close()` holds the accepted connection too, so
a command whose daemon dies may see the end of file or wait on (`Kept`). And a socket
file outlives its socket.

### The abstract specification

`KbpmApps` has five variables: whether a daemon runs (`up`), the list of apps with
their marks (`apps`), the apps with a live program (`alive`), the registry (`file`),
and how far the request at hand is (`phase`). The mapping of `KbpmServerApps` takes
them from `server`, the first `process_count` entries of `process_list`, the live
children in `proc`, the named entries of `config`, and the socket thread's program
counter. What the mapping forgets is the point: threads, mutex, messages, slots, ids,
pids, zombies, orphans, the clock. So `ImplementsApps` says that every request takes
effect at once or not at all, also while the supervisor is between `wait()` and its
lookup; that a program is launched only for an app that is marked and has none; that
what a request changed reaches the file by the save that follows it; and that a
restart brings back what was saved last.

It says so of every step outside a race. A request that overtakes the boot loop can
have an app launched twice, and that is not a step of `KbpmApps`; the daemon that was
overtaken is followed no further, and its successor is held to `KbpmApps` again. So the
property is one about steps, and needs no premise on the execution as a whole.

`KbpmRegistry` keeps of this the names only, and `KbpmService` is mapped to it by what
the running daemon knows. Its steps are five: a daemon comes up with what the file
says, or goes down; a request adds an app, removes one or changes nothing; the file is
emptied; it is written. They leave no way to lose more than one change, except for a
daemon that ends between the last two. `KbpmService` takes such steps, or none, as long
as daemons do not clash: the property is about steps and not about behaviours from
the start, as a clash comes to an end and the registry is one again from then on.

### The state of `KbpmKillTree`

| variable | in the code |
|---|---|
| `proc` | the kernel's processes: state, parent, and the app each was born into |
| `pc`, `stack` | the socket thread inside `kill_process_by_pid`: one frame per call, with the pids not read yet and the children found |
| `app` | the app whose stop started the walk |
| `dirs` | the `DIR` streams that `get_child_pids` opened and nobody closes, by the process they were opened for |
| `due` | history only: the processes the stop promises to kill |

Each file of /proc that is read, each kill and each return is a step, and between
any two of them every process may fork, end or be waited for; a process that ends
hands its children to init. `opendir()` may fail, a status file may be gone
(`ReadGone`, which is a segmentation fault), and pids above the limit are passed over.
`due` is what was below the app's process when the stop began, less what falls out
of the tree because a process between ends by itself. The tree of a process is the
least set of processes that has it and is closed under children.

### The state of `KbpmClient`

| variable | in the code |
|---|---|
| `stage`, `conn` | which of the four connections of a command is next or under way, and whether it is queued, accepted (`open`), answered (`served`), closed by the end of the daemon (`lost`, `cut`) or held by nobody but programs (`stuck`, `hung`) |
| `cmd` | the command word and its argument: a word, nothing, or a program in JSON |
| `ids` | `process->id` of each entry of the list |
| `boot`, `visit` | whether the boot loop runs, and how many entries it has numbered |
| `skipped` | history only: a removal moved an entry to where the boot loop of this daemon had been |
| `heir` | the socket file leads to the socket of a daemon that is gone, held by its programs |
| `silent` | the daemon waits in `read()` for another terminal that sends nothing |
| `rows` | the table about to be printed |
| `valid` | history only: the rows of the last table that nothing has moved since |
| `started` | history only: the app this command launched |

`start` looks into the working directory to decide what to send; either answer of
`access()` is an input. A path is the sequence of its fields between slashes, the
empty ones included, so that `str_split` has something to do. A row of the table is the
name and the id that the daemon sent, `process->id` (`process.c:433`), not the position:
they differ before boot has come to an entry (`ids` begin at 0), and stay different
when a removal moves an entry past the boot loop. The other columns are copied, and
column widths are layout; `turn_second` is a function of its own.

The end of a daemon (`DaemonDown`) leaves its programs, or does not: a connection in the
queue is then stuck at their socket or closed, an accepted one is cut or, when a
program was forked since, hung; `connect()` leads to the old socket as long as the file
names it and a program has it (`heir`), and is refused only when nobody does.

### Atomicity

One action is one step between two points at which another thread, the client, a
program or the clock can make a difference.

- Inside a critical section the other thread touches the list only during boot, so a
  whole handler is one action, with two exceptions that the loops need: `startall`
  and `stopall` are one action per round. `MutexHeld` shows the exclusion this
  rests on instead of assuming it: the actions of either thread do not test the
  mutex after they have locked it.
- The boot loop is not protected: numbering an entry and testing `is_running`
  (`BootVisit`), `fork()` (`BootFork`) and the stores after it (`BootRecord`) are
  separate actions, and every handler may come in between. Finer interleavings of
  the two threads' single stores inside a handler are not modelled.
- The save is two actions, since a crash between `fopen(path, "w")` and the write
  leaves an empty file.
- Receiving is one action per `read`, so that a client can send, stall or die at
  each. An accepted client that dies before its first message leaves the buffer
  empty ("error command"); one that dies before its second leaves an empty argument,
  which `is_number` and `atoi` turn into the id 0.

### Failures

`ServerDies` is the end of the daemon: threads, mutex, connection and in-memory list
are gone, live children become orphans, the file stays. It happens at any time
(`Crash`), when `fork()` fails, when a write finds no peer (SIGPIPE keeps its default
action), when a status or a kill reads `/proc` of a process that is gone, when
`kill(0, SIGKILL)` hits the daemon's own process group, and when a start or a removal
reaches behind a full list (`SockStartOverflow`, `SockRemoveOverflow`): what is there is
beyond the daemon's data in the program gcc builds, and the access is its end.
`ServiceStart` starts the next daemon on the file that is left. It stands for
`service clean` and `service start` with no daemon running.

### The kernel

`fork()` returns any free pid except the one that `wait()` has just returned and the
main thread still holds: pids are handed out in a cycle over the whole pid space, so
an immediate reuse needs 32767 forks within one lookup. A pid of an earlier lookup
may be reused at once. `wait()` returns any zombie, or -1 (kept as 0) when there is
no child. Killing an app ends its process in one step of `KbpmServer`; the recursion over its
descendants is `KbpmKillTree`.

## 3. Properties

Safety: `TypeOK`, `ListInv`, `Supervised`, `NoLostChild`, `OneChildPerApp`, `MutexHeld`,
`FileCoversList`, and `ChildInv`, the relation between list and process table the
others follow from. Steps: `RelaunchOnlyDead`, `OnlyMeantTouched`, `OwnGroupSpared`.
Liveness: `FallenIsHandled` (`HandlesFall` of one of the apps),
`RequestIsServed`. Each is stated in words above its definition.

The refinement `ImplementsApps` is a property of the run `race`, and a theorem.

For `KbpmService`: `TypeOK`, `Reachable`, `FileIsList`, the step property
`KeepsRegistry`, and the liveness property `StartServes`. For `KbpmKillTree`: `TypeOK`,
`StoppedDies`, `OneDirEach`, the step property `OnlyAppKilled` and the liveness property
`StopEnds`. For `KbpmClient`: `TypeOK`, `ShownIdHolds`, `StartedIsListed`, `UptimeReads`,
the refinement `KeepsRegistry`, and the liveness property `CommandEnds`.

`raced` excuses `Supervised`, `NoLostChild`, `OneChildPerApp`,
`FileCoversList`, two parts of `ChildInv`, `RelaunchOnlyDead`, `OwnGroupSpared`,
`FallenIsHandled` and `ImplementsApps`: a request that starts or removes an app while the boot loop walks the
same array makes boot fork an app twice or skip one. The premise is no fairness or
scheduling assumption; it marks the states in which such a request was actually taken
up during boot. `TypeOK`, `ListInv`, `MutexHeld` and `OnlyMeantTouched` hold with those
states included. In `KbpmClient`, which has the marks and programs of `KbpmApps` and no
pids, it is `skipped` and the rows not numbered yet that `ShownIdHolds` excepts. In the
same way `Reachable`, `FileIsList` and `KeepsRegistry` say nothing while two daemons, or
a daemon and a `service clean`, are in each other's way (`clash`).

## 4. Runs

| run | instance | shows |
|---|---|---|
| `race` | 2 apps, 3 slots, 2 pids | the list, the file, the process table and what a request touches, over every interleaving of both threads, client, programs, clock, crashes and restarts; `KbpmApps` implemented |
| `pids` | 2 apps, 3 slots, 3 pids, races with boot cut | supervision with an orphan, a zombie and a live child at once |
| `live` | 3 apps, 2 slots, 2 pids, `FairSpec`, races with boot cut, `LiveRequests` | the mutex is held by the right thread and always released, also around starts and removals on a full list; programs that died are relaunched or given up, also two at a time |
| `boot` | 2 apps, 2 slots, 2 pids | violated: `MainKeepsOut` |
| `status` | 2 apps, 2 slots, 2 pids | violated: `StatusIsAnswered` |
| `overrun` | 2 apps, 2 slots, 2 pids | violated: `RemoveDeletes` |
| `service` | 2 terminals, 2 daemons, 1 app, backlog 0, `FairSpec`, `Roles` | the running daemon is reachable, the registry is its list, `KbpmRegistry` is kept; `service start` leaves a daemon serving once faults end |
| `two` | as `service`, every terminal with every command | violated: `OneDaemon` |
| `hang` | 1 terminal, 2 daemons, 1 app, backlog 0, `FairSpec` | violated: `StartReturns` |
| `walk` | 5 processes, 2 apps, pid limit 4, `FairSpec` | a stop kills all it owes, nothing of the other app, reads /proc once for each process, and ends |
| `escape` | 3 processes, 1 app, no process ends by itself | violated: `AllChildrenStopped` |
| `client` | 2 apps, 1 terminal, ids 0 to 1, paths of 2 fields, `FairSpec`, `Focus` | ids, tables and ends of commands while others change the list, boot hands out ids, and daemons go down and leave their sockets to programs; `KbpmApps` keeps `KbpmRegistry` |

Nothing in the model counts up: requests, crashes, restarts and program exits are
unbounded in every run, and the state space is finite because the clock is a
Boolean. The bounds are the constants and the constraints named here. Two apps are the
fewest for which deletion shifts an entry, names collide, an id differs from another;
three slots leave one free, so that `race` and `pids` see removals that stay inside the
array. Full lists are in `live`, where two apps fill two slots and a third is one too
many, and two children live at once, so that one may die while the other is looked up. Two
pids let a restart run beside an unreaped zombie; three add an orphan. Exhausted pids
are `fork()` failing. App names are only compared, so `race` and `pids` use symmetry;
`live`, which checks liveness, does not, and states `FallenIsHandled` for one of the
apps. `pids` and `live` drop the states after a race with the boot loop (the constraint
`NoRace`), in which their properties say nothing (`MutexHeld` and `RequestIsServed`,
which do, are then checked without it; the theorem `MutexCorrect` has no such limit);
`race` keeps them, and what follows them after a restart. `LiveRequests` keeps from the
live run the words that are numbers and the third app, except as the one too many:
a request by id is served by the same steps as one by name.

In `KbpmService`, commands, crashes and programs are unbounded too. `Daemon` bounds
the daemons that matter at one time: one that runs, one whose socket the file names,
one at whose socket a command waits; an identity is used again when none of these
holds. Two are enough for a successor beside a stale socket and for a clash; the
liveness properties except the states in which no identity is left (`OutOfDaemons`).
The kernel queues one connection more than the backlog, so a backlog of 0 lets a
second command find it full. `Roles` gives one terminal `service start` and the other
the commands that work with the daemon; either may clean. Two `service start` at a time
are the run `two`.

Five processes are two trees of which one can have two generations, or three
children of one process, with a pid beyond the limit; pids are not used again, as a
walk is short beside the 32767 forks that takes. In `KbpmClient` two apps give a row
that moves up and one that disappears; the list cannot grow beyond the names, so no
bound is needed; two fields give a slash before, after and between names. Ids 0 and 1
are those of a full list, and one that no app has on a shorter one. `Focus` leaves out of
the run: names after `stop` and ids after `restart` (both are looked up the same way for
all four commands), terminals that fall silent when the command at hand is not queued
behind them, the ends of the second app's programs, and the rest of a boot loop that a
removal raced.

Fairness. `ThreadFairness` is weak fairness of each thread's own steps: a thread
that can go on is scheduled. Clients are under no obligation: `read()` has no timeout
and runs with the mutex held, so one that sends nothing, or an empty word (a `write` of no
bytes), stops supervision and every other request until it ends. `FallenIsHandled` and
`RequestIsServed` therefore have `ClientsSpeak` as a premise, the executions in which
no such wait lasts for ever, and promise nothing of the others.
`SF_vars(SockLock)` says that the socket thread gets the mutex when the
main thread keeps releasing it: between two scans the main thread sleeps 100 ms or
blocks in `wait()`, or restarts a program, which the quick-exit rule bounds to once
a second. Nothing makes `accept` happen. No strong fairness is assumed of the main
thread's lock, so `FallenIsHandled` is stated for executions with finitely many
requests: a mutex is not a queue, and clients without end could overtake it.
`KbpmService` has weak fairness of each command's and each daemon's own steps. A
command that waits for room in the backlog has no stronger promise. Faults never
have to happen nor to stop; `StartServes` and `StartReturns` speak of executions in
which they end.
`KbpmKillTree` has weak fairness of the walk: the thread goes on. The walk ends since
pids do not come back, whatever the processes do. `KbpmClient` has weak fairness of
the command, of the daemon's serving, and of the save; and strong fairness of
`Accept`: the backlog is a queue, so a connection that waits is taken after those
before it. Nothing makes a daemon come up again, and nothing stops the others.
The premises of `CommandEnds` are the waits that nothing ends: `Stranded`, `silent`,
`Wordless`. Without any one of them the property is false.

### Where the program departs from its comments

- `boot`: the boot loop writes entries without the mutex that `server.c:116` asks for.
  The shortest trace starts from an empty file: a request appends and launches an app,
  boot comes to it, forks it again, and `BootRecord` stores the second pid over the first
  while the socket thread holds the mutex.
- `status`: the memory of a process that was just reaped is read from a null stream;
  `process.c:456` has a text for that case that is never reached.
- `overrun`: removing an app from a full list copies the entry behind the array into its
  last slot and decrements an id there; `process.h:84` promises a deletion.
- `two`: a daemon answers pings only once it listens, so a second `service start` in
  that time makes a second daemon. The first is then unreachable, or the second
  fails to bind unnoticed and saves its own list in an endless loop.
- `escape`: the children of a process are read before it is killed, so a child forked
  in between survives a stop (`README.md:27` has "stop all the child processes").
- `hang`: after a crash, `service start` connects to the old socket, which a surviving
  program holds, and waits for ever; only `service clean` helps.

### What each property would catch

Operators marked `[mutant]` in the models are mistakes the code could have made,
kept beside the operator they would replace. Each breaks a property under its run.

| property | mistake |
|---|---|
| `TypeOK` | `LoadedCountRaw`: the -1 of a missing file is not corrected |
| `ListInv` | `DelToHole`: deletion empties the slot and does not shift |
| `OwnGroupSpared` | `StartedUnrecorded`: the pid of a new child is not stored |
| `FileCoversList` | `SavedStopped`: `is_running` is not saved |
| `MutexHeld`, `RequestIsServed` | `MainKeepsLock`: the supervisor does not unlock |
| `ChildInv` | `MainWaitUnreaped`: the dead child is noticed and not reaped |
| `OnlyMeantTouched` | `DelLast`: the last entry is deleted instead of the named one |
| `Supervised` | `StoppedKeepingPid`: a stop leaves the pid behind |
| `NoLostChild` | `KilledNone`: a stop does not kill |
| `OneChildPerApp` | `RefusedUnlessNew`: a running app may be started again |
| `RelaunchOnlyDead` | `HitRunning`: the supervisor restarts the first running app |
| `FallenIsHandled` | `HitNotFirst`: the scan starts at index 1 |
| `TypeOK` (service) | `ProceedsOn`: a command goes on after its last exchange |
| `Reachable` | `UnlinkOwn`: a daemon does not remove another's socket file |
| `FileIsList`, `KeepsRegistry` (service) | `SaveForgotten`: the file is emptied and not written again |
| `StartServes` | `PingsAgain`: `service start` pings until somebody answers |
| `ImplementsApps` | `SavedStopped`: `is_running` is not saved, so a restart brings back something else |
| `TypeOK` (walk) | `ReturnFromAll`: the return of one call ends the walk |
| `StoppedDies` | `ChildrenFirstOnly`: the loop over the children runs once |
| `OnlyAppKilled` | `ChildOfInverted`: the result of `strcmp` is taken for its opposite |
| `StopEnds`, `OneDirEach` | `ChildrenSame`: the loop over the children does not advance |
| `TypeOK` (client) | `SplitKeeping`: empty fields are kept, so an app without a name is registered |
| `KeepsRegistry` (client) | `RequestUnsaved`: the next request is taken up before the list is saved |
| `ShownIdHolds` | `IdsKept`: a removal moves the entries behind it and leaves their ids |
| `StartedIsListed` | `RowsOfFirst`: the answer is made of the first entry over and over |
| `UptimeReads` | `TurnSecondLate`: days start at 3600 * 60 seconds |
| `CommandEnds` | `NeverBroken`: the connections of a daemon that ended stay open |

## 5. Proofs

The theorems about the daemon hold for every value of the constants that satisfies
`ServerAssumption`: the empty name is not an app, and `LIST_SIZE` and the pid space
are not empty. The other models have assumptions of the same kind beside their
constants. TLC evaluates them in every run.

1. `KbpmServerProofs`. `TypeOK` alone is not inductive: that the count read from the
   file stays inside the array, that delete and save recount what `process_count`
   says, and that the boot loop's index stays inside the array when entries are
   removed under it, needs `ListInv`. `Inv == TypeOK /\ ListInv` is inductive
   (`ListInvariant`), with no premise about races. `CountLemma` (counting names gives
   the length of a gapless list) and the lemmas about `del_process_by_app_name`
   carry the steps; the latter are about a list with a free slot, as a removal from a
   full one is the end of the daemon. Results: `TypeCorrect`, `ListCorrect`.
2. `KbpmServerAgreesProofs`. `Agrees(l, n, k, t, hand, child)` relates a list to a
   process table when `k` entries have been launched, `hand` is the pid waited for and
   `child` a fork not recorded yet. The lemmas say what a launch, a stop, a delete, a
   wait, an exit and a boot step do to it.
3. `KbpmServerChildProofs`. `ChildInv` is inductive relative to `Inv`. It states more
   than the properties derived from it: each pid is recorded once, a pid in hand is
   not in use, and entries boot has not reached have no pid. Without the first a
   scan could hit the wrong entry; without the second a restart could adopt another
   app's process. Results: `ChildCorrect`, `SupervisedCorrect`, `NoLostChildCorrect`,
   `OneChildCorrect`.
4. `KbpmServerMutexProofs`. `MutexHeld` is inductive relative to the others, and gives
   `RelaunchCorrect` (an action property) and `FileCorrect`: outside a handler no
   step but the quick-exit rule changes what the file should say, and that one only
   clears `is_running`. `OnlyMeantTouched` needs that a served argument is one that was
   sent (`Spoken`), that a request resolves to an entry of the app it means
   (`TargetIsMeant`), and for a removal that every entry behind the removed one is found
   one slot lower, unchanged but for its id (`DeleteTouches`). `OwnGroupSpared` is `Agrees`
   once more: whoever is stopped after boot is marked running, and so has a pid. Results:
   `MutexCorrect`, `RelaunchCorrect`, `OnlyMeantCorrect`, `OwnGroupCorrect`, `FileCorrect`.
5. `KbpmServerAppsProofs`. `Spec => ImplementsApps`. First what launch, stop,
   append, delete and save do to the registry and the set of running apps (`List...`,
   `Alive...`), then what each action of `KbpmApps` asks of the daemon (`Adds`,
   `Relaunches`, ...), then one case for each action of the daemon. The invariants do the work:
   `Agrees` says that what is relaunched is dead and that a kill ends the app it
   is meant for; `MutexHeld` that the quick-exit rule never runs inside a request;
   `OneChildPerApp` that the end of a program is the end of its app; `ListInv` that
   what is saved is all of the list. Result: `RefinementCorrect`.
6. `KbpmServiceProofs`. `Reachable` is not inductive: between `unlink` and `bind` the
   file must not come back, and a daemon must start from the registry of the last one.
   `DInv` adds both; `ServiceAssumption` is not needed. `TypeOK` says that no command is
   answered beyond its plan, and is not inductive either: `Placed` adds that a client
   waits in one place at most, in a queue or served, and only while it awaits an answer.
   An accept moves everybody one place up, a death or a lost client frees places, and
   `connect` takes a new one only for a command that has none. This needs
   `ServiceAssumption`. `KeepsRegistry` follows from `DInv` step by step: without a clash
   one daemon runs at most, so what the registry sees is what that one knows and how far
   it is (`OneMoves`); `DieSeen` and the case of `ServiceStart` are the ends and the
   beginnings, and a deaf daemon there is none. Results: `ReachableCorrect`,
   `FileIsListCorrect`, `ServiceTypeCorrect`, `RegistryCorrect`.
7. `KbpmKillTreeProofs`. `OnlyAppKilled` needs that every process in a frame, read or
   to be killed, was born into the app of the walk; that in turn needs that a process
   whose parent is of an app is of the same app, which holds because a fork copies the
   app and an end hands children to init only.
   `StoppedDies` needs to say what the walk still owes while the tree changes under it.
   A set S of processes is `Tied` when, with a process, it has its living children
   that are owed a kill and that `get_child_pids` looks at. `DueReached` says that each
   such S that has what the running calls are about to kill or to go into (`Seeds`) has
   all of `due` that lives. When the walk is over there are no seeds, the empty set is
   tied, and so nothing of `due` lives. A call that reads keeps this because a child it
   has not found yet is one whose status it has still to read (`ChildrenFound`); a kill
   because the children of the killed process were found; an end because what was below
   the process is due no more. `BelowLeast` and `BelowClosed`, which characterize the
   tree as a least set, take the place of an induction over its depth.
   `OneDirEach` needs that a child that was found and not gone into yet was found by one
   call only, and that no directory was opened for it. That lasts because its parent is
   killed next: it is nobody's child then (`Orphan`), so no other call finds it
   (`OnceInv`). Results: `WalkTypeCorrect`,
   `OnlyAppKilledCorrect`, `StoppedDiesCorrect`, `OneDirCorrect`, for trees of every size.
8. `KbpmClientProofs`. `ShownIdHolds` and `StartedIsListed` are not inductive: the
   file must keep the rows too, for a daemon may go down and its successor load it,
   the answer to a status request must agree with it, and the ids in the list must be
   positions as far as the boot loop has come (`IdsRight`), through appends and removals
   that meet it half-way. `ClientInv` adds these. `KeepsRegistry` is proved of
   `KbpmApps` first (`AppsKeepRegistry`), with what appending, marking and removing do to
   the set of names, and then of the commands, which do nothing else to the daemon
   (`ClientUsesApps`). Results: `ClientTypeCorrect`, `ShownIdCorrect`, `StartedCorrect`,
   `UptimeCorrect`, `AppsKeepRegistry`, `KeepsRegistryCorrect`.

So each safety property that a run finds satisfied, invariant or about steps, is a
theorem too. Checked by TLC only are the liveness properties (`RequestIsServed`,
`FallenIsHandled`, `StartServes`, `StopEnds`, `CommandEnds`): this prover has no
reasoning about fairness. That `KbpmServer` keeps `KbpmRegistry` is not stated as a
theorem of its own; it is `RefinementCorrect` followed by `AppsKeepRegistry`. The
violated promises have their runs.

## 6. Not modelled

- The 40 KB buffers of registry and status answer, and names that fill `app_name`. What
  an access behind a full list does is undefined in C; the models take the end of the
  daemon that the gcc build shows. The table of LIST_SIZE apps (`box_drawing.c:61`)
  writes behind its array in the client and is not modelled.
- Marks, pids and double launches after a race with boot in `KbpmClient`, which stands
  on `KbpmApps`: they are `KbpmServer`'s subject. `service clean` beside a living daemon
  is `KbpmService`'s.
- A registry edited by hand; the undefined result of `parse_process_cJSON`, taken for
  any value but -1.
- `start /`: `dst[-1]` is read; `KbpmClient` lets the name be any name, or lets the
  command crash. An empty name is left out, and so is a file whose name is a numeral.
- The limit of descriptors: what one stop leaves open is bounded (`OneDirEach`), the sum
  over all stops is not. The failing `opendir()` that follows is modelled, not when it
  comes; what `accept()` does then is not.
- `restart_times`, memory figures, texts of answers, the layout of the table, the
  int of `start_time` after 2038.
- cJSON, the init scripts, the build: vendored code and scripts without logic.
- A crash of the machine: what of the file reached the disk.

## 7. Plan

Done: all the parts above but the vendored and the presentational. What a later
version could add: a clock in seconds for the quick-exit rule and `restart_times`; the
buffers' sizes; a composition of `KbpmKillTree` into the stop of `KbpmServer`; and of
proofs, what step properties can say of the ends of commands and of the walk (that
each step brings them closer), which is the part of liveness that is within reach.
