------------------------------ MODULE KbpmService ------------------------------
(***************************************************************************)
(* The KB_PM service seen from the shell: `kbpm` commands that run at the  *)
(* same time, the socket file they meet at, and the daemons that `kbpm     *)
(* service start` leaves behind, one of them or several.                   *)
(*                                                                         *)
(* A command is a row of exchanges, each on a connection of its own: a ping*)
(* first, then the request, then ping and status for the table.  What a    *)
(* daemon does with one request is KbpmServer's subject; here a request is *)
(* one step, which changes the set of apps the daemon knows, and the save  *)
(* that follows the answer is two, as it empties the file first.           *)
(*                                                                         *)
(* A socket belongs to the daemon that made it and outlives it: the file   *)
(* stays, and every program forked after socket() holds the descriptor     *)
(* open, as nothing closes it on exec.  Such programs are the daemon's     *)
(* heirs.  Connecting to their socket succeeds, and nobody ever answers.   *)
(* A program forked while a connection is accepted holds that one open too.*)
(*                                                                         *)
(* Bounds: Daemon, the daemons whose socket can still matter at one time.  *)
(* Operators marked [mutant] are mistakes no action makes.                 *)
(***************************************************************************)
EXTENDS Naturals, Sequences, FiniteSets

CONSTANTS
  Client,   \* terminals, each running one kbpm command at a time
  Daemon,   \* identities of daemons
  Apps,     \* application names
  Backlog,  \* SERVER_ACCEPT_COUNT
  Nobody,   \* no client, and no daemon
  Gone      \* a client that went away while its connection was pending

ASSUME ServiceAssumption ==
  /\ Backlog \in Nat
  /\ Nobody \notin Client \cup Daemon \cup {Gone}
  /\ Gone \notin Client

VARIABLES
  daemon,  \* how far each daemon is
  known,   \* the apps in its process_list, all of them running
  conn,    \* the client its socket thread serves, or served when the daemon died
  queue,   \* connections nobody has accepted yet
  socket,  \* its listening socket, as long as anyone holds it
  heirs,   \* the apps whose programs hold that socket too
  path,    \* whose socket LOCAL_SOCKET_FILE names
  file,    \* the apps in the registry file
  client,  \* each command: where it is and the exchanges it still has to do
  clash    \* history: a daemon was started, or the socket file removed, beside a living one

daemonVars == <<daemon, known, conn, queue, socket, heirs>>
vars == <<daemonVars, path, file, client, clash>>

Stage == {"off", "unlink", "bind", "listen", "serve", "save", "write", "deaf"}
Up    == {d \in Daemon : daemon[d] # "off"}

\* The exchanges of `service start`, `status`, and the commands that change the list.
Plan == [service |-> <<"ping">>,
         status  |-> <<"ping", "status">>,
         change  |-> <<"ping", "change", "ping", "status">>]
Idle == [pc |-> "idle", cmd |-> "status", todo |-> <<>>]

Init ==
  /\ daemon = [d \in Daemon |-> "off"]
  /\ known  = [d \in Daemon |-> {}]
  /\ conn   = [d \in Daemon |-> Nobody]
  /\ queue  = [d \in Daemon |-> <<>>]
  /\ socket = [d \in Daemon |-> "none"]
  /\ heirs  = [d \in Daemon |-> {}]
  /\ path = Nobody
  /\ file = {}
  /\ client = [c \in Client |-> Idle]
  /\ clash = FALSE

-------------------------------------------------------------------------------
(* Commands *)

Goes(c, pc) == client' = [client EXCEPT ![c].pc = pc]

\* This exchange has its answer: on to the next one, or the command is done.
\* [mutant]
ProceedsOn(c) == client' = [client EXCEPT ![c].pc = "connect", ![c].todo = Tail(@)]
Proceeds(c) ==
  LET rest == Tail(client[c].todo)
  IN  client' = [client EXCEPT ![c] = IF rest = <<>> THEN Idle
                                      ELSE [@ EXCEPT !.pc = "connect", !.todo = rest]]

\* No answer: `service start` becomes the daemon, any other command gives up.
\* [mutant]
PingsAgain(c) == IF client[c].cmd = "service" THEN Goes(c, "connect")
                 ELSE client' = [client EXCEPT ![c] = Idle]
Fails(c) == IF client[c].cmd = "service" THEN Goes(c, "daemonize")
            ELSE client' = [client EXCEPT ![c] = Idle]

Invoke(c, cmd) ==
  /\ client[c].pc = "idle"
  /\ client' = [client EXCEPT ![c] = [pc |-> "connect", cmd |-> cmd, todo |-> Plan[cmd]]]
  /\ UNCHANGED <<daemonVars, path, file, clash>>

Listening == path # Nobody /\ socket[path] = "listening"

\* connect(): refused, or queued when the backlog has room; it waits when it has not.
Connect(c) ==
  /\ client[c].pc = "connect"
  /\ \/ /\ ~Listening
        /\ Fails(c)
        /\ UNCHANGED queue
     \/ /\ Listening /\ Len(queue[path]) <= Backlog
        /\ queue' = [queue EXCEPT ![path] = Append(@, c)]
        /\ Goes(c, "await")
  /\ UNCHANGED <<daemon, known, conn, socket, heirs, path, file, clash>>

Pending(c, d) == conn[d] = c \/ \E k \in 1 .. Len(queue[d]) : queue[d][k] = c

\* read() returns nothing.  The first ping finds its buffer empty; a later one may find
\* the "pong" of an earlier call in it, and a request takes the silence for an answer.
Eof(c) ==
  /\ client[c].pc = "await" /\ \A d \in Daemon : ~Pending(c, d)
  /\ \/ Fails(c)
     \/ client[c].todo # Plan[client[c].cmd] /\ Proceeds(c)
  /\ UNCHANGED <<daemonVars, path, file, clash>>

\* The command is interrupted, or cannot fork to daemonize.  Its connection stays where
\* it is until it is served.
ClientDies(c) ==
  /\ client[c].pc # "idle"
  /\ client' = [client EXCEPT ![c] = Idle]
  /\ conn'  = [d \in Daemon |-> IF conn[d] = c THEN Gone ELSE conn[d]]
  /\ queue' = [d \in Daemon |-> [k \in 1 .. Len(queue[d]) |->
                                   IF queue[d][k] = c THEN Gone ELSE queue[d][k]]]
  /\ UNCHANGED <<daemon, known, socket, heirs, path, file, clash>>

\* `kbpm service clean`
Clean(c) ==
  /\ client[c].pc = "idle"
  /\ path' = Nobody
  /\ clash' = (clash \/ Up # {})
  /\ UNCHANGED <<daemonVars, file, client>>

-------------------------------------------------------------------------------
(* A daemon starts *)

\* A daemon that is gone and whose sockets no client can reach or waits at.
Fresh(d) == daemon[d] = "off" /\ path # d /\ queue[d] = <<>> /\ conn[d] \notin Client

\* Two forks: the command ends at its terminal, its grandchild is the daemon.
Daemonizes(c) ==
  /\ client[c].pc = "daemonize"
  /\ client' = [client EXCEPT ![c] = Idle]

\* The registry is read before that, the socket is made after it.
ServiceStart(c, d) ==
  /\ Daemonizes(c) /\ Fresh(d)
  /\ daemon' = [daemon EXCEPT ![d] = "unlink"]
  /\ known'  = [known EXCEPT ![d] = file]
  /\ conn'   = [conn EXCEPT ![d] = Nobody]
  /\ socket' = [socket EXCEPT ![d] = "none"]
  /\ heirs'  = [heirs EXCEPT ![d] = {}]
  /\ clash' = (Up # {})
  /\ UNCHANGED <<queue, path, file>>

Moves(d, from, to) == daemon[d] = from /\ daemon' = [daemon EXCEPT ![d] = to]

\* "delete the former sock file."
\* [mutant]
UnlinkOwn(d) ==
  /\ Moves(d, "unlink", "bind")
  /\ path' = IF path = d THEN Nobody ELSE path
  /\ UNCHANGED <<known, conn, queue, socket, heirs, file, client, clash>>
Unlink(d) ==
  /\ Moves(d, "unlink", "bind")
  /\ path' = Nobody
  /\ UNCHANGED <<known, conn, queue, socket, heirs, file, client, clash>>

\* bind() fails, unnoticed, when another daemon has made the file again.
Bind(d) ==
  /\ \/ /\ path = Nobody
        /\ Moves(d, "bind", "listen")
        /\ path' = d
        /\ socket' = [socket EXCEPT ![d] = "bound"]
     \/ /\ path # Nobody
        /\ Moves(d, "bind", "deaf")
        /\ UNCHANGED <<path, socket>>
  /\ UNCHANGED <<known, conn, queue, heirs, file, client, clash>>

\* Meanwhile the boot loop has forked some programs before socket(), the others after.
Listen(d) ==
  /\ Moves(d, "listen", "serve")
  /\ socket' = [socket EXCEPT ![d] = "listening"]
  /\ \E late \in SUBSET known[d] : heirs' = [heirs EXCEPT ![d] = late]
  /\ UNCHANGED <<known, conn, queue, path, file, client, clash>>

-------------------------------------------------------------------------------
(* A daemon serves *)

Accept(d) ==
  /\ daemon[d] = "serve" /\ conn[d] = Nobody /\ queue[d] # <<>>
  /\ conn'  = [conn EXCEPT ![d] = Head(queue[d])]
  /\ queue' = [queue EXCEPT ![d] = Tail(@)]
  /\ UNCHANGED <<daemon, known, socket, heirs, path, file, client, clash>>

\* A start, a remove, or a request that is refused; the program a start forks and a
\* remove kills holds the socket.
Changes(d) ==
  \/ \E a \in Apps \ known[d] :
       /\ known' = [known EXCEPT ![d] = @ \cup {a}]
       /\ heirs' = [heirs EXCEPT ![d] = @ \cup {a}]
  \/ \E a \in known[d] :
       /\ known' = [known EXCEPT ![d] = @ \ {a}]
       /\ heirs' = [heirs EXCEPT ![d] = @ \ {a}]
  \/ UNCHANGED <<known, heirs>>

\* The request is carried out and answered; then the list is saved, whatever it was.
Answer(d) ==
  /\ conn[d] \in Client
  /\ IF Head(client[conn[d]].todo) = "change" THEN Changes(d) ELSE UNCHANGED <<known, heirs>>
  /\ Proceeds(conn[d])
  /\ conn' = [conn EXCEPT ![d] = Nobody]
  /\ Moves(d, "serve", "save")
  /\ UNCHANGED <<queue, socket, path, file, clash>>

\* fopen(path, "w")
Truncate(d) ==
  /\ Moves(d, "save", "write")
  /\ file' = {}
  /\ UNCHANGED <<known, conn, queue, socket, heirs, path, client, clash>>

\* [mutant]
SaveForgotten(d) ==
  /\ Moves(d, "write", "serve")
  /\ UNCHANGED <<known, conn, queue, socket, heirs, path, file, client, clash>>
Save(d) ==
  /\ Moves(d, "write", "serve")
  /\ file' = known[d]
  /\ UNCHANGED <<known, conn, queue, socket, heirs, path, client, clash>>

\* accept() on a socket that is not bound fails at once.  The loop goes on without a
\* client: no command, no answer, and the file is emptied and written every time round.
DeafSave(d) ==
  /\ daemon[d] = "deaf"
  /\ file' \in {{}, known[d]}
  /\ UNCHANGED <<daemonVars, path, client, clash>>

\* A program of a living daemon ends and is launched again, now with the socket.
Relaunch(d) ==
  /\ socket[d] # "none" /\ daemon[d] # "off"
  /\ \E a \in known[d] : heirs' = [heirs EXCEPT ![d] = @ \cup {a}]
  /\ UNCHANGED <<daemon, known, conn, queue, socket, path, file, client, clash>>

-------------------------------------------------------------------------------
(* A daemon ends *)

\* The last one that held the socket is gone: it closes, and who queued there is cut off.
Closed(d) ==
  /\ socket' = [socket EXCEPT ![d] = "none"]
  /\ queue'  = [queue EXCEPT ![d] = <<>>]

\* The programs that outlive daemon d: a change may have been carried out by now.
Outlive(d) ==
  {heirs[d]} \cup
    IF conn[d] = Gone \/ (conn[d] \in Client /\ Head(client[conn[d]].todo) = "change")
    THEN {heirs[d] \cup {a} : a \in Apps} \cup {heirs[d] \ {a} : a \in Apps}
    ELSE {}

\* What becomes of the accepted connection when `left` outlive daemon d: it closes,
\* unless one of them was forked since accept(); any of them may have been.
Kept(d, left) == IF left # {} /\ conn[d] \in Client THEN {Nobody, conn[d]} ELSE {Nobody}

Die(d, name) ==
  \E left \in Outlive(d) :
    /\ daemon' = [daemon EXCEPT ![d] = "off"]
    /\ known'  = [known EXCEPT ![d] = {}]
    /\ \E c \in Kept(d, left) : conn' = [conn EXCEPT ![d] = c]
    /\ heirs'  = [heirs EXCEPT ![d] = left]
    /\ IF left = {} THEN Closed(d) ELSE UNCHANGED <<socket, queue>>
    /\ path' = name
    /\ UNCHANGED <<file, client, clash>>

Crash(d) == daemon[d] # "off" /\ Die(d, path)

\* When fork() fails the daemon removes the socket file, whoever made it, and exits.
ForkFails(d) == daemon[d] # "off" /\ Die(d, Nobody)

\* Writing to a client that went away raises SIGPIPE.
WriteToGone(d) == daemon[d] = "serve" /\ conn[d] = Gone /\ Die(d, path)

\* A program that outlived its daemon ends.
ProgramEnds(d, a) ==
  /\ daemon[d] = "off" /\ a \in heirs[d]
  /\ heirs' = [heirs EXCEPT ![d] = @ \ {a}]
  /\ IF heirs[d] = {a} THEN Closed(d) ELSE UNCHANGED <<socket, queue>>
  /\ \E c \in Kept(d, heirs[d] \ {a}) : conn' = [conn EXCEPT ![d] = c]
  /\ UNCHANGED <<daemon, known, path, file, client, clash>>

-------------------------------------------------------------------------------
(* Specification *)

CommandStep(c) == Connect(c) \/ Eof(c) \/ \E d \in Daemon : ServiceStart(c, d)

DaemonStep(d) == \/ Unlink(d) \/ Bind(d) \/ Listen(d)
                 \/ Accept(d) \/ Answer(d) \/ WriteToGone(d)
                 \/ Truncate(d) \/ Save(d)

\* A daemon ends, a command that matters to one is interrupted, the socket file goes.
Fault ==
  \/ \E d \in Daemon : Crash(d) \/ ForkFails(d) \/ WriteToGone(d)
  \/ \E c \in Client : \/ ClientDies(c) /\ (client[c].cmd = "service" \/ \E d \in Daemon : Pending(c, d))
                       \/ Clean(c)

Next ==
  \/ \E c \in Client : \/ \E cmd \in DOMAIN Plan : Invoke(c, cmd)
                       \/ CommandStep(c) \/ ClientDies(c) \/ Clean(c)
  \/ \E d \in Daemon : \/ DaemonStep(d) \/ DeafSave(d) \/ Relaunch(d) \/ Crash(d) \/ ForkFails(d)
                       \/ \E a \in Apps : ProgramEnds(d, a)

Spec == Init /\ [][Next]_vars

\* Commands and daemons that can go on do.
FairSpec ==
  /\ Spec
  /\ \A c \in Client : WF_vars(CommandStep(c))
  /\ \A d \in Daemon : WF_vars(DaemonStep(d))

===============================================================================
