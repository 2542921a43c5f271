--------------------------- MODULE KbpmServiceProps ---------------------------
(***************************************************************************)
(* What commands, daemons and the socket file of KbpmService promise.      *)
(***************************************************************************)
EXTENDS KbpmService

-------------------------------------------------------------------------------
(* Safety *)

\* What a command can have left to do: the end of a plan.
Todo    == {SubSeq(Plan[m], k, Len(Plan[m])) : m \in DOMAIN Plan, k \in 1 .. 5}
Command == [pc : {"idle", "connect", "await", "daemonize"}, cmd : DOMAIN Plan, todo : Todo]

\* Every variable keeps to its values: a backlog to its length, a command to its plan.
TypeOK ==
  /\ daemon \in [Daemon -> Stage]
  /\ known \in [Daemon -> SUBSET Apps]
  /\ conn \in [Daemon -> Client \cup {Gone, Nobody}]
  /\ \A d \in Daemon : /\ Len(queue[d]) <= Backlog + 1
                       /\ \A k \in 1 .. Len(queue[d]) : queue[d][k] \in Client \cup {Gone}
  /\ socket \in [Daemon -> {"none", "bound", "listening"}]
  /\ heirs \in [Daemon -> SUBSET Apps]
  /\ path \in Daemon \cup {Nobody}
  /\ file \in SUBSET Apps
  /\ client \in [Client -> Command]
  /\ \A c \in Client : client[c].todo = <<>> <=> client[c].pc = "idle"
  /\ clash \in BOOLEAN

Bound(d) == daemon[d] \in {"listen", "serve", "save", "write"}

\* Unless daemons clashed there is one of them at most, it is not deaf, and the socket
\* file names it once it is bound, also when an earlier daemon crashed and left the file.
Reachable ==
  ~clash => /\ \A d, e \in Up : d = e
            /\ \A d \in Up : daemon[d] # "deaf" /\ (Bound(d) => path = d)

\* Unless daemons clashed, the registry holds the apps the daemon knows, from one
\* request to the next and from one daemon to the next.
FileIsList == ~clash => \A d \in Up : daemon[d] \notin {"save", "write"} => file = known[d]

-------------------------------------------------------------------------------
(* The registry *)

IsUp    == Up # {}
KnownOf == UNION {known[d] : d \in Up}
PhaseOf ==
  IF \E d \in Daemon : daemon[d] = "save" THEN "busy"
  ELSE IF \E d \in Daemon : daemon[d] = "write" THEN "saving"
  ELSE "ready"

R == INSTANCE KbpmRegistry WITH
       up <- IsUp, known <- KnownOf, file <- file, phase <- PhaseOf

\* As long as daemons do not clash, the daemons that come and go and the commands that
\* meet at their sockets keep one registry: its apps change by one request at a time,
\* each change is saved before the next is made, nothing else touches the file, and a
\* daemon begins with what the one before it saved last.
KeepsRegistry == [][~clash /\ ~clash' => [R!RegistryNext]_(R!registryVars)]_vars

-------------------------------------------------------------------------------
(* Liveness *)

Serves(d) == daemon[d] \in {"serve", "save", "write"}

FaultsEnd == <>[][~Fault]_vars

Starting(c) == client[c].cmd = "service" /\ client[c].pc # "idle"
\* Queued at a daemon that is gone or once accepted by it, or waiting for room in its
\* queue, while a program holds the socket.
Hangs(c) ==
  \/ \E d \in Daemon : daemon[d] = "off" /\ Pending(c, d)
  \/ client[c].pc = "connect" /\ Listening /\ daemon[path] = "off"

\* The model has no identity left for one more daemon (a limit of the instance only).
OutOfDaemons == ~\E d \in Daemon : Fresh(d)

\* "start the KB_PM service" (kbpm.c:139): once faults end, whoever keeps calling
\* `service start` finds a daemon serving, unless the command hangs on the socket of a
\* daemon that is gone, held open by a program that is not.
StartServes ==
  FaultsEnd => \A c \in Client :
    []<>Starting(c) => []<>((\E d \in Daemon : Serves(d)) \/ Hangs(c) \/ OutOfDaemons)

-------------------------------------------------------------------------------
(* What the messages and the usage text promise *)

\* "Service have been already started." (kbpm.c:90): there is one daemon at a time.
OneDaemon == \A d, e \in Up : d = e

\* `service start` comes to an end (kbpm.c:139, "start the KB_PM service").
StartReturns ==
  FaultsEnd => \A c \in Client : Starting(c) ~> ~Starting(c) \/ OutOfDaemons

===============================================================================
