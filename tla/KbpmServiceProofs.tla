--------------------------- MODULE KbpmServiceProofs ---------------------------
(***************************************************************************)
(* Theorems about KbpmService, for every set of commands, daemons and apps *)
(* and every backlog: as long as daemons did not clash, the one that runs  *)
(* is the one the socket file names, and the registry is its list; and a   *)
(* client waits in one place at most, for an answer it has a use for.      *)
(***************************************************************************)
EXTENDS KbpmServiceProps, SequenceTheorems, TLAPS

-------------------------------------------------------------------------------
(* The inductive invariant *)

\* The part of TypeOK the proofs need.
PerDaemon ==
  /\ daemon \in [Daemon -> Stage]
  /\ known \in [Daemon -> SUBSET Apps]
  /\ file \in SUBSET Apps

\* Reachable is not inductive: a daemon binds the file it has unlinked, which nobody
\* may have made again in between.
Alone ==
  ~clash => /\ \A d, e \in Up : d = e
            /\ \A d \in Up : /\ daemon[d] # "deaf"
                             /\ daemon[d] = "bind" => path = Nobody
                             /\ Bound(d) => path = d
                             /\ daemon[d] \notin {"save", "write"} => file = known[d]

DInv == PerDaemon /\ Alone

\* Nothing that Alone speaks of has changed.
LEMMA KeptAlone ==
  ASSUME DInv, UNCHANGED <<daemon, known, path, file, clash>>
  PROVE  DInv'
BY DEF DInv, PerDaemon, Alone, Up, Bound

\* The death of a daemon leaves the others, and the file, as they are.
LEMMA DieAlone ==
  ASSUME DInv, NEW d \in Daemon, d \in Up, NEW name \in {path, Nobody}, Die(d, name)
  PROVE  DInv'
<1>1. /\ daemon' = [daemon EXCEPT ![d] = "off"] /\ known' = [known EXCEPT ![d] = {}]
      /\ path' = name /\ UNCHANGED <<file, clash>>
  BY DEF Die
<1>2. PerDaemon'
  BY <1>1 DEF DInv, PerDaemon, Stage
<1>3. \A e \in Up' : e \in Up /\ daemon'[e] = daemon[e] /\ known'[e] = known[e]
  BY <1>1 DEF DInv, PerDaemon, Up
<1>4. ~clash => Up' = {}
  BY <1>1, <1>3 DEF DInv, PerDaemon, Alone, Up
<1>5. Alone'
  BY <1>1, <1>4 DEF Alone
<1>6. QED BY <1>2, <1>5 DEF DInv

\* A daemon moves from one stage of its life to another and touches no list.
LEMMA MovesAlone ==
  ASSUME DInv, NEW d \in Daemon, NEW from \in Stage \ {"off"}, NEW to \in Stage \ {"off"},
         Moves(d, from, to)
  PROVE  /\ daemon' \in [Daemon -> Stage]
         /\ Up' = Up /\ d \in Up /\ daemon'[d] = to
         /\ \A e \in Daemon : e # d => daemon'[e] = daemon[e]
BY DEF Moves, DInv, PerDaemon, Up

\* Each command of a terminal.
LEMMA CommandAlone ==
  ASSUME DInv, NEW c \in Client,
         \/ \E cmd \in DOMAIN Plan : Invoke(c, cmd)
         \/ CommandStep(c) \/ ClientDies(c) \/ Clean(c)
  PROVE  DInv'
<1>1. CASE (\E cmd \in DOMAIN Plan : Invoke(c, cmd)) \/ Connect(c) \/ Eof(c) \/ ClientDies(c)
  BY <1>1, KeptAlone DEF Invoke, Connect, Eof, ClientDies, daemonVars
<1>2. CASE Clean(c)
  <2>1. PerDaemon' /\ (clash' \/ Up' = {}) /\ UNCHANGED <<daemon, known, file>>
    BY <1>2 DEF Clean, daemonVars, DInv, PerDaemon, Up
  <2>2. QED BY <2>1 DEF DInv, Alone
<1>3. ASSUME NEW d \in Daemon, ServiceStart(c, d) PROVE DInv'
  <2>1. /\ daemon' = [daemon EXCEPT ![d] = "unlink"] /\ known' = [known EXCEPT ![d] = file]
        /\ clash' = (Up # {}) /\ file' = file
    BY <1>3 DEF ServiceStart
  <2>2. PerDaemon'
    BY <2>1 DEF DInv, PerDaemon, Stage
  <2>3. ASSUME ~clash' PROVE Up' = {d} /\ daemon'[d] = "unlink" /\ known'[d] = file'
    BY <2>1, <2>3 DEF DInv, PerDaemon, Up
  <2>4. Alone'
    BY <2>3 DEF Alone, Bound
  <2>5. QED BY <2>2, <2>4 DEF DInv
<1>4. QED BY <1>1, <1>2, <1>3 DEF CommandStep

\* Each step of a daemon, and of the programs it launched.
LEMMA DaemonAlone ==
  ASSUME DInv, NEW d \in Daemon,
         \/ DaemonStep(d) \/ DeafSave(d) \/ Relaunch(d) \/ Crash(d) \/ ForkFails(d)
         \/ \E a \in Apps : ProgramEnds(d, a)
  PROVE  DInv'
<1> USE DEF DInv
<1>1. CASE Unlink(d)
  <2>1. Moves(d, "unlink", "bind") /\ path' = Nobody /\ UNCHANGED <<known, file, clash>>
    BY <1>1 DEF Unlink
  <2>2. /\ daemon' \in [Daemon -> Stage] /\ Up' = Up /\ d \in Up /\ daemon'[d] = "bind"
        /\ \A e \in Daemon : e # d => daemon'[e] = daemon[e]
    BY <2>1, MovesAlone DEF Stage
  <2>3. QED BY <2>1, <2>2 DEF PerDaemon, Alone, Bound, Up, Moves
<1>2. CASE Bind(d)
  <2>1. /\ \/ path = Nobody /\ path' = d /\ Moves(d, "bind", "listen")
           \/ path # Nobody /\ UNCHANGED path /\ Moves(d, "bind", "deaf")
        /\ UNCHANGED <<known, file, clash>>
    BY <1>2 DEF Bind
  <2>2. /\ daemon' \in [Daemon -> Stage] /\ Up' = Up /\ d \in Up
        /\ daemon'[d] \in {"listen", "deaf"}
        /\ \A e \in Daemon : e # d => daemon'[e] = daemon[e]
    BY <2>1, MovesAlone DEF Stage
  <2>3. daemon[d] = "bind"
    BY <2>1 DEF Moves
  <2>4. ASSUME ~clash PROVE daemon'[d] = "listen" /\ path' = d /\ Up = {d} /\ file = known[d]
    BY <2>1, <2>2, <2>3, <2>4 DEF Alone, PerDaemon, Moves, Up
  <2>5. Alone'
    BY <2>1, <2>2, <2>4 DEF Alone, Bound
  <2>6. QED BY <2>1, <2>2, <2>5 DEF PerDaemon
<1>3. CASE Listen(d)
  <2>1. Moves(d, "listen", "serve") /\ UNCHANGED <<known, path, file, clash>>
    BY <1>3 DEF Listen
  <2>2. /\ daemon' \in [Daemon -> Stage] /\ Up' = Up /\ d \in Up /\ daemon'[d] = "serve"
        /\ \A e \in Daemon : e # d => daemon'[e] = daemon[e]
    BY <2>1, MovesAlone DEF Stage
  <2>3. QED BY <2>1, <2>2 DEF PerDaemon, Alone, Bound, Up, Moves
<1>4. CASE Accept(d) \/ Relaunch(d) \/ \E a \in Apps : ProgramEnds(d, a)
  BY <1>4, KeptAlone DEF Accept, Relaunch, ProgramEnds
<1>5. CASE Answer(d)
  <2>1. /\ Moves(d, "serve", "save") /\ UNCHANGED <<path, file, clash>>
        /\ \E s \in SUBSET Apps : known' = [known EXCEPT ![d] = s]
    <3>1. Moves(d, "serve", "save") /\ UNCHANGED <<path, file, clash>>
      BY <1>5 DEF Answer
    <3>2. \E s \in SUBSET Apps : known' = [known EXCEPT ![d] = s]
      BY <1>5 DEF Answer, Changes, PerDaemon
    <3>3. QED BY <3>1, <3>2
  <2>2. /\ daemon' \in [Daemon -> Stage] /\ Up' = Up /\ d \in Up /\ daemon'[d] = "save"
        /\ \A e \in Daemon : e # d => daemon'[e] = daemon[e]
    BY <2>1, MovesAlone DEF Stage
  <2>3. PerDaemon'
    BY <2>1, <2>2 DEF PerDaemon
  <2>4. \A e \in Daemon : e # d => known'[e] = known[e]
    BY <2>1 DEF PerDaemon
  <2>5. Alone'
    BY <2>1, <2>2, <2>4 DEF Alone, Bound, Up, Moves
  <2>6. QED BY <2>3, <2>5
<1>t. CASE Truncate(d)
  <2>1. Moves(d, "save", "write") /\ file' = {} /\ UNCHANGED <<known, path, clash>>
    BY <1>t DEF Truncate
  <2>2. /\ daemon' \in [Daemon -> Stage] /\ Up' = Up /\ d \in Up /\ daemon'[d] = "write"
        /\ \A e \in Daemon : e # d => daemon'[e] = daemon[e]
    BY <2>1, MovesAlone DEF Stage
  <2>3. QED BY <2>1, <2>2 DEF PerDaemon, Alone, Bound, Up, Moves
<1>6. CASE Save(d)
  <2>1. Moves(d, "write", "serve") /\ file' = known[d] /\ UNCHANGED <<known, path, clash>>
    BY <1>6 DEF Save
  <2>2. /\ daemon' \in [Daemon -> Stage] /\ Up' = Up /\ d \in Up /\ daemon'[d] = "serve"
        /\ \A e \in Daemon : e # d => daemon'[e] = daemon[e]
    BY <2>1, MovesAlone DEF Stage
  <2>3. QED BY <2>1, <2>2 DEF PerDaemon, Alone, Bound, Up, Moves
<1>7. CASE DeafSave(d)
  <2>1. /\ daemon[d] = "deaf" /\ file' \in {{}, known[d]}
        /\ UNCHANGED <<daemon, known, path, clash>>
    BY <1>7 DEF DeafSave, daemonVars
  <2>2. clash
    BY <2>1 DEF Alone, Up
  <2>3. QED BY <2>1, <2>2 DEF PerDaemon, Alone
<1>8. CASE WriteToGone(d) \/ Crash(d) \/ ForkFails(d)
  BY <1>8, DieAlone DEF WriteToGone, Crash, ForkFails, Up
<1>9. QED BY <1>1, <1>2, <1>3, <1>4, <1>5, <1>t, <1>6, <1>7, <1>8 DEF DaemonStep

\* No daemon runs at first.
LEMMA InitAlone == Init => DInv
BY DEF Init, DInv, PerDaemon, Alone, Up, Stage

\* No step of the system breaks the inductive invariant.
LEMMA StepAlone == DInv /\ [Next]_vars => DInv'
<1> SUFFICES ASSUME DInv, [Next]_vars PROVE DInv'
  OBVIOUS
<1>1. CASE UNCHANGED vars
  BY <1>1, KeptAlone DEF vars, daemonVars
<1>2. CASE Next
  BY <1>2, CommandAlone, DaemonAlone DEF Next
<1>3. QED BY <1>1, <1>2

-------------------------------------------------------------------------------
(* Types: what a command has left to do, and where it waits *)

\* What is asked of a daemon on one connection.
Exchange == {"ping", "status", "change"}

\* TypeOK by parts; a backlog is a sequence.
Commands ==
  /\ client \in [Client -> Command]
  /\ \A c \in Client : client[c].todo = <<>> <=> client[c].pc = "idle"
Lists ==
  /\ daemon \in [Daemon -> Stage]
  /\ known \in [Daemon -> SUBSET Apps]
  /\ socket \in [Daemon -> {"none", "bound", "listening"}]
  /\ heirs \in [Daemon -> SUBSET Apps]
  /\ path \in Daemon \cup {Nobody}
  /\ file \in SUBSET Apps
  /\ clash \in BOOLEAN
Queues ==
  /\ conn \in [Daemon -> Client \cup {Gone, Nobody}]
  /\ queue \in [Daemon -> Seq(Client \cup {Gone})]
  /\ \A d \in Daemon : Len(queue[d]) <= Backlog + 1

\* A daemon answers the first client that waits, the one it serves before those it queues.
Waiter(d, k) == IF k = 0 THEN conn[d] ELSE queue[d][k]
Places(d)    == 0 .. Len(queue[d])

\* TypeOK is not inductive: an answer moves its client one exchange on, which must have
\* one left.  It has, for a client that waits anywhere awaits an answer and waits there only.
Placed ==
  \A c \in Client, d \in Daemon : \A k \in Places(d) : Waiter(d, k) = c =>
    /\ client[c].pc = "await"
    /\ \A e \in Daemon : \A l \in Places(e) : Waiter(e, l) = c => e = d /\ l = k

TInv == Commands /\ Lists /\ Queues /\ Placed

\* Every end of a plan may be left to do.
LEMMA InTodo ==
  ASSUME NEW m \in DOMAIN Plan, NEW k \in 1 .. 5
  PROVE  SubSeq(Plan[m], k, Len(Plan[m])) \in Todo
BY DEF Todo

\* A plan starts with all its exchanges.
LEMMA PlanTodo ==
  ASSUME NEW m \in DOMAIN Plan
  PROVE  /\ Plan[m] \in Seq(Exchange) /\ Len(Plan[m]) \in 1 .. 4
         /\ Plan[m] \in Todo /\ Plan[m] # <<>>
<1>1. Plan[m] \in Seq(Exchange) /\ Len(Plan[m]) \in 1 .. 4
  <2>1. m \in {"service", "status", "change"}
    BY DEF Plan
  <2>2. CASE m = "service"
    <3>1. Plan[m] = <<"ping">>
      BY <2>2 DEF Plan
    <3>2. QED BY <3>1 DEF Exchange
  <2>3. CASE m = "status"
    <3>1. Plan[m] = <<"ping", "status">>
      BY <2>3 DEF Plan
    <3>2. QED BY <3>1 DEF Exchange
  <2>4. CASE m = "change"
    <3>1. Plan[m] = <<"ping", "change", "ping", "status">>
      BY <2>4 DEF Plan
    <3>2. QED BY <3>1 DEF Exchange
  <2>5. QED BY <2>1, <2>2, <2>3, <2>4
<1>2. SubSeq(Plan[m], 1, Len(Plan[m])) = Plan[m]
  BY <1>1, SubSeqFull
<1>3. Plan[m] \in Todo
  BY <1>2 DEF Todo
<1>4. QED BY <1>1, <1>3, EmptySeq

\* After an exchange a plan goes on with what is left of it.
LEMMA TailTodo ==
  ASSUME NEW t \in Todo, t # <<>>
  PROVE  Tail(t) \in Todo
<1>1. PICK m \in DOMAIN Plan, k \in 1 .. 5 : t = SubSeq(Plan[m], k, Len(Plan[m]))
  BY DEF Todo
<1> DEFINE n == Len(Plan[m])
<1>2. Plan[m] \in Seq(Exchange) /\ n \in 1 .. 4
  BY PlanTodo
<1> HIDE DEF n
<1>3. k <= n
  <2>1. n \in Int /\ k \in Int
    BY <1>2
  <2>2. n < k => SubSeq(Plan[m], k, n) = <<>>
    BY <2>1, SubSeqEmpty
  <2>3. QED BY <1>1, <2>1, <2>2 DEF n
<1>4. Tail(t) = SubSeq(Plan[m], k + 1, n)
  <2>1. k \in 1 .. Len(Plan[m]) /\ n \in k .. Len(Plan[m])
    BY <1>2, <1>3 DEF n
  <2>2. QED BY <1>1, <1>2, <2>1, HeadTailOfSubSeq DEF n
<1>5. k + 1 \in 1 .. 5
  BY <1>2, <1>3
<1>6. QED BY <1>4, <1>5, InTodo DEF n

\* A command that does nothing has nothing left to do.
LEMMA IdleTodo == Idle \in Command /\ Idle.todo = <<>> /\ Idle.pc = "idle"
<1>1. SubSeq(Plan["service"], 5, Len(Plan["service"])) = <<>> /\ "service" \in DOMAIN Plan
  <2>1. "service" \in DOMAIN Plan
    BY DEF Plan
  <2>2. Len(Plan["service"]) \in 1 .. 4
    BY <2>1, PlanTodo
  <2>3. \A n \in Int : n < 5 => SubSeq(Plan["service"], 5, n) = <<>>
    BY SubSeqEmpty
  <2>4. \A n \in 1 .. 4 : n \in Int /\ n < 5
    OBVIOUS
  <2>5. QED BY <2>1, <2>2, <2>3, <2>4
<1>2. <<>> \in Todo
  <2>1. 5 \in 1 .. 5
    OBVIOUS
  <2>2. QED BY <1>1, <2>1, InTodo
<1>3. "status" \in DOMAIN Plan
  BY DEF Plan
<1>4. QED BY <1>2, <1>3 DEF Idle, Command

\* A command that has exchanges left makes a step of its own.
LEMMA CommandTypes ==
  ASSUME Commands, NEW c \in Client, client[c].pc # "idle",
         \/ Proceeds(c) \/ Fails(c) \/ client' = [client EXCEPT ![c] = Idle]
         \/ \E pc \in {"connect", "await", "daemonize"} : Goes(c, pc)
  PROVE  Commands' /\ \A e \in Client \ {c} : client'[e] = client[e]
<1>1. client[c] \in Command /\ client[c].todo # <<>> /\ client[c].todo \in Todo
  BY DEF Commands, Command
<1>2. ASSUME NEW x \in Command, x.todo = <<>> <=> x.pc = "idle",
             client' = [client EXCEPT ![c] = x]
      PROVE  Commands' /\ \A e \in Client \ {c} : client'[e] = client[e]
  BY <1>2 DEF Commands
<1>3. Idle \in Command /\ Idle.todo = <<>> /\ Idle.pc = "idle"
  BY IdleTodo
<1>4. ASSUME NEW pc \in {"connect", "await", "daemonize"}, Goes(c, pc)
      PROVE  Commands' /\ \A e \in Client \ {c} : client'[e] = client[e]
  <2> DEFINE x == [client[c] EXCEPT !.pc = pc]
  <2>1. x \in Command /\ x.pc = pc /\ x.todo = client[c].todo
    BY <1>1 DEF Command
  <2>2. client' = [client EXCEPT ![c] = x]
    BY <1>4 DEF Goes
  <2> HIDE DEF x
  <2>3. QED BY <1>1, <1>2, <2>1, <2>2
<1>5. CASE Fails(c) \/ client' = [client EXCEPT ![c] = Idle]
  BY <1>2, <1>3, <1>4, <1>5 DEF Fails
<1>6. CASE Proceeds(c)
  <2> DEFINE rest == Tail(client[c].todo)
             x    == [client[c] EXCEPT !.pc = "connect", !.todo = rest]
  <2>1. rest \in Todo
    BY <1>1, TailTodo
  <2> HIDE DEF rest
  <2>2. x \in Command /\ x.pc = "connect" /\ x.todo = rest
    BY <1>1, <2>1 DEF Command
  <2>3. client' = [client EXCEPT ![c] = IF rest = <<>> THEN Idle ELSE x]
    BY <1>6 DEF Proceeds, rest
  <2> HIDE DEF x
  <2>4. CASE rest = <<>>
    BY <1>2, <1>3, <2>3, <2>4
  <2>5. CASE rest # <<>>
    BY <1>2, <2>2, <2>3, <2>5
  <2>6. QED BY <2>4, <2>5
<1>7. QED BY <1>4, <1>5, <1>6

\* Those who still wait, wait where they waited, for an answer.
LEMMA KeptPlaces ==
  ASSUME Placed,
         \A d \in Daemon : \A k \in Places(d)' : Waiter(d, k)' \in Client =>
           /\ k \in Places(d) /\ Waiter(d, k)' = Waiter(d, k)
           /\ client'[Waiter(d, k)].pc = "await"
  PROVE  Placed'
BY DEF Placed

\* A command that waits nowhere disturbs nobody who does.
LEMMA ElsewherePlaces ==
  ASSUME Placed, NEW c \in Client, client[c].pc # "await" \/ \A d \in Daemon : ~Pending(c, d),
         Queues, \A e \in Client \ {c} : client'[e] = client[e], UNCHANGED <<conn, queue>>
  PROVE  Placed'
<1>1. \A d \in Daemon : \A k \in Places(d)' : k \in Places(d) /\ Waiter(d, k)' = Waiter(d, k)
  BY DEF Places, Waiter
<1>2. \A d \in Daemon : \A k \in Places(d) : Waiter(d, k) # c
  <2>1. ASSUME NEW d \in Daemon, NEW k \in Places(d), Waiter(d, k) = c PROVE Pending(c, d)
    <3>1. Len(queue[d]) \in Nat
      BY DEF Queues
    <3>2. k = 0 \/ k \in 1 .. Len(queue[d])
      BY <3>1 DEF Places
    <3>3. QED BY <2>1, <3>2 DEF Waiter, Pending
  <2>2. QED BY <2>1 DEF Placed
<1>3. QED BY <1>1, <1>2, KeptPlaces DEF Placed

\* Nobody connects, is accepted or answered.
LEMMA QuietTypes ==
  ASSUME TInv, UNCHANGED <<conn, queue, client>>
  PROVE  Commands' /\ Queues' /\ Placed'
BY DEF TInv, Commands, Queues, Placed, Places, Waiter

\* A queue grows by a client that waited nowhere.
LEMMA QueuedPlaces ==
  ASSUME TInv, NEW c \in Client, client[c].pc = "connect", Listening, Len(queue[path]) <= Backlog,
         queue' = [queue EXCEPT ![path] = Append(@, c)], Goes(c, "await"), UNCHANGED conn
  PROVE  Queues' /\ Placed'
<1>1. path \in Daemon /\ client \in [Client -> Command]
  BY DEF TInv, Lists, Commands, Listening
<1>2. client'[c].pc = "await" /\ \A e \in Client \ {c} : client'[e] = client[e]
  BY <1>1 DEF Goes, Command
<1> DEFINE q == queue[path]
           n == Len(q)
<1>3. q \in Seq(Client \cup {Gone}) /\ n \in Nat /\ n <= Backlog
  BY <1>1 DEF TInv, Queues
<1>4. /\ queue'[path] = Append(q, c) /\ \A d \in Daemon \ {path} : queue'[d] = queue[d]
      /\ DOMAIN queue' = Daemon
  BY <1>1 DEF TInv, Queues
<1>5. /\ Append(q, c) \in Seq(Client \cup {Gone}) /\ Len(Append(q, c)) = n + 1
      /\ \A i \in 1 .. n : Append(q, c)[i] = q[i]
      /\ Append(q, c)[n + 1] = c
  BY <1>3, AppendProperties
<1>6. Queues'
  <2>1. queue' \in [Daemon -> Seq(Client \cup {Gone})]
    BY <1>1, <1>3, <1>5 DEF TInv, Queues
  <2>2. ASSUME NEW d \in Daemon PROVE Len(queue'[d]) <= Backlog + 1
    BY <1>3, <1>4, <1>5, ServiceAssumption DEF TInv, Queues
  <2>3. QED BY <2>1, <2>2 DEF TInv, Queues
<1>7. ASSUME NEW d \in Daemon, NEW k \in Places(d)'
      PROVE  \/ k \in Places(d) /\ Waiter(d, k)' = Waiter(d, k)
             \/ d = path /\ k = n + 1 /\ Waiter(d, k)' = c
  <2> HIDE DEF n
  <2>1. CASE d # path
    BY <1>4, <2>1 DEF Places, Waiter
  <2>2. CASE d = path
    <3>1. k \in 0 .. n + 1
      BY <1>4, <1>5, <2>2 DEF Places
    <3>2. CASE k = n + 1
      BY <1>3, <1>4, <1>5, <2>2, <3>2 DEF Waiter
    <3>3. CASE k # n + 1
      <4>1. k \in 0 .. n /\ (k = 0 \/ k \in 1 .. n)
        BY <1>3, <3>1, <3>3
      <4>2. QED BY <1>4, <1>5, <2>2, <4>1 DEF Places, Waiter, n
    <3>4. QED BY <3>2, <3>3
  <2>3. QED BY <2>1, <2>2
<1> HIDE DEF q, n
<1>8. \A d \in Daemon : \A k \in Places(d) : Waiter(d, k) # c
  BY DEF TInv, Placed
<1>9. Placed'
  <2> SUFFICES ASSUME NEW b \in Client, NEW d \in Daemon, NEW k \in Places(d)', Waiter(d, k)' = b
               PROVE  /\ client'[b].pc = "await"
                      /\ \A e \in Daemon : \A l \in Places(e)' :
                           Waiter(e, l)' = b => e = d /\ l = k
    BY DEF Placed
  <2>1. CASE b = c
    <3>1. \A e \in Daemon : \A l \in Places(e)' : Waiter(e, l)' = b => e = path /\ l = n + 1
      BY <1>7, <1>8, <2>1
    <3>2. QED BY <1>2, <2>1, <3>1
  <2>2. CASE b # c
    <3>1. \A e \in Daemon : \A l \in Places(e)' : Waiter(e, l)' = b =>
            l \in Places(e) /\ Waiter(e, l) = b
      BY <1>7, <2>2
    <3>2. QED BY <1>2, <2>2, <3>1 DEF TInv, Placed
  <2>3. QED BY <2>1, <2>2
<1>10. QED BY <1>6, <1>9

\* The places of a client that goes away stay taken, by nobody who waits.
LEMMA GonePlaces ==
  ASSUME TInv, NEW c \in Client, ClientDies(c)
  PROVE  Queues' /\ Placed'
<1> DEFINE S     == Client \cup {Gone}
           To(x) == IF x = c THEN Gone ELSE x
<1>1. ASSUME NEW d \in Daemon
      PROVE  /\ conn'[d] = To(conn[d]) /\ queue'[d] \in Seq(S)
             /\ Len(queue'[d]) = Len(queue[d])
             /\ \A k \in 1 .. Len(queue[d]) : queue'[d][k] = To(queue[d][k])
  <2> DEFINE n == Len(queue[d])
  <2>1. queue[d] \in Seq(S) /\ n \in Nat /\ \A k \in 1 .. n : queue[d][k] \in S
    BY ElementOfSeq DEF TInv, Queues
  <2>2. conn'[d] = To(conn[d]) /\ queue'[d] = [k \in 1 .. n |-> To(queue[d][k])]
    BY DEF ClientDies
  <2> HIDE DEF n
  <2>3. queue'[d] \in [1 .. n -> S]
    BY <2>1, <2>2
  <2>4. queue'[d] \in Seq(S)
    BY <2>1, <2>3, SeqDef
  <2>5. Len(queue'[d]) \in Nat /\ 1 .. Len(queue'[d]) = 1 .. n
    BY <2>3, <2>4, LenProperties
  <2>6. Len(queue'[d]) = n
    BY <2>1, <2>5
  <2>7. QED BY <2>2, <2>4, <2>6 DEF n
<1>2. Queues'
  <2>1. conn' \in [Daemon -> Client \cup {Gone, Nobody}]
    BY DEF ClientDies, TInv, Queues
  <2>2. queue' \in [Daemon -> Seq(S)]
    <3>1. DOMAIN queue' = Daemon /\ queue' = [d \in Daemon |-> queue'[d]]
      BY DEF ClientDies
    <3>2. QED BY <1>1, <3>1
  <2>3. QED BY <1>1, <2>1, <2>2 DEF TInv, Queues
<1>3. \A e \in Client \ {c} : client'[e] = client[e]
  BY DEF ClientDies, TInv, Commands
<1>4. ASSUME NEW d \in Daemon, NEW k \in Places(d)'
      PROVE  k \in Places(d) /\ Waiter(d, k)' = To(Waiter(d, k))
  <2>1. Len(queue[d]) \in Nat /\ k \in 0 .. Len(queue[d])
    BY <1>1 DEF TInv, Queues, Places
  <2>2. k = 0 \/ k \in 1 .. Len(queue[d])
    BY <2>1
  <2>3. QED BY <1>1, <2>1, <2>2 DEF Places, Waiter
<1>5. Placed'
  BY <1>3, <1>4, KeptPlaces, ServiceAssumption DEF TInv, Placed
<1>6. QED BY <1>2, <1>5

\* Each command of a terminal.
LEMMA CommandTyped ==
  ASSUME TInv, NEW c \in Client,
         \/ \E cmd \in DOMAIN Plan : Invoke(c, cmd)
         \/ CommandStep(c) \/ ClientDies(c) \/ Clean(c)
  PROVE  TInv'
<1>t. Commands /\ Lists /\ Queues /\ Placed
  BY DEF TInv
<1>1. ASSUME NEW cmd \in DOMAIN Plan, Invoke(c, cmd) PROVE TInv'
  <2> DEFINE x == [pc |-> "connect", cmd |-> cmd, todo |-> Plan[cmd]]
  <2>1. /\ client[c].pc = "idle" /\ client' = [client EXCEPT ![c] = x]
        /\ UNCHANGED <<daemonVars, path, file, clash>>
    BY <1>1 DEF Invoke
  <2>2. x \in Command /\ x.pc = "connect" /\ x.todo # <<>>
    BY PlanTodo DEF Command
  <2> HIDE DEF x
  <2>3. Commands' /\ \A e \in Client \ {c} : client'[e] = client[e]
    BY <1>t, <2>1, <2>2 DEF Commands
  <2>4. Lists' /\ Queues' /\ UNCHANGED <<conn, queue>>
    BY <1>t, <2>1 DEF daemonVars, Lists, Queues
  <2>5. QED BY <1>t, <2>1, <2>3, <2>4, ElsewherePlaces DEF TInv
<1>2. CASE Connect(c)
  <2>1. Lists' /\ client[c].pc = "connect" /\ UNCHANGED conn
    BY <1>t, <1>2 DEF Connect, Lists
  <2>2. CASE Fails(c) /\ UNCHANGED queue
    <3>1. Commands' /\ \A e \in Client \ {c} : client'[e] = client[e]
      BY <1>t, <2>1, <2>2, CommandTypes
    <3>2. Queues'
      BY <1>t, <2>1, <2>2 DEF Queues
    <3>3. QED BY <1>t, <2>1, <2>2, <3>1, <3>2, ElsewherePlaces DEF TInv
  <2>3. CASE ~(Fails(c) /\ UNCHANGED queue)
    <3>1. /\ Listening /\ Len(queue[path]) <= Backlog /\ Goes(c, "await")
          /\ queue' = [queue EXCEPT ![path] = Append(@, c)]
      BY <1>2, <2>3 DEF Connect
    <3>2. Commands'
      BY <1>t, <2>1, <3>1, CommandTypes
    <3>3. QED BY <2>1, <3>1, <3>2, QueuedPlaces DEF TInv
  <2>4. QED BY <2>2, <2>3
<1>3. CASE Eof(c)
  <2>1. /\ client[c].pc = "await" /\ \A d \in Daemon : ~Pending(c, d)
        /\ Fails(c) \/ Proceeds(c)
        /\ UNCHANGED <<daemonVars, path, file, clash>>
    BY <1>3 DEF Eof
  <2>2. Commands' /\ \A e \in Client \ {c} : client'[e] = client[e]
    BY <1>t, <2>1, CommandTypes
  <2>3. Lists' /\ Queues' /\ UNCHANGED <<conn, queue>>
    BY <1>t, <2>1 DEF daemonVars, Lists, Queues
  <2>4. QED BY <1>t, <2>1, <2>2, <2>3, ElsewherePlaces DEF TInv
<1>4. ASSUME NEW d \in Daemon, ServiceStart(c, d) PROVE TInv'
  <2>1. /\ client[c].pc = "daemonize" /\ client' = [client EXCEPT ![c] = Idle]
        /\ conn' = [conn EXCEPT ![d] = Nobody] /\ UNCHANGED queue
    BY <1>4 DEF ServiceStart, Daemonizes
  <2>2. Commands' /\ \A e \in Client \ {c} : client'[e] = client[e]
    BY <1>t, <2>1, CommandTypes
  <2>3. Lists' /\ Queues'
    BY <1>4, <1>t DEF ServiceStart, Lists, Queues, Stage
  <2>4. ASSUME NEW e \in Daemon, NEW k \in Places(e)', Waiter(e, k)' \in Client
        PROVE  /\ k \in Places(e) /\ Waiter(e, k)' = Waiter(e, k)
               /\ client'[Waiter(e, k)].pc = "await"
    <3>1. conn'[e] \in {conn[e], Nobody}
      BY <1>t, <2>1 DEF Queues
    <3>2. k \in Places(e) /\ Waiter(e, k)' = Waiter(e, k)
      BY <2>1, <2>4, <3>1, ServiceAssumption DEF Places, Waiter
    <3>3. client[Waiter(e, k)].pc = "await" /\ Waiter(e, k) \in Client
      BY <1>t, <2>4, <3>2 DEF Placed
    <3>4. QED BY <2>1, <2>2, <3>2, <3>3
  <2>5. Placed'
    BY <1>t, <2>4, KeptPlaces
  <2>6. QED BY <2>2, <2>3, <2>5 DEF TInv
<1>5. CASE ClientDies(c)
  <2>1. Commands' /\ Lists'
    BY <1>5, <1>t, CommandTypes DEF ClientDies, Lists
  <2>2. QED BY <1>5, <2>1, GonePlaces DEF TInv
<1>6. CASE Clean(c)
  <2>1. Lists' /\ UNCHANGED <<conn, queue, client>>
    BY <1>6, <1>t DEF Clean, Lists, daemonVars
  <2>2. QED BY <2>1, QuietTypes DEF TInv
<1>7. QED BY <1>1, <1>2, <1>3, <1>4, <1>5, <1>6 DEF CommandStep

\* Queues lose their clients, all of a queue or none, and daemons the ones they serve.
LEMMA FewerPlaces ==
  ASSUME TInv, UNCHANGED client,
         conn' \in [Daemon -> Client \cup {Gone, Nobody}],
         queue' \in [Daemon -> Seq(Client \cup {Gone})],
         \A d \in Daemon : /\ conn'[d] \in {conn[d], Nobody}
                           /\ queue'[d] \in {queue[d], <<>>}
  PROVE  Queues' /\ Placed'
<1>1. \A d \in Daemon : Len(queue'[d]) \in {Len(queue[d]), 0}
  BY EmptySeq
<1>2. \A d \in Daemon : \A k \in Places(d)' : Waiter(d, k)' \in Client =>
        k \in Places(d) /\ Waiter(d, k)' = Waiter(d, k)
  <2> SUFFICES ASSUME NEW d \in Daemon, NEW k \in Places(d)', Waiter(d, k)' \in Client
               PROVE  k \in Places(d) /\ Waiter(d, k)' = Waiter(d, k)
    OBVIOUS
  <2>1. Len(queue[d]) \in Nat
    BY DEF TInv, Queues
  <2>2. CASE k = 0
    BY <2>1, <2>2, ServiceAssumption DEF Places, Waiter
  <2>3. CASE k # 0
    <3>1. queue'[d] = queue[d]
      BY <1>1, <2>3, EmptySeq DEF Places
    <3>2. QED BY <2>3, <3>1 DEF Places, Waiter
  <2>4. QED BY <2>2, <2>3
<1>3. Placed'
  BY <1>2, KeptPlaces DEF TInv, Placed
<1>4. Queues'
  BY <1>1, ServiceAssumption DEF TInv, Queues
<1>5. QED BY <1>3, <1>4

\* The first in the queue moves up, and everybody after it by one place.
LEMMA AcceptPlaces ==
  ASSUME TInv, NEW d \in Daemon, Accept(d)
  PROVE  Queues' /\ Placed'
<1> DEFINE S == Client \cup {Gone}
           q == queue[d]
<1>1. /\ q # <<>> /\ conn' = [conn EXCEPT ![d] = Head(q)]
      /\ queue' = [queue EXCEPT ![d] = Tail(q)] /\ UNCHANGED client
  BY DEF Accept
<1>2. /\ queue \in [Daemon -> Seq(S)] /\ conn \in [Daemon -> Client \cup {Gone, Nobody}]
      /\ q \in Seq(S) /\ Len(q) \in Nat \ {0} /\ Len(q) <= Backlog + 1
  BY <1>1, EmptySeq DEF TInv, Queues
<1>3. /\ Head(q) = q[1] /\ Head(q) \in S /\ Tail(q) \in Seq(S) /\ Len(Tail(q)) = Len(q) - 1
      /\ \A i \in 1 .. Len(Tail(q)) : Tail(q)[i] = q[i + 1]
  BY <1>1, <1>2, HeadTailProperties
<1>4. /\ conn'[d] = q[1] /\ queue'[d] = Tail(q)
      /\ \A e \in Daemon \ {d} : conn'[e] = conn[e] /\ queue'[e] = queue[e]
  BY <1>1, <1>2, <1>3
<1>5. Queues'
  <2>1. conn' \in [Daemon -> Client \cup {Gone, Nobody}] /\ queue' \in [Daemon -> Seq(S)]
    BY <1>1, <1>2, <1>3
  <2>2. ASSUME NEW e \in Daemon PROVE Len(queue'[e]) <= Backlog + 1
    BY <1>2, <1>3, <1>4, ServiceAssumption DEF TInv, Queues
  <2>3. QED BY <2>1, <2>2 DEF Queues
<1> DEFINE From(e, k) == IF e = d THEN k + 1 ELSE k
<1>6. ASSUME NEW e \in Daemon, NEW k \in Places(e)'
      PROVE  /\ k \in Nat /\ From(e, k) \in Places(e)
             /\ Waiter(e, k)' = Waiter(e, From(e, k))
  <2>1. CASE e # d
    <3>1. Len(queue[e]) \in Nat
      BY <1>2
    <3>2. QED BY <1>4, <2>1, <3>1 DEF Places, Waiter
  <2>2. CASE e = d
    <3>1. k \in 0 .. Len(q) - 1
      BY <1>3, <1>4, <2>2 DEF Places
    <3>2. k \in Nat /\ From(e, k) = k + 1 /\ From(e, k) \in Places(e) /\ From(e, k) # 0
      BY <1>2, <2>2, <3>1 DEF Places
    <3>3. Waiter(e, k)' = q[k + 1]
      <4>1. CASE k = 0
        BY <1>4, <2>2, <4>1 DEF Waiter
      <4>2. CASE k # 0
        <5>1. k \in 1 .. Len(Tail(q))
          BY <1>2, <1>3, <3>1, <4>2
        <5>2. QED BY <1>3, <1>4, <2>2, <4>2, <5>1 DEF Waiter
      <4>3. QED BY <4>1, <4>2
    <3>4. QED BY <2>2, <3>2, <3>3 DEF Waiter
  <2>3. QED BY <2>1, <2>2
<1>7. Placed'
  <2> SUFFICES ASSUME NEW c \in Client, NEW e \in Daemon, NEW k \in Places(e)', Waiter(e, k)' = c,
                      NEW f \in Daemon, NEW l \in Places(f)', Waiter(f, l)' = c
               PROVE  client[c].pc = "await" /\ f = e /\ l = k
    BY <1>1 DEF Placed
  <2>1. /\ From(e, k) \in Places(e) /\ Waiter(e, From(e, k)) = c
        /\ From(f, l) \in Places(f) /\ Waiter(f, From(f, l)) = c
        /\ k \in Nat /\ l \in Nat
    BY <1>6
  <2> HIDE DEF From
  <2>2. client[c].pc = "await" /\ f = e /\ From(f, l) = From(e, k)
    BY <2>1 DEF TInv, Placed
  <2>3. QED BY <2>1, <2>2 DEF From
<1>8. QED BY <1>5, <1>7

\* The client that is answered had an exchange left, and waits no more.
LEMMA AnswerTypes ==
  ASSUME TInv, NEW d \in Daemon, Answer(d)
  PROVE  Commands' /\ Queues' /\ Placed'
<1> DEFINE c == conn[d]
<1>t. Commands /\ Queues /\ Placed
  BY DEF TInv
<1>1. c \in Client /\ Proceeds(c) /\ conn' = [conn EXCEPT ![d] = Nobody] /\ UNCHANGED queue
  BY DEF Answer
<1>2. 0 \in Places(d) /\ Waiter(d, 0) = c
  <2>1. Len(queue[d]) \in Nat
    BY <1>t DEF Queues
  <2>2. QED BY <2>1 DEF Places, Waiter
<1> HIDE DEF c
<1>3. /\ client[c].pc = "await"
      /\ \A e \in Daemon : \A l \in Places(e) : Waiter(e, l) = c => e = d /\ l = 0
  BY <1>t, <1>1, <1>2 DEF Placed
<1>4. Commands' /\ \A e \in Client \ {c} : client'[e] = client[e]
  BY <1>t, <1>1, <1>3, CommandTypes
<1>5. Queues'
  BY <1>t, <1>1 DEF Queues
<1>6. \A e \in Daemon : \A k \in Places(e)' : Waiter(e, k)' \in Client =>
        k \in Places(e) /\ Waiter(e, k)' = Waiter(e, k) /\ Waiter(e, k) # c
  <2> SUFFICES ASSUME NEW e \in Daemon, NEW k \in Places(e)', Waiter(e, k)' \in Client
               PROVE  k \in Places(e) /\ Waiter(e, k)' = Waiter(e, k) /\ ~(e = d /\ k = 0)
    BY <1>3
  <2>1. k \in Places(e) /\ conn \in [Daemon -> Client \cup {Gone, Nobody}]
    BY <1>t, <1>1 DEF Places, Queues
  <2>2. CASE e = d /\ k = 0
    BY <1>1, <2>1, <2>2, ServiceAssumption DEF Waiter
  <2>3. CASE ~(e = d /\ k = 0)
    BY <1>1, <2>1, <2>3 DEF Waiter
  <2>4. QED BY <2>2, <2>3
<1>7. Placed'
  BY <1>t, <1>4, <1>6, KeptPlaces DEF Placed
<1>8. QED BY <1>4, <1>5, <1>7

\* The death of a daemon leaves its programs, and perhaps its socket.
LEMMA DieTyped ==
  ASSUME TInv, NEW d \in Daemon, NEW name \in {path, Nobody}, Die(d, name)
  PROVE  TInv'
<1>t. Commands /\ Lists /\ Queues /\ Placed
  BY DEF TInv
<1>1. PICK left \in Outlive(d) :
        /\ daemon' = [daemon EXCEPT ![d] = "off"]
        /\ known'  = [known EXCEPT ![d] = {}]
        /\ \E c \in Kept(d, left) : conn' = [conn EXCEPT ![d] = c]
        /\ heirs'  = [heirs EXCEPT ![d] = left]
        /\ \/ Closed(d)
           \/ UNCHANGED <<socket, queue>>
        /\ path' = name
        /\ UNCHANGED <<file, client, clash>>
  BY DEF Die
<1>2. left \in SUBSET Apps
  BY <1>t DEF Outlive, Lists
<1>3. Lists'
  BY <1>t, <1>1, <1>2 DEF Lists, Closed, Stage
<1>4. /\ conn' \in [Daemon -> Client \cup {Gone, Nobody}]
      /\ queue' \in [Daemon -> Seq(Client \cup {Gone})]
      /\ \A e \in Daemon : conn'[e] \in {conn[e], Nobody} /\ queue'[e] \in {queue[e], <<>>}
  <2>1. PICK c \in {conn[d], Nobody} : conn' = [conn EXCEPT ![d] = c]
    BY <1>1 DEF Kept
  <2>2. conn \in [Daemon -> Client \cup {Gone, Nobody}] /\ queue \in [Daemon -> Seq(Client \cup {Gone})]
    BY <1>t DEF Queues
  <2>3. c \in Client \cup {Gone, Nobody}
    BY <2>1, <2>2
  <2>4. /\ conn' \in [Daemon -> Client \cup {Gone, Nobody}]
        /\ \A e \in Daemon : conn'[e] \in {conn[e], Nobody}
    BY <2>1, <2>2, <2>3
  <2>5. <<>> \in Seq(Client \cup {Gone})
    BY EmptySeq
  <2>6. /\ queue' \in [Daemon -> Seq(Client \cup {Gone})]
        /\ \A e \in Daemon : queue'[e] \in {queue[e], <<>>}
    BY <1>1, <2>2, <2>5 DEF Closed
  <2>7. QED BY <2>4, <2>6
<1>5. Commands' /\ Queues' /\ Placed'
  BY <1>t, <1>1, <1>4, FewerPlaces DEF Commands
<1>6. QED BY <1>3, <1>5 DEF TInv

\* Each step of a daemon, and of the programs it launched.
LEMMA DaemonTyped ==
  ASSUME TInv, NEW d \in Daemon,
         \/ DaemonStep(d) \/ DeafSave(d) \/ Relaunch(d) \/ Crash(d) \/ ForkFails(d)
         \/ \E a \in Apps : ProgramEnds(d, a)
  PROVE  TInv'
<1>t. Commands /\ Lists /\ Queues /\ Placed
  BY DEF TInv
<1>m. ASSUME NEW from, NEW to \in Stage, Moves(d, from, to) PROVE daemon' \in [Daemon -> Stage]
  BY <1>t, <1>m DEF Moves, Lists
<1>1. CASE Unlink(d) \/ Bind(d) \/ Listen(d) \/ Truncate(d) \/ Save(d)
  <2>1. daemon' \in [Daemon -> Stage]
    BY <1>1, <1>m DEF Unlink, Bind, Listen, Truncate, Save, Stage
  <2>2. Lists'
    <3>1. CASE Unlink(d) \/ Bind(d) \/ Truncate(d) \/ Save(d)
      BY <1>t, <2>1, <3>1 DEF Unlink, Bind, Truncate, Save, Lists
    <3>2. CASE Listen(d)
      BY <1>t, <2>1, <3>2 DEF Listen, Lists
    <3>3. QED BY <1>1, <3>1, <3>2
  <2>3. UNCHANGED <<conn, queue, client>>
    BY <1>1 DEF Unlink, Bind, Listen, Truncate, Save
  <2>4. QED BY <2>2, <2>3, QuietTypes DEF TInv
<1>2. CASE DeafSave(d) \/ Relaunch(d)
  <2>1. Lists' /\ UNCHANGED <<conn, queue, client>>
    BY <1>2, <1>t DEF DeafSave, Relaunch, Lists, daemonVars
  <2>2. QED BY <2>1, QuietTypes DEF TInv
<1>3. CASE Accept(d)
  <2>1. Lists' /\ Commands'
    BY <1>3, <1>t DEF Accept, Lists, Commands
  <2>2. QED BY <1>3, <2>1, AcceptPlaces DEF TInv
<1>4. CASE Answer(d)
  <2>1. daemon' \in [Daemon -> Stage] /\ UNCHANGED <<socket, path, file, clash>>
    BY <1>4, <1>m DEF Answer, Stage
  <2>2. known' \in [Daemon -> SUBSET Apps] /\ heirs' \in [Daemon -> SUBSET Apps]
    BY <1>4, <1>t DEF Answer, Changes, Lists
  <2>3. Lists'
    BY <1>t, <2>1, <2>2 DEF Lists
  <2>4. QED BY <1>4, <2>3, AnswerTypes DEF TInv
<1>5. CASE WriteToGone(d) \/ Crash(d) \/ ForkFails(d)
  BY <1>5, DieTyped DEF WriteToGone, Crash, ForkFails
<1>6. ASSUME NEW a \in Apps, ProgramEnds(d, a) PROVE TInv'
  <2>1. /\ heirs' = [heirs EXCEPT ![d] = @ \ {a}]
        /\ Closed(d) \/ UNCHANGED <<socket, queue>>
        /\ \E c \in Kept(d, heirs[d] \ {a}) : conn' = [conn EXCEPT ![d] = c]
        /\ UNCHANGED <<daemon, known, path, file, client, clash>>
    BY <1>6 DEF ProgramEnds
  <2>2. Lists'
    BY <1>t, <2>1 DEF Lists, Closed
  <2>3. /\ conn' \in [Daemon -> Client \cup {Gone, Nobody}]
        /\ queue' \in [Daemon -> Seq(Client \cup {Gone})]
        /\ \A e \in Daemon : conn'[e] \in {conn[e], Nobody} /\ queue'[e] \in {queue[e], <<>>}
    <3>1. PICK c \in {conn[d], Nobody} : conn' = [conn EXCEPT ![d] = c]
      BY <2>1 DEF Kept
    <3>2. conn \in [Daemon -> Client \cup {Gone, Nobody}] /\ queue \in [Daemon -> Seq(Client \cup {Gone})]
      BY <1>t DEF Queues
    <3>3. c \in Client \cup {Gone, Nobody}
      BY <3>1, <3>2
    <3>4. /\ conn' \in [Daemon -> Client \cup {Gone, Nobody}]
          /\ \A e \in Daemon : conn'[e] \in {conn[e], Nobody}
      BY <3>1, <3>2, <3>3
    <3>5. <<>> \in Seq(Client \cup {Gone})
      BY EmptySeq
    <3>6. /\ queue' \in [Daemon -> Seq(Client \cup {Gone})]
          /\ \A e \in Daemon : queue'[e] \in {queue[e], <<>>}
      BY <2>1, <3>2, <3>5 DEF Closed
    <3>7. QED BY <3>4, <3>6
  <2>4. Commands' /\ Queues' /\ Placed'
    BY <1>t, <2>1, <2>3, FewerPlaces DEF Commands
  <2>5. QED BY <2>2, <2>4 DEF TInv
<1>7. QED BY <1>1, <1>2, <1>3, <1>4, <1>5, <1>6 DEF DaemonStep

\* At first no command runs and nobody waits.
LEMMA InitTyped == Init => TInv
<1> SUFFICES ASSUME Init PROVE TInv
  OBVIOUS
<1>1. Lists
  BY DEF Init, Lists, Stage
<1>2. Idle \in Command /\ Idle.todo = <<>> /\ Idle.pc = "idle"
  BY IdleTodo
<1>3. Commands
  BY <1>2 DEF Init, Commands
<1>4. conn = [d \in Daemon |-> Nobody] /\ queue = [d \in Daemon |-> <<>>] /\ Len(<<>>) = 0
  BY DEF Init
<1>5. Queues
  BY <1>4, EmptySeq, ServiceAssumption DEF Queues
<1>6. Placed
  BY <1>4, ServiceAssumption DEF Placed, Places, Waiter
<1>7. QED BY <1>1, <1>3, <1>5, <1>6 DEF TInv

\* No step of the system breaks it.
LEMMA StepTyped == TInv /\ [Next]_vars => TInv'
<1> SUFFICES ASSUME TInv, [Next]_vars PROVE TInv'
  OBVIOUS
<1>1. CASE UNCHANGED vars
  <2>1. Lists' /\ UNCHANGED <<conn, queue, client>>
    BY <1>1 DEF TInv, Lists, vars, daemonVars
  <2>2. QED BY <2>1, QuietTypes DEF TInv
<1>2. CASE Next
  BY <1>2, CommandTyped, DaemonTyped DEF Next
<1>3. QED BY <1>1, <1>2

-------------------------------------------------------------------------------
(* The registry *)

\* What a registry shows of a request by how far its daemon is.
Shows(stage) == CASE stage = "save" -> "busy" [] stage = "write" -> "saving" [] OTHER -> "ready"

LEMMA OnlyOne ==
  ASSUME NEW dm, NEW kn, NEW d \in Daemon, dm[d] # "off",
         \A e \in Daemon : e # d => dm[e] = "off"
  PROVE  /\ {e \in Daemon : dm[e] # "off"} = {d}
         /\ UNION {kn[e] : e \in {x \in Daemon : dm[x] # "off"}} = kn[d]
         /\ (\E e \in Daemon : dm[e] = "save") <=> dm[d] = "save"
         /\ (\E e \in Daemon : dm[e] = "write") <=> dm[d] = "write"
<1>1. {e \in Daemon : dm[e] # "off"} = {d}
  OBVIOUS
<1>2. UNION {kn[e] : e \in {d}} = kn[d]
  OBVIOUS
<1>3. ASSUME NEW e \in Daemon, NEW s \in {"save", "write"}, dm[e] = s PROVE dm[d] = s
  BY <1>3
<1> QED BY <1>1, <1>2, <1>3

LEMMA SeenNow ==
  ASSUME NEW d \in Daemon, daemon[d] # "off", \A e \in Daemon : e # d => daemon[e] = "off"
  PROVE  IsUp /\ KnownOf = known[d] /\ PhaseOf = Shows(daemon[d])
BY OnlyOne DEF IsUp, KnownOf, PhaseOf, Up, Shows

LEMMA SeenNext ==
  ASSUME NEW d \in Daemon, daemon'[d] # "off", \A e \in Daemon : e # d => daemon'[e] = "off"
  PROVE  IsUp' /\ KnownOf' = known'[d] /\ PhaseOf' = Shows(daemon'[d])
BY OnlyOne DEF IsUp, KnownOf, PhaseOf, Up, Shows

\* No daemon runs: before a step, and after it.
LEMMA SeenNone ==
  /\ Up = {} => ~IsUp /\ KnownOf = {} /\ PhaseOf = "ready"
  /\ Up' = {} => ~IsUp' /\ KnownOf' = {} /\ PhaseOf' = "ready"
BY DEF IsUp, KnownOf, PhaseOf, Up

\* d runs alone and takes a step from one stage to another.
LEMMA OneMoves ==
  ASSUME DInv, ~clash, NEW d \in Daemon, NEW from \in Stage \ {"off"},
         NEW to \in Stage \ {"off"}, Moves(d, from, to)
  PROVE  /\ IsUp /\ KnownOf = known[d] /\ PhaseOf = Shows(from)
         /\ IsUp' /\ KnownOf' = known'[d] /\ PhaseOf' = Shows(to)
<1>1. /\ d \in Up /\ daemon[d] = from /\ daemon'[d] = to
      /\ \A e \in Daemon : e # d => daemon'[e] = daemon[e]
  BY MovesAlone DEF Moves
<1>2. \A e \in Daemon : e # d => daemon[e] = "off"
  BY <1>1 DEF DInv, Alone, Up
<1>3. IsUp /\ KnownOf = known[d] /\ PhaseOf = Shows(from)
  BY <1>1, <1>2, SeenNow
<1>4. IsUp' /\ KnownOf' = known'[d] /\ PhaseOf' = Shows(to)
  BY <1>1, <1>2, SeenNext
<1> QED BY <1>3, <1>4

LEMMA QuietSeen ==
  ASSUME UNCHANGED <<daemon, known, file>>
  PROVE  UNCHANGED R!registryVars
<1>1. Up' = Up
  BY DEF Up
<1>2. IsUp' = IsUp /\ KnownOf' = KnownOf /\ PhaseOf' = PhaseOf
  BY <1>1 DEF IsUp, KnownOf, PhaseOf
<1> QED BY <1>2 DEF R!registryVars

\* The daemon that runs ends, and with it what it knew.
LEMMA DieSeen ==
  ASSUME DInv, ~clash, NEW d \in Daemon, d \in Up, NEW name, Die(d, name)
  PROVE  R!RegistryNext
<1>1. daemon' = [daemon EXCEPT ![d] = "off"] /\ file' = file
  BY DEF Die
<1>2. \A e \in Daemon : e # d => daemon[e] = "off"
  BY DEF DInv, Alone, Up
<1>3. Up' = {}
  BY <1>1, <1>2 DEF DInv, PerDaemon, Up
<1>4. IsUp /\ ~IsUp' /\ KnownOf' = {} /\ PhaseOf' = "ready"
  BY <1>3, SeenNone DEF IsUp
<1> QED BY <1>1, <1>4 DEF R!RegistryNext, R!Down

LEMMA CommandSeen ==
  ASSUME DInv, ~clash, ~clash', NEW c \in Client,
         \/ \E cmd \in DOMAIN Plan : Invoke(c, cmd)
         \/ CommandStep(c) \/ ClientDies(c) \/ Clean(c)
  PROVE  [R!RegistryNext]_(R!registryVars)
<1>1. CASE (\E cmd \in DOMAIN Plan : Invoke(c, cmd))
           \/ Connect(c) \/ Eof(c) \/ ClientDies(c) \/ Clean(c)
  BY <1>1, QuietSeen DEF Invoke, Connect, Eof, ClientDies, Clean, daemonVars
<1>2. ASSUME NEW d \in Daemon, ServiceStart(c, d) PROVE R!RegistryNext
  <2>1. /\ daemon' = [daemon EXCEPT ![d] = "unlink"] /\ known' = [known EXCEPT ![d] = file]
        /\ Up = {} /\ file' = file
    BY <1>2 DEF ServiceStart
  <2>2. /\ daemon'[d] = "unlink" /\ known'[d] = file
        /\ \A e \in Daemon : e # d => daemon'[e] = "off"
    BY <2>1 DEF DInv, PerDaemon, Up
  <2>3. ~IsUp /\ PhaseOf = "ready"
    BY <2>1, SeenNone
  <2>4. IsUp' /\ KnownOf' = file /\ PhaseOf' = "ready"
    BY <2>2, SeenNext DEF Shows
  <2>5. IsUp' = TRUE
    BY <2>4 DEF IsUp
  <2> QED BY <2>1, <2>3, <2>4, <2>5 DEF R!RegistryNext, R!Boot
<1> QED BY <1>1, <1>2 DEF CommandStep

LEMMA DaemonSeen ==
  ASSUME DInv, ~clash, NEW d \in Daemon,
         \/ DaemonStep(d) \/ DeafSave(d) \/ Relaunch(d) \/ Crash(d) \/ ForkFails(d)
         \/ \E a \in Apps : ProgramEnds(d, a)
  PROVE  [R!RegistryNext]_(R!registryVars)
<1>b. IsUp \in BOOLEAN /\ IsUp' \in BOOLEAN
  BY DEF IsUp
<1>1. CASE Accept(d) \/ Relaunch(d) \/ \E a \in Apps : ProgramEnds(d, a)
  BY <1>1, QuietSeen DEF Accept, Relaunch, ProgramEnds
<1>2. CASE Unlink(d) \/ Bind(d) \/ Listen(d)
  <2>1. /\ \/ Moves(d, "unlink", "bind") \/ Moves(d, "bind", "listen")
           \/ Moves(d, "bind", "deaf") \/ Moves(d, "listen", "serve")
        /\ UNCHANGED <<known, file>>
    BY <1>2 DEF Unlink, Bind, Listen
  <2>2. /\ IsUp /\ KnownOf = known[d] /\ PhaseOf = "ready"
        /\ IsUp' /\ KnownOf' = known'[d] /\ PhaseOf' = "ready"
    BY <2>1, OneMoves DEF Stage, Shows
  <2> QED BY <1>b, <2>1, <2>2 DEF R!registryVars
<1>3. CASE Answer(d)
  <2>1. Moves(d, "serve", "save") /\ file' = file
    BY <1>3 DEF Answer
  <2>2. /\ IsUp /\ KnownOf = known[d] /\ PhaseOf = "ready"
        /\ IsUp' /\ KnownOf' = known'[d] /\ PhaseOf' = "busy"
    BY <2>1, OneMoves DEF Stage, Shows
  <2>3. \/ known'[d] = known[d]
        \/ \E a \in Apps : known'[d] \in {known[d] \cup {a}, known[d] \ {a}}
    BY <1>3 DEF Answer, Changes, DInv, PerDaemon
  <2> QED BY <1>b, <2>1, <2>2, <2>3 DEF R!RegistryNext, R!Request
<1>4. CASE Truncate(d)
  <2>1. Moves(d, "save", "write") /\ file' = {} /\ known' = known
    BY <1>4 DEF Truncate
  <2>2. /\ IsUp /\ KnownOf = known[d] /\ PhaseOf = "busy"
        /\ IsUp' /\ KnownOf' = known'[d] /\ PhaseOf' = "saving"
    BY <2>1, OneMoves DEF Stage, Shows
  <2> QED BY <1>b, <2>1, <2>2 DEF R!RegistryNext, R!Truncate
<1>5. CASE Save(d)
  <2>1. Moves(d, "write", "serve") /\ file' = known[d] /\ known' = known
    BY <1>5 DEF Save
  <2>2. /\ IsUp /\ KnownOf = known[d] /\ PhaseOf = "saving"
        /\ IsUp' /\ KnownOf' = known'[d] /\ PhaseOf' = "ready"
    BY <2>1, OneMoves DEF Stage, Shows
  <2> QED BY <1>b, <2>1, <2>2 DEF R!RegistryNext, R!Save
\* Only a daemon that clashed with another is deaf.
<1>6. CASE DeafSave(d)
  BY <1>6 DEF DeafSave, DInv, Alone, Up
<1>7. CASE WriteToGone(d) \/ Crash(d) \/ ForkFails(d)
  <2>1. d \in Up /\ \E name : Die(d, name)
    BY <1>7 DEF WriteToGone, Crash, ForkFails, Up
  <2> QED BY <2>1, DieSeen
<1> QED BY <1>1, <1>2, <1>3, <1>4, <1>5, <1>6, <1>7 DEF DaemonStep

\* Each step of the system, while no daemon is in another's way, is a step of the registry
\* or none.
LEMMA RegistrySeen ==
  ASSUME DInv, [Next]_vars, ~clash, ~clash'
  PROVE  [R!RegistryNext]_(R!registryVars)
<1>1. CASE UNCHANGED vars
  BY <1>1, QuietSeen DEF vars, daemonVars
<1>2. CASE Next
  BY <1>2, CommandSeen, DaemonSeen DEF Next
<1> QED BY <1>1, <1>2

-------------------------------------------------------------------------------
(* Theorems *)

\* Whatever dies, hangs up or is queued when, every variable keeps to its values: no
\* command is answered beyond its plan and no queue outgrows its backlog.
THEOREM ServiceTypeCorrect == Spec => []TypeOK
<1>1. TInv => TypeOK
  <2> SUFFICES ASSUME TInv PROVE TypeOK
    OBVIOUS
  <2>1. \A d \in Daemon : \A k \in 1 .. Len(queue[d]) : queue[d][k] \in Client \cup {Gone}
    BY ElementOfSeq DEF TInv, Queues
  <2>2. Commands /\ Lists /\ Queues
    BY DEF TInv
  <2>3. QED BY <2>1, <2>2 DEF Commands, Lists, Queues, TypeOK
<1>2. QED BY InitTyped, StepTyped, <1>1, PTL DEF Spec

\* The inductive invariant holds in every state.
LEMMA DInvariant == Spec => []DInv
<1>1. QED BY InitAlone, StepAlone, PTL DEF Spec

\* As long as none was started or cut off beside another, the daemon that runs is the
\* only one, and every client that connects after it was bound finds it.
THEOREM ReachableCorrect == Spec => []Reachable
<1>1. DInv => Reachable
  BY DEF DInv, Alone, Reachable
<1>2. QED BY <1>1, DInvariant, PTL

\* The registry is the list of that daemon, except between an answer and its save.
THEOREM FileIsListCorrect == Spec => []FileIsList
<1>1. DInv => FileIsList
  BY DEF DInv, Alone, FileIsList
<1>2. QED BY <1>1, DInvariant, PTL

\* The daemons that come and go keep one registry: whatever sockets, queues and commands
\* do, its apps change by one request at a time, and each change is saved before the next.
THEOREM RegistryCorrect == Spec => KeepsRegistry
<1>1. DInv /\ [Next]_vars => [~clash /\ ~clash' => [R!RegistryNext]_(R!registryVars)]_vars
  BY RegistrySeen
<1> QED BY <1>1, DInvariant, PTL DEF Spec, KeepsRegistry

===============================================================================
