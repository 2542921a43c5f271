------------------------------- MODULE KbpmClient -------------------------------
(***************************************************************************)
(* One terminal on which kbpm commands are typed, in front of the registry *)
(* of KbpmApps, which other terminals use at the same time.                *)
(*                                                                         *)
(* A command is up to four connections: a ping, the request, a second ping *)
(* and the status request whose answer is drawn as a table.  The daemon may*)
(* be gone, or another one, at each of them; what is left of a daemon may  *)
(* be a socket that only its programs hold; and another terminal may keep  *)
(* the daemon waiting.  The ids in a table are those the daemon keeps in   *)
(* its list, which the boot loop hands out while requests are served.      *)
(*                                                                         *)
(* A path is the sequence of its fields, those between two slashes; NoApp  *)
(* is the empty field.  An operator marked [mutant] is used by no action.  *)
(***************************************************************************)
EXTENDS KbpmApps

CONSTANTS
  NoApp,      \* an empty field; no app
  MaxId,      \* the ids a user types are 0 .. MaxId
  MaxFields   \* the fields of a path

ASSUME ClientAssumption ==
  /\ NoApp \notin Apps
  /\ MaxId \in Nat /\ MaxFields \in Nat

VARIABLES
  stage,    \* of the command: which connection, or what is done between them
  conn,     \* the connection of that stage
  cmd,      \* the request: what to do and the message that says to what
  ids,      \* the id of each app in the list
  boot,     \* the boot loop runs ...
  visit,    \* ... and has numbered this many entries
  skipped,  \* history: a removal moved an app past the boot loop of this daemon
  heir,     \* the socket file leads to a socket that only programs hold
  silent,   \* the daemon reads from a terminal that sends nothing
  rows,     \* the table at hand
  valid,    \* history: the rows of the table shown last that nothing has moved since
  started   \* history: the app this command launched, NoApp when it may be gone

commandVars == <<stage, conn, cmd>>
idVars      == <<ids, boot, visit, skipped>>
tableVars   == <<rows, valid, started>>
daemonVars  == <<appsVars, idVars, heir, silent>>
clientVars  == <<commandVars, idVars, heir, silent, tableVars>>

-------------------------------------------------------------------------------
(* What is typed and what is sent *)

TwoPhase == {"start", "stop", "restart", "remove"}
Path     == UNION {[1 .. n -> Apps \cup {NoApp}] : n \in 1 .. MaxFields}

Unknown == [kind |-> "unknown"]
Empty   == [kind |-> "empty"]
Json(a) == [kind |-> "json", app |-> a]
Text    == [kind : {"id"}, id : 0 .. MaxId] \cup [kind : {"name"}, app : Apps]
             \cup {Unknown, Empty}
Message == Text \cup {Json(a) : a \in Apps}

\* A message is kept as long as the daemon may still read it.
Request2(op, m) == [op |-> op, msg |-> m]
NoCmd           == Request2("none", Unknown)
Forgotten       == [cmd EXCEPT !.msg = Unknown]
Cmd             == [op : TwoPhase \cup {"startall", "stopall", "none"}, msg : Message]

Least(k, n) == IF k <= n THEN k ELSE n
Largest(S) == CHOOSE n \in S : \A k \in S : k <= n

\* strtok() answers the fields that are not empty: which ones these are.
\* [mutant]
SplitKeeping(p) == DOMAIN p
str_split(p)    == {k \in DOMAIN p : p[k] # NoApp}

\* The word as it was typed: no app has a slash in its name.
TextOf(p) ==
  IF Len(p) > 1 THEN Unknown
  ELSE IF p[1] = NoApp THEN Empty
  ELSE [kind |-> "name", app |-> p[1]]

\* The program as JSON, which the daemon reads up to 512 bytes of: a longer one does
\* not parse.  The app is named by dst[size - 1]; a path of slashes has size 0, and
\* the bytes before dst are some name, or none and the command crashes.
Programs(p) ==
  LET dst == str_split(p) IN
  {Unknown} \cup IF dst = {} THEN {Json(a) : a \in Apps} ELSE {Json(p[Largest(dst)])}

\* access(F_OK) fails: a word; then access(X_OK) succeeds: a program.  `start <id>` is
\* typed where there is no file of that name.
StartMessages ==
  {m \in Text : m.kind = "id"} \cup {TextOf(p) : p \in Path}
    \cup UNION {Programs(p) : p \in Path \ {<<NoApp>>}}

-------------------------------------------------------------------------------
(* The table *)

\* [mutant] the unit above starts too late
TurnSecondLate(sec) ==
  CASE sec < 60        -> [n |-> sec, unit |-> "s"]
    [] sec < 60 * 60   -> [n |-> sec \div 60, unit |-> "m"]
    [] sec < 3600 * 60 -> [n |-> sec \div 3600, unit |-> "h"]
    [] OTHER           -> [n |-> sec \div 86400, unit |-> "d"]
turn_second(sec) ==
  CASE sec < 60           -> [n |-> sec, unit |-> "s"]
    [] sec < 60 * 60      -> [n |-> sec \div 60, unit |-> "m"]
    [] sec < 60 * 60 * 24 -> [n |-> (sec \div 60) \div 60, unit |-> "h"]
    [] OTHER              -> [n |-> ((sec \div 60) \div 60) \div 24, unit |-> "d"]

\* What the status answer says, in the order of the list.
\* [mutant] the pointer stays at the first entry
RowsOfFirst(l, n) == [i \in DOMAIN l |-> [app |-> l[1].app, id |-> n[1]]]
RowsOf(l, n)      == [i \in DOMAIN l |-> [app |-> l[i].app, id |-> n[i]]]

Row == [app : Apps, id : Int]

-------------------------------------------------------------------------------
(* The command *)

Stages == {"idle", "ping", "prepare", "request", "ping2", "status", "print"}
Conns  == {"none", "queued", "open", "served", "stuck", "hung", "lost", "cut"}

To(s) == stage' = s /\ conn' = "none"

\* `kbpm status` starts with the second ping.
Issue ==
  /\ stage = "idle"
  /\ To("ping") \/ To("ping2")
  /\ UNCHANGED <<daemonVars, cmd, tableVars>>

\* Not executable, or crashed: no request.
Prepare ==
  /\ stage = "prepare"
  /\ \/ /\ \/ \E m \in StartMessages : cmd' = Request2("start", m)
           \/ \E op \in TwoPhase \ {"start"}, m \in Text : cmd' = Request2(op, m)
           \/ \E op \in {"startall", "stopall"} : cmd' = Request2(op, Unknown)
        /\ To("request")
     \/ To("idle") /\ UNCHANGED cmd
  /\ UNCHANGED <<daemonVars, tableVars>>

End == To("idle") /\ cmd' = NoCmd /\ started' = NoApp /\ rows' = <<>>

Connecting == stage \in {"ping", "request", "ping2", "status"} /\ conn = "none"

\* connect() succeeds as long as somebody holds the socket: the daemon, or one of the
\* programs that were forked with it and outlived it; these never accept.
Connect ==
  /\ Connecting
  /\ \/ up /\ conn' = "queued" /\ UNCHANGED cmd
     \/ heir /\ conn' = "stuck" /\ cmd' = Forgotten
  /\ UNCHANGED <<daemonVars, stage, tableVars>>

\* "Server is not online", or "Server error occur".
Refuse ==
  /\ Connecting /\ ~up /\ ~heir
  /\ End
  /\ UNCHANGED <<daemonVars, valid>>

\* The daemon takes the connection when the request before it is saved, and reads the
\* command; it answers "pong" to one that has an argument.
Accept ==
  /\ conn = "queued" /\ up /\ phase = "ready" /\ ~silent
  /\ conn' = "open"
  /\ UNCHANGED <<daemonVars, stage, cmd, tableVars>>

-------------------------------------------------------------------------------
(* What the daemon does for it *)

Serving(op) == stage = "request" /\ conn = "open" /\ cmd.op = op
Served      == conn' = "served" /\ cmd' = Forgotten /\ UNCHANGED <<stage, heir, silent, rows>>
AsShown     == UNCHANGED <<idVars, valid, started>>

\* A new app has its position as id.
Appended == ids' = Append(ids, Len(ids)) /\ UNCHANGED <<boot, visit, skipped>>

\* [mutant] the entries move and keep their ids
IdsKept(n, i)    == Without(n, i)
IdsWithout(n, i) == [k \in 1 .. Len(n) - 1 |-> IF k < i THEN n[k] ELSE n[k + 1] - 1]

\* Removing position i moves every row behind it, and takes one off its id.  The boot
\* loop passes over an entry that moves to where it has already been.
Moves(i) ==
  /\ ids' = IdsWithout(ids, i)
  /\ skipped' = (skipped \/ (boot /\ i <= visit /\ visit < Len(apps)))
  /\ valid' = SubSeq(valid, 1, Least(i - 1, Len(valid)))
  /\ started' = IF apps[i].app = started THEN NoApp ELSE started
  /\ UNCHANGED <<boot, visit>>

\* The id, then the name.  The word "" is not sent at all: write() of no bytes.
Meant ==
  {i \in DOMAIN apps :
     \/ cmd.msg.kind = "id" /\ i = cmd.msg.id + 1
     \/ cmd.msg.kind = "name" /\ apps[i].app = cmd.msg.app}

Refused ==
  \/ cmd.msg.kind = "json" /\ cmd.msg.app \in Names(apps)
  \/ cmd.msg.kind \notin {"json", "empty"} /\ Meant = {}
  \/ \E i \in Meant : \/ cmd.op = "start" /\ apps[i].run
                      \/ cmd.op \in {"stop", "restart"} /\ ~apps[i].run

ServeStart ==
  /\ Serving("start") /\ Served /\ UNCHANGED valid
  /\ \/ \E i \in Meant : Start(i) /\ started' = apps[i].app /\ UNCHANGED idVars
     \/ /\ cmd.msg.kind = "json"
        /\ Add(cmd.msg.app) /\ started' = cmd.msg.app /\ Appended

ServeStop    == Serving("stop") /\ Served /\ AsShown /\ \E i \in Meant : Stop(i)
ServeRestart == Serving("restart") /\ Served /\ AsShown /\ \E i \in Meant : Restart(i)
ServeRemove  == Serving("remove") /\ Served /\ \E i \in Meant : Remove(i) /\ Moves(i)

\* The loops over the list, in its order; then they answer.
ServeAll ==
  /\ \E i \in DOMAIN apps :
       \/ /\ Serving("startall") /\ Start(i)
          /\ \A j \in 1 .. i - 1 : apps[j].run
       \/ /\ Serving("stopall") /\ Stop(i)
          /\ \A j \in 1 .. i - 1 : ~apps[j].run
  /\ UNCHANGED clientVars

ServeNothing ==
  /\ \/ stage \in {"ping", "ping2", "status"} /\ conn = "open"
     \/ Serving("startall") /\ \A i \in DOMAIN apps : apps[i].run
     \/ Serving("stopall") /\ \A i \in DOMAIN apps : ~apps[i].run
     \/ \E op \in TwoPhase : Serving(op) /\ Refused
  /\ Serve /\ Served /\ AsShown

\* The answer is written, and read whatever happens to the daemon next.
Answered(s, t) == stage = s /\ conn = "served" /\ To(t)

AnswerPing ==
  /\ Answered("ping", "prepare") \/ Answered("ping2", "status")
  /\ UNCHANGED <<daemonVars, cmd, tableVars>>

AnswerRequest ==
  /\ Answered("request", "ping2")
  /\ cmd' = NoCmd
  /\ UNCHANGED <<daemonVars, tableVars>>

\* The entries at the front that have their ids: those the boot loop has been at, and
\* all when it is through; after a removal that raced it none is sure.
Numbered == IF skipped THEN 0 ELSE IF boot THEN Least(visit, Len(apps)) ELSE Len(apps)

AnswerStatus ==
  /\ Answered("status", "print")
  /\ rows' = RowsOf(apps, ids)
  /\ valid' = SubSeq(rows', 1, Numbered)
  /\ UNCHANGED <<daemonVars, cmd, started>>

DrawTable ==
  /\ stage = "print"
  /\ End
  /\ UNCHANGED <<daemonVars, valid>>

-------------------------------------------------------------------------------
(* The daemon goes away, or the command does *)

\* What a connection becomes when the daemon ends and `left` says that programs with
\* its listening socket outlive it.  One that is queued at that socket stays; so may one
\* that was accepted, as a program forked since then has it too; all others are closed.
\* [mutant]
NeverBroken(c, left) == {c}
Broken(c, left) ==
  CASE c = "queued"             -> {IF left THEN "stuck" ELSE "lost"}
    [] c \in {"open", "served"} -> {"cut"} \cup (IF left THEN {"hung"} ELSE {})
    [] OTHER                    -> {c}

\* A daemon whose fork() failed removes the socket file.  A table may name what only a
\* file that is being written now would bring back; what a command launched may not be
\* in the file yet.
DaemonDown ==
  /\ Down
  /\ \E left \in BOOLEAN : conn' \in Broken(conn, left) /\ heir' \in {FALSE, left}
  /\ ids' = <<>> /\ boot' = FALSE /\ visit' = 0 /\ skipped' = FALSE
  /\ silent' = FALSE
  /\ valid' = IF phase = "saving" THEN <<>> ELSE valid
  /\ started' = IF phase = "ready" THEN started ELSE NoApp
  /\ cmd' = IF conn = "none" THEN cmd ELSE Forgotten
  /\ UNCHANGED <<stage, rows>>

Stranded == conn \in {"stuck", "hung"}

\* The last programs with the socket of a daemon that ended are gone, or the socket file
\* is; the file may lead to another socket by now than the one the command waits at.
HeirsEnd ==
  /\ heir \/ Stranded
  /\ heir' \in {FALSE, heir}
  /\ conn' \in {conn} \cup (IF conn = "stuck" THEN {"lost"} ELSE IF conn = "hung" THEN {"cut"} ELSE {})
  /\ UNCHANGED <<appsVars, idVars, silent, stage, cmd, tableVars>>

\* The result of read() is not looked at.  The buffer of a ping does not say "pong";
\* that of a request with an argument still says so after its "pong", and is printed;
\* that of `startall` and `stopall` is printed whatever it holds.
EndOfFile ==
  /\ conn \in {"lost", "cut"}
  /\ IF stage = "request" /\ (conn = "cut" \/ cmd.op \notin TwoPhase)
     THEN /\ To("ping2")
          /\ cmd' = NoCmd
          /\ UNCHANGED <<started, rows>>
     ELSE End
  /\ UNCHANGED <<daemonVars, valid>>

\* The user interrupts it.  What the daemon then makes of its connection is what it
\* may do for others: without an argument it takes the app with id 0.
Interrupt ==
  /\ stage # "idle"
  /\ End
  /\ UNCHANGED <<daemonVars, valid>>

-------------------------------------------------------------------------------
(* The other terminals *)

OwnRequest == conn \in {"open", "served"}

OthersNext ==
  /\ ~OwnRequest /\ ~silent
  /\ UNCHANGED <<commandVars, heir, silent, rows>>
  /\ \/ Serve /\ AsShown
     \/ \E a \in Apps : Add(a) /\ Appended /\ UNCHANGED <<valid, started>>
     \/ \E i \in DOMAIN apps : \/ (Start(i) \/ Stop(i) \/ Restart(i)) /\ AsShown
                               \/ Remove(i) /\ Moves(i)

\* The daemon has accepted a terminal that does not send what it reads next, mutex in
\* hand, until that terminal sends it or ends.
Silence ==
  /\ \/ ~silent /\ up /\ phase = "ready" /\ ~OwnRequest
     \/ silent
  /\ silent' = ~silent
  /\ UNCHANGED <<appsVars, commandVars, idVars, heir, tableVars>>

-------------------------------------------------------------------------------
(* The daemon *)

\* The list comes from the file, which has no ids.  `service start` waits, too, at a
\* socket that only programs hold.
DaemonUp ==
  /\ Boot /\ ~heir
  /\ ids' = [i \in DOMAIN file |-> 0]
  /\ boot' = TRUE /\ visit' = 0 /\ skipped' = FALSE
  /\ UNCHANGED <<commandVars, heir, silent, tableVars>>

\* The boot loop hands out the ids, without the mutex.
BootVisit ==
  /\ boot
  /\ IF visit < Len(apps)
     THEN /\ ids' = [ids EXCEPT ![visit + 1] = visit]
          /\ visit' = visit + 1
          /\ UNCHANGED boot
     ELSE boot' = FALSE /\ visit' = 0 /\ UNCHANGED ids
  /\ UNCHANGED <<appsVars, commandVars, skipped, heir, silent, tableVars>>

\* The supervisor, which follows the boot loop, gives up under the mutex.
DaemonNext ==
  \/ DaemonUp \/ BootVisit
  \/ /\ UNCHANGED clientVars
     /\ \/ Save
        \/ Truncate /\ ~OwnRequest
        \/ \E a \in alive : Ends(a)
        \/ \E i \in DOMAIN apps :
             Relaunch(i) \/ (GiveUp(i) /\ ~OwnRequest /\ ~silent /\ ~boot)

-------------------------------------------------------------------------------
(* Specification *)

Init ==
  /\ AppsInit
  /\ stage = "idle" /\ conn = "none" /\ cmd = NoCmd
  /\ ids = <<>> /\ boot = FALSE /\ visit = 0 /\ skipped = FALSE
  /\ heir = FALSE /\ silent = FALSE
  /\ rows = <<>> /\ valid = <<>> /\ started = NoApp

ServeNext == \/ ServeStart \/ ServeStop \/ ServeRestart \/ ServeRemove
             \/ ServeAll \/ ServeNothing

CommandNext == \/ Prepare \/ Connect \/ Refuse \/ AnswerPing \/ AnswerRequest
               \/ AnswerStatus \/ DrawTable \/ EndOfFile

vars == <<appsVars, clientVars>>

Next == \/ Issue \/ CommandNext \/ Accept \/ ServeNext
        \/ DaemonDown \/ HeirsEnd \/ Interrupt
        \/ OthersNext \/ Silence \/ DaemonNext

Spec == Init /\ [][Next]_vars

\* The command does what it can, and so does the daemon; connections are taken in the
\* order in which they came, so one that waits is taken.
FairSpec ==
  /\ Spec
  /\ WF_vars(CommandNext) /\ WF_vars(ServeNext) /\ SF_vars(Accept)
  /\ WF_vars(Truncate /\ ~OwnRequest /\ UNCHANGED clientVars)
  /\ WF_vars(Save /\ UNCHANGED clientVars)

===============================================================================
