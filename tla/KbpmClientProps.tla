----------------------------- MODULE KbpmClientProps -----------------------------
(* What a command may rely on, and what the user may. *)
EXTENDS KbpmClient

CONSTANT Uptimes  \* the ages in seconds a table shows

ASSUME UptimeAssumption == Uptimes \subseteq Nat

\* The command, its connection and its table have their types.
TypeOK ==
  /\ up \in BOOLEAN /\ phase \in {"ready", "busy", "saving"}
  /\ apps \in Seq(App) /\ file \in Seq(App)
  /\ alive \subseteq Apps
  /\ stage \in Stages /\ conn \in Conns
  /\ cmd \in Cmd
  /\ ids \in Seq(Int) /\ Len(ids) = Len(apps)
  /\ boot \in BOOLEAN /\ visit \in Nat /\ skipped \in BOOLEAN
  /\ heir \in BOOLEAN /\ silent \in BOOLEAN
  /\ rows \in Seq(Row) /\ valid \in Seq(Row)
  /\ started \in Apps \cup {NoApp}

\* An id that a table shows is resolved to the app it stands beside: as long as no app
\* with a smaller or the same id was removed, on any terminal, and the daemon did not go
\* down while it wrote the file.  The ids in the list are kept up by the boot loop, by
\* every append and by every removal, and are used as positions (server.c:175,
\* process.c:126, server.c:349).  Two kinds of table are excepted: what the boot loop has
\* not reached shows 0, and once a removal has moved an app past that loop no id of this
\* daemon is promised.
ShownIdHolds ==
  LET known == IF up THEN apps ELSE file IN
  \A k \in DOMAIN valid :
    LET r == valid[k] IN r.id + 1 \in DOMAIN known /\ known[r.id + 1].app = r.app

\* The table a `start` ends with has the app it launched, though it comes from another
\* connection, and maybe from another daemon, than the launch: unless the app was
\* removed in between or the daemon went down before the file had it (client.c:106-113).
StartedIsListed ==
  stage = "print" /\ started # NoApp => \E i \in DOMAIN rows : rows[i].app = started

R == INSTANCE KbpmRegistry WITH known <- Names(apps), file <- Names(file)

\* Seen by the names of its apps, the daemon that answers these commands keeps the same
\* registry as the daemons of KbpmService.
KeepsRegistry == R!RegistrySpec

Units == [s |-> 1, m |-> 60, h |-> 3600, d |-> 86400]

\* When a table is drawn, an app of any age has its uptime read in the largest unit it
\* fills, rounded down (box_drawing.c:87).
UptimeReads ==
  stage = "print" => \A sec \in Uptimes :
    LET read == turn_second(sec)
        in   == Units[read.unit]
    IN  /\ read.n * in <= sec /\ sec < (read.n + 1) * in
        /\ \A u \in DOMAIN Units : Units[u] > in => sec < Units[u]

\* The request whose word was empty: neither side has anything to read.
Wordless == stage = "request" /\ conn = "open" /\ cmd.msg = Empty

\* A command comes to its end, whether the daemon serves it, refuses it, goes down at any
\* point of it, comes back or does not, and however busy other terminals keep it.  There
\* are three ways to wait for ever, and each is a wait in read() (client.c:300,
\* client.c:332, server.c:268, server.c:334): at a socket, or on a connection, that only
\* programs hold; behind a terminal that sends nothing; and with an empty word of its own.
CommandEnds ==
  ([]<>~Stranded /\ []<>~silent /\ []<>~Wordless) => ((stage # "idle") ~> (stage = "idle"))
===============================================================================
