---------------------------- MODULE KbpmClientProofs ----------------------------
(***************************************************************************)
(* Theorems about KbpmClient, for every set of apps, every bound on ids and*)
(* fields and every set of uptimes.                                        *)
(*                                                                         *)
(* The invariants about the last table are not inductive: a restart brings *)
(* the file back, so the file has to keep the rows too, and a table that is*)
(* being answered has to agree with the file before it counts.  And the ids*)
(* in the list have to be positions as far as the boot loop has come.      *)
(***************************************************************************)
EXTENDS KbpmClientProps, SequenceTheorems, WellFoundedInduction, TLAPS

-------------------------------------------------------------------------------
(* Pure functions *)

LEMMA MapSeq ==
  ASSUME NEW S, NEW n \in Nat, NEW f \in [1 .. n -> S]
  PROVE  f \in Seq(S) /\ Len(f) = n /\ DOMAIN f = 1 .. n
OBVIOUS

LEMMA LargestLemma ==
  ASSUME NEW n \in Nat, NEW S \in SUBSET (0 .. n), S # {}
  PROVE  Largest(S) \in S /\ \A k \in S : k <= Largest(S)
<1> DEFINE T == {m \in Nat : n - m \in S}
           Less == OpToRel(<, Nat)
<1>1. T \subseteq Nat /\ T # {}
  <2>1. PICK k \in S : TRUE
    OBVIOUS
  <2>2. n - k \in T
    BY <2>1
  <2>3. QED BY <2>2
<1>2. PICK x \in T : \A y \in T : ~ (<<y, x>> \in Less)
  <2> HIDE DEF T
  <2>1. QED BY <1>1, NatLessThanWellFounded, WFMin
<1>3. \A y \in T : ~ (y < x)
  BY <1>2 DEF OpToRel
<1>4. n - x \in S /\ \A k \in S : k <= n - x
  <2>1. ASSUME NEW k \in S PROVE k <= n - x
    <3>1. n - k \in T
      OBVIOUS
    <3>2. QED BY <3>1, <1>3
  <2>2. QED BY <2>1
<1>5. QED BY <1>4 DEF Largest

\* A path with a field that is not empty is named by the last one.
LEMMA LastField ==
  ASSUME NEW p \in Path, NEW k \in DOMAIN p, p[k] # NoApp
  PROVE  /\ str_split(p) # {}
         /\ Largest(str_split(p)) \in DOMAIN p
         /\ p[Largest(str_split(p))] \in Apps
         /\ \A j \in Largest(str_split(p)) + 1 .. Len(p) : p[j] = NoApp
<1>1. PICK n \in 1 .. MaxFields : p \in [1 .. n -> Apps \cup {NoApp}]
  BY DEF Path
<1>2. n \in Nat /\ Len(p) = n /\ DOMAIN p = 1 .. n
  BY <1>1, ClientAssumption
<1>3. k \in str_split(p) /\ str_split(p) \subseteq 1 .. n
  BY <1>2 DEF str_split
<1>4. str_split(p) \in SUBSET (0 .. n) /\ str_split(p) # {}
  BY <1>2, <1>3
<1> DEFINE m == Largest(str_split(p))
<1>5. m \in str_split(p) /\ \A j \in str_split(p) : j <= m
  BY <1>2, <1>4, LargestLemma
<1>6. m \in 1 .. n /\ p[m] \in Apps
  BY <1>1, <1>2, <1>5 DEF str_split
<1>7. ASSUME NEW j \in m + 1 .. Len(p) PROVE p[j] = NoApp
  <2>1. j \in DOMAIN p /\ ~ (j <= m)
    BY <1>2, <1>6
  <2>2. j \notin str_split(p)
    BY <1>5, <2>1
  <2>3. QED BY <2>1, <2>2 DEF str_split
<1>8. QED BY <1>2, <1>4, <1>6, <1>7

LEMMA ProgramsType == ASSUME NEW p \in Path PROVE Programs(p) \subseteq Message
<1>1. CASE str_split(p) = {}
  BY <1>1 DEF Programs, Message, Text
<1>2. CASE str_split(p) # {}
  <2>1. PICK k \in DOMAIN p : p[k] # NoApp
    BY <1>2 DEF str_split
  <2>2. QED BY <1>2, <2>1, LastField DEF Programs, Message, Text
<1>3. QED BY <1>1, <1>2

LEMMA StartMessagesType == StartMessages \subseteq Message
<1>1. ASSUME NEW p \in Path PROVE TextOf(p) \in Message
  <2>1. PICK n \in 1 .. MaxFields : p \in [1 .. n -> Apps \cup {NoApp}]
    BY DEF Path
  <2>2. n \in Nat /\ Len(p) = n /\ n >= 1
    BY <2>1, ClientAssumption
  <2>3. p[1] \in Apps \cup {NoApp}
    BY <2>1, <2>2
  <2>4. QED BY <2>2, <2>3 DEF TextOf, Message, Text
<1>2. QED BY <1>1, ProgramsType DEF StartMessages, Message

\* What is shown of an age is its largest unit, rounded down, for every age.
LEMMA Uptime ==
  ASSUME NEW sec \in Nat
  PROVE  LET read == turn_second(sec)
             in   == Units[read.unit]
         IN  /\ read.n * in <= sec /\ sec < (read.n + 1) * in
             /\ \A u \in DOMAIN Units : Units[u] > in => sec < Units[u]
<1>1. CASE sec < 60
  BY <1>1 DEF turn_second, Units
<1>2. CASE sec >= 60 /\ sec < 3600
  BY <1>2 DEF turn_second, Units
<1>3. CASE sec >= 3600 /\ sec < 86400
  BY <1>3 DEF turn_second, Units
<1>4. CASE sec >= 86400
  BY <1>4 DEF turn_second, Units
<1>5. QED BY <1>1, <1>2, <1>3, <1>4

\* A beginning of a sequence, of a given length.
LEMMA Beginning ==
  ASSUME NEW S, NEW l \in Seq(S), NEW n \in 0 .. Len(l)
  PROVE  /\ SubSeq(l, 1, n) \in Seq(S) /\ Len(SubSeq(l, 1, n)) = n
         /\ \A k \in 1 .. n : SubSeq(l, 1, n)[k] = l[k]
<1>1. \A k \in 1 .. n : l[k] \in S
  OBVIOUS
<1>2. QED BY <1>1, SubSeqProperties

-------------------------------------------------------------------------------
(* The registry *)

\* The list l2 has the apps of l at the same places.
Alike(l, l2) == Len(l2) = Len(l) /\ \A k \in 1 .. Len(l) : l2[k].app = l[k].app

RegistryOK ==
  /\ apps \in Seq(App)
  /\ file \in Seq(App)
  /\ alive \subseteq Apps

LEMMA AppType == ASSUME NEW l \in Seq(App), NEW i \in DOMAIN l
                 PROVE  /\ l[i] \in App /\ l[i].app \in Apps /\ l[i].run \in BOOLEAN
                        /\ Len(l) \in Nat /\ DOMAIN l = 1 .. Len(l) /\ i \in 1 .. Len(l)
<1>1. DOMAIN l = 1 .. Len(l) /\ Len(l) \in Nat
  OBVIOUS
<1>2. l[i] \in App
  BY <1>1
<1>3. QED BY <1>1, <1>2 DEF App

LEMMA AddLemma ==
  ASSUME RegistryOK, NEW a \in Apps, Add(a)
  PROVE  /\ RegistryOK'
         /\ Len(apps') = Len(apps) + 1
         /\ \A k \in 1 .. Len(apps) : apps'[k] = apps[k]
         /\ apps'[Len(apps) + 1].app = a
<1>1. [app |-> a, run |-> TRUE] \in App
  BY DEF App
<1>2. QED BY <1>1, AppendProperties DEF Add, NewRequest, Request, RegistryOK

\* Marking an entry, and an action on programs, moves nothing.
LEMMA MarkLemma ==
  ASSUME RegistryOK, NEW i \in DOMAIN apps,
         Start(i) \/ Stop(i) \/ Restart(i) \/ GiveUp(i) \/ Relaunch(i)
  PROVE  RegistryOK' /\ Alike(apps, apps') /\ file' = file /\ up' = up
<1>1. apps[i] \in App /\ apps[i].app \in Apps /\ DOMAIN apps = 1 .. Len(apps) /\ Len(apps) \in Nat
  BY AppType DEF RegistryOK
<1>2. ASSUME NEW b \in BOOLEAN
      PROVE  LET l == [apps EXCEPT ![i].run = b] IN l \in Seq(App) /\ Alike(apps, l)
  <2>1. [apps[i] EXCEPT !.run = b] \in App /\ [apps[i] EXCEPT !.run = b].app = apps[i].app
    BY <1>1 DEF App
  <2>2. QED BY <1>1, <2>1, ExceptSeq DEF Alike, RegistryOK
<1>3. Alike(apps, apps)
  BY DEF Alike
<1>4. file' = file /\ up' = up /\ alive' \subseteq Apps
  BY <1>1 DEF Start, Stop, Restart, GiveUp, Relaunch, NewRequest, Request, RegistryOK
<1>5. apps' \in Seq(App) /\ Alike(apps, apps')
  <2>1. \/ apps' = [apps EXCEPT ![i].run = TRUE]
        \/ apps' = [apps EXCEPT ![i].run = FALSE]
        \/ apps' = apps
    BY DEF Start, Stop, Restart, GiveUp, Relaunch
  <2>2. QED BY <1>2, <1>3, <2>1 DEF RegistryOK
<1>6. QED BY <1>4, <1>5 DEF RegistryOK

LEMMA RemoveLemma ==
  ASSUME RegistryOK, NEW i \in DOMAIN apps, Remove(i)
  PROVE  /\ RegistryOK' /\ i \in 1 .. Len(apps) /\ Len(apps) \in Nat
         /\ Len(apps') = Len(apps) - 1
         /\ \A k \in 1 .. Len(apps) - 1 :
              apps'[k] = IF k < i THEN apps[k] ELSE apps[k + 1]
<1>1. i \in 1 .. Len(apps) /\ Len(apps) \in Nat /\ \A k \in 1 .. Len(apps) : apps[k] \in App
  BY AppType DEF RegistryOK
<1>2. Without(apps, i) \in [1 .. Len(apps) - 1 -> App]
  BY <1>1 DEF Without
<1>3. Without(apps, i) \in Seq(App) /\ Len(Without(apps, i)) = Len(apps) - 1
  BY <1>1, <1>2, MapSeq
<1>4. QED BY <1>1, <1>3 DEF Remove, NewRequest, Request, RegistryOK, Without

-------------------------------------------------------------------------------
(* The invariant *)

\* The daemon serves one request at a time, and what it serves it has saved before; a
\* status answer, too, agrees with the file.
Steady ==
  /\ ~up => phase = "ready"
  /\ OwnRequest => up /\ phase # "saving"
  /\ conn = "open" /\ stage # "request" => phase = "ready"
  /\ up /\ (phase = "ready" \/ (stage = "status" /\ conn = "served")) => Alike(apps, file)

\* The valid rows have their positions as ids, and the list l still has them there.
Keeps(l) ==
  /\ Len(valid) <= Len(l)
  /\ \A k \in 1 .. Len(valid) : valid[k].id = k - 1 /\ l[k].app = valid[k].app
RowsHold == /\ up => Keeps(apps)
            /\ phase # "saving" => Keeps(file)

Has(l)      == \E k \in 1 .. Len(l) : l[k].app = started
LaunchHolds == /\ started # NoApp => Has(IF up THEN apps ELSE file)
               /\ StartedIsListed

\* As far as the boot loop has come, ids are positions.
IdsRight == \A k \in 1 .. Numbered : ids[k] = k - 1

ClientInv == TypeOK /\ Steady /\ RowsHold /\ LaunchHolds /\ IdsRight

LEMMA TypeFacts ==
  ASSUME TypeOK
  PROVE  /\ RegistryOK
         /\ Len(apps) \in Nat /\ DOMAIN apps = 1 .. Len(apps)
         /\ Len(file) \in Nat /\ DOMAIN file = 1 .. Len(file)
         /\ Len(valid) \in Nat
         /\ Len(ids) = Len(apps) /\ DOMAIN ids = 1 .. Len(apps)
         /\ Numbered \in 0 .. Len(apps)
BY DEF TypeOK, RegistryOK, Numbered, Least

\* Who leaves the ids and the length of the list alone leaves them right.
LEMMA IdsKeptRight ==
  ASSUME ClientInv, UNCHANGED idVars, Len(apps') = Len(apps)
  PROVE  IdsRight'
BY DEF ClientInv, IdsRight, Numbered, Least, idVars

LEMMA NoCmdType == NoCmd \in Cmd
BY DEF NoCmd, Request2, Cmd, Message, Text

\* What is left of a request when nobody reads its message any more.
LEMMA ForgottenType == TypeOK => Forgotten \in Cmd
BY DEF TypeOK, Forgotten, Cmd, Message, Text

\* A step of the command alone: nothing but its connection and what it was about.
LEMMA CommandStep ==
  ASSUME ClientInv, UNCHANGED <<daemonVars, valid>>, started' \in {started, NoApp},
         stage' # "print", conn' # "served",
         conn' = "open" => up /\ phase = "ready"
  PROVE  Steady' /\ RowsHold' /\ LaunchHolds' /\ IdsRight'
<1>1. UNCHANGED <<up, apps, file, phase, idVars>>
  BY DEF daemonVars, appsVars
<1>2. Steady'
  BY <1>1 DEF ClientInv, Steady, OwnRequest, Alike
<1>3. RowsHold'
  BY <1>1 DEF ClientInv, RowsHold, Keeps
<1>4. LaunchHolds'
  BY <1>1 DEF ClientInv, LaunchHolds, Has, StartedIsListed
<1>5. IdsRight'
  BY <1>1, IdsKeptRight
<1>6. QED BY <1>2, <1>3, <1>4, <1>5

LEMMA EndStep ==
  ASSUME ClientInv, End, UNCHANGED <<daemonVars, valid>>
  PROVE  ClientInv'
<1>1. stage' = "idle" /\ conn' = "none" /\ cmd' = NoCmd /\ started' = NoApp /\ rows' = <<>>
  BY DEF End, To
<1>2. TypeOK'
  BY <1>1, NoCmdType DEF ClientInv, TypeOK, daemonVars, appsVars, idVars, Stages, Conns
<1>3. Steady' /\ RowsHold' /\ LaunchHolds' /\ IdsRight'
  BY <1>1, CommandStep
<1>4. QED BY <1>2, <1>3 DEF ClientInv

LEMMA InitClient == Init => ClientInv
<1> SUFFICES ASSUME Init PROVE ClientInv
  OBVIOUS
<1>1. TypeOK
  <2>1. <<>> \in Seq(App) /\ <<>> \in Seq(Int) /\ <<>> \in Seq(Row)
    OBVIOUS
  <2>2. QED BY <2>1, NoCmdType DEF Init, AppsInit, TypeOK, Stages, Conns
<1>2. Steady /\ RowsHold /\ LaunchHolds /\ IdsRight
  BY DEF Init, AppsInit, Steady, OwnRequest, RowsHold, Keeps, LaunchHolds, StartedIsListed,
     IdsRight, Numbered
<1>3. QED BY <1>1, <1>2 DEF ClientInv

LEMMA IssueClient == ClientInv /\ Issue => ClientInv'
<1> SUFFICES ASSUME ClientInv, Issue PROVE ClientInv'
  OBVIOUS
<1>1. TypeOK'
  BY DEF ClientInv, Issue, To, TypeOK, daemonVars, appsVars, idVars, tableVars, Stages, Conns
<1>2. Steady' /\ RowsHold' /\ LaunchHolds' /\ IdsRight'
  BY CommandStep DEF Issue, To, tableVars
<1>3. QED BY <1>1, <1>2 DEF ClientInv

LEMMA PrepareClient == ClientInv /\ Prepare => ClientInv'
<1> SUFFICES ASSUME ClientInv, Prepare PROVE ClientInv'
  OBVIOUS
<1>1. cmd' \in Cmd
  <2>1. Text \subseteq Message /\ Unknown \in Message /\ cmd \in Cmd
    BY DEF Message, Text, ClientInv, TypeOK
  <2>2. QED BY <2>1, StartMessagesType DEF Prepare, Request2, Cmd, TwoPhase
<1>2. TypeOK'
  BY <1>1 DEF ClientInv, Prepare, To, TypeOK, daemonVars, appsVars, idVars, tableVars, Stages, Conns
<1>3. Steady' /\ RowsHold' /\ LaunchHolds' /\ IdsRight'
  BY CommandStep DEF Prepare, To, tableVars
<1>4. QED BY <1>2, <1>3 DEF ClientInv

LEMMA ConnectClient == ClientInv /\ (Connect \/ Accept) => ClientInv'
<1> SUFFICES ASSUME ClientInv, Connect \/ Accept PROVE ClientInv'
  OBVIOUS
<1>1. /\ UNCHANGED <<daemonVars, stage, tableVars>> /\ conn' \in {"queued", "open", "stuck"}
      /\ cmd' \in {cmd, Forgotten}
      /\ conn \in {"none", "queued"}
      /\ conn' = "open" => up /\ phase = "ready"
  BY DEF Connect, Connecting, Accept
<1>2. UNCHANGED <<up, apps, alive, file, phase, idVars, heir, silent, rows, valid, started>>
  BY <1>1 DEF daemonVars, appsVars, tableVars
<1>3. TypeOK'
  BY <1>1, <1>2, ForgottenType DEF ClientInv, TypeOK, idVars, Conns
<1>4. Steady'
  BY <1>1, <1>2 DEF ClientInv, Steady, OwnRequest, Alike
<1>5. RowsHold'
  BY <1>2 DEF ClientInv, RowsHold, Keeps
<1>6. LaunchHolds'
  BY <1>1, <1>2 DEF ClientInv, LaunchHolds, Has, StartedIsListed
<1>7. IdsRight'
  BY <1>2, IdsKeptRight
<1>8. QED BY <1>3, <1>4, <1>5, <1>6, <1>7 DEF ClientInv

LEMMA AnswerClient == ClientInv /\ (AnswerPing \/ AnswerRequest) => ClientInv'
<1> SUFFICES ASSUME ClientInv, AnswerPing \/ AnswerRequest PROVE ClientInv'
  OBVIOUS
<1>1. TypeOK'
  BY NoCmdType DEF ClientInv, AnswerPing, AnswerRequest, Answered, To, TypeOK,
     daemonVars, appsVars, idVars, tableVars, Stages, Conns
<1>2. Steady' /\ RowsHold' /\ LaunchHolds' /\ IdsRight'
  BY CommandStep DEF AnswerPing, AnswerRequest, Answered, To, tableVars
<1>3. QED BY <1>1, <1>2 DEF ClientInv

LEMMA EndClient ==
  ClientInv /\ (Refuse \/ DrawTable \/ EndOfFile \/ Interrupt) => ClientInv'
<1> SUFFICES ASSUME ClientInv, Refuse \/ DrawTable \/ EndOfFile \/ Interrupt PROVE ClientInv'
  OBVIOUS
<1>1. CASE End /\ UNCHANGED <<daemonVars, valid>>
  BY <1>1, EndStep
<1>2. CASE /\ To("ping2") /\ cmd' = NoCmd /\ UNCHANGED <<started, rows>>
           /\ UNCHANGED <<daemonVars, valid>>
  <2>1. TypeOK'
    BY <1>2, NoCmdType DEF ClientInv, To, TypeOK, daemonVars, appsVars, idVars, Stages, Conns
  <2>2. Steady' /\ RowsHold' /\ LaunchHolds' /\ IdsRight'
    BY <1>2, CommandStep DEF To
  <2>3. QED BY <2>1, <2>2 DEF ClientInv
<1>3. QED BY <1>1, <1>2 DEF Refuse, DrawTable, EndOfFile, Interrupt

\* The rows are the list, which the file agrees with; those the boot loop has come to
\* have their positions as ids.
LEMMA AnswerStatusClient == ClientInv /\ AnswerStatus => ClientInv'
<1> SUFFICES ASSUME ClientInv, AnswerStatus PROVE ClientInv'
  OBVIOUS
<1>1. /\ stage = "status" /\ conn = "served" /\ stage' = "print" /\ conn' = "none"
      /\ UNCHANGED <<up, apps, alive, file, phase, ids, boot, visit, skipped, heir, silent, cmd, started>>
  BY DEF AnswerStatus, Answered, To, daemonVars, appsVars, idVars
<1>2. /\ Len(apps) \in Nat /\ DOMAIN apps = 1 .. Len(apps)
      /\ \A k \in 1 .. Len(apps) : apps[k] \in App /\ ids[k] \in Int
      /\ Numbered \in 0 .. Len(apps)
  BY TypeFacts, AppType DEF ClientInv, TypeOK
<1>3. rows' = [i \in 1 .. Len(apps) |-> [app |-> apps[i].app, id |-> ids[i]]]
  BY <1>2 DEF AnswerStatus, RowsOf
<1>4. rows' \in [1 .. Len(apps) -> Row]
  BY <1>2, <1>3 DEF App, Row
<1>5. rows' \in Seq(Row) /\ Len(rows') = Len(apps) /\ DOMAIN rows' = 1 .. Len(apps)
  BY <1>2, <1>4, MapSeq
<1>6. \A k \in 1 .. Len(apps) : rows'[k].app = apps[k].app /\ rows'[k].id = ids[k]
  BY <1>3
<1>7. valid' = SubSeq(rows', 1, Numbered)
  BY DEF AnswerStatus
<1>8. /\ valid' \in Seq(Row) /\ Len(valid') = Numbered
      /\ \A k \in 1 .. Numbered : valid'[k] = rows'[k]
  BY <1>2, <1>5, <1>7, Beginning
<1>9. TypeOK'
  BY <1>1, <1>5, <1>8 DEF ClientInv, TypeOK, Stages, Conns
<1>10. up /\ phase # "saving" /\ Alike(apps, file)
  BY <1>1 DEF ClientInv, Steady, OwnRequest
<1>11. Steady'
  BY <1>1, <1>10 DEF ClientInv, Steady, OwnRequest, Alike
<1>12. RowsHold'
  <2>1. \A k \in 1 .. Numbered :
          /\ valid'[k].id = k - 1 /\ valid'[k].app = apps[k].app
          /\ file[k].app = apps[k].app
    BY <1>2, <1>6, <1>8, <1>10 DEF ClientInv, IdsRight, Alike
  <2>2. QED BY <1>1, <1>2, <1>8, <1>10, <2>1 DEF RowsHold, Keeps, Alike
<1>13. LaunchHolds'
  BY <1>1, <1>5, <1>6, <1>10 DEF ClientInv, LaunchHolds, Has, StartedIsListed
<1>14. IdsRight'
  BY <1>1, IdsKeptRight DEF idVars
<1>15. QED BY <1>9, <1>11, <1>12, <1>13, <1>14 DEF ClientInv

-------------------------------------------------------------------------------
(* Steps of the registry *)

\* An action on the entries of the list, or on programs, that moves none.
LEMMA MarkRows ==
  ASSUME ClientInv, NEW i \in DOMAIN apps,
         Start(i) \/ Stop(i) \/ Restart(i) \/ GiveUp(i) \/ Relaunch(i),
         UNCHANGED <<valid, idVars>>, phase' # "saving" => phase # "saving"
  PROVE  /\ RowsHold' /\ IdsRight' /\ Len(apps') = Len(apps)
         /\ up => (Has(apps) => Has(apps') /\ UNCHANGED up)
<1>1. Alike(apps, apps') /\ file' = file /\ up' = up
  BY MarkLemma, TypeFacts DEF ClientInv
<1>2. Len(apps) \in Nat /\ Len(valid) \in Nat
  BY TypeFacts DEF ClientInv
<1>3. RowsHold'
  BY <1>1, <1>2 DEF ClientInv, RowsHold, Keeps, Alike
<1>4. Has(apps) => Has(apps')
  BY <1>1, <1>2 DEF Has, Alike
<1>5. IdsRight' /\ Len(apps') = Len(apps)
  BY <1>1, IdsKeptRight DEF Alike
<1>6. QED BY <1>1, <1>3, <1>4, <1>5

\* An app at the end of the list has the length of the list as its id.
LEMMA AddRows ==
  ASSUME ClientInv, NEW a \in Apps, Add(a), Appended, UNCHANGED valid
  PROVE  /\ RowsHold' /\ (Has(apps) => Has(apps')) /\ \E k \in 1 .. Len(apps') : apps'[k].app = a
         /\ ids' \in Seq(Int) /\ Len(ids') = Len(apps') /\ IdsRight'
<1>1. /\ Len(apps') = Len(apps) + 1
      /\ \A k \in 1 .. Len(apps) : apps'[k] = apps[k]
      /\ apps'[Len(apps) + 1].app = a
      /\ file' = file /\ up' = up /\ up /\ phase # "saving"
  BY AddLemma, TypeFacts DEF ClientInv, Add, NewRequest, Request
<1>2. Len(apps) \in Nat /\ Len(valid) \in Nat /\ Len(ids) = Len(apps) /\ ids \in Seq(Int)
  BY TypeFacts DEF ClientInv, TypeOK
<1>3. RowsHold'
  BY <1>1, <1>2 DEF ClientInv, RowsHold, Keeps
<1>4. /\ ids' \in Seq(Int) /\ Len(ids') = Len(apps) + 1
      /\ \A k \in 1 .. Len(apps) : ids'[k] = ids[k]
      /\ ids'[Len(apps) + 1] = Len(apps)
  BY <1>2, AppendProperties DEF Appended
<1>5. UNCHANGED <<boot, visit, skipped>> /\ visit \in Nat
  BY DEF Appended, ClientInv, TypeOK
<1>6. IdsRight'
  <2> SUFFICES ASSUME NEW k \in 1 .. Numbered' PROVE ids'[k] = k - 1
    BY DEF IdsRight
  <2>1. Numbered' \in 0 .. Len(apps) + 1 /\ (k <= Len(apps) => k \in 1 .. Numbered)
    BY <1>1, <1>2, <1>5 DEF Numbered, Least
  <2>2. QED BY <1>2, <1>4, <2>1 DEF ClientInv, IdsRight
<1>7. ASSUME Has(apps) PROVE Has(apps')
  <2>1. PICK k \in 1 .. Len(apps) : apps[k].app = started
    BY <1>7 DEF Has
  <2>2. k \in 1 .. Len(apps') /\ apps'[k].app = started
    BY <1>1, <1>2, <2>1
  <2>3. QED BY <2>2 DEF Has
<1>8. \E k \in 1 .. Len(apps') : apps'[k].app = a
  <2>1. Len(apps) + 1 \in 1 .. Len(apps')
    BY <1>1, <1>2
  <2>2. QED BY <1>1, <2>1
<1>9. Len(ids') = Len(apps')
  BY <1>1, <1>4
<1>10. QED BY <1>3, <1>4, <1>6, <1>7, <1>8, <1>9

\* Of the ids, either none is promised any more, or those that were still are.
LEMMA RemoveIds ==
  ASSUME ClientInv, NEW i \in DOMAIN apps, Remove(i), Moves(i)
  PROVE  ids' \in Seq(Int) /\ Len(ids') = Len(apps') /\ IdsRight' /\ skipped' \in BOOLEAN
<1>1. i \in 1 .. Len(apps) /\ Len(apps) \in Nat /\ Len(apps') = Len(apps) - 1
  BY RemoveLemma, TypeFacts DEF ClientInv
<1>2. /\ Len(ids) = Len(apps) /\ \A k \in 1 .. Len(apps) : ids[k] \in Int
      /\ visit \in Nat /\ boot \in BOOLEAN /\ skipped \in BOOLEAN
  BY TypeFacts DEF ClientInv, TypeOK
<1>3. ids' = [k \in 1 .. Len(apps) - 1 |-> IF k < i THEN ids[k] ELSE ids[k + 1] - 1]
  BY <1>2 DEF Moves, IdsWithout
<1>4. ids' \in [1 .. Len(apps) - 1 -> Int]
  BY <1>1, <1>2, <1>3
<1>5. ids' \in Seq(Int) /\ Len(ids') = Len(apps) - 1
  BY <1>1, <1>4, MapSeq
<1>6. UNCHANGED <<boot, visit>> /\ skipped' = (skipped \/ (boot /\ i <= visit /\ visit < Len(apps)))
  BY DEF Moves
<1>7. IdsRight'
  <2> SUFFICES ASSUME NEW k \in 1 .. Numbered' PROVE ids'[k] = k - 1
    BY DEF IdsRight
  <2>1. ~skipped /\ k \in 1 .. Len(apps) - 1 /\ k \in 1 .. Numbered
    BY <1>1, <1>2, <1>6 DEF Numbered, Least
  <2>2. CASE k < i
    BY <1>3, <2>1, <2>2 DEF ClientInv, IdsRight
  <2>3. CASE ~(k < i)
    <3>1. k + 1 \in 1 .. Numbered
      BY <1>1, <1>2, <1>6, <2>1, <2>3 DEF Numbered, Least
    <3>2. ids[k + 1] = (k + 1) - 1
      BY <3>1 DEF ClientInv, IdsRight
    <3>3. QED BY <1>1, <1>3, <2>1, <2>3, <3>2
  <2>4. QED BY <2>2, <2>3
<1>8. QED BY <1>1, <1>2, <1>5, <1>6, <1>7

LEMMA RemoveRows ==
  ASSUME ClientInv, NEW i \in DOMAIN apps, Remove(i), Moves(i), UNCHANGED <<stage, rows>>
  PROVE  RowsHold' /\ LaunchHolds' /\ valid' \in Seq(Row) /\ started' \in {started, NoApp}
<1>1. /\ i \in 1 .. Len(apps) /\ Len(apps) \in Nat
      /\ Len(apps') = Len(apps) - 1
      /\ \A k \in 1 .. Len(apps) - 1 : apps'[k] = IF k < i THEN apps[k] ELSE apps[k + 1]
  BY RemoveLemma, TypeFacts DEF ClientInv
<1>2. file' = file /\ up' = up /\ up /\ phase # "saving" /\ phase' = "busy"
  BY DEF Remove, NewRequest, Request
<1>3. valid \in Seq(Row) /\ Len(valid) \in Nat
  BY TypeFacts DEF ClientInv, TypeOK
<1> DEFINE n == Least(i - 1, Len(valid))
<1>4. n \in 0 .. Len(valid) /\ n < i
  BY <1>1, <1>3 DEF Least
<1>5. /\ valid' \in Seq(Row) /\ Len(valid') = n
      /\ \A k \in 1 .. n : valid'[k] = valid[k]
  <2>1. valid' = SubSeq(valid, 1, n)
    BY DEF Moves
  <2> HIDE DEF n
  <2>2. QED BY <1>3, <1>4, <2>1, Beginning
<1> HIDE DEF n
<1>6. Keeps(apps)'
  <2>1. Len(valid) <= Len(apps) /\ \A k \in 1 .. Len(valid) : valid[k].id = k - 1 /\ apps[k].app = valid[k].app
    BY <1>2 DEF ClientInv, RowsHold, Keeps
  <2>2. n \in Nat /\ n <= Len(apps) - 1
    BY <1>1, <1>4
  <2>3. \A k \in 1 .. n : valid'[k] = valid[k] /\ apps'[k] = apps[k] /\ k \in 1 .. Len(valid)
    BY <1>1, <1>3, <1>4, <1>5, <2>2
  <2>4. \A k \in 1 .. n : valid'[k].id = k - 1 /\ apps'[k].app = valid'[k].app
    BY <2>1, <2>3
  <2>5. QED BY <1>1, <1>5, <2>2, <2>4 DEF Keeps
<1>7. Keeps(file)'
  <2>1. /\ Len(valid) <= Len(file) /\ Len(file) \in Nat
        /\ \A k \in 1 .. Len(valid) : valid[k].id = k - 1 /\ file[k].app = valid[k].app
    BY <1>2, TypeFacts DEF ClientInv, RowsHold, Keeps
  <2>2. n \in Nat /\ n <= Len(file)
    BY <1>3, <1>4, <2>1
  <2>3. \A k \in 1 .. n : valid'[k] = valid[k] /\ k \in 1 .. Len(valid)
    BY <1>3, <1>4, <1>5
  <2>4. \A k \in 1 .. n : valid'[k].id = k - 1 /\ file[k].app = valid'[k].app
    BY <2>1, <2>3
  <2>5. QED BY <1>2, <1>5, <2>2, <2>4 DEF Keeps
<1>8. started' # NoApp => Has(apps)'
  <2>1. SUFFICES ASSUME started' # NoApp PROVE Has(apps)'
    OBVIOUS
  <2>2. started' = started /\ apps[i].app # started
    BY <2>1 DEF Moves
  <2>3. PICK k \in 1 .. Len(apps) : apps[k].app = started
    BY <1>2, <2>1, <2>2 DEF ClientInv, LaunchHolds, Has
  <2>4. CASE k < i
    <3>1. k \in 1 .. Len(apps) - 1 /\ apps'[k] = apps[k]
      BY <1>1, <2>4
    <3>2. QED BY <1>1, <2>2, <2>3, <3>1 DEF Has
  <2>5. CASE k > i
    <3>1. k - 1 \in 1 .. Len(apps) - 1 /\ ~ (k - 1 < i) /\ (k - 1) + 1 = k
      BY <1>1, <2>5
    <3>2. apps'[k - 1] = apps[k]
      BY <1>1, <3>1
    <3>3. QED BY <1>1, <2>2, <2>3, <3>1, <3>2 DEF Has
  <2>6. QED BY <1>1, <2>2, <2>3, <2>4, <2>5
<1>9. StartedIsListed'
  BY DEF ClientInv, LaunchHolds, StartedIsListed, Moves
<1>10. QED BY <1>2, <1>5, <1>6, <1>7, <1>8, <1>9 DEF RowsHold, LaunchHolds, Moves

LEMMA ServeStartClient == ClientInv /\ ServeStart => ClientInv'
<1> SUFFICES ASSUME ClientInv, ServeStart PROVE ClientInv'
  OBVIOUS
<1>1. /\ stage = "request" /\ conn' = "served" /\ cmd \in Cmd /\ cmd' \in Cmd
      /\ UNCHANGED <<stage, heir, silent, rows, valid>>
  BY ForgottenType DEF ServeStart, Serving, Served, ClientInv, TypeOK
<1>2. ASSUME NEW i \in DOMAIN apps, Start(i), started' = apps[i].app, UNCHANGED idVars PROVE ClientInv'
  <2>1. up /\ up' = up /\ phase' = "busy" /\ phase # "saving"
    BY <1>2 DEF Start, Request
  <2>2. RegistryOK' /\ Alike(apps, apps') /\ apps[i].app \in Apps /\ i \in 1 .. Len(apps)
    BY <1>2, MarkLemma, TypeFacts, AppType DEF ClientInv, RegistryOK
  <2>3. RowsHold' /\ IdsRight' /\ Len(apps') = Len(apps)
    BY <1>1, <1>2, <2>1, MarkRows
  <2>4. LaunchHolds'
    BY <1>1, <1>2, <2>1, <2>2 DEF LaunchHolds, Has, StartedIsListed, Alike
  <2>5. TypeOK'
    BY <1>1, <1>2, <2>1, <2>2, <2>3 DEF ClientInv, TypeOK, RegistryOK, idVars, Stages, Conns
  <2>6. Steady'
    BY <1>1, <2>1 DEF Steady
  <2>7. QED BY <2>3, <2>4, <2>5, <2>6 DEF ClientInv
<1>3. ASSUME NEW a \in Apps, Add(a), started' = a, Appended PROVE ClientInv'
  <2>1. up /\ up' = up /\ phase' = "busy" /\ phase # "saving"
    BY <1>3 DEF Add, NewRequest, Request
  <2>2. RegistryOK'
    BY <1>3, AddLemma, TypeFacts DEF ClientInv
  <2>3. /\ RowsHold' /\ IdsRight' /\ \E k \in 1 .. Len(apps') : apps'[k].app = a
        /\ ids' \in Seq(Int) /\ Len(ids') = Len(apps')
    BY <1>1, <1>3, AddRows
  <2>4. LaunchHolds'
    BY <1>1, <1>3, <2>1, <2>3 DEF LaunchHolds, Has, StartedIsListed
  <2>5. TypeOK'
    BY <1>1, <1>3, <2>1, <2>2, <2>3 DEF ClientInv, TypeOK, RegistryOK, Appended, Stages, Conns
  <2>6. Steady'
    BY <1>1, <2>1 DEF Steady
  <2>7. QED BY <2>3, <2>4, <2>5, <2>6 DEF ClientInv
<1>4. cmd.msg.kind = "json" => cmd.msg.app \in Apps
  <2>1. cmd.msg \in Message
    BY <1>1 DEF Cmd
  <2>2. QED BY <2>1 DEF Message, Text, Unknown, Empty, Json
<1>5. QED BY <1>2, <1>3, <1>4 DEF ServeStart, Meant

LEMMA ServeMarkClient == ClientInv /\ (ServeStop \/ ServeRestart \/ ServeAll) => ClientInv'
<1> SUFFICES ASSUME ClientInv, ServeStop \/ ServeRestart \/ ServeAll PROVE ClientInv'
  OBVIOUS
<1>1. /\ stage = "request" /\ conn' \in {"open", "served"} /\ cmd' \in Cmd
      /\ UNCHANGED <<stage, heir, silent, rows, valid, started, idVars>>
  BY ForgottenType DEF ServeStop, ServeRestart, ServeAll, Serving, Served, AsShown, clientVars,
     commandVars, tableVars, ClientInv, TypeOK
<1>2. PICK i \in DOMAIN apps : Start(i) \/ Stop(i) \/ Restart(i)
  BY DEF ServeStop, ServeRestart, ServeAll, Meant
<1>3. up /\ up' = up /\ phase' = "busy" /\ phase # "saving"
  BY <1>2 DEF Start, Stop, Restart, NewRequest, Request
<1>4. RegistryOK'
  BY <1>2, MarkLemma, TypeFacts DEF ClientInv
<1>5. RowsHold' /\ (Has(apps) => Has(apps')) /\ IdsRight' /\ Len(apps') = Len(apps)
  BY <1>1, <1>2, <1>3, MarkRows
<1>6. LaunchHolds'
  BY <1>1, <1>3, <1>5 DEF ClientInv, LaunchHolds, Has, StartedIsListed
<1>7. TypeOK'
  BY <1>1, <1>3, <1>4, <1>5 DEF ClientInv, TypeOK, RegistryOK, idVars, Stages, Conns
<1>8. Steady'
  BY <1>1, <1>3 DEF Steady
<1>9. QED BY <1>5, <1>6, <1>7, <1>8 DEF ClientInv

LEMMA ServeRemoveClient == ClientInv /\ ServeRemove => ClientInv'
<1> SUFFICES ASSUME ClientInv, ServeRemove PROVE ClientInv'
  OBVIOUS
<1>1. stage = "request" /\ conn' = "served" /\ cmd' \in Cmd /\ UNCHANGED <<stage, heir, silent, rows>>
  BY ForgottenType DEF ServeRemove, Serving, Served, ClientInv, TypeOK
<1>2. PICK i \in DOMAIN apps : Remove(i) /\ Moves(i)
  BY DEF ServeRemove, Meant
<1>3. up /\ up' = up /\ phase' = "busy" /\ UNCHANGED <<boot, visit>>
  BY <1>2 DEF Remove, NewRequest, Request, Moves
<1>4. RegistryOK'
  BY <1>2, RemoveLemma, TypeFacts DEF ClientInv
<1>5. RowsHold' /\ LaunchHolds' /\ valid' \in Seq(Row) /\ started' \in {started, NoApp}
  BY <1>1, <1>2, RemoveRows
<1>6. ids' \in Seq(Int) /\ Len(ids') = Len(apps') /\ IdsRight' /\ skipped' \in BOOLEAN
  BY <1>2, RemoveIds
<1>7. TypeOK'
  BY <1>1, <1>3, <1>4, <1>5, <1>6 DEF ClientInv, TypeOK, RegistryOK, Stages, Conns
<1>8. Steady'
  BY <1>1, <1>3 DEF Steady
<1>9. QED BY <1>5, <1>6, <1>7, <1>8 DEF ClientInv

LEMMA ServeNothingClient == ClientInv /\ ServeNothing => ClientInv'
<1> SUFFICES ASSUME ClientInv, ServeNothing PROVE ClientInv'
  OBVIOUS
<1>1. /\ up /\ phase # "saving" /\ phase' = "busy"
      /\ UNCHANGED <<up, file, apps, alive, idVars>> /\ cmd' \in Cmd
      /\ conn' = "served" /\ UNCHANGED <<stage, heir, silent, rows, valid, started>>
  BY ForgottenType DEF ServeNothing, Serve, Request, Served, AsShown, ClientInv, TypeOK
<1>2. TypeOK'
  BY <1>1 DEF ClientInv, TypeOK, idVars, Stages, Conns
<1>3. stage = "status" => conn = "open"
  BY DEF ServeNothing, Serving
<1>4. Steady'
  BY <1>1, <1>3 DEF ClientInv, Steady, Alike
<1>5. RowsHold' /\ LaunchHolds'
  BY <1>1 DEF ClientInv, RowsHold, Keeps, LaunchHolds, Has, StartedIsListed
<1>6. IdsRight'
  BY <1>1, IdsKeptRight
<1>7. QED BY <1>2, <1>4, <1>5, <1>6 DEF ClientInv

-------------------------------------------------------------------------------
(* Steps of the daemon and of others *)

\* What keeps its rows over a restart is what the file keeps.
LEMMA DownClient == ClientInv /\ DaemonDown => ClientInv'
<1> SUFFICES ASSUME ClientInv, DaemonDown PROVE ClientInv'
  OBVIOUS
<1>1. /\ up /\ up' = FALSE /\ apps' = <<>> /\ alive' = {} /\ phase' = "ready" /\ file' = file
      /\ ids' = <<>> /\ boot' = FALSE /\ visit' = 0 /\ skipped' = FALSE /\ silent' = FALSE
      /\ UNCHANGED <<stage, rows>>
  BY DEF DaemonDown, Down
<1>2. conn' \in Conns \ {"queued", "open", "served"} /\ heir' \in BOOLEAN /\ cmd' \in Cmd
  BY ForgottenType DEF ClientInv, TypeOK, Conns, DaemonDown, Broken
<1>3. /\ valid' = IF phase = "saving" THEN <<>> ELSE valid
      /\ started' = IF phase = "ready" THEN started ELSE NoApp
  BY DEF DaemonDown
<1>4. TypeOK'
  <2>1. <<>> \in Seq(App) /\ <<>> \in Seq(Int) /\ <<>> \in Seq(Row)
    OBVIOUS
  <2>2. valid' \in Seq(Row) /\ started' \in Apps \cup {NoApp}
    BY <1>3, <2>1 DEF ClientInv, TypeOK
  <2>3. QED BY <1>1, <1>2, <2>1, <2>2 DEF ClientInv, TypeOK
<1>5. Steady'
  BY <1>1, <1>2 DEF Steady, OwnRequest
<1>6. RowsHold'
  <2>1. Len(file) \in Nat
    BY TypeFacts DEF ClientInv
  <2>2. QED BY <1>1, <1>3, <2>1 DEF ClientInv, RowsHold, Keeps
<1>7. LaunchHolds'
  <2>1. started' # NoApp => started' = started /\ phase = "ready"
    BY <1>3
  <2>2. StartedIsListed'
    BY <1>1, <2>1 DEF ClientInv, LaunchHolds, StartedIsListed
  <2>3. started' # NoApp => Has(file)'
    BY <1>1, <2>1 DEF ClientInv, LaunchHolds, Steady, Has, Alike
  <2>4. QED BY <1>1, <2>2, <2>3 DEF LaunchHolds
<1>8. IdsRight'
  BY <1>1 DEF IdsRight, Numbered
<1>9. QED BY <1>4, <1>5, <1>6, <1>7, <1>8 DEF ClientInv

\* Sockets that nobody answers at change nothing that matters here, and nor does silence.
LEMMA WaitClient == ClientInv /\ (HeirsEnd \/ Silence) => ClientInv'
<1> SUFFICES ASSUME ClientInv, HeirsEnd \/ Silence PROVE ClientInv'
  OBVIOUS
<1>1. /\ UNCHANGED <<up, apps, alive, file, phase, idVars, stage, cmd, rows, valid, started>>
      /\ heir' \in BOOLEAN /\ silent' \in BOOLEAN
      /\ conn' = conn \/ (~OwnRequest /\ conn' \in {"lost", "cut"})
  BY DEF HeirsEnd, Stranded, Silence, commandVars, tableVars, appsVars, ClientInv, TypeOK, OwnRequest
<1>2. TypeOK'
  BY <1>1 DEF ClientInv, TypeOK, idVars, Conns
<1>3. Steady'
  BY <1>1 DEF ClientInv, Steady, OwnRequest, Alike
<1>4. RowsHold' /\ LaunchHolds'
  BY <1>1 DEF ClientInv, RowsHold, Keeps, LaunchHolds, Has, StartedIsListed
<1>5. IdsRight'
  BY <1>1, IdsKeptRight
<1>6. QED BY <1>2, <1>3, <1>4, <1>5 DEF ClientInv

LEMMA OthersClient == ClientInv /\ OthersNext => ClientInv'
<1> SUFFICES ASSUME ClientInv, OthersNext PROVE ClientInv'
  OBVIOUS
<1>1. ~OwnRequest /\ UNCHANGED <<stage, conn, cmd, heir, silent, rows>>
  BY DEF OthersNext, commandVars
<1>2. up /\ up' = up /\ file' = file /\ phase # "saving" /\ phase' = "busy"
  BY DEF OthersNext, Serve, Add, Start, Stop, Restart, Remove, NewRequest, Request
<1>3. Steady'
  BY <1>1, <1>2 DEF Steady, OwnRequest
<1>4. /\ RegistryOK' /\ RowsHold' /\ LaunchHolds' /\ IdsRight'
      /\ valid' \in Seq(Row) /\ started' \in {started, NoApp}
      /\ ids' \in Seq(Int) /\ Len(ids') = Len(apps')
      /\ UNCHANGED <<boot, visit>> /\ skipped' \in BOOLEAN
  <2>1. CASE Serve /\ AsShown
    <3>1. UNCHANGED <<apps, alive, idVars, valid, started>>
      BY <2>1 DEF Serve, AsShown
    <3>2. IdsRight'
      BY <3>1, IdsKeptRight
    <3>3. QED BY <1>1, <1>2, <3>1, <3>2, TypeFacts DEF ClientInv, RegistryOK, TypeOK, RowsHold, Keeps,
       LaunchHolds, Has, StartedIsListed, idVars
  <2>2. ASSUME NEW a \in Apps, Add(a), Appended, UNCHANGED <<valid, started>>
        PROVE  /\ RegistryOK' /\ RowsHold' /\ LaunchHolds' /\ IdsRight' /\ valid' \in Seq(Row)
               /\ ids' \in Seq(Int) /\ Len(ids') = Len(apps')
               /\ UNCHANGED <<started, boot, visit>> /\ skipped' \in BOOLEAN
    <3>1. /\ RegistryOK' /\ RowsHold' /\ (Has(apps) => Has(apps')) /\ IdsRight'
          /\ ids' \in Seq(Int) /\ Len(ids') = Len(apps')
      BY <2>2, AddLemma, AddRows, TypeFacts DEF ClientInv
    <3>2. LaunchHolds'
      BY <1>1, <1>2, <2>2, <3>1 DEF ClientInv, LaunchHolds, Has, StartedIsListed
    <3>3. QED BY <2>2, <3>1, <3>2 DEF ClientInv, TypeOK, Appended
  <2>3. ASSUME NEW i \in DOMAIN apps, Start(i) \/ Stop(i) \/ Restart(i), AsShown
        PROVE  /\ RegistryOK' /\ RowsHold' /\ LaunchHolds' /\ IdsRight' /\ valid' \in Seq(Row)
               /\ ids' \in Seq(Int) /\ Len(ids') = Len(apps')
               /\ UNCHANGED <<started, boot, visit>> /\ skipped' \in BOOLEAN
    <3>1. RegistryOK'
      BY <2>3, MarkLemma, TypeFacts DEF ClientInv
    <3>2. RowsHold' /\ (Has(apps) => Has(apps')) /\ IdsRight' /\ Len(apps') = Len(apps)
      BY <1>2, <2>3, MarkRows DEF AsShown
    <3>3. LaunchHolds'
      BY <1>1, <1>2, <2>3, <3>2 DEF ClientInv, LaunchHolds, Has, StartedIsListed, AsShown
    <3>4. QED BY <2>3, <3>1, <3>2, <3>3 DEF ClientInv, TypeOK, AsShown, idVars
  <2>4. ASSUME NEW i \in DOMAIN apps, Remove(i), Moves(i)
        PROVE  /\ RegistryOK' /\ RowsHold' /\ LaunchHolds' /\ IdsRight' /\ valid' \in Seq(Row)
               /\ started' \in {started, NoApp}
               /\ ids' \in Seq(Int) /\ Len(ids') = Len(apps')
               /\ UNCHANGED <<boot, visit>> /\ skipped' \in BOOLEAN
    <3>1. RegistryOK'
      BY <2>4, RemoveLemma, TypeFacts DEF ClientInv
    <3>2. RowsHold' /\ LaunchHolds' /\ valid' \in Seq(Row) /\ started' \in {started, NoApp}
      BY <1>1, <2>4, RemoveRows
    <3>3. QED BY <2>4, <3>1, <3>2, RemoveIds DEF Moves
  <2>5. QED BY <2>1, <2>2, <2>3, <2>4 DEF OthersNext
<1>5. TypeOK'
  BY <1>1, <1>2, <1>4 DEF ClientInv, TypeOK, RegistryOK
<1>6. QED BY <1>3, <1>4, <1>5 DEF ClientInv

\* A daemon begins with what the file says, and with no id.
LEMMA DaemonUpClient == ClientInv /\ DaemonUp => ClientInv'
<1> SUFFICES ASSUME ClientInv, DaemonUp PROVE ClientInv'
  OBVIOUS
<1>1. /\ UNCHANGED <<stage, conn, cmd, heir, silent, rows, valid, started>>
      /\ ~up /\ up' = TRUE /\ apps' = file /\ UNCHANGED <<alive, file, phase>> /\ phase = "ready"
      /\ boot' = TRUE /\ visit' = 0 /\ skipped' = FALSE
  BY DEF DaemonUp, Boot, commandVars, tableVars, ClientInv, Steady
<1>2. Len(file) \in Nat /\ DOMAIN file = 1 .. Len(file)
  BY TypeFacts DEF ClientInv
<1>3. ids' \in [1 .. Len(file) -> Int]
  BY <1>2 DEF DaemonUp
<1>4. ids' \in Seq(Int) /\ Len(ids') = Len(apps')
  BY <1>1, <1>2, <1>3, MapSeq
<1>5. TypeOK'
  BY <1>1, <1>4 DEF ClientInv, TypeOK
<1>6. Steady'
  BY <1>1 DEF ClientInv, Steady, OwnRequest, Alike
<1>7. RowsHold' /\ LaunchHolds'
  BY <1>1 DEF ClientInv, RowsHold, Keeps, LaunchHolds, Has, StartedIsListed
<1>8. IdsRight'
  BY <1>1, <1>2 DEF IdsRight, Numbered, Least
<1>9. QED BY <1>5, <1>6, <1>7, <1>8 DEF ClientInv

\* Each round of the boot loop makes one id right; after the last all are.
LEMMA BootVisitClient == ClientInv /\ BootVisit => ClientInv'
<1> SUFFICES ASSUME ClientInv, BootVisit PROVE ClientInv'
  OBVIOUS
<1>1. UNCHANGED <<up, apps, alive, file, phase, stage, conn, cmd, skipped, heir, silent, rows, valid, started>>
  BY DEF BootVisit, appsVars, commandVars, tableVars
<1>2. /\ Len(apps) \in Nat /\ Len(ids) = Len(apps) /\ ids \in Seq(Int) /\ DOMAIN ids = 1 .. Len(apps)
      /\ visit \in Nat /\ boot
  BY TypeFacts DEF ClientInv, TypeOK, BootVisit
<1>3. ids' \in Seq(Int) /\ Len(ids') = Len(apps) /\ boot' \in BOOLEAN /\ visit' \in Nat /\ IdsRight'
  <2>1. CASE visit < Len(apps)
    <3>1. ids' = [ids EXCEPT ![visit + 1] = visit] /\ visit' = visit + 1 /\ boot'
      BY <1>2, <2>1 DEF BootVisit
    <3>2. visit + 1 \in 1 .. Len(apps) /\ visit \in Int
      BY <1>2, <2>1
    <3>3. ids' \in Seq(Int) /\ Len(ids') = Len(apps)
      BY <1>2, <3>1, <3>2, ExceptSeq
    <3>4. IdsRight'
      <4> SUFFICES ASSUME NEW k \in 1 .. Numbered' PROVE ids'[k] = k - 1
        BY DEF IdsRight
      <4>1. k \in 1 .. Len(apps) /\ (k # visit + 1 => k \in 1 .. Numbered)
        BY <1>1, <1>2, <2>1, <3>1 DEF Numbered, Least
      <4>2. QED BY <1>2, <3>1, <4>1 DEF ClientInv, IdsRight
    <3>5. QED BY <1>2, <3>1, <3>3, <3>4
  <2>2. CASE ~(visit < Len(apps))
    <3>1. ids' = ids /\ visit' = 0 /\ boot' = FALSE
      BY <2>2 DEF BootVisit
    <3>2. Numbered' = Numbered
      BY <1>1, <1>2, <2>2, <3>1 DEF Numbered, Least
    <3>3. QED BY <1>2, <3>1, <3>2 DEF ClientInv, IdsRight
  <2>3. QED BY <2>1, <2>2
<1>4. TypeOK'
  BY <1>1, <1>3 DEF ClientInv, TypeOK
<1>5. Steady'
  BY <1>1 DEF ClientInv, Steady, OwnRequest, Alike
<1>6. RowsHold' /\ LaunchHolds'
  BY <1>1 DEF ClientInv, RowsHold, Keeps, LaunchHolds, Has, StartedIsListed
<1>7. QED BY <1>3, <1>4, <1>5, <1>6 DEF ClientInv

LEMMA DaemonClient == ClientInv /\ DaemonNext => ClientInv'
<1> SUFFICES ASSUME ClientInv, DaemonNext PROVE ClientInv'
  OBVIOUS
<1>1. CASE DaemonUp \/ BootVisit
  BY <1>1, DaemonUpClient, BootVisitClient
<1>2. CASE UNCHANGED clientVars
  <2>1. UNCHANGED <<stage, conn, cmd, ids, boot, visit, skipped, heir, silent, rows, valid, started>>
    BY <1>2 DEF clientVars, commandVars, idVars, tableVars
  <2>2. /\ Len(apps) \in Nat /\ Len(file) \in Nat /\ Len(valid) \in Nat
        /\ RegistryOK
    BY TypeFacts DEF ClientInv
  <2>i. Len(apps') = Len(apps) => IdsRight'
    BY <2>1, IdsKeptRight DEF idVars
  <2>3. CASE Save
    <3>1. up /\ phase = "saving" /\ phase' = "ready" /\ file' = apps /\ UNCHANGED <<up, apps, alive>>
      BY <2>3 DEF Save
    <3>2. TypeOK'
      BY <2>1, <3>1 DEF ClientInv, TypeOK
    <3>3. Steady'
      BY <2>1, <3>1 DEF ClientInv, Steady, OwnRequest, Alike
    <3>4. RowsHold' /\ LaunchHolds'
      BY <2>1, <3>1 DEF ClientInv, RowsHold, Keeps, LaunchHolds, Has, StartedIsListed
    <3>5. QED BY <2>i, <3>1, <3>2, <3>3, <3>4 DEF ClientInv
  <2>4. CASE Truncate /\ ~OwnRequest
    <3>1. up /\ phase = "busy" /\ phase' = "saving" /\ file' = <<>> /\ UNCHANGED <<up, apps, alive>>
      BY <2>4 DEF Truncate
    <3>2. TypeOK'
      BY <2>1, <3>1, EmptySeq DEF ClientInv, TypeOK
    <3>3. Steady'
      BY <2>1, <2>4, <3>1 DEF ClientInv, Steady, OwnRequest
    <3>4. RowsHold' /\ LaunchHolds'
      BY <2>1, <3>1 DEF ClientInv, RowsHold, Keeps, LaunchHolds, Has, StartedIsListed
    <3>5. QED BY <2>i, <3>1, <3>2, <3>3, <3>4 DEF ClientInv
  <2>5. ASSUME NEW a \in alive, Ends(a) PROVE ClientInv'
    <3>1. alive' = alive \ {a} /\ UNCHANGED <<up, apps, file, phase>>
      BY <2>5 DEF Ends
    <3>2. TypeOK'
      BY <2>1, <3>1 DEF ClientInv, TypeOK
    <3>3. Steady'
      BY <2>1, <3>1 DEF ClientInv, Steady, OwnRequest, Alike
    <3>4. RowsHold' /\ LaunchHolds'
      BY <2>1, <3>1 DEF ClientInv, RowsHold, Keeps, LaunchHolds, Has, StartedIsListed
    <3>5. QED BY <2>i, <3>1, <3>2, <3>3, <3>4 DEF ClientInv
  <2>6. ASSUME NEW i \in DOMAIN apps, Relaunch(i) \/ (GiveUp(i) /\ ~OwnRequest) PROVE ClientInv'
    <3>1. up /\ up' = up /\ file' = file /\ phase' = phase
      BY <2>6 DEF Relaunch, GiveUp
    <3>2. RegistryOK' /\ Alike(apps, apps')
      BY <2>2, <2>6, MarkLemma
    <3>3. RowsHold' /\ (Has(apps) => Has(apps')) /\ IdsRight' /\ Len(apps') = Len(apps)
      BY <2>1, <2>6, <3>1, MarkRows DEF idVars
    <3>4. TypeOK'
      BY <2>1, <3>1, <3>2, <3>3 DEF ClientInv, TypeOK, RegistryOK
    <3>5. Steady'
      BY <2>1, <2>2, <3>1, <3>2 DEF ClientInv, Steady, OwnRequest, Alike
    <3>6. LaunchHolds'
      BY <2>1, <3>1, <3>3 DEF ClientInv, LaunchHolds, Has, StartedIsListed
    <3>7. QED BY <3>3, <3>4, <3>5, <3>6 DEF ClientInv
  <2>7. \/ Save \/ (Truncate /\ ~OwnRequest) \/ (\E a \in alive : Ends(a))
        \/ \E i \in DOMAIN apps : Relaunch(i) \/ (GiveUp(i) /\ ~OwnRequest)
        \/ DaemonUp \/ BootVisit
    BY DEF DaemonNext
  <2>8. QED BY <1>1, <2>3, <2>4, <2>5, <2>6, <2>7
<1>3. QED BY <1>1, <1>2 DEF DaemonNext

-------------------------------------------------------------------------------
(* Theorems *)

LEMMA StepClient == ClientInv /\ [Next]_vars => ClientInv'
<1> SUFFICES ASSUME ClientInv, [Next]_vars PROVE ClientInv'
  OBVIOUS
<1>1. CASE UNCHANGED vars
  BY <1>1 DEF vars, appsVars, clientVars, commandVars, idVars, tableVars, ClientInv, TypeOK,
     Steady, OwnRequest, Alike, RowsHold, Keeps, LaunchHolds, Has, StartedIsListed,
     IdsRight, Numbered
<1>2. CASE Issue \/ CommandNext \/ Accept
  BY <1>2, IssueClient, PrepareClient, ConnectClient, AnswerClient, EndClient, AnswerStatusClient
     DEF CommandNext
<1>3. CASE ServeNext
  BY <1>3, ServeStartClient, ServeMarkClient, ServeRemoveClient, ServeNothingClient DEF ServeNext
<1>4. CASE DaemonDown \/ HeirsEnd \/ Interrupt \/ OthersNext \/ Silence \/ DaemonNext
  BY <1>4, DownClient, WaitClient, EndClient, OthersClient, DaemonClient
<1>5. QED BY <1>1, <1>2, <1>3, <1>4 DEF Next

LEMMA ClientInvariant == Spec => []ClientInv
BY InitClient, StepClient, PTL DEF Spec

\* The command, its connection and its table have their types.
THEOREM ClientTypeCorrect == Spec => []TypeOK
<1>1. ClientInv => TypeOK
  BY DEF ClientInv
<1>2. QED BY <1>1, ClientInvariant, PTL

\* An id that the last table shows is resolved to the app beside it, as long as nothing
\* moved it, for what the boot loop has come to and no removal has moved past it.
THEOREM ShownIdCorrect == Spec => []ShownIdHolds
<1>1. ClientInv => ShownIdHolds
  <2> SUFFICES ASSUME ClientInv PROVE ShownIdHolds
    OBVIOUS
  <2>1. Keeps(IF up THEN apps ELSE file)
    BY DEF ClientInv, Steady, RowsHold
  <2>2. /\ DOMAIN valid = 1 .. Len(valid) /\ Len(valid) \in Nat
        /\ DOMAIN apps = 1 .. Len(apps) /\ Len(apps) \in Nat
        /\ DOMAIN file = 1 .. Len(file) /\ Len(file) \in Nat
    BY TypeFacts DEF ClientInv, TypeOK
  <2> DEFINE list == IF up THEN apps ELSE file
  <2>3. DOMAIN list = 1 .. Len(list) /\ Len(list) \in Nat
    BY <2>2
  <2> SUFFICES ASSUME NEW k \in 1 .. Len(valid)
               PROVE  valid[k].id + 1 \in DOMAIN list /\ list[valid[k].id + 1].app = valid[k].app
    BY <2>2 DEF ShownIdHolds
  <2> HIDE DEF list
  <2>4. QED BY <2>1, <2>2, <2>3 DEF Keeps, list
<1>2. QED BY <1>1, ClientInvariant, PTL

\* What a `start` launched is in the table it ends with, unless it was removed or lost.
THEOREM StartedCorrect == Spec => []StartedIsListed
<1>1. ClientInv => StartedIsListed
  BY DEF ClientInv, LaunchHolds
<1>2. QED BY <1>1, ClientInvariant, PTL

\* An uptime is read in its largest unit, rounded down, for every age.
THEOREM UptimeCorrect == Spec => []UptimeReads
<1>1. UptimeReads
  BY UptimeAssumption, Uptime DEF UptimeReads
<1>2. QED BY <1>1, PTL

-------------------------------------------------------------------------------
(* The registry of names *)

LEMMA NamesFacts ==
  ASSUME NEW l \in Seq(App), NEW l2 \in Seq(App)
  PROVE  /\ Names(l) = {l[k].app : k \in 1 .. Len(l)}
         /\ Alike(l, l2) => Names(l2) = Names(l)
<1>1. /\ DOMAIN l = 1 .. Len(l) /\ Len(l) \in Nat
      /\ DOMAIN l2 = 1 .. Len(l2) /\ Len(l2) \in Nat
  OBVIOUS
<1>2. /\ Names(l) = {l[k].app : k \in 1 .. Len(l)}
      /\ Names(l2) = {l2[k].app : k \in 1 .. Len(l2)}
  BY <1>1 DEF Names
<1>3. ASSUME Alike(l, l2) PROVE Names(l2) = Names(l)
  BY <1>2, <1>3 DEF Alike
<1> QED BY <1>2, <1>3

LEMMA NamesAdded ==
  ASSUME RegistryOK, NEW a \in Apps, Add(a)
  PROVE  Names(apps') = Names(apps) \cup {a}
<1>1. /\ apps \in Seq(App) /\ apps' \in Seq(App) /\ Len(apps) \in Nat
      /\ Len(apps') = Len(apps) + 1
      /\ \A k \in 1 .. Len(apps) : apps'[k] = apps[k]
      /\ apps'[Len(apps) + 1].app = a
  BY AddLemma DEF RegistryOK
<1>2. /\ Names(apps) = {apps[k].app : k \in 1 .. Len(apps)}
      /\ Names(apps') = {apps'[k].app : k \in 1 .. Len(apps')}
  BY <1>1, NamesFacts
<1>3. 1 .. Len(apps') = (1 .. Len(apps)) \cup {Len(apps) + 1}
  BY <1>1
<1> QED BY <1>1, <1>2, <1>3

\* A name could be at two places, for all these steps know.
LEMMA NamesRemoved ==
  ASSUME RegistryOK, NEW i \in DOMAIN apps, Remove(i)
  PROVE  Names(apps') \in {Names(apps), Names(apps) \ {apps[i].app}}
<1>1. /\ apps \in Seq(App) /\ apps' \in Seq(App) /\ Len(apps) \in Nat /\ i \in 1 .. Len(apps)
      /\ Len(apps') = Len(apps) - 1
      /\ \A k \in 1 .. Len(apps) - 1 : apps'[k] = IF k < i THEN apps[k] ELSE apps[k + 1]
  BY RemoveLemma DEF RegistryOK
<1>2. /\ Names(apps) = {apps[k].app : k \in 1 .. Len(apps)}
      /\ Names(apps') = {apps'[k].app : k \in 1 .. Len(apps')}
  BY <1>1, NamesFacts
<1>3. Names(apps') \subseteq Names(apps)
  <2>1. ASSUME NEW k \in 1 .. Len(apps') PROVE apps'[k].app \in Names(apps)
    <3>1. k \in 1 .. Len(apps) - 1 /\ k \in 1 .. Len(apps) /\ k + 1 \in 1 .. Len(apps)
      BY <1>1
    <3> QED BY <1>1, <1>2, <3>1
  <2> QED BY <1>2, <2>1
<1>4. ASSUME NEW k \in 1 .. Len(apps), k # i PROVE apps[k].app \in Names(apps')
  <2>1. CASE k < i
    <3>1. k \in 1 .. Len(apps) - 1 /\ apps'[k] = apps[k]
      BY <1>1, <2>1
    <3> QED BY <1>1, <1>2, <3>1
  <2>2. CASE ~(k < i)
    <3>1. k - 1 \in 1 .. Len(apps) - 1 /\ ~(k - 1 < i) /\ (k - 1) + 1 = k
      BY <1>1, <1>4, <2>2
    <3>2. apps'[k - 1] = apps[k]
      BY <1>1, <3>1
    <3> QED BY <1>1, <1>2, <3>1, <3>2
  <2> QED BY <2>1, <2>2
<1>5. Names(apps) \ {apps[i].app} \subseteq Names(apps')
  BY <1>2, <1>4
<1> QED BY <1>3, <1>5

Phased == RegistryOK /\ phase \in {"ready", "busy", "saving"}

LEMMA RegistryTyped == AppsSpec => []Phased
<1>1. AppsInit => Phased
  BY DEF AppsInit, Phased, RegistryOK
<1>2. ASSUME Phased, [AppsNext]_appsVars PROVE Phased'
  <2>1. CASE UNCHANGED appsVars
    BY <1>2, <2>1 DEF Phased, RegistryOK, appsVars
  <2>2. CASE Boot \/ Down \/ Truncate \/ Save \/ Serve
    <3>1. <<>> \in Seq(App)
      OBVIOUS
    <3> QED BY <1>2, <2>2, <3>1 DEF Boot, Down, Truncate, Save, Serve, Request, Phased, RegistryOK
  <2>3. ASSUME NEW a \in alive, Ends(a) PROVE Phased'
    BY <1>2, <2>3 DEF Ends, Phased, RegistryOK
  <2>4. ASSUME NEW a \in Apps, Add(a) PROVE Phased'
    BY <1>2, <2>4, AddLemma DEF Phased, Add, NewRequest, Request
  <2>5. ASSUME NEW i \in DOMAIN apps, Remove(i) PROVE Phased'
    BY <1>2, <2>5, RemoveLemma DEF Phased, Remove, NewRequest, Request
  <2>6. ASSUME NEW i \in DOMAIN apps,
               Start(i) \/ Stop(i) \/ Restart(i) \/ GiveUp(i) \/ Relaunch(i)
        PROVE  Phased'
    <3>1. RegistryOK'
      BY <1>2, <2>6, MarkLemma DEF Phased
    <3>2. phase' \in {phase, "busy"}
      BY <2>6 DEF Start, Stop, Restart, NewRequest, Request, GiveUp, Relaunch
    <3> QED BY <1>2, <3>1, <3>2 DEF Phased
  <2> QED BY <1>2, <2>1, <2>2, <2>3, <2>4, <2>5, <2>6 DEF AppsNext, ServiceNext, RequestNext
<1> QED BY <1>1, <1>2, PTL DEF AppsSpec

\* Each step of the daemon, seen by names.
LEMMA NamesStep ==
  ASSUME Phased, Phased', [AppsNext]_appsVars
  PROVE  [R!RegistryNext]_(R!registryVars)
<1> USE DEF R!registryVars
<1>1. CASE UNCHANGED appsVars
  BY <1>1 DEF appsVars
<1>2. CASE Boot
  BY <1>2 DEF Boot, R!RegistryNext, R!Boot
<1>e. Names(<<>>) = {}
  BY DEF Names
<1>3. CASE Down
  <2>1. Names(apps') = {} /\ Names(file') = Names(file)
    BY <1>3, <1>e DEF Down
  <2> QED BY <1>3, <2>1 DEF Down, R!RegistryNext, R!Down
<1>4. CASE Truncate
  <2>1. Names(file') = {} /\ Names(apps') = Names(apps)
    BY <1>4, <1>e DEF Truncate
  <2> QED BY <1>4, <2>1 DEF Truncate, R!RegistryNext, R!Truncate
<1>5. CASE Save
  BY <1>5 DEF Save, R!RegistryNext, R!Save
<1>6. CASE \E a \in alive : Ends(a)
  BY <1>6 DEF Ends
\* A request is a step when it is taken up, and none where it goes on.
<1>7. ASSUME Request, Names(apps') = Names(apps) PROVE [R!RegistryNext]_(R!registryVars)
  <2>1. CASE phase = "ready"
    BY <1>7, <2>1 DEF Request, R!RegistryNext, R!Request
  <2>2. CASE phase = "busy"
    BY <1>7, <2>2 DEF Request
  <2> QED BY <1>7, <2>1, <2>2 DEF Request, Phased
<1>8. CASE Serve
  BY <1>7, <1>8 DEF Serve
<1>9. ASSUME NEW a \in Apps, Add(a) PROVE R!RegistryNext
  <2>1. Names(apps') = Names(apps) \cup {a}
    BY <1>9, NamesAdded DEF Phased
  <2> QED BY <1>9, <2>1 DEF Add, NewRequest, Request, R!RegistryNext, R!Request
<1>10. ASSUME NEW i \in DOMAIN apps, Remove(i) PROVE R!RegistryNext
  <2>1. Names(apps') \in {Names(apps), Names(apps) \ {apps[i].app}}
    BY <1>10, NamesRemoved DEF Phased
  <2>2. apps[i].app \in Apps
    BY AppType DEF Phased, RegistryOK
  <2> QED BY <1>10, <2>1, <2>2 DEF Remove, NewRequest, Request, R!RegistryNext, R!Request
<1>11. ASSUME NEW i \in DOMAIN apps,
              Start(i) \/ Stop(i) \/ Restart(i) \/ GiveUp(i) \/ Relaunch(i)
       PROVE  [R!RegistryNext]_(R!registryVars)
  <2>1. Names(apps') = Names(apps) /\ UNCHANGED <<up, file>>
    BY <1>11, MarkLemma, NamesFacts DEF Phased, RegistryOK
  <2>2. CASE Start(i) \/ Stop(i) \/ Restart(i)
    <3>1. Request
      BY <2>2 DEF Start, Stop, Restart, NewRequest
    <3> QED BY <1>7, <2>1, <3>1
  <2>3. CASE GiveUp(i) \/ Relaunch(i)
    BY <2>1, <2>3 DEF GiveUp, Relaunch
  <2> QED BY <1>11, <2>2, <2>3
<1> QED BY <1>1, <1>2, <1>3, <1>4, <1>5, <1>6, <1>8, <1>9, <1>10, <1>11
        DEF AppsNext, ServiceNext, RequestNext

\* The registry of KbpmApps, without order and marks, is the one of KbpmRegistry.
THEOREM AppsKeepRegistry == AppsSpec => KeepsRegistry
<1>1. AppsInit => R!RegistryInit
  BY DEF AppsInit, R!RegistryInit, Names
<1>2. Phased /\ Phased' /\ [AppsNext]_appsVars => [R!RegistryNext]_(R!registryVars)
  BY NamesStep
<1> QED BY <1>1, <1>2, RegistryTyped, PTL DEF AppsSpec, KeepsRegistry, R!RegistrySpec

\* The commands use the daemon of KbpmApps and do nothing else to it.
LEMMA UseStep == ASSUME ClientInv, [Next]_vars PROVE [AppsNext]_appsVars
<1>1. CASE UNCHANGED vars \/ Issue \/ CommandNext \/ Accept \/ Interrupt \/ HeirsEnd \/ Silence
  BY <1>1 DEF vars, Issue, CommandNext, Prepare, Connect, Refuse, AnswerPing, AnswerRequest,
     AnswerStatus, DrawTable, EndOfFile, Accept, Interrupt, HeirsEnd, Silence, daemonVars, appsVars
<1>2. CASE ServeStart
  <2>1. CASE \E i \in Meant : Start(i)
    BY <2>1 DEF Meant, AppsNext, RequestNext
  <2>2. CASE cmd.msg.kind = "json" /\ Add(cmd.msg.app)
    <3>1. cmd.msg \in Message
      BY DEF ClientInv, TypeOK, Cmd
    <3>2. cmd.msg.app \in Apps
      BY <2>2, <3>1 DEF Message, Text, Unknown, Empty, Json
    <3> QED BY <2>2, <3>2 DEF AppsNext, RequestNext
  <2> QED BY <1>2, <2>1, <2>2 DEF ServeStart
<1>3. CASE ServeStop \/ ServeRestart \/ ServeRemove \/ ServeAll \/ ServeNothing
  BY <1>3 DEF ServeStop, ServeRestart, ServeRemove, ServeAll, ServeNothing, Meant,
     AppsNext, RequestNext
<1>4. CASE DaemonDown \/ OthersNext \/ DaemonNext
  BY <1>4 DEF DaemonDown, OthersNext, DaemonNext, DaemonUp, BootVisit, AppsNext, RequestNext,
     ServiceNext, appsVars
<1> QED BY <1>1, <1>2, <1>3, <1>4 DEF Next, ServeNext

LEMMA ClientUsesApps == Spec => AppsSpec
<1>1. Init => AppsInit
  BY DEF Init
<1>2. ClientInv /\ [Next]_vars => [AppsNext]_appsVars
  BY UseStep
<1> QED BY <1>1, <1>2, ClientInvariant, PTL DEF Spec, AppsSpec

\* The apps a user sees change by one request at a time, each saved before the next.
THEOREM KeepsRegistryCorrect == Spec => KeepsRegistry
BY ClientUsesApps, AppsKeepRegistry, PTL

===============================================================================
