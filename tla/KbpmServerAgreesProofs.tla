------------------------ MODULE KbpmServerAgreesProofs ------------------------
(***************************************************************************)
(* Theorems about KbpmServer, part 2: what launching, stopping, deleting,  *)
(* waiting and exiting do to a list and a process table that agree.  These *)
(* lemmas are about Agrees alone and know nothing of threads.              *)
(***************************************************************************)
EXTENDS KbpmServerProofs

-------------------------------------------------------------------------------
(* Lists and process tables that agree *)

\* What a start and a stop write.
LEMMA EntryFields ==
  ASSUME NEW e \in Entry
  PROVE  /\ \A p \in Pid : Started(e, p).pid = p /\ Started(e, p).is_running
         /\ Stopped(e).pid = IF e.is_running THEN 0 ELSE e.pid
         /\ ~Stopped(e).is_running
<1>1. \A p \in Pid : Started(e, p).pid = p /\ Started(e, p).is_running
  BY DEF Started, Entry
<1>2. CASE e.is_running
  <2>1. Stopped(e) = [e EXCEPT !.pid = 0, !.is_running = FALSE, !.fresh = FALSE]
    BY <1>2 DEF Stopped
  <2>2. Stopped(e).pid = 0 /\ ~Stopped(e).is_running
    BY <2>1 DEF Entry
  <2>3. QED BY <1>1, <1>2, <2>2
<1>3. CASE ~e.is_running
  <2>1. Stopped(e) = e
    BY <1>3 DEF Stopped
  <2>2. QED BY <1>1, <1>3, <2>1
<1>4. QED BY <1>2, <1>3

\* Entry i, which has no live process, is launched as the free pid p.
LEMMA AgreesLaunch ==
  ASSUME NEW l \in [Slot -> Entry], NEW n \in 0 .. ListSize, NEW t \in [Pid -> Process],
         NEW hand, NEW i \in 0 .. n - 1, NEW p \in Pid,
         Agrees(l, n, n, t, hand, 0),
         ~l[i].is_running \/ l[i].pid = hand,
         t[p].st = "free", p # hand
  PROVE  Agrees([l EXCEPT ![i] = Started(@, p)], n, n, Forked(t, p, l[i].app), hand, 0)
<1> DEFINE m == [l EXCEPT ![i] = Started(@, p)]
           u == Forked(t, p, l[i].app)
<1>1. i \in Slot /\ l[i] \in Entry
  BY ServerAssumption DEF Slot
<1>2. /\ \A j \in 0 .. n - 1 : j # i => m[j] = l[j]
      /\ m[i].pid = p /\ m[i].is_running /\ m[i].app = l[i].app /\ m[i].id = l[i].id
  BY <1>1, EntryFields, EntryTypes, ServerAssumption DEF Slot
<1>3. /\ u[p].st = "live" /\ u[p].app = l[i].app
      /\ \A q \in Pid : q # p => u[q] = t[q]
  BY DEF Forked
<1>4. \A j \in 0 .. n - 1 : j # i => l[j].pid # p
  BY <1>1, ServerAssumption DEF Agrees, Pid
<1>5. 0 \notin Pid
  BY DEF Pid
<1> HIDE DEF m, u
<1>6. ASSUME NEW j \in 0 .. n - 1
      PROVE  /\ ~m[j].is_running => m[j].pid = 0
             /\ j >= n => m[j].pid = 0
             /\ j < n => m[j].id = j
             /\ j < n /\ m[j].is_running =>
                  /\ m[j].pid \in Pid
                  /\ \/ m[j].pid = hand
                     \/ u[m[j].pid].st \in {"live", "zombie"} /\ u[m[j].pid].app = m[j].app
  <2>1. CASE j = i
    BY <1>2, <1>3, <2>1 DEF Agrees
  <2>2. CASE j # i
    BY <1>2, <1>3, <1>4, <2>2 DEF Agrees
  <2>3. QED BY <2>1, <2>2
<1>7. ASSUME NEW j \in 0 .. n - 1, NEW k \in 0 .. n - 1, m[j].pid = m[k].pid, m[j].pid # 0
      PROVE  j = k
  BY <1>2, <1>4, <1>7 DEF Agrees
<1>8. ASSUME NEW q \in Pid, u[q].st = "live"
      PROVE  \E j \in 0 .. n - 1 : m[j].pid = q /\ m[j].is_running /\ m[j].app = u[q].app
  <2>1. CASE q = p
    BY <1>2, <1>3, <2>1
  <2>2. CASE q # p
    <3>1. PICK j \in 0 .. n - 1 : l[j].pid = q /\ l[j].is_running /\ l[j].app = t[q].app
      BY <1>3, <1>5, <1>8, <2>2 DEF Agrees
    <3>2. j # i
      BY <1>3, <1>8, <2>2, <3>1 DEF Agrees
    <3>3. QED BY <1>2, <1>3, <2>2, <3>1, <3>2
  <2>3. QED BY <2>1, <2>2
<1>9. hand \in Pid => u[hand].st = "free"
  BY <1>3 DEF Agrees
<1>10. Agrees(m, n, n, u, hand, 0)
  BY <1>5, <1>6, <1>7, <1>8, <1>9 DEF Agrees
<1>11. QED BY <1>10 DEF m, u

\* Entry i is stopped and its process killed.
LEMMA AgreesStop ==
  ASSUME NEW l \in [Slot -> Entry], NEW n \in 0 .. ListSize, NEW t \in [Pid -> Process],
         NEW hand, NEW i \in 0 .. n - 1,
         Agrees(l, n, n, t, hand, 0)
  PROVE  /\ Agrees([l EXCEPT ![i] = Stopped(@)], n, n,
                   IF l[i].is_running THEN Killed(t, l[i].pid) ELSE t, hand, 0)
         /\ ~[l EXCEPT ![i] = Stopped(@)][i].is_running
<1> DEFINE m == [l EXCEPT ![i] = Stopped(@)]
           u == IF l[i].is_running THEN Killed(t, l[i].pid) ELSE t
<1>1. i \in Slot /\ l[i] \in Entry
  BY ServerAssumption DEF Slot
<1>2. /\ \A j \in 0 .. n - 1 : j # i => m[j] = l[j]
      /\ m[i].pid = 0 /\ ~m[i].is_running /\ m[i].app = l[i].app /\ m[i].id = l[i].id
  BY <1>1, EntryFields, EntryTypes, ServerAssumption DEF Slot, Agrees
<1>3. \A q \in Pid : /\ u[q].app = t[q].app
                     /\ t[q].st = "free" => u[q].st = "free"
                     /\ t[q].st \in {"live", "zombie"} => u[q].st \in {"live", "zombie"}
                     /\ u[q].st = "live" => t[q].st = "live"
                     /\ u[q].st = "live" /\ l[i].is_running => q # l[i].pid
  BY DEF Killed, Process
<1>4. 0 \notin Pid
  BY DEF Pid
<1> HIDE DEF m, u
<1>5. ASSUME NEW j \in 0 .. n - 1
      PROVE  /\ ~m[j].is_running => m[j].pid = 0
             /\ j >= n => m[j].pid = 0
             /\ j < n => m[j].id = j
             /\ j < n /\ m[j].is_running =>
                  /\ m[j].pid \in Pid
                  /\ \/ m[j].pid = hand
                     \/ u[m[j].pid].st \in {"live", "zombie"} /\ u[m[j].pid].app = m[j].app
  <2>1. CASE j = i
    BY <1>2, <2>1 DEF Agrees
  <2>2. CASE j # i
    BY <1>2, <1>3, <2>2 DEF Agrees
  <2>3. QED BY <2>1, <2>2
<1>6. ASSUME NEW j \in 0 .. n - 1, NEW k \in 0 .. n - 1, m[j].pid = m[k].pid, m[j].pid # 0
      PROVE  j = k
  BY <1>2, <1>6 DEF Agrees
<1>7. ASSUME NEW q \in Pid, u[q].st = "live"
      PROVE  \E j \in 0 .. n - 1 : m[j].pid = q /\ m[j].is_running /\ m[j].app = u[q].app
  <2>1. PICK j \in 0 .. n - 1 : l[j].pid = q /\ l[j].is_running /\ l[j].app = t[q].app
    BY <1>3, <1>4, <1>7 DEF Agrees
  <2>2. j # i
    BY <1>3, <1>7, <2>1
  <2>3. QED BY <1>2, <1>3, <2>1, <2>2
<1>8. hand \in Pid => u[hand].st = "free"
  BY <1>3 DEF Agrees
<1>9. Agrees(m, n, n, u, hand, 0)
  BY <1>4, <1>5, <1>6, <1>7, <1>8 DEF Agrees
<1>10. QED BY <1>2, <1>9 DEF m, u

\* An entry without process is appended.
LEMMA AgreesAppend ==
  ASSUME NEW l \in [Slot -> Entry], NEW n \in 0 .. ListSize - 1, NEW t \in [Pid -> Process],
         NEW hand, NEW e \in Entry,
         ~e.is_running, e.pid = 0, e.id = n,
         Agrees(l, n, n, t, hand, 0)
  PROVE  Agrees([l EXCEPT ![n] = e], n + 1, n + 1, t, hand, 0)
<1> DEFINE m == [l EXCEPT ![n] = e]
<1>1. n \in Slot /\ \A j \in 0 .. (n + 1) - 1 : j = n \/ j \in 0 .. n - 1
  BY ServerAssumption DEF Slot
<1>2. m[n] = e /\ \A j \in 0 .. n - 1 : m[j] = l[j]
  BY <1>1, ServerAssumption DEF Slot
<1>3. 0 \notin Pid /\ \A j \in 0 .. n - 1 : j < n + 1 /\ j < n /\ j \in 0 .. (n + 1) - 1
  BY DEF Pid
<1> HIDE DEF m
<1>4. ASSUME NEW j \in 0 .. (n + 1) - 1
      PROVE  /\ ~m[j].is_running => m[j].pid = 0
             /\ j >= n + 1 => m[j].pid = 0
             /\ j < n + 1 => m[j].id = j
             /\ j < n + 1 /\ m[j].is_running =>
                  /\ m[j].pid \in Pid
                  /\ \/ m[j].pid = hand
                     \/ t[m[j].pid].st \in {"live", "zombie"} /\ t[m[j].pid].app = m[j].app
  <2>1. CASE j = n
    BY <1>2, <2>1
  <2>2. CASE j \in 0 .. n - 1
    BY <1>2, <2>2 DEF Agrees
  <2>3. QED BY <1>1, <2>1, <2>2
<1>5. ASSUME NEW j \in 0 .. (n + 1) - 1, NEW k \in 0 .. (n + 1) - 1,
             m[j].pid = m[k].pid, m[j].pid # 0
      PROVE  j = k
  BY <1>1, <1>2, <1>5 DEF Agrees
<1>6. ASSUME NEW q \in Pid, t[q].st = "live"
      PROVE  \E j \in 0 .. (n + 1) - 1 : m[j].pid = q /\ m[j].is_running /\ m[j].app = t[q].app
  <2>1. PICK j \in 0 .. n - 1 : l[j].pid = q /\ l[j].is_running /\ l[j].app = t[q].app
    BY <1>3, <1>6 DEF Agrees
  <2>2. QED BY <1>2, <1>3, <2>1
<1>7. Agrees(m, n + 1, n + 1, t, hand, 0)
  BY <1>3, <1>4, <1>5, <1>6 DEF Agrees
<1>8. QED BY <1>7 DEF m

\* A stopped entry is deleted and the later ones move down.
LEMMA AgreesDelete ==
  ASSUME NEW l, NEW n \in 0 .. ListSize - 1, ListOK(l, n), NEW t \in [Pid -> Process],
         NEW hand, NEW k \in 0 .. n - 1,
         ~l[k].is_running,
         Agrees(l, n, n, t, hand, 0)
  PROVE  Agrees(del_process_by_app_name(l, l[k].app), n - 1, n - 1, t, hand, 0)
<1> DEFINE d    == del_process_by_app_name(l, l[k].app)
           f(j) == IF j < k THEN j ELSE j + 1
           g(i) == IF i < k THEN i ELSE i - 1
<1>1. d = [i \in Slot |-> IF i \in k .. n - 1 THEN ShiftedFrom(l, i + 1) ELSE l[i]]
  BY DeleteLemma
<1> HIDE DEF d
<1>2. ASSUME NEW j \in 0 .. (n - 1) - 1
      PROVE  /\ f(j) \in 0 .. n - 1 /\ f(j) # k
             /\ d[j].app = l[f(j)].app /\ d[j].pid = l[f(j)].pid
             /\ d[j].is_running = l[f(j)].is_running
             /\ d[j].id = j
  <2>1. f(j) \in 0 .. n - 1 /\ f(j) # k /\ j \in Slot /\ f(j) \in Slot
    BY ServerAssumption DEF Slot
  <2>2. l[f(j)] \in Entry /\ l[f(j)].id = f(j) /\ l[f(j)].app # NoApp
    BY <2>1 DEF ListOK, Filled, Agrees
  <2>3. CASE j < k
    BY <1>1, <2>1, <2>2, <2>3
  <2>4. CASE ~(j < k)
    <3>1. d[j] = ShiftedFrom(l, j + 1) /\ f(j) = j + 1
      BY <1>1, <2>1, <2>4
    <3>2. d[j] = [l[j + 1] EXCEPT !.id = l[j + 1].id - 1]
      BY <2>1, <2>2, <3>1 DEF ShiftedFrom
    <3>3. QED BY <2>1, <2>2, <3>1, <3>2 DEF Entry
  <2>5. QED BY <2>3, <2>4
<1>3. ASSUME NEW i \in 0 .. n - 1, i # k
      PROVE  g(i) \in 0 .. (n - 1) - 1 /\ f(g(i)) = i
  BY <1>3
<1>4. 0 \notin Pid
  BY DEF Pid
<1>5. \A i, j \in 0 .. (n - 1) - 1 : f(i) = f(j) => i = j
  OBVIOUS
<1>6. \A i, j \in 0 .. n - 1 : l[i].pid = l[j].pid /\ l[i].pid # 0 => i = j
  BY DEF Agrees
<1> HIDE DEF f, g
<1>7. ASSUME NEW j \in 0 .. (n - 1) - 1
      PROVE  /\ ~d[j].is_running => d[j].pid = 0
             /\ j >= n - 1 => d[j].pid = 0
             /\ j < n - 1 => d[j].id = j
             /\ j < n - 1 /\ d[j].is_running =>
                  /\ d[j].pid \in Pid
                  /\ \/ d[j].pid = hand
                     \/ t[d[j].pid].st \in {"live", "zombie"} /\ t[d[j].pid].app = d[j].app
  <2>1. f(j) < n
    BY <1>2
  <2>2. QED BY <1>2, <2>1 DEF Agrees
<1>8. ASSUME NEW i \in 0 .. (n - 1) - 1, NEW j \in 0 .. (n - 1) - 1,
             d[i].pid = d[j].pid, d[i].pid # 0
      PROVE  i = j
  BY <1>2, <1>5, <1>6, <1>8
<1>9. ASSUME NEW q \in Pid, t[q].st = "live"
      PROVE  \E j \in 0 .. (n - 1) - 1 : d[j].pid = q /\ d[j].is_running /\ d[j].app = t[q].app
  <2>1. PICK i \in 0 .. n - 1 : l[i].pid = q /\ l[i].is_running /\ l[i].app = t[q].app
    BY <1>4, <1>9 DEF Agrees
  <2>2. i # k
    BY <2>1
  <2>3. QED BY <1>2, <1>3, <2>1, <2>2
<1>10. Agrees(d, n - 1, n - 1, t, hand, 0)
  BY <1>4, <1>7, <1>8, <1>9 DEF Agrees
<1>11. QED BY <1>10 DEF d

\* A process that ends becomes a zombie: list and table agree as before, in boot too.
LEMMA AgreesExit ==
  ASSUME NEW l, NEW n, NEW k, NEW t \in [Pid -> Process], NEW hand, NEW child, NEW p \in Pid,
         Agrees(l, n, k, t, hand, child), t[p].st = "live"
  PROVE  Agrees(l, n, k, [t EXCEPT ![p].st = "zombie"], hand, child)
<1> DEFINE u == [t EXCEPT ![p].st = "zombie"]
<1>1. \A q \in Pid : /\ u[q].app = t[q].app
                     /\ u[q].st = IF q = p THEN "zombie" ELSE t[q].st
  BY DEF Process
<1> HIDE DEF u
<1>2. QED BY <1>1 DEF Agrees, u

\* A survivor of an earlier daemon ends: it is in no entry.
LEMMA AgreesOrphan ==
  ASSUME NEW l, NEW n, NEW k, NEW t \in [Pid -> Process], NEW hand, NEW child, NEW p \in Pid,
         Agrees(l, n, k, t, hand, child), t[p].st = "orphan"
  PROVE  Agrees(l, n, k, [t EXCEPT ![p] = Free], hand, child)
<1> DEFINE u == [t EXCEPT ![p] = Free]
<1>1. u[p].st = "free" /\ \A q \in Pid : q # p => u[q] = t[q]
  BY DEF Free
<1> HIDE DEF u
<1>2. \A q \in Pid : t[q].st \in {"live", "zombie", "free"} => u[q].st = t[q].st
  BY <1>1
<1>3. \A q \in Pid : t[q].st \in {"live", "zombie"} => u[q] = t[q]
  BY <1>1
<1>4. \A q \in Pid : u[q].st = "live" => t[q].st = "live" /\ u[q] = t[q]
  BY <1>1
<1>5. QED BY <1>2, <1>3, <1>4 DEF Agrees, u

\* wait() returns a zombie: its pid is in hand and free.
LEMMA AgreesReap ==
  ASSUME NEW l, NEW n, NEW k, NEW t \in [Pid -> Process], NEW p \in Pid,
         Agrees(l, n, k, t, 0, 0), t[p].st = "zombie"
  PROVE  Agrees(l, n, k, [t EXCEPT ![p] = Free], p, 0)
<1> DEFINE u == [t EXCEPT ![p] = Free]
<1>1. u[p].st = "free" /\ \A q \in Pid : q # p => u[q] = t[q]
  BY DEF Free
<1>2. 0 \notin Pid
  BY DEF Pid
<1> HIDE DEF u
<1>3. \A i \in 0 .. n - 1 :
        /\ ~l[i].is_running => l[i].pid = 0
        /\ i >= k => l[i].pid = 0
        /\ i < k => l[i].id = i
        /\ i < k /\ l[i].is_running =>
             /\ l[i].pid \in Pid
             /\ \/ l[i].pid = p
                \/ u[l[i].pid].st \in {"live", "zombie"} /\ u[l[i].pid].app = l[i].app
  BY <1>1, <1>2 DEF Agrees
<1>4. \A q \in Pid : u[q].st = "live" => t[q].st = "live" /\ u[q] = t[q]
  BY <1>1
<1>5. Agrees(l, n, k, u, p, 0)
  BY <1>1, <1>2, <1>3, <1>4 DEF Agrees
<1>6. QED BY <1>5 DEF u

\* The pid in hand is dropped once no running entry records it.
LEMMA AgreesDrop ==
  ASSUME NEW l, NEW n, NEW t, NEW hand,
         Agrees(l, n, n, t, hand, 0),
         \A i \in 0 .. n - 1 : l[i].is_running => l[i].pid # hand
  PROVE  Agrees(l, n, n, t, 0, 0)
BY DEF Agrees, Pid

\* A list with other app, id, pid and is_running fields nowhere.
LEMMA AgreesSame ==
  ASSUME NEW l, NEW m, NEW n \in Nat, NEW k \in 0 .. n, NEW t, NEW hand, NEW child,
         Agrees(l, n, k, t, hand, child), child = 0 \/ k < n,
         \A i \in 0 .. n - 1 : /\ m[i].app = l[i].app /\ m[i].id = l[i].id
                               /\ m[i].pid = l[i].pid /\ m[i].is_running = l[i].is_running
  PROVE  Agrees(m, n, k, t, hand, child)
<1>1. child \in Pid => k \in 0 .. n - 1
  BY DEF Pid
<1>2. \A p \in Pid : t[p].st = "live" =>
        \/ p = child
        \/ \E i \in 0 .. n - 1 : m[i].pid = p /\ m[i].is_running /\ m[i].app = t[p].app
  BY DEF Agrees
<1>3. QED BY <1>1, <1>2 DEF Agrees

Numbered(l, k) == [l EXCEPT ![k] = [l[k] EXCEPT !.id = k]]

\* Boot numbers entry k; one that is not to run is done with.
LEMMA AgreesVisit ==
  ASSUME NEW l \in [Slot -> Entry], NEW n \in 0 .. ListSize, NEW k \in 0 .. n - 1,
         NEW t \in [Pid -> Process],
         Agrees(l, n, k, t, 0, 0)
  PROVE  /\ Agrees(Numbered(l, k), n, k, t, 0, 0)
         /\ ~l[k].is_running => Agrees(Numbered(l, k), n, k + 1, t, 0, 0)
         /\ Numbered(l, k)[k].is_running = l[k].is_running /\ Numbered(l, k)[k].id = k
<1> DEFINE m == Numbered(l, k)
<1>1. k \in Slot /\ l[k] \in Entry
  BY ServerAssumption DEF Slot
<1>2. /\ \A i \in 0 .. n - 1 : i # k => m[i] = l[i]
      /\ m[k].app = l[k].app /\ m[k].pid = l[k].pid
      /\ m[k].is_running = l[k].is_running /\ m[k].id = k
  BY <1>1, ServerAssumption DEF Slot, Entry, Numbered
<1> HIDE DEF m
<1>3. 0 \notin Pid
  BY DEF Pid
<1>4. \A i \in 0 .. n - 1 : /\ m[i].app = l[i].app /\ m[i].pid = l[i].pid
                            /\ m[i].is_running = l[i].is_running
                            /\ i < k => m[i].id = l[i].id
  BY <1>2
<1>5. /\ \A i, j \in 0 .. n - 1 : m[i].pid = m[j].pid /\ m[i].pid # 0 => i = j
      /\ \A p \in Pid : t[p].st = "live" =>
           \E i \in 0 .. n - 1 : m[i].pid = p /\ m[i].is_running /\ m[i].app = t[p].app
  BY <1>3, <1>4 DEF Agrees
<1>6. Agrees(m, n, k, t, 0, 0)
  BY <1>3, <1>4, <1>5 DEF Agrees
<1>7. ASSUME ~l[k].is_running PROVE Agrees(m, n, k + 1, t, 0, 0)
  <2>1. \A i \in 0 .. n - 1 :
          /\ ~m[i].is_running => m[i].pid = 0
          /\ i >= k + 1 => m[i].pid = 0
          /\ i < k + 1 => m[i].id = i
          /\ i < k + 1 /\ m[i].is_running =>
               /\ m[i].pid \in Pid
               /\ \/ m[i].pid = 0
                  \/ t[m[i].pid].st \in {"live", "zombie"} /\ t[m[i].pid].app = m[i].app
    <3>1. SUFFICES ASSUME NEW i \in 0 .. n - 1
                   PROVE  /\ ~m[i].is_running => m[i].pid = 0
                          /\ i >= k + 1 => m[i].pid = 0
                          /\ i < k + 1 => m[i].id = i
                          /\ i < k + 1 /\ m[i].is_running =>
                               /\ m[i].pid \in Pid
                               /\ \/ m[i].pid = 0
                                  \/ /\ t[m[i].pid].st \in {"live", "zombie"}
                                     /\ t[m[i].pid].app = m[i].app
      OBVIOUS
    <3>2. CASE i < k
      BY <1>4, <3>2 DEF Agrees
    <3>3. CASE i = k
      BY <1>2, <1>7, <3>3 DEF Agrees
    <3>4. CASE i > k
      BY <1>4, <3>4 DEF Agrees
    <3>5. QED BY <3>2, <3>3, <3>4
  <2>2. QED BY <1>3, <1>5, <2>1 DEF Agrees
<1>8. QED BY <1>2, <1>6, <1>7 DEF m

\* Boot forks for entry k.
LEMMA AgreesBootFork ==
  ASSUME NEW l, NEW n \in 0 .. ListSize, NEW k \in 0 .. n - 1, NEW t \in [Pid -> Process],
         NEW p \in Pid, t[p].st = "free",
         Agrees(l, n, k, t, 0, 0)
  PROVE  Agrees(l, n, k, Forked(t, p, l[k].app), 0, p)
<1> DEFINE u == Forked(t, p, l[k].app)
<1>1. /\ u[p].st = "live" /\ u[p].app = l[k].app
      /\ \A q \in Pid : q # p => u[q] = t[q]
  BY DEF Forked
<1>2. 0 \notin Pid
  BY DEF Pid
<1>3. \A i \in 0 .. n - 1 : l[i].pid # p
  BY <1>2 DEF Agrees
<1> HIDE DEF u
<1>4. \A q \in Pid : u[q].st = "live" =>
        \/ q = p
        \/ \E i \in 0 .. n - 1 : l[i].pid = q /\ l[i].is_running /\ l[i].app = u[q].app
  BY <1>1, <1>2 DEF Agrees
<1>5. \A i \in 0 .. n - 1 : i < k /\ l[i].is_running =>
        /\ l[i].pid \in Pid
        /\ u[l[i].pid].st \in {"live", "zombie"} /\ u[l[i].pid].app = l[i].app
  BY <1>1, <1>2, <1>3 DEF Agrees
<1>6. Agrees(l, n, k, u, 0, p)
  BY <1>1, <1>2, <1>3, <1>4, <1>5 DEF Agrees
<1>7. QED BY <1>6 DEF u

\* Boot records the child of entry k.
LEMMA AgreesBootRecord ==
  ASSUME NEW l \in [Slot -> Entry], NEW n \in 0 .. ListSize, NEW k \in 0 .. n - 1,
         NEW t \in [Pid -> Process], NEW c \in Pid,
         l[k].id = k,
         Agrees(l, n, k, t, 0, c)
  PROVE  Agrees([l EXCEPT ![k] = Started(@, c)], n, k + 1, t, 0, 0)
<1> DEFINE m == [l EXCEPT ![k] = Started(@, c)]
<1>1. k \in Slot /\ l[k] \in Entry
  BY ServerAssumption DEF Slot
<1>2. /\ \A i \in 0 .. n - 1 : i # k => m[i] = l[i]
      /\ m[k].pid = c /\ m[k].is_running /\ m[k].app = l[k].app /\ m[k].id = k
  BY <1>1, EntryFields, EntryTypes, ServerAssumption DEF Slot
<1>3. 0 \notin Pid
  BY DEF Pid
<1>4. \A i \in 0 .. n - 1 : l[i].pid # c
  BY DEF Agrees
<1> HIDE DEF m
<1>5. ASSUME NEW i \in 0 .. n - 1
      PROVE  /\ ~m[i].is_running => m[i].pid = 0
             /\ i >= k + 1 => m[i].pid = 0
             /\ i < k + 1 => m[i].id = i
             /\ i < k + 1 /\ m[i].is_running =>
                  /\ m[i].pid \in Pid
                  /\ \/ m[i].pid = 0
                     \/ t[m[i].pid].st \in {"live", "zombie"} /\ t[m[i].pid].app = m[i].app
  <2>1. CASE i < k
    BY <1>2, <2>1 DEF Agrees
  <2>2. CASE i = k
    BY <1>2, <2>2 DEF Agrees
  <2>3. CASE i > k
    BY <1>2, <2>3 DEF Agrees
  <2>4. QED BY <2>1, <2>2, <2>3
<1>6. ASSUME NEW i \in 0 .. n - 1, NEW j \in 0 .. n - 1, m[i].pid = m[j].pid, m[i].pid # 0
      PROVE  i = j
  BY <1>2, <1>4, <1>6 DEF Agrees
<1>7. ASSUME NEW q \in Pid, t[q].st = "live"
      PROVE  \E i \in 0 .. n - 1 : m[i].pid = q /\ m[i].is_running /\ m[i].app = t[q].app
  <2>1. CASE q = c
    BY <1>2, <2>1 DEF Agrees
  <2>2. CASE q # c
    <3>1. PICK i \in 0 .. n - 1 : l[i].pid = q /\ l[i].is_running /\ l[i].app = t[q].app
      BY <1>7, <2>2 DEF Agrees
    <3>2. i # k
      BY <1>3, <3>1 DEF Agrees
    <3>3. QED BY <1>2, <3>1, <3>2
  <2>3. QED BY <2>1, <2>2
<1>8. Agrees(m, n, k + 1, t, 0, 0)
  BY <1>3, <1>5, <1>6, <1>7 DEF Agrees
<1>9. QED BY <1>8 DEF m

\* A list without processes and a table without children agree.
LEMMA AgreesFresh ==
  ASSUME NEW l, NEW n \in 0 .. ListSize, NEW t,
         \A i \in 0 .. n - 1 : l[i].pid = 0,
         \A p \in Pid : t[p].st # "live"
  PROVE  Agrees(l, n, 0, t, 0, 0)
BY DEF Agrees, Pid

==============================================================================
