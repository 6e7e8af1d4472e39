----------------------- MODULE ClassifierProcessProofs ----------------------
(***************************************************************************)
(* Proofs about the classifier's threads, for any number of workers, any   *)
(* capacity of the event queue, any width of its counters and any policy   *)
(* documents.                                                              *)
(***************************************************************************)
EXTENDS ClassifierProcess, FiniteSetTheorems, SequenceTheorems, TLAPS

(* Division with remainder. *)
LEMMA DivMod ==
  ASSUME NEW n \in Nat \ {0}, NEW x \in Nat
  PROVE  x % n \in 0 .. n - 1 /\ x \div n \in Int /\ x = n * (x \div n) + (x % n)
OBVIOUS

(* A remainder is the only one. *)
LEMMA ModUnique ==
  ASSUME NEW n \in Nat \ {0}, NEW q \in Int, NEW r \in 0 .. n - 1
  PROVE  (n * q + r) % n = r
OBVIOUS

(* A remainder may be taken before or after an addition. *)
LEMMA ModAdd ==
  ASSUME NEW n \in Nat \ {0}, NEW x \in Nat, NEW y \in Nat
  PROVE  (x + y) % n = ((x % n) + y) % n
<1> DEFINE q == x \div n
<1> DEFINE r == x % n
<1>1. q \in Int /\ r \in 0 .. n - 1 /\ x = n * q + r
  BY DivMod
<1> HIDE DEF q, r
<1> DEFINE z == r + y
<1>2. z \in Nat
  BY <1>1
<1> HIDE DEF z
<1> DEFINE p == z \div n
<1> DEFINE s == z % n
<1>3. p \in Int /\ s \in 0 .. n - 1 /\ z = n * p + s
  BY <1>2, DivMod
<1> HIDE DEF p, s
<1> DEFINE d == q + p
<1>4. d \in Int /\ x + y = n * d + s
  BY <1>1, <1>3 DEF z
<1> HIDE DEF d
<1>5. (n * d + s) % n = s
  BY <1>3, <1>4, ModUnique
<1> QED BY <1>4, <1>5 DEF r, s, z

(* Positions less than a lap apart are different. *)
LEMMA ModApart ==
  ASSUME NEW n \in Nat \ {0}, NEW x \in Nat, NEW y \in Nat, x < y, y - x < n
  PROVE  x % n # y % n
<1> DEFINE q == x \div n
<1> DEFINE p == y \div n
<1> DEFINE r == x % n
<1> DEFINE s == y % n
<1>1. q \in Int /\ r \in 0 .. n - 1 /\ x = n * q + r
  BY DivMod
<1>2. p \in Int /\ s \in 0 .. n - 1 /\ y = n * p + s
  BY DivMod
<1> HIDE DEF q, p, r, s
<1> SUFFICES ASSUME r = s PROVE FALSE
  BY DEF r, s
<1> DEFINE d == p - q
<1>3. d \in Int /\ y - x = n * d
  BY <1>1, <1>2
<1> HIDE DEF d
<1>4. n * d > 0 /\ n * d < n
  BY <1>3
<1>5. d >= 1
  BY <1>3, <1>4
<1> QED BY <1>3, <1>4, <1>5
-----------------------------------------------------------------------------
(* The ring holds events of workers between its tail and its head. *)
RingInv ==
  /\ queue.head = (queue.tail + queue.count) % Capacity
  /\ \A i \in 0 .. queue.count - 1 : queue.items[(queue.tail + i) % Capacity] \in Workers
  /\ exporter = "send" <=> inflight # None

(* No worker runs before the main thread has created it or after it has    *)
(* joined it, and the queue is closed last.                                *)
ShutdownInv ==
  /\ main = "queue" => exporter = "none"
  /\ main \in {"queue", "workers", "listen"} => \A w \in Workers : worker[w] = "none"
  /\ main \in {"joinListener", "destroy", "joinExporter", "exited"} =>
       \A w \in Workers : worker[w] \in {"none", "done", "failed"}
  /\ queue.stopping => main \in {"joinExporter", "exited"}

(* The active policy is the initial one or was accepted. *)
PolicyInv ==
  \/ active = InitialPolicy
  \/ \E m \in Messages, l \in BOOLEAN : Valid(m) /\ active = PolicyOf(m, l)

(* The inductive invariant. *)
ProcessIndInv == TypeOK /\ RingInv /\ ShutdownInv /\ EventsAccounted /\ PolicyInv

(* The fields of a queue record, and of the counters. *)
LEMMA QueueFields ==
  ASSUME TypeOK
  PROVE  /\ queue.items \in [Slots -> Workers \cup {None}] /\ queue.head \in 0 .. Capacity - 1
         /\ queue.tail \in 0 .. Capacity - 1 /\ queue.count \in 0 .. Capacity /\ queue.stopping \in BOOLEAN
         /\ sent \in 0 .. CounterSize - 1 /\ dropped \in 0 .. CounterSize - 1
         /\ pushed \in 0 .. CounterSize - 1 /\ Capacity \in Nat \ {0} /\ CounterSize \in Nat \ {0}
BY QueueAssumption DEF TypeOK, Slots

(* A counter stays within its width. *)
LEMMA IncType ==
  ASSUME NEW c \in 0 .. CounterSize - 1
  PROVE  Inc(c) \in 0 .. CounterSize - 1
BY QueueAssumption DEF Inc

(* What a step of sdwan_event_push does to the ring. *)
LEMMA PushRing ==
  ASSUME TypeOK, RingInv, NEW w \in Workers, queue.count < Capacity,
         queue' = [queue EXCEPT !.items[queue.head] = w, !.head = (queue.head + 1) % Capacity, !.count = @ + 1]
  PROVE  /\ queue' \in [items : [Slots -> Workers \cup {None}], head : Slots, tail : Slots,
                         count : 0 .. Capacity, stopping : BOOLEAN]
         /\ queue'.count = queue.count + 1 /\ queue'.stopping = queue.stopping /\ queue'.tail = queue.tail
         /\ queue'.head = (queue.tail + queue.count + 1) % Capacity
         /\ queue'.items[(queue.tail + queue.count) % Capacity] = w
         /\ \A i \in 0 .. queue.count - 1 :
              queue'.items[(queue.tail + i) % Capacity] = queue.items[(queue.tail + i) % Capacity]
<1>1. queue \in [items : [Slots -> Workers \cup {None}], head : Slots, tail : Slots,
                 count : 0 .. Capacity, stopping : BOOLEAN]
  BY DEF TypeOK
<1> DEFINE C == Capacity
<1> DEFINE h == queue.head
<1> DEFINE t == queue.tail
<1> DEFINE n == queue.count
<1>2. C \in Nat \ {0} /\ h \in 0 .. C - 1 /\ t \in 0 .. C - 1 /\ n \in 0 .. C - 1 /\ Slots = 0 .. C - 1
  BY QueueFields DEF Slots
<1>3. h = (t + n) % C
  BY DEF RingInv
<1>4. /\ queue'.items = [queue.items EXCEPT ![h] = w] /\ queue'.head = (h + 1) % C /\ queue'.tail = t
      /\ queue'.count = n + 1 /\ queue'.stopping = queue.stopping
      /\ DOMAIN queue' = DOMAIN queue
  BY <1>1
<1>5. queue' = [items |-> [queue.items EXCEPT ![h] = w], head |-> (h + 1) % C, tail |-> t, count |-> n + 1,
                stopping |-> queue.stopping]
  BY <1>1
<1>6. queue.items \in [Slots -> Workers \cup {None}] /\ queue.stopping \in BOOLEAN
  BY <1>1
<1> HIDE DEF C, h, t, n
<1>7. (h + 1) % C \in 0 .. C - 1 /\ n + 1 \in 0 .. C
  BY <1>2, DivMod
<1>8. (h + 1) % C = (t + n + 1) % C
  <2>1. t + n \in Nat /\ 1 \in Nat /\ (t + n) + 1 = t + n + 1
    BY <1>2
  <2> QED BY <1>2, <1>3, <2>1, ModAdd
<1>9. ASSUME NEW i \in 0 .. n - 1
      PROVE  (t + i) % C # h /\ (t + i) % C \in Slots
  <2>1. t + i \in Nat /\ t + n \in Nat /\ t + i < t + n /\ (t + n) - (t + i) < C
    BY <1>2
  <2>2. (t + i) % C # (t + n) % C
    BY <1>2, <2>1, ModApart
  <2>3. (t + i) % C \in 0 .. C - 1
    BY <1>2, <2>1, DivMod
  <2> QED BY <1>2, <1>3, <2>2, <2>3
<1>10. queue' \in [items : [Slots -> Workers \cup {None}], head : Slots, tail : Slots,
                   count : 0 .. C, stopping : BOOLEAN]
  BY <1>2, <1>5, <1>6, <1>7
<1>11. queue'.items[h] = w
  BY <1>2, <1>4, <1>6
<1>12. \A i \in 0 .. n - 1 : queue'.items[(t + i) % C] = queue.items[(t + i) % C]
  BY <1>4, <1>6, <1>9
<1> QED BY <1>3, <1>4, <1>8, <1>10, <1>11, <1>12 DEF C, h, t, n

(* What taking the oldest event does to it. *)
LEMMA TakeRing ==
  ASSUME TypeOK, RingInv, queue.count > 0,
         queue' = [queue EXCEPT !.tail = (@ + 1) % Capacity, !.count = @ - 1]
  PROVE  /\ queue' \in [items : [Slots -> Workers \cup {None}], head : Slots, tail : Slots,
                         count : 0 .. Capacity, stopping : BOOLEAN]
         /\ queue'.count = queue.count - 1 /\ queue'.stopping = queue.stopping /\ queue'.items = queue.items
         /\ queue'.head = (queue'.tail + queue'.count) % Capacity
         /\ \A i \in 0 .. queue.count - 2 : (queue'.tail + i) % Capacity = (queue.tail + (i + 1)) % Capacity
         /\ queue.items[queue.tail] = queue.items[(queue.tail + 0) % Capacity]
<1>1. queue \in [items : [Slots -> Workers \cup {None}], head : Slots, tail : Slots,
                 count : 0 .. Capacity, stopping : BOOLEAN]
  BY DEF TypeOK
<1> DEFINE C == Capacity
<1> DEFINE h == queue.head
<1> DEFINE t == queue.tail
<1> DEFINE n == queue.count
<1> DEFINE u == (t + 1) % C
<1>2. C \in Nat \ {0} /\ h \in 0 .. C - 1 /\ t \in 0 .. C - 1 /\ n \in 1 .. C /\ Slots = 0 .. C - 1
  BY QueueFields DEF Slots
<1>3. h = (t + n) % C
  BY DEF RingInv
<1>4. queue' = [items |-> queue.items, head |-> h, tail |-> u, count |-> n - 1, stopping |-> queue.stopping]
  BY <1>1
<1>5. queue.items \in [Slots -> Workers \cup {None}] /\ queue.stopping \in BOOLEAN
  BY <1>1
<1>6. /\ queue'.items = queue.items /\ queue'.head = h /\ queue'.tail = u /\ queue'.count = n - 1
      /\ queue'.stopping = queue.stopping
  BY <1>1
<1> HIDE DEF C, h, t, n
<1>7. u \in 0 .. C - 1 /\ n - 1 \in 0 .. C
  BY <1>2, DivMod
<1>8. ASSUME NEW i \in Nat
      PROVE  (u + i) % C = (t + (i + 1)) % C
  <2>1. t + 1 \in Nat /\ (t + 1) + i = t + (i + 1)
    BY <1>2
  <2> QED BY <1>2, <2>1, ModAdd
<1>9. (t + 0) % C = t
  BY <1>2
<1> HIDE DEF u
<1>10. h = (u + (n - 1)) % C
  <2>1. n - 1 \in Nat /\ (n - 1) + 1 = n
    BY <1>2
  <2> QED BY <1>3, <1>8, <2>1
<1>11. queue' \in [items : [Slots -> Workers \cup {None}], head : Slots, tail : Slots,
                   count : 0 .. C, stopping : BOOLEAN]
  BY <1>2, <1>4, <1>5, <1>7
<1>12. \A i \in 0 .. n - 2 : (u + i) % C = (t + (i + 1)) % C
  BY <1>2, <1>8
<1> QED BY <1>6, <1>9, <1>10, <1>11, <1>12 DEF C, h, t, n
-----------------------------------------------------------------------------
(* The ring as a sequence, for any ring. *)
LEMMA RingSequence ==
  ASSUME NEW n \in Nat, NEW t \in Nat, NEW items, NEW seq,
         seq = [i \in 1 .. n |-> items[(t + i - 1) % Capacity]],
         \A i \in 0 .. n - 1 : items[(t + i) % Capacity] \in Workers
  PROVE  /\ seq \in Seq(Workers) /\ Len(seq) = n
         /\ \A i \in 1 .. n : seq[i] = items[(t + (i - 1)) % Capacity]
<1>1. \A i \in 1 .. n : t + i - 1 = t + (i - 1) /\ i - 1 \in 0 .. n - 1
  OBVIOUS
<1>2. \A i \in 1 .. n : items[(t + i - 1) % Capacity] \in Workers
  BY <1>1
<1>3. seq \in Seq(Workers) /\ Len(seq) = n
  BY <1>2
<1>4. \A i \in 1 .. n : seq[i] = items[(t + (i - 1)) % Capacity]
  BY <1>1
<1> QED BY <1>3, <1>4

(* So it is before a step. *)
LEMMA PendingType ==
  ASSUME TypeOK, RingInv
  PROVE  /\ Pending \in Seq(Workers) /\ Len(Pending) = queue.count
         /\ \A i \in 1 .. queue.count : Pending[i] = queue.items[(queue.tail + (i - 1)) % Capacity]
<1>1. queue.count \in Nat /\ queue.tail \in Nat
  BY QueueFields
<1> QED BY <1>1, RingSequence DEF RingInv, Pending

(* The same of the state after the step. *)
LEMMA PendingTypePrime ==
  ASSUME TypeOK', RingInv'
  PROVE  /\ Pending' \in Seq(Workers) /\ Len(Pending') = queue'.count
         /\ \A i \in 1 .. queue'.count : Pending'[i] = queue'.items[(queue'.tail + (i - 1)) % Capacity]
<1>1. queue'.count \in Nat /\ queue'.tail \in Nat
  BY QueueAssumption DEF TypeOK, Slots
<1> QED BY <1>1, RingSequence DEF RingInv, Pending
-----------------------------------------------------------------------------
(* A counter that has wrapped counts the same, modulo its width. *)
LEMMA IncSum ==
  ASSUME NEW c \in 0 .. CounterSize - 1, NEW y \in Nat
  PROVE  (Inc(c) + y) % CounterSize = (c + 1 + y) % CounterSize
<1>1. c + 1 \in Nat /\ CounterSize \in Nat \ {0}
  BY QueueAssumption
<1>2. ((c + 1) + y) % CounterSize = (((c + 1) % CounterSize) + y) % CounterSize
  BY <1>1, ModAdd
<1> QED BY <1>2 DEF Inc

(* What the accounting is about is well typed, before and after a step. *)
LEMMA AccountTypes ==
  /\ TypeOK => /\ sent \in 0 .. CounterSize - 1 /\ dropped \in 0 .. CounterSize - 1
               /\ Held \in Nat /\ CounterSize \in Nat \ {0}
  /\ TypeOK' => Held' \in Nat
<1>1. TypeOK => queue.count \in Nat /\ sent \in 0 .. CounterSize - 1 /\ dropped \in 0 .. CounterSize - 1
  BY QueueFields
<1>2. TypeOK' => queue'.count \in Nat
  BY QueueAssumption DEF TypeOK
<1> QED BY <1>1, <1>2, QueueAssumption DEF Held

(* One more event is counted on both sides. *)
LEMMA CountPushed ==
  ASSUME TypeOK, TypeOK', EventsAccounted, pushed' = Inc(pushed),
         \/ Held' = Held + 1 /\ sent' = sent /\ dropped' = dropped
         \/ Held' = Held /\ sent' = sent /\ dropped' = Inc(dropped)
  PROVE  EventsAccounted'
<1> DEFINE N == CounterSize
<1> DEFINE total == sent + dropped + Held
<1>1. /\ sent \in 0 .. N - 1 /\ dropped \in 0 .. N - 1 /\ Held \in Nat /\ N \in Nat \ {0}
      /\ pushed = (sent + dropped + Held) % N
  BY AccountTypes DEF EventsAccounted
<1>2. total \in Nat /\ pushed = total % N
  BY <1>1
<1>3. pushed' = ((total % N) + 1) % N
  BY <1>2 DEF Inc
<1>4. pushed' = (total + 1) % N
  <2> HIDE DEF total, N
  <2> QED BY <1>1, <1>2, <1>3, ModAdd
<1>5. (sent' + dropped' + Held') % N = (total + 1) % N
  <2>1. CASE Held' = Held + 1 /\ sent' = sent /\ dropped' = dropped
    <3>1. sent' + dropped' + Held' = total + 1
      BY <1>1, <2>1
    <3> QED BY <3>1
  <2>2. CASE Held' = Held /\ sent' = sent /\ dropped' = Inc(dropped)
    <3>1. Inc(dropped) \in Nat
      BY <1>1, IncType
    <3>2. sent' + dropped' + Held' = Inc(dropped) + (sent + Held) /\ sent + Held \in Nat
      BY <1>1, <2>2, <3>1
    <3>3. (Inc(dropped) + (sent + Held)) % N = (dropped + 1 + (sent + Held)) % N
      BY <1>1, <3>2, IncSum
    <3>4. dropped + 1 + (sent + Held) = total + 1
      BY <1>1
    <3> QED BY <3>2, <3>3, <3>4
  <2> QED BY <2>1, <2>2
<1> QED BY <1>4, <1>5 DEF EventsAccounted

(* Sums of three. *)
LEMMA Regroup ==
  ASSUME NEW a \in Nat, NEW b \in Nat, NEW c \in Nat
  PROVE  a + b + c = a + (b + c) /\ a + b + c = b + (a + c) /\ b + c \in Nat /\ a + c \in Nat
OBVIOUS

(* An event leaves the exporter and is counted. *)
LEMMA CountSent ==
  ASSUME TypeOK, TypeOK', EventsAccounted, pushed' = pushed, Held = Held' + 1,
         \/ sent' = Inc(sent) /\ dropped' = dropped
         \/ sent' = sent /\ dropped' = Inc(dropped)
  PROVE  EventsAccounted'
<1> DEFINE N == CounterSize
<1>1. /\ sent \in 0 .. N - 1 /\ dropped \in 0 .. N - 1 /\ Held \in Nat /\ Held' \in Nat /\ N \in Nat \ {0}
      /\ pushed = (sent + dropped + Held) % N
  BY AccountTypes DEF EventsAccounted
<1> DEFINE k == Held'
<1>2. sent \in Nat /\ dropped \in Nat /\ k \in Nat /\ Held = k + 1
  BY <1>1
<1> HIDE DEF k
<1>3. (sent' + dropped' + Held') % N = (sent + dropped + Held) % N
  <2>1. CASE sent' = Inc(sent) /\ dropped' = dropped
    <3>1. Inc(sent) \in Nat
      BY <1>1, IncType
    <3>2. sent' + dropped' + Held' = Inc(sent) + (dropped + k) /\ dropped + k \in Nat
      <4>1. sent' + dropped' + Held' = Inc(sent) + dropped + k
        BY <2>1, Zenon DEF k
      <4> QED BY <1>2, <3>1, <4>1, Regroup
    <3>3. (Inc(sent) + (dropped + k)) % N = (sent + 1 + (dropped + k)) % N
      BY <1>1, <3>2, IncSum
    <3>4. sent + 1 + (dropped + k) = sent + dropped + Held
      BY <1>2
    <3> QED BY <3>2, <3>3, <3>4
  <2>2. CASE sent' = sent /\ dropped' = Inc(dropped)
    <3>1. Inc(dropped) \in Nat
      BY <1>1, IncType
    <3>2. sent' + dropped' + Held' = Inc(dropped) + (sent + k) /\ sent + k \in Nat
      <4>1. sent' + dropped' + Held' = sent + Inc(dropped) + k
        BY <2>2, Zenon DEF k
      <4> QED BY <1>2, <3>1, <4>1, Regroup
    <3>3. (Inc(dropped) + (sent + k)) % N = (dropped + 1 + (sent + k)) % N
      BY <1>1, <3>2, IncSum
    <3>4. dropped + 1 + (sent + k) = sent + dropped + Held
      BY <1>2
    <3> QED BY <3>2, <3>3, <3>4
  <2> QED BY <2>1, <2>2
<1> QED BY <1>1, <1>3 DEF EventsAccounted
-----------------------------------------------------------------------------
(* A policy taken from a document has its fields. *)
LEMMA SnapshotFields ==
  ASSUME NEW m, NEW l
  PROVE  LET p == PolicyOf(m, l)
         IN  /\ p.generation = m.generation /\ p.version = m.version /\ p.lapsed = l /\ p.paths = m.paths
             /\ p.ranks = m.ranks /\ p.unknown = m.unknown /\ p.apps = m.apps /\ p.categories = m.categories
<1>1. DOMAIN InitialPolicy = {"generation", "version", "lapsed", "paths", "ranks", "unknown", "apps", "categories"}
  BY DEF InitialPolicy
<1>2. Snapshot(m) = [f \in {"generation", "version", "lapsed", "paths", "ranks", "unknown", "apps", "categories"} |-> m[f]]
  BY <1>1 DEF Snapshot
<1> QED BY <1>2 DEF PolicyOf

(* A document taken as it is. *)
LEMMA SnapshotItself ==
  ASSUME NEW m
  PROVE  Snapshot(m) = PolicyOf(m, m.lapsed)
<1>1. DOMAIN InitialPolicy = {"generation", "version", "lapsed", "paths", "ranks", "unknown", "apps", "categories"}
  BY DEF InitialPolicy
<1>2. Snapshot(m) = [f \in {"generation", "version", "lapsed", "paths", "ranks", "unknown", "apps", "categories"} |-> m[f]]
  BY <1>1 DEF Snapshot
<1> QED BY <1>2 DEF PolicyOf

(* A lapsed policy differs in nothing else. *)
LEMMA LapseAgain ==
  ASSUME NEW m, NEW l, NEW k
  PROVE  [PolicyOf(m, l) EXCEPT !.lapsed = k] = PolicyOf(m, k)
<1>1. DOMAIN InitialPolicy = {"generation", "version", "lapsed", "paths", "ranks", "unknown", "apps", "categories"}
  BY DEF InitialPolicy
<1>2. Snapshot(m) = [f \in {"generation", "version", "lapsed", "paths", "ranks", "unknown", "apps", "categories"} |-> m[f]]
  BY <1>1 DEF Snapshot
<1> QED BY <1>2 DEF PolicyOf

(* Such a policy is one of the policies. *)
LEMMA PolicyType ==
  ASSUME PolicyInv
  PROVE  active \in Policies
<1>1. CASE active = InitialPolicy
  BY <1>1, Zenon DEF Policies
<1>2. CASE \E m \in Messages, l \in BOOLEAN : Valid(m) /\ active = PolicyOf(m, l)
  BY <1>2, Zenon DEF Policies
<1> QED BY <1>1, <1>2 DEF PolicyInv

(* Datagrams and the clock keep the active policy an accepted one. *)
LEMMA NextPolicy ==
  ASSUME PolicyInv, \/ \E m \in Messages : active' = UpdatePolicy(active, m)
                    \/ active.generation # "" /\ active' = [active EXCEPT !.lapsed = TRUE]
                    \/ active' = active
  PROVE  PolicyInv' /\ active' \in Policies
<1>1. CASE \E m \in Messages : active' = UpdatePolicy(active, m)
  <2>1. PICK m \in Messages : active' = UpdatePolicy(active, m)
    BY <1>1
  <2>2. CASE Valid(m) /\ ~Stale(active, m)
    <3>1. active' = PolicyOf(m, m.lapsed) /\ m.lapsed \in BOOLEAN
      BY <2>1, <2>2, SnapshotItself, MessageAssumption DEF UpdatePolicy
    <3>2. PolicyInv'
      BY <2>2, <3>1, Zenon DEF PolicyInv
    <3>3. active' \in Policies
      BY <3>1, Zenon DEF Policies
    <3> QED BY <3>2, <3>3
  <2>3. CASE ~(Valid(m) /\ ~Stale(active, m))
    <3>1. active' = active
      BY <2>1, <2>3 DEF UpdatePolicy
    <3>2. PolicyInv'
      BY <3>1, Zenon DEF PolicyInv
    <3> QED BY <3>1, <3>2, PolicyType
  <2> QED BY <2>2, <2>3
<1>2. CASE active.generation # "" /\ active' = [active EXCEPT !.lapsed = TRUE]
  <2>1. InitialPolicy.generation = ""
    BY DEF InitialPolicy
  <2>2. PICK m \in Messages, l \in BOOLEAN : Valid(m) /\ active = PolicyOf(m, l)
    BY <1>2, <2>1, Zenon DEF PolicyInv
  <2>3. active' = PolicyOf(m, TRUE)
    <3>1. [PolicyOf(m, l) EXCEPT !.lapsed = TRUE] = PolicyOf(m, TRUE)
      BY LapseAgain
    <3> QED BY <1>2, <2>2, <3>1, Zenon
  <2>4. PolicyInv'
    BY <2>2, <2>3, Zenon DEF PolicyInv
  <2>5. active' \in Policies
    BY <2>3, Zenon DEF Policies
  <2> QED BY <2>4, <2>5
<1>3. CASE active' = active
  <2>1. PolicyInv'
    BY <1>3, Zenon DEF PolicyInv
  <2> QED BY <1>3, <2>1, PolicyType
<1> QED BY <1>1, <1>2, <1>3

(* An accepted policy has a first path in every ranking that it names. *)
LEMMA FirstPathKnown ==
  ASSUME NEW m \in Messages, Valid(m), NEW c \in DOMAIN m.ranks
  PROVE  PathMark(m.paths, m.ranks[c][1]) \in Named(m.paths)
<1> DEFINE r == m.ranks[c]
<1>1. CompleteRanking(m.paths, r) /\ DOMAIN m.paths # {} /\ IsFiniteSet(DOMAIN m.paths) /\ r \in Seq(STRING)
  BY MessageAssumption DEF Valid
<1>2. Cardinality(DOMAIN m.paths) \in Nat /\ Cardinality(DOMAIN m.paths) # 0
  BY <1>1, FS_CardinalityType, FS_EmptySet
<1>3. Len(r) = Cardinality(DOMAIN m.paths)
  BY <1>1 DEF CompleteRanking
<1>4. 1 \in DOMAIN r
  BY <1>1, <1>2, <1>3
<1>5. PathMark(m.paths, r[1]) # 0
  BY <1>1, <1>4 DEF CompleteRanking
<1> QED BY <1>5 DEF PathMark, Named

(* So choosing a path always finds one. *)
LEMMA PolicyChoice ==
  ASSUME PolicyInv
  PROVE  ChoiceIsKnown
<1> SUFFICES ASSUME NEW app \in {"a", "other"}, NEW category \in {"c", "other"}, ~active.lapsed
             PROVE  Choose(active, app, category, FallbackMark) \in Named(active.paths)
  BY DEF ChoiceIsKnown
<1>1. CASE active = InitialPolicy
  <2>1. /\ active.paths = [n \in {"fallback"} |-> FallbackMark] /\ active.ranks = [c \in {"unknown"} |-> <<"fallback">>]
        /\ active.unknown = "unknown" /\ active.apps = <<>> /\ active.categories = <<>>
    BY <1>1 DEF InitialPolicy
  <2>2. active.ranks["unknown"][1] = "fallback" /\ DOMAIN active.apps = {} /\ DOMAIN active.categories = {}
    BY <2>1
  <2>3. Choose(active, app, category, FallbackMark) = PathMark(active.paths, "fallback")
    BY <2>1, <2>2 DEF Choose
  <2> QED BY <2>1, <2>3 DEF PathMark, Named
<1>2. CASE \E m \in Messages, l \in BOOLEAN : Valid(m) /\ active = PolicyOf(m, l)
  <2>1. PICK m \in Messages, l \in BOOLEAN : Valid(m) /\ active = PolicyOf(m, l)
    BY <1>2
  <2>2. /\ active.paths = m.paths /\ active.ranks = m.ranks /\ active.unknown = m.unknown
        /\ active.apps = m.apps /\ active.categories = m.categories
    BY <2>1, SnapshotFields
  <2>3. {m.unknown} \cup Named(m.apps) \cup Named(m.categories) \subseteq DOMAIN m.ranks
    BY <2>1 DEF Valid
  <2>4. \E c \in DOMAIN m.ranks : Choose(active, app, category, FallbackMark) = PathMark(m.paths, m.ranks[c][1])
    <3> DEFINE byApp == IF app \in DOMAIN m.apps THEN m.apps[app] ELSE m.unknown
    <3> DEFINE class == IF byApp = m.unknown /\ category \in DOMAIN m.categories THEN m.categories[category] ELSE byApp
    <3>1. class \in DOMAIN m.ranks
      BY <2>3 DEF Named
    <3>2. Choose(active, app, category, FallbackMark) = PathMark(m.paths, m.ranks[class][1])
      BY <2>2 DEF Choose
    <3> QED BY <3>1, <3>2
  <2> QED BY <2>1, <2>2, <2>4, FirstPathKnown
<1> QED BY <1>1, <1>2 DEF PolicyInv
-----------------------------------------------------------------------------
(* A step that leaves events and policy alone has only threads to mind. *)
LEMMA ThreadStep ==
  ASSUME ProcessIndInv, UNCHANGED <<events, active>>, exporter' = "send" <=> exporter = "send", ShutdownInv',
         main' \in {"queue", "workers", "listen", "spawn", "await", "check", "sleep",
                    "joinListener", "destroy", "joinExporter", "exited"},
         stop' \in BOOLEAN, worker' \in [Workers -> {"none", "starting", "loop", "work", "failed", "done"}],
         listener' \in {"none", "open", "loop", "recv", "done"},
         exporter' \in {"none", "lock", "wait", "send", "done"}
  PROVE  ProcessIndInv'
<1>1. TypeOK'
  BY DEF ProcessIndInv, TypeOK, events
<1>2. RingInv'
  BY DEF ProcessIndInv, RingInv, events
<1>3. EventsAccounted'
  BY DEF ProcessIndInv, EventsAccounted, Held, events
<1>4. PolicyInv'
  BY NextPolicy DEF ProcessIndInv
<1> QED BY <1>1, <1>2, <1>3, <1>4 DEF ProcessIndInv

(* The main thread. *)
LEMMA MainProcess ==
  ASSUME ProcessIndInv, MainStep \/ Signal \/ UNCHANGED vars
  PROVE  ProcessIndInv'
<1> USE DEF At, threads
<1>1. /\ main \in {"queue", "workers", "listen", "spawn", "await", "check", "sleep",
                   "joinListener", "destroy", "joinExporter", "exited"}
      /\ stop \in BOOLEAN /\ worker \in [Workers -> {"none", "starting", "loop", "work", "failed", "done"}]
      /\ listener \in {"none", "open", "loop", "recv", "done"} /\ exporter \in {"none", "lock", "wait", "send", "done"}
      /\ ShutdownInv
  BY DEF ProcessIndInv, TypeOK
<1>2. CASE InitQueue
  <2>1. exporter # "send"
    BY <1>1, <1>2 DEF InitQueue, ShutdownInv
  <2> QED BY <1>1, <1>2, <2>1, ThreadStep DEF InitQueue, ShutdownInv, events
<1>3. CASE InitWorkers \/ CreateListener \/ AllCreated \/ Awaited \/ CheckReady \/ JoinListener \/ JoinExporter
             \/ Signal \/ UNCHANGED vars
  BY <1>1, <1>3, ThreadStep DEF InitWorkers, CreateListener, AllCreated, Awaited, CheckReady, JoinListener,
                                JoinExporter, Signal, ShutdownInv, events, vars
<1>4. ASSUME NEW w \in Workers, CreateWorker(w) PROVE ProcessIndInv'
  BY <1>1, <1>4, ThreadStep DEF CreateWorker, ShutdownInv, events
<1>5. CASE JoinWorkers
  BY <1>1, <1>5, ThreadStep DEF JoinWorkers, ShutdownInv, Ended, events
<1>6. CASE DestroyQueue
  <2>1. queue \in [items : [Slots -> Workers \cup {None}], head : Slots, tail : Slots,
                   count : 0 .. Capacity, stopping : BOOLEAN]
    BY DEF ProcessIndInv, TypeOK
  <2>2. /\ queue' \in [items : [Slots -> Workers \cup {None}], head : Slots, tail : Slots,
                       count : 0 .. Capacity, stopping : BOOLEAN]
        /\ queue'.items = queue.items /\ queue'.head = queue.head /\ queue'.tail = queue.tail
        /\ queue'.count = queue.count
    BY <1>6, <2>1 DEF DestroyQueue
  <2>3. exporter' \in {"none", "lock", "wait", "send", "done"} /\ (exporter' = "send" <=> exporter = "send")
    BY <1>1, <1>6 DEF DestroyQueue, Wake
  <2>4. TypeOK'
    BY <1>6, <2>2, <2>3 DEF DestroyQueue, ProcessIndInv, TypeOK
  <2>5. RingInv'
    BY <1>6, <2>2, <2>3 DEF DestroyQueue, ProcessIndInv, RingInv
  <2>6. ShutdownInv'
    BY <1>1, <1>6 DEF DestroyQueue, ShutdownInv
  <2>7. EventsAccounted'
    BY <1>6, <2>2 DEF DestroyQueue, ProcessIndInv, EventsAccounted, Held
  <2>8. PolicyInv'
    BY <1>6, NextPolicy DEF DestroyQueue, ProcessIndInv
  <2> QED BY <2>4, <2>5, <2>6, <2>7, <2>8 DEF ProcessIndInv
<1> QED BY <1>2, <1>3, <1>4, <1>5, <1>6 DEF MainStep

(* Workers, apart from the events they push, and the policy listener. *)
LEMMA ThreadsProcess ==
  ASSUME ProcessIndInv, (\E w \in Workers : WorkerStep(w)) \/ ListenerStep
  PROVE  ProcessIndInv'
<1>1. /\ stop \in BOOLEAN /\ worker \in [Workers -> {"none", "starting", "loop", "work", "failed", "done"}]
      /\ main \in {"queue", "workers", "listen", "spawn", "await", "check", "sleep",
                   "joinListener", "destroy", "joinExporter", "exited"}
      /\ listener \in {"none", "open", "loop", "recv", "done"} /\ exporter \in {"none", "lock", "wait", "send", "done"}
      /\ ShutdownInv
  BY DEF ProcessIndInv, TypeOK
<1>2. ASSUME NEW w \in Workers, WorkerStep(w) PROVE ProcessIndInv'
  <2>1. PICK to \in {"loop", "work", "failed", "done"} :
          worker' = [worker EXCEPT ![w] = to] /\ worker[w] \in {"starting", "loop", "work"}
    BY <1>2 DEF WorkerStep, WorkerStart, WorkerLoop, WorkerIterated, Worker
  <2>2. UNCHANGED <<main, stop, listener, exporter, active, events>>
    BY <1>2 DEF WorkerStep, WorkerStart, WorkerLoop, WorkerIterated
  <2>3. ShutdownInv'
    BY <1>1, <2>1, <2>2 DEF ShutdownInv, events
  <2> QED BY <1>1, <2>1, <2>2, <2>3, ThreadStep
<1>3. CASE ListenerStep
  BY <1>1, <1>3, ThreadStep DEF ListenerStep, ListenerStart, ListenerLoop, ListenerTimeout, ShutdownInv, events
<1> QED BY <1>2, <1>3

(* A datagram arrives, or the policy lapses. *)
LEMMA PolicyProcess ==
  ASSUME ProcessIndInv, (\E m \in Messages : Receive(m)) \/ Lapse
  PROVE  ProcessIndInv'
<1>1. /\ UNCHANGED <<main, stop, worker, exporter, queue, inflight, sent, dropped, pushed>>
      /\ listener' \in {"none", "open", "loop", "recv", "done"}
  BY DEF Receive, Lapse, threads, events, ProcessIndInv, TypeOK
<1>2. \/ \E m \in Messages : active' = UpdatePolicy(active, m)
      \/ active.generation # "" /\ active' = [active EXCEPT !.lapsed = TRUE]
  BY DEF Receive, Lapse
<1>3. PolicyInv' /\ active' \in Policies
  BY <1>2, NextPolicy DEF ProcessIndInv
<1>4. TypeOK'
  BY <1>1, <1>3 DEF ProcessIndInv, TypeOK
<1>5. RingInv' /\ ShutdownInv' /\ EventsAccounted'
  BY <1>1 DEF ProcessIndInv, RingInv, ShutdownInv, EventsAccounted, Held
<1> QED BY <1>3, <1>4, <1>5 DEF ProcessIndInv

(* The exporter. *)
LEMMA ExporterProcess ==
  ASSUME ProcessIndInv, ExporterStep
  PROVE  ProcessIndInv'
<1> USE QueueAssumption DEF None
<1>1. /\ TypeOK /\ RingInv /\ ShutdownInv /\ EventsAccounted
      /\ inflight \in Workers \cup {None} /\ exporter \in {"none", "lock", "wait", "send", "done"}
  BY DEF ProcessIndInv, TypeOK
<1>2. CASE ExporterWait \/ ExporterDone
  <2>1. /\ UNCHANGED <<main, stop, worker, listener, active, events>>
        /\ exporter = "lock" /\ exporter' \in {"wait", "done"}
    BY <1>2 DEF ExporterWait, ExporterDone
  <2>2. ShutdownInv'
    BY <1>1, <2>1 DEF ShutdownInv, events
  <2> QED BY <2>1, <2>2, ThreadStep DEF ProcessIndInv, TypeOK
<1>3. CASE Take
  <2>1. /\ queue.count > 0 /\ inflight' = queue.items[queue.tail] /\ exporter = "lock" /\ exporter' = "send"
        /\ queue' = [queue EXCEPT !.tail = (@ + 1) % Capacity, !.count = @ - 1]
        /\ UNCHANGED <<main, stop, worker, listener, active, sent, dropped, pushed>>
    BY <1>3 DEF Take
  <2>2. /\ queue' \in [items : [Slots -> Workers \cup {None}], head : Slots, tail : Slots,
                       count : 0 .. Capacity, stopping : BOOLEAN]
        /\ queue'.count = queue.count - 1 /\ queue'.stopping = queue.stopping /\ queue'.items = queue.items
        /\ queue'.head = (queue'.tail + queue'.count) % Capacity
        /\ \A i \in 0 .. queue.count - 2 : (queue'.tail + i) % Capacity = (queue.tail + (i + 1)) % Capacity
        /\ queue.items[queue.tail] = queue.items[(queue.tail + 0) % Capacity]
    BY <1>1, <2>1, TakeRing
  <2>3. queue.count \in Nat /\ queue.count > 0
    BY <1>1, <2>1, QueueFields
  <2>4. inflight' \in Workers /\ inflight' # None
    <3>1. 0 \in 0 .. queue.count - 1
      BY <2>3
    <3> QED BY <1>1, <2>1, <2>2, <3>1 DEF RingInv
  <2>5. TypeOK'
    BY <1>1, <2>1, <2>2, <2>4 DEF TypeOK
  <2>6. RingInv'
    <3>1. ASSUME NEW i \in 0 .. queue'.count - 1
          PROVE  queue'.items[(queue'.tail + i) % Capacity] \in Workers
      <4>1. i \in 0 .. queue.count - 2 /\ i + 1 \in 0 .. queue.count - 1
        BY <2>2, <2>3, <3>1
      <4> QED BY <1>1, <2>2, <4>1 DEF RingInv
    <3> QED BY <2>1, <2>2, <2>4, <3>1 DEF RingInv
  <2>7. ShutdownInv'
    BY <1>1, <2>1, <2>2 DEF ShutdownInv
  <2>8. EventsAccounted'
    <3>1. inflight = None
      BY <1>1, <2>1 DEF RingInv
    <3>2. Held' = Held
      BY <2>2, <2>3, <2>4, <3>1 DEF Held
    <3> QED BY <1>1, <2>1, <3>2 DEF EventsAccounted
  <2>9. PolicyInv'
    BY <2>1, NextPolicy DEF ProcessIndInv
  <2> QED BY <2>5, <2>6, <2>7, <2>8, <2>9 DEF ProcessIndInv
<1>4. CASE Send
  <2>1. /\ exporter = "send" /\ exporter' = "lock" /\ inflight' = None
        /\ \/ sent' = Inc(sent) /\ dropped' = dropped
           \/ sent' = sent /\ dropped' = Inc(dropped)
        /\ UNCHANGED <<main, stop, worker, listener, active, queue, pushed>>
    BY <1>4 DEF Send
  <2>2. TypeOK'
    BY <1>1, <2>1, IncType, QueueFields DEF TypeOK
  <2>3. RingInv' /\ ShutdownInv'
    BY <1>1, <2>1 DEF RingInv, ShutdownInv
  <2>4. EventsAccounted'
    <3>1. inflight # None /\ queue.count \in Nat
      BY <1>1, <2>1, QueueFields DEF RingInv
    <3>2. Held = Held' + 1
      BY <2>1, <3>1 DEF Held
    <3> QED BY <1>1, <2>1, <2>2, <3>2, CountSent
  <2>5. PolicyInv'
    BY <2>1, NextPolicy DEF ProcessIndInv
  <2> QED BY <2>2, <2>3, <2>4, <2>5 DEF ProcessIndInv
<1> QED BY <1>2, <1>3, <1>4 DEF ExporterStep

(* A worker pushes an event. *)
LEMMA EventProcess ==
  ASSUME ProcessIndInv, NEW w \in Workers, WorkerEvent(w)
  PROVE  ProcessIndInv'
<1>1. /\ TypeOK /\ RingInv /\ ShutdownInv /\ EventsAccounted /\ PolicyInv
      /\ exporter \in {"none", "lock", "wait", "send", "done"}
  BY DEF ProcessIndInv, TypeOK
<1>2. pushed' = Inc(pushed) /\ UNCHANGED <<main, stop, worker, listener, active, inflight, sent>>
  BY DEF WorkerEvent, Push
<1>3. PolicyInv' /\ active' \in Policies
  BY <1>1, <1>2, NextPolicy
<1>4. main # "queue"
  BY <1>1 DEF WorkerEvent, ShutdownInv
<1>5. CASE /\ queue.count < Capacity
           /\ queue' = [queue EXCEPT !.items[queue.head] = w, !.head = (queue.head + 1) % Capacity, !.count = @ + 1]
           /\ exporter' = Wake /\ dropped' = dropped
  <2>1. /\ queue' \in [items : [Slots -> Workers \cup {None}], head : Slots, tail : Slots,
                       count : 0 .. Capacity, stopping : BOOLEAN]
        /\ queue'.count = queue.count + 1 /\ queue'.stopping = queue.stopping /\ queue'.tail = queue.tail
        /\ queue'.head = (queue.tail + queue.count + 1) % Capacity
        /\ queue'.items[(queue.tail + queue.count) % Capacity] = w
        /\ \A i \in 0 .. queue.count - 1 :
             queue'.items[(queue.tail + i) % Capacity] = queue.items[(queue.tail + i) % Capacity]
    BY <1>1, <1>5, PushRing
  <2>2. exporter' \in {"none", "lock", "wait", "send", "done"} /\ (exporter' = "send" <=> exporter = "send")
    BY <1>1, <1>5 DEF Wake
  <2>3. queue.count \in Nat /\ queue.tail \in Nat
    BY <1>1, QueueFields
  <2>4. TypeOK'
    BY <1>1, <1>2, <1>3, <1>5, <2>1, <2>2, IncType, QueueFields DEF TypeOK
  <2>5. RingInv'
    <3>1. queue.tail + queue.count + 1 = queue.tail + (queue.count + 1)
      BY <2>3
    <3>2. ASSUME NEW i \in 0 .. queue'.count - 1
          PROVE  queue'.items[(queue'.tail + i) % Capacity] \in Workers
      <4>1. i \in 0 .. queue.count - 1 \/ i = queue.count
        BY <2>1, <2>3, <3>2
      <4> QED BY <1>1, <2>1, <4>1 DEF RingInv
    <3> QED BY <1>1, <1>2, <2>1, <2>2, <3>1, <3>2 DEF RingInv
  <2>6. ShutdownInv'
    BY <1>1, <1>2, <1>4, <2>1 DEF ShutdownInv
  <2>7. Held' = Held + 1
    BY <1>2, <2>1, <2>3 DEF Held
  <2>8. EventsAccounted'
    BY <1>1, <1>2, <1>5, <2>4, <2>7, CountPushed
  <2> QED BY <1>3, <2>4, <2>5, <2>6, <2>8 DEF ProcessIndInv
<1>6. CASE queue.count = Capacity /\ dropped' = Inc(dropped) /\ UNCHANGED <<queue, exporter>>
  <2>1. TypeOK'
    BY <1>1, <1>2, <1>3, <1>6, IncType, QueueFields DEF TypeOK
  <2>2. RingInv' /\ ShutdownInv'
    BY <1>1, <1>2, <1>6 DEF RingInv, ShutdownInv
  <2>3. Held' = Held
    BY <1>2, <1>6 DEF Held
  <2>4. EventsAccounted'
    BY <1>1, <1>2, <1>6, <2>1, <2>3, CountPushed
  <2> QED BY <1>3, <2>1, <2>2, <2>4 DEF ProcessIndInv
<1> QED BY <1>5, <1>6 DEF WorkerEvent, Push

(* Every step keeps the inductive invariant. *)
LEMMA NextProcess ==
  ASSUME ProcessIndInv, [Next]_vars
  PROVE  ProcessIndInv'
BY MainProcess, ThreadsProcess, PolicyProcess, ExporterProcess, EventProcess DEF Next, Exited

(* The process before anything has been started. *)
LEMMA InitProcess == Init => ProcessIndInv
<1> SUFFICES ASSUME Init PROVE ProcessIndInv
  OBVIOUS
<1> USE QueueAssumption DEF Init
<1>1. PolicyInv
  BY DEF PolicyInv
<1>2. TypeOK
  <2>1. active \in Policies
    BY <1>1, PolicyType
  <2>2. queue \in [items : [Slots -> Workers \cup {None}], head : Slots, tail : Slots,
                   count : 0 .. Capacity, stopping : BOOLEAN]
    BY DEF Slots
  <2>3. {sent, dropped, pushed} \subseteq 0 .. CounterSize - 1
    OBVIOUS
  <2> HIDE DEF Slots
  <2> QED BY <2>1, <2>2, <2>3 DEF TypeOK
<1>3. RingInv
  BY DEF RingInv
<1>4. ShutdownInv
  BY DEF ShutdownInv
<1>5. EventsAccounted
  BY DEF EventsAccounted, Held
<1> QED BY <1>1, <1>2, <1>3, <1>4, <1>5 DEF ProcessIndInv

(* The inductive invariant holds throughout. *)
LEMMA ProcessInductive == Spec => []ProcessIndInv
<1>1. Init => ProcessIndInv
  BY InitProcess
<1>2. ProcessIndInv /\ [Next]_vars => ProcessIndInv'
  BY NextProcess
<1> QED BY <1>1, <1>2, PTL DEF Spec

(* Queue, counters and policy are sound whatever threads fail to start,    *)
(* whatever datagrams arrive and however full the queue is.                *)
THEOREM ProcessInvariant == Spec => []ProcessInv
<1>1. ProcessIndInv => ProcessInv
  BY PolicyChoice DEF ProcessIndInv, ProcessInv
<1> QED BY <1>1, ProcessInductive, PTL

(* The active policy has a version. *)
LEMMA PolicyVersion ==
  ASSUME PolicyInv
  PROVE  active.version \in Int
<1>1. CASE active = InitialPolicy
  <2>1. InitialPolicy.version = 1 /\ 1 \in Int
    BY DEF InitialPolicy
  <2> QED BY <1>1, <2>1, Zenon
<1>2. CASE \E m \in Messages, l \in BOOLEAN : Valid(m) /\ active = PolicyOf(m, l)
  <2>1. PICK m \in Messages, l \in BOOLEAN : active = PolicyOf(m, l)
    BY <1>2
  <2>2. PolicyOf(m, l).version = m.version /\ m.version \in Int
    BY SnapshotFields, MessageAssumption
  <2> QED BY <2>1, <2>2, Zenon
<1> QED BY <1>1, <1>2 DEF PolicyInv

(* The comparison in Stale, the other way round. *)
LEMMA Greater ==
  ASSUME NEW x \in Int, NEW y \in Int, ~(x <= y)
  PROVE  x > y
OBVIOUS

(* No datagram takes the policy of a generation back: it is replaced by a  *)
(* newer version, lapses, or stays.                                        *)
THEOREM NeverRolledBack == Spec => PolicyNeverRolledBack
<1>1. ProcessIndInv /\ [Next]_vars =>
        [active'.generation = active.generation /\ active'.generation # "" =>
           active' = active \/ active' = [active EXCEPT !.lapsed = TRUE]
             \/ active'.version > active.version]_vars
  <2> SUFFICES ASSUME ProcessIndInv, [Next]_vars, active'.generation = active.generation, active'.generation # "",
                      active' # active, active' # [active EXCEPT !.lapsed = TRUE]
               PROVE  active'.version > active.version
    OBVIOUS
  <2>1. PICK m \in Messages : active' = UpdatePolicy(active, m)
    BY DEF Next, MainStep, InitQueue, InitWorkers, CreateListener, CreateWorker, AllCreated, Awaited, CheckReady,
           JoinWorkers, JoinListener, DestroyQueue, JoinExporter, Signal, Exited, WorkerStep, WorkerStart, WorkerLoop,
           WorkerIterated, WorkerEvent, ListenerStep, ListenerStart, ListenerLoop, ListenerTimeout, Receive, Lapse,
           ExporterStep, ExporterWait, ExporterDone, Take, Send, vars
  <2>2. active' = Snapshot(m) /\ ~Stale(active, m)
    BY <2>1 DEF UpdatePolicy
  <2>3. active'.generation = m.generation /\ active'.version = m.version
    <3>1. Snapshot(m) = PolicyOf(m, m.lapsed)
      BY SnapshotItself
    <3>2. PolicyOf(m, m.lapsed).generation = m.generation /\ PolicyOf(m, m.lapsed).version = m.version
      BY SnapshotFields
    <3> QED BY <2>2, <3>1, <3>2, Zenon
  <2>4. m.version \in Int
    BY MessageAssumption
  <2>5. active.version \in Int
    BY PolicyVersion DEF ProcessIndInv
  <2>6. ~(m.version <= active.version)
    BY <2>2, <2>3, Zenon DEF Stale
  <2>7. m.version > active.version
    BY <2>4, <2>5, <2>6, Greater
  <2> QED BY <2>3, <2>7, Zenon
<1> QED BY <1>1, ProcessInductive, PTL DEF Spec, PolicyNeverRolledBack
-----------------------------------------------------------------------------
(* An accepted event is appended to what is pending, and the channel is    *)
(* still open.                                                             *)
LEMMA PushIsAccept ==
  ASSUME ProcessIndInv, ProcessIndInv', NEW w \in Workers, WorkerEvent(w), queue.count < Capacity
  PROVE  Channel!Accept(w)
<1>1. TypeOK /\ RingInv /\ TypeOK' /\ RingInv' /\ ShutdownInv
  BY DEF ProcessIndInv
<1>2. queue.count \in Nat /\ queue.tail \in Nat /\ queue.count \in 0 .. Capacity
  BY <1>1, QueueFields
<1>3. queue' = [queue EXCEPT !.items[queue.head] = w, !.head = (queue.head + 1) % Capacity, !.count = @ + 1]
  BY <1>2, QueueAssumption DEF WorkerEvent, Push
<1>4. /\ queue'.count = queue.count + 1 /\ queue'.stopping = queue.stopping /\ queue'.tail = queue.tail
      /\ queue'.items[(queue.tail + queue.count) % Capacity] = w
      /\ \A i \in 0 .. queue.count - 1 :
           queue'.items[(queue.tail + i) % Capacity] = queue.items[(queue.tail + i) % Capacity]
  BY <1>1, <1>3, PushRing
<1>5. /\ Pending \in Seq(Workers) /\ Len(Pending) = queue.count
      /\ \A i \in 1 .. queue.count : Pending[i] = queue.items[(queue.tail + (i - 1)) % Capacity]
  BY <1>1, PendingType
<1>6. Pending' \in Seq(Workers) /\ Len(Pending') = queue.count + 1
  BY <1>1, <1>4, PendingTypePrime
<1>7. \A i \in 1 .. queue.count + 1 : Pending'[i] = queue'.items[(queue.tail + (i - 1)) % Capacity]
  BY <1>1, <1>4, PendingTypePrime
<1>8. ASSUME NEW i \in 1 .. queue.count + 1
      PROVE  Pending'[i] = Append(Pending, w)[i]
  <2>1. CASE i = queue.count + 1
    BY <1>2, <1>4, <1>5, <1>7, <2>1
  <2>2. CASE i # queue.count + 1
    <3>1. i \in 1 .. queue.count /\ i - 1 \in 0 .. queue.count - 1
      BY <1>2, <2>2
    <3> QED BY <1>4, <1>5, <1>7, <3>1
  <2> QED BY <2>1, <2>2
<1>9. Append(Pending, w) \in Seq(Workers) /\ Len(Append(Pending, w)) = queue.count + 1
  BY <1>5
<1>10. Pending' = Append(Pending, w)
  BY <1>6, <1>8, <1>9, SeqEqual
<1>11. ~queue.stopping
  BY <1>1 DEF ShutdownInv, WorkerEvent
<1> QED BY <1>4, <1>5, <1>10, <1>11 DEF Channel!Accept

(* Taking an event hands over the oldest pending one. *)
LEMMA TakeIsHandOver ==
  ASSUME ProcessIndInv, ProcessIndInv', Take
  PROVE  Channel!HandOver
<1>1. TypeOK /\ RingInv /\ TypeOK' /\ RingInv'
  BY DEF ProcessIndInv
<1>2. queue.count \in Nat /\ queue.tail \in Nat /\ queue.count > 0
  BY <1>1, QueueFields DEF Take
<1>3. queue' = [queue EXCEPT !.tail = (@ + 1) % Capacity, !.count = @ - 1]
  BY DEF Take
<1>4. /\ queue'.count = queue.count - 1 /\ queue'.stopping = queue.stopping /\ queue'.items = queue.items
      /\ \A i \in 0 .. queue.count - 2 : (queue'.tail + i) % Capacity = (queue.tail + (i + 1)) % Capacity
  BY <1>1, <1>2, <1>3, TakeRing
<1>5. /\ Pending \in Seq(Workers) /\ Len(Pending) = queue.count
      /\ \A i \in 1 .. queue.count : Pending[i] = queue.items[(queue.tail + (i - 1)) % Capacity]
  BY <1>1, PendingType
<1>6. /\ Pending' \in Seq(Workers) /\ Len(Pending') = queue.count - 1
      /\ \A i \in 1 .. queue.count - 1 : Pending'[i] = queue.items[(queue'.tail + (i - 1)) % Capacity]
  BY <1>1, <1>4, PendingTypePrime
<1>7. Pending # << >>
  BY <1>2, <1>5
<1>8. /\ Tail(Pending) \in Seq(Workers) /\ Len(Tail(Pending)) = queue.count - 1
      /\ \A i \in 1 .. queue.count - 1 : Tail(Pending)[i] = Pending[i + 1]
  BY <1>5, <1>7, HeadTailProperties
<1>9. ASSUME NEW i \in 1 .. queue.count - 1
      PROVE  Pending'[i] = Tail(Pending)[i]
  <2>1. i - 1 \in 0 .. queue.count - 2 /\ i + 1 \in 1 .. queue.count /\ (i - 1) + 1 = (i + 1) - 1
    BY <1>2
  <2> QED BY <1>4, <1>5, <1>6, <1>8, <2>1
<1>10. Pending' = Tail(Pending)
  BY <1>6, <1>8, <1>9, SeqEqual
<1> QED BY <1>4, <1>7, <1>10 DEF Channel!HandOver

(* Every other step leaves the channel alone, or closes it. *)
LEMMA OtherSteps ==
  ASSUME ProcessIndInv, ProcessIndInv', [Next]_vars, ~Take,
         \A w \in Workers : ~(WorkerEvent(w) /\ queue.count < Capacity)
  PROVE  Channel!Close \/ UNCHANGED Channel!channel
<1>1. CASE DestroyQueue
  <2>1. queue \in [items : [Slots -> Workers \cup {None}], head : Slots, tail : Slots,
                   count : 0 .. Capacity, stopping : BOOLEAN]
    BY DEF ProcessIndInv, TypeOK
  <2>2. ~queue.stopping /\ queue' = [queue EXCEPT !.stopping = TRUE]
    BY <1>1, <2>1 DEF DestroyQueue, At, ProcessIndInv, ShutdownInv
  <2>3. queue'.stopping = TRUE /\ queue'.items = queue.items /\ queue'.tail = queue.tail /\ queue'.count = queue.count
    BY <2>1, <2>2
  <2>4. Pending' = Pending
    BY <2>3 DEF Pending
  <2> QED BY <2>2, <2>3, <2>4 DEF Channel!Close
<1>2. CASE ~DestroyQueue
  <2>1. queue.count \in 0 .. Capacity /\ Capacity \in Nat
    BY QueueFields DEF ProcessIndInv
  <2>2. queue' = queue
    BY <1>2, <2>1 DEF Next, MainStep, InitQueue, InitWorkers, CreateListener, CreateWorker, AllCreated, Awaited,
           CheckReady, JoinWorkers, JoinListener, JoinExporter, Signal, Exited, WorkerStep, WorkerStart, WorkerLoop,
           WorkerIterated, WorkerEvent, Push, ListenerStep, ListenerStart, ListenerLoop, ListenerTimeout, Receive,
           Lapse, ExporterStep, ExporterWait, ExporterDone, Send, vars, events
  <2> QED BY <2>2 DEF Pending, Channel!channel
<1> QED BY <1>1, <1>2

(* The ring with its mutex, its condition variable and the shutdown order  *)
(* implements the bounded channel: every event accepted goes out once and  *)
(* in order, and none is accepted after the queue has been closed.  (That  *)
(* the exporter comes back for what is left is IsChannel's fairness.)      *)
THEOREM ImplementsChannel == Spec => Channel!Init /\ [][Channel!Next]_(Channel!channel)
<1>1. Init => Channel!Init
  <2> SUFFICES ASSUME Init PROVE Pending = << >> /\ queue.stopping = FALSE
    BY DEF Channel!Init
  <2>1. queue.count = 0 /\ queue.stopping = FALSE
    BY DEF Init
  <2> QED BY <2>1 DEF Pending
<1>2. ProcessIndInv /\ ProcessIndInv' /\ [Next]_vars => [Channel!Next]_(Channel!channel)
  <2> SUFFICES ASSUME ProcessIndInv, ProcessIndInv', [Next]_vars
               PROVE  Channel!Next \/ UNCHANGED Channel!channel
    OBVIOUS
  <2>1. CASE \E w \in Workers : WorkerEvent(w) /\ queue.count < Capacity
    BY <2>1, PushIsAccept DEF Channel!Next
  <2>2. CASE Take
    BY <2>2, TakeIsHandOver DEF Channel!Next
  <2>3. CASE ~Take /\ ~\E w \in Workers : WorkerEvent(w) /\ queue.count < Capacity
    BY <2>3, OtherSteps DEF Channel!Next
  <2> QED BY <2>1, <2>2, <2>3
<1> QED BY <1>1, <1>2, ProcessInductive, PTL DEF Spec
=============================================================================
