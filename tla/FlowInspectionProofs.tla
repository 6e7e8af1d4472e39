------------------------ MODULE FlowInspectionProofs ------------------------
(***************************************************************************)
(* Proofs about the flow table of a classifier worker, for any flows,      *)
(* budgets and timeouts, and any width of the TCP sequence space.          *)
(***************************************************************************)
EXTENDS FlowInspection, FiniteSetTheorems, WellFoundedInduction, TLAPS

(* The facts about the constants that the steps need. *)
LEMMA ConstantFacts ==
  /\ MaxFlows \in Nat \ {0} /\ SeqSpace \in Nat \ {0} /\ MaxLifetime \in Nat \ {0}
  /\ TcpBudget \in Nat \ {0} /\ UdpBudget \in Nat \ {0}
  /\ OverloadCircuit \in Ages /\ InspectionTimeout \in 1 .. MaxLifetime
  /\ \A k \in Keys : Budget(k) \in Nat \ {0}
  /\ \A k \in Keys : Budget(k) <= IF TcpBudget > UdpBudget THEN TcpBudget ELSE UdpBudget
<1>1. {MaxFlows, TcpBudget, UdpBudget, SeqSpace, MaxLifetime} \subseteq Nat \ {0}
  BY InspectionAssumption
<1>2. InspectionTimeout \in 1 .. MaxLifetime /\ OverloadCircuit \in 1 .. MaxLifetime
  BY InspectionAssumption
<1> QED BY <1>1, <1>2 DEF Ages, Budget

(* The order of the natural numbers as a relation. *)
LEMMA LessThan == OpToRel(<, Nat) = {ss \in Nat \X Nat : ss[1] < ss[2]}
BY DEF OpToRel

(* A set of ages that is not empty has a largest one. *)
LEMMA Oldest_Exists ==
  ASSUME NEW S, S # {}, NEW f, \A x \in S : f[x] \in Ages
  PROVE  \E x \in S : \A y \in S : f[y] <= f[x]
<1> DEFINE T == {MaxLifetime - f[x] : x \in S}
<1>1. T \subseteq Nat /\ T # {}
  BY ConstantFacts DEF Ages
<1>2. PICK m \in T : \A n \in T : ~(<<n, m>> \in OpToRel(<, Nat))
  <2> HIDE DEF T
  <2> QED BY <1>1, NatLessThanWellFounded, WFMin
<1>3. \A n \in T : m <= n
  <2>1. ASSUME NEW n \in T, n < m PROVE FALSE
    <3>1. <<n, m>> \in OpToRel(<, Nat)
      <4>1. <<n, m>> \in {ss \in Nat \X Nat : ss[1] < ss[2]}
        BY <1>1, <2>1
      <4> QED BY <4>1, LessThan
    <3> QED BY <1>2, <3>1
  <2>2. m \in Nat /\ \A n \in T : n \in Nat
    BY <1>1
  <2> HIDE DEF T
  <2> QED BY <2>1, <2>2
<1>4. PICK x \in S : m = MaxLifetime - f[x]
  OBVIOUS
<1>5. MaxLifetime \in Int /\ \A y \in S : f[y] \in Int
  BY ConstantFacts DEF Ages
<1>6. ASSUME NEW y \in S PROVE f[y] <= f[x]
  <2>1. MaxLifetime - f[y] \in T
    OBVIOUS
  <2>2. m <= MaxLifetime - f[y]
    BY <1>3, <2>1
  <2> HIDE DEF T
  <2> QED BY <1>4, <1>5, <2>2
<1> QED BY <1>6

(* What a step of nDPI can decide: two of its states end the inspection. *)
LEMMA DecidedStates == \A e \in 1 .. 4 : Decided(e) <=> e \in {3, 4}
BY DEF Decided, EngineStates

(* A counted packet leaves a record a record: what was decided about the   *)
(* flow stays, the budget is not exceeded and only grows.                  *)
LEMMA CountedType ==
  ASSUME NEW f \in Flow, NEW p \in Packets
  PROVE  /\ Counted(f, p) \in Flow
         /\ Counted(f, p).result = f.result /\ Counted(f, p).path = f.path
         /\ Counted(f, p).engine = f.engine /\ Counted(f, p).app = f.app
         /\ Counted(f, p).age = f.age /\ Counted(f, p).unique >= f.unique
         /\ p.key \in Keys /\ p.side \in Sides /\ End(p) \in Seqs
         /\ Counted(f, p).high = IF NewPayload(f, p) /\ p.key \in TcpKeys
                                  THEN [f.high EXCEPT ![p.side] = End(p)] ELSE f.high
         /\ Counted(f, p).shown = IF p.len > 0 THEN f.shown \cup {<<p.side, End(p)>>} ELSE f.shown
         /\ Counted(f, p).unique = IF NewPayload(f, p) /\ f.unique < Budget(p.key)
                                    THEN f.unique + 1 ELSE f.unique
<1> DEFINE c == Counted(f, p)
           Limit == IF TcpBudget > UdpBudget THEN TcpBudget ELSE UdpBudget
<1> DEFINE U == IF NewPayload(f, p) /\ f.unique < Budget(p.key) THEN f.unique + 1 ELSE f.unique
           H == IF NewPayload(f, p) /\ p.key \in TcpKeys THEN [f.high EXCEPT ![p.side] = End(p)] ELSE f.high
           W == IF p.len > 0 THEN f.shown \cup {<<p.side, End(p)>>} ELSE f.shown
<1>1. /\ p.key \in Keys /\ p.side \in Sides /\ p.seq \in Seqs /\ p.len \in {0, 1}
      /\ p.flags \in {"syn", "synack", "ack", "fin", "none"}
      /\ p.key \in TcpKeys => p.flags # "none"
  <2>1. 0 \in Seqs
    BY ConstantFacts DEF Seqs
  <2>2. CASE p.key \in TcpKeys
    <3>1. p.key \notin UdpKeys
      BY <2>2, InspectionAssumption
    <3> QED BY <2>1, <2>2, <3>1 DEF Packets, Keys
  <2>3. CASE p.key \notin TcpKeys
    BY <2>1, <2>3 DEF Packets, Keys
  <2> QED BY <2>2, <2>3
<1>2. End(p) \in Seqs
  BY <1>1, ConstantFacts DEF End, Seqs
<1>3. TcpState(f, p) \in 0 .. 2
  BY <1>1 DEF TcpState, Flow
<1>4. f.unique \in 0 .. Limit /\ Limit \in Nat /\ Budget(p.key) \in Nat /\ Budget(p.key) <= Limit
  BY ConstantFacts, <1>1 DEF Flow
<1>5. U \in 0 .. Limit
  BY <1>4
<1>6. f = [result |-> f.result, age |-> f.age, idle |-> f.idle, path |-> f.path,
           engine |-> f.engine, app |-> f.app, unique |-> f.unique, high |-> f.high,
           tcp |-> f.tcp, shown |-> f.shown]
  BY DEF Flow
<1>7. c = [result |-> f.result, age |-> f.age, idle |-> 0, path |-> f.path,
           engine |-> f.engine, app |-> f.app, unique |-> U, high |-> H,
           tcp |-> TcpState(f, p), shown |-> W]
  <2>1. c = [f EXCEPT !.idle = 0, !.tcp = TcpState(f, p), !.high = H, !.unique = U, !.shown = W]
    BY Zenon DEF Counted
  <2> HIDE DEF U, H, W, c
  <2> QED BY <1>6, <2>1
<1>8. H \in [Sides -> Seqs]
  BY <1>1, <1>2 DEF Flow
<1>9. W \in SUBSET (Sides \X Seqs)
  BY <1>1, <1>2 DEF Flow
<1>10. 0 \in Ages
  BY ConstantFacts DEF Ages
<1>11. c \in Flow
  BY <1>3, <1>5, <1>7, <1>8, <1>9, <1>10 DEF Flow
<1>12. c.unique >= f.unique
  BY <1>4, <1>7
<1>13. c.high = H /\ c.shown = W /\ c.unique = U
  BY <1>7
<1>14. c.result = f.result /\ c.path = f.path /\ c.engine = f.engine /\ c.app = f.app /\ c.age = f.age
  BY <1>7
<1> HIDE DEF c
<1> QED BY <1>1, <1>2, <1>11, <1>12, <1>13, <1>14 DEF c

(* What keeps a record consistent: its inspection has ended only for a     *)
(* reason that lasts, no segment of a TCP flow was seen beyond the highest *)
(* end of its side, and only distinct segments were counted.               *)
Sound(k, f) ==
  /\ Terminal(f) => Decided(f.engine) \/ Exhausted(k, f)
  /\ k \in TcpKeys =>
       /\ \A w \in f.shown : w[2] <= f.high[w[1]]
       /\ f.unique <= Cardinality(f.shown)

(* The inductive invariant: what TLC checks, and every record is sound. *)
TableInv == InspectionInv /\ \A k \in Recorded : Sound(k, flows[k])

(* The segments a record has been shown are finitely many. *)
LEMMA ShownFinite == \A f \in Flow : IsFiniteSet(f.shown)
<1>1. IsFiniteSet(Seqs)
  BY FS_Interval, ConstantFacts DEF Seqs
<1>2. IsFiniteSet(Sides)
  <2>1. IsFiniteSet({"a"}) /\ Sides = {"a"} \cup {"b"}
    BY FS_Singleton DEF Sides
  <2> QED BY <2>1, FS_AddElement
<1>3. IsFiniteSet(Sides \X Seqs)
  BY <1>1, <1>2, FS_Product
<1> QED BY <1>3, FS_Subset DEF Flow

(* Counting a packet keeps a record sound. *)
LEMMA CountedSound ==
  ASSUME NEW f \in Flow, NEW p \in Packets, Sound(p.key, f), p.key \in TcpKeys
  PROVE  LET c == Counted(f, p)
         IN  /\ \A w \in c.shown : w[2] <= c.high[w[1]]
             /\ c.unique <= Cardinality(c.shown)
<1> DEFINE c == Counted(f, p)
<1>0. \A w \in f.shown : w[2] <= f.high[w[1]]
  BY DEF Sound
<1>0a. f.unique <= Cardinality(f.shown)
  BY DEF Sound
<1>1. /\ c \in Flow /\ p.side \in Sides /\ End(p) \in Seqs
      /\ c.high = IF NewPayload(f, p) THEN [f.high EXCEPT ![p.side] = End(p)] ELSE f.high
      /\ c.shown = IF p.len > 0 THEN f.shown \cup {<<p.side, End(p)>>} ELSE f.shown
      /\ c.unique = IF NewPayload(f, p) /\ f.unique < Budget(p.key) THEN f.unique + 1 ELSE f.unique
  BY CountedType
<1>2. f.high \in [Sides -> Seqs] /\ f.shown \subseteq Sides \X Seqs /\ f.unique \in Nat
  BY ConstantFacts DEF Flow
<1>3. Seqs \subseteq Nat
  BY ConstantFacts DEF Seqs
<1>4. IsFiniteSet(f.shown) /\ Cardinality(f.shown) \in Nat
  BY ShownFinite, FS_CardinalityType
<1>4a. End(p) \in Nat /\ f.high[p.side] \in Nat
  BY <1>1, <1>2, <1>3
<1>5. CASE NewPayload(f, p)
  <2>1. End(p) > f.high[p.side] /\ p.len > 0
    BY <1>5 DEF NewPayload
  <2>2. <<p.side, End(p)>> \notin f.shown
    <3>1. SUFFICES ASSUME <<p.side, End(p)>> \in f.shown PROVE FALSE
      OBVIOUS
    <3>2. <<p.side, End(p)>>[2] <= f.high[<<p.side, End(p)>>[1]]
      BY <1>0, <3>1
    <3>3. End(p) <= f.high[p.side]
      BY <3>2
    <3> QED BY <1>4a, <2>1, <3>3
  <2>3. Cardinality(c.shown) = Cardinality(f.shown) + 1
    <3>1. c.shown = f.shown \cup {<<p.side, End(p)>>}
      BY <1>1, <2>1
    <3> HIDE DEF c
    <3> QED BY <1>4, <2>2, <3>1, FS_AddElement
  <2>4. c.unique <= Cardinality(c.shown)
    BY <1>0a, <1>1, <1>2, <1>4, <2>3
  <2>5. ASSUME NEW w \in c.shown PROVE w[2] <= c.high[w[1]]
    <3>1. CASE w = <<p.side, End(p)>>
      <4>1. c.high[p.side] = End(p)
        BY <1>1, <1>2, <1>5
      <4>2. w[1] = p.side /\ w[2] = End(p)
        BY <3>1
      <4>3. c.high[w[1]] = End(p)
        BY <4>1, <4>2
      <4> HIDE DEF c
      <4> QED BY <1>4a, <4>2, <4>3
    <3>2. CASE w \in f.shown
      <4>1. w[1] \in Sides /\ w[2] \in Nat /\ w[2] <= f.high[w[1]] /\ f.high[w[1]] \in Nat
        BY <1>0, <1>2, <1>3, <3>2
      <4>2. c.high[w[1]] = f.high[w[1]] \/ (w[1] = p.side /\ c.high[w[1]] = End(p))
        BY <1>1, <1>2, <1>5, <4>1
      <4> HIDE DEF c
      <4> QED BY <1>4a, <2>1, <4>1, <4>2
    <3> QED BY <1>1, <2>1, <3>1, <3>2
  <2> QED BY <2>4, <2>5
<1>6. CASE ~NewPayload(f, p) /\ p.len > 0
  <2>1. End(p) <= f.high[p.side]
    BY <1>4a, <1>6 DEF NewPayload
  <2>2. Cardinality(f.shown) <= Cardinality(c.shown)
    <3>1. f.shown \subseteq c.shown /\ IsFiniteSet(c.shown)
      BY <1>1, <1>6, ShownFinite
    <3> HIDE DEF c
    <3> QED BY <3>1, FS_Subset
  <2>3. c.unique <= Cardinality(c.shown)
    BY <1>0a, <1>1, <1>2, <1>4, <1>6, <2>2, FS_CardinalityType, ShownFinite
  <2>4. ASSUME NEW w \in c.shown PROVE w[2] <= c.high[w[1]]
    <3>1. c.high = f.high
      BY <1>1, <1>6
    <3>2. w \in f.shown \/ (w[1] = p.side /\ w[2] = End(p))
      BY <1>1, <1>6
    <3> QED BY <1>0, <2>1, <3>1, <3>2
  <2> QED BY <2>3, <2>4
<1>7. CASE ~(p.len > 0)
  BY <1>0, <1>0a, <1>1, <1>7 DEF NewPayload
<1> QED BY <1>5, <1>6, <1>7

(* A record is different from an empty place of the table. *)
LEMMA FlowIsNone == NoFlow \notin Flow /\ \A path \in Paths : NewFlow(path) \in Flow
<1>1. NoFlow \notin Flow
  <2>1. \A f \in Flow : f.result # "NONE"
    BY DEF Flow, TerminalResults
  <2> QED BY <2>1 DEF NoFlow
<1>2. ASSUME NEW path \in Paths PROVE NewFlow(path) \in Flow
  <2>1. 0 \in Ages /\ 0 \in Seqs /\ [s \in Sides |-> 0] \in [Sides -> Seqs]
    BY ConstantFacts DEF Ages, Seqs
  <2>2. 0 \in 0 .. (IF TcpBudget > UdpBudget THEN TcpBudget ELSE UdpBudget)
    BY ConstantFacts
  <2> QED BY <2>1, <2>2 DEF NewFlow, Flow, Apps
<1> QED BY <1>1, <1>2

(* An inspected packet leaves a sound record sound; its path is kept, and  *)
(* the record is terminal exactly when the verdict is.                     *)
LEMMA InspectedSound ==
  ASSUME NEW f \in Flow, NEW p \in Packets, Sound(p.key, f),
         NEW engine \in f.engine .. 4, NEW app \in AppsOver(p.key)
  PROVE  LET g == Inspected(f, p, engine, app)
         IN  /\ g \in Flow /\ Sound(p.key, g) /\ g.path = f.path
             /\ Stage(p, engine, Counted(f, p)) \in {"provisional", "terminal"}
             /\ Terminal(f) => Terminal(g) /\ Stage(p, engine, Counted(f, p)) = "terminal"
<1> DEFINE c == Counted(f, p)
           done == Decided(engine) \/ Exhausted(p.key, c)
           r == IF done THEN TerminalResult(engine, app) ELSE OngoingResult(c, engine)
           g == Inspected(f, p, engine, app)
<1>1. c \in Flow /\ c.result = f.result /\ c.path = f.path /\ c.age = f.age /\ c.unique >= f.unique
  BY CountedType
<1>2. f.engine \in 1 .. 4 /\ engine \in 1 .. 4 /\ app \in Apps /\ p.key \in Keys
  <2>1. f.engine \in 1 .. 4
    BY DEF Flow
  <2>2. engine \in 1 .. 4
    BY <2>1
  <2>3. app \in Apps
    BY DEF AppsOver, Apps
  <2> QED BY <2>1, <2>2, <2>3, CountedType
<1>3. TerminalResult(engine, app) \in TerminalResults
  BY <1>2 DEF TerminalResult, EngineStates, TerminalResults
<1>4. Terminal(f) => done
  <2>1. Decided(f.engine) => Decided(engine)
    BY <1>2, DecidedStates
  <2>2. Exhausted(p.key, f) => Exhausted(p.key, c)
    <3>1. c.age \in Nat /\ c.unique \in Nat /\ f.unique \in Nat
      BY <1>1, ConstantFacts DEF Flow, Ages
    <3> HIDE DEF c
    <3> QED BY <1>1, <1>2, <3>1, ConstantFacts DEF Exhausted
  <2> QED BY <2>1, <2>2 DEF Sound
<1>5. r \in {"INSPECTING", "PARTIAL"} \cup TerminalResults
  <2>1. c.result \in {"INSPECTING", "PARTIAL"} \cup TerminalResults
    BY <1>1 DEF Flow
  <2> HIDE DEF c
  <2> QED BY <1>3, <2>1 DEF OngoingResult
<1>6. g = [c EXCEPT !.engine = engine, !.app = app, !.result = r]
  BY Zenon DEF Inspected
<1> HIDE DEF c, r, g
<1>7. /\ g \in Flow /\ g.engine = engine /\ g.app = app /\ g.result = r
      /\ g.path = c.path /\ g.age = c.age /\ g.unique = c.unique
      /\ g.high = c.high /\ g.shown = c.shown
  BY <1>1, <1>2, <1>5, <1>6 DEF Flow
<1>8. r \in TerminalResults => done
  <2>1. SUFFICES ASSUME ~done PROVE r \notin TerminalResults
    OBVIOUS
  <2>2. c.result \notin TerminalResults
    BY <1>1, <1>4, <2>1 DEF Terminal
  <2>3. r = OngoingResult(c, engine)
    BY <2>1 DEF r
  <2> QED BY <2>2, <2>3 DEF OngoingResult, TerminalResults
<1>9. Exhausted(p.key, g) <=> Exhausted(p.key, c)
  BY <1>7 DEF Exhausted
<1>10. Sound(p.key, g)
  <2>1. Terminal(g) => Decided(g.engine) \/ Exhausted(p.key, g)
    BY <1>7, <1>8, <1>9 DEF Terminal
  <2>2. ASSUME p.key \in TcpKeys
        PROVE  (\A w \in g.shown : w[2] <= g.high[w[1]]) /\ g.unique <= Cardinality(g.shown)
    BY <1>7, <2>2, CountedSound DEF c
  <2> QED BY <2>1, <2>2 DEF Sound
<1>11. Terminal(f) => Terminal(g) /\ Stage(p, engine, Counted(f, p)) = "terminal"
  <2>1. ASSUME Terminal(f) PROVE Terminal(g) /\ Stage(p, engine, Counted(f, p)) = "terminal"
    <3>1. done
      BY <1>4, <2>1
    <3> QED BY <1>3, <1>7, <3>1 DEF Terminal, Stage, r, c
  <2> QED BY <2>1
<1>12. Stage(p, engine, Counted(f, p)) \in {"provisional", "terminal"}
  BY DEF Stage
<1> QED BY <1>1, <1>7, <1>10, <1>11, <1>12 DEF g

(* The record a packet's flow is given in the table t. *)
LEMMA DeliverSound ==
  ASSUME NEW t \in [Keys -> Flow \cup {NoFlow}], NEW f \in Flow, NEW p \in Packets,
         Sound(p.key, f), Deliver(t, f, p)
  PROVE  /\ p.key \in Keys
         /\ verdict' \in Verdicts /\ verdict'.key = p.key /\ verdict'.path = f.path
         /\ \E g \in Flow : /\ flows' = [t EXCEPT ![p.key] = g] /\ Sound(p.key, g) /\ g.path = f.path
                            /\ Terminal(f) => Terminal(g) /\ verdict'.stage = "terminal"
<1>1. PICK engine \in f.engine .. 4, app \in AppsOver(p.key) :
        /\ flows' = [t EXCEPT ![p.key] = Inspected(f, p, engine, app)]
        /\ verdict' = [key |-> p.key, accept |-> TRUE, stage |-> Stage(p, engine, Counted(f, p)),
                       path |-> f.path, inspected |-> TRUE]
  BY DEF Deliver
<1> DEFINE g == Inspected(f, p, engine, app)
<1>2. /\ g \in Flow /\ Sound(p.key, g) /\ g.path = f.path
      /\ Stage(p, engine, Counted(f, p)) \in {"provisional", "terminal"}
      /\ Terminal(f) => Terminal(g) /\ Stage(p, engine, Counted(f, p)) = "terminal"
  BY InspectedSound
<1>3. p.key \in Keys /\ f.path \in Paths
  BY CountedType DEF Flow
<1> HIDE DEF g
<1>4. verdict' \in Verdicts /\ verdict'.key = p.key /\ verdict'.path = f.path
  BY <1>1, <1>2, <1>3 DEF Verdicts
<1>5. verdict'.stage = Stage(p, engine, Counted(f, p))
  BY <1>1
<1>6. flows' = [t EXCEPT ![p.key] = g]
  BY <1>1 DEF g
<1> QED BY <1>2, <1>3, <1>4, <1>5, <1>6

(* Some record can be evicted when there is one. *)
LEMMA OldestExists == TypeOK /\ Recorded # {} => Oldest # {}
<1>1. SUFFICES ASSUME TypeOK, Recorded # {} PROVE Oldest # {}
  OBVIOUS
<1> DEFINE idles == [k \in Recorded |-> flows[k].idle]
<1>2. \A k \in Recorded : idles[k] \in Ages
  BY <1>1 DEF TypeOK, Recorded, Flow
<1>3. PICK x \in Recorded : \A y \in Recorded : idles[y] <= idles[x]
  <2> HIDE DEF idles
  <2> QED BY <1>1, <1>2, Oldest_Exists
<1>4. x \in Oldest
  BY <1>3 DEF Oldest
<1> QED BY <1>4

(* The counter as a number of records. *)
LEMMA RecordedFinite == IsFiniteSet(Recorded) /\ Cardinality(Recorded) \in Nat
BY InspectionAssumption, FS_Subset, FS_CardinalityType DEF Recorded

(* The table after the record at v, if any, gave way to a record at k. *)
LEMMA Linked ==
  ASSUME TableInv, NEW t \in [Keys -> Flow \cup {NoFlow}], NEW k \in Keys, NEW g \in Flow,
         flows' = [t EXCEPT ![k] = g], Sound(k, g),
         \A l \in Keys : t[l] = flows[l] \/ t[l] = NoFlow
  PROVE  /\ flows' \in [Keys -> Flow \cup {NoFlow}]
         /\ Recorded' = {l \in Keys : t[l] # NoFlow} \cup {k}
         /\ \A l \in Recorded' : Sound(l, flows'[l])
<1>1. flows' \in [Keys -> Flow \cup {NoFlow}]
  OBVIOUS
<1>2. flows'[k] = g /\ \A l \in Keys \ {k} : flows'[l] = t[l]
  OBVIOUS
<1>3. Recorded' = {l \in Keys : t[l] # NoFlow} \cup {k}
  BY <1>2, FlowIsNone DEF Recorded
<1>4. ASSUME NEW l \in Recorded' PROVE Sound(l, flows'[l])
  <2>1. CASE l = k
    BY <1>2, <2>1
  <2>2. CASE l # k
    <3>1. l \in Keys /\ flows'[l] = t[l] /\ t[l] = flows[l] /\ l \in Recorded
      BY <1>2, <1>3, <2>2 DEF Recorded
    <3> QED BY <3>1 DEF TableInv
  <2> QED BY <2>1, <2>2
<1> QED BY <1>1, <1>3, <1>4

(* The table without the record at v. *)
LEMMA Evicted ==
  ASSUME TableInv, NEW v \in Recorded
  PROVE  LET t == [flows EXCEPT ![v] = NoFlow]
         IN  /\ t \in [Keys -> Flow \cup {NoFlow}]
             /\ \A l \in Keys : t[l] = flows[l] \/ t[l] = NoFlow
             /\ {l \in Keys : t[l] # NoFlow} = Recorded \ {v}
             /\ IsFiniteSet(Recorded \ {v})
             /\ Cardinality(Recorded \ {v}) = Cardinality(Recorded) - 1
<1>1. flows \in [Keys -> Flow \cup {NoFlow}] /\ v \in Keys
  BY DEF TableInv, InspectionInv, TypeOK, Recorded
<1>2. IsFiniteSet(Recorded \ {v}) /\ Cardinality(Recorded \ {v}) = Cardinality(Recorded) - 1
  BY RecordedFinite, FS_RemoveElement
<1> QED BY <1>1, <1>2 DEF Recorded

(* The first packet of a flow finds a sound, empty record. *)
LEMMA NewFlowSound ==
  ASSUME NEW p \in Packets
  PROVE  PacketPath(p) \in Paths /\ NewFlow(PacketPath(p)) \in Flow /\ Sound(p.key, NewFlow(PacketPath(p)))
<1>1. PacketPath(p) \in Paths
  BY InspectionAssumption DEF PacketPath, Packets
<1>2. NewFlow(PacketPath(p)) \in Flow
  BY <1>1, FlowIsNone
<1>3. Sound(p.key, NewFlow(PacketPath(p)))
  <2>1. Cardinality({}) = 0
    BY FS_EmptySet
  <2> QED BY <2>1 DEF Sound, NewFlow, Terminal, TerminalResults
<1> QED BY <1>1, <1>2, <1>3

(* A packet that is not inspected gets a verdict all the same. *)
LEMMA UninspectedType ==
  ASSUME NEW p \in Packets, NEW accept \in BOOLEAN, Uninspected(p, accept)
  PROVE  verdict' \in Verdicts /\ ~verdict'.inspected
<1>1. p.key \in Keys
  BY DEF Packets, Keys
<1>2. PacketPath(p) \in Paths
  BY NewFlowSound
<1> QED BY <1>1, <1>2 DEF Uninspected, Verdicts

(* The table's records are consistent when they are at the start. *)
LEMMA InitTable == Init => TableInv
<1> SUFFICES ASSUME Init PROVE TableInv
  OBVIOUS
<1>1. Recorded = {}
  BY DEF Init, Recorded
<1>2. SizeMatches
  BY <1>1, FS_EmptySet DEF SizeMatches, Init
<1>3. TypeOK
  <2>1. 0 \in Ages /\ 0 \in 0 .. MaxFlows
    BY ConstantFacts DEF Ages
  <2>2. flows \in [Keys -> Flow \cup {NoFlow}]
    BY DEF Init
  <2> QED BY <2>1, <2>2 DEF Init, TypeOK
<1> QED BY <1>1, <1>2, <1>3 DEF TableInv, InspectionInv

(* A packet without a place in the table, and how its record is linked. *)
LEMMA CreatedKeeps ==
  ASSUME TableInv, NEW p \in Packets, Created(p)
  PROVE  TableInv'
<1>1. flows \in [Keys -> Flow \cup {NoFlow}] /\ size \in 0 .. MaxFlows /\ size = Cardinality(Recorded)
  BY DEF TableInv, InspectionInv, TypeOK, SizeMatches
<1>2. p.key \notin Recorded /\ pc' = "sweep" /\ overload' = overload /\ due' = due
  BY DEF Created
<1>3. overload' \in Ages /\ due' \in BOOLEAN
  BY <1>2 DEF TableInv, InspectionInv, TypeOK
<1> DEFINE f == NewFlow(PacketPath(p))
<1>4. f \in Flow /\ Sound(p.key, f)
  BY NewFlowSound
<1>5. CASE Victims = {} /\ Deliver(flows, f, p) /\ size' = size + 1
  <2>1. size < MaxFlows
    <3>1. CASE Oldest = {}
      <4>1. Recorded = {}
        BY <3>1, OldestExists DEF TableInv, InspectionInv
      <4> QED BY <1>1, <4>1, FS_EmptySet, ConstantFacts
    <3>2. CASE Oldest # {}
      BY <1>1, <1>5, <3>2, ConstantFacts DEF Victims
    <3> QED BY <3>1, <3>2
  <2> HIDE DEF f
  <2>2. verdict' \in Verdicts /\ p.key \in Keys
    BY <1>1, <1>4, <1>5, DeliverSound
  <2>3. PICK g \in Flow : flows' = [flows EXCEPT ![p.key] = g] /\ Sound(p.key, g)
    BY <1>1, <1>4, <1>5, DeliverSound
  <2>4. /\ flows' \in [Keys -> Flow \cup {NoFlow}]
        /\ Recorded' = {l \in Keys : flows[l] # NoFlow} \cup {p.key}
        /\ \A l \in Recorded' : Sound(l, flows'[l])
    BY <1>1, <2>2, <2>3, Linked
  <2>5. Recorded' = Recorded \cup {p.key}
    BY <2>4 DEF Recorded
  <2>6. Cardinality(Recorded \cup {p.key}) = Cardinality(Recorded) + 1
    BY <1>2, RecordedFinite, FS_AddElement
  <2>7. size' = Cardinality(Recorded') /\ size' \in 0 .. MaxFlows
    BY <1>1, <1>5, <2>1, <2>5, <2>6, ConstantFacts
  <2> QED BY <1>2, <1>3, <2>2, <2>4, <2>7 DEF TableInv, InspectionInv, TypeOK, SizeMatches
<1>6. ASSUME NEW v \in Victims, Deliver([flows EXCEPT ![v] = NoFlow], f, p), size' = size
      PROVE  TableInv'
  <2> DEFINE t == [flows EXCEPT ![v] = NoFlow]
  <2>1. v \in Recorded
    BY DEF Victims, Oldest
  <2>2. /\ t \in [Keys -> Flow \cup {NoFlow}]
        /\ \A l \in Keys : t[l] = flows[l] \/ t[l] = NoFlow
        /\ {l \in Keys : t[l] # NoFlow} = Recorded \ {v}
        /\ IsFiniteSet(Recorded \ {v})
        /\ Cardinality(Recorded \ {v}) = Cardinality(Recorded) - 1
    BY <2>1, Evicted
  <2>2a. Deliver(t, f, p)
    BY <1>6
  <2> HIDE DEF f, t
  <2>3. verdict' \in Verdicts /\ p.key \in Keys
    BY <1>4, <2>2, <2>2a, DeliverSound
  <2>4. PICK g \in Flow : flows' = [t EXCEPT ![p.key] = g] /\ Sound(p.key, g)
    BY <1>4, <2>2, <2>2a, DeliverSound
  <2>5. /\ flows' \in [Keys -> Flow \cup {NoFlow}]
        /\ Recorded' = {l \in Keys : t[l] # NoFlow} \cup {p.key}
        /\ \A l \in Recorded' : Sound(l, flows'[l])
    BY <2>2, <2>3, <2>4, Linked
  <2>6. Recorded' = (Recorded \ {v}) \cup {p.key} /\ p.key \notin Recorded \ {v}
    BY <1>2, <2>2, <2>5
  <2>7. Cardinality((Recorded \ {v}) \cup {p.key}) = Cardinality(Recorded \ {v}) + 1
    BY <2>2, <2>6, FS_AddElement
  <2>8. size' = Cardinality(Recorded') /\ size' \in 0 .. MaxFlows
    BY <1>1, <1>6, <2>2, <2>6, <2>7, RecordedFinite
  <2> QED BY <1>2, <1>3, <2>3, <2>5, <2>8 DEF TableInv, InspectionInv, TypeOK, SizeMatches
<1> QED BY <1>5, <1>6 DEF Created

(* Every step of the worker keeps the table and its records consistent. *)
LEMMA NextTable == TableInv /\ [Next]_vars => TableInv'
<1> SUFFICES ASSUME TableInv, [Next]_vars PROVE TableInv'
  OBVIOUS
<1> USE DEF InspectionInv
<1>1. flows \in [Keys -> Flow \cup {NoFlow}] /\ size \in 0 .. MaxFlows /\ size = Cardinality(Recorded)
  BY DEF TableInv, TypeOK, SizeMatches
<1>2. overload \in Ages /\ due \in BOOLEAN /\ pc \in {"recv", "sweep"} /\ verdict \in Verdicts \cup {NoVerdict}
  BY DEF TableInv, TypeOK
<1>3. ASSUME flows' = flows, size' = size, overload' \in Ages, due' \in BOOLEAN,
             pc' \in {"recv", "sweep"}, verdict' \in Verdicts \cup {NoVerdict}
      PROVE  TableInv'
  BY <1>1, <1>3 DEF TableInv, TypeOK, SizeMatches, Recorded
<1>4. ASSUME NEW p \in Packets, Bypass(p) PROVE TableInv'
  <2>1. verdict' \in Verdicts
    BY <1>4, UninspectedType DEF Bypass
  <2> QED BY <1>2, <1>3, <1>4, <2>1 DEF Bypass
<1>5. ASSUME NEW p \in Packets, Unparsed(p) PROVE TableInv'
  <2>1. verdict' \in Verdicts
    BY <1>5, UninspectedType, InspectionAssumption DEF Unparsed
  <2> QED BY <1>2, <1>3, <1>5, <2>1 DEF Unparsed
<1>6. ASSUME NEW p \in Packets, NoMemory(p) PROVE TableInv'
  <2>1. verdict' \in Verdicts /\ overload' \in Ages /\ due' \in BOOLEAN /\ pc' = "sweep"
    BY <1>2, <1>6, UninspectedType, InspectionAssumption DEF NoMemory
  <2>2. CASE UNCHANGED <<flows, size>>
    BY <1>3, <2>1, <2>2
  <2>3. ASSUME NEW v \in Victims, flows' = [flows EXCEPT ![v] = NoFlow], size' = size - 1
        PROVE  TableInv'
    <3>1. v \in Recorded
      BY DEF Victims, Oldest
    <3>2. /\ flows' \in [Keys -> Flow \cup {NoFlow}]
          /\ \A l \in Keys : flows'[l] = flows[l] \/ flows'[l] = NoFlow
          /\ {l \in Keys : flows'[l] # NoFlow} = Recorded \ {v}
          /\ Cardinality(Recorded \ {v}) = Cardinality(Recorded) - 1
      BY <2>3, <3>1, Evicted
    <3>3. Recorded' = Recorded \ {v}
      BY <3>2 DEF Recorded
    <3>4. Cardinality(Recorded \ {v}) \in Nat
      BY RecordedFinite, FS_Subset, FS_CardinalityType
    <3>5. size' = Cardinality(Recorded') /\ size' \in 0 .. MaxFlows
      BY <1>1, <2>3, <3>2, <3>3, <3>4, ConstantFacts
    <3>6. \A l \in Recorded' : Sound(l, flows'[l])
      BY <3>2, <3>3 DEF TableInv, Recorded
    <3> QED BY <2>1, <3>2, <3>5, <3>6 DEF TableInv, TypeOK, SizeMatches
  <2> QED BY <1>6, <2>2, <2>3 DEF NoMemory
<1>7. ASSUME NEW p \in Packets, Known(p) PROVE TableInv'
  <2>1. p.key \in Keys /\ p.key \in Recorded /\ flows[p.key] \in Flow /\ Sound(p.key, flows[p.key])
    BY <1>1, <1>7 DEF Known, Recorded, TableInv
  <2>2. Deliver(flows, flows[p.key], p)
    BY <1>7 DEF Known
  <2>3. verdict' \in Verdicts
    BY <1>1, <2>1, <2>2, DeliverSound
  <2>4. PICK g \in Flow : flows' = [flows EXCEPT ![p.key] = g] /\ Sound(p.key, g)
    BY <1>1, <2>1, <2>2, DeliverSound
  <2>5. /\ flows' \in [Keys -> Flow \cup {NoFlow}]
        /\ Recorded' = {l \in Keys : flows[l] # NoFlow} \cup {p.key}
        /\ \A l \in Recorded' : Sound(l, flows'[l])
    BY <1>1, <2>1, <2>4, Linked
  <2>6. Recorded' = Recorded
    BY <2>1, <2>5 DEF Recorded
  <2>7. size' = size /\ overload' = overload /\ due' = due /\ pc' = "sweep"
    BY <1>7 DEF Known
  <2> QED BY <1>1, <1>2, <2>3, <2>5, <2>6, <2>7 DEF TableInv, TypeOK, SizeMatches
<1>8. ASSUME NEW p \in Packets, Created(p) PROVE TableInv'
  BY <1>8, CreatedKeeps
<1>9. CASE NoBufs
  BY <1>2, <1>3, <1>9, ConstantFacts DEF NoBufs
<1>10. CASE Timeout
  BY <1>2, <1>3, <1>10 DEF Timeout
<1>11. CASE Sweep
  <2> DEFINE gone == {k \in Recorded : Expired(k, flows[k])}
  <2>1. flows' = [k \in Keys |-> IF k \in gone THEN NoFlow ELSE flows[k]] /\ size' = size - Cardinality(gone)
    BY <1>11 DEF Sweep
  <2>2. due' = FALSE /\ pc' = "recv" /\ verdict' = NoVerdict /\ overload' = overload
    BY <1>11 DEF Sweep
  <2>3. gone \subseteq Recorded /\ Recorded \cap gone = gone
    OBVIOUS
  <2> HIDE DEF gone
  <2>4. flows' \in [Keys -> Flow \cup {NoFlow}]
    BY <1>1, <2>1
  <2>5. Recorded' = Recorded \ gone
    BY <2>1 DEF Recorded
  <2>6. IsFiniteSet(gone) /\ Cardinality(Recorded \ gone) = Cardinality(Recorded) - Cardinality(gone)
    <3>1. IsFiniteSet(gone)
      BY <2>3, RecordedFinite, FS_Subset
    <3>2. Cardinality(Recorded \ gone) = Cardinality(Recorded) - Cardinality(Recorded \cap gone)
      BY RecordedFinite, FS_Difference
    <3> QED BY <2>3, <3>1, <3>2
  <2>7. Cardinality(Recorded \ gone) \in Nat /\ Cardinality(gone) \in Nat
    BY <2>6, RecordedFinite, FS_Subset, FS_CardinalityType
  <2>8. size' = Cardinality(Recorded') /\ size' \in 0 .. MaxFlows
    BY <1>1, <2>1, <2>5, <2>6, <2>7, RecordedFinite, ConstantFacts
  <2>9. \A l \in Recorded' : Sound(l, flows'[l])
    BY <2>1, <2>5 DEF TableInv, Recorded
  <2> QED BY <1>2, <2>2, <2>4, <2>8, <2>9 DEF TableInv, TypeOK, SizeMatches
<1>12. CASE NotDue
  BY <1>2, <1>3, <1>12 DEF NotDue
<1>13. CASE Tick
  <2> DEFINE tick(f) == [f EXCEPT !.age = Older(f.age), !.idle = Older(f.idle)]
  <2>1. \A n \in Ages : Older(n) \in Ages /\ Older(n) >= n
    BY ConstantFacts DEF Older, Ages
  <2>2. Younger(overload) \in Ages
    BY <1>2, ConstantFacts DEF Younger, Ages
  <2>3. ASSUME NEW f \in Flow
        PROVE  /\ tick(f) \in Flow /\ tick(f).result = f.result /\ tick(f).engine = f.engine
               /\ tick(f).unique = f.unique /\ tick(f).high = f.high /\ tick(f).shown = f.shown
               /\ tick(f).age >= f.age
    BY <2>1 DEF Flow
  <2> HIDE DEF tick
  <2>4. flows' = [k \in Keys |-> IF flows[k] = NoFlow THEN NoFlow ELSE tick(flows[k])]
    BY <1>13 DEF Tick, tick
  <2>5. flows' \in [Keys -> Flow \cup {NoFlow}]
    BY <1>1, <2>3, <2>4
  <2>6. Recorded' = Recorded
    BY <1>1, <2>3, <2>4, FlowIsNone DEF Recorded
  <2>7. ASSUME NEW k \in Recorded PROVE Sound(k, flows'[k])
    <3>1. flows[k] \in Flow /\ flows'[k] = tick(flows[k]) /\ Sound(k, flows[k])
      BY <1>1, <2>4 DEF Recorded, TableInv
    <3>2. Exhausted(k, flows[k]) => Exhausted(k, flows'[k])
      <4>1. flows[k].age \in Nat /\ flows'[k].age \in Nat
        BY <2>3, <3>1, ConstantFacts DEF Flow, Ages
      <4>2. flows'[k].unique = flows[k].unique /\ flows'[k].age >= flows[k].age
        BY <2>3, <3>1
      <4> QED BY <4>1, <4>2, ConstantFacts DEF Exhausted
    <3> QED BY <2>3, <3>1, <3>2 DEF Sound, Terminal
  <2>8. overload' \in Ages /\ due' \in BOOLEAN /\ size' = size /\ pc' = pc /\ verdict' = verdict
    BY <1>13, <2>2 DEF Tick
  <2> QED BY <1>1, <1>2, <2>5, <2>6, <2>7, <2>8 DEF TableInv, TypeOK, SizeMatches
<1>14. CASE UNCHANGED vars
  BY <1>2, <1>3, <1>14 DEF vars
<1> QED
  BY <1>4, <1>5, <1>6, <1>7, <1>8, <1>9, <1>10, <1>11, <1>12, <1>13, <1>14 DEF Next, PacketStep, Loop

(* Whatever packets, evictions, failed allocations and sweeps come, the    *)
(* counter that decides on eviction is the number of records in the        *)
(* buckets, and never exceeds the table's limit.                           *)
THEOREM InspectionInvariant == Spec => []InspectionInv
<1>1. TableInv => InspectionInv
  BY DEF TableInv
<1> QED BY <1>1, InitTable, NextTable, PTL DEF Spec

(* Retransmitted segments of a TCP flow never use up its budget, in a      *)
(* sequence space of any width.                                            *)
THEOREM Retransmissions == Spec => []RetransmissionsFree
<1>1. TableInv => RetransmissionsFree
  BY DEF TableInv, RetransmissionsFree, Sound
<1> QED BY <1>1, InitTable, NextTable, PTL DEF Spec

(* What TerminalStays says of one step. *)
Stays(k) ==
  k \in Recorded /\ Terminal(flows[k]) /\ verdict'.key = k /\ verdict'.inspected
    /\ verdict = NoVerdict /\ verdict' # NoVerdict
  => verdict'.stage = "terminal" /\ verdict'.path = flows[k].path /\ Terminal(flows'[k])

(* A step that gives an inspected packet its verdict is a delivery; to a   *)
(* record that exists, it can only repeat that the inspection has ended.   *)
LEMMA NextStays == TableInv /\ [Next]_vars => \A k \in Keys : Stays(k)
<1> SUFFICES ASSUME TableInv, [Next]_vars, NEW k \in Keys,
                    k \in Recorded, Terminal(flows[k]), verdict'.key = k, verdict'.inspected,
                    verdict = NoVerdict, verdict' # NoVerdict
             PROVE  verdict'.stage = "terminal" /\ verdict'.path = flows[k].path /\ Terminal(flows'[k])
  BY DEF Stays
<1>1. flows \in [Keys -> Flow \cup {NoFlow}]
  BY DEF TableInv, InspectionInv, TypeOK
<1>2. PICK p \in Packets : PacketStep(p)
  BY DEF Next, NoBufs, Loop, Timeout, Sweep, NotDue, Tick, vars
<1>3. ~(Bypass(p) \/ Unparsed(p) \/ NoMemory(p))
  BY UninspectedType, InspectionAssumption DEF Bypass, Unparsed, NoMemory
<1>4. CASE Known(p)
  <2>1. flows[p.key] \in Flow /\ Sound(p.key, flows[p.key]) /\ Deliver(flows, flows[p.key], p)
    BY <1>1, <1>4 DEF Known, Recorded, TableInv
  <2>2. p.key = k /\ verdict'.path = flows[p.key].path
    BY <1>1, <2>1, DeliverSound
  <2>3. PICK g \in Flow : /\ flows' = [flows EXCEPT ![p.key] = g]
                          /\ Terminal(flows[p.key]) => Terminal(g) /\ verdict'.stage = "terminal"
    BY <1>1, <2>1, DeliverSound
  <2> QED BY <1>1, <2>2, <2>3
<1>5. CASE Created(p)
  <2> DEFINE f == NewFlow(PacketPath(p))
  <2>1. f \in Flow /\ Sound(p.key, f)
    BY NewFlowSound
  <2>2. PICK t \in [Keys -> Flow \cup {NoFlow}] : Deliver(t, f, p)
    <3>1. CASE Deliver(flows, f, p)
      BY <1>1, <3>1
    <3>2. ASSUME NEW v \in Victims, Deliver([flows EXCEPT ![v] = NoFlow], f, p)
          PROVE  \E t \in [Keys -> Flow \cup {NoFlow}] : Deliver(t, f, p)
      <4>1. [flows EXCEPT ![v] = NoFlow] \in [Keys -> Flow \cup {NoFlow}]
        BY <1>1
      <4> QED BY <3>2, <4>1
    <3> QED BY <1>5, <3>1, <3>2 DEF Created
  <2> HIDE DEF f
  <2>3. verdict'.key = p.key
    BY <2>1, <2>2, DeliverSound
  <2> QED BY <1>5, <2>3 DEF Created
<1> QED BY <1>2, <1>3, <1>4, <1>5 DEF PacketStep

(* A flow whose inspection has ended stays terminal, on its path, for as   *)
(* long as its record lives, although every packet is decided on anew.     *)
THEOREM TerminalForGood == Spec => TerminalStays
<1>1. (\A k \in Keys : Stays(k)) =>
        [\A k \in Keys :
           k \in Recorded /\ Terminal(flows[k]) /\ verdict'.key = k /\ verdict'.inspected
             /\ verdict = NoVerdict /\ verdict' # NoVerdict
           => verdict'.stage = "terminal" /\ verdict'.path = flows[k].path /\ Terminal(flows'[k])]_vars
  BY DEF Stays
<1> QED BY <1>1, InitTable, NextTable, NextStays, PTL DEF Spec, TerminalStays
=============================================================================
