----------------------------- MODULE PathProofs -----------------------------
(***************************************************************************)
(* Proofs about the paths of a connection.                                 *)
(*                                                                         *)
(* SLA path selection, for any paths, scores, sample counts, hold-down and *)
(* improvement: which switches select() makes, and where the pinned RTP    *)
(* flows are.                                                              *)
(*                                                                         *)
(* Return-path affinity, for any sites, transports, gateways, connections  *)
(* and numbers of installations, restarts and packets: what the conntrack  *)
(* entries pin, and which way the replies take.                            *)
(***************************************************************************)
EXTENDS PathSelection, PathAffinity, FiniteSetTheorems, WellFoundedInduction, TLAPS

(* The order of the natural numbers as a relation. *)
LEMMA LessThan == OpToRel(<, Nat) = {ss \in Nat \X Nat : ss[1] < ss[2]}
BY DEF OpToRel

(* A set of natural numbers that is not empty has a smallest one. *)
LEMMA Smallest ==
  ASSUME NEW N, N \subseteq Nat, N # {}
  PROVE  \E m \in N : \A n \in N : m <= n
<1>1. PICK m \in N : \A n \in N : ~(<<n, m>> \in OpToRel(<, Nat))
  BY NatLessThanWellFounded, WFMin
<1>2. ASSUME NEW n \in N, n < m PROVE FALSE
  <2>1. <<n, m>> \in {ss \in Nat \X Nat : ss[1] < ss[2]}
    BY <1>2
  <2> QED BY <1>1, <2>1, LessThan
<1>3. \A n \in N : m <= n
  BY <1>2
<1> QED BY <1>3

(* A measurement has a score, if only a nominal one for a path that is down. *)
LEMMA MeasurementFacts ==
  \A x \in Measurement : x.up \in BOOLEAN /\ x.violating \in BOOLEAN /\ x.score \in Nat
<1>1. (CHOOSE n \in Scores : TRUE) \in Scores
  <2>1. \E n \in Scores : TRUE
    BY Tuning
  <2> QED BY <2>1, Zenon
<1> DEFINE nominal == CHOOSE n \in Scores : TRUE
<1>2. nominal \in Scores
  BY <1>1
<1>3. Measurement = [up : {TRUE}, violating : BOOLEAN, score : Scores]
                    \cup {[up |-> FALSE, violating |-> FALSE, score |-> nominal]}
  BY DEF Measurement
<1> HIDE DEF nominal
<1>4. nominal \in Nat /\ Scores \subseteq Nat
  BY <1>2, Tuning
<1>5. ASSUME NEW x \in Measurement
      PROVE  x.up \in BOOLEAN /\ x.violating \in BOOLEAN /\ x.score \in Nat
  <2>1. CASE x \in [up : {TRUE}, violating : BOOLEAN, score : Scores]
    BY <1>4, <2>1
  <2>2. CASE x = [up |-> FALSE, violating |-> FALSE, score |-> nominal]
    BY <1>4, <2>2
  <2> QED BY <1>3, <2>1, <2>2
<1> QED BY <1>5

(* The sorted candidates have a first one: min() of a list that is not     *)
(* empty, by score and then by path_id.                                    *)
LEMMA BestInPool ==
  ASSUME NEW m \in Measurements, NEW pool, pool \subseteq Paths, pool # {}
  PROVE  Best(m, pool) \in pool
<1>1. \A p \in Paths : m[p].score \in Nat /\ PathOrder[p] \in Nat
  BY Tuning, MeasurementFacts DEF Measurements
<1> DEFINE scores == {m[p].score : p \in pool}
<1>2. PICK least \in scores : \A n \in scores : least <= n
  <2>1. scores \subseteq Nat /\ scores # {}
    BY <1>1
  <2> HIDE DEF scores
  <2> QED BY <2>1, Smallest
<1> DEFINE tied == {p \in pool : m[p].score = least}
           orders == {PathOrder[p] : p \in tied}
<1>3. PICK first \in orders : \A n \in orders : first <= n
  <2>1. orders \subseteq Nat /\ orders # {}
    BY <1>1, <1>2
  <2> HIDE DEF orders
  <2> QED BY <2>1, Smallest
<1>4. PICK p \in tied : PathOrder[p] = first
  OBVIOUS
<1>5. ASSUME NEW q \in pool
      PROVE  m[p].score < m[q].score \/ (m[p].score = m[q].score /\ PathOrder[p] <= PathOrder[q])
  <2>1. m[p].score = least /\ least <= m[q].score
    BY <1>2, <1>4
  <2>2. CASE m[q].score = least
    BY <1>3, <1>4, <2>1, <2>2
  <2>3. CASE m[q].score # least
    BY <1>1, <2>1, <2>3
  <2> QED BY <2>2, <2>3
<1>6. p \in pool
  BY <1>4
<1> QED BY <1>5, <1>6, Zenon DEF Best

(* What select() takes out of a pool that is not empty. *)
LEMMA PickInPool ==
  ASSUME NEW m \in Measurements, NEW s \in [Paths -> SlaState], Pool(m, s) # {}
  PROVE  /\ Pool(m, s) \subseteq Paths /\ Pick(m, s) \in Pool(m, s) /\ Pick(m, s) \in Paths
         /\ Pick(m, s) # selection.path =>
              ~(/\ selection.path \in Pool(m, s)
                /\ selection.path \in Pending(m, s) \/ selection.hold > 0)
<1>1. Pool(m, s) \subseteq Paths
  BY DEF Pool, Eligible
<1>2. Best(m, Pool(m, s)) \in Pool(m, s)
  BY <1>1, BestInPool
<1> QED BY <1>1, <1>2 DEF Pick

(* The counters of a path stay within their bounds. *)
LEMMA EvaluateType ==
  ASSUME NEW s \in SlaState, NEW x \in Measurement
  PROVE  Evaluate(s, x) \in SlaState
<1>1. s.degraded \in BOOLEAN /\ s.bad \in 0 .. BadSamples /\ s.good \in 0 .. GoodSamples - 1
  BY DEF SlaState
<1>2. BadSamples \in Nat \ {0} /\ GoodSamples \in Nat \ {0}
  BY Tuning
<1> QED BY <1>1, <1>2 DEF Evaluate, SlaState

(* select() leaves a path for a cause, and for a path that breaks its SLA  *)
(* only when none meets it.                                                *)
LEMMA PickForCause ==
  ASSUME NEW m \in Measurements, NEW s \in [Paths -> SlaState], Pool(m, s) # {},
         NEW hold \in Nat, selection.hold = hold, selection.path \in Paths \cup {None},
         Pick(m, s) # selection.path
  PROVE  LET old == selection.path
             new == Pick(m, s)
         IN  /\ \/ old = None \/ ~m[old].up \/ s[old].degraded
                \/ selection.hold = 0 /\ ~m[old].violating
             /\ m[new].violating \/ s[new].degraded =>
                  /\ ~FailClosed
                  /\ \A p \in Paths : m[p].up => m[p].violating \/ s[p].degraded
<1> DEFINE old == selection.path
           new == Pick(m, s)
<1>1. /\ Pool(m, s) \subseteq Paths /\ new \in Pool(m, s)
      /\ ~(old \in Pool(m, s) /\ (old \in Pending(m, s) \/ selection.hold > 0))
  BY PickInPool
<1> HIDE DEF new
<1>2. old = None \/ ~m[old].up \/ s[old].degraded \/ (selection.hold = 0 /\ ~m[old].violating)
  <2>1. SUFFICES ASSUME old # None, m[old].up, ~s[old].degraded
                 PROVE  selection.hold = 0 /\ ~m[old].violating
    OBVIOUS
  <2>2. old \in Eligible(m, s)
    BY <2>1 DEF Eligible
  <2>3. old \in Pool(m, s)
    BY <2>2 DEF Pool
  <2>4. old \notin Pending(m, s) /\ ~(selection.hold > 0)
    BY <1>1, <2>3
  <2> QED BY <2>2, <2>4 DEF Pending
<1>3. ASSUME m[new].violating \/ s[new].degraded
      PROVE  ~FailClosed /\ \A p \in Paths : m[p].up => m[p].violating \/ s[p].degraded
  <2>1. new \notin Eligible(m, s)
    BY <1>3 DEF Eligible, new
  <2>2. Eligible(m, s) = {} /\ ~FailClosed
    BY <1>1, <2>1 DEF Pool
  <2> QED BY <2>2 DEF Eligible
<1> QED BY <1>2, <1>3 DEF new

(* The inductive invariant: outside _resteer_rtp's turn every flow that    *)
(* does not stray is on the selected path, and in its turn the path it     *)
(* will move the flows to is the selected one.                             *)
SteeringInv ==
  /\ TypeOK
  /\ pc # "resteer" /\ flow # NoFlow /\ ~flow.stray => flow.path = selection.path
  /\ pc = "resteer" => chosen = selection.path /\ chosen \in Paths
  /\ flow # NoFlow => flow.path \in Paths
  /\ ~RealTime => flow = NoFlow

(* It holds at the start. *)
LEMMA InitSteering == Init => SteeringInv
<1> SUFFICES ASSUME Init PROVE SteeringInv
  OBVIOUS
<1>1. StaticRule \in Rules /\ NoSelection \in [path : Paths \cup {None}, hold : 0 .. HoldDownTime]
  BY Tuning DEF StaticRule, Rules, NoSelection
<1>2. FreshSla \in [Paths -> SlaState]
  BY Tuning DEF FreshSla, SlaState
<1>3. NoFlow \in [path : Paths \cup {None}, stray : BOOLEAN]
  BY DEF NoFlow
<1>4. weather \in [Paths -> Measurement]
  BY DEF Init
<1> QED BY <1>1, <1>2, <1>3, <1>4 DEF Init, SteeringInv, TypeOK

(* A round's samples keep the counters within their bounds. *)
LEMMA MeasuredType ==
  ASSUME TypeOK, NEW m \in Measurements, Measured(m)
  PROVE  weather' \in [Paths -> Measurement] /\ sla' \in [Paths -> SlaState]
<1>1. \A p \in Paths : sla[p] \in SlaState /\ m[p] \in Measurement
  BY DEF TypeOK, Measurements
<1>2. \A p \in Paths : Evaluate(sla[p], m[p]) \in SlaState
  BY <1>1, EvaluateType
<1> QED BY <1>2 DEF Measured, Measurements

(* What a round leaves to be written. *)
LEMMA WritingType ==
  ASSUME NEW new \in Rules, WriteIfChanged(new)
  PROVE  update' \in Rules \cup {Flushed} /\ Writing \in {"rest", "apply"}
         /\ (Writing = "apply" => update' \in Rules)
BY DEF WriteIfChanged, Writing

(* Every step of the monitor, the bootstrap process and the kernel keeps it. *)
LEMMA NextSteering == SteeringInv /\ [Next]_vars => SteeringInv'
<1> SUFFICES ASSUME SteeringInv, [Next]_vars PROVE SteeringInv'
  OBVIOUS
<1> USE DEF SteeringInv
<1>0. None \notin Paths /\ HoldDownTime \in Nat /\ StaticPath \in Paths /\ RealTime \in BOOLEAN /\ FailClosed \in BOOLEAN
  BY Tuning DEF None
<1>1. CASE SelectPath
  <2>1. PICK m \in Measurements :
          /\ Measured(m)
          /\ Pool(m, sla') # {}
          /\ chosen' = Pick(m, sla')
          /\ selection' = [path |-> Pick(m, sla'),
                           hold |-> IF selection.path = Pick(m, sla') THEN selection.hold ELSE HoldDownTime]
          /\ WriteIfChanged([path |-> Pick(m, sla'), blocked |-> FALSE])
          /\ pc' = IF RealTime /\ Switches(Pick(m, sla')) THEN "resteer" ELSE Writing
          /\ UNCHANGED <<calm, rule, chain, boot, flow>>
    BY <1>1, Zenon DEF SelectPath
  <2> DEFINE p == Pick(m, sla')
  <2>2. weather' \in [Paths -> Measurement] /\ sla' \in [Paths -> SlaState]
    BY <2>1, MeasuredType
  <2>3. p \in Paths
    BY <2>1, <2>2, PickInPool
  <2>4. pc = "rest"
    BY <2>1 DEF Measured
  <2> HIDE DEF p
  <2>5. [path |-> p, blocked |-> FALSE] \in Rules
    BY <2>3 DEF Rules
  <2>6. update' \in Rules \cup {Flushed} /\ Writing \in {"rest", "apply"} /\ (Writing = "apply" => update' \in Rules)
    BY <2>1, <2>5, WritingType DEF p
  <2>7. selection' \in [path : Paths \cup {None}, hold : 0 .. HoldDownTime] /\ selection'.path = p /\ chosen' = p
    BY <1>0, <2>1, <2>3 DEF TypeOK, p
  <2>8. pc' \in {"rest", "resteer", "apply"} /\ (pc' = "apply" => update' \in Rules)
    BY <2>1, <2>6
  <2>9. TypeOK'
    BY <2>1, <2>2, <2>3, <2>6, <2>7, <2>8 DEF TypeOK
  <2>10. ASSUME pc' # "resteer", flow' # NoFlow, ~flow'.stray PROVE flow'.path = selection'.path
    <3>1. RealTime /\ flow' = flow /\ flow.path = selection.path
      BY <1>0, <2>1, <2>4, <2>10
    <3>2. selection.path \in {None, p}
      BY <1>0, <2>1, <2>10, <3>1 DEF Switches, p
    <3>3. flow.path # None
      BY <1>0, <2>1, <2>10
    <3> QED BY <2>7, <3>1, <3>2, <3>3
  <2> QED BY <2>1, <2>3, <2>7, <2>9, <2>10
<1>2. CASE NoEligiblePath
  <2>1. PICK m \in Measurements :
          /\ Measured(m)
          /\ WriteIfChanged([rule EXCEPT !.blocked = FailClosed \/ @])
          /\ pc' = Writing /\ chosen' = None
          /\ UNCHANGED <<calm, selection, rule, chain, boot, flow>>
    BY <1>2 DEF NoEligiblePath
  <2>2. weather' \in [Paths -> Measurement] /\ sla' \in [Paths -> SlaState] /\ pc = "rest"
    BY <2>1, MeasuredType DEF Measured
  <2>3. [rule EXCEPT !.blocked = FailClosed \/ @] \in Rules
    <3>1. rule \in Rules
      BY DEF TypeOK
    <3>2. (FailClosed \/ rule.blocked) \in BOOLEAN
      BY <1>0, <3>1 DEF Rules
    <3> QED BY <3>1, <3>2 DEF Rules
  <2>4. update' \in Rules \cup {Flushed} /\ Writing \in {"rest", "apply"} /\ (Writing = "apply" => update' \in Rules)
    BY <2>1, <2>3, WritingType
  <2> QED BY <2>1, <2>2, <2>4 DEF TypeOK
<1>3. CASE ResteerRtp
  <2>1. chosen \in Paths /\ chosen = selection.path /\ pc' \in {"rest", "apply"}
    BY <1>3 DEF ResteerRtp
  <2>2. pc' = "apply" => update \in Rules
    BY <1>3 DEF ResteerRtp, TypeOK
  <2>3. UNCHANGED <<weather, calm, selection, sla, chosen, update, rule, chain, boot>>
    BY <1>3 DEF ResteerRtp
  <2>4. CASE flow = NoFlow
    <3>1. flow' = NoFlow
      BY <1>3, <2>4 DEF ResteerRtp
    <3> QED BY <2>1, <2>2, <2>3, <2>4, <3>1 DEF TypeOK
  <2>5. CASE flow # NoFlow /\ flow' = [path |-> chosen, stray |-> FALSE]
    <3>1. flow' \in [path : Paths \cup {None}, stray : BOOLEAN] /\ flow'.path = chosen
      BY <2>1, <2>5
    <3> QED BY <2>1, <2>2, <2>3, <2>5, <3>1 DEF TypeOK
  <2>6. CASE flow # NoFlow /\ flow' = [flow EXCEPT !.stray = TRUE]
    <3>1. flow \in [path : Paths \cup {None}, stray : BOOLEAN]
      BY DEF TypeOK
    <3>2. flow' \in [path : Paths \cup {None}, stray : BOOLEAN] /\ flow'.stray /\ flow'.path = flow.path
      BY <2>6, <3>1
    <3> QED BY <2>1, <2>2, <2>3, <2>6, <3>2 DEF TypeOK
  <2> QED BY <1>3, <2>4, <2>5, <2>6 DEF ResteerRtp
<1>4. CASE ApplyClassMarks
  BY <1>4 DEF ApplyClassMarks, TypeOK
<1>5. CASE PersistRules
  BY <1>5 DEF PersistRules, TypeOK
<1>6. CASE Crash
  <2>1. chain' \in Rules \cup {Flushed}
    BY <1>6 DEF Crash, TypeOK
  <2>2. NoSelection \in [path : Paths \cup {None}, hold : 0 .. HoldDownTime] /\ FreshSla \in [Paths -> SlaState]
    BY Tuning DEF NoSelection, FreshSla, SlaState
  <2>3. flow \in [path : Paths \cup {None}, stray : BOOLEAN] /\ (flow # NoFlow) \in BOOLEAN
    BY DEF TypeOK
  <2>4. flow' = [flow EXCEPT !.stray = (flow # NoFlow)]
    BY <1>6 DEF Crash
  <2>5. flow' \in [path : Paths \cup {None}, stray : BOOLEAN] /\ flow'.path = flow.path /\ flow'.stray = (flow # NoFlow)
    BY <2>3, <2>4
  <2>6. flow' # NoFlow => flow # NoFlow
    <3>1. ASSUME flow = NoFlow PROVE flow' = NoFlow
      <4>1. (flow # NoFlow) = FALSE
        BY <3>1
      <4>2. flow' = [flow EXCEPT !.stray = FALSE]
        BY <2>4, <4>1
      <4> QED BY <3>1, <4>2 DEF NoFlow
    <3> QED BY <3>1
  <2>7. flow = NoFlow => flow' = NoFlow
    BY <2>6
  <2> QED BY <1>6, <2>1, <2>2, <2>5, <2>6, <2>7 DEF Crash, TypeOK
<1>7. CASE InstallChain
  <2>1. StaticRule \in Rules
    BY <1>0 DEF StaticRule, Rules
  <2> QED BY <1>7, <2>1 DEF InstallChain, TypeOK
<1>8. CASE SaveRules
  <2>1. StaticRule \in Rules
    BY <1>0 DEF StaticRule, Rules
  <2> QED BY <1>8, <2>1 DEF SaveRules, TypeOK
<1>9. CASE StartMonitor
  BY <1>9 DEF StartMonitor, TypeOK
<1>10. CASE FlowBegins
  <2>1. chain \in Rules
    BY <1>10 DEF FlowBegins, TypeOK
  <2>2. Steered \in Paths
    BY <1>0, <2>1 DEF Steered, Rules
  <2>3. flow' \in [path : Paths \cup {None}, stray : BOOLEAN] /\ flow'.path = Steered
        /\ flow'.stray = (Steered # selection.path)
    BY <1>10, <2>2 DEF FlowBegins
  <2> QED BY <1>10, <2>2, <2>3 DEF FlowBegins, TypeOK
<1>11. CASE FlowEnds
  <2>1. NoFlow \in [path : Paths \cup {None}, stray : BOOLEAN]
    BY DEF NoFlow
  <2> QED BY <1>11, <2>1 DEF FlowEnds, TypeOK
<1>12. CASE Tick
  <2>1. selection \in [path : Paths \cup {None}, hold : 0 .. HoldDownTime]
    BY DEF TypeOK
  <2>2. selection' \in [path : Paths \cup {None}, hold : 0 .. HoldDownTime] /\ selection'.path = selection.path
    BY <1>0, <1>12, <2>1 DEF Tick
  <2> QED BY <1>12, <2>2 DEF Tick, TypeOK
<1>13. CASE Settle
  BY <1>13 DEF Settle, TypeOK
<1>14. CASE UNCHANGED vars
  BY <1>14 DEF vars, TypeOK
<1> QED
  BY <1>1, <1>2, <1>3, <1>4, <1>5, <1>6, <1>7, <1>8, <1>9, <1>10, <1>11, <1>12, <1>13, <1>14
     DEF Next, Monitor, Bootstrap

(* The monitor, a reconcile that overlaps it and the kernel's pinned flows *)
(* stay consistent: at rest, every flow that began on the selected path or *)
(* was moved there is on the selected path, over any number of switches,   *)
(* failed commands and crashes.                                            *)
THEOREM PathInvariant == Spec => []PathInv
<1>1. SteeringInv => PathInv
  BY DEF SteeringInv, PathInv, RtpFollowsSelection
<1> QED BY <1>1, InitSteering, NextSteering, PTL DEF Spec

(* What SwitchesForCause says of one step. *)
ForCause ==
  pc' # "dead" /\ selection'.path # selection.path =>
    LET old == selection.path
        new == selection'.path
    IN  /\ \/ old = None \/ ~weather'[old].up \/ sla'[old].degraded
           \/ selection.hold = 0 /\ ~weather'[old].violating
        /\ weather'[new].violating \/ sla'[new].degraded =>
             /\ ~FailClosed
             /\ \A p \in Paths : weather'[p].up => weather'[p].violating \/ sla'[p].degraded

(* Only select() changes the path, and it does so for a cause. *)
LEMMA NextForCause == SteeringInv /\ [Next]_vars => ForCause
<1> SUFFICES ASSUME SteeringInv, [Next]_vars, pc' # "dead", selection'.path # selection.path
             PROVE  ForCause
  BY DEF ForCause
<1>1. SelectPath
  <2>1. ~Tick
    <3>1. selection \in [path : Paths \cup {None}, hold : 0 .. HoldDownTime]
      BY DEF SteeringInv, TypeOK
    <3> QED BY <3>1 DEF Tick
  <2> QED BY <2>1 DEF Next, Monitor, Bootstrap, NoEligiblePath, ResteerRtp, ApplyClassMarks, PersistRules,
                      Crash, InstallChain, SaveRules, StartMonitor, FlowBegins, FlowEnds, Settle, vars
<1>2. PICK m \in Measurements :
        /\ Measured(m)
        /\ Pool(m, sla') # {}
        /\ selection' = [path |-> Pick(m, sla'),
                         hold |-> IF selection.path = Pick(m, sla') THEN selection.hold ELSE HoldDownTime]
  BY <1>1, Zenon DEF SelectPath
<1>3. sla' \in [Paths -> SlaState] /\ weather' = m
  BY <1>2, MeasuredType DEF SteeringInv, Measured
<1>4. selection.path \in Paths \cup {None} /\ selection.hold \in Nat
  BY Tuning DEF SteeringInv, TypeOK
<1>5. selection'.path = Pick(m, sla')
  BY <1>2
<1> QED BY <1>2, <1>3, <1>4, <1>5, PickForCause DEF ForCause

(* Path selection never flaps without a cause, whatever is measured. *)
THEOREM CausedSwitches == Spec => SwitchesForCause
<1>1. ForCause => [ pc' # "dead" /\ selection'.path # selection.path =>
        LET old == selection.path
            new == selection'.path
        IN  /\ \/ old = None \/ ~weather'[old].up \/ sla'[old].degraded
               \/ selection.hold = 0 /\ ~weather'[old].violating
            /\ weather'[new].violating \/ sla'[new].degraded =>
                 /\ ~FailClosed
                 /\ \A p \in Paths : weather'[p].up => weather'[p].violating \/ sla'[p].degraded ]_vars
  BY DEF ForCause
<1> QED BY <1>1, InitSteering, NextSteering, NextForCause, PTL DEF Spec, SwitchesForCause

-----------------------------------------------------------------------------
(* A packet in the marking chain. *)
Marked == [mark : SUBSET Bits, saved : SUBSET Bits, queued : BOOLEAN]

(* The masks are sets of bits. *)
LEMMA MaskBits ==
  /\ route_mask \subseteq Bits /\ connection_mask \subseteq Bits /\ affinity_mask \subseteq Bits
  /\ stamp_mask \subseteq Bits /\ terminal_bit \subseteq Bits /\ provisional_bit \subseteq Bits
  /\ cloud_gateway_bit \subseteq Bits /\ direct_internet_bit \subseteq Bits
  /\ \A h : HubBit(h) \subseteq Bits
  /\ \A m, o : m \subseteq Bits /\ o \subseteq Bits => Saved(m, o) \subseteq Bits /\ Restored(m, o) \subseteq Bits
BY DEF Bits, route_mask, connection_mask, affinity_mask, stamp_mask, state_mask, target_hub_mask, egress_mask,
       terminal_bit, provisional_bit, emergency_bit, hub1_bit, hub2_bit, cloud_gateway_bit, direct_internet_bit,
       HubBit, Saved, Restored

(* What a rule makes of marks are marks. *)
LEMMA ApplyType ==
  ASSUME NEW r \in ChainRules, NEW x \in Marked
  PROVE  ApplyRule(r, x) \in Marked
<1>1. r.do \in {"restore", "mark", "queue", "save"} /\ r.mark \subseteq Bits
  BY DEF ChainRules
<1>2. x.mark \subseteq Bits /\ x.saved \subseteq Bits /\ x.queued \in BOOLEAN
  BY DEF Marked
<1>3. CASE x.queued
  BY <1>3 DEF ApplyRule
<1>4. CASE ~x.queued
  <2>1. CASE r.do = "restore"
    <3>1. ApplyRule(r, x) = [x EXCEPT !.mark = Restored(x.mark, x.saved)]
      BY <1>4, <2>1 DEF ApplyRule
    <3>2. Restored(x.mark, x.saved) \subseteq Bits
      BY <1>2, MaskBits
    <3> QED BY <3>1, <3>2 DEF Marked
  <2>2. CASE r.do = "mark"
    <3>1. ApplyRule(r, x) = IF x.mark \cap connection_mask = {}
                            THEN [x EXCEPT !.mark = (x.mark \ affinity_mask) \cup r.mark] ELSE x
      BY <1>4, <2>2 DEF ApplyRule
    <3>2. (x.mark \ affinity_mask) \cup r.mark \subseteq Bits
      BY <1>1, <1>2
    <3> QED BY <3>1, <3>2 DEF Marked
  <2>3. CASE r.do = "queue"
    <3>1. ApplyRule(r, x) = [x EXCEPT !.queued = stage(x.mark) # "TERMINAL"]
      BY <1>4, <2>3 DEF ApplyRule
    <3> QED BY <3>1 DEF Marked
  <2>4. CASE r.do = "save"
    <3>1. ApplyRule(r, x) = [x EXCEPT !.saved = Saved(x.saved, x.mark)]
      BY <1>4, <2>4 DEF ApplyRule
    <3>2. Saved(x.saved, x.mark) \subseteq Bits
      BY <1>2, MaskBits
    <3> QED BY <3>1, <3>2 DEF Marked
  <2> QED BY <1>1, <2>1, <2>2, <2>3, <2>4
<1> QED BY <1>2, <1>3, <1>4

(* The marks of a packet before the first and after each rule of a chain. *)
Trace(rules, x, f) ==
  /\ f[0] = x
  /\ \A k \in 1 .. Len(rules) : f[k] = ApplyRule(rules[k], f[k - 1])

(* Every chain has a trace: a shortest prefix without one would extend one *)
(* that has one.                                                           *)
LEMMA TraceExists ==
  ASSUME NEW rules \in Seq(ChainRules), NEW x \in Marked
  PROVE  \E f \in [0 .. Len(rules) -> Marked] : Trace(rules, x, f)
<1> DEFINE L == Len(rules)
           Upto(n) == \E f \in [0 .. n -> Marked] :
                        f[0] = x /\ \A k \in 1 .. n : f[k] = ApplyRule(rules[k], f[k - 1])
           N == {n \in 0 .. L : ~Upto(n)}
<1>1. L \in Nat /\ \A k \in 1 .. L : rules[k] \in ChainRules
  OBVIOUS
<1>2. Upto(0)
  <2> DEFINE f == [k \in 0 .. 0 |-> x]
  <2>1. f \in [0 .. 0 -> Marked] /\ f[0] = x /\ \A k \in 1 .. 0 : f[k] = ApplyRule(rules[k], f[k - 1])
    OBVIOUS
  <2> QED BY <2>1
<1>3. ASSUME NEW n \in 1 .. L, Upto(n - 1) PROVE Upto(n)
  <2>1. PICK f \in [0 .. n - 1 -> Marked] :
          f[0] = x /\ \A k \in 1 .. n - 1 : f[k] = ApplyRule(rules[k], f[k - 1])
    BY <1>3
  <2> DEFINE g == [k \in 0 .. n |-> IF k = n THEN ApplyRule(rules[n], f[n - 1]) ELSE f[k]]
  <2>2. ApplyRule(rules[n], f[n - 1]) \in Marked
    BY <1>1, ApplyType
  <2>3. g \in [0 .. n -> Marked] /\ g[n] = ApplyRule(rules[n], f[n - 1]) /\ \A k \in 0 .. n - 1 : g[k] = f[k]
    BY <1>1, <2>2
  <2> HIDE DEF g
  <2>4. ASSUME NEW k \in 1 .. n PROVE g[k] = ApplyRule(rules[k], g[k - 1])
    BY <1>1, <2>1, <2>3
  <2>5. g[0] = x
    BY <1>1, <2>1, <2>3
  <2> QED BY <2>3, <2>4, <2>5
<1>4. N = {}
  <2> SUFFICES ASSUME N # {} PROVE FALSE
    OBVIOUS
  <2>1. N \subseteq Nat
    BY <1>1
  <2>2. PICK m \in N : \A n \in N : m <= n
    <3> HIDE DEF N
    <3> QED BY <2>1, Smallest
  <2>3. m \in 0 .. L /\ ~Upto(m) /\ m # 0
    BY <1>2, <2>2
  <2>4. m \in 1 .. L /\ m - 1 \in 0 .. L /\ ~(m <= m - 1)
    BY <1>1, <2>3
  <2>5. m - 1 \notin N
    BY <2>2, <2>4
  <2>6. Upto(m - 1)
    <3> HIDE DEF Upto
    <3> QED BY <2>4, <2>5
  <2> HIDE DEF Upto
  <2> QED BY <1>3, <2>3, <2>4, <2>6
<1>5. L \in 0 .. L
  BY <1>1
<1>6. Upto(L)
  <2> HIDE DEF Upto
  <2> QED BY <1>4, <1>5
<1> QED BY <1>6 DEF Trace

(* What the chain does is the end of its trace. *)
LEMMA ChainTrace ==
  ASSUME NEW s, marking[s] \in Seq(ChainRules), NEW m \in SUBSET Bits, NEW saved \in SUBSET Bits
  PROVE  \E f \in [0 .. Len(marking[s]) -> Marked] :
           /\ Trace(marking[s], [mark |-> m, saved |-> saved, queued |-> FALSE], f)
           /\ RunChain(s, m, saved) = f[Len(marking[s])]
<1> DEFINE rules == marking[s]
           x == [mark |-> m, saved |-> saved, queued |-> FALSE]
           F(f) == f = [k \in 0 .. Len(rules) |-> IF k = 0 THEN x ELSE ApplyRule(rules[k], f[k - 1])]
           g == CHOOSE f : F(f)
<1>1. x \in Marked
  BY DEF Marked
<1>2. PICK f \in [0 .. Len(rules) -> Marked] : Trace(rules, x, f)
  <2> HIDE DEF x
  <2> QED BY <1>1, TraceExists
<1>3. Len(rules) \in Nat
  OBVIOUS
<1>4. F(f)
  <2> HIDE DEF x, rules
  <2>1. \A k \in 0 .. Len(rules) : f[k] = IF k = 0 THEN x ELSE ApplyRule(rules[k], f[k - 1])
    BY <1>2, <1>3 DEF Trace
  <2> QED BY <2>1
<1>5. F(g)
  BY <1>4, Zenon
<1>6. RunChain(s, m, saved) = g[Len(rules)]
  BY DEF RunChain
<1>7. g = f
  <2> DEFINE N == {k \in 0 .. Len(rules) : g[k] # f[k]}
  <2> HIDE DEF g, x, rules
  <2>1. /\ \A k \in 0 .. Len(rules) : f[k] = IF k = 0 THEN x ELSE ApplyRule(rules[k], f[k - 1])
        /\ \A k \in 0 .. Len(rules) : g[k] = IF k = 0 THEN x ELSE ApplyRule(rules[k], g[k - 1])
    BY <1>4, <1>5
  <2>2. N = {}
    <3> SUFFICES ASSUME N # {} PROVE FALSE
      OBVIOUS
    <3>1. N \subseteq Nat
      BY <1>3
    <3>2. PICK j \in N : \A n \in N : j <= n
      <4> HIDE DEF N
      <4> QED BY <3>1, Smallest
    <3>3. j \in 0 .. Len(rules) /\ g[j] # f[j] /\ j # 0
      BY <2>1, <3>2
    <3>4. j - 1 \in 0 .. Len(rules) /\ ~(j <= j - 1)
      BY <1>3, <3>3
    <3>5. g[j - 1] = f[j - 1]
      BY <3>2, <3>4
    <3> QED BY <2>1, <3>3, <3>5
  <2>3. g = [k \in 0 .. Len(rules) |-> g[k]] /\ f = [k \in 0 .. Len(rules) |-> f[k]]
    BY <1>4, <1>5
  <2> QED BY <2>2, <2>3
<1> QED BY <1>2, <1>6, <1>7

(* The chain makes marks of marks. *)
LEMMA ChainType ==
  ASSUME NEW s, marking[s] \in Seq(ChainRules), NEW m \in SUBSET Bits, NEW saved \in SUBSET Bits
  PROVE  RunChain(s, m, saved) \in Marked
<1>1. PICK f \in [0 .. Len(marking[s]) -> Marked] : RunChain(s, m, saved) = f[Len(marking[s])]
  BY ChainTrace
<1>2. Len(marking[s]) \in 0 .. Len(marking[s])
  OBVIOUS
<1> QED BY <1>1, <1>2

-----------------------------------------------------------------------------
(* The names of namespaces and of ends are different. *)
LEMMA NodeKinds ==
  /\ \A s \in Sites : s \notin Hubs /\ s \notin Gateways /\ s \in Nodes /\ s \in Routers
  /\ \A h \in Hubs : h \notin Sites /\ h \notin Gateways /\ h \in Nodes /\ h \in Routers
  /\ \A g \in Gateways : g \notin Sites /\ g \notin Hubs /\ g \in Nodes /\ g \notin Routers
  /\ \A n \in Nodes : n \in Sites \/ n \in Hubs \/ n \in Gateways
  /\ "dc" \notin Nodes /\ "cloud" \notin Nodes /\ "saas" \notin Nodes
BY NamesValid DEF Nodes, Routers

(* The interfaces of the paths. *)
LEMMA PathKinds ==
  /\ \A s \in Sites : PathsOf(s) = Hubs \X Transports
  /\ \A h \in Hubs : PathsOf(h) = {"spokes"} \X Transports
  /\ \A g \in Gateways : PathsOf(g) = {"transit"} \X Hubs
  /\ \A n \in Nodes : PathsOf(n) \subseteq Interfaces
BY NodeKinds DEF PathsOf, Interfaces

(* A path's mark: a slot and a hub, or a hub behind a gateway. *)
LEMMA StampType ==
  ASSUME NEW n \in Nodes, NEW i \in PathsOf(n)
  PROVE  Affinity(n, i) \subseteq Bits /\ Stamp(n, i) \subseteq Bits
<1>1. \A t \in Transports : Slot[t] \subseteq route_mask
  BY MarksValid DEF Validate
<1>2. n \in Sites \/ n \in Hubs => i[2] \in Transports
  BY PathKinds
<1>3. n \in Gateways \/ n \in Hubs \/ n \in Sites
  BY NodeKinds
<1>4. n \in Gateways => n \notin Sites /\ n \notin Hubs
  BY NodeKinds
<1>5. Affinity(n, i) \subseteq Bits
  BY <1>1, <1>2, <1>3, <1>4, MaskBits DEF Affinity
<1> QED BY <1>5, MaskBits DEF Stamp

(* The fields of an entry that a packet meets. *)
LEMMA EntryFields ==
  ASSUME NEW c \in Entries
  PROVE  /\ c.orig \in Directions \cup {"none"} /\ c.est \in BOOLEAN /\ c.nat \in {"open", "bound", "none"}
         /\ c.mark \subseteq Bits
BY DEF Entries

(* conntrack finds or creates the entry. *)
LEMMA TrackFields ==
  ASSUME NEW c \in Entries, NEW dir \in Directions
  PROVE  LET e == Track(c, dir)
         IN  /\ e \in Entries /\ e.mark = c.mark /\ e.nat = c.nat
             /\ e.orig = (IF c.orig = "none" THEN dir ELSE c.orig) /\ e.orig \in Directions
             /\ c.est => e.est
             /\ ~e.est => c.orig = "none" \/ dir = c.orig
             /\ c.orig # "none" => (e.est <=> c.est \/ dir # c.orig)
             /\ c.orig = "none" => e.est = c.est
BY DEF Track, Entries, Directions

(* The binding of the source NAT. *)
LEMMA BindFields ==
  ASSUME NEW c \in Entries, NEW match \in BOOLEAN
  PROVE  LET e == Bind(c, match)
         IN  /\ e \in Entries /\ e.mark = c.mark /\ e.orig = c.orig /\ e.est = c.est
             /\ e.nat = (IF c.nat = "open" THEN IF match THEN "bound" ELSE "none" ELSE c.nat)
BY DEF Bind, Entries

(* SDWAN_V5_RPA_IN. *)
LEMMA EntryInFields ==
  ASSUME NEW c \in Entries, NEW n \in Nodes, NEW i
  PROVE  LET e == EntryIn(n, i, c)
         IN  /\ MarkIn(n, i, c) \subseteq Bits
             /\ e \in Entries /\ e.orig = c.orig /\ e.est = c.est /\ e.nat = c.nat
             /\ e.mark = IF InLen(n) = K(n) + 2 THEN Saved(c.mark, MarkIn(n, i, c)) ELSE c.mark
<1>1. c.mark \subseteq Bits
  BY EntryFields
<1>2. MarkIn(n, i, c) \subseteq Bits
  <2> DEFINE restored == IF InLen(n) >= 1 THEN Restored({}, c.mark) ELSE {}
  <2>1. restored \subseteq Bits
    BY <1>1, MaskBits
  <2>2. i \in PathsOf(n) => Stamp(n, i) \subseteq Bits
    BY StampType
  <2>3. MarkIn(n, i, c) = restored \/ (i \in PathsOf(n) /\ MarkIn(n, i, c) = (restored \ stamp_mask) \cup Stamp(n, i))
    BY DEF MarkIn
  <2> QED BY <2>1, <2>2, <2>3
<1>3. Saved(c.mark, MarkIn(n, i, c)) \subseteq Bits
  BY <1>1, <1>2, MaskBits
<1> QED BY <1>2, <1>3 DEF EntryIn, Entries

(* SDWAN_V5_RPA_OUT: the entry takes the mark only when it stands for the  *)
(* path that the packet leaves by.                                         *)
LEMMA EntryOutFields ==
  ASSUME NEW c \in Entries, NEW n \in Nodes, NEW o, NEW m \in SUBSET Bits
  PROVE  LET e == EntryOut(n, o, m, c)
         IN  /\ e \in Entries /\ e.orig = c.orig /\ e.est = c.est /\ e.nat = c.nat
             /\ \/ e.mark = c.mark
                \/ /\ o \in PathsOf(n) /\ ~c.est
                   /\ \E stamped \in {m, (m \ stamp_mask) \cup Stamp(n, o)} :
                        /\ stamped = m \/ m \cap affinity_mask = {}
                        /\ stamped \cap stamp_mask = Stamp(n, o)
                        /\ e.mark = Saved(c.mark, stamped)
<1> DEFINE stamped == IF /\ o \in PathsOf(n) /\ OutLen(n) >= 2 * Pos(n, o) - 1
                         /\ ~c.est /\ m \cap affinity_mask = {}
                      THEN (m \ stamp_mask) \cup Stamp(n, o) ELSE m
<1>1. stamped \subseteq Bits
  BY StampType
<1>2. stamped \in {m, (m \ stamp_mask) \cup Stamp(n, o)} /\ (stamped = m \/ m \cap affinity_mask = {})
  OBVIOUS
<1>3. EntryOut(n, o, m, c) = IF /\ o \in PathsOf(n) /\ OutLen(n) >= 2 * Pos(n, o)
                                /\ ~c.est /\ stamped \cap stamp_mask = Stamp(n, o)
                             THEN [c EXCEPT !.mark = Saved(c.mark, stamped)] ELSE c
  BY DEF EntryOut
<1> HIDE DEF stamped
<1>4. Saved(c.mark, stamped) \subseteq Bits
  BY <1>1, EntryFields, MaskBits
<1>5. CASE EntryOut(n, o, m, c) = c
  BY <1>5
<1>6. CASE /\ o \in PathsOf(n) /\ ~c.est /\ stamped \cap stamp_mask = Stamp(n, o)
           /\ EntryOut(n, o, m, c) = [c EXCEPT !.mark = Saved(c.mark, stamped)]
  <2>1. LET e == [c EXCEPT !.mark = Saved(c.mark, stamped)]
        IN  e \in Entries /\ e.orig = c.orig /\ e.est = c.est /\ e.nat = c.nat /\ e.mark = Saved(c.mark, stamped)
    BY <1>4 DEF Entries
  <2> QED BY <1>2, <1>6, <2>1
<1> QED BY <1>3, <1>5, <1>6

-----------------------------------------------------------------------------
(* The connection has an end at a site. *)
LEMMA ConnectionEnds ==
  ASSUME AffinityTypeOK
  PROVE  /\ conn.src \in Sites \cup {"dc", "cloud"} /\ conn.dst \in Sites \cup {"dc", "cloud", "saas"}
         /\ conn.src # conn.dst /\ Branch \in Sites /\ Ends \subseteq Sites
         /\ conn.src \in Sites => Branch = conn.src
         /\ conn.src \notin Sites => Branch = conn.dst /\ conn.dst \in Sites
         /\ PreferredHub[Branch] \in Hubs
<1>1. conn \in Flows
  BY DEF AffinityTypeOK
<1>2. conn \in [src : Sites \cup {"dc", "cloud"}, dst : Sites \cup {"dc", "cloud", "saas"}, rtp : BOOLEAN]
  BY <1>1, FlowsValid
<1>3. conn.src # conn.dst /\ {conn.src, conn.dst} \cap Sites # {}
  BY <1>1, FlowsValid, Zenon
<1>4. conn.src \notin Sites => conn.dst \in Sites
  BY <1>3
<1>5. Branch \in Sites
  BY <1>4 DEF Branch
<1> QED BY <1>2, <1>3, <1>4, <1>5, NamesValid DEF Branch, Ends

(* A packet that arrives somewhere. *)
LEMMA ArriveType ==
  ASSUME NEW n \in Nodes, NEW i \in Interfaces, NEW dir \in Directions, NEW natted \in BOOLEAN
  PROVE  Arrive(n, i, dir, natted) \in Packets
BY DEF Arrive, Packets

(* Where a packet of an end enters. *)
LEMMA EntryPointType ==
  ASSUME AffinityTypeOK, NEW e \in {conn.src, conn.dst}, NEW dir \in Directions, NEW a \in Addresses,
         NEW p \in EntryPoint(e, dir, a)
  PROVE  p \in Packets
<1>1. a[1] = "hub" => a[2] \in Hubs
  BY DEF Addresses, Unknown, Own
<1>2. a[1] = "gateway" => a[2] \in Gateways
  BY DEF Addresses, Unknown, Own
<1>3. a[1] = "inet" => a \in Interfaces
  BY DEF Addresses, Unknown, Own, Interfaces
<1>4. {Lan, Dc, Vpc} \subseteq Interfaces
  BY DEF Interfaces
<1>5. Branch \in Nodes /\ PreferredHub[Branch] \in Nodes
  BY ConnectionEnds, NodeKinds
<1>6. CASE e \in Sites
  <2>1. p = Arrive(e, Lan, dir, FALSE)
    BY <1>6, NodeKinds DEF EntryPoint
  <2> QED BY <1>4, <1>6, <2>1, ArriveType, NodeKinds
<1>7. CASE e = "dc"
  <2>1. p = Arrive(IF a[1] = "hub" THEN a[2] ELSE PreferredHub[Branch], Dc, dir, a[1] = "hub")
    BY <1>7, NodeKinds DEF EntryPoint, Nodes, Routers
  <2>2. (IF a[1] = "hub" THEN a[2] ELSE PreferredHub[Branch]) \in Nodes
    BY <1>1, <1>5, NodeKinds
  <2> QED BY <1>4, <2>1, <2>2, ArriveType
<1>8. CASE e = "cloud"
  <2>1. PICK g \in (IF a[1] = "gateway" THEN {a[2]} ELSE {f \in Gateways : GatewayRank(PreferredHub[Branch], f) = 1}) :
          p = Arrive(g, Vpc, dir, a[1] = "gateway")
    BY <1>8, NodeKinds DEF EntryPoint
  <2>2. g \in Nodes
    BY <1>2, <2>1, NodeKinds
  <2> QED BY <1>4, <2>1, <2>2, ArriveType
<1>9. CASE e = "saas"
  <2>1. a[1] = "inet" /\ p = Arrive(Branch, a, dir, TRUE)
    BY <1>9, NodeKinds DEF EntryPoint
  <2> QED BY <1>3, <1>5, <2>1, ArriveType
<1> QED BY <1>6, <1>7, <1>8, <1>9, ConnectionEnds

(* What the routes name. *)
LEMMA RouteKinds ==
  /\ \A s \in Sites : \A m : SiteRoutes(s, m, "saas") \subseteq {"inet"} \X Transports
  /\ \A s \in Sites : \A m, e : e # "saas" => SiteRoutes(s, m, e) \subseteq Hubs \X Transports
  /\ \A h \in Hubs : \A m : HubRoute(h, m) \subseteq {"spokes"} \X Transports
  /\ \A g \in Gateways : \A m : GatewayRoute(g, m) \subseteq {"transit"} \X Hubs
<1>1. ASSUME NEW s \in Sites, NEW m PROVE SiteRoutes(s, m, "saas") \subseteq {"inet"} \X Transports
  BY PlacesValid DEF SiteRoutes, Uplink
<1>2. ASSUME NEW s \in Sites, NEW m, NEW e, e # "saas" PROVE SiteRoutes(s, m, e) \subseteq Hubs \X Transports
  <2> DEFINE specific == {i \in PathsOf(s) : /\ RulePresent(s, SpecificPos(s, i))
                                             /\ m \cap (route_mask \cup target_hub_mask) = Affinity(s, i)}
             generic == {t \in Transports : RulePresent(s, GenericPos(t)) /\ transport(m) = Slot[t]}
  <2>1. specific \subseteq Hubs \X Transports /\ Hubs \X generic \subseteq Hubs \X Transports
    BY PathKinds
  <2>2. SiteRoutes(s, m, e) = IF specific # {} THEN specific ELSE Hubs \X generic
    BY <1>2 DEF SiteRoutes
  <2> HIDE DEF specific, generic
  <2> QED BY <2>1, <2>2
<1>3. ASSUME NEW h \in Hubs, NEW m PROVE HubRoute(h, m) \subseteq {"spokes"} \X Transports
  <2> DEFINE pinned == {i \in PathsOf(h) : /\ RulePresent(h, SpecificPos(h, i))
                                           /\ m \cap (route_mask \cup target_hub_mask) = Affinity(h, i)}
  <2>1. pinned \subseteq {"spokes"} \X Transports /\ {<<"spokes", Mpls>>} \subseteq {"spokes"} \X Transports
    BY PathKinds, PlacesValid
  <2>2. HubRoute(h, m) = IF pinned # {} THEN pinned ELSE {<<"spokes", Mpls>>}
    BY DEF HubRoute
  <2> HIDE DEF pinned
  <2> QED BY <2>1, <2>2
<1>4. ASSUME NEW g \in Gateways, NEW m PROVE GatewayRoute(g, m) \subseteq {"transit"} \X Hubs
  BY PathKinds DEF GatewayRoute
<1> QED BY <1>1, <1>2, <1>3, <1>4

(* What the passage of a packet leaves at its namespace, and at the others. *)
Passed(n, dir, crossed, c) ==
  /\ ct'[n] = c /\ \A x \in Nodes \ {n} : ct'[x] = ct[x]
  /\ used'[n] = (IF dir = "fwd" THEN used[n] \cup crossed ELSE used[n])
  /\ \A x \in Nodes \ {n} : used'[x] = used[x]
  /\ clean' <=> clean /\ Settled(n)

(* What the passage of a packet owes to the types. *)
LEMMA PassageType ==
  ASSUME AffinityTypeOK, NEW n \in Nodes, NEW dir \in Directions, NEW crossed \in SUBSET Interfaces, NEW c \in Entries,
         Passage(n, dir, crossed, c), pkt' \in Packets \cup {NoPacket}, seen' \in Addresses,
         record' \in [Sites -> [up : BOOLEAN, path : SUBSET route_mask]], UNCHANGED <<conn, tables, links, count>>
  PROVE  AffinityTypeOK' /\ Passed(n, dir, crossed, c)
<1>1. /\ ct \in [Nodes -> Entries] /\ used \in [Nodes -> SUBSET Interfaces]
      /\ ct' = [ct EXCEPT ![n] = c]
      /\ used' = IF dir = "fwd" THEN [used EXCEPT ![n] = @ \cup crossed] ELSE used
  BY DEF AffinityTypeOK, Passage
<1>2. ct' \in [Nodes -> Entries] /\ ct'[n] = c /\ \A x \in Nodes \ {n} : ct'[x] = ct[x]
  BY <1>1
<1>3. /\ used' \in [Nodes -> SUBSET Interfaces]
      /\ used'[n] = (IF dir = "fwd" THEN used[n] \cup crossed ELSE used[n])
      /\ \A x \in Nodes \ {n} : used'[x] = used[x]
  <2>1. CASE dir = "fwd"
    BY <1>1, <2>1
  <2>2. CASE dir # "fwd"
    BY <1>1, <2>2
  <2> QED BY <2>1, <2>2
<1>4. clean' = (clean /\ Settled(n)) /\ clean \in BOOLEAN
  BY DEF AffinityTypeOK, Passage
<1>5. clean' \in BOOLEAN /\ (clean' <=> clean /\ Settled(n))
  BY <1>4
<1>6. AffinityTypeOK'
  BY <1>2, <1>3, <1>5 DEF AffinityTypeOK, tables, Last
<1> QED BY <1>2, <1>3, <1>5, <1>6 DEF Passed

-----------------------------------------------------------------------------
(* The packet under way. *)
LEMMA PacketFields ==
  ASSUME AffinityTypeOK, NEW n \in Nodes, pkt.at = n
  PROVE  /\ pkt \in Packets /\ pkt.dir \in Directions /\ pkt.iif \in Interfaces /\ pkt.mark \subseteq Bits
         /\ pkt.queued \in BOOLEAN /\ pkt.natted \in BOOLEAN
         /\ NoPacket \in Packets \cup {NoPacket} /\ n \in Nodes /\ ct[n] \in Entries
         /\ ct \in [Nodes -> Entries] /\ seen \in Addresses /\ Own \in Addresses
         /\ record \in [Sites -> [up : BOOLEAN, path : SUBSET route_mask]]
         /\ Track(ct[n], pkt.dir) \in Entries
<1>1. pkt \in Packets \cup {NoPacket} /\ ct \in [Nodes -> Entries]
  BY DEF AffinityTypeOK
<1>2. "none" \notin Nodes
  BY NamesValid
<1>3. pkt \in Packets
  BY <1>1, <1>2 DEF NoPacket
<1>4. pkt.dir \in Directions /\ pkt.iif \in Interfaces /\ pkt.mark \subseteq Bits
      /\ pkt.queued \in BOOLEAN /\ pkt.natted \in BOOLEAN
  BY <1>3 DEF Packets
<1>5. ct[n] \in Entries
  BY <1>1
<1>6. Track(ct[n], pkt.dir) \in Entries
  BY <1>4, <1>5, TrackFields
<1> QED BY <1>1, <1>3, <1>4, <1>5, <1>6 DEF AffinityTypeOK, Addresses

(* The entry that a packet with mark m leaves behind on a site. *)
LeftEntry(s, o, m, c) == EntryOut(s, o, m, Bind(c, o[1] = "inet" /\ egress_mode(m) = "DIRECT_INTERNET"))

(* A packet leaves a site: which entry, history and packet it leaves. *)
LEMMA LeaveFacts ==
  ASSUME AffinityTypeOK, NEW s \in Sites, pkt.at = s, NEW m \in SUBSET Bits, NEW c \in Entries, Leave(s, m, c),
         record' \in [Sites -> [up : BOOLEAN, path : SUBSET route_mask]], UNCHANGED <<conn, tables, links, count>>
  PROVE  /\ AffinityTypeOK'
         /\ \E o \in SiteRoutes(s, m, Target(pkt.dir)) :
              /\ LeftEntry(s, o, m, c) \in Entries /\ o \in Interfaces
              /\ Passed(s, pkt.dir, {pkt.iif, o}, LeftEntry(s, o, m, c))
              /\ o[1] = "inet" <=> Target(pkt.dir) = "saas"
              /\ o[1] = "inet" =>
                   /\ o \in {"inet"} \X Transports /\ pkt' = NoPacket
                   /\ seen' = IF pkt.dir # "fwd" THEN seen
                              ELSE IF LeftEntry(s, o, m, c).nat = "bound" THEN o ELSE Own
              /\ o[1] # "inet" => /\ o \in Hubs \X Transports /\ seen' = seen
                                  /\ pkt' = Arrive(o[1], <<"spokes", o[2]>>, pkt.dir, FALSE)
<1>1. s \in Nodes
  BY NodeKinds
<1>2. PICK o \in SiteRoutes(s, m, Target(pkt.dir)) :
        LET direct == o[1] = "inet"
            left == EntryOut(s, o, m, Bind(c, direct /\ egress_mode(m) = "DIRECT_INTERNET"))
        IN  /\ Passage(s, pkt.dir, {pkt.iif, o}, left)
            /\ IF direct THEN Deliver(pkt.dir, IF left.nat = "bound" THEN o ELSE Own)
               ELSE /\ pkt' = Arrive(o[1], <<"spokes", o[2]>>, pkt.dir, FALSE)
                    /\ UNCHANGED seen
  BY DEF Leave
<1> DEFINE direct == o[1] = "inet"
           bound == Bind(c, direct /\ egress_mode(m) = "DIRECT_INTERNET")
           left == EntryOut(s, o, m, bound)
<1>3. bound \in Entries
  BY BindFields
<1>4. left \in Entries
  <2> HIDE DEF bound
  <2> QED BY <1>1, <1>3, EntryOutFields
<1>5. Passage(s, pkt.dir, {pkt.iif, o}, left)
  BY <1>2
<1>6. /\ direct <=> Target(pkt.dir) = "saas"
      /\ direct => o \in {"inet"} \X Transports
      /\ ~direct => o \in Hubs \X Transports
  <2>1. CASE Target(pkt.dir) = "saas"
    BY <2>1, RouteKinds
  <2>2. CASE Target(pkt.dir) # "saas"
    <3>1. o \in Hubs \X Transports
      BY <2>2, RouteKinds
    <3> QED BY <2>2, <3>1 DEF Hubs
  <2> QED BY <2>1, <2>2
<1>7. o \in Interfaces
  BY <1>6 DEF Interfaces
<1>8. /\ direct => /\ pkt' = NoPacket
                   /\ seen' = (IF pkt.dir = "fwd" THEN IF left.nat = "bound" THEN o ELSE Own ELSE seen)
      /\ ~direct => seen' = seen /\ pkt' = Arrive(o[1], <<"spokes", o[2]>>, pkt.dir, FALSE)
  BY <1>2 DEF Deliver
<1> HIDE DEF direct, left
<1>9. pkt' \in Packets \cup {NoPacket}
  <2>1. ASSUME ~direct PROVE o[1] \in Nodes /\ <<"spokes", o[2]>> \in Interfaces
    BY <1>6, <2>1, NodeKinds DEF Interfaces
  <2>2. pkt.dir \in Directions /\ FALSE \in BOOLEAN
    BY <1>1, PacketFields
  <2>3. CASE direct
    BY <1>8, <2>3
  <2>4. CASE ~direct
    <3>1. Arrive(o[1], <<"spokes", o[2]>>, pkt.dir, FALSE) \in Packets
      BY <2>1, <2>2, <2>4, ArriveType, Zenon
    <3> QED BY <1>8, <2>4, <3>1
  <2> QED BY <2>3, <2>4
<1>10. seen' \in Addresses
  <2>1. ASSUME direct PROVE o \in Addresses
    BY <1>6, <2>1 DEF Addresses
  <2> QED BY <1>1, <1>8, <2>1, PacketFields
<1>11. {pkt.iif, o} \in SUBSET Interfaces
  BY <1>1, <1>7, PacketFields
<1>12. AffinityTypeOK' /\ Passed(s, pkt.dir, {pkt.iif, o}, left)
  <2>1. pkt.dir \in Directions
    BY <1>1, PacketFields
  <2> QED BY <1>1, <1>4, <1>5, <1>9, <1>10, <1>11, <2>1, PassageType
<1>13. left = LeftEntry(s, o, m, c)
  BY DEF left, LeftEntry, direct
<1> QED BY <1>2, <1>4, <1>6, <1>7, <1>8, <1>12, <1>13 DEF direct

(* The entry and the marks of a packet from the LAN after the chains. *)
LanEntry(s) == EntryIn(s, Lan, Track(ct[s], pkt.dir))
LanMarked(s) == RunChain(s, MarkIn(s, Lan, Track(ct[s], pkt.dir)), LanEntry(s).mark)
LanAfter(s) == [LanEntry(s) EXCEPT !.mark = LanMarked(s).saved]

(* A packet from a site's LAN: the entry it meets, what the chain makes of *)
(* it and the entry it leaves.                                             *)
LEMMA LanFields ==
  ASSUME AffinityTypeOK, NEW s \in Sites, pkt.at = s
  PROVE  /\ LanEntry(s) \in Entries /\ LanMarked(s) \in Marked /\ LanAfter(s) \in Entries
         /\ LanMarked(s).mark \subseteq Bits /\ LanMarked(s).saved \subseteq Bits /\ LanMarked(s).queued \in BOOLEAN
         /\ LanAfter(s).mark = LanMarked(s).saved /\ LanAfter(s).orig = LanEntry(s).orig
         /\ LanAfter(s).est = LanEntry(s).est /\ LanAfter(s).nat = LanEntry(s).nat
<1>1. s \in Nodes /\ marking[s] \in Seq(ChainRules)
  BY NodeKinds DEF AffinityTypeOK
<1>2. Track(ct[s], pkt.dir) \in Entries
  BY <1>1, PacketFields
<1>3. MarkIn(s, Lan, Track(ct[s], pkt.dir)) \in SUBSET Bits /\ LanEntry(s) \in Entries
  BY <1>1, <1>2, EntryInFields DEF LanEntry
<1>4. LanEntry(s).mark \in SUBSET Bits
  BY <1>3, EntryFields
<1>5. LanMarked(s) \in Marked
  BY <1>1, <1>3, <1>4, ChainType DEF LanMarked
<1>6. LanMarked(s).mark \subseteq Bits /\ LanMarked(s).saved \subseteq Bits /\ LanMarked(s).queued \in BOOLEAN
  BY <1>5 DEF Marked
<1> HIDE DEF LanMarked
<1>7. /\ LanAfter(s) \in Entries
      /\ LanAfter(s).mark = LanMarked(s).saved /\ LanAfter(s).orig = LanEntry(s).orig
      /\ LanAfter(s).est = LanEntry(s).est /\ LanAfter(s).nat = LanEntry(s).nat
  BY <1>3, <1>6 DEF LanAfter, Entries
<1> QED BY <1>3, <1>5, <1>6, <1>7

(* A packet from the LAN is queued or leaves. *)
LEMMA FromLanFacts ==
  ASSUME AffinityTypeOK, NEW s \in Sites, FromLan(s)
  PROVE  /\ AffinityTypeOK' /\ pkt.at = s /\ pkt.iif = Lan /\ ~pkt.queued /\ record' = record
         /\ UNCHANGED <<conn, tables, links, count>>
         /\ \/ /\ LanMarked(s).queued /\ record[s].up
               /\ pkt' = [pkt EXCEPT !.queued = TRUE, !.mark = LanMarked(s).mark] /\ seen' = seen
               /\ Passed(s, pkt.dir, {Lan}, LanAfter(s))
            \/ /\ ~(LanMarked(s).queued /\ record[s].up)
               /\ Leave(s, LanMarked(s).mark, LanAfter(s))
<1>1. /\ pkt.at = s /\ pkt.iif = Lan /\ ~pkt.queued /\ record' = record
      /\ UNCHANGED <<conn, tables, links, count>> /\ UNCHANGED <<conn, tables, record, links, count>>
  BY DEF FromLan
<1>2. s \in Nodes /\ record \in [Sites -> [up : BOOLEAN, path : SUBSET route_mask]]
  BY NodeKinds DEF AffinityTypeOK
<1>3. IF LanMarked(s).queued /\ record[s].up
      THEN /\ pkt' = [pkt EXCEPT !.queued = TRUE, !.mark = LanMarked(s).mark]
           /\ Passage(s, pkt.dir, {Lan}, LanAfter(s))
           /\ UNCHANGED seen
      ELSE Leave(s, LanMarked(s).mark, LanAfter(s))
  BY DEF FromLan, LanAfter, LanMarked, LanEntry
<1>4. CASE LanMarked(s).queued /\ record[s].up
  <2>1. /\ pkt' = [pkt EXCEPT !.queued = TRUE, !.mark = LanMarked(s).mark]
        /\ Passage(s, pkt.dir, {Lan}, LanAfter(s)) /\ seen' = seen
    BY <1>3, <1>4
  <2>2. pkt' \in Packets
    <3>1. pkt \in Packets /\ LanMarked(s).mark \in SUBSET Bits
      BY <1>1, <1>2, PacketFields, LanFields
    <3> QED BY <2>1, <3>1 DEF Packets
  <2>3. {Lan} \in SUBSET Interfaces /\ LanAfter(s) \in Entries /\ seen' \in Addresses
    BY <1>1, <1>2, <2>1, LanFields, PacketFields DEF Interfaces
  <2>4. pkt.dir \in Directions
    BY <1>1, <1>2, PacketFields
  <2>5. AffinityTypeOK' /\ Passed(s, pkt.dir, {Lan}, LanAfter(s))
    BY <1>1, <1>2, <2>1, <2>2, <2>3, <2>4, PassageType
  <2> QED BY <1>1, <1>4, <2>1, <2>5
<1>5. CASE ~(LanMarked(s).queued /\ record[s].up)
  <2>1. Leave(s, LanMarked(s).mark, LanAfter(s))
    BY <1>3, <1>5
  <2>2. LanMarked(s).mark \in SUBSET Bits /\ LanAfter(s) \in Entries
    BY <1>1, LanFields
  <2>3. AffinityTypeOK'
    BY <1>1, <1>2, <2>1, <2>2, LeaveFacts
  <2> QED BY <1>1, <1>5, <2>1, <2>3
<1> QED BY <1>4, <1>5

(* The packet that the classifier has marked. *)
VerdictMark(path, terminal) ==
  (pkt.mark \ (route_mask \cup terminal_bit \cup provisional_bit))
    \cup path \cup (IF terminal THEN terminal_bit ELSE provisional_bit)

(* The classifier's verdict: the held packet leaves with the mark of some  *)
(* path.                                                                   *)
LEMMA VerdictFacts ==
  ASSUME AffinityTypeOK, NEW s \in Sites, Verdict(s)
  PROVE  /\ AffinityTypeOK' /\ pkt.at = s /\ pkt.queued
         /\ UNCHANGED <<conn, tables, links, count>>
         /\ record' \in [Sites -> [up : BOOLEAN, path : SUBSET route_mask]]
         /\ \E path \in SUBSET route_mask, terminal \in BOOLEAN :
              /\ VerdictMark(path, terminal) \in SUBSET Bits
              /\ Leave(s, VerdictMark(path, terminal), ct[s])
<1>1. /\ pkt.at = s /\ pkt.queued /\ record[s].up
      /\ UNCHANGED <<conn, tables, links, count>>
  BY DEF Verdict
<1>2. s \in Nodes /\ record \in [Sites -> [up : BOOLEAN, path : SUBSET route_mask]]
  BY NodeKinds DEF AffinityTypeOK
<1>3. PICK kept \in BOOLEAN, terminal \in BOOLEAN :
        LET path == IF transport(pkt.mark) = {} THEN {0} ELSE transport(pkt.mark)
            active == IF kept /\ record[s].path # {} THEN record[s].path ELSE path
        IN  /\ record' = IF kept THEN [record EXCEPT ![s].path = active] ELSE record
            /\ Leave(s, VerdictMark(active, terminal), ct[s])
  BY DEF Verdict, VerdictMark
<1> DEFINE path == IF transport(pkt.mark) = {} THEN {0} ELSE transport(pkt.mark)
           active == IF kept /\ record[s].path # {} THEN record[s].path ELSE path
<1>4. active \in SUBSET route_mask
  <2>1. path \subseteq route_mask
    BY DEF transport, route_mask
  <2>2. record[s].path \subseteq route_mask
    BY <1>2
  <2> QED BY <2>1, <2>2
<1>5. record' = (IF kept THEN [record EXCEPT ![s].path = active] ELSE record) /\ Leave(s, VerdictMark(active, terminal), ct[s])
  BY <1>3
<1> HIDE DEF active
<1>6. record' \in [Sites -> [up : BOOLEAN, path : SUBSET route_mask]]
  BY <1>2, <1>4, <1>5
<1>7. VerdictMark(active, terminal) \in SUBSET Bits
  <2>1. pkt.mark \subseteq Bits
    BY <1>1, <1>2, PacketFields
  <2> QED BY <1>4, <2>1, MaskBits DEF VerdictMark
<1>8. ct[s] \in Entries
  BY <1>1, <1>2, PacketFields
<1>9. AffinityTypeOK'
  BY <1>1, <1>5, <1>6, <1>7, <1>8, LeaveFacts
<1> QED BY <1>1, <1>4, <1>5, <1>6, <1>7, <1>9

(* The mark and the entry of a packet behind SDWAN_V5_RPA_IN. *)
InMark(n) == MarkIn(n, pkt.iif, Track(ct[n], pkt.dir))
InEntry(n) == EntryIn(n, pkt.iif, Track(ct[n], pkt.dir))

(* A packet that comes in at a node: its mark after the input chain, and   *)
(* the entry with the mark saved only if the chain has its last rule.      *)
LEMMA InFields ==
  ASSUME AffinityTypeOK, NEW n \in Nodes, pkt.at = n
  PROVE  /\ InMark(n) \in SUBSET Bits /\ InEntry(n) \in Entries
         /\ InEntry(n).orig = Track(ct[n], pkt.dir).orig /\ InEntry(n).est = Track(ct[n], pkt.dir).est
         /\ InEntry(n).nat = ct[n].nat
         /\ InEntry(n).mark = IF InLen(n) = K(n) + 2 THEN Saved(ct[n].mark, InMark(n)) ELSE ct[n].mark
         /\ \A match \in BOOLEAN : Bind(InEntry(n), match) \in Entries
<1>1. Track(ct[n], pkt.dir) \in Entries /\ ct[n] \in Entries /\ pkt.dir \in Directions
  BY PacketFields
<1>2. Track(ct[n], pkt.dir).mark = ct[n].mark /\ Track(ct[n], pkt.dir).nat = ct[n].nat
  BY <1>1, TrackFields
<1>3. InEntry(n) \in Entries /\ InMark(n) \in SUBSET Bits
  BY <1>1, EntryInFields DEF InEntry, InMark
<1>4. \A match \in BOOLEAN : Bind(InEntry(n), match) \in Entries
  BY <1>3, BindFields
<1> QED BY <1>1, <1>2, <1>3, <1>4, EntryInFields DEF InEntry, InMark

(* A packet arrives at a site. *)
LEMMA ToLanFacts ==
  ASSUME AffinityTypeOK, NEW s \in Sites, ToLan(s)
  PROVE  /\ AffinityTypeOK' /\ pkt.at = s /\ pkt.iif # Lan /\ (pkt.natted => Track(ct[s], pkt.dir).nat = "bound")
         /\ UNCHANGED <<conn, tables, record, links, count>>
         /\ Passed(s, pkt.dir, {pkt.iif}, Bind(InEntry(s), FALSE))
         /\ pkt' = NoPacket /\ seen' = (IF pkt.dir = "fwd" THEN Own ELSE seen)
<1>1. /\ pkt.at = s /\ pkt.iif # Lan /\ (pkt.natted => Track(ct[s], pkt.dir).nat = "bound")
      /\ UNCHANGED <<conn, tables, record, links, count>>
      /\ Passage(s, pkt.dir, {pkt.iif}, Bind(InEntry(s), FALSE))
      /\ pkt' = NoPacket /\ seen' = (IF pkt.dir = "fwd" THEN Own ELSE seen)
  BY DEF ToLan, InEntry, Deliver
<1>2. s \in Nodes
  BY NodeKinds
<1>3. FALSE \in BOOLEAN /\ \A match \in BOOLEAN : Bind(InEntry(s), match) \in Entries
  BY <1>1, <1>2, InFields
<1>4. Bind(InEntry(s), FALSE) \in Entries
  BY <1>3, Zenon
<1>5. {pkt.iif} \in SUBSET Interfaces /\ seen' \in Addresses /\ record' = record /\ pkt.dir \in Directions
      /\ record' \in [Sites -> [up : BOOLEAN, path : SUBSET route_mask]]
  BY <1>1, <1>2, PacketFields
<1>6. AffinityTypeOK' /\ Passed(s, pkt.dir, {pkt.iif}, Bind(InEntry(s), FALSE))
  BY <1>1, <1>2, <1>4, <1>5, PassageType
<1> QED BY <1>1, <1>6

(* A packet passes a hub. *)
HubToDc(h) ==
  /\ Target(pkt.dir) = "dc" /\ Passed(h, pkt.dir, {pkt.iif}, Bind(InEntry(h), Natting(h)))
  /\ pkt' = NoPacket
  /\ seen' = (IF pkt.dir = "fwd" THEN IF Bind(InEntry(h), Natting(h)).nat = "bound" THEN <<"hub", h>> ELSE Own ELSE seen)

HubToCloud(h) ==
  /\ Target(pkt.dir) = "cloud" /\ Passed(h, pkt.dir, {pkt.iif}, Bind(InEntry(h), FALSE))
  /\ \E g \in UsableGateways(h) : g \in Gateways /\ pkt' = Arrive(g, <<"transit", h>>, pkt.dir, FALSE)
  /\ seen' = seen

HubToSite(h) ==
  /\ Target(pkt.dir) \in Sites /\ seen' = seen
  /\ \E o \in HubRoute(h, InMark(h)) :
       /\ o \in {"spokes"} \X Transports
       /\ Passed(h, pkt.dir, {pkt.iif, o}, EntryOut(h, o, InMark(h), Bind(InEntry(h), FALSE)))
       /\ EntryOut(h, o, InMark(h), Bind(InEntry(h), FALSE)) \in Entries
       /\ pkt' = Arrive(Target(pkt.dir), <<h, o[2]>>, pkt.dir, FALSE)

(* A hub hands a packet to the data centre, to a gateway or to a site. *)
LEMMA AtHubFacts ==
  ASSUME AffinityTypeOK, NEW h \in Hubs, AtHub(h)
  PROVE  /\ AffinityTypeOK' /\ pkt.at = h /\ (pkt.natted => Track(ct[h], pkt.dir).nat = "bound")
         /\ UNCHANGED <<conn, tables, record, links, count>>
         /\ HubToDc(h) \/ HubToCloud(h) \/ HubToSite(h)
<1>1. /\ pkt.at = h /\ (pkt.natted => Track(ct[h], pkt.dir).nat = "bound")
      /\ UNCHANGED <<conn, tables, record, links, count>>
  BY DEF AtHub
<1>2. h \in Nodes
  BY NodeKinds
<1>3. FALSE \in BOOLEAN /\ Natting(h) \in BOOLEAN /\ \A match \in BOOLEAN : Bind(InEntry(h), match) \in Entries
  BY <1>1, <1>2, InFields DEF Natting
<1>4. Bind(InEntry(h), FALSE) \in Entries /\ Bind(InEntry(h), Natting(h)) \in Entries
  BY <1>3, Zenon
<1>5. {pkt.iif} \in SUBSET Interfaces /\ record' = record /\ pkt.dir \in Directions /\ InMark(h) \in SUBSET Bits
      /\ seen \in Addresses /\ Own \in Addresses /\ pkt.iif \in Interfaces
      /\ record' \in [Sites -> [up : BOOLEAN, path : SUBSET route_mask]]
  BY <1>1, <1>2, PacketFields, InFields
<1>6. \/ /\ Target(pkt.dir) = "dc"
         /\ Passage(h, pkt.dir, {pkt.iif}, Bind(InEntry(h), Natting(h)))
         /\ Deliver(pkt.dir, IF Bind(InEntry(h), Natting(h)).nat = "bound" THEN <<"hub", h>> ELSE Own)
      \/ /\ Target(pkt.dir) = "cloud"
         /\ \E g \in UsableGateways(h) : pkt' = Arrive(g, <<"transit", h>>, pkt.dir, FALSE)
         /\ Passage(h, pkt.dir, {pkt.iif}, Bind(InEntry(h), FALSE))
         /\ UNCHANGED seen
      \/ /\ Target(pkt.dir) \in Sites
         /\ \E o \in HubRoute(h, InMark(h)) :
              /\ pkt' = Arrive(Target(pkt.dir), <<h, o[2]>>, pkt.dir, FALSE)
              /\ Passage(h, pkt.dir, {pkt.iif, o}, EntryOut(h, o, InMark(h), Bind(InEntry(h), FALSE)))
         /\ UNCHANGED seen
  BY DEF AtHub, InMark, InEntry
<1>7. CASE /\ Target(pkt.dir) = "dc"
           /\ Passage(h, pkt.dir, {pkt.iif}, Bind(InEntry(h), Natting(h)))
           /\ Deliver(pkt.dir, IF Bind(InEntry(h), Natting(h)).nat = "bound" THEN <<"hub", h>> ELSE Own)
  <2>1. pkt' = NoPacket /\ seen' = (IF pkt.dir = "fwd" THEN IF Bind(InEntry(h), Natting(h)).nat = "bound" THEN <<"hub", h>> ELSE Own ELSE seen)
    BY <1>7 DEF Deliver
  <2>2. seen' \in Addresses
    BY <1>5, <2>1 DEF Addresses
  <2>3. AffinityTypeOK' /\ Passed(h, pkt.dir, {pkt.iif}, Bind(InEntry(h), Natting(h)))
    BY <1>1, <1>2, <1>4, <1>5, <1>7, <2>1, <2>2, PassageType
  <2> QED BY <1>1, <1>7, <2>1, <2>3 DEF HubToDc
<1>8. CASE /\ Target(pkt.dir) = "cloud"
           /\ \E g \in UsableGateways(h) : pkt' = Arrive(g, <<"transit", h>>, pkt.dir, FALSE)
           /\ Passage(h, pkt.dir, {pkt.iif}, Bind(InEntry(h), FALSE))
           /\ UNCHANGED seen
  <2>1. PICK g \in UsableGateways(h) : pkt' = Arrive(g, <<"transit", h>>, pkt.dir, FALSE)
    BY <1>8
  <2>2. g \in Gateways
    BY DEF UsableGateways
  <2>3. g \in Nodes /\ <<"transit", h>> \in Interfaces
    BY <2>2, NodeKinds DEF Interfaces
  <2>4. Arrive(g, <<"transit", h>>, pkt.dir, FALSE) \in Packets
    BY <1>3, <1>5, <2>3, ArriveType, Zenon
  <2>5. AffinityTypeOK' /\ Passed(h, pkt.dir, {pkt.iif}, Bind(InEntry(h), FALSE))
    BY <1>1, <1>2, <1>4, <1>5, <1>8, <2>1, <2>4, PassageType
  <2> QED BY <1>1, <1>8, <2>1, <2>2, <2>5 DEF HubToCloud
<1>9. CASE /\ Target(pkt.dir) \in Sites
           /\ \E o \in HubRoute(h, InMark(h)) :
                /\ pkt' = Arrive(Target(pkt.dir), <<h, o[2]>>, pkt.dir, FALSE)
                /\ Passage(h, pkt.dir, {pkt.iif, o}, EntryOut(h, o, InMark(h), Bind(InEntry(h), FALSE)))
           /\ UNCHANGED seen
  <2>1. PICK o \in HubRoute(h, InMark(h)) :
          /\ pkt' = Arrive(Target(pkt.dir), <<h, o[2]>>, pkt.dir, FALSE)
          /\ Passage(h, pkt.dir, {pkt.iif, o}, EntryOut(h, o, InMark(h), Bind(InEntry(h), FALSE)))
    BY <1>9
  <2>2. o \in {"spokes"} \X Transports
    BY RouteKinds
  <2>3. Target(pkt.dir) \in Nodes /\ <<h, o[2]>> \in Interfaces /\ o \in Interfaces
    BY <1>9, <2>2, NodeKinds DEF Interfaces
  <2>4. Arrive(Target(pkt.dir), <<h, o[2]>>, pkt.dir, FALSE) \in Packets
    BY <1>3, <1>5, <2>3, ArriveType, Zenon
  <2>5. EntryOut(h, o, InMark(h), Bind(InEntry(h), FALSE)) \in Entries
    BY <1>2, <1>4, <1>5, EntryOutFields
  <2>6. {pkt.iif, o} \in SUBSET Interfaces
    BY <1>5, <2>3
  <2>7. AffinityTypeOK' /\ Passed(h, pkt.dir, {pkt.iif, o}, EntryOut(h, o, InMark(h), Bind(InEntry(h), FALSE)))
    BY <1>1, <1>2, <1>5, <1>9, <2>1, <2>4, <2>5, <2>6, PassageType
  <2> QED BY <1>1, <1>9, <2>1, <2>2, <2>5, <2>7 DEF HubToSite
<1> QED BY <1>6, <1>7, <1>8, <1>9

(* A packet passes a cloud gateway. *)
GatewayToCloud(g) ==
  /\ Target(pkt.dir) = "cloud" /\ Passed(g, pkt.dir, {pkt.iif}, Bind(InEntry(g), Natting(g)))
  /\ pkt' = NoPacket
  /\ seen' = (IF pkt.dir = "fwd" THEN IF Bind(InEntry(g), Natting(g)).nat = "bound" THEN <<"gateway", g>> ELSE Own ELSE seen)

GatewayToHub(g) ==
  /\ Target(pkt.dir) \in Sites /\ seen' = seen
  /\ \E o \in GatewayRoute(g, InMark(g)) :
       /\ o \in {"transit"} \X Hubs
       /\ Passed(g, pkt.dir, {pkt.iif, o}, EntryOut(g, o, InMark(g), Bind(InEntry(g), FALSE)))
       /\ EntryOut(g, o, InMark(g), Bind(InEntry(g), FALSE)) \in Entries
       /\ pkt' = Arrive(o[2], <<"transit", g>>, pkt.dir, FALSE)

(* A gateway hands a packet to the cloud or to a hub. *)
LEMMA AtGatewayFacts ==
  ASSUME AffinityTypeOK, NEW g \in Gateways, AtGateway(g)
  PROVE  /\ AffinityTypeOK' /\ pkt.at = g /\ (pkt.natted => Track(ct[g], pkt.dir).nat = "bound")
         /\ UNCHANGED <<conn, tables, record, links, count>>
         /\ GatewayToCloud(g) \/ GatewayToHub(g)
<1>1. /\ pkt.at = g /\ (pkt.natted => Track(ct[g], pkt.dir).nat = "bound")
      /\ UNCHANGED <<conn, tables, record, links, count>>
  BY DEF AtGateway
<1>2. g \in Nodes
  BY NodeKinds
<1>3. FALSE \in BOOLEAN /\ Natting(g) \in BOOLEAN /\ \A match \in BOOLEAN : Bind(InEntry(g), match) \in Entries
  BY <1>1, <1>2, InFields DEF Natting
<1>4. Bind(InEntry(g), FALSE) \in Entries /\ Bind(InEntry(g), Natting(g)) \in Entries
  BY <1>3, Zenon
<1>5. {pkt.iif} \in SUBSET Interfaces /\ record' = record /\ pkt.dir \in Directions /\ InMark(g) \in SUBSET Bits
      /\ seen \in Addresses /\ Own \in Addresses /\ pkt.iif \in Interfaces
      /\ record' \in [Sites -> [up : BOOLEAN, path : SUBSET route_mask]]
  BY <1>1, <1>2, PacketFields, InFields
<1>6. \/ /\ Target(pkt.dir) = "cloud"
         /\ Passage(g, pkt.dir, {pkt.iif}, Bind(InEntry(g), Natting(g)))
         /\ Deliver(pkt.dir, IF Bind(InEntry(g), Natting(g)).nat = "bound" THEN <<"gateway", g>> ELSE Own)
      \/ /\ Target(pkt.dir) \in Sites
         /\ \E o \in GatewayRoute(g, InMark(g)) :
              /\ pkt' = Arrive(o[2], <<"transit", g>>, pkt.dir, FALSE)
              /\ Passage(g, pkt.dir, {pkt.iif, o}, EntryOut(g, o, InMark(g), Bind(InEntry(g), FALSE)))
         /\ UNCHANGED seen
  BY DEF AtGateway, InMark, InEntry
<1>7. CASE /\ Target(pkt.dir) = "cloud"
           /\ Passage(g, pkt.dir, {pkt.iif}, Bind(InEntry(g), Natting(g)))
           /\ Deliver(pkt.dir, IF Bind(InEntry(g), Natting(g)).nat = "bound" THEN <<"gateway", g>> ELSE Own)
  <2>1. pkt' = NoPacket /\ seen' = (IF pkt.dir = "fwd" THEN IF Bind(InEntry(g), Natting(g)).nat = "bound" THEN <<"gateway", g>> ELSE Own ELSE seen)
    BY <1>7 DEF Deliver
  <2>2. seen' \in Addresses
    BY <1>5, <2>1 DEF Addresses
  <2>3. AffinityTypeOK' /\ Passed(g, pkt.dir, {pkt.iif}, Bind(InEntry(g), Natting(g)))
    BY <1>1, <1>2, <1>4, <1>5, <1>7, <2>1, <2>2, PassageType
  <2> QED BY <1>1, <1>7, <2>1, <2>3 DEF GatewayToCloud
<1>8. CASE /\ Target(pkt.dir) \in Sites
           /\ \E o \in GatewayRoute(g, InMark(g)) :
                /\ pkt' = Arrive(o[2], <<"transit", g>>, pkt.dir, FALSE)
                /\ Passage(g, pkt.dir, {pkt.iif, o}, EntryOut(g, o, InMark(g), Bind(InEntry(g), FALSE)))
           /\ UNCHANGED seen
  <2>1. PICK o \in GatewayRoute(g, InMark(g)) :
          /\ pkt' = Arrive(o[2], <<"transit", g>>, pkt.dir, FALSE)
          /\ Passage(g, pkt.dir, {pkt.iif, o}, EntryOut(g, o, InMark(g), Bind(InEntry(g), FALSE)))
    BY <1>8
  <2>2. o \in {"transit"} \X Hubs
    BY RouteKinds
  <2>3. o[2] \in Nodes /\ <<"transit", g>> \in Interfaces /\ o \in Interfaces
    BY <2>2, NodeKinds DEF Interfaces
  <2>4. Arrive(o[2], <<"transit", g>>, pkt.dir, FALSE) \in Packets
    BY <1>3, <1>5, <2>3, ArriveType, Zenon
  <2>5. EntryOut(g, o, InMark(g), Bind(InEntry(g), FALSE)) \in Entries
    BY <1>2, <1>4, <1>5, EntryOutFields
  <2>6. {pkt.iif, o} \in SUBSET Interfaces
    BY <1>5, <2>3
  <2>7. AffinityTypeOK' /\ Passed(g, pkt.dir, {pkt.iif, o}, EntryOut(g, o, InMark(g), Bind(InEntry(g), FALSE)))
    BY <1>1, <1>2, <1>5, <1>8, <2>1, <2>4, <2>5, <2>6, PassageType
  <2> QED BY <1>1, <1>8, <2>1, <2>2, <2>5, <2>7 DEF GatewayToHub
<1> QED BY <1>6, <1>7, <1>8

-----------------------------------------------------------------------------
(* The first transport of a set, in the order of the configuration. *)
LEMMA FirstTransport ==
  ASSUME NEW S \in SUBSET Transports, S # {}
  PROVE  FirstOf(S) \in S
<1> DEFINE N == {Index[t] : t \in S}
<1>1. T \in Nat /\ \A t \in Transports : Index[t] \in 1 .. T
  BY PlacesValid, FS_CardinalityType DEF T
<1>2. N \subseteq Nat /\ N # {}
  BY <1>1
<1>3. PICK m \in N : \A n \in N : m <= n
  <2> HIDE DEF N
  <2> QED BY <1>2, Smallest
<1>4. PICK t \in S : m = Index[t]
  BY <1>3
<1>5. \A u \in S : Index[t] <= Index[u]
  BY <1>3, <1>4
<1>6. \E v \in S : \A u \in S : Index[v] <= Index[u]
  BY <1>5
<1> QED BY <1>6, Zenon DEF FirstOf

(* What encode makes for a hub path and for direct Internet access. *)
OverlayMark(t, h) == encode(Slot[t], "UNKNOWN", FALSE, h, "HUB_OVERLAY")
DirectMark(t) == encode(Slot[t], "UNKNOWN", FALSE, "NONE", "DIRECT_INTERNET")

(* The marks that encode() makes: the slot of a transport with a hub's bit *)
(* or with the bit of direct egress.                                       *)
LEMMA EncodeFacts ==
  ASSUME NEW t \in Transports
  PROVE  /\ Slot[t] \subseteq route_mask /\ Slot[t] # {}
         /\ \A h \in Hubs : OverlayMark(t, h) = Slot[t] \cup HubBit(h) /\ OverlayMark(t, h) \subseteq Bits
         /\ DirectMark(t) = Slot[t] \cup direct_internet_bit /\ DirectMark(t) \subseteq Bits
<1>1. Slot[t] \subseteq route_mask /\ Slot[t] # {}
  BY MarksValid DEF Validate
<1>2. \A h \in Hubs : OverlayMark(t, h) = Slot[t] \cup HubBit(h)
  BY DEF OverlayMark, encode, Hubs
<1>3. DirectMark(t) = Slot[t] \cup direct_internet_bit
  BY DEF DirectMark, encode
<1> QED BY <1>1, <1>2, <1>3, MaskBits

(* The marks that steering can give the connection. *)
LEMMA ChoiceFacts ==
  ASSUME conn \in Flows
  PROVE  /\ \A s \in Sites : /\ DefaultMark(s) \in SUBSET Bits
                             /\ \E t \in Transports : DefaultMark(s) = OverlayMark(t, PreferredHub[s])
                             /\ PlannedMark(s) \in Choices
         /\ conn.dst = "saas" => \A m \in Choices : \E t \in Transports : m = DirectMark(t)
         /\ conn.dst # "saas" => \A m \in Choices : \E t \in Transports, h \in Hubs : m = OverlayMark(t, h)
         /\ Choices \subseteq SUBSET Bits
<1>1. Uplinks \subseteq Transports /\ Transports # {} /\ FirstOf(Transports) \in Transports
  BY PlacesValid, FirstTransport
<1>2. conn \in Flows
  OBVIOUS
<1>3. conn.dst = "saas" => FirstOf(Uplinks) \in Uplinks
  <2>1. conn.dst = "saas" => Uplinks # {}
    BY <1>2, FlowsValid, Zenon
  <2> QED BY <1>1, <2>1, FirstTransport
<1>4. \A s \in Sites : PreferredHub[s] \in Hubs
  BY NamesValid
<1>5. \A s \in Sites : DefaultMark(s) = OverlayMark(FirstOf(Transports), PreferredHub[s])
  BY DEF DefaultMark, OverlayMark
<1>6. conn.dst = "saas" => /\ Choices = {DirectMark(t) : t \in Uplinks}
                           /\ \A s \in Sites : PlannedMark(s) = DirectMark(FirstOf(Uplinks))
  BY DEF Choices, PlannedMark, DirectMark
<1>7. conn.dst # "saas" => /\ Choices = {OverlayMark(t, h) : h \in Hubs, t \in Transports}
                           /\ \A s \in Sites : PlannedMark(s) = DefaultMark(s)
  BY DEF Choices, PlannedMark, OverlayMark
<1>8. ASSUME conn.dst = "saas" PROVE /\ \A m \in Choices : \E t \in Transports : m = DirectMark(t)
                                     /\ \A s \in Sites : PlannedMark(s) \in Choices
  BY <1>1, <1>3, <1>6, <1>8
<1>9. ASSUME conn.dst # "saas" PROVE /\ \A m \in Choices : \E t \in Transports, h \in Hubs : m = OverlayMark(t, h)
                                     /\ \A s \in Sites : PlannedMark(s) \in Choices
  <2>1. \A m \in Choices : \E t \in Transports, h \in Hubs : m = OverlayMark(t, h)
    BY <1>7, <1>9
  <2>2. \A s \in Sites : PlannedMark(s) \in Choices
    BY <1>1, <1>4, <1>5, <1>7, <1>9
  <2> QED BY <2>1, <2>2
<1>10. Choices \subseteq SUBSET Bits
  BY <1>8, <1>9, EncodeFacts
<1>11. \A s \in Sites : DefaultMark(s) \in SUBSET Bits
  BY <1>1, <1>4, <1>5, EncodeFacts
<1> QED BY <1>1, <1>5, <1>8, <1>9, <1>10, <1>11

(* The rules of a chain that install_connmark_rules writes. *)
LEMMA MarkRulesFields ==
  ASSUME conn \in Flows, NEW s \in Sites, NEW marks \in ClassRules
  PROVE  /\ MarkRules(s, marks) \in Seq(ChainRules)
         /\ \/ marks = <<>> /\ Len(MarkRules(s, marks)) = 5
               /\ MarkRules(s, marks)[1] = Rule("restore", {})
               /\ MarkRules(s, marks)[2] = Rule("mark", PlannedMark(s))
               /\ MarkRules(s, marks)[3] = Rule("mark", DefaultMark(s))
               /\ MarkRules(s, marks)[4] = Rule("queue", {})
               /\ MarkRules(s, marks)[5] = Rule("save", {})
            \/ \E m \in Choices : 
               /\ marks = <<Rule("mark", m)>> /\ Len(MarkRules(s, marks)) = 6
               /\ MarkRules(s, marks)[1] = Rule("restore", {})
               /\ MarkRules(s, marks)[2] = Rule("mark", m)
               /\ MarkRules(s, marks)[3] = Rule("mark", PlannedMark(s))
               /\ MarkRules(s, marks)[4] = Rule("mark", DefaultMark(s))
               /\ MarkRules(s, marks)[5] = Rule("queue", {})
               /\ MarkRules(s, marks)[6] = Rule("save", {})
<1> DEFINE front == <<Rule("restore", {})>>
           back == <<Rule("mark", PlannedMark(s)), Rule("mark", DefaultMark(s)), Rule("queue", {}), Rule("save", {})>>
<1>1. PlannedMark(s) \in SUBSET Bits /\ DefaultMark(s) \in SUBSET Bits
  BY ChoiceFacts
<1>2. \A m \in SUBSET Bits : Rule("mark", m) \in ChainRules
  BY DEF Rule, ChainRules
<1>3. Rule("restore", {}) \in ChainRules /\ Rule("queue", {}) \in ChainRules /\ Rule("save", {}) \in ChainRules
  BY DEF Rule, ChainRules
<1>4. Rule("mark", PlannedMark(s)) \in ChainRules /\ Rule("mark", DefaultMark(s)) \in ChainRules
  BY <1>1, <1>2
<1>5. front \in Seq(ChainRules) /\ back \in Seq(ChainRules)
  BY <1>3, <1>4
<1>6. Len(front) = 1 /\ Len(back) = 4
  OBVIOUS
<1>7. front[1] = Rule("restore", {}) /\ back[1] = Rule("mark", PlannedMark(s)) /\ back[2] = Rule("mark", DefaultMark(s))
      /\ back[3] = Rule("queue", {}) /\ back[4] = Rule("save", {})
  OBVIOUS
<1>8. MarkRules(s, marks) = front \o marks \o back
  BY DEF MarkRules
<1> HIDE DEF front, back
<1>9. CASE marks = <<>>
  <2>1. MarkRules(s, marks) = front \o back
    BY <1>5, <1>8, <1>9
  <2>2. /\ front \o back \in Seq(ChainRules) /\ Len(front \o back) = Len(front) + Len(back)
        /\ \A k \in 1 .. Len(front) : (front \o back)[k] = front[k]
        /\ \A k \in 1 .. Len(back) : (front \o back)[Len(front) + k] = back[k]
    BY <1>5
  <2>3. /\ Len(front \o back) = 5 /\ (front \o back)[1] = front[1]
        /\ (front \o back)[2] = back[1] /\ (front \o back)[3] = back[2]
        /\ (front \o back)[4] = back[3] /\ (front \o back)[5] = back[4]
    BY <1>6, <2>2
  <2> QED BY <1>7, <1>9, <2>1, <2>2, <2>3
<1>10. CASE \E m \in Choices : marks = <<Rule("mark", m)>>
  <2>1. PICK m \in Choices : marks = <<Rule("mark", m)>>
    BY <1>10
  <2>2. Rule("mark", m) \in ChainRules
    BY <1>2, ChoiceFacts
  <2>3. marks \in Seq(ChainRules)
    BY <2>1, <2>2
  <2>4. Len(marks) = 1 /\ marks[1] = Rule("mark", m)
    BY <2>1
  <2> DEFINE two == front \o marks
  <2>5. /\ two \in Seq(ChainRules) /\ Len(two) = Len(front) + Len(marks)
        /\ \A k \in 1 .. Len(front) : two[k] = front[k]
        /\ \A k \in 1 .. Len(marks) : two[Len(front) + k] = marks[k]
    BY <1>5, <2>3
  <2> HIDE DEF two
  <2>6. /\ two \o back \in Seq(ChainRules) /\ Len(two \o back) = Len(two) + Len(back)
        /\ \A k \in 1 .. Len(two) : (two \o back)[k] = two[k]
        /\ \A k \in 1 .. Len(back) : (two \o back)[Len(two) + k] = back[k]
    <3>1. two \in Seq(ChainRules)
      BY <2>5
    <3> QED BY <1>5, <3>1
  <2>7. Len(two) = 2 /\ two[1] = front[1] /\ two[2] = marks[1]
    BY <1>6, <2>5, <2>4
  <2>8. /\ Len(two \o back) = 6
        /\ (two \o back)[1] = two[1] /\ (two \o back)[2] = two[2]
        /\ (two \o back)[3] = back[1] /\ (two \o back)[4] = back[2]
        /\ (two \o back)[5] = back[3] /\ (two \o back)[6] = back[4]
    BY <1>6, <2>6, <2>7
  <2>9. MarkRules(s, marks) = two \o back
    BY <1>8 DEF two
  <2> QED BY <1>7, <2>1, <2>6, <2>8, <2>9, <2>4, <2>7
<1> QED BY <1>9, <1>10 DEF ClassRules

(* What the agent and the monitor will run. *)
LEMMA CommandsType ==
  ASSUME conn \in Flows, NEW s \in Sites
  PROVE  /\ <<Rule("mark", PlannedMark(s))>> \in ClassRules
         /\ AgentCommands(s) \in Seq(Commands)
         /\ \A marks \in ClassRules : <<Rule("flush", {})>> \o MarkRules(s, marks) \in Seq(Commands)
<1>1. <<Rule("mark", PlannedMark(s))>> \in ClassRules
  BY ChoiceFacts DEF ClassRules
<1>2. ASSUME NEW marks \in ClassRules PROVE MarkRules(s, marks) \in Seq(Commands)
  <2>1. MarkRules(s, marks) \in Seq(ChainRules) /\ ChainRules \subseteq Commands
    BY MarkRulesFields DEF Commands
  <2> QED BY <2>1
<1>3. Rule("kill", {}) \in Commands /\ Rule("start", {}) \in Commands /\ Rule("flush", {}) \in Commands
  BY DEF Commands, Rule
<1>4. /\ <<Rule("kill", {}), Rule("start", {}), Rule("flush", {})>> \in Seq(Commands)
      /\ <<Rule("flush", {})>> \in Seq(Commands)
  BY <1>3
<1>5. AgentCommands(s) \in Seq(Commands)
  <2>1. MarkRules(s, <<Rule("mark", PlannedMark(s))>>) \in Seq(Commands)
    BY <1>1, <1>2
  <2> QED BY <1>4, <2>1 DEF AgentCommands
<1>6. ASSUME NEW marks \in ClassRules PROVE <<Rule("flush", {})>> \o MarkRules(s, marks) \in Seq(Commands)
  <2>1. MarkRules(s, marks) \in Seq(Commands)
    BY <1>2
  <2> QED BY <1>4, <2>1
<1> QED BY <1>1, <1>5, <1>6

(* The lengths of an installation. *)
LEMMA Lengths ==
  ASSUME NEW n \in Nodes
  PROVE  /\ T \in Nat \ {0} /\ K(n) \in Nat \ {0} /\ RuleCount(n) \in Nat /\ RuleCount(n) >= K(n)
         /\ Flushes(n) = 2 * RuleCount(n) + 2 /\ InDone(n) = Flushes(n) + K(n) + 2
         /\ OutDone(n) = InDone(n) + 2 * K(n) /\ Last(n) = OutDone(n) + (IF n \in Hubs THEN 2 ELSE 0)
         /\ Flushes(n) \in Nat /\ InDone(n) \in Nat /\ OutDone(n) \in Nat /\ Last(n) \in Nat
<1>1. T \in Nat
  BY PlacesValid, FS_CardinalityType DEF T
<1>2. Mpls \in Transports /\ Index[Mpls] \in 1 .. T
  BY PlacesValid
<1>3. T \in Nat \ {0}
  BY <1>1, <1>2
<1>4. K(n) \in Nat \ {0}
  BY <1>3 DEF K
<1>5. RuleCount(n) \in Nat /\ RuleCount(n) >= K(n)
  BY <1>3, <1>4 DEF RuleCount
<1>6. Flushes(n) = 2 * RuleCount(n) + 2 /\ Flushes(n) \in Nat
  BY <1>5 DEF Flushes
<1>7. InDone(n) = Flushes(n) + K(n) + 2 /\ InDone(n) \in Nat
  BY <1>4, <1>6 DEF InDone
<1>8. OutDone(n) = InDone(n) + 2 * K(n) /\ OutDone(n) \in Nat
  BY <1>4, <1>7 DEF OutDone
<1>9. Last(n) = OutDone(n) + (IF n \in Hubs THEN 2 ELSE 0) /\ Last(n) \in Nat
  BY <1>8 DEF Last
<1> QED BY <1>3, <1>4, <1>5, <1>6, <1>7, <1>8, <1>9

-----------------------------------------------------------------------------
(* The types through the other steps. *)
LEMMA SendType == AffinityTypeOK /\ Send => AffinityTypeOK'
<1> SUFFICES ASSUME AffinityTypeOK, Send PROVE AffinityTypeOK'
  OBVIOUS
<1>1. UNCHANGED <<conn, ct, tables, record, seen, links, used, clean>>
  BY DEF Send
<1>2. pkt' \in Packets
  <2>1. Own \in Addresses /\ seen \in Addresses
    BY DEF Addresses, AffinityTypeOK
  <2>2. CASE pkt' \in EntryPoint(conn.src, "fwd", Own)
    BY <2>1, <2>2, EntryPointType DEF Directions
  <2>3. CASE pkt' \in EntryPoint(conn.dst, "rev", seen)
    BY <2>1, <2>3, EntryPointType DEF Directions
  <2> QED BY <2>2, <2>3 DEF Send
<1> QED BY <1>1, <1>2 DEF AffinityTypeOK, tables, Last

(* A lost packet. *)
LEMMA LoseType == AffinityTypeOK /\ Lose => AffinityTypeOK'
BY DEF AffinityTypeOK, Lose, tables, Last

(* One command of an installation. *)
LEMMA CommandType ==
  ASSUME AffinityTypeOK, NEW n \in Ends \cup Hubs, Command(n)
  PROVE  AffinityTypeOK'
<1>1. n \in Routers /\ n \in Nodes
  BY ConnectionEnds, NodeKinds
<1>2. /\ built[n] < Last(n) /\ built' = [built EXCEPT ![n] = @ + 1]
      /\ fresh' \subseteq fresh
      /\ todo' = todo \/ (n \in Sites /\ todo' = [todo EXCEPT ![n]["agent"] = AgentCommands(n)])
      /\ UNCHANGED <<conn, ct, marking, record, pkt, seen, links, used, clean, count>>
  BY DEF Command
<1>3. built \in [Routers -> Nat] /\ \A x \in Routers : built[x] <= Last(x)
  BY DEF AffinityTypeOK
<1>4. built' \in [Routers -> Nat] /\ \A x \in Routers : built'[x] <= Last(x)
  <2>1. built[n] + 1 \in Nat /\ built[n] + 1 <= Last(n)
    BY <1>1, <1>2, <1>3, Lengths
  <2> QED BY <1>1, <1>2, <1>3, <2>1
<1>5. todo' \in [Sites -> [Processes -> Seq(Commands)]]
  <2>1. todo \in [Sites -> [Processes -> Seq(Commands)]]
    BY DEF AffinityTypeOK
  <2>2. CASE n \in Sites /\ todo' = [todo EXCEPT ![n]["agent"] = AgentCommands(n)]
    <3>1. AgentCommands(n) \in Seq(Commands)
      BY <2>2, CommandsType DEF AffinityTypeOK
    <3> QED BY <2>1, <2>2, <3>1 DEF Processes
  <2> QED BY <1>2, <2>1, <2>2
<1> QED BY <1>2, <1>4, <1>5 DEF AffinityTypeOK, Last

(* An installation begins again from its first command. *)
LEMMA ReconcileType ==
  ASSUME AffinityTypeOK, NEW n \in Ends \cup Hubs, Reconcile(n)
  PROVE  AffinityTypeOK'
<1>1. n \in Routers /\ n \in Nodes
  BY ConnectionEnds, NodeKinds
<1>2. /\ built' = [built EXCEPT ![n] = 0]
      /\ UNCHANGED <<conn, ct, fresh, marking, todo, record, pkt, seen, links, used, clean>>
  BY DEF Reconcile
<1>3. built \in [Routers -> Nat] /\ \A x \in Routers : built[x] <= Last(x)
  BY DEF AffinityTypeOK
<1>4. built' \in [Routers -> Nat] /\ \A x \in Routers : built'[x] <= Last(x)
  <2>1. 0 <= Last(n)
    BY <1>1, Lengths
  <2> QED BY <1>1, <1>2, <1>3, <2>1
<1> QED BY <1>2, <1>4 DEF AffinityTypeOK, Last

(* One command of a process on the classification chain of a site. *)
LEMMA ChainCommandType ==
  ASSUME AffinityTypeOK, NEW s \in Sites, NEW p \in Processes, ChainCommand(s, p)
  PROVE  AffinityTypeOK'
<1> DEFINE command == Head(todo[s][p])
<1>1. /\ todo[s][p] # <<>>
      /\ marking' = [marking EXCEPT ![s] = CASE command.do = "flush" -> <<>>
                                            [] command.do \in {"kill", "start"} -> marking[s]
                                            [] OTHER -> Append(marking[s], command)]
      /\ record' = [record EXCEPT ![s] = CASE command.do = "kill" -> [up |-> FALSE, path |-> {}]
                                           [] command.do = "start" -> [up |-> TRUE, path |-> {}]
                                           [] OTHER -> record[s]]
      /\ pkt' = IF command.do = "kill" /\ pkt.at = s /\ pkt.queued THEN NoPacket ELSE pkt
      /\ todo' = [todo EXCEPT ![s][p] = Tail(@)]
      /\ UNCHANGED <<conn, ct, built, fresh, seen, links, used, clean, count>>
  BY DEF ChainCommand
<1>2. /\ todo \in [Sites -> [Processes -> Seq(Commands)]] /\ marking \in [Sites -> Seq(ChainRules)]
      /\ record \in [Sites -> [up : BOOLEAN, path : SUBSET route_mask]] /\ pkt \in Packets \cup {NoPacket}
  BY DEF AffinityTypeOK
<1>3. todo[s][p] \in Seq(Commands) /\ marking[s] \in Seq(ChainRules)
  BY <1>2
<1>4. command \in Commands /\ Tail(todo[s][p]) \in Seq(Commands)
  BY <1>1, <1>3
<1> HIDE DEF command
<1>5. todo' \in [Sites -> [Processes -> Seq(Commands)]]
  BY <1>1, <1>2, <1>4
<1>6. marking' \in [Sites -> Seq(ChainRules)]
  <2>1. CASE command.do = "flush"
    BY <1>1, <1>2, <2>1
  <2>2. CASE command.do \in {"kill", "start"}
    BY <1>1, <1>2, <1>3, <2>2
  <2>3. CASE command.do \notin {"flush", "kill", "start"}
    <3>1. command \in ChainRules
      BY <1>4, <2>3 DEF Commands
    <3>2. Append(marking[s], command) \in Seq(ChainRules)
      BY <1>3, <3>1
    <3> QED BY <1>1, <1>2, <2>3, <3>2
  <2> QED BY <2>1, <2>2, <2>3
<1>7. record' \in [Sites -> [up : BOOLEAN, path : SUBSET route_mask]]
  <2> DEFINE new == CASE command.do = "kill" -> [up |-> FALSE, path |-> {}]
                      [] command.do = "start" -> [up |-> TRUE, path |-> {}]
                      [] OTHER -> record[s]
  <2>1. new \in [up : BOOLEAN, path : SUBSET route_mask]
    <3>1. CASE command.do = "kill"
      BY <3>1
    <3>2. CASE command.do = "start"
      BY <3>2
    <3>3. CASE command.do \notin {"kill", "start"}
      BY <1>2, <3>3
    <3> QED BY <3>1, <3>2, <3>3
  <2>2. record' = [record EXCEPT ![s] = new]
    BY <1>1
  <2> HIDE DEF new
  <2> QED BY <1>2, <2>1, <2>2
<1>8. pkt' \in Packets \cup {NoPacket}
  BY <1>1, <1>2
<1> QED BY <1>1, <1>5, <1>6, <1>7, <1>8 DEF AffinityTypeOK, Last

(* What the monitor moves is the mark of the site's own entry. *)
LEMMA SteerFacts ==
  ASSUME AffinityTypeOK, NEW s \in Sites, Steer(s)
  PROVE  /\ AffinityTypeOK'
         /\ \/ ct' = ct
            \/ \E m \in Choices : /\ s = conn.src /\ ct[s].orig # "none"
                                  /\ ct' = [ct EXCEPT ![s].mark = (@ \ affinity_mask) \cup m]
<1>1. /\ s \in Ends
      /\ UNCHANGED <<conn, built, fresh, marking, record, pkt, seen, links, used, clean>>
  BY DEF Steer
<1>2. PICK marks \in ClassRules :
       /\ todo' = [todo EXCEPT ![s]["monitor"] = <<Rule("flush", {})>> \o MarkRules(s, marks)]
       /\ ct' = IF conn.rtp /\ s = conn.src /\ ct[s].orig # "none" /\ marks # <<>>
                THEN [ct EXCEPT ![s].mark = (@ \ affinity_mask) \cup marks[1].mark] ELSE ct
  BY DEF Steer
<1>3. todo' \in [Sites -> [Processes -> Seq(Commands)]]
  <2>1. <<Rule("flush", {})>> \o MarkRules(s, marks) \in Seq(Commands)
    BY CommandsType DEF AffinityTypeOK
  <2>2. todo \in [Sites -> [Processes -> Seq(Commands)]]
    BY DEF AffinityTypeOK
  <2> QED BY <1>2, <2>1, <2>2 DEF Processes
<1>4. ASSUME ct' # ct
      PROVE  \E m \in Choices : /\ s = conn.src /\ ct[s].orig # "none"
                                /\ ct' = [ct EXCEPT ![s].mark = (@ \ affinity_mask) \cup m]
  <2>1. /\ s = conn.src /\ ct[s].orig # "none" /\ marks # <<>>
        /\ ct' = [ct EXCEPT ![s].mark = (@ \ affinity_mask) \cup marks[1].mark]
    BY <1>2, <1>4
  <2>2. PICK m \in Choices : marks = <<Rule("mark", m)>>
    BY <2>1 DEF ClassRules
  <2>3. marks[1].mark = m
    BY <2>2 DEF Rule
  <2> QED BY <2>1, <2>3
<1>5. ct' \in [Nodes -> Entries]
  <2>1. ct \in [Nodes -> Entries] /\ s \in Nodes
    BY NodeKinds DEF AffinityTypeOK
  <2>2. CASE ct' # ct
    <3>1. PICK m \in Choices : ct' = [ct EXCEPT ![s].mark = (@ \ affinity_mask) \cup m]
      BY <1>4, <2>2
    <3>2. ct[s] \in Entries /\ ct[s].mark \subseteq Bits
      BY <2>1, EntryFields
    <3>3. (ct[s].mark \ affinity_mask) \cup m \subseteq Bits
      BY <3>2, ChoiceFacts DEF AffinityTypeOK
    <3>4. [ct[s] EXCEPT !.mark = (@ \ affinity_mask) \cup m] \in Entries
      BY <3>2, <3>3 DEF Entries
    <3>5. ct' = [ct EXCEPT ![s] = [ct[s] EXCEPT !.mark = (@ \ affinity_mask) \cup m]]
      BY <3>1
    <3> QED BY <2>1, <3>4, <3>5
  <2> QED BY <2>1, <2>2
<1>6. AffinityTypeOK'
  BY <1>1, <1>3, <1>5 DEF AffinityTypeOK, Last
<1> QED BY <1>4, <1>6

(* The classifier forgets the flow. *)
LEMMA RecordEndsType ==
  ASSUME AffinityTypeOK, NEW s \in Sites, RecordEnds(s)
  PROVE  AffinityTypeOK'
<1>1. /\ record' = [record EXCEPT ![s].path = {}]
      /\ UNCHANGED <<conn, ct, tables, pkt, seen, links, used, clean, count>>
  BY DEF RecordEnds
<1>2. record' \in [Sites -> [up : BOOLEAN, path : SUBSET route_mask]]
  <2>1. record \in [Sites -> [up : BOOLEAN, path : SUBSET route_mask]]
    BY DEF AffinityTypeOK
  <2> QED BY <1>1, <2>1
<1> QED BY <1>1, <1>2 DEF AffinityTypeOK, tables, Last

(* A namespace without kernel state has no entry; the others keep theirs. *)
LEMMA RestartType ==
  ASSUME AffinityTypeOK, NEW n \in Ends \cup Hubs, Restart(n)
  PROVE  AffinityTypeOK' /\ ct'[n] = NoEntry /\ \A x \in Nodes \ {n} : ct'[x] = ct[x]
<1>1. n \in Routers /\ n \in Nodes
  BY ConnectionEnds, NodeKinds
<1>2. /\ ct' = [ct EXCEPT ![n] = NoEntry]
      /\ built' = [built EXCEPT ![n] = 0]
      /\ fresh' = fresh \cup {n}
      /\ marking' = [s \in Sites |-> IF s = n THEN <<>> ELSE marking[s]]
      /\ todo' = [s \in Sites |-> IF s = n THEN [p \in Processes |-> <<>>] ELSE todo[s]]
      /\ record' = [s \in Sites |-> IF s = n THEN [up |-> FALSE, path |-> {}] ELSE record[s]]
      /\ pkt' = (IF pkt.at = n THEN NoPacket ELSE pkt)
      /\ clean' = (clean /\ ct[n].orig = "none")
      /\ UNCHANGED <<conn, seen, links, used>>
  BY DEF Restart
<1>3. /\ ct \in [Nodes -> Entries] /\ built \in [Routers -> Nat] /\ \A x \in Routers : built[x] <= Last(x)
      /\ fresh \subseteq Routers /\ marking \in [Sites -> Seq(ChainRules)]
      /\ todo \in [Sites -> [Processes -> Seq(Commands)]]
      /\ record \in [Sites -> [up : BOOLEAN, path : SUBSET route_mask]]
      /\ pkt \in Packets \cup {NoPacket}
  BY DEF AffinityTypeOK
<1>4. ct' \in [Nodes -> Entries] /\ ct'[n] = NoEntry /\ \A x \in Nodes \ {n} : ct'[x] = ct[x]
  <2>1. NoEntry \in Entries
    BY DEF NoEntry, Entries
  <2> HIDE DEF NoEntry
  <2> QED BY <1>1, <1>2, <1>3, <2>1
<1>5. built' \in [Routers -> Nat] /\ \A x \in Routers : built'[x] <= Last(x)
  <2>1. 0 <= Last(n)
    BY <1>1, Lengths
  <2> QED BY <1>1, <1>2, <1>3, <2>1
<1>6. marking' \in [Sites -> Seq(ChainRules)]
  <2>1. <<>> \in Seq(ChainRules)
    OBVIOUS
  <2> QED BY <1>2, <1>3, <2>1
<1>7. todo' \in [Sites -> [Processes -> Seq(Commands)]]
  <2>1. [p \in Processes |-> <<>>] \in [Processes -> Seq(Commands)]
    OBVIOUS
  <2> QED BY <1>2, <1>3, <2>1
<1>8. record' \in [Sites -> [up : BOOLEAN, path : SUBSET route_mask]]
  <2>1. [up |-> FALSE, path |-> {}] \in [up : BOOLEAN, path : SUBSET route_mask]
    OBVIOUS
  <2> QED BY <1>2, <1>3, <2>1
<1>9. pkt' \in Packets \cup {NoPacket} /\ clean' \in BOOLEAN /\ fresh' \subseteq Routers
  BY <1>1, <1>2, <1>3
<1>10. AffinityTypeOK'
  BY <1>2, <1>4, <1>5, <1>6, <1>7, <1>8, <1>9 DEF AffinityTypeOK, Last
<1> QED BY <1>4, <1>10

(* The link of a hub and a gateway is removed. *)
LEMMA LinkDownType ==
  ASSUME AffinityTypeOK, NEW h \in Hubs, NEW g \in Gateways, LinkDown(h, g)
  PROVE  AffinityTypeOK'
<1>1. /\ links' = links \ {<<h, g>>} /\ pkt' \in {pkt, NoPacket}
      /\ clean' = (clean /\ ct[g].orig = "none" /\ conn.src # "cloud")
      /\ UNCHANGED <<conn, ct, tables, record, seen, used>>
  BY DEF LinkDown
<1>2. clean' \in BOOLEAN
  BY <1>1
<1>3. pkt' \in Packets \cup {NoPacket} /\ links' \subseteq Hubs \X Gateways
  BY <1>1 DEF AffinityTypeOK
<1> QED BY <1>1, <1>2, <1>3 DEF AffinityTypeOK, tables, Last

(* The types hold at the beginning. *)
LEMMA InitAffinity == AffinityInit => AffinityTypeOK
<1> SUFFICES ASSUME AffinityInit PROVE AffinityTypeOK
  OBVIOUS
<1>1. /\ conn \in Flows /\ ct = [n \in Nodes |-> NoEntry] /\ built = [n \in Routers |-> Last(n)] /\ fresh = {}
      /\ marking = [s \in Sites |-> MarkRules(s, <<Rule("mark", PlannedMark(s))>>)]
      /\ todo = [s \in Sites |-> [p \in Processes |-> <<>>]]
      /\ record = [s \in Sites |-> [up |-> TRUE, path |-> {}]]
      /\ pkt = NoPacket /\ seen = Unknown /\ links = Hubs \X Gateways
      /\ used = [n \in Nodes |-> {}] /\ clean = TRUE
  BY DEF AffinityInit
<1>2. ct \in [Nodes -> Entries]
  <2>1. NoEntry \in Entries
    BY DEF NoEntry, Entries
  <2> QED BY <1>1, <2>1
<1>3. built \in [Routers -> Nat] /\ \A n \in Routers : built[n] <= Last(n)
  <2>1. \A n \in Routers : Last(n) \in Nat /\ Last(n) <= Last(n)
    BY Lengths DEF Nodes
  <2> QED BY <1>1, <2>1
<1>4. todo \in [Sites -> [Processes -> Seq(Commands)]]
  <2>1. [p \in Processes |-> <<>>] \in [Processes -> Seq(Commands)]
    OBVIOUS
  <2> QED BY <1>1, <2>1
<1>5. record \in [Sites -> [up : BOOLEAN, path : SUBSET route_mask]]
  <2>1. [up |-> TRUE, path |-> {}] \in [up : BOOLEAN, path : SUBSET route_mask]
    OBVIOUS
  <2> QED BY <1>1, <2>1
<1>6. marking \in [Sites -> Seq(ChainRules)]
  <2>1. \A s \in Sites : MarkRules(s, <<Rule("mark", PlannedMark(s))>>) \in Seq(ChainRules)
    BY <1>1, CommandsType, MarkRulesFields
  <2> QED BY <1>1, <2>1
<1>7. seen \in Addresses /\ used \in [Nodes -> SUBSET Interfaces] /\ clean \in BOOLEAN /\ pkt \in Packets \cup {NoPacket}
  BY <1>1 DEF Addresses
<1> QED BY <1>1, <1>2, <1>3, <1>4, <1>5, <1>6, <1>7 DEF AffinityTypeOK

-----------------------------------------------------------------------------
(* The marks of paths: what a mark and the masks have in common, and that  *)
(* no two paths of a namespace share a mark.                               *)
LEMMA StampFacts ==
  ASSUME NEW n \in Nodes, NEW i \in PathsOf(n)
  PROVE  /\ Stamp(n, i) # {} /\ Stamp(n, i) \cap affinity_mask = Affinity(n, i) /\ Affinity(n, i) # {}
         /\ Stamp(n, i) \subseteq stamp_mask /\ Stamp(n, i) \subseteq connection_mask
         /\ terminal_bit \subseteq Stamp(n, i)
         /\ n \in Routers => Stamp(n, i) \cap (route_mask \cup target_hub_mask) = Affinity(n, i)
         /\ n \in Gateways => Stamp(n, i) \cap (target_hub_mask \cup egress_mask) = Affinity(n, i)
<1>1. \A t \in Transports : Slot[t] \subseteq route_mask /\ Slot[t] # {}
  BY MarksValid DEF Validate
<1>2. \A h : HubBit(h) \subseteq target_hub_mask /\ HubBit(h) # {}
  BY DEF HubBit, hub1_bit, hub2_bit, target_hub_mask
<1>3. /\ route_mask \cap target_hub_mask = {} /\ route_mask \cap egress_mask = {} /\ target_hub_mask \cap egress_mask = {}
      /\ terminal_bit \cap affinity_mask = {} /\ affinity_mask = route_mask \cup target_hub_mask \cup egress_mask
      /\ stamp_mask = affinity_mask \cup terminal_bit /\ stamp_mask \subseteq connection_mask
      /\ cloud_gateway_bit \subseteq egress_mask
  BY DEF route_mask, target_hub_mask, egress_mask, terminal_bit, affinity_mask, stamp_mask, connection_mask,
         cloud_gateway_bit, state_mask
<1>4. Stamp(n, i) = Affinity(n, i) \cup terminal_bit
  BY DEF Stamp
<1>5. CASE n \in Sites \/ n \in Hubs
  <2>1. PICK t \in Transports, h \in Hubs : Affinity(n, i) = Slot[t] \cup HubBit(h)
    BY <1>5, PathKinds DEF Affinity
  <2>2. Affinity(n, i) \subseteq route_mask \cup target_hub_mask /\ Affinity(n, i) # {}
    BY <1>1, <1>2, <2>1
  <2>3. n \notin Gateways
    BY <1>5, NodeKinds
  <2> QED BY <1>3, <1>4, <2>2, <2>3
<1>6. CASE n \in Gateways
  <2>1. Affinity(n, i) = HubBit(i[2]) \cup cloud_gateway_bit
    BY <1>6, NodeKinds DEF Affinity
  <2>2. Affinity(n, i) \subseteq target_hub_mask \cup egress_mask /\ Affinity(n, i) # {}
    BY <1>2, <1>3, <2>1
  <2>3. n \notin Routers
    BY <1>6, NodeKinds
  <2> QED BY <1>3, <1>4, <2>2, <2>3
<1> QED BY <1>5, <1>6, NodeKinds

(* Two paths of a node have two affinity marks: the slots of the           *)
(* transports differ, and so do the bits of the hubs.                      *)
LEMMA StampsDiffer ==
  ASSUME NEW n \in Nodes, NEW i \in PathsOf(n), NEW j \in PathsOf(n), Affinity(n, i) = Affinity(n, j)
  PROVE  i = j
<1>1. /\ \A t \in Transports : Slot[t] \subseteq route_mask
      /\ \A t, u \in Transports : Slot[t] = Slot[u] => t = u
  BY MarksValid DEF Validate
<1>2. /\ \A h : HubBit(h) \cap route_mask = {} /\ HubBit(h) \cap cloud_gateway_bit = {}
      /\ \A g, h \in Hubs : HubBit(g) = HubBit(h) => g = h
  BY DEF HubBit, hub1_bit, hub2_bit, route_mask, Hubs, cloud_gateway_bit
<1>3. CASE n \in Sites
  <2>1. Affinity(n, i) = Slot[i[2]] \cup HubBit(i[1]) /\ Affinity(n, j) = Slot[j[2]] \cup HubBit(j[1])
    BY <1>3 DEF Affinity
  <2>2. i \in Hubs \X Transports /\ j \in Hubs \X Transports
    BY <1>3, PathKinds
  <2>3. Slot[i[2]] = Slot[j[2]] /\ HubBit(i[1]) = HubBit(j[1])
    <3>1. Slot[i[2]] \subseteq route_mask /\ Slot[j[2]] \subseteq route_mask
      BY <1>1, <2>2
    <3>2. HubBit(i[1]) \cap route_mask = {} /\ HubBit(j[1]) \cap route_mask = {}
      BY <1>2
    <3> QED BY <2>1, <3>1, <3>2
  <2>4. i[1] = j[1] /\ i[2] = j[2]
    BY <1>1, <1>2, <2>2, <2>3
  <2> QED BY <2>2, <2>4
<1>4. CASE n \in Hubs
  <2>1. Affinity(n, i) = Slot[i[2]] \cup HubBit(n) /\ Affinity(n, j) = Slot[j[2]] \cup HubBit(n)
    BY <1>4, NodeKinds DEF Affinity
  <2>2. i \in {"spokes"} \X Transports /\ j \in {"spokes"} \X Transports
    BY <1>4, PathKinds
  <2>3. Slot[i[2]] = Slot[j[2]]
    <3>1. Slot[i[2]] \subseteq route_mask /\ Slot[j[2]] \subseteq route_mask
      BY <1>1, <2>2
    <3> QED BY <1>2, <2>1, <3>1
  <2>4. i[2] = j[2]
    BY <1>1, <2>2, <2>3
  <2> QED BY <2>2, <2>4
<1>5. CASE n \in Gateways
  <2>1. Affinity(n, i) = HubBit(i[2]) \cup cloud_gateway_bit /\ Affinity(n, j) = HubBit(j[2]) \cup cloud_gateway_bit
    BY <1>5, NodeKinds DEF Affinity
  <2>2. i \in {"transit"} \X Hubs /\ j \in {"transit"} \X Hubs
    BY <1>5, PathKinds
  <2>3. HubBit(i[2]) = HubBit(j[2])
    <3>1. HubBit(i[2]) \cap cloud_gateway_bit = {} /\ HubBit(j[2]) \cap cloud_gateway_bit = {}
      BY <1>2
    <3>2. HubBit(i[2]) \cup cloud_gateway_bit = HubBit(j[2]) \cup cloud_gateway_bit
      BY <2>1
    <3> QED BY <3>1, <3>2
  <2>4. i[2] = j[2]
    BY <1>2, <2>2, <2>3
  <2> QED BY <2>2, <2>4
<1> QED BY <1>3, <1>4, <1>5, NodeKinds

(* The places of the paths' rules. *)
LEMMA Places ==
  ASSUME NEW n \in Nodes, NEW i \in PathsOf(n)
  PROVE  Pos(n, i) \in 1 .. K(n)
<1>1. T \in Nat /\ \A t \in Transports : Index[t] \in 1 .. T
  BY Lengths, PlacesValid
<1>2. CASE n \in Sites
  BY <1>1, <1>2, PathKinds DEF Pos, K
<1>3. CASE n \in Hubs
  BY <1>1, <1>3, PathKinds, NodeKinds DEF Pos, K
<1>4. CASE n \in Gateways
  BY <1>4, NodeKinds DEF Pos, K
<1> QED BY <1>2, <1>3, <1>4, NodeKinds

(* A namespace without an installation under way has all its rules. *)
LEMMA SettledFacts ==
  ASSUME AffinityTypeOK, NEW n \in Nodes, Settled(n)
  PROVE  /\ InLen(n) = K(n) + 2 /\ OutLen(n) = 2 * K(n)
         /\ n \in Routers => \A i \in PathsOf(n) : RulePresent(n, SpecificPos(n, i))
         /\ n \in Hubs \cup Gateways => Natting(n)
<1>1. n \in Routers => n \notin fresh /\ built[n] = Last(n)
  BY DEF Settled
<1>2. n \in Routers <=> n \notin Gateways
  BY NodeKinds
<1>3. InLen(n) = K(n) + 2 /\ OutLen(n) = 2 * K(n)
  BY <1>1, <1>2, Lengths DEF InLen, OutLen, Clip
<1>4. ASSUME n \in Routers, NEW i \in PathsOf(n) PROVE RulePresent(n, SpecificPos(n, i))
  <2>1. SpecificPos(n, i) \in 1 .. RuleCount(n)
    BY Places, Lengths DEF SpecificPos, RuleCount
  <2>2. Last(n) # 2 * SpecificPos(n, i) - 1
    BY <2>1, Lengths
  <2> QED BY <1>1, <1>4, <2>2 DEF RulePresent
<1>5. n \in Hubs \cup Gateways => Natting(n)
  BY <1>1, <1>2, Lengths DEF Natting
<1> QED BY <1>3, <1>4, <1>5

(* An entry without a mark or with the mark of a path. *)
PinOrNone(n, m) == m = {} \/ \E i \in PathsOf(n) : m = Stamp(n, i)

(* Saving and restoring such marks loses nothing and keeps nothing old. *)
LEMMA PinSaved ==
  ASSUME NEW n \in Nodes, NEW old, NEW m, PinOrNone(n, old), PinOrNone(n, m)
  PROVE  Saved(old, m) = m /\ Restored({}, m) = m
<1>1. old \subseteq connection_mask /\ m \subseteq connection_mask
  BY StampFacts DEF PinOrNone
<1> QED BY <1>1 DEF Saved, Restored

(* SDWAN_V5_RPA_IN pins an unpinned new connection to the interface that   *)
(* its packet came by, and changes no pin.                                 *)
LEMMA PinIn ==
  ASSUME NEW n \in Nodes, NEW c \in Entries, PinOrNone(n, c.mark), NEW i
  PROVE  LET m == MarkIn(n, i, c)
             e == EntryIn(n, i, c)
         IN  /\ PinOrNone(n, m) /\ PinOrNone(n, e.mark)
             /\ \/ e.mark = c.mark
                \/ c.mark = {} /\ ~c.est /\ i \in PathsOf(n) /\ e.mark = Stamp(n, i)
             /\ m = {} \/ m = c.mark \/ (i \in PathsOf(n) /\ m = Stamp(n, i) /\ ~c.est)
             /\ InLen(n) = K(n) + 2 =>
                  /\ e.mark = m
                  /\ c.mark # {} \/ c.est \/ i \notin PathsOf(n) => m = c.mark
                  /\ c.mark = {} /\ ~c.est /\ i \in PathsOf(n) => m = Stamp(n, i)
<1> DEFINE m == MarkIn(n, i, c)
           e == EntryIn(n, i, c)
           restored == IF InLen(n) >= 1 THEN Restored({}, c.mark) ELSE {}
<1>1. Restored({}, c.mark) = c.mark
  BY PinSaved DEF PinOrNone
<1>2. restored \in {{}, c.mark} /\ (InLen(n) >= 1 => restored = c.mark)
  BY <1>1
<1>3. restored \cap affinity_mask = {} => restored = {}
  BY <1>2, StampFacts DEF PinOrNone
<1>4. m = IF /\ i \in PathsOf(n) /\ InLen(n) >= 1 + Pos(n, i)
             /\ ~c.est /\ restored \cap affinity_mask = {}
          THEN (restored \ stamp_mask) \cup Stamp(n, i)
          ELSE restored
  BY DEF MarkIn
<1> HIDE DEF restored, m
<1>5. m = restored \/ (i \in PathsOf(n) /\ ~c.est /\ restored = {} /\ m = Stamp(n, i))
  BY <1>3, <1>4
<1>6. PinOrNone(n, m)
  BY <1>2, <1>5 DEF PinOrNone
<1>7. Saved(c.mark, m) = m
  BY <1>6, PinSaved
<1>8. e.mark = (IF InLen(n) = K(n) + 2 THEN Saved(c.mark, m) ELSE c.mark)
  BY EntryInFields DEF m
<1>9. InLen(n) = K(n) + 2 => InLen(n) >= 1
  BY Lengths
<1>10. InLen(n) = K(n) + 2 =>
         /\ e.mark = m /\ restored = c.mark
         /\ c.mark # {} \/ c.est \/ i \notin PathsOf(n) => m = c.mark
  BY <1>2, <1>5, <1>7, <1>8, <1>9
<1>11. ASSUME InLen(n) = K(n) + 2, c.mark = {}, ~c.est, i \in PathsOf(n) PROVE m = Stamp(n, i)
  <2>1. InLen(n) >= 1 + Pos(n, i)
    BY <1>11, Places, Lengths
  <2> QED BY <1>4, <1>10, <1>11, <2>1
<1>12. e.mark = c.mark \/ (c.mark = {} /\ ~c.est /\ i \in PathsOf(n) /\ e.mark = Stamp(n, i))
  BY <1>5, <1>8, <1>10
<1>13. PinOrNone(n, e.mark)
  BY <1>12 DEF PinOrNone
<1>14. m = {} \/ m = c.mark \/ (i \in PathsOf(n) /\ m = Stamp(n, i) /\ ~c.est)
  BY <1>2, <1>5
<1> HIDE DEF e
<1>15. /\ PinOrNone(n, m) /\ PinOrNone(n, e.mark)
       /\ \/ e.mark = c.mark
          \/ c.mark = {} /\ ~c.est /\ i \in PathsOf(n) /\ e.mark = Stamp(n, i)
       /\ m = {} \/ m = c.mark \/ (i \in PathsOf(n) /\ m = Stamp(n, i) /\ ~c.est)
       /\ InLen(n) = K(n) + 2 =>
            /\ e.mark = m
            /\ c.mark # {} \/ c.est \/ i \notin PathsOf(n) => m = c.mark
            /\ c.mark = {} /\ ~c.est /\ i \in PathsOf(n) => m = Stamp(n, i)
  BY <1>6, <1>10, <1>11, <1>12, <1>13, <1>14
<1> QED BY <1>15 DEF m, e

(* SDWAN_V5_RPA_OUT pins a new connection whose packet has no pin to the   *)
(* interface that the packet leaves by.                                    *)
LEMMA PinOut ==
  ASSUME NEW n \in Nodes, NEW c \in Entries, PinOrNone(n, c.mark), NEW m \in SUBSET Bits, PinOrNone(n, m), NEW o
  PROVE  LET e == EntryOut(n, o, m, c)
         IN  /\ e.orig = c.orig /\ e.est = c.est /\ e.nat = c.nat
             /\ PinOrNone(n, e.mark)
             /\ \/ e.mark = c.mark
                \/ ~c.est /\ o \in PathsOf(n) /\ (m = {} \/ m = Stamp(n, o)) /\ e.mark = Stamp(n, o)
             /\ OutLen(n) = 2 * K(n) /\ m = {} /\ ~c.est /\ o \in PathsOf(n) => e.mark = Stamp(n, o)
<1> DEFINE e == EntryOut(n, o, m, c)
           stamped == IF /\ o \in PathsOf(n) /\ OutLen(n) >= 2 * Pos(n, o) - 1
                         /\ ~c.est /\ m \cap affinity_mask = {}
                      THEN (m \ stamp_mask) \cup Stamp(n, o) ELSE m
<1>1. m \cap affinity_mask = {} => m = {}
  BY StampFacts DEF PinOrNone
<1>2. stamped = m \/ (o \in PathsOf(n) /\ m = {} /\ stamped = Stamp(n, o))
  BY <1>1
<1>3. PinOrNone(n, stamped)
  BY <1>2 DEF PinOrNone
<1>4. stamped \cap stamp_mask = stamped
  BY <1>3, StampFacts DEF PinOrNone
<1>5. e = IF /\ o \in PathsOf(n) /\ OutLen(n) >= 2 * Pos(n, o)
             /\ ~c.est /\ stamped \cap stamp_mask = Stamp(n, o)
          THEN [c EXCEPT !.mark = Saved(c.mark, stamped)]
          ELSE c
  BY DEF EntryOut
<1>6. Saved(c.mark, stamped) = stamped
  BY <1>3, PinSaved
<1>7. ASSUME OutLen(n) = 2 * K(n), m = {}, ~c.est, o \in PathsOf(n)
      PROVE  stamped = Stamp(n, o) /\ OutLen(n) >= 2 * Pos(n, o)
  BY <1>7, Places, Lengths
<1> HIDE DEF stamped, e
<1>8. \/ e = c
      \/ ~c.est /\ o \in PathsOf(n) /\ stamped = Stamp(n, o) /\ e = [c EXCEPT !.mark = Stamp(n, o)]
  BY <1>4, <1>5, <1>6
<1>9. [c EXCEPT !.mark = Stamp(n, o)].mark = Stamp(n, o)
  BY DEF Entries
<1>10. \/ e.mark = c.mark
       \/ ~c.est /\ o \in PathsOf(n) /\ (m = {} \/ m = Stamp(n, o)) /\ e.mark = Stamp(n, o)
  BY <1>2, <1>8, <1>9
<1>11. OutLen(n) = 2 * K(n) /\ m = {} /\ ~c.est /\ o \in PathsOf(n) => e.mark = Stamp(n, o)
  BY <1>4, <1>5, <1>6, <1>7, <1>9
<1>12. PinOrNone(n, e.mark)
  BY <1>10 DEF PinOrNone
<1>13. e.orig = c.orig /\ e.est = c.est /\ e.nat = c.nat
  <2>1. LET x == [c EXCEPT !.mark = Stamp(n, o)] IN x.orig = c.orig /\ x.est = c.est /\ x.nat = c.nat
    BY DEF Entries
  <2> QED BY <1>8, <2>1
<1> QED BY <1>10, <1>11, <1>12, <1>13 DEF e

-----------------------------------------------------------------------------
(* What a packet that crosses some interfaces of a namespace makes of its  *)
(* entry.                                                                  *)
Moved(n, crossed, e) ==
  LET c == Track(ct[n], pkt.dir)
  IN  /\ e.orig = c.orig /\ e.est = c.est
      /\ \/ e.mark = ct[n].mark
         \/ ~c.est /\ \E i \in PathsOf(n) \cap crossed : e.mark = Stamp(n, i)
      /\ Settled(n) /\ ct[n].mark # {} => e.mark = ct[n].mark

(* Behind SDWAN_V5_RPA_IN. *)
LEMMA MovedIn ==
  ASSUME AffinityTypeOK, NEW n \in Nodes, pkt.at = n, PinOrNone(n, ct[n].mark)
  PROVE  /\ PinOrNone(n, InMark(n)) /\ PinOrNone(n, InEntry(n).mark)
         /\ \A match \in BOOLEAN :
              LET e == Bind(InEntry(n), match)
              IN  /\ Moved(n, {pkt.iif}, e) /\ e.mark = InEntry(n).mark
                  /\ e.nat = IF ct[n].nat = "open" THEN IF match THEN "bound" ELSE "none" ELSE ct[n].nat
         /\ InMark(n) = {} \/ InMark(n) = ct[n].mark
              \/ (pkt.iif \in PathsOf(n) /\ InMark(n) = Stamp(n, pkt.iif) /\ ~Track(ct[n], pkt.dir).est)
         /\ Settled(n) =>
              /\ InEntry(n).mark = InMark(n)
              /\ ct[n].mark # {} \/ Track(ct[n], pkt.dir).est \/ pkt.iif \notin PathsOf(n) => InMark(n) = ct[n].mark
              /\ ct[n].mark = {} /\ ~Track(ct[n], pkt.dir).est /\ pkt.iif \in PathsOf(n) => InMark(n) = Stamp(n, pkt.iif)
<1> DEFINE c == Track(ct[n], pkt.dir)
<1>1. c \in Entries /\ c.mark = ct[n].mark /\ c.est \in BOOLEAN
  <2>1. ct[n] \in Entries /\ pkt.dir \in Directions
    BY PacketFields
  <2> QED BY <2>1, TrackFields, EntryFields
<1> HIDE DEF c
<1>2. InMark(n) = MarkIn(n, pkt.iif, c) /\ InEntry(n) = EntryIn(n, pkt.iif, c)
  BY DEF InMark, InEntry, c
<1>3. /\ PinOrNone(n, InMark(n)) /\ PinOrNone(n, InEntry(n).mark)
      /\ \/ InEntry(n).mark = c.mark
         \/ c.mark = {} /\ ~c.est /\ pkt.iif \in PathsOf(n) /\ InEntry(n).mark = Stamp(n, pkt.iif)
      /\ InMark(n) = {} \/ InMark(n) = c.mark \/ (pkt.iif \in PathsOf(n) /\ InMark(n) = Stamp(n, pkt.iif) /\ ~c.est)
      /\ InLen(n) = K(n) + 2 =>
           /\ InEntry(n).mark = InMark(n)
           /\ c.mark # {} \/ c.est \/ pkt.iif \notin PathsOf(n) => InMark(n) = c.mark
           /\ c.mark = {} /\ ~c.est /\ pkt.iif \in PathsOf(n) => InMark(n) = Stamp(n, pkt.iif)
  BY <1>1, <1>2, PinIn
<1>4. Settled(n) => InLen(n) = K(n) + 2
  BY SettledFacts
<1>5. /\ InEntry(n) \in Entries /\ InEntry(n).orig = c.orig /\ InEntry(n).est = c.est /\ InEntry(n).nat = ct[n].nat
  BY InFields DEF c
<1>6. ASSUME NEW match \in BOOLEAN
      PROVE  LET e == Bind(InEntry(n), match)
             IN  /\ Moved(n, {pkt.iif}, e) /\ e.mark = InEntry(n).mark
                 /\ e.nat = IF ct[n].nat = "open" THEN IF match THEN "bound" ELSE "none" ELSE ct[n].nat
  <2> DEFINE e == Bind(InEntry(n), match)
  <2>1. /\ e.mark = InEntry(n).mark /\ e.orig = c.orig /\ e.est = c.est
        /\ e.nat = IF ct[n].nat = "open" THEN IF match THEN "bound" ELSE "none" ELSE ct[n].nat
    BY <1>5, BindFields
  <2> HIDE DEF e
  <2>2. \/ e.mark = ct[n].mark
        \/ ~c.est /\ \E i \in PathsOf(n) \cap {pkt.iif} : e.mark = Stamp(n, i)
    BY <1>1, <1>3, <2>1
  <2>3. Settled(n) /\ ct[n].mark # {} => e.mark = ct[n].mark
    BY <1>1, <1>3, <1>4, <2>1
  <2>4. Moved(n, {pkt.iif}, e)
    BY <2>1, <2>2, <2>3 DEF Moved, c
  <2> QED BY <2>1, <2>4 DEF e
<1> QED BY <1>1, <1>3, <1>4, <1>6 DEF c

(* Behind SDWAN_V5_RPA_OUT, on hubs and gateways. *)
LEMMA MovedOut ==
  ASSUME AffinityTypeOK, NEW n \in Nodes, pkt.at = n, PinOrNone(n, ct[n].mark), NEW o \in PathsOf(n)
  PROVE  LET e == EntryOut(n, o, InMark(n), Bind(InEntry(n), FALSE))
         IN  /\ Moved(n, {pkt.iif, o}, e)
             /\ e.nat = IF ct[n].nat = "open" THEN "none" ELSE ct[n].nat
             /\ Settled(n) /\ ct[n].mark = {} /\ ~Track(ct[n], pkt.dir).est =>
                  e.mark = IF pkt.iif \in PathsOf(n) THEN Stamp(n, pkt.iif) ELSE Stamp(n, o)
<1> DEFINE c == Track(ct[n], pkt.dir)
           b == Bind(InEntry(n), FALSE)
           e == EntryOut(n, o, InMark(n), b)
<1>1. FALSE \in BOOLEAN /\ InEntry(n) \in Entries /\ InMark(n) \in SUBSET Bits
  BY InFields
<1>2. b \in Entries /\ Moved(n, {pkt.iif}, b) /\ b.mark = InEntry(n).mark
      /\ b.nat = IF ct[n].nat = "open" THEN IF FALSE THEN "bound" ELSE "none" ELSE ct[n].nat
  <2>1. b \in Entries
    BY <1>1, BindFields, Zenon
  <2> QED BY <1>1, <2>1, MovedIn, Zenon
<1>3. PinOrNone(n, InMark(n)) /\ PinOrNone(n, b.mark)
  BY <1>2, MovedIn
<1>4. b.est = c.est /\ b.orig = c.orig
  BY <1>2 DEF Moved
<1> HIDE DEF b
<1>5. /\ e.orig = b.orig /\ e.est = b.est /\ e.nat = b.nat
      /\ \/ e.mark = b.mark
         \/ ~b.est /\ o \in PathsOf(n) /\ (InMark(n) = {} \/ InMark(n) = Stamp(n, o)) /\ e.mark = Stamp(n, o)
      /\ OutLen(n) = 2 * K(n) /\ InMark(n) = {} /\ ~b.est /\ o \in PathsOf(n) => e.mark = Stamp(n, o)
  <2>1. b \in Entries
    BY <1>2
  <2> QED BY <1>1, <1>3, <2>1, PinOut
<1> HIDE DEF e, c
<1>6. \/ e.mark = ct[n].mark
      \/ ~c.est /\ \E i \in PathsOf(n) \cap {pkt.iif, o} : e.mark = Stamp(n, i)
  <2>1. \/ b.mark = ct[n].mark
        \/ ~c.est /\ \E i \in PathsOf(n) \cap {pkt.iif} : b.mark = Stamp(n, i)
    BY <1>2 DEF Moved, c
  <2> QED BY <1>4, <1>5, <2>1
<1>7. ASSUME Settled(n), ct[n].mark # {} PROVE e.mark = ct[n].mark
  <2>1. b.mark = ct[n].mark /\ InMark(n) = ct[n].mark
    BY <1>2, <1>7, MovedIn
  <2>2. e.mark = b.mark \/ e.mark = InMark(n)
    BY <1>5, <1>7, <2>1
  <2> QED BY <2>1, <2>2
<1>8. ASSUME Settled(n), ct[n].mark = {}, ~c.est
      PROVE  e.mark = IF pkt.iif \in PathsOf(n) THEN Stamp(n, pkt.iif) ELSE Stamp(n, o)
  <2>1. CASE pkt.iif \in PathsOf(n)
    <3>1. InMark(n) = Stamp(n, pkt.iif) /\ b.mark = Stamp(n, pkt.iif)
      BY <1>2, <1>8, <2>1, MovedIn DEF c
    <3>2. InMark(n) # {}
      BY <2>1, <3>1, StampFacts
    <3> QED BY <1>5, <2>1, <3>1, <3>2
  <2>2. CASE pkt.iif \notin PathsOf(n)
    <3>1. InMark(n) = {}
      BY <1>8, <2>2, MovedIn
    <3> QED BY <1>4, <1>5, <1>8, <2>2, <3>1, SettledFacts
  <2> QED BY <2>1, <2>2
<1>9. Moved(n, {pkt.iif, o}, e)
  BY <1>4, <1>5, <1>6, <1>7 DEF Moved, c
<1>10. e.nat = IF ct[n].nat = "open" THEN "none" ELSE ct[n].nat
  BY <1>2, <1>5
<1> QED BY <1>8, <1>9, <1>10 DEF e, c, b

-----------------------------------------------------------------------------
(* On hubs and gateways an entry has no mark or exactly that of a path     *)
(* that the connection has crossed.                                        *)
PinInv ==
  \A n \in Hubs \cup Gateways :
    \/ ct[n].mark = {}
    \/ /\ ct[n].orig # "none"
       /\ \E i \in PathsOf(n) : ct[n].mark = Stamp(n, i) /\ (ct[n].orig = "fwd" => i \in used[n])

(* What a step may do to the entry of a hub or a gateway: nothing, forget  *)
(* it, or what a packet does that crosses it.                              *)
PinStep(n) ==
  \/ ct'[n] = ct[n] /\ used[n] \subseteq used'[n]
  \/ ct'[n] = NoEntry
  \/ /\ pkt.at = n /\ pkt.dir \in Directions
     /\ \E crossed \in SUBSET Interfaces : /\ Moved(n, crossed, ct'[n])
                                           /\ used'[n] = (IF pkt.dir = "fwd" THEN used[n] \cup crossed ELSE used[n])

(* The mark of an entry is a pin to a crossed path or none at all. *)
LEMMA PinsOrNone ==
  ASSUME PinInv, NEW n \in Hubs \cup Gateways
  PROVE  PinOrNone(n, ct[n].mark)
BY DEF PinInv, PinOrNone

(* A packet at another namespace leaves the entry alone. *)
LEMMA OtherEntry ==
  ASSUME NEW n \in Nodes, NEW x \in Nodes, n # x, NEW dir, NEW crossed, NEW c, Passed(x, dir, crossed, c)
  PROVE  PinStep(n)
BY DEF Passed, PinStep

(* A step that changes neither entries nor the crossed paths. *)
LEMMA SamePin ==
  ASSUME NEW n, ct' = ct, used' = used
  PROVE  PinStep(n)
BY DEF PinStep

(* A packet that leaves a site disturbs no entry of a hub or a gateway. *)
LEMMA LeavePin ==
  ASSUME AffinityTypeOK, NEW s \in Sites, pkt.at = s, NEW m \in SUBSET Bits, NEW c \in Entries, Leave(s, m, c),
         record' \in [Sites -> [up : BOOLEAN, path : SUBSET route_mask]], UNCHANGED <<conn, tables, links, count>>,
         NEW n \in Hubs \cup Gateways
  PROVE  PinStep(n)
<1>1. n \in Nodes /\ s \in Nodes /\ n # s
  BY NodeKinds
<1>2. PICK o : Passed(s, pkt.dir, {pkt.iif, o}, LeftEntry(s, o, m, c))
  BY LeaveFacts
<1> QED BY <1>1, <1>2, OtherEntry

(* Every step, for every hub and gateway. *)
LEMMA NextPin ==
  ASSUME AffinityTypeOK, PinInv, AffinityNext, NEW n \in Hubs \cup Gateways
  PROVE  PinStep(n)
<1>1. n \in Nodes /\ n \notin Sites
  BY NodeKinds
<1>2. CASE Send \/ Lose
  BY <1>2, SamePin DEF Send, Lose
<1>3. ASSUME NEW s \in Sites, FromLan(s) PROVE PinStep(n)
  <2>1. pkt.at = s /\ s \in Nodes /\ s # n /\ record' = record
    BY <1>1, <1>3, FromLanFacts, NodeKinds
  <2>2. CASE Passed(s, pkt.dir, {Lan}, LanAfter(s))
    BY <1>1, <2>1, <2>2, OtherEntry
  <2>3. CASE Leave(s, LanMarked(s).mark, LanAfter(s))
    <3>1. LanMarked(s).mark \in SUBSET Bits /\ LanAfter(s) \in Entries
      BY <2>1, LanFields
    <3>2. record' \in [Sites -> [up : BOOLEAN, path : SUBSET route_mask]] /\ UNCHANGED <<conn, tables, links, count>>
      BY <1>3, <2>1, FromLanFacts DEF AffinityTypeOK
    <3> QED BY <2>1, <2>3, <3>1, <3>2, LeavePin
  <2> QED BY <1>3, <2>2, <2>3, FromLanFacts
<1>4. ASSUME NEW s \in Sites, Verdict(s) PROVE PinStep(n)
  <2>1. /\ pkt.at = s /\ UNCHANGED <<conn, tables, links, count>>
        /\ record' \in [Sites -> [up : BOOLEAN, path : SUBSET route_mask]] /\ ct[s] \in Entries
    BY <1>4, VerdictFacts, PacketFields, NodeKinds
  <2>2. PICK m \in SUBSET Bits : Leave(s, m, ct[s])
    BY <1>4, VerdictFacts
  <2> QED BY <2>1, <2>2, LeavePin
<1>5. ASSUME NEW s \in Sites, ToLan(s) PROVE PinStep(n)
  <2>1. s \in Nodes /\ s # n /\ Passed(s, pkt.dir, {pkt.iif}, Bind(InEntry(s), FALSE))
    BY <1>1, <1>5, ToLanFacts, NodeKinds
  <2> QED BY <1>1, <2>1, OtherEntry
<1>6. ASSUME NEW s \in Sites, Steer(s) PROVE PinStep(n)
  <2>1. ct'[n] = ct[n] /\ used' = used
    BY <1>1, <1>6, SteerFacts DEF Steer, AffinityTypeOK
  <2> QED BY <2>1 DEF PinStep
<1>7. ASSUME NEW s \in Sites, RecordEnds(s) \/ \E p \in Processes : ChainCommand(s, p) PROVE PinStep(n)
  BY <1>7, SamePin DEF RecordEnds, ChainCommand
<1>8. ASSUME NEW h \in Hubs, AtHub(h) PROVE PinStep(n)
  <2>1. h \in Nodes /\ pkt.at = h /\ (HubToDc(h) \/ HubToCloud(h) \/ HubToSite(h))
    BY <1>8, AtHubFacts, NodeKinds
  <2>2. PinOrNone(h, ct[h].mark) /\ pkt.dir \in Directions /\ pkt.iif \in Interfaces
    BY <2>1, PinsOrNone, PacketFields
  <2>3. CASE n # h
    BY <1>1, <2>1, <2>3, OtherEntry DEF HubToDc, HubToCloud, HubToSite
  <2>4. ASSUME NEW match \in BOOLEAN, Passed(h, pkt.dir, {pkt.iif}, Bind(InEntry(h), match)), n = h PROVE PinStep(n)
    <3>1. Moved(h, {pkt.iif}, Bind(InEntry(h), match)) /\ {pkt.iif} \in SUBSET Interfaces
      BY <2>1, <2>2, MovedIn
    <3> QED BY <2>1, <2>2, <2>4, <3>1 DEF PinStep, Passed
  <2>5. CASE n = h /\ (HubToDc(h) \/ HubToCloud(h))
    <3>1. Natting(h) \in BOOLEAN /\ FALSE \in BOOLEAN
      BY DEF Natting
    <3> QED BY <2>4, <2>5, <3>1, Zenon DEF HubToDc, HubToCloud
  <2>6. CASE n = h /\ HubToSite(h)
    <3>1. PICK o \in {"spokes"} \X Transports :
            Passed(h, pkt.dir, {pkt.iif, o}, EntryOut(h, o, InMark(h), Bind(InEntry(h), FALSE)))
      BY <2>6 DEF HubToSite
    <3>2. o \in PathsOf(h) /\ {pkt.iif, o} \in SUBSET Interfaces
      BY <2>1, <2>2, PathKinds
    <3>3. Moved(h, {pkt.iif, o}, EntryOut(h, o, InMark(h), Bind(InEntry(h), FALSE)))
      BY <2>1, <2>2, <3>2, MovedOut
    <3> QED BY <2>1, <2>2, <2>6, <3>1, <3>2, <3>3 DEF PinStep, Passed
  <2> QED BY <2>1, <2>3, <2>5, <2>6
<1>9. ASSUME NEW g \in Gateways, AtGateway(g) PROVE PinStep(n)
  <2>1. g \in Nodes /\ pkt.at = g /\ (GatewayToCloud(g) \/ GatewayToHub(g))
    BY <1>9, AtGatewayFacts, NodeKinds
  <2>2. PinOrNone(g, ct[g].mark) /\ pkt.dir \in Directions /\ pkt.iif \in Interfaces
    BY <2>1, PinsOrNone, PacketFields
  <2>3. CASE n # g
    BY <1>1, <2>1, <2>3, OtherEntry DEF GatewayToCloud, GatewayToHub
  <2>4. CASE n = g /\ GatewayToCloud(g)
    <3>1. Natting(g) \in BOOLEAN
      BY DEF Natting
    <3>2. Moved(g, {pkt.iif}, Bind(InEntry(g), Natting(g))) /\ {pkt.iif} \in SUBSET Interfaces
      BY <2>1, <2>2, <3>1, MovedIn
    <3> QED BY <2>1, <2>2, <2>4, <3>2 DEF PinStep, Passed, GatewayToCloud
  <2>5. CASE n = g /\ GatewayToHub(g)
    <3>1. PICK o \in {"transit"} \X Hubs :
            Passed(g, pkt.dir, {pkt.iif, o}, EntryOut(g, o, InMark(g), Bind(InEntry(g), FALSE)))
      BY <2>5 DEF GatewayToHub
    <3>2. o \in PathsOf(g) /\ {pkt.iif, o} \in SUBSET Interfaces
      BY <2>1, <2>2, PathKinds
    <3>3. Moved(g, {pkt.iif, o}, EntryOut(g, o, InMark(g), Bind(InEntry(g), FALSE)))
      BY <2>1, <2>2, <3>2, MovedOut
    <3> QED BY <2>1, <2>2, <2>5, <3>1, <3>2, <3>3 DEF PinStep, Passed
  <2> QED BY <2>1, <2>3, <2>4, <2>5
<1>10. ASSUME NEW x \in Ends \cup Hubs, Command(x) \/ Reconcile(x) PROVE PinStep(n)
  BY <1>10, SamePin DEF Command, Reconcile
<1>11. ASSUME NEW x \in Ends \cup Hubs, Restart(x) PROVE PinStep(n)
  <2>1. ct'[x] = NoEntry /\ (x # n => ct'[n] = ct[n]) /\ used' = used
    BY <1>1, <1>11, RestartType DEF Restart
  <2> QED BY <2>1 DEF PinStep
<1>12. ASSUME NEW h \in Hubs, NEW g \in Gateways, LinkDown(h, g) PROVE PinStep(n)
  BY <1>12, SamePin DEF LinkDown
<1> QED BY <1>2, <1>3, <1>4, <1>5, <1>6, <1>7, <1>8, <1>9, <1>10, <1>11, <1>12 DEF AffinityNext

(* The pins stay those of crossed paths. *)
LEMMA NextPinInv ==
  ASSUME AffinityTypeOK, PinInv, AffinityNext
  PROVE  PinInv'
<1> SUFFICES ASSUME NEW n \in Hubs \cup Gateways
             PROVE  \/ ct'[n].mark = {}
                    \/ /\ ct'[n].orig # "none"
                       /\ \E i \in PathsOf(n) : ct'[n].mark = Stamp(n, i) /\ (ct'[n].orig = "fwd" => i \in used'[n])
  BY DEF PinInv, PathsOf, Stamp, Affinity
<1>1. \/ ct[n].mark = {}
      \/ /\ ct[n].orig # "none"
         /\ \E i \in PathsOf(n) : ct[n].mark = Stamp(n, i) /\ (ct[n].orig = "fwd" => i \in used[n])
  BY DEF PinInv
<1>2. PinStep(n) /\ n \in Nodes
  BY NextPin, NodeKinds
<1>3. CASE ct'[n] = ct[n] /\ used[n] \subseteq used'[n]
  BY <1>1, <1>3
<1>4. CASE ct'[n] = NoEntry
  BY <1>4 DEF NoEntry
<1>5. ASSUME pkt.at = n, pkt.dir \in Directions, NEW crossed \in SUBSET Interfaces, Moved(n, crossed, ct'[n]),
             used'[n] = (IF pkt.dir = "fwd" THEN used[n] \cup crossed ELSE used[n])
      PROVE  \/ ct'[n].mark = {}
             \/ /\ ct'[n].orig # "none"
                /\ \E i \in PathsOf(n) : ct'[n].mark = Stamp(n, i) /\ (ct'[n].orig = "fwd" => i \in used'[n])
  <2> DEFINE c == Track(ct[n], pkt.dir)
  <2>1. /\ c.orig = (IF ct[n].orig = "none" THEN pkt.dir ELSE ct[n].orig) /\ c.orig # "none"
        /\ ~c.est => ct[n].orig = "none" \/ pkt.dir = ct[n].orig
    <3>1. ct[n] \in Entries
      BY <1>2, <1>5, PacketFields
    <3> QED BY <1>5, <3>1, TrackFields DEF Directions
  <2>2. /\ ct'[n].orig = c.orig
        /\ \/ ct'[n].mark = ct[n].mark
           \/ ~c.est /\ \E i \in PathsOf(n) \cap crossed : ct'[n].mark = Stamp(n, i)
    BY <1>5 DEF Moved
  <2> HIDE DEF c
  <2>3. CASE ct'[n].mark = ct[n].mark
    BY <1>1, <1>5, <2>1, <2>2, <2>3
  <2>4. CASE ~c.est /\ \E i \in PathsOf(n) \cap crossed : ct'[n].mark = Stamp(n, i)
    BY <1>5, <2>1, <2>2, <2>4
  <2> QED BY <2>2, <2>3, <2>4
<1> QED BY <1>2, <1>3, <1>4, <1>5 DEF PinStep

(* The action under PinKept. *)
Keeps ==
  \A n \in Hubs \cup Gateways :
    Pinned(n) /\ ct'[n] # NoEntry =>
      /\ Pinned(n)'
      /\ ct[n].est \/ Settled(n) => ct'[n].mark = ct[n].mark

(* Every step keeps the pins of the namespaces that live. *)
LEMMA NextKeeps ==
  ASSUME AffinityTypeOK, PinInv, AffinityNext
  PROVE  Keeps
<1> SUFFICES ASSUME NEW n \in Hubs \cup Gateways, Pinned(n), ct'[n] # NoEntry
             PROVE  /\ Pinned(n)'
                    /\ ct[n].est \/ Settled(n) => ct'[n].mark = ct[n].mark
  BY DEF Keeps
<1>1. PinStep(n) /\ n \in Nodes /\ ct[n] \in Entries
  BY NextPin, NodeKinds DEF AffinityTypeOK
<1>2. ct[n].mark # {}
  BY DEF Pinned
<1>3. CASE ct'[n] = ct[n]
  BY <1>3 DEF Pinned
<1>4. ASSUME pkt.at = n, pkt.dir \in Directions, NEW crossed \in SUBSET Interfaces, Moved(n, crossed, ct'[n])
      PROVE  /\ Pinned(n)'
             /\ ct[n].est \/ Settled(n) => ct'[n].mark = ct[n].mark
  <2> DEFINE c == Track(ct[n], pkt.dir)
  <2>1. ct[n].est => c.est
    BY <1>1, <1>4, TrackFields
  <2>2. /\ \/ ct'[n].mark = ct[n].mark
           \/ ~c.est /\ \E i \in PathsOf(n) \cap crossed : ct'[n].mark = Stamp(n, i)
        /\ Settled(n) /\ ct[n].mark # {} => ct'[n].mark = ct[n].mark
    BY <1>4 DEF Moved
  <2>3. Pinned(n)'
    BY <1>1, <2>2, StampFacts DEF Pinned
  <2> QED BY <1>2, <2>1, <2>2, <2>3
<1> QED BY <1>1, <1>3, <1>4 DEF PinStep

(* Types through all steps. *)
LEMMA NextAffinityType ==
  ASSUME AffinityTypeOK, [AffinityNext]_affinityVars
  PROVE  AffinityTypeOK'
<1>1. CASE UNCHANGED affinityVars
  BY <1>1 DEF affinityVars, AffinityTypeOK, Last
<1>2. CASE Send \/ Lose
  BY <1>2, SendType, LoseType
<1>3. ASSUME NEW s \in Sites, \/ FromLan(s) \/ Verdict(s) \/ ToLan(s) \/ Steer(s) \/ RecordEnds(s)
                              \/ \E p \in Processes : ChainCommand(s, p)
      PROVE  AffinityTypeOK'
  BY <1>3, FromLanFacts, VerdictFacts, ToLanFacts, SteerFacts, RecordEndsType, ChainCommandType
<1>4. ASSUME NEW h \in Hubs, AtHub(h) PROVE AffinityTypeOK'
  BY <1>4, AtHubFacts
<1>5. ASSUME NEW g \in Gateways, AtGateway(g) PROVE AffinityTypeOK'
  BY <1>5, AtGatewayFacts
<1>6. ASSUME NEW n \in Ends \cup Hubs, Command(n) \/ Reconcile(n) \/ Restart(n) PROVE AffinityTypeOK'
  BY <1>6, CommandType, ReconcileType, RestartType
<1>7. ASSUME NEW h \in Hubs, NEW g \in Gateways, LinkDown(h, g) PROVE AffinityTypeOK'
  BY <1>7, LinkDownType
<1> QED BY <1>1, <1>2, <1>3, <1>4, <1>5, <1>6, <1>7 DEF AffinityNext

(* An unchanged state keeps its pins. *)
LEMMA StutterPin == PinInv /\ UNCHANGED affinityVars => PinInv'
BY DEF PinInv, affinityVars, PathsOf, Stamp, Affinity

(* Nothing is pinned at first. *)
LEMMA InitPin == AffinityInit => PinInv
<1> SUFFICES ASSUME AffinityInit PROVE PinInv
  OBVIOUS
<1>1. ct = [n \in Nodes |-> NoEntry]
  BY DEF AffinityInit
<1>2. \A n \in Hubs \cup Gateways : ct[n] = NoEntry
  BY <1>1, NodeKinds
<1> QED BY <1>2 DEF PinInv, NoEntry

(* PinKept: a hub or a gateway that lives never loses a pin, and never     *)
(* changes one after a reply or while it has all its rules.                *)
THEOREM PinsKept == AffinitySpec => PinKept
<1>1. AffinityInit => AffinityTypeOK /\ PinInv
  BY InitAffinity, InitPin
<1>2. AffinityTypeOK /\ PinInv /\ [AffinityNext]_affinityVars => (AffinityTypeOK /\ PinInv)'
  BY NextAffinityType, NextPinInv, StutterPin
<1>3. AffinityTypeOK /\ PinInv /\ [AffinityNext]_affinityVars => [Keeps]_affinityVars
  BY NextKeeps
<1> QED BY <1>1, <1>2, <1>3, PTL DEF AffinitySpec, PinKept, Keeps

-----------------------------------------------------------------------------
(* A mark that is saved and terminal passes any chain as it is. *)
LEMMA TerminalPasses ==
  ASSUME NEW s, marking[s] \in Seq(ChainRules), NEW m \in SUBSET Bits, m \subseteq connection_mask, terminal_bit \subseteq m
  PROVE  RunChain(s, m, m) = [mark |-> m, saved |-> m, queued |-> FALSE]
<1> DEFINE x == [mark |-> m, saved |-> m, queued |-> FALSE]
           L == Len(marking[s])
<1>1. PICK f \in [0 .. L -> Marked] : Trace(marking[s], x, f) /\ RunChain(s, m, m) = f[L]
  BY ChainTrace
<1>2. ASSUME NEW r \in ChainRules PROVE ApplyRule(r, x) = x
  <2>1. m \cap connection_mask # {} /\ Restored(m, m) = m /\ Saved(m, m) = m
    BY DEF terminal_bit, Restored, Saved
  <2>2. stage(m) = "TERMINAL"
    BY DEF stage
  <2>3. r.do \in {"restore", "mark", "queue", "save"}
    BY DEF ChainRules
  <2>4. x.mark = m /\ x.saved = m /\ x.queued = FALSE
    OBVIOUS
  <2>5. CASE r.do = "restore"
    BY <2>1, <2>5 DEF ApplyRule
  <2>6. CASE r.do = "mark"
    BY <2>1, <2>6 DEF ApplyRule
  <2>7. CASE r.do = "queue"
    <3>1. ApplyRule(r, x) = [x EXCEPT !.queued = (stage(m) # "TERMINAL")]
      BY <2>4, <2>7 DEF ApplyRule
    <3>2. (stage(m) # "TERMINAL") = FALSE
      BY <2>2
    <3> QED BY <3>1, <3>2
  <2>8. CASE r.do = "save"
    BY <2>1, <2>8 DEF ApplyRule
  <2> QED BY <2>3, <2>5, <2>6, <2>7, <2>8
<1> HIDE DEF x
<1>3. L \in Nat /\ \A k \in 1 .. L : marking[s][k] \in ChainRules
  OBVIOUS
<1>4. f[0] = x /\ \A k \in 1 .. L : f[k] = ApplyRule(marking[s][k], f[k - 1])
  BY <1>1 DEF Trace
<1> DEFINE N == {k \in 0 .. L : f[k] # x}
<1> HIDE DEF L
<1>5. N = {}
  <2> SUFFICES ASSUME N # {} PROVE FALSE
    OBVIOUS
  <2>1. N \subseteq Nat
    BY <1>3
  <2>2. PICK j \in N : \A n \in N : j <= n
    <3> HIDE DEF N
    <3> QED BY <2>1, Smallest
  <2>3. j \in 1 .. L /\ f[j] # x /\ j - 1 \in 0 .. L /\ ~(j <= j - 1)
    BY <1>3, <1>4, <2>2
  <2>4. f[j - 1] = x
    BY <2>2, <2>3
  <2> QED BY <1>2, <1>3, <1>4, <2>3, <2>4
<1>6. f[L] = x
  BY <1>3, <1>5
<1> QED BY <1>1, <1>6 DEF x, L

-----------------------------------------------------------------------------
(* With all rules in place a pinned mark is routed to its path and to no   *)
(* other.                                                                  *)
LEMMA RouterPinned ==
  ASSUME AffinityTypeOK, NEW n \in Routers, Settled(n), NEW i \in PathsOf(n)
  PROVE  {j \in PathsOf(n) : /\ RulePresent(n, SpecificPos(n, j))
                             /\ Stamp(n, i) \cap (route_mask \cup target_hub_mask) = Affinity(n, j)} = {i}
<1>1. n \in Nodes
  BY DEF Nodes
<1>2. \A j \in PathsOf(n) : RulePresent(n, SpecificPos(n, j))
  BY <1>1, SettledFacts
<1>3. Stamp(n, i) \cap (route_mask \cup target_hub_mask) = Affinity(n, i)
  BY <1>1, StampFacts
<1>4. \A j \in PathsOf(n) : Affinity(n, i) = Affinity(n, j) => i = j
  BY <1>1, StampsDiffer
<1> QED BY <1>2, <1>3, <1>4

(* A pinned packet leaves an installed site by the path of its pin, *)
LEMMA SitePinned ==
  ASSUME AffinityTypeOK, NEW s \in Sites, Settled(s), NEW i \in PathsOf(s), NEW e, e # "saas"
  PROVE  SiteRoutes(s, Stamp(s, i), e) = {i}
<1>1. {j \in PathsOf(s) : /\ RulePresent(s, SpecificPos(s, j))
                          /\ Stamp(s, i) \cap (route_mask \cup target_hub_mask) = Affinity(s, j)} = {i}
  BY RouterPinned, NodeKinds
<1> QED BY <1>1 DEF SiteRoutes

(* an installed hub, *)
LEMMA HubPinned ==
  ASSUME AffinityTypeOK, NEW h \in Hubs, Settled(h), NEW i \in PathsOf(h)
  PROVE  HubRoute(h, Stamp(h, i)) = {i}
<1>1. {j \in PathsOf(h) : /\ RulePresent(h, SpecificPos(h, j))
                          /\ Stamp(h, i) \cap (route_mask \cup target_hub_mask) = Affinity(h, j)} = {i}
  BY RouterPinned, NodeKinds
<1> QED BY <1>1 DEF HubRoute

(* and a gateway whose link is up. *)
LEMMA GatewayPinned ==
  ASSUME NEW g \in Gateways, NEW i \in PathsOf(g), <<i[2], g>> \in links
  PROVE  GatewayRoute(g, Stamp(g, i)) = {i}
<1>1. g \in Nodes
  BY NodeKinds
<1>2. Stamp(g, i) \cap (target_hub_mask \cup egress_mask) = Affinity(g, i)
  BY <1>1, StampFacts
<1>3. \A j \in PathsOf(g) : Affinity(g, i) = Affinity(g, j) => i = j
  BY <1>1, StampsDiffer
<1> DEFINE live == {j \in PathsOf(g) : <<j[2], g>> \in links}
           pinned == {j \in live : Stamp(g, i) \cap (target_hub_mask \cup egress_mask) = Affinity(g, j)}
<1>4. pinned = {i}
  BY <1>2, <1>3
<1> QED BY <1>4 DEF GatewayRoute

(* The gateways of a hub: one comes first, and that one is used when all   *)
(* links are up.                                                           *)
LEMMA FirstGateway ==
  ASSUME NEW h \in Hubs, NEW f \in Gateways, NEW g \in Gateways, GatewayRank(h, f) = 1, GatewayRank(h, g) = 1
  PROVE  f = g
<1> DEFINE Number(x) == CHOOSE j \in DOMAIN ActiveGateways : ActiveGateways[j] = x
           n == Len(ActiveGateways)
<1>1. n \in Nat /\ DOMAIN ActiveGateways = 1 .. n
  BY NamesValid
<1>2. \A x \in Gateways : Number(x) \in 1 .. n /\ ActiveGateways[Number(x)] = x
  BY <1>1 DEF Gateways
<1>3. \A x \in Gateways : GatewayRank(h, x) = IF h = "hub1" THEN Number(x) ELSE (Number(x) % n) + 1
  BY DEF GatewayRank
<1> HIDE DEF Number, n
<1>4. \A k \in 1 .. n : (k % n) + 1 = 1 <=> k = n
  BY <1>1
<1>5. Number(f) = Number(g)
  BY <1>2, <1>3, <1>4
<1> QED BY <1>2, <1>5

(* With every link up, the gateway of the first rank is the only one that  *)
(* the hub's default route uses.                                           *)
LEMMA FirstUsable ==
  ASSUME NEW h \in Hubs, links = Hubs \X Gateways, NEW f \in Gateways, GatewayRank(h, f) = 1,
         NEW g \in UsableGateways(h)
  PROVE  g = f
<1> DEFINE Number(x) == CHOOSE j \in DOMAIN ActiveGateways : ActiveGateways[j] = x
           n == Len(ActiveGateways)
<1>1. n \in Nat /\ DOMAIN ActiveGateways = 1 .. n
  BY NamesValid
<1>2. g \in Gateways /\ GatewayRank(h, g) <= GatewayRank(h, f)
  BY DEF UsableGateways
<1>3. Number(g) \in 1 .. n
  BY <1>1, <1>2 DEF Gateways
<1>4. GatewayRank(h, g) = IF h = "hub1" THEN Number(g) ELSE (Number(g) % n) + 1
  BY DEF GatewayRank
<1> HIDE DEF Number, n
<1>5. Number(g) % n \in Nat
  BY <1>1, <1>3
<1>6. GatewayRank(h, g) = 1
  BY <1>2, <1>3, <1>4, <1>5
<1> QED BY <1>2, <1>6, FirstGateway

-----------------------------------------------------------------------------
(* A mark for direct Internet access. *)
Direct(m) == m \cap egress_mask = direct_internet_bit
OpenOrDirect(m) == m \cap connection_mask = {} \/ Direct(m)

(* Marks of direct egress: a stamp keeps them so, and so do saving to an   *)
(* entry and restoring from it.                                            *)
LEMMA DirectFacts ==
  /\ \A t \in Transports : Direct(DirectMark(t))
  /\ \A m : Direct(m) => m \cap connection_mask # {} /\ egress_mode(m) = "DIRECT_INTERNET"
  /\ \A m, mark : Direct(mark) => Direct((m \ affinity_mask) \cup mark)
  /\ OpenOrDirect({})
  /\ \A old, mark : OpenOrDirect(old) /\ OpenOrDirect(mark) => OpenOrDirect(Saved(old, mark)) /\ OpenOrDirect(Restored(old, mark))
<1>1. /\ direct_internet_bit \subseteq egress_mask /\ direct_internet_bit # {} /\ egress_mask \subseteq connection_mask
      /\ egress_mask \subseteq affinity_mask /\ egress_mask \cap route_mask = {}
  BY DEF direct_internet_bit, egress_mask, connection_mask, affinity_mask, route_mask
<1>2. \A t \in Transports : Direct(DirectMark(t))
  BY <1>1, EncodeFacts DEF Direct
<1>3. \A m : Direct(m) => m \cap connection_mask # {} /\ egress_mode(m) = "DIRECT_INTERNET"
  BY <1>1 DEF Direct, egress_mode
<1>4. \A m, mark : Direct(mark) => Direct((m \ affinity_mask) \cup mark)
  BY <1>1 DEF Direct
<1>5. ASSUME NEW old, NEW mark, OpenOrDirect(old), OpenOrDirect(mark)
      PROVE  OpenOrDirect(Saved(old, mark)) /\ OpenOrDirect(Restored(old, mark))
  <2>1. CASE mark \cap connection_mask = {}
    BY <2>1 DEF OpenOrDirect, Saved, Restored
  <2>2. CASE Direct(mark)
    BY <1>1, <2>2 DEF OpenOrDirect, Direct, Saved, Restored
  <2> QED BY <1>5, <2>1, <2>2 DEF OpenOrDirect
<1> QED BY <1>2, <1>3, <1>4, <1>5 DEF OpenOrDirect

(* What the rules do to a connection to the public service: the first mark *)
(* rule makes its mark direct, and the later ones leave it so.             *)
LEMMA DirectRules ==
  ASSUME NEW x \in Marked, OpenOrDirect(x.saved)
  PROVE  /\ OpenOrDirect(x.mark) /\ ~x.queued =>
              LET y == ApplyRule(Rule("restore", {}), x) IN OpenOrDirect(y.saved) /\ OpenOrDirect(y.mark) /\ ~y.queued
         /\ \A m : OpenOrDirect(x.mark) /\ Direct(m) /\ ~x.queued =>
              LET y == ApplyRule(Rule("mark", m), x) IN OpenOrDirect(y.saved) /\ Direct(y.mark) /\ ~y.queued
         /\ Direct(x.mark) =>
              /\ LET y == ApplyRule(Rule("queue", {}), x) IN OpenOrDirect(y.saved) /\ Direct(y.mark)
              /\ LET y == ApplyRule(Rule("save", {}), x) IN OpenOrDirect(y.saved) /\ Direct(y.mark)
              /\ \A m : LET y == ApplyRule(Rule("mark", m), x) IN OpenOrDirect(y.saved) /\ Direct(y.mark)
<1>1. ASSUME OpenOrDirect(x.mark), ~x.queued
      PROVE  LET y == ApplyRule(Rule("restore", {}), x) IN OpenOrDirect(y.saved) /\ OpenOrDirect(y.mark) /\ ~y.queued
  <2>1. ApplyRule(Rule("restore", {}), x) = [x EXCEPT !.mark = Restored(x.mark, x.saved)]
    BY <1>1 DEF ApplyRule, Rule
  <2>2. OpenOrDirect(Restored(x.mark, x.saved))
    BY <1>1, DirectFacts
  <2> QED BY <1>1, <2>1, <2>2 DEF Marked
<1>2. ASSUME NEW m, ~x.queued
      PROVE  ApplyRule(Rule("mark", m), x)
               = IF x.mark \cap connection_mask = {} THEN [x EXCEPT !.mark = (x.mark \ affinity_mask) \cup m] ELSE x
  BY <1>2 DEF ApplyRule, Rule
<1>3. ASSUME NEW m, OpenOrDirect(x.mark), Direct(m), ~x.queued
      PROVE  LET y == ApplyRule(Rule("mark", m), x) IN OpenOrDirect(y.saved) /\ Direct(y.mark) /\ ~y.queued
  <2>1. CASE x.mark \cap connection_mask = {}
    <3>1. Direct((x.mark \ affinity_mask) \cup m)
      BY <1>3, DirectFacts
    <3>2. ApplyRule(Rule("mark", m), x) = [x EXCEPT !.mark = (x.mark \ affinity_mask) \cup m]
      BY <1>2, <1>3, <2>1
    <3> QED BY <1>3, <3>1, <3>2 DEF Marked
  <2>2. CASE x.mark \cap connection_mask # {}
    <3>1. ApplyRule(Rule("mark", m), x) = x /\ Direct(x.mark)
      BY <1>2, <1>3, <2>2 DEF OpenOrDirect
    <3> QED BY <1>3, <3>1
  <2> QED BY <2>1, <2>2
<1>4. ASSUME Direct(x.mark), NEW r, r.do \in {"queue", "save", "mark"}
      PROVE  LET y == ApplyRule(r, x) IN OpenOrDirect(y.saved) /\ Direct(y.mark)
  <2>1. x.mark \cap connection_mask # {} /\ OpenOrDirect(x.mark)
    BY <1>4, DirectFacts DEF OpenOrDirect
  <2>2. OpenOrDirect(Saved(x.saved, x.mark))
    BY <2>1, DirectFacts
  <2>3. CASE x.queued
    <3>1. ApplyRule(r, x) = x
      BY <2>3 DEF ApplyRule
    <3> QED BY <1>4, <3>1
  <2>4. CASE ~x.queued /\ r.do = "queue"
    <3>1. ApplyRule(r, x) = [x EXCEPT !.queued = (stage(x.mark) # "TERMINAL")]
      BY <2>4 DEF ApplyRule
    <3> QED BY <1>4, <3>1 DEF Marked
  <2>5. CASE ~x.queued /\ r.do = "save"
    <3>1. ApplyRule(r, x) = [x EXCEPT !.saved = Saved(x.saved, x.mark)]
      BY <2>5 DEF ApplyRule
    <3> QED BY <1>4, <2>2, <3>1 DEF Marked
  <2>6. CASE ~x.queued /\ r.do = "mark"
    <3>1. ApplyRule(r, x) = x
      BY <2>1, <2>6 DEF ApplyRule
    <3> QED BY <1>4, <3>1
  <2> QED BY <1>4, <2>3, <2>4, <2>5, <2>6
<1>5. Rule("queue", {}).do = "queue" /\ Rule("save", {}).do = "save" /\ \A m : Rule("mark", m).do = "mark"
  BY DEF Rule
<1> QED BY <1>1, <1>3, <1>4, <1>5

(* The chain of a site at rest. *)
LEMMA DirectChain ==
  ASSUME AffinityTypeOK, NEW s \in Sites, Settled(s), conn.dst = "saas",
         NEW m \in SUBSET Bits, NEW saved \in SUBSET Bits, OpenOrDirect(m), OpenOrDirect(saved)
  PROVE  Direct(RunChain(s, m, saved).mark) /\ OpenOrDirect(RunChain(s, m, saved).saved)
<1>1. conn \in Flows /\ marking[s] \in Seq(ChainRules)
  BY DEF AffinityTypeOK
<1>2. PICK marks \in ClassRules : marking[s] = MarkRules(s, marks)
  BY DEF Settled
<1> DEFINE x == [mark |-> m, saved |-> saved, queued |-> FALSE]
           L == Len(marking[s])
<1>3. PICK f \in [0 .. L -> Marked] : Trace(marking[s], x, f) /\ RunChain(s, m, saved) = f[L]
  BY <1>1, ChainTrace
<1>4. f[0] = x /\ \A k \in 1 .. L : f[k] = ApplyRule(marking[s][k], f[k - 1])
  BY <1>3 DEF Trace
<1>5. L \in Nat /\ \A k \in 0 .. L : f[k] \in Marked
  BY <1>1
<1>6. Direct(PlannedMark(s)) /\ \A c \in Choices : Direct(c)
  BY <1>1, ChoiceFacts, DirectFacts
<1> DEFINE Open(y) == OpenOrDirect(y.saved) /\ OpenOrDirect(y.mark) /\ ~y.queued
           Done(y) == OpenOrDirect(y.saved) /\ Direct(y.mark)
<1>7. Open(f[0])
  BY <1>4
<1> HIDE DEF x, L
<1>8. ASSUME NEW k \in 1 .. L, marking[s][k] = Rule("restore", {}), Open(f[k - 1]) PROVE Open(f[k])
  <2>1. f[k - 1] \in Marked /\ f[k] = ApplyRule(Rule("restore", {}), f[k - 1])
    BY <1>4, <1>5, <1>8
  <2> QED BY <1>8, <2>1, DirectRules
<1>9. ASSUME NEW k \in 1 .. L, NEW c, Direct(c), marking[s][k] = Rule("mark", c), Open(f[k - 1]) PROVE Done(f[k])
  <2>1. f[k - 1] \in Marked /\ f[k] = ApplyRule(Rule("mark", c), f[k - 1])
    BY <1>4, <1>5, <1>9
  <2> QED BY <1>9, <2>1, DirectRules
<1>10. ASSUME NEW k \in 1 .. L, Done(f[k - 1]),
              \/ marking[s][k] = Rule("queue", {}) \/ marking[s][k] = Rule("save", {})
              \/ \E c : marking[s][k] = Rule("mark", c)
       PROVE  Done(f[k])
  <2>1. f[k - 1] \in Marked /\ f[k] = ApplyRule(marking[s][k], f[k - 1])
    BY <1>4, <1>5, <1>10
  <2> QED BY <1>10, <2>1, DirectRules
<1> HIDE DEF Open, Done
<1>11. CASE /\ L = 5
            /\ marking[s][1] = Rule("restore", {})
            /\ marking[s][2] = Rule("mark", PlannedMark(s))
            /\ marking[s][3] = Rule("mark", DefaultMark(s))
            /\ marking[s][4] = Rule("queue", {})
            /\ marking[s][5] = Rule("save", {})
  <2>1. Open(f[1])
    BY <1>7, <1>8, <1>11
  <2>2. Done(f[2])
    BY <1>6, <1>9, <1>11, <2>1
  <2>3. Done(f[3])
    BY <1>10, <1>11, <2>2
  <2>4. Done(f[4])
    BY <1>10, <1>11, <2>3
  <2>5. Done(f[5])
    BY <1>10, <1>11, <2>4
  <2> QED BY <1>3, <1>11, <2>5 DEF Done, L
<1>12. CASE \E c \in Choices :
            /\ L = 6
            /\ marking[s][1] = Rule("restore", {})
            /\ marking[s][2] = Rule("mark", c)
            /\ marking[s][3] = Rule("mark", PlannedMark(s))
            /\ marking[s][4] = Rule("mark", DefaultMark(s))
            /\ marking[s][5] = Rule("queue", {})
            /\ marking[s][6] = Rule("save", {})
  <2>1. Open(f[1])
    BY <1>7, <1>8, <1>12
  <2>2. Done(f[2])
    BY <1>6, <1>9, <1>12, <2>1
  <2>3. Done(f[3])
    BY <1>10, <1>12, <2>2
  <2>4. Done(f[4])
    BY <1>10, <1>12, <2>3
  <2>5. Done(f[5])
    BY <1>10, <1>12, <2>4
  <2>6. Done(f[6])
    BY <1>10, <1>12, <2>5
  <2> QED BY <1>3, <1>12, <2>6 DEF Done, L
<1> QED BY <1>1, <1>2, <1>11, <1>12, MarkRulesFields DEF L

-----------------------------------------------------------------------------
(* What holds as long as the connection has only met namespaces at rest.   *)

(* The hub of the connection's site, and the gateway by which the cloud    *)
(* application's packets went there.                                       *)
Home == PreferredHub[Branch]
FromHome(g) == g \in Gateways /\ GatewayRank(Home, g) = 1 /\ <<"transit", Home>> \in used[g]

(* The pin's path leads back to where the connection came from. *)
LeadsBack(n, i) ==
  /\ n \in Sites => <<"spokes", i[2]>> \in used[i[1]]
  /\ n \in Hubs /\ conn.src \in Sites => <<n, i[2]>> \in used[conn.src]
  /\ n \in Gateways => /\ <<i[2], n>> \in links
                       /\ conn.dst = "cloud" => used[i[2]] # {}
                       /\ conn.src = "cloud" => i[2] = Home

(* The namespaces that pin the connection, and those that translate its    *)
(* source address.                                                         *)
Pinners == Hubs \cup Gateways \cup ({conn.dst} \cap Sites)
Translated(n) == (conn.dst = "dc" /\ n \in Hubs) \/ (conn.dst = "cloud" /\ n \in Gateways)

(* A namespace that pins has no entry, or one of the requests with the pin *)
(* of a path that they crossed and that leads back.                        *)
CleanEntry(n) ==
  IF ct[n].orig = "none" THEN ct[n] = NoEntry
  ELSE /\ ct[n].orig = "fwd" /\ (Translated(n) => ct[n].nat = "bound")
       /\ \E i \in PathsOf(n) \cap used[n] : ct[n].mark = Stamp(n, i) /\ LeadsBack(n, i)

(* Where requests have passed there is an entry. *)
UsedInv == \A n \in Nodes : used[n] # {} => ct[n].orig # "none"

EntriesInv == \A n \in Pinners : CleanEntry(n)

(* The cloud application reaches a site by the first gateway of its hub. *)
HomeInv ==
  conn.src = "cloud" => /\ links = Hubs \X Gateways
                        /\ \A h \in Hubs : used[h] # {} => h = Home /\ \E g \in Gateways : FromHome(g)

(* The address the responder has seen is of a place the requests crossed. *)
SeenInv ==
  seen # Unknown =>
    /\ conn.dst \in Sites => used[conn.dst] # {}
    /\ conn.dst = "dc" => \E h \in Hubs : seen = <<"hub", h>> /\ used[h] # {}
    /\ conn.dst = "cloud" => \E g \in Gateways : seen = <<"gateway", g>> /\ used[g] # {}
    /\ conn.dst = "saas" /\ seen[1] = "inet" => seen \in used[conn.src]

(* Where a packet of the initiator is, and how it came there. *)
ForwardAtHub ==
  /\ conn.src \in Sites => pkt.iif[1] = "spokes" /\ <<pkt.at, pkt.iif[2]>> \in used[conn.src]
  /\ conn.src = "dc" => pkt.iif = Dc
  /\ conn.src = "cloud" => pkt.at = Home /\ \E g \in Gateways : FromHome(g) /\ pkt.iif = <<"transit", g>>

ForwardAtGateway ==
  \/ /\ conn.dst = "cloud"
     /\ \E h \in Hubs : pkt.iif = <<"transit", h>> /\ used[h] # {} /\ <<h, pkt.at>> \in links
  \/ conn.src = "cloud" /\ pkt.iif = Vpc /\ GatewayRank(Home, pkt.at) = 1

ForwardAtSite ==
  \/ pkt.at = conn.src /\ pkt.iif = Lan
  \/ /\ pkt.at = conn.dst /\ pkt.iif \in PathsOf(pkt.at)
     /\ <<"spokes", pkt.iif[2]>> \in used[pkt.iif[1]]

ForwardInv ==
  pkt.dir = "fwd" =>
    /\ pkt.at \in Hubs => ForwardAtHub
    /\ pkt.at \in Gateways => ForwardAtGateway
    /\ pkt.at \in Sites => ForwardAtSite

(* A packet of the responder. *)
ReturnInv ==
  pkt.dir = "rev" =>
    /\ used[pkt.at] # {}
    /\ pkt.iif \in PathsOf(pkt.at) \/ pkt.iif[1] = "inet" => pkt.iif \in used[pkt.at]
    /\ pkt.at \in Sites => (pkt.iif = Lan <=> pkt.at = conn.dst)
    /\ pkt.at \in Gateways => "cloud" \in {conn.src, conn.dst}

QueueInv == pkt.queued => pkt.dir = "fwd" /\ pkt.at = conn.src /\ used[conn.src] # {}

(* A connection to the public service. *)
DirectInv ==
  conn.dst = "saas" =>
    /\ seen # Own /\ ct[conn.src].nat \in {"open", "bound"} /\ OpenOrDirect(ct[conn.src].mark)
    /\ pkt.queued => Direct(pkt.mark)
    /\ pkt.dir = "rev" => pkt.at = conn.src /\ pkt.natted /\ pkt.iif[1] = "inet"

StateInv == UsedInv /\ EntriesInv /\ HomeInv /\ SeenInv
PacketInv == ForwardInv /\ ReturnInv /\ QueueInv

CleanInv == clean => StateInv /\ PacketInv /\ DirectInv

(* The ends of a connection under way. *)
LEMMA EndKinds ==
  ASSUME AffinityTypeOK
  PROVE  /\ Home \in Hubs /\ conn.src # "saas" /\ Unknown # Own
         /\ conn.src \in Sites => conn.src \in Nodes /\ conn.src \notin Pinners /\ conn.src # "dc" /\ conn.src # "cloud"
         /\ conn.dst \in Sites => conn.dst \in Nodes /\ conn.dst # "dc" /\ conn.dst # "cloud" /\ conn.dst # "saas"
         /\ Pinners \subseteq Nodes /\ \A s \in Sites : s \in Pinners <=> s = conn.dst
<1>1. /\ conn.src \in Sites \cup {"dc", "cloud"} /\ conn.dst \in Sites \cup {"dc", "cloud", "saas"}
      /\ conn.src # conn.dst /\ Home \in Hubs
  BY ConnectionEnds DEF Home
<1>2. \A s \in Sites : s # "dc" /\ s # "cloud" /\ s # "saas" /\ s \in Nodes /\ s \notin Hubs /\ s \notin Gateways
  BY NodeKinds
<1>3. Pinners \subseteq Nodes /\ \A s \in Sites : s \in Pinners <=> s = conn.dst
  BY <1>2, NodeKinds DEF Pinners
<1>4. Unknown # Own
  BY DEF Unknown, Own
<1> QED BY <1>1, <1>2, <1>3, <1>4

(* Interfaces that are no paths. *)
LEMMA NoPaths ==
  /\ \A n \in Nodes : Lan \notin PathsOf(n) /\ Dc \notin PathsOf(n) /\ Vpc \notin PathsOf(n)
  /\ \A n \in Nodes : \A t : <<"inet", t>> \notin PathsOf(n)
  /\ \A n \in Routers : \A g : <<"transit", g>> \notin PathsOf(n)
  /\ Lan[1] # "inet" /\ Dc[1] # "inet" /\ Vpc[1] # "inet" /\ Lan # Dc /\ Lan # Vpc
<1>1. ASSUME NEW n \in Nodes, NEW i \in PathsOf(n)
      PROVE  i[1] \in {"hub1", "hub2", "spokes", "transit"} /\ (n \in Routers => i[1] # "transit")
  <2>1. CASE n \in Sites
    BY <2>1, PathKinds DEF Hubs
  <2>2. CASE n \in Hubs
    BY <2>2, PathKinds
  <2>3. CASE n \in Gateways
    BY <2>3, PathKinds, NodeKinds
  <2> QED BY <2>1, <2>2, <2>3, NodeKinds
<1>2. Lan[1] = "lan" /\ Dc[1] = "dc" /\ Vpc[1] = "vpc"
  BY DEF Lan, Dc, Vpc
<1>3. \A n \in Nodes : Lan \notin PathsOf(n) /\ Dc \notin PathsOf(n) /\ Vpc \notin PathsOf(n)
  BY <1>1, <1>2
<1>4. ASSUME NEW n \in Nodes, NEW t PROVE <<"inet", t>> \notin PathsOf(n)
  <2>1. <<"inet", t>>[1] = "inet"
    OBVIOUS
  <2> QED BY <1>1, <2>1
<1>5. ASSUME NEW n \in Routers, NEW g PROVE <<"transit", g>> \notin PathsOf(n)
  <2>1. <<"transit", g>>[1] = "transit" /\ n \in Nodes
    BY DEF Nodes
  <2> QED BY <1>1, <2>1
<1> QED BY <1>2, <1>3, <1>4, <1>5

(* The mark of such an entry. *)
LEMMA CleanMark ==
  ASSUME NEW n, CleanEntry(n)
  PROVE  PinOrNone(n, ct[n].mark) /\ (ct[n].orig = "none" => ct[n].est = FALSE /\ ct[n].nat = "open" /\ ct[n].mark = {})
BY DEF CleanEntry, PinOrNone, NoEntry

(* The history only grows, so a path that leads back still does. *)
LEMMA LeadsGrow ==
  ASSUME AffinityTypeOK, conn' = conn, links' = links, \A x \in Nodes : used[x] \subseteq used'[x],
         NEW n \in Nodes, NEW i \in PathsOf(n), LeadsBack(n, i)
  PROVE  LeadsBack(n, i)'
<1>1. Branch' = Branch /\ Home' = Home
  BY DEF Home, Branch
<1>2. n \in Sites => <<"spokes", i[2]>> \in used'[i[1]]
  <2>1. n \in Sites => i[1] \in Nodes
    BY PathKinds, NodeKinds
  <2> QED BY <2>1 DEF LeadsBack
<1>3. n \in Hubs /\ conn.src \in Sites => <<n, i[2]>> \in used'[conn.src]
  <2>1. conn.src \in Sites => conn.src \in Nodes
    BY NodeKinds
  <2> QED BY <2>1 DEF LeadsBack
<1>4. n \in Gateways => /\ <<i[2], n>> \in links
                        /\ conn.dst = "cloud" => used'[i[2]] # {}
                        /\ conn.src = "cloud" => i[2] = Home
  <2>1. n \in Gateways => i[2] \in Nodes
    BY PathKinds, NodeKinds
  <2> QED BY <2>1 DEF LeadsBack
<1> QED BY <1>1, <1>2, <1>3, <1>4 DEF LeadsBack, Gateways

(* What the passage of a packet cannot disturb: the history only grows.    *)
LEMMA Grows ==
  ASSUME AffinityTypeOK, conn' = conn, links' = links, NEW n \in Nodes, NEW dir, NEW crossed, NEW c,
         Passed(n, dir, crossed, c), c.orig # "none", StateInv
  PROVE  /\ \A x \in Nodes : used[x] \subseteq used'[x]
         /\ UsedInv'
         /\ \A x \in Pinners \ {n} : CleanEntry(x)'
         /\ seen' = seen => SeenInv'
         /\ n \notin Hubs \/ dir # "fwd" => HomeInv'
<1>1. \A x \in Nodes : used[x] \subseteq used'[x]
  BY DEF Passed
<1>2. /\ ct'[n] = c /\ \A x \in Nodes \ {n} : ct'[x] = ct[x] /\ used'[x] = used[x]
  BY DEF Passed
<1>3. UsedInv'
  BY <1>2 DEF UsedInv, StateInv, Nodes, Routers, Gateways
<1>4. Branch' = Branch /\ Home' = Home /\ Hubs \subseteq Nodes /\ Gateways \subseteq Nodes
  BY NodeKinds DEF Home, Branch
<1>5. ASSUME NEW x \in Pinners \ {n}, NEW i \in PathsOf(x), LeadsBack(x, i) PROVE LeadsBack(x, i)'
  <2>1. x \in Nodes
    BY EndKinds
  <2> QED BY <1>1, <1>5, <2>1, LeadsGrow
<1>6. ASSUME NEW x \in Pinners \ {n} PROVE CleanEntry(x)'
  <2>1. x \in Nodes /\ ct'[x] = ct[x] /\ used'[x] = used[x] /\ CleanEntry(x)
    BY <1>2, EndKinds DEF StateInv, EntriesInv
  <2>2. CASE ct[x].orig = "none"
    BY <2>1, <2>2 DEF CleanEntry, NoEntry
  <2>3. CASE ct[x].orig # "none"
    <3>1. PICK i \in PathsOf(x) \cap used[x] : ct[x].mark = Stamp(x, i) /\ LeadsBack(x, i)
      BY <2>1, <2>3 DEF CleanEntry
    <3>2. LeadsBack(x, i)'
      BY <1>5, <3>1
    <3>3. ct'[x].orig = "fwd" /\ (Translated(x)' => ct'[x].nat = "bound")
      BY <2>1, <2>3 DEF CleanEntry, Translated, Gateways
    <3> QED BY <2>1, <3>1, <3>2, <3>3 DEF CleanEntry, PathsOf, Stamp, Affinity
  <2> QED BY <2>2, <2>3
<1>7. ASSUME seen' = seen PROVE SeenInv'
  <2>1. conn.dst \in Sites => conn.dst \in Nodes
    BY NodeKinds
  <2>2. conn.dst = "saas" => conn.src \in Nodes
    BY ConnectionEnds, NodeKinds
  <2> QED BY <1>1, <1>4, <1>7, <2>1, <2>2 DEF SeenInv, StateInv, Gateways, Unknown
<1>8. \A g \in Gateways : FromHome(g) => FromHome(g)'
  BY <1>1, <1>4 DEF FromHome, GatewayRank, Gateways
<1>9. ASSUME n \notin Hubs \/ dir # "fwd" PROVE HomeInv'
  <2>1. \A h \in Hubs : used'[h] = used[h]
    BY <1>2, <1>4, <1>9 DEF Passed
  <2> QED BY <1>4, <1>8, <2>1 DEF HomeInv, StateInv, Gateways
<1> QED BY <1>1, <1>3, <1>6, <1>7, <1>9

-----------------------------------------------------------------------------
(* A step that leaves the packet, or drops it. *)
LEMMA PacketStays ==
  ASSUME AffinityTypeOK, conn' = conn, used' = used, links' = links, pkt' = pkt, PacketInv
  PROVE  PacketInv'
<1>1. Branch' = Branch /\ Home' = Home
  BY DEF Home, Branch
<1>2. \A g \in Gateways : FromHome(g)' <=> FromHome(g)
  BY <1>1 DEF FromHome, GatewayRank, Gateways
<1>3. ForwardAtHub => ForwardAtHub'
  BY <1>1, <1>2 DEF ForwardAtHub, Gateways, Dc
<1>4. ForwardAtGateway => ForwardAtGateway'
  BY <1>1 DEF ForwardAtGateway, GatewayRank, Vpc
<1>5. ForwardAtSite => ForwardAtSite'
  BY DEF ForwardAtSite, PathsOf, Lan
<1>6. ForwardInv'
  BY <1>3, <1>4, <1>5 DEF PacketInv, ForwardInv, Gateways
<1>7. ReturnInv'
  BY DEF PacketInv, ReturnInv, PathsOf, Lan, Gateways
<1>8. QueueInv'
  BY DEF PacketInv, QueueInv
<1> QED BY <1>6, <1>7, <1>8 DEF PacketInv

(* Nothing is claimed of a packet that is not there. *)
LEMMA PacketGone ==
  ASSUME pkt' = NoPacket
  PROVE  /\ PacketInv' /\ ~pkt'.queued /\ pkt'.dir # "rev"
<1>1. pkt'.dir = "none" /\ pkt'.queued = FALSE
  BY DEF NoPacket
<1> QED BY <1>1 DEF PacketInv, ForwardInv, ReturnInv, QueueInv

(* A step that changes neither entries, history, addresses nor links. *)
LEMMA StateStays ==
  ASSUME AffinityTypeOK, conn' = conn, used' = used, links' = links, seen' = seen, ct' = ct, StateInv
  PROVE  StateInv'
<1>1. Branch' = Branch /\ Home' = Home /\ Pinners' = Pinners
  BY DEF Home, Branch, Pinners, Gateways
<1>2. \A g \in Gateways : FromHome(g)' <=> FromHome(g)
  BY <1>1 DEF FromHome, GatewayRank, Gateways
<1>3. UsedInv'
  BY DEF StateInv, UsedInv, Nodes, Routers, Gateways
<1>4. ASSUME NEW n \in Pinners PROVE CleanEntry(n)'
  <2>1. CleanEntry(n)
    BY DEF StateInv, EntriesInv
  <2>2. \A i \in PathsOf(n) : LeadsBack(n, i) => LeadsBack(n, i)'
    BY <1>1 DEF LeadsBack, Gateways
  <2> QED BY <2>1, <2>2 DEF CleanEntry, Translated, NoEntry, PathsOf, Stamp, Affinity, Gateways
<1>5. EntriesInv'
  BY <1>1, <1>4 DEF EntriesInv
<1>6. HomeInv'
  BY <1>1, <1>2 DEF StateInv, HomeInv, Gateways
<1>7. SeenInv'
  BY DEF StateInv, SeenInv, Gateways, Unknown
<1> QED BY <1>3, <1>5, <1>6, <1>7 DEF StateInv

(* A step that changes no entry and sends no packet. *)
LEMMA QuietClean ==
  ASSUME AffinityTypeOK, CleanInv, conn' = conn, used' = used, links' = links, seen' = seen, ct' = ct,
         pkt' = pkt \/ pkt' = NoPacket, clean' => clean
  PROVE  CleanInv'
<1> SUFFICES ASSUME clean' PROVE StateInv' /\ PacketInv' /\ DirectInv'
  BY DEF CleanInv
<1>1. StateInv /\ PacketInv /\ DirectInv
  BY DEF CleanInv
<1>2. StateInv'
  BY <1>1, StateStays
<1>3. PacketInv'
  BY <1>1, PacketStays, PacketGone
<1>4. DirectInv'
  <2>1. CASE pkt' = pkt
    BY <1>1, <2>1 DEF DirectInv, OpenOrDirect, Direct, Own
  <2>2. CASE pkt' = NoPacket
    BY <1>1, <2>2, PacketGone DEF DirectInv, OpenOrDirect, Direct, Own
  <2> QED BY <2>1, <2>2
<1> QED BY <1>2, <1>3, <1>4

(* Steering moves the entry of the initiator's site, which pins nothing of *)
(* the replies.                                                            *)
LEMMA SteerClean ==
  ASSUME AffinityTypeOK, CleanInv, NEW s \in Sites, Steer(s)
  PROVE  CleanInv'
<1>1. UNCHANGED <<conn, built, fresh, marking, record, pkt, seen, links, used, clean>>
  BY DEF Steer
<1>2. CASE ct' = ct
  BY <1>1, <1>2, QuietClean
<1>3. ASSUME NEW m \in Choices, s = conn.src, ct' = [ct EXCEPT ![s].mark = (@ \ affinity_mask) \cup m] PROVE CleanInv'
  <2> SUFFICES ASSUME clean PROVE StateInv' /\ PacketInv' /\ DirectInv'
    BY <1>1 DEF CleanInv
  <2>1. StateInv /\ PacketInv /\ DirectInv
    BY DEF CleanInv
  <2>2. /\ ct \in [Nodes -> Entries] /\ s \in Nodes /\ s \notin Pinners
    BY <1>3, EndKinds, NodeKinds DEF AffinityTypeOK
  <2>3. /\ \A n \in Nodes \ {s} : ct'[n] = ct[n]
        /\ ct'[s].orig = ct[s].orig /\ ct'[s].nat = ct[s].nat /\ ct'[s].mark = (ct[s].mark \ affinity_mask) \cup m
    <3>1. ct[s] \in Entries /\ ct'[s] = [ct[s] EXCEPT !.mark = (ct[s].mark \ affinity_mask) \cup m]
      BY <1>3, <2>2
    <3>2. /\ ct'[s].orig = ct[s].orig /\ ct'[s].nat = ct[s].nat /\ ct'[s].mark = (ct[s].mark \ affinity_mask) \cup m
      BY <3>1 DEF Entries
    <3> QED BY <1>3, <2>2, <3>2
  <2>4. Branch' = Branch /\ Home' = Home /\ Pinners' = Pinners
    BY <1>1 DEF Home, Branch, Pinners, Gateways
  <2>5. UsedInv'
    BY <1>1, <2>1, <2>2, <2>3 DEF StateInv, UsedInv, Nodes, Routers, Gateways
  <2>6. ASSUME NEW n \in Pinners PROVE CleanEntry(n)'
    <3>1. CleanEntry(n) /\ ct'[n] = ct[n]
      BY <2>1, <2>2, <2>3, EndKinds DEF StateInv, EntriesInv
    <3>2. \A i \in PathsOf(n) : LeadsBack(n, i) => LeadsBack(n, i)'
      BY <1>1, <2>4 DEF LeadsBack, Gateways
    <3> QED BY <1>1, <3>1, <3>2 DEF CleanEntry, Translated, NoEntry, PathsOf, Stamp, Affinity, Gateways
  <2>7. HomeInv' /\ SeenInv'
    <3>1. \A g \in Gateways : FromHome(g)' <=> FromHome(g)
      BY <1>1, <2>4 DEF FromHome, GatewayRank, Gateways
    <3>2. HomeInv'
      BY <1>1, <2>1, <2>4, <3>1 DEF StateInv, HomeInv, Gateways
    <3>3. SeenInv'
      BY <1>1, <2>1 DEF StateInv, SeenInv, Gateways, Unknown
    <3> QED BY <3>2, <3>3
  <2>8. PacketInv'
    BY <1>1, <2>1, PacketStays
  <2>9. DirectInv'
    <3> SUFFICES ASSUME conn.dst = "saas"
                 PROVE  /\ seen # Own /\ ct'[s].nat \in {"open", "bound"} /\ OpenOrDirect(ct'[s].mark)
                        /\ pkt.queued => Direct(pkt.mark)
                        /\ pkt.dir = "rev" => pkt.at = s /\ pkt.natted /\ pkt.iif[1] = "inet"
      BY <1>1, <1>3 DEF DirectInv, OpenOrDirect, Direct, Own
    <3>1. Direct(m)
      BY ChoiceFacts, DirectFacts DEF AffinityTypeOK
    <3>2. Direct((ct[s].mark \ affinity_mask) \cup m)
      BY <3>1, DirectFacts
    <3>3. OpenOrDirect(ct'[s].mark)
      BY <2>3, <3>2 DEF OpenOrDirect
    <3> QED BY <1>3, <2>1, <2>3, <3>3 DEF DirectInv
  <2> QED BY <2>4, <2>5, <2>6, <2>7, <2>8, <2>9 DEF StateInv, EntriesInv
<1> QED BY <1>2, <1>3, SteerFacts

(* A restart only leaves the connection undisturbed where it has not been. *)
LEMMA RestartClean ==
  ASSUME AffinityTypeOK, CleanInv, NEW n \in Ends \cup Hubs, Restart(n)
  PROVE  CleanInv'
<1> SUFFICES ASSUME clean' PROVE StateInv' /\ PacketInv' /\ DirectInv'
  BY DEF CleanInv
<1>1. /\ UNCHANGED <<conn, seen, links, used>> /\ clean /\ ct[n].orig = "none"
      /\ pkt' = (IF pkt.at = n THEN NoPacket ELSE pkt)
  BY DEF Restart
<1>2. StateInv /\ PacketInv /\ DirectInv
  BY <1>1 DEF CleanInv
<1>3. n \in Nodes /\ ct'[n] = NoEntry /\ \A x \in Nodes \ {n} : ct'[x] = ct[x]
  BY ConnectionEnds, NodeKinds, RestartType
<1>4. Branch' = Branch /\ Home' = Home /\ Pinners' = Pinners
  BY <1>1 DEF Home, Branch, Pinners, Gateways
<1>5. UsedInv'
  <2>1. used[n] = {}
    BY <1>1, <1>2, <1>3 DEF StateInv, UsedInv
  <2> QED BY <1>1, <1>2, <1>3, <2>1 DEF StateInv, UsedInv, Nodes, Routers, Gateways
<1>6. ASSUME NEW x \in Pinners PROVE CleanEntry(x)'
  <2>1. x \in Nodes /\ CleanEntry(x)
    BY <1>2, EndKinds DEF StateInv, EntriesInv
  <2>2. CASE x = n
    BY <1>3, <2>2 DEF CleanEntry, NoEntry
  <2>3. CASE x # n
    <3>1. ct'[x] = ct[x]
      BY <1>3, <2>1, <2>3
    <3>2. \A i \in PathsOf(x) : LeadsBack(x, i) => LeadsBack(x, i)'
      BY <1>1, <1>4 DEF LeadsBack, Gateways
    <3> QED BY <1>1, <2>1, <3>1, <3>2 DEF CleanEntry, Translated, NoEntry, PathsOf, Stamp, Affinity, Gateways
  <2> QED BY <2>2, <2>3
<1>7. HomeInv' /\ SeenInv'
  <2>1. \A g \in Gateways : FromHome(g)' <=> FromHome(g)
    BY <1>1, <1>4 DEF FromHome, GatewayRank, Gateways
  <2>2. HomeInv'
    BY <1>1, <1>2, <1>4, <2>1 DEF StateInv, HomeInv, Gateways
  <2>3. SeenInv'
    BY <1>1, <1>2 DEF StateInv, SeenInv, Gateways, Unknown
  <2> QED BY <2>2, <2>3
<1>8. PacketInv'
  BY <1>1, <1>2, PacketStays, PacketGone
<1>9. DirectInv'
  <2> SUFFICES ASSUME conn.dst = "saas"
               PROVE  /\ seen # Own /\ ct'[conn.src].nat \in {"open", "bound"} /\ OpenOrDirect(ct'[conn.src].mark)
                      /\ pkt'.queued => Direct(pkt'.mark)
                      /\ pkt'.dir = "rev" => pkt'.at = conn.src /\ pkt'.natted /\ pkt'.iif[1] = "inet"
    BY <1>1 DEF DirectInv, OpenOrDirect, Direct, Own
  <2>1. conn.src \in Nodes
    BY ConnectionEnds, NodeKinds
  <2>2. NoEntry.nat = "open" /\ OpenOrDirect(NoEntry.mark)
    BY DirectFacts DEF NoEntry
  <2>3. ct'[conn.src].nat \in {"open", "bound"} /\ OpenOrDirect(ct'[conn.src].mark)
    BY <1>2, <1>3, <2>1, <2>2 DEF DirectInv
  <2>4. CASE pkt' = pkt
    BY <1>2, <2>3, <2>4 DEF DirectInv
  <2>5. CASE pkt' = NoPacket
    BY <1>2, <2>3, <2>5, PacketGone DEF DirectInv
  <2> QED BY <1>1, <2>4, <2>5
<1> QED BY <1>4, <1>5, <1>6, <1>7, <1>8, <1>9 DEF StateInv, EntriesInv

(* A failed link leaves the connection undisturbed where it does not use   *)
(* the gateway.                                                            *)
LEMMA LinkDownClean ==
  ASSUME AffinityTypeOK, CleanInv, NEW h \in Hubs, NEW g \in Gateways, LinkDown(h, g)
  PROVE  CleanInv'
<1> SUFFICES ASSUME clean' PROVE StateInv' /\ PacketInv' /\ DirectInv'
  BY DEF CleanInv
<1>1. /\ UNCHANGED <<conn, ct, seen, used>> /\ clean /\ ct[g].orig = "none" /\ conn.src # "cloud"
      /\ links' = links \ {<<h, g>>}
      /\ pkt' = IF <<pkt.at, pkt.iif>> \in {<<g, <<"transit", h>>>>, <<h, <<"transit", g>>>>} THEN NoPacket ELSE pkt
      /\ "cloud" \in {conn.src, conn.dst}
  BY DEF LinkDown
<1>2. StateInv /\ PacketInv /\ DirectInv
  BY <1>1 DEF CleanInv
<1>3. Branch' = Branch /\ Home' = Home /\ Pinners' = Pinners
  BY <1>1 DEF Home, Branch, Pinners, Gateways
<1>4. UsedInv'
  BY <1>1, <1>2 DEF StateInv, UsedInv, Nodes, Routers, Gateways
<1>5. ASSUME NEW x \in Pinners PROVE CleanEntry(x)'
  <2>1. x \in Nodes /\ CleanEntry(x) /\ ct'[x] = ct[x]
    BY <1>1, <1>2, EndKinds DEF StateInv, EntriesInv
  <2>2. CASE ct[x].orig = "none"
    BY <2>1, <2>2 DEF CleanEntry, NoEntry
  <2>3. CASE ct[x].orig # "none"
    <3>1. x # g
      BY <1>1, <2>3
    <3>2. \A i : <<i[2], x>> \in links => <<i[2], x>> \in links'
      BY <1>1, <3>1
    <3>3. \A i \in PathsOf(x) : LeadsBack(x, i) => LeadsBack(x, i)'
      BY <1>1, <1>3, <3>2 DEF LeadsBack, Gateways
    <3> QED BY <1>1, <2>1, <2>3, <3>3 DEF CleanEntry, Translated, PathsOf, Stamp, Affinity, Gateways
  <2> QED BY <2>2, <2>3
<1>6. HomeInv' /\ SeenInv'
  BY <1>1, <1>2 DEF StateInv, HomeInv, SeenInv, Gateways, Unknown
<1>7. PacketInv'
  <2>1. CASE pkt' = NoPacket
    BY <2>1, PacketGone
  <2>2. CASE pkt' = pkt /\ (pkt.iif = <<"transit", h>> => pkt.at # g)
    <3>1. ASSUME ForwardAtHub PROVE ForwardAtHub'
      BY <1>1, <2>2, <3>1 DEF ForwardAtHub, Dc
    <3>2. ASSUME ForwardAtGateway PROVE ForwardAtGateway'
      BY <1>1, <2>2, <3>2 DEF ForwardAtGateway
    <3>3. ASSUME ForwardAtSite PROVE ForwardAtSite'
      BY <1>1, <2>2, <3>3 DEF ForwardAtSite, PathsOf, Lan
    <3>4. ForwardInv'
      BY <1>2, <2>2, <3>1, <3>2, <3>3 DEF PacketInv, ForwardInv, Gateways
    <3>5. ReturnInv' /\ QueueInv'
      BY <1>1, <1>2, <2>2 DEF PacketInv, ReturnInv, QueueInv, PathsOf, Lan, Gateways
    <3> QED BY <3>4, <3>5 DEF PacketInv
  <2> QED BY <1>1, <2>1, <2>2
<1>8. DirectInv'
  BY <1>1, EndKinds DEF DirectInv
<1> QED BY <1>3, <1>4, <1>5, <1>6, <1>7, <1>8 DEF StateInv, EntriesInv

-----------------------------------------------------------------------------
(* The fields of a packet that has arrived. *)
LEMMA ArriveFields ==
  ASSUME NEW n, NEW i, NEW dir, NEW natted, pkt' = Arrive(n, i, dir, natted)
  PROVE  /\ pkt'.at = n /\ pkt'.dir = dir /\ pkt'.iif = i /\ pkt'.queued = FALSE /\ pkt'.natted = natted
         /\ pkt'.mark = {} /\ QueueInv'
BY DEF Arrive, QueueInv

(* A packet of the initiator arrives somewhere. *)
LEMMA ForwardArrives ==
  ASSUME NEW n, NEW i, NEW natted, pkt' = Arrive(n, i, "fwd", natted),
         n \in Hubs => ForwardAtHub', n \in Gateways => ForwardAtGateway', n \in Sites => ForwardAtSite'
  PROVE  PacketInv' /\ ~pkt'.queued /\ pkt'.dir # "rev"
<1>1. pkt'.at = n /\ pkt'.dir = "fwd" /\ pkt'.queued = FALSE /\ QueueInv'
  BY ArriveFields
<1>2. ForwardInv'
  BY <1>1 DEF ForwardInv, Gateways
<1>3. ReturnInv'
  BY <1>1 DEF ReturnInv
<1> QED BY <1>1, <1>2, <1>3 DEF PacketInv

(* A packet of the responder arrives somewhere. *)
LEMMA ReturnArrives ==
  ASSUME NEW n, NEW i, NEW natted, pkt' = Arrive(n, i, "rev", natted), conn' = conn,
         used'[n] # {}, i \in PathsOf(n) \/ i[1] = "inet" => i \in used'[n],
         n \in Sites => (i = Lan <=> n = conn.dst),
         n \in Gateways => "cloud" \in {conn.src, conn.dst}
  PROVE  PacketInv' /\ ~pkt'.queued
<1>1. pkt'.at = n /\ pkt'.dir = "rev" /\ pkt'.iif = i /\ pkt'.queued = FALSE /\ QueueInv'
  BY ArriveFields
<1>2. ForwardInv'
  BY <1>1 DEF ForwardInv
<1>3. ReturnInv'
  BY <1>1 DEF ReturnInv, PathsOf, Lan, Gateways
<1> QED BY <1>1, <1>2, <1>3 DEF PacketInv

(* An end sends a packet. *)
LEMMA SendClean ==
  ASSUME AffinityTypeOK, CleanInv, Send
  PROVE  CleanInv'
<1> SUFFICES ASSUME clean' PROVE StateInv' /\ PacketInv' /\ DirectInv'
  BY DEF CleanInv
<1>1. UNCHANGED <<conn, ct, tables, record, seen, links, used, clean>>
  BY DEF Send
<1>2. StateInv /\ PacketInv /\ DirectInv /\ clean
  BY <1>1 DEF CleanInv
<1>3. StateInv'
  BY <1>1, <1>2, StateStays
<1>4. Home' = Home /\ Own[1] = "own"
  BY <1>1 DEF Home, Branch, Own
<1>5. conn.src \in Sites \cup {"dc", "cloud"} /\ conn.dst \in Sites \cup {"dc", "cloud", "saas"} /\ conn.src # conn.dst
  BY ConnectionEnds
<1>6. CASE pkt' \in EntryPoint(conn.src, "fwd", Own)
  <2>1. CASE conn.src \in Sites
    <3>1. pkt' = Arrive(conn.src, Lan, "fwd", FALSE)
      BY <1>6, <2>1, EndKinds, NodeKinds DEF EntryPoint
    <3>2. pkt'.at = conn.src /\ pkt'.iif = Lan
      BY <3>1, ArriveFields
    <3>3. ForwardAtSite'
      BY <1>1, <3>2 DEF ForwardAtSite, Lan
    <3>4. conn.src \notin Hubs /\ conn.src \notin Gateways
      BY <2>1, NodeKinds
    <3>5. PacketInv' /\ ~pkt'.queued /\ pkt'.dir # "rev"
      BY <3>1, <3>3, <3>4, ForwardArrives
    <3>6. DirectInv'
      BY <1>1, <1>2, <3>5 DEF DirectInv, OpenOrDirect, Direct, Own
    <3> QED BY <1>3, <3>5, <3>6
  <2>2. CASE conn.src = "dc"
    <3>1. pkt' = Arrive(Home, Dc, "fwd", Own[1] = "hub")
      BY <1>4, <1>6, <2>2, NodeKinds DEF EntryPoint, Home, Nodes, Routers
    <3>2. pkt'.at = Home /\ pkt'.iif = Dc
      BY <3>1, ArriveFields
    <3>3. ForwardAtHub'
      BY <1>1, <2>2, <3>2, NodeKinds DEF ForwardAtHub, Dc, Nodes, Routers
    <3>4. Home \in Hubs /\ Home \notin Gateways /\ Home \notin Sites
      BY EndKinds, NodeKinds
    <3>5. PacketInv'
      BY <3>1, <3>3, <3>4, ForwardArrives
    <3>6. DirectInv'
      BY <1>1, <2>2, ConnectionEnds, EndKinds DEF DirectInv
    <3> QED BY <1>3, <3>5, <3>6
  <2>3. CASE conn.src = "cloud"
    <3>1. PICK g \in Gateways : GatewayRank(Home, g) = 1 /\ pkt' = Arrive(g, Vpc, "fwd", Own[1] = "gateway")
      BY <1>4, <1>6, <2>3, NodeKinds DEF EntryPoint, Home, Nodes, Routers
    <3>2. pkt'.at = g /\ pkt'.iif = Vpc
      BY <3>1, ArriveFields
    <3>3. ForwardAtGateway'
      BY <1>1, <1>4, <2>3, <3>1, <3>2 DEF ForwardAtGateway, Vpc, GatewayRank
    <3>4. g \notin Hubs /\ g \notin Sites
      BY NodeKinds
    <3>5. PacketInv'
      BY <3>1, <3>3, <3>4, ForwardArrives
    <3>6. DirectInv'
      BY <1>1, <2>3, ConnectionEnds, EndKinds DEF DirectInv
    <3> QED BY <1>3, <3>5, <3>6
  <2> QED BY <1>5, <2>1, <2>2, <2>3
<1>7. CASE seen # Unknown /\ pkt' \in EntryPoint(conn.dst, "rev", seen)
  <2>1. CASE conn.dst \in Sites
    <3>1. pkt' = Arrive(conn.dst, Lan, "rev", FALSE)
      BY <1>7, <2>1, EndKinds, NodeKinds DEF EntryPoint
    <3>2. used'[conn.dst] # {}
      BY <1>1, <1>2, <1>7, <2>1 DEF StateInv, SeenInv
    <3>3. Lan \notin PathsOf(conn.dst) /\ Lan[1] # "inet" /\ conn.dst \notin Gateways
      BY <2>1, NoPaths, NodeKinds
    <3>4. PacketInv'
      BY <1>1, <3>1, <3>2, <3>3, ReturnArrives
    <3>5. DirectInv'
      BY <1>1, <2>1, EndKinds DEF DirectInv
    <3> QED BY <1>3, <3>4, <3>5
  <2>2. CASE conn.dst = "dc"
    <3>1. PICK h \in Hubs : seen = <<"hub", h>> /\ used[h] # {}
      BY <1>2, <1>7, <2>2 DEF StateInv, SeenInv
    <3>2. seen[1] = "hub" /\ seen[2] = h
      BY <3>1
    <3>3. pkt' = Arrive(h, Dc, "rev", seen[1] = "hub")
      BY <1>7, <2>2, <3>2, NodeKinds DEF EntryPoint, Nodes, Routers
    <3>4. Dc \notin PathsOf(h) /\ Dc[1] # "inet" /\ h \notin Gateways /\ h \notin Sites
      BY NoPaths, NodeKinds
    <3>5. PacketInv'
      BY <1>1, <3>1, <3>3, <3>4, ReturnArrives
    <3>6. DirectInv'
      BY <1>1, <2>2 DEF DirectInv
    <3> QED BY <1>3, <3>5, <3>6
  <2>3. CASE conn.dst = "cloud"
    <3>1. PICK g \in Gateways : seen = <<"gateway", g>> /\ used[g] # {}
      BY <1>2, <1>7, <2>3 DEF StateInv, SeenInv
    <3>2. seen[1] = "gateway" /\ seen[2] = g
      BY <3>1
    <3>3. pkt' = Arrive(g, Vpc, "rev", seen[1] = "gateway")
      BY <1>7, <2>3, <3>2, NodeKinds DEF EntryPoint, Nodes, Routers
    <3>4. Vpc \notin PathsOf(g) /\ Vpc[1] # "inet" /\ g \notin Sites
      BY NoPaths, NodeKinds
    <3>5. PacketInv'
      BY <1>1, <2>3, <3>1, <3>3, <3>4, ReturnArrives
    <3>6. DirectInv'
      BY <1>1, <2>3 DEF DirectInv
    <3> QED BY <1>3, <3>5, <3>6
  <2>4. CASE conn.dst = "saas"
    <3>1. Branch = conn.src /\ conn.src \in Sites
      BY <2>4, ConnectionEnds, NodeKinds
    <3>2. seen[1] = "inet" /\ pkt' = Arrive(conn.src, seen, "rev", TRUE)
      BY <1>7, <2>4, <3>1, NodeKinds DEF EntryPoint, Nodes, Routers
    <3>3. seen \in used[conn.src]
      BY <1>2, <1>7, <2>4, <3>2 DEF StateInv, SeenInv
    <3>4. seen # Lan /\ conn.src \notin Gateways
      BY <3>1, <3>2, NoPaths, NodeKinds
    <3>5. PacketInv' /\ ~pkt'.queued
      BY <1>1, <1>5, <3>1, <3>2, <3>3, <3>4, ReturnArrives
    <3>6. pkt'.at = conn.src /\ pkt'.natted = TRUE /\ pkt'.iif = seen
      BY <3>2, ArriveFields
    <3>7. DirectInv'
      BY <1>1, <1>2, <2>4, <3>2, <3>5, <3>6 DEF DirectInv, OpenOrDirect, Direct, Own
    <3> QED BY <1>3, <3>5, <3>7
  <2> QED BY <1>5, <2>1, <2>2, <2>3, <2>4
<1> QED BY <1>6, <1>7 DEF Send

-----------------------------------------------------------------------------
(* The fields of the entry that a packet leaves behind on a site. *)
LeftOver(s, o, m, c, left) ==
  /\ left.orig = c.orig /\ left.est = c.est
  /\ c.nat = "bound" => left.nat = "bound"
  /\ (c.nat = "open" /\ o[1] = "inet" /\ egress_mode(m) = "DIRECT_INTERNET") => left.nat = "bound"
  /\ c.est => left.mark = c.mark
  /\ o \notin PathsOf(s) => left.mark = c.mark

(* The entry of a packet that leaves a site: its pin, its directions and   *)
(* whether it is masqueraded.                                              *)
LEMMA LeftFields ==
  ASSUME NEW s \in Nodes, NEW o \in Interfaces, NEW m \in SUBSET Bits, NEW c \in Entries
  PROVE  LeftOver(s, o, m, c, LeftEntry(s, o, m, c))
<1> DEFINE match == o[1] = "inet" /\ egress_mode(m) = "DIRECT_INTERNET"
           b == Bind(c, match)
           e == EntryOut(s, o, m, b)
<1>1. match \in BOOLEAN
  OBVIOUS
<1>2. /\ b \in Entries /\ b.mark = c.mark /\ b.orig = c.orig /\ b.est = c.est
      /\ b.nat = (IF c.nat = "open" THEN IF match THEN "bound" ELSE "none" ELSE c.nat)
  <2> HIDE DEF match
  <2> QED BY <1>1, BindFields
<1> HIDE DEF b
<1>3. e = b \/ (o \in PathsOf(s) /\ ~b.est /\ \E x : e = [b EXCEPT !.mark = x])
  BY DEF EntryOut
<1>4. /\ e.orig = b.orig /\ e.est = b.est /\ e.nat = b.nat
      /\ b.est \/ o \notin PathsOf(s) => e.mark = b.mark
  <2> HIDE DEF e
  <2>1. CASE e = b
    BY <2>1
  <2>2. CASE o \in PathsOf(s) /\ ~b.est /\ \E x : e = [b EXCEPT !.mark = x]
    BY <1>2, <2>2 DEF Entries
  <2> QED BY <1>3, <2>1, <2>2
<1>5. LeftEntry(s, o, m, c) = e
  BY DEF LeftEntry, b
<1> HIDE DEF e
<1>6. LeftOver(s, o, m, c, e)
  BY <1>2, <1>4 DEF LeftOver
<1> QED BY <1>5, <1>6

(* What a packet leaves behind on a site, and where it goes. *)
LeavesBy(s, m, c, o, left) ==
  /\ Passed(s, pkt.dir, {pkt.iif, o}, left)
  /\ LeftOver(s, o, m, c, left)
  /\ o[1] = "inet" <=> Target(pkt.dir) = "saas"
  /\ o[1] = "inet" => /\ o \in {"inet"} \X Transports /\ pkt' = NoPacket
                      /\ seen' = IF pkt.dir # "fwd" THEN seen ELSE IF left.nat = "bound" THEN o ELSE Own
  /\ o[1] # "inet" => /\ o \in Hubs \X Transports /\ seen' = seen
                      /\ pkt' = Arrive(o[1], <<"spokes", o[2]>>, pkt.dir, FALSE)

(* A packet that leaves a site does so by one of the routes of its mark. *)
LEMMA Leaves ==
  ASSUME AffinityTypeOK, NEW s \in Sites, pkt.at = s, NEW m \in SUBSET Bits, NEW c \in Entries, Leave(s, m, c),
         record' \in [Sites -> [up : BOOLEAN, path : SUBSET route_mask]], UNCHANGED <<conn, tables, links, count>>
  PROVE  \E o \in SiteRoutes(s, m, Target(pkt.dir)), left \in Entries : LeavesBy(s, m, c, o, left)
<1>1. PICK o \in SiteRoutes(s, m, Target(pkt.dir)) :
        /\ LeftEntry(s, o, m, c) \in Entries /\ o \in Interfaces
        /\ Passed(s, pkt.dir, {pkt.iif, o}, LeftEntry(s, o, m, c))
        /\ o[1] = "inet" <=> Target(pkt.dir) = "saas"
        /\ o[1] = "inet" =>
             /\ o \in {"inet"} \X Transports /\ pkt' = NoPacket
             /\ seen' = IF pkt.dir # "fwd" THEN seen
                        ELSE IF LeftEntry(s, o, m, c).nat = "bound" THEN o ELSE Own
        /\ o[1] # "inet" => /\ o \in Hubs \X Transports /\ seen' = seen
                            /\ pkt' = Arrive(o[1], <<"spokes", o[2]>>, pkt.dir, FALSE)
  BY LeaveFacts
<1>2. s \in Nodes /\ o \in Interfaces
  BY <1>1, NodeKinds
<1>3. LeftOver(s, o, m, c, LeftEntry(s, o, m, c))
  BY <1>2, LeftFields
<1>4. LeavesBy(s, m, c, o, LeftEntry(s, o, m, c))
  BY <1>1, <1>3 DEF LeavesBy
<1> QED BY <1>1, <1>4

(* The parts of the invariant that the other namespaces' entries carry. *)
LEMMA EntriesGrow ==
  ASSUME conn' = conn, NEW n, \A x \in Pinners \ {n} : CleanEntry(x)', n \in Pinners => CleanEntry(n)'
  PROVE  EntriesInv'
<1>1. Pinners' = Pinners
  BY DEF Pinners, Gateways
<1> QED BY <1>1 DEF EntriesInv

(* A packet of the initiator leaves its site. *)
LEMMA LeaveForward ==
  ASSUME AffinityTypeOK, StateInv, DirectInv, NEW s \in Sites, s = conn.src, pkt.at = s, pkt.dir = "fwd",
         NEW m \in SUBSET Bits, NEW c \in Entries, c.orig # "none", Leave(s, m, c),
         record' \in [Sites -> [up : BOOLEAN, path : SUBSET route_mask]], UNCHANGED <<conn, tables, links, count>>,
         conn.dst = "saas" => Direct(m) /\ c.nat \in {"open", "bound"} /\ OpenOrDirect(c.mark)
  PROVE  StateInv' /\ PacketInv' /\ DirectInv'
<1>1. s \in Nodes /\ s \notin Hubs /\ s \notin Pinners /\ Target(pkt.dir) = conn.dst
  BY EndKinds, NodeKinds DEF Target
<1>2. PICK o \in SiteRoutes(s, m, Target(pkt.dir)), left \in Entries : LeavesBy(s, m, c, o, left)
  BY Leaves
<1>3. /\ left.orig = c.orig /\ (c.nat = "bound" => left.nat = "bound")
      /\ (c.nat = "open" /\ o[1] = "inet" /\ egress_mode(m) = "DIRECT_INTERNET") => left.nat = "bound"
      /\ o \notin PathsOf(s) => left.mark = c.mark
  BY <1>2 DEF LeavesBy, LeftOver
<1>4. conn' = conn /\ links' = links
  OBVIOUS
<1>5. Passed(s, pkt.dir, {pkt.iif, o}, left) /\ left.orig # "none"
  BY <1>2, <1>3 DEF LeavesBy, LeftOver
<1>6. /\ UsedInv' /\ (\A x \in Pinners \ {s} : CleanEntry(x)') /\ (seen' = seen => SeenInv') /\ HomeInv'
  BY <1>1, <1>4, <1>5, Grows
<1>7. EntriesInv'
  BY <1>1, <1>4, <1>6, EntriesGrow
<1>8. o \in used'[s] /\ ct'[s] = left
  BY <1>5 DEF Passed
<1>9. CASE o[1] = "inet"
  <2>1. conn.dst = "saas" /\ o \in {"inet"} \X Transports /\ pkt' = NoPacket /\ o[1] = "inet"
    BY <1>1, <1>2, <1>9 DEF LeavesBy, LeftOver
  <2>2. Direct(m) /\ c.nat \in {"open", "bound"} /\ OpenOrDirect(c.mark) /\ egress_mode(m) = "DIRECT_INTERNET"
    BY <2>1, DirectFacts
  <2>3. left.nat = "bound" /\ seen' = o
    BY <1>2, <1>3, <1>9, <2>2 DEF LeavesBy, LeftOver
  <2>4. left.mark = c.mark
    BY <1>1, <1>3, <2>1, NoPaths
  <2>5. SeenInv'
    <3>1. conn.dst \notin Sites
      BY <2>1, EndKinds
    <3> QED BY <1>4, <1>8, <2>1, <2>3, <3>1 DEF SeenInv, Unknown
  <2>6. DirectInv'
    <3>1. o # Own
      BY <2>1 DEF Own
    <3>2. ~pkt'.queued /\ pkt'.dir # "rev"
      BY <2>1, PacketGone
    <3> QED BY <1>4, <1>8, <2>2, <2>3, <2>4, <3>1, <3>2 DEF DirectInv, OpenOrDirect, Direct, Own
  <2>7. PacketInv'
    BY <2>1, PacketGone
  <2> QED BY <1>6, <1>7, <2>5, <2>6, <2>7 DEF StateInv
<1>10. CASE o[1] # "inet"
  <2>1. conn.dst # "saas" /\ o \in Hubs \X Transports /\ seen' = seen /\ pkt' = Arrive(o[1], <<"spokes", o[2]>>, "fwd", FALSE)
    BY <1>1, <1>2, <1>10 DEF LeavesBy, LeftOver
  <2>2. pkt'.at = o[1] /\ pkt'.iif = <<"spokes", o[2]>>
    BY <2>1, ArriveFields
  <2>3. o = <<o[1], o[2]>> /\ o[1] \in Hubs /\ o[1] \notin Gateways /\ o[1] \notin Sites
    BY <2>1, NodeKinds
  <2>4. ForwardAtHub'
    <3>1. pkt'.iif[1] = "spokes" /\ pkt'.iif[2] = o[2] /\ <<pkt'.at, pkt'.iif[2]>> \in used'[conn.src]
      BY <1>8, <2>2, <2>3
    <3>2. conn.src \in Sites /\ conn.src # "dc" /\ conn.src # "cloud"
      BY EndKinds
    <3> QED BY <1>4, <3>1, <3>2 DEF ForwardAtHub
  <2>5. PacketInv'
    BY <2>1, <2>3, <2>4, ForwardArrives
  <2>6. DirectInv'
    BY <1>4, <2>1 DEF DirectInv
  <2> QED BY <1>6, <1>7, <2>1, <2>5, <2>6 DEF StateInv
<1> QED BY <1>9, <1>10

(* A packet of the responder leaves its site by the path that is pinned. *)
LEMMA LeaveReturn ==
  ASSUME AffinityTypeOK, StateInv, NEW s \in Sites, s = conn.dst, pkt.at = s, pkt.dir = "rev", Settled(s),
         NEW i \in PathsOf(s) \cap used[s], ct[s].mark = Stamp(s, i), ct[s].orig = "fwd", LeadsBack(s, i),
         NEW c \in Entries, c.orig = "fwd", c.est = TRUE, c.mark = Stamp(s, i),
         NEW m \in SUBSET Bits, m = Stamp(s, i), Leave(s, m, c),
         record' \in [Sites -> [up : BOOLEAN, path : SUBSET route_mask]], UNCHANGED <<conn, tables, links, count>>
  PROVE  StateInv' /\ PacketInv' /\ DirectInv'
<1>1. s \in Nodes /\ s \notin Hubs /\ s \in Pinners /\ Target(pkt.dir) = conn.src /\ conn.src # "saas" /\ conn.dst # "saas"
  BY EndKinds, NodeKinds DEF Target
<1>3. PICK o \in SiteRoutes(s, m, Target(pkt.dir)), left \in Entries : LeavesBy(s, m, c, o, left)
  BY Leaves
<1>4. o = i
  BY <1>1, SitePinned
<1>5. left.orig = c.orig /\ left.mark = c.mark
  BY <1>3 DEF LeavesBy, LeftOver
<1>6. conn' = conn /\ links' = links /\ seen' = seen /\ pkt' = Arrive(i[1], <<"spokes", i[2]>>, "rev", FALSE)
  BY <1>1, <1>3, <1>4 DEF LeavesBy, LeftOver
<1>7. Passed(s, pkt.dir, {pkt.iif, o}, left) /\ left.orig # "none"
  BY <1>3, <1>5 DEF LeavesBy, LeftOver
<1>8. /\ (\A x \in Nodes : used[x] \subseteq used'[x])
      /\ UsedInv' /\ (\A x \in Pinners \ {s} : CleanEntry(x)') /\ SeenInv' /\ HomeInv'
  BY <1>1, <1>6, <1>7, Grows
<1>9. i[1] \in Hubs /\ i[1] \in Nodes /\ i[1] \notin Gateways /\ i[1] \notin Sites /\ i \in used'[s]
  BY <1>1, <1>8, PathKinds, NodeKinds
<1>10. <<"spokes", i[2]>> \in used'[i[1]]
  BY <1>8, <1>9 DEF LeadsBack
<1>11. CleanEntry(s)'
  <2>1. ct'[s] = left
    BY <1>7 DEF Passed
  <2>2. ct'[s].orig = "fwd" /\ ct'[s].mark = Stamp(s, i)
    BY <1>5, <2>1
  <2>3. LeadsBack(s, i)'
    BY <1>1, <1>10, NodeKinds DEF LeadsBack, Gateways
  <2>4. ~Translated(s)'
    BY <1>1, NodeKinds DEF Translated, Gateways
  <2> QED BY <1>9, <2>2, <2>3, <2>4 DEF CleanEntry, PathsOf, Stamp, Affinity
<1>12. EntriesInv'
  BY <1>6, <1>8, <1>11, EntriesGrow
<1>13. PacketInv'
  BY <1>6, <1>9, <1>10, ReturnArrives
<1>14. DirectInv'
  BY <1>1, <1>6 DEF DirectInv
<1> QED BY <1>8, <1>12, <1>13, <1>14 DEF StateInv

(* A step by which a packet leaves a site keeps a connection clean only if *)
(* the site is at rest.                                                    *)
LEMMA LeaveSettled ==
  ASSUME AffinityTypeOK, NEW s \in Sites, pkt.at = s, NEW m \in SUBSET Bits, NEW c \in Entries, Leave(s, m, c),
         record' \in [Sites -> [up : BOOLEAN, path : SUBSET route_mask]], UNCHANGED <<conn, tables, links, count>>,
         clean'
  PROVE  clean /\ Settled(s)
<1>1. PICK o \in SiteRoutes(s, m, Target(pkt.dir)), left \in Entries : LeavesBy(s, m, c, o, left)
  BY Leaves
<1> QED BY <1>1 DEF LeavesBy, Passed

(* The chains on a packet from the LAN, or from the Internet, of a         *)
(* connection to the public service.                                       *)
LEMMA DirectIn ==
  ASSUME AffinityTypeOK, NEW s \in Sites, Settled(s), pkt.at = s, pkt.iif \notin PathsOf(s), OpenOrDirect(ct[s].mark)
  PROVE  OpenOrDirect(InMark(s)) /\ OpenOrDirect(InEntry(s).mark)
<1>1. s \in Nodes /\ ct[s] \in Entries /\ pkt.dir \in Directions
  BY NodeKinds, PacketFields
<1> DEFINE c == Track(ct[s], pkt.dir)
<1>2. c.mark = ct[s].mark
  BY <1>1, TrackFields
<1>3. InLen(s) = K(s) + 2 /\ InLen(s) >= 1
  BY <1>1, SettledFacts, Lengths
<1>4. InMark(s) = Restored({}, ct[s].mark)
  <2> HIDE DEF c
  <2>1. MarkIn(s, pkt.iif, c) = Restored({}, c.mark)
    BY <1>3 DEF MarkIn
  <2> QED BY <1>2, <2>1 DEF InMark, c
<1>5. OpenOrDirect(InMark(s))
  BY <1>4, DirectFacts
<1>6. InEntry(s).mark = Saved(ct[s].mark, InMark(s))
  BY <1>1, <1>3, InFields
<1> QED BY <1>5, <1>6, DirectFacts

(* A packet from the LAN behind SDWAN_V5_RPA_IN. *)
LEMMA LanIn ==
  ASSUME NEW s, pkt.iif = Lan
  PROVE  LanEntry(s) = InEntry(s) /\ LanMarked(s) = RunChain(s, InMark(s), InEntry(s).mark)
BY DEF LanEntry, LanMarked, InEntry, InMark

(* A packet of the initiator from the LAN. *)
LEMMA LanForward ==
  ASSUME AffinityTypeOK, NEW s \in Sites, Settled(s), pkt.at = s, pkt.iif = Lan, DirectInv, s = conn.src, pkt.dir = "fwd"
  PROVE  /\ LanAfter(s).orig # "none"
         /\ conn.dst = "saas" => /\ Direct(LanMarked(s).mark) /\ LanAfter(s).nat \in {"open", "bound"}
                                 /\ OpenOrDirect(LanAfter(s).mark)
<1>1. s \in Nodes /\ ct[s] \in Entries /\ pkt.dir \in Directions /\ Lan \notin PathsOf(s)
  BY NodeKinds, NoPaths, PacketFields
<1>2. LanAfter(s).orig = InEntry(s).orig /\ LanAfter(s).nat = InEntry(s).nat /\ LanAfter(s).mark = LanMarked(s).saved
  BY LanFields, LanIn
<1>3. InEntry(s).orig = Track(ct[s], pkt.dir).orig /\ InEntry(s).nat = ct[s].nat
      /\ InMark(s) \in SUBSET Bits /\ InEntry(s) \in Entries
  BY <1>1, InFields
<1>4. Track(ct[s], pkt.dir).orig \in Directions
  BY <1>1, TrackFields
<1>5. LanAfter(s).orig # "none"
  BY <1>2, <1>3, <1>4 DEF Directions
<1>6. ASSUME conn.dst = "saas"
      PROVE  /\ Direct(LanMarked(s).mark) /\ LanAfter(s).nat \in {"open", "bound"}
             /\ OpenOrDirect(LanAfter(s).mark)
  <2>1. ct[s].nat \in {"open", "bound"} /\ OpenOrDirect(ct[s].mark)
    BY <1>6 DEF DirectInv
  <2>2. OpenOrDirect(InMark(s)) /\ OpenOrDirect(InEntry(s).mark)
    BY <1>1, <2>1, DirectIn
  <2>3. InEntry(s).mark \in SUBSET Bits
    BY <1>3, EntryFields
  <2>4. Direct(RunChain(s, InMark(s), InEntry(s).mark).mark) /\ OpenOrDirect(RunChain(s, InMark(s), InEntry(s).mark).saved)
    BY <1>3, <1>6, <2>2, <2>3, DirectChain
  <2> QED BY <1>2, <1>3, <2>1, <2>4, LanIn
<1> QED BY <1>5, <1>6

(* A packet of the responder from the LAN carries the pin. *)
LEMMA LanReturn ==
  ASSUME AffinityTypeOK, NEW s \in Sites, Settled(s), pkt.at = s, pkt.iif = Lan, pkt.dir = "rev",
         ct[s].orig = "fwd", NEW i \in PathsOf(s), ct[s].mark = Stamp(s, i)
  PROVE  /\ LanMarked(s).mark = Stamp(s, i) /\ LanMarked(s).queued = FALSE
         /\ LanAfter(s).orig = "fwd" /\ LanAfter(s).est = TRUE /\ LanAfter(s).mark = Stamp(s, i)
<1>1. s \in Nodes /\ ct[s] \in Entries /\ pkt.dir \in Directions /\ Lan \notin PathsOf(s)
  BY NodeKinds, NoPaths, PacketFields
<1>2. /\ LanAfter(s).orig = InEntry(s).orig /\ LanAfter(s).est = InEntry(s).est
      /\ LanAfter(s).mark = LanMarked(s).saved
  BY LanFields, LanIn
<1>3. InEntry(s).orig = Track(ct[s], pkt.dir).orig /\ InEntry(s).est = Track(ct[s], pkt.dir).est
  BY <1>1, InFields
<1>4. Track(ct[s], pkt.dir).orig = "fwd" /\ Track(ct[s], pkt.dir).est = TRUE
  <2>1. Track(ct[s], pkt.dir) = [ct[s] EXCEPT !.est = ct[s].est \/ pkt.dir # ct[s].orig]
    BY DEF Track
  <2> QED BY <1>1, <2>1 DEF Entries
<1>5. PinOrNone(s, ct[s].mark) /\ ct[s].mark # {}
  BY <1>1, StampFacts DEF PinOrNone
<1>6. InMark(s) = Stamp(s, i) /\ InEntry(s).mark = Stamp(s, i)
  BY <1>1, <1>5, MovedIn
<1>7. RunChain(s, Stamp(s, i), Stamp(s, i)) = [mark |-> Stamp(s, i), saved |-> Stamp(s, i), queued |-> FALSE]
  <2>1. marking[s] \in Seq(ChainRules)
    BY DEF AffinityTypeOK
  <2>2. Stamp(s, i) \in SUBSET Bits /\ Stamp(s, i) \subseteq connection_mask /\ terminal_bit \subseteq Stamp(s, i)
    BY <1>1, StampFacts, StampType
  <2> QED BY <2>1, <2>2, TerminalPasses
<1>8. LanMarked(s) = [mark |-> Stamp(s, i), saved |-> Stamp(s, i), queued |-> FALSE]
  BY <1>6, <1>7, LanIn
<1> QED BY <1>2, <1>3, <1>4, <1>8

(* A packet of the initiator waits in the classifier's queue. *)
LEMMA QueueClean ==
  ASSUME AffinityTypeOK, StateInv, DirectInv, NEW s \in Sites, s = conn.src, pkt.at = s, pkt.iif = Lan, pkt.dir = "fwd",
         NEW m \in SUBSET Bits, NEW c \in Entries, c.orig # "none", Passed(s, pkt.dir, {Lan}, c),
         pkt' = [pkt EXCEPT !.queued = TRUE, !.mark = m], seen' = seen, conn' = conn, links' = links,
         conn.dst = "saas" => Direct(m) /\ c.nat \in {"open", "bound"} /\ OpenOrDirect(c.mark)
  PROVE  StateInv' /\ PacketInv' /\ DirectInv'
<1>1. s \in Nodes /\ s \notin Hubs /\ s \notin Gateways /\ s \notin Pinners
  BY EndKinds, NodeKinds
<1>2. pkt'.at = s /\ pkt'.iif = Lan /\ pkt'.dir = "fwd" /\ pkt'.mark = m
  <2>1. pkt \in Packets
    BY <1>1, PacketFields
  <2> QED BY <2>1 DEF Packets
<1>3. ct'[s] = c /\ Lan \in used'[s]
  BY DEF Passed
<1>4. UsedInv' /\ (\A x \in Pinners \ {s} : CleanEntry(x)') /\ SeenInv' /\ HomeInv'
  BY <1>1, Grows
<1>5. EntriesInv'
  BY <1>1, <1>4, EntriesGrow
<1>6. PacketInv'
  <2>1. ForwardAtSite'
    BY <1>2 DEF ForwardAtSite, Lan
  <2>2. ForwardInv' /\ ReturnInv'
    BY <1>1, <1>2, <2>1 DEF ForwardInv, ReturnInv, Gateways
  <2>3. QueueInv'
    BY <1>2, <1>3 DEF QueueInv
  <2> QED BY <2>2, <2>3 DEF PacketInv
<1>7. DirectInv'
  <2> SUFFICES ASSUME conn.dst = "saas"
               PROVE  /\ seen' # Own' /\ ct'[s].nat \in {"open", "bound"} /\ OpenOrDirect(ct[s].mark)' /\ Direct(pkt.mark)'
    BY <1>2 DEF DirectInv
  <2> QED BY <1>2, <1>3 DEF DirectInv, OpenOrDirect, Direct, Own
<1> QED BY <1>4, <1>5, <1>6, <1>7 DEF StateInv

(* The packets from the LAN. *)
LEMMA FromLanClean ==
  ASSUME AffinityTypeOK, CleanInv, NEW s \in Sites, FromLan(s)
  PROVE  CleanInv'
<1> SUFFICES ASSUME clean' PROVE StateInv' /\ PacketInv' /\ DirectInv'
  BY DEF CleanInv
<1>1. /\ pkt.at = s /\ pkt.iif = Lan /\ UNCHANGED <<conn, tables, links, count>>
      /\ record' \in [Sites -> [up : BOOLEAN, path : SUBSET route_mask]] /\ conn' = conn /\ links' = links
  BY FromLanFacts DEF AffinityTypeOK
<1>2. LanMarked(s).mark \in SUBSET Bits /\ LanAfter(s) \in Entries
  BY <1>1, LanFields
<1>3. \/ /\ LanMarked(s).queued /\ pkt' = [pkt EXCEPT !.queued = TRUE, !.mark = LanMarked(s).mark] /\ seen' = seen
         /\ Passed(s, pkt.dir, {Lan}, LanAfter(s))
      \/ Leave(s, LanMarked(s).mark, LanAfter(s))
  BY FromLanFacts
<1>4. clean /\ Settled(s)
  <2>1. CASE Passed(s, pkt.dir, {Lan}, LanAfter(s))
    BY <2>1 DEF Passed
  <2>2. CASE Leave(s, LanMarked(s).mark, LanAfter(s))
    BY <1>1, <1>2, <2>2, LeaveSettled
  <2> QED BY <1>3, <2>1, <2>2
<1>5. StateInv /\ PacketInv /\ DirectInv
  BY <1>4 DEF CleanInv
<1>6. s \in Nodes /\ pkt.dir \in Directions /\ Lan \notin PathsOf(s) /\ s \notin Hubs /\ s \notin Gateways
  BY <1>1, NodeKinds, NoPaths, PacketFields
<1>7. CASE pkt.dir = "fwd"
  <2>1. s = conn.src
    BY <1>1, <1>5, <1>6, <1>7 DEF PacketInv, ForwardInv, ForwardAtSite
  <2>2. /\ LanAfter(s).orig # "none"
        /\ conn.dst = "saas" => /\ Direct(LanMarked(s).mark) /\ LanAfter(s).nat \in {"open", "bound"}
                                /\ OpenOrDirect(LanAfter(s).mark)
    BY <1>1, <1>4, <1>5, <1>7, <2>1, LanForward
  <2>3. CASE /\ pkt' = [pkt EXCEPT !.queued = TRUE, !.mark = LanMarked(s).mark] /\ seen' = seen
             /\ Passed(s, pkt.dir, {Lan}, LanAfter(s))
    BY <1>1, <1>2, <1>5, <1>7, <2>1, <2>2, <2>3, QueueClean
  <2>4. CASE Leave(s, LanMarked(s).mark, LanAfter(s))
    BY <1>1, <1>2, <1>5, <1>7, <2>1, <2>2, <2>4, LeaveForward
  <2> QED BY <1>3, <2>3, <2>4
<1>8. CASE pkt.dir = "rev"
  <2>1. s = conn.dst /\ used[s] # {}
    BY <1>1, <1>5, <1>8 DEF PacketInv, ReturnInv
  <2>2. s \in Pinners /\ ct[s].orig # "none"
    BY <1>5, <1>6, <2>1, EndKinds DEF StateInv, UsedInv
  <2>3. PICK i \in PathsOf(s) \cap used[s] : ct[s].mark = Stamp(s, i) /\ LeadsBack(s, i)
    BY <1>5, <2>2 DEF StateInv, EntriesInv, CleanEntry
  <2>4. ct[s].orig = "fwd"
    BY <1>5, <2>2 DEF StateInv, EntriesInv, CleanEntry
  <2>5. /\ LanMarked(s).mark = Stamp(s, i) /\ LanMarked(s).queued = FALSE
        /\ LanAfter(s).orig = "fwd" /\ LanAfter(s).est = TRUE /\ LanAfter(s).mark = Stamp(s, i)
    BY <1>1, <1>4, <1>8, <2>3, <2>4, LanReturn
  <2>6. Leave(s, LanMarked(s).mark, LanAfter(s))
    BY <1>3, <2>5
  <2> QED BY <1>1, <1>2, <1>4, <1>5, <1>8, <2>1, <2>3, <2>4, <2>5, <2>6, LeaveReturn
<1> QED BY <1>6, <1>7, <1>8 DEF Directions

(* The classifier's verdict touches neither the hub nor the egress bits. *)
LEMMA VerdictClean ==
  ASSUME AffinityTypeOK, CleanInv, NEW s \in Sites, Verdict(s)
  PROVE  CleanInv'
<1> SUFFICES ASSUME clean' PROVE StateInv' /\ PacketInv' /\ DirectInv'
  BY DEF CleanInv
<1>1. /\ pkt.at = s /\ pkt.queued /\ UNCHANGED <<conn, tables, links, count>>
      /\ record' \in [Sites -> [up : BOOLEAN, path : SUBSET route_mask]]
  BY VerdictFacts
<1>2. PICK path \in SUBSET route_mask, terminal \in BOOLEAN :
        VerdictMark(path, terminal) \in SUBSET Bits /\ Leave(s, VerdictMark(path, terminal), ct[s])
  BY VerdictFacts
<1>3. s \in Nodes /\ ct[s] \in Entries
  BY <1>1, NodeKinds, PacketFields
<1>4. clean /\ Settled(s)
  BY <1>1, <1>2, <1>3, LeaveSettled
<1>5. StateInv /\ PacketInv /\ DirectInv
  BY <1>4 DEF CleanInv
<1>6. pkt.dir = "fwd" /\ s = conn.src /\ used[s] # {}
  BY <1>1, <1>5 DEF PacketInv, QueueInv
<1>7. ct[s].orig # "none"
  BY <1>3, <1>5, <1>6 DEF StateInv, UsedInv
<1>8. ASSUME conn.dst = "saas"
      PROVE  Direct(VerdictMark(path, terminal)) /\ ct[s].nat \in {"open", "bound"} /\ OpenOrDirect(ct[s].mark)
  <2>1. Direct(pkt.mark) /\ ct[s].nat \in {"open", "bound"} /\ OpenOrDirect(ct[s].mark)
    BY <1>1, <1>5, <1>6, <1>8 DEF DirectInv
  <2>2. /\ route_mask \cap egress_mask = {} /\ terminal_bit \cap egress_mask = {} /\ provisional_bit \cap egress_mask = {}
    BY DEF route_mask, egress_mask, terminal_bit, provisional_bit
  <2>3. VerdictMark(path, terminal) \cap egress_mask = pkt.mark \cap egress_mask
    BY <1>2, <2>2 DEF VerdictMark
  <2> QED BY <2>1, <2>3 DEF Direct
<1> DEFINE m == VerdictMark(path, terminal)
<1>9. m \in SUBSET Bits /\ Leave(s, m, ct[s])
  BY <1>2
<1> HIDE DEF m
<1> QED BY <1>1, <1>3, <1>5, <1>6, <1>7, <1>8, <1>9, LeaveForward DEF m

-----------------------------------------------------------------------------
(* An entry that a packet creates or finds with the pin. *)
LEMMA EntryPinned ==
  ASSUME conn' = conn, NEW n, ct'[n].orig = "fwd", Translated(n) => ct'[n].nat = "bound",
         NEW i \in PathsOf(n), i \in used'[n], ct'[n].mark = Stamp(n, i), LeadsBack(n, i)'
  PROVE  CleanEntry(n)'
<1>1. i \in PathsOf(n)' /\ ct'[n].mark = Stamp(n, i)' /\ (Translated(n)' => ct'[n].nat = "bound")
  BY DEF PathsOf, Stamp, Affinity, Translated, Gateways
<1> QED BY <1>1 DEF CleanEntry

(* An entry that keeps its pin. *)
LEMMA EntryKept ==
  ASSUME AffinityTypeOK, conn' = conn, links' = links, \A x \in Nodes : used[x] \subseteq used'[x], NEW n \in Nodes,
         CleanEntry(n), ct[n].orig # "none", ct'[n].orig = ct[n].orig, ct'[n].mark = ct[n].mark,
         ct[n].nat = "bound" => ct'[n].nat = "bound"
  PROVE  CleanEntry(n)'
<1>1. ct[n].orig = "fwd" /\ (Translated(n) => ct[n].nat = "bound")
  BY DEF CleanEntry
<1>2. PICK i \in PathsOf(n) \cap used[n] : ct[n].mark = Stamp(n, i) /\ LeadsBack(n, i)
  BY DEF CleanEntry
<1>3. LeadsBack(n, i)'
  BY <1>2, LeadsGrow
<1>4. i \in PathsOf(n) /\ i \in used'[n]
  BY <1>2
<1> QED BY <1>1, <1>2, <1>3, <1>4, EntryPinned

(* What a namespace that pins makes of a packet's entry: the direction     *)
(* that created it stays, and a reply establishes it.                      *)
LEMMA TrackClean ==
  ASSUME AffinityTypeOK, NEW n \in Nodes, pkt.at = n, CleanEntry(n)
  PROVE  LET c == Track(ct[n], pkt.dir)
         IN  /\ c.nat = ct[n].nat
             /\ ct[n].orig = "none" => c.orig = pkt.dir /\ c.est = FALSE /\ ct[n].mark = {} /\ ct[n].nat = "open"
             /\ ct[n].orig # "none" => c.orig = "fwd" /\ ct[n].mark # {}
<1>1. ct[n] \in Entries /\ pkt.dir \in Directions
  BY PacketFields
<1> DEFINE c == Track(ct[n], pkt.dir)
<1>2. /\ c.nat = ct[n].nat /\ c.orig = (IF ct[n].orig = "none" THEN pkt.dir ELSE ct[n].orig)
      /\ ct[n].orig = "none" => c.est = ct[n].est
  BY <1>1, TrackFields
<1> HIDE DEF c
<1>3. ct[n].orig = "none" => ct[n].est = FALSE /\ ct[n].nat = "open" /\ ct[n].mark = {}
  BY CleanMark
<1>4. ct[n].orig # "none" => ct[n].orig = "fwd" /\ ct[n].mark # {}
  BY StampFacts DEF CleanEntry
<1> QED BY <1>2, <1>3, <1>4 DEF c

(* An entry whose packet meets no masquerade rule. *)
LEMMA BindFalse ==
  ASSUME NEW c \in Entries
  PROVE  /\ Bind(c, FALSE) \in Entries /\ Bind(c, FALSE).mark = c.mark /\ Bind(c, FALSE).orig = c.orig
         /\ Bind(c, FALSE).nat = IF c.nat = "open" THEN "none" ELSE c.nat
<1>1. Bind(c, FALSE) = IF c.nat = "open" THEN [c EXCEPT !.nat = "none"] ELSE c
  BY DEF Bind
<1> QED BY <1>1 DEF Entries

(* A packet of the initiator reaches the responder's site: the path by     *)
(* which it came becomes the pin, unless there is one.                     *)
LEMMA ToLanForward ==
  ASSUME AffinityTypeOK, StateInv, PacketInv, NEW s \in Sites, ToLan(s), Settled(s), pkt.dir = "fwd"
  PROVE  StateInv' /\ PacketInv' /\ DirectInv'
<1> DEFINE left == Bind(InEntry(s), FALSE)
<1>1. /\ pkt.at = s /\ pkt.iif # Lan /\ conn' = conn /\ links' = links
      /\ Passed(s, pkt.dir, {pkt.iif}, left) /\ pkt' = NoPacket /\ seen' = Own
  BY ToLanFacts
<1>2. s \in Nodes /\ s \notin Hubs /\ s \notin Gateways
  BY NodeKinds
<1>3. s = conn.dst /\ pkt.iif \in PathsOf(s) /\ <<"spokes", pkt.iif[2]>> \in used[pkt.iif[1]]
  BY <1>1, <1>2 DEF PacketInv, ForwardInv, ForwardAtSite
<1>4. CleanEntry(s) /\ ~Translated(s)
  BY <1>2, <1>3, EndKinds DEF StateInv, EntriesInv, Translated
<1>5. PinOrNone(s, ct[s].mark)
  BY <1>4, CleanMark
<1>6. Moved(s, {pkt.iif}, left) /\ left.mark = InEntry(s).mark
      /\ left.nat = IF ct[s].nat = "open" THEN "none" ELSE ct[s].nat
  <2>1. FALSE \in BOOLEAN
    OBVIOUS
  <2>2. /\ Moved(s, {pkt.iif}, left) /\ left.mark = InEntry(s).mark
    BY <1>1, <1>2, <1>5, <2>1, MovedIn, Zenon
  <2>3. InEntry(s) \in Entries /\ InEntry(s).nat = ct[s].nat
    BY <1>1, <1>2, InFields
  <2> QED BY <2>2, <2>3, BindFalse
<1> HIDE DEF left
<1>7. /\ ct[s].orig = "none" => left.orig = "fwd" /\ left.mark = Stamp(s, pkt.iif)
      /\ ct[s].orig # "none" => left.orig = "fwd" /\ ct[s].orig = "fwd" /\ left.mark = ct[s].mark
  <2>1. left.orig = Track(ct[s], pkt.dir).orig /\ (ct[s].mark # {} => left.mark = ct[s].mark)
    BY <1>6 DEF Moved
  <2>2. CASE ct[s].orig = "none"
    <3>1. Track(ct[s], pkt.dir).orig = "fwd" /\ Track(ct[s], pkt.dir).est = FALSE /\ ct[s].mark = {}
      BY <1>1, <1>2, <1>4, <2>2, TrackClean
    <3>2. InMark(s) = Stamp(s, pkt.iif) /\ InEntry(s).mark = InMark(s)
      BY <1>1, <1>2, <1>3, <1>5, <3>1, MovedIn
    <3> QED BY <1>6, <2>1, <2>2, <3>1, <3>2
  <2>3. CASE ct[s].orig # "none"
    <3>1. Track(ct[s], pkt.dir).orig = "fwd" /\ ct[s].mark # {} /\ ct[s].orig = "fwd"
      BY <1>1, <1>2, <1>4, <2>3, TrackClean DEF CleanEntry
    <3> QED BY <2>1, <2>3, <3>1
  <2> QED BY <2>2, <2>3
<1>8. ct'[s] = left /\ pkt.iif \in used'[s]
  BY <1>1 DEF Passed
<1>9. /\ (\A x \in Nodes : used[x] \subseteq used'[x])
      /\ UsedInv' /\ (\A x \in Pinners \ {s} : CleanEntry(x)') /\ HomeInv'
  <2>1. left.orig # "none"
    BY <1>7
  <2> QED BY <1>1, <1>2, <2>1, Grows
<1>10. CleanEntry(s)'
  <2>1. CASE ct[s].orig = "none"
    <3>1. <<"spokes", pkt.iif[2]>> \in used'[pkt.iif[1]]
      BY <1>2, <1>3, <1>9, PathKinds, NodeKinds
    <3>2. ASSUME NEW i, i = pkt.iif PROVE LeadsBack(s, i)'
      BY <1>2, <3>1, <3>2 DEF LeadsBack, Gateways
    <3> QED BY <1>1, <1>3, <1>4, <1>7, <1>8, <2>1, <3>2, EntryPinned
  <2>2. CASE ct[s].orig # "none"
    BY <1>1, <1>2, <1>4, <1>6, <1>7, <1>8, <1>9, <2>2, EntryKept
  <2> QED BY <2>1, <2>2
<1>11. EntriesInv'
  BY <1>1, <1>9, <1>10, EntriesGrow
<1>12. SeenInv'
  <2>1. conn.dst # "dc" /\ conn.dst # "cloud" /\ conn.dst # "saas" /\ used'[conn.dst] # {}
    BY <1>3, <1>8, EndKinds
  <2> QED BY <1>1, <2>1 DEF SeenInv
<1>13. DirectInv'
  BY <1>1, <1>3, EndKinds DEF DirectInv
<1> QED BY <1>1, <1>9, <1>11, <1>12, <1>13, PacketGone DEF StateInv

(* A packet of the responder is back on the initiator's site. *)
LEMMA ToLanReturn ==
  ASSUME AffinityTypeOK, StateInv, PacketInv, DirectInv, NEW s \in Sites, ToLan(s), Settled(s), pkt.dir = "rev"
  PROVE  StateInv' /\ PacketInv' /\ DirectInv'
<1> DEFINE left == Bind(InEntry(s), FALSE)
<1>1. /\ pkt.at = s /\ pkt.iif # Lan /\ conn' = conn /\ links' = links
      /\ (pkt.natted => Track(ct[s], pkt.dir).nat = "bound")
      /\ Passed(s, pkt.dir, {pkt.iif}, left) /\ pkt' = NoPacket /\ seen' = seen
  BY ToLanFacts
<1>2. s \in Nodes /\ s \notin Hubs /\ s \notin Gateways
  BY NodeKinds
<1>3. s # conn.dst /\ s \notin Pinners
  BY <1>1, EndKinds DEF PacketInv, ReturnInv
<1>4. /\ InEntry(s) \in Entries /\ InEntry(s).orig = Track(ct[s], pkt.dir).orig /\ InEntry(s).nat = ct[s].nat
      /\ ct[s] \in Entries /\ pkt.dir \in Directions
  BY <1>1, <1>2, InFields, PacketFields
<1>5. Track(ct[s], pkt.dir).orig \in Directions /\ Track(ct[s], pkt.dir).nat = ct[s].nat
  BY <1>4, TrackFields
<1>6. /\ left.mark = InEntry(s).mark /\ left.orig # "none" /\ (ct[s].nat = "bound" => left.nat = "bound")
  BY <1>4, <1>5, BindFalse DEF Directions
<1> HIDE DEF left
<1>7. UsedInv' /\ (\A x \in Pinners \ {s} : CleanEntry(x)') /\ SeenInv' /\ HomeInv'
  BY <1>1, <1>2, <1>6, Grows
<1>8. EntriesInv'
  BY <1>1, <1>3, <1>7, EntriesGrow
<1>9. DirectInv'
  <2> SUFFICES ASSUME conn.dst = "saas"
               PROVE  /\ seen # Own /\ ct'[conn.src].nat \in {"open", "bound"} /\ OpenOrDirect(ct'[conn.src].mark)
    BY <1>1, PacketGone DEF DirectInv, OpenOrDirect, Direct, Own
  <2>1. s = conn.src /\ pkt.natted /\ pkt.iif[1] = "inet" /\ OpenOrDirect(ct[s].mark) /\ seen # Own
    BY <1>1 DEF DirectInv
  <2>2. pkt.iif \notin PathsOf(s)
    BY <2>1, PathKinds DEF Hubs
  <2>3. OpenOrDirect(left.mark)
    BY <1>1, <1>6, <2>1, <2>2, DirectIn
  <2>4. left.nat = "bound"
    BY <1>1, <1>5, <1>6, <2>1
  <2>5. ct'[s] = left
    BY <1>1 DEF Passed
  <2> QED BY <2>1, <2>3, <2>4, <2>5
<1> QED BY <1>1, <1>7, <1>8, <1>9, PacketGone DEF StateInv

(* The packets to the LAN. *)
LEMMA ToLanClean ==
  ASSUME AffinityTypeOK, CleanInv, NEW s \in Sites, ToLan(s)
  PROVE  CleanInv'
<1> SUFFICES ASSUME clean' PROVE StateInv' /\ PacketInv' /\ DirectInv'
  BY DEF CleanInv
<1>1. clean /\ Settled(s) /\ pkt.at = s
  BY ToLanFacts DEF Passed
<1>2. StateInv /\ PacketInv /\ DirectInv /\ pkt.dir \in Directions
  BY <1>1, NodeKinds, PacketFields DEF CleanInv
<1> QED BY <1>1, <1>2, ToLanForward, ToLanReturn DEF Directions

-----------------------------------------------------------------------------
(* What a hub or a gateway at rest makes of its entry when a packet comes  *)
(* in,                                                                     *)
LEMMA PinnerIn ==
  ASSUME AffinityTypeOK, NEW n \in Hubs \cup Gateways, pkt.at = n, Settled(n), CleanEntry(n), NEW match \in BOOLEAN
  PROVE  LET left == Bind(InEntry(n), match)
         IN  /\ left.orig = IF ct[n].orig = "none" THEN pkt.dir ELSE "fwd"
             /\ ct[n].orig # "none" => left.mark = ct[n].mark /\ InMark(n) = ct[n].mark
             /\ ct[n].orig = "none" /\ pkt.iif \in PathsOf(n) => left.mark = Stamp(n, pkt.iif)
             /\ ct[n].nat = "bound" => left.nat = "bound"
             /\ ct[n].orig = "none" /\ match => left.nat = "bound"
<1> DEFINE left == Bind(InEntry(n), match)
           c == Track(ct[n], pkt.dir)
<1>1. n \in Nodes
  BY NodeKinds
<1>2. /\ ct[n].orig = "none" => c.orig = pkt.dir /\ c.est = FALSE /\ ct[n].mark = {} /\ ct[n].nat = "open"
      /\ ct[n].orig # "none" => c.orig = "fwd" /\ ct[n].mark # {}
  BY <1>1, TrackClean
<1>3. PinOrNone(n, ct[n].mark)
  BY CleanMark
<1>4. /\ Moved(n, {pkt.iif}, left) /\ left.mark = InEntry(n).mark
      /\ left.nat = IF ct[n].nat = "open" THEN IF match THEN "bound" ELSE "none" ELSE ct[n].nat
  BY <1>1, <1>3, MovedIn, Zenon
<1>5. /\ InEntry(n).mark = InMark(n)
      /\ ct[n].mark # {} => InMark(n) = ct[n].mark
      /\ ct[n].mark = {} /\ ~c.est /\ pkt.iif \in PathsOf(n) => InMark(n) = Stamp(n, pkt.iif)
  BY <1>1, <1>3, MovedIn
<1> HIDE DEF left
<1>6. left.orig = c.orig
  BY <1>4 DEF Moved
<1> HIDE DEF c
<1> QED BY <1>2, <1>4, <1>5, <1>6 DEF left

(* and when the packet leaves by a path. *)
LEMMA PinnerOut ==
  ASSUME AffinityTypeOK, NEW n \in Hubs \cup Gateways, pkt.at = n, Settled(n), CleanEntry(n), NEW o \in PathsOf(n)
  PROVE  LET left == EntryOut(n, o, InMark(n), Bind(InEntry(n), FALSE))
         IN  /\ left.orig = IF ct[n].orig = "none" THEN pkt.dir ELSE "fwd"
             /\ ct[n].orig # "none" => left.mark = ct[n].mark
             /\ ct[n].orig = "none" => left.mark = IF pkt.iif \in PathsOf(n) THEN Stamp(n, pkt.iif) ELSE Stamp(n, o)
             /\ ct[n].nat = "bound" => left.nat = "bound"
<1> DEFINE left == EntryOut(n, o, InMark(n), Bind(InEntry(n), FALSE))
           c == Track(ct[n], pkt.dir)
<1>1. n \in Nodes
  BY NodeKinds
<1>2. /\ ct[n].orig = "none" => c.orig = pkt.dir /\ c.est = FALSE /\ ct[n].mark = {} /\ ct[n].nat = "open"
      /\ ct[n].orig # "none" => c.orig = "fwd" /\ ct[n].mark # {}
  BY <1>1, TrackClean
<1>3. PinOrNone(n, ct[n].mark)
  BY CleanMark
<1>4. /\ Moved(n, {pkt.iif, o}, left)
      /\ left.nat = IF ct[n].nat = "open" THEN "none" ELSE ct[n].nat
      /\ ct[n].mark = {} /\ ~c.est =>
           left.mark = IF pkt.iif \in PathsOf(n) THEN Stamp(n, pkt.iif) ELSE Stamp(n, o)
  BY <1>1, <1>3, MovedOut
<1> HIDE DEF left
<1>5. left.orig = c.orig /\ (ct[n].mark # {} => left.mark = ct[n].mark)
  BY <1>4 DEF Moved
<1> HIDE DEF c
<1> QED BY <1>2, <1>4, <1>5 DEF left

(* A packet of the responder passes a hub or a gateway: the entry is kept. *)
LEMMA PinnerReturn ==
  ASSUME AffinityTypeOK, StateInv, NEW n \in Hubs \cup Gateways, pkt.at = n, pkt.dir = "rev", ct[n].orig # "none",
         conn' = conn, links' = links, seen' = seen, NEW crossed, NEW left, Passed(n, pkt.dir, crossed, left),
         left.orig = "fwd", left.mark = ct[n].mark, ct[n].nat = "bound" => left.nat = "bound"
  PROVE  StateInv' /\ \A x \in Nodes : used'[x] = used[x]
<1>1. n \in Nodes /\ n \in Pinners
  BY NodeKinds DEF Pinners
<1>2. CleanEntry(n) /\ ct[n].orig = "fwd"
  BY <1>1 DEF StateInv, EntriesInv, CleanEntry
<1>3. ct'[n] = left /\ \A x \in Nodes : used'[x] = used[x]
  BY <1>1 DEF Passed
<1>4. UsedInv' /\ (\A x \in Pinners \ {n} : CleanEntry(x)') /\ SeenInv' /\ HomeInv'
  BY <1>1, Grows
<1>5. CleanEntry(n)'
  BY <1>1, <1>2, <1>3, EntryKept
<1>6. EntriesInv'
  BY <1>4, <1>5, EntriesGrow
<1> QED BY <1>3, <1>4, <1>6 DEF StateInv

(* A packet of the responder at a hub leaves by the path of the pin, or    *)
(* for the cloud application by the gateway of the site's hub.             *)
LEMMA HubReturn ==
  ASSUME AffinityTypeOK, StateInv, PacketInv, DirectInv, NEW h \in Hubs, AtHub(h), Settled(h), pkt.dir = "rev"
  PROVE  StateInv' /\ PacketInv' /\ DirectInv'
<1>1. pkt.at = h /\ conn' = conn /\ links' = links
  BY AtHubFacts
<1>2. h \in Nodes /\ h \notin Sites /\ h \in Pinners /\ Target(pkt.dir) = conn.src
  BY NodeKinds DEF Pinners, Target
<1>3. CleanEntry(h) /\ ct[h].orig # "none"
  BY <1>1, <1>2 DEF StateInv, EntriesInv, UsedInv, PacketInv, ReturnInv
<1>4. DirectInv'
  <2>1. conn.dst # "saas"
    BY <1>1, <1>2, ConnectionEnds, NodeKinds DEF DirectInv
  <2> QED BY <1>1, <2>1 DEF DirectInv
<1>5. ASSUME NEW match \in BOOLEAN, NEW crossed, Passed(h, pkt.dir, crossed, Bind(InEntry(h), match)), seen' = seen
      PROVE  StateInv' /\ \A x \in Nodes : used'[x] = used[x]
  <2> DEFINE left == Bind(InEntry(h), match)
  <2>1. left.orig = "fwd" /\ left.mark = ct[h].mark /\ (ct[h].nat = "bound" => left.nat = "bound")
    BY <1>1, <1>3, PinnerIn
  <2>2. Passed(h, pkt.dir, crossed, left)
    BY <1>5
  <2> HIDE DEF left
  <2> QED BY <1>1, <1>3, <1>5, <2>1, <2>2, PinnerReturn
<1>6. CASE HubToDc(h)
  <2>1. Natting(h) \in BOOLEAN
    BY DEF Natting
  <2>2. Passed(h, pkt.dir, {pkt.iif}, Bind(InEntry(h), Natting(h))) /\ seen' = seen /\ pkt' = NoPacket
    BY <1>6 DEF HubToDc
  <2> HIDE DEF Natting
  <2> QED BY <1>4, <1>5, <2>1, <2>2, PacketGone
<1>7. CASE HubToCloud(h)
  <2>1. FALSE \in BOOLEAN /\ conn.src = "cloud" /\ Passed(h, pkt.dir, {pkt.iif}, Bind(InEntry(h), FALSE)) /\ seen' = seen
    BY <1>2, <1>7 DEF HubToCloud
  <2>2. StateInv' /\ \A x \in Nodes : used'[x] = used[x]
    BY <1>5, <2>1, Zenon
  <2>3. PICK g \in UsableGateways(h) : g \in Gateways /\ pkt' = Arrive(g, <<"transit", h>>, "rev", FALSE)
    BY <1>7 DEF HubToCloud
  <2>4. links = Hubs \X Gateways /\ h = Home /\ \E f \in Gateways : FromHome(f)
    BY <1>1, <2>1 DEF StateInv, HomeInv, PacketInv, ReturnInv
  <2>5. FromHome(g)
    <3>1. PICK f \in Gateways : FromHome(f)
      BY <2>4
    <3>2. g = f
      BY <2>3, <2>4, <3>1, FirstUsable DEF FromHome
    <3> QED BY <3>1, <3>2
  <2>6. <<"transit", h>> \in used'[g] /\ g \notin Sites
    BY <2>2, <2>3, <2>4, <2>5, NodeKinds DEF FromHome
  <2>7. PacketInv'
    BY <1>1, <2>1, <2>3, <2>6, ReturnArrives
  <2> QED BY <1>4, <2>2, <2>7
<1>8. CASE HubToSite(h)
  <2>1. PICK o \in HubRoute(h, InMark(h)) :
          /\ o \in {"spokes"} \X Transports
          /\ Passed(h, pkt.dir, {pkt.iif, o}, EntryOut(h, o, InMark(h), Bind(InEntry(h), FALSE)))
          /\ pkt' = Arrive(conn.src, <<h, o[2]>>, "rev", FALSE)
    BY <1>2, <1>8 DEF HubToSite
  <2>2. conn.src \in Sites /\ seen' = seen /\ o \in PathsOf(h)
    BY <1>2, <1>8, <2>1, PathKinds DEF HubToSite
  <2>3. StateInv' /\ \A x \in Nodes : used'[x] = used[x]
    <3> DEFINE left == EntryOut(h, o, InMark(h), Bind(InEntry(h), FALSE))
    <3>1. left.orig = "fwd" /\ left.mark = ct[h].mark /\ (ct[h].nat = "bound" => left.nat = "bound")
      BY <1>1, <1>3, <2>2, PinnerOut
    <3>2. Passed(h, pkt.dir, {pkt.iif, o}, left)
      BY <2>1
    <3> HIDE DEF left
    <3> QED BY <1>1, <1>3, <2>2, <3>1, <3>2, PinnerReturn
  <2>4. PICK i \in PathsOf(h) \cap used[h] : ct[h].mark = Stamp(h, i) /\ LeadsBack(h, i)
    BY <1>3 DEF CleanEntry
  <2>5. o = i
    <3>1. TRUE \in BOOLEAN
      OBVIOUS
    <3>2. InMark(h) = Stamp(h, i)
      BY <1>1, <1>3, <2>4, <3>1, PinnerIn
    <3> QED BY <2>1, <2>4, <3>2, HubPinned
  <2>6. <<h, o[2]>> \in used'[conn.src]
    BY <2>2, <2>3, <2>4, <2>5, NodeKinds DEF LeadsBack
  <2>7. <<h, o[2]>> # Lan /\ conn.src # conn.dst /\ conn.src \notin Gateways
    <3>1. <<h, o[2]>> \in Hubs \X Transports
      BY <2>1
    <3> QED BY <2>2, <3>1, ConnectionEnds, NodeKinds, PathKinds, NoPaths
  <2>8. PacketInv'
    BY <1>1, <2>1, <2>2, <2>6, <2>7, ReturnArrives
  <2> QED BY <1>4, <2>3, <2>8
<1> QED BY <1>6, <1>7, <1>8, AtHubFacts

(* A packet of the initiator passes a hub or a gateway: if the entry that  *)
(* it leaves is pinned to a path that leads back, the state stays clean.   *)
LEMMA PinnerForward ==
  ASSUME AffinityTypeOK, StateInv, NEW n \in Hubs \cup Gateways, pkt.at = n, pkt.dir = "fwd",
         conn' = conn, links' = links, NEW crossed, NEW left, Passed(n, pkt.dir, crossed, left),
         left.orig = "fwd", ct[n].nat = "bound" => left.nat = "bound",
         ct[n].orig # "none" => left.mark = ct[n].mark,
         ct[n].orig = "none" =>
           /\ Translated(n) => left.nat = "bound"
           /\ \E i \in PathsOf(n) \cap crossed : left.mark = Stamp(n, i) /\ LeadsBack(n, i)'
  PROVE  /\ UsedInv' /\ EntriesInv' /\ (seen' = seen => SeenInv') /\ (n \in Gateways => HomeInv')
         /\ ct'[n] = left /\ crossed \subseteq used'[n] /\ (Translated(n) => left.nat = "bound")
         /\ \A x \in Nodes : used[x] \subseteq used'[x] /\ (x # n => used'[x] = used[x])
<1>1. n \in Nodes /\ n \in Pinners
  BY NodeKinds DEF Pinners
<1>2. CleanEntry(n)
  BY <1>1 DEF StateInv, EntriesInv
<1>3. ct'[n] = left /\ used'[n] = used[n] \cup crossed /\ \A x \in Nodes \ {n} : used'[x] = used[x]
  BY <1>1 DEF Passed
<1>4. /\ \A x \in Nodes : used[x] \subseteq used'[x]
      /\ UsedInv' /\ (\A x \in Pinners \ {n} : CleanEntry(x)') /\ (seen' = seen => SeenInv')
      /\ n \in Gateways => HomeInv'
  BY <1>1, Grows, NodeKinds
<1>5. CleanEntry(n)' /\ (Translated(n) => left.nat = "bound")
  <2>1. CASE ct[n].orig = "none"
    <3>1. PICK i \in PathsOf(n) \cap crossed : left.mark = Stamp(n, i) /\ LeadsBack(n, i)'
      BY <2>1
    <3>2. i \in PathsOf(n) /\ i \in used'[n]
      BY <1>3, <3>1
    <3> QED BY <1>3, <2>1, <3>1, <3>2, EntryPinned
  <2>2. CASE ct[n].orig # "none"
    <3>1. ct[n].orig = "fwd" /\ (Translated(n) => ct[n].nat = "bound")
      BY <1>2, <2>2 DEF CleanEntry
    <3> QED BY <1>1, <1>2, <1>3, <1>4, <2>2, <3>1, EntryKept
  <2> QED BY <2>1, <2>2
<1>6. EntriesInv'
  BY <1>4, <1>5, EntriesGrow
<1> QED BY <1>3, <1>4, <1>5, <1>6

(* A packet of the initiator at a hub. *)
LEMMA HubForward ==
  ASSUME AffinityTypeOK, StateInv, PacketInv, NEW h \in Hubs, AtHub(h), Settled(h), pkt.dir = "fwd"
  PROVE  StateInv' /\ PacketInv' /\ DirectInv'
<1>1. pkt.at = h /\ conn' = conn /\ links' = links
  BY AtHubFacts
<1>2. h \in Nodes /\ h \notin Sites /\ h \notin Gateways /\ h \in Pinners /\ Target(pkt.dir) = conn.dst /\ pkt.iif \in Interfaces
  BY <1>1, NodeKinds, PacketFields DEF Pinners, Target
<1>3. CleanEntry(h) /\ ForwardAtHub
  BY <1>1, <1>2 DEF StateInv, EntriesInv, PacketInv, ForwardInv
<1>4. Branch' = Branch /\ Home' = Home
  BY <1>1 DEF Home, Branch
<1>5. \A i : LeadsBack(h, i)' <=> (conn.src \in Sites => <<h, i[2]>> \in used'[conn.src])
  BY <1>1, <1>2 DEF LeadsBack, Gateways
<1>6. conn.src \in Sites => pkt.iif \in PathsOf(h) /\ <<h, pkt.iif[2]>> \in used[conn.src]
  <2>1. conn.src \in Sites => pkt.iif[1] = "spokes" /\ <<h, pkt.iif[2]>> \in used[conn.src]
    BY <1>1, <1>3 DEF ForwardAtHub
  <2>2. pkt.iif[1] = "spokes" => pkt.iif \in {"spokes"} \X Transports
    BY <1>2 DEF Interfaces, Lan, Dc, Vpc, Hubs
  <2> QED BY <2>1, <2>2, PathKinds
<1>7. conn.src \notin Sites => pkt.iif \notin PathsOf(h) /\ conn.dst \in Sites
  BY <1>2, <1>3, ConnectionEnds, NoPaths, NodeKinds DEF ForwardAtHub
<1>9. ASSUME \A x \in Nodes : used[x] \subseteq used'[x] /\ (x # h => used'[x] = used[x])
      PROVE  HomeInv' /\ (\A g \in Gateways : FromHome(g) => FromHome(g)')
  <2>1. \A g \in Gateways : FromHome(g) => FromHome(g)'
    BY <1>1, <1>4, <1>9, NodeKinds DEF FromHome, GatewayRank, Gateways
  <2>2. ASSUME conn.src = "cloud"
        PROVE  /\ links = Hubs \X Gateways
               /\ \A x \in Hubs : used'[x] # {} => x = Home /\ \E g \in Gateways : FromHome(g)'
    <3>1. links = Hubs \X Gateways /\ \A x \in Hubs : used[x] # {} => x = Home /\ \E g \in Gateways : FromHome(g)
      BY <2>2 DEF StateInv, HomeInv
    <3>2. h = Home /\ \E g \in Gateways : FromHome(g)
      BY <1>1, <1>3, <2>2 DEF ForwardAtHub
    <3>3. \A x \in Hubs \ {h} : used'[x] = used[x]
      BY <1>9, NodeKinds
    <3> QED BY <2>1, <3>1, <3>2, <3>3
  <2>3. HomeInv'
    BY <1>1, <1>4, <2>2 DEF HomeInv, Gateways
  <2> QED BY <2>1, <2>3
<1>10. ASSUME NEW match \in BOOLEAN, Passed(h, pkt.dir, {pkt.iif}, Bind(InEntry(h), match)),
              conn.src \in Sites, Translated(h) => match
       PROVE  /\ UsedInv' /\ EntriesInv' /\ HomeInv' /\ (seen' = seen => SeenInv')
              /\ pkt.iif \in used'[h] /\ (Translated(h) => Bind(InEntry(h), match).nat = "bound")
  <2> DEFINE left == Bind(InEntry(h), match)
  <2>1. /\ left.orig = "fwd" /\ (ct[h].orig # "none" => left.mark = ct[h].mark)
        /\ (ct[h].orig = "none" => left.mark = Stamp(h, pkt.iif))
        /\ (ct[h].nat = "bound" => left.nat = "bound")
        /\ (ct[h].orig = "none" /\ match => left.nat = "bound")
    BY <1>1, <1>3, <1>6, <1>10, PinnerIn
  <2>2. Passed(h, pkt.dir, {pkt.iif}, left)
    BY <1>10
  <2> HIDE DEF left
  <2>3. <<h, pkt.iif[2]>> \in used'[conn.src]
    <3>1. used'[conn.src] = used[conn.src]
      BY <1>2, <1>10, <2>2, NodeKinds DEF Passed
    <3> QED BY <1>6, <1>10, <3>1
  <2>4. \E i \in PathsOf(h) \cap {pkt.iif} : i = pkt.iif /\ LeadsBack(h, i)'
    BY <1>5, <1>6, <1>10, <2>3
  <2>5. ct[h].orig = "none" => \E i \in PathsOf(h) \cap {pkt.iif} : left.mark = Stamp(h, i) /\ LeadsBack(h, i)'
    BY <2>1, <2>4
  <2>6. ct[h].orig = "none" => (Translated(h) => left.nat = "bound")
    BY <1>10, <2>1
  <2>7. /\ UsedInv' /\ EntriesInv' /\ (seen' = seen => SeenInv') /\ {pkt.iif} \subseteq used'[h]
        /\ (Translated(h) => left.nat = "bound")
        /\ \A x \in Nodes : used[x] \subseteq used'[x] /\ (x # h => used'[x] = used[x])
    BY <1>1, <2>1, <2>2, <2>5, <2>6, PinnerForward
  <2>8. HomeInv'
    BY <1>9, <2>7
  <2> QED BY <2>7, <2>8 DEF left
<1>11. CASE HubToDc(h)
  <2>1. /\ conn.dst = "dc" /\ Passed(h, pkt.dir, {pkt.iif}, Bind(InEntry(h), Natting(h))) /\ pkt' = NoPacket
        /\ seen' = IF Bind(InEntry(h), Natting(h)).nat = "bound" THEN <<"hub", h>> ELSE Own
    BY <1>2, <1>11 DEF HubToDc
  <2>2. Natting(h) /\ Natting(h) \in BOOLEAN
    BY <1>2, SettledFacts DEF Natting
  <2>3. conn.src \in Sites /\ Translated(h) /\ conn.dst \notin Sites
    BY <2>1, ConnectionEnds, NodeKinds DEF Translated
  <2> HIDE DEF Natting
  <2>4. UsedInv' /\ EntriesInv' /\ HomeInv' /\ pkt.iif \in used'[h] /\ seen' = <<"hub", h>>
    BY <1>10, <2>1, <2>2, <2>3
  <2>5. SeenInv'
    BY <1>1, <2>1, <2>3, <2>4 DEF SeenInv
  <2>6. DirectInv'
    BY <1>1, <2>1 DEF DirectInv
  <2> QED BY <2>1, <2>4, <2>5, <2>6, PacketGone DEF StateInv
<1>12. CASE HubToCloud(h)
  <2>1. conn.dst = "cloud" /\ Passed(h, pkt.dir, {pkt.iif}, Bind(InEntry(h), FALSE)) /\ seen' = seen
    BY <1>2, <1>12 DEF HubToCloud
  <2>2. PICK g \in UsableGateways(h) : g \in Gateways /\ pkt' = Arrive(g, <<"transit", h>>, "fwd", FALSE)
    BY <1>12 DEF HubToCloud
  <2>3. conn.src \in Sites /\ ~Translated(h) /\ FALSE \in BOOLEAN
    BY <1>2, <2>1, ConnectionEnds, NodeKinds DEF Translated
  <2>4. UsedInv' /\ EntriesInv' /\ HomeInv' /\ SeenInv' /\ pkt.iif \in used'[h]
    BY <1>10, <2>1, <2>3, Zenon
  <2>5. <<h, g>> \in links /\ g \notin Hubs /\ g \notin Sites
    BY <2>2, NodeKinds DEF UsableGateways
  <2>6. pkt'.at = g /\ pkt'.iif = <<"transit", h>>
    BY <2>2, ArriveFields
  <2>7. ForwardAtGateway'
    <3>1. used'[h] # {} /\ <<h, pkt'.at>> \in links' /\ conn'.dst = "cloud"
      BY <1>1, <2>1, <2>4, <2>5, <2>6
    <3> QED BY <2>6, <3>1 DEF ForwardAtGateway
  <2>8. PacketInv'
    BY <2>2, <2>5, <2>7, ForwardArrives
  <2>9. DirectInv'
    BY <1>1, <2>1 DEF DirectInv
  <2> QED BY <2>4, <2>8, <2>9 DEF StateInv
<1>13. CASE HubToSite(h)
  <2>1. PICK o \in HubRoute(h, InMark(h)) :
          /\ o \in {"spokes"} \X Transports
          /\ Passed(h, pkt.dir, {pkt.iif, o}, EntryOut(h, o, InMark(h), Bind(InEntry(h), FALSE)))
          /\ pkt' = Arrive(conn.dst, <<h, o[2]>>, "fwd", FALSE)
    BY <1>2, <1>13 DEF HubToSite
  <2>2. conn.dst \in Sites /\ seen' = seen /\ o \in PathsOf(h)
    BY <1>2, <1>13, <2>1, PathKinds DEF HubToSite
  <2> DEFINE left == EntryOut(h, o, InMark(h), Bind(InEntry(h), FALSE))
  <2>3. /\ left.orig = "fwd" /\ (ct[h].orig # "none" => left.mark = ct[h].mark)
        /\ ct[h].orig = "none" => left.mark = IF pkt.iif \in PathsOf(h) THEN Stamp(h, pkt.iif) ELSE Stamp(h, o)
        /\ (ct[h].nat = "bound" => left.nat = "bound")
    BY <1>1, <1>3, <2>2, PinnerOut
  <2>4. Passed(h, pkt.dir, {pkt.iif, o}, left)
    BY <2>1
  <2> HIDE DEF left
  <2>5. ~Translated(h) /\ conn.dst # "saas" /\ conn.dst \notin Hubs /\ conn.dst \notin Gateways
    BY <1>2, <2>2, EndKinds, NodeKinds DEF Translated
  <2>6. ct[h].orig = "none" => \E i \in PathsOf(h) \cap {pkt.iif, o} : left.mark = Stamp(h, i) /\ LeadsBack(h, i)'
    <3>1. CASE conn.src \in Sites
      <4>1. used'[conn.src] = used[conn.src]
        BY <1>2, <2>4, <3>1, NodeKinds DEF Passed
      <4>2. \E i \in PathsOf(h) \cap {pkt.iif, o} : i = pkt.iif /\ LeadsBack(h, i)'
        BY <1>5, <1>6, <3>1, <4>1
      <4> QED BY <1>6, <2>3, <3>1, <4>2
    <3>2. CASE conn.src \notin Sites
      <4>1. LeadsBack(h, o)'
        BY <1>5, <3>2
      <4> QED BY <1>7, <2>2, <2>3, <3>2, <4>1
    <3> QED BY <3>1, <3>2
  <2>7. /\ UsedInv' /\ EntriesInv' /\ SeenInv' /\ {pkt.iif, o} \subseteq used'[h]
        /\ \A x \in Nodes : used[x] \subseteq used'[x] /\ (x # h => used'[x] = used[x])
    BY <1>1, <2>2, <2>3, <2>4, <2>5, <2>6, PinnerForward
  <2>8. HomeInv'
    BY <1>9, <2>7
  <2>9. pkt'.at = conn.dst /\ pkt'.iif = <<h, o[2]>>
    BY <2>1, ArriveFields
  <2>10. ForwardAtSite'
    <3>1. o = <<"spokes", o[2]>> /\ o \in used'[h] /\ <<h, o[2]>> \in Hubs \X Transports
      BY <2>1, <2>7
    <3>2. pkt'.iif[1] = h /\ pkt'.iif[2] = o[2] /\ pkt'.iif \in PathsOf(pkt'.at)
      BY <2>2, <2>9, <3>1, PathKinds
    <3>3. <<"spokes", pkt'.iif[2]>> \in used'[pkt'.iif[1]]
      BY <3>1, <3>2
    <3> QED BY <1>1, <2>9, <3>2, <3>3 DEF ForwardAtSite, PathsOf
  <2>11. PacketInv'
    BY <2>1, <2>5, <2>10, ForwardArrives
  <2>12. DirectInv'
    BY <1>1, <2>5 DEF DirectInv
  <2> QED BY <2>7, <2>8, <2>11, <2>12 DEF StateInv
<1> QED BY <1>11, <1>12, <1>13, AtHubFacts

(* The packets at a hub. *)
LEMMA AtHubClean ==
  ASSUME AffinityTypeOK, CleanInv, NEW h \in Hubs, AtHub(h)
  PROVE  CleanInv'
<1> SUFFICES ASSUME clean' PROVE StateInv' /\ PacketInv' /\ DirectInv'
  BY DEF CleanInv
<1>1. clean /\ Settled(h) /\ pkt.at = h
  BY AtHubFacts DEF HubToDc, HubToCloud, HubToSite, Passed
<1>2. StateInv /\ PacketInv /\ DirectInv /\ pkt.dir \in Directions
  BY <1>1, NodeKinds, PacketFields DEF CleanInv
<1> QED BY <1>1, <1>2, HubForward, HubReturn DEF Directions

-----------------------------------------------------------------------------
(* A packet of the responder at a gateway leaves for the hub of the pin. *)
LEMMA GatewayReturn ==
  ASSUME AffinityTypeOK, StateInv, PacketInv, DirectInv, NEW g \in Gateways, AtGateway(g), Settled(g), pkt.dir = "rev"
  PROVE  StateInv' /\ PacketInv' /\ DirectInv'
<1>1. pkt.at = g /\ conn' = conn /\ links' = links
  BY AtGatewayFacts
<1>2. g \in Nodes /\ g \notin Sites /\ g \in Pinners /\ Target(pkt.dir) = conn.src
  BY NodeKinds DEF Pinners, Target
<1>3. CleanEntry(g) /\ ct[g].orig # "none" /\ "cloud" \in {conn.src, conn.dst}
  BY <1>1, <1>2 DEF StateInv, EntriesInv, UsedInv, PacketInv, ReturnInv
<1>4. DirectInv'
  <2>1. conn.dst # "saas"
    BY <1>1, <1>2, ConnectionEnds, NodeKinds DEF DirectInv
  <2> QED BY <1>1, <2>1 DEF DirectInv
<1>5. CASE GatewayToCloud(g)
  <2> DEFINE match == Natting(g)
             left == Bind(InEntry(g), match)
  <2>1. Passed(g, pkt.dir, {pkt.iif}, left) /\ seen' = seen /\ pkt' = NoPacket
    BY <1>5 DEF GatewayToCloud
  <2>2. match \in BOOLEAN
    BY DEF Natting
  <2> HIDE DEF match
  <2>3. left.orig = "fwd" /\ left.mark = ct[g].mark /\ (ct[g].nat = "bound" => left.nat = "bound")
    BY <1>1, <1>3, <2>2, PinnerIn
  <2> HIDE DEF left
  <2>4. StateInv'
    BY <1>1, <1>3, <2>1, <2>3, PinnerReturn
  <2> QED BY <1>4, <2>1, <2>4, PacketGone
<1>6. CASE GatewayToHub(g)
  <2>1. PICK o \in GatewayRoute(g, InMark(g)) :
          /\ o \in {"transit"} \X Hubs
          /\ Passed(g, pkt.dir, {pkt.iif, o}, EntryOut(g, o, InMark(g), Bind(InEntry(g), FALSE)))
          /\ pkt' = Arrive(o[2], <<"transit", g>>, "rev", FALSE)
    BY <1>6 DEF GatewayToHub
  <2>2. conn.src \in Sites /\ conn.dst = "cloud" /\ seen' = seen /\ o \in PathsOf(g)
    BY <1>2, <1>3, <1>6, <2>1, PathKinds, EndKinds DEF GatewayToHub
  <2>3. StateInv' /\ \A x \in Nodes : used'[x] = used[x]
    <3> DEFINE left == EntryOut(g, o, InMark(g), Bind(InEntry(g), FALSE))
    <3>1. left.orig = "fwd" /\ left.mark = ct[g].mark /\ (ct[g].nat = "bound" => left.nat = "bound")
      BY <1>1, <1>3, <2>2, PinnerOut
    <3>2. Passed(g, pkt.dir, {pkt.iif, o}, left)
      BY <2>1
    <3> HIDE DEF left
    <3> QED BY <1>1, <1>3, <2>2, <3>1, <3>2, PinnerReturn
  <2>4. PICK i \in PathsOf(g) \cap used[g] : ct[g].mark = Stamp(g, i) /\ LeadsBack(g, i)
    BY <1>3 DEF CleanEntry
  <2>5. o = i
    <3>1. TRUE \in BOOLEAN
      OBVIOUS
    <3>2. InMark(g) = Stamp(g, i)
      BY <1>1, <1>3, <2>4, <3>1, PinnerIn
    <3>3. <<i[2], g>> \in links
      BY <2>4 DEF LeadsBack
    <3> QED BY <2>1, <2>4, <3>2, <3>3, GatewayPinned
  <2>6. o[2] \in Hubs /\ o[2] \in Routers /\ o[2] \in Nodes /\ o[2] \notin Sites /\ o[2] \notin Gateways
    BY <2>1, NodeKinds
  <2>7. used'[o[2]] # {}
    BY <2>2, <2>3, <2>4, <2>5, <2>6 DEF LeadsBack
  <2>8. <<"transit", g>> \notin PathsOf(o[2]) /\ <<"transit", g>>[1] # "inet"
    BY <2>6, NoPaths
  <2>9. PacketInv'
    <3> DEFINE hub == o[2]
    <3>1. pkt' = Arrive(hub, <<"transit", g>>, "rev", FALSE)
      BY <2>1
    <3>2. used'[hub] # {} /\ <<"transit", g>> \notin PathsOf(hub) /\ hub \notin Sites /\ hub \notin Gateways
      BY <2>6, <2>7, <2>8
    <3> HIDE DEF hub
    <3> QED BY <1>1, <2>8, <3>1, <3>2, ReturnArrives
  <2> QED BY <1>4, <2>3, <2>9
<1> QED BY <1>5, <1>6, AtGatewayFacts

(* A packet of the initiator at a gateway. *)
LEMMA GatewayForward ==
  ASSUME AffinityTypeOK, StateInv, PacketInv, NEW g \in Gateways, AtGateway(g), Settled(g), pkt.dir = "fwd"
  PROVE  StateInv' /\ PacketInv' /\ DirectInv'
<1>1. pkt.at = g /\ conn' = conn /\ links' = links
  BY AtGatewayFacts
<1>2. g \in Nodes /\ g \notin Sites /\ g \notin Hubs /\ g \in Pinners /\ Target(pkt.dir) = conn.dst
  BY <1>1, NodeKinds DEF Pinners, Target
<1>3. CleanEntry(g) /\ ForwardAtGateway /\ PinOrNone(g, ct[g].mark)
  BY <1>1, <1>2, CleanMark DEF StateInv, EntriesInv, PacketInv, ForwardInv
<1>4. Branch' = Branch /\ Home' = Home /\ Home \in Hubs /\ conn.src # conn.dst
  BY <1>1, EndKinds, ConnectionEnds DEF Home, Branch
<1>5. \A i : LeadsBack(g, i)' <=> /\ <<i[2], g>> \in links
                                  /\ conn.dst = "cloud" => used'[i[2]] # {}
                                  /\ conn.src = "cloud" => i[2] = Home
  BY <1>1, <1>2, <1>4 DEF LeadsBack, Gateways
<1>6. CASE GatewayToCloud(g)
  <2> DEFINE match == Natting(g)
             left == Bind(InEntry(g), match)
  <2>1. /\ conn.dst = "cloud" /\ Passed(g, pkt.dir, {pkt.iif}, left) /\ pkt' = NoPacket
        /\ seen' = IF left.nat = "bound" THEN <<"gateway", g>> ELSE Own
    BY <1>2, <1>6 DEF GatewayToCloud
  <2>2. match /\ match \in BOOLEAN
    BY <1>2, SettledFacts DEF Natting
  <2>3. Translated(g) /\ conn.dst \notin Sites /\ conn.src # "cloud"
    BY <1>4, <2>1, NodeKinds DEF Translated
  <2>4. PICK h \in Hubs : pkt.iif = <<"transit", h>> /\ used[h] # {} /\ <<h, g>> \in links
    BY <1>1, <1>3, <2>3 DEF ForwardAtGateway
  <2>5. pkt.iif \in PathsOf(g) /\ pkt.iif[2] = h
    BY <2>4, PathKinds
  <2> HIDE DEF match
  <2>6. /\ left.orig = "fwd" /\ (ct[g].orig # "none" => left.mark = ct[g].mark)
        /\ (ct[g].orig = "none" => left.mark = Stamp(g, pkt.iif))
        /\ (ct[g].nat = "bound" => left.nat = "bound")
        /\ (ct[g].orig = "none" => left.nat = "bound")
    BY <1>1, <1>3, <2>2, <2>5, PinnerIn
  <2> HIDE DEF left
  <2>7. used'[h] # {}
    <3>1. used'[h] = used[h]
      BY <1>2, <2>1, NodeKinds DEF Passed
    <3> QED BY <2>4, <3>1
  <2>8. \E i \in PathsOf(g) \cap {pkt.iif} : i = pkt.iif /\ LeadsBack(g, i)'
    BY <1>5, <2>3, <2>4, <2>5, <2>7
  <2>9. ct[g].orig = "none" => \E i \in PathsOf(g) \cap {pkt.iif} : left.mark = Stamp(g, i) /\ LeadsBack(g, i)'
    BY <2>6, <2>8
  <2>10. /\ UsedInv' /\ EntriesInv' /\ HomeInv' /\ {pkt.iif} \subseteq used'[g] /\ (Translated(g) => left.nat = "bound")
    BY <1>1, <2>1, <2>6, <2>9, PinnerForward
  <2>11. seen' = <<"gateway", g>> /\ used'[g] # {}
    BY <2>1, <2>3, <2>10
  <2>12. SeenInv'
    BY <1>1, <2>1, <2>3, <2>11 DEF SeenInv, Gateways
  <2>13. DirectInv'
    BY <1>1, <2>1 DEF DirectInv
  <2> QED BY <2>1, <2>10, <2>12, <2>13, PacketGone DEF StateInv
<1>7. CASE GatewayToHub(g)
  <2>1. PICK o \in GatewayRoute(g, InMark(g)) :
          /\ o \in {"transit"} \X Hubs
          /\ Passed(g, pkt.dir, {pkt.iif, o}, EntryOut(g, o, InMark(g), Bind(InEntry(g), FALSE)))
          /\ pkt' = Arrive(o[2], <<"transit", g>>, "fwd", FALSE)
    BY <1>7 DEF GatewayToHub
  <2>2. conn.dst \in Sites /\ seen' = seen /\ o \in PathsOf(g) /\ conn.dst # "cloud" /\ conn.dst # "saas"
    BY <1>2, <1>7, <2>1, PathKinds, EndKinds DEF GatewayToHub
  <2>3. conn.src = "cloud" /\ pkt.iif = Vpc /\ GatewayRank(Home, g) = 1 /\ Vpc \notin PathsOf(g)
    BY <1>1, <1>2, <1>3, <2>2, NoPaths DEF ForwardAtGateway
  <2>4. links = Hubs \X Gateways /\ \A h \in Hubs : <<h, g>> \in links
    BY <2>3 DEF StateInv, HomeInv
  <2>5. o[2] = Home
    <3>1. CASE ct[g].orig # "none"
      <4>1. PICK i \in PathsOf(g) \cap used[g] : ct[g].mark = Stamp(g, i) /\ LeadsBack(g, i)
        BY <1>3, <3>1 DEF CleanEntry
      <4>2. TRUE \in BOOLEAN
        OBVIOUS
      <4>3. InMark(g) = Stamp(g, i)
        BY <1>1, <1>3, <3>1, <4>1, <4>2, PinnerIn
      <4>4. <<i[2], g>> \in links /\ i[2] = Home
        BY <2>3, <4>1 DEF LeadsBack
      <4>5. o = i
        BY <2>1, <4>1, <4>3, <4>4, GatewayPinned
      <4> QED BY <4>4, <4>5
    <3>2. CASE ct[g].orig = "none"
      <4>1. InMark(g) = {}
        <5>1. ct[g].mark = {}
          BY <1>3, <3>2, CleanMark
        <5> QED BY <1>1, <1>2, <1>3, <2>3, <5>1, MovedIn
      <4>2. \A i \in PathsOf(g) : Affinity(g, i) # {}
        BY <1>2, StampFacts
      <4>3. <<"transit", Home>> \in PathsOf(g)
        BY <1>4, PathKinds
      <4> DEFINE live == {i \in PathsOf(g) : <<i[2], g>> \in links}
                 pinned == {i \in live : InMark(g) \cap (target_hub_mask \cup egress_mask) = Affinity(g, i)}
                 preferred == {i \in live : i[2] = Home}
      <4>4. pinned = {} /\ <<"transit", Home>> \in preferred
        BY <1>4, <2>4, <4>1, <4>2, <4>3
      <4>5. GatewayRoute(g, InMark(g)) = IF pinned # {} THEN pinned ELSE IF preferred # {} THEN preferred ELSE live
        BY DEF GatewayRoute, Home
      <4> QED BY <2>1, <4>4, <4>5
    <3> QED BY <3>1, <3>2
  <2>6. o = <<"transit", Home>> /\ <<o[2], g>> \in links
    BY <1>4, <2>1, <2>4, <2>5
  <2> DEFINE left == EntryOut(g, o, InMark(g), Bind(InEntry(g), FALSE))
  <2>7. /\ left.orig = "fwd" /\ (ct[g].orig # "none" => left.mark = ct[g].mark)
        /\ ct[g].orig = "none" => left.mark = Stamp(g, o)
        /\ (ct[g].nat = "bound" => left.nat = "bound")
    BY <1>1, <1>3, <2>2, <2>3, PinnerOut
  <2>8. Passed(g, pkt.dir, {pkt.iif, o}, left)
    BY <2>1
  <2> HIDE DEF left
  <2>9. ~Translated(g)
    BY <1>2, <2>2 DEF Translated
  <2>10. LeadsBack(g, o)'
    BY <1>5, <2>2, <2>5, <2>6
  <2>11. ct[g].orig = "none" => \E i \in PathsOf(g) \cap {pkt.iif, o} : left.mark = Stamp(g, i) /\ LeadsBack(g, i)'
    BY <2>2, <2>7, <2>10
  <2>12. UsedInv' /\ EntriesInv' /\ SeenInv' /\ HomeInv' /\ {pkt.iif, o} \subseteq used'[g]
    BY <1>1, <2>2, <2>7, <2>8, <2>9, <2>11, PinnerForward
  <2>13. pkt' = Arrive(Home, <<"transit", g>>, "fwd", FALSE)
    BY <2>1, <2>5
  <2>14. pkt'.at = Home /\ pkt'.iif = <<"transit", g>>
    BY <2>13, ArriveFields
  <2>15. ForwardAtHub'
    <3>1. FromHome(g)'
      BY <1>4, <2>3, <2>6, <2>12 DEF FromHome, GatewayRank, Gateways
    <3>2. conn.src \notin Sites
      BY <2>3, NodeKinds
    <3> QED BY <1>1, <1>4, <2>3, <2>14, <3>1, <3>2 DEF ForwardAtHub, Gateways
  <2>16. PacketInv'
    BY <1>4, <2>13, <2>15, NodeKinds, ForwardArrives
  <2>17. DirectInv'
    BY <1>1, <2>2 DEF DirectInv
  <2> QED BY <2>12, <2>16, <2>17 DEF StateInv
<1> QED BY <1>6, <1>7, AtGatewayFacts

(* The packets at a gateway. *)
LEMMA AtGatewayClean ==
  ASSUME AffinityTypeOK, CleanInv, NEW g \in Gateways, AtGateway(g)
  PROVE  CleanInv'
<1> SUFFICES ASSUME clean' PROVE StateInv' /\ PacketInv' /\ DirectInv'
  BY DEF CleanInv
<1>1. clean /\ Settled(g) /\ pkt.at = g
  BY AtGatewayFacts DEF GatewayToCloud, GatewayToHub, Passed
<1>2. StateInv /\ PacketInv /\ DirectInv /\ pkt.dir \in Directions
  BY <1>1, NodeKinds, PacketFields DEF CleanInv
<1> QED BY <1>1, <1>2, GatewayForward, GatewayReturn DEF Directions

-----------------------------------------------------------------------------
(* No packet has been sent yet. *)
LEMMA InitClean == AffinityInit => CleanInv
<1> SUFFICES ASSUME AffinityInit PROVE StateInv /\ PacketInv /\ DirectInv
  BY DEF CleanInv
<1>1. AffinityTypeOK
  BY InitAffinity
<1>2. /\ ct = [n \in Nodes |-> NoEntry] /\ used = [n \in Nodes |-> {}] /\ pkt = NoPacket
      /\ seen = Unknown /\ links = Hubs \X Gateways
  BY DEF AffinityInit
<1>3. Hubs \subseteq Nodes /\ Pinners \subseteq Nodes
  BY <1>1, NodeKinds, EndKinds
<1>4. UsedInv /\ HomeInv /\ SeenInv
  BY <1>2, <1>3 DEF UsedInv, HomeInv, SeenInv
<1>5. EntriesInv
  BY <1>2, <1>3 DEF EntriesInv, CleanEntry, NoEntry
<1>6. PacketInv
  BY <1>2 DEF PacketInv, ForwardInv, ReturnInv, QueueInv, NoPacket
<1>7. DirectInv
  <2>1. conn.dst = "saas" => ct[conn.src] = NoEntry
    BY <1>1, <1>2, ConnectionEnds, NodeKinds
  <2>2. seen # Own
    BY <1>1, <1>2, EndKinds
  <2>3. NoEntry.nat = "open" /\ OpenOrDirect(NoEntry.mark)
    BY DirectFacts DEF NoEntry
  <2>4. pkt.queued = FALSE /\ pkt.dir = "none"
    BY <1>2 DEF NoPacket
  <2> QED BY <2>1, <2>2, <2>3, <2>4 DEF DirectInv
<1> QED BY <1>4, <1>5, <1>6, <1>7 DEF StateInv

(* Every step keeps what holds of a clean connection. *)
LEMMA NextClean ==
  ASSUME AffinityTypeOK, CleanInv, [AffinityNext]_affinityVars
  PROVE  CleanInv'
<1>1. CASE UNCHANGED affinityVars
  BY <1>1, QuietClean DEF affinityVars
<1>2. CASE Send
  BY <1>2, SendClean
<1>3. CASE Lose
  BY <1>3, QuietClean DEF Lose
<1>4. ASSUME NEW s \in Sites, FromLan(s) PROVE CleanInv'
  BY <1>4, FromLanClean
<1>5. ASSUME NEW s \in Sites, Verdict(s) PROVE CleanInv'
  BY <1>5, VerdictClean
<1>6. ASSUME NEW s \in Sites, ToLan(s) PROVE CleanInv'
  BY <1>6, ToLanClean
<1>7. ASSUME NEW s \in Sites, Steer(s) PROVE CleanInv'
  BY <1>7, SteerClean
<1>8. ASSUME NEW s \in Sites, RecordEnds(s) PROVE CleanInv'
  BY <1>8, QuietClean DEF RecordEnds
<1>9. ASSUME NEW s \in Sites, NEW p \in Processes, ChainCommand(s, p) PROVE CleanInv'
  <2>1. /\ UNCHANGED <<conn, ct, seen, links, used, clean>> /\ (pkt' = pkt \/ pkt' = NoPacket)
    BY <1>9 DEF ChainCommand
  <2> QED BY <2>1, QuietClean
<1>10. ASSUME NEW h \in Hubs, AtHub(h) PROVE CleanInv'
  BY <1>10, AtHubClean
<1>11. ASSUME NEW g \in Gateways, AtGateway(g) PROVE CleanInv'
  BY <1>11, AtGatewayClean
<1>12. ASSUME NEW n \in Ends \cup Hubs, Command(n) \/ Reconcile(n) PROVE CleanInv'
  <2>1. UNCHANGED <<conn, ct, pkt, seen, links, used, clean>>
    BY <1>12 DEF Command, Reconcile
  <2> QED BY <2>1, QuietClean
<1>13. ASSUME NEW n \in Ends \cup Hubs, Restart(n) PROVE CleanInv'
  BY <1>13, RestartClean
<1>14. ASSUME NEW h \in Hubs, NEW g \in Gateways, LinkDown(h, g) PROVE CleanInv'
  BY <1>14, LinkDownClean
<1> QED BY <1>1, <1>2, <1>3, <1>4, <1>5, <1>6, <1>7, <1>8, <1>9, <1>10, <1>11, <1>12, <1>13, <1>14 DEF AffinityNext

(* What the invariant says of replies, *)
LEMMA CleanReturns == AffinityTypeOK /\ CleanInv => RepliesReturn
BY DEF CleanInv, PacketInv, ReturnInv, RepliesReturn

(* and of pins and masquerading. *)
LEMMA InvImplied == AffinityTypeOK /\ PinInv /\ CleanInv => AffinityInv
<1> SUFFICES ASSUME AffinityTypeOK, PinInv, CleanInv PROVE PinsAreCrossed /\ DirectIsMasqueraded
  BY DEF AffinityInv
<1>1. PinsAreCrossed
  BY DEF PinInv, PinsAreCrossed, Pinned
<1>2. DirectIsMasqueraded
  BY DEF CleanInv, DirectInv, DirectIsMasqueraded
<1> QED BY <1>1, <1>2

(* The inductive invariant. *)
AffinityIndInv == AffinityTypeOK /\ PinInv /\ CleanInv

(* The inductive invariant holds in every reachable state. *)
LEMMA AffinityInductive == AffinitySpec => []AffinityIndInv
<1>1. AffinityInit => AffinityIndInv
  BY InitAffinity, InitPin, InitClean DEF AffinityIndInv
<1>2. AffinityIndInv /\ [AffinityNext]_affinityVars => AffinityIndInv'
  <2> SUFFICES ASSUME AffinityTypeOK, PinInv, CleanInv, [AffinityNext]_affinityVars PROVE AffinityIndInv'
    BY DEF AffinityIndInv
  <2>1. AffinityTypeOK' /\ CleanInv'
    BY NextAffinityType, NextClean
  <2>2. PinInv'
    BY NextPinInv, StutterPin
  <2> QED BY <2>1, <2>2 DEF AffinityIndInv
<1> QED BY <1>1, <1>2, PTL DEF AffinitySpec

(* Whatever is installed, restarted or steered while the packets pass, the *)
(* hubs and gateways pin the connection only to paths that it crossed, and *)
(* an undisturbed connection to the public service is masqueraded.         *)
THEOREM AffinityInvariant == AffinitySpec => []AffinityInv
<1>1. AffinityIndInv => AffinityInv
  BY InvImplied DEF AffinityIndInv
<1> QED BY <1>1, AffinityInductive, PTL

(* The replies of an undisturbed connection arrive, at every namespace, by *)
(* an interface that its requests crossed.                                 *)
THEOREM RepliesComeBack == AffinitySpec => []RepliesReturn
<1>1. AffinityIndInv => RepliesReturn
  BY CleanReturns DEF AffinityIndInv
<1> QED BY <1>1, AffinityInductive, PTL
=============================================================================
