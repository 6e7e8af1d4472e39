---------------------------- MODULE PathSelection ---------------------------
(***************************************************************************)
(* SLA path selection for one application class and one destination:       *)
(* PathSelector.select (sdwan/common/path_selection.py), the part of       *)
(* LocalFailoverRuntime._run_sla_selection (sdwan/edge_failover_runtime.py) *)
(* that turns its decision into a steering rule, and the mangle chain that *)
(* install_connmark_rules builds (sdwan/edge_agent_v5.py).  The bootstrap  *)
(* process installs the same rule and chain on every reconcile, alongside  *)
(* a live monitor.                                                         *)
(*                                                                         *)
(* A measurement is reduced to what select() makes of it: whether a hard   *)
(* rejection applies (not up), whether a mandatory SLA limit is broken,    *)
(* and the score.  switched_at is kept as the hold-down time left.  good   *)
(* is counted only for a degraded path: for another one it is reported and *)
(* never read.  Marks are named by the path they lead to.                  *)
(***************************************************************************)
EXTENDS Integers

CONSTANTS
  Paths,           \* candidate paths of the destination
  PathOrder,       \* path -> position of its path_id, which breaks ties
  BadSamples,      \* bad_samples_before_degraded
  GoodSamples,     \* good_samples_before_recovered
  HoldDownTime,    \* hold_down_seconds, in units of time
  MinImprovement,  \* minimum_improvement_percent
  Scores,          \* the scores that are told apart
  FailClosed,      \* no_eligible_action is FAIL_CLOSED, else BEST_EFFORT
  RealTime,        \* the class is REALTIME_RTP
  StaticPath       \* where the intent's own mark leads (_intent_mark)

ASSUME Tuning ==
  /\ BadSamples \in Nat \ {0} /\ GoodSamples \in Nat \ {0}
  /\ HoldDownTime \in Nat /\ MinImprovement \in Nat
  /\ Scores \subseteq Nat /\ Scores # {}
  /\ PathOrder \in [Paths -> Nat]
  /\ \A p, q \in Paths : PathOrder[p] = PathOrder[q] => p = q
  /\ FailClosed \in BOOLEAN /\ RealTime \in BOOLEAN
  /\ StaticPath \in Paths /\ "none" \notin Paths

VARIABLES
  pc,        \* the monitor: "rest", "resteer", "apply", "persist" or "dead"
  weather,   \* the measurements select() saw last
  calm,      \* the environment: measurements stay as they are, nothing fails
  selection, \* selector._selection of this class and destination
  sla,       \* selector._sla_state: path -> record
  chosen,    \* selected path of the last decision
  update,    \* rule that this round has still to write
  rule,      \* the rule in steering-rules.json
  chain,     \* kernel: the rule the mangle chain was built from
  boot,      \* the bootstrap process: "idle", "save" or "start"
  flow       \* kernel: path that an RTP flow's conntrack mark leads to

vars == <<pc, weather, calm, selection, sla, chosen, update, rule, chain, boot, flow>>

None == "none"
Flushed == [path |-> None, blocked |-> FALSE]  \* a chain whose rules are gone

Measurement == [up : {TRUE}, violating : BOOLEAN, score : Scores]
               \cup {[up |-> FALSE, violating |-> FALSE, score |-> CHOOSE n \in Scores : TRUE]}

(* _measure: every round pings every path, and its window may have made    *)
(* anything of the answers.                                                *)
Measurements == [Paths -> Measurement]

Rules == [path : Paths, blocked : BOOLEAN]
StaticRule == [path |-> StaticPath, blocked |-> FALSE]
SlaState == [degraded : BOOLEAN, bad : 0 .. BadSamples, good : 0 .. GoodSamples - 1]
NoSelection == [path |-> None, hold |-> 0]
FreshSla == [p \in Paths |-> [degraded |-> FALSE, bad |-> 0, good |-> 0]]
NoFlow == [path |-> None, stray |-> FALSE]

TypeOK ==
  /\ pc \in {"rest", "resteer", "apply", "persist", "dead"}
  /\ weather \in [Paths -> Measurement] /\ calm \in BOOLEAN
  /\ selection \in [path : Paths \cup {None}, hold : 0 .. HoldDownTime]
  /\ sla \in [Paths -> SlaState]
  /\ chosen \in Paths \cup {None}
  /\ update \in Rules \cup {Flushed} /\ rule \in Rules /\ chain \in Rules \cup {Flushed}
  /\ pc \in {"apply", "persist"} => update \in Rules
  /\ boot \in {"idle", "save", "start"}
  /\ flow \in [path : Paths \cup {None}, stray : BOOLEAN]

(* The bootstrap process has installed the rule and started the monitor. *)
Init ==
  /\ pc = "rest" /\ calm = FALSE
  /\ weather \in [Paths -> {m \in Measurement : ~m.up}]
  /\ selection = NoSelection /\ sla = FreshSla /\ chosen = None
  /\ update = Flushed /\ rule = StaticRule /\ chain = StaticRule
  /\ boot = "idle" /\ flow = NoFlow
-----------------------------------------------------------------------------
(* PathSelector *)

(* Faulty: good samples are not remembered. *)
EvaluateForgetful(s, m) ==
  IF ~m.up THEN s
  ELSE IF m.violating
    THEN [degraded |-> s.degraded \/ s.bad + 1 >= BadSamples,
          bad |-> IF s.bad < BadSamples THEN s.bad + 1 ELSE s.bad, good |-> 0]
  ELSE [degraded |-> s.degraded /\ 1 < GoodSamples, bad |-> 0, good |-> 0]

(* _evaluate_candidate: a path's _sla_state after the sample m.  A hard    *)
(* rejection returns before the counters are touched.                      *)
Evaluate(s, m) ==
  LET bad  == IF s.bad < BadSamples THEN s.bad + 1 ELSE s.bad
      good == s.good + 1
  IN  IF ~m.up THEN s
      ELSE IF m.violating
        THEN [degraded |-> s.degraded \/ bad >= BadSamples, bad |-> bad, good |-> 0]
      ELSE IF s.degraded /\ good < GoodSamples
        THEN [degraded |-> TRUE, bad |-> 0, good |-> good]
        ELSE [degraded |-> FALSE, bad |-> 0, good |-> 0]

(* Faulty: the current path gets no bad samples. *)
EligibleStrict(m, s) ==
  {p \in Paths : m[p].up /\ ~s[p].degraded /\ ~m[p].violating}

(* A candidate without rejection reasons: usable, not degraded, and within *)
(* its SLA, unless it is the current path, which may violate for a while   *)
(* (PENDING_DEGRADATION).                                                  *)
Eligible(m, s) ==
  {p \in Paths : m[p].up /\ ~s[p].degraded /\ (m[p].violating => p = selection.path)}

Pending(m, s) ==
  {p \in Eligible(m, s) : m[p].violating}

(* The sorted candidates of select(), best-effort fallback included. *)
Pool(m, s) ==
  IF Eligible(m, s) # {} \/ FailClosed THEN Eligible(m, s) ELSE {p \in Paths : m[p].up}

Best(m, pool) ==
  CHOOSE p \in pool : \A q \in pool :
    m[p].score < m[q].score \/ (m[p].score = m[q].score /\ PathOrder[p] <= PathOrder[q])

(* improvement >= minimum_improvement_percent, without the division. *)
Improves(new, old) ==
  IF old = 0 THEN 100 >= MinImprovement ELSE 100 * (old - new) >= MinImprovement * old

(* select(): the path taken out of a nonempty pool. *)
Pick(m, s) ==
  LET pool    == Pool(m, s)
      best    == Best(m, pool)
      current == selection.path
      retain  == /\ current \in pool
                 /\ \/ current \in Pending(m, s)
                    \/ selection.hold > 0
                    \/ ~Improves(m[best].score, m[current].score)
  IN  IF retain THEN current ELSE best

(* Faulty: changed is derived from the last decision, which may be none. *)
SwitchesDecision(p) == chosen \notin {None, p}

(* decision.changed for a selected path *)
Switches(p) == selection.path \notin {None, p}
-----------------------------------------------------------------------------
(* LocalFailoverRuntime._run_sla_selection *)

(* A round's measurements reach select(). *)
Measured(m) ==
  /\ pc = "rest"
  /\ calm => m = weather
  /\ weather' = m
  /\ sla' = [p \in Paths |-> Evaluate(sla[p], m[p])]

(* Faulty: the rule is written when the decision changes. *)
WriteOnSwitch(new) == update' = IF new.path = chosen THEN Flushed ELSE new

(* The rule derived from the decision; it is written only when it differs  *)
(* from the one loaded from the file.                                      *)
WriteIfChanged(new) == update' = IF new = rule THEN Flushed ELSE new

Writing == IF update' = Flushed THEN "rest" ELSE "apply"

SelectPath ==
  \E m \in Measurements :
    /\ Measured(m)
    /\ Pool(m, sla') # {}
    /\ LET p == Pick(m, sla')
       IN  /\ chosen' = p
           /\ selection' = [path |-> p, hold |-> IF selection.path = p THEN selection.hold ELSE HoldDownTime]
           /\ WriteIfChanged([path |-> p, blocked |-> FALSE])
           /\ pc' = IF RealTime /\ Switches(p) THEN "resteer" ELSE Writing
    /\ UNCHANGED <<calm, rule, chain, boot, flow>>

(* NO_ELIGIBLE_PATH: the selection is kept, a FAIL_CLOSED rule is blocked. *)
NoEligiblePath ==
  \E m \in Measurements :
    /\ Measured(m)
    /\ Pool(m, sla') = {}
    /\ chosen' = None
    /\ WriteIfChanged([rule EXCEPT !.blocked = FailClosed \/ @])
    /\ pc' = Writing
    /\ UNCHANGED <<calm, selection, rule, chain, boot, flow>>

(* _resteer_rtp: conntrack -U, whose failure is ignored. *)
ResteerRtp ==
  /\ pc = "resteer"
  /\ \/ /\ flow' = IF flow = NoFlow THEN NoFlow ELSE [path |-> chosen, stray |-> FALSE]
     \/ /\ ~calm
        /\ flow' = IF flow = NoFlow THEN NoFlow ELSE [flow EXCEPT !.stray = TRUE]
  /\ pc' = IF update = Flushed THEN "rest" ELSE "apply"
  /\ UNCHANGED <<weather, calm, selection, sla, chosen, update, rule, chain, boot>>

(* _apply_class_marks *)
ApplyClassMarks ==
  /\ pc = "apply"
  /\ chain' = update
  /\ pc' = "persist"
  /\ UNCHANGED <<weather, calm, selection, sla, chosen, update, rule, boot, flow>>

PersistRules ==
  /\ pc = "persist"
  /\ rule' = update
  /\ update' = Flushed
  /\ pc' = "rest"
  /\ UNCHANGED <<weather, calm, selection, sla, chosen, chain, boot, flow>>

Monitor ==
  SelectPath \/ NoEligiblePath \/ ResteerRtp \/ ApplyClassMarks \/ PersistRules

(* The process dies.  A command of _apply_class_marks that fails kills it  *)
(* after the chain has been flushed.                                       *)
Crash ==
  /\ pc # "dead" /\ ~calm
  /\ pc' = "dead"
  /\ chain' \in IF pc = "apply" THEN {chain, Flushed} ELSE {chain}
  /\ selection' = NoSelection /\ sla' = FreshSla /\ chosen' = None /\ update' = Flushed
  /\ flow' = [flow EXCEPT !.stray = flow # NoFlow]
  /\ UNCHANGED <<weather, calm, rule, boot>>
-----------------------------------------------------------------------------
(* install_spoke_dataplane and _start_spoke_failover, in a reconcile that  *)
(* may run at any time, but alongside a live monitor only before calm.     *)
InstallChain ==
  /\ boot = "idle" /\ (calm => pc = "dead")
  /\ chain' = StaticRule
  /\ boot' = "save"
  /\ UNCHANGED <<pc, weather, calm, selection, sla, chosen, update, rule, flow>>

SaveRules ==
  /\ boot = "save"
  /\ rule' = StaticRule
  /\ boot' = "start"
  /\ UNCHANGED <<pc, weather, calm, selection, sla, chosen, update, chain, flow>>

StartMonitor ==
  /\ boot = "start"
  /\ pc' = IF pc = "dead" THEN "rest" ELSE pc
  /\ boot' = "idle"
  /\ UNCHANGED <<weather, calm, selection, sla, chosen, update, rule, chain, flow>>

(* What the chain does with the first packet of a flow: a blocked rule is  *)
(* left out of it, so that the prefix's own mark applies.                  *)
Steered == IF chain.blocked THEN StaticPath ELSE chain.path

(* An RTP flow is pinned: with the first of its packets that is not handed *)
(* to the classifier and so passes the rule that saves its mark in         *)
(* conntrack.  It is stray when it does not follow the selection.          *)
FlowBegins ==
  /\ RealTime /\ flow = NoFlow /\ chain # Flushed
  /\ flow' = [path |-> Steered, stray |-> Steered # selection.path]
  /\ UNCHANGED <<pc, weather, calm, selection, sla, chosen, update, rule, chain, boot>>

FlowEnds ==
  /\ flow # NoFlow
  /\ flow' = NoFlow
  /\ UNCHANGED <<pc, weather, calm, selection, sla, chosen, update, rule, chain, boot>>

Tick ==
  /\ selection.hold > 0
  /\ selection' = [selection EXCEPT !.hold = @ - 1]
  /\ UNCHANGED <<pc, weather, calm, sla, chosen, update, rule, chain, boot, flow>>

Settle ==
  /\ ~calm /\ calm' = TRUE
  /\ UNCHANGED <<pc, weather, selection, sla, chosen, update, rule, chain, boot, flow>>

Bootstrap == SaveRules \/ StartMonitor

Next ==
  \/ Monitor \/ Crash \/ InstallChain \/ Bootstrap
  \/ FlowBegins \/ FlowEnds \/ Tick \/ Settle

(* A live monitor goes on, a reconcile runs to its end, time passes. *)
Spec == Init /\ [][Next]_vars /\ WF_vars(Monitor) /\ WF_vars(Bootstrap) /\ WF_vars(Tick)
-----------------------------------------------------------------------------
(* select() leaves a path only when it may not be used, has used up its    *)
(* bad samples, or, outside the hold-down and while it meets its SLA, has  *)
(* been beaten by a better score: never in the middle of its bad samples.  *)
(* It switches to a path that breaks its SLA, or is still serving its good *)
(* samples, only when no path at all meets the SLA.                        *)
SwitchesForCause ==
  [][ pc' # "dead" /\ selection'.path # selection.path =>
        LET old == selection.path
            new == selection'.path
        IN  /\ \/ old = None \/ ~weather'[old].up \/ sla'[old].degraded
               \/ selection.hold = 0 /\ ~weather'[old].violating
            /\ weather'[new].violating \/ sla'[new].degraded =>
                 /\ ~FailClosed
                 /\ \A p \in Paths : weather'[p].up => weather'[p].violating \/ sla'[p].degraded ]_vars

(* An RTP flow that began on the selected path, or was moved there by      *)
(* _resteer_rtp, is on the selected path whenever the monitor rests: no    *)
(* switch forgets it.  (Flows that begin before the first decision, or     *)
(* between conntrack -U and the new chain, are never moved.)               *)
RtpFollowsSelection ==
  pc = "rest" /\ flow # NoFlow /\ ~flow.stray => flow.path = selection.path

(* The invariant of the composed monitor, bootstrap process and kernel. *)
PathInv == TypeOK /\ RtpFollowsSelection

(* Once the measurements are fixed, the decisions settle on one answer,    *)
(* and when some path meets its SLA they settle on one that does: every    *)
(* bad-sample and recovery window of select() closes.                      *)
SelectionConverges ==
  /\ <>calm => \E p \in Paths \cup {None} : <>[](chosen = p)
  /\ (calm /\ \E p \in Paths : weather[p].up /\ ~weather[p].violating) ~>
       [](pc # "dead" => chosen # None /\ ~weather[chosen].violating)

(* steering-rules.json ends up with the rule of the last decision, also    *)
(* after a reconcile that overlapped the monitor's write.                  *)
FileFollowsDecision ==
  calm ~> [](pc \notin {"apply", "persist"} /\ chosen # None => rule = [path |-> chosen, blocked |-> FALSE])
=============================================================================
