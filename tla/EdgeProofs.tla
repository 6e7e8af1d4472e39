------------------------------ MODULE EdgeProofs ----------------------------
(***************************************************************************)
(* Proofs about a spoke, for every number of slots, tunnels, hubs,         *)
(* prefixes and desired states and every setting of the thresholds: first  *)
(* of the failover monitor by itself (EdgeFailover), then of the monitor   *)
(* and the bootstrap process, which write the same tables, chain and file  *)
(* without a lock (EdgeNode).                                              *)
(***************************************************************************)
EXTENDS EdgeNode, SequenceTheorems, TLAPS


(* The round's bookkeeping: what is still to be handled, which repoint is  *)
(* under way, and that a dead process has left nothing behind.             *)
RoundInv ==
  /\ pc = "rest" => todo = {}
  /\ pc = "steer" => todo = Slots
  /\ pc = "repoint" => job.interface = slot[job.slot].current
  /\ pc = "dead" => /\ todo = {} /\ recoveryStarted = {}
                    /\ \A s \in Slots : slot[s].current = Baseline(s)
                    /\ \A i \in Interfaces : health[i].state = "UNKNOWN"

(* A slot whose recovery is on record but whose deadline emergency_remap   *)
(* erased: once handled it stands on a HEALTHY tunnel and came from a      *)
(* FAILED one; when the next round reaches it, its tunnel is not FAILED    *)
(* and the one it came from is not HEALTHY.                                *)
ArmInv ==
  \A s \in recoveryStarted :
    slot[s].emergency /\ slot[s].drain = NoDeadline =>
      IF s \in todo
      THEN /\ health[slot[s].current].state # "FAILED"
           /\ health[slot[s].previous].state \in {"FAILED", "RECOVERING"}
      ELSE /\ health[slot[s].current].state = "HEALTHY"
           /\ health[slot[s].previous].state = "FAILED"

(* The slots that this round is done with. *)
DoneInv ==
  pc \in {"rest", "slots", "repoint"} =>
    \A s \in Slots \ todo : CurrentFailed(s) => Candidates = {}

-----------------------------------------------------------------------------
(* What one sample can do to a machine. *)
LEMMA ObserveType ==
  ASSUME NEW h \in Health, NEW sample
  PROVE  Observe(h, sample) \in Health
<1> USE HealthThresholds DEF Health, TunnelStates
<1>1. ObserveUsable(h) \in Health
  BY DEF ObserveUsable, Bump
<1>2. ObserveUnusable(h) \in Health
  BY DEF ObserveUnusable, Bump
<1> QED BY <1>1, <1>2 DEF Observe

(* A sample keeps the state of a machine in step with its counters. *)
LEMMA ObserveInv ==
  ASSUME NEW h \in Health, NEW sample,
         h.state = "HEALTHY" => h.failures < SuspectFailures,
         h.state = "FAILED" <=> h.failures = FailedFailures,
         h.state = "SUSPECT" => h.failures >= SuspectFailures
  PROVE  LET g == Observe(h, sample)
         IN  /\ g.state = "HEALTHY" => g.failures < SuspectFailures
             /\ g.state = "FAILED" <=> g.failures = FailedFailures
             /\ g.state = "SUSPECT" => g.failures >= SuspectFailures
             /\ h.state = "FAILED" => g.state \in {"FAILED", "RECOVERING"}
             /\ h.state = "HEALTHY" => g.state # "FAILED"
<1> USE HealthThresholds DEF Health, TunnelStates
<1>1. CASE StaleMeasurement(sample)
  BY <1>1 DEF Observe
<1>2. CASE ~StaleMeasurement(sample) /\ sample.usable
  BY <1>2 DEF Observe, ObserveUsable, Bump
<1>3. CASE ~StaleMeasurement(sample) /\ ~sample.usable
  BY <1>3 DEF Observe, ObserveUnusable, Bump
<1> QED BY <1>1, <1>2, <1>3

(* Time passing keeps a machine's record well typed. *)
LEMMA ElapseType ==
  ASSUME NEW h \in Health
  PROVE  Elapse(h) \in Health /\ Elapse(h).state = h.state /\ Elapse(h).failures = h.failures
<1>1. h.hold \in 0 .. HoldDown
  BY DEF Health
<1>2. (IF h.hold > 0 THEN h.hold - 1 ELSE 0) \in 0 .. HoldDown
  BY <1>1, HealthThresholds
<1> QED BY <1>2 DEF Elapse, Health

(* Every slot has a baseline tunnel, and the idle repoint is well typed. *)
LEMMA BaselineType ==
  /\ \A s \in Slots : Baseline(s) \in Interfaces
  /\ NoJob \in [slot : Slots, interface : Interfaces, left : SUBSET Prefixes]
<1>1. \A s \in Slots : Baseline(s) \in Interfaces
  BY Topology DEF Baseline
<1>2. (CHOOSE s \in Slots : TRUE) \in Slots
  BY Topology
<1>3. (CHOOSE i \in Interfaces : TRUE) \in Interfaces
  BY Topology
<1> QED BY <1>1, <1>2, <1>3 DEF NoJob

(* The memory of a fresh process is well typed. *)
LEMMA FreshType ==
  /\ FreshHealth \in [Interfaces -> Health]
  /\ FreshSlots \in [Slots -> SlotState]
  /\ BaselineTable \in [Slots -> [Prefixes -> Interfaces]]
<1>1. FreshHealth \in [Interfaces -> Health]
  BY HealthThresholds DEF FreshHealth, InitialHealth, Health, TunnelStates
<1>2. FreshSlots \in [Slots -> SlotState]
  BY BaselineType DEF FreshSlots, FreshSlot, SlotState
<1>3. BaselineTable \in [Slots -> [Prefixes -> Interfaces]]
  BY BaselineType DEF BaselineTable
<1> QED BY <1>1, <1>2, <1>3

-----------------------------------------------------------------------------
(* The monitor starts well typed ... *)
LEMMA InitTypeOK == Init => TypeOK
BY BaselineType, FreshType DEF Init, TypeOK

(* The monitor's own memory: all of TypeOK but the kernel's tables, which  *)
(* it shares with the bootstrap process (EdgeNode).                        *)
MemoryOK ==
  /\ pc \in {"rest", "steer", "slots", "repoint", "dead"}
  /\ health \in [Interfaces -> Health]
  /\ slot \in [Slots -> SlotState]
  /\ recoveryStarted \subseteq Slots
  /\ todo \subseteq Slots
  /\ job \in [slot : Slots, interface : Interfaces, left : SUBSET Prefixes]
  /\ calm \in BOOLEAN

(* Every action but a restart keeps the memory well typed, whatever is in  *)
(* the tables.                                                             *)
LEMMA NextMemory ==
  ASSUME MemoryOK, Monitor \/ Crash \/ Tick \/ Settle \/ UNCHANGED vars
  PROVE  MemoryOK'
<1> USE DEF MemoryOK
<1>1. CASE Measure
  <2>1. health' \in [Interfaces -> Health]
    BY <1>1, ObserveType DEF Measure
  <2> QED BY <1>1, <2>1 DEF Measure
<1>2. CASE Steer
  BY <1>2 DEF Steer
<1>3. CASE RepointPrefix
  <2>1. PICK p \in job.left : job' = [job EXCEPT !.left = @ \ {p}]
    BY <1>3 DEF RepointPrefix
  <2>2. job' \in [slot : Slots, interface : Interfaces, left : SUBSET Prefixes]
    BY <2>1
  <2> QED BY <1>3, <2>2 DEF RepointPrefix
<1>4. CASE RepointDone
  BY <1>4, BaselineType DEF RepointDone
<1>5. CASE EndRound
  BY <1>5 DEF EndRound
<1>6. ASSUME NEW s \in Slots, SlotStep(s) PROVE MemoryOK'
  <2> USE DEF Handling, Handled, Recovering
  <2>1. CASE NoReplacement(s)
    BY <2>1 DEF NoReplacement
  <2>2. CASE Failover(s)
    <3>1. PICK i \in Interfaces : EmergencyRemap(s, i) /\ StartRepoint(s, i)
      BY <2>2 DEF Failover
    <3>2. slot' \in [Slots -> SlotState]
      BY <3>1 DEF EmergencyRemap, SlotState
    <3>3. job' \in [slot : Slots, interface : Interfaces, left : SUBSET Prefixes] /\ pc' = "repoint"
      BY <3>1 DEF StartRepoint
    <3> QED BY <2>2, <3>2, <3>3 DEF Failover
  <2>3. CASE Steady(s)
    BY <2>3 DEF Steady
  <2>4. CASE AwaitPrevious(s)
    BY <2>4 DEF AwaitPrevious
  <2>5. CASE BeginRecovery(s)
    <3>1. slot' \in [Slots -> SlotState]
      BY <2>5, Topology DEF BeginRecovery, StartDrain, SlotState
    <3> QED BY <2>5, <3>1 DEF BeginRecovery
  <2>6. CASE KeepDraining(s)
    BY <2>6 DEF KeepDraining
  <2>7. CASE Failback(s)
    <3>1. slot' \in [Slots -> SlotState]
      BY <2>7 DEF Failback, RestorePrevious, SlotState
    <3>2. job' \in [slot : Slots, interface : Interfaces, left : SUBSET Prefixes] /\ pc' = "repoint"
      BY <2>7 DEF Failback, StartRepoint, SlotState
    <3> QED BY <2>7, <3>1, <3>2 DEF Failback
  <2> QED BY <1>6, <2>1, <2>2, <2>3, <2>4, <2>5, <2>6, <2>7 DEF SlotStep
<1>7. CASE Crash
  BY <1>7, BaselineType, FreshType DEF Crash
<1>8. CASE Tick
  <2>1. health' \in [Interfaces -> Health]
    BY <1>8, ElapseType DEF Tick
  <2>2. slot' \in [Slots -> SlotState]
    <3>1. ASSUME NEW s \in Slots
          PROVE  [slot[s] EXCEPT !.drain = IF @ > 0 THEN @ - 1 ELSE @] \in SlotState
      BY Topology DEF SlotState, NoDeadline
    <3> QED BY <1>8, <3>1 DEF Tick
  <2> QED BY <1>8, <2>1, <2>2 DEF Tick
<1>9. CASE Settle
  BY <1>9 DEF Settle
<1>10. CASE UNCHANGED vars
  BY <1>10 DEF vars
<1> QED BY <1>1, <1>2, <1>3, <1>4, <1>5, <1>6, <1>7, <1>8, <1>9, <1>10 DEF Monitor

(* A tunnel's routes are repointed to a tunnel: ip route replace. *)
LEMMA RepointType ==
  ASSUME MemoryOK, RepointPrefix, NEW T, Interfaces \subseteq T, table \in [Slots -> [Prefixes -> T]]
  PROVE  table' \in [Slots -> [Prefixes -> T]]
<1>1. PICK p \in job.left : table' = [table EXCEPT ![job.slot][p] = job.interface]
  BY DEF RepointPrefix
<1>2. job.slot \in Slots /\ job.interface \in T /\ p \in Prefixes
  BY DEF MemoryOK
<1> QED BY <1>1, <1>2

(* ... and every action keeps it so. *)
LEMMA NextTypeOK ==
  ASSUME TypeOK, [Next]_vars
  PROVE  TypeOK'
<1>1. MemoryOK /\ table \in [Slots -> [Prefixes -> Interfaces]]
  BY DEF TypeOK, MemoryOK
<1>2. CASE Restart
  BY <1>2, FreshType DEF Restart, TypeOK
<1>3. CASE RepointPrefix
  <2>1. MemoryOK'
    BY <1>1, <1>3, NextMemory DEF Monitor
  <2>2. table' \in [Slots -> [Prefixes -> Interfaces]]
    BY <1>1, <1>3, RepointType
  <2> QED BY <2>1, <2>2 DEF TypeOK, MemoryOK
<1>4. CASE (Monitor \/ Crash \/ Tick \/ Settle \/ UNCHANGED vars) /\ ~RepointPrefix
  <2>1. MemoryOK'
    BY <1>1, <1>4, NextMemory
  <2>2. UNCHANGED table
    BY <1>4 DEF Monitor, Measure, Steer, RepointDone, EndRound, SlotStep, NoReplacement, Failover, Steady,
                AwaitPrevious, BeginRecovery, KeepDraining, Failback, Crash, Tick, Settle, vars
  <2> QED BY <1>1, <2>1, <2>2 DEF TypeOK, MemoryOK
<1> QED BY <1>2, <1>3, <1>4 DEF Next, Monitor

(* The monitor's state is well typed in every reachable state: timers stay *)
(* within their bounds, counters within their thresholds, and a slot never *)
(* points at something that is not a tunnel of the site.                   *)
THEOREM TypeCorrect == Spec => []TypeOK
<1>1. Init => TypeOK
  BY InitTypeOK
<1>2. TypeOK /\ [Next]_vars => TypeOK'
  BY NextTypeOK
<1> QED BY <1>1, <1>2, PTL DEF Spec
-----------------------------------------------------------------------------
(* Only Measure, Tick and a crash touch the machines; all keep them in     *)
(* step with their counters.                                               *)
LEMMA NextCounters ==
  ASSUME TypeOK, StateMatchesCounters, [Next]_vars
  PROVE  StateMatchesCounters'
<1> USE DEF TypeOK, StateMatchesCounters
<1>1. CASE Measure
  <2>1. PICK probe \in [Interfaces -> {"usable", "unusable", "late"}] :
          health' = [i \in Interfaces |-> Observe(health[i], Probe(probe[i]))]
    BY <1>1 DEF Measure
  <2> QED BY <2>1, ObserveInv
<1>2. CASE Crash
  BY <1>2, HealthThresholds DEF Crash, FreshHealth, InitialHealth
<1>3. CASE Tick
  BY <1>3, ElapseType DEF Tick
<1>4. CASE UNCHANGED health
  BY <1>4
<1> QED
  BY <1>1, <1>2, <1>3, <1>4
  DEF Next, Monitor, SlotStep, Steer, RepointPrefix, RepointDone, EndRound, Restart, Settle, vars,
      NoReplacement, Failover, Steady, AwaitPrevious, BeginRecovery, KeepDraining, Failback

(* The round's bookkeeping survives every action. *)
LEMMA NextRoundInv ==
  ASSUME TypeOK, RoundInv, [Next]_vars
  PROVE  RoundInv'
<1> USE DEF TypeOK, RoundInv
<1>1. CASE Measure \/ Steer \/ EndRound \/ Settle \/ UNCHANGED vars
  BY <1>1 DEF Measure, Steer, EndRound, Settle, vars
<1>2. CASE RepointPrefix
  BY <1>2 DEF RepointPrefix
<1>3. CASE RepointDone
  BY <1>3 DEF RepointDone
<1>4. ASSUME NEW s \in Slots, SlotStep(s) PROVE RoundInv'
  <2> USE DEF Handling, Handled, Recovering
  <2>1. CASE NoReplacement(s) \/ Steady(s) \/ AwaitPrevious(s) \/ KeepDraining(s)
    BY <2>1 DEF NoReplacement, Steady, AwaitPrevious, KeepDraining
  <2>2. CASE Failover(s)
    BY <2>2 DEF Failover, EmergencyRemap, StartRepoint
  <2>3. CASE BeginRecovery(s)
    BY <2>3 DEF BeginRecovery
  <2>4. CASE Failback(s)
    BY <2>4 DEF Failback, RestorePrevious, StartRepoint, SlotState
  <2> QED BY <1>4, <2>1, <2>2, <2>3, <2>4 DEF SlotStep
<1>5. CASE Crash
  BY <1>5 DEF Crash, FreshHealth, FreshSlots, FreshSlot, InitialHealth
<1>6. CASE Restart
  BY <1>6 DEF Restart
<1>7. CASE Tick
  <2>1. \A s \in Slots : slot'[s].current = slot[s].current
    BY <1>7 DEF Tick, SlotState
  <2>2. \A i \in Interfaces : health'[i].state = health[i].state
    BY <1>7, ElapseType DEF Tick
  <2> QED BY <1>7, <2>1, <2>2 DEF Tick
<1> QED BY <1>1, <1>2, <1>3, <1>4, <1>5, <1>6, <1>7 DEF Next, Monitor

(* The heart of DrainArmed: emergency_remap may leave a recovery on record *)
(* without a deadline, and the next round always drops that record before  *)
(* complete_recovery could meet it.                                        *)
LEMMA NextArmInv ==
  ASSUME TypeOK, StateMatchesCounters, RoundInv, ArmInv, [Next]_vars
  PROVE  ArmInv'
<1> USE DEF TypeOK
<1>1. CASE Measure
  <2>1. PICK probe \in [Interfaces -> {"usable", "unusable", "late"}] :
          health' = [i \in Interfaces |-> Observe(health[i], Probe(probe[i]))]
    BY <1>1 DEF Measure
  <2>2. \A i \in Interfaces :
          /\ health[i].state = "FAILED" => health'[i].state \in {"FAILED", "RECOVERING"}
          /\ health[i].state = "HEALTHY" => health'[i].state # "FAILED"
    BY <2>1, ObserveInv DEF StateMatchesCounters
  <2>3. todo = {} /\ todo' = Slots /\ UNCHANGED <<slot, recoveryStarted>>
    BY <1>1 DEF Measure, RoundInv
  <2>4. ASSUME NEW s \in recoveryStarted', (slot[s].emergency /\ slot[s].drain = NoDeadline)'
        PROVE  /\ s \in todo'
               /\ health'[slot'[s].current].state # "FAILED"
               /\ health'[slot'[s].previous].state \in {"FAILED", "RECOVERING"}
    <3>1. s \in Slots /\ s \in recoveryStarted /\ s \notin todo
      BY <2>3
    <3>2. health[slot[s].current].state = "HEALTHY" /\ health[slot[s].previous].state = "FAILED"
      BY <2>3, <2>4, <3>1 DEF ArmInv
    <3>3. slot[s].current \in Interfaces /\ slot[s].previous \in Interfaces
      BY <3>1 DEF SlotState
    <3> QED BY <2>2, <2>3, <3>1, <3>2, <3>3
  <2> QED BY <2>4 DEF ArmInv
<1>2. CASE UNCHANGED <<health, slot, todo>> /\ recoveryStarted' \subseteq recoveryStarted
  BY <1>2 DEF ArmInv
<1>3. CASE Steer \/ RepointPrefix \/ RepointDone \/ EndRound \/ Restart \/ Settle \/ UNCHANGED vars
  BY <1>2, <1>3 DEF Steer, RepointPrefix, RepointDone, EndRound, Restart, Settle, vars
<1>4. ASSUME NEW s \in Slots, SlotStep(s) PROVE ArmInv'
  <2> USE DEF Handling, Handled, Recovering, CurrentFailed, PreviousHealthy
  <2>1. CASE NoReplacement(s) \/ Steady(s) \/ KeepDraining(s)
    BY <1>4, <2>1 DEF NoReplacement, Steady, KeepDraining, ArmInv
  <2>2. CASE Failover(s)
    <3>1. PICK i \in Interfaces : Resolution(s, i) /\ EmergencyRemap(s, i)
      BY <2>2 DEF Failover
    <3>2. health[i].state = "HEALTHY" /\ health[slot[s].current].state = "FAILED"
      BY <2>2, <3>1 DEF Failover, Resolution, Candidates, TargetHealthy
    <3>3. /\ slot'[s].current = i /\ slot'[s].previous = slot[s].current
          /\ \A t \in Slots \ {s} : slot'[t] = slot[t]
      BY <3>1 DEF EmergencyRemap
    <3> QED BY <2>2, <3>2, <3>3 DEF Failover, ArmInv
  <2>3. CASE AwaitPrevious(s)
    BY <2>3 DEF AwaitPrevious, ArmInv
  <2>4. CASE BeginRecovery(s)
    <3>1. slot'[s].drain # NoDeadline /\ \A t \in Slots \ {s} : slot'[t] = slot[t]
      BY <2>4, Topology DEF BeginRecovery, StartDrain, SlotState, NoDeadline
    <3> QED BY <2>4, <3>1 DEF BeginRecovery, ArmInv
  <2>5. CASE Failback(s)
    <3>1. slot'[s].emergency = FALSE /\ \A t \in Slots \ {s} : slot'[t] = slot[t]
      BY <2>5 DEF Failback, RestorePrevious, SlotState
    <3> QED BY <2>5, <3>1 DEF Failback, ArmInv
  <2> QED BY <1>4, <2>1, <2>2, <2>3, <2>4, <2>5 DEF SlotStep
<1>5. CASE Crash
  BY <1>5 DEF Crash, ArmInv
<1>6. CASE Tick
  <2>1. \A i \in Interfaces : health'[i].state = health[i].state
    BY <1>6, ElapseType DEF Tick
  <2>2. \A s \in Slots : /\ slot'[s].current = slot[s].current
                         /\ slot'[s].previous = slot[s].previous
                         /\ slot'[s].emergency = slot[s].emergency
                         /\ slot'[s].drain = IF slot[s].drain > 0 THEN slot[s].drain - 1 ELSE slot[s].drain
    BY <1>6 DEF Tick, SlotState
  <2>3. \A s \in Slots : slot'[s].drain = NoDeadline => slot[s].drain = NoDeadline
    BY <2>2, Topology DEF SlotState, NoDeadline
  <2>4. UNCHANGED <<recoveryStarted, todo>>
    BY <1>6 DEF Tick
  <2>5. \A s \in Slots : slot[s].current \in Interfaces /\ slot[s].previous \in Interfaces
    BY DEF SlotState
  <2> QED BY <2>1, <2>2, <2>3, <2>4, <2>5 DEF ArmInv
<1> QED BY <1>1, <1>3, <1>4, <1>5, <1>6 DEF Next, Monitor

(* A repoint is the only thing that parts table and manager, and it is     *)
(* over only when every prefix has been written.                           *)
LEMMA NextTable ==
  ASSUME TypeOK, RoundInv, TableFollowsManager, [Next]_vars
  PROVE  TableFollowsManager'
<1> USE DEF TypeOK, TableFollowsManager
<1>1. CASE Measure \/ Steer \/ EndRound \/ Settle \/ UNCHANGED vars
  BY <1>1 DEF Measure, Steer, EndRound, Settle, vars
<1>2. CASE RepointPrefix
  <2>1. PICK p \in job.left :
          /\ table' = [table EXCEPT ![job.slot][p] = job.interface]
          /\ job' = [job EXCEPT !.left = @ \ {p}]
    BY <1>2 DEF RepointPrefix
  <2>2. /\ pc = "repoint" /\ job.interface = slot[job.slot].current
        /\ UNCHANGED <<pc, slot>>
    BY <1>2 DEF RepointPrefix, RoundInv
  <2> QED BY <2>1, <2>2
<1>3. CASE RepointDone
  BY <1>3 DEF RepointDone
<1>4. ASSUME NEW s \in Slots, SlotStep(s) PROVE TableFollowsManager'
  <2> USE DEF Handling, Handled, Recovering
  <2>1. CASE NoReplacement(s) \/ Steady(s) \/ AwaitPrevious(s) \/ KeepDraining(s)
    BY <2>1 DEF NoReplacement, Steady, AwaitPrevious, KeepDraining
  <2>2. ASSUME NEW i, StartRepoint(s, i), pc = "slots", UNCHANGED table,
               \A t \in Slots \ {s} : slot'[t] = slot[t]
        PROVE  TableFollowsManager'
    BY <2>2 DEF StartRepoint
  <2>3. CASE Failover(s)
    <3>1. PICK i \in Interfaces : EmergencyRemap(s, i) /\ StartRepoint(s, i)
      BY <2>3 DEF Failover
    <3>2. \A t \in Slots \ {s} : slot'[t] = slot[t]
      BY <3>1 DEF EmergencyRemap
    <3> QED BY <2>2, <2>3, <3>1, <3>2 DEF Failover
  <2>4. CASE BeginRecovery(s)
    <3>1. \A t \in Slots : slot'[t].current = slot[t].current
      BY <2>4 DEF BeginRecovery, StartDrain, SlotState
    <3> QED BY <2>4, <3>1 DEF BeginRecovery
  <2>5. CASE Failback(s)
    <3>1. \A t \in Slots \ {s} : slot'[t] = slot[t]
      BY <2>5 DEF Failback, RestorePrevious
    <3> QED BY <2>2, <2>5, <3>1 DEF Failback
  <2> QED BY <1>4, <2>1, <2>3, <2>4, <2>5 DEF SlotStep
<1>5. CASE Crash
  BY <1>5 DEF Crash
<1>6. CASE Restart
  BY <1>6 DEF Restart, RoundInv, BaselineTable
<1>7. CASE Tick
  <2>1. \A s \in Slots : slot'[s].current = slot[s].current
    BY <1>7 DEF Tick, SlotState
  <2> QED BY <1>7, <2>1 DEF Tick
<1> QED BY <1>1, <1>2, <1>3, <1>4, <1>5, <1>6, <1>7 DEF Next, Monitor

(* Whether a tunnel is a candidate depends on the tunnels' states alone. *)
LEMMA CandidatesStable ==
  ASSUME \A i \in Interfaces : health'[i].state = health[i].state
  PROVE  Candidates' = Candidates
<1>1. \A h : HubState(h)' = HubState(h)
  <2>1. ASSUME NEW h
        PROVE  {health'[i].state : i \in {j \in Interfaces : HubOf[j] = h}}
                 = {health[i].state : i \in {j \in Interfaces : HubOf[j] = h}}
    OBVIOUS
  <2> QED BY <2>1 DEF HubState
<1> QED BY <1>1 DEF Candidates, TargetHealthy

(* A slot that has been handled is on a failed tunnel only for want of a   *)
(* candidate, and stays so until the next measurement.                     *)
LEMMA NextDoneInv ==
  ASSUME TypeOK, RoundInv, DoneInv, [Next]_vars
  PROVE  DoneInv'
<1> USE DEF TypeOK, DoneInv, CurrentFailed
<1>1. CASE Measure \/ Crash
  BY <1>1 DEF Measure, Crash
<1>2. ASSUME UNCHANGED health PROVE Candidates' = Candidates
  BY <1>2, CandidatesStable
<1>3. CASE Steer
  BY <1>3 DEF Steer, RoundInv
<1>4. CASE RepointPrefix \/ RepointDone \/ EndRound \/ Settle \/ UNCHANGED vars
  BY <1>4, <1>2 DEF RepointPrefix, RepointDone, EndRound, Settle, vars
<1>5. ASSUME NEW s \in Slots, SlotStep(s) PROVE DoneInv'
  <2> USE DEF Handling, Handled, Recovering, PreviousHealthy
  <2>0. UNCHANGED health
    BY <1>5 DEF SlotStep, NoReplacement, Failover, Steady, AwaitPrevious, BeginRecovery, KeepDraining, Failback
  <2>1. CASE NoReplacement(s) \/ Steady(s) \/ AwaitPrevious(s) \/ KeepDraining(s)
    BY <1>2, <2>0, <2>1 DEF NoReplacement, Steady, AwaitPrevious, KeepDraining
  <2>2. CASE Failover(s)
    <3>1. PICK i \in Interfaces : Resolution(s, i) /\ EmergencyRemap(s, i)
      BY <2>2 DEF Failover
    <3>2. health[i].state # "FAILED"
      BY <3>1 DEF Resolution, Candidates, TargetHealthy
    <3>3. slot'[s].current = i /\ \A t \in Slots \ {s} : slot'[t] = slot[t]
      BY <3>1 DEF EmergencyRemap
    <3> QED BY <1>2, <2>0, <2>2, <3>2, <3>3 DEF Failover
  <2>3. CASE BeginRecovery(s)
    <3>1. \A t \in Slots : slot'[t].current = slot[t].current
      BY <2>3 DEF BeginRecovery, StartDrain, SlotState
    <3> QED BY <1>2, <2>0, <2>3, <3>1 DEF BeginRecovery
  <2>4. CASE Failback(s)
    <3>1. slot'[s].current = slot[s].previous /\ \A t \in Slots \ {s} : slot'[t] = slot[t]
      BY <2>4 DEF Failback, RestorePrevious, SlotState
    <3> QED BY <1>2, <2>0, <2>4, <3>1 DEF Failback
  <2> QED BY <1>5, <2>1, <2>2, <2>3, <2>4 DEF SlotStep
<1>6. CASE Restart
  BY <1>6 DEF Restart, RoundInv, SlotState
<1>7. CASE Tick
  <2>1. \A s \in Slots : slot'[s].current = slot[s].current /\ slot[s].current \in Interfaces
    BY <1>7 DEF Tick, SlotState
  <2>2. \A i \in Interfaces : health'[i].state = health[i].state
    BY <1>7, ElapseType DEF Tick
  <2> QED BY <1>7, <2>1, <2>2, CandidatesStable DEF Tick
<1> QED BY <1>1, <1>3, <1>4, <1>5, <1>6, <1>7 DEF Next, Monitor

-----------------------------------------------------------------------------
(* The inductive invariant. *)
IndInv == TypeOK /\ StateMatchesCounters /\ RoundInv /\ ArmInv /\ TableFollowsManager /\ DoneInv

(* The conjunction is an inductive invariant of the specification. *)
LEMMA Inductive == Spec => []IndInv
<1>1. Init => IndInv
  <2> SUFFICES ASSUME Init PROVE IndInv
    OBVIOUS
  <2>1. TypeOK
    BY InitTypeOK
  <2>2. StateMatchesCounters
    BY HealthThresholds DEF Init, StateMatchesCounters, FreshHealth, InitialHealth
  <2>3. RoundInv /\ ArmInv
    BY DEF Init, RoundInv, ArmInv
  <2>4. TableFollowsManager
    BY DEF Init, TableFollowsManager, BaselineTable, FreshSlots, FreshSlot
  <2>5. DoneInv
    BY BaselineType DEF Init, DoneInv, CurrentFailed, FreshSlots, FreshSlot, FreshHealth, InitialHealth
  <2> QED BY <2>1, <2>2, <2>3, <2>4, <2>5 DEF IndInv
<1>2. IndInv /\ [Next]_vars => IndInv'
  BY NextTypeOK, NextCounters, NextRoundInv, NextArmInv, NextTable, NextDoneInv DEF IndInv
<1> QED BY <1>1, <1>2, PTL DEF Spec

(* Memory well typed, and states in step with their counters, after any    *)
(* number of rounds, crashes and restarts.                                 *)
THEOREM MonitorInvariant == Spec => []MonitorInv
<1>1. IndInv => MonitorInv
  BY DEF IndInv, MonitorInv
<1> QED BY <1>1, Inductive, PTL

(* No round takes a tunnel from HEALTHY to FAILED or back in one step. *)
THEOREM JumpsNever == Spec => NoDirectJump
<1>1. IndInv /\ [Next]_vars =>
        [\A i \in Interfaces :
           /\ ~(health[i].state = "HEALTHY" /\ health'[i].state = "FAILED")
           /\ ~(health[i].state = "FAILED" /\ health'[i].state = "HEALTHY")]_vars
  <2> SUFFICES ASSUME IndInv, [Next]_vars, NEW i \in Interfaces
               PROVE  /\ ~(health[i].state = "HEALTHY" /\ health'[i].state = "FAILED")
                      /\ ~(health[i].state = "FAILED" /\ health'[i].state = "HEALTHY")
    OBVIOUS
  <2> USE DEF IndInv, TypeOK
  <2>1. CASE Measure
    <3>1. PICK sample : health'[i] = Observe(health[i], sample)
      BY <2>1 DEF Measure
    <3>2. health[i] \in Health
      OBVIOUS
    <3> QED BY <3>1, <3>2, ObserveInv DEF StateMatchesCounters
  <2>2. CASE Tick
    BY <2>2, ElapseType DEF Tick
  <2>3. CASE Crash
    BY <2>3 DEF Crash, FreshHealth, InitialHealth
  <2>4. CASE UNCHANGED health
    BY <2>4
  <2> QED
    BY <2>1, <2>2, <2>3, <2>4
    DEF Next, Monitor, SlotStep, Steer, RepointPrefix, RepointDone, EndRound, Restart, Settle, vars,
        NoReplacement, Failover, Steady, AwaitPrevious, BeginRecovery, KeepDraining, Failback
<1> QED BY <1>1, Inductive, PTL DEF Spec, NoDirectJump

(* complete_recovery never meets a slot in recovery whose deadline         *)
(* emergency_remap has erased, so a failback is never wedged.              *)
THEOREM DrainAlwaysArmed == Spec => []DrainArmed
<1>1. IndInv => DrainArmed
  BY DEF IndInv, ArmInv, DrainArmed, CurrentFailed, PreviousHealthy
<1> QED BY <1>1, Inductive, PTL

(* The kernel tables follow the manager except while repoint is rewriting  *)
(* them, whatever dies in between.                                         *)
THEOREM TablesFollowManager == Spec => []TableFollowsManager
<1>1. IndInv => TableFollowsManager
  BY DEF IndInv
<1> QED BY <1>1, Inductive, PTL

(* A finished round leaves no slot on a FAILED tunnel while a healthy one  *)
(* could be resolved.                                                      *)
THEOREM RoundsLeaveNoSlotBehind == Spec => []NoSlotLeftBehind
<1>1. IndInv => NoSlotLeftBehind
  BY DEF IndInv, RoundInv, DoneInv, NoSlotLeftBehind
<1> QED BY <1>1, Inductive, PTL

(* aggregate_hub never vetoes a HEALTHY tunnel, so the hub test in         *)
(* Target.healthy never withholds one from resolve().                      *)
THEOREM HubsNeverVeto == Spec => []HubNeverVetoes
<1>1. IndInv => HubNeverVetoes
  <2> SUFFICES ASSUME IndInv, NEW i \in Interfaces, health[i].state = "HEALTHY"
               PROVE  TargetHealthy(i)
    BY DEF HubNeverVetoes
  <2>1. "HEALTHY" \in {health[k].state : k \in {j \in Interfaces : HubOf[j] = HubOf[i]}}
    OBVIOUS
  <2> QED BY <2>1 DEF TargetHealthy, HubState, AggregateHub
<1> QED BY <1>1, Inductive, PTL

(* run_once only ever moves a slot onto a tunnel it found HEALTHY. *)
THEOREM OnlyOntoHealthy == Spec => MovesOntoHealthy
<1>1. IndInv /\ [Next]_vars =>
        [\A s \in Slots : pc' # "dead" /\ slot'[s].current # slot[s].current =>
           health[slot'[s].current].state = "HEALTHY"]_vars
  <2> SUFFICES ASSUME IndInv, [Next]_vars, NEW s \in Slots, pc' # "dead",
                      slot'[s].current # slot[s].current
               PROVE  health[slot'[s].current].state = "HEALTHY"
    OBVIOUS
  <2> USE DEF IndInv, TypeOK
  <2>1. CASE UNCHANGED slot
    BY <2>1
  <2>2. CASE Crash
    BY <2>2 DEF Crash
  <2>3. CASE Tick
    BY <2>3 DEF Tick, SlotState
  <2>4. ASSUME NEW t \in Slots, Failover(t) PROVE health[slot'[s].current].state = "HEALTHY"
    <3>1. PICK i \in Interfaces : Resolution(t, i) /\ EmergencyRemap(t, i)
      BY <2>4 DEF Failover
    <3> QED BY <3>1 DEF Resolution, Candidates, TargetHealthy, EmergencyRemap
  <2>5. ASSUME NEW t \in Slots, BeginRecovery(t) PROVE FALSE
    BY <2>5 DEF BeginRecovery, StartDrain, SlotState
  <2>6. ASSUME NEW t \in Slots, Failback(t) PROVE health[slot'[s].current].state = "HEALTHY"
    BY <2>6 DEF Failback, RestorePrevious, Recovering, PreviousHealthy, SlotState
  <2> QED
    BY <2>1, <2>2, <2>3, <2>4, <2>5, <2>6
    DEF Next, Monitor, SlotStep, Measure, Steer, RepointPrefix, RepointDone, EndRound, Restart, Settle, vars,
        NoReplacement, Steady, AwaitPrevious, KeepDraining
<1> QED BY <1>1, Inductive, PTL DEF Spec, MovesOntoHealthy
-----------------------------------------------------------------------------
(* The spoke: monitor, bootstrap process and Policy Service. *)


(* Where a reconcile has confirmed the desired state and goes on with it. *)
Applying == {"policy", "chain", "rules", "spawn"}
Applied == boot \in Applying \/ (boot = "ack" /\ outcome \in {"MATCHED", "VERIFIED"})

(* What a reconcile knows at each of its steps. *)
ReconcileInv ==
  /\ boot # "idle" => central # << >>
  /\ boot = "routes" => /\ offer.version >= confirmed.version /\ offer.route >= confirmed.route
                        /\ \A s \in Slots, p \in Prefixes : <<s, p>> \notin left => table[s][p] # NoRoute
  /\ Applied => confirmed = offer /\ \A s \in Slots, p \in Prefixes : table[s][p] # NoRoute
  /\ boot \in {"chain", "rules"} => snapshot # Nothing
  /\ Applied /\ boot \notin {"policy", "chain"} => chain # Nothing
  /\ Applied /\ boot \notin {"policy", "chain", "rules"} => rules # Nothing

(* A monitor is started after the file was written, and what it has loaded *)
(* from it is never nothing.                                               *)
SteeringInv ==
  /\ pc # "dead" => rules # Nothing
  /\ steering \in [step : {"load", "decide", "persist"}, rules : Contents \cup {Nothing}]
  /\ steering.step # "load" => steering.rules # Nothing

(* The inductive invariant. *)
NodeIndInv == NodeTypeOK /\ MemoryOK /\ ReconcileInv /\ SteeringInv

(* The facts about the constants that the steps need. *)
LEMMA NodeConstants ==
  /\ MaxVersion \in Nat /\ Nothing \notin Contents /\ NoRoute \notin Interfaces
  /\ NoState \in Desired /\ EmptyTable \in [Slots -> [Prefixes -> Interfaces \cup {NoRoute}]]
BY NodeBounds DEF Nothing, NoRoute, NoState, Desired, EmptyTable

(* The latest desired state is one, when there is any. *)
LEMMA LatestType ==
  ASSUME central \in Seq(Contents), Len(central) <= MaxVersion, central # << >>
  PROVE  Latest \in Desired /\ Latest.contents \in Contents
<1>1. Len(central) \in 1 .. Len(central) /\ Len(central) \in 0 .. MaxVersion
  BY NodeConstants
<1>2. central[Len(central)] \in Contents
  BY <1>1
<1> QED BY <1>1, <1>2 DEF Latest, Desired

(* A container that has just been started. *)
LEMMA InitNode == NodeInit => NodeIndInv
<1> SUFFICES ASSUME NodeInit PROVE NodeIndInv
  OBVIOUS
<1> USE DEF NodeInit
<1>1. NodeTypeOK
  BY NodeConstants, FreshType DEF NodeTypeOK, NotSteering
<1>2. MemoryOK
  BY FreshType, BaselineType DEF MemoryOK
<1>3. ReconcileInv /\ SteeringInv
  BY DEF ReconcileInv, SteeringInv, Applied, Applying, NotSteering
<1> QED BY <1>1, <1>2, <1>3 DEF NodeIndInv

(* An inductive step that leaves the monitor's part and the kernel alone   *)
(* has only to keep what the reconcile knows.                              *)
LEMMA BootStep ==
  ASSUME NodeIndInv, UNCHANGED <<vars, steering>>, ReconcileInv',
         central' \in Seq(Contents), Len(central') <= MaxVersion,
         offer' \in Desired, confirmed' \in Desired, wanted' \in BOOLEAN,
         boot' \in {"idle", "check", "routes", "policy", "chain", "rules", "spawn", "ack"},
         left' \subseteq Slots \X Prefixes,
         outcome' \in {"PENDING", "STALE", "EDGE_AHEAD", "MATCHED", "VERIFIED"},
         {rules', chain', snapshot'} \subseteq Contents \cup {Nothing},
         rules # Nothing => rules' # Nothing
  PROVE  NodeIndInv'
<1>1. NodeTypeOK'
  BY DEF NodeIndInv, NodeTypeOK, vars
<1>2. MemoryOK'
  BY DEF NodeIndInv, MemoryOK, vars
<1>3. SteeringInv'
  BY DEF NodeIndInv, SteeringInv, vars
<1> QED BY <1>1, <1>2, <1>3 DEF NodeIndInv

(* The steps of a reconcile, and of the Policy Service. *)
LEMMA BootNode ==
  ASSUME NodeIndInv, Publish \/ RestoreBackup \/ Fetch \/ Refuse \/ Accept \/ Confirm \/ FetchPolicy
                       \/ InstallChain \/ SaveRules \/ Acknowledge \/ AckRejected \/ Abort
  PROVE  NodeIndInv'
<1>1. /\ central \in Seq(Contents) /\ Len(central) <= MaxVersion /\ offer \in Desired /\ confirmed \in Desired
      /\ wanted \in BOOLEAN /\ left \subseteq Slots \X Prefixes
      /\ boot \in {"idle", "check", "routes", "policy", "chain", "rules", "spawn", "ack"}
      /\ outcome \in {"PENDING", "STALE", "EDGE_AHEAD", "MATCHED", "VERIFIED"}
      /\ {rules, chain, snapshot} \subseteq Contents \cup {Nothing}
  BY DEF NodeIndInv, NodeTypeOK
<1>2. ReconcileInv
  BY DEF NodeIndInv
<1> USE DEF ReconcileInv, Applied, Applying
<1>3. CASE Publish
  <2>1. PICK c \in Contents : central' = Append(central, c)
    BY <1>3 DEF Publish
  <2>2. central' \in Seq(Contents) /\ Len(central') <= MaxVersion /\ central' # << >>
    BY <1>1, <1>3, <2>1, NodeConstants DEF Publish
  <2> QED BY <1>1, <1>2, <1>3, <2>2, BootStep DEF Publish, vars
<1>4. CASE RestoreBackup
  <2>1. central' = SubSeq(central, 1, Len(central) - 1) /\ Len(central) > 1
    BY <1>4 DEF RestoreBackup
  <2>2. central' \in Seq(Contents) /\ Len(central') = Len(central) - 1
    <3>1. Len(central) \in Nat /\ Len(central) - 1 \in Int
      BY <1>1
    <3>2. \A i \in 1 .. Len(central) - 1 : central[i] \in Contents
      BY <1>1, <3>1
    <3> DEFINE n == Len(central) - 1
    <3>3. n \in Int /\ \A i \in 1 .. n : central[i] \in Contents
      BY <3>1, <3>2
    <3> HIDE DEF n
    <3>4. SubSeq(central, 1, n) \in Seq(Contents) /\ Len(SubSeq(central, 1, n)) = IF 1 <= n THEN n ELSE 0
      BY <3>3, SubSeqProperties
    <3> QED BY <2>1, <3>1, <3>4 DEF n
  <2>3. Len(central') <= MaxVersion /\ central' # << >>
    <3>1. Len(central) \in Nat /\ Len(central') > 0 /\ Len(<< >>) = 0
      BY <1>1, <2>1, <2>2
    <3> QED BY <1>1, <2>2, <3>1, NodeConstants
  <2> QED BY <1>1, <1>2, <1>4, <2>2, <2>3, BootStep DEF RestoreBackup, vars
<1>5. CASE Fetch
  <2>1. offer' \in Desired
    BY <1>1, <1>5, LatestType DEF Fetch
  <2> QED BY <1>1, <1>2, <1>5, <2>1, BootStep DEF Fetch, vars
<1>6. CASE Refuse
  BY <1>1, <1>2, <1>6, BootStep DEF Refuse, vars
<1>7. CASE Accept
  <2>1. offer.version >= confirmed.version /\ offer.route >= confirmed.route
    BY <1>1, <1>7 DEF Accept, Stale, EdgeAhead, Desired
  <2> QED BY <1>1, <1>2, <1>7, <2>1, BootStep DEF Accept, vars
<1>8. CASE Confirm
  BY <1>1, <1>2, <1>8, BootStep DEF Confirm, vars
<1>9. CASE FetchPolicy
  <2>1. snapshot' \in Contents /\ snapshot' # Nothing
    BY <1>1, <1>2, <1>9, LatestType, NodeConstants DEF FetchPolicy
  <2> QED BY <1>1, <1>2, <1>9, <2>1, BootStep DEF FetchPolicy, vars
<1>10. CASE InstallChain
  BY <1>1, <1>2, <1>10, BootStep DEF InstallChain, vars
<1>11. CASE SaveRules
  BY <1>1, <1>2, <1>11, BootStep DEF SaveRules, vars
<1>12. CASE Acknowledge
  BY <1>1, <1>2, <1>12, BootStep, NodeConstants DEF Acknowledge, BootOver, vars
<1>13. CASE AckRejected
  BY <1>1, <1>2, <1>13, BootStep, NodeConstants DEF AckRejected, BootOver, vars
<1>14. CASE Abort
  BY <1>1, <1>2, <1>14, BootStep, NodeConstants DEF Abort, BootOver, vars
<1> QED BY <1>3, <1>4, <1>5, <1>6, <1>7, <1>8, <1>9, <1>10, <1>11, <1>12, <1>13, <1>14

(* One ip route replace of the bootstrap process. *)
LEMMA WriteNode ==
  ASSUME NodeIndInv, WriteRoute
  PROVE  NodeIndInv'
<1>1. PICK r \in left : table' = [table EXCEPT ![r[1]][r[2]] = Baseline(r[1])] /\ left' = left \ {r}
  BY DEF WriteRoute
<1>2. r[1] \in Slots /\ r[2] \in Prefixes /\ r = <<r[1], r[2]>> /\ left' \subseteq Slots \X Prefixes
  BY <1>1 DEF NodeIndInv, NodeTypeOK
<1>3. Baseline(r[1]) \in Interfaces
  BY <1>2, BaselineType
<1>4. table \in [Slots -> [Prefixes -> Interfaces \cup {NoRoute}]]
  BY DEF NodeIndInv, NodeTypeOK
<1>5. table' \in [Slots -> [Prefixes -> Interfaces \cup {NoRoute}]]
  BY <1>1, <1>2, <1>3, <1>4
<1>6. ASSUME NEW s \in Slots, NEW p \in Prefixes, <<s, p>> \notin left'
      PROVE  table'[s][p] # NoRoute
  <2>1. CASE s = r[1] /\ p = r[2]
    BY <1>1, <1>2, <1>3, <1>4, <2>1, NodeConstants
  <2>2. CASE ~(s = r[1] /\ p = r[2])
    <3>1. <<s, p>> # r /\ <<s, p>> \notin left
      BY <1>1, <1>2, <1>6, <2>2
    <3>2. table[s][p] # NoRoute
      BY <3>1 DEF NodeIndInv, ReconcileInv, WriteRoute
    <3>3. table'[s][p] = table[s][p]
      BY <1>1, <1>2, <1>4, <2>2
    <3> QED BY <3>2, <3>3
  <2> QED BY <2>1, <2>2
<1>7. /\ boot = "routes" /\ boot' = boot
      /\ UNCHANGED <<pc, health, slot, recoveryStarted, todo, job, calm>>
      /\ UNCHANGED <<central, wanted, boot, offer, snapshot, outcome, confirmed, rules, chain, steering>>
  BY DEF WriteRoute
<1>8. NodeTypeOK'
  BY <1>2, <1>5, <1>7 DEF NodeIndInv, NodeTypeOK
<1>9. MemoryOK'
  BY <1>7 DEF NodeIndInv, MemoryOK
<1>10. ReconcileInv'
  BY <1>6, <1>7 DEF NodeIndInv, ReconcileInv, Applied, Applying
<1>11. SteeringInv'
  BY <1>7 DEF NodeIndInv, SteeringInv
<1> QED BY <1>8, <1>9, <1>10, <1>11 DEF NodeIndInv

(* The monitor and time leave what a reconcile knows alone: they write     *)
(* tunnels into the tables and no route out of them.                       *)
LEMMA MonitorNode ==
  ASSUME NodeIndInv, Monitor \/ Tick \/ Settle \/ UNCHANGED vars,
         UNCHANGED <<central, wanted, boot, offer, snapshot, left, outcome, confirmed>>,
         {rules', chain', steering'.rules} \subseteq Contents \cup {Nothing},
         rules # Nothing => rules' # Nothing, chain # Nothing => chain' # Nothing,
         pc # "dead" \/ pc' = "dead", SteeringInv'
  PROVE  NodeIndInv'
<1>1. MemoryOK'
  BY NextMemory DEF NodeIndInv
<1>2. table \in [Slots -> [Prefixes -> Interfaces \cup {NoRoute}]]
  BY DEF NodeIndInv, NodeTypeOK
<1>3. /\ table' \in [Slots -> [Prefixes -> Interfaces \cup {NoRoute}]]
      /\ \A s \in Slots, p \in Prefixes : table[s][p] # NoRoute => table'[s][p] # NoRoute
  <2>1. CASE RepointPrefix
    <3>1. PICK p \in job.left : table' = [table EXCEPT ![job.slot][p] = job.interface]
      BY <2>1 DEF RepointPrefix
    <3>2. job.slot \in Slots /\ job.interface \in Interfaces /\ p \in Prefixes
      BY DEF NodeIndInv, MemoryOK
    <3> QED BY <1>2, <3>1, <3>2, NodeConstants
  <2>2. CASE ~RepointPrefix
    <3>1. UNCHANGED table
      BY <2>2 DEF Monitor, Measure, Steer, RepointDone, EndRound, SlotStep, NoReplacement, Failover, Steady,
                  AwaitPrevious, BeginRecovery, KeepDraining, Failback, Tick, Settle, vars
    <3> QED BY <1>2, <3>1
  <2> QED BY <2>1, <2>2
<1>4. NodeTypeOK'
  BY <1>1, <1>3 DEF NodeIndInv, NodeTypeOK, MemoryOK, SteeringInv
<1>5. ReconcileInv'
  BY <1>3 DEF NodeIndInv, ReconcileInv, Applied, Applying
<1> QED BY <1>1, <1>4, <1>5 DEF NodeIndInv

(* Every step of the node keeps the inductive invariant. *)
LEMMA NextNode ==
  ASSUME NodeIndInv, [NodeNext]_allVars
  PROVE  NodeIndInv'
<1>1. /\ {rules, chain, steering.rules} \subseteq Contents \cup {Nothing}
      /\ SteeringInv /\ ReconcileInv /\ MemoryOK
      /\ steering \in [step : {"load", "decide", "persist"}, rules : Contents \cup {Nothing}]
  BY DEF NodeIndInv, NodeTypeOK, SteeringInv
<1>2. CASE Publish \/ RestoreBackup \/ Fetch \/ Refuse \/ Accept \/ Confirm \/ FetchPolicy
             \/ InstallChain \/ SaveRules \/ Acknowledge \/ AckRejected \/ Abort
  BY <1>2, BootNode
<1>3. CASE WriteRoute
  BY <1>3, WriteNode
<1>4. CASE StartMonitor
  <2>1. rules # Nothing /\ chain # Nothing /\ pc' \in {"rest", "steer", "slots", "repoint", "dead"}
    BY <1>1, <1>4 DEF StartMonitor, ReconcileInv, Applied, Applying, MemoryOK
  <2>2. MemoryOK'
    BY <1>1, <1>4, <2>1 DEF StartMonitor, MemoryOK
  <2>3. NodeTypeOK'
    BY <1>4 DEF StartMonitor, NodeIndInv, NodeTypeOK
  <2>4. ReconcileInv'
    BY <1>1, <1>4, <2>1 DEF StartMonitor, ReconcileInv, Applied, Applying
  <2>5. SteeringInv'
    BY <1>1, <1>4, <2>1 DEF StartMonitor, SteeringInv
  <2> QED BY <2>2, <2>3, <2>4, <2>5 DEF NodeIndInv
<1>5. CASE SteerLoad
  <2>1. rules # Nothing /\ SteeringInv'
    BY <1>1, <1>5 DEF SteerLoad, SteeringInv, vars
  <2> QED BY <1>1, <1>5, <2>1, MonitorNode DEF SteerLoad, vars
<1>6. CASE SteerKeep
  <2>1. pc # "dead" /\ SteeringInv'
    BY <1>1, <1>6 DEF SteerKeep, Steer, SteeringInv, NotSteering
  <2> QED BY <1>1, <1>6, <2>1, MonitorNode DEF SteerKeep, NotSteering, Monitor
<1>7. CASE SteerApply
  <2>1. steering.rules # Nothing /\ SteeringInv'
    BY <1>1, <1>7 DEF SteerApply, SteeringInv, vars
  <2>2. steering'.rules = steering.rules
    BY <1>1, <1>7 DEF SteerApply
  <2> QED BY <1>1, <1>7, <2>1, <2>2, MonitorNode DEF SteerApply, vars
<1>8. CASE SteerPersist
  <2>1. pc # "dead" /\ steering.rules # Nothing /\ SteeringInv'
    BY <1>1, <1>8 DEF SteerPersist, Steer, SteeringInv, NotSteering
  <2> QED BY <1>1, <1>8, <2>1, MonitorNode DEF SteerPersist, NotSteering, Monitor
<1>9. CASE (Measure \/ RepointPrefix \/ RepointDone \/ EndRound \/ \E s \in Slots : SlotStep(s)) /\ UNCHANGED nodeVars
  <2>1. pc # "dead"
    BY <1>9 DEF Measure, RepointPrefix, RepointDone, EndRound, SlotStep, NoReplacement, Failover, Steady,
                AwaitPrevious, BeginRecovery, KeepDraining, Failback, Handling, Recovering
  <2>2. SteeringInv'
    BY <1>1, <1>9, <2>1 DEF nodeVars, SteeringInv
  <2> QED BY <1>1, <1>9, <2>1, <2>2, MonitorNode DEF nodeVars, Monitor
<1>10. CASE MonitorCrash
  <2>1. MemoryOK'
    BY <1>1, <1>10, NextMemory DEF MonitorCrash
  <2>2. NodeTypeOK'
    BY <1>10, <2>1 DEF MonitorCrash, Crash, NodeIndInv, NodeTypeOK, NotSteering, MemoryOK
  <2>3. ReconcileInv'
    BY <1>1, <1>10 DEF MonitorCrash, Crash, ReconcileInv, Applied, Applying
  <2>4. SteeringInv'
    BY <1>10 DEF MonitorCrash, Crash, SteeringInv, NotSteering
  <2> QED BY <2>1, <2>2, <2>3, <2>4 DEF NodeIndInv
<1>11. CASE ContainerRestart
  <2>1. MemoryOK'
    BY <1>1, <1>11, FreshType, BaselineType DEF ContainerRestart, MemoryOK
  <2>2. NodeTypeOK'
    BY <1>11, <2>1, NodeConstants DEF ContainerRestart, BootOver, NodeIndInv, NodeTypeOK, NotSteering, MemoryOK
  <2>3. ReconcileInv' /\ SteeringInv'
    BY <1>11 DEF ContainerRestart, BootOver, ReconcileInv, SteeringInv, Applied, Applying, NotSteering
  <2> QED BY <2>1, <2>2, <2>3 DEF NodeIndInv
<1>12. CASE (Tick \/ Settle \/ UNCHANGED vars) /\ UNCHANGED nodeVars
  <2>1. pc' = pc
    BY <1>12 DEF Tick, Settle, vars
  <2>2. SteeringInv'
    BY <1>1, <1>12, <2>1 DEF nodeVars, SteeringInv
  <2> QED BY <1>1, <1>12, <2>1, <2>2, MonitorNode DEF nodeVars
<1> QED BY <1>2, <1>3, <1>4, <1>5, <1>6, <1>7, <1>8, <1>9, <1>10, <1>11, <1>12
        DEF NodeNext, Bootstrap, MonitorStep, allVars

(* The inductive invariant holds throughout. *)
LEMMA NodeInductive == NodeSpec => []NodeIndInv
<1>1. NodeInit => NodeIndInv
  BY InitNode
<1>2. NodeIndInv /\ [NodeNext]_allVars => NodeIndInv'
  BY NextNode
<1> QED BY <1>1, <1>2, PTL DEF NodeSpec

(* What a reconcile acknowledges as VERIFIED is on disk and in the kernel, *)
(* however monitor, bootstrap and restarts interleave.                     *)
THEOREM NodeInvariant == NodeSpec => []NodeInv
<1>1. NodeIndInv => NodeInv
  BY DEF NodeIndInv, ReconcileInv, Applied, Applying, NodeInv, AckMeansApplied
<1> QED BY <1>1, NodeInductive, PTL

(* No reconcile takes the confirmed state back, from whatever backup the   *)
(* Policy Service was restored.                                            *)
THEOREM ConfirmedForward == NodeSpec => ConfirmedNeverRegresses
<1>1. NodeIndInv /\ [NodeNext]_allVars =>
        [confirmed'.version >= confirmed.version /\ confirmed'.route >= confirmed.route]_allVars
  <2> SUFFICES ASSUME NodeIndInv, [NodeNext]_allVars
               PROVE  confirmed'.version >= confirmed.version /\ confirmed'.route >= confirmed.route
    OBVIOUS
  <2>1. confirmed.version \in Nat /\ confirmed.route \in Nat
    BY NodeConstants DEF NodeIndInv, NodeTypeOK, Desired
  <2>2. CASE Confirm
    BY <2>2 DEF Confirm, NodeIndInv, ReconcileInv
  <2>3. CASE ~Confirm
    <3>1. confirmed' = confirmed
      BY <2>3 DEF NodeNext, Publish, RestoreBackup, Fetch, Bootstrap, Refuse, Accept, WriteRoute, FetchPolicy,
                  InstallChain, SaveRules, StartMonitor, Acknowledge, AckRejected, Abort, MonitorStep, SteerLoad,
                  SteerKeep, SteerApply, SteerPersist, MonitorCrash, ContainerRestart, allVars, nodeVars
    <3> QED BY <2>1, <3>1
  <2> QED BY <2>2, <2>3
<1> QED BY <1>1, NodeInductive, PTL DEF NodeSpec, ConfirmedNeverRegresses
=============================================================================
