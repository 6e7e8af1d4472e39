---------------------------- MODULE EdgeFailover ----------------------------
(***************************************************************************)
(* The failover monitor of one spoke: LocalFailoverRuntime.run_once        *)
(* (sdwan/edge_failover_runtime.py), the LocalFailoverManager it drives    *)
(* (sdwan/local_failover.py), the resolver that picks a replacement        *)
(* (sdwan/route_resolver.py) and the kernel route tables it rewrites.      *)
(*                                                                         *)
(* A round measures every tunnel, runs the SLA selection (PathSelection    *)
(* models it; here it is a step that may die), then handles the slots one  *)
(* after the other.  A slot whose route table has to change is repointed   *)
(* one prefix at a time, one ip(8) command each; a command that fails      *)
(* raises CommandError, which nothing catches, so the process dies with    *)
(* part of the table moved.                                                *)
(*                                                                         *)
(* Representation: drain_deadline is kept as the time left until it (as    *)
(* hold_down_until is in TunnelHealth).  manager.slots is a dict whose     *)
(* order does not matter, since slots share nothing that a slot's step     *)
(* writes: a round takes them in any order.  route_version and the event   *)
(* queue only report what happened and are left out, as are the status     *)
(* records.                                                                *)
(***************************************************************************)
EXTENDS TunnelHealth

CONSTANTS
  Transports,
  Slots,          \* route slots, named after their transport
  Interfaces,     \* WireGuard interfaces, one per hub and transport
  Hubs,
  HubOf,          \* interface -> hub it leads to
  TransportOf,    \* interface -> transport it runs over
  TransportIndex, \* transport -> its position in config.transports
  PreferredHub,   \* the site's preferred hub; every other one is standby
  Prefixes,       \* remote prefixes, the same for every interface; repoint
                  \* leaves out the SaaS network, which is not one of them
  DrainTimeout    \* drain_timeout_s, in units of time

ASSUME Topology ==
  /\ HubOf \in [Interfaces -> Hubs]
  /\ TransportOf \in [Interfaces -> Transports]
  /\ TransportIndex \in [Transports -> Nat \ {0}]
  /\ Slots \subseteq Transports /\ Slots # {}
  /\ PreferredHub \in Hubs
  /\ DrainTimeout \in Nat \ {0}
  /\ Prefixes # {}
  /\ \A s \in Slots : \E i \in Interfaces : TransportOf[i] = s /\ HubOf[i] = PreferredHub

VARIABLES
  pc,              \* "rest", "steer", "slots", "repoint" or "dead"
  health,          \* interface -> health record of its TunnelHealthMachine
  slot,            \* slot -> the manager's _SlotState
  recoveryStarted, \* slots whose drain has been started
  todo,            \* slots that this round has not handled yet
  job,             \* the repoint under way: slot, interface, prefixes left
  table,           \* kernel: slot -> prefix -> interface
  calm             \* the environment: from now on all tunnels work and no
                   \* command fails

vars == <<pc, health, slot, recoveryStarted, todo, job, table, calm>>

NoDeadline == -1

(* active_target_by_slot of the desired state: the preferred hub over the  *)
(* slot's own transport.                                                   *)
Baseline(s) == CHOOSE i \in Interfaces : TransportOf[i] = s /\ HubOf[i] = PreferredHub

SlotState == [current   : Interfaces,
              previous  : Interfaces,
              emergency : BOOLEAN,
              drain     : {NoDeadline} \cup (0 .. DrainTimeout)]

NoJob == [slot |-> CHOOSE s \in Slots : TRUE, interface |-> CHOOSE i \in Interfaces : TRUE, left |-> {}]

TypeOK ==
  /\ pc \in {"rest", "steer", "slots", "repoint", "dead"}
  /\ health \in [Interfaces -> Health]
  /\ slot \in [Slots -> SlotState]
  /\ recoveryStarted \subseteq Slots
  /\ todo \subseteq Slots
  /\ job \in [slot : Slots, interface : Interfaces, left : SUBSET Prefixes]
  /\ table \in [Slots -> [Prefixes -> Interfaces]]
  /\ calm \in BOOLEAN

(* The memory of a process that has just been started. *)
FreshSlot(s) == [current |-> Baseline(s), previous |-> Baseline(s), emergency |-> FALSE, drain |-> NoDeadline]
FreshHealth == [i \in Interfaces |-> InitialHealth]
FreshSlots == [s \in Slots |-> FreshSlot(s)]
BaselineTable == [s \in Slots |-> [p \in Prefixes |-> Baseline(s)]]

(* edge_bootstrap starts the monitor after it has applied the desired      *)
(* state, whose active targets fill the slot tables.                       *)
Init ==
  /\ pc = "rest"
  /\ health = FreshHealth
  /\ slot = FreshSlots
  /\ recoveryStarted = {}
  /\ todo = {}
  /\ job = NoJob
  /\ table = BaselineTable
  /\ calm = FALSE
-----------------------------------------------------------------------------
(* Target.healthy for an overlay target. *)
HubState(h) == AggregateHub({health[i].state : i \in {j \in Interfaces : HubOf[j] = h}})
TargetHealthy(i) == health[i].state = "HEALTHY" /\ HubState(HubOf[i]) \in {"HEALTHY", "DEGRADED"}

Candidates == {i \in Interfaces : TargetHealthy(i)}

(* The order in which resolve() goes through the candidates of a slot:     *)
(* its own transport first, then the others as configured; within a        *)
(* transport the preferred hub before the standby.  A transport has one    *)
(* interface per hub, so the metrics that break further ties never count.  *)
Rank(s, i) ==
  2 * (IF TransportOf[i] = s THEN 0 ELSE TransportIndex[TransportOf[i]])
    + (IF HubOf[i] = PreferredHub THEN 0 ELSE 1)

Resolution(s, i) == i \in Candidates /\ \A j \in Candidates : Rank(s, i) <= Rank(s, j)

(* LocalFailoverManager.emergency_remap *)
EmergencyRemap(s, i) ==
  slot' = [slot EXCEPT ![s] = [current |-> i, previous |-> slot[s].current,
                               emergency |-> TRUE, drain |-> NoDeadline]]

(* LocalFailoverManager.begin_recovery *)
StartDrain(s) ==
  slot' = [slot EXCEPT ![s].drain = IF slot[s].emergency THEN DrainTimeout ELSE @]

(* Faulty: the deadline is never looked at. *)
DrainPendingOnFlows(s, flows) ==
  ~slot[s].emergency \/ slot[s].drain = NoDeadline \/ flows

(* LocalFailoverManager.complete_recovery returns None, or restores the    *)
(* previous target, when flows (TRUE: conntrack still lists some) have     *)
(* drained or the deadline has passed.                                     *)
DrainPending(s, flows) ==
  \/ ~slot[s].emergency
  \/ slot[s].drain = NoDeadline
  \/ flows /\ slot[s].drain > 0

RestorePrevious(s) ==
  slot' = [slot EXCEPT ![s].current = slot[s].previous, ![s].emergency = FALSE, ![s].drain = NoDeadline]
-----------------------------------------------------------------------------
(* _probe: the sample of a tunnel that answers, that does not, or whose    *)
(* commands took so long that the sample is stale when it is observed.     *)
(* Sequence numbers come from one counter, so every sample is newer.       *)
Probe(outcome) ==
  [usable |-> outcome = "usable", newer |-> TRUE,
   age |-> IF outcome = "late" THEN StaleAfter + 1 ELSE 0]

(* run_once: probe all tunnels and let each machine observe its result. *)
Measure ==
  /\ pc = "rest"
  /\ \E probe \in [Interfaces -> {"usable", "unusable", "late"}] :
       /\ calm => \A i \in Interfaces : probe[i] = "usable"
       /\ health' = [i \in Interfaces |-> Observe(health[i], Probe(probe[i]))]
  /\ todo' = Slots
  /\ pc' = "steer"
  /\ UNCHANGED <<slot, recoveryStarted, job, table, calm>>

(* run_once: _run_sla_selection has finished. *)
Steer ==
  /\ pc = "steer"
  /\ pc' = "slots"
  /\ UNCHANGED <<health, slot, recoveryStarted, todo, job, table, calm>>

(* Faulty: the previous target counts as recovered once it is not FAILED. *)
PreviousNotFailed(s) == health[slot[s].previous].state # "FAILED"

(* The slot handled next, and whether its current tunnel has failed. *)
Handling(s) == pc = "slots" /\ s \in todo
CurrentFailed(s) == health[slot[s].current].state = "FAILED"
PreviousHealthy(s) == health[slot[s].previous].state = "HEALTHY"
Recovering(s) == Handling(s) /\ ~CurrentFailed(s) /\ slot[s].emergency /\ PreviousHealthy(s)

Handled(s) == todo' = todo \ {s}

(* Faulty: repoints to the target that was current before the change. *)
StartRepointStale(s, i) ==
  /\ job' = [slot |-> s, interface |-> slot[s].current, left |-> Prefixes]
  /\ pc' = "repoint"

StartRepoint(s, i) ==
  /\ job' = [slot |-> s, interface |-> i, left |-> Prefixes]
  /\ pc' = "repoint"

(* run_once: the current tunnel failed and resolve() raises LookupError. *)
NoReplacement(s) ==
  /\ Handling(s) /\ CurrentFailed(s)
  /\ Candidates = {}
  /\ Handled(s)
  /\ UNCHANGED <<pc, health, slot, recoveryStarted, job, table, calm>>

(* run_once: the current tunnel failed and another one takes over.  A      *)
(* drain that was started is not forgotten here.                           *)
Failover(s) ==
  /\ Handling(s) /\ CurrentFailed(s)
  /\ \E i \in Interfaces :
       /\ Resolution(s, i)
       /\ i # slot[s].current
       /\ EmergencyRemap(s, i)
       /\ StartRepoint(s, i)
  /\ Handled(s)
  /\ UNCHANGED <<health, recoveryStarted, table, calm>>

(* Faulty: is_emergency is asked before the current tunnel's state. *)
SteadyFirst(s) ==
  /\ Handling(s) /\ ~slot[s].emergency
  /\ Handled(s)
  /\ UNCHANGED <<pc, health, slot, recoveryStarted, job, table, calm>>

(* run_once: nothing to do for a slot outside an emergency. *)
Steady(s) ==
  /\ Handling(s) /\ ~CurrentFailed(s) /\ ~slot[s].emergency
  /\ Handled(s)
  /\ UNCHANGED <<pc, health, slot, recoveryStarted, job, table, calm>>

(* Faulty: recovery_started is not discarded. *)
AwaitPreviousKeeping(s) ==
  /\ Handling(s) /\ ~CurrentFailed(s) /\ slot[s].emergency /\ ~PreviousHealthy(s)
  /\ Handled(s)
  /\ UNCHANGED <<pc, health, slot, recoveryStarted, job, table, calm>>

(* run_once: "previous target has not recovered". *)
AwaitPrevious(s) ==
  /\ Handling(s) /\ ~CurrentFailed(s) /\ slot[s].emergency /\ ~PreviousHealthy(s)
  /\ recoveryStarted' = recoveryStarted \ {s}
  /\ Handled(s)
  /\ UNCHANGED <<pc, health, slot, job, table, calm>>

(* run_once: "previous target met health threshold; waiting for drain". *)
BeginRecovery(s) ==
  /\ Recovering(s) /\ s \notin recoveryStarted
  /\ StartDrain(s)
  /\ recoveryStarted' = recoveryStarted \cup {s}
  /\ Handled(s)
  /\ UNCHANGED <<pc, health, job, table, calm>>

(* run_once: complete_recovery returned None. *)
KeepDraining(s) ==
  /\ Recovering(s) /\ s \in recoveryStarted
  /\ \E flows \in BOOLEAN : DrainPending(s, flows)
  /\ Handled(s)
  /\ UNCHANGED <<pc, health, slot, recoveryStarted, job, table, calm>>

(* run_once: complete_recovery returned the restored target. *)
Failback(s) ==
  /\ Recovering(s) /\ s \in recoveryStarted
  /\ \E flows \in BOOLEAN : ~DrainPending(s, flows)
  /\ RestorePrevious(s)
  /\ StartRepoint(s, slot[s].previous)
  /\ Handled(s)
  /\ UNCHANGED <<health, recoveryStarted, table, calm>>

(* FailoverRouteActuator.repoint: ip route replace, once per prefix. *)
RepointPrefix ==
  /\ pc = "repoint"
  /\ \E p \in job.left :
       /\ table' = [table EXCEPT ![job.slot][p] = job.interface]
       /\ job' = [job EXCEPT !.left = @ \ {p}]
  /\ UNCHANGED <<pc, health, slot, recoveryStarted, todo, calm>>

(* run_once: repoint has returned; a failback ends the recovery. *)
RepointDone ==
  /\ pc = "repoint" /\ job.left = {}
  /\ recoveryStarted' = IF slot[job.slot].emergency THEN recoveryStarted ELSE recoveryStarted \ {job.slot}
  /\ job' = NoJob
  /\ pc' = "slots"
  /\ UNCHANGED <<health, slot, todo, table, calm>>

(* run_once returns; serve_forever sleeps until the next round. *)
EndRound ==
  /\ pc = "slots" /\ todo = {}
  /\ pc' = "rest"
  /\ UNCHANGED <<health, slot, recoveryStarted, todo, job, table, calm>>

(* A CommandError or a kill ends the process: its memory is lost, the      *)
(* kernel tables stay as they are.                                         *)
Crash ==
  /\ pc # "dead" /\ ~calm
  /\ pc' = "dead"
  /\ health' = FreshHealth /\ slot' = FreshSlots
  /\ recoveryStarted' = {} /\ todo' = {} /\ job' = NoJob
  /\ UNCHANGED <<table, calm>>

(* edge_bootstrap reconcile re-applies the desired state to the kernel and *)
(* starts a new monitor (EdgeNode models it step by step).                 *)
Restart ==
  /\ pc = "dead"
  /\ pc' = "rest"
  /\ table' = BaselineTable
  /\ UNCHANGED <<health, slot, recoveryStarted, todo, job, calm>>

(* Time passes: hold-downs and drain deadlines come closer. *)
Tick ==
  /\ \/ \E i \in Interfaces : health[i].hold > 0
     \/ \E s \in Slots : slot[s].drain > 0
  /\ health' = [i \in Interfaces |-> Elapse(health[i])]
  /\ slot' = [s \in Slots |-> [slot[s] EXCEPT !.drain = IF @ > 0 THEN @ - 1 ELSE @]]
  /\ UNCHANGED <<pc, recoveryStarted, todo, job, table, calm>>

(* The underlay and the commands work from now on. *)
Settle ==
  /\ ~calm /\ calm' = TRUE
  /\ UNCHANGED <<pc, health, slot, recoveryStarted, todo, job, table>>

SlotStep(s) ==
  \/ NoReplacement(s) \/ Failover(s) \/ Steady(s) \/ AwaitPrevious(s)
  \/ BeginRecovery(s) \/ KeepDraining(s) \/ Failback(s)

(* What the monitor process does by itself. *)
Monitor ==
  \/ Measure \/ Steer \/ RepointPrefix \/ RepointDone \/ EndRound
  \/ \E s \in Slots : SlotStep(s)

Next == Monitor \/ Crash \/ Restart \/ Tick \/ Settle

(* serve_forever runs round after round as long as the process lives, and  *)
(* time passes; nothing restarts a dead monitor by itself.                 *)
Spec == Init /\ [][Next]_vars /\ WF_vars(Monitor) /\ WF_vars(Tick)

-----------------------------------------------------------------------------
(* Counters and state of a TunnelHealthMachine never drift apart, whatever *)
(* mix of late, good and bad samples observe() is given and however long   *)
(* the monitor runs: a HEALTHY tunnel keeps a margin of failures below the *)
(* SUSPECT threshold, a SUSPECT one has used it up, and FAILED is the      *)
(* FAILED threshold and nothing else.                                      *)
StateMatchesCounters ==
  \A i \in Interfaces :
    /\ health[i].state = "HEALTHY" => health[i].failures < SuspectFailures
    /\ health[i].state = "FAILED" <=> health[i].failures = FailedFailures
    /\ health[i].state = "SUSPECT" => health[i].failures >= SuspectFailures

(* The monitor's memory is well typed and its machines are consistent. *)
MonitorInv == TypeOK /\ StateMatchesCounters

(* No round declares a tunnel FAILED straight from HEALTHY, or HEALTHY     *)
(* straight from FAILED: routes are moved neither away on one bad sample   *)
(* nor back on one good one.                                               *)
NoDirectJump ==
  [][ \A i \in Interfaces :
        /\ ~(health[i].state = "HEALTHY" /\ health'[i].state = "FAILED")
        /\ ~(health[i].state = "FAILED" /\ health'[i].state = "HEALTHY") ]_vars

(* Outside a repoint, and for every other slot during one, the kernel      *)
(* table of a slot leads where LocalFailoverManager says the slot is, for  *)
(* every prefix.                                                           *)
TableFollowsManager ==
  pc # "dead" =>
    \A s \in Slots, p \in Prefixes :
      \/ table[s][p] = slot[s].current
      \/ pc = "repoint" /\ job.slot = s /\ p \in job.left

(* complete_recovery never meets a missing deadline: whenever a slot in    *)
(* recovery is about to be handled with its current tunnel alive and its   *)
(* previous one healthy, its drain has been started.  recovery_started     *)
(* survives emergency_remap, which erases the deadline, so this hangs on   *)
(* the health machine: the tunnel the remap left is FAILED and cannot be   *)
(* HEALTHY again before a round has seen it otherwise.                     *)
DrainArmed ==
  \A s \in todo \cap recoveryStarted :
    slot[s].emergency /\ ~CurrentFailed(s) /\ PreviousHealthy(s) => slot[s].drain # NoDeadline

(* A healthy tunnel is always a candidate: aggregate_hub never vetoes it   *)
(* because of the other tunnels of its hub.                                *)
HubNeverVetoes ==
  \A i \in Interfaces : health[i].state = "HEALTHY" => TargetHealthy(i)

(* When a round is over, no slot is left on a FAILED tunnel while resolve() *)
(* could have offered a healthy one.                                       *)
NoSlotLeftBehind ==
  pc = "rest" => \A s \in Slots : CurrentFailed(s) => Candidates = {}

(* A slot only ever moves onto a tunnel that the round found HEALTHY, on   *)
(* failover and on failback alike.                                         *)
MovesOntoHealthy ==
  [][ \A s \in Slots : pc' # "dead" /\ slot'[s].current # slot[s].current =>
        health[slot'[s].current].state = "HEALTHY" ]_vars

(* Once the underlay works, every slot leaves its emergency for good,      *)
(* however many flows stay on the detour: the drain timeout sees to it.    *)
EmergencyEnds ==
  (calm /\ pc # "dead") ~> [](pc # "dead" => \A s \in Slots : ~slot[s].emergency)
=============================================================================
