------------------------------ MODULE EdgeNode ------------------------------
(***************************************************************************)
(* A whole spoke: the failover monitor (EdgeFailover) and the edge         *)
(* bootstrap process (sdwan/edge_bootstrap.py, reconcile) that applies a   *)
(* desired state with EdgeAgent (sdwan/edge_agent_v5.py), installs the     *)
(* steering rules, starts the monitor and acknowledges.  The two processes *)
(* share the kernel's slot tables, the mangle chain and the file           *)
(* steering-rules.json, without a lock.                                    *)
(*                                                                         *)
(* A desired state is its version, its route version and what it contains. *)
(* Both the compiler and the first activation of a site give it a route    *)
(* version equal to its version.  The active targets are the same in all   *)
(* of them (Baseline).  One reconcile runs at a time, because the runtime  *)
(* that starts it holds a lock; it is asked for by PersistentSiteReconciler *)
(* until it has completed once, and at any time by a management operation. *)
(*                                                                         *)
(* WireGuard interfaces and the per-hub tables that belong to one          *)
(* interface each are applied with the slot tables' first route and are    *)
(* not told apart from it; the classifier and NAT rules of                 *)
(* install_spoke_dataplane are part of the chain.                          *)
(***************************************************************************)
EXTENDS EdgeFailover, Sequences

CONSTANTS
  MaxVersion,  \* bound: how many desired states are published
  Contents     \* what a desired state and its policy snapshot may contain

ASSUME NodeBounds ==
  /\ MaxVersion \in Nat \ {0} /\ Contents # {}
  /\ "nothing" \notin Contents /\ "unrouted" \notin Interfaces

VARIABLES
  central,   \* desired_states of the Policy Service: version -> contents
  wanted,    \* PersistentSiteReconciler has not completed this site yet
  boot,      \* where the bootstrap process is
  offer,     \* desired state it has fetched
  snapshot,  \* contents of the policy snapshot it has fetched
  left,      \* slot-table routes it has still to write
  outcome,   \* its ReconciliationResult
  confirmed, \* file last-confirmed.json
  rules,     \* file steering-rules.json: contents it was derived from
  chain,     \* kernel: contents the mangle chain was derived from
  steering   \* the monitor's SLA pass: step, and the rules it has loaded

nodeVars == <<central, wanted, boot, offer, snapshot, left, outcome, confirmed, rules, chain, steering>>
allVars == <<vars, nodeVars>>

NoRoute == "unrouted"
Nothing == "nothing"
NoState == [version |-> 0, route |-> 0, contents |-> Nothing]
Desired == [version : 0 .. MaxVersion, route : 0 .. MaxVersion, contents : Contents \cup {Nothing}]

EmptyTable == [s \in Slots |-> [p \in Prefixes |-> NoRoute]]
NotSteering == [step |-> "load", rules |-> Nothing]

NodeTypeOK ==
  /\ table \in [Slots -> [Prefixes -> Interfaces \cup {NoRoute}]]
  /\ slot \in [Slots -> SlotState] /\ health \in [Interfaces -> Health]
  /\ central \in Seq(Contents) /\ Len(central) <= MaxVersion
  /\ offer \in Desired /\ confirmed \in Desired
  /\ wanted \in BOOLEAN
  /\ boot \in {"idle", "check", "routes", "policy", "chain", "rules", "spawn", "ack"}
  /\ left \subseteq Slots \X Prefixes
  /\ outcome \in {"PENDING", "STALE", "EDGE_AHEAD", "MATCHED", "VERIFIED"}
  /\ {rules, chain, snapshot, steering.rules} \subseteq Contents \cup {Nothing}
  /\ steering.step \in {"load", "decide", "persist"}

(* An enrolled spoke whose container has just been started. *)
NodeInit ==
  /\ pc = "dead" /\ health = FreshHealth /\ slot = FreshSlots
  /\ recoveryStarted = {} /\ todo = {} /\ job = NoJob /\ calm = FALSE
  /\ table = EmptyTable
  /\ central = << >> /\ offer = NoState /\ confirmed = NoState
  /\ wanted = TRUE /\ boot = "idle" /\ left = {} /\ outcome = "PENDING"
  /\ rules = Nothing /\ chain = Nothing /\ snapshot = Nothing /\ steering = NotSteering
-----------------------------------------------------------------------------
(* The Policy Service. *)

(* The compiler, or activate_spoke, publishes the next version. *)
Publish ==
  /\ Len(central) < MaxVersion
  /\ \E c \in Contents : central' = Append(central, c)
  /\ UNCHANGED <<vars, wanted, boot, offer, snapshot, left, outcome, confirmed, rules, chain, steering>>

(* The policy database is restored from a backup that is one version old. *)
RestoreBackup ==
  /\ Len(central) > 1 /\ ~calm
  /\ central' = SubSeq(central, 1, Len(central) - 1)
  /\ UNCHANGED <<vars, wanted, boot, offer, snapshot, left, outcome, confirmed, rules, chain, steering>>

(* latest_desired_state *)
Latest == [version |-> Len(central), route |-> Len(central), contents |-> central[Len(central)]]

(* ack_desired_state accepts an acknowledgement of what it has stored. *)
Stored(desired) == desired.version <= Len(central) /\ desired.contents = central[desired.version]
-----------------------------------------------------------------------------
(* edge_bootstrap.reconcile, with EdgeAgent.reconcile inside it. *)

(* GET /v1/edge/desired; without a desired state the answer is PENDING and *)
(* the caller tries again later.                                           *)
Fetch ==
  /\ boot = "idle" /\ central # << >>
  /\ offer' = Latest
  /\ boot' = "check"
  /\ UNCHANGED <<vars, central, wanted, snapshot, left, outcome, confirmed, rules, chain, steering>>

Stale == offer.version < confirmed.version
EdgeAhead == ~Stale /\ offer.route < confirmed.route
Matched == offer.version = confirmed.version /\ offer.contents = confirmed.contents

Refuse ==
  /\ boot = "check" /\ (Stale \/ EdgeAhead)
  /\ outcome' = IF Stale THEN "STALE" ELSE "EDGE_AHEAD"
  /\ boot' = "ack"
  /\ UNCHANGED <<vars, central, wanted, offer, snapshot, left, confirmed, rules, chain, steering>>

(* Faulty: a matching desired state is taken to be in the kernel; nothing  *)
(* is refused.                                                             *)
AcceptSkipping ==
  /\ boot = "check" /\ ~Stale /\ ~EdgeAhead
  /\ left' = IF Matched THEN {} ELSE Slots \X Prefixes
  /\ boot' = "routes"
  /\ UNCHANGED <<vars, central, wanted, offer, snapshot, outcome, confirmed, rules, chain, steering>>

AcceptAnything ==
  /\ boot = "check"
  /\ left' = Slots \X Prefixes
  /\ boot' = "routes"
  /\ UNCHANGED <<vars, central, wanted, offer, snapshot, outcome, confirmed, rules, chain, steering>>

(* A matching desired state is applied again like a new one: the kernel    *)
(* may have lost it.                                                       *)
Accept ==
  /\ boot = "check" /\ ~Stale /\ ~EdgeAhead
  /\ left' = Slots \X Prefixes
  /\ boot' = "routes"
  /\ UNCHANGED <<vars, central, wanted, offer, snapshot, outcome, confirmed, rules, chain, steering>>

(* _apply_active_slot_routes, one ip route replace. *)
WriteRoute ==
  /\ boot = "routes"
  /\ \E r \in left :
       /\ table' = [table EXCEPT ![r[1]][r[2]] = Baseline(r[1])]
       /\ left' = left \ {r}
  /\ UNCHANGED <<pc, health, slot, recoveryStarted, todo, job, calm>>
  /\ UNCHANGED <<central, wanted, boot, offer, snapshot, outcome, confirmed, rules, chain, steering>>

Confirm ==
  /\ boot = "routes" /\ left = {}
  /\ outcome' = IF Matched THEN "MATCHED" ELSE "VERIFIED"
  /\ confirmed' = offer
  /\ boot' = "policy"
  /\ UNCHANGED <<vars, central, wanted, offer, snapshot, left, rules, chain, steering>>

(* GET /v1/edge/policy: the Policy Service derives the snapshot from what  *)
(* it has by now.                                                          *)
FetchPolicy ==
  /\ boot = "policy"
  /\ snapshot' = Latest.contents
  /\ boot' = "chain"
  /\ UNCHANGED <<vars, central, wanted, offer, left, outcome, confirmed, rules, chain, steering>>

(* install_spoke_dataplane: the mangle chain, then steering-rules.json. *)
InstallChain ==
  /\ boot = "chain"
  /\ chain' = snapshot
  /\ boot' = "rules"
  /\ UNCHANGED <<vars, central, wanted, offer, snapshot, left, outcome, confirmed, rules, steering>>

SaveRules ==
  /\ boot = "rules"
  /\ rules' = snapshot
  /\ boot' = "spawn"
  /\ UNCHANGED <<vars, central, wanted, offer, snapshot, left, outcome, confirmed, chain, steering>>

(* Faulty: the monitor is started for a new desired state only. *)
StartMonitorOnNew ==
  /\ boot = "spawn"
  /\ boot' = "ack"
  /\ pc' = IF pc = "dead" /\ outcome = "VERIFIED" THEN "rest" ELSE pc
  /\ UNCHANGED <<health, slot, recoveryStarted, todo, job, table, calm>>
  /\ UNCHANGED <<central, wanted, offer, snapshot, left, outcome, confirmed, rules, chain, steering>>

(* _start_spoke_failover: unless the recorded pid is a live monitor. *)
StartMonitor ==
  /\ boot = "spawn"
  /\ boot' = "ack"
  /\ pc' = IF pc = "dead" THEN "rest" ELSE pc
  /\ UNCHANGED <<health, slot, recoveryStarted, todo, job, table, calm>>
  /\ UNCHANGED <<central, wanted, offer, snapshot, left, outcome, confirmed, rules, chain, steering>>

BootOver ==
  boot' = "idle" /\ offer' = NoState /\ snapshot' = Nothing /\ left' = {} /\ outcome' = "PENDING"

(* POST /v1/edge/ack; the reconciler is content with any answer but        *)
(* PENDING.  MATCHED is reported as VERIFIED.                              *)
Acknowledge ==
  /\ boot = "ack" /\ Stored(offer)
  /\ BootOver /\ wanted' = FALSE
  /\ UNCHANGED <<vars, central, confirmed, rules, chain, steering>>

(* VersionConflict: a backup was restored after the state was handed out.  *)
AckRejected ==
  /\ boot = "ack" /\ ~Stored(offer)
  /\ BootOver
  /\ UNCHANGED <<vars, central, wanted, confirmed, rules, chain, steering>>

(* A command, a request or the process fails; the reconciler tries again. *)
Abort ==
  /\ boot # "idle" /\ ~calm
  /\ BootOver
  /\ UNCHANGED <<vars, central, wanted, confirmed, rules, chain, steering>>

Bootstrap ==
  \/ Refuse \/ Accept \/ WriteRoute \/ Confirm \/ FetchPolicy \/ InstallChain \/ SaveRules
  \/ StartMonitor \/ Acknowledge \/ AckRejected
-----------------------------------------------------------------------------
(* The monitor.  Its SLA pass reads steering-rules.json, and when a class  *)
(* changes its path rewrites the chain and the file from what it read.  A  *)
(* monitor is started after the file has been written, so it is there.     *)

SteerLoad ==
  /\ pc = "steer" /\ steering.step = "load"
  /\ steering' = [step |-> "decide", rules |-> rules]
  /\ UNCHANGED <<vars, central, wanted, boot, offer, snapshot, left, outcome, confirmed, rules, chain>>

SteerKeep ==
  /\ steering.step = "decide"
  /\ Steer
  /\ steering' = NotSteering
  /\ UNCHANGED <<central, wanted, boot, offer, snapshot, left, outcome, confirmed, rules, chain>>

SteerApply ==
  /\ pc = "steer" /\ steering.step = "decide"
  /\ chain' = steering.rules
  /\ steering' = [steering EXCEPT !.step = "persist"]
  /\ UNCHANGED <<vars, central, wanted, boot, offer, snapshot, left, outcome, confirmed, rules>>

SteerPersist ==
  /\ steering.step = "persist"
  /\ Steer
  /\ rules' = steering.rules
  /\ steering' = NotSteering
  /\ UNCHANGED <<central, wanted, boot, offer, snapshot, left, outcome, confirmed, chain>>

(* Everything else in a round is as in EdgeFailover. *)
MonitorStep ==
  \/ SteerLoad \/ SteerKeep \/ SteerApply \/ SteerPersist
  \/ /\ \/ Measure \/ RepointPrefix \/ RepointDone \/ EndRound
        \/ \E s \in Slots : SlotStep(s)
     /\ UNCHANGED nodeVars

MonitorCrash ==
  /\ Crash
  /\ steering' = NotSteering
  /\ UNCHANGED <<central, wanted, boot, offer, snapshot, left, outcome, confirmed, rules, chain>>

(* The container restarts: kernel state and both processes are gone, the   *)
(* files stay, and the relaunched topology wants the site reconciled.      *)
ContainerRestart ==
  /\ ~calm
  /\ pc' = "dead" /\ health' = FreshHealth /\ slot' = FreshSlots
  /\ recoveryStarted' = {} /\ todo' = {} /\ job' = NoJob
  /\ table' = EmptyTable /\ chain' = Nothing
  /\ BootOver
  /\ steering' = NotSteering
  /\ wanted' = TRUE
  /\ UNCHANGED <<calm, central, confirmed, rules>>

NodeNext ==
  \/ Publish \/ RestoreBackup
  \/ Fetch \/ Bootstrap \/ Abort
  \/ MonitorStep \/ MonitorCrash \/ ContainerRestart
  \/ (Tick \/ Settle) /\ UNCHANGED nodeVars

(* A started reconcile runs to its end or fails, a wanted one is started   *)
(* again, a live monitor goes on, time passes.                             *)
NodeSpec ==
  /\ NodeInit /\ [][NodeNext]_allVars
  /\ WF_allVars(Bootstrap) /\ WF_allVars(Fetch /\ wanted)
  /\ WF_allVars(MonitorStep) /\ WF_allVars(Tick /\ UNCHANGED nodeVars)
-----------------------------------------------------------------------------
(* EdgeAgent.reconcile never lets the node fall back to an older desired   *)
(* state, whatever database the Policy Service was restored from.          *)
ConfirmedNeverRegresses ==
  [][confirmed'.version >= confirmed.version /\ confirmed'.route >= confirmed.route]_allVars

(* What is acknowledged as VERIFIED is confirmed on disk, every slot table *)
(* has its routes and the chain is installed, also when the desired state  *)
(* matched one confirmed before the container lost its kernel state.       *)
AckMeansApplied ==
  boot = "ack" /\ outcome \in {"MATCHED", "VERIFIED"} =>
    /\ confirmed = offer
    /\ \A s \in Slots, p \in Prefixes : table[s][p] # NoRoute
    /\ chain # Nothing /\ rules # Nothing

(* The invariant of the node as a whole. *)
NodeInv == NodeTypeOK /\ AckMeansApplied

(* A node that is to be reconciled with a desired state it need not refuse *)
(* ends up with a monitor, a chain and all its routes once nothing fails.  *)
EventuallyForwards ==
  (calm /\ wanted /\ boot = "idle" /\ central # << >> /\ Len(central) >= confirmed.version) ~>
    (pc # "dead" /\ chain # Nothing /\ \A s \in Slots, p \in Prefixes : table[s][p] # NoRoute)
=============================================================================
