--------------------------- MODULE SiteLifecycle ----------------------------
(***************************************************************************)
(* The life of one site: SiteLifecycleCoordinator.create and delete        *)
(* (sdwan/management/lifecycle.py) over three systems that fail on their   *)
(* own: the Policy inventory with its compiler (dynamic_control.py,        *)
(* policy_service_v5.py), the ZTP store, and the topology runtime behind a *)
(* socket (lab_runtime.py, containernet_runtime.py), which serves one      *)
(* request after the other and finishes those whose client has given up.   *)
(* One operation runs at a time; the requests of those that timed out or   *)
(* crashed are served during the ones that follow.  The lab itself, with   *)
(* every container in it, ends and is launched again (topology_v5.py),     *)
(* which restores the ACTIVE sites and reconciles hubs and sites           *)
(* (runtime_restore.py).                                                   *)
(*                                                                         *)
(* One transaction of a store is one step: what happens inside one is the  *)
(* subject of Enrollment and PolicyStore.  Both hubs have registered their *)
(* keys.                                                                   *)
(***************************************************************************)
EXTENDS Integers, Sequences

CONSTANTS
  Numbered,  \* the site is called siteN for some N
  Backlog    \* bound: requests pending at the runtime when an operation begins

ASSUME LifecycleAssumption == Numbered \in BOOLEAN /\ Backlog \in Nat \ {0}

VARIABLES
  policy,    \* the site's rows in the Policy database
  device,    \* its row in the ZTP database
  node,      \* its container, and the identity on the container's volume
  installed, \* hub -> the hub state it has applied
  queue,     \* requests to the topology runtime, the first being served
  served,    \* how far the first one is
  lab,       \* the topology process: how far its launch is, what it restores,
             \* and the target that its reconciler is at
  job,       \* the operation under way: where it is and its local variables
  calm       \* nothing fails any more, and the site is not deleted

vars == <<policy, device, node, installed, queue, served, lab, job, calm>>

None == "none"
Hubs == {"hub1", "hub2"}

Lifecycle == {"ALLOCATING", "TOPOLOGY_CREATED", "ZTP_STAGED", "ENROLLING", "ENROLLED", "REGISTERING",
              "PROVISIONING", "PENDING_HUBS", "RECONCILING", "ACTIVE", "FAILED", "DELETING", "DELETED"}
ActiveConfiguration == Lifecycle \ {"ALLOCATING", "FAILED", "DELETING", "DELETED"}
Stages == {"TOPOLOGY_CREATED", "ZTP_STAGED", "ENROLLING", "PROVISIONING", "RECONCILING", "DELETING"}

(* _TRANSITIONS *)
Transitions ==
  [l \in Lifecycle |->
    CASE l = "ALLOCATING"       -> {"TOPOLOGY_CREATED", "FAILED", "DELETING"}
      [] l = "TOPOLOGY_CREATED" -> {"ZTP_STAGED", "FAILED", "DELETING"}
      [] l = "ZTP_STAGED"       -> {"ENROLLING", "FAILED", "DELETING"}
      [] l = "ENROLLING"        -> {"ENROLLED", "FAILED", "DELETING"}
      [] l = "ENROLLED"         -> {"REGISTERING", "FAILED", "DELETING"}
      [] l = "REGISTERING"      -> {"PROVISIONING", "FAILED", "DELETING"}
      [] l = "PROVISIONING"     -> {"PENDING_HUBS", "RECONCILING", "ACTIVE", "FAILED", "DELETING"}
      [] l = "PENDING_HUBS"     -> {"RECONCILING", "FAILED", "DELETING"}
      [] l = "RECONCILING"      -> {"ACTIVE", "PENDING_HUBS", "FAILED", "DELETING"}
      [] l = "ACTIVE"           -> {"DELETING", "FAILED"}
      [] l = "FAILED"           -> {"TOPOLOGY_CREATED", "PROVISIONING", "RECONCILING", "DELETING"}
      [] l = "DELETING"         -> {"DELETED", "FAILED"}
      [] l = "DELETED"          -> {"ALLOCATING"}]

(* What a hub's desired state says of this site. *)
HubState == [peer : BOOLEAN, owner : BOOLEAN]

PolicyRows ==
  [life : Lifecycle \cup {None}, failure : Stages \cup {None},
   key : {None, "ACTIVE", "RETIRED"},
   leases : BOOLEAN, owner : BOOLEAN, desired : BOOLEAN,
   hubs : HubState, verified : SUBSET Hubs,
   others : BOOLEAN]   \* another site has a row in route_ownership

ClaimState == {None, "ACTIVE", "CANCELLED"}   \* of a claim that the operation has been given

Requests == [op : {"create", "delete", "bootstrap", "hub1", "hub2", "edge"}, awaited : BOOLEAN, claim : ClaimState]

Jobs == [pc : {"idle", "dispatch", "create", "bootstrap", "hub1", "hub2", "edge", "activate", "owner", "publish",
               "configure", "failed", "revoke", "retire", "delete"},
         seen : Lifecycle \cup {None}, resume : Stages \cup {None}, stage : Stages \cup {None},
         claim : ClaimState, answer : {None, "ok", "error"}]
Idle == [pc |-> "idle", seen |-> None, resume |-> None, stage |-> None, claim |-> None, answer |-> None]

Launching == {"down", "built", "restore", "start"}
Labs == [pc : Launching \cup {"up"}, restored : BOOLEAN, target : Hubs \cup {"edge", None},
         ahead : BOOLEAN]   \* history: the reconciler has made the site ACTIVE by itself

TypeOK ==
  /\ policy \in PolicyRows
  /\ device \in {None, "STAGED", "ACTIVE", "REVOKED"}
  /\ node \in [managed : {"no", "raw", "ready"}, debris : BOOLEAN, identity : BOOLEAN]
  /\ installed \in [Hubs -> HubState]
  /\ queue \in Seq(Requests)
  /\ served \in {"run", "register", "promote"}
  /\ lab \in Labs
  /\ job \in Jobs
  /\ calm \in BOOLEAN

Nothing == [peer |-> FALSE, owner |-> FALSE]

(* The control socket is closed and no container is left. *)
Down == [pc |-> "down", restored |-> FALSE, target |-> None, ahead |-> FALSE]

Init ==
  /\ policy = [life |-> None, failure |-> None, key |-> None, leases |-> FALSE, owner |-> FALSE,
               desired |-> FALSE, hubs |-> Nothing, verified |-> Hubs, others |-> FALSE]
  /\ device = None /\ node = [managed |-> "no", debris |-> FALSE, identity |-> FALSE]
  /\ installed = [h \in Hubs |-> Nothing]
  /\ queue = <<>> /\ served = "run" /\ lab = Down
  /\ job = Idle
  /\ calm = FALSE
-----------------------------------------------------------------------------
(* _effective_changed: once a prefix has an owner, the two never compare   *)
(* equal.                                                                  *)
Unchanged(p, new) == new = p.hubs /\ ~p.owner /\ ~p.others

(* Faulty: hubs learn of a site only when it is ACTIVE. *)
FaultyCompiled(p) ==
  LET new == [peer |-> p.life = "ACTIVE" /\ p.key = "ACTIVE", owner |-> p.owner]
  IN  [p EXCEPT !.hubs = new, !.verified = IF Unchanged(p, new) THEN @ ELSE {}]

(* IntentCompiler.compile: a hub state that differs from the latest one is *)
(* published, and has yet to be verified.                                  *)
Compiled(p) ==
  LET new == [peer |-> p.life \in ActiveConfiguration /\ p.key = "ACTIVE", owner |-> p.owner]
  IN  [p EXCEPT !.hubs = new, !.verified = IF Unchanged(p, new) THEN @ ELSE {}]

(* DynamicInventory.transition, and the compilation after it. *)
Allowed(l) == policy.life = l \/ l \in Transitions[policy.life]
Moved(l, failure) ==
  IF policy.life = l THEN policy ELSE Compiled([policy EXCEPT !.life = l, !.failure = failure])

(* A step of the operation. *)
Work(new) ==
  /\ job' = new
  /\ UNCHANGED <<installed, served, lab, calm>>

(* _transition on the way to pc; an InventoryError ends the operation. *)
Proceed(l, new) ==
  IF Allowed(l)
  THEN policy' = Moved(l, None) /\ Work([new EXCEPT !.seen = l])
  ELSE UNCHANGED policy /\ Work([new EXCEPT !.pc = "failed"])

(* A call of the runtime: the operation waits at the label of the request, *)
(* or learns at once that nobody listens.                                  *)
Send(op, new) ==
  \/ /\ lab.pc = "up"
     /\ queue' = Append(queue, [op |-> op, awaited |-> TRUE, claim |-> new.claim])
     /\ Work([new EXCEPT !.pc = op, !.answer = None])
  \/ /\ lab.pc # "up"
     /\ queue' = queue
     /\ Work([new EXCEPT !.pc = op, !.answer = "error"])

At(label) == job.pc = label
Answered(label) == At(label) /\ job.answer = "ok"
-----------------------------------------------------------------------------
(* create *)

(* An administrator's request. *)
MayCall == At("idle") /\ Len(queue) < Backlog

(* An ACTIVE site is left alone.  Otherwise allocate() inserts the row,    *)
(* reuses a DELETED one, or returns what there is; a siteN is refused when *)
(* any row has its number, its own included.                               *)
Create ==
  /\ MayCall /\ policy.life # "ACTIVE"
  /\ Numbered => policy.life = None
  /\ LET fresh == policy.life \in {None, "DELETED"}
         row   == IF fresh THEN [policy EXCEPT !.life = "ALLOCATING", !.failure = None] ELSE policy
     IN  /\ policy' = Compiled(row)
         /\ Send("create", [Idle EXCEPT !.seen = row.life, !.stage = "TOPOLOGY_CREATED",
                                           !.resume = IF row.life = "FAILED" THEN row.failure ELSE None])
  /\ UNCHANGED <<device, node>>

(* Faulty: a failed creation always starts over. *)
FaultyTopologyCreated ==
  /\ Answered("create")
  /\ LET new == [job EXCEPT !.pc = "dispatch"]
     IN  \/ new.seen \in {"ALLOCATING", "FAILED"} /\ Proceed("TOPOLOGY_CREATED", new)
         \/ /\ new.seen \notin {"ALLOCATING", "FAILED"}
            /\ Work([new EXCEPT !.seen = policy.life])
            /\ UNCHANGED policy
  /\ UNCHANGED <<device, node, queue>>

TopologyCreated ==
  /\ Answered("create")
  /\ LET new == [job EXCEPT !.pc = "dispatch"]
     IN  \/ /\ new.seen = "FAILED" /\ new.resume \in {"PROVISIONING", "RECONCILING"}
            /\ Proceed("PROVISIONING", new)
         \/ /\ new.seen \in {"ALLOCATING", "FAILED"} /\ new.resume \notin {"PROVISIONING", "RECONCILING"}
            /\ Proceed("TOPOLOGY_CREATED", new)
         \/ /\ new.seen \notin {"ALLOCATING", "FAILED"}
            /\ Work([new EXCEPT !.seen = policy.life])
            /\ UNCHANGED policy
  /\ UNCHANGED <<device, node, queue>>

(* stage_and_claim *)
Claimable == device \in {None, "STAGED"}

ClaimRejected(new) ==
  /\ new.claim = None /\ ~Claimable
  /\ Work([new EXCEPT !.pc = "failed"])
  /\ UNCHANGED <<policy, device, node, queue>>

(* A claim, if there is none yet, and the transition it is for. *)
Stage ==
  /\ At("dispatch") /\ job.seen = "TOPOLOGY_CREATED"
  /\ LET new == [job EXCEPT !.stage = "ZTP_STAGED"]
     IN  \/ ClaimRejected(new)
         \/ /\ Claimable
            /\ device' = "STAGED"
            /\ Proceed("ZTP_STAGED", [new EXCEPT !.claim = "ACTIVE"])
            /\ UNCHANGED <<node, queue>>

StartEnrolling ==
  /\ At("dispatch") /\ job.seen = "ZTP_STAGED"
  /\ LET new == [job EXCEPT !.stage = "ENROLLING"]
     IN  \/ ClaimRejected(new)
         \/ /\ new.claim # None \/ Claimable
            /\ device' = IF new.claim # None THEN device ELSE "STAGED"
            /\ Proceed("ENROLLING", [new EXCEPT !.claim = IF @ = None THEN "ACTIVE" ELSE @])
            /\ UNCHANGED <<node, queue>>

Enroll ==
  /\ At("dispatch") /\ job.seen = "ENROLLING"
  /\ \/ ClaimRejected(job)
     \/ /\ job.claim # None \/ Claimable
        /\ device' = IF job.claim # None THEN device ELSE "STAGED"
        /\ Send("bootstrap", [job EXCEPT !.claim = IF @ = None THEN "ACTIVE" ELSE @])
        /\ UNCHANGED <<policy, node>>

(* The record is read again after the bootstrap. *)
Enrolled ==
  /\ Answered("bootstrap")
  /\ Work([job EXCEPT !.seen = policy.life,
       !.pc = IF policy.life \in {"PROVISIONING", "PENDING_HUBS", "RECONCILING", "ACTIVE"} THEN "dispatch" ELSE "failed"])
  /\ UNCHANGED <<policy, device, node, queue>>

(* "Edge bootstrap completed without Policy registration", or it is active *)
(* already.                                                                *)
Unregistered ==
  /\ At("dispatch")
  /\ job.seen \in {"ENROLLED", "REGISTERING", "ALLOCATING", "FAILED", "DELETING", "DELETED"}
  /\ Work([job EXCEPT !.pc = "failed"])
  /\ UNCHANGED <<policy, device, node, queue>>

AlreadyActive ==
  /\ At("dispatch") /\ job.seen = "ACTIVE"
  /\ Work(Idle)
  /\ UNCHANGED <<policy, device, node, queue>>

ReconcileHub1 ==
  /\ At("dispatch") /\ job.seen \in {"PROVISIONING", "PENDING_HUBS", "RECONCILING"}
  /\ Send("hub1", [job EXCEPT !.stage = "PROVISIONING"])
  /\ UNCHANGED <<policy, device, node>>

ReconcileHub2 ==
  /\ Answered("hub1")
  /\ Send("hub2", job)
  /\ UNCHANGED <<policy, device, node>>

HubsReconciled ==
  /\ Answered("hub2")
  /\ Work([job EXCEPT !.pc = "activate"])
  /\ UNCHANGED <<policy, device, node, queue>>

(* activate_spoke: three transactions. *)
HubsReady == policy.key = "ACTIVE" /\ policy.verified = Hubs

PendingHubs ==
  /\ At("activate") /\ ~HubsReady
  /\ IF job.seen = "PENDING_HUBS" THEN Work(Idle) /\ UNCHANGED policy
     ELSE IF Allowed("PENDING_HUBS") THEN Work(Idle) /\ policy' = Moved("PENDING_HUBS", None)
     ELSE Work([job EXCEPT !.pc = "failed"]) /\ UNCHANGED policy
  /\ UNCHANGED <<device, node, queue>>

ExistingDesired ==
  /\ At("activate") /\ HubsReady /\ policy.desired
  /\ Work([job EXCEPT !.pc = "configure"])
  /\ UNCHANGED <<policy, device, node, queue>>

ReserveResources ==
  /\ At("activate") /\ HubsReady /\ ~policy.desired
  /\ policy' = [policy EXCEPT !.leases = TRUE]
  /\ Work([job EXCEPT !.pc = IF policy.leases THEN "failed" ELSE "owner"])
  /\ UNCHANGED <<device, node, queue>>

TransferOwnership ==
  /\ At("owner")
  /\ policy' = [policy EXCEPT !.owner = TRUE]
  /\ Work([job EXCEPT !.pc = "publish"])
  /\ UNCHANGED <<device, node, queue>>

PutDesiredState ==
  /\ At("publish")
  /\ policy' = [policy EXCEPT !.desired = TRUE]
  /\ Work([job EXCEPT !.pc = "configure"])
  /\ UNCHANGED <<device, node, queue>>

(* RECONCILING, and the edge is told to reconcile. *)
Configure ==
  /\ At("configure")
  /\ LET new == [job EXCEPT !.stage = "RECONCILING", !.seen = "RECONCILING"]
     IN  IF job.seen = "RECONCILING" \/ Allowed("RECONCILING")
         THEN /\ policy' = IF job.seen = "RECONCILING" THEN policy ELSE Moved("RECONCILING", None)
              /\ Send("edge", new)
         ELSE Work([new EXCEPT !.pc = "failed"]) /\ UNCHANGED <<policy, queue>>
  /\ UNCHANGED <<device, node>>

Finish ==
  /\ Answered("edge")
  /\ Work(IF policy.life = "ACTIVE" THEN Idle ELSE [job EXCEPT !.pc = "failed"])
  /\ UNCHANGED <<policy, device, node, queue>>
-----------------------------------------------------------------------------
(* delete *)

(* Faulty: the site is DELETING only at the end. *)
FaultyDelete ==
  /\ MayCall /\ ~calm
  /\ policy.life \notin {None, "DELETED"}
  /\ Work([Idle EXCEPT !.pc = "revoke", !.stage = "DELETING", !.seen = "DELETING"])
  /\ UNCHANGED <<policy, device, node, queue>>

Delete ==
  /\ MayCall /\ ~calm
  /\ policy.life \notin {None, "DELETED"} /\ Allowed("DELETING")
  /\ policy' = Moved("DELETING", None)
  /\ Work([Idle EXCEPT !.pc = "revoke", !.stage = "DELETING", !.seen = "DELETING"])
  /\ UNCHANGED <<device, node, queue>>

Cancelled(claim) == IF claim = "ACTIVE" THEN "CANCELLED" ELSE claim

(* revoke_site cancels the claims that are out. *)
RevokeSite ==
  /\ At("revoke")
  /\ device' = IF device = None THEN None ELSE "REVOKED"
  /\ queue' = [i \in DOMAIN queue |-> [queue[i] EXCEPT !.claim = Cancelled(@)]]
  /\ Work([job EXCEPT !.pc = "retire"])
  /\ UNCHANGED <<policy, node>>

RetireKey ==
  /\ At("retire")
  /\ policy' = [policy EXCEPT !.key = IF @ = "ACTIVE" THEN "RETIRED" ELSE @]
  /\ Send("delete", job)
  /\ UNCHANGED <<device, node>>

Deleted ==
  /\ Answered("delete")
  /\ IF Allowed("DELETED") THEN policy' = Moved("DELETED", None) /\ Work(Idle)
     ELSE Work([job EXCEPT !.pc = "failed"]) /\ UNCHANGED policy
  /\ UNCHANGED <<device, node, queue>>
-----------------------------------------------------------------------------
(* Errors of either operation *)

Waiting == {"create", "bootstrap", "hub1", "hub2", "edge", "delete"}

RuntimeError ==
  /\ job.pc \in Waiting /\ job.answer = "error"
  /\ Work([job EXCEPT !.pc = "failed"])
  /\ UNCHANGED <<policy, device, node, queue>>

Abandoned == [i \in DOMAIN queue |-> [queue[i] EXCEPT !.awaited = FALSE]]

(* The client's socket times out; the request is served all the same. *)
Timeout ==
  /\ ~calm /\ job.pc \in Waiting /\ job.answer = None
  /\ Work([job EXCEPT !.pc = "failed"])
  /\ queue' = Abandoned
  /\ UNCHANGED <<policy, device, node>>

(* Faulty: a failed deletion is a failure like any other. *)
FaultyFail ==
  /\ At("failed")
  /\ policy' = IF policy.life \in {"FAILED", "DELETED"} THEN policy ELSE Moved("FAILED", job.stage)
  /\ Work(Idle)
  /\ UNCHANGED <<device, node, queue>>

(* _failure *)
Fail ==
  /\ At("failed")
  /\ policy' = IF policy.life \in {"FAILED", "DELETED", "DELETING"} THEN policy ELSE Moved("FAILED", job.stage)
  /\ Work(Idle)
  /\ UNCHANGED <<device, node, queue>>

(* The management process ends. *)
Crash ==
  /\ ~calm /\ ~At("idle")
  /\ job' = Idle
  /\ queue' = Abandoned
  /\ UNCHANGED <<policy, device, node, installed, served, lab, calm>>
-----------------------------------------------------------------------------
(* The topology runtime serves the first request and answers whoever still *)
(* waits for it.                                                           *)

Serving(op) == queue # <<>> /\ Head(queue).op = op

Answer(result) ==
  /\ queue' = Tail(queue) /\ served' = "run"
  /\ job' = IF Head(queue).awaited THEN [job EXCEPT !.answer = result] ELSE job
  /\ UNCHANGED <<lab, calm>>

(* It returns at once for a site it knows.  Otherwise the nodes are made,  *)
(* where a failure leaves those before it behind, unrecorded (debris); the *)
(* links are made, and all is removed when that fails; then the interfaces *)
(* are configured, where a failure leaves the nodes as they are (raw).     *)
(* When all nodes can be made, no container had been left behind.          *)
CreateSite ==
  /\ Serving("create")
  /\ \/ node.managed # "no" /\ node' = node /\ Answer("ok")
     \/ node.managed = "no" /\ node' = [node EXCEPT !.managed = "ready", !.debris = FALSE] /\ Answer("ok")
     \/ node.managed = "no" /\ ~calm /\ node' = [node EXCEPT !.managed = "raw", !.debris = FALSE] /\ Answer("error")
     \/ node.managed = "no" /\ ~calm /\ node' = [node EXCEPT !.debris = TRUE] /\ Answer("error")
  /\ UNCHANGED <<policy, device, installed>>

DeleteSite ==
  /\ Serving("delete")
  /\ node' = [node EXCEPT !.managed = "no"]
  /\ Answer("ok")
  /\ UNCHANGED <<policy, device, installed>>

(* The edge enrols, if its claim is still good, and stores its certificate *)
(* unless the answer is lost.                                              *)
BootstrapSite ==
  /\ Serving("bootstrap") /\ served = "run"
  /\ node.managed # "no" /\ Head(queue).claim = "ACTIVE"
  /\ device' = "ACTIVE"
  /\ \/ /\ node' = [node EXCEPT !.identity = TRUE]
        /\ served' = "register"
        /\ UNCHANGED <<queue, lab, job, calm>>
     \/ /\ ~calm /\ node' = node
        /\ Answer("error")
  /\ UNCHANGED <<policy, installed>>

(* Policy turns away the edge of a site that is being deleted, and, for    *)
(* registration, one that is not in the configuration.                     *)
Registrable == policy.life \in ActiveConfiguration /\ policy.key # "RETIRED"

RegisterKey ==
  /\ Serving("bootstrap") /\ served = "register" /\ Registrable
  /\ policy' = [policy EXCEPT !.key = "ACTIVE"]
  /\ served' = "promote"
  /\ UNCHANGED <<device, node, installed, queue, lab, job, calm>>

Promotion == [l \in {"ZTP_STAGED", "ENROLLING", "ENROLLED", "REGISTERING"} |->
  CASE l = "ZTP_STAGED" -> "ENROLLING" [] l = "ENROLLING" -> "ENROLLED"
    [] l = "ENROLLED" -> "REGISTERING" [] l = "REGISTERING" -> "PROVISIONING"]

Promote ==
  /\ Serving("bootstrap") /\ served = "promote"
  /\ \/ /\ policy.life \in DOMAIN Promotion
        /\ policy' = Moved(Promotion[policy.life], None)
        /\ UNCHANGED <<served, queue, lab, job, calm>>
     \/ /\ policy.life \notin DOMAIN Promotion
        /\ policy' = Compiled(policy)
        /\ Answer("ok")
  /\ UNCHANGED <<device, node, installed>>

(* A hub applies its latest desired state and acknowledges it, unless the  *)
(* acknowledgement is lost.                                                *)
ReconcileHub(h) ==
  /\ Serving(h)
  /\ installed' = [installed EXCEPT ![h] = policy.hubs]
  /\ \/ policy' = [policy EXCEPT !.verified = @ \cup {h}] /\ Answer("ok")
     \/ ~calm /\ policy' = policy /\ Answer("error")
  /\ UNCHANGED <<device, node>>

(* So does the edge, if there is one; acknowledge_edge makes it ACTIVE. *)
Reconcilable == node.managed # "no" /\ node.identity /\ policy.life \notin {"DELETING", "DELETED"}

AcknowledgeEdge ==
  policy' = IF policy.desired /\ policy.life \in {"PROVISIONING", "RECONCILING"} THEN Moved("ACTIVE", None) ELSE policy

ReconcileEdge ==
  /\ Serving("edge") /\ Reconcilable
  /\ AcknowledgeEdge
  /\ Answer("ok")
  /\ UNCHANGED <<device, node, installed>>

(* Any request may fail, and some must: without the node, without a good   *)
(* claim, turned away by Policy, or perhaps because the node is raw or the *)
(* name of one that was left behind is taken.                              *)
Refused ==
  \/ Serving("bootstrap") /\ served = "run" /\ (node.managed = "no" \/ Head(queue).claim # "ACTIVE")
  \/ Serving("bootstrap") /\ served = "register" /\ ~Registrable
  \/ Serving("edge") /\ ~Reconcilable
  \/ queue # <<>> /\ node.managed = "raw" /\ Head(queue).op \in {"bootstrap", "edge"}
  \/ Serving("create") /\ node.managed = "no" /\ node.debris

RequestFails ==
  /\ queue # <<>> /\ (~calm \/ Refused)
  /\ Answer("error")
  /\ UNCHANGED <<policy, device, node, installed>>

-----------------------------------------------------------------------------
(* The lab *)

(* Its process ends, or a step of its launch raises: every container goes, *)
(* and with it what the hubs had installed; the volumes stay.              *)
LabExit ==
  /\ ~calm /\ lab.pc # "down"
  /\ lab' = Down
  /\ node' = [node EXCEPT !.managed = "no", !.debris = FALSE]
  /\ installed' = [h \in Hubs |-> Nothing]
  /\ queue' = <<>> /\ served' = "run"
  /\ job' = IF job.pc \in Waiting /\ job.answer = None THEN [job EXCEPT !.answer = "error"] ELSE job
  /\ UNCHANGED <<policy, device, calm>>

LaunchStep(from, new) ==
  /\ lab.pc = from /\ lab' = new
  /\ UNCHANGED <<policy, device, installed, queue, served, job, calm>>

(* launch_live: switches, hubs and the sites of the topology file are made *)
(* and checked.                                                            *)
Launch == LaunchStep("down", [lab EXCEPT !.pc = "built"]) /\ UNCHANGED node

LoadActiveDynamicSites ==
  /\ LaunchStep("built", [lab EXCEPT !.pc = "restore", !.restored = policy.life = "ACTIVE"])
  /\ UNCHANGED node

RestoreSite ==
  /\ LaunchStep("restore", [lab EXCEPT !.pc = "start"])
  /\ node' = IF lab.restored THEN [node EXCEPT !.managed = "ready"] ELSE node

(* The control socket is opened; the reconciler starts with the hubs. *)
StartControl == LaunchStep("start", [lab EXCEPT !.pc = "up", !.target = "hub1"]) /\ UNCHANGED node

(* persistent_reconciliation_targets, in their order. *)
NextTarget ==
  CASE lab.target = "hub1" -> "hub2"
    [] lab.target = "hub2" -> IF lab.restored THEN "edge" ELSE None
    [] lab.target = "edge" -> None

(* PersistentSiteReconciler stays at a target until it is reconciled; a    *)
(* request that is being served holds the runtime's lock.                  *)
Reconciler(target) ==
  /\ lab.target = target /\ served = "run"
  /\ UNCHANGED <<device, node, queue, served, job, calm>>

PersistentHub(h) ==
  /\ Reconciler(h)
  /\ installed' = [installed EXCEPT ![h] = policy.hubs]
  /\ \/ policy' = [policy EXCEPT !.verified = @ \cup {h}] /\ lab' = [lab EXCEPT !.target = NextTarget]
     \/ ~calm /\ UNCHANGED <<policy, lab>>

PersistentEdge ==
  /\ Reconciler("edge") /\ Reconcilable /\ policy.desired
  /\ AcknowledgeEdge
  /\ lab' = [lab EXCEPT !.target = NextTarget, !.ahead = policy.life # policy'.life]
  /\ UNCHANGED installed
-----------------------------------------------------------------------------
(* The compilation for another site's change publishes new hub states. *)
OtherSiteChanges ==
  /\ ~calm /\ \E others \in {policy.others, TRUE} : policy' = [policy EXCEPT !.verified = {}, !.others = others]
  /\ UNCHANGED <<device, node, installed, queue, served, lab, job, calm>>

(* From now on nothing fails, no other site changes, and this one is not   *)
(* deleted.                                                                *)
Settle ==
  /\ ~calm /\ calm' = TRUE
  /\ UNCHANGED <<policy, device, node, installed, queue, served, lab, job>>

Operate ==
  \/ TopologyCreated \/ Stage \/ StartEnrolling \/ Enroll \/ Enrolled
  \/ Unregistered \/ AlreadyActive \/ ReconcileHub1 \/ ReconcileHub2 \/ HubsReconciled
  \/ PendingHubs \/ ExistingDesired \/ ReserveResources \/ TransferOwnership \/ PutDesiredState
  \/ Configure \/ Finish
  \/ RevokeSite \/ RetireKey \/ Deleted
  \/ RuntimeError \/ Fail

Runtime ==
  \/ CreateSite \/ DeleteSite \/ BootstrapSite \/ RegisterKey \/ Promote
  \/ (\E h \in Hubs : ReconcileHub(h)) \/ ReconcileEdge \/ RequestFails

Lab ==
  \/ Launch \/ LoadActiveDynamicSites \/ RestoreSite \/ StartControl
  \/ (\E h \in Hubs : PersistentHub(h)) \/ PersistentEdge

Next ==
  \/ Create \/ Delete \/ Operate \/ Timeout \/ Crash
  \/ Runtime \/ Lab \/ LabExit \/ OtherSiteChanges \/ Settle

(* Operations, requests and launches that have begun go on; a creation is  *)
(* retried.                                                                *)
Spec ==
  /\ Init /\ [][Next]_vars
  /\ WF_vars(Operate) /\ WF_vars(Runtime) /\ WF_vars(Lab) /\ WF_vars(Create)
-----------------------------------------------------------------------------
(* An ACTIVE site has everything that makes it one: an enrolled device, a  *)
(* registered key, a desired state, and an identity; whatever failed,      *)
(* timed out or crashed on the way, and through the steps of its deletion. *)
(* It has its node whenever the lab is up, also in one launched after the  *)
(* site became ACTIVE.                                                     *)
ActiveIsBacked ==
  policy.life = "ACTIVE" =>
    /\ device = "ACTIVE" /\ policy.key = "ACTIVE" /\ policy.desired /\ node.identity
    /\ lab.pc = "up" => node.managed # "no"

(* "Both hubs must prepare and verify before a spoke becomes `ACTIVE`"     *)
(* (ZTP_SECURITY_MODEL.md:12): both have installed the site's peer, also   *)
(* after a resumed creation that published hub states of its own; and in a *)
(* lab that was launched again each has it once the reconciler is past it. *)
(* (Except when that reconciler itself acknowledges for the edge during a  *)
(* resumed creation: acknowledge_edge does not ask about the hubs.)        *)
AwaitsReconciler(h) ==
  lab.pc # "up" \/ lab.target = "hub1" \/ (lab.target = "hub2" /\ h = "hub2")

HubFirst ==
  policy.life = "ACTIVE" /\ ~lab.ahead => \A h \in Hubs : installed[h].peer \/ AwaitsReconciler(h)

(* "remove dynamic topology -> DELETED" (dynamic_branch_lifecycle.md:68):  *)
(* no node that the runtime has recorded and no key is left of a deleted   *)
(* site, also when requests that the client gave up are served late, or    *)
(* the lab is launched during the deletion.                                *)
DeletedIsGone ==
  policy.life = "DELETED" => node.managed = "no" /\ policy.key # "ACTIVE"

(* The invariant of the lifecycle record against what it stands for, in    *)
(* the inventory, the device table and the topology.                       *)
LifecycleInv == TypeOK /\ ActiveIsBacked /\ DeletedIsGone

(* A deletion that has begun is never overtaken by its own failure, a      *)
(* resumed creation, or an edge that still registers or acknowledges.      *)
DeletionIsFinal ==
  [][policy.life = "DELETING" => policy'.life \in {"DELETING", "DELETED"}]_vars

(* The states from which creation cannot be resumed: the device is revoked *)
(* or was enrolled without being registered; the topology was left half    *)
(* configured or half made; leases were reserved and nothing published;    *)
(* the site is being deleted.                                              *)
Resumable ==
  \/ policy.life \in {"PROVISIONING", "PENDING_HUBS", "RECONCILING", "ACTIVE"}
  \/ policy.life = "FAILED" /\ policy.failure \in {"PROVISIONING", "RECONCILING"}

Stuck ==
  \/ device = "REVOKED" \/ (device = "ACTIVE" /\ ~Resumable)
  \/ node.managed = "raw" \/ node.debris \/ (policy.leases /\ ~policy.desired)
  \/ policy.life \in {"DELETING", "DELETED"}

(* "Create or safely resume one site using its persisted lifecycle"        *)
(* (lifecycle.py:112): once nothing fails any more, repeated creation      *)
(* makes the site ACTIVE, except from those states and as long as no      *)
(* abandoned request is still to be served.                                *)
ResumeCompletes ==
  (calm /\ lab.pc = "up" /\ ~Stuck /\ queue = <<>> /\ At("idle")) ~> (policy.life = "ACTIVE")
=============================================================================
