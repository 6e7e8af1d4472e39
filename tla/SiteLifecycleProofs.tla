------------------------ MODULE SiteLifecycleProofs -------------------------
(***************************************************************************)
(* Proofs about the life of a site, for either naming and any backlog of   *)
(* requests at the runtime: what the lifecycle record says is true of the  *)
(* inventory, the device, the topology and the hubs, through abandoned     *)
(* requests that are served late, crashes of the manager and relaunches of *)
(* the lab.                                                                *)
(***************************************************************************)
EXTENDS SiteLifecycle, SequenceTheorems, TLAPS

(* Lifecycle states of a registered site, and the stages that a resumed    *)
(* creation takes up at PROVISIONING.                                      *)
Registered == {"PROVISIONING", "PENDING_HUBS", "RECONCILING", "ACTIVE"}
Resumed == {"PROVISIONING", "RECONCILING"}
Backed == device = "ACTIVE" /\ policy.key = "ACTIVE"

(* Where a creation is after its node has been made.  *)
Provisioning == {"hub1", "hub2", "edge", "activate", "owner", "publish", "configure"}
Deleting == {"revoke", "retire", "delete"}

(* The runtime's queue: a request is awaited only by the operation under   *)
(* way and only as the last one; an operation goes beyond its first        *)
(* request with nothing else in the queue.                                 *)
QueueInv ==
  /\ lab.pc # "up" => queue = <<>>
  /\ served # "run" => queue # <<>> /\ queue[1].op = "bootstrap"
  /\ \A i \in 1 .. Len(queue) :
       /\ queue[i].awaited => i = Len(queue) /\ job.pc = queue[i].op /\ job.answer = None
       /\ i > 1 => queue[i].op \in {"create", "delete"}
       /\ queue[i].op = "delete" => policy.life = "DELETING"
  /\ job.pc \in {"idle", "failed", "revoke", "retire"} \/ (job.pc \in Waiting /\ job.answer = None) \/ queue = <<>>

(* What the operation remembers of the record it has read. *)
StageInv ==
  /\ job.seen \in Registered \/ job.stage \in Resumed \/ job.resume \in Resumed => Backed
  /\ job.pc \in Provisioning => job.stage \in Resumed
  /\ job.pc \in Provisioning \/ (job.pc = "dispatch" /\ job.seen \in Registered) => policy.life \in Registered
  /\ job.pc \in Deleting => /\ policy.life = "DELETING"
                            /\ job.seen = "DELETING" /\ job.stage = "DELETING" /\ job.resume = None
  /\ job.pc = "delete" => policy.key # "ACTIVE"
  /\ job.pc = "delete" /\ job.answer = "ok" =>
       node.managed = "no" /\ (lab.pc = "restore" => ~lab.restored)

(* What the record stands for. *)
LifeInv ==
  /\ policy.life \in Registered \/ (policy.life = "FAILED" /\ policy.failure \in Resumed) => Backed
  /\ served = "register" => device = "ACTIVE" \/ policy.life = "DELETING"
  /\ served = "promote" => Backed \/ policy.life = "DELETING"
  /\ policy.life = "ACTIVE" =>
       /\ policy.desired /\ node.identity
       /\ lab.pc = "restore" => lab.restored
       /\ lab.pc \in {"start", "up"} => node.managed # "no"
  /\ policy.life = "DELETED" =>
       /\ job.pc = "idle" /\ queue = <<>>
       /\ node.managed = "no" /\ policy.key # "ACTIVE" /\ (lab.pc = "restore" => ~lab.restored)
  /\ lab.pc # "up" => lab.target = None

(* What the hubs have. *)
HubsPrepared == \A h \in Hubs : installed[h].peer \/ AwaitsReconciler(h)

HubInv ==
  /\ policy.life \in Registered => policy.hubs.peer
  /\ \A h \in policy.verified : installed[h] = policy.hubs \/ AwaitsReconciler(h)
  /\ policy.life \in Registered /\ (job.pc \in {"owner", "publish", "configure"} \/ Serving("edge")) => HubsPrepared
  /\ lab.target # None \/ lab.pc # "up" => ~lab.ahead
  /\ policy.life = "ACTIVE" /\ ~lab.ahead => HubsPrepared

(* The inductive invariant. *)
SiteInv == TypeOK /\ QueueInv /\ StageInv /\ LifeInv /\ HubInv
-----------------------------------------------------------------------------
(* A deletion is left for DELETED or FAILED only. *)
LEMMA FromDeleting == Transitions["DELETING"] = {"DELETED", "FAILED"}
BY DEF Transitions, Lifecycle

(* What a compilation changes, and what it publishes. *)
LEMMA CompiledFields ==
  ASSUME NEW p \in PolicyRows
  PROVE  LET c == Compiled(p)
         IN  /\ c \in PolicyRows
             /\ c.life = p.life /\ c.failure = p.failure /\ c.key = p.key /\ c.leases = p.leases
             /\ c.owner = p.owner /\ c.desired = p.desired
             /\ c.hubs.peer <=> p.life \in ActiveConfiguration /\ p.key = "ACTIVE"
             /\ c.verified = {} \/ (c.hubs = p.hubs /\ c.verified = p.verified)
<1> DEFINE new == [peer |-> p.life \in ActiveConfiguration /\ p.key = "ACTIVE", owner |-> p.owner]
<1> DEFINE v == IF Unchanged(p, new) THEN p.verified ELSE {}
<1>1. p.owner \in BOOLEAN /\ p.verified \subseteq Hubs
  BY DEF PolicyRows
<1>2. new \in HubState /\ (new.peer <=> p.life \in ActiveConfiguration /\ p.key = "ACTIVE")
  BY <1>1 DEF HubState
<1>3. v \subseteq Hubs /\ (v = {} \/ (new = p.hubs /\ v = p.verified))
  BY <1>1 DEF Unchanged
<1>4. Compiled(p) = [p EXCEPT !.hubs = new, !.verified = v]
  BY Zenon DEF Compiled
<1> HIDE DEF new, v
<1> QED BY <1>2, <1>3, <1>4 DEF PolicyRows

(* What a transition of the record changes. *)
LEMMA MovedFields ==
  ASSUME policy \in PolicyRows, NEW l \in Lifecycle, NEW f \in Stages \cup {None}
  PROVE  LET m == Moved(l, f)
         IN  /\ m \in PolicyRows /\ m.life = l
             /\ m.failure = (IF policy.life = l THEN policy.failure ELSE f)
             /\ m.key = policy.key /\ m.leases = policy.leases /\ m.owner = policy.owner /\ m.desired = policy.desired
             /\ m.verified = {} \/ (m.hubs = policy.hubs /\ m.verified = policy.verified)
             /\ m = policy \/ (m.hubs.peer <=> l \in ActiveConfiguration /\ policy.key = "ACTIVE")
<1>1. CASE policy.life = l
  BY <1>1 DEF Moved
<1>2. CASE policy.life # l
  <2> DEFINE p == [policy EXCEPT !.life = l, !.failure = f]
  <2>1. /\ p \in PolicyRows /\ p.life = l /\ p.failure = f /\ p.key = policy.key /\ p.leases = policy.leases
        /\ p.owner = policy.owner /\ p.desired = policy.desired /\ p.hubs = policy.hubs /\ p.verified = policy.verified
    BY DEF PolicyRows
  <2>2. Moved(l, f) = Compiled(p)
    BY <1>2 DEF Moved
  <2> HIDE DEF p
  <2> QED BY <1>2, <2>1, <2>2, CompiledFields
<1> QED BY <1>1, <1>2

(* _transition on behalf of the operation. *)
LEMMA ProceedFields ==
  ASSUME policy \in PolicyRows, NEW l \in Lifecycle, NEW new \in Jobs, Proceed(l, new)
  PROVE  /\ job' \in Jobs /\ policy' \in PolicyRows /\ UNCHANGED <<installed, served, lab, calm>>
         /\ job'.stage = new.stage /\ job'.resume = new.resume /\ job'.claim = new.claim /\ job'.answer = new.answer
         /\ \/ Allowed(l) /\ policy' = Moved(l, None) /\ job'.pc = new.pc /\ job'.seen = l
            \/ ~Allowed(l) /\ policy' = policy /\ job'.pc = "failed" /\ job'.seen = new.seen
<1>1. CASE Allowed(l)
  <2>1. policy' = Moved(l, None) /\ job' = [new EXCEPT !.seen = l] /\ UNCHANGED <<installed, served, lab, calm>>
    BY <1>1 DEF Proceed, Work
  <2>2. policy' \in PolicyRows
    BY <2>1, MovedFields
  <2> QED BY <1>1, <2>1, <2>2 DEF Jobs
<1>2. CASE ~Allowed(l)
  <2>1. policy' = policy /\ job' = [new EXCEPT !.pc = "failed"] /\ UNCHANGED <<installed, served, lab, calm>>
    BY <1>2 DEF Proceed, Work
  <2> QED BY <1>2, <2>1 DEF Jobs
<1> QED BY <1>1, <1>2

(* A call of the runtime. *)
LEMMA SendFields ==
  ASSUME queue \in Seq(Requests), NEW op \in {"create", "delete", "bootstrap", "hub1", "hub2", "edge"},
         NEW new \in Jobs, Send(op, new)
  PROVE  /\ job' \in Jobs /\ queue' \in Seq(Requests) /\ UNCHANGED <<installed, served, lab, calm>>
         /\ job'.pc = op /\ job'.seen = new.seen /\ job'.stage = new.stage /\ job'.resume = new.resume
         /\ \/ /\ lab.pc = "up" /\ job'.answer = None
               /\ \E r \in Requests : r.op = op /\ r.awaited /\ queue' = Append(queue, r)
            \/ lab.pc # "up" /\ queue' = queue /\ job'.answer = "error"
<1>1. CASE lab.pc = "up"
  <2> DEFINE r == [op |-> op, awaited |-> TRUE, claim |-> new.claim]
  <2>1. queue' = Append(queue, r) /\ job' = [new EXCEPT !.pc = op, !.answer = None] /\ UNCHANGED <<installed, served, lab, calm>>
    BY <1>1 DEF Send, Work
  <2>2. r \in Requests /\ r.op = op /\ r.awaited
    BY DEF Requests, Jobs
  <2> HIDE DEF r
  <2>3. queue' \in Seq(Requests)
    BY <2>1, <2>2
  <2>4. /\ job' \in Jobs /\ job'.pc = op /\ job'.seen = new.seen /\ job'.stage = new.stage /\ job'.resume = new.resume
        /\ job'.answer = None
    BY <2>1 DEF Jobs
  <2> QED BY <1>1, <2>1, <2>2, <2>3, <2>4
<1>2. CASE lab.pc # "up"
  <2>1. queue' = queue /\ job' = [new EXCEPT !.pc = op, !.answer = "error"] /\ UNCHANGED <<installed, served, lab, calm>>
    BY <1>2 DEF Send, Work
  <2>2. /\ job' \in Jobs /\ job'.pc = op /\ job'.seen = new.seen /\ job'.stage = new.stage /\ job'.resume = new.resume
        /\ job'.answer = "error"
    BY <2>1 DEF Jobs
  <2> QED BY <1>2, <2>1, <2>2
<1> QED BY <1>1, <1>2

(* The answer to the request that was served. *)
LEMMA AnswerFields ==
  ASSUME queue \in Seq(Requests), queue # <<>>, job \in Jobs, NEW result \in {"ok", "error"}, Answer(result)
  PROVE  /\ job' \in Jobs /\ queue' \in Seq(Requests) /\ served' = "run" /\ UNCHANGED <<lab, calm>>
         /\ Len(queue') = Len(queue) - 1 /\ \A i \in 1 .. Len(queue') : queue'[i] = queue[i + 1]
         /\ job'.pc = job.pc /\ job'.seen = job.seen /\ job'.stage = job.stage /\ job'.resume = job.resume
         /\ job'.answer = (IF queue[1].awaited THEN result ELSE job.answer)
<1>1. Head(queue) = queue[1]
  OBVIOUS
<1>2. /\ Tail(queue) \in Seq(Requests) /\ Len(Tail(queue)) = Len(queue) - 1
      /\ \A i \in 1 .. Len(Tail(queue)) : Tail(queue)[i] = queue[i + 1]
  BY HeadTailProperties
<1>3. /\ queue' = Tail(queue) /\ served' = "run" /\ UNCHANGED <<lab, calm>>
      /\ job' = IF queue[1].awaited THEN [job EXCEPT !.answer = result] ELSE job
  BY <1>1 DEF Answer
<1>4. /\ job' \in Jobs /\ job'.pc = job.pc /\ job'.seen = job.seen /\ job'.stage = job.stage
      /\ job'.resume = job.resume /\ job'.answer = (IF queue[1].awaited THEN result ELSE job.answer)
  BY <1>3 DEF Jobs
<1> QED BY <1>2, <1>3, <1>4

(* What an operation may do with an empty queue: it moves on, and with it  *)
(* the record and perhaps the device.                                      *)
LEMMA QuietStep ==
  ASSUME SiteInv, queue = <<>>, TypeOK', StageInv', UNCHANGED <<node, queue, installed, served, lab>>,
         device = "ACTIVE" => device' = "ACTIVE",
         policy'.key = policy.key, policy.desired => policy'.desired,
         policy'.verified = {} \/ (policy'.hubs = policy.hubs /\ policy'.verified = policy.verified),
         policy'.life \in Registered \/ (policy'.life = "FAILED" /\ policy'.failure \in Resumed) => Backed,
         policy'.life \in Registered => policy'.hubs.peer,
         policy'.life = "ACTIVE" => policy.life = "ACTIVE",
         policy'.life = "DELETED" => /\ job'.pc = "idle" /\ node.managed = "no" /\ policy.key # "ACTIVE"
                                     /\ lab.pc = "restore" => ~lab.restored,
         job'.pc \in {"owner", "publish", "configure"} => HubsPrepared
  PROVE  SiteInv'
<1> USE DEF None
<1>1. QueueInv'
  BY DEF SiteInv, QueueInv
<1>2. Backed => Backed'
  BY DEF Backed
<1>3. served' = "run"
  BY DEF SiteInv, QueueInv, TypeOK
<1>4. LifeInv'
  BY <1>2, <1>3 DEF SiteInv, LifeInv
<1>5. HubsPrepared => HubsPrepared'
  BY DEF HubsPrepared, AwaitsReconciler
<1>6. HubInv'
  BY <1>5 DEF SiteInv, HubInv, AwaitsReconciler, Serving
<1> QED BY <1>1, <1>4, <1>6 DEF SiteInv

(* The same for a step that changes the operation only. *)
LEMMA JobStep ==
  ASSUME SiteInv, queue = <<>>, UNCHANGED <<policy, device, node, queue, installed, served, lab, calm>>,
         job' \in Jobs, StageInv', policy.life # "DELETED",
         job'.pc \in {"owner", "publish", "configure"} => HubsPrepared
  PROVE  SiteInv'
<1>1. TypeOK'
  BY DEF SiteInv, TypeOK
<1> QED BY <1>1, QuietStep DEF SiteInv, LifeInv, HubInv

(* The operation fails. *)
LEMMA FailedStep ==
  ASSUME SiteInv, queue = <<>>, job.pc # "idle", job' = [job EXCEPT !.pc = "failed"],
         UNCHANGED <<policy, device, node, queue, installed, served, lab, calm>>
  PROVE  SiteInv'
<1>1. job \in Jobs
  BY DEF SiteInv, TypeOK
<1>2. /\ job' \in Jobs /\ job'.pc = "failed" /\ job'.seen = job.seen /\ job'.stage = job.stage
      /\ job'.resume = job.resume
  BY <1>1 DEF Jobs
<1>3. StageInv'
  BY <1>2 DEF SiteInv, StageInv, Backed, Provisioning, Deleting
<1> QED BY <1>2, <1>3, JobStep DEF SiteInv, LifeInv

(* The operation is over. *)
LEMMA IdleStep ==
  ASSUME SiteInv, queue = <<>>, job.pc # "idle", job' = Idle,
         UNCHANGED <<policy, device, node, queue, installed, served, lab, calm>>
  PROVE  SiteInv'
<1>1. /\ job' \in Jobs /\ job'.pc = "idle" /\ job'.seen = None /\ job'.stage = None /\ job'.resume = None
  BY DEF Idle, Jobs, ClaimState
<1>2. StageInv'
  BY <1>1 DEF StageInv, Backed, Provisioning, Deleting, Registered, Resumed, None
<1> QED BY <1>1, <1>2, JobStep DEF SiteInv, LifeInv
-----------------------------------------------------------------------------
(* Steps of a creation that leave the record as it is. *)
LEMMA StepsOfCreation ==
  ASSUME SiteInv, Enrolled \/ Unregistered \/ AlreadyActive \/ HubsReconciled \/ ExistingDesired \/ Finish \/ RuntimeError
  PROVE  SiteInv'
<1> USE DEF None, At, Answered
<1>1. job \in Jobs /\ policy \in PolicyRows /\ policy.life \in Lifecycle \cup {None}
  BY DEF SiteInv, TypeOK, PolicyRows
<1>2. job.pc # "idle" /\ queue = <<>>
  BY DEF SiteInv, QueueInv, Enrolled, Unregistered, AlreadyActive, HubsReconciled, ExistingDesired, RuntimeError,
         Finish, Waiting
<1>3. policy.life # "DELETED"
  BY <1>2 DEF SiteInv, LifeInv
<1>4. CASE Unregistered \/ RuntimeError \/ (Finish /\ policy.life # "ACTIVE")
  <2>1. job' = [job EXCEPT !.pc = "failed"] /\ UNCHANGED <<policy, device, node, queue, installed, served, lab, calm>>
    BY <1>4 DEF Unregistered, RuntimeError, Finish, Work
  <2> QED BY <1>2, <2>1, FailedStep
<1>5. CASE AlreadyActive \/ (Finish /\ policy.life = "ACTIVE")
  <2>1. job' = Idle /\ UNCHANGED <<policy, device, node, queue, installed, served, lab, calm>>
    BY <1>5 DEF AlreadyActive, Finish, Work
  <2> QED BY <1>2, <2>1, IdleStep
<1>6. CASE Enrolled
  <2>1. /\ job' = [job EXCEPT !.seen = policy.life, !.pc = IF policy.life \in Registered THEN "dispatch" ELSE "failed"]
        /\ UNCHANGED <<policy, device, node, queue, installed, served, lab, calm>>
    BY <1>6 DEF Enrolled, Work, Registered
  <2>2. /\ job' \in Jobs /\ job'.pc = (IF policy.life \in Registered THEN "dispatch" ELSE "failed")
        /\ job'.seen = policy.life /\ job'.stage = job.stage /\ job'.resume = job.resume
    BY <1>1, <2>1 DEF Jobs
  <2>3. StageInv'
    BY <2>1, <2>2 DEF SiteInv, StageInv, LifeInv, Backed, Provisioning, Deleting
  <2> QED BY <1>2, <1>3, <2>1, <2>2, <2>3, JobStep
<1>7. CASE HubsReconciled
  <2>1. job.pc = "hub2" /\ job' = [job EXCEPT !.pc = "activate"] /\ UNCHANGED <<policy, device, node, queue, installed, served, lab, calm>>
    BY <1>7 DEF HubsReconciled, Work
  <2>2. /\ job' \in Jobs /\ job'.pc = "activate" /\ job'.seen = job.seen /\ job'.stage = job.stage
        /\ job'.resume = job.resume
    BY <1>1, <2>1 DEF Jobs
  <2>3. StageInv'
    BY <2>1, <2>2 DEF SiteInv, StageInv, Backed, Provisioning, Deleting
  <2> QED BY <1>2, <1>3, <2>1, <2>2, <2>3, JobStep
<1>8. CASE ExistingDesired
  <2>1. job.pc = "activate" /\ job' = [job EXCEPT !.pc = "configure"] /\ UNCHANGED <<policy, device, node, queue, installed, served, lab, calm>>
    BY <1>8 DEF ExistingDesired, Work
  <2>2. /\ job' \in Jobs /\ job'.pc = "configure" /\ job'.seen = job.seen /\ job'.stage = job.stage
        /\ job'.resume = job.resume
    BY <1>1, <2>1 DEF Jobs
  <2>3. StageInv'
    BY <2>1, <2>2 DEF SiteInv, StageInv, Backed, Provisioning, Deleting
  <2>4. HubsPrepared
    BY <1>8, <2>1 DEF ExistingDesired, HubsReady, HubsPrepared, SiteInv, HubInv, StageInv, Provisioning
  <2> QED BY <1>2, <1>3, <2>1, <2>2, <2>3, <2>4, JobStep
<1> QED BY <1>4, <1>5, <1>6, <1>7, <1>8

(* A creation proceeds to a lifecycle state. *)
LEMMA ProceedStep ==
  ASSUME SiteInv, queue = <<>>, UNCHANGED <<queue, node>>, job.pc # "idle",
         device' \in {None, "STAGED", "ACTIVE", "REVOKED"}, device = "ACTIVE" => device' = "ACTIVE",
         NEW l \in {"TOPOLOGY_CREATED", "ZTP_STAGED", "ENROLLING", "PROVISIONING"}, l = "PROVISIONING" => Backed,
         NEW new \in Jobs, new.pc = "dispatch",
         new.seen \in Registered \/ new.stage \in Resumed \/ new.resume \in Resumed => Backed,
         Proceed(l, new)
  PROVE  SiteInv'
<1> USE DEF None
<1>1. policy \in PolicyRows /\ l \in Lifecycle /\ None \in Stages \cup {None}
  BY DEF SiteInv, TypeOK, Lifecycle
<1>2. /\ job' \in Jobs /\ policy' \in PolicyRows /\ UNCHANGED <<installed, served, lab, calm>>
      /\ job'.stage = new.stage /\ job'.resume = new.resume
      /\ \/ Allowed(l) /\ policy' = Moved(l, None) /\ job'.pc = new.pc /\ job'.seen = l
         \/ ~Allowed(l) /\ policy' = policy /\ job'.pc = "failed" /\ job'.seen = new.seen
  BY <1>1, ProceedFields
<1>3. policy.life # "DELETED"
  BY DEF SiteInv, LifeInv
<1>4. TypeOK'
  BY <1>2 DEF SiteInv, TypeOK
<1>5. Backed /\ policy'.key = policy.key => Backed'
  BY DEF Backed
<1>6. CASE Allowed(l) /\ policy' = Moved(l, None) /\ job'.pc = new.pc /\ job'.seen = l
  <2>1. /\ policy'.life = l /\ policy'.key = policy.key /\ policy'.desired = policy.desired
        /\ policy'.verified = {} \/ (policy'.hubs = policy.hubs /\ policy'.verified = policy.verified)
        /\ policy' = policy \/ (policy'.hubs.peer <=> l \in ActiveConfiguration /\ policy.key = "ACTIVE")
    BY <1>1, <1>6, MovedFields
  <2>2. StageInv'
    BY <1>2, <1>5, <1>6, <2>1 DEF StageInv, Registered, Provisioning, Deleting
  <2>3. l \in Registered => Backed /\ l \in ActiveConfiguration
    BY DEF Registered, ActiveConfiguration, Lifecycle
  <2>4. policy'.life \in Registered => policy'.hubs.peer
    BY <2>1, <2>3 DEF SiteInv, HubInv, Backed
  <2> QED BY <1>2, <1>4, <1>6, <2>1, <2>2, <2>3, <2>4, QuietStep
<1>7. CASE ~Allowed(l) /\ policy' = policy /\ job'.pc = "failed" /\ job'.seen = new.seen
  <2>1. StageInv'
    BY <1>2, <1>5, <1>7 DEF StageInv, Provisioning, Deleting
  <2> QED BY <1>2, <1>3, <1>4, <1>7, <2>1, QuietStep DEF SiteInv, LifeInv, HubInv
<1> QED BY <1>2, <1>6, <1>7

(* The steps that call _transition. *)
LEMMA TransitionSteps ==
  ASSUME SiteInv, TopologyCreated \/ Stage \/ StartEnrolling
  PROVE  SiteInv'
<1> USE DEF None, At, Answered
<1>1. job \in Jobs /\ policy \in PolicyRows /\ device \in {None, "STAGED", "ACTIVE", "REVOKED"}
  BY DEF SiteInv, TypeOK
<1>2. job.pc # "idle" /\ queue = <<>>
  BY DEF SiteInv, QueueInv, TopologyCreated, Stage, StartEnrolling, Waiting
<1>3. policy.life # "DELETED"
  BY <1>2 DEF SiteInv, LifeInv
<1>4. job.seen \in Registered \/ job.stage \in Resumed \/ job.resume \in Resumed => Backed
  BY DEF SiteInv, StageInv
<1>5. CASE TopologyCreated
  <2> DEFINE new == [job EXCEPT !.pc = "dispatch"]
  <2>1. new \in Jobs /\ new.pc = "dispatch" /\ new.seen = job.seen /\ new.stage = job.stage /\ new.resume = job.resume
    BY <1>1 DEF Jobs
  <2>2. /\ \/ new.seen = "FAILED" /\ new.resume \in {"PROVISIONING", "RECONCILING"} /\ Proceed("PROVISIONING", new)
           \/ Proceed("TOPOLOGY_CREATED", new)
           \/ Work([new EXCEPT !.seen = policy.life]) /\ UNCHANGED policy
        /\ UNCHANGED <<device, node, queue>>
    BY <1>5 DEF TopologyCreated
  <2> HIDE DEF new
  <2>3. CASE new.resume \in {"PROVISIONING", "RECONCILING"} /\ Proceed("PROVISIONING", new)
    <3>1. Backed
      BY <1>4, <2>1, <2>3 DEF Resumed
    <3> QED BY <1>1, <1>2, <2>1, <2>2, <2>3, <3>1, ProceedStep
  <2>4. CASE Proceed("TOPOLOGY_CREATED", new)
    BY <1>1, <1>2, <1>4, <2>1, <2>2, <2>4, ProceedStep
  <2>5. CASE Work([new EXCEPT !.seen = policy.life]) /\ UNCHANGED policy
    <3>1. /\ job' = [new EXCEPT !.seen = policy.life]
          /\ UNCHANGED <<policy, device, node, queue, installed, served, lab, calm>>
      BY <2>2, <2>5 DEF Work
    <3>2. policy.life \in Lifecycle \cup {None}
      BY <1>1 DEF PolicyRows
    <3>3. /\ job' \in Jobs /\ job'.pc = "dispatch" /\ job'.seen = policy.life /\ job'.stage = job.stage
          /\ job'.resume = job.resume
      BY <2>1, <3>1, <3>2 DEF Jobs
    <3>4. StageInv'
      BY <3>1, <3>3 DEF SiteInv, StageInv, LifeInv, Backed, Provisioning, Deleting
    <3> QED BY <1>2, <1>3, <3>1, <3>3, <3>4, JobStep
  <2> QED BY <2>2, <2>3, <2>4, <2>5
<1>6. CASE Stage \/ StartEnrolling
  <2>1. PICK stage \in {"ZTP_STAGED", "ENROLLING"}, claim \in ClaimState :
          LET new == [job EXCEPT !.stage = stage]
          IN  \/ ClaimRejected(new)
              \/ /\ Proceed(stage, [new EXCEPT !.claim = claim])
                 /\ device' = device \/ (device' = "STAGED" /\ Claimable)
                 /\ UNCHANGED <<node, queue>>
    <3>1. CASE Stage
      BY <1>6, <3>1 DEF Stage, ClaimState
    <3>2. CASE StartEnrolling
      <4>1. job.claim \in ClaimState
        BY <1>1 DEF Jobs
      <4>2. [job EXCEPT !.stage = "ENROLLING"].claim = job.claim
        BY <1>1 DEF Jobs
      <4> DEFINE c == IF job.claim = None THEN "ACTIVE" ELSE job.claim
      <4>3. c \in ClaimState
        BY <4>1 DEF ClaimState
      <4>4. LET new == [job EXCEPT !.stage = "ENROLLING"]
            IN  \/ ClaimRejected(new)
                \/ /\ Proceed("ENROLLING", [new EXCEPT !.claim = c])
                   /\ device' = device \/ (device' = "STAGED" /\ Claimable)
                   /\ UNCHANGED <<node, queue>>
        BY <3>2, <4>2 DEF StartEnrolling
      <4> QED BY <4>3, <4>4
    <3> QED BY <1>6, <3>1, <3>2
  <2> DEFINE new == [job EXCEPT !.stage = stage]
  <2>2. /\ new \in Jobs /\ new.pc = job.pc /\ new.stage = stage /\ new.seen = job.seen /\ new.resume = job.resume
    BY <1>1 DEF Jobs, Stages
  <2>3. job.pc = "dispatch"
    BY <1>6 DEF Stage, StartEnrolling
  <2>4. new.seen \in Registered \/ new.stage \in Resumed \/ new.resume \in Resumed => Backed
    BY <1>4, <2>2 DEF Resumed
  <2> HIDE DEF new
  <2>5. CASE ClaimRejected(new)
    <3>1. job' = [new EXCEPT !.pc = "failed"] /\ UNCHANGED <<policy, device, node, queue, installed, served, lab, calm>>
      BY <2>5 DEF ClaimRejected, Work
    <3>2. /\ job' \in Jobs /\ job'.pc = "failed" /\ job'.seen = new.seen /\ job'.stage = new.stage
          /\ job'.resume = new.resume
      BY <2>2, <3>1 DEF Jobs
    <3>3. StageInv'
      BY <2>4, <3>1, <3>2 DEF StageInv, Backed, Provisioning, Deleting
    <3> QED BY <1>2, <1>3, <3>1, <3>2, <3>3, JobStep
  <2>6. CASE Proceed(stage, [new EXCEPT !.claim = claim]) /\ (device' = device \/ (device' = "STAGED" /\ Claimable))
             /\ UNCHANGED <<node, queue>>
    <3> DEFINE next == [new EXCEPT !.claim = claim]
    <3>1. /\ next \in Jobs /\ next.pc = "dispatch" /\ next.stage = new.stage /\ next.seen = new.seen
          /\ next.resume = new.resume
      BY <2>2, <2>3 DEF Jobs
    <3>2. device' \in {None, "STAGED", "ACTIVE", "REVOKED"} /\ (device = "ACTIVE" => device' = "ACTIVE")
      BY <1>1, <2>6 DEF Claimable
    <3>3. Proceed(stage, next)
      BY <2>6
    <3> HIDE DEF next
    <3> QED BY <1>2, <2>4, <2>6, <3>1, <3>2, <3>3, ProceedStep
  <2> QED BY <2>1, <2>5, <2>6 DEF new
<1> QED BY <1>5, <1>6

(* The transactions of activate_spoke and the last one of a deletion. *)
LEMMA RecordSteps ==
  ASSUME SiteInv, PendingHubs \/ ReserveResources \/ TransferOwnership \/ PutDesiredState \/ Deleted
  PROVE  SiteInv'
<1> USE DEF None, At, Answered
<1>1. job \in Jobs /\ policy \in PolicyRows
  BY DEF SiteInv, TypeOK
<1>2. job.pc # "idle" /\ queue = <<>>
  BY DEF SiteInv, QueueInv, PendingHubs, ReserveResources, TransferOwnership, PutDesiredState, Deleted, Waiting
<1>3. policy.life # "DELETED"
  BY <1>2 DEF SiteInv, LifeInv
<1>4. /\ Idle \in Jobs /\ Idle.pc = "idle" /\ Idle.seen = None /\ Idle.stage = None /\ Idle.resume = None
  BY DEF Idle, Jobs, ClaimState
<1>5. CASE PendingHubs
  <2>1. job.pc = "activate" /\ UNCHANGED <<device, node, queue>>
    BY <1>5 DEF PendingHubs
  <2>2. \/ Work(Idle) /\ UNCHANGED policy
        \/ Work(Idle) /\ policy' = Moved("PENDING_HUBS", None)
        \/ Work([job EXCEPT !.pc = "failed"]) /\ UNCHANGED policy
    BY <1>5 DEF PendingHubs
  <2>3. CASE Work(Idle) /\ UNCHANGED policy
    BY <1>2, <2>1, <2>3, IdleStep DEF Work
  <2>4. CASE Work(Idle) /\ policy' = Moved("PENDING_HUBS", None)
    <3>1. "PENDING_HUBS" \in Lifecycle /\ "PENDING_HUBS" \in ActiveConfiguration /\ "PENDING_HUBS" \in Registered
      BY DEF Lifecycle, ActiveConfiguration, Registered
    <3>2. /\ policy' \in PolicyRows /\ policy'.life = "PENDING_HUBS"
          /\ policy'.key = policy.key /\ policy'.desired = policy.desired
          /\ policy'.verified = {} \/ (policy'.hubs = policy.hubs /\ policy'.verified = policy.verified)
          /\ policy' = policy \/ (policy'.hubs.peer <=> policy.key = "ACTIVE")
      BY <1>1, <2>4, <3>1, MovedFields
    <3>3. job' = Idle /\ UNCHANGED <<installed, served, lab, calm>>
      BY <2>4 DEF Work
    <3>4. TypeOK'
      BY <1>4, <2>1, <3>2, <3>3 DEF SiteInv, TypeOK
    <3>5. StageInv'
      BY <1>4, <3>3 DEF StageInv, Registered, Resumed, Provisioning, Deleting
    <3>6. Backed
      BY <2>1 DEF SiteInv, StageInv, Provisioning
    <3>7. policy'.hubs.peer
      BY <3>1, <3>2, <3>6 DEF SiteInv, HubInv, Backed
    <3> QED BY <1>2, <1>4, <2>1, <3>2, <3>3, <3>4, <3>5, <3>6, <3>7, QuietStep
  <2>5. CASE Work([job EXCEPT !.pc = "failed"]) /\ UNCHANGED policy
    BY <1>2, <2>1, <2>5, FailedStep DEF Work
  <2> QED BY <2>2, <2>3, <2>4, <2>5
<1>6. CASE ReserveResources \/ TransferOwnership \/ PutDesiredState
  <2>1. PICK pc \in {"failed", "owner", "publish", "configure"} : job' = [job EXCEPT !.pc = pc]
    BY <1>6 DEF ReserveResources, TransferOwnership, PutDesiredState, Work
  <2>2. UNCHANGED <<device, node, queue, installed, served, lab, calm>>
    BY <1>6 DEF ReserveResources, TransferOwnership, PutDesiredState, Work
  <2>3. /\ policy' \in PolicyRows /\ policy'.life = policy.life /\ policy'.failure = policy.failure
        /\ policy'.key = policy.key /\ policy'.hubs = policy.hubs /\ policy'.verified = policy.verified
        /\ policy.desired => policy'.desired
    BY <1>1, <1>6 DEF ReserveResources, TransferOwnership, PutDesiredState, PolicyRows
  <2>4. job.pc \in {"activate", "owner", "publish"}
    BY <1>6 DEF ReserveResources, TransferOwnership, PutDesiredState
  <2>5. job' \in Jobs /\ job'.pc = pc /\ job'.seen = job.seen /\ job'.stage = job.stage /\ job'.resume = job.resume
    BY <1>1, <2>1 DEF Jobs
  <2>6. TypeOK'
    BY <2>2, <2>3, <2>5 DEF SiteInv, TypeOK
  <2>7. StageInv'
    BY <2>2, <2>3, <2>4, <2>5 DEF SiteInv, StageInv, Backed, Provisioning, Deleting
  <2>8. HubsPrepared
    <3>1. policy.life \in Registered
      BY <2>4 DEF SiteInv, StageInv, Provisioning
    <3>2. CASE ReserveResources
      BY <3>1, <3>2 DEF ReserveResources, HubsReady, HubsPrepared, SiteInv, HubInv
    <3>3. CASE TransferOwnership \/ PutDesiredState
      BY <3>1, <3>3 DEF TransferOwnership, PutDesiredState, SiteInv, HubInv
    <3> QED BY <1>6, <3>2, <3>3
  <2> QED BY <1>2, <1>3, <2>2, <2>3, <2>6, <2>7, <2>8, QuietStep DEF SiteInv, LifeInv, HubInv
<1>7. CASE Deleted
  <2>1. /\ job.pc = "delete" /\ job.answer = "ok" /\ UNCHANGED <<device, node, queue>>
        /\ \/ policy' = Moved("DELETED", None) /\ Work(Idle)
           \/ Work([job EXCEPT !.pc = "failed"]) /\ UNCHANGED policy
    BY <1>7 DEF Deleted
  <2>2. CASE policy' = Moved("DELETED", None) /\ Work(Idle)
    <3>1. "DELETED" \in Lifecycle
      BY DEF Lifecycle
    <3>2. /\ policy' \in PolicyRows /\ policy'.life = "DELETED"
          /\ policy'.key = policy.key /\ policy'.desired = policy.desired
          /\ policy'.verified = {} \/ (policy'.hubs = policy.hubs /\ policy'.verified = policy.verified)
      BY <1>1, <2>2, <3>1, MovedFields
    <3>3. job' = Idle /\ UNCHANGED <<installed, served, lab, calm>>
      BY <2>2 DEF Work
    <3>4. TypeOK'
      BY <1>4, <2>1, <3>2, <3>3 DEF SiteInv, TypeOK
    <3>5. StageInv'
      BY <1>4, <3>3 DEF StageInv, Registered, Resumed, Provisioning, Deleting
    <3>6. node.managed = "no" /\ policy.key # "ACTIVE" /\ (lab.pc = "restore" => ~lab.restored)
      BY <2>1 DEF SiteInv, StageInv
    <3>7. policy'.life \notin Registered
      BY <3>2 DEF Registered
    <3> QED BY <1>2, <1>4, <2>1, <3>2, <3>3, <3>4, <3>5, <3>6, <3>7, QuietStep
  <2>3. CASE Work([job EXCEPT !.pc = "failed"]) /\ UNCHANGED policy
    BY <1>2, <2>1, <2>3, FailedStep DEF Work
  <2> QED BY <2>1, <2>2, <2>3
<1> QED BY <1>5, <1>6, <1>7

(* _failure, and the first transaction of a deletion. *)
LEMMA EndOrBegin ==
  ASSUME SiteInv, Fail \/ Delete
  PROVE  SiteInv'
<1> USE DEF None, At
<1>1. job \in Jobs /\ policy \in PolicyRows /\ job.stage \in Stages \cup {None}
  BY DEF SiteInv, TypeOK, Jobs
<1>2. /\ Idle \in Jobs /\ Idle.pc = "idle" /\ Idle.seen = None /\ Idle.stage = None /\ Idle.resume = None
  BY DEF Idle, Jobs, ClaimState
<1>3. /\ job.pc \in {"failed", "idle"} /\ UNCHANGED <<device, node, queue, installed, served, lab, calm>>
  BY DEF Fail, Delete, Work, MayCall
<1>4. \A i \in 1 .. Len(queue) : ~queue[i].awaited
  <2> SUFFICES ASSUME NEW i \in 1 .. Len(queue), queue[i].awaited PROVE FALSE
    OBVIOUS
  <2>1. queue \in Seq(Requests) /\ queue[i].op = job.pc
    BY DEF SiteInv, TypeOK, QueueInv
  <2>2. queue[i] \in Requests
    BY <2>1
  <2> QED BY <1>3, <2>1, <2>2 DEF Requests
<1>5. \/ policy' = policy /\ job' = Idle /\ job.pc = "failed"
      \/ /\ policy.life \notin {"FAILED", "DELETED", "DELETING"}
         /\ policy' = Moved("FAILED", job.stage) /\ job' = Idle
      \/ /\ policy.life # "DELETED" /\ policy' = Moved("DELETING", None)
         /\ job' = [Idle EXCEPT !.pc = "revoke", !.stage = "DELETING", !.seen = "DELETING"]
  BY DEF Fail, Delete, Work
<1>6. "FAILED" \in Lifecycle /\ "DELETING" \in Lifecycle
  BY DEF Lifecycle
<1>7. HubsPrepared => HubsPrepared'
  BY <1>3 DEF HubsPrepared, AwaitsReconciler
<1>8. CASE policy' = policy /\ job' = Idle /\ job.pc = "failed"
  <2>1. TypeOK'
    BY <1>2, <1>3, <1>8 DEF SiteInv, TypeOK
  <2>2. StageInv'
    BY <1>2, <1>8 DEF StageInv, Registered, Resumed, Provisioning, Deleting
  <2>3. QueueInv'
    BY <1>2, <1>3, <1>4, <1>8 DEF SiteInv, QueueInv
  <2>4. LifeInv'
    BY <1>2, <1>3, <1>8 DEF SiteInv, LifeInv, Backed
  <2>5. HubInv'
    BY <1>2, <1>3, <1>7, <1>8 DEF SiteInv, HubInv, AwaitsReconciler, Serving
  <2> QED BY <2>1, <2>2, <2>3, <2>4, <2>5 DEF SiteInv
<1>9. CASE /\ policy.life \notin {"FAILED", "DELETED", "DELETING"}
           /\ policy' = Moved("FAILED", job.stage) /\ job' = Idle
  <2>1. /\ policy' \in PolicyRows /\ policy'.life = "FAILED" /\ policy'.failure = job.stage /\ policy'.key = policy.key
        /\ policy'.verified = {} \/ (policy'.hubs = policy.hubs /\ policy'.verified = policy.verified)
    BY <1>1, <1>6, <1>9, MovedFields
  <2>2. TypeOK'
    BY <1>2, <1>3, <1>9, <2>1 DEF SiteInv, TypeOK
  <2>3. StageInv'
    BY <1>2, <1>9 DEF StageInv, Registered, Resumed, Provisioning, Deleting
  <2>4. QueueInv'
    BY <1>2, <1>3, <1>4, <1>9 DEF SiteInv, QueueInv
  <2>5. served = "promote" \/ job.stage \in Resumed => Backed
    BY <1>9 DEF SiteInv, LifeInv, StageInv
  <2>6. LifeInv'
    BY <1>3, <1>9, <2>1, <2>5 DEF SiteInv, LifeInv, Backed, Registered
  <2>7. HubInv'
    BY <1>3, <1>9, <2>1 DEF SiteInv, HubInv, AwaitsReconciler, Registered
  <2> QED BY <2>2, <2>3, <2>4, <2>6, <2>7 DEF SiteInv
<1>10. CASE /\ policy.life # "DELETED" /\ policy' = Moved("DELETING", None)
            /\ job' = [Idle EXCEPT !.pc = "revoke", !.stage = "DELETING", !.seen = "DELETING"]
  <2>1. /\ policy' \in PolicyRows /\ policy'.life = "DELETING" /\ policy'.key = policy.key
        /\ policy'.verified = {} \/ (policy'.hubs = policy.hubs /\ policy'.verified = policy.verified)
    BY <1>1, <1>6, <1>10, MovedFields
  <2>2. "DELETING" \in Stages
    BY DEF Stages
  <2>3. /\ job' \in Jobs /\ job'.pc = "revoke" /\ job'.stage = "DELETING" /\ job'.seen = "DELETING"
        /\ job'.resume = None
    BY <1>2, <1>6, <1>10, <2>2 DEF Jobs
  <2>4. TypeOK'
    BY <1>3, <2>1, <2>3 DEF SiteInv, TypeOK
  <2>5. StageInv'
    BY <2>1, <2>3 DEF StageInv, Registered, Resumed, Provisioning, Deleting
  <2>6. QueueInv'
    BY <1>3, <1>4, <2>1, <2>3 DEF SiteInv, QueueInv
  <2>7. LifeInv'
    BY <1>3, <2>1 DEF SiteInv, LifeInv, Registered
  <2>8. HubInv'
    BY <1>3, <2>1 DEF SiteInv, HubInv, AwaitsReconciler, Registered
  <2> QED BY <2>4, <2>5, <2>6, <2>7, <2>8 DEF SiteInv
<1> QED BY <1>5, <1>8, <1>9, <1>10
-----------------------------------------------------------------------------
(* A call of the runtime: the request goes to the end of the queue, and    *)
(* only a first or a last request of an operation finds others before it.  *)
LEMMA SendStep ==
  ASSUME SiteInv, NEW op \in {"create", "delete", "bootstrap", "hub1", "hub2", "edge"}, NEW new \in Jobs, Send(op, new),
         policy' \in PolicyRows, device' \in {None, "STAGED", "ACTIVE", "REVOKED"}, UNCHANGED node,
         job.pc \in Waiting => job.answer # None, queue = <<>> \/ op \in {"create", "delete"},
         StageInv', device = "ACTIVE" => device' = "ACTIVE",
         policy'.key = policy.key \/ policy'.life = "DELETING", policy'.desired = policy.desired,
         policy'.verified = {} \/ (policy'.hubs = policy.hubs /\ policy'.verified = policy.verified),
         policy'.life \in Registered \/ (policy'.life = "FAILED" /\ policy'.failure \in Resumed) => Backed,
         policy'.life \in Registered => policy.life \in Registered /\ policy'.hubs.peer,
         policy'.life = "ACTIVE" => policy.life = "ACTIVE",
         policy'.life # "DELETED",
         op = "delete" \/ policy.life = "DELETING" => policy'.life = "DELETING",
         op = "edge" => HubsPrepared
  PROVE  SiteInv'
<1> USE DEF None
<1>1. queue \in Seq(Requests) /\ Len(queue) \in Nat
  BY DEF SiteInv, TypeOK
<1>2. /\ job' \in Jobs /\ queue' \in Seq(Requests) /\ UNCHANGED <<installed, served, lab, calm>>
      /\ job'.pc = op
      /\ \/ /\ lab.pc = "up" /\ job'.answer = None
            /\ \E r \in Requests : r.op = op /\ r.awaited /\ queue' = Append(queue, r)
         \/ lab.pc # "up" /\ queue' = queue /\ job'.answer = "error"
  BY <1>1, SendFields
<1>3. TypeOK'
  BY <1>2 DEF SiteInv, TypeOK
<1>4. \A i \in 1 .. Len(queue) : ~queue[i].awaited
  <2> SUFFICES ASSUME NEW i \in 1 .. Len(queue), queue[i].awaited PROVE FALSE
    OBVIOUS
  <2>1. queue[i].op = job.pc /\ job.answer = None
    BY DEF SiteInv, QueueInv
  <2>2. queue[i] \in Requests
    BY <1>1
  <2> QED BY <2>1, <2>2 DEF Requests, Waiting
<1>5. Backed /\ policy'.key = policy.key => Backed'
  BY DEF Backed
<1>6. HubsPrepared => HubsPrepared'
  BY <1>2 DEF HubsPrepared, AwaitsReconciler
<1>7. op \in Waiting
  BY DEF Waiting
<1>8. CASE lab.pc # "up" /\ queue' = queue /\ job'.answer = "error"
  <2>1. queue = <<>>
    BY <1>8 DEF SiteInv, QueueInv
  <2>2. QueueInv'
    BY <1>2, <1>8, <2>1 DEF SiteInv, QueueInv
  <2>3. LifeInv'
    BY <1>2, <1>5 DEF SiteInv, LifeInv, Registered
  <2>4. HubInv'
    BY <1>2, <1>6, <1>8, <2>1 DEF SiteInv, HubInv, AwaitsReconciler, Serving
  <2> QED BY <1>3, <2>2, <2>3, <2>4 DEF SiteInv
<1>9. CASE /\ lab.pc = "up" /\ job'.answer = None
           /\ \E r \in Requests : r.op = op /\ r.awaited /\ queue' = Append(queue, r)
  <2>1. PICK r \in Requests : r.op = op /\ r.awaited /\ queue' = Append(queue, r)
    BY <1>9
  <2>2. /\ queue' # <<>> /\ Len(queue') = Len(queue) + 1 /\ queue'[Len(queue) + 1] = r
        /\ \A i \in 1 .. Len(queue) : queue'[i] = queue[i]
    BY <1>1, <2>1
  <2>3. queue = <<>> => Len(queue) = 0
    OBVIOUS
  <2>4. QueueInv'
    <3>1. \A i \in 1 .. Len(queue') :
            /\ queue'[i].awaited => i = Len(queue') /\ job'.pc = queue'[i].op /\ job'.answer = None
            /\ i > 1 => queue'[i].op \in {"create", "delete"}
            /\ queue'[i].op = "delete" => policy'.life = "DELETING"
      <4> SUFFICES ASSUME NEW i \in 1 .. Len(queue')
                   PROVE  /\ queue'[i].awaited => i = Len(queue') /\ job'.pc = queue'[i].op /\ job'.answer = None
                          /\ i > 1 => queue'[i].op \in {"create", "delete"}
                          /\ queue'[i].op = "delete" => policy'.life = "DELETING"
        OBVIOUS
      <4>1. CASE i = Len(queue) + 1
        BY <1>1, <1>2, <1>9, <2>1, <2>2, <2>3, <4>1
      <4>2. CASE i \in 1 .. Len(queue)
        <5>1. queue'[i] = queue[i] /\ ~queue[i].awaited
          BY <1>4, <2>2, <4>2
        <5>2. /\ i > 1 => queue[i].op \in {"create", "delete"}
              /\ queue[i].op = "delete" => policy.life = "DELETING"
          BY <4>2 DEF SiteInv, QueueInv
        <5> QED BY <5>1, <5>2
      <4> QED BY <1>1, <2>2, <4>1, <4>2
    <3>2. served # "run" => queue'[1].op = "bootstrap"
      <4> SUFFICES ASSUME served # "run" PROVE queue'[1].op = "bootstrap"
        OBVIOUS
      <4>1. queue # <<>> /\ queue[1].op = "bootstrap"
        BY DEF SiteInv, QueueInv
      <4>2. 1 \in 1 .. Len(queue)
        BY <1>1, <4>1
      <4> QED BY <2>2, <4>1, <4>2
    <3> QED BY <1>2, <1>7, <1>9, <2>2, <3>1, <3>2 DEF QueueInv
  <2>5. LifeInv'
    BY <1>2, <1>5 DEF SiteInv, LifeInv, Registered
  <2>6. Serving("edge")' => Serving("edge") \/ op = "edge"
    <3>1. CASE queue = <<>>
      BY <2>1, <2>2, <2>3, <3>1 DEF Serving
    <3>2. CASE queue # <<>>
      <4>1. 1 \in 1 .. Len(queue)
        BY <1>1, <3>2
      <4>2. queue'[1] = queue[1] /\ Head(queue') = queue'[1] /\ Head(queue) = queue[1]
        BY <1>1, <1>2, <2>2, <3>2, <4>1
      <4> QED BY <3>2, <4>2 DEF Serving
    <3> QED BY <3>1, <3>2
  <2>7. HubInv'
    BY <1>2, <1>6, <2>6 DEF SiteInv, HubInv, AwaitsReconciler
  <2> QED BY <1>3, <2>4, <2>5, <2>7 DEF SiteInv
<1> QED BY <1>2, <1>8, <1>9

(* The administrator's request for a creation. *)
LEMMA CreateStep ==
  ASSUME SiteInv, Create
  PROVE  SiteInv'
<1> USE DEF None
<1> DEFINE fresh == policy.life \in {None, "DELETED"}
<1> DEFINE row == IF fresh THEN [policy EXCEPT !.life = "ALLOCATING", !.failure = None] ELSE policy
<1> DEFINE new == [Idle EXCEPT !.seen = row.life, !.stage = "TOPOLOGY_CREATED",
                                  !.resume = IF row.life = "FAILED" THEN row.failure ELSE None]
<1>1. /\ job.pc = "idle" /\ policy' = Compiled(row) /\ Send("create", new) /\ UNCHANGED <<device, node>>
  BY DEF Create, MayCall, At
<1>2. policy \in PolicyRows /\ device \in {None, "STAGED", "ACTIVE", "REVOKED"} /\ queue \in Seq(Requests)
  BY DEF SiteInv, TypeOK
<1>3. /\ row \in PolicyRows /\ row.key = policy.key /\ row.desired = policy.desired
      /\ row.hubs = policy.hubs /\ row.verified = policy.verified
      /\ \/ fresh /\ row.life = "ALLOCATING" /\ row.failure = None
         \/ ~fresh /\ row.life = policy.life /\ row.failure = policy.failure
  BY <1>2 DEF PolicyRows, Lifecycle
<1>4. /\ row.life \in Lifecycle \cup {None} /\ row.failure \in Stages \cup {None}
  BY <1>3 DEF PolicyRows
<1> HIDE DEF row
<1>5. /\ Idle \in Jobs /\ "TOPOLOGY_CREATED" \in Stages
  BY DEF Idle, Jobs, ClaimState, Stages
<1>6. /\ new \in Jobs /\ new.seen = row.life /\ new.stage = "TOPOLOGY_CREATED"
      /\ new.resume = IF row.life = "FAILED" THEN row.failure ELSE None
  BY <1>4, <1>5 DEF Jobs
<1> HIDE DEF new
<1>7. /\ policy' \in PolicyRows /\ policy'.life = row.life /\ policy'.failure = row.failure
      /\ policy'.key = policy.key /\ policy'.desired = policy.desired
      /\ policy'.hubs.peer <=> row.life \in ActiveConfiguration /\ policy.key = "ACTIVE"
      /\ policy'.verified = {} \/ (policy'.hubs = policy.hubs /\ policy'.verified = policy.verified)
  BY <1>1, <1>3, CompiledFields
<1>8. job'.pc = "create" /\ job'.seen = new.seen /\ job'.stage = new.stage /\ job'.resume = new.resume
  BY <1>1, <1>2, <1>6, SendFields
<1>9. row.life \in Registered \/ (row.life = "FAILED" /\ row.failure \in Resumed) =>
        Backed /\ row.life = policy.life
  BY <1>3 DEF SiteInv, LifeInv, Registered
<1>10. Backed => Backed'
  BY <1>1, <1>7 DEF Backed
<1>11. StageInv'
  BY <1>6, <1>8, <1>9, <1>10 DEF StageInv, Provisioning, Deleting, Registered, Resumed
<1>12. row.life \in Registered => row.life \in ActiveConfiguration
  BY DEF Registered, ActiveConfiguration, Lifecycle
<1>13. "create" \in {"create", "delete", "bootstrap", "hub1", "hub2", "edge"} /\ job.pc \notin Waiting
  BY <1>1 DEF Waiting
<1>14. policy'.life # "DELETED" /\ (policy'.life = "ACTIVE" => policy.life = "ACTIVE")
       /\ (policy.life = "DELETING" => policy'.life = "DELETING")
  BY <1>3, <1>7
<1> QED BY <1>1, <1>2, <1>6, <1>7, <1>9, <1>11, <1>12, <1>13, <1>14, SendStep DEF Backed

(* The requests of a creation that goes on. *)
LEMMA CreationSends ==
  ASSUME SiteInv, Enroll \/ ReconcileHub1 \/ ReconcileHub2
  PROVE  SiteInv'
<1> USE DEF None, At, Answered
<1>1. /\ job \in Jobs /\ policy \in PolicyRows /\ queue \in Seq(Requests)
      /\ device \in {None, "STAGED", "ACTIVE", "REVOKED"}
  BY DEF SiteInv, TypeOK
<1>2. job.pc \in {"dispatch", "hub1"} /\ queue = <<>> /\ (job.pc = "hub1" => job.answer = "ok")
  BY DEF SiteInv, QueueInv, Enroll, ReconcileHub1, ReconcileHub2, Waiting
<1>3. policy.life # "DELETED"
  BY <1>2 DEF SiteInv, LifeInv
<1>4. CASE Enroll /\ ClaimRejected(job)
  BY <1>2, <1>4, FailedStep DEF ClaimRejected, Work
<1>5. CASE ~ClaimRejected(job) \/ ~Enroll
  <2>1. PICK op \in {"bootstrap", "hub1", "hub2"}, new \in Jobs :
          /\ Send(op, new) /\ UNCHANGED <<policy, node>>
          /\ device' = device \/ (device' = "STAGED" /\ Claimable)
          /\ new.seen = job.seen /\ new.resume = job.resume
          /\ new.stage = job.stage \/ (new.stage = "PROVISIONING" /\ job.seen \in Registered)
          /\ op # "bootstrap" => new.stage \in Resumed /\ policy.life \in Registered
    <3>1. CASE Enroll
      <4> DEFINE c == IF job.claim = None THEN "ACTIVE" ELSE job.claim
      <4> DEFINE new == [job EXCEPT !.claim = c]
      <4>1. /\ Send("bootstrap", new) /\ UNCHANGED <<policy, node>>
            /\ device' = device \/ (device' = "STAGED" /\ Claimable)
        BY <1>5, <3>1 DEF Enroll
      <4>2. c \in ClaimState
        BY <1>1 DEF Jobs, ClaimState
      <4> HIDE DEF c
      <4>3. new \in Jobs /\ new.seen = job.seen /\ new.resume = job.resume /\ new.stage = job.stage
        BY <1>1, <4>2 DEF Jobs
      <4> HIDE DEF new
      <4> QED BY <4>1, <4>3
    <3>2. CASE ReconcileHub1
      <4> DEFINE new == [job EXCEPT !.stage = "PROVISIONING"]
      <4>1. /\ Send("hub1", new) /\ UNCHANGED <<policy, device, node>> /\ job.pc = "dispatch" /\ job.seen \in Registered
        BY <3>2 DEF ReconcileHub1, Registered
      <4>2. new \in Jobs /\ new.seen = job.seen /\ new.resume = job.resume /\ new.stage = "PROVISIONING"
        BY <1>1 DEF Jobs, Stages
      <4> HIDE DEF new
      <4>3. policy.life \in Registered /\ "PROVISIONING" \in Resumed
        BY <4>1 DEF SiteInv, StageInv, Resumed
      <4> QED BY <4>1, <4>2, <4>3
    <3>3. CASE ReconcileHub2
      <4>1. /\ Send("hub2", job) /\ UNCHANGED <<policy, device, node>> /\ job.pc = "hub1"
        BY <3>3 DEF ReconcileHub2
      <4>2. policy.life \in Registered /\ job.stage \in Resumed
        BY <4>1 DEF SiteInv, StageInv, Provisioning
      <4> QED BY <1>1, <4>1, <4>2
    <3> QED BY <3>1, <3>2, <3>3
  <2>2. device' \in {None, "STAGED", "ACTIVE", "REVOKED"} /\ (device = "ACTIVE" => device' = "ACTIVE")
    BY <1>1, <2>1 DEF Claimable
  <2>3. job'.pc = op /\ job'.seen = new.seen /\ job'.stage = new.stage /\ job'.resume = new.resume
    BY <1>1, <2>1, SendFields
  <2>4. Backed => Backed'
    BY <2>1, <2>2 DEF Backed
  <2>5. StageInv'
    BY <2>1, <2>3, <2>4 DEF SiteInv, StageInv, Provisioning, Deleting
  <2>6. /\ policy.life \in Registered \/ (policy.life = "FAILED" /\ policy.failure \in Resumed) => Backed
        /\ policy.life \in Registered => policy.hubs.peer
    BY DEF SiteInv, LifeInv, HubInv
  <2> QED BY <1>1, <1>2, <1>3, <2>1, <2>2, <2>5, <2>6, SendStep DEF Waiting
<1> QED BY <1>4, <1>5

(* RECONCILING, and the edge is told to reconcile. *)
LEMMA ConfigureStep ==
  ASSUME SiteInv, Configure
  PROVE  SiteInv'
<1> USE DEF None, At
<1> DEFINE new == [job EXCEPT !.stage = "RECONCILING", !.seen = "RECONCILING"]
<1>1. /\ job \in Jobs /\ policy \in PolicyRows /\ queue \in Seq(Requests)
      /\ device \in {None, "STAGED", "ACTIVE", "REVOKED"}
  BY DEF SiteInv, TypeOK
<1>2. /\ job.pc = "configure" /\ UNCHANGED <<device, node>>
      /\ \/ /\ policy' = policy \/ policy' = Moved("RECONCILING", None)
            /\ Send("edge", new)
         \/ Work([new EXCEPT !.pc = "failed"]) /\ UNCHANGED <<policy, queue>>
  BY DEF Configure
<1>3. queue = <<>>
  BY <1>2 DEF SiteInv, QueueInv, Waiting
<1>4. /\ policy.life \in Registered /\ Backed /\ HubsPrepared /\ policy.hubs.peer
  BY <1>2 DEF SiteInv, StageInv, HubInv, Provisioning
<1>5. new \in Jobs /\ new.seen = "RECONCILING" /\ new.stage = "RECONCILING" /\ new.resume = job.resume
  BY <1>1 DEF Jobs, Stages, Lifecycle
<1> HIDE DEF new
<1>6. CASE Work([new EXCEPT !.pc = "failed"]) /\ UNCHANGED <<policy, queue>>
  <2>1. job' = [new EXCEPT !.pc = "failed"] /\ UNCHANGED <<policy, device, node, queue, installed, served, lab, calm>>
    BY <1>2, <1>6 DEF Work
  <2>2. job' \in Jobs /\ job'.pc = "failed"
    BY <1>5, <2>1 DEF Jobs
  <2>3. StageInv'
    BY <1>4, <2>1, <2>2 DEF StageInv, Backed, Provisioning, Deleting
  <2> QED BY <1>3, <1>4, <2>1, <2>2, <2>3, JobStep DEF Registered
<1>7. CASE (policy' = policy \/ policy' = Moved("RECONCILING", None)) /\ Send("edge", new)
  <2>1. "RECONCILING" \in Lifecycle /\ "RECONCILING" \in ActiveConfiguration /\ "RECONCILING" \in Registered
    BY DEF Lifecycle, ActiveConfiguration, Registered
  <2>2. /\ policy' \in PolicyRows /\ policy'.life \in {policy.life, "RECONCILING"} /\ policy'.key = policy.key
        /\ policy'.desired = policy.desired
        /\ policy'.verified = {} \/ (policy'.hubs = policy.hubs /\ policy'.verified = policy.verified)
        /\ policy'.hubs = policy.hubs \/ (policy'.hubs.peer <=> policy.key = "ACTIVE")
    BY <1>1, <1>7, <2>1, MovedFields
  <2>3. job'.pc = "edge" /\ job'.seen = "RECONCILING" /\ job'.stage = "RECONCILING"
    BY <1>1, <1>5, <1>7, SendFields
  <2>4. policy'.life \in Registered /\ policy'.hubs.peer /\ Backed'
    BY <1>2, <1>4, <2>1, <2>2 DEF Backed
  <2>5. StageInv'
    BY <2>3, <2>4 DEF StageInv, Provisioning, Deleting, Resumed
  <2>6. policy'.life \notin {"DELETED", "FAILED"} /\ policy.life # "DELETING" /\ job.pc \notin Waiting
    BY <1>2, <1>4, <2>4 DEF Registered, Waiting
  <2> QED BY <1>1, <1>2, <1>3, <1>4, <1>5, <1>7, <2>2, <2>4, <2>5, <2>6, SendStep
<1> QED BY <1>2, <1>6, <1>7

(* The key is retired and the topology told to delete the site. *)
LEMMA RetireKeyStep ==
  ASSUME SiteInv, RetireKey
  PROVE  SiteInv'
<1> USE DEF None, At
<1>1. /\ job \in Jobs /\ policy \in PolicyRows /\ queue \in Seq(Requests)
      /\ device \in {None, "STAGED", "ACTIVE", "REVOKED"}
  BY DEF SiteInv, TypeOK
<1> DEFINE k == IF policy.key = "ACTIVE" THEN "RETIRED" ELSE policy.key
<1>2. /\ job.pc = "retire" /\ policy' = [policy EXCEPT !.key = k] /\ Send("delete", job) /\ UNCHANGED <<device, node>>
  BY Zenon DEF RetireKey
<1>3. k \in {None, "RETIRED"}
  BY <1>1 DEF PolicyRows
<1> HIDE DEF k
<1>4. /\ policy' \in PolicyRows /\ policy'.life = policy.life /\ policy'.key # "ACTIVE"
      /\ policy'.desired = policy.desired /\ policy'.hubs = policy.hubs /\ policy'.verified = policy.verified
  BY <1>1, <1>2, <1>3 DEF PolicyRows
<1>5. policy.life = "DELETING" /\ job.seen = "DELETING" /\ job.stage = "DELETING" /\ job.resume = None
  BY <1>2 DEF SiteInv, StageInv, Deleting
<1>6. /\ job'.pc = "delete" /\ job'.seen = job.seen /\ job'.stage = job.stage /\ job'.resume = job.resume
      /\ job'.answer # "ok"
  BY <1>1, <1>2, SendFields
<1>7. StageInv'
  BY <1>4, <1>5, <1>6 DEF StageInv, Provisioning, Deleting, Registered, Resumed
<1>8. job.pc \notin Waiting /\ policy'.life \notin Registered
  BY <1>2, <1>4, <1>5 DEF Waiting, Registered
<1> QED BY <1>1, <1>2, <1>4, <1>5, <1>7, <1>8, SendStep
-----------------------------------------------------------------------------
(* The client gives up what it waits for, or the claims in the requests    *)
(* are cancelled: the runtime has the same requests to serve, and nobody   *)
(* awaits them.                                                            *)
LEMMA UnawaitedStep ==
  ASSUME SiteInv, TypeOK', StageInv', UNCHANGED <<policy, node, installed, served, lab>>,
         Len(queue') = Len(queue),
         \A i \in 1 .. Len(queue) : queue'[i].op = queue[i].op /\ ~queue'[i].awaited,
         job'.pc \in {"idle", "failed", "retire"}, policy.life = "DELETED" => job'.pc = "idle",
         device' = device \/ policy.life = "DELETING"
  PROVE  SiteInv'
<1> USE DEF None
<1>1. queue \in Seq(Requests) /\ queue' \in Seq(Requests) /\ Len(queue) \in Nat
  BY DEF SiteInv, TypeOK
<1>2. queue' = <<>> <=> queue = <<>>
  BY <1>1
<1>3. queue # <<>> => queue'[1].op = queue[1].op /\ Head(queue') = queue'[1] /\ Head(queue) = queue[1]
  <2>1. queue # <<>> => 1 \in 1 .. Len(queue)
    BY <1>1
  <2> QED BY <1>1, <1>2, <2>1
<1>4. QueueInv'
  BY <1>1, <1>2, <1>3 DEF SiteInv, QueueInv
<1>5. Backed => Backed' \/ policy.life = "DELETING"
  BY DEF Backed
<1>6. LifeInv'
  BY <1>2, <1>5 DEF SiteInv, LifeInv, Registered
<1>7. Serving("edge")' <=> Serving("edge")
  BY <1>2, <1>3 DEF Serving
<1>8. HubsPrepared => HubsPrepared'
  BY DEF HubsPrepared, AwaitsReconciler
<1>9. HubInv'
  BY <1>7, <1>8 DEF SiteInv, HubInv, AwaitsReconciler
<1> QED BY <1>4, <1>6, <1>9 DEF SiteInv

(* The client's timeout, and the end of the management process. *)
LEMMA GivingUp ==
  ASSUME SiteInv, Timeout \/ Crash
  PROVE  SiteInv'
<1> USE DEF None, At
<1>1. job \in Jobs /\ queue \in Seq(Requests)
  BY DEF SiteInv, TypeOK
<1>2. queue' = Abandoned /\ UNCHANGED <<policy, device, node, installed, served, lab, calm>>
  BY DEF Timeout, Crash, Work
<1>3. \A i \in 1 .. Len(queue) : queue[i] \in Requests
  BY <1>1
<1>4. /\ queue' \in Seq(Requests) /\ Len(queue') = Len(queue)
      /\ \A i \in 1 .. Len(queue) : queue'[i] = [queue[i] EXCEPT !.awaited = FALSE]
  <2>1. DOMAIN queue = 1 .. Len(queue) /\ Len(queue) \in Nat
    BY <1>1
  <2>2. \A r \in Requests : [r EXCEPT !.awaited = FALSE] \in Requests
    BY DEF Requests
  <2>3. queue' = [i \in 1 .. Len(queue) |-> [queue[i] EXCEPT !.awaited = FALSE]]
    BY <1>2, <2>1 DEF Abandoned
  <2>4. \A i \in 1 .. Len(queue) : [queue[i] EXCEPT !.awaited = FALSE] \in Requests
    BY <1>3, <2>2
  <2> DEFINE g(i) == [queue[i] EXCEPT !.awaited = FALSE]
  <2>5. queue' = [i \in 1 .. Len(queue) |-> g(i)] /\ \A i \in 1 .. Len(queue) : g(i) \in Requests
    BY <2>3, <2>4
  <2> HIDE DEF g
  <2>6. /\ queue' \in Seq(Requests) /\ Len(queue') = Len(queue)
        /\ \A i \in 1 .. Len(queue) : queue'[i] = g(i)
    BY <2>1, <2>5
  <2> QED BY <2>6 DEF g
<1>5. \A i \in 1 .. Len(queue) : queue'[i].op = queue[i].op /\ ~queue'[i].awaited
  BY <1>3, <1>4 DEF Requests
<1>6. /\ Idle \in Jobs /\ Idle.pc = "idle" /\ Idle.seen = None /\ Idle.stage = None /\ Idle.resume = None
  BY DEF Idle, Jobs, ClaimState
<1>7. CASE Timeout
  <2>1. job.pc \in Waiting /\ job' = [job EXCEPT !.pc = "failed"]
    BY <1>7 DEF Timeout, Work
  <2>2. /\ job' \in Jobs /\ job'.pc = "failed" /\ job'.seen = job.seen /\ job'.stage = job.stage
        /\ job'.resume = job.resume
    BY <1>1, <2>1 DEF Jobs
  <2>3. StageInv'
    BY <1>2, <2>2 DEF SiteInv, StageInv, Backed, Provisioning, Deleting
  <2>4. TypeOK'
    BY <1>2, <1>4, <2>2 DEF SiteInv, TypeOK
  <2>5. policy.life # "DELETED"
    BY <2>1 DEF SiteInv, LifeInv, Waiting
  <2> QED BY <1>2, <1>4, <1>5, <2>2, <2>3, <2>4, <2>5, UnawaitedStep
<1>8. CASE Crash
  <2>1. job' = Idle
    BY <1>8 DEF Crash
  <2>2. StageInv'
    BY <1>6, <2>1 DEF StageInv, Provisioning, Deleting, Registered, Resumed
  <2>3. TypeOK'
    BY <1>2, <1>4, <1>6, <2>1 DEF SiteInv, TypeOK
  <2> QED BY <1>2, <1>4, <1>5, <1>6, <2>1, <2>2, <2>3, UnawaitedStep
<1> QED BY <1>7, <1>8

(* The device is revoked and its claims are cancelled. *)
LEMMA RevokeSiteStep ==
  ASSUME SiteInv, RevokeSite
  PROVE  SiteInv'
<1> USE DEF None, At
<1>1. job \in Jobs /\ queue \in Seq(Requests) /\ device \in {None, "STAGED", "ACTIVE", "REVOKED"}
  BY DEF SiteInv, TypeOK
<1>2. /\ job.pc = "revoke" /\ job' = [job EXCEPT !.pc = "retire"]
      /\ device' = IF device = None THEN None ELSE "REVOKED"
      /\ queue' = [i \in DOMAIN queue |-> [queue[i] EXCEPT !.claim = Cancelled(queue[i].claim)]]
      /\ UNCHANGED <<policy, node, installed, served, lab, calm>>
  BY Zenon DEF RevokeSite, Work
<1>3. \A i \in 1 .. Len(queue) : queue[i] \in Requests
  BY <1>1
<1>4. DOMAIN queue = 1 .. Len(queue) /\ Len(queue) \in Nat
  BY <1>1
<1> DEFINE g(i) == [queue[i] EXCEPT !.claim = Cancelled(queue[i].claim)]
<1>5. \A i \in 1 .. Len(queue) : g(i) \in Requests /\ g(i).op = queue[i].op /\ g(i).awaited = queue[i].awaited
  <2> SUFFICES ASSUME NEW i \in 1 .. Len(queue)
               PROVE  g(i) \in Requests /\ g(i).op = queue[i].op /\ g(i).awaited = queue[i].awaited
    OBVIOUS
  <2>1. queue[i] \in Requests
    BY <1>3
  <2>2. Cancelled(queue[i].claim) \in ClaimState
    BY <2>1 DEF Cancelled, Requests, ClaimState
  <2> QED BY <2>1, <2>2 DEF Requests
<1>6. queue' = [i \in 1 .. Len(queue) |-> g(i)]
  BY <1>2, <1>4
<1> HIDE DEF g
<1>7. /\ queue' \in Seq(Requests) /\ Len(queue') = Len(queue) /\ \A i \in 1 .. Len(queue) : queue'[i] = g(i)
  BY <1>4, <1>5, <1>6
<1>8. \A i \in 1 .. Len(queue) : ~queue[i].awaited
  <2> SUFFICES ASSUME NEW i \in 1 .. Len(queue), queue[i].awaited PROVE FALSE
    OBVIOUS
  <2>1. queue[i].op = job.pc
    BY DEF SiteInv, QueueInv
  <2> QED BY <1>2, <1>3, <2>1 DEF Requests
<1>9. /\ job' \in Jobs /\ job'.pc = "retire" /\ job'.seen = job.seen /\ job'.stage = job.stage
      /\ job'.resume = job.resume
  BY <1>1, <1>2 DEF Jobs
<1>10. policy.life = "DELETING" /\ job.seen = "DELETING" /\ job.stage = "DELETING" /\ job.resume = None
  BY <1>2 DEF SiteInv, StageInv, Deleting
<1>11. StageInv'
  BY <1>2, <1>9, <1>10 DEF StageInv, Provisioning, Deleting, Registered, Resumed
<1>12. TypeOK'
  BY <1>2, <1>7, <1>9 DEF SiteInv, TypeOK
<1> QED BY <1>2, <1>5, <1>7, <1>8, <1>9, <1>10, <1>11, <1>12, UnawaitedStep
-----------------------------------------------------------------------------
(* The runtime answers its first request, having done what it is about.    *)
LEMMA AnswerStep ==
  ASSUME SiteInv, queue # <<>>, NEW result \in {"ok", "error"}, Answer(result),
         policy' \in PolicyRows, device' \in {None, "STAGED", "ACTIVE", "REVOKED"},
         node' \in [managed : {"no", "raw", "ready"}, debris : BOOLEAN, identity : BOOLEAN], installed' \in [Hubs -> HubState],
         policy'.life = "DELETING" <=> policy.life = "DELETING",
         policy'.life \in Registered <=> policy.life \in Registered,
         policy'.life # "DELETED",
         policy'.life = "FAILED" => policy.life = "FAILED" /\ policy'.failure = policy.failure,
         policy'.key = policy.key, device = "ACTIVE" => device' = "ACTIVE",
         policy'.life \in Registered => policy'.hubs.peer,
         policy'.life = "ACTIVE" => policy'.desired /\ node'.identity /\ node'.managed # "no",
         result = "ok" /\ queue[1].op = "delete" => node'.managed = "no",
         \A h \in policy'.verified : installed'[h] = policy'.hubs \/ AwaitsReconciler(h),
         policy.life \in Registered => \A h \in Hubs : installed[h].peer => installed'[h].peer,
         policy'.life = "ACTIVE" /\ ~lab.ahead => HubsPrepared
  PROVE  SiteInv'
<1> USE DEF None
<1>1. queue \in Seq(Requests) /\ Len(queue) \in Nat \ {0} /\ job \in Jobs /\ 1 \in 1 .. Len(queue)
  BY DEF SiteInv, TypeOK
<1>2. /\ job' \in Jobs /\ queue' \in Seq(Requests) /\ served' = "run" /\ UNCHANGED <<lab, calm>>
      /\ Len(queue') = Len(queue) - 1 /\ \A i \in 1 .. Len(queue') : queue'[i] = queue[i + 1]
      /\ job'.pc = job.pc /\ job'.seen = job.seen /\ job'.stage = job.stage /\ job'.resume = job.resume
      /\ job'.answer = (IF queue[1].awaited THEN result ELSE job.answer)
  BY <1>1, AnswerFields
<1>3. lab.pc = "up" /\ policy.life # "DELETED"
  BY DEF SiteInv, QueueInv, LifeInv
<1>4. TypeOK'
  BY <1>2 DEF SiteInv, TypeOK
<1>5. queue[1].awaited => Len(queue) = 1 /\ job.pc = queue[1].op
  BY <1>1 DEF SiteInv, QueueInv
<1>6. Len(queue') = 0 => queue' = <<>>
  BY <1>2
<1>7. QueueInv'
  <2>1. \A i \in 1 .. Len(queue') :
          /\ queue'[i].awaited => i = Len(queue') /\ job'.pc = queue'[i].op /\ job'.answer = None
          /\ queue'[i].op \in {"create", "delete"}
          /\ queue'[i].op = "delete" => policy'.life = "DELETING"
    <3> SUFFICES ASSUME NEW i \in 1 .. Len(queue')
                 PROVE  /\ queue'[i].awaited => i = Len(queue') /\ job'.pc = queue'[i].op /\ job'.answer = None
                        /\ queue'[i].op \in {"create", "delete"}
                        /\ queue'[i].op = "delete" => policy'.life = "DELETING"
      OBVIOUS
    <3>1. /\ i + 1 \in 1 .. Len(queue) /\ i + 1 > 1 /\ queue'[i] = queue[i + 1] /\ Len(queue') = Len(queue) - 1
          /\ ~queue[1].awaited
      BY <1>1, <1>2, <1>5
    <3>2. /\ queue[i + 1].awaited => i + 1 = Len(queue) /\ job.pc = queue[i + 1].op /\ job.answer = None
          /\ queue[i + 1].op \in {"create", "delete"}
          /\ queue[i + 1].op = "delete" => policy.life = "DELETING"
      BY <3>1 DEF SiteInv, QueueInv
    <3> QED BY <1>1, <1>2, <3>1, <3>2
  <2>2. job'.pc \in {"idle", "failed", "revoke", "retire"} \/ (job'.pc \in Waiting /\ job'.answer = None) \/ queue' = <<>>
    BY <1>1, <1>2, <1>5, <1>6 DEF SiteInv, QueueInv
  <2> QED BY <1>2, <1>3, <2>1, <2>2 DEF QueueInv
<1>8. ~Serving("edge")'
  <2> SUFFICES ASSUME queue' # <<>> PROVE Head(queue').op # "edge"
    BY DEF Serving
  <2>1. 1 \in 1 .. Len(queue') /\ Head(queue') = queue'[1]
    BY <1>2
  <2>2. 2 \in 1 .. Len(queue) /\ queue'[1] = queue[2]
    BY <1>1, <1>2, <2>1
  <2>3. queue[2].op \in {"create", "delete"}
    BY <2>2 DEF SiteInv, QueueInv
  <2> QED BY <2>1, <2>2, <2>3
<1>9. Backed => Backed'
  BY DEF Backed
<1>10. job.pc = "delete" => job.answer # "ok"
  BY DEF SiteInv, QueueInv, Waiting
<1>11. job'.pc = "delete" /\ job'.answer = "ok" => node'.managed = "no"
  BY <1>2, <1>5, <1>10
<1>12. StageInv'
  BY <1>2, <1>3, <1>9, <1>11 DEF SiteInv, StageInv
<1>13. LifeInv'
  BY <1>2, <1>3, <1>9 DEF SiteInv, LifeInv, Registered
<1>14. job'.pc \notin {"owner", "publish", "configure"}
  BY <1>2 DEF SiteInv, QueueInv, Waiting
<1>15. policy.life \in Registered /\ HubsPrepared => HubsPrepared'
  BY <1>2 DEF HubsPrepared, AwaitsReconciler
<1>16. policy'.life = "ACTIVE" => policy.life \in Registered
  BY DEF Registered
<1>17. HubInv'
  BY <1>2, <1>8, <1>14, <1>15, <1>16 DEF SiteInv, HubInv, AwaitsReconciler
<1> QED BY <1>4, <1>7, <1>12, <1>13, <1>17 DEF SiteInv

(* What holds while a request is being served. *)
LEMMA WhileServing ==
  ASSUME SiteInv, queue # <<>>
  PROVE  /\ policy \in PolicyRows /\ device \in {None, "STAGED", "ACTIVE", "REVOKED"} /\ job \in Jobs
         /\ node \in [managed : {"no", "raw", "ready"}, debris : BOOLEAN, identity : BOOLEAN] /\ installed \in [Hubs -> HubState]
         /\ queue \in Seq(Requests) /\ Head(queue) = queue[1] /\ 1 \in 1 .. Len(queue)
         /\ lab.pc = "up" /\ policy.life # "DELETED"
         /\ policy.life \in Registered => policy.hubs.peer /\ policy.key = "ACTIVE"
         /\ policy.life = "ACTIVE" => policy.desired /\ node.identity /\ node.managed # "no"
         /\ \A h \in policy.verified : installed[h] = policy.hubs \/ AwaitsReconciler(h)
         /\ policy.life = "ACTIVE" /\ ~lab.ahead => HubsPrepared
<1>1. queue \in Seq(Requests) /\ Head(queue) = queue[1] /\ 1 \in 1 .. Len(queue)
  BY DEF SiteInv, TypeOK
<1>2. lab.pc = "up" /\ policy.life # "DELETED"
  BY DEF SiteInv, QueueInv, LifeInv
<1> QED BY <1>1, <1>2 DEF SiteInv, TypeOK, LifeInv, HubInv, Backed

(* Requests that change the topology, or nothing. *)
LEMMA TopologyRequests ==
  ASSUME SiteInv, CreateSite \/ DeleteSite \/ RequestFails
  PROVE  SiteInv'
<1>1. queue # <<>> /\ UNCHANGED <<policy, device, installed>>
  BY DEF CreateSite, DeleteSite, RequestFails, Serving
<1>2. PICK result \in {"ok", "error"} : Answer(result)
  BY DEF CreateSite, DeleteSite, RequestFails
<1> USE <1>1, WhileServing
<1>3. CASE CreateSite
  <2>1. /\ node' \in [managed : {"no", "raw", "ready"}, debris : BOOLEAN, identity : BOOLEAN]
        /\ node.managed # "no" => node'.managed # "no"
        /\ node'.identity = node.identity /\ queue[1].op = "create"
    BY <1>3 DEF CreateSite, Serving
  <2> QED BY <1>2, <2>1, AnswerStep
<1>4. CASE DeleteSite
  <2>1. node' = [node EXCEPT !.managed = "no"] /\ queue[1].op = "delete"
    BY <1>4 DEF DeleteSite, Serving
  <2>2. policy.life = "DELETING"
    BY <2>1 DEF SiteInv, QueueInv
  <2>3. node' \in [managed : {"no", "raw", "ready"}, debris : BOOLEAN, identity : BOOLEAN] /\ node'.managed = "no"
    BY <2>1
  <2> QED BY <1>2, <2>2, <2>3, AnswerStep
<1>5. CASE RequestFails
  <2>1. Answer("error") /\ UNCHANGED node
    BY <1>5 DEF RequestFails
  <2> QED BY <2>1, AnswerStep
<1> QED BY <1>3, <1>4, <1>5

(* The requests of the hubs and the edge. *)
LEMMA ReconcileRequests ==
  ASSUME SiteInv, (\E h \in Hubs : ReconcileHub(h)) \/ ReconcileEdge
  PROVE  SiteInv'
<1> USE DEF None
<1>1. queue # <<>> /\ UNCHANGED <<device, node>>
  BY DEF ReconcileHub, ReconcileEdge, Serving
<1> USE <1>1, WhileServing
<1>2. CASE \E h \in Hubs : ReconcileHub(h)
  <2>1. PICK h \in Hubs : ReconcileHub(h)
    BY <1>2
  <2>2. /\ queue[1].op = h /\ h # "delete" /\ installed' = [installed EXCEPT ![h] = policy.hubs]
    BY <2>1 DEF ReconcileHub, Serving, Hubs
  <2>3. PICK result \in {"ok", "error"} : Answer(result)
    BY <2>1 DEF ReconcileHub
  <2>4. policy' = [policy EXCEPT !.verified = policy.verified \cup {h}] \/ policy' = policy
    BY <2>1, Zenon DEF ReconcileHub
  <2>5. /\ policy' \in PolicyRows /\ policy'.life = policy.life /\ policy'.failure = policy.failure
        /\ policy'.key = policy.key /\ policy'.desired = policy.desired /\ policy'.hubs = policy.hubs
        /\ policy'.verified \subseteq policy.verified \cup {h}
    BY <2>4 DEF PolicyRows
  <2>6. policy.hubs \in HubState
    BY DEF PolicyRows
  <2>7. /\ installed' \in [Hubs -> HubState] /\ installed'[h] = policy.hubs
        /\ \A g \in Hubs \ {h} : installed'[g] = installed[g]
    BY <2>2, <2>6
  <2>8. policy.verified \subseteq Hubs
    BY DEF PolicyRows
  <2>9. \A g \in policy'.verified : installed'[g] = policy'.hubs \/ AwaitsReconciler(g)
    BY <2>5, <2>7, <2>8
  <2>10. policy.life \in Registered => \A g \in Hubs : installed[g].peer => installed'[g].peer
    BY <2>7
  <2> QED BY <2>2, <2>3, <2>5, <2>7, <2>9, <2>10, AnswerStep
<1>3. CASE ReconcileEdge
  <2>1. /\ queue[1].op = "edge" /\ Serving("edge") /\ Answer("ok") /\ UNCHANGED installed
        /\ node.managed # "no" /\ node.identity
    BY <1>3 DEF ReconcileEdge, Reconcilable, Serving
  <2>2. \/ policy' = policy
        \/ policy.desired /\ policy.life \in {"PROVISIONING", "RECONCILING"} /\ policy' = Moved("ACTIVE", None)
    BY <1>3 DEF ReconcileEdge, AcknowledgeEdge
  <2>3. CASE policy' = policy
    BY <2>1, <2>3, AnswerStep
  <2>4. CASE policy.desired /\ policy.life \in {"PROVISIONING", "RECONCILING"} /\ policy' = Moved("ACTIVE", None)
    <3>1. "ACTIVE" \in Lifecycle /\ "ACTIVE" \in ActiveConfiguration /\ "ACTIVE" \in Registered /\ policy.life \in Registered
      BY <2>4 DEF Lifecycle, ActiveConfiguration, Registered
    <3>2. /\ policy' \in PolicyRows /\ policy'.life = "ACTIVE" /\ policy'.key = policy.key /\ policy'.desired
          /\ policy'.verified = {} \/ (policy'.hubs = policy.hubs /\ policy'.verified = policy.verified)
          /\ policy'.hubs.peer
      <4>1. policy \in PolicyRows /\ None \in Stages \cup {None} /\ policy.key = "ACTIVE" /\ policy.life # "ACTIVE"
        BY <2>4, <3>1
      <4>2. LET m == Moved("ACTIVE", None)
            IN  /\ m \in PolicyRows /\ m.life = "ACTIVE" /\ m.key = policy.key /\ m.desired = policy.desired
                /\ m.verified = {} \/ (m.hubs = policy.hubs /\ m.verified = policy.verified)
                /\ m = policy \/ (m.hubs.peer <=> "ACTIVE" \in ActiveConfiguration /\ policy.key = "ACTIVE")
        BY ONLY <3>1, <4>1, MovedFields
      <4> QED BY <2>4, <3>1, <4>1, <4>2
    <3>3. HubsPrepared
      BY <2>1, <3>1 DEF SiteInv, HubInv
    <3> QED BY <2>1, <2>4, <3>1, <3>2, <3>3, AnswerStep
  <2> QED BY <2>2, <2>3, <2>4
<1> QED BY <1>2, <1>3

(* The bootstrap's own steps: enrolment, registration and promotion. *)
LEMMA BootstrapRequests ==
  ASSUME SiteInv, BootstrapSite \/ RegisterKey \/ Promote
  PROVE  SiteInv'
<1> USE DEF None
<1>1. queue # <<>> /\ Serving("bootstrap") /\ UNCHANGED installed
  BY DEF BootstrapSite, RegisterKey, Promote, Serving
<1>2. /\ policy \in PolicyRows /\ device \in {None, "STAGED", "ACTIVE", "REVOKED"} /\ job \in Jobs
      /\ node \in [managed : {"no", "raw", "ready"}, debris : BOOLEAN, identity : BOOLEAN] /\ installed \in [Hubs -> HubState]
      /\ queue[1].op = "bootstrap"
      /\ lab.pc = "up" /\ policy.life # "DELETED"
      /\ policy.life \in Registered => policy.hubs.peer /\ policy.key = "ACTIVE"
      /\ policy.life = "ACTIVE" => policy.desired /\ node.identity /\ node.managed # "no"
      /\ \A h \in policy.verified : installed[h] = policy.hubs \/ AwaitsReconciler(h)
      /\ policy.life = "ACTIVE" /\ ~lab.ahead => HubsPrepared
  BY <1>1, WhileServing DEF Serving
<1>3. ~Serving("edge") /\ job.pc \notin {"owner", "publish", "configure"} /\ ~(job.pc = "delete" /\ job.answer = "ok")
  BY <1>1, <1>2 DEF SiteInv, QueueInv, Serving, Waiting
<1>4. CASE BootstrapSite /\ Answer("error")
  <2>1. device' = "ACTIVE" /\ UNCHANGED <<policy, installed>>
    BY <1>4 DEF BootstrapSite
  <2>2. node' = node \/ node' = [node EXCEPT !.identity = TRUE]
    BY <1>4 DEF BootstrapSite
  <2>3. /\ node' \in [managed : {"no", "raw", "ready"}, debris : BOOLEAN, identity : BOOLEAN]
        /\ node'.managed = node.managed /\ (node.identity => node'.identity)
    BY <1>2, <2>2
  <2> QED BY <1>1, <1>2, <1>4, <2>1, <2>3, AnswerStep
<1>5. CASE BootstrapSite /\ ~Answer("error")
  <2>1. /\ device' = "ACTIVE" /\ node' = [node EXCEPT !.identity = TRUE] /\ served' = "register"
        /\ UNCHANGED <<policy, installed, queue, lab, job, calm>>
    BY <1>5 DEF BootstrapSite
  <2>2. /\ node' \in [managed : {"no", "raw", "ready"}, debris : BOOLEAN, identity : BOOLEAN]
        /\ node'.managed = node.managed /\ node'.identity
    BY <1>2, <2>1
  <2>3. TypeOK'
    BY <2>1, <2>2 DEF SiteInv, TypeOK
  <2>4. QueueInv'
    BY <1>1, <1>2, <2>1 DEF SiteInv, QueueInv
  <2>5. StageInv'
    BY <2>1, <2>2 DEF SiteInv, StageInv, Backed
  <2>6. LifeInv'
    BY <1>2, <2>1, <2>2 DEF SiteInv, LifeInv, Backed
  <2>7. HubInv'
    BY <1>3, <2>1 DEF SiteInv, HubInv, HubsPrepared, AwaitsReconciler, Serving
  <2> QED BY <2>3, <2>4, <2>5, <2>6, <2>7 DEF SiteInv
<1>6. CASE RegisterKey
  <2>1. /\ served = "register" /\ policy.life \in ActiveConfiguration /\ policy' = [policy EXCEPT !.key = "ACTIVE"]
        /\ served' = "promote" /\ UNCHANGED <<device, node, installed, queue, lab, job, calm>>
    BY <1>6 DEF RegisterKey, Registrable
  <2>2. policy.life \notin {"DELETING", "DELETED", "FAILED"}
    BY <2>1 DEF ActiveConfiguration
  <2>3. /\ policy' \in PolicyRows /\ policy'.life = policy.life /\ policy'.failure = policy.failure
        /\ policy'.key = "ACTIVE" /\ policy'.desired = policy.desired /\ policy'.hubs = policy.hubs
        /\ policy'.verified = policy.verified
    BY <1>2, <2>1 DEF PolicyRows
  <2>4. Backed'
    BY <2>1, <2>2, <2>3 DEF SiteInv, LifeInv, Backed
  <2>5. TypeOK'
    BY <2>1, <2>3 DEF SiteInv, TypeOK
  <2>6. QueueInv'
    BY <1>1, <1>2, <2>1, <2>3 DEF SiteInv, QueueInv
  <2>7. job.pc # "delete"
    BY <2>2 DEF SiteInv, StageInv, Deleting
  <2>8. StageInv'
    BY <2>1, <2>3, <2>4, <2>7 DEF SiteInv, StageInv
  <2>9. LifeInv'
    BY <2>1, <2>2, <2>3, <2>4 DEF SiteInv, LifeInv
  <2>10. HubInv'
    BY <1>3, <2>1, <2>3 DEF SiteInv, HubInv, HubsPrepared, AwaitsReconciler, Serving
  <2> QED BY <2>5, <2>6, <2>8, <2>9, <2>10 DEF SiteInv
<1>7. CASE Promote /\ policy.life \in DOMAIN Promotion
  <2> DEFINE l == Promotion[policy.life]
  <2>1. /\ served = "promote" /\ policy' = Moved(l, None)
        /\ UNCHANGED <<device, node, installed, served, queue, lab, job, calm>>
    BY <1>7 DEF Promote
  <2>2. policy.life \in {"ZTP_STAGED", "ENROLLING", "ENROLLED", "REGISTERING"}
        /\ l \in {"ENROLLING", "ENROLLED", "REGISTERING", "PROVISIONING"}
    BY <1>7 DEF Promotion
  <2> HIDE DEF l
  <2>3. l \in Lifecycle /\ l \in ActiveConfiguration /\ l \notin {"FAILED", "DELETED", "DELETING", "ACTIVE"}
    BY <2>2 DEF Lifecycle, ActiveConfiguration
  <2>4. /\ policy' \in PolicyRows /\ policy'.life = l /\ policy'.key = policy.key /\ policy'.desired = policy.desired
        /\ policy'.verified = {} \/ (policy'.hubs = policy.hubs /\ policy'.verified = policy.verified)
        /\ policy' = policy \/ (policy'.hubs.peer <=> policy.key = "ACTIVE")
    BY <1>2, <2>1, <2>3, MovedFields
  <2>5. Backed /\ Backed' /\ policy.life \notin Registered
    BY <2>1, <2>2, <2>4 DEF SiteInv, LifeInv, Backed, Registered
  <2>6. policy' # policy
    BY <2>4, <2>5, <2>1, <2>2 DEF Moved, Promotion, l
  <2>7. TypeOK'
    BY <2>1, <2>4 DEF SiteInv, TypeOK
  <2>8. QueueInv'
    BY <2>1, <2>2 DEF SiteInv, QueueInv
  <2>9. StageInv'
    BY <2>1, <2>2, <2>4, <2>5 DEF SiteInv, StageInv
  <2>10. LifeInv'
    BY <2>1, <2>3, <2>4, <2>5 DEF SiteInv, LifeInv
  <2>11. HubInv'
    BY <1>3, <2>1, <2>3, <2>4, <2>5, <2>6 DEF SiteInv, HubInv, AwaitsReconciler, Serving, Backed
  <2> QED BY <2>7, <2>8, <2>9, <2>10, <2>11 DEF SiteInv
<1>8. CASE Promote /\ policy.life \notin DOMAIN Promotion
  <2>1. policy' = Compiled(policy) /\ Answer("ok") /\ UNCHANGED <<device, node, installed>>
    BY <1>8 DEF Promote
  <2>2. /\ policy' \in PolicyRows /\ policy'.life = policy.life /\ policy'.failure = policy.failure
        /\ policy'.key = policy.key /\ policy'.desired = policy.desired
        /\ policy'.hubs.peer <=> policy.life \in ActiveConfiguration /\ policy.key = "ACTIVE"
        /\ policy'.verified = {} \/ (policy'.hubs = policy.hubs /\ policy'.verified = policy.verified)
    BY <1>2, <2>1, CompiledFields
  <2>3. policy.life \in Registered => policy.life \in ActiveConfiguration
    BY DEF Registered, ActiveConfiguration, Lifecycle
  <2> QED BY <1>1, <1>2, <2>1, <2>2, <2>3, AnswerStep
<1> QED BY <1>4, <1>5, <1>6, <1>7, <1>8
-----------------------------------------------------------------------------
(* The lab's process ends. *)
LEMMA LabExitStep ==
  ASSUME SiteInv, LabExit
  PROVE  SiteInv'
<1> USE DEF None
<1>1. /\ lab' = Down /\ node' = [node EXCEPT !.managed = "no", !.debris = FALSE] /\ installed' = [h \in Hubs |-> Nothing]
      /\ queue' = <<>> /\ served' = "run" /\ UNCHANGED <<policy, device, calm>>
      /\ job' = job \/ (job.pc \in Waiting /\ job' = [job EXCEPT !.answer = "error"])
  BY DEF LabExit
<1>2. /\ job \in Jobs /\ node \in [managed : {"no", "raw", "ready"}, debris : BOOLEAN, identity : BOOLEAN]
  BY DEF SiteInv, TypeOK
<1>3. /\ job' \in Jobs /\ job'.pc = job.pc /\ job'.seen = job.seen /\ job'.stage = job.stage /\ job'.resume = job.resume
  BY <1>1, <1>2 DEF Jobs
<1>4. /\ node' \in [managed : {"no", "raw", "ready"}, debris : BOOLEAN, identity : BOOLEAN]
      /\ node'.managed = "no" /\ node'.identity = node.identity
  BY <1>1, <1>2
<1>5. lab' \in Labs /\ lab'.pc = "down" /\ lab'.target = None /\ ~lab'.ahead
  BY <1>1 DEF Down, Labs, Launching
<1>6. installed' \in [Hubs -> HubState]
  BY <1>1 DEF Nothing, HubState
<1>7. TypeOK'
  BY <1>1, <1>3, <1>4, <1>5, <1>6 DEF SiteInv, TypeOK
<1>8. QueueInv'
  BY <1>1 DEF QueueInv
<1>9. StageInv'
  BY <1>1, <1>3, <1>4, <1>5 DEF SiteInv, StageInv, Backed
<1>10. LifeInv'
  BY <1>1, <1>3, <1>4, <1>5 DEF SiteInv, LifeInv, Backed
<1>11. HubInv'
  BY <1>1, <1>5 DEF SiteInv, HubInv, HubsPrepared, AwaitsReconciler
<1> QED BY <1>7, <1>8, <1>9, <1>10, <1>11 DEF SiteInv

(* The steps of its launch. *)
LEMMA LaunchSteps ==
  ASSUME SiteInv, Launch \/ LoadActiveDynamicSites \/ RestoreSite \/ StartControl
  PROVE  SiteInv'
<1> USE DEF None
<1>1. /\ lab \in Labs /\ node \in [managed : {"no", "raw", "ready"}, debris : BOOLEAN, identity : BOOLEAN]
  BY DEF SiteInv, TypeOK
<1>2. /\ lab.pc \in {"down", "built", "restore", "start"} /\ UNCHANGED <<policy, device, installed, queue, served, job, calm>>
      /\ \/ lab.pc = "down" /\ lab' = [lab EXCEPT !.pc = "built"] /\ node' = node
         \/ lab.pc = "built" /\ lab' = [lab EXCEPT !.pc = "restore", !.restored = policy.life = "ACTIVE"] /\ node' = node
         \/ /\ lab.pc = "restore" /\ lab' = [lab EXCEPT !.pc = "start"]
            /\ node' = IF lab.restored THEN [node EXCEPT !.managed = "ready"] ELSE node
         \/ lab.pc = "start" /\ lab' = [lab EXCEPT !.pc = "up", !.target = "hub1"] /\ node' = node
  BY DEF Launch, LoadActiveDynamicSites, RestoreSite, StartControl, LaunchStep
<1>3. /\ lab' \in Labs /\ lab'.ahead = lab.ahead
      /\ \/ lab.pc = "down" /\ lab'.pc = "built" /\ lab'.target = lab.target /\ node' = node
         \/ /\ lab.pc = "built" /\ lab'.pc = "restore" /\ lab'.target = lab.target /\ node' = node
            /\ lab'.restored = (policy.life = "ACTIVE")
         \/ /\ lab.pc = "restore" /\ lab'.pc = "start" /\ lab'.target = lab.target
            /\ node' = IF lab.restored THEN [node EXCEPT !.managed = "ready"] ELSE node
         \/ lab.pc = "start" /\ lab'.pc = "up" /\ lab'.target = "hub1" /\ node' = node
  BY <1>1, <1>2 DEF Labs, Launching, Hubs
<1>4. /\ node' \in [managed : {"no", "raw", "ready"}, debris : BOOLEAN, identity : BOOLEAN] /\ node'.identity = node.identity
      /\ lab.pc # "restore" \/ ~lab.restored => node'.managed = node.managed
      /\ lab.pc = "restore" /\ lab.restored => node'.managed # "no"
  BY <1>1, <1>3
<1>5. queue = <<>> /\ lab.target = None /\ ~lab.ahead /\ served = "run"
  BY <1>2 DEF SiteInv, QueueInv, LifeInv, HubInv
<1>6. TypeOK'
  BY <1>2, <1>3, <1>4 DEF SiteInv, TypeOK
<1>7. QueueInv'
  BY <1>2, <1>5 DEF QueueInv
<1>8. StageInv'
  BY <1>2, <1>3, <1>4 DEF SiteInv, StageInv, Backed, Deleting
<1>9. LifeInv'
  BY <1>2, <1>3, <1>4, <1>5 DEF SiteInv, LifeInv, Backed
<1>10. \A h \in Hubs : AwaitsReconciler(h)'
  BY <1>3, <1>5 DEF AwaitsReconciler
<1>11. policy.verified \subseteq Hubs
  BY DEF SiteInv, TypeOK, PolicyRows
<1>12. HubInv'
  BY <1>2, <1>3, <1>5, <1>10, <1>11 DEF SiteInv, HubInv, HubsPrepared
<1> QED BY <1>6, <1>7, <1>8, <1>9, <1>12 DEF SiteInv

(* The persistent reconciler at a hub. *)
LEMMA PersistentHubStep ==
  ASSUME SiteInv, NEW h \in Hubs, PersistentHub(h)
  PROVE  SiteInv'
<1> USE DEF None
<1>1. /\ policy \in PolicyRows /\ lab \in Labs /\ installed \in [Hubs -> HubState]
      /\ policy.hubs \in HubState /\ policy.verified \subseteq Hubs
  BY DEF SiteInv, TypeOK, PolicyRows
<1>2. /\ lab.target = h /\ installed' = [installed EXCEPT ![h] = policy.hubs]
      /\ UNCHANGED <<device, node, queue, served, job, calm>>
      /\ \/ policy' = [policy EXCEPT !.verified = policy.verified \cup {h}] /\ lab' = [lab EXCEPT !.target = NextTarget]
         \/ policy' = policy /\ lab' = lab
  BY Zenon DEF PersistentHub, Reconciler
<1>3. /\ h \in {"hub1", "hub2"} /\ lab.pc = "up" /\ ~lab.ahead
  BY <1>2 DEF SiteInv, LifeInv, HubInv, Hubs
<1>4. NextTarget \in Hubs \cup {"edge", None} /\ NextTarget # "hub1" /\ (NextTarget = "hub2" <=> h = "hub1")
  BY <1>2, <1>3 DEF NextTarget, Hubs
<1>5. /\ policy' \in PolicyRows /\ policy'.life = policy.life /\ policy'.failure = policy.failure
      /\ policy'.key = policy.key /\ policy'.desired = policy.desired /\ policy'.hubs = policy.hubs
      /\ policy'.verified \subseteq policy.verified \cup {h}
  BY <1>1, <1>2 DEF PolicyRows
<1>6. /\ lab' \in Labs /\ lab'.pc = "up" /\ ~lab'.ahead /\ lab'.restored = lab.restored
      /\ lab'.target = h \/ lab'.target = NextTarget
  BY <1>1, <1>2, <1>3, <1>4 DEF Labs
<1>7. /\ installed' \in [Hubs -> HubState] /\ installed'[h] = policy.hubs
      /\ \A g \in Hubs \ {h} : installed'[g] = installed[g]
  BY <1>1, <1>2
<1>8. TypeOK'
  BY <1>2, <1>5, <1>6, <1>7 DEF SiteInv, TypeOK
<1>9. QueueInv'
  BY <1>2, <1>3, <1>5, <1>6 DEF SiteInv, QueueInv
<1>10. StageInv'
  BY <1>2, <1>3, <1>5, <1>6 DEF SiteInv, StageInv, Backed
<1>11. LifeInv'
  BY <1>2, <1>3, <1>5, <1>6 DEF SiteInv, LifeInv, Backed
<1>12. \A g \in Hubs \ {h} : AwaitsReconciler(g) => AwaitsReconciler(g)'
  BY <1>2, <1>3, <1>4, <1>6 DEF AwaitsReconciler, Hubs
<1>13. policy.hubs.peer /\ HubsPrepared => HubsPrepared'
  BY <1>7, <1>12 DEF HubsPrepared
<1>14. \A g \in policy'.verified : installed'[g] = policy'.hubs \/ AwaitsReconciler(g)'
  BY <1>1, <1>5, <1>7, <1>12 DEF SiteInv, HubInv
<1>15. Serving("edge")' <=> Serving("edge")
  BY <1>2 DEF Serving
<1>16. policy.life = "ACTIVE" => policy.life \in Registered
  BY DEF Registered
<1>17. HubInv'
  BY <1>2, <1>3, <1>5, <1>6, <1>13, <1>14, <1>15, <1>16 DEF SiteInv, HubInv
<1> QED BY <1>8, <1>9, <1>10, <1>11, <1>17 DEF SiteInv

(* The persistent reconciler at the site. *)
LEMMA PersistentEdgeStep ==
  ASSUME SiteInv, PersistentEdge
  PROVE  SiteInv'
<1> USE DEF None
<1>1. policy \in PolicyRows /\ lab \in Labs
  BY DEF SiteInv, TypeOK
<1> DEFINE a == policy.life # policy'.life
<1>2. /\ lab.target = "edge" /\ policy.desired /\ node.managed # "no" /\ node.identity
      /\ policy.life \notin {"DELETING", "DELETED"}
      /\ UNCHANGED <<device, node, installed, queue, served, job, calm>>
      /\ lab' = [lab EXCEPT !.target = NextTarget, !.ahead = a]
      /\ \/ policy' = policy
         \/ policy.life \in {"PROVISIONING", "RECONCILING"} /\ policy' = Moved("ACTIVE", None)
  BY DEF PersistentEdge, Reconciler, Reconcilable, AcknowledgeEdge
<1>3. lab.pc = "up" /\ ~lab.ahead /\ NextTarget = None
  BY <1>2 DEF SiteInv, LifeInv, HubInv, NextTarget
<1>4. a \in BOOLEAN
  OBVIOUS
<1>5. (a <=> policy.life # policy'.life)
  OBVIOUS
<1> HIDE DEF a
<1>6. lab' \in Labs /\ lab'.pc = "up" /\ lab'.target = None /\ lab'.restored = lab.restored /\ lab'.ahead = a
  BY <1>1, <1>2, <1>3, <1>4 DEF Labs
<1>7. "ACTIVE" \in Lifecycle /\ "ACTIVE" \in ActiveConfiguration /\ "ACTIVE" \in Registered
  BY DEF Lifecycle, ActiveConfiguration, Registered
<1>8. policy.life \in {"PROVISIONING", "RECONCILING"} => policy.life \in Registered /\ policy.key = "ACTIVE"
  BY DEF SiteInv, LifeInv, Backed, Registered
<1>9. /\ policy' \in PolicyRows /\ policy'.key = policy.key /\ policy'.desired = policy.desired
      /\ policy'.verified = {} \/ (policy'.hubs = policy.hubs /\ policy'.verified = policy.verified)
      /\ \/ policy' = policy
         \/ policy.life \in Registered /\ policy'.life = "ACTIVE" /\ policy'.hubs.peer /\ policy.life # "ACTIVE"
  <2>1. CASE policy' = policy
    BY <1>1, <2>1
  <2>2. CASE policy.life \in {"PROVISIONING", "RECONCILING"} /\ policy' = Moved("ACTIVE", None)
    <3>1. LET m == Moved("ACTIVE", None)
          IN  /\ m \in PolicyRows /\ m.life = "ACTIVE" /\ m.key = policy.key /\ m.desired = policy.desired
              /\ m.verified = {} \/ (m.hubs = policy.hubs /\ m.verified = policy.verified)
              /\ m = policy \/ (m.hubs.peer <=> "ACTIVE" \in ActiveConfiguration /\ policy.key = "ACTIVE")
      BY ONLY <1>1, <1>7, MovedFields DEF None
    <3> QED BY <1>7, <1>8, <2>2, <3>1
  <2> QED BY <1>2, <2>1, <2>2
<1>10. TypeOK'
  BY <1>2, <1>6, <1>9 DEF SiteInv, TypeOK
<1>11. QueueInv'
  BY <1>2, <1>3, <1>6, <1>9 DEF SiteInv, QueueInv, Registered
<1>12. Backed => Backed'
  BY <1>2, <1>9 DEF Backed
<1>13. policy.life \in Registered => policy'.life \in Registered
  BY <1>7, <1>9
<1>14. policy.life = "DELETING" => policy'.life = "DELETING"
  BY <1>2
<1>15. StageInv'
  BY <1>2, <1>3, <1>6, <1>9, <1>12, <1>13, <1>14 DEF SiteInv, StageInv
<1>16. LifeInv'
  BY <1>2, <1>3, <1>6, <1>9, <1>12 DEF SiteInv, LifeInv, Registered
<1>17. \A h \in Hubs : AwaitsReconciler(h)' <=> AwaitsReconciler(h)
  BY <1>2, <1>3, <1>6 DEF AwaitsReconciler
<1>18. policy.verified \subseteq Hubs /\ policy'.verified \subseteq Hubs
  BY <1>1, <1>9 DEF PolicyRows
<1>19. HubsPrepared => HubsPrepared'
  BY <1>2, <1>17 DEF HubsPrepared
<1>20. Serving("edge")' <=> Serving("edge")
  BY <1>2 DEF Serving
<1>21. policy'.life \in Registered => policy.life \in Registered /\ policy'.hubs.peer
  BY <1>9 DEF SiteInv, HubInv
<1>22. policy'.life = "ACTIVE" /\ ~a => HubsPrepared
  BY <1>3, <1>5 DEF SiteInv, HubInv
<1>23. \A h \in policy'.verified : installed'[h] = policy'.hubs \/ AwaitsReconciler(h)'
  BY <1>2, <1>9, <1>17, <1>18 DEF SiteInv, HubInv
<1>24. HubInv'
  BY <1>2, <1>6, <1>19, <1>20, <1>21, <1>22, <1>23 DEF SiteInv, HubInv
<1> QED BY <1>10, <1>11, <1>15, <1>16, <1>24 DEF SiteInv

(* Another site's change, the end of all failures, and no step at all. *)
LEMMA OtherSteps ==
  ASSUME SiteInv, OtherSiteChanges \/ Settle \/ UNCHANGED vars
  PROVE  SiteInv'
<1> USE DEF None
<1>1. /\ policy \in PolicyRows /\ calm \in BOOLEAN
  BY DEF SiteInv, TypeOK
<1>2. /\ policy' = policy \/ \E others \in BOOLEAN : policy' = [policy EXCEPT !.verified = {}, !.others = others]
      /\ UNCHANGED <<device, node, installed, queue, served, lab, job>> /\ calm' \in BOOLEAN
  BY <1>1 DEF OtherSiteChanges, Settle, vars, PolicyRows
<1>3. /\ policy' \in PolicyRows /\ policy'.life = policy.life /\ policy'.failure = policy.failure
      /\ policy'.key = policy.key /\ policy'.desired = policy.desired /\ policy'.hubs = policy.hubs
      /\ policy'.verified \subseteq policy.verified
  BY <1>1, <1>2 DEF PolicyRows
<1>4. TypeOK'
  BY <1>2, <1>3 DEF SiteInv, TypeOK
<1>5. QueueInv'
  BY <1>2, <1>3 DEF SiteInv, QueueInv
<1>6. StageInv'
  BY <1>2, <1>3 DEF SiteInv, StageInv, Backed
<1>7. LifeInv'
  BY <1>2, <1>3 DEF SiteInv, LifeInv, Backed
<1>8. HubInv'
  BY <1>2, <1>3 DEF SiteInv, HubInv, HubsPrepared, AwaitsReconciler, Serving
<1> QED BY <1>4, <1>5, <1>6, <1>7, <1>8 DEF SiteInv

(* There is no site before it is created. *)
LEMMA SiteInit == Init => SiteInv
<1> SUFFICES ASSUME Init PROVE SiteInv
  OBVIOUS
<1> USE DEF None
<1>1. /\ job.pc = "idle" /\ job.seen = None /\ job.stage = None /\ job.resume = None /\ job \in Jobs
  BY DEF Init, Idle, Jobs, ClaimState
<1>2. lab \in Labs /\ lab.pc = "down" /\ lab.target = None /\ ~lab.ahead
  BY DEF Init, Down, Labs, Launching
<1>3. Nothing \in HubState
  BY DEF Nothing, HubState
<1>4. policy \in PolicyRows /\ policy.life = None
  BY <1>3 DEF Init, PolicyRows
<1>5. TypeOK
  <2>1. served \in {"run", "register", "promote"} /\ calm \in BOOLEAN
    BY DEF Init
  <2>2. installed \in [Hubs -> HubState]
    BY <1>3 DEF Init
  <2>3. device \in {None, "STAGED", "ACTIVE", "REVOKED"} /\ node \in [managed : {"no", "raw", "ready"}, debris : BOOLEAN, identity : BOOLEAN]
    BY DEF Init
  <2>4. queue \in Seq(Requests)
    BY EmptySeq DEF Init
  <2> QED BY <1>1, <1>2, <1>4, <2>1, <2>2, <2>3, <2>4 DEF TypeOK
<1>6. QueueInv
  BY <1>1 DEF Init, QueueInv
<1>7. StageInv
  BY <1>1 DEF StageInv, Registered, Resumed, Provisioning, Deleting
<1>8. LifeInv
  BY <1>2, <1>4 DEF Init, LifeInv, Registered
<1>9. HubInv
  BY <1>2, <1>4 DEF HubInv, AwaitsReconciler, Registered
<1> QED BY <1>5, <1>6, <1>7, <1>8, <1>9 DEF SiteInv

(* Every step keeps the invariant. *)
LEMMA SiteNext == SiteInv /\ [Next]_vars => SiteInv'
<1> SUFFICES ASSUME SiteInv, [Next]_vars PROVE SiteInv'
  OBVIOUS
<1>1. CASE Create
  BY <1>1, CreateStep
<1>2. CASE Delete
  BY <1>2, EndOrBegin
<1>3. CASE Operate
  <2>1. CASE TopologyCreated \/ Stage \/ StartEnrolling
    BY <2>1, TransitionSteps
  <2>2. CASE Enrolled \/ Unregistered \/ AlreadyActive \/ HubsReconciled \/ ExistingDesired \/ Finish \/ RuntimeError
    BY <2>2, StepsOfCreation
  <2>3. CASE Enroll \/ ReconcileHub1 \/ ReconcileHub2
    BY <2>3, CreationSends
  <2>4. CASE PendingHubs \/ ReserveResources \/ TransferOwnership \/ PutDesiredState \/ Deleted
    BY <2>4, RecordSteps
  <2>5. CASE Configure
    BY <2>5, ConfigureStep
  <2>6. CASE RevokeSite
    BY <2>6, RevokeSiteStep
  <2>7. CASE RetireKey
    BY <2>7, RetireKeyStep
  <2>8. CASE Fail
    BY <2>8, EndOrBegin
  <2> QED BY <1>3, <2>1, <2>2, <2>3, <2>4, <2>5, <2>6, <2>7, <2>8 DEF Operate
<1>4. CASE Timeout \/ Crash
  BY <1>4, GivingUp
<1>5. CASE Runtime
  <2>1. CASE CreateSite \/ DeleteSite \/ RequestFails
    BY <2>1, TopologyRequests
  <2>2. CASE (\E h \in Hubs : ReconcileHub(h)) \/ ReconcileEdge
    BY <2>2, ReconcileRequests
  <2>3. CASE BootstrapSite \/ RegisterKey \/ Promote
    BY <2>3, BootstrapRequests
  <2> QED BY <1>5, <2>1, <2>2, <2>3 DEF Runtime
<1>6. CASE Lab
  <2>1. CASE Launch \/ LoadActiveDynamicSites \/ RestoreSite \/ StartControl
    BY <2>1, LaunchSteps
  <2>2. CASE \E h \in Hubs : PersistentHub(h)
    BY <2>2, PersistentHubStep
  <2>3. CASE PersistentEdge
    BY <2>3, PersistentEdgeStep
  <2> QED BY <1>6, <2>1, <2>2, <2>3 DEF Lab
<1>7. CASE LabExit
  BY <1>7, LabExitStep
<1>8. CASE OtherSiteChanges \/ Settle \/ UNCHANGED vars
  BY <1>8, OtherSteps
<1> QED BY <1>1, <1>2, <1>3, <1>4, <1>5, <1>6, <1>7, <1>8 DEF Next

(* The inductive invariant holds throughout. *)
LEMMA SiteInduction == Spec => []SiteInv
BY SiteInit, SiteNext, PTL DEF Spec
-----------------------------------------------------------------------------
(* An ACTIVE site has its enrolled device, registered key, desired state,  *)
(* identity and node, and of a DELETED one nothing is left, whatever       *)
(* _failure, RuntimeControlClient's timeouts, crashes of the manager and   *)
(* relaunches of the lab came between the steps of create and delete.      *)
THEOREM LifecycleInvariant == Spec => []LifecycleInv
<1>1. SiteInv => LifecycleInv
  BY DEF SiteInv, LifeInv, LifecycleInv, ActiveIsBacked, DeletedIsGone, Backed, Registered
<1> QED BY <1>1, SiteInduction, PTL

(* "Both hubs must prepare and verify before a spoke becomes `ACTIVE`":    *)
(* activate_spoke's check of the verified versions is enough for it, with  *)
(* any number of abandoned requests served in between.                     *)
THEOREM HubsFirst == Spec => []HubFirst
<1>1. SiteInv => HubFirst
  BY DEF SiteInv, HubInv, HubFirst, HubsPrepared
<1> QED BY <1>1, SiteInduction, PTL

(* A record that is DELETING leaves that state for DELETED only: _failure, *)
(* a resumed create, acknowledge_edge and the registration leave it alone. *)
LEMMA DeletingStep ==
  ASSUME SiteInv, policy.life = "DELETING", Next
  PROVE  policy'.life \in {"DELETING", "DELETED"}
<1> USE DEF None, At, Answered
<1>1. policy \in PolicyRows /\ job \in Jobs
  BY DEF SiteInv, TypeOK
<1>2. \A l \in Lifecycle : Allowed(l) => l \in {"DELETING", "DELETED", "FAILED"}
  BY FromDeleting DEF Allowed
<1>3. /\ Compiled(policy).life = "DELETING"
      /\ \A l \in {"DELETING", "DELETED"} : Moved(l, None).life = l
  BY <1>1, CompiledFields, MovedFields DEF Lifecycle
<1>4. job.pc \notin Provisioning
  BY DEF SiteInv, StageInv, Registered
<1>5. \A l \in {"TOPOLOGY_CREATED", "PROVISIONING", "ZTP_STAGED", "ENROLLING", "PENDING_HUBS", "RECONCILING"} : ~Allowed(l)
  BY <1>2 DEF Lifecycle
<1>6. CASE Create
  BY <1>3, <1>6 DEF Create
<1>7. CASE Delete \/ Fail \/ Deleted
  BY <1>3, <1>7 DEF Delete, Fail, Deleted
<1>8. CASE TopologyCreated \/ Stage \/ StartEnrolling
  BY <1>5, <1>8 DEF TopologyCreated, Stage, StartEnrolling, Proceed, ClaimRejected
<1>9. CASE PendingHubs \/ ReserveResources \/ TransferOwnership \/ PutDesiredState \/ Configure
  BY <1>4, <1>9 DEF PendingHubs, ReserveResources, TransferOwnership, PutDesiredState, Configure, Provisioning
<1>10. CASE RetireKey \/ RegisterKey \/ OtherSiteChanges
  BY <1>1, <1>10 DEF RetireKey, RegisterKey, OtherSiteChanges, PolicyRows
<1>11. CASE Promote
  BY <1>3, <1>11 DEF Promote, Promotion
<1>12. CASE (\E h \in Hubs : ReconcileHub(h)) \/ (\E h \in Hubs : PersistentHub(h))
  BY <1>1, <1>12 DEF ReconcileHub, PersistentHub, PolicyRows
<1>13. CASE ReconcileEdge \/ PersistentEdge
  BY <1>13 DEF ReconcileEdge, PersistentEdge, AcknowledgeEdge
<1>14. CASE Enroll \/ Enrolled \/ Unregistered \/ AlreadyActive \/ ReconcileHub1 \/ ReconcileHub2 \/ HubsReconciled
            \/ ExistingDesired \/ Finish \/ RevokeSite \/ RuntimeError \/ Timeout \/ Crash
  BY <1>14 DEF Enroll, ClaimRejected, Enrolled, Unregistered, AlreadyActive, ReconcileHub1, ReconcileHub2, HubsReconciled,
               ExistingDesired, Finish, RevokeSite, RuntimeError, Timeout, Crash
<1>15. CASE CreateSite \/ DeleteSite \/ BootstrapSite \/ RequestFails \/ LabExit \/ Settle
            \/ Launch \/ LoadActiveDynamicSites \/ RestoreSite \/ StartControl
  BY <1>15 DEF CreateSite, DeleteSite, BootstrapSite, RequestFails, LabExit, Settle, Launch, LoadActiveDynamicSites,
               RestoreSite, StartControl, LaunchStep
<1> QED BY <1>6, <1>7, <1>8, <1>9, <1>10, <1>11, <1>12, <1>13, <1>14, <1>15 DEF Next, Operate, Runtime, Lab

(* A deletion that has begun is never overtaken. *)
THEOREM DeletionFinal == Spec => DeletionIsFinal
<1>1. SiteInv /\ [Next]_vars => [policy.life = "DELETING" => policy'.life \in {"DELETING", "DELETED"}]_vars
  BY DeletingStep
<1> QED BY <1>1, SiteInduction, PTL DEF Spec, DeletionIsFinal
=============================================================================
