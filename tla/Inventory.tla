------------------------------ MODULE Inventory -----------------------------
(***************************************************************************)
(* The inventory of sites and what is published from it: the allocation of *)
(* addresses (sdwan/dynamic_control.py), the configuration derived from    *)
(* the rows (common/model.py), the compiler that turns it into the desired *)
(* states of hubs and spokes (desired_state_v5.py), registration and       *)
(* activation (policy_service_v5.py) and the ownership of routes           *)
(* (route_ownership.py).                                                   *)
(*                                                                         *)
(* The management service and the Policy server each have a PolicyService  *)
(* on the database, with a configuration that only its own operations      *)
(* renew, and serve requests from threads that share it without a lock.  A *)
(* transaction is one step, and so are the reads of a compilation, its     *)
(* writes for a hub and those for the spokes; PolicyStore looks inside.    *)
(*                                                                         *)
(* States of the lifecycle that nothing here tells apart are one: STAGED   *)
(* is any from TOPOLOGY_CREATED to REGISTERING, PROVISIONING is any of     *)
(* PROVISIONING, PENDING_HUBS and RECONCILING.  Versions are left out: of  *)
(* a node's desired states there is the latest.  The hubs have registered  *)
(* their keys.                                                             *)
(***************************************************************************)
EXTENDS Integers, FiniteSets, FiniteSetsExt

CONSTANTS
  Sites, Seeds, Devices,
  Threads, Process,  \* the threads and the process of each
  SeedRow,           \* the rows of the topology file
  Number,            \* N for a site that is called siteN, and 0
  FirstId, LastId,   \* address ids to be allocated; octets begin at 1
  TakenIds,          \* ids of the cloud gateways, which the file gives out as well
  MaxEpoch,          \* bound: epochs of a route's ownership
  Scenarios          \* bound: to which sites what happens

Hubs == {"hub1", "hub2"}
Processes == {"management", "policy"}
Coordinators == {"c1", "c2"}
None == "none"

Lifecycle == {"NONE", "ALLOCATING", "STAGED", "PROVISIONING", "ACTIVE", "FAILED", "DELETING", "DELETED"}
NoRow == [life |-> "NONE", address |-> 0, octet |-> 0, index |-> 0, device |-> None]
Rows == [life : Lifecycle, address : 0 .. LastId, octet : 0 .. LastId, index : Nat,
         device : Devices \cup {None}]

ASSUME InventoryAssumption ==
  /\ IsFiniteSet(Sites) /\ Seeds \subseteq Sites /\ Seeds # {}
  /\ SeedRow \in [Seeds -> Rows] /\ \A s \in Seeds : SeedRow[s].life # "NONE"
  /\ Number \in [Sites -> 0 .. LastId]
  /\ LastId \in Nat /\ FirstId \in 1 .. LastId /\ MaxEpoch \in Nat \ {0}
  /\ Scenarios \subseteq [running : SUBSET Seeds, devices : SUBSET Devices, created : SUBSET Sites,
                           managed : SUBSET Sites, enrolled : SUBSET Sites, transferred : SUBSET Sites,
                           threads : SUBSET Threads]
  /\ Process \in [Threads -> Processes] /\ None \notin Threads

(* validate_config has accepted the topology file. *)
ASSUME SeedsDistinct ==
  \A s, t \in Seeds : s # t =>
    /\ SeedRow[s].address # SeedRow[t].address /\ SeedRow[s].octet # SeedRow[t].octet
    /\ SeedRow[s].index # SeedRow[t].index /\ SeedRow[s].device # SeedRow[t].device

VARIABLES
  rows,        \* site_inventory
  keys,        \* sites with an active WireGuard key
  leases,      \* sites with address and port leases
  ownership,   \* route_ownership: owner and epoch of a site's prefix, epoch 0 for no row
  hubState,    \* hub -> its latest desired state
  verified,    \* hubs that have verified it
  spokeState,  \* site -> its latest desired state
  config,      \* process -> the sites of its configuration
  job,         \* thread -> the operation it is at
  held,        \* coordinator -> the ownership record it holds
  settled,     \* since the last change a compilation has run from begin to end
  scenario

database == <<rows, keys, leases, ownership>>
published == <<hubState, verified, spokeState>>
vars == <<database, published, config, job, held, settled, scenario>>
-----------------------------------------------------------------------------
(* The configuration. *)

Existing == {s \in Sites : rows[s].life # "NONE"}
Configured == {s \in Sites : rows[s].life \in {"STAGED", "PROVISIONING", "ACTIVE"}}

(* topology(): the sites of the file when no other is configured. *)
Topology == IF Configured = {} THEN Seeds ELSE Configured

DistinctIn(S, field(_)) == \A s, t \in S : s # t => field(s) # field(t)

(* validate_config: names, devices and indexes; addresses; LAN prefixes.   *)
IdentitiesDistinct(S) ==
  /\ DistinctIn(S, LAMBDA s : rows[s].device)
  /\ DistinctIn(S, LAMBDA s : rows[s].index)
AddressesDistinct(S) ==
  /\ DistinctIn(S, LAMBDA s : rows[s].address)
  /\ \A s \in S : rows[s].address \notin TakenIds
NetworksDistinct(S) == DistinctIn(S, LAMBDA s : rows[s].octet)

Valid == IdentitiesDistinct(Topology) /\ AddressesDistinct(Topology) /\ NetworksDistinct(Topology)
-----------------------------------------------------------------------------
(* Desired states, built from what a compilation has read. *)

NoOwner == [owner |-> None, epoch |-> 0]
Ownerships == [Sites -> [owner : Hubs \cup {None}, epoch : 0 .. MaxEpoch]]

View == [sites |-> Topology, keys |-> keys, owners |-> ownership]

NoView == [sites |-> {}, keys |-> {}, owners |-> [s \in Sites |-> NoOwner]]

(* A spoke reaches every other configured site, through both hubs. *)
BuildSpoke(sites, s) == [known |-> TRUE, routes |-> sites \ {s}]
NoState == [known |-> FALSE, routes |-> {}]

(* A hub's peers are the configured sites that have registered. *)
BuildHub(view) ==
  [known |-> TRUE, peers |-> view.sites \cap view.keys, routes |-> view.sites, owners |-> view.owners]

(* validate_desired_state: no address is allowed to two peers of a hub.    *)
ValidState(state) ==
  /\ DistinctIn(state.peers, LAMBDA s : rows[s].address)
  /\ DistinctIn(state.peers, LAMBDA s : rows[s].octet)

NoHubState == [known |-> FALSE, peers |-> {}, routes |-> {}, owners |-> NoView.owners]

(* Faulty: only the routes are compared, not the peers and the owners.     *)
FaultyChanged(old, new) == ~old.known \/ old.routes # new.routes

(* _effective_changed: with ownership rows the two never compare equal.    *)
Changed(old, new) == old # new \/ \E s \in Sites : new.owners[s].epoch > 0

-----------------------------------------------------------------------------
Idle == [pc |-> "idle", site |-> None, epoch |-> 0, view |-> NoView, fresh |-> FALSE]

TypeOK ==
  /\ rows \in [Sites -> Rows]
  /\ keys \subseteq Sites /\ leases \subseteq Sites
  /\ ownership \in Ownerships
  /\ \A h \in Hubs : /\ hubState[h].known \in BOOLEAN /\ hubState[h].owners \in Ownerships
                     /\ hubState[h].peers \subseteq hubState[h].routes
                     /\ hubState[h].routes \subseteq Sites
  /\ verified \subseteq Hubs
  /\ spokeState \in [Sites -> [known : BOOLEAN, routes : SUBSET Sites]]
  /\ config \in [Processes -> SUBSET Sites]
  /\ \A p \in Threads :
       /\ job[p].pc \in {"idle", "register", "promote", "own", "put", "read", "hub1", "hub2", "spokes"}
       /\ job[p].site \in Sites \cup {None} /\ job[p].epoch \in 0 .. MaxEpoch
       /\ job[p].view.sites \cup job[p].view.keys \subseteq Sites
  /\ \A c \in Coordinators : held[c].site \in Sites \cup {None} /\ held[c].epoch \in 0 .. MaxEpoch
  /\ settled \in BOOLEAN

(* seed_from_config has run in both processes; some of the sites have been *)
(* registered, activated and acknowledged, and a compilation has followed. *)
Init ==
  /\ scenario \in Scenarios
  /\ LET up     == scenario.running
         owners == [s \in Sites |-> IF s \in up THEN [owner |-> "hub1", epoch |-> 1] ELSE NoOwner]
     IN  /\ rows = [s \in Sites |-> IF s \in up THEN [SeedRow[s] EXCEPT !.life = "ACTIVE"]
                                    ELSE IF s \in Seeds THEN SeedRow[s] ELSE NoRow]
         /\ keys = up /\ leases = up /\ ownership = owners
         /\ hubState = [h \in Hubs |-> IF up = {} THEN NoHubState
                                       ELSE BuildHub([sites |-> Seeds, keys |-> up, owners |-> owners])]
         /\ spokeState = [s \in Sites |-> IF s \in up THEN BuildSpoke(Seeds, s) ELSE NoState]
  /\ verified = {} /\ settled = FALSE
  /\ config = [p \in Processes |-> Seeds]
  /\ job = [p \in Threads |-> Idle]
  /\ held = [c \in Coordinators |-> [site |-> None, owner |-> None, epoch |-> 0]]
-----------------------------------------------------------------------------
At(p, pc) == job[p].pc = pc
Ready(p) == At(p, "idle") /\ p \in scenario.threads
Serves(p, process) == Ready(p) /\ Process[p] = process
Renewed(p) == [config EXCEPT ![Process[p]] = Topology]

(* A change of the database or of a desired state by p, which goes on with *)
(* new: other compilations no longer speak for what there is.              *)
Disturb(p, new) ==
  /\ job' = [q \in Threads |-> IF q = p THEN new ELSE [job[q] EXCEPT !.fresh = FALSE]]
  /\ settled' = FALSE
Continue(p, new) == job' = [job EXCEPT ![p] = new] /\ UNCHANGED settled

(* A commit that transition_site or its like follows with a compilation.   *)
Compile == [Idle EXCEPT !.pc = "read"]

(* Faulty: the numbers of deleted sites are given out again. *)
FaultyHolders == {s \in Existing : rows[s].life # "DELETED"}

(* The rows whose numbers are taken: all there ever were. *)
Holders == Existing

Used(field(_)) == {field(s) : s \in Holders}
FreeIds == (FirstId .. LastId) \ Used(LAMBDA s : rows[s].address)
FreeOctets(s) ==
  (IF Number[s] > 0 THEN {Number[s]} ELSE 1 .. LastId) \ Used(LAMBDA t : rows[t].octet)

(* allocate: the lowest free numbers over all the rows there ever were.  A *)
(* deleted site comes back with its own numbers, unless it is a siteN: its *)
(* own row then uses the number.  The columns are UNIQUE in the database   *)
(* (migrations/004_site_lifecycle_operations.sql); NumbersDistinct says    *)
(* that the allocation does not run into that.                             *)
Create(p, s) ==
  /\ Serves(p, "management") /\ s \in scenario.created
  /\ FreeIds # {} /\ FreeOctets(s) # {}
  /\ \E d \in scenario.devices :
       /\ \A t \in Existing \ {s} : rows[t].device # d
       /\ \/ /\ s \notin Existing
             /\ rows' = [rows EXCEPT ![s] =
                  [life |-> "ALLOCATING", address |-> Min(FreeIds), octet |-> Min(FreeOctets(s)),
                   index |-> 1 + Max({1} \cup Used(LAMBDA t : rows[t].index)), device |-> d]]
          \/ /\ rows[s].life = "DELETED" /\ rows[s].device = d
             /\ rows' = [rows EXCEPT ![s].life = "ALLOCATING"]
  /\ Disturb(p, Compile)
  /\ UNCHANGED <<keys, leases, ownership, published, config, held, scenario>>

(* Where the coordinator of a site's life takes it.  A failed site resumes *)
(* at PROVISIONING when it had registered; a site is DELETED after its key *)
(* was retired.                                                            *)
Moves(s) ==
  CASE rows[s].life = "ALLOCATING"   -> {"STAGED", "FAILED", "DELETING"}
    [] rows[s].life \in {"STAGED", "PROVISIONING", "ACTIVE"} -> {"FAILED", "DELETING"}
    [] rows[s].life = "FAILED"       -> {"STAGED", "DELETING"} \cup (IF s \in keys THEN {"PROVISIONING"} ELSE {})
    [] rows[s].life = "DELETING"     -> IF s \in keys THEN {} ELSE {"DELETED"}
    [] OTHER                         -> {}

TransitionSite(p, s) ==
  /\ Serves(p, "management") /\ s \in scenario.managed
  /\ \E l \in Moves(s) : rows' = [rows EXCEPT ![s].life = l]
  /\ Disturb(p, Compile)
  /\ UNCHANGED <<keys, leases, ownership, published, config, held, scenario>>

(* The deletion retires the key; no compilation follows at once. *)
RetireKey(p, s) ==
  /\ Serves(p, "management") /\ rows[s].life = "DELETING" /\ s \in keys
  /\ keys' = keys \ {s}
  /\ Disturb(p, Idle)
  /\ UNCHANGED <<rows, leases, ownership, published, config, held, scenario>>

(* Intents and network state go into the input digest only; the manager    *)
(* compiles after each change, and on demand.                              *)
Recompile(p) ==
  /\ Serves(p, "management")
  /\ Continue(p, Compile)
  /\ UNCHANGED <<database, published, config, held, scenario>>
-----------------------------------------------------------------------------
(* register_edge_identity: the request of an edge is admitted, its key is  *)
(* recorded, and its site promoted, each time by what is then read.        *)

Admitted(s) == s \in Existing /\ rows[s].life \notin {"DELETING", "DELETED"}

RegisterCall(p, s) ==
  /\ Serves(p, "policy") /\ s \in scenario.enrolled
  /\ Admitted(s) /\ s \in Topology /\ Valid
  /\ config' = Renewed(p)
  /\ Continue(p, [Idle EXCEPT !.pc = "register", !.site = s])
  /\ UNCHANGED <<database, published, held, scenario>>

RegisterKey(p) ==
  /\ At(p, "register")
  /\ keys' = keys \cup {job[p].site}
  /\ Disturb(p, [job[p] EXCEPT !.pc = "promote"])
  /\ UNCHANGED <<rows, leases, ownership, published, config, held, scenario>>

(* Not from TOPOLOGY_CREATED. *)
Promote(p) ==
  LET s == job[p].site
  IN  /\ At(p, "promote")
      /\ \/ /\ rows[s].life = "STAGED"
            /\ rows' = [rows EXCEPT ![s].life = "PROVISIONING"]
            /\ Disturb(p, Compile)
         \/ Continue(p, Compile) /\ UNCHANGED rows
      /\ UNCHANGED <<keys, leases, ownership, published, config, held, scenario>>

(* acknowledge_edge: of any of the site's desired states, however old. *)
AckSpoke(p, s) ==
  /\ Serves(p, "policy") /\ spokeState[s].known /\ Admitted(s) /\ Valid
  /\ rows[s].life = "PROVISIONING"
  /\ rows' = [rows EXCEPT ![s].life = "ACTIVE"]
  /\ config' = Renewed(p)
  /\ Disturb(p, Compile)
  /\ UNCHANGED <<keys, leases, ownership, published, held, scenario>>

(* A hub has applied its latest desired state.  Every request of an edge   *)
(* or a hub renews the configuration of the Policy server.  Both matter to *)
(* an activation only, hence the bound.                                    *)
AckHub(h) ==
  /\ \E s \in scenario.enrolled : ~spokeState[s].known
  /\ hubState[h].known /\ h \notin verified /\ Valid
  /\ verified' = verified \cup {h}
  /\ config' = [config EXCEPT !["policy"] = Topology]
  /\ UNCHANGED <<database, hubState, spokeState, job, held, settled, scenario>>
-----------------------------------------------------------------------------
(* compile *)

(* The configuration is renewed, or validate_config raises. *)
Read(p) ==
  /\ At(p, "read")
  /\ IF Valid
     THEN /\ config' = Renewed(p)
          /\ Continue(p, [Idle EXCEPT !.pc = "hub1", !.view = View, !.fresh = TRUE])
     ELSE Continue(p, Idle) /\ UNCHANGED config
  /\ UNCHANGED <<database, published, held, scenario>>

(* A write that rests on what was read before a change disturbs the rest.  *)
Publish(p, new) == IF job[p].fresh THEN Continue(p, new) ELSE Disturb(p, new)

(* A state that is not valid would end the compilation: NumbersDistinct    *)
(* rules it out.                                                           *)
PublishHub(p, h) ==
  LET state == BuildHub(job[p].view)
      new   == [job[p] EXCEPT !.pc = IF h = "hub1" THEN "hub2" ELSE "spokes"]
  IN  /\ At(p, h) /\ ValidState(state)
      /\ \/ /\ Changed(hubState[h], state)
            /\ hubState' = [hubState EXCEPT ![h] = state] /\ verified' = verified \ {h}
            /\ Publish(p, new)
         \/ /\ ~Changed(hubState[h], state)
            /\ Continue(p, new) /\ UNCHANGED <<hubState, verified>>
      /\ UNCHANGED <<database, spokeState, config, held, scenario>>

(* The sites that are active by now.  One that was not in the              *)
(* configuration when it was read ends the compilation with an error,      *)
(* after the sites before it.                                              *)
PublishSpokes(p) ==
  LET view == job[p].view
      due  == {s \in view.keys : rows[s].life = "ACTIVE"}
      Put(built) == [s \in Sites |-> IF s \in built THEN BuildSpoke(view.sites, s) ELSE spokeState[s]]
  IN  /\ At(p, "spokes")
      /\ \/ /\ due \subseteq view.sites
            /\ spokeState' = Put(due)
            /\ IF job[p].fresh THEN job' = [job EXCEPT ![p] = Idle] /\ settled' = TRUE ELSE Disturb(p, Idle)
         \/ /\ ~(due \subseteq view.sites)
            /\ \E built \in SUBSET (due \cap view.sites) : spokeState' = Put(built)
            /\ Disturb(p, Idle)
      /\ UNCHANGED <<database, hubState, verified, config, held, scenario>>

(* The operation is cut short: another process has published the same      *)
(* version, the database is locked, or the process ends and starts again.  *)
Abandon(p) ==
  /\ ~At(p, "idle")
  /\ \/ UNCHANGED config
     \/ Valid /\ config' = Renewed(p)
  /\ Continue(p, Idle)
  /\ UNCHANGED <<database, published, held, scenario>>
-----------------------------------------------------------------------------
(* activate_spoke, with the configuration the process has. *)

HubsVerified == verified = Hubs

(* Fails on a lease that is there, also on the one an abandoned activation *)
(* of the same site has left.                                              *)
ReserveResources(s) == s \notin leases /\ leases' = leases \cup {s}

Activate(p, s) ==
  /\ Ready(p) /\ s \in config[Process[p]] /\ s \in scenario.enrolled
  /\ s \in keys /\ HubsVerified /\ ~spokeState[s].known
  /\ ReserveResources(s)
  /\ Disturb(p, [Idle EXCEPT !.pc = "own", !.site = s, !.epoch = ownership[s].epoch + 1])
  /\ UNCHANGED <<rows, keys, ownership, published, config, held, scenario>>

(* transfer_ownership: an older epoch is refused, an equal one ignored. *)
TransferOwnership(s, new) ==
  IF new.epoch <= ownership[s].epoch THEN ownership ELSE [ownership EXCEPT ![s] = new]

(* hub1 is the preferred hub. *)
ActivateOwner(p) ==
  LET new == [owner |-> "hub1", epoch |-> job[p].epoch]
      s   == job[p].site
  IN  /\ At(p, "own")
      /\ ownership' = TransferOwnership(s, new)
      /\ Disturb(p, IF new.epoch < ownership[s].epoch THEN Idle ELSE [job[p] EXCEPT !.pc = "put"])
      /\ UNCHANGED <<rows, keys, leases, published, config, held, scenario>>

ActivatePut(p) ==
  LET s == job[p].site
  IN  /\ At(p, "put")
      /\ spokeState' = [spokeState EXCEPT ![s] = BuildSpoke(config[Process[p]], s)]
      /\ Disturb(p, Idle)
      /\ UNCHANGED <<database, hubState, verified, config, held, scenario>>
-----------------------------------------------------------------------------
(* OwnershipCoordinator: a record is read, and later transferred. *)

Fetch(c, s) ==
  /\ s \in scenario.transferred /\ ownership[s].epoch > 0
  /\ held' = [held EXCEPT ![c] = [site |-> s, owner |-> ownership[s].owner, epoch |-> ownership[s].epoch]]
  /\ UNCHANGED <<database, published, config, job, settled, scenario>>

(* Faulty: the record keeps its epoch. *)
FaultyNextRecord(record) == [record EXCEPT !.owner = CHOOSE h \in Hubs : h # record.owner]

NextRecord(record) ==
  [record EXCEPT !.owner = CHOOSE h \in Hubs : h # record.owner, !.epoch = @ + 1]

(* The caller goes on with the new record unless its epoch was refused. *)
Transfer(c) ==
  LET new == NextRecord(held[c])
      s   == held[c].site
  IN  /\ held[c].epoch > 0 /\ held[c].epoch < MaxEpoch
      /\ ownership' = TransferOwnership(s, [owner |-> new.owner, epoch |-> new.epoch])
      /\ held' = IF new.epoch < ownership[s].epoch THEN held ELSE [held EXCEPT ![c] = new]
      /\ Disturb(None, Idle)
      /\ UNCHANGED <<rows, keys, leases, published, config, scenario>>
-----------------------------------------------------------------------------
Operation(p) ==
  \/ \E s \in Sites : \/ Create(p, s) \/ TransitionSite(p, s) \/ RetireKey(p, s)
                      \/ RegisterCall(p, s) \/ AckSpoke(p, s) \/ Activate(p, s)
  \/ Recompile(p) \/ RegisterKey(p) \/ Promote(p)
  \/ Read(p) \/ (\E h \in Hubs : PublishHub(p, h)) \/ PublishSpokes(p)
  \/ ActivateOwner(p) \/ ActivatePut(p)
  \/ Abandon(p)

Next ==
  \/ \E p \in Threads : Operation(p)
  \/ \E h \in Hubs : AckHub(h)
  \/ \E c \in Coordinators : Transfer(c) \/ (\E s \in Sites : Fetch(c, s))

Spec == Init /\ [][Next]_vars
-----------------------------------------------------------------------------
(* Address ids, LAN octets, WireGuard indexes and devices are never shared *)
(* between two sites, the deleted ones included: their leases, keys and    *)
(* ownership rows stay in the database under the old numbers.              *)
NumbersDistinct ==
  /\ DistinctIn(Existing, LAMBDA s : rows[s].address)
  /\ DistinctIn(Existing, LAMBDA s : rows[s].octet)
  /\ DistinctIn(Existing, LAMBDA s : rows[s].index)
  /\ DistinctIn(Existing, LAMBDA s : rows[s].device)

(* The invariant of the inventory and of what the services make of it. *)
InventoryInv == TypeOK /\ NumbersDistinct

(* One undisturbed compilation makes good whatever crashes, stale          *)
(* publications and abandoned compilations of either process left behind:  *)
(* then every active site is a peer of both hubs and reaches every other   *)
(* active site, and the hubs have the owners that the database has; no hub *)
(* lists a site whose key was retired, and no active site has a route to   *)
(* one that is deleted.                                                    *)
CompilationRepairs ==
  settled =>
    LET active == {s \in Sites : rows[s].life = "ACTIVE"}
        gone   == {s \in Sites : rows[s].life = "DELETED"}
    IN  /\ \A h \in Hubs : /\ active \cap keys \subseteq hubState[h].peers
                           /\ hubState[h].peers \subseteq keys
                           /\ hubState[h].owners = ownership
        /\ \A s \in active \cap keys :
             active \ {s} \subseteq spokeState[s].routes /\ spokeState[s].routes \cap gone = {}

(* Wherever two records of a route have the same epoch, in the store, with *)
(* a coordinator or in a hub's desired state, they name the same owner: no *)
(* two hubs can own a prefix in the same epoch.                            *)
OwnersAgree ==
  \A s \in Sites :
    LET records == {<<ownership[s].epoch, ownership[s].owner>>}
                   \cup {<<held[c].epoch, held[c].owner>> : c \in {d \in Coordinators : held[d].site = s}}
                   \cup {<<hubState[h].owners[s].epoch, hubState[h].owners[s].owner>> : h \in Hubs}
    IN  \A x, y \in records : x[1] = y[1] => x[2] = y[2]
=============================================================================
