# SD-WAN: TLA+ models and proofs

This directory specifies the control logic of the SD-WAN prototype in `src/sdwan`:
what a spoke does with its tunnels, routes, steering rules and packets when
measurements and processes misbehave; what the stores of the two services keep when
their request threads meet; what is compiled from the inventory and published by two
processes; how the provider's switches are programmed from it; and how a site is
created and deleted over systems that fail on their own. TLC checks the models on small
instances and TLAPS proves the central safety properties for all values of the
constants.

`PROJECT.json` lists, for machines, what this file explains: the components, the
runs, the faulty variants each property is tested against, the source lines behind
every definition, the findings, the hazards and the theorems.

## 1. Inventory

| Component | Source | State | Operations |
|---|---|---|---|
| Tunnel and hub health | `tunnel_health.py`, `hub_health.py` | state, two counters, `hold_down_until`, last sequence number per tunnel | `observe`, `aggregate_hub` |
| Local failover monitor | `edge_failover_runtime.py`, `local_failover.py`, `route_resolver.py` | slots (current, previous target, emergency, drain deadline), `recovery_started`; kernel slot tables | `run_once`, `emergency_remap`, `begin_recovery`, `complete_recovery`, `resolve`, `repoint` |
| SLA path selection | `common/path_selection.py`, `_run_sla_selection` | selection and hold-down per class and destination, SLA counters per path; `steering-rules.json`; mangle chain; conntrack marks | `select`, `_resteer_rtp`, `_apply_class_marks` |
| Edge agent, bootstrap | `edge_agent_v5.py`, `edge_bootstrap.py`, `identity_store.py` | `last-confirmed.json`, kernel routes, monitor pid | `reconcile`, `install_spoke_dataplane`, `_start_spoke_failover` |
| Return-path affinity | `edge_agent_v5.py`, `common/marks.py`, `topology_v5.py` | conntrack marks and NAT bindings of sites, hubs and gateways; chains and policy rules | install, forward, queue, masquerade |
| Startup reconciliation | `runtime_restore.py`, `containernet_runtime.py` | set of sites still to reconcile | `run_once`, retry |
| Policy Service, store | `policy_service_v5.py`, `persistence/*`, `policy_http.py` | SQLite tables behind one shared connection | publish, latest, acknowledge, activate, transfer |
| Inventory, compiler | `dynamic_control.py`, `dynamic_profile.py`, `desired_state_v5.py` | rows with numbers and lifecycle, compiled versions, a cached configuration per process | allocate, transition, compile, publish |
| Route ownership | `route_ownership.py`, `policy_store.py` | owner and epoch per prefix | reserve, transfer |
| Zero-touch provisioning | `ztp_service_v5.py`, `ztp_client.py`, `ztp_store.py`, `enrollment_state.py`, `identity_ca.py` | claims, certificates, revocations | issue, consume, enrol, revoke |
| Site lifecycle | `management/lifecycle.py`, `lab_runtime.py` | operation journal with stages; the laboratory's nodes | create, delete, resume; launch, restore |
| Native classifier | `classifier/*.c` | flow table per worker, policy snapshot, event queue, threads | verdict, evict, expire, reload, export, start and stop |
| Underlay controller | `controller_v5.py`, `underlay_l3.py` | datapaths, port names, fingerprint of what was programmed | switch, port and connection handlers, reconcile |
| Topology, configuration | `topology_v5.py`, `common/*` | none at run time | build, validate |
| Management plane, MCP server | `management/*`, `sdwan_mcp/*` | audit log | read-only views |
| Collectors, workloads | `hub_flow_collector.py`, ... | append-only files | observe, generate |

How they interact. The compiler publishes desired states into the policy store. The
startup reconciler, or a management operation, runs `edge_bootstrap reconcile` inside
a site's container; it fetches the latest desired state over HTTP, applies it with
`EdgeAgent`, installs the mangle chain and `steering-rules.json`, starts the failover
monitor and acknowledges. From then on two processes of the same container, the
monitor and any later bootstrap, share the kernel's slot tables, the chain and the
file, with no lock between them.

The two HTTP services answer each request on a thread of its own, and all threads of a
service use one SQLite connection. A site comes into being when the management process
drives the inventory, the ZTP store and the topology runtime through the stages of its
lifecycle; the runtime starts the bootstrap inside the container, which enrols with
one service and registers with the other. The management process and the Policy server
each have a `PolicyService` on the same database, and both compile and publish. The
underlay controller reads the inventory from that database every two seconds and
programs the provider's switches. A connection passes through the namespaces of sites,
hubs and cloud gateways, each of which pins it to a path by the mark of its conntrack
entry, with rules that the agents install while packets pass. In the edge, packets of flows that are not yet
decided pass through the classifier's workers, whose events a further thread sends to
the management side.

What is hard here:

- *Interleaving.* Monitor and bootstrap read, modify and write the same tables, chain
  and file.
- *Failure in the middle.* Every change of kernel state is a sequence of commands; one
  that fails raises `CommandError`, which ends the process between two of them and
  loses its memory, while the kernel keeps what was written.
- *Restarts.* A container restart loses the kernel state and keeps the files; a
  restored policy database forgets versions the node has confirmed.
- *Time.* Hold-downs, drain timeouts and sample windows run against measurements that
  may be late, and against each other.
- *Shared connection.* BEGIN, ROLLBACK and COMMIT act on the connection and not on the
  thread: one request can roll back or autocommit another's statements.
- *Half-done operations.* A creation can stop between any two of its stages, or time
  out while the runtime goes on, and must be resumable or deletable.
- *Many compilers.* Threads of both processes read the inventory in one transaction and
  publish in several others; each can publish what another has made obsolete, be
  overtaken by it, or stop half way.
- *Remembered truth.* The controller skips a switch whose fingerprint has not changed,
  while the switch may have restarted, reconnected or renumbered its ports, and while
  its two greenlets may have programmed the switch at the same time.
- *Bounded memory.* Flow table and event queue have limits, and what falls out must be
  accounted for.
- *Shutdown.* Four kinds of threads wait for each other with conditions, timeouts and
  joins.
- *Long histories.* Failovers chain before the first is undone; recoveries are
  interrupted; best-effort choices follow outages.

What makes each modelled component correct:

- health: state and counters agree, no jump on one sample, the truth wins in the end;
- failover: the kernel follows the manager, a slot moves onto healthy tunnels only, is
  never left on a dead one, and every emergency ends;
- selection: a switch has a cause, best effort is the last resort, pinned flows follow
  the switches, decisions settle;
- affinity: a pin names a path that the connection has crossed and is kept, and replies
  return the way the requests came;
- node: an acknowledgement is true, versions never fall back, a wanted node ends up
  forwarding;
- stores: what is committed stays, a claim is consumed together with its certificate,
  no thread leaves a transaction open;
- lifecycle: ACTIVE means enrolled, registered, published and known to both hubs,
  DELETED means gone, and a creation that failed can be resumed;
- inventory: no number is shared, also with deleted sites; an undisturbed compilation
  makes hubs and spokes agree with the database; an epoch of a route has one owner;
- classifier: a decided flow keeps its path, retransmissions cost no budget, every
  record ends, every event is delivered or counted, policies never go back, a stop ends;
- underlay: what is believed installed is installed unless two programmings were mixed,
  spokes reach each other through hubs only, and the tables catch up with inventory and
  ports.

## 2. Modules

```
TunnelHealth            operators: observe(), aggregate_hub()
  EdgeFailover          the failover monitor       -> MCEdgeFailover
    EdgeNode            monitor + bootstrap + Policy Service -> MCEdgeNode, EdgeProofs
PathSelection           selector, steering, chain  -> MCPathSelection, PathProofs
Marks                   operators: the layout of a packet's mark
  PathAffinity          one connection through sites, hubs, gateways -> MCPathAffinity, PathProofs
SharedConnection        SQLiteStore: one connection, many threads
  Enrollment            ZTP service, store, client -> MCEnrollment, StoreProofs
  PolicyStore           desired states, keys, acks -> MCPolicyStore, StoreProofs
SiteLifecycle           coordinator over inventory, ZTP, topology runtime -> SiteLifecycleProofs
Inventory               allocation, compiler, activation, ownership -> MCInventory, InventoryProofs
Underlay                OpenFlow controller, one provider switch, inventory -> MCUnderlay, UnderlayProofs
FlowInspection          one NFQUEUE worker and its flow table -> FlowInspectionProofs
PolicySnapshot          operators: the classifier's policy documents
  ClassifierProcess     threads, event queue, policy, shutdown
                                                   -> MCClassifierProcess, ClassifierProcessProofs
EventChannel            what the event queue promises; ClassifierProcess implements it
```

**TunnelHealth** has the health machine as operators on records. `ObserveUsable` and
`ObserveUnusable` are the two halves of `TunnelHealthMachine.observe`; a refused
(late, replayed) sample leaves the record alone. `hold_down_until` is kept as the time
left until it, and counters saturate at the threshold they are compared with: both are
exact. `AggregateHub` is `aggregate_hub`. `EdgeFailover` runs one machine per tunnel.

**EdgeFailover** is `LocalFailoverRuntime.run_once`. A round is `Measure` (all tunnels
probed and observed), `Steer` (the SLA pass), one `SlotStep` per slot, and `EndRound`.
The seven slot steps are the branches of the loop over `manager.slots`:
`NoReplacement` (LookupError), `Failover`, `Steady`, `AwaitPrevious`, `BeginRecovery`,
`KeepDraining`, `Failback`. The last and `Failover` start a repoint, which writes one
prefix per step (`RepointPrefix`), because each is an `ip route replace` of its own.
`Crash` may come between any two steps. The manager's record is `slot[s]`, with
`drain_deadline` as time left.

**EdgeNode** adds the bootstrap process and the store. `Fetch`, `Refuse`/`Accept`,
`WriteRoute`, `Confirm`, `FetchPolicy`, `InstallChain`, `SaveRules`, `StartMonitor` and
`Acknowledge`/`AckRejected` are `edge_bootstrap.reconcile` with `EdgeAgent.reconcile`
inside; `Abort` is a failure at any point. The monitor's SLA pass is refined into
`SteerLoad`, `SteerApply`, `SteerPersist` (or `SteerKeep`), the steps at which it
touches what it shares with the bootstrap process. `RestoreBackup` and
`ContainerRestart` are the two ways in which the two sides forget.

**PathSelection** is `PathSelector.select` and the steering of one class and
destination. `Evaluate` is the per-path hysteresis, `Eligible`, `Pool`, `Best`, `Pick`
are the choice, `SelectPath` and `NoEligiblePath` one round of it. `ResteerRtp`,
`ApplyClassMarks`, `PersistRules` write conntrack, chain and file, in that order. The
bootstrap's `InstallChain`, `SaveRules`, `StartMonitor` may overlap them. The score is
an input: its floating-point formula is not modelled, only the order it induces and
the improvement test, which is rewritten without the division.

**Marks** is `common/marks.py`: a mark is the set of its bits, `encode` and the fields
are operators on it, `Validate` the check that its fields do not overlap.
**PathAffinity** follows one connection and at most one of its packets at a time. A
packet is sent by an end (`Send`), handled by a site (`FromLan`, `ToLan`, and `Verdict`
when it was queued for the classifier), a hub (`AtHub`) or a gateway (`AtGateway`), or
lost (`Lose`). `MarkIn`, `EntryIn` and `EntryOut` are the two affinity chains,
`ApplyRule` a rule of the marking chain and `RunChain` all of it, `SiteRoutes`, `HubRoute`, `GatewayRoute` the policy
routing. The chains are as long as the installation that writes them has got: `built`
counts the commands of `_install_return_path_affinity` and its callers that are done
(`Command`), and `marking` holds the rules of the marking chain, which the agent and the
monitor rewrite command by command (`ChainCommand`) without a lock. `Steer`,
`Reconcile`, `Restart`, `LinkDown` and `RecordEnds` are what happens to a connection
under way. The gateways are configured once, before the first packet. `clean` is a
history variable: the connection met only namespaces at rest.

**SharedConnection** is `SQLiteStore` (`persistence/base.py`): `Begin`, `Read`,
`Write`, `Commit`/`CommitError`, `Rollback` and `ProcessRestart` on `db` (what the
connection sees), `disk` (what is committed) and `inTx`. A BEGIN inside a transaction
fails and sends the thread to a ROLLBACK, which ends the other thread's transaction; a
statement outside a transaction is committed at once. `overlap` remembers that two
requests were ever under way together, so that properties can say what holds without.

**Enrollment** is `consume_claim` statement by statement (`CheckClaim`, `ExpireClaim`,
`IssueCertificate`, `InsertSession`, `InsertCertificate`, `ConsumeClaim`,
`ActivateDevice`), the administrator's transactions, the rejected attempt's own
transaction, the deletion of the site from another process (`RevokeSite`), expiry,
lost answers (`CommitStep`) and restarts.

**PolicyStore** is `put_desired_state` with the compiler's version read before it
(`Publish`, `SelectLatest`, `SelectExisting`, `InsertState`), delivery, late and
repeated acknowledgements (`MatchState`, `RecordAck`), and the registration and
rotation of keys with the uniqueness constraints of their table (`SelectCurrent`,
`RetireKey`, `AddKey`).

**SiteLifecycle** is `SiteLifecycleCoordinator.create` and `delete` for one site. The
operation under way is a record with a program counter and the local variables of the
method (`seen` is its `record.lifecycle`, `resume` the failure stage it resumes from).
A call of the runtime is appended to `queue` (`Send`) and waited for; the runtime
serves the queue in order, also requests whose client timed out (`Timeout`) or crashed
(`Crash`). Each transaction of a store is one step here, since Enrollment and
PolicyStore look inside. A transition is followed by the compilation that
`transition_site` performs (`Moved`, `Compiled`); once any prefix has an owner, its own
or another site's (`others`), it publishes hub states that have yet to be verified. One operation runs at a time. The
runtime lives in the laboratory process, which may exit at any time with all nodes and
requests (`LabExit`) and be launched again (`Launch`): it reads the ACTIVE sites
(`LoadActiveDynamicSites`), makes their nodes (`RestoreSite`), and serves requests
(`StartControl`) while its reconciler still works on hubs and edges (`PersistentHub`,
`PersistentEdge`).

**Inventory** has the rows of `site_inventory`, the keys, the ownership table and the
latest desired states of hubs and spokes, and the threads of two processes ("management"
and "policy") that act on them. The threads of a process share its configuration
(`config`) and take no lock: each `job` is at a point of its own. `Create` is `allocate`; `TransitionSite`, `RegisterKey`, `Promote`,
`AckHub`, `AckSpoke` are the commits that a compilation follows; `Read`, `PublishHub`,
`PublishSpokes` are the compilation, one transaction a step, with `Changed` for the
comparison that decides whether a new version is needed and `ValidState`, `Valid` for
the checks that end it; `PublishSpokes` also ends, after some of the spokes, at a site
that another thread has made ACTIVE and that the configuration it has read does not have. `Activate`, `ActivateOwner`, `ActivatePut` are
`activate_spoke`. `Abandon` cuts an operation short at any of these points. `Fetch` and
`Transfer` are a coordinator of `route_ownership.py`. `settled` is a history variable:
a compilation that nothing disturbed has just ended.

**Underlay** is one transport: the controller, the switch with its connections, ports
and flows, and the inventory whose sites come, go, and may be invalid together
(`Clashing`). The controller is two greenlets, the event loop with its handlers
(`SwitchFeatures`, `PortDescReply`, `PortStatus`, `DatapathDead`) and the reconciler
(`ListDatapaths`, `ReconcileListed`). A greenlet runs until it sends, because the
framework's queue of messages to a switch is bounded and a full one lets the other
greenlet in. `Reconcile` is `reconcile_datapath` up to its first message; `SendFlows` is
the rest, in turns: the delete, then the flows whose `Turn` it is, and with the last turn
the fingerprint. `work` holds what a greenlet is in the middle of, `RequestPorts` is the
send at the end of two of the handlers. `table` is the set of the flows in the switch,
where a flow replaces one with the same match (`Added`). `programmer` is a history
variable: the greenlet that has had the table to itself since its delete, "done" when it
has ended so, "nobody" when two were mixed or a connection was lost. Each connection
delivers its events in order, two connections in any order. `Fib` and `Flows` are
`underlay_l3.py`: who may reach whom, and the flow entries that follow. A switch may come
back without its flows (`Connect`), and the controller may start over, also DISABLED
(`Restart`).

**FlowInspection** is `process_packet` and the loop around it. A packet is recorded or
not (`Known`, `Created`, `NoMemory`), unparsed, or let through uninspected while the
overload circuit is open (`Bypass`); the verdict is the path and whether the mark is
provisional or terminal. `Victims` is `evict_oldest`, `Sweep` the expiry, `NoBufs` and
`Timeout` a receive without a packet; the first opens the circuit for a while. Sequence numbers are taken modulo
`SeqSpace` and compared as the code does.

**PolicySnapshot** has `sdwan_policy_update` and `sdwan_policy_choose` as operators on
a parsed document. **ClassifierProcess** is `main` with its workers, the exporter and
the policy listener; a critical section of the queue's mutex is one step. (A wait that
returns without cause tests its condition again and changes nothing.) Creation of a
thread may fail and a worker may end before it is ready. **EventChannel** is the abstract queue, and
`IsChannel` says that ring, mutex, condition variable and shutdown order implement it:
`pending` is the ring's contents in order, `closed` its stopping flag.

Operators whose comment begins with "Faulty" are deliberate mistakes (a dropped guard,
a missing reset). Nothing uses them in a specification; each shows that one property
fails when the code has that mistake.

## 3. Runs

Passing runs:

| Run | Shows |
|---|---|
| `failover` | One slot, three tunnels, two hubs, two prefixes, crashes, late and stale samples: the state of a tunnel and its counters never drift apart (`StateMatchesCounters`, in `MonitorInv`) and no sample jumps between HEALTHY and FAILED (`NoDirectJump`); the kernel table follows the manager except for the prefixes a repoint has yet to write (`TableFollowsManager`); a slot that is ready to fail back always has a drain deadline (`DrainArmed`), though `emergency_remap` erases it and `recovery_started` survives; the hub aggregate never vetoes a healthy tunnel (`HubNeverVetoes`); no round leaves a slot on a dead tunnel (`NoSlotLeftBehind`); moves go onto healthy tunnels only (`MovesOntoHealthy`); once the underlay works every emergency ends, whatever the flows do (`EmergencyEnds`). |
| `edge_node` | With crashes, container restarts and restored databases: what is acknowledged is confirmed, routed and has a chain (`AckMeansApplied`, in `NodeInv`), versions never regress (`ConfirmedNeverRegresses`), and a wanted node with an acceptable desired state ends up forwarding (`EventuallyForwards`). |
| `path_selection` | Best effort, RTP, a score of zero among the scores: switches have a cause, and a path out of its SLA is chosen only when none is within it (`SwitchesForCause`); pinned flows follow every switch (`RtpFollowsSelection`, in `PathInv`); once measurements stay, decisions stop changing and end on a path within its SLA if there is one (`SelectionConverges`), and the file follows (`FileFollowsDecision`). |
| `enrollment` | Two request threads: as long as they do not overlap, a claim is consumed exactly when its one certificate is recorded (`SerialConsumption`) and no device holds an unrecorded certificate (`SerialHeld`), whatever restarts, expires, gets lost or is deleted; overlapping or not, no ended thread leaves a transaction open (`NoOrphanTransaction`; the three are `EnrollmentInv`) and no spent claim or revoked certificate comes back (`NothingIsRevived`). |
| `policy_store` | Two request threads: committed desired states and keys are never replaced or lost (`NothingIsLost`); without overlap every publication answered for is in the store and every acknowledgement is of the stored contents (`SerialAnswers`, in `StoreInv`). |
| `site_lifecycle` | Creation and deletion with failures, timeouts and crashes anywhere, and a laboratory that exits and is launched again: an ACTIVE site has device, key, desired state and, while the laboratory is up, a node (`ActiveIsBacked`), and both hubs have its peer or are about to be reconciled after a launch (`HubFirst`; the exception, `ahead`, is the reconciler that acknowledges an edge in front of a resumed creation); no recorded node and no key is left of a DELETED one (`DeletedIsGone`, with the first in `LifecycleInv`); a begun deletion is not undone (`DeletionIsFinal`); once nothing fails, repeated creation ends in ACTIVE (`ResumeCompletes`) except from the states that `Stuck` names. |
| `inventory` | The threads of two processes over one database, each of which may be cut short at any step: addresses, LAN octets, indexes and devices are never shared, deleted sites included (`NumbersDistinct`, in `InventoryInv`); one undisturbed compilation makes good whatever stale or abandoned publications left behind, in both directions: who is active is reachable, who is gone is gone (`CompilationRepairs`); and wherever two records of a route have the same epoch they name the same owner (`OwnersAgree`). |
| `underlay` | Reconnections, restarts, ports that move, sites that come and go, inventories that cannot be used, and two greenlets that program the switch in turns: what the controller believes programmed is in the switch if the last programming was not mixed with another (`TablesMatchFingerprint`), and one that is under way has put there what it sent and nothing else (`ProgrammingInv`, both in `UnderlayInv`); no flow leads from spoke to spoke, whichever programmings the flows come from (`SpokesIsolated`); when the changes stop the controller's belief comes to be the flows that are wanted, for good, and they are there unless programmings were mixed (`Converges`). |
| `flow_inspection` | A table with room for one of two flows, small budgets, wrap-around, overload, failed allocations: the size that decides on eviction is right (`SizeMatches`, in `InspectionInv`), a decided flow stays terminal on its path (`TerminalStays`), retransmissions use no budget (`RetransmissionsFree`), and no record lives on for ever (`RecordsEnd`). |
| `classifier_process` | Two workers, a queue of two, good and bad policy documents, failures at the start and a stop at any time: the queue implements `EventChannel` (`IsChannel`), every event is sent or counted as dropped and every choice is a known path (`EventsAccounted`, `ChoiceIsKnown`, in `ProcessInv`), a policy is never rolled back (`PolicyNeverRolledBack`), and a stop ends the process (`StopEnds`). |
| `return_path` | One connection of each kind (to and from the Data Center and the cloud, to another branch, to the public service) while chains are rewritten, containers restart, links fail and steering changes: hubs and gateways pin it only to a path it has crossed, whichever rules are installed at that moment (`PinsAreCrossed`), and a connection to the public service is masqueraded (`DirectIsMasqueraded`; both in `AffinityInv`); a pin is never lost, and never changed once a reply was seen or while nothing is being installed (`PinKept`); replies return on a path that the requests took (`RepliesReturn`). |

A run that ends in a counterexample, against a sentence of the repository:

| Run | What the repository says | What happens |
|---|---|---|
| `enrollment_atomic` | "Any exception rolls back the claim, nonce session, certificate and device update together." (`ztp_store.py:89`) | A second request's BEGIN fails inside the first one's transaction; its ROLLBACK undoes half of the enrolment, and the other half is autocommitted. |

### Bounds

Thresholds are smaller than the deployed ones (2, 3, 5): 1/2 failures, 1 or 2 recovery
samples, and 0 or 1 units of hold-down and drain. They keep every state of the
machine, the difference between a threshold met and missed, and a deadline that is
pending or past; the proofs cover the other values. Three tunnels are the fewest with
which failovers chain; two prefixes the fewest for a half-moved table. The run has one
slot; that slots leave each other alone is covered by the proofs, which hold for any
set of them. Two desired
states (`MaxVersion`) let a restored backup be older than what the node confirmed.
Two paths with two scores,
one of them zero, give every combination of best, current, tied, improved and not
improved.

Two threads are the fewest that share a connection: one can roll back, or run outside
the transaction of, the other. One claim with two nonces and two serial numbers lets it
be answered twice; two versions, contents, keys and generations let one be superseded
and reused. `Backlog` is the number of requests the runtime may still have to serve
when an operation begins: with two, a timed-out request is served during the next
operation, between its steps. `Numbered` is FALSE in the run (see section 5).

`return_path` has two sites, hubs, transports and gateways: the fewest with which a pin
can name the wrong path. `MaxPackets = 3` is a request, its reply and one more packet of
either; `MaxChanges` allows one installation, restart, failure or steering decision,
and two for the public service, whose NAT depends on the mark of the first packet.
Every command of an installation is a step, so that packets meet it half done.

`inventory` starts from five scenarios, because all operations at once exceed what TLC
explores: the allocation of numbers to two further sites; a site that is created,
fails and is deleted; the end of the last sites; a site that fails and is resumed while
two threads of the Policy server compile and acknowledge, so that one overtakes the
other; and transfers of a route. Operations may be cut short in each of them. The address range has
room for three sites and a number that belongs to a gateway; `MaxEpoch = 4` lets a
route change hands twice beyond its reservation. `underlay` has one site of the
topology file, one more that comes and goes, one whose number makes the inventory
invalid, two port numbers, and two events under way on a connection (`MaxEvents`), so
that a port changes while the answer about the ports is on its way. Two changes, losses
of the connection or restarts (`MaxChanges`) beside the connections themselves let the
end of one connection meet the beginning of the next and a change of the ports. A
programming takes three turns (`Turns = 2`): the delete, the admissions and the routes.
They are the fewest in which a delete of one greenlet falls between flows of the other;
the proofs cover every division into turns.
`flow_inspection` has one TCP and one UDP flow and room for one record, so that each
evicts the other; a sequence space of three wraps; timeouts of one to three units keep
the order of the deployed ones. `classifier_process` counts modulo `CounterSize`, and
its documents have one defect each.

Threads, contents and keys of `policy_store` are interchangeable and the run checks no
liveness, so it uses symmetry. The other models use none: their elements differ in
rank, or the run checks liveness.

### Fairness

- The monitor's own steps are weakly fair: `serve_forever` goes round after round
  until the process ends. A dead monitor is *not* restarted by fairness; liveness
  properties of the monitor speak of live ones.
- Time passes (`Tick`).
- A reconcile that has begun runs to its end or fails (`Bootstrap`), and one that is
  still wanted is started again: `PersistentSiteReconciler` retries until it completes.
- A lifecycle operation and the request that the runtime serves go on to their end,
  and an administrator who wants the site repeats the creation (`Create`); neither
  deletion nor failure is fair. A laboratory that is down is launched and gets to the
  end of its start (`Lab`).
- The controller's event loop goes on and its reconciler comes round (`Handler`,
  `ListDatapaths`, `ReconcileListed`), a greenlet that sends goes on when the queue has
  room, which it gets as long as the connection lives and when it is closed
  (`RequestPorts`, `GetsOn`), and a switch without a connection connects (`Connect`).
- The classifier's threads go on when they can: a worker's receive call has a timeout,
  so it comes back to its loop with or without packets, and so does the listener's. No
  packet and no datagram has to arrive, and no stop.
- `Enrollment`, `PolicyStore`, `Inventory` and `PathAffinity` state no liveness property
  and no fairness.
- Failures, restarts and new measurements are not fair. Liveness is claimed after
  `calm`, when they cease.

## 4. Proofs

Every theorem is about the specification that TLC checks, with its constants left open
under the assumptions that its module names (and that TLC evaluates in each run). Each
rests on an inductive invariant: it holds initially, every action preserves it (one step
of the proof per action), and it implies what is claimed. The inductive invariants hold
in TLC's runs of section 3 too, which found the mistakes in their earlier forms.

| Module | Theorems | States | Assumptions |
|---|---|---|---|
| `EdgeProofs` | `TypeCorrect`, `MonitorInvariant`, `DrainAlwaysArmed`, `TablesFollowManager`, `RoundsLeaveNoSlotBehind`, `HubsNeverVeto` | `MonitorInv`, `DrainArmed`, `TableFollowsManager`, `NoSlotLeftBehind`, `HubNeverVetoes` | `HealthThresholds`, `Topology` |
| | `JumpsNever`, `OnlyOntoHealthy` | `NoDirectJump`, `MovesOntoHealthy` | |
| | `NodeInvariant`, `ConfirmedForward` | `NodeInv`, `ConfirmedNeverRegresses` | and `NodeBounds` |
| `PathProofs` | `PathInvariant`, `CausedSwitches` | `PathInv`, `SwitchesForCause` | `Tuning` |
| | `AffinityInvariant`, `RepliesComeBack`, `PinsKept` | `AffinityInv`, `RepliesReturn`, `PinKept` | `FlowsValid`, `MarksValid`, `PlacesValid`, `NamesValid` |
| `StoreProofs` | `EnrollmentInvariant`, `NeverRevived` | `EnrollmentInv`, `NothingIsRevived` | `ClaimsAssumption` |
| | `StoreInvariant`, `NeverLost` | `StoreInv`, `NothingIsLost` | `StoreBounds` |
| `SiteLifecycleProofs` | `LifecycleInvariant`, `HubsFirst`, `DeletionFinal` | `LifecycleInv`, `HubFirst`, `DeletionIsFinal` | `LifecycleAssumption` |
| `InventoryProofs` | `InventoryInvariant`, `Repairs`, `OwnersAlwaysAgree`, `HubStatesPass` | `InventoryInv`, `CompilationRepairs`, `OwnersAgree`, `HubStatesValid` | `InventoryAssumption`, `SeedsDistinct` |
| `UnderlayProofs` | `UnderlayInvariant`, `SpokesAlwaysIsolated` | `UnderlayInv`, `SpokesIsolated` | `UnderlayAssumption`, `PortsAssumption`, `TurnsAssumption` |
| `FlowInspectionProofs` | `InspectionInvariant`, `Retransmissions`, `TerminalForGood` | `InspectionInv`, `RetransmissionsFree`, `TerminalStays` | `InspectionAssumption` |
| `ClassifierProcessProofs` | `ProcessInvariant`, `NeverRolledBack`, `ImplementsChannel` | `ProcessInv`, `PolicyNeverRolledBack`, the safety part of `IsChannel` | `QueueAssumption`, `MessageAssumption`, `MarkAssumption` |

What the assumptions say. `HealthThresholds` are the checks of the constructor
(`0 < SuspectFailures < FailedFailures`, positive recovery and staleness limits).
`Topology`: every slot has a tunnel to the preferred hub over its own transport.
`SeedsDistinct`: `validate_config` has accepted the topology file. `MarksValid`: so has
`marks.py` the slots of the transports. `FlowsValid`: one end of a connection is at a
site, and one to the public service exists only if some transport has an uplink, since a
policy for direct access without one is refused (`destination_models.py:173`).
`NamesValid`: a name has one role and every site a preferred hub. `ClaimsAssumption`: a
claim is for one device. The others give the constants their types and keep the values
that stand for "none" apart from real ones; timeouts, limits and capacities are positive.

**EdgeProofs**, the monitor, for any finite or infinite sets of slots, tunnels, hubs and
prefixes:

    IndInv == TypeOK /\ StateMatchesCounters /\ RoundInv /\ ArmInv /\ TableFollowsManager /\ DoneInv

- `RoundInv`: what each program counter says about `todo` and `job`, and that a dead
  process has left nothing behind;
- `ArmInv`: a slot with `recovery_started` and no deadline is one whose previous tunnel
  cannot be HEALTHY when it is handled. This is the strengthening `DrainArmed` needs:
  the tunnel that `emergency_remap` left is FAILED, one sample makes it RECOVERING at
  best, and the round that sees it so discards `recovery_started`;
- `DoneInv`: a slot that this round has handled is not on a failed tunnel while there
  is a candidate, which at the end of the round is `NoSlotLeftBehind`. It rests on
  health not changing within a round.

**EdgeProofs**, the node. `NodeIndInv` has the monitor's memory (`MemoryOK`),
`ReconcileInv` and `SteeringInv`. `ReconcileInv` says what each step of the bootstrap
knows: while it writes routes its offer is at least what is confirmed, and all routes
but the ones `left` are there; from `Confirm` on the confirmed state is the offer.
`SteeringInv` says that the monitor, which may rewrite the chain between any two of
these steps, never has nothing to write: it is started after the file was saved. Without
it a monitor could empty the chain of a node that is about to acknowledge.

**PathProofs**, path selection. `SteeringInv`: outside the turn of `_resteer_rtp` a pinned flow
is on the selected path, and in its turn the path it will move the flows to is the
selected one. That the pool has a best path rests on the least element of a set of
numbers, from `WellFoundedInduction`.

**PathProofs**, return-path affinity, for any sites, transports, slots, gateways,
connections and numbers of packets and changes:

    AffinityIndInv == AffinityTypeOK /\ PinInv /\ CleanInv

- `PinInv`: the entry of a hub or a gateway has no mark, or exactly the stamp of one of
  its paths, and of one the connection has crossed if the initiator made the entry. It
  must hold at every point of an installation, where the chains are cut short: the
  lemmas on `MarkIn`, `EntryIn` and `EntryOut` show that neither half of a chain can
  mix two stamps, because `restore` comes first and a stamp is only set where no mark
  is. With `StampsDiffer` (two paths of a node have two stamps, from the layout that
  `marks.py` checks) it gives `PinsAreCrossed`; `PinStep`, what any step may do to an
  entry, gives `PinKept`.
- `CleanInv`: what holds as long as the connection has only met namespaces at rest
  (`clean`). It has a part for the namespaces (`StateInv`) and one for the packet
  (`PacketInv`). `StateInv` says that every namespace that pins the connection has an
  entry made by a request whose pin *leads back*: the path at a site ends at a hub that
  sent to it, the path at a hub at an interface of the initiator's site that the
  requests left by, the path at a gateway at a hub the requests came from; and that
  the source address which the responder has seen is that of a place on the way
  (`SeenInv`). `PacketInv` says of a packet under way that a request has crossed what
  it left (`ForwardInv`), that a reply is where requests were and came in by what they
  crossed (`ReturnInv`, which is `RepliesReturn`), and that only requests, at their own
  site, are held for the classifier. It is by `LeadsBack` that the next hop of a reply is
  again one the requests crossed, and for the cloud's own connections by the rank of
  the gateways (`HomeInv`). `DirectInv` follows the mark of a connection to the public
  service through the chain, the classifier and the entry, and gives
  `DirectIsMasqueraded`.

What the marking chain (`RunChain`) does holds for a chain of any length. It is an
induction over data, done as a least counterexample: `TraceExists` takes the shortest
prefix of a chain that has no trace, by `Smallest` from `WellFoundedInduction`, and
that a terminal mark which is saved passes any chain as it is (`TerminalPasses`) is
proved in the same way. Such a chain may be one of the two processes' or a mixture.

**StoreProofs**, enrolment, for any number of threads. Two relations carry it. `Forward(old,
new)` says what a statement may do to the tables: spent claims stay spent, revoked and
recorded certificates stay. `TablesInv` says `Forward(disk, db)` always, and `db = disk`
outside a transaction; so a ROLLBACK of one thread in the middle of another's
transaction goes back to a state from which the rest is still forward, and
`NothingIsRevived` holds with overlap. `SerialInv` says, statement by statement, what a
request that is alone has written so far and what its next statement completes; it
gives `SerialConsumption` and `SerialHeld`. `JobInv` relates a label to the request.

**StoreProofs**, the Policy Service's store, for any threads, versions and keys:

    StoreIndInv == StoreTypeOK /\ RequestInv /\ GrowthInv /\ AloneInv

- `RequestInv`: the label of a thread fits its request;
- `GrowthInv`: `Grows(disk, db)`, and `db = disk` outside a transaction. `Grows` is the
  relation that carries `NothingIsLost`: a version keeps its contents and a generation
  its key. Every statement is of this kind whoever's transaction it falls into (the
  INSERT needs a free version, by the primary key; a key is retired, never removed), so
  another thread's ROLLBACK or an early COMMIT cannot lose anything that was committed;
- `AloneInv`: as long as no two requests ever overlapped, a request under way has its
  transaction to itself, what it has read is still so, and what was answered for or
  acknowledged is in the tables.

**SiteLifecycleProofs**. `SiteInv` has four parts besides types. `QueueInv`: a request is
awaited only by the operation under way and only as the last one, and an operation goes
beyond its first request with an empty queue. That is why an abandoned request which is
served late can do no harm. `StageInv`: what the operation remembers of the record it
has read is still true. `LifeInv`: what each lifecycle state stands for at the device,
the key, the desired state and the node, through a launch of the laboratory. `HubInv`:
what the hubs have installed, or will be given by the reconciler.

**InventoryProofs**, for any sites, devices and ranges of numbers. `NumbersDistinct`
needs that allocation takes the lowest free number and one more than the highest index,
which exist because rows are finitely many. `EpochInv` makes `OwnersAgree` inductive:
with two hubs a transfer always goes to the other one, so the owner of a prefix is a
function of the parity of the epoch, in the store, in a coordinator's hands, in a
compilation's view and in a desired state; with three hubs the property would need
another argument. `FreshInv` follows an undisturbed compilation and gives
`CompilationRepairs`, for any threads of the two processes. `ReadInv` says that the sites
which a compilation has read keep their rows; from it follows `HubStatesValid`: however
stale its view, no compilation is ended by two peers of a hub that share an address. (Its
loop over the spokes can be ended, see section 5.)

**UnderlayProofs**, for any sites, hubs and ports and any division of a programming into
turns. `UnderlayInv` is inductive. `ProgrammingInv` is the strengthening that
`TablesMatchFingerprint` needs now that a programming is many steps: as long as a
greenlet is the `programmer`, its connection is the one that is up and the table holds
exactly the flows of its turns so far, so that with the last turn they are all of them.
The other greenlet ends that with its own delete, or with any flow it adds, and a lost
connection ends it too. `SpokesIsolated` rests on the type of `table` alone: every flow in
it belongs to some inventory and some ports, and the lemma `FlowShape` says that those of
any inventory and any ports isolate the spokes. Further lemmas: a port map is a function
on ports, and what the turns of a programming add up to.

**FlowInspectionProofs**. `TableInv` adds to the checked invariant that every record is
`Sound`: its inspection has ended for a reason that lasts, no segment of a TCP flow was
seen beyond the highest end of its side, and no more segments were counted than
distinct ones seen.

**ClassifierProcessProofs**. `RingInv` relates head, tail and count of the ring modulo
its capacity; with the lemmas on `%` it shows that a push appends to, and a take removes
from, the sequence that `EventChannel` calls `pending`. `ShutdownInv` says that the
queue is closed after the last worker was joined. `ImplementsChannel` maps the initial
state to an initial one, and every step to a step of the channel or a stutter; that
covers counters that wrap, since the accounting is modulo `CounterSize`.

Every invariant and every action property that the runs check is stated by a theorem.
Only model-checked are the liveness properties (`EmergencyEnds`, `EventuallyForwards`,
`SelectionConverges`, `FileFollowsDecision`, `ResumeCompletes`, `Converges`,
`RecordsEnd`, `StopEnds`, and the fairness that is part of `IsChannel`), because
fairness and ENABLED are out of the prover's reach.

## 5. What is left out, and why

- Status records, events, reasons and log lines: they report and are not read back.
- Floating-point metrics, sampling windows and the score: inputs to `select`.
- WireGuard commands: folded into the reconcile's steps; they fail like the others. NAT
  and affinity commands are too in `EdgeNode`; `PathAffinity` has them one by one.
- Hub reconciliation: a hub has no monitor, so nothing races with it; `Inventory` has
  its acknowledgement.
- `_measure` and `MetricWindow`: arithmetic on samples.
- The LAN switches of the controller (learning of addresses), ARP answers, drop
  accounting and the state file; the construction of the laboratory in `topology_v5.py`.
- Parsing of packets and nDPI: inputs of `FlowInspection`.
- Cryptography and the web front ends: no control state.
- The destination policy (`activate_destination_policy`): stored and activated once,
  when the Policy Service starts and before it serves requests.
- Audit, attempt and operation rows, delivery and runtime statuses: nothing reads them
  back into a decision.
- Overlapping lifecycle operations on one site. The management API takes no lock, so
  they can overlap, and each goes on with the record it has read: a creation that
  waits for the runtime may continue over a deletion and another creation. Two
  operations at once exceed what TLC explores in one run; `SiteLifecycle` says what
  holds when they do not overlap.
- Management views, MCP tools, collectors and workloads: read-only or append-only.

Observed while modelling, and in no run:

*Failover and steering.*

- A tunnel that is RECOVERING and misses probes becomes SUSPECT, and one usable sample
  then makes it HEALTHY inside the hold-down (`tunnel_health.py:90`), though HEALTHY is
  reported as "recovery threshold and hold-down complete" (`tunnel_health.py:86`).
- A second failover before the first is undone overwrites `previous_confirmed` with the
  detour (`local_failover.py:75`): failback ends there and the baseline is not restored
  ("baseline failback", `local_failover.py:1`).
- "central route version cannot overwrite newer local emergency state"
  (`edge_agent_v5.py:511`): the manager's route version never reaches
  `last-confirmed.json`, so EDGE_AHEAD does not occur and a reconcile points the slot
  table of an emergency back at the baseline.
- The monitor rewrites the chain from the rules it loaded
  (`edge_failover_runtime.py:335`): after a reconcile in between, the node has
  acknowledged a policy that is not in force.
- `conntrack -U` runs before the chain is rewritten: an RTP flow that is pinned in
  between stays on the old path. `RtpFollowsSelection` excludes it (`stray`).
- `install_connmark_rules` flushes the chain first; a command that fails afterwards
  leaves it empty until the next reconcile.
- Under FAIL_CLOSED the blocked rule is left out of the chain and new flows take the
  prefix's own mark, as `ARCHITECTURE.md:105` says and unlike
  `REQUIREMENT_TRACEABILITY.md:16`.
- A reconcile between the monitor's chain update and its file write leaves chain and
  file apart until the next switch; their commands on the chain itself may also mix.

*Return paths.*

- "established TCP" is said to stay pinned to its path (`ARCHITECTURE.md:102`,
  `LIVE_ACCEPTANCE_CHECKLIST.md:211`, `UBUNTU_RUNBOOK.md:221`,
  `sdwan_mcp/server.py:117`). At the site that opens it, a packet that is not yet
  terminal leaves `SDWAN_V5_MARK` at the queue, before the rule that saves its mark
  (`edge_agent_v5.py:206`); the verdict sets the packet's mark only, and
  `SDWAN_V5_RPA_OUT` saves only what is NEW and terminal. Such a connection follows a
  change of its class mark to another hub.
- While `SDWAN_V5_RPA_IN` is flushed and `SDWAN_V5_RPA_OUT` complete, a NEW packet passes
  unrestored and is pinned anew. A connection whose first packet crosses a half-installed
  namespace may never be pinned, and one that crosses a hub while its NAT chain is
  flushed is not translated for the rest of its life.
- A hub's choice of a gateway for replies to connections that the cloud opens is not
  pinned: it follows the state of the links.
- The slot that `_resteer_rtp` writes is overridden by the path in the classifier's
  record unless the flow is terminal.

*Classifier.*

- Queued packets skip the rule that saves the mark in conntrack
  (`edge_agent_v5.py:207`), so a flow is pinned with the first packet that is not queued.
- With the overload circuit open, and for truncated packets, the mark is provisional
  also for flows that are decided. A flow that was evicted is inspected anew with a
  fresh budget, and no event reports the eviction.
- Sequence numbers are compared without regard to wrap-around: new payload after a wrap
  is not counted.
- A policy of another generation is accepted whatever its version. `process_packet`
  does not consult the policy, and nothing in the repository sends to its socket.

*Underlay.*

- The end of a lost connection that is reported after the next one has begun makes the
  controller forget the switch (`controller_v5.py:366`); it is programmed again only
  after another reconnection. `switch_features` raises on an invalid inventory before
  it asks for the ports. `Converges` leaves both out (`orderly`).
- A database that cannot be read yields the static configuration, as if there were no
  further sites.
- The two greenlets can mix their programmings. `reconcile_datapath` compares the
  fingerprint (`controller_v5.py:261`), sends dozens of messages and records it (315), and
  gives way where the queue of messages is full. A reconciler that listed the switch
  before its ports were known deletes the flows between two turns of the first
  `port_desc_reply`; or it goes on adding flows for old ports after the delete of a newer
  reply. The handler ends last and records its fingerprint: flows are missing, or stale
  ones are left, and no later round repairs it until the inventory, the ports or the
  connection change (compare "safe after a controller restart",
  `docs/ryu_l3_underlay.md` 90-91). `UnderlayInv` and `Converges` speak of the table only
  when that did not happen (`programmer`); `SpokesIsolated` holds in any case.
- A controller that starts DISABLED has no fingerprint of an earlier process, so it
  deletes nothing (252-257), unlike "`DISABLED`: Ryu removes only its own cookie-scoped
  flows" (`docs/ryu_l3_underlay.md:77`).
- A LAN switch that connects while its site is ALLOCATING gets no table-miss entry
  until it reconnects; readiness (`topology_v5.py` 458-481) may be read off an old file. The "forwarding"
  count in it is of the policy's routes and not of those programmed, is written on events
  of other switches and survives restarts of the controller, so that the wait can end
  before a switch is programmed.

*Inventory.*

- `allocate` does not know the ids and networks of gateways and services, nor the end of
  the port range: `validate_config` refuses the result after the commit, and every
  compilation until the site is deleted ("collision-safe", `dynamic_control.py:97`).
- `_effective` removes version-dependent keys from dicts and lists and not from tuples:
  as soon as a route has an owner, every compilation publishes new hub versions.
- The key is committed before its compilation (`policy_service_v5.py:64`): a concurrent
  activation can publish a spoke whose hubs do not have it yet.
- A compilation from an older view can be published as the newest version; an ACTIVE
  edge is not told of a new version, and a restart of a service does not compile. Hence
  `CompilationRepairs` speaks of the state after an undisturbed compilation.
- Of two transfers with the same epoch the second is dropped together with its
  pending reconciliation.
- A process activates from its cached configuration.
- A compilation from a view without a failed site ends with "not a spoke"
  (`desired_state_v5.py:83`, `dynamic_control.py` 328-331) when the site was resumed and
  another thread of the Policy server has acknowledged it to ACTIVE meanwhile; spokes
  after it are not published, and the request that compiled is answered with an error.
- A transaction is one step. That another thread's ROLLBACK on the shared connection can
  break it (PolicyStore) appears here as an operation that is cut short (`Abandon`).

*Sites and stores.*

- `allocate` refuses a site called siteN when any row has that number, its own included,
  so the creation of such a site cannot be repeated. `SiteLifecycle` has this as
  `Numbered`; `ResumeCompletes` is about the other names.
- The key table has room for one RETIRED row per site: a second rotation, and a
  registration after rotation and deletion, are refused by its uniqueness constraint.
- `create_site` records the site as managed before it configures the interfaces. When
  that fails the retry returns at once and the node stays half configured (`"raw"`).
  Before that, a node that cannot be made leaves those made before it behind, recorded
  nowhere (`containernet_runtime.py` 135-138): the retry may find their names taken, and a
  deletion leaves them (`debris`, which `Stuck` and `DeletedIsGone` leave out).
- `reserve_resources` is not repeatable: a creation that ends between the reservation
  and the publication cannot be resumed (`Stuck`).
- The reconciler of a laboratory that was launched again acknowledges an edge without
  asking the hubs (`policy_service_v5.py` 98-103): a creation that is resumed meanwhile
  can become ACTIVE before the hubs have its peer (`ahead`; compare
  `ZTP_SECURITY_MODEL.md:12`).
- A creation that is retried while the laboratory is down turns a PROVISIONING site into
  FAILED at TOPOLOGY_CREATED, from where the enrolled device cannot be claimed again.
- A device whose enrolment was answered too late, or which was enrolled by an abandoned
  request without being registered, can be given no further claim (`Stuck`).

## 6. Plan

Done: models, runs and proofs of health, failover monitor, path selection, edge node,
return-path affinity, the two stores, enrolment, the site lifecycle with the laboratory,
the inventory with the compiler and route ownership, the underlay controller and the
classifier with the refinement of its event queue.

Next, in this order:

1. An abstract failover slot (on target, detour, draining) that `EdgeFailover`
   implements.
2. `SiteLifecycle` with two operations at once, by an abstraction small enough for TLC.
