------------------------------- MODULE Underlay -----------------------------
(***************************************************************************)
(* The provider underlay of one transport: the OpenFlow controller         *)
(* (sdwan/controller_v5.py) keeps the flow tables of the transport's       *)
(* switch equal to the forwarding policy of underlay_l3.py over the sites  *)
(* that the Policy inventory authorises.                                   *)
(*                                                                         *)
(* The controller is two greenlets: an event loop, whose handlers follow   *)
(* one another, and a reconciler.  Each gives way to the other wherever it *)
(* sends, since Ryu's queue of messages to a switch is bounded: between    *)
(* what reconcile_datapath reads and the fingerprint that it records the   *)
(* other may do anything.                                                  *)
(*                                                                         *)
(* A connection delivers its events in order; the last events of           *)
(* a connection that was lost without notice may come after the first ones *)
(* of the next.  What is sent on a connection that is gone is lost.        *)
(*                                                                         *)
(* A port is known by its number; those of the static topology never       *)
(* change, those of other sites are given anew by the switch each time the *)
(* edge is created.  Left out: ARP replies, drop counters, the state file, *)
(* and the switches of the branch LANs.                                    *)
(***************************************************************************)
EXTENDS Naturals, Sequences

CONSTANTS
  Hubs, Gateway,   \* attachments that are always there
  Internet,        \* internet_capable: the transport has the gateway
  Sites,
  Seeds,           \* the sites of the topology file
  Clashing,        \* sites that were allocated an address that is in use
  PortNumbers,     \* that the switch gives to other sites
  FirstPorts,      \* the ports at the beginning
  Turn(_),         \* in which turn of a programming a flow is sent
  Turns,           \* how many turns a programming takes
  MaxEvents,       \* bound: events of a connection under way
  MaxChanges       \* bound: changes of the inventory and ports, and failures

ASSUME UnderlayAssumption ==
  /\ Internet \in BOOLEAN /\ (Hubs \cup {Gateway}) \cap Sites = {}
  /\ Seeds \subseteq Sites /\ Clashing \subseteq Sites \ Seeds
  /\ Seeds # {} /\ Turns \in Nat \ {0}
  /\ MaxEvents \in Nat \ {0} /\ MaxChanges \in Nat

VARIABLES
  authorized,   \* sites in an authorised state of their lifecycle
  ports,        \* at the switch: attachment -> port number
  table,        \* the flows that the switch holds
  connection,   \* the switch's connection and whether it is up
  events,       \* connection -> its events that the controller has yet to handle
  datapath,     \* datapaths[dpid]: the connection that the controller uses, if any
  portNames,    \* port_names[dpid]
  fingerprint,  \* _programmed_fingerprints[dpid]
  mode,         \* of the controller process
  work,         \* greenlet -> what it is in the middle of
  programmer,   \* history: who has the table to itself, from its delete on
  orderly,      \* the connection began after the end of the last one was known, and was welcomed
  changes,      \* how many there were
  calm          \* nothing changes or fails any more

known == <<datapath, portNames>>
environment == <<authorized, ports, changes, calm>>
switch == <<table, programmer>>
vars == <<environment, switch, connection, events, known, fingerprint, mode, work, orderly>>

Greenlets == {"events", "reconciler"}

Connections == {0, 1}      \* the current one and the one before
GatewayOf == IF Internet THEN {Gateway} ELSE {}
Core == Hubs \cup GatewayOf
Fixed == Core \cup Seeds
Numbers == Fixed \cup PortNumbers

(* Port maps: no two attachments share a number. *)
PortMaps ==
  {m \in UNION {[Fixed \cup s -> Numbers] : s \in SUBSET (Sites \ (Clashing \cup Seeds))} :
     /\ \A x \in Fixed : m[x] = x
     /\ \A x \in DOMAIN m \ Fixed : m[x] \in PortNumbers
     /\ \A x, y \in DOMAIN m : x # y => m[x] # m[y]}
NoPorts == [x \in {} |-> x]

ASSUME PortsAssumption == FirstPorts \in PortMaps

Events == [kind : {"features", "status", "dead"}] \cup [kind : {"ports"}, ports : PortMaps]
-----------------------------------------------------------------------------
(* underlay_l3.py *)

Role(x) == IF x \in Hubs THEN "hub" ELSE IF x = Gateway THEN "internet_gateway" ELSE "spoke"

(* attachments *)
Attachments(sites) == Core \cup sites

(* source_networks *)
SourceNetworks(x) ==
  {<<"address", x>>} \cup (IF Role(x) = "spoke" THEN {<<"lan", x>>} ELSE {})
                     \cup (IF Role(x) = "internet_gateway" THEN {<<"saas", x>>} ELSE {})

(* Faulty: spokes reach each other. *)
FaultyAllowedEndpoint(source, target) ==
  Role(source) = "spoke" \/ Role(target) \in {"spoke", "hub"} \/ Role(source) = "hub"

(* _allowed_endpoint; a private transport has no gateway. *)
AllowedEndpoint(source, target) ==
  \/ Role(source) = "spoke" /\ Role(target) \in {"hub", "internet_gateway"}
  \/ Role(source) = "hub"
  \/ Role(source) = "internet_gateway" /\ Role(target) \in {"spoke", "hub"}

(* fib *)
Fib(sites) ==
  LET A == Attachments(sites)
      reach    == {r \in [source : A, egress : A] : r.source # r.egress /\ AllowedEndpoint(r.source, r.egress)}
      hosts    == {[source |-> r.source, to |-> <<"address", r.egress>>, egress |-> r.egress] : r \in reach}
      return   == {[source |-> r.source, to |-> <<"lan", r.egress>>, egress |-> r.egress] :
                     r \in {q \in reach : q.source = Gateway /\ Role(q.egress) = "spoke"}}
      breakout == {[source |-> x, to |-> <<"saas", Gateway>>, egress |-> Gateway] : x \in A \ {Gateway}}
  IN  IF Internet THEN hosts \cup return \cup breakout ELSE hosts

(* What reconcile_datapath installs: the networks that a port may send     *)
(* from (table 10), and the port by which one is reached (tables 20, 30).  *)
Flows(f) ==
  LET attached == Attachments(f.sites) \cap DOMAIN f.ports
      routes   == {r \in Fib(f.sites) : {r.source, r.egress} \subseteq attached}
  IN  (UNION {{[kind |-> "from", in |-> f.ports[x], net |-> n, out |-> f.ports[x]] : n \in SourceNetworks(x)} : x \in attached})
      \cup {[kind |-> "to", in |-> f.ports[r.source], net |-> r.to, out |-> f.ports[r.egress]] : r \in routes}

Fingerprints == [ports : PortMaps \cup {NoPorts}, sites : SUBSET Sites]
Unprogrammed == [ports |-> NoPorts, sites |-> {}]
FlowTables == [f \in Fingerprints |-> Flows(f)]
AllFlows == UNION {FlowTables[f] : f \in Fingerprints}

ASSUME TurnsAssumption == \A e \in AllFlows : Turn(e) \in 1 .. Turns

(* A flow that is added takes the place of one with the same match. *)
Match(e) == <<e.kind, e.in, e.net>>
Added(new) == new \cup {e \in table : \A n \in new : Match(n) # Match(e)}

Works == [pc : {"idle", "ask", "listed", "send"}, conn : Connections, new : Fingerprints, turn : 0 .. Turns]
NoWork == [pc |-> "idle", conn |-> 0, new |-> Unprogrammed, turn |-> 0]
-----------------------------------------------------------------------------
(* InventorySnapshot.load: the authorised sites, or the seeds when there   *)
(* are none or the database cannot be read; validate_config raises when an *)
(* address is used twice.                                                  *)
Projection == IF authorized = {} THEN Seeds ELSE authorized
Raises == authorized \cap Clashing # {}
Loads == (IF Raises THEN {} ELSE {Projection}) \cup (IF calm THEN {} ELSE {Seeds})

Wanted == IF mode = "DISABLED" THEN Unprogrammed ELSE [ports |-> ports, sites |-> Projection]

TypeOK ==
  /\ authorized \subseteq Sites
  /\ ports \in PortMaps
  /\ table \subseteq AllFlows
  /\ connection \in [id : Connections, up : BOOLEAN]
  /\ events \in [Connections -> Seq(Events)]
  /\ datapath \in {{}, {0}, {1}}
  /\ portNames \in PortMaps \cup {NoPorts}
  /\ fingerprint \in Fingerprints
  /\ mode \in {"ENFORCE", "DISABLED"}
  /\ work \in [Greenlets -> Works]
  /\ programmer \in {"nobody", "done"} \cup Greenlets
  /\ changes \in 0 .. MaxChanges /\ orderly \in BOOLEAN /\ calm \in BOOLEAN

Init ==
  /\ ports = FirstPorts
  /\ authorized = DOMAIN ports \cap Sites
  /\ table = {} /\ programmer = "nobody"
  /\ connection = [id |-> 0, up |-> FALSE]
  /\ events = [c \in Connections |-> <<>>]
  /\ datapath = {} /\ portNames = NoPorts /\ fingerprint = Unprogrammed
  /\ mode \in {"ENFORCE", "DISABLED"}
  /\ work = [g \in Greenlets |-> NoWork]
  /\ orderly = TRUE /\ changes = 0 /\ calm = FALSE
-----------------------------------------------------------------------------
(* The inventory and the switch *)

Changes == ~calm /\ changes < MaxChanges /\ changes' = changes + 1 /\ calm' = calm

(* A site enters or leaves the authorised states of its lifecycle. *)
TransitionSite(s) ==
  /\ Changes
  /\ authorized' = (authorized \cup {s}) \ (authorized \cap {s})
  /\ UNCHANGED <<ports, switch, connection, events, known, fingerprint, mode, work, orderly>>

Room == Len(events[connection.id]) < MaxEvents
Sent(c, e) == [events EXCEPT ![c] = Append(@, e)]

(* A port comes or goes with the edge of a site; the switch reports it. *)
PortChange ==
  /\ Changes /\ Room
  /\ \/ \E s \in Sites \ (Clashing \cup DOMAIN ports), n \in PortNumbers \ {ports[x] : x \in DOMAIN ports} :
          ports' = [x \in DOMAIN ports \cup {s} |-> IF x = s THEN n ELSE ports[x]]
     \/ \E s \in DOMAIN ports \ Fixed : ports' = [x \in DOMAIN ports \ {s} |-> ports[x]]
  /\ events' = IF connection.up THEN Sent(connection.id, [kind |-> "status"]) ELSE events
  /\ UNCHANGED <<authorized, switch, connection, known, fingerprint, mode, work, orderly>>

(* The controller learns of it sooner or later. *)
Disconnect ==
  /\ Changes /\ connection.up
  /\ connection' = [connection EXCEPT !.up = FALSE]
  /\ events' = Sent(connection.id, [kind |-> "dead"])
  /\ UNCHANGED <<authorized, ports, switch, known, fingerprint, mode, work, orderly>>

(* The switch keeps its flows over a lost connection and not over a        *)
(* restart.  The connection before the last one is over and forgotten.     *)
Connect ==
  LET last == connection.id
      next == 1 - last
  IN  /\ ~connection.up
      /\ events[next] = <<>> /\ next \notin datapath
      /\ \A g \in Greenlets : work[g] = NoWork \/ work[g].conn # next
      /\ connection' = [id |-> next, up |-> TRUE]
      /\ events' = Sent(next, [kind |-> "features"])
      /\ orderly' = (events[last] = <<>>)
      /\ \/ table' = table
         \/ ~calm /\ table' = {}
      /\ programmer' = IF programmer \in Greenlets THEN "nobody" ELSE programmer
      /\ UNCHANGED <<environment, known, fingerprint, mode, work>>
-----------------------------------------------------------------------------
(* The controller *)

Alive(c) == connection.up /\ connection.id = c

Idle(g) == work[g].pc = "idle"
Busy(g, pc, c, new) == [work EXCEPT ![g] = [pc |-> pc, conn |-> c, new |-> new, turn |-> 0]]
Done(g) == [work EXCEPT ![g] = NoWork]

Handles(c, kind) == Idle("events") /\ events[c] # <<>> /\ Head(events[c]).kind = kind
Handled(c) == [events EXCEPT ![c] = Tail(@)]

(* Faulty: what was programmed is presumed to be still there. *)
FaultySwitchFeatures(c) ==
  /\ Handles(c, "features") /\ events' = Handled(c)
  /\ datapath' = {c}
  /\ \/ Loads # {} /\ work' = Busy("events", "ask", c, Unprogrammed) /\ orderly' = orderly
     \/ Raises /\ work' = work /\ orderly' = (orderly /\ ~Alive(c))
  /\ UNCHANGED <<environment, switch, connection, portNames, fingerprint, mode>>

(* The ports are asked for unless the topology cannot be loaded. *)
SwitchFeatures(c) ==
  /\ Handles(c, "features") /\ events' = Handled(c)
  /\ datapath' = {c} /\ fingerprint' = Unprogrammed
  /\ \/ Loads # {} /\ work' = Busy("events", "ask", c, Unprogrammed) /\ orderly' = orderly
     \/ Raises /\ work' = work /\ orderly' = (orderly /\ ~Alive(c))
  /\ UNCHANGED <<environment, switch, connection, portNames, mode>>

(* OFPPortDescStatsRequest, which the switch answers. *)
RequestPorts ==
  LET conn == work["events"].conn
  IN  /\ work["events"].pc = "ask"
      /\ events' = IF Alive(conn) THEN Sent(conn, [kind |-> "ports", ports |-> ports]) ELSE events
      /\ work' = Done("events")
      /\ UNCHANGED <<environment, switch, connection, known, fingerprint, mode, orderly>>

(* reconcile_datapath until its first message, given what is known of the  *)
(* ports and of what was programmed.  It raises when the topology cannot   *)
(* be loaded.  A controller that is DISABLED wants nothing programmed, and *)
(* forgets before it deletes.                                              *)
Reconcile(g, c, names, programmed) ==
  \/ \E sites \in Loads :
       LET new == IF mode = "DISABLED" THEN Unprogrammed ELSE [ports |-> names, sites |-> sites]
       IN  /\ work' = IF programmed = new THEN Done(g) ELSE Busy(g, "send", c, new)
           /\ fingerprint' = IF mode = "DISABLED" THEN Unprogrammed ELSE programmed
  \/ Raises /\ work' = Done(g) /\ fingerprint' = programmed

(* A greenlet gets on with what it sends, a turn at a time. *)
GetsOn(g) ==
  /\ work[g].pc = "send"
  /\ work' = IF work[g].turn = Turns THEN Done(g) ELSE [work EXCEPT ![g].turn = @ + 1]

(* The rest of it: the flows are deleted, those of the new fingerprint are *)
(* added turn by turn, and with the last of them the fingerprint is        *)
(* recorded.  What is sent on a connection that is gone is lost; nobody    *)
(* tells the sender.                                                       *)
SendFlows(g) ==
  LET w == work[g]
      last == w.turn = Turns
  IN  /\ GetsOn(g)
      /\ table' = IF ~Alive(w.conn) THEN table
                  ELSE IF w.turn = 0 THEN {}
                  ELSE Added({e \in FlowTables[w.new] : Turn(e) = w.turn})
      /\ programmer' = IF Alive(w.conn)
                       THEN IF w.turn = 0 THEN g
                            ELSE IF programmer # g THEN "nobody"
                            ELSE IF last THEN "done" ELSE g
                       ELSE IF last /\ programmer = "done" THEN "nobody" ELSE programmer
      /\ fingerprint' = IF last THEN w.new ELSE fingerprint
      /\ UNCHANGED <<environment, connection, events, known, mode, orderly>>

PortDescReply(c) ==
  /\ Handles(c, "ports") /\ events' = Handled(c)
  /\ datapath' = {c}
  /\ portNames' = Head(events[c]).ports
  /\ Reconcile("events", c, portNames', Unprogrammed)
  /\ UNCHANGED <<environment, switch, connection, mode, orderly>>

(* Faulty: the ports are not asked for again. *)
FaultyPortStatus(c) ==
  /\ Handles(c, "status") /\ events' = Handled(c)
  /\ fingerprint' = Unprogrammed
  /\ UNCHANGED <<environment, switch, connection, known, mode, work, orderly>>

PortStatus(c) ==
  /\ Handles(c, "status") /\ events' = Handled(c)
  /\ fingerprint' = Unprogrammed
  /\ work' = Busy("events", "ask", c, Unprogrammed)
  /\ UNCHANGED <<environment, switch, connection, known, mode, orderly>>

DatapathDead(c) ==
  /\ Handles(c, "dead") /\ events' = Handled(c)
  /\ datapath' = {} /\ portNames' = NoPorts /\ fingerprint' = Unprogrammed
  /\ UNCHANGED <<environment, switch, connection, mode, work, orderly>>

(* _reconcile_loop goes through a list of the datapaths that it took at    *)
(* the beginning of its round.                                             *)
ListDatapaths ==
  /\ Idle("reconciler")
  /\ \E c \in datapath : work' = Busy("reconciler", "listed", c, Unprogrammed)
  /\ UNCHANGED <<environment, switch, connection, events, known, fingerprint, mode, orderly>>

ReconcileListed ==
  /\ work["reconciler"].pc = "listed"
  /\ Reconcile("reconciler", work["reconciler"].conn, portNames, fingerprint)
  /\ UNCHANGED <<environment, switch, connection, events, known, mode, orderly>>

(* The controller starts over, in either mode; every connection ends. *)
Restart ==
  /\ Changes
  /\ connection' = [connection EXCEPT !.up = FALSE]
  /\ events' = [c \in Connections |-> <<>>]
  /\ datapath' = {} /\ portNames' = NoPorts /\ fingerprint' = Unprogrammed
  /\ work' = [g \in Greenlets |-> NoWork]
  /\ programmer' = "nobody"
  /\ mode' \in {"ENFORCE", "DISABLED"}
  /\ UNCHANGED <<authorized, ports, table, orderly>>

CalmDown ==
  /\ ~calm /\ ~Raises
  /\ calm' = TRUE
  /\ UNCHANGED <<authorized, ports, changes, switch, connection, events, known, fingerprint, mode, work, orderly>>

Handler(c) == SwitchFeatures(c) \/ PortDescReply(c) \/ PortStatus(c) \/ DatapathDead(c)

Next ==
  \/ \E s \in Sites : TransitionSite(s)
  \/ PortChange \/ Disconnect \/ Connect \/ Restart \/ CalmDown
  \/ \E c \in Connections : Handler(c)
  \/ RequestPorts \/ ListDatapaths \/ ReconcileListed
  \/ \E g \in Greenlets : SendFlows(g)

(* The event loop serves every connection, the reconciler runs every two   *)
(* seconds, a queue of messages is emptied, and switches connect again by  *)
(* themselves.                                                             *)
Fairness ==
  /\ \A c \in Connections : WF_vars(Handler(c))
  /\ WF_vars(RequestPorts) /\ WF_vars(ListDatapaths \/ ReconcileListed)
  /\ \A g \in Greenlets : WF_work(GetsOn(g))
  /\ WF_vars(Connect)

Spec == Init /\ [][Next]_vars /\ Fairness
-----------------------------------------------------------------------------
(* The fingerprint that keeps the reconciler from reprogramming a switch   *)
(* (controller_v5.py:114) is the truth about the switch at hand, whatever  *)
(* restarts, reconnections and late events there were, when the last       *)
(* programming was not mixed with another: a switch that lost its flows is *)
(* never taken for programmed.                                             *)
TablesMatchFingerprint ==
  programmer = "done" /\ fingerprint # Unprogrammed /\ (\E c \in datapath : Alive(c))
    => table = FlowTables[fingerprint]

(* A greenlet that has the table to itself has put there what it sent so   *)
(* far, and nothing else is in it.                                         *)
ProgrammingInv ==
  programmer \in Greenlets /\ connection.up =>
    LET w == work[programmer]
    IN  /\ w.pc = "send" /\ w.turn > 0 /\ w.conn = connection.id
        /\ table = {e \in FlowTables[w.new] : Turn(e) < w.turn}

(* The invariant of the controller and the switch it is connected to. *)
UnderlayInv == TypeOK /\ TablesMatchFingerprint /\ ProgrammingInv

(* At no time, and whichever programmings the flows in the switch come     *)
(* from, complete, cut off or mixed with one another, does the provider    *)
(* carry traffic from one spoke's port to another's: spokes reach each     *)
(* other through a hub only.                                               *)
SpokesIsolated == \A e \in table : e.kind = "to" => {e.in, e.out} \cap Core # {}

(* Once nothing changes or fails any more, the controller comes to believe *)
(* for good that the switch holds the flows of the inventory and the ports *)
(* as they then are, and so it does if the last programming was not mixed  *)
(* with another - provided that the connection was not begun before the    *)
(* end of the last one was known, nor during an invalid inventory.  The    *)
(* README says what happens in the cases that are left out.                *)
Converges ==
  calm /\ connection.up /\ orderly
    ~> [](fingerprint = Wanted /\ (programmer # "nobody" => table = FlowTables[Wanted]))
=============================================================================
