--------------------------- MODULE UnderlayProofs ---------------------------
(***************************************************************************)
(* Proofs about the underlay controller, for any sites, hubs and ports:    *)
(* the fingerprint tells the truth about the switch at hand, and the       *)
(* provider never carries traffic between spokes.                          *)
(***************************************************************************)
EXTENDS Underlay, TLAPS

(* What a port map is: every attachment that is always there has its own   *)
(* number, the others one that the switch gives, and no two share one.     *)
LEMMA PortMapFacts ==
  ASSUME NEW m \in PortMaps
  PROVE  /\ m \in [DOMAIN m -> Numbers] /\ Fixed \subseteq DOMAIN m
         /\ DOMAIN m \ Fixed \subseteq Sites \ (Clashing \cup Seeds)
         /\ \A x \in Fixed : m[x] = x
         /\ \A x \in DOMAIN m \ Fixed : m[x] \in PortNumbers
         /\ \A x, y \in DOMAIN m : x # y => m[x] # m[y]
<1>1. PICK s \in SUBSET (Sites \ (Clashing \cup Seeds)) : m \in [Fixed \cup s -> Numbers]
  BY DEF PortMaps
<1>2. DOMAIN m = Fixed \cup s
  BY <1>1
<1> QED BY <1>1, <1>2 DEF PortMaps

(* And such a map is a port map. *)
LEMMA IsPortMap ==
  ASSUME NEW s \in SUBSET (Sites \ (Clashing \cup Seeds)), NEW m \in [Fixed \cup s -> Numbers],
         \A x \in Fixed : m[x] = x,
         \A x \in (Fixed \cup s) \ Fixed : m[x] \in PortNumbers,
         \A x, y \in Fixed \cup s : x # y => m[x] # m[y]
  PROVE  m \in PortMaps
<1>1. DOMAIN m = Fixed \cup s
  OBVIOUS
<1> QED BY <1>1 DEF PortMaps

(* No site is a hub or the gateway, so its role is that of a spoke. *)
LEMMA Roles ==
  /\ \A x \in Sites : Role(x) = "spoke"
  /\ \A sites \in SUBSET Sites : \A x \in Attachments(sites) : Role(x) # "spoke" => x \in Core
<1>1. \A x \in Sites : Role(x) = "spoke"
  BY UnderlayAssumption DEF Role
<1> QED BY <1>1 DEF Attachments, Core

(* Every route of the forwarding policy has a hub or the gateway at one    *)
(* end: no spoke is routed to a spoke.                                     *)
LEMMA FibIsolates ==
  ASSUME NEW sites \in SUBSET Sites, NEW r \in Fib(sites)
  PROVE  {r.source, r.egress} \cap Core # {}
<1> DEFINE A == Attachments(sites)
           reach == {q \in [source : A, egress : A] : q.source # q.egress /\ AllowedEndpoint(q.source, q.egress)}
<1>1. ASSUME NEW q \in reach PROVE {q.source, q.egress} \cap Core # {}
  <2>1. q.source \in A /\ q.egress \in A /\ (Role(q.source) # "spoke" \/ Role(q.egress) # "spoke")
    BY DEF AllowedEndpoint
  <2> QED BY <2>1, Roles
<1>2. CASE r \in {[source |-> q.source, to |-> <<"address", q.egress>>, egress |-> q.egress] : q \in reach}
  <2>1. PICK q \in reach : r = [source |-> q.source, to |-> <<"address", q.egress>>, egress |-> q.egress]
    BY <1>2
  <2>2. r.source = q.source /\ r.egress = q.egress
    BY <2>1
  <2> QED BY <1>1, <2>2
<1>3. CASE r \in {[source |-> q.source, to |-> <<"lan", q.egress>>, egress |-> q.egress] :
                    q \in {w \in reach : w.source = Gateway /\ Role(w.egress) = "spoke"}}
  <2>1. PICK q \in reach : r = [source |-> q.source, to |-> <<"lan", q.egress>>, egress |-> q.egress]
    BY <1>3
  <2>2. r.source = q.source /\ r.egress = q.egress
    BY <2>1
  <2> QED BY <1>1, <2>2
<1>4. CASE Internet /\ r \in {[source |-> x, to |-> <<"saas", Gateway>>, egress |-> Gateway] : x \in A \ {Gateway}}
  <2>1. r.egress = Gateway
    BY <1>4
  <2> QED BY <1>4, <2>1 DEF Core, GatewayOf
<1> QED BY <1>2, <1>3, <1>4 DEF Fib

(* A destination names the attachment behind which it is. *)
LEMMA FibEgress ==
  ASSUME NEW sites \in SUBSET Sites, NEW r \in Fib(sites)
  PROVE  r.to[2] = r.egress
<1> DEFINE A == Attachments(sites)
           reach == {q \in [source : A, egress : A] : q.source # q.egress /\ AllowedEndpoint(q.source, q.egress)}
<1>1. CASE r \in {[source |-> q.source, to |-> <<"address", q.egress>>, egress |-> q.egress] : q \in reach}
  BY <1>1
<1>2. CASE r \in {[source |-> q.source, to |-> <<"lan", q.egress>>, egress |-> q.egress] :
                    q \in {w \in reach : w.source = Gateway /\ Role(w.egress) = "spoke"}}
  BY <1>2
<1>3. CASE r \in {[source |-> x, to |-> <<"saas", Gateway>>, egress |-> Gateway] : x \in A \ {Gateway}}
  BY <1>3
<1> QED BY <1>1, <1>2, <1>3 DEF Fib

(* What a flow of a fingerprint is. *)
LEMMA FlowShape ==
  ASSUME NEW t \in Fingerprints, NEW e \in FlowTables[t]
  PROVE  \/ e = [kind |-> "from", in |-> e.in, net |-> e.net, out |-> e.in]
         \/ /\ e = [kind |-> "to", in |-> e.in, net |-> e.net, out |-> t.ports[e.net[2]]]
            /\ {e.in, e.out} \cap Core # {}
<1> DEFINE attached == Attachments(t.sites) \cap DOMAIN t.ports
           routes == {r \in Fib(t.sites) : {r.source, r.egress} \subseteq attached}
           sources == UNION {{[kind |-> "from", in |-> t.ports[x], net |-> n, out |-> t.ports[x]] : n \in SourceNetworks(x)} : x \in attached}
           ways == {[kind |-> "to", in |-> t.ports[r.source], net |-> r.to, out |-> t.ports[r.egress]] : r \in routes}
<1>1. FlowTables[t] = sources \cup ways
  BY DEF FlowTables, Flows
<1>2. t.ports \in PortMaps \cup {NoPorts} /\ t.sites \in SUBSET Sites
  BY DEF Fingerprints
<1>3. CASE e \in sources
  <2>1. PICK x \in attached : e \in {[kind |-> "from", in |-> t.ports[x], net |-> n, out |-> t.ports[x]] : n \in SourceNetworks(x)}
    BY <1>3
  <2>2. PICK n \in SourceNetworks(x) : e = [kind |-> "from", in |-> t.ports[x], net |-> n, out |-> t.ports[x]]
    BY <2>1
  <2> QED BY <2>2
<1>4. CASE e \in ways
  <2>1. PICK r \in routes : e = [kind |-> "to", in |-> t.ports[r.source], net |-> r.to, out |-> t.ports[r.egress]]
    BY <1>4
  <2>2. r \in Fib(t.sites) /\ r.source \in DOMAIN t.ports
    OBVIOUS
  <2>3. r.to[2] = r.egress /\ {r.source, r.egress} \cap Core # {}
    BY <1>2, <2>2, FibEgress, FibIsolates
  <2>4. t.ports \in PortMaps
    <3>1. DOMAIN NoPorts = {}
      BY DEF NoPorts
    <3> QED BY <1>2, <2>2, <3>1
  <2>5. \A x \in Core : t.ports[x] = x
    BY <2>4, PortMapFacts DEF Fixed
  <2> HIDE DEF attached, routes
  <2>6. e.in = t.ports[r.source] /\ e.net = r.to /\ e.out = t.ports[r.egress]
    BY <2>1
  <2> QED BY <2>1, <2>3, <2>5, <2>6
<1> QED BY <1>1, <1>3, <1>4

(* No flow of a programming takes the place of another of the same. *)
LEMMA FlowsMatch ==
  ASSUME NEW t \in Fingerprints, NEW d \in FlowTables[t], NEW e \in FlowTables[t], Match(d) = Match(e)
  PROVE  d = e
<1>1. d.kind = e.kind /\ d.in = e.in /\ d.net = e.net
  BY DEF Match
<1>2. d.kind = "from" => d = [kind |-> "from", in |-> d.in, net |-> d.net, out |-> d.in]
  BY FlowShape
<1>3. e.kind = "from" => e = [kind |-> "from", in |-> e.in, net |-> e.net, out |-> e.in]
  BY FlowShape
<1>4. d.kind # "from" => d = [kind |-> "to", in |-> d.in, net |-> d.net, out |-> t.ports[d.net[2]]]
  BY FlowShape
<1>5. e.kind # "from" => e = [kind |-> "to", in |-> e.in, net |-> e.net, out |-> t.ports[e.net[2]]]
  BY FlowShape
<1> QED BY <1>1, <1>2, <1>3, <1>4, <1>5

(* Flows are flows of some fingerprint, sent in one of the turns. *)
LEMMA FlowFacts ==
  ASSUME NEW t \in Fingerprints
  PROVE  FlowTables[t] \subseteq AllFlows /\ \A e \in FlowTables[t] : Turn(e) \in 1 .. Turns
<1>1. FlowTables[t] \subseteq AllFlows
  BY DEF AllFlows
<1> QED BY <1>1, TurnsAssumption

(* One more turn adds its flows to those of the turns before. *)
LEMMA AddedTurn ==
  ASSUME NEW t \in Fingerprints, NEW n \in Nat, table = {e \in FlowTables[t] : Turn(e) < n}
  PROVE  Added({e \in FlowTables[t] : Turn(e) = n}) = {e \in FlowTables[t] : Turn(e) < n + 1}
<1> DEFINE new == {e \in FlowTables[t] : Turn(e) = n}
<1>1. \A e \in FlowTables[t] : Turn(e) \in Nat
  BY FlowFacts
<1>2. ASSUME NEW d \in new, NEW e \in table PROVE Match(d) # Match(e)
  <2>1. d \in FlowTables[t] /\ e \in FlowTables[t] /\ Turn(d) = n /\ Turn(e) < n /\ Turn(e) \in Nat
    BY <1>1
  <2>2. d # e
    BY <2>1
  <2> QED BY <2>1, <2>2, FlowsMatch
<1>3. Added(new) = new \cup table
  BY <1>2 DEF Added
<1>4. new \cup table = {e \in FlowTables[t] : Turn(e) < n + 1}
  BY <1>1
<1> QED BY <1>3, <1>4

(* What an inventory may be loaded as: some sites. *)
LEMMA LoadsFacts ==
  ASSUME TypeOK, NEW sites \in Loads
  PROVE  sites \in SUBSET Sites
<1>1. authorized \subseteq Sites /\ Seeds \subseteq Sites
  BY UnderlayAssumption DEF TypeOK
<1> QED BY <1>1 DEF Loads, Projection

(* What a greenlet may be given to do. *)
LEMMA WorkFacts ==
  ASSUME TypeOK, NEW g \in Greenlets, NEW c \in Connections, NEW new \in Fingerprints
  PROVE  /\ Unprogrammed \in Fingerprints
         /\ \A pc \in {"idle", "ask", "listed", "send"} : Busy(g, pc, c, new) \in [Greenlets -> Works]
         /\ Done(g) \in [Greenlets -> Works]
         /\ \A h \in Greenlets \ {g} : (\A pc : Busy(g, pc, c, new)[h] = work[h]) /\ Done(g)[h] = work[h]
<1>1. Unprogrammed \in Fingerprints /\ 0 \in Connections /\ 0 \in 0 .. Turns
  BY UnderlayAssumption DEF Unprogrammed, Fingerprints, Connections
<1>2. work \in [Greenlets -> Works]
  BY DEF TypeOK
<1>3. NoWork \in Works
  BY <1>1 DEF NoWork, Works
<1>4. \A pc \in {"idle", "ask", "listed", "send"} : [pc |-> pc, conn |-> c, new |-> new, turn |-> 0] \in Works
  BY <1>1 DEF Works
<1> QED BY <1>1, <1>2, <1>3, <1>4 DEF Busy, Done

(* reconcile_datapath, up to its first message, records nothing new. *)
LEMMA ReconcileFacts ==
  ASSUME TypeOK, NEW g \in Greenlets, NEW c \in Connections, NEW names \in PortMaps \cup {NoPorts},
         NEW programmed \in Fingerprints, Reconcile(g, c, names, programmed)
  PROVE  /\ work' \in [Greenlets -> Works]
         /\ \A h \in Greenlets \ {g} : work'[h] = work[h]
         /\ fingerprint' \in {programmed, Unprogrammed}
<1>1. CASE Raises /\ work' = Done(g) /\ fingerprint' = programmed
  BY <1>1, WorkFacts
<1>2. ASSUME NEW sites \in Loads, NEW new,
             new = IF mode = "DISABLED" THEN Unprogrammed ELSE [ports |-> names, sites |-> sites],
             work' = IF programmed = new THEN Done(g) ELSE Busy(g, "send", c, new),
             fingerprint' = IF mode = "DISABLED" THEN Unprogrammed ELSE programmed
      PROVE  /\ work' \in [Greenlets -> Works]
             /\ \A h \in Greenlets \ {g} : work'[h] = work[h]
             /\ fingerprint' \in {programmed, Unprogrammed}
  <2>1. new \in Fingerprints
    BY <1>2, LoadsFacts DEF Fingerprints, Unprogrammed
  <2>2. /\ Busy(g, "send", c, new) \in [Greenlets -> Works] /\ Done(g) \in [Greenlets -> Works]
        /\ \A h \in Greenlets \ {g} : Busy(g, "send", c, new)[h] = work[h] /\ Done(g)[h] = work[h]
    BY <2>1, WorkFacts
  <2> QED BY <1>2, <2>2
<1> QED BY <1>1, <1>2 DEF Reconcile

(* Queues of events stay queues of events. *)
LEMMA EventQueues ==
  ASSUME TypeOK, NEW c \in Connections
  PROVE  /\ \A e \in Events : Sent(c, e) \in [Connections -> Seq(Events)]
         /\ events[c] # <<>> => Handled(c) \in [Connections -> Seq(Events)] /\ Head(events[c]) \in Events
<1>1. events \in [Connections -> Seq(Events)] /\ events[c] \in Seq(Events)
  BY DEF TypeOK
<1>2. \A e \in Events : Sent(c, e) \in [Connections -> Seq(Events)]
  BY <1>1 DEF Sent
<1>3. ASSUME events[c] # <<>>
      PROVE  Handled(c) \in [Connections -> Seq(Events)] /\ Head(events[c]) \in Events
  <2>1. Tail(events[c]) \in Seq(Events) /\ Head(events[c]) \in Events
    BY <1>1, <1>3
  <2> QED BY <1>1, <2>1 DEF Handled
<1> QED BY <1>2, <1>3

(* Which connections the controller may use: none or one. *)
LEMMA Datapaths ==
  /\ \A c \in Connections : {c} \in {{}, {0}, {1}}
  /\ \A d \in {{}, {0}, {1}} : \A c \in d : c \in Connections
BY DEF Connections

(* The invariant holds at the start. *)
LEMMA InitUnderlay == Init => UnderlayInv
<1> SUFFICES ASSUME Init PROVE UnderlayInv
  OBVIOUS
<1>1. Unprogrammed \in Fingerprints /\ 0 \in Connections
  BY DEF Unprogrammed, Fingerprints, Connections
<1>2. events \in [Connections -> Seq(Events)]
  BY DEF Init
<1>3. work \in [Greenlets -> Works]
  <2>1. NoWork \in Works
    BY <1>1, UnderlayAssumption DEF NoWork, Works
  <2> QED BY <2>1 DEF Init
<1>4. TypeOK
  <2>1. connection \in [id : Connections, up : BOOLEAN]
    BY <1>1 DEF Init
  <2>2. changes \in 0 .. MaxChanges
    BY UnderlayAssumption DEF Init
  <2>3. authorized \subseteq Sites /\ table \subseteq AllFlows /\ datapath \in {{}, {0}, {1}}
    BY DEF Init
  <2> QED BY <1>1, <1>2, <1>3, <2>1, <2>2, <2>3, PortsAssumption DEF Init, TypeOK
<1>5. programmer \notin Greenlets /\ programmer # "done"
  BY DEF Init, Greenlets
<1> QED BY <1>4, <1>5 DEF UnderlayInv, TablesMatchFingerprint, ProgrammingInv

(* Nothing that leaves the switch and its connection alone takes the table *)
(* from a greenlet that sends.                                             *)
LEMMA KeepProgramming ==
  ASSUME UnderlayInv, NEW g \in Greenlets, work[g].pc # "send",
         \A h \in Greenlets \ {g} : work'[h] = work[h],
         UNCHANGED <<switch, connection>>
  PROVE  ProgrammingInv'
<1> SUFFICES ASSUME programmer \in Greenlets, connection.up PROVE ProgrammingInv'
  BY DEF ProgrammingInv, switch
<1>1. /\ work[programmer].pc = "send" /\ work[programmer].turn > 0 /\ work[programmer].conn = connection.id
      /\ table = {e \in FlowTables[work[programmer].new] : Turn(e) < work[programmer].turn}
  BY DEF UnderlayInv, ProgrammingInv
<1>2. work'[programmer] = work[programmer]
  BY <1>1
<1> QED BY <1>1, <1>2 DEF ProgrammingInv, switch

(* The fingerprint stays true when it is forgotten, or kept together with  *)
(* the connection that it is about.                                        *)
LEMMA KeepTables ==
  ASSUME UnderlayInv, UNCHANGED <<switch, connection>>,
         fingerprint' = Unprogrammed \/ (fingerprint' = fingerprint /\ datapath' = datapath)
  PROVE  TablesMatchFingerprint'
BY DEF UnderlayInv, TablesMatchFingerprint, switch, Alive

(* A port comes, with a number that is free, or goes. *)
LEMMA PortsChange ==
  ASSUME TypeOK, PortChange
  PROVE  ports' \in PortMaps
<1>1. /\ ports \in [DOMAIN ports -> Numbers] /\ Fixed \subseteq DOMAIN ports
      /\ DOMAIN ports \ Fixed \subseteq Sites \ (Clashing \cup Seeds)
      /\ \A x \in Fixed : ports[x] = x
      /\ \A x \in DOMAIN ports \ Fixed : ports[x] \in PortNumbers
      /\ \A x, y \in DOMAIN ports : x # y => ports[x] # ports[y]
  BY PortMapFacts DEF TypeOK
<1>2. ASSUME NEW s \in Sites \ (Clashing \cup DOMAIN ports),
             NEW n \in PortNumbers \ {ports[x] : x \in DOMAIN ports},
             ports' = [x \in DOMAIN ports \cup {s} |-> IF x = s THEN n ELSE ports[x]]
      PROVE  ports' \in PortMaps
  <2> DEFINE others == (DOMAIN ports \ Fixed) \cup {s}
  <2>1. s \notin Fixed /\ s \notin Seeds
    BY <1>1 DEF Fixed
  <2>2. others \in SUBSET (Sites \ (Clashing \cup Seeds)) /\ Fixed \cup others = DOMAIN ports \cup {s}
    BY <1>1, <2>1
  <2>3. ports' \in [Fixed \cup others -> Numbers]
    <3>1. n \in Numbers
      BY DEF Numbers
    <3> QED BY <1>1, <1>2, <2>2, <3>1
  <2>4. \A x \in Fixed : ports'[x] = x
    BY <1>1, <1>2, <2>1
  <2>5. \A x \in (Fixed \cup others) \ Fixed : ports'[x] \in PortNumbers
    BY <1>1, <1>2, <2>2
  <2>6. \A x, y \in Fixed \cup others : x # y => ports'[x] # ports'[y]
    BY <1>1, <1>2, <2>2
  <2> HIDE DEF others
  <2> QED BY <2>2, <2>3, <2>4, <2>5, <2>6, IsPortMap
<1>3. ASSUME NEW s \in DOMAIN ports \ Fixed, ports' = [x \in DOMAIN ports \ {s} |-> ports[x]]
      PROVE  ports' \in PortMaps
  <2> DEFINE others == DOMAIN ports \ (Fixed \cup {s})
  <2>1. others \in SUBSET (Sites \ (Clashing \cup Seeds)) /\ Fixed \cup others = DOMAIN ports \ {s}
    BY <1>1
  <2>2. ports' \in [Fixed \cup others -> Numbers] /\ \A x \in Fixed \cup others : ports'[x] = ports[x]
    BY <1>1, <1>3, <2>1
  <2>3. \A x \in Fixed : ports'[x] = x
    BY <1>1, <2>2
  <2>4. \A x \in (Fixed \cup others) \ Fixed : ports'[x] \in PortNumbers
    BY <1>1, <2>1, <2>2
  <2>5. \A x, y \in Fixed \cup others : x # y => ports'[x] # ports'[y]
    BY <1>1, <2>1, <2>2
  <2> HIDE DEF others
  <2> QED BY <2>1, <2>2, <2>3, <2>4, <2>5, IsPortMap
<1> QED BY <1>2, <1>3 DEF PortChange

(* A turn of a programming keeps the invariant. *)
LEMMA SendStep ==
  ASSUME UnderlayInv, NEW g \in Greenlets, SendFlows(g)
  PROVE  UnderlayInv'
<1> DEFINE w == work[g]
           last == w.turn = Turns
           batch == {e \in FlowTables[w.new] : Turn(e) = w.turn}
<1>1. TypeOK /\ TablesMatchFingerprint /\ ProgrammingInv
  BY DEF UnderlayInv
<1>2. work \in [Greenlets -> Works] /\ w \in Works
  BY <1>1 DEF TypeOK
<1>3. /\ w.pc = "send" /\ w.conn \in Connections /\ w.new \in Fingerprints /\ w.turn \in 0 .. Turns
      /\ Turns \in Nat \ {0}
  BY <1>2, UnderlayAssumption DEF Works, SendFlows, GetsOn
<1>4. FlowTables[w.new] \subseteq AllFlows /\ \A e \in FlowTables[w.new] : Turn(e) \in 1 .. Turns
  BY <1>3, FlowFacts
<1>5. /\ table' = IF ~Alive(w.conn) THEN table ELSE IF w.turn = 0 THEN {} ELSE Added(batch)
      /\ programmer' = IF Alive(w.conn)
                       THEN IF w.turn = 0 THEN g
                            ELSE IF programmer # g THEN "nobody"
                            ELSE IF last THEN "done" ELSE g
                       ELSE IF last /\ programmer = "done" THEN "nobody" ELSE programmer
      /\ fingerprint' = IF last THEN w.new ELSE fingerprint
      /\ work' = IF last THEN Done(g) ELSE [work EXCEPT ![g].turn = @ + 1]
      /\ UNCHANGED <<environment, connection, events, known, mode, orderly>>
  BY DEF SendFlows, GetsOn
<1>6. \A h \in Greenlets \ {g} : work'[h] = work[h]
  BY <1>2, <1>5 DEF Done
<1>7. ~last => work'[g] = [w EXCEPT !.turn = w.turn + 1] /\ w.turn + 1 \in 0 .. Turns
  BY <1>2, <1>3, <1>5
<1>8. TypeOK'
  <2>1. table' \subseteq AllFlows
    <3>1. table \subseteq AllFlows
      BY <1>1 DEF TypeOK
    <3> QED BY <1>4, <1>5, <3>1 DEF Added
  <2>2. work' \in [Greenlets -> Works]
    <3>1. CASE last
      <4>1. Done(g) \in [Greenlets -> Works]
        BY <1>1, <1>3, WorkFacts
      <4> QED BY <1>5, <3>1, <4>1
    <3>2. CASE ~last
      <4>1. [w EXCEPT !.turn = w.turn + 1] \in Works
        BY <1>2, <1>7, <3>2 DEF Works
      <4>2. work' = [work EXCEPT ![g] = [w EXCEPT !.turn = w.turn + 1]]
        BY <1>2, <1>5, <3>2
      <4> HIDE DEF w
      <4> QED BY <1>2, <4>1, <4>2
    <3> QED BY <3>1, <3>2
  <2>3. programmer' \in {"nobody", "done"} \cup Greenlets /\ fingerprint' \in Fingerprints
    BY <1>1, <1>3, <1>5 DEF TypeOK
  <2> QED BY <1>1, <1>5, <2>1, <2>2, <2>3 DEF TypeOK, environment, known
<1>9. ASSUME Alive(w.conn), programmer = g, w.turn # 0
      PROVE  table' = {e \in FlowTables[w.new] : Turn(e) < w.turn + 1}
  <2>1. table = {e \in FlowTables[w.new] : Turn(e) < w.turn}
    BY <1>1, <1>9 DEF ProgrammingInv, Alive
  <2>2. table' = Added(batch) /\ w.turn \in Nat
    BY <1>3, <1>5, <1>9
  <2> HIDE DEF w
  <2> QED BY <1>3, <2>1, <2>2, AddedTurn
<1>10. TablesMatchFingerprint'
  <2>1. CASE Alive(w.conn)
    <3> SUFFICES ASSUME programmer' = "done" PROVE table' = FlowTables[fingerprint']
      BY DEF TablesMatchFingerprint
    <3>1. w.turn # 0 /\ programmer = g /\ last /\ fingerprint' = w.new
      BY <1>5, <2>1 DEF Greenlets
    <3>2. table' = {e \in FlowTables[w.new] : Turn(e) < w.turn + 1}
      BY <1>9, <2>1, <3>1
    <3>3. \A e \in FlowTables[w.new] : Turn(e) < w.turn + 1
      BY <1>3, <1>4, <3>1
    <3> QED BY <3>1, <3>2, <3>3
  <2>2. CASE ~Alive(w.conn)
    <3>1. table' = table /\ (programmer' = "done" => programmer = "done" /\ fingerprint' = fingerprint)
      BY <1>5, <2>2
    <3> QED BY <1>1, <1>5, <3>1 DEF TablesMatchFingerprint, Alive, known
  <2> QED BY <2>1, <2>2
<1>11. ProgrammingInv'
  <2> SUFFICES ASSUME programmer' \in Greenlets, connection.up
               PROVE  /\ work'[programmer'].pc = "send" /\ work'[programmer'].turn > 0
                      /\ work'[programmer'].conn = connection.id
                      /\ table' = {e \in FlowTables[work'[programmer'].new] : Turn(e) < work'[programmer'].turn}
    BY <1>5 DEF ProgrammingInv
  <2>1. CASE Alive(w.conn) /\ w.turn = 0
    <3>1. programmer' = g /\ ~last /\ table' = {}
      BY <1>3, <1>5, <2>1
    <3>2. work'[g].pc = "send" /\ work'[g].turn = 1 /\ work'[g].conn = connection.id /\ work'[g].new = w.new
      BY <1>2, <1>3, <1>7, <2>1, <3>1 DEF Works, Alive
    <3>3. \A e \in FlowTables[w.new] : ~(Turn(e) < 1)
      BY <1>4
    <3> QED BY <3>1, <3>2, <3>3
  <2>2. CASE Alive(w.conn) /\ w.turn # 0
    <3>1. programmer' = g /\ programmer = g /\ ~last
      BY <1>5, <2>2 DEF Greenlets
    <3>2. table' = {e \in FlowTables[w.new] : Turn(e) < w.turn + 1}
      BY <1>9, <2>2, <3>1
    <3>3. /\ work'[g].pc = "send" /\ work'[g].turn = w.turn + 1 /\ work'[g].turn > 0
          /\ work'[g].conn = connection.id /\ work'[g].new = w.new
      BY <1>2, <1>3, <1>7, <2>2, <3>1 DEF Works, Alive
    <3> HIDE DEF w
    <3> QED BY <3>1, <3>2, <3>3
  <2>3. CASE ~Alive(w.conn)
    <3>1. programmer' = programmer /\ table' = table
      BY <1>5, <2>3 DEF Greenlets
    <3>2. /\ work[programmer].pc = "send" /\ work[programmer].turn > 0 /\ work[programmer].conn = connection.id
          /\ table = {e \in FlowTables[work[programmer].new] : Turn(e) < work[programmer].turn}
      BY <1>1, <3>1 DEF ProgrammingInv
    <3>3. programmer # g
      BY <2>3, <3>2 DEF Alive
    <3>4. work'[programmer] = work[programmer]
      BY <1>6, <3>1, <3>3
    <3> QED BY <3>1, <3>2, <3>4
  <2> QED BY <2>1, <2>2, <2>3
<1> QED BY <1>8, <1>10, <1>11 DEF UnderlayInv

(* Every step of the switch, the inventory and the controller keeps it. *)
LEMMA NextUnderlay == UnderlayInv /\ [Next]_vars => UnderlayInv'
<1> SUFFICES ASSUME UnderlayInv, [Next]_vars PROVE UnderlayInv'
  OBVIOUS
<1>0. TypeOK /\ TablesMatchFingerprint /\ ProgrammingInv
  BY DEF UnderlayInv
<1>1. /\ authorized \subseteq Sites /\ ports \in PortMaps /\ table \subseteq AllFlows
      /\ connection \in [id : Connections, up : BOOLEAN]
      /\ events \in [Connections -> Seq(Events)]
      /\ datapath \in {{}, {0}, {1}}
      /\ portNames \in PortMaps \cup {NoPorts} /\ fingerprint \in Fingerprints
      /\ work \in [Greenlets -> Works]
      /\ programmer \in {"nobody", "done"} \cup Greenlets
      /\ changes \in 0 .. MaxChanges /\ orderly \in BOOLEAN /\ calm \in BOOLEAN
  BY <1>0 DEF TypeOK
<1>2. Unprogrammed \in Fingerprints /\ connection.id \in Connections
      /\ "events" \in Greenlets /\ "reconciler" \in Greenlets
  BY <1>1 DEF Unprogrammed, Fingerprints, Greenlets
<1>3. Changes => changes' \in 0 .. MaxChanges /\ calm' \in BOOLEAN
  BY <1>1, UnderlayAssumption DEF Changes
<1>4. ASSUME NEW s \in Sites, TransitionSite(s) PROVE UnderlayInv'
  <2>1. authorized' \subseteq Sites /\ Changes
    BY <1>1, <1>4 DEF TransitionSite
  <2> QED BY <1>0, <1>3, <1>4, <2>1
          DEF TransitionSite, switch, known, UnderlayInv, TypeOK, TablesMatchFingerprint, ProgrammingInv, Alive
<1>5. CASE PortChange
  <2>1. ports' \in PortMaps /\ Changes
    BY <1>0, <1>5, PortsChange DEF PortChange
  <2>2. [kind |-> "status"] \in Events
    BY DEF Events
  <2>3. events' \in [Connections -> Seq(Events)]
    BY <1>0, <1>1, <1>2, <1>5, <2>2, EventQueues DEF PortChange
  <2> QED BY <1>0, <1>3, <1>5, <2>1, <2>3
          DEF PortChange, switch, known, UnderlayInv, TypeOK, TablesMatchFingerprint, ProgrammingInv, Alive
<1>6. CASE Disconnect
  <2>1. [kind |-> "dead"] \in Events
    BY DEF Events
  <2>2. events' \in [Connections -> Seq(Events)]
    BY <1>0, <1>2, <1>6, <2>1, EventQueues DEF Disconnect
  <2>3. connection' \in [id : Connections, up : BOOLEAN] /\ ~connection'.up /\ Changes
    BY <1>1, <1>6 DEF Disconnect
  <2>4. TypeOK'
    BY <1>0, <1>3, <1>6, <2>2, <2>3 DEF Disconnect, switch, known, TypeOK
  <2> QED BY <2>3, <2>4 DEF UnderlayInv, TablesMatchFingerprint, ProgrammingInv, Alive
<1>7. CASE Connect
  <2> DEFINE next == 1 - connection.id
  <2>1. next \in Connections
    BY <1>2 DEF Connections
  <2>2. [kind |-> "features"] \in Events
    BY DEF Events
  <2>3. events' \in [Connections -> Seq(Events)]
    <3>1. events' = Sent(next, [kind |-> "features"])
      BY <1>7 DEF Connect
    <3> HIDE DEF next
    <3> QED BY <1>0, <2>1, <2>2, <3>1, EventQueues
  <2>4. /\ connection' = [id |-> next, up |-> TRUE] /\ next \notin datapath
        /\ UNCHANGED <<environment, known, fingerprint, mode, work>>
        /\ table' \in {table, {}} /\ orderly' = (events[connection.id] = <<>>)
        /\ programmer' = IF programmer \in Greenlets THEN "nobody" ELSE programmer
    BY <1>7 DEF Connect
  <2> HIDE DEF next
  <2>5. /\ connection' \in [id : Connections, up : BOOLEAN] /\ connection'.id = next /\ orderly' \in BOOLEAN
        /\ programmer' \in {"nobody", "done"} /\ table' \subseteq AllFlows
    BY <1>1, <2>1, <2>4
  <2>6. TypeOK'
    BY <1>0, <2>3, <2>4, <2>5 DEF known, environment, TypeOK
  <2>7. programmer' \notin Greenlets
    BY <2>5 DEF Greenlets
  <2> QED BY <2>4, <2>5, <2>6, <2>7 DEF known, UnderlayInv, TablesMatchFingerprint, ProgrammingInv, Alive
<1>8. CASE Restart
  <2>1. connection' \in [id : Connections, up : BOOLEAN] /\ Changes
    BY <1>1, <1>8 DEF Restart
  <2>2. events' \in [Connections -> Seq(Events)]
    BY <1>8 DEF Restart
  <2>3. work' \in [Greenlets -> Works]
    <3>1. NoWork \in Works
      BY <1>2, UnderlayAssumption DEF NoWork, Works, Connections
    <3> QED BY <1>8, <3>1 DEF Restart
  <2>4. TypeOK'
    BY <1>0, <1>2, <1>3, <1>8, <2>1, <2>2, <2>3 DEF Restart, TypeOK
  <2>5. programmer' = "nobody" /\ programmer' \notin Greenlets
    BY <1>8 DEF Restart, Greenlets
  <2> QED BY <2>4, <2>5 DEF UnderlayInv, TablesMatchFingerprint, ProgrammingInv
<1>9. CASE CalmDown
  BY <1>0, <1>9 DEF CalmDown, switch, known, UnderlayInv, TypeOK, TablesMatchFingerprint, ProgrammingInv, Alive
<1>10. ASSUME NEW c \in Connections, SwitchFeatures(c) PROVE UnderlayInv'
  <2>1. events' \in [Connections -> Seq(Events)] /\ work["events"].pc # "send"
    BY <1>0, <1>10, EventQueues DEF SwitchFeatures, Handles, Idle
  <2>2. /\ datapath' = {c} /\ fingerprint' = Unprogrammed /\ orderly' \in BOOLEAN
        /\ work' \in {work, Busy("events", "ask", c, Unprogrammed)}
        /\ UNCHANGED <<environment, switch, connection, portNames, mode>>
    BY <1>1, <1>10 DEF SwitchFeatures
  <2>3. work' \in [Greenlets -> Works] /\ \A h \in Greenlets \ {"events"} : work'[h] = work[h]
    BY <1>0, <1>1, <1>2, <2>2, WorkFacts
  <2>4. TypeOK'
    BY <1>0, <1>2, <2>1, <2>2, <2>3, Datapaths DEF environment, switch, TypeOK
  <2>5. ProgrammingInv'
    BY <1>2, <2>1, <2>2, <2>3, KeepProgramming
  <2> QED BY <2>2, <2>4, <2>5, KeepTables DEF UnderlayInv
<1>11. ASSUME NEW c \in Connections, PortDescReply(c) PROVE UnderlayInv'
  <2>1. /\ events' \in [Connections -> Seq(Events)] /\ Head(events[c]) \in Events
        /\ work["events"].pc # "send"
    BY <1>0, <1>11, EventQueues DEF PortDescReply, Handles, Idle
  <2>2. portNames' \in PortMaps
    BY <1>11, <2>1 DEF PortDescReply, Handles, Events
  <2>3. Reconcile("events", c, portNames', Unprogrammed) /\ datapath' = {c}
        /\ UNCHANGED <<environment, switch, connection, mode, orderly>>
    BY <1>11 DEF PortDescReply
  <2>4. /\ work' \in [Greenlets -> Works] /\ \A h \in Greenlets \ {"events"} : work'[h] = work[h]
        /\ fingerprint' = Unprogrammed
    BY <1>0, <1>2, <2>2, <2>3, ReconcileFacts
  <2>5. TypeOK'
    BY <1>0, <1>2, <2>1, <2>2, <2>3, <2>4, Datapaths DEF environment, switch, TypeOK
  <2>6. ProgrammingInv'
    BY <1>2, <2>1, <2>3, <2>4, KeepProgramming
  <2> QED BY <2>3, <2>4, <2>5, <2>6, KeepTables DEF UnderlayInv
<1>12. ASSUME NEW c \in Connections, PortStatus(c) PROVE UnderlayInv'
  <2>1. events' \in [Connections -> Seq(Events)] /\ work["events"].pc # "send"
    BY <1>0, <1>12, EventQueues DEF PortStatus, Handles, Idle
  <2>2. /\ fingerprint' = Unprogrammed /\ work' = Busy("events", "ask", c, Unprogrammed)
        /\ UNCHANGED <<environment, switch, connection, known, mode, orderly>>
    BY <1>12 DEF PortStatus
  <2>3. work' \in [Greenlets -> Works] /\ \A h \in Greenlets \ {"events"} : work'[h] = work[h]
    BY <1>0, <1>2, <2>2, WorkFacts
  <2>4. TypeOK'
    BY <1>0, <1>2, <2>1, <2>2, <2>3 DEF environment, switch, known, TypeOK
  <2>5. ProgrammingInv'
    BY <1>2, <2>1, <2>2, <2>3, KeepProgramming
  <2> QED BY <2>2, <2>4, <2>5, KeepTables DEF UnderlayInv
<1>13. ASSUME NEW c \in Connections, DatapathDead(c) PROVE UnderlayInv'
  <2>1. events' \in [Connections -> Seq(Events)] /\ work["events"].pc # "send"
    BY <1>0, <1>13, EventQueues DEF DatapathDead, Handles, Idle
  <2>2. /\ fingerprint' = Unprogrammed /\ datapath' = {} /\ portNames' = NoPorts
        /\ UNCHANGED <<environment, switch, connection, mode, work, orderly>>
    BY <1>13 DEF DatapathDead
  <2>3. TypeOK'
    BY <1>0, <1>2, <2>1, <2>2 DEF environment, switch, TypeOK
  <2>4. ProgrammingInv'
    BY <1>2, <2>1, <2>2, KeepProgramming
  <2> QED BY <2>2, <2>3, <2>4, KeepTables DEF UnderlayInv
<1>14. CASE RequestPorts
  <2> DEFINE c == work["events"].conn
  <2>1. c \in Connections /\ work["events"].pc # "send"
    BY <1>1, <1>2, <1>14 DEF RequestPorts, Works
  <2>2. /\ events' = IF Alive(c) THEN Sent(c, [kind |-> "ports", ports |-> ports]) ELSE events
        /\ work' = Done("events")
        /\ UNCHANGED <<environment, switch, connection, known, fingerprint, mode, orderly>>
    BY <1>14 DEF RequestPorts
  <2>3. work' \in [Greenlets -> Works] /\ \A h \in Greenlets \ {"events"} : work'[h] = work[h]
    BY <1>0, <1>2, <2>2, WorkFacts
  <2>4. events' \in [Connections -> Seq(Events)]
    <3>1. [kind |-> "ports", ports |-> ports] \in Events
      BY <1>1 DEF Events
    <3> HIDE DEF c
    <3> QED BY <1>0, <1>1, <2>1, <2>2, <3>1, EventQueues
  <2> HIDE DEF c
  <2>5. TypeOK'
    BY <1>0, <2>2, <2>3, <2>4 DEF environment, switch, known, TypeOK
  <2>6. ProgrammingInv'
    BY <1>2, <2>1, <2>2, <2>3, KeepProgramming
  <2>7. datapath' = datapath
    BY <2>2 DEF known
  <2> QED BY <2>2, <2>5, <2>6, <2>7, KeepTables DEF UnderlayInv
<1>15. CASE ListDatapaths
  <2>1. PICK c \in datapath : work' = Busy("reconciler", "listed", c, Unprogrammed)
    BY <1>15 DEF ListDatapaths
  <2>2. /\ work["reconciler"].pc # "send"
        /\ UNCHANGED <<environment, switch, connection, events, known, fingerprint, mode, orderly>>
    BY <1>15 DEF ListDatapaths, Idle
  <2>3. c \in Connections
    BY <1>1, Datapaths
  <2>4. work' \in [Greenlets -> Works] /\ \A h \in Greenlets \ {"reconciler"} : work'[h] = work[h]
    BY <1>0, <1>2, <2>1, <2>3, WorkFacts
  <2>5. TypeOK'
    BY <1>0, <2>2, <2>4 DEF environment, switch, known, TypeOK
  <2>6. ProgrammingInv'
    BY <1>2, <2>2, <2>4, KeepProgramming
  <2>7. datapath' = datapath
    BY <2>2 DEF known
  <2> QED BY <2>2, <2>5, <2>6, <2>7, KeepTables DEF UnderlayInv
<1>16. CASE ReconcileListed
  <2>1. /\ work["reconciler"].pc # "send" /\ work["reconciler"].conn \in Connections
        /\ Reconcile("reconciler", work["reconciler"].conn, portNames, fingerprint)
        /\ UNCHANGED <<environment, switch, connection, events, known, mode, orderly>>
    BY <1>1, <1>2, <1>16 DEF ReconcileListed, Works
  <2>2. /\ work' \in [Greenlets -> Works] /\ \A h \in Greenlets \ {"reconciler"} : work'[h] = work[h]
        /\ fingerprint' \in {fingerprint, Unprogrammed}
    BY <1>0, <1>1, <1>2, <2>1, ReconcileFacts
  <2>3. TypeOK'
    BY <1>0, <1>2, <2>1, <2>2 DEF environment, switch, known, TypeOK
  <2>4. ProgrammingInv'
    BY <1>2, <2>1, <2>2, KeepProgramming
  <2>5. datapath' = datapath
    BY <2>1 DEF known
  <2> QED BY <2>1, <2>2, <2>3, <2>4, <2>5, KeepTables DEF UnderlayInv
<1>17. ASSUME NEW g \in Greenlets, SendFlows(g) PROVE UnderlayInv'
  BY <1>17, SendStep
<1>18. CASE UNCHANGED vars
  BY <1>0, <1>18
     DEF vars, environment, switch, known, UnderlayInv, TypeOK, TablesMatchFingerprint, ProgrammingInv, Alive
<1> QED BY <1>4, <1>5, <1>6, <1>7, <1>8, <1>9, <1>10, <1>11, <1>12, <1>13, <1>14, <1>15, <1>16, <1>17, <1>18
        DEF Next, Handler

(* A switch that lost its flows is never taken for programmed, whatever    *)
(* restarts, reconnections and late events there are, and wherever the two *)
(* greenlets give way to each other.                                       *)
THEOREM UnderlayInvariant == Spec => []UnderlayInv
BY InitUnderlay, NextUnderlay, PTL DEF Spec

(* The provider never carries traffic from one spoke to another, whichever *)
(* sites, ports, failures and mixtures of programmings there are.          *)
THEOREM SpokesAlwaysIsolated == Spec => []SpokesIsolated
<1>1. UnderlayInv => SpokesIsolated
  <2> SUFFICES ASSUME UnderlayInv, NEW e \in table, e.kind = "to" PROVE {e.in, e.out} \cap Core # {}
    BY DEF SpokesIsolated
  <2>1. PICK f \in Fingerprints : e \in FlowTables[f]
    BY DEF UnderlayInv, TypeOK, AllFlows
  <2> QED BY <2>1, FlowShape
<1> QED BY <1>1, UnderlayInvariant, PTL
=============================================================================
