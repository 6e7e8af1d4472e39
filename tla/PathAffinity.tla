----------------------------- MODULE PathAffinity ---------------------------
(***************************************************************************)
(* One connection on its way through the routing namespaces of the         *)
(* overlay: sites (spokes), hubs and cloud gateways.  Each namespace keeps *)
(* a conntrack entry whose mark pins the connection to a path, in chains   *)
(* that edge_agent_v5.py installs one iptables command at a time while     *)
(* packets pass; on a site the marking chain is installed by two           *)
(* processes, the agent and the failover monitor, and unclassified packets *)
(* take a detour through the classifier's queue.                           *)
(*                                                                         *)
(* Simplifications: one connection and at most one of its packets at a     *)
(* time; a namespace handles a packet in one step, two if it is queued;    *)
(* the gateways are configured before the first packet and never again.    *)
(***************************************************************************)
EXTENDS Marks, Sequences

CONSTANTS
  Sites,           \* spokes
  Transports,
  Slot,            \* transport -> its route slot, a set of bits
  Index,           \* transport -> its place in the configuration, from 1
  Uplinks,         \* the Internet-capable transports
  Mpls,            \* the transport that a hub's main table names
  ActiveGateways,  \* sequence of the cloud gateways
  PreferredHub,    \* site -> hub
  Flows,           \* connections to consider: source, destination, RTP or not
  MaxChanges,      \* bound for each flow: installations, restarts, failed
                   \* links and steering decisions
  MaxPackets       \* bound: packets that the two ends send

Gateways == {ActiveGateways[k] : k \in DOMAIN ActiveGateways}
Routers == Sites \cup Hubs
Nodes == Routers \cup Gateways
T == Cardinality(Transports)

(* One end at least is at a site; a policy for direct Internet access is   *)
(* refused if no transport has an uplink (destination_models.py:173).      *)
ASSUME FlowsValid ==
  /\ Flows \subseteq [src : Sites \cup {"dc", "cloud"}, dst : Sites \cup {"dc", "cloud", "saas"}, rtp : BOOLEAN]
  /\ \A f \in Flows : /\ f.src # f.dst /\ {f.src, f.dst} \cap Sites # {}
                      /\ f.dst = "saas" => Uplinks # {}

(* What marks.py checks of the slots in the configuration. *)
ASSUME MarksValid == Validate(Slot) /\ DOMAIN Slot = Transports

(* The transports stand in the configuration in some order. *)
ASSUME PlacesValid ==
  /\ IsFiniteSet(Transports) /\ Mpls \in Transports /\ Uplinks \subseteq Transports
  /\ Index \in [Transports -> 1..T]
  /\ \A t, u \in Transports : Index[t] = Index[u] => t = u

(* A name has one role, and every site a preferred hub. *)
ASSUME NamesValid ==
  /\ Sites \cap Hubs = {} /\ Routers \cap Gateways = {}
  /\ Nodes \cap {"dc", "cloud", "saas", "none"} = {}
  /\ PreferredHub \in [Sites -> Hubs] /\ ActiveGateways \in Seq(Gateways)

VARIABLES
  conn,      \* the connection: [src, dst, rtp]
  ct,        \* node -> its conntrack entry: direction that created it, reply
             \* seen, source NAT bound, mark
  built,     \* router -> commands of the running installation that are done
  fresh,     \* routers that have lost their kernel state and are not done yet
  marking,   \* site -> rules of SDWAN_V5_MARK
  todo,      \* site -> process -> commands that it has still to run
  record,    \* site -> the classifier: running, path of the flow's record
  pkt,       \* the packet under way: node, direction, interface, mark, whether
             \* it is in the classifier's queue or addressed to a NAT address
  seen,      \* source address under which the responder knows the initiator
  links,     \* pairs of hub and gateway whose link is up
  used,      \* history: node -> interfaces the initiator's packets crossed
  clean,     \* history: the connection only met namespaces at rest
  count      \* changes and packets so far

affinityVars == <<conn, ct, built, fresh, marking, todo, record, pkt, seen, links,
                  used, clean, count>>

tables == <<built, fresh, marking, todo>>

-----------------------------------------------------------------------------
(* Interfaces are pairs.  The path interfaces of a namespace: <<hub,       *)
(* transport>> is wg-h<hub>-<transport> on a site, <<"spokes", transport>> *)
(* a hub's wg-spokes-<transport>, <<"transit", hub>> a gateway's link to a *)
(* hub.                                                                    *)
PathsOf(n) ==
  IF n \in Sites THEN Hubs \X Transports
  ELSE IF n \in Hubs THEN {"spokes"} \X Transports ELSE {"transit"} \X Hubs

Lan == <<"lan", "lan">>
Dc == <<"dc", "dc">>
Vpc == <<"vpc", "vpc">>
Uplink(t) == <<"inet", t>>

(* The mark that stands for a path interface. *)
Affinity(n, i) ==
  IF n \in Sites THEN Slot[i[2]] \cup HubBit(i[1])
  ELSE IF n \in Hubs THEN Slot[i[2]] \cup HubBit(n)
  ELSE HubBit(i[2]) \cup cloud_gateway_bit

stamp_mask == affinity_mask \cup terminal_bit
Stamp(n, i) == Affinity(n, i) \cup terminal_bit

(* Number of path interfaces, and the place of one in the order in which   *)
(* its rules are appended.                                                 *)
K(n) == IF n \in Sites THEN 2 * T ELSE IF n \in Hubs THEN T ELSE 2

Pos(n, i) ==
  IF n \in Sites THEN (IF i[1] = "hub1" THEN 0 ELSE T) + Index[i[2]]
  ELSE IF n \in Hubs THEN Index[i[2]]
  ELSE IF i[2] = "hub1" THEN 1 ELSE 2

(* The rules that a router replaces first: on a site one per transport,    *)
(* then one per path; on a hub one per path.                               *)
RuleCount(n) == IF n \in Sites THEN T + K(n) ELSE K(n)
GenericPos(t) == Index[t]
SpecificPos(n, i) == IF n \in Sites THEN T + Pos(n, i) ELSE Pos(n, i)

(* The installation of a router as a list of commands: "rule del" and      *)
(* "rule add" for each rule, a flush of each affinity chain, the rules of  *)
(* the one and then of the other; on a hub flush and rule of the NAT chain.*)
Flushes(n) == 2 * RuleCount(n) + 2
InDone(n) == Flushes(n) + K(n) + 2
OutDone(n) == InDone(n) + 2 * K(n)
Last(n) == OutDone(n) + (IF n \in Hubs THEN 2 ELSE 0)

(* A rule is gone between its deletion and its addition; in a namespace    *)
(* without kernel state it is not there before it is added.                *)
RulePresent(n, k) ==
  IF n \in fresh THEN built[n] >= 2 * k ELSE built[n] # 2 * k - 1

Clip(x, high) == IF x < 0 THEN 0 ELSE IF x > high THEN high ELSE x

(* Rules in the chains: SDWAN_V5_RPA_IN holds restore, a stamp for each    *)
(* path, save; SDWAN_V5_RPA_OUT a stamp and a save for each path.          *)
InLen(n) ==
  IF n \in Gateways THEN K(n) + 2
  ELSE IF built[n] < Flushes(n) - 1 THEN (IF n \in fresh THEN 0 ELSE K(n) + 2)
  ELSE Clip(built[n] - Flushes(n), K(n) + 2)

OutLen(n) ==
  IF n \in Gateways THEN 2 * K(n)
  ELSE IF built[n] < Flushes(n) THEN (IF n \in fresh THEN 0 ELSE 2 * K(n))
  ELSE Clip(built[n] - InDone(n), 2 * K(n))

(* The source NAT of hubs and gateways; a hub's is flushed and set again.  *)
Natting(n) ==
  \/ n \in Gateways
  \/ n \in Hubs /\ n \notin fresh /\ built[n] # Last(n) - 1

-----------------------------------------------------------------------------
(* conntrack and the chains that every namespace has. *)

NoEntry == [orig |-> "none", est |-> FALSE, nat |-> "open", mark |-> {}]

(* The kernel finds or creates the entry; ctstate is NEW until a packet in *)
(* the other direction has been seen.                                      *)
Track(c, dir) ==
  IF c.orig = "none" THEN [c EXCEPT !.orig = dir]
  ELSE [c EXCEPT !.est = @ \/ dir # c.orig]

Saved(old, mark) == (old \ connection_mask) \cup (mark \cap connection_mask)
Restored(mark, saved) == (mark \ connection_mask) \cup (saved \cap connection_mask)

(* Faulty: the ingress rules match every path interface, so the first one  *)
(* stamps them all.                                                        *)
FaultyMarkIn(n, i, c) ==
  LET restored == IF InLen(n) >= 1 THEN Restored({}, c.mark) ELSE {}
  IN  IF i \in PathsOf(n) /\ InLen(n) >= 2 /\ ~c.est /\ restored \cap affinity_mask = {}
      THEN Stamp(n, CHOOSE j \in PathsOf(n) : Pos(n, j) = 1)
      ELSE restored

(* Faulty: the ingress rules stamp a connection that has a pin already. *)
FaultyMarkInAgain(n, i, c) ==
  LET restored == IF InLen(n) >= 1 THEN Restored({}, c.mark) ELSE {}
  IN  IF i \in PathsOf(n) /\ InLen(n) >= 1 + Pos(n, i) /\ ~c.est
      THEN (restored \ stamp_mask) \cup Stamp(n, i)
      ELSE restored

(* SDWAN_V5_RPA_IN on a packet that arrives, without a mark, on interface  *)
(* i: its mark afterwards.                                                 *)
MarkIn(n, i, c) ==
  LET restored == IF InLen(n) >= 1 THEN Restored({}, c.mark) ELSE {}
  IN  IF /\ i \in PathsOf(n) /\ InLen(n) >= 1 + Pos(n, i)
         /\ ~c.est /\ restored \cap affinity_mask = {}
      THEN (restored \ stamp_mask) \cup Stamp(n, i)
      ELSE restored

EntryIn(n, i, c) ==
  IF InLen(n) = K(n) + 2 THEN [c EXCEPT !.mark = Saved(@, MarkIn(n, i, c))] ELSE c

(* SDWAN_V5_RPA_OUT on a packet with mark m that leaves by interface o:    *)
(* the conntrack entry afterwards.                                         *)
EntryOut(n, o, m, c) ==
  LET stamped == IF /\ o \in PathsOf(n) /\ OutLen(n) >= 2 * Pos(n, o) - 1
                    /\ ~c.est /\ m \cap affinity_mask = {}
                 THEN (m \ stamp_mask) \cup Stamp(n, o) ELSE m
  IN  IF /\ o \in PathsOf(n) /\ OutLen(n) >= 2 * Pos(n, o)
         /\ ~c.est /\ stamped \cap stamp_mask = Stamp(n, o)
      THEN [c EXCEPT !.mark = Saved(@, stamped)]
      ELSE c

(* NAT is decided when the first packet of a connection leaves. *)
Bind(c, match) == IF c.nat = "open" THEN [c EXCEPT !.nat = IF match THEN "bound" ELSE "none"] ELSE c

-----------------------------------------------------------------------------
(* The marking chain of a site. *)

Rule(do, mark) == [do |-> do, mark |-> mark]
Processes == {"agent", "monitor"}

(* The marks that steering can give the connection on its site: of a hub   *)
(* path, or of direct Internet access for the public service.              *)
Choices ==
  IF conn.dst = "saas"
  THEN {encode(Slot[t], "UNKNOWN", FALSE, "NONE", "DIRECT_INTERNET") : t \in Uplinks}
  ELSE {encode(Slot[t], "UNKNOWN", FALSE, h, "HUB_OVERLAY") : h \in Hubs, t \in Transports}

(* What the agent plans for the destination and for all others. *)
FirstOf(S) == CHOOSE t \in S : \A u \in S : Index[t] <= Index[u]
DefaultMark(s) ==
  encode(Slot[FirstOf(Transports)], "UNKNOWN", FALSE, PreferredHub[s], "HUB_OVERLAY")
PlannedMark(s) ==
  IF conn.dst = "saas"
  THEN encode(Slot[FirstOf(Uplinks)], "UNKNOWN", FALSE, "NONE", "DIRECT_INTERNET")
  ELSE DefaultMark(s)

(* install_connmark_rules: marks is the class rule's mark, or nothing when *)
(* the class is blocked.                                                   *)
MarkRules(s, marks) ==
  <<Rule("restore", {})>> \o marks
  \o <<Rule("mark", PlannedMark(s)), Rule("mark", DefaultMark(s)),
       Rule("queue", {}), Rule("save", {})>>

ClassRules == {<<>>} \cup {<<Rule("mark", m)>> : m \in Choices}

(* What a rule does to a packet's and the connection's mark.  A queued     *)
(* packet leaves the chain: after the verdict it goes on behind the table  *)
(* (external: netfilter).                                                  *)
ApplyRule(rule, x) ==
  CASE x.queued -> x
    [] ~x.queued /\ rule.do = "restore" -> [x EXCEPT !.mark = Restored(@, x.saved)]
    [] ~x.queued /\ rule.do = "mark" ->
         IF x.mark \cap connection_mask = {}
         THEN [x EXCEPT !.mark = (@ \ affinity_mask) \cup rule.mark] ELSE x
    [] ~x.queued /\ rule.do = "queue" -> [x EXCEPT !.queued = stage(x.mark) # "TERMINAL"]
    [] ~x.queued /\ rule.do = "save" -> [x EXCEPT !.saved = Saved(@, x.mark)]

(* The chain on a packet with mark m. *)
RunChain(s, m, saved) ==
  LET after[k \in 0..Len(marking[s])] ==
        IF k = 0 THEN [mark |-> m, saved |-> saved, queued |-> FALSE]
        ELSE ApplyRule(marking[s][k], after[k - 1])
  IN  after[Len(marking[s])]

-----------------------------------------------------------------------------
(* Where packets go. *)

NoPacket == [at |-> "none", dir |-> "none", iif |-> <<"none", "none">>,
             mark |-> {}, queued |-> FALSE, natted |-> FALSE]
Arrive(n, i, dir, natted) ==
  [at |-> n, dir |-> dir, iif |-> i, mark |-> {}, queued |-> FALSE, natted |-> natted]

(* The sites that the connection touches: nothing on another one is seen   *)
(* by it.                                                                  *)
Ends == {conn.src, conn.dst} \cap Sites
Branch == IF conn.src \in Sites THEN conn.src ELSE conn.dst
Target(dir) == IF dir = "fwd" THEN conn.dst ELSE conn.src

(* Addresses under which an end knows the other. *)
Unknown == <<"none", "none">>
Own == <<"own", "own">>

(* Cloud gateways in a hub's order of preference; the usable one is the    *)
(* first whose link is up.                                                 *)
GatewayRank(h, g) ==
  LET k == CHOOSE j \in DOMAIN ActiveGateways : ActiveGateways[j] = g
      n == Len(ActiveGateways)
  IN  IF h = "hub1" THEN k ELSE (k % n) + 1
UsableGateways(h) ==
  {g \in Gateways : /\ <<h, g>> \in links
                    /\ \A f \in Gateways : <<h, f>> \in links => GatewayRank(h, g) <= GatewayRank(h, f)}

(* Where a packet enters that end e sends to address a of the other end:   *)
(* the host's gateway, dc_app's route to a branch, cloud_app's, or the     *)
(* owner of the NAT address.                                               *)
EntryPoint(e, dir, a) ==
  CASE e \in Sites -> {Arrive(e, Lan, dir, FALSE)}
    [] e = "dc" -> {Arrive(IF a[1] = "hub" THEN a[2] ELSE PreferredHub[Branch], Dc, dir, a[1] = "hub")}
    [] e = "cloud" -> {Arrive(g, Vpc, dir, a[1] = "gateway") :
                         g \in IF a[1] = "gateway" THEN {a[2]}
                               ELSE {f \in Gateways : GatewayRank(PreferredHub[Branch], f) = 1}}
    [] e = "saas" -> IF a[1] = "inet" THEN {Arrive(Branch, a, dir, TRUE)} ELSE {}

(* Policy routing on a site: a mark with a hub names a path's own table,   *)
(* which holds the private prefixes; the rule of the slot names the slot's *)
(* table, whose private prefixes are at either hub, and which holds the    *)
(* public service's prefix if the transport is Internet-capable; without a *)
(* mark there is no route.                                                 *)
SiteRoutes(s, m, e) ==
  LET specific == {i \in PathsOf(s) : /\ RulePresent(s, SpecificPos(s, i))
                                    /\ m \cap (route_mask \cup target_hub_mask) = Affinity(s, i)}
      generic == {t \in Transports : RulePresent(s, GenericPos(t)) /\ transport(m) = Slot[t]}
  IN  IF e = "saas" THEN {Uplink(t) : t \in generic \cap Uplinks}
      ELSE IF specific # {} THEN specific
      ELSE Hubs \X generic

(* Faulty: install_hub_backhaul sets no policy rules, the hub's main table *)
(* decides.                                                                *)
FaultyHubRoute(h, m) == {<<"spokes", Mpls>>}

(* On a hub, towards a site: the table of the pinned path, or the main one.*)
HubRoute(h, m) ==
  LET pinned == {i \in PathsOf(h) : /\ RulePresent(h, SpecificPos(h, i))
                                  /\ m \cap (route_mask \cup target_hub_mask) = Affinity(h, i)}
  IN  IF pinned # {} THEN pinned ELSE {<<"spokes", Mpls>>}

(* On a gateway, towards a site: tables 3101 and 3102, or the main one     *)
(* with the preferred hub first; a route goes down with its link.          *)
GatewayRoute(g, m) ==
  LET live == {i \in PathsOf(g) : <<i[2], g>> \in links}
      pinned == {i \in live : m \cap (target_hub_mask \cup egress_mask) = Affinity(g, i)}
      preferred == {i \in live : i[2] = PreferredHub[Branch]}
  IN  IF pinned # {} THEN pinned ELSE IF preferred # {} THEN preferred ELSE live

-----------------------------------------------------------------------------
Up(n) == n \in Routers => ~(n \in fresh /\ built[n] = 0)

(* No installation is under way and the marking chain is one that          *)
(* install_connmark_rules writes.                                          *)
Settled(n) ==
  /\ n \in Routers => n \notin fresh /\ built[n] = Last(n)
  /\ n \in Sites => /\ \A p \in Processes : todo[n][p] = <<>>
                    /\ \E marks \in ClassRules : marking[n] = MarkRules(n, marks)

(* What a packet's passage leaves behind: the entry, and the history. *)
Passage(n, dir, interfaces, c) ==
  /\ ct' = [ct EXCEPT ![n] = c]
  /\ used' = IF dir = "fwd" THEN [used EXCEPT ![n] = @ \cup interfaces] ELSE used
  /\ clean' = (clean /\ Settled(n))

(* A packet reaches an end under source address a. *)
Deliver(dir, a) ==
  /\ pkt' = NoPacket
  /\ seen' = IF dir = "fwd" THEN a ELSE seen

(* An end sends a packet: the initiator, or the responder to the address   *)
(* under which it saw the initiator.                                       *)
Send ==
  /\ pkt = NoPacket
  /\ count.packets < MaxPackets
  /\ \/ pkt' \in EntryPoint(conn.src, "fwd", Own)
     \/ seen # Unknown /\ pkt' \in EntryPoint(conn.dst, "rev", seen)
  /\ count' = [count EXCEPT !.packets = @ + 1]
  /\ UNCHANGED <<conn, ct, tables, record, seen, links, used, clean>>

(* The packet is lost, or refused where nothing routes it. *)
Lose ==
  /\ pkt # NoPacket
  /\ pkt' = NoPacket
  /\ UNCHANGED <<conn, ct, tables, record, seen, links, used, clean, count>>

(* A packet with mark m leaves site s towards the overlay or the Internet, *)
(* where only a direct-Internet mark is masqueraded.                       *)
Leave(s, m, c) ==
  \E o \in SiteRoutes(s, m, Target(pkt.dir)) :
    LET direct == o[1] = "inet"
        left == EntryOut(s, o, m, Bind(c, direct /\ egress_mode(m) = "DIRECT_INTERNET"))
    IN  /\ Passage(s, pkt.dir, {pkt.iif, o}, left)
        /\ IF direct THEN Deliver(pkt.dir, IF left.nat = "bound" THEN o ELSE Own)
           ELSE /\ pkt' = Arrive(o[1], <<"spokes", o[2]>>, pkt.dir, FALSE)
                /\ UNCHANGED seen

(* A packet from the LAN passes SDWAN_V5_RPA_IN and SDWAN_V5_MARK; it is   *)
(* queued, or bypasses the queue when no classifier listens.               *)
FromLan(s) ==
  /\ pkt.at = s /\ pkt.iif = Lan /\ ~pkt.queued
  /\ LET c == Track(ct[s], pkt.dir)
         entry == EntryIn(s, Lan, c)
         marked == RunChain(s, MarkIn(s, Lan, c), entry.mark)
         after == [entry EXCEPT !.mark = marked.saved]
     IN  IF marked.queued /\ record[s].up
         THEN /\ pkt' = [pkt EXCEPT !.queued = TRUE, !.mark = marked.mark]
              /\ Passage(s, pkt.dir, {Lan}, after)
              /\ UNCHANGED seen
         ELSE Leave(s, marked.mark, after)
  /\ UNCHANGED <<conn, tables, record, links, count>>

(* The classifier's verdict: the path of its record replaces the packet's, *)
(* the hub and egress bits stay; it keeps no record when it is overloaded  *)
(* or the packet cannot be parsed.                                         *)
Verdict(s) ==
  /\ pkt.at = s /\ pkt.queued /\ record[s].up
  /\ \E kept, terminal \in BOOLEAN :
       LET path == IF transport(pkt.mark) = {} THEN {0} ELSE transport(pkt.mark)
           active == IF kept /\ record[s].path # {} THEN record[s].path ELSE path
           other == pkt.mark \ (route_mask \cup terminal_bit \cup provisional_bit)
       IN  /\ terminal => kept
           /\ record' = IF kept THEN [record EXCEPT ![s].path = active] ELSE record
           /\ Leave(s, other \cup active \cup (IF terminal THEN terminal_bit ELSE provisional_bit), ct[s])
  /\ UNCHANGED <<conn, tables, links, count>>

(* A packet arrives at a site from a hub or from the Internet. *)
ToLan(s) ==
  /\ pkt.at = s /\ pkt.iif # Lan /\ Up(s)
  /\ LET c == Track(ct[s], pkt.dir)
     IN  /\ pkt.natted => c.nat = "bound"
         /\ Passage(s, pkt.dir, {pkt.iif}, Bind(EntryIn(s, pkt.iif, c), FALSE))
         /\ Deliver(pkt.dir, Own)
  /\ UNCHANGED <<conn, tables, record, links, count>>

(* A hub forwards a packet to the Data Center, to a cloud gateway or to a  *)
(* site.  A packet to a NAT address without its entry goes nowhere.        *)
AtHub(h) ==
  /\ pkt.at = h /\ Up(h)
  /\ LET c == Track(ct[h], pkt.dir)
         m == MarkIn(h, pkt.iif, c)
         entry == EntryIn(h, pkt.iif, c)
         e == Target(pkt.dir)
     IN  /\ pkt.natted => c.nat = "bound"
         /\ \/ /\ e = "dc"
               /\ LET bound == Bind(entry, Natting(h))
                  IN  /\ Passage(h, pkt.dir, {pkt.iif}, bound)
                      /\ Deliver(pkt.dir, IF bound.nat = "bound" THEN <<"hub", h>> ELSE Own)
            \/ /\ e = "cloud"
               /\ \E g \in UsableGateways(h) : pkt' = Arrive(g, <<"transit", h>>, pkt.dir, FALSE)
               /\ Passage(h, pkt.dir, {pkt.iif}, Bind(entry, FALSE))
               /\ UNCHANGED seen
            \/ /\ e \in Sites
               /\ \E o \in HubRoute(h, m) :
                    /\ pkt' = Arrive(e, <<h, o[2]>>, pkt.dir, FALSE)
                    /\ Passage(h, pkt.dir, {pkt.iif, o}, EntryOut(h, o, m, Bind(entry, FALSE)))
               /\ UNCHANGED seen
  /\ UNCHANGED <<conn, tables, record, links, count>>

(* A gateway forwards a packet to the cloud application or to a hub. *)
AtGateway(g) ==
  /\ pkt.at = g
  /\ LET c == Track(ct[g], pkt.dir)
         m == MarkIn(g, pkt.iif, c)
         entry == EntryIn(g, pkt.iif, c)
     IN  /\ pkt.natted => c.nat = "bound"
         /\ \/ /\ Target(pkt.dir) = "cloud"
               /\ LET bound == Bind(entry, Natting(g))
                  IN  /\ Passage(g, pkt.dir, {pkt.iif}, bound)
                      /\ Deliver(pkt.dir, IF bound.nat = "bound" THEN <<"gateway", g>> ELSE Own)
            \/ /\ Target(pkt.dir) \in Sites
               /\ \E o \in GatewayRoute(g, m) :
                    /\ pkt' = Arrive(o[2], <<"transit", g>>, pkt.dir, FALSE)
                    /\ Passage(g, pkt.dir, {pkt.iif, o}, EntryOut(g, o, m, Bind(entry, FALSE)))
               /\ UNCHANGED seen
  /\ UNCHANGED <<conn, tables, record, links, count>>

-----------------------------------------------------------------------------
(* Installation, steering and failures. *)

(* The agent's last commands on a site: it replaces the classifier, whose  *)
(* records are lost, and writes the marking chain.                         *)
AgentCommands(s) ==
  <<Rule("kill", {}), Rule("start", {}), Rule("flush", {})>>
  \o MarkRules(s, <<Rule("mark", PlannedMark(s))>>)

(* The next command of the agent: install_spoke_dataplane on a site,       *)
(* install_hub_backhaul on a hub.                                          *)
Command(n) ==
  /\ built[n] < Last(n)
  /\ built' = [built EXCEPT ![n] = @ + 1]
  /\ fresh' = IF built'[n] = Last(n) THEN fresh \ {n} ELSE fresh
  /\ todo' = IF built'[n] = Last(n) /\ n \in Sites
             THEN [todo EXCEPT ![n]["agent"] = AgentCommands(n)] ELSE todo
  /\ UNCHANGED <<conn, ct, marking, record, pkt, seen, links, used, clean, count>>

(* A reconciliation starts on a router that has been set up before. *)
Reconcile(n) ==
  /\ built[n] = Last(n) /\ count.changes < MaxChanges[conn]
  /\ n \in Sites => todo[n]["agent"] = <<>>
  /\ built' = [built EXCEPT ![n] = 0]
  /\ count' = [count EXCEPT !.changes = @ + 1]
  /\ UNCHANGED <<conn, ct, fresh, marking, todo, record, pkt, seen, links, used, clean>>

(* The next command on the marking chain, of either process. *)
ChainCommand(s, p) ==
  /\ todo[s][p] # <<>>
  /\ LET command == Head(todo[s][p])
     IN  /\ marking' = [marking EXCEPT ![s] = CASE command.do = "flush" -> <<>>
                                            [] command.do \in {"kill", "start"} -> @
                                            [] OTHER -> Append(@, command)]
         /\ record' = [record EXCEPT ![s] = CASE command.do = "kill" -> [up |-> FALSE, path |-> {}]
                                              [] command.do = "start" -> [up |-> TRUE, path |-> {}]
                                              [] OTHER -> @]
         /\ pkt' = IF command.do = "kill" /\ pkt.at = s /\ pkt.queued THEN NoPacket ELSE pkt
  /\ todo' = [todo EXCEPT ![s][p] = Tail(@)]
  /\ UNCHANGED <<conn, ct, built, fresh, seen, links, used, clean, count>>

(* The monitor steers the connection's class: it moves the conntrack entry *)
(* of an RTP flow, and writes the marking chain anew.                      *)
Steer(s) ==
  /\ s \in Ends \ fresh /\ todo[s]["monitor"] = <<>> /\ count.changes < MaxChanges[conn]
  /\ \E marks \in ClassRules :
       /\ marking[s] # MarkRules(s, marks)
       /\ todo' = [todo EXCEPT ![s]["monitor"] = <<Rule("flush", {})>> \o MarkRules(s, marks)]
       /\ ct' = IF conn.rtp /\ s = conn.src /\ ct[s].orig # "none" /\ marks # <<>>
                THEN [ct EXCEPT ![s].mark = (@ \ affinity_mask) \cup marks[1].mark] ELSE ct
  /\ count' = [count EXCEPT !.changes = @ + 1]
  /\ UNCHANGED <<conn, built, fresh, marking, record, pkt, seen, links, used, clean>>

(* The classifier's record of the flow expires or is evicted. *)
RecordEnds(s) ==
  /\ record[s].path # {}
  /\ record' = [record EXCEPT ![s].path = {}]
  /\ UNCHANGED <<conn, ct, tables, pkt, seen, links, used, clean, count>>

(* A container restarts: all kernel state and all processes are gone. *)
Restart(n) ==
  /\ count.changes < MaxChanges[conn]
  /\ ct' = [ct EXCEPT ![n] = NoEntry]
  /\ built' = [built EXCEPT ![n] = 0]
  /\ fresh' = fresh \cup {n}
  /\ marking' = [s \in Sites |-> IF s = n THEN <<>> ELSE marking[s]]
  /\ todo' = [s \in Sites |-> IF s = n THEN [p \in Processes |-> <<>>] ELSE todo[s]]
  /\ record' = [s \in Sites |-> IF s = n THEN [up |-> FALSE, path |-> {}] ELSE record[s]]
  /\ pkt' = IF pkt.at = n THEN NoPacket ELSE pkt
  /\ clean' = (clean /\ ct[n].orig = "none")
  /\ count' = [count EXCEPT !.changes = @ + 1]
  /\ UNCHANGED <<conn, seen, links, used>>

(* The link between a hub and a gateway goes down: the connection loses    *)
(* its path if it uses that gateway, and a hub's choice of a gateway for   *)
(* replies to the cloud application is not pinned at all.                  *)
LinkDown(h, g) ==
  /\ "cloud" \in {conn.src, conn.dst} /\ <<h, g>> \in links
  /\ count.changes < MaxChanges[conn]
  /\ count' = [count EXCEPT !.changes = @ + 1]
  /\ links' = links \ {<<h, g>>}
  /\ clean' = (clean /\ ct[g].orig = "none" /\ conn.src # "cloud")
  /\ pkt' = IF <<pkt.at, pkt.iif>> \in {<<g, <<"transit", h>>>>, <<h, <<"transit", g>>>>}
            THEN NoPacket ELSE pkt
  /\ UNCHANGED <<conn, ct, tables, record, seen, used>>

AffinityInit ==
  /\ conn \in Flows
  /\ ct = [n \in Nodes |-> NoEntry]
  /\ built = [n \in Routers |-> Last(n)]
  /\ fresh = {}
  /\ marking = [s \in Sites |-> MarkRules(s, <<Rule("mark", PlannedMark(s))>>)]
  /\ todo = [s \in Sites |-> [p \in Processes |-> <<>>]]
  /\ record = [s \in Sites |-> [up |-> TRUE, path |-> {}]]
  /\ pkt = NoPacket
  /\ seen = Unknown
  /\ links = Hubs \X Gateways
  /\ used = [n \in Nodes |-> {}]
  /\ clean = TRUE
  /\ count = [changes |-> 0, packets |-> 0]

AffinityNext ==
  \/ Send \/ Lose
  \/ \E s \in Sites : \/ FromLan(s) \/ Verdict(s) \/ ToLan(s)
                      \/ Steer(s) \/ RecordEnds(s)
                      \/ \E p \in Processes : ChainCommand(s, p)
  \/ \E h \in Hubs : AtHub(h)
  \/ \E g \in Gateways : AtGateway(g)
  \/ \E n \in Ends \cup Hubs : Command(n) \/ Reconcile(n) \/ Restart(n)
  \/ \E h \in Hubs, g \in Gateways : LinkDown(h, g)

AffinitySpec == AffinityInit /\ [][AffinityNext]_affinityVars

-----------------------------------------------------------------------------
Directions == {"fwd", "rev"}
Entries == [orig : Directions \cup {"none"}, est : BOOLEAN,
            nat : {"open", "bound", "none"}, mark : SUBSET Bits]

ChainRules == [do : {"restore", "mark", "queue", "save"}, mark : SUBSET Bits]
Commands == ChainRules \cup [do : {"kill", "start", "flush"}, mark : {{}}]
Interfaces ==
  (Hubs \X Transports) \cup ({"spokes", "inet"} \X Transports)
    \cup ({"transit"} \X (Hubs \cup Gateways)) \cup {Lan, Dc, Vpc}
Packets ==
  [at : Nodes, dir : Directions, iif : Interfaces, mark : SUBSET Bits, queued : BOOLEAN, natted : BOOLEAN]
Addresses ==
  {Unknown, Own} \cup ({"hub"} \X Hubs) \cup ({"gateway"} \X Gateways) \cup ({"inet"} \X Transports)

AffinityTypeOK ==
  /\ conn \in Flows
  /\ ct \in [Nodes -> Entries]
  /\ built \in [Routers -> Nat] /\ \A n \in Routers : built[n] <= Last(n)
  /\ fresh \subseteq Routers
  /\ marking \in [Sites -> Seq(ChainRules)]
  /\ todo \in [Sites -> [Processes -> Seq(Commands)]]
  /\ record \in [Sites -> [up : BOOLEAN, path : SUBSET route_mask]]
  /\ pkt \in Packets \cup {NoPacket}
  /\ seen \in Addresses
  /\ links \subseteq Hubs \X Gateways
  /\ used \in [Nodes -> SUBSET Interfaces]
  /\ clean \in BOOLEAN

Pinned(n) == ct[n].mark \cap affinity_mask # {}

(* _install_return_path_affinity pins a connection only to a path that the *)
(* connection has crossed, whichever rules of the two chains are installed *)
(* at that moment, and an unfinished installation never wipes a pin: on    *)
(* hubs and gateways, where nothing else writes the mark.                  *)
PinsAreCrossed ==
  \A n \in Hubs \cup Gateways : Pinned(n) =>
    /\ ct[n].orig # "none"
    /\ \E i \in PathsOf(n) : /\ ct[n].mark = Stamp(n, i)
                           /\ (ct[n].orig = "fwd" => i \in used[n])

(* While a namespace lives it never loses a pin, and it never changes one  *)
(* once a reply has been seen or while no installation is under way, for   *)
(* all that the site steers the connection elsewhere.  (Before the reply,  *)
(* and with SDWAN_V5_RPA_IN flushed, a packet passes unrestored and is     *)
(* pinned anew to the path by which it leaves.)                            *)
PinKept ==
  [][\A n \in Hubs \cup Gateways :
       Pinned(n) /\ ct'[n] # NoEntry =>
         /\ Pinned(n)'
         /\ ct[n].est \/ Settled(n) => ct'[n].mark = ct[n].mark]_affinityVars

(* Replies return on a path that the requests took: at every namespace,    *)
(* over steering, reconciliations and lost classifier records, as long as  *)
(* the connection met no namespace in the middle of an installation, after *)
(* a restart or with a failed gateway link.                                *)
RepliesReturn ==
  clean /\ pkt.dir = "rev" /\ (\/ pkt.iif \in PathsOf(pkt.at)
                               \/ pkt.iif[1] = "inet") => pkt.iif \in used[pkt.at]

(* A connection to the public service is masqueraded. *)
DirectIsMasqueraded == conn.dst = "saas" /\ clean => seen # Own

AffinityInv == AffinityTypeOK /\ PinsAreCrossed /\ DirectIsMasqueraded
=============================================================================
