--------------------------- MODULE FlowInspection ---------------------------
(***************************************************************************)
(* One NFQUEUE worker of the native classifier and its flow table          *)
(* (sdwan/classifier/nfqueue_worker.c, flow_table.c): which verdict and    *)
(* mark each packet gets, when the inspection of a flow ends, and which    *)
(* records are evicted or expire.                                          *)
(*                                                                         *)
(* A flow key stands for both directions of a five-tuple, "a" and "b".     *)
(* Times are kept as ages that saturate at the longest time they are       *)
(* compared with.  nDPI is external: its state for a flow only advances,   *)
(* and what it recognises is chosen freely.  Names, categories, confidence *)
(* and packet counters go into the events unread and are left out.         *)
(***************************************************************************)
EXTENDS Naturals, FiniteSets

CONSTANTS
  TcpKeys, UdpKeys,   \* flows whose packets are queued
  Paths,              \* path marks a packet may carry
  FallbackPath,
  FailOpen,           \* config->fail_open
  MaxFlows,           \* records per worker
  TcpBudget, UdpBudget,
  SeqSpace,           \* size of the TCP sequence space: 2^32 in the code
  InspectionTimeout,
  HandshakeTimeout, EstablishedTimeout, ClosingTimeout,
  UdpTimeout, DnsTimeout, MetadataTimeout,
  MaxLifetime,
  OverloadCircuit     \* how long the circuit stays open after ENOBUFS

Keys == TcpKeys \cup UdpKeys
IdleTimeouts == {HandshakeTimeout, EstablishedTimeout, ClosingTimeout,
                 UdpTimeout, DnsTimeout, MetadataTimeout}

ASSUME InspectionAssumption ==
  /\ IsFiniteSet(Keys) /\ TcpKeys \cap UdpKeys = {} /\ FailOpen \in BOOLEAN
  /\ FallbackPath \in Paths /\ 0 \notin Paths
  /\ {MaxFlows, TcpBudget, UdpBudget, SeqSpace, MaxLifetime} \subseteq Nat \ {0}
  /\ {InspectionTimeout, OverloadCircuit} \cup IdleTimeouts \subseteq 1 .. MaxLifetime

VARIABLES
  flows,     \* the records of the table, by key
  size,      \* table->size
  overload,  \* time until the overload circuit closes
  due,       \* a second has passed since the last expiry sweep
  pc,        \* "recv", or "sweep": after the receive of the same iteration
  verdict    \* the verdict just sent

vars == <<flows, size, overload, due, pc, verdict>>

NoFlow == [result |-> "NONE"]
Ages == 0 .. MaxLifetime
Sides == {"a", "b"}
Seqs == 0 .. SeqSpace - 1
EngineStates == <<"INSPECTING", "PARTIAL", "MONITORING", "CLASSIFIED">>
Apps == {"unknown", "dns", "other"}
TerminalResults == {"CLASSIFIED", "TERMINAL_UNKNOWN", "METADATA_MONITORING", "TERMINAL_PARTIAL"}

Flow == [result : {"INSPECTING", "PARTIAL"} \cup TerminalResults,
         age : Ages, idle : Ages, path : Paths, engine : 1 .. 4, app : Apps,
         unique : 0 .. (IF TcpBudget > UdpBudget THEN TcpBudget ELSE UdpBudget),
         high : [Sides -> Seqs], tcp : 0 .. 2,
         shown : SUBSET (Sides \X Seqs)]   \* history: ends of the segments seen
NoVerdict == [key |-> "none"]
Verdicts == [key : Keys, accept : BOOLEAN, stage : {"provisional", "terminal"},
             path : Paths, inspected : BOOLEAN]

TypeOK ==
  /\ flows \in [Keys -> Flow \cup {NoFlow}]
  /\ size \in 0 .. MaxFlows
  /\ overload \in Ages /\ due \in BOOLEAN /\ pc \in {"recv", "sweep"}
  /\ verdict \in Verdicts \cup {NoVerdict}

Init ==
  /\ flows = [k \in Keys |-> NoFlow] /\ size = 0
  /\ overload = 0 /\ due = FALSE /\ pc = "recv"
  /\ verdict = NoVerdict

Recorded == {k \in Keys : flows[k] # NoFlow}
Terminal(f) == f.result \in TerminalResults
Older(n) == IF n < MaxLifetime THEN n + 1 ELSE n
Younger(n) == IF n > 0 THEN n - 1 ELSE 0
-----------------------------------------------------------------------------
(* The flow table. *)

(* evict_oldest: ties are broken by the order of the buckets. *)
Oldest == {k \in Recorded : \A l \in Recorded : flows[l].idle <= flows[k].idle}

(* The records one of which makes room for a new one. *)
Victims == IF size >= MaxFlows THEN Oldest ELSE {}

NewFlow(path) ==
  [result |-> "INSPECTING", age |-> 0, idle |-> 0, path |-> path, engine |-> 1, app |-> "unknown",
   unique |-> 0, high |-> [s \in Sides |-> 0], tcp |-> 0, shown |-> {}]

(* timeout_ms *)
IdleTimeout(k, f) ==
  CASE f.result = "METADATA_MONITORING" -> MetadataTimeout
    [] f.result # "METADATA_MONITORING" /\ k \in UdpKeys ->
         IF f.app = "dns" THEN DnsTimeout ELSE UdpTimeout
    [] f.result # "METADATA_MONITORING" /\ k \in TcpKeys ->
         CASE f.tcp = 0 -> HandshakeTimeout
           [] f.tcp = 1 -> EstablishedTimeout
           [] f.tcp = 2 -> ClosingTimeout

(* Faulty: a flow that is still sending packets does not expire. *)
FaultyExpired(k, f) == f.idle >= IdleTimeout(k, f)

Expired(k, f) == f.idle >= IdleTimeout(k, f) \/ f.age >= MaxLifetime

-----------------------------------------------------------------------------
(* A packet from one side: flags as TCP has them, `len` bytes of payload   *)
(* from `seq`, and the path mark the edge's rules have given it.           *)
Packets ==
  [key : TcpKeys, side : Sides, mark : Paths \cup {0}, flags : {"syn", "synack", "ack", "fin"},
   seq : {0}, len : {0}]
  \cup [key : TcpKeys, side : Sides, mark : Paths \cup {0}, flags : {"ack"}, seq : Seqs, len : {1}]
  \cup [key : UdpKeys, side : Sides, mark : Paths \cup {0}, flags : {"none"}, seq : {0}, len : {0, 1}]

PacketPath(p) == IF p.mark = 0 THEN FallbackPath ELSE p.mark

TcpState(f, p) ==
  CASE p.key \notin TcpKeys -> f.tcp
    [] p.key \in TcpKeys /\ p.flags = "fin" -> 2
    [] p.key \in TcpKeys /\ p.flags = "synack" -> 1
    [] p.key \in TcpKeys /\ p.flags = "ack" -> IF f.tcp = 0 THEN 1 ELSE f.tcp
    [] p.key \in TcpKeys /\ p.flags = "syn" -> f.tcp

End(p) == (p.seq + p.len) % SeqSpace

(* Faulty: every packet with payload counts against the budget. *)
FaultyNewPayload(f, p) == p.len > 0

(* The end of a TCP segment must lie beyond every earlier one of its side, *)
(* compared as 32-bit numbers.                                             *)
NewPayload(f, p) == p.len > 0 /\ (p.key \in TcpKeys => End(p) > f.high[p.side])

Budget(k) == IF k \in TcpKeys THEN TcpBudget ELSE UdpBudget

(* The record after the packet was counted. *)
Counted(f, p) ==
  LET fresh == NewPayload(f, p)
  IN [f EXCEPT !.idle = 0, !.tcp = TcpState(f, p),
               !.high = IF fresh /\ p.key \in TcpKeys THEN [@ EXCEPT ![p.side] = End(p)] ELSE @,
               !.unique = IF fresh /\ @ < Budget(p.key) THEN @ + 1 ELSE @,
               !.shown = IF p.len > 0 THEN @ \cup {<<p.side, End(p)>>} ELSE @]

(* Inspection ends by nDPI's own decision, the budget or the time. *)
Decided(engine) == EngineStates[engine] \in {"MONITORING", "CLASSIFIED"}

Exhausted(k, f) == f.unique >= Budget(k) \/ f.age >= InspectionTimeout

TerminalResult(engine, app) ==
  CASE app = "unknown" -> "TERMINAL_UNKNOWN"
    [] app # "unknown" /\ EngineStates[engine] = "MONITORING" -> "METADATA_MONITORING"
    [] app # "unknown" /\ EngineStates[engine] = "CLASSIFIED" -> "CLASSIFIED"
    [] app # "unknown" /\ EngineStates[engine] \in {"INSPECTING", "PARTIAL"} -> "TERMINAL_PARTIAL"

OngoingResult(f, engine) == IF EngineStates[engine] = "PARTIAL" THEN "PARTIAL" ELSE f.result

(* process_packet from the counting on: `engine` and `app` are what nDPI   *)
(* last says of the flow, after giving up where it is asked to.            *)
Inspected(f, p, engine, app) ==
  LET c == Counted(f, p)
  IN [c EXCEPT !.engine = engine, !.app = app,
               !.result = IF Decided(engine) \/ Exhausted(p.key, c)
                          THEN TerminalResult(engine, app) ELSE OngoingResult(c, engine)]

Stage(p, engine, c) == IF Decided(engine) \/ Exhausted(p.key, c) THEN "terminal" ELSE "provisional"
-----------------------------------------------------------------------------
(* The worker's loop. *)

(* A packet that is not inspected: it keeps its path, provisionally. *)
Uninspected(p, accept) ==
  verdict' = [key |-> p.key, accept |-> accept, stage |-> "provisional",
              path |-> PacketPath(p), inspected |-> FALSE]

(* The overload circuit is open. *)
Bypass(p) ==
  /\ pc = "recv" /\ FailOpen /\ overload > 0
  /\ Uninspected(p, TRUE)
  /\ pc' = "sweep"
  /\ UNCHANGED <<flows, size, overload, due>>

Admitted == pc = "recv" /\ (FailOpen => overload = 0)

(* Truncated, empty, fragmented or malformed. *)
Unparsed(p) ==
  /\ Admitted
  /\ Uninspected(p, FailOpen)
  /\ pc' = "sweep"
  /\ UNCHANGED <<flows, size, overload, due>>

(* Faulty: the counter is not taken back when the allocation fails. *)
FaultyNoMemory(p) ==
  /\ Admitted /\ p.key \notin Recorded
  /\ \/ Victims = {} /\ UNCHANGED flows
     \/ \E v \in Victims : flows' = [flows EXCEPT ![v] = NoFlow]
  /\ Uninspected(p, FailOpen)
  /\ pc' = "sweep"
  /\ UNCHANGED <<size, overload, due>>

(* No memory for a new record; the victim is gone by then. *)
NoMemory(p) ==
  /\ Admitted /\ p.key \notin Recorded
  /\ \/ Victims = {} /\ UNCHANGED <<flows, size>>
     \/ \E v \in Victims : flows' = [flows EXCEPT ![v] = NoFlow] /\ size' = size - 1
  /\ Uninspected(p, FailOpen)
  /\ pc' = "sweep"
  /\ UNCHANGED <<overload, due>>

(* What nDPI may recognise; only over UDP does DNS differ from the rest. *)
AppsOver(k) == IF k \in UdpKeys THEN Apps ELSE Apps \ {"dns"}

(* Faulty: the verdict carries the packet's path and not the record's. *)
FaultyDeliver(t, f, p) ==
  \E engine \in f.engine .. 4, app \in AppsOver(p.key) :
    /\ EngineStates[engine] = "CLASSIFIED" => app # "unknown"
    /\ flows' = [t EXCEPT ![p.key] = Inspected(f, p, engine, app)]
    /\ verdict' = [key |-> p.key, accept |-> TRUE, stage |-> Stage(p, engine, Counted(f, p)),
                   path |-> PacketPath(p), inspected |-> TRUE]

(* Record f of the packet's flow is updated in the table t. *)
Deliver(t, f, p) ==
  \E engine \in f.engine .. 4, app \in AppsOver(p.key) :
    /\ EngineStates[engine] = "CLASSIFIED" => app # "unknown"
    /\ flows' = [t EXCEPT ![p.key] = Inspected(f, p, engine, app)]
    /\ verdict' = [key |-> p.key, accept |-> TRUE, stage |-> Stage(p, engine, Counted(f, p)),
                   path |-> f.path, inspected |-> TRUE]

(* A packet of a flow that is in the table. *)
Known(p) ==
  /\ Admitted /\ p.key \in Recorded
  /\ Deliver(flows, flows[p.key], p)
  /\ pc' = "sweep"
  /\ UNCHANGED <<size, overload, due>>

(* The first packet of a flow, or the first after its record was lost. *)
Created(p) ==
  /\ Admitted /\ p.key \notin Recorded
  /\ \/ /\ Victims = {}
        /\ Deliver(flows, NewFlow(PacketPath(p)), p)
        /\ size' = size + 1
     \/ \E v \in Victims :
          /\ Deliver([flows EXCEPT ![v] = NoFlow], NewFlow(PacketPath(p)), p)
          /\ UNCHANGED size
  /\ pc' = "sweep"
  /\ UNCHANGED <<overload, due>>

(* ENOBUFS: the socket's buffer has overflowed. *)
NoBufs ==
  /\ pc = "recv"
  /\ overload' = OverloadCircuit /\ pc' = "sweep"
  /\ UNCHANGED <<flows, size, due, verdict>>

(* The receive ends without a packet. *)
Timeout ==
  /\ pc = "recv" /\ pc' = "sweep"
  /\ UNCHANGED <<flows, size, overload, due, verdict>>

(* sdwan_flow_expire, at most once in a second. *)
Sweep ==
  /\ pc = "sweep" /\ due
  /\ LET gone == {k \in Recorded : Expired(k, flows[k])}
     IN /\ flows' = [k \in Keys |-> IF k \in gone THEN NoFlow ELSE flows[k]]
        /\ size' = size - Cardinality(gone)
  /\ due' = FALSE /\ pc' = "recv" /\ verdict' = NoVerdict
  /\ UNCHANGED overload

NotDue ==
  /\ pc = "sweep" /\ ~due
  /\ pc' = "recv" /\ verdict' = NoVerdict
  /\ UNCHANGED <<flows, size, overload, due>>

Tick ==
  /\ flows' = [k \in Keys |-> IF flows[k] = NoFlow THEN NoFlow
                              ELSE [flows[k] EXCEPT !.age = Older(@), !.idle = Older(@)]]
  /\ overload' = Younger(overload) /\ due' = TRUE
  /\ UNCHANGED <<size, pc, verdict>>

PacketStep(p) == Bypass(p) \/ Unparsed(p) \/ NoMemory(p) \/ Known(p) \/ Created(p)
Loop == Timeout \/ Sweep \/ NotDue
Next == (\E p \in Packets : PacketStep(p)) \/ NoBufs \/ Loop \/ Tick

(* Time passes, and an iteration that has received ends; the receive has a *)
(* timeout, so the loop goes on without packets.                           *)
Fairness == WF_vars(Tick) /\ WF_vars(Sweep) /\ WF_vars(NotDue) /\ WF_vars(Timeout)

Spec == Init /\ [][Next]_vars /\ Fairness
-----------------------------------------------------------------------------
(* The counter that decides on eviction agrees with the records linked in  *)
(* the buckets, over eviction, failed allocation and expiry.               *)
SizeMatches == size = Cardinality(Recorded)

(* The invariant of the flow table. *)
InspectionInv == TypeOK /\ SizeMatches

(* A flow whose inspection has ended is marked terminal, on the path it    *)
(* began on, for as long as its record lives and its packets are           *)
(* inspected, although process_packet decides anew on every packet.        *)
TerminalStays ==
  [][\A k \in Keys :
       k \in Recorded /\ Terminal(flows[k]) /\ verdict'.key = k /\ verdict'.inspected
         /\ verdict = NoVerdict /\ verdict' # NoVerdict
       => verdict'.stage = "terminal" /\ verdict'.path = flows[k].path /\ Terminal(flows'[k])]_vars

(* Retransmissions never use up the budget: what was counted is at most    *)
(* the number of distinct segments the record has been shown.              *)
RetransmissionsFree ==
  \A k \in TcpKeys \cap Recorded : flows[k].unique <= Cardinality(flows[k].shown)

(* No record outlives the longest lifetime for good, however many packets  *)
(* its flow sends: old records are swept.                                  *)
RecordsEnd ==
  \A k \in Keys : (k \in Recorded /\ flows[k].age = MaxLifetime) ~> (k \notin Recorded)
=============================================================================
