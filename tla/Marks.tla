-------------------------------- MODULE Marks -------------------------------
(***************************************************************************)
(* The layout of packet and connection marks: common/marks.py.  A mark is  *)
(* the set of its bits that are one, so that & is \cap, | is \cup and      *)
(* "& ~mask" is \.                                                         *)
(***************************************************************************)
EXTENDS Integers, FiniteSets

Bits == 0..15
route_mask == 0..7
terminal_bit == {8}
provisional_bit == {9}
emergency_bit == {10}
hub1_bit == {12}
hub2_bit == {13}
target_hub_mask == {12, 13}
direct_internet_bit == {14}
cloud_gateway_bit == {15}
egress_mask == {14, 15}

state_mask == terminal_bit \cup provisional_bit \cup emergency_bit
connection_mask == route_mask \cup state_mask \cup target_hub_mask \cup egress_mask
affinity_mask == route_mask \cup target_hub_mask \cup egress_mask

Hubs == {"hub1", "hub2"}
HubBit(hub) == IF hub = "hub1" THEN hub1_bit ELSE hub2_bit

(* validate: what a configuration has to satisfy before anything uses it. *)
Validate(pathMarks) ==
  /\ DOMAIN pathMarks # {}
  /\ \A t, u \in DOMAIN pathMarks : pathMarks[t] = pathMarks[u] => t = u
  /\ \A t \in DOMAIN pathMarks : pathMarks[t] # {} /\ pathMarks[t] \subseteq route_mask
  /\ LET bits == {terminal_bit, provisional_bit, emergency_bit, hub1_bit, hub2_bit,
                  direct_internet_bit, cloud_gateway_bit}
         fields == {route_mask, state_mask, target_hub_mask, egress_mask}
     IN  /\ \A bit \in bits : Cardinality(bit) = 1
         /\ Cardinality(bits) = 7
         /\ \A left, right \in fields : left # right => left \cap right = {}
         /\ Cardinality(fields) = 4
  /\ target_hub_mask = hub1_bit \cup hub2_bit
  /\ egress_mask = direct_internet_bit \cup cloud_gateway_bit

transport(mark) == mark \cap route_mask

stage(mark) ==
  IF terminal_bit \subseteq mark THEN "TERMINAL"
  ELSE IF provisional_bit \subseteq mark THEN "PROVISIONAL" ELSE "UNKNOWN"

(* "INVALID" stands for the ValueError. *)
target_hub(mark) ==
  LET value == mark \cap target_hub_mask
  IN  IF value = hub1_bit THEN "hub1"
      ELSE IF value = hub2_bit THEN "hub2"
      ELSE IF value = {} THEN "NONE" ELSE "INVALID"

egress_mode(mark) ==
  LET value == mark \cap egress_mask
  IN  IF value = {} THEN "HUB_OVERLAY"
      ELSE IF value = direct_internet_bit THEN "DIRECT_INTERNET"
      ELSE IF value = cloud_gateway_bit THEN "CLOUD_GATEWAY" ELSE "INVALID"

encode(slot, flowStage, emergency, hub, egress) ==
  slot \cup (IF flowStage = "TERMINAL" THEN terminal_bit
             ELSE IF flowStage = "PROVISIONAL" THEN provisional_bit ELSE {})
       \cup (IF emergency THEN emergency_bit ELSE {})
       \cup (IF hub = "NONE" THEN {} ELSE HubBit(hub))
       \cup (IF egress = "DIRECT_INTERNET" THEN direct_internet_bit
             ELSE IF egress = "CLOUD_GATEWAY" THEN cloud_gateway_bit ELSE {})
=============================================================================
