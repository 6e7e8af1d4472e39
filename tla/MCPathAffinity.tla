--------------------------- MODULE MCPathAffinity ---------------------------
(* Two hubs, two transports, one gateway to each hub's liking, and one     *)
(* connection of each kind: to and from the Data Center and the cloud, to  *)
(* another branch, to the public service.                                  *)
EXTENDS PathAffinity

MCSlot == [t \in Transports |-> IF t = "mpls" THEN {0} ELSE {1}]
MCIndex == [t \in Transports |-> IF t = "mpls" THEN 1 ELSE 2]
MCGateways == <<"cloud_gw1", "cloud_gw2">>
MCPreferredHub == [s \in Sites |-> "hub1"]
Flow(src, dst, rtp) == [src |-> src, dst |-> dst, rtp |-> rtp]
MCFlows ==
  {Flow("site1", "dc", FALSE), Flow("dc", "site1", FALSE),
   Flow("site1", "site2", TRUE), Flow("site1", "cloud", FALSE),
   Flow("cloud", "site1", FALSE), Flow("site1", "saas", FALSE)}
MCMaxChanges == [f \in MCFlows |-> IF f.dst = "saas" THEN 2 ELSE 1]
=============================================================================
