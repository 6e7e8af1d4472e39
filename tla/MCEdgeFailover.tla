--------------------------- MODULE MCEdgeFailover ---------------------------
(* One slot that has three tunnels to choose from, over two hubs, so that  *)
(* failovers chain.                                                        *)
EXTENDS EdgeFailover

MCThreeInterfaces == {"h1_bb", "h2_bb", "h1_lte"}
MCTwoHubs == {"hub1", "hub2"}

MCHubOf == [i \in Interfaces |-> IF i = "h2_bb" THEN "hub2" ELSE "hub1"]
MCTransportOf == [i \in Interfaces |-> IF i = "h1_lte" THEN "lte" ELSE "bb"]
MCTransportIndex == [t \in Transports |-> IF t = "bb" THEN 1 ELSE 2]
=============================================================================
