----------------------------- MODULE MCEdgeNode -----------------------------
(* A spoke with one slot and a tunnel to each hub. *)
EXTENDS EdgeNode

MCHubOf == [i \in Interfaces |-> IF i = "h1_bb" THEN "hub1" ELSE "hub2"]
MCTransportOf == [i \in Interfaces |-> "bb"]
MCTransportIndex == [t \in Transports |-> 1]
=============================================================================
