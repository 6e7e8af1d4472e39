----------------------------- MODULE MCUnderlay -----------------------------
(* The underlay of an internet transport with one site in the topology     *)
(* file, one that comes and goes, and one whose address clashes.           *)
EXTENDS Underlay

(* A programming is sent in three turns: the delete, the networks that the *)
(* ports may send from, and the ways to the destinations.                  *)
MCTurn(e) == IF e.kind = "from" THEN 1 ELSE 2

(* The site that comes and goes is there at the beginning. *)
MCFirstPorts == CHOOSE m \in PortMaps : DOMAIN m = Fixed \cup (Sites \ Clashing)
=============================================================================
