--------------------------- MODULE MCPathSelection --------------------------
(* Up to three candidate paths in the order of their names. *)
EXTENDS PathSelection

MCPathOrder == [p \in Paths |-> IF p = "bb" THEN 1 ELSE IF p = "lte" THEN 2 ELSE 3]
=============================================================================
