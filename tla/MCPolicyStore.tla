--------------------------- MODULE MCPolicyStore ----------------------------
(* Symmetry of the request threads, of contents and of keys, for runs that *)
(* check no liveness property.                                             *)
EXTENDS PolicyStore, TLC

Interchangeable == Permutations(Threads) \cup Permutations(Contents) \cup Permutations(Keys)
=============================================================================
