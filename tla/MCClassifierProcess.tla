------------------------ MODULE MCClassifierProcess -------------------------
(* Policy documents: two versions of one generation, one of another, and   *)
(* documents with one defect each.                                         *)
EXTENDS ClassifierProcess

Good ==
  [parsed |-> TRUE, schema |-> 4, site |-> Site, generation |-> "A", version |-> 1, catalog |-> 1,
   created |-> 1, expires |-> 2, lapsed |-> FALSE, failOpen |-> FailOpen,
   paths |-> [n \in {"p", "q"} |-> IF n = "p" THEN 1 ELSE 2],
   ranks |-> [k \in {"x", "y"} |-> IF k = "x" THEN <<"p", "q">> ELSE <<"q", "p">>],
   unknown |-> "x", apps |-> [a \in {"a"} |-> "y"], categories |-> [c \in {"c"} |-> "y"]]

Documents ==
  {Good, [Good EXCEPT !.version = 2, !.unknown = "y"], [Good EXCEPT !.generation = "B"],
   [Good EXCEPT !.site = "elsewhere", !.version = 3],
   [Good EXCEPT !.version = 3, !.ranks = [k \in {"x", "y"} |-> <<"r", "p">>]]}
=============================================================================
