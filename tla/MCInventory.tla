----------------------------- MODULE MCInventory ----------------------------
(***************************************************************************)
(* Two sites of the topology file and two more.  What b is allocated       *)
(* first, c could ask for; the third address id belongs to a gateway.      *)
(***************************************************************************)
EXTENDS Inventory

Rows1 ==
  [s \in Seeds |-> IF s = "a" THEN [life |-> "STAGED", address |-> 2, octet |-> 1, index |-> 2, device |-> "d1"]
                   ELSE [life |-> "STAGED", address |-> 5, octet |-> 3, index |-> 3, device |-> "d4"]]
Numbers1 == [s \in Sites |-> IF s = "c" THEN 2 ELSE IF s = "a" THEN 1 ELSE 0]
Process1 == [t \in Threads |-> IF t = "m1" THEN "management" ELSE "policy"]

(* The allocation of numbers; the publication of a site that is created,   *)
(* fails and is deleted beside one that stays; the end of the last sites;  *)
(* a site that fails and is resumed while threads of the same process      *)
(* compile; and transfers of a route.                                      *)
Scenarios1 ==
  {[running |-> {}, devices |-> {"d1", "d2", "d3"}, created |-> {"b", "c"}, managed |-> {"b", "c"},
    enrolled |-> {}, transferred |-> {}, threads |-> {"m1"}],
   [running |-> {}, devices |-> {"d2"}, created |-> {"b"}, managed |-> {"b"},
    enrolled |-> {"b"}, transferred |-> {}, threads |-> {"m1", "p1"}],
   [running |-> {"a"}, devices |-> {}, created |-> {}, managed |-> {"a", "e"}, enrolled |-> {},
    transferred |-> {}, threads |-> {"m1", "p1"}],
   [running |-> {"a", "e"}, devices |-> {}, created |-> {}, managed |-> {"e"}, enrolled |-> {},
    transferred |-> {}, threads |-> {"m1", "p1", "p2"}],
   [running |-> {"a"}, devices |-> {}, created |-> {}, managed |-> {}, enrolled |-> {},
    transferred |-> {"a"}, threads |-> {"m1"}]}
=============================================================================
