---------------------------- MODULE EventChannel ----------------------------
(***************************************************************************)
(* What the classifier's event queue promises to its producers and to the  *)
(* management side: a bounded channel that takes an event or refuses it,   *)
(* never blocks a producer, hands over what it took once and in order, and *)
(* after it is closed takes nothing more but hands over the rest.          *)
(***************************************************************************)
EXTENDS Naturals, Sequences

CONSTANTS Events, Capacity

VARIABLES pending, closed

channel == <<pending, closed>>

Init == pending = <<>> /\ closed = FALSE

Accept(e) ==
  /\ ~closed /\ Len(pending) < Capacity
  /\ pending' = Append(pending, e)
  /\ UNCHANGED closed

HandOver ==
  /\ pending # <<>>
  /\ pending' = Tail(pending)
  /\ UNCHANGED closed

Close == ~closed /\ closed' = TRUE /\ UNCHANGED pending

Next == (\E e \in Events : Accept(e)) \/ HandOver \/ Close

Spec == Init /\ [][Next]_channel /\ WF_channel(HandOver)
=============================================================================
