-------------------------- MODULE MCConcurrentQueue --------------------------
(* Instances of ConcurrentQueue small enough for TLC.                       *)
EXTENDS ConcurrentQueue

CONSTANTS p1, p2, c1, c2, e1, e2

TwoProducers == {p1, p2}
TwoConsumers == {c1, c2}
TwoElements == {e1, e2}
=============================================================================
