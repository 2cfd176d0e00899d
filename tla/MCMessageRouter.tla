--------------------------- MODULE MCMessageRouter ---------------------------
(* Instances of MessageRouter small enough for TLC.                         *)
EXTENDS MessageRouter

CONSTANTS n1, n2, c1, c2, k1, k2

NoNotifiers == {}
OneNotifier == {n1}
TwoNotifiers == {n1, n2}
OneController == {c1}
TwoControllers == {c1, c2}
OnePacket == {k1}
TwoPackets == {k1, k2}
NoPackets == {}
OneListener == {10}
TwoListeners == {10, 20}
ThreeListeners == {10, 20, 30}
NoListeners == {}

AllMethods == Methods
StartOnly == {"start"}
StartAndJoin == {"start", "stopAndJoin"}

AnyBoolean == BOOLEAN
OnlyFalse == {FALSE}

Quiescent == {"quiescent"}
NotSelf == {"quiescent", "othersInCallback"}
SelfInCallback == {"quiescent", "selfInCallback"}
=============================================================================
