--------------------------- MODULE MCServerHandler ---------------------------
(* Instances of ServerHandler small enough for TLC.                         *)
EXTENDS ServerHandler

CONSTANTS s1, s2, s3, testModule

TwoSenders == {s1, s2}
ThreeSenders == {s1, s2, s3}
TwoReceivers == {CV3_MSG_ROUTER, testModule}
=============================================================================
