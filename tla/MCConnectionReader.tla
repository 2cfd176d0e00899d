------------------------- MODULE MCConnectionReader -------------------------
(* An instance of ConnectionReader small enough for TLC.                    *)
EXTENDS ConnectionReader

ThreeParts == {3}
=============================================================================
