--------------------------- MODULE MCRealtimeBridge ---------------------------
(* A small instance of RealtimeBridge: two sessions of one tenant, and a second *)
(* tenant whose events must not reach them.                                    *)
EXTENDS RealtimeBridge, TLC

CONSTANTS c1, c2, tA, tB

SameTenant == c1 :> tA @@ c2 :> tA
ReadBounds == c1 :> 2 @@ c2 :> 1
=============================================================================
