----------------------------- MODULE MCCloudSync -----------------------------
(* Two calls on one device.                                                 *)
EXTENDS CloudSync

CONSTANTS c1, c2, d1

TwoCallsOnOne == [c \in {c1, c2} |-> d1]
=============================================================================
