---------------------------- MODULE MCConnecting -----------------------------
(* Two calls for one connection, one directly and one through a jump host:  *)
(* one cancel slot and one host, so that their cancel functions and their   *)
(* prompts meet.                                                            *)
EXTENDS Connecting

CONSTANTS a1, a2, k1, h1, j1

MCAttempts == {a1, a2}
MCKeyOf == [a \in MCAttempts |-> k1]
MCHostOf == [h \in Handshakes |-> IF h = Jump(a2) THEN j1 ELSE h1]
=============================================================================
