------------------------------- MODULE MCWsHub -------------------------------
(* Two listeners and three events.                                         *)
EXTENDS WsHub

CONSTANTS w1, w2, e1, e2, e3
=============================================================================
