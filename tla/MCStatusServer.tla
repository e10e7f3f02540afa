--------------------------- MODULE MCStatusServer ---------------------------
(* Two components of a service on one host; one of them may be taken into  *)
(* maintenance.  Two goroutines at a time.                                 *)
EXTENDS StatusServer

CONSTANTS h1, c1, c2, s1, g1, g2

MCServiceOf == [c \in {c1, c2} |-> s1]
MCMap == {[hosts |-> {h1}, hc |-> {<<h1, c1>>, <<h1, c2>>}]}
=============================================================================
