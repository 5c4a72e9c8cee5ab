------------------------- MODULE MCSettlementObserver -------------------------
(* Three requests that share payment headers and bodies, handlers that fail *)
(* to start, and a restart.                                                  *)
EXTENDS SettlementObserver, TLC
CONSTANTS h1, h2, i1, i2
\* Headers and inputs are interchangeable: those of the first request are named.
FirstCall == header[1] \in {None, h1} /\ input[1] \in {None, i1}
===============================================================================
