------------------------- MODULE MCWebSocketServer -------------------------
(***************************************************************************)
(* WebSocketServer for TLC: the sets are model values, given in the cfg.   *)
(***************************************************************************)
EXTENDS WebSocketServer, TLC

\* Connections are interchangeable where no liveness property is checked.
ConnSymmetry == Permutations(Conns)
=============================================================================
