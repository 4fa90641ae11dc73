----------------------------- MODULE MCPeerAsk ------------------------------
(***************************************************************************)
(* A small instance of PeerAsk for TLC: one ask, which repeated posts let  *)
(* meet itself in the other's queue; two threads of the asker, so that two *)
(* flushes hold one row and a flush runs beside the request.               *)
(***************************************************************************)
EXTENDS PeerAsk
=============================================================================
