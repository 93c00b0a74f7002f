----------------------------- MODULE MCAcceptor -----------------------------
(***************************************************************************)
(* A small instance of Acceptor by itself: one connection is enough to     *)
(* follow the order of the handshakes.                                     *)
(***************************************************************************)
EXTENDS Acceptor
=============================================================================
