---------------------------- MODULE MCWsSession ----------------------------
(***************************************************************************)
(* A small instance of WsSession.  Sessions share nothing but the sending  *)
(* threads, so one session with two off-strand senders shows every         *)
(* interleaving on it; two frames tell an order from its reverse.          *)
(***************************************************************************)
EXTENDS WsSession
=============================================================================
