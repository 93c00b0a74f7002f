--------------------------- MODULE MCTunnelServer ---------------------------
(***************************************************************************)
(* Small instances of TunnelServer.                                        *)
(***************************************************************************)
EXTENDS TunnelServer
=============================================================================
