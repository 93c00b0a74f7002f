-------------------------- MODULE MCServerProcess ---------------------------
(***************************************************************************)
(* A small instance of ServerProcess: words of 4 values, so that a fifth   *)
(* connection of one process reuses ids and addresses.                     *)
(***************************************************************************)
EXTENDS ServerProcess
=============================================================================
