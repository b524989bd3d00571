-------------------------- MODULE MCClientManager --------------------------
(***************************************************************************)
(* ClientManager for TLC.                                                  *)
(***************************************************************************)
EXTENDS ClientManager
=============================================================================
