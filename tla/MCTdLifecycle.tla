--------------------------- MODULE MCTdLifecycle ---------------------------
(***************************************************************************)
(* TdLifecycle for TLC.                                                    *)
(***************************************************************************)
EXTENDS TdLifecycle
=============================================================================
