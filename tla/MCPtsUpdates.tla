---------------------------- MODULE MCPtsUpdates ----------------------------
(***************************************************************************)
(* PtsUpdates for TLC.                                                     *)
(***************************************************************************)
EXTENDS PtsUpdates

MixedCounts == <<1, 2, 0, 1, 2>>
=============================================================================
