------------------------ MODULE MCSequenceDispatcher ------------------------
(***************************************************************************)
(* SequenceDispatcher for TLC.                                             *)
(***************************************************************************)
EXTENDS SequenceDispatcher
=============================================================================
