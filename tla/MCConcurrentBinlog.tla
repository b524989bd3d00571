------------------------- MODULE MCConcurrentBinlog -------------------------
(***************************************************************************)
(* ConcurrentBinlog for TLC.                                               *)
(***************************************************************************)
EXTENDS ConcurrentBinlog

\* An event without and with a promise, and a lazy_sync.
MCContents ==
  {[payload |-> TRUE, promise |-> FALSE],
   [payload |-> TRUE, promise |-> TRUE],
   [payload |-> FALSE, promise |-> TRUE]}
=============================================================================
