------------------------------ MODULE MCBinlog ------------------------------
(***************************************************************************)
(* Binlog for TLC.  MCBinlog.cfg: three operations and one key beside the  *)
(* empty one.  MCBinlogKeys.cfg: two operations and two keys, <path>.new   *)
(* may not open.  MCBinlogZeroTail.cfg: zero tails may decrypt to a length *)
(* that no event has.                                                      *)
(***************************************************************************)
EXTENDS Binlog, TLC

\* The keys are interchangeable.
KeySymmetry == Permutations(Keys)
=============================================================================
