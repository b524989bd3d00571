-------------------------- MODULE MCBinlogKeyValue --------------------------
(***************************************************************************)
(* BinlogKeyValue for TLC.                                                 *)
(***************************************************************************)
EXTENDS BinlogKeyValue

\* One prefix that all keys begin with.
MCPrefixes == {Keys}

MCData == Keys \X Values

\* Threads, keys and values are interchangeable.
Symmetry == Permutations(Threads) \cup Permutations(Keys) \cup Permutations(Values)
=============================================================================
