---------------------------- MODULE MCChainWalk ----------------------------
(* Instances of ChainWalk for TLC.                                          *)
EXTENDS ChainWalk

\* Every table of three such words.
SmallTables == [1 .. 3 -> (0 .. 3) \cup {EndOfChain, FreeSect}]
=============================================================================
