--------------------------- MODULE MCBuildStream ----------------------------
(* Instances of BuildStream for TLC.                                        *)
EXTENDS BuildStream

\* Every table of four words: a link to each of its sectors, to the first
\* sector behind it, to a free sector, and the end of a chain.
AllTables == [1 .. 4 -> (0 .. 4) \cup {EndOfChain, FreeSect}]

\* What walkChain may return for them.
AllChains == UNION {[1 .. len -> 0 .. 3] : len \in 1 .. 4}

\* The mini-stream in up to two sectors, neighbours or not, in any order.
ShortMiniStreams == UNION {[1 .. len -> 0 .. 2] : len \in 0 .. 2}
=============================================================================
