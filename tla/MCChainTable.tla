---------------------------- MODULE MCChainTable ----------------------------
(* Instances of ChainTable for TLC.                                         *)
EXTENDS ChainTable

Run(first, end, terminal) ==
    [first |-> first, count |-> end - first, terminal |-> terminal, linear |-> TRUE]

\* The ends of disjoint runs, in part empty, within size sectors.
EndsIn(size) == {c \in [1 .. 6 -> 0 .. size] : \A i \in 1 .. 5 : c[i] <= c[i + 1]}

\* A chain of two runs and, between them, one of another chain; of a large
\* file only one run of all its sectors.
SomeLists(size) ==
    IF size > 10 THEN {{Run(0, size, EndOfChain)}}
    ELSE {{Run(c[1], c[2], c[5]), Run(c[3], c[4], EndOfChain), Run(c[5], c[6], EndOfChain)} :
             c \in EndsIn(size)}

SmallPrefixes == 0 .. 60
SmallCandidates == 0 .. 50
=============================================================================
