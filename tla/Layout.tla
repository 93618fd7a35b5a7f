------------------------------- MODULE Layout -------------------------------
(***************************************************************************)
(* The algorithms with which Writer.Close lays out a file, as operators:   *)
(* how many FAT and DIFAT sectors it needs, what a FAT sector contains,    *)
(* and how the entries of a storage are linked. The modules FatCounts and  *)
(* ChainTable run the loops of the first two step by step.                 *)
(***************************************************************************)
EXTENDS Geometry, SequencesExt

CONSTANTS
    DirentSize,     \* direntrySize
    InlineDIFAT     \* inlineDIFAT

ASSUME LayoutAssumption ==
    /\ DirentSize \in Nat \ {0}
    /\ SecSize % DirentSize = 0
    /\ InlineDIFAT \in Nat
    /\ SecSize > 2

\* secSize/4, the FAT words in a sector: a cell is a word wide.
PerFAT == SecSize

-----------------------------------------------------------------------------
(* computeFATCounts                                                         *)

AtLeastOne(n) == IF n > 1 THEN n ELSE 1

\* The DIFAT sectors that f FAT sectors need beyond the header.
DifatFor(f) ==
    IF f > InlineDIFAT THEN (f - InlineDIFAT + PerFAT - 2) \div (PerFAT - 1) ELSE 0

\* Mutant: a last FAT sector that is not full is not counted.
NextCountsFloor(prefix, c) ==
    LET f == AtLeastOne((prefix + c.fat + c.difat) \div PerFAT) IN
    [fat |-> f, difat |-> DifatFor(f)]

\* Mutant: a sector is counted for a remainder of zero as well.
NextCountsSpare(prefix, c) ==
    LET f == (prefix + c.fat + c.difat) \div PerFAT + 1 IN
    [fat |-> f, difat |-> DifatFor(f)]

\* One turn of the loop: what the tables of the last turn require.
NextCounts(prefix, c) ==
    LET f == AtLeastOne(CeilDiv(prefix + c.fat + c.difat, PerFAT)) IN
    [fat |-> f, difat |-> DifatFor(f)]

NoCounts == [fat |-> 0, difat |-> 0]

\* The result of the loop.
FatCounts(prefix) ==
    LET turn[n \in Nat] == IF n = 0 THEN NoCounts ELSE NextCounts(prefix, turn[n - 1])
    IN  turn[CHOOSE n \in 0 .. prefix + 2 : turn[n + 1] = turn[n]]

-----------------------------------------------------------------------------
(* writeChainTable. A run is a fatRun [first, count, terminal, linear]; the *)
(* runs are sorted by first.                                                *)

TableEnd(r) == U32(r.first + r.count)

\* Mutant: the cursor passes runs that have not ended yet.
SkipEarly(runs, cursor, base) ==
    CHOOSE c \in cursor .. Len(runs) + 1 :
        /\ c <= Len(runs) => runs[c].first >= base
        /\ \A d \in cursor .. c - 1 : runs[d].first < base

\* The cursor passes the runs that end at or before base.
Skip(runs, cursor, base) ==
    CHOOSE c \in cursor .. Len(runs) + 1 :
        /\ c <= Len(runs) => TableEnd(runs[c]) > base
        /\ \A d \in cursor .. c - 1 : TableEnd(runs[d]) <= base

\* The word a run puts at index i.
WordOf(r, i) ==
    IF r.linear /\ i # U32(r.first + r.count - 1) THEN i + 1 ELSE r.terminal

\* The sector of the words base .. base+PerFAT-1: the runs from the cursor
\* on that begin before its end, a later one over an earlier one.
TableSector(runs, cursor, base) ==
    LET end == U32(base + PerFAT)
        inner == {j \in cursor .. Len(runs) :
                     \A m \in cursor .. j : runs[m].first < end}
        word(i) ==
            LET js == {j \in inner : runs[j].first <= i /\ i < TableEnd(runs[j])} IN
            IF js = {} THEN FreeSect ELSE WordOf(runs[Max(js)], i)
    IN  [n \in 1 .. PerFAT |-> WordCell(word(base + n - 1))]

\* The runs of a set, sorted by first.
SortRuns(runs) ==
    LET insert(r, q) == SelectSeq(q, LAMBDA x : x.first <= r.first) \o <<r>>
                        \o SelectSeq(q, LAMBDA x : x.first > r.first)
    IN  FoldSet(insert, <<>>, runs)

\* All sectors of the table.
Table(numSectors, runs) ==
    LET cursor[k \in Nat] ==
            Skip(runs, IF k = 0 THEN 1 ELSE cursor[k - 1], U32(k * PerFAT))
    IN  FlattenSeq([k \in 1 .. numSectors |->
                       TableSector(runs, cursor[k - 1], U32((k - 1) * PerFAT))])

-----------------------------------------------------------------------------
(* linkBST                                                                  *)

\* The root of ids as a balanced tree, and for each id its siblings. The
\* sequence is indexed from 0 in the code.
LinkBST(ids) ==
    LET id(n) == ids[n + 1]
        link[range \in (0 .. Len(ids)) \X (-1 .. Len(ids))] ==
            LET lo == range[1]
                hi == range[2]
                mid == (lo + hi) \div 2
                left == link[<<lo, mid - 1>>]
                right == link[<<mid + 1, hi>>]
            IN  IF lo > hi
                THEN [root |-> NoStream, leftSib |-> <<>>, rightSib |-> <<>>]
                ELSE [root     |-> id(mid),
                      leftSib  |-> (id(mid) :> left.root) @@ left.leftSib @@ right.leftSib,
                      rightSib |-> (id(mid) :> right.root) @@ left.rightSib @@ right.rightSib]
    IN  link[<<0, Len(ids) - 1>>]
=============================================================================
