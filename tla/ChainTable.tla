----------------------------- MODULE ChainTable -----------------------------
(***************************************************************************)
(* The FAT region of emitFAT: computeFATCounts (FatCounts) says how many   *)
(* sectors the FAT and the DIFAT take, a run for each is added to those of *)
(* the file's chains, and writeChainTable turns all of them into words,    *)
(* sector by sector, with a cursor over the runs that never goes back.     *)
(***************************************************************************)
EXTENDS FatCounts

CONSTANT
    RunLists(_)     \* the sets of disjoint runs a file of so many sectors may have

\* The sectors a run describes.
RunSectors(r) == r.first .. r.first + r.count - 1

\* The chains of a file lie within it, and no sector is on two of them.
ASSUME RunListsAssumption ==
    \A size \in PrefixSectors : \A list \in RunLists(size) :
        /\ IsFiniteSet(list)
        /\ list \subseteq [first : Nat, count : Nat, terminal : Nat, linear : BOOLEAN]
        /\ \A r \in list : r.first + r.count <= size
        /\ \A r, s \in list : r # s => RunSectors(r) \cap RunSectors(s) = {}

VARIABLES
    fatRuns,        \* the sorted runs
    cursor,         \* the run the next sector begins with
    table           \* the words written so far

tableVars == <<fatRuns, cursor, table>>

-----------------------------------------------------------------------------
TableInit ==
    /\ CountInit
    /\ fatRuns = <<>>
    /\ cursor = 1
    /\ table = <<>>

Count == CountNext /\ UNCHANGED tableVars

\* The FAT begins where the file ends so far, the DIFAT behind it.
TableRuns ==
    {[first |-> prefix, count |-> counts.fat, terminal |-> FatSect, linear |-> FALSE],
     [first |-> prefix + counts.fat, count |-> counts.difat,
      terminal |-> DifSect, linear |-> FALSE]}

\* slices.SortFunc does not keep the order of runs with the same first
\* sector, all but one of which are empty: every sorted list is possible.
SortFatRuns ==
    /\ returned
    /\ fatRuns = <<>>
    /\ \E list \in RunLists(prefix) :
          fatRuns' \in {q \in SetToSeqs(list \cup TableRuns) :
                        \A i, j \in DOMAIN q : i < j => q[i].first <= q[j].first}
    /\ UNCHANGED <<countVars, cursor, table>>

Base == U32(Len(table))

WriteSector ==
    /\ fatRuns # <<>>
    /\ Len(table) < counts.fat * PerFAT
    /\ cursor' = Skip(fatRuns, cursor, Base)
    /\ table' = table \o TableSector(fatRuns, cursor', Base)
    /\ UNCHANGED <<countVars, fatRuns>>

TableNext == Count \/ SortFatRuns \/ WriteSector

\* One call runs on until it returns.
TableSpec == TableInit /\ [][TableNext]_<<countVars, tableVars>> /\ WF_countVars(CountNext)

-----------------------------------------------------------------------------
(* Properties                                                               *)

\* What the word at index i must be.
Wanted(i) ==
    LET at == {j \in DOMAIN fatRuns : i \in RunSectors(fatRuns[j])} IN
    IF at = {} THEN FreeSect
    ELSE LET r == fatRuns[CHOOSE j \in at : TRUE] IN
         IF r.linear /\ i < r.first + r.count - 1 THEN i + 1 ELSE r.terminal

(* Every word written is the link its sector's run asks for, and "gaps      *)
(* between runs are filled with freeSect", however the runs lie across the  *)
(* sectors of the table; the complete FAT has a word for each of its own    *)
(* sectors and for those of the DIFAT that say so.                          *)
TableAsWanted ==
    /\ \A i \in DOMAIN table : table[i] = WordCell(Wanted(i - 1))
    /\ table # <<>> /\ Len(table) = counts.fat * PerFAT =>
          \A i \in 0 .. counts.fat + counts.difat - 1 :
              table[prefix + i + 1] = WordCell(IF i < counts.fat THEN FatSect ELSE DifSect)
=============================================================================
