------------------------------ MODULE FatCounts ------------------------------
(***************************************************************************)
(* The loop of computeFATCounts: the FAT and the DIFAT must describe their *)
(* own sectors too, so the loop counts again until nothing changes.        *)
(***************************************************************************)
EXTENDS Layout

CONSTANTS
    PrefixSectors,       \* the numbers of sectors before the FAT
    Candidates           \* the table sizes the result is compared with

ASSUME CountsAssumption == PrefixSectors \subseteq Nat /\ Candidates \subseteq Nat

VARIABLES
    prefix,         \* prefixSectors
    counts,         \* fatSectors and difatSectors
    returned        \* the loop has returned counts

countVars == <<prefix, counts, returned>>

\* Mutant: only a smaller FAT would stop the loop.
SettledBelow(c) == NextCounts(prefix, c).fat < c.fat

Settled(c) == NextCounts(prefix, c) = c

CountInit ==
    /\ prefix \in PrefixSectors
    /\ counts = NoCounts
    /\ returned = FALSE

CountAgain ==
    /\ ~returned
    /\ ~Settled(counts)
    /\ counts' = NextCounts(prefix, counts)
    /\ UNCHANGED <<prefix, returned>>

ReturnCounts ==
    /\ ~returned
    /\ Settled(counts)
    /\ returned' = TRUE
    /\ UNCHANGED <<prefix, counts>>

CountNext == CountAgain \/ ReturnCounts

CountSpec     == CountInit /\ [][CountNext]_countVars
FairCountSpec == CountSpec /\ WF_countVars(CountNext)

-----------------------------------------------------------------------------
(* Properties                                                               *)

(* The counts are natural numbers.                                          *)
CountsTypeOK ==
    /\ prefix \in Nat
    /\ counts \in [fat : Nat, difat : Nat]
    /\ returned \in BOOLEAN

\* f FAT sectors have a word for every sector of the file, and f FAT sectors
\* are all listed in the header and in d DIFAT sectors.
Enough(f, d) ==
    /\ f >= 1
    /\ prefix + f + d <= f * PerFAT
    /\ f <= InlineDIFAT + d * (PerFAT - 1)

(* "computeFATCounts returns how many FAT and DIFAT sectors the file needs": *)
(* the FAT it returns covers the file with the FAT and the DIFAT in it.     *)
ReturnsEnough == returned => Enough(counts.fat, counts.difat)

(* ... and no table smaller in either count would do: no sector is wasted,  *)
(* and reader.go's bound on the number of DIFAT sectors is kept.            *)
NeverTooMany ==
    \A f, d \in Candidates : Enough(f, d) => counts.fat <= f /\ counts.difat <= d

(* The loop returns for every number of sectors.                            *)
Returns == <>returned
=============================================================================
