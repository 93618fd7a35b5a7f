------------------------------ MODULE Geometry ------------------------------
(***************************************************************************)
(* The sizes and magic numbers of a compound file (cfb.go), and the cells  *)
(* a file is made of.                                                      *)
(*                                                                         *)
(* Sizes are counted in cells instead of bytes: the code's 64 / 512 or     *)
(* 4096 / 4096 become the constants below, and the runs keep the ratios    *)
(* that its branches depend on (a mini sector divides a sector, a sector   *)
(* divides the cutoff; for version 4 sector and cutoff are equal).         *)
(***************************************************************************)
EXTENDS Integers, Sequences

CONSTANTS
    MiniSize,   \* miniSectorSize
    SecSize,    \* Writer.secSize
    Cutoff,     \* miniStreamCutoff
    Words,      \* a FAT word, a uint32 in the code, holds 0 .. Words-1
    V3,         \* secSize = 512: the version 3 size cap applies
    SizeMaxV3   \* streamSizeMaxV3

ASSUME GeometryAssumption ==
    /\ MiniSize \in Nat \ {0}
    /\ SecSize \in Nat \ {0}
    /\ Cutoff \in Nat \ {0}
    /\ SecSize % MiniSize = 0
    /\ Cutoff % SecSize = 0
    /\ Words \in Nat
    /\ Words > 6
    /\ V3 \in BOOLEAN
    /\ SizeMaxV3 \in Nat

-----------------------------------------------------------------------------
(* Special FAT values are the largest words; noStream is the same word as   *)
(* freeSect. Sector numbers in use must stay at or below MaxRegSect.        *)

FreeSect   == Words - 1
EndOfChain == Words - 2
FatSect    == Words - 3
DifSect    == Words - 4
MaxRegSect == Words - 6
NoStream   == Words - 1

\* The conversion uint32(x) of a non-negative int64.
U32(x) == x % Words

\* Where a sector lies in the file, behind the header sector.
SectorOffset(sec) == (sec + 1) * SecSize

\* Where mini sector m lies, in the sectors of the mini-stream.
MiniOffset(miniStream, m) ==
    SectorOffset(miniStream[(m * MiniSize) \div SecSize + 1]) + ((m * MiniSize) % SecSize)

CeilDiv(a, b) == (a + b - 1) \div b

-----------------------------------------------------------------------------
(* A cell says where its content comes from: cell number i of what a stream *)
(* was given, or an integer stored by the writer itself (zero padding is    *)
(* the integer 0).                                                          *)

DataCell(s, i) == [k |-> s, v |-> <<i>>]
WordCell(n)    == [k |-> "word", v |-> <<n>>]

\* Cells i .. j of what stream s is given.
DataCells(s, i, j) == [n \in 1 .. (j - i + 1) |-> DataCell(s, i + n - 1)]

\* make([]byte, n)
Zeros(n) == [i \in 1 .. n |-> WordCell(0)]

Take(q, n) == SubSeq(q, 1, n)
Drop(q, n) == SubSeq(q, n + 1, Len(q))
=============================================================================
