----------------------------- MODULE ChainWalk -----------------------------
(***************************************************************************)
(* walkChain of reader.go, turn by turn, over any table a file may hold:   *)
(* links out of the table, links to free sectors, cycles, chains that are  *)
(* longer or shorter than announced. The number of sectors that must be on *)
(* the chain is what each caller of walkChain computes from the file.      *)
(***************************************************************************)
EXTENDS Geometry

CONSTANTS
    Tables,     \* the FATs (or mini FATs) a file may hold
    Quads,      \* a stream size, a uint64 in the code, is one of 0 .. Quads-1
    DefaultCap, \* the capacity reserved when the length is not known
    MakeLimit   \* the largest capacity make accepts

ASSUME WalkAssumption ==
    /\ Tables \subseteq Seq(0 .. Words - 1)
    /\ Quads \in Nat \ {0}
    /\ DefaultCap \in Nat
    /\ MakeLimit \in Nat
    /\ DefaultCap <= MakeLimit
    /\ \A t \in Tables : Len(t) <= MakeLimit

VARIABLES
    fat,        \* the table
    first,      \* the first sector of the chain
    caller,     \* who calls
    n,          \* numSectors, 0 if any number will do
    sec,        \* the loop's sec
    chain,      \* the sectors found so far
    pc          \* "walk" in the loop, then "ok" or "error"

vars == <<fat, first, caller, n, sec, chain, pc>>

-----------------------------------------------------------------------------
(* The callers                                                              *)

\* loadMiniFAT and parseEntries pass a count of the header, which
\* validateHeader compares with the capacity of the FAT.
TableCounts(t) == 0 .. Len(t)

\* buildStream; parseEntries has compared the size with the capacity.
StreamCounts(t) == {CeilDiv(size, SecSize) : size \in 1 .. Len(t) * SecSize}

\* loadMiniStream: the root entry's size is not compared with anything, and
\* rounding it up wraps around.
MiniStreamCounts ==
    {((size + SecSize - 1) % Quads) \div SecSize : size \in 1 .. Quads - 1}

CountsOf(c, t) ==
    CASE c = "table"      -> TableCounts(t)
      [] c = "stream"     -> StreamCounts(t)
      [] c = "miniStream" -> MiniStreamCounts

Callers == {"table", "stream", "miniStream"}

\* make([]uint32, 0, cmp.Or(numSectors, 64))
Reserved == IF n # 0 THEN n ELSE DefaultCap

-----------------------------------------------------------------------------
(* The loop                                                                 *)

\* sec has a word in the table.
InTable(s) == s <= MaxRegSect /\ s < Len(fat)

\* Mutant: a chain of as many sectors as the table has words is refused.
LengthAllowedBelow(len) == (n > 0 => len <= n) /\ len < Len(fat)

\* Mutant: only an announced length bounds the chain.
LengthAllowedAnnounced(len) == n > 0 => len <= n

\* Neither longer than specified nor, as a cyclic one would be, than the table.
LengthAllowed(len) == (n > 0 => len <= n) /\ len <= Len(fat)

\* Mutant: as many sectors as specified end the loop, whatever the last links to.
AtEndIfFull == sec = EndOfChain \/ (n > 0 /\ Len(chain) = n)

\* The condition that ends the loop.
AtEnd == sec = EndOfChain

Init ==
    /\ fat \in Tables
    /\ first \in 0 .. Words - 1
    /\ caller \in Callers
    /\ n \in CountsOf(caller, fat)
    /\ sec = first
    /\ chain = <<>>
    /\ pc = "walk"

Follow ==
    /\ pc = "walk"
    /\ ~AtEnd
    /\ InTable(sec)
    /\ LengthAllowed(Len(chain) + 1)
    /\ chain' = Append(chain, sec)
    /\ sec' = fat[sec + 1]
    /\ UNCHANGED <<fat, first, caller, n, pc>>

Refuse ==
    /\ pc = "walk"
    /\ ~AtEnd
    /\ InTable(sec) => ~LengthAllowed(Len(chain) + 1)
    /\ pc' = "error"
    /\ UNCHANGED <<fat, first, caller, n, sec, chain>>

\* Mutant: a chain that ends early is taken.
ShortAccepted == FALSE

\* The end has come before all the sectors specified.
TooShort == n > 0 /\ Len(chain) < n

Finish ==
    /\ pc = "walk"
    /\ AtEnd
    /\ pc' = IF TooShort THEN "error" ELSE "ok"
    /\ UNCHANGED <<fat, first, caller, n, sec, chain>>

Next == Follow \/ Refuse \/ Finish

Spec == Init /\ [][Next]_vars

-----------------------------------------------------------------------------
(* Properties                                                               *)

(* Types; every sector on the chain has a word in the table, so that        *)
(* fat[sec] never panics, and the chain never outgrows the table. As every  *)
(* turn adds a sector to it, walkChain returns for every table.             *)
TypeOK ==
    /\ fat \in Tables
    /\ first \in 0 .. Words - 1
    /\ caller \in Callers
    /\ n \in Nat
    /\ sec \in 0 .. Words - 1
    /\ chain \in Seq(0 .. Len(fat) - 1)
    /\ Len(chain) <= Len(fat)
    /\ pc \in {"walk", "ok", "error"}

\* c leads from first through the table to EndOfChain.
IsChain(c) ==
    /\ \A i \in DOMAIN c :
          /\ InTable(c[i])
          /\ fat[c[i] + 1] = IF i < Len(c) THEN c[i + 1] ELSE EndOfChain
    /\ first = IF c = <<>> THEN EndOfChain ELSE c[1]

(* What is returned is the chain in the table and has the length specified. *)
ReturnsChain == pc = "ok" => IsChain(chain) /\ (n > 0 => Len(chain) = n)

(* A chain that is returned has no sector twice: the comparison with the    *)
(* length of the table is enough to refuse every cycle, so no two parts of  *)
(* a stream are read from one sector.                                       *)
NoSectorTwice ==
    pc = "ok" => \A i, j \in DOMAIN chain : chain[i] = chain[j] => i = j

\* All sequences of distinct sectors of the table.
Routes == UNION {{c \in [1 .. k -> 0 .. Len(fat) - 1] :
                    \A i, j \in 1 .. k : c[i] = c[j] => i = j} : k \in 0 .. Len(fat)}

(* A chain is only refused if there is none of the length specified.        *)
RefusesOnlyBad ==
    pc = "error" => \A c \in Routes : IsChain(c) => n > 0 /\ Len(c) # n

(* FuzzReader "asserts the parser never panics, hangs, or OOMs": no walk    *)
(* asks for a capacity with which make panics.                              *)
ReserveNeverPanics == Reserved <= MakeLimit
=============================================================================
