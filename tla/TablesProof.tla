----------------------------- MODULE TablesProof -----------------------------
(***************************************************************************)
(* The sector tables as emitFAT writes them, for every number of sectors,  *)
(* every sector size above two words, every number of header entries and   *)
(* every list of runs: computeFATCounts returns the least tables that      *)
(* describe the whole file, and writeChainTable writes the words that the  *)
(* runs ask for, each at its sector's place.                               *)
(*                                                                         *)
(* And as buildStream reads them, for every table a file may hold, every   *)
(* word size and every length that is announced: the chain that walkChain  *)
(* returns or refuses, the runs that are made of it, and that no two bytes *)
(* of a stream are read from one place of the file.                        *)
(***************************************************************************)
EXTENDS ChainTable, BuildStream, SequenceLemmas, FiniteSetTheorems, TLAPS

\* The laws of \div and * that the rest of the module needs.
LEMMA DivFloor ==
    ASSUME NEW m \in Nat, NEW b \in Nat \ {0}
    PROVE  /\ m \div b \in Nat
           /\ (m \div b) * b <= m
           /\ m < (m \div b) * b + b
  OBVIOUS

\* Of two different multiples the greater is greater by the factor at least.
LEMMA ProductLess ==
    ASSUME NEW q \in Int, NEW num \in Int, NEW b \in Nat \ {0}, q < num
    PROVE  q * b + b <= num * b
  <1>1. q + 1 <= num
    OBVIOUS
  <1>2. (q + 1) * b <= num * b
    BY <1>1
  <1>3. (q + 1) * b = q * b + b
    OBVIOUS
  <1>4. QED
    BY <1>2, <1>3

\* CeilDiv(a, b) is the least number of blocks of b that hold a.
LEMMA CeilDivLeast ==
    ASSUME NEW a \in Nat, NEW b \in Nat \ {0}
    PROVE  /\ CeilDiv(a, b) \in Nat
           /\ a <= CeilDiv(a, b) * b
           /\ \A q \in Nat : a <= q * b => CeilDiv(a, b) <= q
  <1> DEFINE num == CeilDiv(a, b)
  <1>1. a + b - 1 \in Nat
    OBVIOUS
  <1>2. /\ num \in Nat
        /\ num * b <= a + b - 1
        /\ a + b - 1 < num * b + b
    BY <1>1, DivFloor DEF CeilDiv
  <1>3. num * b \in Int
    BY <1>2
  <1>4. a <= num * b
    BY <1>2, <1>3
  <1>5. ASSUME NEW q \in Nat, a <= q * b, q < num PROVE FALSE
    <2>1. q * b + b <= num * b
      BY <1>2, <1>5, ProductLess
    <2>2. q * b \in Int
      OBVIOUS
    <2>3. QED
      BY <1>2, <1>3, <1>5, <2>1, <2>2
  <1>6. QED
    BY <1>2, <1>4, <1>5

LEMMA WordCounts == PerFAT \in Nat \ {0} /\ PerFAT - 1 \in Nat \ {0} /\ InlineDIFAT \in Nat
  BY LayoutAssumption, GeometryAssumption DEF PerFAT

\* DifatFor(f) is the least number of DIFAT sectors that list f FAT sectors.
LEMMA DifatForLeast ==
    ASSUME NEW f \in Nat
    PROVE  /\ DifatFor(f) \in Nat
           /\ f <= InlineDIFAT + DifatFor(f) * (PerFAT - 1)
           /\ \A d \in Nat : f <= InlineDIFAT + d * (PerFAT - 1) => DifatFor(f) <= d
  <1> DEFINE P == PerFAT - 1
  <1>1. P \in Nat \ {0} /\ InlineDIFAT \in Nat
    BY WordCounts
  <1>2. CASE f > InlineDIFAT
    <2>1. f - InlineDIFAT \in Nat
      BY <1>1, <1>2
    <2>2. DifatFor(f) = CeilDiv(f - InlineDIFAT, P)
      <3>1. f - InlineDIFAT + PerFAT - 2 = f - InlineDIFAT + P - 1
        BY <1>1, WordCounts
      <3>2. QED
        BY <1>2, <3>1 DEF DifatFor, CeilDiv
    <2>3. /\ DifatFor(f) \in Nat
          /\ f - InlineDIFAT <= DifatFor(f) * P
          /\ \A d \in Nat : f - InlineDIFAT <= d * P => DifatFor(f) <= d
      BY <1>1, <2>1, <2>2, CeilDivLeast
    <2>4. \A d \in Nat : d * P \in Int
      BY <1>1
    <2>5. QED
      BY <1>1, <2>3, <2>4
  <1>3. CASE ~(f > InlineDIFAT)
    BY <1>1, <1>3 DEF DifatFor
  <1>4. QED
    BY <1>2, <1>3

\* What one turn of the loop computes.
LEMMA TurnLeast ==
    ASSUME CountsTypeOK
    PROVE  LET c == NextCounts(prefix, counts) IN
           /\ c \in [fat : Nat, difat : Nat]
           /\ c.fat >= 1
           /\ prefix + counts.fat + counts.difat <= c.fat * PerFAT
           /\ c.difat = DifatFor(c.fat)
           /\ \A f \in Nat : f >= 1 /\ prefix + counts.fat + counts.difat <= f * PerFAT
                               => c.fat <= f
  <1> DEFINE sum == prefix + counts.fat + counts.difat
             c == NextCounts(prefix, counts)
             num == CeilDiv(sum, PerFAT)
  <1>1. sum \in Nat /\ PerFAT \in Nat \ {0}
    BY WordCounts DEF CountsTypeOK
  <1>2. /\ num \in Nat
        /\ sum <= num * PerFAT
        /\ \A q \in Nat : sum <= q * PerFAT => num <= q
    BY <1>1, CeilDivLeast
  <1>3. c.fat = AtLeastOne(num) /\ c.difat = DifatFor(c.fat)
        /\ c = [fat |-> c.fat, difat |-> c.difat]
    BY DEF NextCounts
  <1>4. c.fat \in Nat /\ c.fat >= 1 /\ num <= c.fat /\ (num >= 1 => c.fat = num) /\ (num < 1 => c.fat = 1)
    BY <1>2, <1>3 DEF AtLeastOne
  <1>5. sum <= c.fat * PerFAT
    <2>1. CASE num >= 1
      BY <1>2, <1>4, <2>1
    <2>2. CASE num < 1
      <3>1. num = 0
        BY <1>2, <2>2
      <3>2. num * PerFAT = 0
        BY <1>1, <3>1
      <3>3. c.fat * PerFAT \in Nat
        BY <1>1, <1>4
      <3>4. QED
        BY <1>1, <1>2, <3>2, <3>3
    <2>3. QED
      BY <1>2, <2>1, <2>2
  <1>6. c.difat \in Nat
    BY <1>3, <1>4, DifatForLeast
  <1>7. c \in [fat : Nat, difat : Nat]
    BY <1>3, <1>4, <1>6
  <1>8. \A f \in Nat : f >= 1 /\ sum <= f * PerFAT => c.fat <= f
    BY <1>2, <1>4
  <1>9. QED
    BY <1>3, <1>4, <1>5, <1>7, <1>8

-----------------------------------------------------------------------------
LEMMA TypeInit == CountInit => CountsTypeOK
  <1> SUFFICES ASSUME CountInit PROVE CountsTypeOK
    OBVIOUS
  <1>1. prefix \in Nat
    BY CountsAssumption DEF CountInit
  <1>2. counts \in [fat : Nat, difat : Nat]
    BY DEF CountInit, NoCounts
  <1>3. QED
    BY <1>1, <1>2 DEF CountInit, CountsTypeOK

LEMMA TypeNext == CountsTypeOK /\ [CountNext]_countVars => CountsTypeOK'
  <1> SUFFICES ASSUME CountsTypeOK, [CountNext]_countVars PROVE CountsTypeOK'
    OBVIOUS
  <1>1. CASE CountAgain
    <2>1. NextCounts(prefix, counts) \in [fat : Nat, difat : Nat]
      BY TurnLeast
    <2>2. QED
      BY <1>1, <2>1 DEF CountAgain, CountsTypeOK
  <1>2. CASE ReturnCounts
    BY <1>2 DEF ReturnCounts, CountsTypeOK
  <1>3. CASE UNCHANGED countVars
    BY <1>3 DEF countVars, CountsTypeOK
  <1>4. QED
    BY <1>1, <1>2, <1>3 DEF CountNext

(* The counts stay natural numbers: no turn of the loop subtracts below 0.  *)
THEOREM CountsTyped == CountSpec => []CountsTypeOK
  BY TypeInit, TypeNext, PTL DEF CountSpec

\* What is returned is a fixed point of the loop.
FixedPoint == returned => Settled(counts)

LEMMA FixedPointInit == CountInit => FixedPoint
  BY DEF CountInit, FixedPoint

LEMMA FixedPointNext == FixedPoint /\ [CountNext]_countVars => FixedPoint'
  <1> SUFFICES ASSUME FixedPoint, [CountNext]_countVars PROVE FixedPoint'
    OBVIOUS
  <1>1. CASE CountAgain
    BY <1>1 DEF CountAgain, FixedPoint
  <1>2. CASE ReturnCounts
    BY <1>2 DEF ReturnCounts, FixedPoint, Settled
  <1>3. CASE UNCHANGED countVars
    BY <1>3 DEF countVars, FixedPoint, Settled
  <1>4. QED
    BY <1>1, <1>2, <1>3 DEF CountNext

LEMMA FixedPointEnough == CountsTypeOK /\ FixedPoint => ReturnsEnough
  <1> SUFFICES ASSUME CountsTypeOK, FixedPoint, returned PROVE Enough(counts.fat, counts.difat)
    BY DEF ReturnsEnough
  <1>1. NextCounts(prefix, counts) = counts
    BY DEF FixedPoint, Settled
  <1>2. /\ counts.fat \in Nat
        /\ counts.fat >= 1
        /\ prefix + counts.fat + counts.difat <= counts.fat * PerFAT
        /\ counts.difat = DifatFor(counts.fat)
    BY <1>1, TurnLeast DEF CountsTypeOK
  <1>3. counts.fat <= InlineDIFAT + counts.difat * (PerFAT - 1)
    BY <1>2, DifatForLeast
  <1>4. QED
    BY <1>2, <1>3 DEF Enough

(* What the loop returns describes the whole file, the tables included.     *)
THEOREM EnoughReturned == CountSpec => []ReturnsEnough
  BY TypeInit, TypeNext, FixedPointInit, FixedPointNext, FixedPointEnough, PTL DEF CountSpec

LEMMA LeastInit == CountInit => NeverTooMany
  BY CountsAssumption DEF CountInit, NeverTooMany, NoCounts

LEMMA LeastNext == CountsTypeOK /\ NeverTooMany /\ [CountNext]_countVars => NeverTooMany'
  <1> SUFFICES ASSUME CountsTypeOK, NeverTooMany, [CountNext]_countVars PROVE NeverTooMany'
    OBVIOUS
  <1>1. CASE CountAgain
    <2> SUFFICES ASSUME NEW f \in Candidates, NEW d \in Candidates, Enough(f, d)'
                 PROVE  counts'.fat <= f /\ counts'.difat <= d
      BY DEF NeverTooMany
    <2> DEFINE c == NextCounts(prefix, counts)
    <2>1. counts' = c /\ prefix' = prefix
      BY <1>1 DEF CountAgain
    <2>2. f \in Nat /\ d \in Nat
      BY CountsAssumption
    <2>3. /\ f >= 1
          /\ prefix + f + d <= f * PerFAT
          /\ f <= InlineDIFAT + d * (PerFAT - 1)
      BY <2>1 DEF Enough
    <2>4. counts.fat <= f /\ counts.difat <= d
      BY <2>3 DEF NeverTooMany, Enough
    <2>5. prefix + counts.fat + counts.difat <= f * PerFAT
      <3>1. f * PerFAT \in Int
        BY <2>2, WordCounts
      <3>2. prefix \in Nat /\ counts.fat \in Nat /\ counts.difat \in Nat
        BY DEF CountsTypeOK
      <3>3. QED
        BY <2>2, <2>3, <2>4, <3>1, <3>2
    <2>6. c.fat \in Nat /\ c.fat <= f /\ c.difat = DifatFor(c.fat)
      BY <2>2, <2>3, <2>5, TurnLeast
    <2>7. c.fat <= InlineDIFAT + d * (PerFAT - 1)
      <3>1. d * (PerFAT - 1) \in Int /\ InlineDIFAT \in Int
        BY <2>2, WordCounts
      <3>2. QED
        BY <2>2, <2>3, <2>6, <3>1
    <2>8. c.difat <= d
      BY <2>2, <2>6, <2>7, DifatForLeast
    <2>9. QED
      BY <2>1, <2>6, <2>8
  <1>2. CASE ReturnCounts
    BY <1>2 DEF ReturnCounts, NeverTooMany, Enough
  <1>3. CASE UNCHANGED countVars
    BY <1>3 DEF countVars, NeverTooMany, Enough
  <1>4. QED
    BY <1>1, <1>2, <1>3 DEF CountNext

(* No turn of the loop counts more than any sufficient tables have, so the  *)
(* result is the least in both counts.                                      *)
THEOREM LeastCounted == CountSpec => []NeverTooMany
  BY TypeInit, TypeNext, LeastInit, LeastNext, PTL DEF CountSpec

-----------------------------------------------------------------------------
(* The words of the table                                                   *)

\* Every index of a word in the tables is a word itself. computeFATCounts does
\* not look at the width of its numbers, so this is a hypothesis.
TableFits == counts.fat * PerFAT < Words

TableRun == [first : Nat, count : Nat, terminal : Nat, linear : BOOLEAN]

Sectors == prefix + counts.fat + counts.difat

\* What SortFatRuns leaves in fatRuns.
FatRunsTyped == fatRuns \in Seq(TableRun)

RunsInside == \A i \in 1 .. Len(fatRuns) : fatRuns[i].first + fatRuns[i].count <= Sectors

RunsSorted == \A i, j \in 1 .. Len(fatRuns) : i < j => fatRuns[i].first <= fatRuns[j].first

RunsApart ==
    \A i, j \in 1 .. Len(fatRuns) : i # j => RunSectors(fatRuns[i]) \cap RunSectors(fatRuns[j]) = {}

RunsWhole == \A r \in TableRuns : \E i \in 1 .. Len(fatRuns) : fatRuns[i] = r

RunsOK == FatRunsTyped /\ RunsInside /\ RunsSorted /\ RunsApart /\ RunsWhole

\* The runs before the cursor end before the words to come.
Passed == \A d \in 1 .. cursor - 1 : TableEnd(fatRuns[d]) <= Len(table)

Cell == {WordCell(w) : w \in Nat}

Written == \A i \in 1 .. Len(table) : table[i] = WordCell(Wanted(i - 1))

\* The table consists of whole sectors.
Filled == \E m \in Nat : Len(table) = m * PerFAT

TableInv ==
    /\ CountsTypeOK
    /\ FixedPoint
    /\ prefix \in PrefixSectors
    /\ table \in Seq(Cell)
    /\ Filled
    /\ fatRuns = <<>> => cursor = 1 /\ table = <<>>
    /\ fatRuns # <<>> =>
          returned /\ RunsOK /\ cursor \in 1 .. Len(fatRuns) + 1 /\ Passed /\ Written

LEMMA SmallModulo == \A num, w \in Nat : num < w => num % w = num
  OBVIOUS

\* The runs of a file that fits: no end of a run wraps around.
LEMMA EndIs ==
    ASSUME CountsTypeOK, FixedPoint, returned, TableFits, RunsOK, NEW i \in 1 .. Len(fatRuns)
    PROVE  /\ fatRuns[i] \in TableRun
           /\ TableEnd(fatRuns[i]) = fatRuns[i].first + fatRuns[i].count
           /\ fatRuns[i].first + fatRuns[i].count < Words
  <1>1. Enough(counts.fat, counts.difat)
    BY FixedPointEnough DEF ReturnsEnough
  <1>2. prefix \in Nat /\ counts.fat \in Nat /\ counts.difat \in Nat
    BY DEF CountsTypeOK
  <1>3. PICK w \in Nat : w = counts.fat * PerFAT
    BY <1>2, WordCounts
  <1>4. prefix + counts.fat + counts.difat <= w /\ w < Words
    BY <1>1, <1>3 DEF Enough, TableFits
  <1>5. fatRuns[i] \in TableRun
    BY ElementOfSeq DEF RunsOK, FatRunsTyped
  <1>6. PICK num \in Nat : num = fatRuns[i].first + fatRuns[i].count
    BY <1>5 DEF TableRun
  <1>7. num < Words
    <2>1. num <= prefix + counts.fat + counts.difat
      BY <1>6 DEF RunsOK, RunsInside, Sectors
    <2>2. QED
      BY <1>2, <1>3, <1>4, <2>1, GeometryAssumption
  <1>8. num % Words = num
    BY <1>7, GeometryAssumption, SmallModulo
  <1>9. QED
    BY <1>5, <1>6, <1>7, <1>8 DEF TableEnd, U32

\* The cursor stops at the first run that has not ended.
LEMMA SkipStops ==
    ASSUME CountsTypeOK, FixedPoint, returned, TableFits, RunsOK,
           NEW c \in 1 .. Len(fatRuns) + 1, NEW base \in Nat
    PROVE  /\ Skip(fatRuns, c, base) \in c .. Len(fatRuns) + 1
           /\ \A d \in c .. Skip(fatRuns, c, base) - 1 : TableEnd(fatRuns[d]) <= base
  <1> DEFINE stops == {x \in c .. Len(fatRuns) + 1 : x <= Len(fatRuns) => TableEnd(fatRuns[x]) > base}
  <1>1. Len(fatRuns) \in Nat
    BY DEF RunsOK, FatRunsTyped
  <1>2. stops \subseteq Nat /\ Len(fatRuns) + 1 \in stops
    BY <1>1
  <1>3. PICK x \in stops : \A y \in stops : x <= y
    BY <1>2, Least
  <1>4. ASSUME NEW d \in c .. x - 1 PROVE TableEnd(fatRuns[d]) <= base
    <2>1. d \in 1 .. Len(fatRuns) /\ d \in c .. Len(fatRuns) + 1 /\ d < x
      BY <1>1, <1>3
    <2>2. d \notin stops
      BY <1>2, <1>3, <2>1
    <2>3. TableEnd(fatRuns[d]) \in Nat
      BY <2>1, EndIs DEF TableRun
    <2>4. QED
      BY <2>1, <2>2, <2>3
  <1>5. \E y \in c .. Len(fatRuns) + 1 :
           /\ y <= Len(fatRuns) => TableEnd(fatRuns[y]) > base
           /\ \A d \in c .. y - 1 : TableEnd(fatRuns[d]) <= base
    BY <1>3, <1>4
  <1>6. QED
    BY <1>5 DEF Skip


\* The definitions inside TableSector, for words whose sector ends at end.
Inner(c, end) == {j \in c .. Len(fatRuns) : \A m \in c .. j : fatRuns[m].first < end}

Over(c, end, i) == {j \in Inner(c, end) : fatRuns[j].first <= i /\ i < TableEnd(fatRuns[j])}

WordAt(c, end, i) ==
    IF Over(c, end, i) = {} THEN FreeSect ELSE WordOf(fatRuns[Max(Over(c, end, i))], i)

At(i) == {j \in 1 .. Len(fatRuns) : i \in RunSectors(fatRuns[j])}

LEMMA SectorWords ==
    ASSUME NEW c, NEW base
    PROVE  TableSector(fatRuns, c, base)
             = [num \in 1 .. PerFAT |-> WordCell(WordAt(c, U32(base + PerFAT), base + num - 1))]
  BY DEF TableSector, WordAt, Over, Inner

\* Of the runs that hold a sector from base on, none is behind the cursor, and
\* those that begin before the end of the words are looked at.
LEMMA OverIsAt ==
    ASSUME CountsTypeOK, FixedPoint, returned, TableFits, RunsOK,
           NEW c \in 1 .. Len(fatRuns) + 1, NEW base \in Nat, NEW end \in Nat, NEW i \in Nat,
           base <= i, i < end,
           \A d \in 1 .. c - 1 : TableEnd(fatRuns[d]) <= base
    PROVE  Over(c, end, i) = At(i)
  <1>1. Len(fatRuns) \in Nat
    BY DEF RunsOK, FatRunsTyped
  <1>2. \A j \in 1 .. Len(fatRuns) :
           /\ fatRuns[j].first \in Nat /\ fatRuns[j].count \in Nat
           /\ TableEnd(fatRuns[j]) = fatRuns[j].first + fatRuns[j].count
    BY EndIs DEF TableRun
  <1>3. \A j \in 1 .. Len(fatRuns) :
           fatRuns[j].first <= i /\ i < TableEnd(fatRuns[j]) <=> i \in RunSectors(fatRuns[j])
    <2>1. TAKE j \in 1 .. Len(fatRuns)
    <2> DEFINE r == fatRuns[j]
    <2>2. r.first \in Nat /\ r.count \in Nat /\ TableEnd(r) = r.first + r.count
      BY <1>2
    <2>3. RunSectors(r) = r.first .. r.first + r.count - 1
      BY DEF RunSectors
    <2> HIDE DEF r
    <2>4. r.first <= i /\ i < TableEnd(r) <=> i \in r.first .. r.first + r.count - 1
      BY <2>2
    <2> QED
      BY <2>3, <2>4 DEF r
  <1>4. ASSUME NEW j \in Over(c, end, i) PROVE j \in At(i)
    <2>1. j \in 1 .. Len(fatRuns) /\ fatRuns[j].first <= i /\ i < TableEnd(fatRuns[j])
      BY <1>1 DEF Over, Inner
    <2>2. QED
      BY <1>3, <2>1 DEF At
  <1>5. ASSUME NEW j \in At(i) PROVE j \in Over(c, end, i)
    <2>1. j \in 1 .. Len(fatRuns) /\ fatRuns[j].first <= i /\ i < TableEnd(fatRuns[j])
      BY <1>3 DEF At
    <2>2. j \in c .. Len(fatRuns)
      <3> SUFFICES ASSUME j < c PROVE FALSE
        BY <1>1, <2>1
      <3>1. TableEnd(fatRuns[j]) <= base
        BY <2>1
      <3>2. QED
        BY <1>2, <2>1, <3>1
    <2>3. ASSUME NEW m \in c .. j PROVE fatRuns[m].first < end
      <3>1. m \in 1 .. Len(fatRuns)
        BY <1>1, <2>1
      <3>2. m = j \/ m < j
        BY <2>1
      <3>3. fatRuns[m].first <= fatRuns[j].first
        BY <1>2, <2>1, <3>1, <3>2 DEF RunsOK, RunsSorted
      <3>4. QED
        BY <1>2, <2>1, <3>1, <3>3
    <2>4. QED
      BY <2>1, <2>2, <2>3 DEF Over, Inner
  <1>6. QED
    BY <1>4, <1>5

\* As the runs are apart, one holds a sector at most.
LEMMA AtOne ==
    ASSUME RunsOK, NEW i, NEW j \in At(i)
    PROVE  At(i) = {j} /\ Max(At(i)) = j /\ (CHOOSE x \in At(i) : TRUE) = j
  <1>1. At(i) = {j}
    BY DEF At, RunsOK, RunsApart
  <1>2. j \in Int
    BY DEF At
  <1>3. QED
    BY <1>1, <1>2 DEF Max

LEMMA WordIsWanted ==
    ASSUME CountsTypeOK, FixedPoint, returned, TableFits, RunsOK,
           NEW c \in 1 .. Len(fatRuns) + 1, NEW base \in Nat, NEW end \in Nat, NEW i \in Nat,
           base <= i, i < end,
           \A d \in 1 .. c - 1 : TableEnd(fatRuns[d]) <= base
    PROVE  WordAt(c, end, i) = Wanted(i) /\ Wanted(i) \in Nat
  <1>1. Over(c, end, i) = At(i)
    BY OverIsAt
  <1>2. At(i) = {j \in DOMAIN fatRuns : i \in RunSectors(fatRuns[j])}
    <2>1. DOMAIN fatRuns = 1 .. Len(fatRuns)
      BY DEF RunsOK, FatRunsTyped
    <2>2. QED
      BY <2>1 DEF At
  <1>3. FreeSect \in Nat
    BY GeometryAssumption DEF FreeSect
  <1>4. CASE At(i) = {}
    BY <1>1, <1>2, <1>3, <1>4 DEF WordAt, Wanted
  <1>5. CASE At(i) # {}
    <2>1. PICK j \in At(i) : TRUE
      BY <1>5
    <2>2. Max(At(i)) = j /\ (CHOOSE x \in At(i) : TRUE) = j
      BY <2>1, AtOne
    <2>3. j \in 1 .. Len(fatRuns) /\ i \in RunSectors(fatRuns[j])
      BY <2>1 DEF At
    <2>4. PICK r \in TableRun : r = fatRuns[j]
      BY <2>3, EndIs
    <2>5. WordAt(c, end, i) = WordOf(r, i)
      BY <1>1, <1>5, <2>2, <2>4 DEF WordAt
    <2>6. Wanted(i) = IF r.linear /\ i < r.first + r.count - 1 THEN i + 1 ELSE r.terminal
      <3> DEFINE at == {x \in DOMAIN fatRuns : i \in RunSectors(fatRuns[x])}
                 q == fatRuns[CHOOSE x \in at : TRUE]
      <3>1. at = At(i)
        BY <1>2
      <3>2. q = r
        BY <2>2, <2>4, <3>1
      <3>3. Wanted(i) = IF at = {} THEN FreeSect
                        ELSE IF q.linear /\ i < q.first + q.count - 1 THEN i + 1 ELSE q.terminal
        BY DEF Wanted
      <3> HIDE DEF at, q
      <3>4. QED
        BY <1>5, <3>1, <3>2, <3>3
    <2>7. /\ r.first \in Nat /\ r.count \in Nat /\ r.terminal \in Nat
          /\ r.first + r.count < Words
          /\ r.first <= i /\ i <= r.first + r.count - 1
      <3>1. r.first + r.count < Words
        BY <2>3, <2>4, EndIs
      <3>2. i \in r.first .. r.first + r.count - 1
        BY <2>3, <2>4 DEF RunSectors
      <3>3. r.first \in Nat /\ r.count \in Nat /\ r.terminal \in Nat
        BY <2>4 DEF TableRun
      <3>4. QED
        BY <3>1, <3>2, <3>3
    <2>8. PICK num \in Nat : num = r.first + r.count - 1
      BY <2>7
    <2>9. U32(r.first + r.count - 1) = num
      <3>1. num < Words /\ Words \in Nat
        BY <2>7, <2>8, GeometryAssumption
      <3>2. QED
        BY <2>8, <3>1, SmallModulo DEF U32
    <2>10. i # num <=> i < num
      BY <2>7, <2>8
    <2>11. WordOf(r, i) = IF r.linear /\ i < num THEN i + 1 ELSE r.terminal
      BY <2>9, <2>10, Zenon DEF WordOf
    <2>12. Wanted(i) = IF r.linear /\ i < num THEN i + 1 ELSE r.terminal
      BY <2>6, <2>8
    <2>13. Wanted(i) \in Nat
      BY <2>7, <2>12
    <2>14. QED
      BY <2>5, <2>11, <2>12, <2>13, Zenon
  <1>6. QED
    BY <1>4, <1>5


-----------------------------------------------------------------------------
LEMMA TableInvInit == TableInit => TableInv
  <1> SUFFICES ASSUME TableInit PROVE TableInv
    OBVIOUS
  <1>1. CountsTypeOK /\ FixedPoint
    BY TypeInit, FixedPointInit DEF TableInit
  <1>2. prefix \in PrefixSectors /\ fatRuns = <<>> /\ cursor = 1 /\ table = <<>>
    BY DEF TableInit, CountInit
  <1>3. table \in Seq(Cell)
    BY <1>2
  <1>4. Filled
    <2>1. Len(table) = 0 * PerFAT
      BY <1>2, WordCounts
    <2>2. QED
      BY <2>1 DEF Filled
  <1>5. QED
    BY <1>1, <1>2, <1>3, <1>4 DEF TableInv

\* Every element of a set is in one place of a list of it.
ListOf(q, S) ==
    /\ q \in Seq(S)
    /\ \A i, j \in 1 .. Len(q) : i # j => q[i] # q[j]
    /\ \A x \in S : \E i \in 1 .. Len(q) : q[i] = x

LEMMA Listed ==
    ASSUME NEW S, IsFiniteSet(S), NEW q \in SetToSeqs(S)
    PROVE  ListOf(q, S)
  <1> DEFINE D == 1 .. Cardinality(S)
  <1>1. Cardinality(S) \in Nat /\ IsFiniteSet(D) /\ Cardinality(D) = Cardinality(S)
    BY FS_CardinalityType, FS_Interval
  <1>2. q \in [D -> S] /\ \A i, j \in D : i # j => q[i] # q[j]
    BY DEF SetToSeqs
  <1>3. q \in Injection(D, S)
    BY <1>2 DEF Injection, IsInjective
  <1>4. q \in Surjection(D, S)
    BY <1>1, <1>3, FS_Injection
  <1>5. q \in Seq(S) /\ Len(q) = Cardinality(S)
    BY <1>1, <1>2
  <1>6. \A x \in S : \E i \in D : q[i] = x
    BY <1>4 DEF Surjection
  <1>7. QED
    BY <1>2, <1>5, <1>6 DEF ListOf

\* The tables follow the file, which lies in front of them.
LEMMA TableRunsAre ==
    ASSUME CountsTypeOK
    PROVE  /\ IsFiniteSet(TableRuns)
           /\ TableRuns \subseteq TableRun
           /\ \A r \in TableRuns : prefix <= r.first /\ r.first + r.count <= Sectors
           /\ \A r, s \in TableRuns : r # s => RunSectors(r) \cap RunSectors(s) = {}
  <1> DEFINE f == [first |-> prefix, count |-> counts.fat, terminal |-> FatSect,
                   linear |-> FALSE]
             d == [first |-> prefix + counts.fat, count |-> counts.difat,
                   terminal |-> DifSect, linear |-> FALSE]
  <1>1. prefix \in Nat /\ counts.fat \in Nat /\ counts.difat \in Nat
    BY DEF CountsTypeOK
  <1>2. FatSect \in Nat /\ DifSect \in Nat
    BY GeometryAssumption DEF FatSect, DifSect
  <1>3. TableRuns = {f, d}
    BY DEF TableRuns
  <1>4. IsFiniteSet({f, d})
    <2> HIDE DEF f, d
    <2>1. IsFiniteSet({f}) /\ {f, d} = {f} \cup {d}
      BY FS_Singleton
    <2>2. IsFiniteSet({f} \cup {d})
      BY <2>1, FS_AddElement
    <2>3. QED
      BY <2>1, <2>2
  <1>5. f \in TableRun /\ d \in TableRun
    BY <1>1, <1>2 DEF TableRun
  <1>6. \A r \in {f, d} : prefix <= r.first /\ r.first + r.count <= Sectors
    BY <1>1 DEF Sectors
  <1>7. RunSectors(f) \cap RunSectors(d) = {}
    BY <1>1 DEF RunSectors
  <1> HIDE DEF f, d
  <1>8. QED
    BY <1>3, <1>4, <1>5, <1>6, <1>7

LEMMA SortedRuns ==
    ASSUME TableInv, SortFatRuns
    PROVE  RunsOK' /\ fatRuns' # <<>>
  <1>1. /\ CountsTypeOK /\ prefix \in PrefixSectors
        /\ UNCHANGED <<prefix, counts>>
    BY DEF TableInv, SortFatRuns, countVars
  <1>2. PICK list \in RunLists(prefix) :
            /\ fatRuns' \in SetToSeqs(list \cup TableRuns)
            /\ \A i, j \in DOMAIN fatRuns' : i < j => fatRuns'[i].first <= fatRuns'[j].first
    BY DEF SortFatRuns
  <1> DEFINE S == list \cup TableRuns
  <1>3. /\ IsFiniteSet(list)
        /\ list \subseteq TableRun
        /\ \A r \in list : r.first + r.count <= prefix
        /\ \A r, s \in list : r # s => RunSectors(r) \cap RunSectors(s) = {}
    BY <1>1, RunListsAssumption DEF TableRun
  <1>4. /\ IsFiniteSet(TableRuns)
        /\ TableRuns \subseteq TableRun
        /\ \A r \in TableRuns : prefix <= r.first /\ r.first + r.count <= Sectors
        /\ \A r, s \in TableRuns : r # s => RunSectors(r) \cap RunSectors(s) = {}
    BY <1>1, TableRunsAre
  <1>5. IsFiniteSet(S) /\ S \subseteq TableRun
    BY <1>3, <1>4, FS_Union
  <1>6. /\ fatRuns' \in Seq(S)
        /\ \A i, j \in 1 .. Len(fatRuns') : i # j => fatRuns'[i] # fatRuns'[j]
        /\ \A x \in S : \E i \in 1 .. Len(fatRuns') : fatRuns'[i] = x
    <2>1. \A q \in SetToSeqs(S) : ListOf(q, S)
      BY <1>5, Listed
    <2>2. ListOf(fatRuns', S)
      BY <1>2, <2>1, Zenon
    <2>3. QED
      BY <2>2 DEF ListOf
  <1>7. \A i \in 1 .. Len(fatRuns') : fatRuns'[i] \in S
    BY <1>6, ElementOfSeq
  <1>8. prefix <= Sectors /\ prefix \in Nat /\ Sectors \in Nat
    BY <1>1 DEF CountsTypeOK, Sectors
  <1>9. ASSUME NEW r \in S PROVE r.first + r.count <= Sectors
    BY <1>3, <1>4, <1>5, <1>8, <1>9 DEF TableRun
  <1>10. ASSUME NEW r \in S, NEW s \in S, r # s
         PROVE  RunSectors(r) \cap RunSectors(s) = {}
    <2>1. ASSUME NEW x \in list, NEW y \in TableRuns
          PROVE  RunSectors(x) \cap RunSectors(y) = {}
      <3>1. x \in TableRun /\ y \in TableRun /\ x.first + x.count <= prefix /\ prefix <= y.first
        BY <1>3, <1>4
      <3>2. QED
        BY <1>8, <3>1 DEF RunSectors, TableRun
    <2>2. CASE r \in list /\ s \in list
      BY <1>3, <1>10, <2>2
    <2>3. CASE r \in TableRuns /\ s \in TableRuns
      BY <1>4, <1>10, <2>3
    <2>4. CASE r \in list /\ s \in TableRuns
      BY <2>1, <2>4
    <2>5. CASE r \in TableRuns /\ s \in list
      BY <2>1, <2>5
    <2>6. QED
      BY <2>2, <2>3, <2>4, <2>5
  <1> HIDE DEF S
  <1>11. FatRunsTyped'
    BY <1>5, <1>6 DEF FatRunsTyped
  <1>12. RunsInside'
    BY <1>1, <1>7, <1>9 DEF RunsInside, Sectors
  <1>13. RunsSorted'
    <2>1. DOMAIN fatRuns' = 1 .. Len(fatRuns')
      BY <1>6
    <2>2. QED
      BY <1>2, <2>1 DEF RunsSorted
  <1>14. RunsApart'
    BY <1>6, <1>7, <1>10 DEF RunsApart
  <1>15. TableRuns \subseteq S /\ TableRuns' = TableRuns
    BY <1>1 DEF S, TableRuns
  <1>16. RunsWhole'
    BY <1>6, <1>15 DEF RunsWhole
  <1>17. fatRuns' # <<>>
    <2>1. PICK x \in TableRuns : TRUE
      BY DEF TableRuns
    <2>2. QED
      BY <1>6, <1>15, <2>1
  <1>18. QED
    BY <1>11, <1>12, <1>13, <1>14, <1>16, <1>17 DEF RunsOK


LEMMA Appended ==
    ASSUME NEW S, NEW q \in Seq(S), NEW r \in Seq(S),
           NEW a, NEW b, a = Len(q), b = Len(r)
    PROVE  /\ q \o r \in Seq(S) /\ Len(q \o r) = a + b
           /\ \A i \in 1 .. a : (q \o r)[i] = q[i]
           /\ \A i \in a + 1 .. a + b : (q \o r)[i] = r[i - a]
  OBVIOUS

\* The sector that is written, behind what there is.
LEMMA SectorWritten ==
    ASSUME TableInv, TableFits, WriteSector
    PROVE  /\ cursor' \in 1 .. Len(fatRuns) + 1
           /\ \A d \in 1 .. cursor' - 1 : TableEnd(fatRuns[d]) <= Len(table)
           /\ table' \in Seq(Cell)
           /\ Len(table) \in Nat /\ Len(table') = Len(table) + PerFAT
           /\ \A i \in 1 .. Len(table) : table'[i] = table[i]
           /\ \A i \in Len(table) + 1 .. Len(table') : table'[i] = WordCell(Wanted(i - 1))
           /\ Filled'
  <1>1. /\ fatRuns # <<>> /\ CountsTypeOK /\ FixedPoint /\ returned /\ RunsOK
        /\ cursor \in 1 .. Len(fatRuns) + 1 /\ Passed /\ table \in Seq(Cell)
    BY DEF TableInv, WriteSector
  <1>2. Len(fatRuns) \in Nat /\ PerFAT \in Nat \ {0} /\ Words \in Nat
    BY <1>1, WordCounts, GeometryAssumption DEF RunsOK, FatRunsTyped
  <1>3. PICK base \in Nat : base = Len(table)
    BY <1>1
  <1>4. PICK end \in Nat : end = base + PerFAT
    BY <1>2
  <1>5. base < Words /\ end < Words /\ \E m \in Nat : end = m * PerFAT
    <2>1. PICK m \in Nat : base = m * PerFAT
      BY <1>3 DEF TableInv, Filled
    <2>2. base < counts.fat * PerFAT /\ counts.fat \in Nat
      BY <1>1, <1>3 DEF WriteSector, CountsTypeOK
    <2>3. PICK w \in Nat : w = counts.fat * PerFAT /\ base < w /\ w < Words
      BY <1>2, <2>2 DEF TableFits
    <2>4. m < counts.fat
      <3>1. CASE counts.fat < m
        <4>1. counts.fat * PerFAT + PerFAT <= m * PerFAT
          BY <1>2, <2>2, <3>1, ProductLess
        <4>2. QED
          BY <1>2, <2>1, <2>3, <4>1
      <3>2. CASE counts.fat = m
        BY <2>1, <2>3, <3>2
      <3>3. QED
        BY <2>2, <3>1, <3>2
    <2>5. m * PerFAT + PerFAT <= counts.fat * PerFAT
      BY <1>2, <2>2, <2>4, ProductLess
    <2>6. base + PerFAT <= w
      BY <2>1, <2>3, <2>5
    <2>7. end < Words
      BY <1>2, <1>4, <2>3, <2>6
    <2>8. end = (m + 1) * PerFAT
      <3>1. (m + 1) * PerFAT = m * PerFAT + 1 * PerFAT /\ 1 * PerFAT = PerFAT
        BY <1>2
      <3>2. QED
        BY <1>4, <2>1, <3>1
    <2>9. QED
      BY <1>2, <2>3, <2>7, <2>8
  <1>6. Base = base /\ U32(base + PerFAT) = end
    BY <1>2, <1>3, <1>4, <1>5, SmallModulo DEF Base, U32
  <1>7. /\ cursor' \in cursor .. Len(fatRuns) + 1
        /\ \A d \in cursor .. cursor' - 1 : TableEnd(fatRuns[d]) <= base
    <2>1. PICK c \in 1 .. Len(fatRuns) + 1 : c = cursor
      BY <1>1
    <2>2. /\ Skip(fatRuns, c, base) \in c .. Len(fatRuns) + 1
          /\ \A d \in c .. Skip(fatRuns, c, base) - 1 : TableEnd(fatRuns[d]) <= base
      BY <1>1, SkipStops
    <2>3. cursor' = Skip(fatRuns, c, base)
      BY <1>6, <2>1 DEF WriteSector
    <2>4. QED
      BY <2>1, <2>2, <2>3
  <1>8. PICK c \in 1 .. Len(fatRuns) + 1 : c = cursor'
    BY <1>1, <1>2, <1>7
  <1>9. \A d \in 1 .. c - 1 : TableEnd(fatRuns[d]) <= base
    <2> SUFFICES ASSUME NEW d \in 1 .. c - 1 PROVE TableEnd(fatRuns[d]) <= base
      OBVIOUS
    <2>1. CASE d < cursor
      BY <1>1, <1>3, <2>1 DEF Passed
    <2>2. CASE d >= cursor
      <3>1. \A e \in cursor .. c - 1 : TableEnd(fatRuns[e]) <= base
        BY <1>7, <1>8, Zenon
      <3>2. cursor \in Int /\ d <= c - 1 /\ d \in Int
        BY <1>1
      <3>3. d \in cursor .. c - 1
        BY <2>2, <3>2
      <3>4. QED
        BY <3>1, <3>3
    <2>3. QED
      BY <1>1, <2>1, <2>2
  <1> DEFINE new == TableSector(fatRuns, c, base)
  <1>10. /\ new \in Seq(Cell) /\ Len(new) = PerFAT
         /\ \A num \in 1 .. PerFAT : new[num] = WordCell(Wanted(base + num - 1))
    <2>1. new = [num \in 1 .. PerFAT |-> WordCell(WordAt(c, end, base + num - 1))]
      BY <1>6, SectorWords
    <2>2. ASSUME NEW num \in 1 .. PerFAT
          PROVE  /\ WordAt(c, end, base + num - 1) = Wanted(base + num - 1)
                 /\ Wanted(base + num - 1) \in Nat
      <3>1. PICK i \in Nat : i = base + num - 1
        BY <1>2
      <3>2. base <= i /\ i < end
        BY <1>2, <1>4, <3>1
      <3>3. WordAt(c, end, i) = Wanted(i) /\ Wanted(i) \in Nat
        BY <1>1, <1>9, <3>2, WordIsWanted
      <3>4. QED
        BY <3>1, <3>3
    <2>3. \A num \in 1 .. PerFAT : WordCell(Wanted(base + num - 1)) \in Cell
      BY <2>2 DEF Cell
    <2>4. \A num \in 1 .. PerFAT : new[num] = WordCell(Wanted(base + num - 1))
      BY <2>1, <2>2
    <2>5. new = [num \in 1 .. PerFAT |-> new[num]]
      BY <2>1
    <2> HIDE DEF new
    <2>6. new \in [1 .. PerFAT -> Cell]
      BY <2>3, <2>4, <2>5
    <2>7. QED
      BY <1>2, <2>4, <2>6
  <1> HIDE DEF new
  <1>11. table' = table \o new
    BY <1>6, <1>8 DEF WriteSector, new
  <1>12. /\ table' \in Seq(Cell) /\ Len(table') = base + PerFAT
         /\ \A i \in 1 .. base : table'[i] = table[i]
         /\ \A i \in base + 1 .. base + PerFAT : table'[i] = new[i - base]
    <2>1. /\ table \o new \in Seq(Cell) /\ Len(table \o new) = base + PerFAT
          /\ \A i \in 1 .. base : (table \o new)[i] = table[i]
          /\ \A i \in base + 1 .. base + PerFAT : (table \o new)[i] = new[i - base]
      BY <1>1, <1>3, <1>10, Appended
    <2>2. QED
      BY <1>11, <2>1
  <1>13. ASSUME NEW i \in base + 1 .. base + PerFAT PROVE table'[i] = WordCell(Wanted(i - 1))
    <2>1. PICK num \in 1 .. PerFAT : num = i - base
      BY <1>2
    <2>2. base + num - 1 = i - 1
      BY <2>1
    <2>3. table'[i] = new[num]
      BY <1>12, <2>1
    <2>4. new[num] = WordCell(Wanted(base + num - 1))
      BY <1>10
    <2>5. QED
      BY <2>2, <2>3, <2>4
  <1>14. Filled'
    <2>1. Len(table') = end
      BY <1>4, <1>12
    <2>2. QED
      BY <1>5, <2>1 DEF Filled
  <1>15. cursor' \in 1 .. Len(fatRuns) + 1 /\ \A d \in 1 .. cursor' - 1 : TableEnd(fatRuns[d]) <= Len(table)
    BY <1>3, <1>8, <1>9
  <1>16. /\ Len(table) \in Nat /\ Len(table') = Len(table) + PerFAT
         /\ \A i \in 1 .. Len(table) : table'[i] = table[i]
         /\ \A i \in Len(table) + 1 .. Len(table') : table'[i] = WordCell(Wanted(i - 1))
    BY <1>3, <1>12, <1>13
  <1>17. QED
    BY <1>12, <1>14, <1>15, <1>16


LEMMA WantedStays ==
    ASSUME fatRuns' = fatRuns, NEW i
    PROVE  Wanted(i)' = Wanted(i)
  BY DEF Wanted, RunSectors

LEMMA TableInvNext == TableInv /\ TableFits /\ [TableNext]_<<countVars, tableVars>> => TableInv'
  <1> SUFFICES ASSUME TableInv, TableFits, [TableNext]_<<countVars, tableVars>> PROVE TableInv'
    OBVIOUS
  <1>1. CASE Count
    <2>1. fatRuns = <<>> /\ cursor = 1 /\ table = <<>> /\ UNCHANGED tableVars
      BY <1>1 DEF Count, CountNext, CountAgain, ReturnCounts, TableInv
    <2>2. CountsTypeOK' /\ FixedPoint'
      BY <1>1, TypeNext, FixedPointNext DEF Count, TableInv
    <2>3. prefix' = prefix
      BY <1>1 DEF Count, CountNext, CountAgain, ReturnCounts
    <2>4. fatRuns' = <<>> /\ cursor' = 1 /\ table' = table
      BY <2>1 DEF tableVars
    <2>5. Filled'
      BY <2>4 DEF TableInv, Filled
    <2>6. QED
      BY <2>1, <2>2, <2>3, <2>4, <2>5 DEF TableInv
  <1>2. CASE SortFatRuns
    <2>1. /\ returned /\ fatRuns = <<>> /\ UNCHANGED <<countVars, cursor, table>>
          /\ CountsTypeOK /\ FixedPoint /\ cursor = 1 /\ table = <<>> /\ prefix \in PrefixSectors
      BY <1>2 DEF SortFatRuns, TableInv
    <2>2. RunsOK' /\ fatRuns' # <<>>
      BY <1>2, SortedRuns
    <2>3. CountsTypeOK' /\ FixedPoint'
      BY <2>1, TypeNext, FixedPointNext
    <2>4. returned' /\ prefix' = prefix /\ cursor' = 1 /\ table' = <<>>
      BY <2>1 DEF countVars
    <2>5. cursor' \in 1 .. Len(fatRuns') + 1
      <3>1. Len(fatRuns') \in Nat
        BY <2>2 DEF RunsOK, FatRunsTyped
      <3>2. QED
        BY <2>4, <3>1
    <2>6. Passed' /\ Written'
      BY <2>4 DEF Passed, Written
    <2>7. Filled'
      BY <2>1, <2>4 DEF TableInv, Filled
    <2>8. table' \in Seq(Cell)
      BY <2>4
    <2>9. QED
      BY <2>1, <2>2, <2>3, <2>4, <2>5, <2>6, <2>7, <2>8 DEF TableInv
  <1>3. CASE WriteSector
    <2>1. /\ fatRuns # <<>> /\ UNCHANGED <<countVars, fatRuns>>
          /\ CountsTypeOK /\ FixedPoint /\ prefix \in PrefixSectors
          /\ returned /\ RunsOK /\ Written
      BY <1>3 DEF WriteSector, TableInv
    <2>2. /\ fatRuns' = fatRuns /\ returned' = returned /\ prefix' = prefix /\ counts' = counts
      BY <2>1 DEF countVars
    <2>3. CountsTypeOK' /\ FixedPoint'
      BY <2>1, TypeNext, FixedPointNext
    <2>4. RunsOK'
      BY <2>1, <2>2 DEF RunsOK, FatRunsTyped, RunsInside, RunsSorted, RunsApart, RunsWhole,
                        Sectors, TableRuns
    <2>5. /\ cursor' \in 1 .. Len(fatRuns) + 1
          /\ \A d \in 1 .. cursor' - 1 : TableEnd(fatRuns[d]) <= Len(table)
          /\ table' \in Seq(Cell)
          /\ Len(table) \in Nat /\ Len(table') = Len(table) + PerFAT
          /\ \A i \in 1 .. Len(table) : table'[i] = table[i]
          /\ \A i \in Len(table) + 1 .. Len(table') : table'[i] = WordCell(Wanted(i - 1))
          /\ Filled'
      BY <1>3, SectorWritten
    <2>6. Passed'
      <3>1. Len(fatRuns) \in Nat /\ PerFAT \in Nat
        BY <2>1, WordCounts DEF RunsOK, FatRunsTyped
      <3>2. PICK c \in 1 .. Len(fatRuns) + 1 : c = cursor'
        BY <2>5
      <3>3. \A d \in 1 .. c - 1 : TableEnd(fatRuns[d]) <= Len(table)
        BY <2>5, <3>2, Zenon
      <3>4. ASSUME NEW d \in 1 .. c - 1 PROVE TableEnd(fatRuns[d]) <= Len(table')
        <4>1. d \in 1 .. Len(fatRuns)
          BY <3>1
        <4>2. TableEnd(fatRuns[d]) \in Nat
          BY <2>1, <4>1, EndIs DEF TableRun
        <4>3. QED
          BY <2>5, <3>1, <3>3, <4>2
      <3>5. QED
        BY <2>2, <3>2, <3>4 DEF Passed
    <2>7. Written'
      <3> SUFFICES ASSUME NEW i \in 1 .. Len(table')
                   PROVE  table'[i] = WordCell(Wanted(i - 1)')
        BY DEF Written
      <3>1. table'[i] = WordCell(Wanted(i - 1))
        <4>1. CASE i \in 1 .. Len(table)
          BY <2>1, <2>5, <4>1 DEF Written
        <4>2. CASE i \in Len(table) + 1 .. Len(table')
          BY <2>5, <4>2
        <4>3. PerFAT \in Nat
          BY WordCounts
        <4>4. i \in 1 .. Len(table) \/ i \in Len(table) + 1 .. Len(table')
          <5>1. PICK num \in Nat, e \in Nat : num = Len(table) /\ e = Len(table')
            BY <2>5, <4>3
          <5>2. i \in 1 .. num \/ i \in num + 1 .. e
            BY <5>1
          <5>3. QED
            BY <5>1, <5>2
        <4>5. QED
          BY <4>1, <4>2, <4>4
      <3>2. Wanted(i - 1)' = Wanted(i - 1)
        BY <2>2, WantedStays
      <3>3. QED
        BY <3>1, <3>2
    <2>8. QED
      BY <2>1, <2>2, <2>3, <2>4, <2>5, <2>6, <2>7 DEF TableInv
  <1>4. CASE UNCHANGED <<countVars, tableVars>>
    <2>1. /\ fatRuns' = fatRuns /\ cursor' = cursor /\ table' = table
          /\ returned' = returned /\ prefix' = prefix /\ counts' = counts
      BY <1>4 DEF countVars, tableVars
    <2>2. CountsTypeOK' /\ FixedPoint'
      BY <2>1, TypeNext, FixedPointNext DEF TableInv, countVars
    <2>3. RunsOK => RunsOK'
      BY <2>1 DEF RunsOK, FatRunsTyped, RunsInside, RunsSorted, RunsApart, RunsWhole,
                  Sectors, TableRuns
    <2>4. Written => Written'
      BY <2>1, WantedStays DEF Written
    <2>5. (Passed => Passed') /\ (Filled => Filled')
      BY <2>1 DEF Passed, Filled
    <2>6. QED
      BY <2>1, <2>2, <2>3, <2>4, <2>5 DEF TableInv
  <1>5. QED
    BY <1>1, <1>2, <1>3, <1>4 DEF TableNext

\* The words of the tables' own sectors, once the FAT is complete.
LEMMA OwnWords ==
    ASSUME TableInv, fatRuns # <<>>, Len(table) = counts.fat * PerFAT,
           NEW i \in 0 .. counts.fat + counts.difat - 1
    PROVE  table[prefix + i + 1] = WordCell(IF i < counts.fat THEN FatSect ELSE DifSect)
  <1>1. CountsTypeOK /\ FixedPoint /\ returned /\ RunsOK /\ Written
    BY DEF TableInv
  <1>2. prefix \in Nat /\ counts.fat \in Nat /\ counts.difat \in Nat
    BY <1>1 DEF CountsTypeOK
  <1>3. prefix + counts.fat + counts.difat <= Len(table) /\ Len(table) \in Nat
    BY <1>1, FixedPointEnough DEF ReturnsEnough, Enough, TableInv
  <1>4. PICK x \in Nat : x = prefix + i
    BY <1>2
  <1>5. table[x + 1] = WordCell(Wanted(x))
    <2>1. x + 1 \in 1 .. Len(table) /\ (x + 1) - 1 = x
      BY <1>2, <1>3, <1>4
    <2>2. QED
      BY <1>1, <2>1 DEF Written
  <1>6. ASSUME NEW r \in TableRuns, ~r.linear, x \in RunSectors(r)
        PROVE  Wanted(x) = r.terminal
    <2>1. PICK j \in 1 .. Len(fatRuns) : fatRuns[j] = r
      BY <1>1 DEF RunsOK, RunsWhole
    <2>2. j \in At(x)
      BY <1>6, <2>1 DEF At
    <2>3. At(x) = {j} /\ (CHOOSE y \in At(x) : TRUE) = j
      BY <1>1, <2>2, AtOne
    <2>4. DOMAIN fatRuns = 1 .. Len(fatRuns)
      BY <1>1 DEF RunsOK, FatRunsTyped
    <2> DEFINE at == {y \in DOMAIN fatRuns : x \in RunSectors(fatRuns[y])}
               q == fatRuns[CHOOSE y \in at : TRUE]
    <2>5. at = At(x)
      BY <2>4 DEF At
    <2>6. q = r
      BY <2>1, <2>3, <2>5
    <2>7. Wanted(x) = IF at = {} THEN FreeSect
                      ELSE IF q.linear /\ x < q.first + q.count - 1 THEN x + 1 ELSE q.terminal
      BY DEF Wanted
    <2> HIDE DEF at, q
    <2>8. QED
      BY <1>6, <2>3, <2>5, <2>6, <2>7
  <1>7. CASE i < counts.fat
    <2> DEFINE r == [first |-> prefix, count |-> counts.fat, terminal |-> FatSect,
                     linear |-> FALSE]
    <2>1. r \in TableRuns /\ ~r.linear /\ r.terminal = FatSect
      BY DEF TableRuns
    <2>2. x \in RunSectors(r)
      BY <1>2, <1>4, <1>7 DEF RunSectors
    <2> HIDE DEF r
    <2>3. Wanted(x) = FatSect
      BY <1>6, <2>1, <2>2
    <2>4. QED
      BY <1>4, <1>5, <1>7, <2>3
  <1>8. CASE ~(i < counts.fat)
    <2> DEFINE r == [first |-> prefix + counts.fat, count |-> counts.difat,
                     terminal |-> DifSect, linear |-> FALSE]
    <2>1. r \in TableRuns /\ ~r.linear /\ r.terminal = DifSect
      BY DEF TableRuns
    <2>2. x \in RunSectors(r)
      BY <1>2, <1>4, <1>8 DEF RunSectors
    <2> HIDE DEF r
    <2>3. Wanted(x) = DifSect
      BY <1>6, <2>1, <2>2
    <2>4. QED
      BY <1>4, <1>5, <1>8, <2>3
  <1>9. QED
    BY <1>7, <1>8

(* For every list of runs, as long as every word of the FAT has a number    *)
(* that is a word: each word written is the link its sector's run asks for, *)
(* free where there is none, and the complete FAT tells which sectors are   *)
(* its own and the DIFAT's.                                                 *)
THEOREM WordsAsWanted == TableSpec /\ []TableFits => []TableAsWanted
  <1>1. TableInv => TableAsWanted
    <2> SUFFICES ASSUME TableInv PROVE TableAsWanted
      OBVIOUS
    <2>1. DOMAIN table = 1 .. Len(table)
      BY DEF TableInv
    <2>2. CASE fatRuns = <<>>
      BY <2>1, <2>2 DEF TableInv, TableAsWanted
    <2>3. CASE fatRuns # <<>>
      <3>1. \A i \in DOMAIN table : table[i] = WordCell(Wanted(i - 1))
        BY <2>1, <2>3 DEF TableInv, Written
      <3>2. Len(table) = counts.fat * PerFAT =>
              \A i \in 0 .. counts.fat + counts.difat - 1 :
                 table[prefix + i + 1] = WordCell(IF i < counts.fat THEN FatSect ELSE DifSect)
        BY <2>3, OwnWords
      <3>3. QED
        BY <3>1, <3>2 DEF TableAsWanted
    <2>4. QED
      BY <2>2, <2>3
  <1>2. QED
    BY <1>1, TableInvInit, TableInvNext, PTL DEF TableSpec

(* The counts that the table is written from are those of computeFATCounts, *)
(* enough and the least.                                                    *)
THEOREM CountsKept == TableSpec => [](ReturnsEnough /\ NeverTooMany)
  <1>1. TableInit => CountsTypeOK /\ FixedPoint /\ NeverTooMany
    BY TypeInit, FixedPointInit, LeastInit DEF TableInit
  <1>2. [TableNext]_<<countVars, tableVars>> => [CountNext]_countVars
    BY DEF TableNext, Count, SortFatRuns, WriteSector
  <1>3. CountsTypeOK /\ FixedPoint /\ NeverTooMany /\ [TableNext]_<<countVars, tableVars>>
           => CountsTypeOK' /\ FixedPoint' /\ NeverTooMany'
    BY <1>2, TypeNext, FixedPointNext, LeastNext
  <1>4. QED
    BY <1>1, <1>3, FixedPointEnough, PTL DEF TableSpec

-----------------------------------------------------------------------------
(* walkChain. The comparison of the chain's length with the table's is all  *)
(* that stops a cycle; the proof that it is enough does not count sectors:  *)
(* on a chain with a repeated sector the loop's next sector is again one of *)
(* the chain, so it never is EndOfChain.                                    *)

\* Each sector on the chain links to the next one, the last one to sec.
Linked ==
    \A i \in 1 .. Len(chain) :
        /\ InTable(chain[i])
        /\ fat[chain[i] + 1] = IF i < Len(chain) THEN chain[i + 1] ELSE sec

\* The chain begins at first.
FromFirst == first = IF chain = <<>> THEN sec ELSE chain[1]

\* After a repeated sector the walk goes round: sec is on the chain as often
\* before its end as the two places are apart.
GoesRound ==
    \A i, j \in 1 .. Len(chain) :
        i < j /\ chain[i] = chain[j] => sec = chain[Len(chain) + 1 - (j - i)]

\* No more sectors than specified.
NotLonger == n > 0 => Len(chain) <= n

\* The chain that is returned has come to its end.
OkAtEnd == pc = "ok" => sec = EndOfChain /\ (n > 0 => Len(chain) = n)

WalkInv == TypeOK /\ Linked /\ FromFirst /\ GoesRound /\ NotLonger /\ OkAtEnd

-----------------------------------------------------------------------------
LEMMA Floor == ASSUME NEW m \in Nat, NEW b \in Nat \ {0} PROVE m \div b \in Nat
  OBVIOUS

LEMMA Remainder == ASSUME NEW m \in Nat, NEW b \in Nat \ {0} PROVE m % b \in Nat
  OBVIOUS

\* Whatever a caller asks for is a natural number.
LEMMA CountsAreNat ==
    ASSUME NEW c \in Callers, NEW t \in Tables
    PROVE  CountsOf(c, t) \subseteq Nat
  <1>1. SecSize \in Nat \ {0} /\ Quads \in Nat \ {0} /\ Len(t) \in Nat
    BY GeometryAssumption, WalkAssumption
  <1>2. TableCounts(t) \subseteq Nat
    BY <1>1 DEF TableCounts
  <1>3. StreamCounts(t) \subseteq Nat
    <2>1. Len(t) * SecSize \in Nat
      BY <1>1
    <2>2. ASSUME NEW z \in 1 .. Len(t) * SecSize PROVE CeilDiv(z, SecSize) \in Nat
      <3>1. z + SecSize - 1 \in Nat
        BY <1>1, <2>1
      <3>2. QED
        BY <1>1, <3>1, Floor DEF CeilDiv
    <2>3. QED
      BY <2>2 DEF StreamCounts
  <1>4. MiniStreamCounts \subseteq Nat
    <2>1. ASSUME NEW z \in 1 .. Quads - 1
          PROVE  ((z + SecSize - 1) % Quads) \div SecSize \in Nat
      <3>1. z + SecSize - 1 \in Nat
        BY <1>1
      <3>2. (z + SecSize - 1) % Quads \in Nat
        BY <1>1, <3>1, Remainder
      <3>3. QED
        BY <1>1, <3>2, Floor
    <2>2. QED
      BY <2>1 DEF MiniStreamCounts
  <1>5. QED
    BY <1>2, <1>3, <1>4 DEF CountsOf, Callers

\* A chain of the table never comes to the word EndOfChain.
LEMMA WordsInUse ==
    /\ EndOfChain \in 0 .. Words - 1
    /\ \A s \in Int : InTable(s) => s < EndOfChain
  BY GeometryAssumption DEF EndOfChain, InTable, MaxRegSect

LEMMA WalkInvInit == Init => WalkInv
  <1> SUFFICES ASSUME Init PROVE WalkInv
    OBVIOUS
  <1>1. chain = <<>> /\ Len(chain) = 0
    BY DEF Init
  <1>2. TypeOK
    <2>1. n \in Nat
      BY CountsAreNat DEF Init
    <2>2. Len(fat) \in Nat
      BY WalkAssumption DEF Init
    <2>3. QED
      BY <1>1, <2>1, <2>2 DEF Init, TypeOK
  <1>3. Linked /\ GoesRound
    BY <1>1 DEF Linked, GoesRound
  <1>4. FromFirst /\ OkAtEnd
    BY <1>1 DEF Init, FromFirst, OkAtEnd
  <1>5. NotLonger
    BY <1>1, <1>2 DEF NotLonger, TypeOK
  <1>6. QED
    BY <1>2, <1>3, <1>4, <1>5 DEF WalkInv

\* What a turn of the loop makes of the chain.
LEMMA FollowFacts ==
    ASSUME WalkInv, Follow
    PROVE  /\ chain' = Append(chain, sec)
           /\ Len(chain') = Len(chain) + 1
           /\ \A i \in 1 .. Len(chain) : chain'[i] = chain[i]
           /\ chain'[Len(chain) + 1] = sec
           /\ Len(chain) + 1 <= Len(fat)
           /\ n > 0 => Len(chain) + 1 <= n
           /\ sec \in 0 .. Len(fat) - 1
           /\ sec' = fat[sec + 1]
           /\ sec' \in 0 .. Words - 1
           /\ UNCHANGED <<fat, first, caller, n, pc>>
           /\ Len(chain) \in Nat
           /\ Len(fat) \in Nat
  <1>1. chain \in Seq(0 .. Len(fat) - 1) /\ sec \in 0 .. Words - 1
    BY DEF WalkInv, TypeOK
  <1>2. fat \in Seq(0 .. Words - 1)
    BY WalkAssumption DEF WalkInv, TypeOK
  <1>3. Len(fat) \in Nat /\ Len(chain) \in Nat
    BY <1>1, <1>2
  <1>4. sec \in 0 .. Len(fat) - 1
    BY <1>1, <1>3 DEF Follow, InTable
  <1>5. fat[sec + 1] \in 0 .. Words - 1
    <2>1. sec + 1 \in 1 .. Len(fat)
      BY <1>3, <1>4
    <2>2. QED
      BY <1>2, <2>1, ElementOfSeq
  <1>6. chain' = Append(chain, sec) /\ sec' = fat[sec + 1]
        /\ UNCHANGED <<fat, first, caller, n, pc>>
    BY DEF Follow
  <1>7. /\ Len(chain') = Len(chain) + 1
        /\ \A i \in 1 .. Len(chain) : chain'[i] = chain[i]
        /\ chain'[Len(chain) + 1] = sec
    BY <1>1, <1>3, <1>6
  <1>8. Len(chain) + 1 <= Len(fat) /\ (n > 0 => Len(chain) + 1 <= n)
    BY DEF Follow, LengthAllowed
  <1>9. QED
    BY <1>3, <1>4, <1>5, <1>6, <1>7, <1>8

LEMMA FollowTypes == WalkInv /\ Follow => TypeOK'
  <1> SUFFICES ASSUME WalkInv, Follow PROVE TypeOK'
    OBVIOUS
  <1>1. chain \in Seq(0 .. Len(fat) - 1)
    BY DEF WalkInv, TypeOK
  <1>2. sec \in 0 .. Len(fat) - 1
    BY FollowFacts
  <1>3. chain' = Append(chain, sec)
    BY DEF Follow
  <1>4. chain' \in Seq(0 .. Len(fat) - 1)
    BY <1>1, <1>2, <1>3, AppendProperties
  <1>5. /\ UNCHANGED <<fat, first, caller, n, pc>>
        /\ sec' \in 0 .. Words - 1
        /\ Len(chain') <= Len(fat)
    BY FollowFacts
  <1>6. TypeOK
    BY DEF WalkInv
  <1>7. QED
    BY <1>4, <1>5, <1>6 DEF TypeOK

LEMMA FollowLinked == WalkInv /\ Follow => Linked'
  <1> SUFFICES ASSUME WalkInv, Follow, NEW i \in 1 .. Len(chain')
               PROVE  /\ chain'[i] <= MaxRegSect
                      /\ chain'[i] < Len(fat')
                      /\ fat'[chain'[i] + 1] = IF i < Len(chain') THEN chain'[i + 1] ELSE sec'
    BY DEF Linked, InTable
  <1>1. CASE i = Len(chain) + 1
    <2>1. chain'[i] = sec /\ ~(i < Len(chain'))
      BY <1>1, FollowFacts
    <2>2. InTable(sec) /\ fat' = fat /\ sec' = fat[sec + 1]
      BY DEF Follow
    <2>3. QED
      BY <2>1, <2>2, FollowFacts DEF InTable
  <1>2. CASE i \in 1 .. Len(chain)
    <2>1. chain'[i] = chain[i] /\ fat' = fat /\ i < Len(chain')
      BY <1>2, FollowFacts
    <2>2. InTable(chain[i]) /\ fat[chain[i] + 1] = IF i < Len(chain) THEN chain[i + 1] ELSE sec
      BY <1>2 DEF WalkInv, Linked
    <2>3. chain'[i + 1] = IF i < Len(chain) THEN chain[i + 1] ELSE sec
      BY <1>2, FollowFacts
    <2>4. QED
      BY <1>2, <2>1, <2>2, <2>3, FollowFacts DEF InTable
  <1>3. QED
    BY <1>1, <1>2, FollowFacts

LEMMA FollowFirst == WalkInv /\ Follow => FromFirst'
  <1> SUFFICES ASSUME WalkInv, Follow PROVE FromFirst'
    OBVIOUS
  <1>1. chain' # <<>> /\ first' = first
    BY FollowFacts
  <1>2. chain'[1] = IF chain = <<>> THEN sec ELSE chain[1]
    <2>1. chain \in Seq(0 .. Len(fat) - 1)
      BY DEF WalkInv, TypeOK
    <2>2. CASE chain = <<>>
      BY <2>2, FollowFacts
    <2>3. CASE chain # <<>>
      <3>1. 1 \in 1 .. Len(chain)
        BY <2>1, <2>3
      <3>2. QED
        BY <2>3, <3>1, FollowFacts
    <2>4. QED
      BY <2>2, <2>3
  <1>3. QED
    BY <1>1, <1>2 DEF WalkInv, FromFirst

\* The last sector of the longer chain is the old sec. If it occurred before,
\* its link is known; two older places that agree keep their distance.
LEMMA FollowRound == WalkInv /\ Follow => GoesRound'
  <1> SUFFICES ASSUME WalkInv, Follow,
                      NEW i \in 1 .. Len(chain'), NEW j \in 1 .. Len(chain'),
                      i < j, chain'[i] = chain'[j]
               PROVE  sec' = chain'[Len(chain') + 1 - (j - i)]
    BY DEF GoesRound
  <1> DEFINE L == Len(chain)
  <1>1. L \in Nat /\ Len(chain') = L + 1 /\ i \in 1 .. L
    BY FollowFacts
  <1>2. i \in Int /\ j \in Int
    BY <1>1
  <1>3. sec' = fat[sec + 1]
    BY DEF Follow
  <1>4. \A p \in 1 .. L : fat[chain[p] + 1] = chain'[p + 1]
    <2>1. SUFFICES ASSUME NEW p \in 1 .. L PROVE fat[chain[p] + 1] = chain'[p + 1]
      OBVIOUS
    <2>2. fat[chain[p] + 1] = IF p < L THEN chain[p + 1] ELSE sec
      BY DEF WalkInv, Linked
    <2>3. CASE p < L
      <3>1. p + 1 \in 1 .. L
        BY <1>1, <2>3
      <3>2. chain'[p + 1] = chain[p + 1]
        BY <3>1, FollowFacts
      <3>3. QED
        BY <2>2, <2>3, <3>2
    <2>4. CASE p = L
      <3>1. chain'[L + 1] = sec
        BY FollowFacts
      <3>2. QED
        BY <1>1, <2>2, <2>4, <3>1
    <2>5. QED
      BY <1>1, <2>3, <2>4
  <1>5. CASE j = L + 1
    <2>1. chain[i] = sec
      <3>1. chain'[L + 1] = sec /\ chain'[i] = chain[i]
        BY <1>1, FollowFacts
      <3>2. QED
        BY <1>5, <3>1
    <2>2. sec' = chain'[i + 1]
      BY <1>1, <1>3, <1>4, <2>1
    <2>3. Len(chain') + 1 - (j - i) = i + 1
      BY <1>1, <1>2, <1>5
    <2>4. QED
      BY <2>2, <2>3
  <1>6. CASE j \in 1 .. L
    <2>1. chain[i] = chain[j]
      <3>1. chain'[j] = chain[j] /\ chain'[i] = chain[i]
        BY <1>1, <1>6, FollowFacts
      <3>2. QED
        BY <3>1
    <2> DEFINE p == L + 1 - (j - i)
    <2>2. sec = chain[p]
      BY <1>1, <1>6, <2>1 DEF WalkInv, GoesRound
    <2>3. p \in 1 .. L
      BY <1>1, <1>2, <1>6
    <2>4. sec' = chain'[p + 1]
      BY <1>3, <1>4, <2>2, <2>3
    <2>5. Len(chain') + 1 - (j - i) = p + 1
      BY <1>1, <1>2
    <2>6. QED
      BY <2>4, <2>5
  <1>7. QED
    BY <1>1, <1>5, <1>6

LEMMA WalkInvNext == WalkInv /\ [Next]_vars => WalkInv'
  <1> SUFFICES ASSUME WalkInv, [Next]_vars PROVE WalkInv'
    OBVIOUS
  <1>1. CASE Follow
    <2>1. NotLonger'
      BY <1>1, FollowFacts DEF NotLonger
    <2>2. OkAtEnd'
      BY <1>1 DEF Follow, OkAtEnd
    <2>3. QED
      BY <1>1, <2>1, <2>2, FollowTypes, FollowLinked, FollowFirst, FollowRound DEF WalkInv
  <1>2. CASE Refuse
    <2>1. UNCHANGED <<fat, first, caller, n, sec, chain>> /\ pc' = "error"
      BY <1>2 DEF Refuse
    <2>2. TypeOK' /\ OkAtEnd'
      BY <2>1 DEF WalkInv, TypeOK, OkAtEnd
    <2>3. Linked' /\ FromFirst' /\ GoesRound' /\ NotLonger'
      BY <2>1 DEF WalkInv, Linked, FromFirst, GoesRound, NotLonger, InTable
    <2>4. QED
      BY <2>2, <2>3 DEF WalkInv
  <1>3. CASE Finish
    <2>1. UNCHANGED <<fat, first, caller, n, sec, chain>> /\ sec = EndOfChain
          /\ pc' \in {"ok", "error"} /\ (pc' = "ok" => ~TooShort)
      BY <1>3 DEF Finish, AtEnd
    <2>2. TypeOK'
      BY <2>1 DEF WalkInv, TypeOK
    <2>3. OkAtEnd'
      <3>1. n \in Nat /\ Len(chain) \in Nat
        BY DEF WalkInv, TypeOK
      <3>2. pc' = "ok" => (n > 0 => Len(chain) = n)
        BY <2>1, <3>1 DEF TooShort, WalkInv, NotLonger
      <3>3. QED
        BY <2>1, <3>2 DEF OkAtEnd, EndOfChain
    <2>4. Linked' /\ FromFirst' /\ GoesRound' /\ NotLonger'
      BY <2>1 DEF WalkInv, Linked, FromFirst, GoesRound, NotLonger, InTable
    <2>5. QED
      BY <2>2, <2>3, <2>4 DEF WalkInv
  <1>4. CASE UNCHANGED vars
    BY <1>4 DEF vars, WalkInv, TypeOK, Linked, FromFirst, GoesRound, NotLonger, OkAtEnd, InTable
  <1>5. QED
    BY <1>1, <1>2, <1>3, <1>4 DEF Next

(* Every index into the table is within it and the chain never outgrows it, *)
(* so walkChain neither panics at fat[sec] nor runs for ever.               *)
THEOREM WalkTyped == Spec => []TypeOK
  <1>1. WalkInv => TypeOK
    BY DEF WalkInv
  <1>2. QED
    BY <1>1, WalkInvInit, WalkInvNext, PTL DEF Spec

LEMMA ChainFollows == WalkInv => ReturnsChain
  <1> SUFFICES ASSUME WalkInv, pc = "ok" PROVE IsChain(chain) /\ (n > 0 => Len(chain) = n)
    BY DEF ReturnsChain
  <1>1. sec = EndOfChain /\ (n > 0 => Len(chain) = n)
    BY DEF WalkInv, OkAtEnd
  <1>2. DOMAIN chain = 1 .. Len(chain)
    BY DEF WalkInv, TypeOK
  <1>3. QED
    BY <1>1, <1>2 DEF WalkInv, Linked, FromFirst, IsChain

(* What walkChain returns is the chain that the table holds from first to   *)
(* EndOfChain, of the length specified if there is one.                     *)
THEOREM ChainReturned == Spec => []ReturnsChain
  BY ChainFollows, WalkInvInit, WalkInvNext, PTL DEF Spec

LEMMA OnceFollows == WalkInv => NoSectorTwice
  <1> SUFFICES ASSUME WalkInv, pc = "ok" PROVE NoSectorTwice
    BY DEF NoSectorTwice
  <1>1. sec = EndOfChain
    BY DEF WalkInv, OkAtEnd
  <1>2. chain \in Seq(0 .. Len(fat) - 1) /\ DOMAIN chain = 1 .. Len(chain)
        /\ Len(chain) \in Nat
    BY DEF WalkInv, TypeOK
  <1>3. ASSUME NEW i \in 1 .. Len(chain), NEW j \in 1 .. Len(chain),
               i < j, chain[i] = chain[j]
        PROVE  FALSE
    <2> DEFINE p == Len(chain) + 1 - (j - i)
    <2>1. p \in 1 .. Len(chain)
      BY <1>2, <1>3
    <2>2. sec = chain[p]
      BY <1>3 DEF WalkInv, GoesRound
    <2>3. InTable(chain[p]) /\ chain[p] \in Int
      BY <1>2, <2>1 DEF WalkInv, Linked, TypeOK
    <2>4. chain[p] < EndOfChain
      BY <2>3, WordsInUse
    <2>5. QED
      BY <1>1, <2>2, <2>3, <2>4
  <1>4. QED
    BY <1>2, <1>3 DEF NoSectorTwice

(* No sector is twice on a chain that is returned: no cycle gets through,   *)
(* whatever the table, and no two parts of a stream share a sector.         *)
THEOREM SectorsOnce == Spec => []NoSectorTwice
  BY OnceFollows, WalkInvInit, WalkInvNext, PTL DEF Spec

\* A route is a sequence of at most as many sectors as the table has.
LEMMA RouteType ==
    ASSUME NEW c \in Routes, Len(fat) \in Nat
    PROVE  /\ c \in Seq(Nat) /\ Len(c) \in Nat /\ Len(c) <= Len(fat)
           /\ DOMAIN c = 1 .. Len(c)
  <1>1. PICK l \in 0 .. Len(fat) : c \in [1 .. l -> 0 .. Len(fat) - 1]
    BY DEF Routes
  <1>2. l \in Nat /\ l <= Len(fat)
    BY <1>1
  <1>3. c \in [1 .. l -> Nat]
    BY <1>1
  <1>4. c \in Seq(Nat) /\ Len(c) = l
    BY <1>2, <1>3
  <1>5. QED
    BY <1>2, <1>4

\* The walk follows every chain that leads from first to the end.
OnRoute ==
    \A c \in Routes : IsChain(c) =>
        /\ Len(chain) <= Len(c)
        /\ sec = IF Len(chain) < Len(c) THEN c[Len(chain) + 1] ELSE EndOfChain

LEMMA OnRouteInit == Init => OnRoute /\ RefusesOnlyBad
  <1> SUFFICES ASSUME Init, NEW c \in Routes, IsChain(c)
               PROVE  /\ Len(chain) <= Len(c)
                      /\ sec = IF Len(chain) < Len(c) THEN c[Len(chain) + 1] ELSE EndOfChain
    BY DEF OnRoute, RefusesOnlyBad, Init
  <1>1. Len(chain) = 0 /\ sec = first
    BY DEF Init
  <1>2. Len(fat) \in Nat
    BY WalkAssumption DEF Init
  <1>3. c \in Seq(Nat) /\ Len(c) \in Nat
    BY <1>2, RouteType
  <1>4. first = IF c = <<>> THEN EndOfChain ELSE c[1]
    BY DEF IsChain
  <1>5. c = <<>> <=> Len(c) = 0
    BY <1>3
  <1>6. QED
    BY <1>1, <1>3, <1>4, <1>5

\* What a route has to do with the next turn of the loop.
LEMMA RouteStep ==
    ASSUME WalkInv, OnRoute, NEW c \in Routes, IsChain(c)
    PROVE  /\ Len(chain) \in Nat /\ Len(c) \in Nat /\ Len(fat) \in Nat
           /\ Len(chain) <= Len(c) /\ Len(c) <= Len(fat)
           /\ sec = EndOfChain => Len(chain) = Len(c)
           /\ sec # EndOfChain =>
                 /\ Len(chain) < Len(c) /\ sec = c[Len(chain) + 1] /\ InTable(sec)
                 /\ fat[sec + 1] = IF Len(chain) + 1 < Len(c) THEN c[Len(chain) + 2]
                                                            ELSE EndOfChain
  <1>1. Len(chain) \in Nat /\ Len(fat) \in Nat
    BY WalkAssumption DEF WalkInv, TypeOK
  <1>2. /\ c \in Seq(Nat) /\ Len(c) \in Nat /\ Len(c) <= Len(fat) /\ DOMAIN c = 1 .. Len(c)
    BY <1>1, RouteType
  <1>3. /\ Len(chain) <= Len(c)
        /\ sec = IF Len(chain) < Len(c) THEN c[Len(chain) + 1] ELSE EndOfChain
    BY DEF OnRoute
  <1>4. CASE Len(chain) < Len(c)
    <2>1. PICK j \in Nat : j = Len(chain) + 1
      BY <1>1
    <2>2. j \in 1 .. Len(c) /\ sec = c[j]
      BY <1>1, <1>2, <1>3, <1>4, <2>1
    <2>3. InTable(c[j]) /\ fat[c[j] + 1] = IF j < Len(c) THEN c[j + 1] ELSE EndOfChain
      BY <1>2, <2>2 DEF IsChain
    <2>4. sec \in Nat
      BY <1>2, <2>2, ElementOfSeq
    <2>5. sec # EndOfChain
      <3>1. EndOfChain \in Int /\ (InTable(sec) => sec < EndOfChain)
        BY <2>4, WordsInUse, GeometryAssumption
      <3>2. QED
        BY <2>2, <2>3, <2>4, <3>1
    <2>6. j + 1 = Len(chain) + 2
      BY <1>1, <2>1
    <2>7. QED
      BY <1>1, <1>2, <1>4, <2>1, <2>2, <2>3, <2>5, <2>6
  <1>5. CASE ~(Len(chain) < Len(c))
    BY <1>1, <1>2, <1>3, <1>5
  <1>6. QED
    BY <1>4, <1>5

LEMMA OnRouteNext == WalkInv /\ OnRoute /\ RefusesOnlyBad /\ [Next]_vars => OnRoute' /\ RefusesOnlyBad'
  <1> SUFFICES ASSUME WalkInv, OnRoute, RefusesOnlyBad, [Next]_vars
               PROVE  OnRoute' /\ RefusesOnlyBad'
    OBVIOUS
  <1>1. fat' = fat /\ first' = first /\ n' = n
    BY DEF Next, Follow, Refuse, Finish, vars
  <1>2. Routes' = Routes /\ \A c : IsChain(c)' <=> IsChain(c)
    BY <1>1 DEF Routes, IsChain, InTable
  <1>3. CASE Follow
    <2>1. pc' # "error"
      BY <1>3 DEF Follow
    <2>2. Len(chain') = Len(chain) + 1 /\ sec' = fat[sec + 1] /\ sec # EndOfChain
      BY <1>3, FollowFacts DEF Follow, AtEnd
    <2>3. ASSUME NEW c \in Routes, IsChain(c)
          PROVE  /\ Len(chain') <= Len(c)
                 /\ sec' = IF Len(chain') < Len(c) THEN c[Len(chain') + 1] ELSE EndOfChain
      <3>1. /\ Len(chain) \in Nat /\ Len(c) \in Nat /\ Len(chain) < Len(c)
            /\ fat[sec + 1] = IF Len(chain) + 1 < Len(c) THEN c[Len(chain) + 2] ELSE EndOfChain
        BY <2>2, <2>3, RouteStep
      <3>2. Len(chain') + 1 = Len(chain) + 2
        BY <2>2, <3>1
      <3>3. QED
        BY <2>2, <3>1, <3>2
    <2>4. OnRoute'
      BY <1>2, <2>3 DEF OnRoute
    <2>5. QED
      BY <2>1, <2>4 DEF RefusesOnlyBad
  <1>4. CASE ~Follow
    <2>1. chain' = chain /\ sec' = sec
      BY <1>4 DEF Next, Refuse, Finish, vars
    <2>2. OnRoute'
      BY <1>2, <2>1 DEF OnRoute
    <2>3. ASSUME NEW c \in Routes, IsChain(c), pc' = "error"
          PROVE  n > 0 /\ Len(c) # n
      <3>1. n \in Nat /\ Len(chain) \in Nat
        BY DEF WalkInv, TypeOK
      <3>2. /\ Len(c) \in Nat /\ Len(fat) \in Nat
            /\ Len(c) <= Len(fat)
            /\ sec = EndOfChain => Len(chain) = Len(c)
            /\ sec # EndOfChain => Len(chain) < Len(c) /\ InTable(sec)
        BY <2>3, RouteStep
      <3>3. CASE Refuse
        <4>1. sec # EndOfChain /\ (InTable(sec) => ~LengthAllowed(Len(chain) + 1))
          BY <3>3 DEF Refuse, AtEnd
        <4>2. ~LengthAllowed(Len(chain) + 1) /\ Len(chain) < Len(c)
          BY <3>2, <4>1
        <4>3. QED
          BY <3>1, <3>2, <4>2 DEF LengthAllowed
      <3>4. CASE Finish
        <4>1. sec = EndOfChain /\ n > 0 /\ Len(chain) < n
          BY <2>3, <3>4 DEF Finish, AtEnd, TooShort
        <4>2. QED
          BY <3>1, <3>2, <4>1
      <3>5. CASE UNCHANGED vars
        BY <2>3, <3>5 DEF RefusesOnlyBad, vars
      <3>6. QED
        BY <1>4, <3>3, <3>4, <3>5 DEF Next
    <2>4. RefusesOnlyBad'
      BY <1>1, <1>2, <2>3 DEF RefusesOnlyBad
    <2>5. QED
      BY <2>2, <2>4
  <1>5. QED
    BY <1>3, <1>4

(* Whatever the table, no chain is refused that leads from the first sector *)
(* to the end in as many sectors as the caller asks for, or any number if   *)
(* it does not.                                                             *)
THEOREM OnlyBadRefused == Spec => []RefusesOnlyBad
  <1>1. Init => WalkInv /\ OnRoute /\ RefusesOnlyBad
    BY WalkInvInit, OnRouteInit
  <1>2. WalkInv /\ OnRoute /\ RefusesOnlyBad /\ [Next]_vars
          => WalkInv' /\ OnRoute' /\ RefusesOnlyBad'
    BY WalkInvNext, OnRouteNext
  <1>3. QED
    BY <1>1, <1>2, PTL DEF Spec

-----------------------------------------------------------------------------
(* resolveRegularRuns and resolveMiniRuns: the runs cover the stream and    *)
(* address its sectors.                                                     *)

Run == [off : Int, length : Int, start : Int]

RunsTyped ==
    /\ mini \in BOOLEAN
    /\ miniStream \in Seq(Nat)
    /\ pieces \in Seq(Nat) \ {<<>>}
    /\ size \in (Len(pieces) - 1) * Unit + 1 .. Len(pieces) * Unit
    /\ k \in 0 .. Len(pieces)
    /\ cur \in Run
    /\ runs \in Seq(Run)
    /\ total \in Int

\* The pieces after the first a, up to the b-th, lie one after the other in r.
Holds(r, a, b) == \A j \in a + 1 .. b : Offset(j) = r.off + (j - 1 - a) * Unit

\* r begins with a piece and is not longer than the pieces it holds.
Located(r) ==
    \E a, b \in Nat : r.start = a * Unit /\ r.length <= (b - a) * Unit /\ Holds(r, a, b)

AllLocated == \A i \in 1 .. Len(runs) : Located(runs[i])

\* In the loop, cur holds the pieces up to the k-th that runs do not.
CurLocated ==
    stage = "loop" /\ k > 0 =>
        /\ total = cur.start
        /\ \E a \in Nat : /\ a < k
                          /\ cur.start = a * Unit
                          /\ cur.length = (k - a) * Unit
                          /\ Holds(cur, a, k)

\* Where the run after the i-th begins, and at last where the stream ends.
Border(i) ==
    IF i < Len(runs) THEN runs[i + 1].start ELSE IF stage = "done" THEN size ELSE cur.start

\* The runs follow each other.
Abut ==
    /\ \A i \in 1 .. Len(runs) :
          runs[i].length > 0 /\ runs[i].start + runs[i].length = Border(i)
    /\ Border(0) = 0
    /\ stage = "loop" /\ k = 0 => cur = NoRun /\ runs = <<>> /\ total = 0
    /\ stage = "done" => runs # <<>>

RunsInv == RunsTyped /\ AllLocated /\ CurLocated /\ Abut

-----------------------------------------------------------------------------
LEMMA Distribute == ASSUME NEW a \in Int, NEW b \in Int, NEW u \in Int
                    PROVE  (a + b) * u = a * u + b * u
  OBVIOUS

LEMMA Difference == ASSUME NEW a \in Int, NEW b \in Int, NEW u \in Int
                    PROVE  (a - b) * u = a * u - b * u
  OBVIOUS

LEMMA ProductInt == ASSUME NEW a \in Int, NEW u \in Int PROVE a * u \in Int
  OBVIOUS

LEMMA UnitPositive == ASSUME mini \in BOOLEAN PROVE Unit \in Nat \ {0}
  BY GeometryAssumption DEF Unit

\* A piece that is found has a place.
LEMMA OffsetInt ==
    ASSUME RunsTyped, k < Len(pieces), Resolvable
    PROVE  Offset(k + 1) \in Int
  <1>1. pieces \in Seq(Nat) /\ miniStream \in Seq(Nat) /\ k \in Nat
    BY DEF RunsTyped
  <1>2. pieces[k + 1] \in Nat
    <2>1. k + 1 \in 1 .. Len(pieces)
      BY <1>1 DEF RunsTyped
    <2>2. QED
      BY <1>1, <2>1, ElementOfSeq
  <1>3. SecSize \in Nat \ {0} /\ MiniSize \in Nat \ {0}
    BY GeometryAssumption
  <1>4. CASE ~mini
    <2>1. Offset(k + 1) = (pieces[k + 1] + 1) * SecSize
      BY <1>4 DEF Offset, SectorOffset
    <2>2. QED
      BY <1>2, <1>3, <2>1, ProductInt
  <1>5. CASE mini
    <2> DEFINE m == pieces[k + 1] * MiniSize
    <2>1. m \in Nat
      BY <1>2, <1>3
    <2>2. m \div SecSize \in Nat /\ m % SecSize \in Int
      BY <1>3, <2>1
    <2>3. m \div SecSize + 1 \in 1 .. Len(miniStream)
      <3>1. m \div SecSize < Len(miniStream)
        BY <1>5 DEF Resolvable
      <3>2. Len(miniStream) \in Nat
        BY <1>1
      <3>3. QED
        BY <2>2, <3>1, <3>2
    <2>4. miniStream[m \div SecSize + 1] \in Nat
      BY <1>1, <2>3, ElementOfSeq
    <2>5. (miniStream[m \div SecSize + 1] + 1) * SecSize \in Int
      BY <1>3, <2>4, ProductInt
    <2>6. Offset(k + 1) = (miniStream[m \div SecSize + 1] + 1) * SecSize + (m % SecSize)
      BY <1>5 DEF Offset, MiniOffset, SectorOffset
    <2>7. QED
      BY <2>2, <2>5, <2>6
  <1>6. QED
    BY <1>4, <1>5 DEF RunsTyped

\* What the actions leave alone.
Frame == UNCHANGED <<mini, miniStream, pieces, size>>

LEMMA FrameFacts ==
    ASSUME Frame
    PROVE  /\ Unit' = Unit
           /\ \A j : Offset(j)' = Offset(j)
           /\ \A r, a, b : Holds(r, a, b)' <=> Holds(r, a, b)
           /\ \A r : Located(r)' <=> Located(r)
  <1>1. Unit' = Unit
    BY DEF Frame, Unit
  <1>2. \A j : Offset(j)' = Offset(j)
    BY DEF Frame, Offset
  <1>3. \A r, a, b : Holds(r, a, b)' <=> Holds(r, a, b)
    BY <1>1, <1>2 DEF Holds
  <1>4. QED
    BY <1>1, <1>2, <1>3 DEF Located

\* The state in which the runs are begun.
Begun ==
    /\ mini \in BOOLEAN
    /\ miniStream \in Seq(Nat)
    /\ pieces \in Seq(Nat) \ {<<>>}
    /\ size \in (Len(pieces) - 1) * Unit + 1 .. Len(pieces) * Unit
    /\ k = 0 /\ cur = NoRun /\ runs = <<>> /\ total = 0
    /\ stage = "loop"

LEMMA BegunHolds == Begun => RunsInv
  <1> SUFFICES ASSUME Begun PROVE RunsInv
    OBVIOUS
  <1>1. Len(pieces) \in Nat
    BY DEF Begun
  <1>2. RunsTyped
    BY <1>1 DEF Begun, RunsTyped, NoRun, Run
  <1>3. AllLocated /\ CurLocated /\ Abut
    BY <1>1 DEF Begun, AllLocated, CurLocated, Abut, Border, NoRun
  <1>4. QED
    BY <1>2, <1>3 DEF RunsInv

LEMMA RunsInvInit == RunsInit => RunsInv
  BY BegunHolds, RunsAssumption DEF RunsInit, Begun

-----------------------------------------------------------------------------
\* A run that begins with the piece k + 1 holds it.
LEMMA RunBegins ==
    ASSUME RunsInv, stage = "loop", k < Len(pieces), Resolvable, Frame, k' = k + 1,
           cur' = [off |-> Offset(k + 1), length |-> Unit, start |-> total'],
           total' = k * Unit
    PROVE  cur' \in Run /\ CurLocated'
  <1>1. Unit \in Nat \ {0} /\ k \in Nat
    BY UnitPositive DEF RunsInv, RunsTyped
  <1>2. Offset(k + 1) \in Int /\ total' \in Int
    BY <1>1, OffsetInt, ProductInt DEF RunsInv
  <1>3. cur'.start = k * Unit /\ cur'.length = Unit /\ cur'.off = Offset(k + 1)
        /\ cur' \in Run
    BY <1>1, <1>2 DEF Run
  <1>4. (k' - k) * Unit = Unit
    <2>1. k' - k = 1
      BY <1>1
    <2>2. QED
      BY <1>1, <2>1
  <1>5. Holds(cur', k, k')
    <2>1. SUFFICES ASSUME NEW j \in k + 1 .. k' PROVE Offset(j) = cur'.off + (j - 1 - k) * Unit
      BY DEF Holds
    <2>2. j = k + 1 /\ j - 1 - k = 0
      BY <1>1
    <2>3. (j - 1 - k) * Unit = 0
      BY <1>1, <2>2
    <2>4. QED
      BY <1>2, <1>3, <2>2, <2>3
  <1>6. PICK a \in Nat : a = k
    BY <1>1
  <1>7. Holds(cur, a, k)'
    BY <1>5, <1>6, FrameFacts DEF Holds
  <1>8. a < k'
    BY <1>1, <1>6
  <1>9. CurLocated'
    BY <1>3, <1>4, <1>6, <1>7, <1>8, FrameFacts DEF CurLocated
  <1>10. QED
    BY <1>3, <1>9

LEMMA StepFirst == RunsInv /\ First => RunsInv'
  <1> SUFFICES ASSUME RunsInv, First PROVE RunsInv'
    OBVIOUS
  <1>1. Frame /\ stage = "loop" /\ stage' = "loop" /\ k = 0 /\ k' = 1 /\ Resolvable
        /\ runs' = runs /\ total' = total
    BY DEF First, Frame
  <1>2. cur = NoRun /\ runs = <<>> /\ total = 0
    BY <1>1 DEF RunsInv, Abut
  <1>3. Unit \in Nat \ {0} /\ Len(pieces) \in Nat /\ pieces # <<>> /\ Len(pieces) > 0
    BY UnitPositive DEF RunsInv, RunsTyped
  <1>4. k * Unit = 0
    BY <1>1, <1>3
  <1>5. cur' = [off |-> Offset(k + 1), length |-> Unit, start |-> total']
    BY <1>1, <1>2 DEF First
  <1>6. cur' \in Run /\ CurLocated'
    BY <1>1, <1>2, <1>3, <1>4, <1>5, RunBegins
  <1>7. RunsTyped'
    BY <1>1, <1>3, <1>6, FrameFacts DEF RunsInv, RunsTyped, Frame
  <1>8. AllLocated'
    BY <1>1, <1>2 DEF AllLocated
  <1>9. Abut'
    BY <1>1, <1>2, <1>5 DEF Abut, Border
  <1>10. QED
    BY <1>6, <1>7, <1>8, <1>9 DEF RunsInv

\* What the loop has before a turn that is not the first.
LEMMA CurFacts ==
    ASSUME RunsInv, stage = "loop", k > 0
    PROVE  /\ k \in Nat
           /\ Unit \in Nat \ {0}
           /\ total = cur.start
           /\ cur.off \in Int /\ cur.start \in Int /\ cur.length \in Int
           /\ cur.start + cur.length = k * Unit
           /\ cur.length > 0
           /\ \E a \in Nat : /\ a < k
                             /\ cur.start = a * Unit
                             /\ cur.length = (k - a) * Unit
                             /\ Holds(cur, a, k)
  <1>1. k \in Nat /\ Unit \in Nat \ {0} /\ cur \in Run
    BY UnitPositive DEF RunsInv, RunsTyped
  <1>2. cur.off \in Int /\ cur.start \in Int /\ cur.length \in Int
    BY <1>1 DEF Run
  <1>3. PICK a \in Nat : /\ a < k
                         /\ cur.start = a * Unit
                         /\ cur.length = (k - a) * Unit
                         /\ Holds(cur, a, k)
    BY DEF RunsInv, CurLocated
  <1>4. (k - a) * Unit = k * Unit - a * Unit
    BY <1>1, Difference
  <1>5. a * Unit + Unit <= k * Unit
    BY <1>1, <1>3, ProductLess
  <1>6. k * Unit \in Int /\ a * Unit \in Int
    BY <1>1, ProductInt
  <1>7. cur.start + cur.length = k * Unit /\ cur.length > 0
    BY <1>1, <1>3, <1>4, <1>5, <1>6
  <1>8. total = cur.start
    BY DEF RunsInv, CurLocated
  <1>9. QED
    BY <1>1, <1>2, <1>3, <1>7, <1>8

LEMMA StepExtend == RunsInv /\ Extend => RunsInv'
  <1> SUFFICES ASSUME RunsInv, Extend PROVE RunsInv'
    OBVIOUS
  <1>1. Frame /\ stage = "loop" /\ stage' = "loop" /\ k \in 1 .. Len(pieces) - 1 /\ k' = k + 1
        /\ Resolvable /\ runs' = runs /\ total' = total
        /\ Offset(k + 1) = cur.off + cur.length
        /\ cur' = [cur EXCEPT !.length = @ + Unit]
    BY DEF Extend, Frame, NextToRun
  <1>2. Len(pieces) \in Nat /\ k \in Nat /\ k > 0 /\ k < Len(pieces)
    BY <1>1 DEF RunsInv, RunsTyped
  <1>3. /\ Unit \in Nat \ {0}
        /\ total = cur.start
        /\ cur.off \in Int /\ cur.start \in Int /\ cur.length \in Int
    BY <1>1, <1>2, CurFacts
  <1>4. PICK a \in Nat : /\ a < k
                         /\ cur.start = a * Unit
                         /\ cur.length = (k - a) * Unit
                         /\ Holds(cur, a, k)
    BY <1>1, <1>2, CurFacts
  <1>5. cur' \in Run /\ cur'.off = cur.off /\ cur'.start = cur.start
        /\ cur'.length = cur.length + Unit
    <2>1. cur \in Run
      BY DEF RunsInv, RunsTyped
    <2>2. cur.length + Unit \in Int
      BY <1>3
    <2>3. QED
      BY <1>1, <2>1, <2>2 DEF Run
  <1>6. (k' - a) * Unit = (k - a) * Unit + Unit
    <2>1. k' - a = (k - a) + 1
      BY <1>1, <1>2
    <2>2. ((k - a) + 1) * Unit = (k - a) * Unit + Unit
      BY <1>2, <1>3, Distribute
    <2>3. QED
      BY <2>1, <2>2
  <1>7. Holds(cur', a, k')
    <2>1. SUFFICES ASSUME NEW j \in a + 1 .. k' PROVE Offset(j) = cur'.off + (j - 1 - a) * Unit
      BY DEF Holds
    <2>2. CASE j = k + 1
      <3>1. j - 1 - a = k - a
        BY <1>2, <2>2
      <3>2. QED
        BY <1>1, <1>4, <1>5, <2>2, <3>1
    <2>3. CASE j \in a + 1 .. k
      BY <1>4, <1>5, <2>3 DEF Holds
    <2>4. QED
      BY <1>1, <1>2, <2>2, <2>3
  <1>8. Holds(cur, a, k)'
    BY <1>7, FrameFacts, <1>1 DEF Holds
  <1>9. CurLocated'
    BY <1>1, <1>2, <1>3, <1>4, <1>5, <1>6, <1>8, FrameFacts DEF CurLocated
  <1>10. RunsTyped'
    BY <1>1, <1>2, <1>5, FrameFacts DEF RunsInv, RunsTyped, Frame
  <1>11. AllLocated'
    BY <1>1, FrameFacts DEF RunsInv, AllLocated
  <1>12. Abut'
    BY <1>1, <1>2, <1>5 DEF RunsInv, Abut, Border
  <1>13. QED
    BY <1>9, <1>10, <1>11, <1>12 DEF RunsInv

\* cur joins runs: as it is, or cut at its end.
LEMMA Joins ==
    ASSUME RunsInv, stage = "loop", k > 0, Frame, NEW cut \in Int, 0 < cut, cut <= cur.length,
           runs' = Append(runs, [cur EXCEPT !.length = cut])
    PROVE  /\ runs' \in Seq(Run)
           /\ AllLocated'
           /\ Len(runs) \in Nat
           /\ Len(runs') = Len(runs) + 1
           /\ \A i \in 1 .. Len(runs) : runs'[i] = runs[i]
           /\ runs'[Len(runs) + 1].start = cur.start
           /\ runs'[Len(runs) + 1].length = cut
  <1> DEFINE last == [cur EXCEPT !.length = cut]
  <1>1. runs \in Seq(Run) /\ cur \in Run
    BY DEF RunsInv, RunsTyped
  <1>2. last \in Run /\ last.start = cur.start /\ last.length = cut /\ last.off = cur.off
    BY <1>1 DEF Run
  <1>3. /\ Len(runs) \in Nat
        /\ runs' \in Seq(Run)
        /\ Len(runs') = Len(runs) + 1
        /\ \A i \in 1 .. Len(runs) : runs'[i] = runs[i]
        /\ runs'[Len(runs) + 1] = last
    BY <1>1, <1>2
  <1>4. Located(last)
    <2>1. PICK a \in Nat : /\ a < k
                           /\ cur.start = a * Unit
                           /\ cur.length = (k - a) * Unit
                           /\ Holds(cur, a, k)
      BY CurFacts
    <2>2. Holds(last, a, k)
      BY <1>2, <2>1 DEF Holds
    <2>3. k \in Nat
      BY CurFacts
    <2>4. QED
      BY <1>2, <2>1, <2>2, <2>3 DEF Located
  <1>5. AllLocated'
    <2>1. SUFFICES ASSUME NEW i \in 1 .. Len(runs') PROVE Located(runs'[i])
      BY FrameFacts DEF AllLocated
    <2>2. CASE i \in 1 .. Len(runs)
      BY <1>3, <2>2 DEF RunsInv, AllLocated
    <2>3. CASE i = Len(runs) + 1
      BY <1>3, <1>4, <2>3
    <2>4. QED
      BY <1>3, <2>2, <2>3
  <1>6. QED
    BY <1>2, <1>3, <1>5

LEMMA StepNewRun == RunsInv /\ NewRun => RunsInv'
  <1> SUFFICES ASSUME RunsInv, NewRun PROVE RunsInv'
    OBVIOUS
  <1>1. Frame /\ stage = "loop" /\ stage' = "loop" /\ k \in 1 .. Len(pieces) - 1 /\ k' = k + 1
        /\ Resolvable /\ runs' = Append(runs, cur) /\ total' = total + cur.length
        /\ cur' = [off |-> Offset(k + 1), length |-> Unit, start |-> total']
    BY DEF NewRun, Frame, StartAfterRun
  <1>2. Len(pieces) \in Nat /\ k \in Nat /\ k > 0 /\ k < Len(pieces)
    BY <1>1 DEF RunsInv, RunsTyped
  <1>3. /\ total' = k * Unit /\ total' = cur.start + cur.length
        /\ cur.length \in Int /\ cur.start \in Int /\ cur.length > 0
    BY <1>1, <1>2, CurFacts
  <1>4. cur' \in Run /\ CurLocated'
    BY <1>1, <1>2, <1>3, RunBegins
  <1>5. cur = [cur EXCEPT !.length = cur.length]
    BY DEF RunsInv, RunsTyped, Run
  <1>6. /\ runs' \in Seq(Run)
        /\ AllLocated'
        /\ Len(runs) \in Nat
        /\ Len(runs') = Len(runs) + 1
        /\ \A i \in 1 .. Len(runs) : runs'[i] = runs[i]
        /\ runs'[Len(runs) + 1].start = cur.start
        /\ runs'[Len(runs) + 1].length = cur.length
    <2>1. runs' = Append(runs, [cur EXCEPT !.length = cur.length])
      BY <1>1, <1>5
    <2>2. cur.length <= cur.length
      BY <1>3
    <2>3. QED
      BY <1>1, <1>2, <1>3, <2>1, <2>2, Joins
  <1>7. RunsTyped'
    <2>1. total' \in Int
      BY <1>3
    <2>2. QED
      BY <1>1, <1>2, <1>4, <1>6, <2>1, FrameFacts DEF RunsInv, RunsTyped, Frame
  <1>8. Abut'
    <2>1. cur'.start = cur.start + cur.length
      BY <1>1, <1>3
    <2>2. runs' # <<>>
      BY <1>6
    <2>3. Border(0)' = 0
      <3>1. Border(0) = IF 0 < Len(runs) THEN runs[1].start ELSE cur.start
        BY <1>1 DEF Border
      <3>2. Border(0)' = runs'[1].start
        BY <1>6 DEF Border
      <3>3. runs'[1].start = IF 0 < Len(runs) THEN runs[1].start ELSE cur.start
        BY <1>6
      <3>4. QED
        BY <3>1, <3>2, <3>3 DEF RunsInv, Abut
    <2>4. ASSUME NEW i \in 1 .. Len(runs')
          PROVE  runs'[i].length > 0 /\ runs'[i].start + runs'[i].length = Border(i)'
      <3>1. CASE i = Len(runs) + 1
        <4>1. Border(i)' = cur'.start
          BY <1>1, <1>6, <3>1 DEF Border
        <4>2. QED
          BY <1>3, <1>6, <2>1, <3>1, <4>1
      <3>2. CASE i \in 1 .. Len(runs)
        <4>1. Border(i)' = runs'[i + 1].start
          BY <1>6, <3>2 DEF Border
        <4>2. Border(i) = IF i < Len(runs) THEN runs[i + 1].start ELSE cur.start
          BY <1>1 DEF Border
        <4>3. runs'[i + 1].start = Border(i)
          BY <1>6, <3>2, <4>2
        <4>4. QED
          BY <1>6, <3>2, <4>1, <4>3 DEF RunsInv, Abut
      <3>3. QED
        BY <1>6, <3>1, <3>2
    <2>5. QED
      BY <1>1, <1>2, <2>2, <2>3, <2>4 DEF Abut
  <1>9. QED
    BY <1>4, <1>6, <1>7, <1>8 DEF RunsInv

LEMMA StepFinish == RunsInv /\ FinishRuns => RunsInv'
  <1> SUFFICES ASSUME RunsInv, FinishRuns PROVE RunsInv'
    OBVIOUS
  <1> DEFINE cut == IF total' > size THEN cur.length - (total' - size) ELSE cur.length
  <1>1. Frame /\ stage = "loop" /\ stage' = "done" /\ k = Len(pieces) /\ k' = k /\ cur' = cur
        /\ total' = total + cur.length
        /\ runs' = Append(runs, [cur EXCEPT !.length = cut])
    <2>1. cur \in Run
      BY DEF RunsInv, RunsTyped
    <2>2. [cur EXCEPT !.length = IF total' > size THEN @ - (total' - size) ELSE @]
            = [cur EXCEPT !.length = cut]
      BY <2>1 DEF Run
    <2>3. QED
      BY <2>2 DEF FinishRuns, Frame
  <1>2. Len(pieces) \in Nat /\ Len(pieces) > 0
    BY DEF RunsInv, RunsTyped
  <1>3. /\ Unit \in Nat \ {0}
        /\ total = cur.start
        /\ cur.start \in Int /\ cur.length \in Int
        /\ cur.start + cur.length = k * Unit
        /\ cur.length > 0
    BY <1>1, <1>2, CurFacts
  <1>4. PICK a \in Nat : a < k /\ cur.start = a * Unit
    BY <1>1, <1>2, CurFacts
  <1>5. (k - 1) * Unit + 1 <= size /\ size <= k * Unit /\ size \in Int
    <2>1. (k - 1) * Unit \in Int /\ k * Unit \in Int
      BY <1>1, <1>2, <1>3, ProductInt
    <2>2. size \in (k - 1) * Unit + 1 .. k * Unit
      BY <1>1 DEF RunsInv, RunsTyped
    <2>3. QED
      BY <2>1, <2>2
  <1>6. cur.start < size
    <2>1. a * Unit + Unit <= k * Unit
      <3>1. k \in Int
        BY <1>1, <1>2
      <3>2. QED
        BY <1>3, <1>4, <3>1, ProductLess
    <2>2. (k - 1) * Unit = k * Unit - 1 * Unit
      BY <1>1, <1>2, <1>3, Difference
    <2>3. PICK e \in Int, f \in Int : e = a * Unit /\ f = k * Unit
      <3>1. a * Unit \in Int /\ k * Unit \in Int
        BY <1>1, <1>2, <1>3, <1>4, ProductInt
      <3>2. QED
        BY <3>1
    <2>4. 1 * Unit = Unit
      BY <1>3
    <2>5. e + Unit <= f
      BY <2>1, <2>3
    <2>6. (k - 1) * Unit = f - Unit
      BY <2>2, <2>3, <2>4
    <2>7. f - Unit + 1 <= size /\ cur.start = e
      BY <1>4, <1>5, <2>3, <2>6
    <2>8. QED
      BY <1>3, <1>5, <2>3, <2>5, <2>7
  <1>7. cut \in Int /\ 0 < cut /\ cut <= cur.length /\ cur.start + cut = size
    <2>1. PICK x \in Int, y \in Int : x = cur.start /\ y = cur.length
      BY <1>3
    <2>2. total' = x + y /\ size \in Int /\ x < size /\ size <= x + y
      <3>1. size <= k * Unit
        BY <1>5
      <3>2. k * Unit = x + y
        BY <1>3, <2>1
      <3>3. QED
        BY <1>1, <1>3, <1>5, <1>6, <2>1, <3>1, <3>2
    <2>3. cut = IF x + y > size THEN y - (x + y - size) ELSE y
      BY <2>1, <2>2
    <2> HIDE DEF cut
    <2>4. QED
      BY <2>1, <2>2, <2>3
  <1> HIDE DEF cut
  <1>8. /\ runs' \in Seq(Run)
        /\ AllLocated'
        /\ Len(runs) \in Nat
        /\ Len(runs') = Len(runs) + 1
        /\ \A i \in 1 .. Len(runs) : runs'[i] = runs[i]
        /\ runs'[Len(runs) + 1].start = cur.start
        /\ runs'[Len(runs) + 1].length = cut
    BY <1>1, <1>2, <1>7, Joins
  <1>9. RunsTyped'
    <2>1. total' \in Int
      BY <1>1, <1>3
    <2>2. QED
      BY <1>1, <1>8, <2>1, FrameFacts DEF RunsInv, RunsTyped, Frame
  <1>10. Abut'
    <2>1. runs' # <<>>
      BY <1>8
    <2>2. Border(0)' = 0
      <3>1. Border(0) = IF 0 < Len(runs) THEN runs[1].start ELSE cur.start
        BY <1>1 DEF Border
      <3>2. Border(0)' = runs'[1].start
        BY <1>8 DEF Border
      <3>3. runs'[1].start = IF 0 < Len(runs) THEN runs[1].start ELSE cur.start
        BY <1>8
      <3>4. QED
        BY <3>1, <3>2, <3>3 DEF RunsInv, Abut
    <2>3. ASSUME NEW i \in 1 .. Len(runs')
          PROVE  runs'[i].length > 0 /\ runs'[i].start + runs'[i].length = Border(i)'
      <3>1. CASE i = Len(runs) + 1
        <4>1. Border(i)' = size
          BY <1>1, <1>8, <3>1 DEF Border, Frame
        <4>2. QED
          BY <1>7, <1>8, <3>1, <4>1
      <3>2. CASE i \in 1 .. Len(runs)
        <4>1. Border(i)' = runs'[i + 1].start
          BY <1>8, <3>2 DEF Border
        <4>2. Border(i) = IF i < Len(runs) THEN runs[i + 1].start ELSE cur.start
          BY <1>1 DEF Border
        <4>3. runs'[i + 1].start = Border(i)
          BY <1>8, <3>2, <4>2
        <4>4. QED
          BY <1>8, <3>2, <4>1, <4>3 DEF RunsInv, Abut
      <3>3. QED
        BY <1>8, <3>1, <3>2
    <2>4. QED
      BY <1>1, <2>1, <2>2, <2>3 DEF Abut
  <1>11. CurLocated'
    BY <1>1 DEF CurLocated
  <1>12. QED
    BY <1>8, <1>9, <1>10, <1>11 DEF RunsInv

LEMMA RunsInvNext == RunsInv /\ [RunsNext]_runsVars => RunsInv'
  <1> SUFFICES ASSUME RunsInv, [RunsNext]_runsVars PROVE RunsInv'
    OBVIOUS
  <1>1. CASE RefuseRuns
    <2>1. Frame /\ UNCHANGED <<k, cur, runs, total>> /\ stage = "loop" /\ stage' = "error"
      BY <1>1 DEF RefuseRuns, Frame
    <2>2. RunsTyped'
      BY <2>1, FrameFacts DEF RunsInv, RunsTyped, Frame
    <2>3. AllLocated' /\ CurLocated'
      BY <2>1, FrameFacts DEF RunsInv, AllLocated, CurLocated
    <2>4. Abut'
      BY <2>1 DEF RunsInv, Abut, Border
    <2>5. QED
      BY <2>2, <2>3, <2>4 DEF RunsInv
  <1>2. CASE UNCHANGED runsVars
    <2>1. Frame /\ UNCHANGED <<k, cur, runs, total, stage>>
      BY <1>2 DEF runsVars, Frame
    <2>2. RunsTyped'
      BY <2>1, FrameFacts DEF RunsInv, RunsTyped, Frame
    <2>3. AllLocated' /\ CurLocated'
      BY <2>1, FrameFacts DEF RunsInv, AllLocated, CurLocated
    <2>4. size' = size
      BY <2>1 DEF Frame
    <2>5. Abut'
      BY <2>1, <2>4 DEF RunsInv, Abut, Border
    <2>6. QED
      BY <2>2, <2>3, <2>5 DEF RunsInv
  <1>3. QED
    BY <1>1, <1>2, StepFirst, StepExtend, StepNewRun, StepFinish DEF RunsNext

LEMMA CoverFollows == RunsInv => RunsCover
  <1> SUFFICES ASSUME RunsInv, stage = "done"
               PROVE  /\ runs # <<>>
                      /\ runs[1].start = 0
                      /\ \A i \in 1 .. Len(runs) :
                            /\ runs[i].length > 0
                            /\ runs[i].start + runs[i].length =
                                  IF i < Len(runs) THEN runs[i + 1].start ELSE size
    BY DEF RunsCover
  <1>1. runs # <<>> /\ Len(runs) \in Nat /\ Len(runs) > 0
    BY DEF RunsInv, Abut, RunsTyped
  <1>2. runs[1].start = 0
    BY <1>1 DEF RunsInv, Abut, Border
  <1>3. QED
    BY <1>1, <1>2 DEF RunsInv, Abut, Border

(* The runs cover the stream from its first byte to its last without a gap  *)
(* or an overlap, whatever the chain: the search in ReadAt finds a run for  *)
(* every offset below Size.                                                 *)
THEOREM Covered == RunsSpec => []RunsCover
  BY CoverFollows, RunsInvInit, RunsInvNext, PTL DEF RunsSpec

\* The piece that an offset falls into, and how far.
LEMMA DivMod ==
    ASSUME NEW x \in Nat, NEW u \in Nat \ {0}
    PROVE  /\ x \div u \in Nat /\ x % u \in Nat
           /\ x = (x \div u) * u + (x % u)
           /\ x % u < u
  OBVIOUS

LEMMA LocatedAddresses ==
    ASSUME RunsInv, NEW i \in 1 .. Len(runs), NEW x \in 0 .. size - 1, Hits(runs[i], x)
    PROVE  runs[i].off + (x - runs[i].start) = Offset(x \div Unit + 1) + (x % Unit)
  <1> DEFINE r == runs[i]
             q == x \div Unit
             m == x % Unit
  <1>1. Unit \in Nat \ {0} /\ x \in Nat
    <2>1. Len(pieces) \in Nat
      BY DEF RunsInv, RunsTyped
    <2>2. Unit \in Nat \ {0}
      BY UnitPositive DEF RunsInv, RunsTyped
    <2>3. (Len(pieces) - 1) * Unit \in Int /\ Len(pieces) * Unit \in Int
      BY <2>1, <2>2, ProductInt
    <2>4. size \in Int
      BY <2>3 DEF RunsInv, RunsTyped
    <2>5. QED
      BY <2>2, <2>4
  <1>2. q \in Nat /\ m \in Nat /\ x = q * Unit + m /\ m < Unit
    BY <1>1, DivMod
  <1>3. r \in Run
    BY ElementOfSeq DEF RunsInv, RunsTyped
  <1>4. r.off \in Int /\ r.start \in Int /\ r.length \in Int
    BY <1>3 DEF Run
  <1>5. PICK a \in Nat, b \in Nat :
            r.start = a * Unit /\ r.length <= (b - a) * Unit /\ Holds(r, a, b)
    BY DEF RunsInv, AllLocated, Located
  <1>6. a * Unit \in Int /\ b * Unit \in Int /\ q * Unit \in Int
        /\ (b - a) * Unit = b * Unit - a * Unit
        /\ (q - a) * Unit = q * Unit - a * Unit
    BY <1>1, <1>2, ProductInt, Difference
  <1>7. a * Unit <= x /\ x < b * Unit
    <2>1. PICK e \in Int, f \in Int : e = a * Unit /\ f = b * Unit
      BY <1>6
    <2>2. r.start = e /\ r.length <= f - e
      BY <1>5, <1>6, <2>1
    <2>3. r.start <= x /\ x < r.start + r.length
      BY DEF Hits
    <2>4. QED
      BY <1>4, <2>1, <2>2, <2>3
  <1>8. a <= q
    <2> SUFFICES ASSUME q < a PROVE FALSE
      BY <1>2
    <2>1. q * Unit + Unit <= a * Unit
      BY <1>1, <1>2, ProductLess
    <2>2. QED
      BY <1>1, <1>2, <1>6, <1>7, <2>1
  <1>9. q < b
    <2> SUFFICES ASSUME b <= q PROVE FALSE
      BY <1>2
    <2>1. b * Unit <= q * Unit
      <3>1. CASE b = q
        BY <1>6, <3>1
      <3>2. CASE b < q
        <4>1. b * Unit + Unit <= q * Unit
          BY <1>1, <1>2, <3>2, ProductLess
        <4>2. QED
          BY <1>1, <1>6, <4>1
      <3>3. QED
        BY <1>2, <3>1, <3>2
    <2>2. QED
      BY <1>1, <1>2, <1>6, <1>7, <2>1
  <1>10. Offset(q + 1) = r.off + (q - a) * Unit
    <2>1. q + 1 \in a + 1 .. b /\ (q + 1) - 1 - a = q - a
      BY <1>2, <1>8, <1>9
    <2>2. Offset(q + 1) = r.off + ((q + 1) - 1 - a) * Unit
      BY <1>5, <2>1 DEF Holds
    <2>3. QED
      BY <2>1, <2>2
  <1>11. QED
    BY <1>1, <1>2, <1>4, <1>5, <1>6, <1>10

(* Every offset is read at its place in its sector, whatever neighbours the *)
(* chain has and however the mini-stream lies in the file.                  *)
THEOREM Addressed == RunsSpec => []RunsAddress
  <1>1. RunsInv => RunsAddress
    BY LocatedAddresses DEF RunsAddress
  <1>2. QED
    BY <1>1, RunsInvInit, RunsInvNext, PTL DEF RunsSpec


-----------------------------------------------------------------------------
(* buildStream: what the walk returns is what is resolved.                  *)

\* The number of sectors of a stream is the one its size requires.
Counted == caller = "stream" => n \in StreamCounts(fat)

\* Until the walk has returned nothing is resolved.
Waits == stage = "wait" => k = 0 /\ cur = NoRun /\ runs = <<>> /\ total = 0

\* Then the runs are made of the chain it returned.
Resolving == stage # "wait" => RunsInv /\ pc = "ok" /\ pieces = chain

\* The pieces that are accounted for lie in the mini-stream, all at the end.
Resolved ==
    /\ mini => \A j \in 1 .. k : (pieces[j] * MiniSize) \div SecSize < Len(miniStream)
    /\ stage = "done" => k = Len(pieces)

BuildInv == WalkInv /\ OnRoute /\ RefusesOnlyBad /\ Counted /\ Waits /\ Resolving /\ Resolved

\* The sectors that a size takes hold it, and one less would not.
LEMMA CeilDivBounds ==
    ASSUME NEW z \in Nat \ {0}, NEW u \in Nat \ {0}, NEW m, m = CeilDiv(z, u)
    PROVE  m \in Nat \ {0} /\ z \in (m - 1) * u + 1 .. m * u
  <1>1. PICK w \in Nat : w = z + u - 1
    OBVIOUS
  <1>2. m = w \div u
    BY <1>1 DEF CeilDiv
  <1>3. w \div u \in Nat /\ w % u \in Nat /\ w = (w \div u) * u + (w % u) /\ w % u < u
    BY <1>1, DivMod
  <1>4. PICK r \in Nat : r < u /\ m \in Nat /\ w = m * u + r
    BY <1>2, <1>3
  <1>5. m * u \in Nat /\ (m - 1) * u = m * u - 1 * u /\ 1 * u = u
    BY <1>4, Difference
  <1>6. z <= m * u /\ (m - 1) * u + 1 <= z
    BY <1>1, <1>4, <1>5
  <1>7. m # 0
    <2> SUFFICES ASSUME m = 0 PROVE FALSE
      OBVIOUS
    <2>1. m * u = 0
      OBVIOUS
    <2>2. QED
      BY <1>6, <2>1
  <1>8. QED
    BY <1>4, <1>5, <1>6, <1>7

LEMMA BuildInvInit == BuildInit => BuildInv
  <1> SUFFICES ASSUME BuildInit PROVE BuildInv
    OBVIOUS
  <1>1. WalkInv /\ OnRoute /\ RefusesOnlyBad
    BY WalkInvInit, OnRouteInit DEF BuildInit
  <1>2. Counted
    BY DEF BuildInit, Init, CountsOf, Counted
  <1>3. Waits /\ Resolving /\ Resolved
    BY DEF BuildInit, Waits, Resolving, Resolved
  <1>4. QED
    BY <1>1, <1>2, <1>3 DEF BuildInv

\* The chain that is returned for a stream is what the runs begin with.
LEMMA BeginRunsBegins == BuildInv /\ BeginRuns => Begun'
  <1> SUFFICES ASSUME BuildInv, BeginRuns PROVE Begun'
    OBVIOUS
  <1>1. /\ caller = "stream" /\ pc = "ok" /\ stage = "wait" /\ pieces' = chain
        /\ size' \in SizesFor(n) /\ mini' = (size' < Cutoff)
        /\ miniStream' \in IF mini' THEN MiniStreams ELSE {<<>>}
        /\ stage' = "loop" /\ UNCHANGED <<vars, k, cur, runs, total>>
    BY DEF BeginRuns
  <1>2. mini' \in BOOLEAN /\ miniStream' \in Seq(Nat)
    <2>1. <<>> \in Seq(Nat) /\ MiniStreams \subseteq Seq(Nat)
      BY RunsAssumption
    <2>2. mini' \in BOOLEAN
      <3>1. (size' < Cutoff) \in BOOLEAN
        OBVIOUS
      <3>2. QED
        BY <1>1, <3>1, Zenon
    <2>3. miniStream' \in Seq(Nat)
      BY <1>1, <2>1
    <2>4. QED
      BY <2>2, <2>3
  <1>3. PICK u : u = IF mini' THEN MiniSize ELSE SecSize
    OBVIOUS
  <1>4. u \in Nat \ {0} /\ SecSize \in Nat \ {0}
    BY <1>3, GeometryAssumption
  <1>5. size' \in Nat \ {0} /\ n = CeilDiv(size', u)
    <2>1. size' \in 1 .. Len(fat) * SecSize
          /\ n = CeilDiv(size', IF size' < Cutoff THEN MiniSize ELSE SecSize)
      BY <1>1 DEF SizesFor
    <2>2. u = IF size' < Cutoff THEN MiniSize ELSE SecSize
      BY <1>1, <1>3, Zenon
    <2>3. size' \in Nat \ {0}
      BY <2>1
    <2>4. QED
      BY <2>1, <2>2, <2>3, Zenon
  <1>6. n \in Nat \ {0} /\ size' \in (n - 1) * u + 1 .. n * u
    BY <1>4, <1>5, CeilDivBounds
  <1>7. Len(chain) = n
    BY <1>1, <1>6 DEF BuildInv, WalkInv, OkAtEnd
  <1>8. chain \in Seq(Nat) \ {<<>>}
    <2>1. chain \in Seq(0 .. Len(fat) - 1)
      BY DEF BuildInv, WalkInv, TypeOK
    <2>2. 0 .. Len(fat) - 1 \subseteq Nat
      <3>1. Len(fat) \in Nat
        BY WalkAssumption DEF BuildInv, WalkInv, TypeOK
      <3>2. QED
        BY <3>1
    <2>3. chain \in Seq(Nat)
      BY <2>1, <2>2, SeqMonotonic
    <2>4. chain # <<>>
      BY <1>6, <1>7
    <2>5. QED
      BY <2>3, <2>4
  <1>9. k' = 0 /\ cur' = NoRun /\ runs' = <<>> /\ total' = 0
    BY <1>1 DEF BuildInv, Waits
  <1>10. Unit' = u
    BY <1>3 DEF Unit
  <1>11. size' \in (Len(pieces') - 1) * u + 1 .. Len(pieces') * u
    BY <1>1, <1>6, <1>7
  <1>12. QED
    BY <1>1, <1>2, <1>8, <1>9, <1>10, <1>11 DEF Begun, NoRun

LEMMA BuildInvNext == BuildInv /\ [BuildNext]_buildVars => BuildInv'
  <1> SUFFICES ASSUME BuildInv, [BuildNext]_buildVars PROVE BuildInv'
    OBVIOUS
  <1>1. CASE Walk
    <2>1. Next /\ UNCHANGED runsVars
      BY <1>1 DEF Walk
    <2>2. WalkInv' /\ OnRoute' /\ RefusesOnlyBad'
      BY <2>1, WalkInvNext, OnRouteNext DEF BuildInv
    <2>3. pc = "walk" /\ fat' = fat /\ n' = n /\ caller' = caller
      BY <2>1 DEF Next, Follow, Refuse, Finish
    <2>4. Counted'
      BY <2>3 DEF BuildInv, Counted, StreamCounts
    <2>5. stage = "wait"
      BY <2>3 DEF BuildInv, Resolving
    <2>6. /\ stage' = stage /\ k' = k /\ cur' = cur /\ runs' = runs /\ total' = total
          /\ mini' = mini /\ pieces' = pieces /\ miniStream' = miniStream
      BY <2>1 DEF runsVars
    <2>7. Waits' /\ Resolving'
      BY <2>5, <2>6 DEF BuildInv, Waits, Resolving, NoRun
    <2>8. Resolved'
      BY <2>5, <2>6 DEF BuildInv, Resolved
    <2>9. QED
      BY <2>2, <2>4, <2>7, <2>8 DEF BuildInv
  <1>2. CASE BeginRuns
    <2>1. UNCHANGED vars /\ pc' = "ok" /\ pieces' = chain' /\ stage' = "loop"
      BY <1>2 DEF BeginRuns, vars
    <2>2. RunsInv'
      <3>1. Begun'
        BY <1>2, BeginRunsBegins
      <3>2. QED
        BY <3>1, BegunHolds, PTL
    <2>3. WalkInv' /\ OnRoute' /\ RefusesOnlyBad'
      BY <2>1, WalkInvNext, OnRouteNext DEF BuildInv
    <2>4. Counted'
      BY <2>1 DEF BuildInv, Counted, StreamCounts, vars
    <2>5. Waits' /\ Resolving'
      BY <2>1, <2>2 DEF Waits, Resolving
    <2>6. k' = 0
      BY <1>2 DEF BeginRuns, BuildInv, Waits
    <2>7. Resolved'
      BY <2>1, <2>6 DEF Resolved
    <2>8. QED
      BY <2>2, <2>3, <2>4, <2>5, <2>7 DEF BuildInv
  <1>3. CASE Resolve
    <2>1. RunsNext /\ UNCHANGED vars
      BY <1>3 DEF Resolve
    <2>2. stage = "loop" /\ stage' # "wait" /\ Frame
      BY <2>1 DEF RunsNext, First, Extend, NewRun, RefuseRuns, FinishRuns, Frame
    <2>3. RunsInv /\ pc = "ok" /\ pieces = chain
      BY <2>2 DEF BuildInv, Resolving
    <2>4. RunsInv'
      BY <2>1, <2>3, RunsInvNext
    <2>5. WalkInv' /\ OnRoute' /\ RefusesOnlyBad'
      BY <2>1, WalkInvNext, OnRouteNext DEF BuildInv
    <2>6. Counted'
      BY <2>1 DEF BuildInv, Counted, StreamCounts, vars
    <2>7. Waits' /\ Resolving'
      BY <2>1, <2>2, <2>3, <2>4 DEF Waits, Resolving, Frame, vars
    <2>8. k \in Nat /\ Len(pieces) \in Nat
      BY <2>3 DEF RunsInv, RunsTyped
    <2>9. \/ k' = k /\ (stage' = "done" => k = Len(pieces))
          \/ k' = k + 1 /\ Resolvable /\ stage' # "done"
      BY <2>1, <2>2, <2>8 DEF RunsNext, First, Extend, NewRun, RefuseRuns, FinishRuns
    <2>10. Resolved'
      <3>1. stage' = "done" => k' = Len(pieces')
        BY <2>2, <2>9 DEF Frame
      <3>2. ASSUME mini', NEW j \in 1 .. k'
            PROVE  (pieces[j] * MiniSize) \div SecSize < Len(miniStream)
        <4>1. mini /\ (j \in 1 .. k \/ (j = k + 1 /\ Resolvable))
          BY <2>2, <2>8, <2>9, <3>2 DEF Frame
        <4>2. QED
          BY <4>1 DEF BuildInv, Resolved, Resolvable
      <3>3. QED
        BY <2>2, <3>1, <3>2 DEF Resolved, Frame
    <2>11. QED
      BY <2>4, <2>5, <2>6, <2>7, <2>10 DEF BuildInv
  <1>4. CASE UNCHANGED buildVars
    <2>1. UNCHANGED vars /\ UNCHANGED runsVars
      BY <1>4 DEF buildVars
    <2>2. WalkInv' /\ OnRoute' /\ RefusesOnlyBad'
      BY <2>1, WalkInvNext, OnRouteNext DEF BuildInv
    <2>3. RunsInv => RunsInv'
      BY <2>1, RunsInvNext
    <2>4. /\ stage' = stage /\ k' = k /\ cur' = cur /\ runs' = runs /\ total' = total
          /\ mini' = mini /\ pieces' = pieces /\ miniStream' = miniStream
          /\ pc' = pc /\ chain' = chain /\ fat' = fat /\ n' = n /\ caller' = caller
      BY <2>1 DEF runsVars, vars
    <2>5. Counted' /\ Waits' /\ Resolved'
      BY <2>4 DEF BuildInv, Counted, StreamCounts, Waits, Resolved, NoRun
    <2>6. Resolving'
      BY <2>3, <2>4 DEF BuildInv, Resolving
    <2>7. QED
      BY <2>2, <2>5, <2>6 DEF BuildInv
  <1>5. QED
    BY <1>1, <1>2, <1>3, <1>4 DEF BuildNext


-----------------------------------------------------------------------------
(* Where the bytes of a stream lie.                                         *)

LEMMA Unique ==
    ASSUME NEW u \in Nat \ {0}, NEW a \in Nat, NEW b \in Nat, NEW r \in Nat, NEW t \in Nat,
           r < u, t < u, a * u + r = b * u + t
    PROVE  a = b /\ r = t
  <1>1. a * u \in Nat /\ b * u \in Nat
    OBVIOUS
  <1>2. CASE a < b
    <2>1. a * u + u <= b * u
      BY <1>2, ProductLess
    <2>2. QED
      BY <1>1, <2>1
  <1>3. CASE b < a
    <2>1. b * u + u <= a * u
      BY <1>3, ProductLess
    <2>2. QED
      BY <1>1, <2>1
  <1>4. CASE a = b
    BY <1>1, <1>4
  <1>5. QED
    BY <1>2, <1>3, <1>4

LEMMA QuotientOf ==
    ASSUME NEW u \in Nat \ {0}
    PROVE  \A a, r, z \in Nat : r < u /\ z = a * u + r => z \div u = a /\ z % u = r
  <1> TAKE a, r, z \in Nat
  <1>0. HAVE r < u /\ z = a * u + r
  <1>1. PICK b \in Nat, t \in Nat : b = z \div u /\ t = z % u /\ z = b * u + t /\ t < u
    BY DivMod
  <1>2. a = b /\ r = t
    BY <1>0, <1>1, Unique
  <1>3. QED
    BY <1>1, <1>2

\* A byte of a mini sector lies in the sector the mini sector begins in.
LEMMA MiniInside ==
    ASSUME NEW u \in Nat \ {0}, NEW c \in Nat \ {0}, NEW U \in Nat \ {0}, U = c * u,
           NEW m \in Nat, NEW r \in Nat, NEW z \in Nat, NEW y \in Nat,
           r < u, z = m * u, y = z + r
    PROVE  z \div U = y \div U /\ (z % U) + r = y % U
  <1>1. r < u /\ z = m * u /\ y = z + r
    OBVIOUS
  <1>2. PICK a \in Nat, b \in Nat : m = a * c + b /\ b < c
    BY DivMod
  <1>3. m * u = a * U + b * u
    BY <1>2
  <1>4. PICK t \in Nat, g \in Nat : t = b * u /\ g = a * U
    BY <1>2
  <1>5. t + u <= U
    BY <1>2, <1>4, ProductLess
  <1>6. PICK w \in Nat : w = t + r
    BY <1>4
  <1>7. t < U /\ w < U /\ z = g + t /\ y = g + w
    <2>1. z = g + t
      BY <1>1, <1>3, <1>4, Zenon
    <2>2. PICK rest \in Nat : rest = r /\ rest < u
      BY <1>1
    <2>3. t < U /\ w < U
      BY <1>4, <1>5, <1>6, <2>2
    <2>4. y = g + w
      BY <1>1, <1>4, <1>6, <2>1, <2>2
    <2>5. QED
      BY <2>1, <2>3, <2>4
  <1>8. z = a * U + t /\ y = a * U + w
    BY <1>4, <1>7
  <1>9. z \div U = a /\ z % U = t
    <2>1. \A i, j, x \in Nat : j < U /\ x = i * U + j => x \div U = i /\ x % U = j
      BY QuotientOf
    <2>2. a \in Nat /\ t \in Nat /\ t < U /\ z = a * U + t
      BY <1>2, <1>4, <1>7, <1>8
    <2>3. QED
      BY <2>1, <2>2, Zenon
  <1>10. y \div U = a /\ y % U = w
    <2>1. \A i, j, x \in Nat : j < U /\ x = i * U + j => x \div U = i /\ x % U = j
      BY QuotientOf
    <2>2. a \in Nat /\ w \in Nat /\ w < U /\ y = a * U + w
      BY <1>2, <1>6, <1>7, <1>8
    <2>3. QED
      BY <2>1, <2>2, Zenon
  <1>11. QED
    BY <1>6, <1>9, <1>10

\* Every offset of the stream falls into a run.
LEMMA HitSome ==
    ASSUME RunsInv, stage = "done", NEW x \in 0 .. size - 1
    PROVE  \E i \in 1 .. Len(runs) : Hits(runs[i], x)
  <1>1. /\ runs # <<>> /\ runs[1].start = 0
        /\ \A i \in 1 .. Len(runs) :
              runs[i].start + runs[i].length =
                 IF i < Len(runs) THEN runs[i + 1].start ELSE size
    BY CoverFollows DEF RunsCover
  <1>2. runs \in Seq(Run) /\ Len(runs) \in Nat /\ Len(runs) > 0
    BY <1>1 DEF RunsInv, RunsTyped
  <1>3. ASSUME NEW i \in 1 .. Len(runs) PROVE runs[i].start \in Int /\ runs[i].length \in Int
    <2>1. runs[i] \in Run
      BY <1>2, ElementOfSeq
    <2>2. QED
      BY <2>1 DEF Run
  <1> DEFINE T == {i \in 1 .. Len(runs) : x < runs[i].start + runs[i].length}
  <1>4. size \in Int /\ x \in Nat /\ x < size
    <2>1. Unit \in Nat \ {0} /\ Len(pieces) \in Nat
      BY UnitPositive DEF RunsInv, RunsTyped
    <2>2. (Len(pieces) - 1) * Unit \in Int /\ Len(pieces) * Unit \in Int
      BY <2>1, ProductInt
    <2>3. size \in Int
      BY <2>2 DEF RunsInv, RunsTyped
    <2>4. QED
      BY <2>3
  <1>5. Len(runs) \in T
    BY <1>1, <1>2, <1>4
  <1>6. T \subseteq Nat /\ T # {}
    BY <1>2, <1>5
  <1>7. PICK m \in T : \A j \in T : m <= j
    BY <1>6, Least
  <1>8. m \in 1 .. Len(runs) /\ m \in Nat /\ x < runs[m].start + runs[m].length
    BY <1>2, <1>7
  <1>9. runs[m].start <= x
    <2>1. CASE m = 1
      BY <1>1, <1>4, <2>1
    <2>2. CASE m # 1
      <3>1. PICK j : j = m - 1
        OBVIOUS
      <3>2. j \in 1 .. Len(runs) /\ j + 1 = m /\ j < Len(runs) /\ j < m
        BY <1>2, <1>8, <2>2, <3>1
      <3>3. j \notin T
        BY <1>2, <1>7, <1>8, <3>2
      <3>4. ~(x < runs[j].start + runs[j].length)
        BY <3>2, <3>3
      <3>5. runs[j].start + runs[j].length = runs[m].start
        BY <1>1, <3>2
      <3>6. QED
        BY <1>3, <1>4, <1>8, <3>4, <3>5
    <2>3. QED
      BY <2>1, <2>2
  <1>10. QED
    BY <1>8, <1>9 DEF Hits

LEMMA PlaceIs ==
    ASSUME RunsInv, stage = "done", NEW x \in 0 .. size - 1
    PROVE  PlaceOf(x) = Offset(x \div Unit + 1) + (x % Unit)
  <1>1. DOMAIN runs = 1 .. Len(runs)
    BY DEF RunsInv, RunsTyped
  <1>2. PICK i \in 1 .. Len(runs) :
            i = (CHOOSE j \in DOMAIN runs : Hits(runs[j], x)) /\ Hits(runs[i], x)
    BY <1>1, HitSome
  <1>3. PlaceOf(x) = runs[i].off + (x - runs[i].start)
    BY <1>2 DEF PlaceOf
  <1>4. QED
    BY <1>2, <1>3, LocatedAddresses

\* The piece that an offset of the stream falls into.
LEMMA PieceOf ==
    ASSUME RunsInv, NEW x \in 0 .. size - 1
    PROVE  /\ Unit \in Nat \ {0} /\ x \in Nat
           /\ x \div Unit \in Nat /\ x % Unit \in Nat /\ x % Unit < Unit
           /\ x = (x \div Unit) * Unit + (x % Unit)
           /\ x \div Unit + 1 \in 1 .. Len(pieces)
           /\ pieces[x \div Unit + 1] \in Nat
  <1>1. Unit \in Nat \ {0} /\ Len(pieces) \in Nat
    BY UnitPositive DEF RunsInv, RunsTyped
  <1>2. (Len(pieces) - 1) * Unit \in Int /\ Len(pieces) * Unit \in Int
    BY <1>1, ProductInt
  <1>3. x \in Nat /\ x < Len(pieces) * Unit
    BY <1>2 DEF RunsInv, RunsTyped
  <1>4. PICK q \in Nat, m \in Nat : q = x \div Unit /\ m = x % Unit /\ x = q * Unit + m /\ m < Unit
    BY <1>1, <1>3, DivMod
  <1>5. q < Len(pieces)
    <2> SUFFICES ASSUME Len(pieces) <= q PROVE FALSE
      BY <1>1, <1>4
    <2>1. CASE Len(pieces) = q
      <3>1. Len(pieces) * Unit = q * Unit
        BY <2>1
      <3>2. PICK e \in Int : e = q * Unit
        BY <1>2, <3>1
      <3>3. x < e /\ x = e + m
        BY <1>3, <1>4, <3>1, <3>2
      <3>4. QED
        BY <1>3, <1>4, <3>2, <3>3
    <2>2. CASE Len(pieces) < q
      <3>1. Len(pieces) * Unit + Unit <= q * Unit
        BY <1>1, <1>4, <2>2, ProductLess
      <3>2. q * Unit \in Int
        BY <1>1, <1>4, ProductInt
      <3>3. QED
        BY <1>1, <1>2, <1>3, <1>4, <3>1, <3>2
    <2>3. QED
      BY <1>1, <1>4, <2>1, <2>2
  <1>6. q + 1 \in 1 .. Len(pieces)
    BY <1>1, <1>4, <1>5
  <1>7. pieces[q + 1] \in Nat
    BY <1>6, ElementOfSeq DEF RunsInv, RunsTyped
  <1>8. QED
    BY <1>1, <1>3, <1>4, <1>6, <1>7

\* As many places as offsets, if no two have the same.
LEMMA CountPlaces ==
    ASSUME NEW N \in Nat, NEW f \in [0 .. N - 1 -> Nat],
           \A x, y \in 0 .. N - 1 : f[x] = f[y] => x = y
    PROVE  Cardinality({f[x] : x \in 0 .. N - 1}) = N
  <1> DEFINE S == 0 .. N - 1
             T == {f[x] : x \in S}
  <1>1. IsFiniteSet(S) /\ Cardinality(S) = N
    BY FS_Interval
  <1>2. f \in [S -> T] /\ \A t \in T : \E s \in S : f[s] = t
    OBVIOUS
  <1>3. f \in Surjection(S, T) /\ f \in Injection(S, T)
    BY <1>2 DEF Surjection, Injection, IsInjective
  <1>4. Cardinality(T) = Cardinality(S)
    BY <1>1, <1>3, FS_Surjection
  <1>5. QED
    BY <1>1, <1>4


\* Two offsets of one piece, or of pieces of one content, are one offset.
LEMMA SameOffset ==
    ASSUME BuildInv, stage = "done", NEW x \in 0 .. size - 1, NEW y \in 0 .. size - 1,
           pieces[x \div Unit + 1] = pieces[y \div Unit + 1], x % Unit = y % Unit
    PROVE  x = y
  <1>1. RunsInv /\ pc = "ok" /\ pieces = chain
    BY DEF BuildInv, Resolving
  <1>2. \A i, j \in 1 .. Len(pieces) : pieces[i] = pieces[j] => i = j
    <2>1. NoSectorTwice
      BY OnceFollows DEF BuildInv
    <2>2. DOMAIN chain = 1 .. Len(chain)
      BY DEF BuildInv, WalkInv, TypeOK
    <2>3. QED
      BY <1>1, <2>1, <2>2 DEF NoSectorTwice
  <1>3. /\ x \div Unit \in Nat /\ x = (x \div Unit) * Unit + (x % Unit)
        /\ x \div Unit + 1 \in 1 .. Len(pieces)
    BY <1>1, PieceOf
  <1>4. /\ y \div Unit \in Nat /\ y = (y \div Unit) * Unit + (y % Unit)
        /\ y \div Unit + 1 \in 1 .. Len(pieces)
    BY <1>1, PieceOf
  <1>5. x \div Unit + 1 = y \div Unit + 1
    BY <1>2, <1>3, <1>4
  <1>6. x \div Unit = y \div Unit
    BY <1>3, <1>4, <1>5
  <1>7. QED
    BY <1>3, <1>4, <1>6

\* In the FAT a byte lies in the sector of its piece.
LEMMA RegularPlace ==
    ASSUME BuildInv, stage = "done", ~mini, NEW x \in 0 .. size - 1
    PROVE  \E s \in Nat, r \in Nat :
              /\ s = pieces[x \div Unit + 1] /\ r = x % Unit /\ r < SecSize
              /\ PlaceOf(x) = (s + 1) * SecSize + r
              /\ s \in Range(chain)
  <1>1. RunsInv /\ pieces = chain
    BY DEF BuildInv, Resolving
  <1>2. PlaceOf(x) = Offset(x \div Unit + 1) + (x % Unit)
    BY <1>1, PlaceIs
  <1>3. Unit = SecSize
    BY DEF Unit
  <1>4. PICK i \in 1 .. Len(pieces), s \in Nat, r \in Nat :
            i = x \div Unit + 1 /\ s = pieces[i] /\ r = x % Unit /\ r < Unit
    BY <1>1, PieceOf
  <1>5. Offset(i) = (s + 1) * SecSize
    BY <1>4 DEF Offset, SectorOffset
  <1>6. s \in Range(chain)
    <2>1. DOMAIN chain = 1 .. Len(chain)
      BY DEF BuildInv, WalkInv, TypeOK
    <2>2. QED
      BY <1>1, <1>4, <2>1 DEF Range
  <1>7. QED
    BY <1>2, <1>3, <1>4, <1>5, <1>6

\* In the mini-stream: in the sector that holds byte y of the mini-stream.
LEMMA MiniPlace ==
    ASSUME BuildInv, stage = "done", mini, NEW x \in 0 .. size - 1
    PROVE  \E m \in Nat, r \in Nat, y \in Nat :
              /\ m = pieces[x \div Unit + 1] /\ r = x % Unit /\ r < MiniSize
              /\ y = m * MiniSize + r
              /\ y \div SecSize + 1 \in 1 .. Len(miniStream)
              /\ PlaceOf(x) = (miniStream[y \div SecSize + 1] + 1) * SecSize + (y % SecSize)
  <1>1. RunsInv /\ stage # "wait"
    BY DEF BuildInv, Resolving
  <1>2. PlaceOf(x) = Offset(x \div Unit + 1) + (x % Unit)
    BY <1>1, PlaceIs
  <1>3. Unit = MiniSize
    BY DEF Unit
  <1>4. PICK j \in 1 .. Len(pieces), m \in Nat, r \in Nat :
            j = x \div Unit + 1 /\ m = pieces[j] /\ r = x % Unit /\ r < Unit
    BY <1>1, PieceOf
  <1>5. MiniSize \in Nat \ {0} /\ SecSize \in Nat \ {0}
    BY GeometryAssumption
  <1>7. PICK v \in Nat : v = m * MiniSize
    BY <1>5
  <1>8. PICK y \in Nat : y = v + r
    OBVIOUS
  <1>9. v \div SecSize = y \div SecSize /\ (v % SecSize) + r = y % SecSize
    <2>1. PICK c \in Nat \ {0} : SecSize = c * MiniSize
      <3>1. PICK c \in Nat : c = SecSize \div MiniSize /\ SecSize = c * MiniSize + (SecSize % MiniSize)
        BY <1>5, DivMod
      <3>2. SecSize = c * MiniSize
        <4>1. c * MiniSize \in Nat
          BY <1>5
        <4>2. QED
          BY <3>1, <4>1, GeometryAssumption
      <3>3. c # 0
        BY <1>5, <3>2
      <3>4. QED
        BY <3>2, <3>3
    <2>2. r < MiniSize
      BY <1>3, <1>4
    <2>3. QED
      BY <1>5, <1>7, <1>8, <2>1, <2>2, MiniInside
  <1>10. PICK a \in Nat, t \in Nat : a = y \div SecSize /\ t = y % SecSize /\ t < SecSize
    <2>1. y \div SecSize \in Nat /\ y % SecSize \in Nat /\ y % SecSize < SecSize
      BY <1>5, DivMod
    <2>2. QED
      BY <2>1
  <1>11. a < Len(miniStream)
    <2>1. k = Len(pieces)
      BY DEF BuildInv, Resolved
    <2>2. (pieces[j] * MiniSize) \div SecSize < Len(miniStream)
      BY <1>4, <2>1 DEF BuildInv, Resolved
    <2>3. QED
      BY <1>4, <1>7, <1>9, <1>10, <2>2
  <1>12. miniStream \in Seq(Nat) /\ Len(miniStream) \in Nat
    BY <1>1 DEF RunsInv, RunsTyped
  <1>13. PICK i \in 1 .. Len(miniStream) : i = a + 1
    BY <1>11, <1>12
  <1>14. PICK s \in Nat : s = miniStream[i]
    BY <1>12, ElementOfSeq
  <1>15. Offset(j) = (s + 1) * SecSize + (v % SecSize)
    <2>1. Offset(j) = SectorOffset(miniStream[v \div SecSize + 1]) + (v % SecSize)
      BY <1>4, <1>7 DEF Offset, MiniOffset
    <2>2. v \div SecSize + 1 = i
      BY <1>9, <1>10, <1>13
    <2>3. QED
      BY <1>14, <2>1, <2>2 DEF SectorOffset
  <1>16. PlaceOf(x) = (s + 1) * SecSize + t
    <2>1. PICK e \in Nat : e = (s + 1) * SecSize
      BY <1>5
    <2>2. PICK g \in Nat : g = v % SecSize
      BY <1>5, DivMod
    <2>3. PlaceOf(x) = (e + g) + r /\ g + r = t
      BY <1>2, <1>4, <1>9, <1>10, <1>15, <2>1, <2>2
    <2>4. QED
      BY <2>1, <2>2, <2>3
  <1>17. /\ m = pieces[x \div Unit + 1] /\ r = x % Unit /\ r < MiniSize
         /\ y = m * MiniSize + r
    BY <1>3, <1>4, <1>7, <1>8
  <1>18. /\ y \div SecSize + 1 \in 1 .. Len(miniStream)
         /\ PlaceOf(x) = (miniStream[y \div SecSize + 1] + 1) * SecSize + (y % SecSize)
    BY <1>10, <1>13, <1>14, <1>16
  <1>19. QED
    BY <1>17, <1>18


Places == {PlaceOf(x) : x \in 0 .. size - 1}

\* As many places as offsets, when no two have the same place.
LEMMA AsManyPlaces ==
    ASSUME BuildInv, stage = "done", \A x \in 0 .. size - 1 : PlaceOf(x) \in Nat,
           \A x, y \in 0 .. size - 1 : PlaceOf(x) = PlaceOf(y) => x = y
    PROVE  Cardinality(Places) = size
  <1>1. size \in Nat
    <2>1. RunsInv
      BY DEF BuildInv, Resolving
    <2>2. Unit \in Nat \ {0} /\ Len(pieces) \in Nat /\ Len(pieces) # 0
      BY <2>1, UnitPositive DEF RunsInv, RunsTyped
    <2>3. Len(pieces) - 1 \in Nat
      BY <2>2
    <2>4. (Len(pieces) - 1) * Unit \in Nat /\ Len(pieces) * Unit \in Int
      BY <2>2, <2>3, ProductInt
    <2>5. QED
      BY <2>1, <2>4 DEF RunsInv, RunsTyped
  <1> DEFINE f == [x \in 0 .. size - 1 |-> PlaceOf(x)]
  <1>2. f \in [0 .. size - 1 -> Nat] /\ \A x \in 0 .. size - 1 : f[x] = PlaceOf(x)
    OBVIOUS
  <1> HIDE DEF f
  <1>3. \A x, y \in 0 .. size - 1 : f[x] = f[y] => x = y
    BY <1>2
  <1>4. Cardinality({f[x] : x \in 0 .. size - 1}) = size
    BY <1>1, <1>2, <1>3, CountPlaces
  <1>5. {f[x] : x \in 0 .. size - 1} = Places
    BY <1>2 DEF Places
  <1>6. QED
    BY <1>4, <1>5

\* The place of a byte determines its sector and where in it the byte lies.
LEMMA SectorOfPlace ==
    ASSUME NEW u \in Nat \ {0}
    PROVE  \A s, r, z \in Nat : r < u /\ z = (s + 1) * u + r => z >= u /\ z \div u - 1 = s
  <1>1. ASSUME NEW s \in Nat, NEW r \in Nat, NEW z \in Nat, r < u, z = (s + 1) * u + r
        PROVE  z >= u /\ z \div u - 1 = s
    <2>1. PICK a \in Nat : a = s + 1
      OBVIOUS
    <2>2. \A i, j, x \in Nat : j < u /\ x = i * u + j => x \div u = i /\ x % u = j
      BY QuotientOf
    <2>3. z \div u = a
      BY <1>1, <2>1, <2>2
    <2>4. s * u \in Nat /\ (s + 1) * u = s * u + 1 * u /\ 1 * u = u
      BY Distribute
    <2>5. z >= u
      BY <1>1, <2>4
    <2>6. QED
      BY <2>1, <2>3, <2>5
  <1>2. QED
    BY <1>1, Zenon

\* A place has one sector and one byte in it.
LEMMA OnePlace ==
    ASSUME NEW u \in Nat \ {0}, NEW s \in Nat, NEW r \in Nat, NEW i \in Nat, NEW j \in Nat,
           r < u, j < u, (s + 1) * u + r = (i + 1) * u + j
    PROVE  s = i /\ r = j
  <1>1. PICK a \in Nat, b \in Nat : a = s + 1 /\ b = i + 1
    OBVIOUS
  <1>2. a * u + r = b * u + j
    BY <1>1
  <1>3. a = b /\ r = j
    BY <1>2, Unique
  <1>4. QED
    BY <1>1, <1>3

LEMMA RegularApart ==
    ASSUME BuildInv, stage = "done", ~mini
    PROVE  /\ \A p \in Places : p >= SecSize /\ p \div SecSize - 1 \in Range(chain)
           /\ Cardinality(Places) = size
  <1>1. SecSize \in Nat \ {0}
    BY GeometryAssumption
  <1>0. \A s, r, z \in Nat :
           r < SecSize /\ z = (s + 1) * SecSize + r => z >= SecSize /\ z \div SecSize - 1 = s
    BY <1>1, SectorOfPlace
  <1>2. ASSUME NEW x \in 0 .. size - 1
        PROVE  /\ PlaceOf(x) \in Nat /\ PlaceOf(x) >= SecSize
               /\ PlaceOf(x) \div SecSize - 1 \in Range(chain)
    <2>1. PICK s \in Nat, r \in Nat :
              r < SecSize /\ PlaceOf(x) = (s + 1) * SecSize + r /\ s \in Range(chain)
      BY RegularPlace
    <2>2. PICK z \in Nat : z = PlaceOf(x)
      BY <1>1, <2>1
    <2>3. z >= SecSize /\ z \div SecSize - 1 = s
      BY <1>0, <2>1, <2>2, Zenon
    <2>4. QED
      BY <2>1, <2>2, <2>3
  <1>3. ASSUME NEW x \in 0 .. size - 1, NEW y \in 0 .. size - 1, PlaceOf(x) = PlaceOf(y)
        PROVE  x = y
    <2>1. PICK s \in Nat, r \in Nat :
              /\ s = pieces[x \div Unit + 1] /\ r = x % Unit /\ r < SecSize
              /\ PlaceOf(x) = (s + 1) * SecSize + r
      BY RegularPlace
    <2>2. PICK i \in Nat, j \in Nat :
              /\ i = pieces[y \div Unit + 1] /\ j = y % Unit /\ j < SecSize
              /\ PlaceOf(y) = (i + 1) * SecSize + j
      BY RegularPlace
    <2>3. (s + 1) * SecSize + r = (i + 1) * SecSize + j
      BY <1>3, <2>1, <2>2, Zenon
    <2>4. s = i /\ r = j
      BY <1>1, <2>1, <2>2, <2>3, OnePlace
    <2>5. QED
      BY <2>1, <2>2, <2>4, SameOffset
  <1>4. Cardinality(Places) = size
    BY <1>2, <1>3, AsManyPlaces
  <1>5. QED
    BY <1>2, <1>4 DEF Places

LEMMA MiniApart ==
    ASSUME BuildInv, stage = "done", mini
    PROVE  /\ \A p \in Places : p >= SecSize
           /\ IsInjective(miniStream) => Cardinality(Places) = size
  <1>1. SecSize \in Nat \ {0} /\ MiniSize \in Nat \ {0}
    BY GeometryAssumption
  <1>0. \A s, r, z \in Nat :
           r < SecSize /\ z = (s + 1) * SecSize + r => z >= SecSize /\ z \div SecSize - 1 = s
    BY <1>1, SectorOfPlace
  <1>2. miniStream \in Seq(Nat) /\ DOMAIN miniStream = 1 .. Len(miniStream)
    BY DEF BuildInv, Resolving, RunsInv, RunsTyped
  \* The sector that holds byte y of the mini-stream, and where it lies in it.
  <1>3. ASSUME NEW y \in Nat, y \div SecSize + 1 \in 1 .. Len(miniStream)
        PROVE  \E s \in Nat, t \in Nat :
                  s = miniStream[y \div SecSize + 1] /\ t = y % SecSize /\ t < SecSize
    <2>1. PICK s \in Nat : s = miniStream[y \div SecSize + 1]
      BY <1>2, <1>3, ElementOfSeq
    <2>2. PICK t \in Nat : t = y % SecSize /\ t < SecSize
      BY <1>1, <1>3, DivMod
    <2>3. QED
      BY <2>1, <2>2
  <1>4. ASSUME NEW x \in 0 .. size - 1 PROVE PlaceOf(x) \in Nat /\ PlaceOf(x) >= SecSize
    <2>1. PICK m \in Nat, r \in Nat, y \in Nat :
              /\ y \div SecSize + 1 \in 1 .. Len(miniStream)
              /\ PlaceOf(x) = (miniStream[y \div SecSize + 1] + 1) * SecSize + (y % SecSize)
      BY MiniPlace
    <2>2. PICK s \in Nat, t \in Nat :
              s = miniStream[y \div SecSize + 1] /\ t = y % SecSize /\ t < SecSize
      BY <1>3, <2>1
    <2>3. PlaceOf(x) = (s + 1) * SecSize + t
      BY <2>1, <2>2, Zenon
    <2>4. PICK z \in Nat : z = PlaceOf(x)
      BY <1>1, <2>3
    <2>5. z >= SecSize
      BY <1>0, <2>2, <2>3, <2>4, Zenon
    <2>6. QED
      BY <2>4, <2>5
  <1>5. ASSUME IsInjective(miniStream),
               NEW x \in 0 .. size - 1, NEW w \in 0 .. size - 1, PlaceOf(x) = PlaceOf(w)
        PROVE  x = w
    <2>1. PICK m \in Nat, r \in Nat, y \in Nat :
              /\ m = pieces[x \div Unit + 1] /\ r = x % Unit /\ r < MiniSize
              /\ y = m * MiniSize + r
              /\ y \div SecSize + 1 \in 1 .. Len(miniStream)
              /\ PlaceOf(x) = (miniStream[y \div SecSize + 1] + 1) * SecSize + (y % SecSize)
      BY MiniPlace
    <2>2. PICK g \in Nat, h \in Nat, v \in Nat :
              /\ g = pieces[w \div Unit + 1] /\ h = w % Unit /\ h < MiniSize
              /\ v = g * MiniSize + h
              /\ v \div SecSize + 1 \in 1 .. Len(miniStream)
              /\ PlaceOf(w) = (miniStream[v \div SecSize + 1] + 1) * SecSize + (v % SecSize)
      BY MiniPlace
    <2>3. PICK s \in Nat, t \in Nat :
              s = miniStream[y \div SecSize + 1] /\ t = y % SecSize /\ t < SecSize
      BY <1>3, <2>1
    <2>4. PICK i \in Nat, j \in Nat :
              i = miniStream[v \div SecSize + 1] /\ j = v % SecSize /\ j < SecSize
      BY <1>3, <2>2
    <2>5. PlaceOf(x) = (s + 1) * SecSize + t /\ PlaceOf(w) = (i + 1) * SecSize + j
      BY <2>1, <2>2, <2>3, <2>4, Zenon
    <2>6. (s + 1) * SecSize + t = (i + 1) * SecSize + j
      BY <1>5, <2>5, Zenon
    <2>7. s = i /\ t = j
      BY <1>1, <2>3, <2>4, <2>6, OnePlace
    <2>8. y \div SecSize + 1 = v \div SecSize + 1
      BY <1>2, <1>5, <2>1, <2>2, <2>3, <2>4, <2>7 DEF IsInjective
    <2>9. y = v
      <3>1. y \div SecSize \in Nat /\ y = (y \div SecSize) * SecSize + (y % SecSize)
        BY <1>1, <2>1, DivMod
      <3>2. v \div SecSize \in Nat /\ v = (v \div SecSize) * SecSize + (v % SecSize)
        BY <1>1, <2>2, DivMod
      <3>3. y \div SecSize = v \div SecSize
        BY <2>8, <3>1, <3>2
      <3>4. y % SecSize = v % SecSize
        BY <2>3, <2>4, <2>7
      <3>5. QED
        BY <3>1, <3>2, <3>3, <3>4
    <2>10. /\ r < MiniSize /\ h < MiniSize
           /\ y = m * MiniSize + r /\ v = g * MiniSize + h
      BY <2>1, <2>2
    <2>11. m * MiniSize + r = g * MiniSize + h
      BY <2>9, <2>10
    <2>12. m = g /\ r = h
      <3>1. MiniSize \in Nat \ {0}
        BY <1>1
      <3>2. QED
        BY <2>10, <2>11, <3>1, Unique
    <2>13. QED
      BY <2>1, <2>2, <2>12, SameOffset
  <1>6. IsInjective(miniStream) => Cardinality(Places) = size
    BY <1>4, <1>5, AsManyPlaces
  <1>7. QED
    BY <1>4, <1>6 DEF Places

(* For every table, stream and mini-stream: no two bytes of a stream are    *)
(* read from one place of the file, none lies in the header, and those of a *)
(* stream in the FAT lie in the sectors of the chain that walkChain         *)
(* returned.                                                                *)
THEOREM BytesKeptApart == BuildSpec => []BytesApart
  <1>1. BuildInv => BytesApart
    <2> SUFFICES ASSUME BuildInv, stage = "done"
                 PROVE  /\ \A p \in Places : p >= SecSize
                        /\ ~mini =>
                              /\ Cardinality(Places) = size
                              /\ \A p \in Places : p \div SecSize - 1 \in Range(chain)
                        /\ mini /\ IsInjective(miniStream) => Cardinality(Places) = size
      BY DEF BytesApart, Places
    <2>1. CASE mini
      BY <2>1, MiniApart
    <2>2. CASE ~mini
      BY <2>2, RegularApart
    <2>3. QED
      BY <2>1, <2>2
  <1>2. QED
    BY <1>1, BuildInvInit, BuildInvNext, PTL DEF BuildSpec

(* What walkChain and the runs guarantee holds of the two together, and the *)
(* runs are made of a chain that walkChain has returned.                    *)
THEOREM PartsKept ==
    BuildSpec => [](/\ TypeOK /\ ReturnsChain /\ NoSectorTwice /\ RefusesOnlyBad
                    /\ RunsCover /\ RunsAddress)
  <1>1. BuildInv => TypeOK /\ ReturnsChain /\ NoSectorTwice /\ RefusesOnlyBad
    BY ChainFollows, OnceFollows DEF BuildInv, WalkInv
  <1>2. BuildInv => RunsCover
    BY CoverFollows DEF BuildInv, Resolving, RunsCover
  <1>3. BuildInv => RunsAddress
    BY LocatedAddresses DEF BuildInv, Resolving, RunsAddress
  <1>4. QED
    BY <1>1, <1>2, <1>3, BuildInvInit, BuildInvNext, PTL DEF BuildSpec
=============================================================================
