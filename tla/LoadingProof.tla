---------------------------- MODULE LoadingProof ----------------------------
(***************************************************************************)
(* NewReader on any file, with any failure of ReadAt: what it cuts from    *)
(* the shared buffer lies in it, it reads no more than the header and the  *)
(* tables it builds justify, and it finds what Parse finds in the file.    *)
(***************************************************************************)
EXTENDS Loading, SequenceLemmas, TLAPS

\* A sequence, whatever its elements.
IsSeq(q) == \E S : q \in Seq(S)

LEMMA SeqLen == ASSUME NEW q, IsSeq(q) PROVE Len(q) \in Nat /\ DOMAIN q = 1 .. Len(q)
  BY DEF IsSeq

LEMMA EmptyIsSeq == IsSeq(<<>>) /\ Len(<<>>) = 0
  <1>1. <<>> \in Seq({})
    OBVIOUS
  <1>2. QED
    BY <1>1 DEF IsSeq

LEMMA FunctionIsSeq ==
    ASSUME NEW n \in Nat, NEW q, q = [k \in 1 .. n |-> q[k]]
    PROVE  IsSeq(q) /\ Len(q) = n
  <1> DEFINE S == {q[k] : k \in 1 .. n}
  <1>1. q \in Seq(S) /\ Len(q) = n
    OBVIOUS
  <1>2. QED
    BY <1>1 DEF IsSeq

LEMMA JoinIsSeq ==
    ASSUME NEW q, NEW r, IsSeq(q), IsSeq(r)
    PROVE  IsSeq(q \o r) /\ Len(q \o r) = Len(q) + Len(r)
  <1>1. PICK S : q \in Seq(S)
    BY DEF IsSeq
  <1>2. PICK T : r \in Seq(T)
    BY DEF IsSeq
  <1>3. q \in Seq(S \cup T) /\ r \in Seq(S \cup T)
    BY <1>1, <1>2
  <1>4. q \o r \in Seq(S \cup T) /\ Len(q \o r) = Len(q) + Len(r)
    BY <1>3
  <1>5. QED
    BY <1>4 DEF IsSeq

LEMMA SliceIsSeq ==
    ASSUME NEW q, IsSeq(q), NEW a \in Nat, NEW c \in Nat, a <= c, c <= Len(q)
    PROVE  IsSeq(SubSeq(q, a + 1, c)) /\ Len(SubSeq(q, a + 1, c)) = c - a
  <1>1. PICK S : q \in Seq(S)
    BY DEF IsSeq
  <1>2. SubSeq(q, a + 1, c) \in Seq(S) /\ Len(SubSeq(q, a + 1, c)) = c - a
    BY <1>1, Slice
  <1>3. QED
    BY <1>2 DEF IsSeq

\* A slice that begins behind its end is empty.
LEMMA EmptySlice ==
    ASSUME NEW q, IsSeq(q), NEW a \in Nat, NEW c \in Nat, c <= a
    PROVE  SubSeq(q, a + 1, c) = <<>>
  BY DEF IsSeq
-----------------------------------------------------------------------------
LEMMA DivFloor ==
    ASSUME NEW m \in Nat, NEW b \in Nat \ {0}
    PROVE  /\ m \div b \in Nat
           /\ (m \div b) * b <= m
           /\ m < (m \div b) * b + b
  OBVIOUS

\* What is more by n times the divisor has a quotient that is n more.
LEMMA DivAdds ==
    ASSUME NEW m \in Nat, NEW n \in Nat, NEW b \in Nat \ {0}
    PROVE  (m + n * b) \div b = m \div b + n
  <1>1. \A x \in Nat : \A q \in Nat : q * b <= x /\ x < q * b + b => x \div b = q
    OBVIOUS
  <1> DEFINE q == m \div b
  <1>2. q \in Nat /\ q * b <= m /\ m < q * b + b
    BY DivFloor
  <1> HIDE DEF q
  <1>3. n * b \in Nat /\ (q + n) * b = q * b + n * b /\ q * b \in Nat
    BY <1>2
  <1>4. m + n * b \in Nat /\ q + n \in Nat
    BY <1>2, <1>3
  <1>5. (q + n) * b <= m + n * b /\ m + n * b < (q + n) * b + b
    BY <1>2, <1>3
  <1>6. (m + n * b) \div b = q + n
    BY <1>1, <1>4, <1>5
  <1>7. QED
    BY <1>6 DEF q

\* No factor makes the smaller product the greater.
LEMMA TimesMonotone ==
    ASSUME NEW m \in Nat, NEW n \in Nat, NEW b \in Nat, m <= n
    PROVE  m * b <= n * b
  <1>1. PICK d \in Nat : n = m + d
    OBVIOUS
  <1>2. n * b = m * b + d * b /\ d * b \in Nat /\ m * b \in Nat
    BY <1>1
  <1>3. QED
    BY <1>2

\* Entries fill their sectors.
LEMMA EntriesFill ==
    ASSUME NEW m \in Nat
    PROVE  /\ (m * SecSize) \div DirentSize \in Nat
           /\ ((m * SecSize) \div DirentSize) * DirentSize = m * SecSize
  <1>1. DirentSize \in Nat \ {0} /\ SecSize \in Nat /\ SecSize % DirentSize = 0
    BY LayoutAssumption, GeometryAssumption
  <1>2. PICK q \in Nat : SecSize = q * DirentSize
    <2>1. SecSize = (SecSize \div DirentSize) * DirentSize /\ SecSize \div DirentSize \in Nat
      BY <1>1
    <2>2. QED
      BY <2>1
  <1>3. m * SecSize = (m * q) * DirentSize /\ m * q \in Nat
    BY <1>1, <1>2
  <1>4. (0 + (m * q) * DirentSize) \div DirentSize = 0 \div DirentSize + m * q
    BY <1>1, <1>3, DivAdds
  <1>5. 0 \div DirentSize = 0
    BY <1>1
  <1>6. (m * q) * DirentSize \in Nat
    BY <1>1, <1>3
  <1>7. (m * SecSize) \div DirentSize = m * q
    BY <1>3, <1>4, <1>5, <1>6
  <1>8. QED
    BY <1>3, <1>7

-----------------------------------------------------------------------------
(* What the operators return                                                *)

LEMMA GreatestOfThree ==
    ASSUME NEW a \in Nat, NEW b \in Nat, NEW c \in Nat
    PROVE  Max({a, b, c}) \in Nat /\ Max({a, b, c}) >= a
  BY DEF Max

\* p.buf holds a sector at least: the header was refused unless it has a FAT.
LEMMA BufferHoldsSector ==
    ASSUME h \in Headers, HeaderValid(h)
    PROVE  BufLen \in Nat /\ SecSize <= BufLen
  <1>1. /\ h.numFAT \in Nat \ {0} /\ h.numMiniFAT \in Nat /\ h.numDir \in Nat
        /\ SecSize \in Nat \ {0} /\ BufMax \in Nat /\ SecSize <= BufMax
    BY GeometryAssumption, LoadingAssumption DEF Headers, HeaderValid
  <1>2. Need \in Nat /\ 1 <= Need
    <2>1. Need \in Nat /\ Need >= h.numFAT
      BY <1>1, GreatestOfThree DEF Need
    <2>2. QED
      BY <1>1, <2>1
  <1>3. 1 * SecSize <= Need * SecSize /\ Need * SecSize \in Nat
    BY <1>1, <1>2, TimesMonotone
  <1>4. QED
    BY <1>1, <1>3 DEF BufLen, Smaller

\* A batch: none of the sectors that are loaded, and as many as fit.
LEMMA BatchShape ==
    ASSUME NEW q, IsSeq(q), NEW a \in Nat, NEW n \in Nat,
           NEW b, b = SubSeq(q, a + 1, Smaller(a + n, Len(q)))
    PROVE  /\ IsSeq(b) /\ Len(b) \in 0 .. n
           /\ a < Len(q) => Len(b) = Smaller(a + n, Len(q)) - a
           /\ a >= Len(q) => Len(b) = 0
  <1>1. Len(q) \in Nat
    BY SeqLen
  <1>2. CASE a < Len(q)
    <2>1. PICK c \in Nat : c = Smaller(a + n, Len(q))
      BY <1>1 DEF Smaller
    <2>2. a <= c /\ c <= Len(q) /\ c <= a + n
      BY <1>1, <1>2, <2>1 DEF Smaller
    <2>3. IsSeq(b) /\ Len(b) = c - a
      BY <2>1, <2>2, SliceIsSeq
    <2>4. QED
      BY <1>2, <2>1, <2>2, <2>3
  <1>3. CASE a >= Len(q)
    <2>1. Smaller(a + n, Len(q)) \in Nat /\ Smaller(a + n, Len(q)) <= a
      BY <1>1, <1>3 DEF Smaller
    <2>2. b = <<>>
      BY <2>1, EmptySlice
    <2>3. IsSeq(b) /\ Len(b) = 0
      BY <2>2, EmptyIsSeq, Zenon
    <2>4. 0 \in 0 .. n /\ ~(a < Len(q))
      BY <1>1, <1>3
    <2>5. QED
      BY <2>3, <2>4, Zenon
  <1>4. a < Len(q) \/ a >= Len(q)
    BY <1>1
  <1>5. QED
    BY <1>2, <1>3, <1>4, Zenon

\* A run of neighbours has a sector at least, and lies within the batch.
LEMMA RunFound ==
    ASSUME first \in Nat, Len(Batch) \in Nat, first < Len(Batch)
    PROVE  /\ RunEnd \in first + 1 .. Len(Batch)
           /\ \A j \in first + 1 .. RunEnd - 1 : IsNext(Batch[j], Batch[j + 1])
  <1> DEFINE Ends == {k \in first + 1 .. Len(Batch) :
                         k < Len(Batch) => ~IsNext(Batch[k], Batch[k + 1])}
  <1>1. Ends \subseteq Nat /\ Len(Batch) \in Ends
    OBVIOUS
  <1>2. PICK k \in Ends : \A j \in Ends : k <= j
    BY <1>1, Least
  <1>3. \A j \in first + 1 .. k - 1 : IsNext(Batch[j], Batch[j + 1])
    <2>1. TAKE j \in first + 1 .. k - 1
    <2>2. k \in first + 1 .. Len(Batch) /\ j \in first + 1 .. Len(Batch) /\ j < k
      BY <1>2
    <2>3. j \notin Ends
      BY <1>2, <2>2
    <2>4. QED
      BY <2>2, <2>3
  <1>4. k \in first + 1 .. Len(Batch) /\ (k < Len(Batch) => ~IsNext(Batch[k], Batch[k + 1]))
    BY <1>2
  <1> HIDE DEF Ends
  <1>5. QED
    BY <1>3, <1>4 DEF RunEnd

-----------------------------------------------------------------------------
(* Listed is a recursive function: the words kept of the first n.           *)

Kept(q, f, n) ==
    IF n = 0 THEN <<>> ELSE IF q[n] = FreeSect THEN f[n - 1] ELSE Append(f[n - 1], q[n])

Keeps(q, m, f) == f = [n \in 0 .. m |-> Kept(q, f, n)]

LEMMA KeepingExists ==
    ASSUME NEW q, NEW n \in Nat
    PROVE  \E f : Keeps(q, n, f)
  <1> DEFINE Open == {k \in Nat : ~\E f : Keeps(q, k, f)}
  <1>1. SUFFICES ASSUME Open # {} PROVE FALSE
    OBVIOUS
  <1>2. PICK m \in Open : \A k \in Open : m <= k
    BY <1>1, Least
  <1>3. m # 0
    <2> DEFINE e == [j \in 0 .. 0 |-> <<>>]
    <2>1. \A j \in 0 .. 0 : Kept(q, e, j) = <<>>
      BY DEF Kept
    <2>2. e = [j \in 0 .. 0 |-> Kept(q, e, j)]
      BY <2>1
    <2>3. Keeps(q, 0, e)
      BY <2>2 DEF Keeps
    <2>4. QED
      BY <1>2, <2>3
  <1>4. m \in Nat /\ m - 1 \in Nat /\ m - 1 < m
    BY <1>2, <1>3
  <1>5. m - 1 \notin Open
    BY <1>2, <1>4
  <1>6. PICK f : Keeps(q, m - 1, f)
    BY <1>4, <1>5
  <1> DEFINE g == [j \in 0 .. m |-> Kept(q, f, j)]
  <1>7. \A j \in 0 .. m : j = 0 \/ j - 1 \in 0 .. m - 1
    BY <1>4
  <1>8. \A j \in 0 .. m - 1 : j \in 0 .. m
    BY <1>4
  <1>9. ASSUME NEW j \in 0 .. m PROVE Kept(q, f, j) = Kept(q, g, j)
    <2>1. CASE j = 0
      BY <2>1 DEF Kept
    <2>2. CASE j - 1 \in 0 .. m - 1
      <3>1. f[j - 1] = Kept(q, f, j - 1)
        BY <1>6, <2>2 DEF Keeps
      <3>2. g[j - 1] = Kept(q, f, j - 1)
        BY <1>8, <2>2
      <3>3. QED
        BY <3>1, <3>2 DEF Kept
    <2>3. QED
      BY <1>7, <2>1, <2>2
  <1>10. Keeps(q, m, g)
    BY <1>9 DEF Keeps
  <1>11. QED
    BY <1>2, <1>10

\* The function that Listed chooses.
LEMMA ListedChosen ==
    ASSUME NEW q, Len(q) \in Nat
    PROVE  \E f : Keeps(q, Len(q), f) /\ Listed(q) = f[Len(q)]
  <1> DEFINE g == CHOOSE f : f = [n \in 0 .. Len(q) |->
                    IF n = 0 THEN <<>>
                    ELSE IF q[n] = FreeSect THEN f[n - 1] ELSE Append(f[n - 1], q[n])]
  <1>1. \E f : f = [n \in 0 .. Len(q) |->
                    IF n = 0 THEN <<>>
                    ELSE IF q[n] = FreeSect THEN f[n - 1] ELSE Append(f[n - 1], q[n])]
    BY KeepingExists DEF Keeps, Kept
  <1>2. g = [n \in 0 .. Len(q) |->
                    IF n = 0 THEN <<>>
                    ELSE IF q[n] = FreeSect THEN g[n - 1] ELSE Append(g[n - 1], q[n])]
    BY <1>1
  <1>3. Keeps(q, Len(q), g)
    BY <1>2 DEF Keeps, Kept
  <1>4. Listed(q) = g[Len(q)]
    BY DEF Listed
  <1>5. QED
    BY <1>3, <1>4

LEMMA KeptType ==
    ASSUME NEW T, NEW q \in Seq(T), NEW S, \A n \in 1 .. Len(q) : q[n] = FreeSect \/ q[n] \in S,
           NEW f, Keeps(q, Len(q), f)
    PROVE  \A n \in 0 .. Len(q) : f[n] \in Seq(S)
  <1> DEFINE Odd == {n \in 0 .. Len(q) : f[n] \notin Seq(S)}
  <1>1. SUFFICES ASSUME Odd # {} PROVE FALSE
    OBVIOUS
  <1>2. Odd \subseteq Nat
    OBVIOUS
  <1>3. PICK n \in Odd : \A k \in Odd : n <= k
    BY <1>1, <1>2, Least
  <1>4. n \in 0 .. Len(q) /\ n \in Nat /\ (n # 0 => n \in 1 .. Len(q) /\ n - 1 \in 0 .. Len(q) /\ ~(n <= n - 1))
    OBVIOUS
  <1>5. f[n] = Kept(q, f, n)
    BY <1>4 DEF Keeps
  <1>6. n - 1 \notin Odd \/ n = 0
    BY <1>3, <1>4
  <1>7. n # 0 => f[n - 1] \in Seq(S) /\ (q[n] = FreeSect \/ q[n] \in S)
    BY <1>4, <1>6
  <1>8. f[n] \in Seq(S)
    <2>1. CASE n = 0
      BY <1>5, <2>1 DEF Kept
    <2>2. CASE n # 0 /\ q[n] = FreeSect
      BY <1>5, <1>7, <2>2 DEF Kept
    <2>3. CASE n # 0 /\ q[n] # FreeSect
      <3>1. Append(f[n - 1], q[n]) \in Seq(S)
        BY <1>7, <2>3, AppendProperties
      <3>2. QED
        BY <1>5, <2>3, <3>1 DEF Kept
    <2>4. QED
      BY <2>1, <2>2, <2>3
  <1>9. QED
    BY <1>8

\* What Listed keeps is in S, if all words but the free ones are.
LEMMA ListedKeeps ==
    ASSUME NEW T, NEW q \in Seq(T), NEW S, \A n \in 1 .. Len(q) : q[n] = FreeSect \/ q[n] \in S
    PROVE  Listed(q) \in Seq(S)
  <1>1. Len(q) \in Nat /\ Len(q) \in 0 .. Len(q)
    OBVIOUS
  <1>2. PICK f : Keeps(q, Len(q), f) /\ Listed(q) = f[Len(q)]
    BY <1>1, ListedChosen
  <1>3. \A n \in 0 .. Len(q) : f[n] \in Seq(S)
    BY <1>2, KeptType
  <1>4. QED
    BY <1>1, <1>2, <1>3

LEMMA ListedType ==
    ASSUME NEW S, NEW q \in Seq(S)
    PROVE  Listed(q) \in Seq(S)
  <1>1. \A n \in 1 .. Len(q) : q[n] = FreeSect \/ q[n] \in S
    BY ElementOfSeq
  <1>2. QED
    BY <1>1, ListedKeeps

\* walkChain returns a sequence.
LEMMA ChainIsSeq ==
    ASSUME NEW f, Len(f) \in Nat, NEW a, NEW n \in Nat, WalkChain(f, a, n).ok
    PROVE  IsSeq(WalkChain(f, a, n).val)
  <1> DEFINE next == [sec_ \in Nat |-> IF sec_ <= MaxRegSect /\ sec_ < Len(f) THEN f[sec_ + 1] ELSE sec_]
             at[k \in 0 .. WalkLimit(f, n)] == IF k = 0 THEN a ELSE next[at[k - 1]]
             ends == {k \in 0 .. WalkLimit(f, n) : at[k] = EndOfChain}
             chain == [k \in 1 .. Min(ends) |-> at[k - 1]]
  <1>1. WalkChain(f, a, n) = IF ends # {} /\ (n > 0 => Min(ends) = n) THEN Ok(chain) ELSE Bad
    BY DEF WalkChain
  <1>2. ends \subseteq Nat
    BY DEF WalkLimit, Smaller
  <1> HIDE DEF at, next, ends
  <1>3. ~Bad.ok /\ Ok(chain).val = chain
    BY DEF Bad, Ok
  <1>4. ends # {} /\ WalkChain(f, a, n).val = chain
    BY <1>1, <1>3
  <1>5. Min(ends) \in Nat
    <2>1. PICK m \in ends : \A k \in ends : m <= k
      BY <1>2, <1>4, Least
    <2>2. Min(ends) \in ends
      BY <2>1 DEF Min
    <2>3. QED
      BY <1>2, <2>2
  <1>6. chain = [k \in 1 .. Min(ends) |-> chain[k]]
    OBVIOUS
  <1>7. QED
    BY <1>4, <1>5, <1>6, FunctionIsSeq

-----------------------------------------------------------------------------
(* The invariant                                                            *)

Before == {"parseHeader", "checkFileSize", "readDIFAT"}
Phases == Before \cup Loads \cup {"done", "error"}

Typed ==
    /\ file \in Files
    /\ phase \in Phases
    /\ reads \in Nat
    /\ first \in Nat
    /\ IsSeq(fat) /\ IsSeq(miniFAT) /\ IsSeq(entries)

\* Nothing is read after a header that was refused.
Accepted == phase \notin {"parseHeader", "error"} => HeaderValid(h)

\* The buffer keeps the length it was made with.
BufferMade ==
    phase \in {"readDIFAT"} \cup Loads => IsSeq(buf) /\ Len(buf) = BufLen

NothingLoaded ==
    phase \in Before => /\ i = 0 /\ first = 0
                        /\ Len(fat) = 0 /\ Len(miniFAT) = 0 /\ Len(entries) = 0

OnDIFAT ==
    phase = "readDIFAT" => sec \in Nat /\ left \in 0 .. h.numDIFAT /\ IsSeq(secs)

InBatch == phase \in Loads => IsSeq(secs) /\ i \in Nat /\ first <= Len(Batch)

\* One call for the header, one for the probe; one for each DIFAT sector, and
\* none without a sector of a table.
ReadsCounted ==
    /\ phase = "parseHeader" => reads = 0
    /\ phase = "checkFileSize" => reads = 1
    /\ phase = "readDIFAT" => reads <= 2 + (h.numDIFAT - left)
    /\ phase \in Loads \cup {"done"} => reads <= 2 + h.numDIFAT + SectorsLoaded

Inv ==
    Typed /\ Accepted /\ BufferMade /\ NothingLoaded /\ OnDIFAT /\ InBatch /\ ReadsCounted

LEMMA HeaderFacts ==
    ASSUME file \in Files
    PROVE  /\ h \in Headers
           /\ h.numFAT \in Nat /\ h.numMiniFAT \in Nat /\ h.numDir \in Nat /\ h.numDIFAT \in Nat
           /\ h.firstDIFAT \in Nat
           /\ h.difat \in Seq(0 .. Words - 1)
           /\ file.body \in Seq(Cells)
  BY LoadingAssumption DEF Headers, h

LEMMA Sizes ==
    /\ SecSize \in Nat \ {0} /\ DirentSize \in Nat \ {0} /\ SecSize > 2 /\ Words \in Nat /\ Words > 6
    /\ PerFAT = SecSize
  BY GeometryAssumption, LayoutAssumption DEF PerFAT

\* The batch that is read, and the buffer it fits.
LEMMA BatchFacts ==
    ASSUME Inv, phase \in Loads
    PROVE  /\ BatchLen \in Nat \ {0}
           /\ BatchLen * SecSize <= Len(buf) /\ Len(buf) \in Nat
           /\ IsSeq(Batch) /\ Len(Batch) \in 0 .. BatchLen
           /\ i < Len(secs) => Len(Batch) > 0
           /\ i >= Len(secs) => Len(Batch) = 0
           /\ Len(secs) \in Nat
  <1>1. h \in Headers /\ HeaderValid(h) /\ IsSeq(secs) /\ i \in Nat /\ IsSeq(buf) /\ Len(buf) = BufLen
    <2>1. file \in Files /\ phase \notin {"parseHeader", "error"}
      BY DEF Inv, Typed, Loads
    <2>2. QED
      BY <2>1, HeaderFacts DEF Inv, Accepted, InBatch, BufferMade
  <1>2. BufLen \in Nat /\ SecSize <= BufLen
    BY <1>1, BufferHoldsSector
  <1>3. BatchLen \in Nat /\ BatchLen * SecSize <= Len(buf) /\ Len(buf) < BatchLen * SecSize + SecSize
    BY <1>1, <1>2, Sizes, DivFloor DEF BatchLen
  <1>4. BatchLen # 0
    <2>1. 0 * SecSize = 0 /\ SecSize \in Nat
      BY Sizes
    <2>2. QED
      BY <1>1, <1>2, <1>3, <2>1
  <1>5. Len(secs) \in Nat
    BY <1>1, SeqLen
  <1>6. /\ IsSeq(Batch) /\ Len(Batch) \in 0 .. BatchLen
        /\ i < Len(secs) => Len(Batch) = Smaller(i + BatchLen, Len(secs)) - i
        /\ i >= Len(secs) => Len(Batch) = 0
    BY <1>1, <1>3, BatchShape DEF Batch
  <1>7. i < Len(secs) => Len(Batch) > 0
    BY <1>1, <1>3, <1>4, <1>5, <1>6 DEF Smaller
  <1>8. QED
    BY <1>1, <1>2, <1>3, <1>4, <1>5, <1>6, <1>7

\* What the property asks for.
LEMMA SlicesOfInv ==
    ASSUME Inv
    PROVE  SlicesFit
  <1>1. ASSUME phase = "readDIFAT" PROVE SecSize <= Len(buf)
    <2>1. file \in Files /\ HeaderValid(h) /\ Len(buf) = BufLen
      BY <1>1 DEF Inv, Typed, Accepted, BufferMade
    <2>2. QED
      BY <2>1, HeaderFacts, BufferHoldsSector
  <1>2. ASSUME phase \in Loads, i < Len(secs)
        PROVE  BatchLen > 0 /\ Len(Batch) * SecSize <= Len(buf)
    <2>1. /\ BatchLen \in Nat \ {0} /\ Len(Batch) \in 0 .. BatchLen
          /\ BatchLen * SecSize <= Len(buf) /\ Len(buf) \in Nat
      BY <1>2, BatchFacts
    <2>2. Len(Batch) * SecSize <= BatchLen * SecSize /\ Len(Batch) \in Nat /\ SecSize \in Nat
      BY <2>1, Sizes, TimesMonotone
    <2>3. Len(Batch) * SecSize \in Nat /\ BatchLen * SecSize \in Nat
      BY <2>1, <2>2
    <2>4. QED
      BY <2>1, <2>2, <2>3
  <1>3. QED
    BY <1>1, <1>2 DEF SlicesFit

LEMMA LoadedType ==
    ASSUME Typed
    PROVE  /\ SectorsLoaded \in Nat
           /\ Len(fat) \in Nat /\ Len(miniFAT) \in Nat /\ Len(entries) \in Nat
  <1>1. /\ Len(fat) \in Nat /\ Len(miniFAT) \in Nat /\ Len(entries) \in Nat /\ first \in Nat
    BY SeqLen DEF Typed
  <1>2. Len(entries) * DirentSize \in Nat
    BY <1>1, Sizes
  <1>3. (Len(fat) + Len(miniFAT) + Len(entries) * DirentSize) \div SecSize \in Nat
    <2>1. Len(fat) + Len(miniFAT) + Len(entries) * DirentSize \in Nat
      BY <1>1, <1>2
    <2>2. QED
      BY <2>1, Sizes, DivFloor
  <1>4. QED
    BY <1>1, <1>3 DEF SectorsLoaded

LEMMA ReadsOfInv ==
    ASSUME Inv
    PROVE  ReadsBounded
  <1>1. SUFFICES ASSUME phase # "error" PROVE reads <= 3 + h.numFAT \div (PerFAT - 1) + SectorsLoaded
    BY DEF ReadsBounded
  <1>2. h.numFAT \in Nat /\ h.numDIFAT \in Nat /\ reads \in Nat /\ SectorsLoaded \in Nat /\ phase \in Phases
    BY HeaderFacts, LoadedType DEF Inv, Typed
  <1>3. h.numFAT \div (PerFAT - 1) \in Nat
    <2>1. PerFAT - 1 \in Nat \ {0}
      BY Sizes
    <2>2. QED
      BY <1>2, <2>1, DivFloor
  <1>4. CASE phase = "parseHeader"
    BY <1>2, <1>3, <1>4 DEF Inv, ReadsCounted
  <1>5. CASE phase # "parseHeader"
    <2>1. h.numDIFAT <= h.numFAT \div (PerFAT - 1) + 1
      BY <1>1, <1>5 DEF Inv, Accepted, HeaderValid
    <2>2. phase = "readDIFAT" => left \in 0 .. h.numDIFAT
      BY DEF Inv, OnDIFAT
    <2>3. reads <= 2 + h.numDIFAT + SectorsLoaded
      BY <1>1, <1>2, <1>5, <2>2 DEF Inv, ReadsCounted, Phases, Before
    <2>4. QED
      BY <1>2, <1>3, <2>1, <2>3
  <1>6. QED
    BY <1>4, <1>5

-----------------------------------------------------------------------------
(* What a call of ReadAt returns                                            *)

LEMMA WordAtType == ASSUME NEW c \in Cells PROVE WordAt(c) \in Nat
  <1>1. CASE c \in {WordCell(w) : w \in 0 .. Words - 1}
    <2>1. PICK w \in 0 .. Words - 1 : c = WordCell(w)
      BY <1>1
    <2>2. c.v[1] = w
      BY <2>1 DEF WordCell
    <2>3. QED
      BY <2>1, <2>2, Sizes DEF WordAt, WordCell
  <1>2. CASE c \in [k : STRING \ {"word"}, v : Seq(Nat)]
    <2>1. c.k # "word"
      BY <1>2
    <2>2. QED
      BY <2>1, Sizes DEF WordAt, MaxRegSect
  <1>3. QED
    BY <1>1, <1>2 DEF Cells

LEMMA WordsType ==
    ASSUME NEW q \in Seq(Cells)
    PROVE  WordsOf(q) \in Seq(Nat) /\ Len(WordsOf(q)) = Len(q)
  <1>1. \A k \in DOMAIN q : q[k] \in Cells
    BY ElementOfSeq
  <1>2. \A k \in DOMAIN q : WordAt(q[k]) \in Nat
    BY <1>1, WordAtType
  <1>3. DOMAIN q = 1 .. Len(q) /\ Len(q) \in Nat
    OBVIOUS
  <1>4. QED
    BY <1>2, <1>3 DEF WordsOf

\* Without an error, all the cells that were asked for.
LEMMA DataRead ==
    ASSUME file \in Files, NEW off \in Nat, SecSize <= off, NEW n \in Nat \ {0},
           NEW r \in ReadAtResults(off, n), r.err = "nil"
    PROVE  /\ r.data = FileCells(file, off, n)
           /\ r.data \in Seq(Cells) /\ Len(r.data) = n
           /\ off - SecSize + n <= Len(file.body)
  <1> DEFINE data == FileCells(file, off, n)
             b == file.body
  <1>1. r.data = data /\ Len(data) = n
    <2>1. CASE r = [data |-> data, err |-> IF Len(data) = n THEN "nil" ELSE "EOF"]
      BY <2>1
    <2>2. CASE r \in {[data |-> data, err |-> e] : e \in IF off + n = Size THEN {"EOF"} ELSE {}}
      BY <2>2
    <2>3. CASE r \in {[data |-> <<>>, err |-> e] : e \in IF Faulty THEN {"other"} ELSE {}}
      BY <2>3
    <2>4. QED
      BY <2>1, <2>2, <2>3, Zenon DEF ReadAtResults
  <1>2. b \in Seq(Cells) /\ SecSize \in Nat
    BY HeaderFacts, Sizes
  <1>3. Len(b) \in Nat
    BY <1>2
  <1>4. PICK a \in Nat : a = off - SecSize
    BY <1>2
  <1>5. PICK c \in Nat : c = Smaller(a + n, Len(b))
    BY <1>3, <1>4 DEF Smaller
  <1>6. data = SubSeq(b, a + 1, c)
    BY <1>4, <1>5 DEF FileCells
  <1>7. c <= Len(b) /\ c <= a + n
    BY <1>3, <1>4, <1>5 DEF Smaller
  <1>8. a <= c
    <2>1. SUFFICES ASSUME c <= a PROVE FALSE
      BY <1>4, <1>5
    <2>2. IsSeq(b)
      BY <1>2 DEF IsSeq
    <2>3. data = <<>>
      BY <1>4, <1>5, <1>6, <2>1, <2>2, EmptySlice
    <2>4. QED
      BY <1>1, <2>3, EmptyIsSeq
  <1>9. data \in Seq(Cells) /\ Len(data) = c - a
    BY <1>2, <1>4, <1>5, <1>6, <1>7, <1>8, Slice
  <1> HIDE DEF data
  <1>10. c = a + n
    BY <1>1, <1>4, <1>5, <1>9
  <1>11. off - SecSize + n <= Len(b)
    BY <1>4, <1>7, <1>10
  <1>12. QED
    BY <1>1, <1>9, <1>11, Zenon DEF data

\* Where a sector lies is behind the header.
LEMMA SectorBehind ==
    ASSUME NEW s \in Nat
    PROVE  SectorOffset(s) \in Nat /\ SecSize <= SectorOffset(s)
                                   /\ SectorOffset(s) = s * SecSize + SecSize
  <1>1. SecSize \in Nat /\ s * SecSize \in Nat
    BY Sizes
  <1>2. (s + 1) * SecSize = s * SecSize + SecSize
    BY <1>1
  <1>3. QED
    BY <1>1, <1>2 DEF SectorOffset

LEMMA SectorPlace ==
    ASSUME NEW s \in Nat, NEW w \in Nat, w = s * SecSize
    PROVE  /\ SectorOffset(s) \in Nat /\ SecSize <= SectorOffset(s)
           /\ SectorOffset(s) - SecSize = w
  <1>1. SectorOffset(s) \in Nat /\ SecSize <= SectorOffset(s)
    BY SectorBehind
  <1>2. SectorOffset(s) = w + SecSize
    BY SectorBehind
  <1>3. QED
    BY <1>1, <1>2, Sizes

\* A DIFAT sector: the words of FAT sectors, and the link.
LEMMA DIFATWords ==
    ASSUME NEW q \in Seq(Cells), Len(q) = SecSize
    PROVE  /\ WordsOf(q)[PerFAT] \in Nat
           /\ Listed(Take(WordsOf(q), PerFAT - 1)) \in Seq(Nat)
  <1>1. WordsOf(q) \in Seq(Nat) /\ Len(WordsOf(q)) = SecSize
    BY WordsType
  <1>2. PerFAT \in 1 .. SecSize /\ PerFAT - 1 \in Nat /\ PerFAT - 1 <= SecSize
    BY Sizes
  <1>3. WordsOf(q)[PerFAT] \in Nat
    BY <1>1, <1>2, ElementOfSeq
  <1>4. Take(WordsOf(q), PerFAT - 1) \in Seq(Nat)
    <2>1. 0 \in Nat /\ 0 <= PerFAT - 1 /\ 0 + 1 = 1
      BY <1>2
    <2>2. SubSeq(WordsOf(q), 0 + 1, PerFAT - 1) \in Seq(Nat)
      BY <1>1, <1>2, <2>1, Slice
    <2>3. QED
      BY <2>1, <2>2 DEF Take
  <1>5. QED
    BY <1>3, <1>4, ListedType

-----------------------------------------------------------------------------
(* The actions                                                              *)

LEMMA InitInv ==
    ASSUME Init PROVE Inv
  <1>1. file \in Files /\ phase = "parseHeader" /\ reads = 0 /\ i = 0 /\ first = 0
    BY DEF Init
  <1>2. fat = <<>> /\ miniFAT = <<>> /\ entries = <<>>
    BY DEF Init
  <1>3. /\ IsSeq(fat) /\ IsSeq(miniFAT) /\ IsSeq(entries)
        /\ Len(fat) = 0 /\ Len(miniFAT) = 0 /\ Len(entries) = 0
    BY <1>2, EmptyIsSeq
  <1>4. Typed /\ NothingLoaded
    BY <1>1, <1>3 DEF Typed, NothingLoaded, Phases, Before
  <1>5. Accepted /\ BufferMade /\ OnDIFAT /\ InBatch /\ ReadsCounted
    BY <1>1 DEF Accepted, BufferMade, OnDIFAT, InBatch, ReadsCounted, Loads
  <1>6. QED
    BY <1>4, <1>5 DEF Inv

LEMMA CountedType ==
    ASSUME reads \in Nat, NEW r, NEW n, Called(r, n)
    PROVE  reads' = reads + 1 /\ reads' \in Nat
  BY DEF Called

LEMMA FailKeeps ==
    ASSUME Inv, Fail, reads' \in Nat
    PROVE  Inv'
  <1>1. Typed'
    BY DEF Inv, Typed, Fail, tables, cursor, Phases
  <1>2. phase' = "error" /\ "error" \notin Loads /\ "error" \notin Before
    BY DEF Fail, Loads, Before
  <1>3. (Accepted /\ BufferMade /\ NothingLoaded /\ OnDIFAT /\ InBatch /\ ReadsCounted)'
    BY <1>2 DEF Accepted, BufferMade, NothingLoaded, OnDIFAT, InBatch, ReadsCounted
  <1>4. QED
    BY <1>1, <1>3 DEF Inv

LEMMA ParseHeaderKeeps ==
    ASSUME Inv, ParseHeader
    PROVE  Inv'
  <1>1. /\ phase = "parseHeader" /\ reads' = reads + 1 /\ UNCHANGED <<file, cursor, tables, list>>
        /\ phase' = "error" \/ (phase' = "checkFileSize" /\ HeaderValid(h))
    BY DEF ParseHeader
  <1>2. reads' = 1
    BY <1>1 DEF Inv, ReadsCounted
  <1>3. CASE phase' = "error"
    <2>1. Fail
      BY <1>1, <1>3 DEF Fail
    <2>2. QED
      BY <1>2, <2>1, FailKeeps
  <1>4. CASE phase' = "checkFileSize" /\ HeaderValid(h)
    <2>1. Typed' /\ NothingLoaded'
      BY <1>1, <1>2, <1>4 DEF Inv, Typed, NothingLoaded, tables, cursor, Phases, Before
    <2>2. Accepted'
      BY <1>1, <1>4 DEF Accepted, h
    <2>3. (BufferMade /\ OnDIFAT /\ InBatch /\ ReadsCounted)'
      BY <1>2, <1>4 DEF BufferMade, OnDIFAT, InBatch, ReadsCounted, Loads
    <2>4. QED
      BY <2>1, <2>2, <2>3 DEF Inv
  <1>5. QED
    BY <1>1, <1>3, <1>4

LEMMA ZerosMade ==
    ASSUME NEW n \in Nat
    PROVE  IsSeq(Zeros(n)) /\ Len(Zeros(n)) = n
  <1>1. Zeros(n) = [k \in 1 .. n |-> Zeros(n)[k]]
    BY DEF Zeros
  <1>2. QED
    BY <1>1, FunctionIsSeq

LEMMA StartKeeps ==
    ASSUME Inv, phase = "checkFileSize", StartDIFAT, reads' \in {reads, reads + 1}
    PROVE  Inv'
  <1>1. /\ UNCHANGED <<file, i, first, fat, miniFAT, entries>>
        /\ phase' \in {"readDIFAT", "error"}
        /\ buf' = Zeros(BufLen) /\ sec' = h.firstDIFAT /\ left' = h.numDIFAT /\ secs' = Listed(h.difat)
    BY DEF StartDIFAT, tables
  <1>2. /\ file \in Files /\ HeaderValid(h) /\ h \in Headers /\ h.numDIFAT \in Nat /\ h.firstDIFAT \in Nat
        /\ h.difat \in Seq(0 .. Words - 1)
    BY HeaderFacts DEF Inv, Typed, Accepted
  <1>3. reads' \in Nat /\ reads' <= 2
    BY DEF Inv, ReadsCounted
  <1>4. Typed' /\ NothingLoaded'
    <2>1. phase' \in Phases
      BY <1>1 DEF Phases, Before
    <2>2. phase \in Before
      BY DEF Before
    <2>3. QED
      BY <1>1, <1>3, <2>1, <2>2 DEF Inv, Typed, NothingLoaded
  <1>5. Accepted' /\ h' = h
    BY <1>1, <1>2 DEF Accepted, h
  <1>6. BufferMade'
    <2>1. BufLen \in Nat /\ BufLen' = BufLen
      BY <1>1, <1>2, <1>5, BufferHoldsSector DEF BufLen, Need
    <2>2. IsSeq(buf') /\ Len(buf') = BufLen
      BY <1>1, <2>1, ZerosMade
    <2>3. QED
      BY <2>1, <2>2 DEF BufferMade
  <1>7. OnDIFAT'
    <2>1. IsSeq(secs')
      BY <1>1, <1>2, ListedType DEF IsSeq
    <2>2. QED
      BY <1>1, <1>2, <1>5, <2>1 DEF OnDIFAT
  <1>8. InBatch' /\ ReadsCounted'
    BY <1>1, <1>2, <1>3, <1>5 DEF InBatch, ReadsCounted, Loads
  <1>9. QED
    BY <1>4, <1>5, <1>6, <1>7, <1>8 DEF Inv

LEMMA ProbeKeeps ==
    ASSUME Inv, SkipProbe \/ Probe
    PROVE  Inv'
  <1>1. CASE SkipProbe
    <2>1. phase = "checkFileSize" /\ StartDIFAT /\ reads' = reads
      BY <1>1 DEF SkipProbe
    <2>2. QED
      BY <2>1, StartKeeps
  <1>2. CASE Probe
    <2>1. phase = "checkFileSize" /\ reads' = reads + 1 /\ (StartDIFAT \/ Fail)
      BY <1>2 DEF Probe
    <2>2. reads' \in Nat
      BY <2>1 DEF Inv, Typed
    <2>3. QED
      BY <2>1, <2>2, StartKeeps, FailKeeps
  <1>3. QED
    BY <1>1, <1>2

\* A buffer that is overwritten keeps its length.
LEMMA OverwriteShape ==
    ASSUME NEW b, IsSeq(b), NEW at, NEW data
    PROVE  IsSeq(Overwrite(b, at, data)) /\ Len(Overwrite(b, at, data)) = Len(b)
  <1> DEFINE o == Overwrite(b, at, data)
  <1>1. Len(b) \in Nat /\ DOMAIN b = 1 .. Len(b)
    BY SeqLen
  <1>2. o = [k \in 1 .. Len(b) |-> IF k - at \in DOMAIN data THEN data[k - at] ELSE b[k]]
    BY <1>1 DEF Overwrite
  <1>3. o = [k \in 1 .. Len(b) |-> o[k]]
    BY <1>2
  <1>4. QED
    BY <1>1, <1>3, FunctionIsSeq

LEMMA ReadDIFATKeeps ==
    ASSUME Inv, ReadDIFATSector
    PROVE  Inv'
  <1>1. /\ phase = "readDIFAT" /\ left # 0 /\ sec <= MaxRegSect
        /\ sec \in Nat /\ left \in 0 .. h.numDIFAT /\ IsSeq(secs)
        /\ file \in Files /\ h.numDIFAT \in Nat
    BY HeaderFacts DEF ReadDIFATSector, DIFATRead, Inv, OnDIFAT, Typed
  <1>2. PICK r \in ReadAtResults(SectorOffset(sec), SecSize) :
            LET words == WordsOf(r.data)
                found == Listed(Take(words, PerFAT - 1))
            IN  /\ Called(r, SecSize)
                /\ IF r.err = "nil" /\ \A n \in DOMAIN found : found[n] <= MaxRegSect
                   THEN /\ buf' = Overwrite(buf, 0, r.data)
                        /\ secs' = secs \o found
                        /\ sec' = words[PerFAT]
                        /\ left' = left - 1
                        /\ UNCHANGED <<file, phase, i, first, tables, list>>
                   ELSE Fail
    BY DEF ReadDIFATSector
  <1> DEFINE words == WordsOf(r.data)
             found == Listed(Take(words, PerFAT - 1))
  <1>3. /\ reads \in Nat /\ Called(r, SecSize)
        /\ \/ Fail
           \/ /\ r.err = "nil"
              /\ buf' = Overwrite(buf, 0, r.data)
              /\ secs' = secs \o found
              /\ sec' = words[PerFAT]
              /\ left' = left - 1
              /\ UNCHANGED <<file, phase, i, first, tables, list>>
    BY <1>2 DEF Inv, Typed
  <1>4. reads' = reads + 1 /\ reads' \in Nat
    BY <1>3, CountedType
  <1>5. CASE Fail
    BY <1>4, <1>5, FailKeeps
  <1>6. CASE /\ r.err = "nil"
             /\ buf' = Overwrite(buf, 0, r.data)
             /\ secs' = secs \o found
             /\ sec' = words[PerFAT]
             /\ left' = left - 1
             /\ UNCHANGED <<file, phase, i, first, tables, list>>
    <2>1. r.data \in Seq(Cells) /\ Len(r.data) = SecSize
      <3>1. SectorOffset(sec) \in Nat /\ SecSize <= SectorOffset(sec) /\ SecSize \in Nat \ {0}
        BY <1>1, SectorBehind, Sizes
      <3>2. QED
        BY <1>1, <1>2, <1>6, <3>1, DataRead
    <2>2. words[PerFAT] \in Nat /\ found \in Seq(Nat)
      BY <2>1, DIFATWords
    <2> HIDE DEF words, found
    <2>3. IsSeq(secs')
      BY <1>1, <1>6, <2>2, JoinIsSeq DEF IsSeq
    <2>4. /\ UNCHANGED <<file, phase, i, first, fat, miniFAT, entries>> /\ h' = h
      BY <1>6 DEF tables, h
    <2>5. Typed' /\ NothingLoaded' /\ Accepted'
      BY <1>4, <2>4 DEF Inv, Typed, NothingLoaded, Accepted
    <2>6. BufferMade'
      <3>1. IsSeq(buf) /\ Len(buf) = BufLen
        BY <1>1 DEF Inv, BufferMade
      <3>2. IsSeq(buf') /\ Len(buf') = Len(buf)
        BY <1>6, <3>1, OverwriteShape
      <3>3. BufLen' = BufLen
        BY <2>4 DEF BufLen, Need
      <3>4. QED
        BY <3>1, <3>2, <3>3 DEF BufferMade
    <2>7. OnDIFAT'
      BY <1>1, <1>6, <2>2, <2>3, <2>4 DEF OnDIFAT
    <2>8. InBatch'
      BY <1>1, <2>4 DEF InBatch, Loads
    <2>9. ReadsCounted'
      <3>1. reads <= 2 + (h.numDIFAT - left)
        BY <1>1 DEF Inv, ReadsCounted
      <3>2. phase' = "readDIFAT" /\ reads' <= 2 + (h.numDIFAT - left') /\ h' = h
        BY <1>1, <1>3, <1>4, <1>6, <2>4, <3>1
      <3>3. QED
        BY <3>2 DEF ReadsCounted, Loads
    <2>10. QED
      BY <2>5, <2>6, <2>7, <2>8, <2>9 DEF Inv
  <1>7. QED
    BY <1>3, <1>5, <1>6

LEMMA NoDIFATKeeps ==
    ASSUME Inv, NoDIFATSector
    PROVE  Inv'
  BY FailKeeps DEF NoDIFATSector, Inv, Typed

\* How reading begins on the sectors of a table.
LEMMA BeginBatches ==
    ASSUME Inv, phase' \in Loads, i' = 0, first' = 0, IsSeq(secs'), HeaderValid(h), h' = h,
           UNCHANGED <<file, buf, fat, miniFAT, entries, reads>>,
           IsSeq(buf), Len(buf) = BufLen,
           reads <= 2 + h.numDIFAT + SectorsLoaded', SectorsLoaded' \in Nat
    PROVE  Inv'
  <1>1. Typed'
    BY DEF Inv, Typed, Phases
  <1>2. Accepted' /\ NothingLoaded' /\ OnDIFAT'
    BY DEF Accepted, NothingLoaded, OnDIFAT, Loads, Before
  <1>3. BufferMade'
    BY DEF BufferMade, BufLen, Need
  <1>4. InBatch'
    <2>1. BatchLen' \in Nat
      <3>1. Len(buf) \in Nat
        BY SeqLen
      <3>2. QED
        BY <3>1, Sizes, DivFloor DEF BatchLen
    <2>2. Len(Batch') \in Nat
      <3>1. IsSeq(secs') /\ i' \in Nat /\ BatchLen' \in Nat
            /\ Batch' = SubSeq(secs', i' + 1, Smaller(i' + BatchLen', Len(secs')))
        BY <2>1 DEF Batch
      <3>2. Len(Batch') \in 0 .. BatchLen'
        BY <3>1, BatchShape
      <3>3. QED
        BY <2>1, <3>2
    <2>3. QED
      BY <2>2 DEF InBatch
  <1>5. ReadsCounted'
    BY DEF ReadsCounted, Loads
  <1>6. QED
    BY <1>1, <1>2, <1>3, <1>4, <1>5 DEF Inv

LEMMA EndDIFATKeeps ==
    ASSUME Inv, EndDIFAT
    PROVE  Inv'
  <1>1. /\ phase = "readDIFAT" /\ left = 0 /\ phase' \in {"loadFAT", "error"}
        /\ UNCHANGED <<file, cursor, tables, list, reads>>
    BY DEF EndDIFAT, DIFATRead
  <1>2. CASE phase' = "error"
    <2>1. Fail /\ reads' \in Nat
      BY <1>1, <1>2 DEF Fail, Inv, Typed
    <2>2. QED
      BY <2>1, FailKeeps
  <1>3. CASE phase' = "loadFAT"
    <2>1. UNCHANGED <<file, buf, secs, i, first, fat, miniFAT, entries, reads>> /\ h' = h
      BY <1>1 DEF cursor, tables, h
    <2>2. i = 0 /\ first = 0 /\ IsSeq(secs) /\ HeaderValid(h) /\ IsSeq(buf) /\ Len(buf) = BufLen
      BY <1>1 DEF Inv, NothingLoaded, OnDIFAT, Accepted, BufferMade, Before
    <2>3. reads <= 2 + h.numDIFAT /\ SectorsLoaded \in Nat /\ h.numDIFAT \in Nat /\ reads \in Nat
      <3>1. file \in Files /\ reads \in Nat /\ reads <= 2 + (h.numDIFAT - 0)
        BY <1>1 DEF Inv, ReadsCounted, Typed
      <3>2. QED
        BY <3>1, HeaderFacts, LoadedType DEF Inv
    <2>4. SectorsLoaded' = SectorsLoaded
      BY <2>1 DEF SectorsLoaded
    <2>5. reads <= 2 + h.numDIFAT + SectorsLoaded' /\ SectorsLoaded' \in Nat
      BY <2>3, <2>4
    <2>6. phase' \in Loads
      BY <1>3 DEF Loads
    <2>7. QED
      BY <2>1, <2>2, <2>5, <2>6, BeginBatches
  <1>4. QED
    BY <1>1, <1>2, <1>3

LEMMA ReadRunKeeps ==
    ASSUME Inv, ReadRun
    PROVE  Inv'
  <1> DEFINE length == (RunEnd - first) * SecSize
  <1>1. phase \in Loads /\ first < Len(Batch)
    BY DEF ReadRun
  <1>2. PICK r \in ReadAtResults(SectorOffset(Batch[first + 1]), length) :
            /\ Called(r, length)
            /\ IF r.err = "nil"
               THEN /\ buf' = Overwrite(buf, first * SecSize, r.data)
                    /\ first' = RunEnd
                    /\ UNCHANGED <<file, phase, sec, left, secs, i, tables, list>>
               ELSE Fail
    BY DEF ReadRun
  <1>3. reads' = reads + 1 /\ reads' \in Nat
    BY <1>2, CountedType DEF Inv, Typed
  <1>4. CASE Fail
    BY <1>3, <1>4, FailKeeps
  <1>5. CASE /\ buf' = Overwrite(buf, first * SecSize, r.data)
             /\ first' = RunEnd
             /\ UNCHANGED <<file, phase, sec, left, secs, i, tables, list>>
    <2>1. /\ UNCHANGED <<file, phase, secs, i, fat, miniFAT, entries>> /\ h' = h
      BY <1>5 DEF tables, h
    <2>2. first \in Nat /\ Len(Batch) \in Nat
      <3>1. Len(Batch) \in 0 .. BatchLen /\ BatchLen \in Nat
        BY <1>1, BatchFacts
      <3>2. QED
        BY <3>1 DEF Inv, Typed
    <2>3. first' \in first + 1 .. Len(Batch)
      BY <1>1, <1>5, <2>2, RunFound
    <2>4. IsSeq(buf') /\ Len(buf') = Len(buf)
      <3>1. IsSeq(buf)
        BY <1>1 DEF Inv, BufferMade
      <3>2. QED
        BY <1>5, <3>1, OverwriteShape
    <2>5. Typed' /\ Accepted'
      BY <1>3, <2>1, <2>2, <2>3 DEF Inv, Typed, Accepted
    <2>6. BufferMade' /\ OnDIFAT' /\ NothingLoaded'
      <3>1. BufLen' = BufLen
        BY <2>1 DEF BufLen, Need
      <3>2. phase' \in Loads /\ phase' \notin Before
        BY <1>1, <2>1 DEF Loads, Before
      <3>3. Len(buf) = BufLen
        BY <1>1 DEF Inv, BufferMade
      <3>4. phase' # "readDIFAT"
        BY <3>2 DEF Before
      <3>5. QED
        BY <2>4, <3>1, <3>2, <3>3, <3>4 DEF BufferMade, OnDIFAT, NothingLoaded
    <2>7. InBatch'
      <3>1. Batch' = Batch
        BY <2>1, <2>4 DEF Batch, BatchLen
      <3>2. IsSeq(secs) /\ i \in Nat
        BY <1>1 DEF Inv, InBatch
      <3>3. first' <= Len(Batch')
        BY <2>2, <2>3, <3>1
      <3>4. QED
        BY <2>1, <3>2, <3>3 DEF InBatch
    <2>8. ReadsCounted'
      <3>1. PICK x \in Nat : x = (Len(fat) + Len(miniFAT) + Len(entries) * DirentSize) \div SecSize
        <4>1. Len(fat) \in Nat /\ Len(miniFAT) \in Nat /\ Len(entries) \in Nat
          BY LoadedType DEF Inv
        <4>2. Len(fat) + Len(miniFAT) + Len(entries) * DirentSize \in Nat
          BY <4>1, Sizes
        <4>3. QED
          BY <4>2, Sizes, DivFloor
      <3>2. SectorsLoaded = x + first /\ SectorsLoaded' = x + first'
        <4>1. x = ((Len(fat) + Len(miniFAT) + Len(entries) * DirentSize) \div SecSize)'
          <5>1. fat' = fat /\ miniFAT' = miniFAT /\ entries' = entries
            BY <2>1
          <5>2. QED
            BY <3>1, <5>1, Zenon
        <4>2. QED
          BY <3>1, <4>1, Zenon DEF SectorsLoaded
      <3>3. reads <= 2 + h.numDIFAT + SectorsLoaded /\ reads \in Nat /\ h.numDIFAT \in Nat
        BY <1>1, HeaderFacts DEF Inv, ReadsCounted, Typed
      <3>4. reads' <= 2 + h.numDIFAT + SectorsLoaded'
        <4>1. \A v, p, q, y \in Nat :
                  y <= 2 + v + (x + p) /\ q >= p + 1 => y + 1 <= 2 + v + (x + q)
          OBVIOUS
        <4>2. first' \in Nat /\ first' >= first + 1
          BY <2>2, <2>3
        <4>3. QED
          BY <1>3, <2>2, <3>2, <3>3, <4>1, <4>2, Zenon
      <3>5. phase' \in Loads
        BY <1>1, <2>1
      <3>6. QED
        BY <2>1, <3>4, <3>5 DEF ReadsCounted, Loads
    <2>9. QED
      BY <2>5, <2>6, <2>7, <2>8 DEF Inv
  <1>6. QED
    BY <1>2, <1>4, <1>5

-----------------------------------------------------------------------------
(* The end of a batch                                                       *)

\* What is cut from the buffer.
LEMMA LoadedShape ==
    ASSUME Inv, phase \in Loads
    PROVE  IsSeq(Loaded) /\ Len(Loaded) = Len(Batch) * SecSize /\ Len(Batch) \in Nat
  <1>1. /\ IsSeq(buf) /\ Len(buf) \in Nat /\ Len(Batch) \in 0 .. BatchLen /\ BatchLen \in Nat
        /\ BatchLen * SecSize <= Len(buf)
    BY BatchFacts DEF Inv, BufferMade
  <1>2. PICK m \in Nat : m = Len(Batch)
    BY <1>1
  <1>3. m * SecSize <= BatchLen * SecSize /\ m * SecSize \in Nat /\ BatchLen * SecSize \in Nat
    BY <1>1, <1>2, Sizes, TimesMonotone
  <1>4. PICK n \in Nat : n = m * SecSize
    BY <1>3
  <1>5. 0 \in Nat /\ 0 <= n /\ n <= Len(buf) /\ 0 + 1 = 1 /\ n - 0 = n
    BY <1>1, <1>3, <1>4
  <1>6. IsSeq(SubSeq(buf, 0 + 1, n)) /\ Len(SubSeq(buf, 0 + 1, n)) = n - 0
    BY <1>1, <1>5, SliceIsSeq
  <1>7. Loaded = SubSeq(buf, 0 + 1, n)
    BY <1>2, <1>4, <1>5 DEF Loaded, Take
  <1>8. QED
    BY <1>2, <1>4, <1>5, <1>6, <1>7

LEMMA WordsShape ==
    ASSUME NEW q, IsSeq(q)
    PROVE  IsSeq(WordsOf(q)) /\ Len(WordsOf(q)) = Len(q)
  <1>1. Len(q) \in Nat /\ DOMAIN q = 1 .. Len(q)
    BY SeqLen
  <1>2. WordsOf(q) = [k \in 1 .. Len(q) |-> WordsOf(q)[k]]
    BY <1>1 DEF WordsOf
  <1>3. QED
    BY <1>1, <1>2, FunctionIsSeq

LEMMA EntriesShape ==
    ASSUME NEW q, NEW f, NEW m, NEW n \in Nat, Len(q) \div DirentSize = n, EntriesIn(q, f, m).ok
    PROVE  IsSeq(EntriesIn(q, f, m).val) /\ Len(EntriesIn(q, f, m).val) = n
  <1> DEFINE found == Dirents(q)
             parsed == [k \in DOMAIN found |-> ParseEntry(found[k])]
  <1>1. EntriesIn(q, f, m) \in {Ok(parsed), Bad}
    BY DEF EntriesIn
  <1>2. ~Bad.ok /\ Ok(parsed).val = parsed
    BY DEF Bad, Ok
  <1>3. EntriesIn(q, f, m).val = parsed
    BY <1>1, <1>2
  <1>4. DOMAIN found = 1 .. n
    BY DEF Dirents
  <1>5. parsed = [k \in 1 .. n |-> parsed[k]]
    BY <1>4
  <1>6. QED
    BY <1>3, <1>5, FunctionIsSeq

\* The tables grow by the sectors of the batch.
LEMMA NextBatchKeeps ==
    ASSUME Inv, phase \in Loads, BatchRead, NextBatch, phase' = phase,
           IsSeq(fat'), IsSeq(miniFAT'), IsSeq(entries'),
           Len(fat') + Len(miniFAT') + Len(entries') * DirentSize
             = Len(fat) + Len(miniFAT) + Len(entries) * DirentSize + Len(Batch) * SecSize
    PROVE  Inv'
  <1>1. /\ UNCHANGED <<file, buf, secs, reads>> /\ i' = i + BatchLen /\ first' = 0 /\ h' = h
    BY DEF NextBatch, h
  <1>2. /\ BatchLen \in Nat \ {0} /\ Len(Batch) \in 0 .. BatchLen /\ first = Len(Batch)
        /\ IsSeq(secs) /\ i \in Nat /\ IsSeq(buf) /\ Len(buf) = BufLen
    BY BatchFacts DEF Inv, InBatch, BufferMade, BatchRead
  <1>3. Typed' /\ Accepted'
    BY <1>1 DEF Inv, Typed, Accepted
  <1>4. phase' \in Loads /\ phase' \notin Before /\ phase' # "readDIFAT" /\ phase' # "done"
    BY DEF Loads, Before
  <1>5. BufferMade' /\ OnDIFAT' /\ NothingLoaded'
    <2>1. BufLen' = BufLen
      BY <1>1 DEF BufLen, Need
    <2>2. QED
      BY <1>1, <1>2, <1>4, <2>1 DEF BufferMade, OnDIFAT, NothingLoaded
  <1>6. InBatch'
    <2>1. BatchLen' = BatchLen
      BY <1>1 DEF BatchLen
    <2>2. Batch' = SubSeq(secs, i' + 1, Smaller(i' + BatchLen, Len(secs))) /\ i' \in Nat
      BY <1>1, <1>2, <2>1 DEF Batch
    <2>3. Len(Batch') \in 0 .. BatchLen
      BY <1>2, <2>2, BatchShape
    <2>4. first' <= Len(Batch')
      BY <1>1, <1>2, <2>3
    <2>5. QED
      BY <1>1, <1>2, <2>2, <2>4 DEF InBatch
  <1>7. ReadsCounted'
    <2>1. Len(fat) \in Nat /\ Len(miniFAT) \in Nat /\ Len(entries) \in Nat
      BY LoadedType DEF Inv
    <2>2. PICK x \in Nat : x = Len(fat) + Len(miniFAT) + Len(entries) * DirentSize
      BY <2>1, Sizes
    <2>3. PICK m \in Nat : m = Len(Batch)
      BY <1>2
    <2>4. (x + m * SecSize) \div SecSize = x \div SecSize + m /\ x \div SecSize \in Nat
      BY Sizes, DivAdds, DivFloor
    <2>5. SectorsLoaded = x \div SecSize + m
      BY <1>2, <2>2, <2>3 DEF SectorsLoaded
    <2>6. SectorsLoaded' = (x + m * SecSize) \div SecSize + 0
      BY <1>1, <2>2, <2>3 DEF SectorsLoaded
    <2>7. SectorsLoaded' = SectorsLoaded
      BY <2>4, <2>5, <2>6
    <2>8. reads <= 2 + h.numDIFAT + SectorsLoaded
      BY DEF Inv, ReadsCounted
    <2>9. QED
      BY <1>1, <1>4, <2>7, <2>8 DEF ReadsCounted, Before
  <1>8. QED
    BY <1>3, <1>5, <1>6, <1>7 DEF Inv

LEMMA EndFATBatchKeeps ==
    ASSUME Inv, EndFATBatch \/ EndMiniFATBatch
    PROVE  Inv'
  <1>1. phase \in Loads /\ BatchRead /\ NextBatch /\ phase' = phase /\ entries' = entries
    BY DEF EndFATBatch, EndMiniFATBatch, Loads
  <1>2. IsSeq(WordsOf(Loaded)) /\ Len(WordsOf(Loaded)) = Len(Batch) * SecSize
    BY <1>1, LoadedShape, WordsShape
  <1>3. Len(Batch) * SecSize \in Nat
    BY <1>1, LoadedShape, Sizes
  <1>4. /\ IsSeq(fat) /\ IsSeq(miniFAT) /\ IsSeq(entries)
        /\ Len(fat) \in Nat /\ Len(miniFAT) \in Nat /\ Len(entries) * DirentSize \in Nat
    BY LoadedType, Sizes DEF Inv, Typed
  <1>5. CASE fat' = fat \o WordsOf(Loaded) /\ miniFAT' = miniFAT
    <2>1. IsSeq(fat') /\ Len(fat') = Len(fat) + Len(Batch) * SecSize
      BY <1>2, <1>4, <1>5, JoinIsSeq
    <2>2. Len(fat') + Len(miniFAT') + Len(entries') * DirentSize
             = Len(fat) + Len(miniFAT) + Len(entries) * DirentSize + Len(Batch) * SecSize
      BY <1>1, <1>3, <1>4, <1>5, <2>1
    <2>3. QED
      BY <1>1, <1>4, <1>5, <2>1, <2>2, NextBatchKeeps
  <1>6. CASE miniFAT' = miniFAT \o WordsOf(Loaded) /\ fat' = fat
    <2>1. IsSeq(miniFAT') /\ Len(miniFAT') = Len(miniFAT) + Len(Batch) * SecSize
      BY <1>2, <1>4, <1>6, JoinIsSeq
    <2>2. Len(fat') + Len(miniFAT') + Len(entries') * DirentSize
             = Len(fat) + Len(miniFAT) + Len(entries) * DirentSize + Len(Batch) * SecSize
      BY <1>1, <1>3, <1>4, <1>6, <2>1
    <2>3. QED
      BY <1>1, <1>4, <1>6, <2>1, <2>2, NextBatchKeeps
  <1>7. QED
    BY <1>5, <1>6 DEF EndFATBatch, EndMiniFATBatch

LEMMA EndEntryBatchKeeps ==
    ASSUME Inv, EndEntryBatch
    PROVE  Inv'
  <1> DEFINE found == EntriesIn(Loaded, fat, miniFAT)
  <1>1. /\ phase = "parseEntries" /\ phase \in Loads /\ BatchRead /\ NextBatch
        /\ fat' = fat /\ miniFAT' = miniFAT
        /\ \/ found.ok /\ entries' = entries \o found.val /\ phase' = phase
           \/ phase' = "error" /\ entries' = entries
    BY DEF EndEntryBatch, Loads
  <1>2. /\ IsSeq(fat) /\ IsSeq(miniFAT) /\ IsSeq(entries)
        /\ Len(fat) \in Nat /\ Len(miniFAT) \in Nat /\ Len(entries) \in Nat
    BY LoadedType DEF Inv, Typed
  <1>3. CASE phase' = "error" /\ entries' = entries
    <2>1. Typed'
      BY <1>1, <1>3 DEF NextBatch, Inv, Typed, Phases
    <2>2. "error" \notin Loads /\ "error" \notin Before
      BY DEF Loads, Before
    <2>3. (Accepted /\ BufferMade /\ NothingLoaded /\ OnDIFAT /\ InBatch /\ ReadsCounted)'
      BY <1>3, <2>2 DEF Accepted, BufferMade, NothingLoaded, OnDIFAT, InBatch, ReadsCounted
    <2>4. QED
      BY <2>1, <2>3 DEF Inv
  <1>4. CASE found.ok /\ entries' = entries \o found.val /\ phase' = phase
    <2>1. PICK m \in Nat : m = Len(Batch)
      BY <1>1, LoadedShape
    <2>2. PICK n \in Nat : n = (m * SecSize) \div DirentSize
      BY EntriesFill
    <2>3. n * DirentSize = m * SecSize /\ m * SecSize \in Nat
      BY <2>2, EntriesFill, Sizes
    <2>4. Len(Loaded) \div DirentSize = n
      BY <1>1, <2>1, <2>2, LoadedShape
    <2>5. IsSeq(found.val) /\ Len(found.val) = n
      BY <1>4, <2>4, EntriesShape
    <2> HIDE DEF found
    <2>6. IsSeq(entries') /\ Len(entries') = Len(entries) + n
      BY <1>2, <1>4, <2>5, JoinIsSeq
    <2>7. Len(entries') * DirentSize = Len(entries) * DirentSize + m * SecSize
          /\ Len(entries) * DirentSize \in Nat
      <3>1. (Len(entries) + n) * DirentSize = Len(entries) * DirentSize + n * DirentSize
        BY <1>2, Sizes
      <3>2. QED
        BY <1>2, <2>3, <2>6, <3>1, Sizes
    <2>8. Len(fat') + Len(miniFAT') + Len(entries') * DirentSize
             = Len(fat) + Len(miniFAT) + Len(entries) * DirentSize + Len(Batch) * SecSize
      BY <1>1, <1>2, <2>1, <2>3, <2>7
    <2>9. QED
      BY <1>1, <1>2, <1>4, <2>6, <2>8, NextBatchKeeps
  <1>5. QED
    BY <1>1, <1>3, <1>4

-----------------------------------------------------------------------------
(* The end of a table, and the invariant                                    *)

LEMMA LoadKeeps ==
    ASSUME Inv, phase \in Loads, i >= Len(secs), NEW to \in Loads, NEW chain,
           chain.ok => IsSeq(chain.val), Load(to, chain)
    PROVE  Inv'
  <1>1. /\ UNCHANGED <<file, buf, fat, miniFAT, entries, list, reads>> /\ h' = h
        /\ i' = 0 /\ first' = 0
        /\ \/ chain.ok /\ phase' = to /\ secs' = chain.val
           \/ phase' = "error"
    BY DEF Load, tables, h
  <1>2. /\ IsSeq(buf) /\ Len(buf) = BufLen /\ HeaderValid(h) /\ reads \in Nat
        /\ reads <= 2 + h.numDIFAT + SectorsLoaded /\ SectorsLoaded \in Nat
    BY LoadedType DEF Inv, Typed, Accepted, BufferMade, ReadsCounted, Loads
  <1>3. CASE phase' = "error"
    <2>1. Typed'
      BY <1>1, <1>3 DEF Inv, Typed, Phases
    <2>2. "error" \notin Loads /\ "error" \notin Before
      BY DEF Loads, Before
    <2>3. (Accepted /\ BufferMade /\ NothingLoaded /\ OnDIFAT /\ InBatch /\ ReadsCounted)'
      BY <1>3, <2>2 DEF Accepted, BufferMade, NothingLoaded, OnDIFAT, InBatch, ReadsCounted
    <2>4. QED
      BY <2>1, <2>3 DEF Inv
  <1>4. CASE chain.ok /\ phase' = to /\ secs' = chain.val
    <2>1. first = 0
      <3>1. Len(Batch) = 0
        BY BatchFacts
      <3>2. QED
        BY <3>1 DEF Inv, InBatch, Typed
    <2>2. SectorsLoaded' = SectorsLoaded
      BY <1>1, <2>1 DEF SectorsLoaded
    <2>3. phase' \in Loads /\ IsSeq(secs')
      BY <1>4
    <2>4. reads <= 2 + h.numDIFAT + SectorsLoaded' /\ SectorsLoaded' \in Nat
      BY <1>2, <2>2
    <2>5. QED
      BY <1>1, <1>2, <2>3, <2>4, BeginBatches
  <1>5. QED
    BY <1>1, <1>3, <1>4

LEMMA EndFATKeeps ==
    ASSUME Inv, EndFAT \/ EndMiniFAT
    PROVE  Inv'
  <1>1. phase \in Loads /\ i >= Len(secs)
    BY DEF EndFAT, EndMiniFAT, Loads
  <1>2. Len(fat) \in Nat /\ h.numDir \in Nat /\ h.numMiniFAT \in Nat
    BY LoadedType, HeaderFacts DEF Inv, Typed
  <1> DEFINE C == DirectoryChain
             D == WalkChain(fat, h.firstMiniFAT, h.numMiniFAT)
  <1>3. (C.ok => IsSeq(C.val)) /\ (D.ok => IsSeq(D.val))
    BY <1>2, ChainIsSeq DEF DirectoryChain
  <1>4. Load("parseEntries", C) \/ Load("loadMiniFAT", D)
    BY DEF EndFAT, EndMiniFAT
  <1>5. "parseEntries" \in Loads /\ "loadMiniFAT" \in Loads
    BY DEF Loads
  <1> HIDE DEF C, D
  <1>6. QED
    BY <1>1, <1>3, <1>4, <1>5, LoadKeeps

LEMMA EndEntriesKeeps ==
    ASSUME Inv, EndEntries
    PROVE  Inv'
  <1>1. /\ phase = "parseEntries" /\ phase' \in {"done", "error"}
        /\ UNCHANGED <<file, first, fat, miniFAT, entries, reads>> /\ h' = h
    <2>1. phase = "parseEntries" /\ UNCHANGED <<file, cursor, tables, reads, failed>>
      BY DEF EndEntries
    <2>2. phase' \in {"done", "error"}
      BY DEF EndEntries
    <2>3. QED
      BY <2>1, <2>2 DEF cursor, tables, h
  <1>2. Typed'
    BY <1>1 DEF Inv, Typed, Phases
  <1>3. Accepted'
    BY <1>1 DEF Inv, Accepted
  <1>4. phase' \notin Loads /\ phase' \notin Before /\ phase' # "readDIFAT" /\ phase \in Loads
    BY <1>1 DEF Loads, Before
  <1>5. (BufferMade /\ NothingLoaded /\ OnDIFAT /\ InBatch)'
    BY <1>4 DEF BufferMade, NothingLoaded, OnDIFAT, InBatch
  <1>6. ReadsCounted'
    <2>1. SectorsLoaded' = SectorsLoaded
      BY <1>1 DEF SectorsLoaded
    <2>2. reads <= 2 + h.numDIFAT + SectorsLoaded
      BY <1>4 DEF Inv, ReadsCounted
    <2>3. QED
      BY <1>1, <1>4, <2>1, <2>2 DEF ReadsCounted, Before
  <1>7. QED
    BY <1>2, <1>3, <1>5, <1>6 DEF Inv

LEMMA StutterKeeps ==
    ASSUME Inv, UNCHANGED vars
    PROVE  Inv'
  <1>1. UNCHANGED <<file, phase, buf, sec, left, secs, i, first, fat, miniFAT, entries, reads>>
    BY DEF vars, cursor, tables
  <1>2. /\ h' = h /\ Batch' = Batch /\ BufLen' = BufLen /\ SectorsLoaded' = SectorsLoaded
    BY <1>1 DEF h, Batch, BatchLen, BufLen, Need, SectorsLoaded
  <1>3. Typed' /\ Accepted' /\ NothingLoaded' /\ OnDIFAT'
    BY <1>1, <1>2 DEF Inv, Typed, Accepted, NothingLoaded, OnDIFAT
  <1>4. BufferMade' /\ InBatch' /\ ReadsCounted'
    BY <1>1, <1>2 DEF Inv, BufferMade, InBatch, ReadsCounted
  <1>5. QED
    BY <1>3, <1>4 DEF Inv

THEOREM LoadingInvariant == Spec => []Inv
  <1>1. Init => Inv
    BY InitInv
  <1>2. Inv /\ [Next]_vars => Inv'
    <2>1. SUFFICES ASSUME Inv, [Next]_vars PROVE Inv'
      OBVIOUS
    <2>2. CASE ParseHeader
      BY <2>1, <2>2, ParseHeaderKeeps
    <2>3. CASE SkipProbe \/ Probe
      BY <2>1, <2>3, ProbeKeeps
    <2>4. CASE ReadDIFATSector
      BY <2>1, <2>4, ReadDIFATKeeps
    <2>5. CASE NoDIFATSector
      BY <2>1, <2>5, NoDIFATKeeps
    <2>6. CASE EndDIFAT
      BY <2>1, <2>6, EndDIFATKeeps
    <2>7. CASE ReadRun
      BY <2>1, <2>7, ReadRunKeeps
    <2>8. CASE EndFATBatch \/ EndMiniFATBatch
      BY <2>1, <2>8, EndFATBatchKeeps
    <2>9. CASE EndEntryBatch
      BY <2>1, <2>9, EndEntryBatchKeeps
    <2>10. CASE EndFAT \/ EndMiniFAT
      BY <2>1, <2>10, EndFATKeeps
    <2>11. CASE EndEntries
      BY <2>1, <2>11, EndEntriesKeeps
    <2>12. CASE UNCHANGED vars
      BY <2>1, <2>12, StutterKeeps
    <2>13. QED
      BY <2>1, <2>2, <2>3, <2>4, <2>5, <2>6, <2>7, <2>8, <2>9, <2>10, <2>11, <2>12 DEF Next
  <1>3. QED
    BY <1>1, <1>2, PTL DEF Spec

(* "The parser never panics": whatever the header counts and the chains     *)
(* hold, a batch of sectors fits the buffer that NewReader made, and is     *)
(* never empty, so that its loops get on.                                   *)
THEOREM SlicesFitAlways == Spec => []SlicesFit
  <1>1. Inv => SlicesFit
    BY SlicesOfInv
  <1>2. QED
    BY <1>1, LoadingInvariant, PTL

(* No file makes NewReader call ReadAt more often than the length of its    *)
(* FAT and the sectors of the tables that it builds justify, however its    *)
(* DIFAT and its chains run in circles.                                     *)
THEOREM ReadsAreBounded == Spec => []ReadsBounded
  <1>1. Inv => ReadsBounded
    BY ReadsOfInv
  <1>2. QED
    BY <1>1, LoadingInvariant, PTL

-----------------------------------------------------------------------------
(* Sectors and their cells                                                  *)

\* Sector s lies in the file.
There(f, s) == SectorOffset(s) <= Len(f.body)

\* Cell c of the sectors q, both counted from 0 in the code.
TableCell(f, q, c) == f.body[q[c \div SecSize + 1] * SecSize + (c % SecSize) + 1]

LEMMA DivModFacts ==
    ASSUME NEW c \in Nat, NEW n \in Nat \ {0}
    PROVE  /\ c \div n \in Nat /\ c % n \in Nat
           /\ c = (c \div n) * n + (c % n)
           /\ c % n < n
  OBVIOUS

\* A number below a product.
LEMMA DivBelow ==
    ASSUME NEW m \in Nat, NEW n \in Nat \ {0}, NEW c \in 0 .. m * n - 1
    PROVE  c \div n \in 0 .. m - 1
  <1>1. c \in Nat /\ c < m * n
    <2>1. m * n \in Nat
      OBVIOUS
    <2>2. QED
      BY <2>1
  <1>2. c \div n \in Nat /\ (c \div n) * n <= c
    BY <1>1, DivFloor
  <1>3. c \div n < m
    <2>1. SUFFICES ASSUME m <= c \div n PROVE FALSE
      BY <1>2
    <2>2. m * n <= (c \div n) * n
      BY <1>2, <2>1, TimesMonotone
    <2>3. m * n \in Nat /\ (c \div n) * n \in Nat
      BY <1>2
    <2>4. QED
      BY <1>1, <1>2, <2>2, <2>3
  <1>4. QED
    BY <1>2, <1>3

\* Which of the sectors, and where in it.
LEMMA Position ==
    ASSUME NEW m \in Nat, NEW n \in Nat \ {0}, NEW r \in 0 .. n - 1
    PROVE  (m * n + r) \div n = m /\ (m * n + r) % n = r
  <1>1. m * n \in Nat /\ r \in Nat
    OBVIOUS
  <1>2. (r + m * n) \div n = r \div n + m
    BY <1>1, DivAdds
  <1>3. r \div n = 0
    OBVIOUS
  <1>4. (m * n + r) \div n = m
    BY <1>1, <1>2, <1>3
  <1>5. PICK c \in Nat : c = m * n + r
    BY <1>1
  <1>6. c = (c \div n) * n + (c % n) /\ c % n \in Nat
    BY DivModFacts
  <1>7. c % n = r
    BY <1>1, <1>4, <1>5, <1>6
  <1>8. QED
    BY <1>4, <1>5, <1>7

LEMMA SectorCells ==
    ASSUME NEW f, f.body \in Seq(Cells), NEW s \in Nat, There(f, s)
    PROVE  /\ FileCells(f, SectorOffset(s), SecSize) \in Seq(Cells)
           /\ Len(FileCells(f, SectorOffset(s), SecSize)) = SecSize
           /\ \A k \in 1 .. SecSize :
                 FileCells(f, SectorOffset(s), SecSize)[k] = f.body[s * SecSize + k]
  <1> DEFINE b == f.body
  <1>1. /\ SecSize \in Nat \ {0} /\ SectorOffset(s) = s * SecSize + SecSize /\ Len(b) \in Nat
        /\ s * SecSize \in Nat /\ SectorOffset(s) <= Len(b)
    BY Sizes, SectorBehind DEF There
  <1>2. PICK a \in Nat : a = s * SecSize
    BY <1>1
  <1>3. PICK c \in Nat : c = a + SecSize
    BY <1>1, <1>2
  <1>4. FileCells(f, SectorOffset(s), SecSize) = SubSeq(b, a + 1, c)
    <2>1. SectorOffset(s) - SecSize = a /\ Smaller(a + SecSize, Len(b)) = c
      BY <1>1, <1>2, <1>3 DEF Smaller
    <2>2. QED
      BY <2>1 DEF FileCells
  <1>5. a <= c /\ c <= Len(b) /\ c - a = SecSize
    BY <1>1, <1>2, <1>3
  <1>6. /\ SubSeq(b, a + 1, c) \in Seq(Cells) /\ Len(SubSeq(b, a + 1, c)) = c - a
        /\ \A k \in 1 .. c - a : SubSeq(b, a + 1, c)[k] = b[a + k]
    BY <1>5, Slice
  <1>7. QED
    BY <1>2, <1>4, <1>5, <1>6

\* What a concatenation holds.
LEMMA CatParts ==
    ASSUME NEW T, NEW u \in Seq(T), NEW x \in Seq(T)
    PROVE  /\ Cat(u, x) \in Seq(T) /\ Len(Cat(u, x)) = Len(u) + Len(x)
           /\ \A c \in 1 .. Len(u) : Cat(u, x)[c] = u[c]
           /\ \A c \in 1 .. Len(x) : Cat(u, x)[Len(u) + c] = x[c]
  BY DEF Cat

\* Sequences of one length, flattened.
Flat(q, n) ==
    \A c \in 0 .. Len(q) * n - 1 : FlattenSeq(q)[c + 1] = q[c \div n + 1][(c % n) + 1]

LEMMA FlatUniform ==
    ASSUME NEW T, NEW n \in Nat \ {0}
    PROVE  \A q \in Seq(Seq(T)) : (\A j \in 1 .. Len(q) : Len(q[j]) = n)
             => FlattenSeq(q) \in Seq(T) /\ Len(FlattenSeq(q)) = Len(q) * n /\ Flat(q, n)
  <1> DEFINE Even(q) == \A j \in 1 .. Len(q) : Len(q[j]) = n
             Good(q) == FlattenSeq(q) \in Seq(T) /\ Len(FlattenSeq(q)) = Len(q) * n /\ Flat(q, n)
             Odd == {m \in Nat : \E q \in Seq(Seq(T)) : Len(q) = m /\ Even(q) /\ ~Good(q)}
  <1>1. SUFFICES ASSUME Odd # {} PROVE FALSE
    <2>1. SUFFICES ASSUME NEW q \in Seq(Seq(T)), Even(q) PROVE Good(q)
      BY Zenon
    <2>2. Len(q) \in Nat
      OBVIOUS
    <2>3. QED
      BY <1>1, <2>1, <2>2, Zenon
  <1>2. PICK m \in Odd : \A k \in Odd : m <= k
    BY <1>1, Least
  <1>3. PICK q \in Seq(Seq(T)) : Len(q) = m /\ Even(q) /\ ~Good(q)
    BY <1>2
  <1>4. m \in Nat
    BY <1>2
  <1>5. m # 0
    <2>1. SUFFICES ASSUME m = 0 PROVE FALSE
      OBVIOUS
    <2>2. FlattenSeq(q) = q /\ q = <<>>
      BY <1>3, <2>1 DEF FlattenSeq
    <2>3. FlattenSeq(q) \in Seq(T) /\ Len(FlattenSeq(q)) = 0 /\ Len(q) * n = 0
      BY <1>3, <2>1, <2>2
    <2>4. Flat(q, n)
      BY <2>3 DEF Flat
    <2>5. QED
      BY <1>3, <2>3, <2>4
  <1>6. m - 1 \in Nat /\ m - 1 < m /\ m \in 1 .. m
    BY <1>4, <1>5
  <1> DEFINE p == SubSeq(q, 0 + 1, m - 1)
             x == q[m]
  <1>7. /\ p \in Seq(Seq(T)) /\ Len(p) = m - 1
        /\ \A j \in 1 .. m - 1 : p[j] = q[j]
    <2>1. /\ 0 \in Nat /\ m - 1 \in Nat /\ 0 <= m - 1 /\ m - 1 <= Len(q)
          /\ (m - 1) - 0 = m - 1 /\ \A j \in 1 .. m - 1 : 0 + j = j
      BY <1>3, <1>6
    <2>2. p \in Seq(Seq(T)) /\ Len(p) = (m - 1) - 0 /\ \A j \in 1 .. (m - 1) - 0 : p[j] = q[0 + j]
      BY <2>1, Slice
    <2>3. QED
      BY <2>1, <2>2
  <1> HIDE DEF p
  <1>8. x \in Seq(T) /\ Len(x) = n
    BY <1>3, <1>6, ElementOfSeq
  <1>9. Even(p)
    <2>1. \A j \in 1 .. m - 1 : j \in 1 .. m
      BY <1>4
    <2>2. QED
      BY <1>3, <1>7, <2>1
  <1>10. Good(p)
    <2>1. m - 1 \notin Odd
      BY <1>2, <1>6
    <2> HIDE DEF Good, Even
    <2>2. QED
      BY <1>6, <1>7, <1>9, <2>1
  <1>11. FlattenSeq(q) = Cat(FlattenSeq(p), x)
    <2>1. Agree(p, q, Len(p)) /\ Len(q) = Len(p) + 1
      BY <1>3, <1>4, <1>7 DEF Agree
    <2>2. QED
      BY <1>3, <1>7, <2>1, FlattenMore
  <1>12. PICK k \in Nat : k = (m - 1) * n
    BY <1>6
  <1>13. /\ FlattenSeq(p) \in Seq(T) /\ Len(FlattenSeq(p)) = k
    BY <1>7, <1>10, <1>12
  <1>14. m * n = k + n
    BY <1>4, <1>12
  <1> DEFINE u == FlattenSeq(p)
             w == FlattenSeq(q)
  <1> HIDE DEF x, u
  <1>15. /\ w \in Seq(T) /\ Len(w) = Len(q) * n
         /\ \A c \in 1 .. k : w[c] = u[c]
         /\ \A c \in 1 .. n : w[k + c] = x[c]
    <2>1. w = Cat(u, x) /\ u \in Seq(T) /\ Len(u) = k
      BY <1>11, <1>13 DEF u
    <2> HIDE DEF w, Odd, Good, Even
    <2>2. u \in Seq(T) /\ x \in Seq(T)
      BY <1>8, <2>1
    <2>3. Cat(u, x) \in Seq(T)
      BY <2>2, CatParts
    <2>4. Len(Cat(u, x)) = Len(u) + Len(x)
      BY <2>2, CatParts
    <2>5. \A c \in 1 .. Len(u) : Cat(u, x)[c] = u[c]
      BY <2>2, CatParts
    <2>6. \A c \in 1 .. Len(x) : Cat(u, x)[Len(u) + c] = x[c]
      BY <2>2, CatParts
    <2>7. QED
      BY <1>3, <1>8, <1>14, <2>1, <2>3, <2>4, <2>5, <2>6
  <1>16. /\ \A c \in 1 .. k : FlattenSeq(q)[c] = FlattenSeq(p)[c]
         /\ \A c \in 1 .. n : FlattenSeq(q)[k + c] = q[m][c]
    BY <1>15 DEF u, x
  <1>17. ASSUME NEW c \in 0 .. Len(q) * n - 1
         PROVE  FlattenSeq(q)[c + 1] = q[c \div n + 1][(c % n) + 1]
    <2>1. c \in Nat /\ c < k + n
      BY <1>3, <1>12, <1>14, <1>17
    <2>2. CASE c < k
      <3>1. c \in 0 .. Len(p) * n - 1 /\ c + 1 \in 1 .. k
        BY <1>7, <1>12, <2>1, <2>2
      <3>2. FlattenSeq(p)[c + 1] = p[c \div n + 1][(c % n) + 1]
        BY <1>10, <3>1 DEF Flat
      <3>3. c \div n \in 0 .. (m - 1) - 1
        BY <1>6, <1>7, <3>1, DivBelow
      <3>4. c \div n + 1 \in 1 .. m - 1
        BY <1>6, <3>3
      <3>5. QED
        BY <1>7, <1>16, <3>1, <3>2, <3>4
    <2>3. CASE c >= k
      <3>1. PICK d \in 0 .. n - 1 : c = (m - 1) * n + d
        BY <1>12, <2>1, <2>3
      <3>2. c \div n = m - 1 /\ c % n = d
        BY <1>6, <3>1, Position
      <3>3. FlattenSeq(q)[k + (d + 1)] = q[m][d + 1] /\ k + (d + 1) = c + 1
        BY <1>12, <1>16, <3>1
      <3>4. c \div n + 1 = m
        BY <1>4, <3>2
      <3>5. QED
        BY <3>2, <3>3, <3>4
    <2>4. QED
      BY <1>12, <2>1, <2>2, <2>3
  <1>18. Flat(q, n)
    BY <1>17 DEF Flat
  <1>19. QED
    BY <1>3, <1>15, <1>18

-----------------------------------------------------------------------------
(* Parse, table by table                                                    *)

LEMMA OkBad == ASSUME NEW x PROVE Ok(x).ok /\ Ok(x).val = x /\ ~Bad.ok
  BY DEF Ok, Bad

LEMMA ThenBad == ASSUME NEW f, ~LoadFAT(f).ok PROVE ~Parse(f).ok
  BY OkBad, Zenon DEF Parse, Then

LEMMA ThenMini == ASSUME NEW f, NEW a, LoadFAT(f) = Ok(a), ~LoadMiniFAT(f, a).ok PROVE ~Parse(f).ok
  <1>1. LoadFAT(f).ok /\ LoadFAT(f).val = a
    BY OkBad
  <1>2. QED
    BY <1>1, OkBad, Zenon DEF Parse, Then

\* What remains when the tables are read.
Rest(e, a, m) ==
    IF BeginWithRoot(e)
    THEN Then(LoadMiniStream(a, e[1]), LAMBDA miniStream : WalkBST(e, a, m, miniStream))
    ELSE Bad

LEMMA ParseRest ==
    ASSUME NEW f, NEW a, NEW m, NEW e, HeaderValid(f.header), SizePlausible(f),
           LoadFAT(f) = Ok(a), LoadMiniFAT(f, a) = Ok(m), ParseEntries(f, a, m) = Ok(e),
           BeginWithRoot(e)
    PROVE  Parse(f) = IF Rest(e, a, m).ok THEN Ok([fat |-> a, list |-> Rest(e, a, m).val]) ELSE Bad
  <1>1. LoadFAT(f).ok /\ LoadFAT(f).val = a
    BY OkBad
  <1>2. LoadMiniFAT(f, a).ok /\ LoadMiniFAT(f, a).val = m
    BY OkBad
  <1>3. ParseEntries(f, a, m).ok /\ ParseEntries(f, a, m).val = e
    BY OkBad
  <1> DEFINE L == LoadMiniStream(a, e[1])
             W == WalkBST(e, a, m, L.val)
  <1>4. Parse(f) = IF L.ok THEN IF W.ok THEN Ok([fat |-> a, list |-> W.val]) ELSE Bad ELSE Bad
    BY <1>1, <1>2, <1>3, Zenon DEF Parse, Then
  <1>5. Rest(e, a, m) = IF L.ok THEN W ELSE Bad
    BY DEF Rest, Then
  <1> HIDE DEF L, W
  <1>6. QED
    BY <1>4, <1>5, OkBad

-----------------------------------------------------------------------------
(* readSectors as Parse has it                                              *)

AllThere(f, q) == \A j \in 1 .. Len(q) : There(f, q[j])

\* What it returns: the cells of the sectors, one sector behind the other.
Gathered(f, q, cells) ==
    /\ cells \in Seq(Cells) /\ Len(cells) = Len(q) * SecSize
    /\ \A c \in 0 .. Len(q) * SecSize - 1 : cells[c + 1] = TableCell(f, q, c)

LEMMA SectorsMissing ==
    ASSUME NEW f, NEW q \in Seq(Nat), ~AllThere(f, q)
    PROVE  ~ReadSectors(f, q).ok
  <1>1. DOMAIN q = 1 .. Len(q)
    OBVIOUS
  <1>2. ReadSectors(f, q) = Bad
    BY <1>1 DEF ReadSectors, AllThere, There
  <1>3. QED
    BY <1>2, OkBad

LEMMA SectorsGathered ==
    ASSUME NEW f, f.body \in Seq(Cells), NEW q \in Seq(Nat), AllThere(f, q)
    PROVE  \E cells : ReadSectors(f, q) = Ok(cells) /\ Gathered(f, q, cells)
  <1> DEFINE parts == [j \in DOMAIN q |-> FileCells(f, SectorOffset(q[j]), SecSize)]
  <1>1. DOMAIN q = 1 .. Len(q) /\ Len(q) \in Nat
    OBVIOUS
  <1>2. ReadSectors(f, q) = Ok(FlattenSeq(parts))
    BY <1>1 DEF ReadSectors, AllThere, There
  <1>3. \A j \in 1 .. Len(q) :
           /\ q[j] \in Nat
           /\ FileCells(f, SectorOffset(q[j]), SecSize) \in Seq(Cells)
           /\ Len(FileCells(f, SectorOffset(q[j]), SecSize)) = SecSize
           /\ \A k \in 1 .. SecSize :
                 FileCells(f, SectorOffset(q[j]), SecSize)[k] = f.body[q[j] * SecSize + k]
    <2>1. TAKE j \in 1 .. Len(q)
    <2>2. q[j] \in Nat /\ There(f, q[j])
      BY <1>1, ElementOfSeq DEF AllThere
    <2>3. QED
      BY <2>2, SectorCells
  <1>4. /\ parts \in Seq(Seq(Cells)) /\ Len(parts) = Len(q)
        /\ \A j \in 1 .. Len(q) : parts[j] = FileCells(f, SectorOffset(q[j]), SecSize)
    BY <1>1, <1>3
  <1> HIDE DEF parts
  <1>5. \A j \in 1 .. Len(parts) : Len(parts[j]) = SecSize
    BY <1>3, <1>4
  <1>6. SecSize \in Nat \ {0}
    BY Sizes
  <1>7. /\ FlattenSeq(parts) \in Seq(Cells) /\ Len(FlattenSeq(parts)) = Len(parts) * SecSize
        /\ Flat(parts, SecSize)
    BY <1>4, <1>5, <1>6, FlatUniform
  <1> DEFINE cells == FlattenSeq(parts)
  <1>8. ASSUME NEW c \in 0 .. Len(q) * SecSize - 1 PROVE cells[c + 1] = TableCell(f, q, c)
    <2>1. cells[c + 1] = parts[c \div SecSize + 1][(c % SecSize) + 1]
      BY <1>4, <1>7 DEF Flat
    <2>2. c \div SecSize \in 0 .. Len(q) - 1 /\ c \in Nat
      <3>1. Len(q) * SecSize \in Nat
        BY <1>1, <1>6
      <3>2. c \in Nat
        BY <3>1
      <3>3. c \div SecSize \in 0 .. Len(q) - 1
        BY <1>1, <1>6, DivBelow
      <3>4. QED
        BY <3>2, <3>3
    <2>3. c % SecSize \in Nat /\ c % SecSize < SecSize
      BY <1>6, <2>2, DivModFacts
    <2>4. c \div SecSize + 1 \in 1 .. Len(q) /\ (c % SecSize) + 1 \in 1 .. SecSize
      BY <1>1, <1>6, <2>2, <2>3
    <2>5. PICK j \in 1 .. Len(q) : j = c \div SecSize + 1
      BY <2>4
    <2>6. PICK k \in 1 .. SecSize : k = (c % SecSize) + 1
      BY <2>4
    <2>7. parts[j][k] = f.body[q[j] * SecSize + k]
      <3>1. parts[j] = FileCells(f, SectorOffset(q[j]), SecSize)
        BY <1>4, Zenon
      <3>2. FileCells(f, SectorOffset(q[j]), SecSize)[k] = f.body[q[j] * SecSize + k]
        BY <1>3, Zenon
      <3>3. QED
        BY <3>1, <3>2, Zenon
    <2>8. q[j] * SecSize + k = q[j] * SecSize + (c % SecSize) + 1
      <3>1. q[j] \in Nat
        BY <1>3, Zenon
      <3>2. PICK x \in Nat : x = q[j] * SecSize
        BY <1>6, <3>1
      <3>3. PICK y \in Nat : y = c % SecSize
        BY <2>3
      <3>4. x + k = x + y + 1
        BY <2>6, <3>3
      <3>5. QED
        BY <3>2, <3>3, <3>4
    <2>9. QED
      BY <2>1, <2>5, <2>6, <2>7, <2>8 DEF TableCell
  <1>9. Gathered(f, q, cells)
    BY <1>4, <1>7, <1>8 DEF Gathered
  <1>10. QED
    BY <1>2, <1>9

-----------------------------------------------------------------------------
(* readDIFAT as Parse has it                                                *)

FirstDIFAT(f) == [ok |-> TRUE, sec |-> f.header.firstDIFAT, out |-> Listed(f.header.difat)]

NextDIFAT(f, x) ==
    IF x.ok /\ x.sec <= MaxRegSect /\ ReadSectors(f, <<x.sec>>).ok
    THEN [ok |-> TRUE, sec |-> WordsOf(ReadSectors(f, <<x.sec>>).val)[PerFAT],
          out |-> x.out \o Listed(Take(WordsOf(ReadSectors(f, <<x.sec>>).val), PerFAT - 1))]
    ELSE Bad

Turn(f, a, k) == IF k = 0 THEN FirstDIFAT(f) ELSE NextDIFAT(f, a[k - 1])

\* What is found after each turn of the loop.
Turns(f, n, a) == a = [k \in 0 .. n |-> Turn(f, a, k)]

\* What the loop ends with.
Told(f, x) ==
    IF /\ x.ok
       /\ x.sec = EndOfChain
       /\ \A j \in DOMAIN x.out : x.out[j] <= MaxRegSect
       /\ Len(x.out) = f.header.numFAT
    THEN Ok(x.out) ELSE Bad

LEMMA TurnsExist ==
    ASSUME NEW f, NEW n \in Nat
    PROVE  \E a : Turns(f, n, a)
  <1> DEFINE Open == {k \in Nat : ~\E a : Turns(f, k, a)}
  <1>1. SUFFICES ASSUME Open # {} PROVE FALSE
    OBVIOUS
  <1>2. PICK m \in Open : \A k \in Open : m <= k
    BY <1>1, Least
  <1>3. m # 0
    <2> DEFINE e == [k \in 0 .. 0 |-> FirstDIFAT(f)]
    <2>1. \A k \in 0 .. 0 : Turn(f, e, k) = FirstDIFAT(f)
      BY DEF Turn
    <2>2. e = [k \in 0 .. 0 |-> Turn(f, e, k)]
      BY <2>1
    <2>3. Turns(f, 0, e)
      BY <2>2 DEF Turns
    <2>4. QED
      BY <1>2, <2>3
  <1>4. m \in Nat /\ m - 1 \in Nat /\ m - 1 < m
    BY <1>2, <1>3
  <1>5. m - 1 \notin Open
    BY <1>2, <1>4
  <1>6. PICK a : Turns(f, m - 1, a)
    BY <1>4, <1>5
  <1> DEFINE g == [k \in 0 .. m |-> Turn(f, a, k)]
  <1>7. \A k \in 0 .. m : k = 0 \/ k - 1 \in 0 .. m - 1
    BY <1>4
  <1>8. \A k \in 0 .. m - 1 : k \in 0 .. m
    BY <1>4
  <1>9. ASSUME NEW k \in 0 .. m PROVE Turn(f, a, k) = Turn(f, g, k)
    <2>1. CASE k = 0
      BY <2>1 DEF Turn
    <2>2. CASE k - 1 \in 0 .. m - 1
      <3>1. a[k - 1] = Turn(f, a, k - 1)
        BY <1>6, <2>2 DEF Turns
      <3>2. g[k - 1] = Turn(f, a, k - 1)
        BY <1>8, <2>2
      <3>3. QED
        BY <3>1, <3>2 DEF Turn
    <2>3. QED
      BY <1>7, <2>1, <2>2
  <1>10. Turns(f, m, g)
    BY <1>9 DEF Turns
  <1>11. QED
    BY <1>2, <1>10

\* The function that ReadDIFAT chooses.
LEMMA TurnsChosen ==
    ASSUME NEW f, f.header.numDIFAT \in Nat
    PROVE  \E a : Turns(f, f.header.numDIFAT, a) /\ ReadDIFAT(f) = Told(f, a[f.header.numDIFAT])
  <1> DEFINE g == CHOOSE a : a = [k \in 0 .. f.header.numDIFAT |->
                    IF k = 0
                    THEN [ok |-> TRUE, sec |-> f.header.firstDIFAT, out |-> Listed(f.header.difat)]
                    ELSE IF a[k - 1].ok /\ a[k - 1].sec <= MaxRegSect
                            /\ ReadSectors(f, <<a[k - 1].sec>>).ok
                    THEN [ok |-> TRUE, sec |-> WordsOf(ReadSectors(f, <<a[k - 1].sec>>).val)[PerFAT],
                          out |-> a[k - 1].out
                                  \o Listed(Take(WordsOf(ReadSectors(f, <<a[k - 1].sec>>).val),
                                                 PerFAT - 1))]
                    ELSE Bad]
  <1>1. \E a : Turns(f, f.header.numDIFAT, a)
    BY TurnsExist
  <1>2. \E a : a = [k \in 0 .. f.header.numDIFAT |->
                    IF k = 0
                    THEN [ok |-> TRUE, sec |-> f.header.firstDIFAT, out |-> Listed(f.header.difat)]
                    ELSE IF a[k - 1].ok /\ a[k - 1].sec <= MaxRegSect
                            /\ ReadSectors(f, <<a[k - 1].sec>>).ok
                    THEN [ok |-> TRUE, sec |-> WordsOf(ReadSectors(f, <<a[k - 1].sec>>).val)[PerFAT],
                          out |-> a[k - 1].out
                                  \o Listed(Take(WordsOf(ReadSectors(f, <<a[k - 1].sec>>).val),
                                                 PerFAT - 1))]
                    ELSE Bad]
    BY <1>1 DEF Turns, Turn, FirstDIFAT, NextDIFAT
  <1>3. g = [k \in 0 .. f.header.numDIFAT |->
                    IF k = 0
                    THEN [ok |-> TRUE, sec |-> f.header.firstDIFAT, out |-> Listed(f.header.difat)]
                    ELSE IF g[k - 1].ok /\ g[k - 1].sec <= MaxRegSect
                            /\ ReadSectors(f, <<g[k - 1].sec>>).ok
                    THEN [ok |-> TRUE, sec |-> WordsOf(ReadSectors(f, <<g[k - 1].sec>>).val)[PerFAT],
                          out |-> g[k - 1].out
                                  \o Listed(Take(WordsOf(ReadSectors(f, <<g[k - 1].sec>>).val),
                                                 PerFAT - 1))]
                    ELSE Bad]
    BY <1>2
  <1>4. Turns(f, f.header.numDIFAT, g)
    BY <1>3 DEF Turns, Turn, FirstDIFAT, NextDIFAT
  <1>5. ReadDIFAT(f) = Told(f, g[f.header.numDIFAT])
    BY DEF ReadDIFAT, Told
  <1>6. QED
    BY <1>4, <1>5

\* The turns that were made without an error.
Found == [ok : {TRUE}, sec : Nat, out : Seq(Nat)]

\* A failed turn, or a word that is no sector: readDIFAT gives an error.
Spoilt(x) == x \in Found => \E j \in DOMAIN x.out : ~(x.out[j] <= MaxRegSect)

LEMMA WordsAreNat == ASSUME NEW q \in Seq(0 .. Words - 1) PROVE q \in Seq(Nat)
  <1>1. \A j \in 1 .. Len(q) : q[j] \in 0 .. Words - 1
    BY ElementOfSeq
  <1>2. \A j \in 1 .. Len(q) : q[j] \in Nat
    BY <1>1, Sizes
  <1>3. q = [j \in 1 .. Len(q) |-> q[j]] /\ Len(q) \in Nat
    OBVIOUS
  <1>4. QED
    BY <1>2, <1>3

LEMMA FirstFound ==
    ASSUME file \in Files
    PROVE  FirstDIFAT(file) \in Found
  <1>1. h.firstDIFAT \in Nat /\ h.difat \in Seq(0 .. Words - 1)
    BY HeaderFacts
  <1>2. h.difat \in Seq(Nat)
    BY <1>1, WordsAreNat
  <1>3. Listed(h.difat) \in Seq(Nat)
    BY <1>2, ListedType
  <1>4. QED
    BY <1>1, <1>3 DEF Found, FirstDIFAT, h

\* The cells of one sector.
LEMMA OneSector ==
    ASSUME NEW f, f.body \in Seq(Cells), NEW s \in Nat, There(f, s)
    PROVE  ReadSectors(f, <<s>>) = Ok(FileCells(f, SectorOffset(s), SecSize))
  <1> DEFINE x == FileCells(f, SectorOffset(s), SecSize)
             parts == [j \in DOMAIN <<s>> |-> FileCells(f, SectorOffset(<<s>>[j]), SecSize)]
  <1>1. x \in Seq(Cells)
    BY SectorCells
  <1>2. DOMAIN <<s>> = 1 .. 1 /\ <<s>>[1] = s
    OBVIOUS
  <1>3. ReadSectors(f, <<s>>) = Ok(FlattenSeq(parts))
    BY <1>2 DEF ReadSectors, There
  <1>4. parts = <<x>>
    BY <1>2
  <1> HIDE DEF x, parts
  <1>5. FlattenSeq(<<x>>) = x
    <2>1. <<>> \in Seq(Seq(Cells)) /\ Append(<<>>, x) = <<x>>
      OBVIOUS
    <2>2. FlattenSeq(<<>>) = <<>>
      BY DEF FlattenSeq
    <2>3. FlattenSeq(Append(<<>>, x)) = Cat(FlattenSeq(<<>>), x)
      BY <1>1, <2>1, FlattenLast
    <2>4. QED
      BY <1>1, <2>1, <2>2, <2>3, CatEmpty
  <1>6. QED
    BY <1>3, <1>4, <1>5 DEF x

LEMMA OneSectorMissing ==
    ASSUME NEW f, NEW s \in Nat, ~There(f, s)
    PROVE  ~ReadSectors(f, <<s>>).ok
  <1>1. <<s>> \in Seq(Nat) /\ Len(<<s>>) = 1 /\ <<s>>[1] = s
    OBVIOUS
  <1>2. ~AllThere(f, <<s>>)
    BY <1>1 DEF AllThere
  <1>3. QED
    BY <1>1, <1>2, SectorsMissing

LEMMA NextFound ==
    ASSUME NEW f, f.body \in Seq(Cells), NEW x \in Found, x.sec <= MaxRegSect, There(f, x.sec),
           NEW data, data = FileCells(f, SectorOffset(x.sec), SecSize)
    PROVE  /\ NextDIFAT(f, x) = [ok |-> TRUE, sec |-> WordsOf(data)[PerFAT],
                                 out |-> x.out \o Listed(Take(WordsOf(data), PerFAT - 1))]
           /\ NextDIFAT(f, x) \in Found
  <1>1. x.ok /\ x.sec \in Nat /\ x.out \in Seq(Nat)
    BY DEF Found
  <1>2. ReadSectors(f, <<x.sec>>) = Ok(data)
    BY <1>1, OneSector
  <1>3. ReadSectors(f, <<x.sec>>).ok /\ ReadSectors(f, <<x.sec>>).val = data
    BY <1>2, OkBad
  <1>4. NextDIFAT(f, x) = [ok |-> TRUE, sec |-> WordsOf(data)[PerFAT],
                           out |-> x.out \o Listed(Take(WordsOf(data), PerFAT - 1))]
    BY <1>1, <1>3, Zenon DEF NextDIFAT
  <1>5. data \in Seq(Cells) /\ Len(data) = SecSize
    BY <1>1, SectorCells
  <1>6. WordsOf(data)[PerFAT] \in Nat /\ Listed(Take(WordsOf(data), PerFAT - 1)) \in Seq(Nat)
    BY <1>5, DIFATWords
  <1>7. x.out \o Listed(Take(WordsOf(data), PerFAT - 1)) \in Seq(Nat)
    BY <1>1, <1>6
  <1>8. QED
    BY <1>4, <1>6, <1>7 DEF Found

LEMMA NextMissing ==
    ASSUME NEW f, NEW x, x \notin Found \/ ~(x.sec <= MaxRegSect) \/ ~There(f, x.sec),
           x \in Found \cup {Bad}
    PROVE  NextDIFAT(f, x) = Bad
  <1>1. CASE x = Bad
    BY <1>1, OkBad DEF NextDIFAT
  <1>2. CASE x \in Found /\ ~(x.sec <= MaxRegSect)
    BY <1>2 DEF NextDIFAT
  <1>3. CASE x \in Found /\ ~There(f, x.sec)
    <2>1. ~ReadSectors(f, <<x.sec>>).ok
      BY <1>3, OneSectorMissing DEF Found
    <2>2. QED
      BY <2>1 DEF NextDIFAT
  <1>4. QED
    BY <1>1, <1>2, <1>3

LEMMA BadNotFound == Bad \notin Found
  BY OkBad DEF Found

\* What is spoilt stays so.
LEMMA NextSpoilt ==
    ASSUME NEW f, f.body \in Seq(Cells), NEW x \in Found \cup {Bad}
    PROVE  /\ NextDIFAT(f, x) \in Found \cup {Bad}
           /\ Spoilt(x) => Spoilt(NextDIFAT(f, x))
  <1>1. CASE x \notin Found \/ ~(x.sec <= MaxRegSect) \/ ~There(f, x.sec)
    <2>1. NextDIFAT(f, x) = Bad
      BY <1>1, NextMissing
    <2>2. QED
      BY <2>1, BadNotFound DEF Spoilt
  <1>2. CASE x \in Found /\ x.sec <= MaxRegSect /\ There(f, x.sec)
    <2> DEFINE data == FileCells(f, SectorOffset(x.sec), SecSize)
               more == Listed(Take(WordsOf(data), PerFAT - 1))
               y == NextDIFAT(f, x)
    <2>1. y = [ok |-> TRUE, sec |-> WordsOf(data)[PerFAT], out |-> x.out \o more] /\ y \in Found
      BY <1>2, NextFound
    <2>2. y.out = x.out \o more /\ y.out \in Seq(Nat) /\ x.out \in Seq(Nat)
      BY <1>2, <2>1 DEF Found
    <2>3. more \in Seq(Nat)
      <3>1. data \in Seq(Cells) /\ Len(data) = SecSize
        BY <1>2, SectorCells DEF Found
      <3>2. QED
        BY <3>1, DIFATWords
    <2> HIDE DEF more, y
    <2>4. \A j \in DOMAIN x.out : j \in DOMAIN y.out /\ y.out[j] = x.out[j]
      BY <2>2, <2>3
    <2>5. Spoilt(x) => Spoilt(y)
      BY <1>2, <2>4 DEF Spoilt
    <2>6. QED
      BY <2>1, <2>5 DEF y
  <1>3. QED
    BY <1>1, <1>2

LEMMA TurnsFound ==
    ASSUME file \in Files, NEW n \in Nat, NEW a, Turns(file, n, a)
    PROVE  \A k \in 0 .. n : a[k] \in Found \cup {Bad}
  <1> DEFINE Odd == {k \in 0 .. n : a[k] \notin Found \cup {Bad}}
  <1>1. SUFFICES ASSUME Odd # {} PROVE FALSE
    OBVIOUS
  <1>2. Odd \subseteq Nat
    OBVIOUS
  <1>3. PICK k \in Odd : \A l \in Odd : k <= l
    BY <1>1, <1>2, Least
  <1>4. k \in 0 .. n /\ k \in Nat /\ (k # 0 => k - 1 \in 0 .. n /\ ~(k <= k - 1))
    OBVIOUS
  <1>5. a[k] = Turn(file, a, k)
    BY <1>4 DEF Turns
  <1>6. k # 0
    BY <1>3, <1>5, FirstFound DEF Turn
  <1>7. a[k - 1] \in Found \cup {Bad}
    BY <1>3, <1>4, <1>6
  <1>8. NextDIFAT(file, a[k - 1]) \in Found \cup {Bad}
    BY <1>7, HeaderFacts, NextSpoilt
  <1>9. QED
    BY <1>3, <1>5, <1>6, <1>8 DEF Turn

LEMMA SpoiltLasts ==
    ASSUME file \in Files, NEW n \in Nat, NEW a, Turns(file, n, a), NEW k \in 0 .. n, Spoilt(a[k])
    PROVE  Spoilt(a[n])
  <1> DEFINE Odd == {l \in k .. n : ~Spoilt(a[l])}
  <1>1. SUFFICES ASSUME Odd # {} PROVE FALSE
    <2>1. n \in k .. n
      OBVIOUS
    <2>2. QED
      BY <1>1, <2>1
  <1>2. Odd \subseteq Nat
    OBVIOUS
  <1>3. PICK l \in Odd : \A m \in Odd : l <= m
    BY <1>1, <1>2, Least
  <1>4. l \in k .. n /\ ~Spoilt(a[l])
    BY <1>3
  <1>5. l # k
    BY <1>4
  <1>6. l - 1 \in k .. n /\ l - 1 \in 0 .. n /\ l \in 0 .. n /\ l # 0 /\ ~(l <= l - 1)
    BY <1>4, <1>5
  <1>7. Spoilt(a[l - 1])
    BY <1>3, <1>6
  <1>8. a[l - 1] \in Found \cup {Bad}
    BY <1>6, TurnsFound
  <1>9. a[l] = Turn(file, a, l)
    BY <1>6 DEF Turns
  <1>10. a[l] = NextDIFAT(file, a[l - 1])
    BY <1>6, <1>9 DEF Turn
  <1>11. Spoilt(a[l])
    BY <1>7, <1>8, <1>10, HeaderFacts, NextSpoilt
  <1>12. QED
    BY <1>4, <1>11

\* An error on the way is one of readDIFAT.
LEMMA SpoiltIsBad ==
    ASSUME file \in Files, NEW a, Turns(file, h.numDIFAT, a), ReadDIFAT(file) = Told(file, a[h.numDIFAT]),
           NEW k \in 0 .. h.numDIFAT, Spoilt(a[k])
    PROVE  ~ReadDIFAT(file).ok
  <1>1. h.numDIFAT \in Nat
    BY HeaderFacts
  <1>2. h.numDIFAT \in 0 .. h.numDIFAT
    BY <1>1
  <1>3. Spoilt(a[h.numDIFAT]) /\ a[h.numDIFAT] \in Found \cup {Bad}
    BY <1>1, <1>2, SpoiltLasts, TurnsFound
  <1>4. Told(file, a[h.numDIFAT]) = Bad
    BY <1>3, OkBad DEF Told, Spoilt
  <1>5. QED
    BY <1>4, OkBad

\* A word that is not free is listed.
LEMMA ListedHolds ==
    ASSUME NEW S, NEW q \in Seq(S), NEW n \in 1 .. Len(q), q[n] # FreeSect
    PROVE  \E j \in DOMAIN Listed(q) : Listed(q)[j] = q[n]
  <1>1. Len(q) \in Nat /\ Len(q) \in n .. Len(q)
    OBVIOUS
  <1>2. PICK f : Keeps(q, Len(q), f) /\ Listed(q) = f[Len(q)]
    BY <1>1, ListedChosen
  <1>3. \A m \in 0 .. Len(q) : f[m] \in Seq(S)
    <2>1. \A m \in 1 .. Len(q) : q[m] = FreeSect \/ q[m] \in S
      BY ElementOfSeq
    <2>2. QED
      BY <1>2, <2>1, KeptType
  <1> DEFINE Holds(m) == \E j \in DOMAIN f[m] : f[m][j] = q[n]
             Odd == {m \in n .. Len(q) : ~Holds(m)}
  <1>4. SUFFICES ASSUME Odd # {} PROVE FALSE
    BY <1>1, <1>2
  <1>5. Odd \subseteq Nat
    BY <1>1
  <1>6. PICK m \in Odd : \A k \in Odd : m <= k
    BY <1>4, <1>5, Least
  <1>7. m \in n .. Len(q) /\ ~Holds(m)
    BY <1>6
  <1>8. /\ m \in 0 .. Len(q) /\ m # 0 /\ m - 1 \in 0 .. Len(q) /\ ~(m <= m - 1)
        /\ m # n => m - 1 \in n .. Len(q)
    BY <1>1, <1>7
  <1>9. f[m] = IF q[m] = FreeSect THEN f[m - 1] ELSE Append(f[m - 1], q[m])
    BY <1>2, <1>8 DEF Keeps, Kept
  <1>10. f[m - 1] \in Seq(S) /\ q[m] \in S
    <2>1. m \in 1 .. Len(q)
      BY <1>8
    <2>2. QED
      BY <1>3, <1>8, <2>1, ElementOfSeq
  <1>11. PICK u \in Seq(S) : u = f[m - 1]
    BY <1>10
  <1>12. CASE m = n
    <2>1. f[m] = Append(u, q[n])
      BY <1>9, <1>11, <1>12
    <2>2. Len(u) + 1 \in DOMAIN Append(u, q[n]) /\ Append(u, q[n])[Len(u) + 1] = q[n]
      OBVIOUS
    <2>3. QED
      BY <1>7, <2>1, <2>2
  <1>13. CASE m # n
    <2>1. Holds(m - 1)
      BY <1>6, <1>8, <1>13
    <2>2. PICK j \in DOMAIN u : u[j] = q[n]
      BY <1>11, <2>1
    <2>3. j \in DOMAIN Append(u, q[m]) /\ Append(u, q[m])[j] = q[n]
      BY <2>2
    <2>4. QED
      BY <1>7, <1>9, <1>11, <2>2, <2>3
  <1>14. QED
    BY <1>12, <1>13

-----------------------------------------------------------------------------
(* walkChain returns numbers of sectors                                     *)

Hop(f, s) == IF s <= MaxRegSect /\ s < Len(f) THEN f[s + 1] ELSE s

HopFrom(f, a, w, k) == IF k = 0 THEN a ELSE [s \in Nat |-> Hop(f, s)][w[k - 1]]

Hops(f, a, n, w) == w = [k \in 0 .. n |-> HopFrom(f, a, w, k)]

LEMMA HopsExist ==
    ASSUME NEW f, NEW a, NEW n \in Nat
    PROVE  \E w : Hops(f, a, n, w)
  <1> DEFINE Open == {k \in Nat : ~\E w : Hops(f, a, k, w)}
  <1>1. SUFFICES ASSUME Open # {} PROVE FALSE
    OBVIOUS
  <1>2. PICK m \in Open : \A k \in Open : m <= k
    BY <1>1, Least
  <1>3. m # 0
    <2> DEFINE e == [k \in 0 .. 0 |-> a]
    <2>1. \A k \in 0 .. 0 : HopFrom(f, a, e, k) = a
      BY DEF HopFrom
    <2>2. e = [k \in 0 .. 0 |-> HopFrom(f, a, e, k)]
      BY <2>1
    <2>3. Hops(f, a, 0, e)
      BY <2>2 DEF Hops
    <2>4. QED
      BY <1>2, <2>3
  <1>4. m \in Nat /\ m - 1 \in Nat /\ m - 1 < m
    BY <1>2, <1>3
  <1>5. m - 1 \notin Open
    BY <1>2, <1>4
  <1>6. PICK w : Hops(f, a, m - 1, w)
    BY <1>4, <1>5
  <1> DEFINE g == [k \in 0 .. m |-> HopFrom(f, a, w, k)]
  <1>7. \A k \in 0 .. m : k = 0 \/ k - 1 \in 0 .. m - 1
    BY <1>4
  <1>8. \A k \in 0 .. m - 1 : k \in 0 .. m
    BY <1>4
  <1>9. ASSUME NEW k \in 0 .. m PROVE HopFrom(f, a, w, k) = HopFrom(f, a, g, k)
    <2>1. CASE k = 0
      BY <2>1 DEF HopFrom
    <2>2. CASE k - 1 \in 0 .. m - 1
      <3>1. w[k - 1] = HopFrom(f, a, w, k - 1)
        BY <1>6, <2>2 DEF Hops
      <3>2. g[k - 1] = HopFrom(f, a, w, k - 1)
        BY <1>8, <2>2
      <3>3. QED
        BY <3>1, <3>2 DEF HopFrom
    <2>3. QED
      BY <1>7, <2>1, <2>2
  <1>10. Hops(f, a, m, g)
    BY <1>9 DEF Hops
  <1>11. QED
    BY <1>2, <1>10

LEMMA ChainNumbers ==
    ASSUME NEW f \in Seq(Nat), NEW a \in Nat, NEW n \in Nat, WalkChain(f, a, n).ok
    PROVE  WalkChain(f, a, n) = Ok(WalkChain(f, a, n).val) /\ WalkChain(f, a, n).val \in Seq(Nat)
  <1> DEFINE next == [s \in Nat |-> IF s <= MaxRegSect /\ s < Len(f) THEN f[s + 1] ELSE s]
             at == CHOOSE w : w = [k \in 0 .. WalkLimit(f, n) |-> IF k = 0 THEN a ELSE next[w[k - 1]]]
             ends == {k \in 0 .. WalkLimit(f, n) : at[k] = EndOfChain}
             chain == [k \in 1 .. Min(ends) |-> at[k - 1]]
  <1>1. WalkChain(f, a, n) = IF ends # {} /\ (n > 0 => Min(ends) = n) THEN Ok(chain) ELSE Bad
    BY DEF WalkChain
  <1>2. WalkLimit(f, n) \in Nat
    BY DEF WalkLimit, Smaller
  <1>3. Hops(f, a, WalkLimit(f, n), at)
    <2>1. PICK w : Hops(f, a, WalkLimit(f, n), w)
      BY <1>2, HopsExist
    <2>2. w = [k \in 0 .. WalkLimit(f, n) |-> IF k = 0 THEN a ELSE next[w[k - 1]]]
      BY <2>1 DEF Hops, HopFrom, Hop
    <2>3. at = [k \in 0 .. WalkLimit(f, n) |-> IF k = 0 THEN a ELSE next[at[k - 1]]]
      BY <2>2
    <2>4. QED
      BY <2>3 DEF Hops, HopFrom, Hop
  <1> HIDE DEF at
  <1>4. \A k \in 0 .. WalkLimit(f, n) : at[k] \in Nat
    <2> DEFINE Odd == {k \in 0 .. WalkLimit(f, n) : at[k] \notin Nat}
    <2>1. SUFFICES ASSUME Odd # {} PROVE FALSE
      OBVIOUS
    <2>2. Odd \subseteq Nat
      OBVIOUS
    <2>3. PICK k \in Odd : \A l \in Odd : k <= l
      BY <2>1, <2>2, Least
    <2>4. k \in 0 .. WalkLimit(f, n) /\ at[k] \notin Nat
      BY <2>3
    <2>5. at[k] = IF k = 0 THEN a ELSE [s \in Nat |-> Hop(f, s)][at[k - 1]]
      BY <1>3, <2>4 DEF Hops, HopFrom
    <2>6. k # 0
      BY <2>4, <2>5
    <2>7. k - 1 \in 0 .. WalkLimit(f, n) /\ ~(k <= k - 1)
      BY <1>2, <2>4, <2>6
    <2>8. at[k - 1] \in Nat
      BY <2>3, <2>7
    <2>9. at[k] = Hop(f, at[k - 1])
      BY <2>5, <2>6, <2>8
    <2>10. \A s \in Nat : Hop(f, s) \in Nat
      <3>1. TAKE s \in Nat
      <3>2. s < Len(f) => f[s + 1] \in Nat
        OBVIOUS
      <3>3. QED
        BY <3>2 DEF Hop
    <2>11. QED
      BY <2>4, <2>8, <2>9, <2>10
  <1>5. WalkChain(f, a, n) = Ok(chain) /\ ends # {}
    BY <1>1, OkBad
  <1>6. Min(ends) \in 0 .. WalkLimit(f, n)
    <2>1. ends \subseteq Nat
      BY <1>2
    <2>2. PICK m \in ends : \A k \in ends : m <= k
      BY <1>5, <2>1, Least
    <2>3. Min(ends) \in ends
      BY <2>2 DEF Min
    <2>4. QED
      BY <2>3
  <1> HIDE DEF ends
  <1>7. \A k \in 1 .. Min(ends) : at[k - 1] \in Nat
    <2>1. TAKE k \in 1 .. Min(ends)
    <2>2. k - 1 \in 0 .. WalkLimit(f, n)
      BY <1>2, <1>6
    <2>3. QED
      BY <1>4, <2>2
  <1>8. chain \in Seq(Nat)
    BY <1>2, <1>6, <1>7
  <1> HIDE DEF chain
  <1>9. QED
    BY <1>5, <1>8, OkBad

-----------------------------------------------------------------------------
(* A call of ReadAt, and what it adds to the buffer                         *)

LEMMA CellsFull ==
    ASSUME NEW f, f.body \in Seq(Cells), NEW off \in Nat, SecSize <= off, NEW n \in Nat,
           off - SecSize + n <= Len(f.body)
    PROVE  /\ FileCells(f, off, n) \in Seq(Cells) /\ Len(FileCells(f, off, n)) = n
           /\ \A k \in 1 .. n : FileCells(f, off, n)[k] = f.body[off - SecSize + k]
  <1> DEFINE b == f.body
  <1>1. Len(b) \in Nat /\ SecSize \in Nat
    BY Sizes
  <1>2. PICK a \in Nat : a = off - SecSize
    BY <1>1
  <1>3. PICK c \in Nat : c = a + n
    BY <1>2
  <1>4. FileCells(f, off, n) = SubSeq(b, a + 1, c)
    <2>1. Smaller(a + n, Len(b)) = c
      BY <1>1, <1>2, <1>3 DEF Smaller
    <2>2. QED
      BY <1>2, <2>1 DEF FileCells
  <1>5. a <= c /\ c <= Len(b) /\ c - a = n
    BY <1>1, <1>2, <1>3
  <1>6. /\ SubSeq(b, a + 1, c) \in Seq(Cells) /\ Len(SubSeq(b, a + 1, c)) = c - a
        /\ \A k \in 1 .. c - a : SubSeq(b, a + 1, c)[k] = b[a + k]
    BY <1>5, Slice
  <1>7. QED
    BY <1>2, <1>4, <1>5, <1>6

\* A call that gives an error has failed, or the file ends too early.
LEMMA CallFails ==
    ASSUME file \in Files, NEW off \in Nat, SecSize <= off, NEW n \in Nat \ {0},
           NEW r \in ReadAtResults(off, n), r.err # "nil", Called(r, n)
    PROVE  failed' \/ ~(off - SecSize + n <= Len(file.body))
  <1> DEFINE data == FileCells(file, off, n)
  <1>1. SUFFICES ASSUME off - SecSize + n <= Len(file.body) PROVE failed'
    OBVIOUS
  <1>2. Len(data) = n
    BY <1>1, HeaderFacts, CellsFull
  <1> HIDE DEF data
  <1>3. failed' = (failed \/ r.err = "other" \/ (r.err = "EOF" /\ Len(r.data) = n))
    BY DEF Called
  <1>4. \/ r = [data |-> data, err |-> IF Len(data) = n THEN "nil" ELSE "EOF"]
        \/ r \in {[data |-> data, err |-> e] : e \in IF off + n = Size THEN {"EOF"} ELSE {}}
        \/ r \in {[data |-> <<>>, err |-> e] : e \in IF Faulty THEN {"other"} ELSE {}}
    BY Zenon DEF ReadAtResults, data
  <1>5. CASE r = [data |-> data, err |-> IF Len(data) = n THEN "nil" ELSE "EOF"]
    BY <1>2, <1>5
  <1>6. CASE r \in {[data |-> data, err |-> e] : e \in IF off + n = Size THEN {"EOF"} ELSE {}}
    <2>1. r.data = data /\ r.err = "EOF"
      BY <1>6
    <2>2. QED
      BY <1>2, <1>3, <2>1
  <1>7. CASE r \in {[data |-> <<>>, err |-> e] : e \in IF Faulty THEN {"other"} ELSE {}}
    <2>1. r.err = "other"
      BY <1>7
    <2>2. QED
      BY <1>3, <2>1
  <1>8. QED
    BY <1>4, <1>5, <1>6, <1>7

\* Cells lie in the sectors that are there.
LEMMA CellThere ==
    ASSUME NEW f, f.body \in Seq(Cells), NEW q \in Seq(Nat), NEW n \in Nat, n <= Len(q),
           \A j \in 1 .. n : There(f, q[j]), NEW c \in 0 .. n * SecSize - 1
    PROVE  TableCell(f, q, c) \in Cells
  <1>1. SecSize \in Nat \ {0} /\ n * SecSize \in Nat
    BY Sizes
  <1>13. c \in Nat
    BY <1>1
  <1>2. c \div SecSize \in 0 .. n - 1
    BY <1>1, DivBelow
  <1>3. c % SecSize \in Nat /\ c % SecSize < SecSize
    BY <1>1, <1>13, DivModFacts
  <1>4. PICK j \in 1 .. n : j = c \div SecSize + 1
    BY <1>2
  <1>5. PICK x \in Nat : x = c % SecSize
    BY <1>3
  <1>6. j \in 1 .. Len(q)
    BY <1>4
  <1>7. PICK s \in Nat : s = q[j]
    BY <1>6, ElementOfSeq
  <1>8. SectorOffset(s) <= Len(f.body) /\ SectorOffset(s) = s * SecSize + SecSize
    BY <1>4, <1>7, SectorBehind DEF There
  <1>9. PICK y \in Nat : y = s * SecSize
    BY <1>1
  <1>10. y + x + 1 \in 1 .. Len(f.body)
    <2>1. PICK l \in Nat : l = Len(f.body)
      OBVIOUS
    <2>2. y + SecSize <= l /\ x < SecSize
      BY <1>3, <1>5, <1>8, <1>9, <2>1
    <2>3. QED
      BY <1>1, <2>1, <2>2
  <1>11. TableCell(f, q, c) = f.body[y + x + 1]
    BY <1>4, <1>5, <1>7, <1>9 DEF TableCell
  <1>12. QED
    BY <1>10, <1>11, ElementOfSeq

\* The buffer holds the cells of n sectors behind the a-th.
Filled(f, q, a, n, b) ==
    \A c \in 0 .. n * SecSize - 1 : b[c + 1] = TableCell(f, q, a * SecSize + c)

\* Behind the first a + n of the sectors q there are k neighbours from s on.
RunAt(q, a, n, k, s) == \A t \in 0 .. k - 1 : q[a + n + t + 1] = s + t

\* Behind the first a of them, each one from the (n + 1)-th to the m-th is
\* followed by its neighbour.
Adjoin(q, a, n, m) == \A j \in n + 1 .. m - 1 : q[a + (j + 1)] = q[a + j] + 1

LEMMA Neighbours ==
    ASSUME NEW q \in Seq(Nat), NEW a \in Nat, NEW n \in Nat, NEW m \in Nat, n < m, a + m <= Len(q),
           Adjoin(q, a, n, m)
    PROVE  RunAt(q, a, n, m - n, q[a + n + 1])
  <1> DEFINE Odd == {t \in 0 .. m - n - 1 : q[a + n + t + 1] # q[a + n + 1] + t}
  <1>1. SUFFICES ASSUME Odd # {} PROVE FALSE
    BY DEF RunAt
  <1>2. Odd \subseteq Nat
    OBVIOUS
  <1>3. PICK t \in Odd : \A k \in Odd : t <= k
    BY <1>1, <1>2, Least
  <1>4. t \in 0 .. m - n - 1 /\ q[a + n + t + 1] # q[a + n + 1] + t
    BY <1>3
  <1>5. a + n + 1 \in 1 .. Len(q)
    BY <1>4
  <1>6. q[a + n + 1] \in Nat
    BY <1>5, ElementOfSeq
  <1>7. t # 0
    BY <1>4, <1>5, <1>6
  <1>8. PICK j : j = n + t
    OBVIOUS
  <1>9. t - 1 \in 0 .. m - n - 1 /\ ~(t <= t - 1) /\ j \in n + 1 .. m - 1
    BY <1>4, <1>7, <1>8
  <1>10. q[a + n + (t - 1) + 1] = q[a + n + 1] + (t - 1)
    BY <1>3, <1>9
  <1>11. a + n + (t - 1) + 1 = a + j /\ a + n + t + 1 = a + (j + 1)
    BY <1>4, <1>8
  <1>12. q[a + (j + 1)] = q[a + j] + 1
    BY <1>9 DEF Adjoin
  <1>13. PICK z \in Nat : z = q[a + n + 1]
    BY <1>6
  <1>14. q[a + n + t + 1] = q[a + j] + 1
    BY <1>11, <1>12, Zenon
  <1>15. q[a + j] = z + (t - 1)
    BY <1>10, <1>11, <1>13, Zenon
  <1>16. z + (t - 1) + 1 = z + t
    BY <1>4
  <1>17. QED
    BY <1>4, <1>13, <1>14, <1>15, <1>16, Zenon

\* A run's sectors are there if its last one is.
LEMMA RunThere ==
    ASSUME NEW f, f.body \in Seq(Cells), NEW s \in Nat, NEW k \in Nat, NEW t \in 0 .. k - 1,
           s * SecSize + k * SecSize <= Len(f.body)
    PROVE  There(f, s + t)
  <1>1. SecSize \in Nat /\ Len(f.body) \in Nat /\ t \in Nat
    BY Sizes
  <1>2. (t + 1) * SecSize <= k * SecSize
    BY <1>1, TimesMonotone
  <1>3. SectorOffset(s + t) = (s + t) * SecSize + SecSize
    BY <1>1, SectorBehind
  <1>4. (s + t) * SecSize = s * SecSize + t * SecSize /\ (t + 1) * SecSize = t * SecSize + SecSize
    BY <1>1
  <1>5. s * SecSize \in Nat /\ t * SecSize \in Nat /\ k * SecSize \in Nat
    BY <1>1
  <1>6. QED
    BY <1>1, <1>2, <1>3, <1>4, <1>5 DEF There

\* The place of the d-th cell of a run.
LEMMA PlaceInRun ==
    ASSUME NEW f, NEW q, NEW a \in Nat, NEW n \in Nat, NEW k \in Nat, NEW s \in Nat,
           RunAt(q, a, n, k, s),
           NEW d \in 0 .. k * SecSize - 1
    PROVE  TableCell(f, q, a * SecSize + (n * SecSize + d)) = f.body[s * SecSize + (d + 1)]
  <1>1. SecSize \in Nat \ {0} /\ k * SecSize \in Nat
    BY Sizes
  <1>2. d \in Nat /\ d \div SecSize \in 0 .. k - 1
    <2>1. d \in Nat
      BY <1>1
    <2>2. d \div SecSize \in 0 .. k - 1
      BY <1>1, DivBelow
    <2>3. QED
      BY <2>1, <2>2
  <1>3. PICK t \in 0 .. k - 1 : t = d \div SecSize
    BY <1>2
  <1>4. PICK r \in 0 .. SecSize - 1 : r = d % SecSize
    <2>1. d % SecSize \in Nat /\ d % SecSize < SecSize
      BY <1>1, <1>2, DivModFacts
    <2>2. QED
      BY <1>1, <2>1
  <1>5. d = t * SecSize + r
    BY <1>1, <1>2, <1>3, <1>4, DivModFacts
  <1>6. a * SecSize + (n * SecSize + d) = (a + n + t) * SecSize + r
    <2>1. (a + n + t) * SecSize = a * SecSize + n * SecSize + t * SecSize
      BY <1>1
    <2>2. a * SecSize \in Nat /\ n * SecSize \in Nat /\ t * SecSize \in Nat
      BY <1>1
    <2>3. QED
      BY <1>5, <2>1, <2>2
  <1>7. PICK c \in Nat : c = (a + n + t) * SecSize + r
    BY <1>1
  <1>8. c \div SecSize = a + n + t /\ c % SecSize = r
    <2>1. a + n + t \in Nat
      OBVIOUS
    <2>2. QED
      BY <1>1, <1>7, <2>1, Position
  <1>9. TableCell(f, q, c) = f.body[(s + t) * SecSize + r + 1]
    <2>1. q[c \div SecSize + 1] = s + t
      BY <1>3, <1>8 DEF RunAt
    <2>2. QED
      BY <1>8, <2>1 DEF TableCell
  <1>10. (s + t) * SecSize + r + 1 = s * SecSize + (d + 1)
    <2>1. (s + t) * SecSize = s * SecSize + t * SecSize /\ s * SecSize \in Nat /\ t * SecSize \in Nat
      BY <1>1
    <2>2. QED
      BY <1>5, <2>1
  <1>11. QED
    BY <1>6, <1>7, <1>9, <1>10

LEMMA RunFills ==
    ASSUME NEW f, f.body \in Seq(Cells), NEW q, NEW a \in Nat, NEW n \in Nat, NEW k \in Nat, NEW s \in Nat,
           RunAt(q, a, n, k, s),
           s * SecSize + k * SecSize <= Len(f.body),
           NEW b, IsSeq(b), (n + k) * SecSize <= Len(b), Filled(f, q, a, n, b),
           NEW data, data = FileCells(f, SectorOffset(s), k * SecSize)
    PROVE  Filled(f, q, a, n + k, Overwrite(b, n * SecSize, data))
  <1>1. /\ SecSize \in Nat /\ k * SecSize \in Nat /\ n * SecSize \in Nat /\ s * SecSize \in Nat
        /\ (n + k) * SecSize = n * SecSize + k * SecSize
        /\ Len(b) \in Nat /\ DOMAIN b = 1 .. Len(b)
    BY Sizes, SeqLen
  <1>2. PICK u \in Nat : u = n * SecSize
    BY <1>1
  <1>3. PICK v \in Nat : v = k * SecSize
    BY <1>1
  <1>4. PICK w \in Nat : w = s * SecSize
    BY <1>1
  <1>5. /\ data \in Seq(Cells) /\ Len(data) = v
        /\ \A d \in 1 .. v : data[d] = f.body[w + d]
    <2>1. SectorOffset(s) \in Nat /\ SecSize <= SectorOffset(s) /\ SectorOffset(s) - SecSize = w
      BY <1>4, SectorPlace
    <2>2. SectorOffset(s) - SecSize + v <= Len(f.body)
      BY <1>3, <1>4, <2>1
    <2>3. PICK off \in Nat : off = SectorOffset(s)
      BY <2>1
    <2>4. data = FileCells(f, off, v)
      BY <1>3, <2>3, Zenon
    <2>5. SecSize <= off /\ off - SecSize + v <= Len(f.body) /\ off - SecSize = w
      BY <2>1, <2>2, <2>3, Zenon
    <2>6. /\ data \in Seq(Cells) /\ Len(data) = v
          /\ \A d \in 1 .. v : data[d] = f.body[off - SecSize + d]
      BY <2>4, <2>5, CellsFull
    <2>7. QED
      BY <2>5, <2>6
  <1>6. DOMAIN data = 1 .. v
    BY <1>5
  <1>9. \A d \in 0 .. k * SecSize - 1 :
            TableCell(f, q, a * SecSize + (n * SecSize + d)) = f.body[s * SecSize + (d + 1)]
    <2>1. TAKE d \in 0 .. k * SecSize - 1
    <2>2. a \in Nat /\ n \in Nat /\ k \in Nat /\ s \in Nat /\ RunAt(q, a, n, k, s)
      OBVIOUS
    <2>3. QED
      BY <2>2, PlaceInRun
  <1>7. ASSUME NEW c \in 0 .. (n + k) * SecSize - 1
        PROVE  Overwrite(b, u, data)[c + 1] = TableCell(f, q, a * SecSize + c)
    <2>1. c \in Nat /\ c < u + v /\ u + v <= Len(b)
      BY <1>1, <1>2, <1>3
    <2>2. c + 1 \in DOMAIN b
      BY <1>1, <2>1
    <2>3. Overwrite(b, u, data)[c + 1] = IF c + 1 - u \in 1 .. v THEN data[c + 1 - u] ELSE b[c + 1]
      BY <1>6, <2>2 DEF Overwrite
    <2>4. CASE c < u
      <3>1. c \in 0 .. n * SecSize - 1 /\ c + 1 - u \notin 1 .. v
        BY <1>2, <2>1, <2>4
      <3>2. QED
        BY <2>3, <3>1 DEF Filled
    <2>5. CASE u <= c
      <3>1. PICK d \in 0 .. v - 1 : c = u + d
        BY <2>1, <2>5
      <3>2. c + 1 - u = d + 1 /\ d + 1 \in 1 .. v
        BY <3>1
      <3>3. Overwrite(b, u, data)[c + 1] = f.body[w + (d + 1)]
        BY <1>5, <2>3, <3>2
      <3>4. TableCell(f, q, a * SecSize + (n * SecSize + d)) = f.body[s * SecSize + (d + 1)]
        <4>1. d \in 0 .. k * SecSize - 1
          BY <1>3, <3>1
        <4>2. QED
          BY <1>9, <4>1, Zenon
      <3>5. n * SecSize + d = c
        BY <1>2, <3>1, Zenon
      <3>6. TableCell(f, q, a * SecSize + c) = f.body[w + (d + 1)]
        BY <1>4, <3>4, <3>5, Zenon
      <3>7. QED
        BY <3>3, <3>6, Zenon
    <2>6. QED
      BY <2>1, <2>4, <2>5
  <1>8. QED
    BY <1>2, <1>7 DEF Filled

-----------------------------------------------------------------------------
(* Tables as they grow                                                      *)

LEMMA LenZeroIsEmpty == ASSUME NEW q, IsSeq(q), Len(q) = 0 PROVE q = <<>>
  <1>1. PICK S : q \in Seq(S)
    BY DEF IsSeq
  <1>2. QED
    BY <1>1

\* What a concatenation holds.
LEMMA JoinParts ==
    ASSUME NEW T, NEW u \in Seq(T), NEW x \in Seq(T)
    PROVE  /\ u \o x \in Seq(T) /\ Len(u \o x) = Len(u) + Len(x)
           /\ \A c \in 1 .. Len(u) : (u \o x)[c] = u[c]
           /\ \A c \in 1 .. Len(x) : (u \o x)[Len(u) + c] = x[c]
  OBVIOUS

\* t holds the words of the first n sectors of q.
HasWords(f, q, n, t) ==
    /\ t \in Seq(Nat) /\ Len(t) = n * SecSize
    /\ \A c \in 0 .. n * SecSize - 1 : t[c + 1] = WordAt(TableCell(f, q, c))

LEMMA NoWords ==
    ASSUME NEW f, NEW q, NEW t, IsSeq(t), Len(t) = 0
    PROVE  HasWords(f, q, 0, t)
  <1>1. t = <<>>
    BY LenZeroIsEmpty
  <1>2. t \in Seq(Nat) /\ 0 * SecSize = 0
    BY <1>1, Sizes
  <1>3. QED
    BY <1>2 DEF HasWords

\* The cells of m sectors behind the n-th.
Holds(f, q, n, m, x) ==
    /\ x \in Seq(Cells) /\ Len(x) = m * SecSize
    /\ \A c \in 0 .. m * SecSize - 1 : x[c + 1] = TableCell(f, q, n * SecSize + c)

LEMMA WordsGrow ==
    ASSUME NEW f, NEW q, NEW n \in Nat, NEW m \in Nat, NEW t, HasWords(f, q, n, t),
           NEW x, Holds(f, q, n, m, x)
    PROVE  HasWords(f, q, n + m, t \o WordsOf(x))
  <1>1. PICK u \in Nat : u = n * SecSize
    BY Sizes
  <1>2. PICK v \in Nat : v = m * SecSize
    BY Sizes
  <1>3. (n + m) * SecSize = u + v
    <2>1. (n + m) * SecSize = n * SecSize + m * SecSize
      BY Sizes
    <2>2. QED
      BY <1>1, <1>2, <2>1
  <1> DEFINE w == WordsOf(x)
  <1>4. /\ t \in Seq(Nat) /\ Len(t) = u
        /\ \A c \in 0 .. u - 1 : t[c + 1] = WordAt(TableCell(f, q, c))
    BY <1>1 DEF HasWords
  <1>5. /\ x \in Seq(Cells) /\ Len(x) = v
        /\ \A c \in 0 .. v - 1 : x[c + 1] = TableCell(f, q, u + c)
    BY <1>1, <1>2 DEF Holds
  <1>6. w \in Seq(Nat) /\ Len(w) = v /\ \A c \in 1 .. v : w[c] = WordAt(x[c])
    <2>1. w \in Seq(Nat) /\ Len(w) = v
      BY <1>5, WordsType
    <2>2. DOMAIN x = 1 .. v
      BY <1>5
    <2>3. QED
      BY <2>1, <2>2 DEF WordsOf
  <1> HIDE DEF w
  <1>7. /\ t \o w \in Seq(Nat) /\ Len(t \o w) = u + v
        /\ \A c \in 1 .. u : (t \o w)[c] = t[c]
        /\ \A c \in 1 .. v : (t \o w)[u + c] = w[c]
    <2>1. t \o w \in Seq(Nat) /\ Len(t \o w) = Len(t) + Len(w)
      BY <1>4, <1>6, JoinParts
    <2>2. \A c \in 1 .. Len(t) : (t \o w)[c] = t[c]
      BY <1>4, <1>6, JoinParts
    <2>3. \A c \in 1 .. Len(w) : (t \o w)[Len(t) + c] = w[c]
      BY <1>4, <1>6, JoinParts
    <2>4. QED
      BY <1>4, <1>6, <2>1, <2>2, <2>3, Zenon
  <1> DEFINE g == t \o w
  <1>10. g = t \o w
    OBVIOUS
  <1> HIDE DEF g
  <1>8. ASSUME NEW c \in 0 .. (n + m) * SecSize - 1
        PROVE  g[c + 1] = WordAt(TableCell(f, q, c))
    <2>1. c \in Nat /\ c < u + v
      BY <1>3
    <2>2. CASE c < u
      <3>1. c \in 0 .. u - 1 /\ c + 1 \in 1 .. u
        BY <2>1, <2>2
      <3>2. g[c + 1] = t[c + 1]
        BY <1>7, <1>10, <3>1
      <3>3. QED
        BY <1>4, <3>1, <3>2
    <2>3. CASE u <= c
      <3>1. PICK d \in 0 .. v - 1 : c = u + d
        BY <2>1, <2>3
      <3>2. d + 1 \in 1 .. v /\ c + 1 = u + (d + 1)
        BY <3>1
      <3>3. g[c + 1] = w[d + 1]
        BY <1>7, <1>10, <3>2
      <3>4. w[d + 1] = WordAt(x[d + 1])
        BY <1>6, <3>2
      <3>5. x[d + 1] = TableCell(f, q, c)
        BY <1>5, <3>1
      <3>6. QED
        BY <3>3, <3>4, <3>5
    <2>4. QED
      BY <2>1, <2>2, <2>3
  <1>9. QED
    BY <1>3, <1>7, <1>8, <1>10 DEF HasWords, w

\* With all the sectors, the table is what the cells of all of them say.
LEMMA WordsDone ==
    ASSUME NEW f, NEW q \in Seq(Nat), NEW t, HasWords(f, q, Len(q), t),
           NEW cells, Gathered(f, q, cells)
    PROVE  WordsOf(cells) = t
  <1>1. PICK v \in Nat : v = Len(q) * SecSize
    BY Sizes
  <1>2. /\ t \in Seq(Nat) /\ Len(t) = v
        /\ \A c \in 0 .. v - 1 : t[c + 1] = WordAt(TableCell(f, q, c))
    BY <1>1 DEF HasWords
  <1>3. /\ cells \in Seq(Cells) /\ Len(cells) = v
        /\ \A c \in 0 .. v - 1 : cells[c + 1] = TableCell(f, q, c)
    BY <1>1 DEF Gathered
  <1>4. DOMAIN cells = 1 .. v /\ t = [k \in 1 .. v |-> t[k]]
    BY <1>2, <1>3
  <1>5. \A k \in 1 .. v : WordAt(cells[k]) = t[k]
    <2>1. TAKE k \in 1 .. v
    <2>2. PICK c \in 0 .. v - 1 : k = c + 1
      <3>1. k - 1 \in 0 .. v - 1 /\ k = (k - 1) + 1
        OBVIOUS
      <3>2. QED
        BY <3>1
    <2>3. QED
      BY <1>2, <1>3, <2>2
  <1>6. QED
    BY <1>4, <1>5 DEF WordsOf

-----------------------------------------------------------------------------
\* An entry that parseEntries takes.
Allowed(c, a, m) == c.k = "dirent" /\ SizeAllowed(ParseEntry(c), a, m)

\* t holds the entries of the first n sectors of q.
HasEntries(f, q, n, a, m, t) ==
    /\ IsSeq(t) /\ Len(t) * DirentSize = n * SecSize
    /\ \A e \in 0 .. Len(t) - 1 :
          /\ Allowed(TableCell(f, q, e * DirentSize), a, m)
          /\ t[e + 1] = ParseEntry(TableCell(f, q, e * DirentSize))

LEMMA NoEntries ==
    ASSUME NEW f, NEW q, NEW a, NEW m, NEW t, IsSeq(t), Len(t) = 0
    PROVE  HasEntries(f, q, 0, a, m, t)
  <1>1. 0 * SecSize = 0 /\ 0 * DirentSize = 0
    BY Sizes
  <1>2. QED
    BY <1>1 DEF HasEntries

\* The entries in cells, counted from 0, and what EntriesIn makes of them.
LEMMA EntriesFound ==
    ASSUME NEW x, NEW v \in Nat, Len(x) = v * DirentSize, NEW a, NEW m
    PROVE  EntriesIn(x, a, m) =
               IF \A g \in 1 .. v : Allowed(x[(g - 1) * DirentSize + 1], a, m)
               THEN Ok([g \in 1 .. v |-> ParseEntry(x[(g - 1) * DirentSize + 1])]) ELSE Bad
  <1>1. Len(x) \div DirentSize = v
    <2>1. (0 + v * DirentSize) \div DirentSize = 0 \div DirentSize + v
      BY Sizes, DivAdds
    <2>2. 0 \div DirentSize = 0 /\ v * DirentSize \in Nat
      BY Sizes
    <2>3. QED
      BY <2>1, <2>2
  <1> DEFINE found == Dirents(x)
  <1>2. found = [g \in 1 .. v |-> x[(g - 1) * DirentSize + 1]]
    BY <1>1 DEF Dirents
  <1>3. EntriesIn(x, a, m) =
            IF \A g \in DOMAIN found : found[g].k = "dirent" /\ SizeAllowed(ParseEntry(found[g]), a, m)
            THEN Ok([g \in DOMAIN found |-> ParseEntry(found[g])]) ELSE Bad
    BY DEF EntriesIn
  <1> HIDE DEF found
  <1>4. DOMAIN found = 1 .. v /\ \A g \in 1 .. v : found[g] = x[(g - 1) * DirentSize + 1]
    BY <1>2
  <1>5. (\A g \in DOMAIN found : found[g].k = "dirent" /\ SizeAllowed(ParseEntry(found[g]), a, m))
            <=> \A g \in 1 .. v : Allowed(x[(g - 1) * DirentSize + 1], a, m)
    BY <1>4, Zenon DEF Allowed
  <1>6. [g \in DOMAIN found |-> ParseEntry(found[g])]
            = [g \in 1 .. v |-> ParseEntry(x[(g - 1) * DirentSize + 1])]
    BY <1>4, Zenon
  <1>7. QED
    BY <1>3, <1>5, <1>6, Zenon

\* Where the g-th entry of a batch lies.
LEMMA EntryPlace ==
    ASSUME NEW n \in Nat, NEW m \in Nat, NEW k \in Nat, NEW v \in Nat,
           k * DirentSize = n * SecSize, v * DirentSize = m * SecSize, NEW g \in 1 .. v
    PROVE  /\ (g - 1) * DirentSize \in 0 .. m * SecSize - 1
           /\ n * SecSize + (g - 1) * DirentSize = (k + (g - 1)) * DirentSize
  <1>1. PICK d \in 0 .. v - 1 : d = g - 1
    OBVIOUS
  <1>2. d \in Nat /\ DirentSize \in Nat \ {0} /\ (d + 1) * DirentSize <= v * DirentSize
    <2>1. d + 1 <= v /\ d + 1 \in Nat
      BY <1>1
    <2>2. QED
      BY <2>1, Sizes, TimesMonotone
  <1>3. (d + 1) * DirentSize = d * DirentSize + DirentSize /\ d * DirentSize \in Nat
    BY <1>2
  <1>4. d * DirentSize \in 0 .. m * SecSize - 1
    <2>1. m * SecSize \in Nat
      BY Sizes
    <2>2. QED
      BY <1>2, <1>3, <2>1
  <1>5. (k + d) * DirentSize = k * DirentSize + d * DirentSize
    BY <1>2
  <1>6. QED
    BY <1>1, <1>4, <1>5

LEMMA EntriesGrow ==
    ASSUME NEW f, NEW q, NEW n \in Nat, NEW m \in Nat, NEW a, NEW b, NEW t, HasEntries(f, q, n, a, b, t),
           NEW x, Holds(f, q, n, m, x), EntriesIn(x, a, b).ok
    PROVE  HasEntries(f, q, n + m, a, b, t \o EntriesIn(x, a, b).val)
  <1>1. PICK v \in Nat : v * DirentSize = m * SecSize
    BY EntriesFill
  <1>2. PICK k \in Nat : k = Len(t)
    BY SeqLen DEF HasEntries
  <1>3. /\ IsSeq(t) /\ k * DirentSize = n * SecSize
        /\ \A e \in 0 .. k - 1 :
              /\ Allowed(TableCell(f, q, e * DirentSize), a, b)
              /\ t[e + 1] = ParseEntry(TableCell(f, q, e * DirentSize))
    BY <1>2 DEF HasEntries
  <1>4. /\ Len(x) = v * DirentSize
        /\ \A c \in 0 .. m * SecSize - 1 : x[c + 1] = TableCell(f, q, n * SecSize + c)
    BY <1>1 DEF Holds
  <1> DEFINE y == [g \in 1 .. v |-> ParseEntry(x[(g - 1) * DirentSize + 1])]
  <1>5. /\ \A g \in 1 .. v : Allowed(x[(g - 1) * DirentSize + 1], a, b)
        /\ EntriesIn(x, a, b) = Ok(y)
    <2>1. EntriesIn(x, a, b) =
               IF \A g \in 1 .. v : Allowed(x[(g - 1) * DirentSize + 1], a, b) THEN Ok(y) ELSE Bad
      BY <1>4, EntriesFound, Zenon
    <2>2. QED
      BY <2>1, OkBad, Zenon
  <1>6. EntriesIn(x, a, b).val = y
    BY <1>5, OkBad, Zenon
  <1>7. y = [g \in 1 .. v |-> y[g]] /\ \A g \in 1 .. v : y[g] = ParseEntry(x[(g - 1) * DirentSize + 1])
    OBVIOUS
  <1> HIDE DEF y
  <1>8. IsSeq(y) /\ Len(y) = v
    BY <1>7, FunctionIsSeq
  <1>9. \A g \in 1 .. v : x[(g - 1) * DirentSize + 1] = TableCell(f, q, (k + (g - 1)) * DirentSize)
    <2>1. TAKE g \in 1 .. v
    <2>2. /\ (g - 1) * DirentSize \in 0 .. m * SecSize - 1
          /\ n * SecSize + (g - 1) * DirentSize = (k + (g - 1)) * DirentSize
      BY <1>1, <1>3, EntryPlace
    <2>3. QED
      BY <1>4, <2>2, Zenon
  <1> DEFINE z == t \o y
  <1>10. /\ IsSeq(z) /\ Len(z) = k + v
         /\ \A e \in 1 .. k : z[e] = t[e]
         /\ \A e \in 1 .. v : z[k + e] = y[e]
    <2>1. IsSeq(z) /\ Len(z) = k + v
      BY <1>2, <1>3, <1>8, JoinIsSeq
    <2>2. PICK S : t \in Seq(S)
      BY <1>3 DEF IsSeq
    <2>3. PICK T : y \in Seq(T)
      BY <1>8 DEF IsSeq
    <2>4. t \in Seq(S \cup T) /\ y \in Seq(S \cup T)
      BY <2>2, <2>3
    <2>5. (\A e \in 1 .. k : z[e] = t[e]) /\ \A e \in 1 .. v : z[k + e] = y[e]
      BY <1>2, <1>8, <2>4
    <2>6. QED
      BY <2>1, <2>5
  <1> HIDE DEF z
  <1>11. ASSUME NEW e \in 0 .. k + v - 1
         PROVE  /\ Allowed(TableCell(f, q, e * DirentSize), a, b)
                /\ z[e + 1] = ParseEntry(TableCell(f, q, e * DirentSize))
    <2>1. CASE e < k
      <3>1. e \in 0 .. k - 1 /\ e + 1 \in 1 .. k
        BY <2>1
      <3>2. QED
        BY <1>3, <1>10, <3>1
    <2>2. CASE k <= e
      <3>1. PICK g \in 1 .. v : e = k + (g - 1)
        <4>1. e - k + 1 \in 1 .. v /\ e = k + ((e - k + 1) - 1)
          BY <2>2
        <4>2. QED
          BY <4>1
      <3>2. e + 1 = k + g
        BY <3>1
      <3>3. z[e + 1] = y[g]
        BY <1>10, <3>2
      <3>4. y[g] = ParseEntry(x[(g - 1) * DirentSize + 1])
        BY <1>7, Zenon
      <3>5. x[(g - 1) * DirentSize + 1] = TableCell(f, q, e * DirentSize)
        BY <1>9, <3>1, Zenon
      <3>6. Allowed(x[(g - 1) * DirentSize + 1], a, b)
        BY <1>5, Zenon
      <3>7. QED
        BY <3>3, <3>4, <3>5, <3>6, Zenon
    <2>3. QED
      BY <2>1, <2>2
  <1>12. Len(z) * DirentSize = (n + m) * SecSize
    <2>1. (k + v) * DirentSize = k * DirentSize + v * DirentSize
          /\ (n + m) * SecSize = n * SecSize + m * SecSize
      BY Sizes
    <2>2. QED
      BY <1>1, <1>3, <1>10, <2>1, Zenon
  <1>13. HasEntries(f, q, n + m, a, b, z)
    BY <1>10, <1>11, <1>12 DEF HasEntries
  <1>14. QED
    BY <1>6, <1>13, Zenon DEF z

\* Entries refused in a batch are refused in the whole directory.
LEMMA EntriesRefused ==
    ASSUME NEW f, NEW q \in Seq(Nat), NEW n \in Nat, NEW m \in Nat, n + m <= Len(q), NEW a, NEW b,
           NEW t, HasEntries(f, q, n, a, b, t),
           NEW x, Holds(f, q, n, m, x), ~EntriesIn(x, a, b).ok,
           NEW cells, Gathered(f, q, cells)
    PROVE  ~EntriesIn(cells, a, b).ok
  <1>1. PICK v \in Nat : v * DirentSize = m * SecSize
    BY EntriesFill
  <1>2. PICK l \in Nat : l * DirentSize = Len(q) * SecSize
    BY EntriesFill
  <1>3. PICK k \in Nat : k = Len(t)
    BY SeqLen DEF HasEntries
  <1>4. k * DirentSize = n * SecSize
    BY <1>3 DEF HasEntries
  <1>5. /\ Len(x) = v * DirentSize
        /\ \A c \in 0 .. m * SecSize - 1 : x[c + 1] = TableCell(f, q, n * SecSize + c)
    BY <1>1 DEF Holds
  <1>6. /\ Len(cells) = l * DirentSize
        /\ \A c \in 0 .. Len(q) * SecSize - 1 : cells[c + 1] = TableCell(f, q, c)
    BY <1>2 DEF Gathered
  <1>7. PICK g \in 1 .. v : ~Allowed(x[(g - 1) * DirentSize + 1], a, b)
    <2>1. EntriesIn(x, a, b) =
               IF \A g \in 1 .. v : Allowed(x[(g - 1) * DirentSize + 1], a, b)
               THEN Ok([g \in 1 .. v |-> ParseEntry(x[(g - 1) * DirentSize + 1])]) ELSE Bad
      BY <1>5, EntriesFound, Zenon
    <2>2. QED
      BY <2>1, OkBad, Zenon
  <1>8. /\ (g - 1) * DirentSize \in 0 .. m * SecSize - 1
        /\ n * SecSize + (g - 1) * DirentSize = (k + (g - 1)) * DirentSize
    BY <1>1, <1>4, EntryPlace
  <1>9. x[(g - 1) * DirentSize + 1] = TableCell(f, q, (k + (g - 1)) * DirentSize)
    BY <1>5, <1>8, Zenon
  <1>10. PICK e \in Nat : e = k + g
    OBVIOUS
  <1>11. e - 1 = k + (g - 1)
    BY <1>10
  <1>12. PICK c \in Nat : c = (e - 1) * DirentSize
    <2>1. e - 1 \in Nat
      BY <1>10
    <2>2. QED
      BY <2>1, Sizes
  <1>13. c \in 0 .. Len(q) * SecSize - 1
    <2>1. (n + m) * SecSize <= Len(q) * SecSize /\ (n + m) * SecSize = n * SecSize + m * SecSize
          /\ n * SecSize \in Nat /\ m * SecSize \in Nat /\ Len(q) * SecSize \in Nat
      <3>1. n + m \in Nat /\ Len(q) \in Nat /\ SecSize \in Nat
        BY Sizes
      <3>2. QED
        BY <3>1, TimesMonotone
    <2>2. c = n * SecSize + (g - 1) * DirentSize
      BY <1>8, <1>11, <1>12, Zenon
    <2>3. QED
      BY <1>8, <2>1, <2>2
  <1>14. e \in 1 .. l
    <2>1. SUFFICES ASSUME l <= e - 1 PROVE FALSE
      BY <1>10
    <2>2. l * DirentSize <= (e - 1) * DirentSize
      BY <1>10, <2>1, Sizes, TimesMonotone
    <2>3. Len(q) * SecSize \in Nat
      BY Sizes
    <2>4. QED
      BY <1>2, <1>12, <1>13, <2>2, <2>3
  <1>15. cells[(e - 1) * DirentSize + 1] = x[(g - 1) * DirentSize + 1]
    <2>1. cells[c + 1] = TableCell(f, q, c)
      BY <1>6, <1>13, Zenon
    <2>2. QED
      BY <1>9, <1>11, <1>12, <2>1, Zenon
  <1>16. EntriesIn(cells, a, b) =
             IF \A k_ \in 1 .. l : Allowed(cells[(k_ - 1) * DirentSize + 1], a, b)
             THEN Ok([k_ \in 1 .. l |-> ParseEntry(cells[(k_ - 1) * DirentSize + 1])]) ELSE Bad
    BY <1>6, EntriesFound, Zenon
  <1>17. QED
    BY <1>7, <1>14, <1>15, <1>16, OkBad, Zenon

LEMMA EntriesDone ==
    ASSUME NEW f, NEW q \in Seq(Nat), NEW a, NEW b, NEW t, HasEntries(f, q, Len(q), a, b, t),
           NEW cells, Gathered(f, q, cells)
    PROVE  EntriesIn(cells, a, b) = Ok(t)
  <1>1. PICK l \in Nat : l = Len(t)
    BY SeqLen DEF HasEntries
  <1>2. /\ IsSeq(t) /\ l * DirentSize = Len(q) * SecSize
        /\ \A e \in 0 .. l - 1 :
              /\ Allowed(TableCell(f, q, e * DirentSize), a, b)
              /\ t[e + 1] = ParseEntry(TableCell(f, q, e * DirentSize))
    BY <1>1 DEF HasEntries
  <1>3. /\ Len(cells) = l * DirentSize
        /\ \A c \in 0 .. Len(q) * SecSize - 1 : cells[c + 1] = TableCell(f, q, c)
    BY <1>2 DEF Gathered
  <1>4. ASSUME NEW g \in 1 .. l
        PROVE  /\ Allowed(cells[(g - 1) * DirentSize + 1], a, b)
               /\ t[g] = ParseEntry(cells[(g - 1) * DirentSize + 1])
    <2>1. PICK e \in 0 .. l - 1 : e = g - 1
      OBVIOUS
    <2>2. /\ (g - 1) * DirentSize \in 0 .. Len(q) * SecSize - 1
      <3>1. 0 \in Nat /\ Len(q) \in Nat /\ 0 * DirentSize = 0 * SecSize
        BY Sizes
      <3>2. QED
        BY <1>2, <3>1, EntryPlace
    <2>3. cells[(g - 1) * DirentSize + 1] = TableCell(f, q, (g - 1) * DirentSize)
      BY <1>3, <2>2, Zenon
    <2>4. cells[(g - 1) * DirentSize + 1] = TableCell(f, q, e * DirentSize)
      BY <2>1, <2>3, Zenon
    <2>5. e + 1 = g
      BY <2>1
    <2>6. QED
      BY <1>2, <2>4, <2>5, Zenon
  <1>5. t = [g \in 1 .. l |-> t[g]]
    <2>1. PICK S : t \in Seq(S)
      BY <1>2 DEF IsSeq
    <2>2. QED
      BY <1>1, <2>1
  <1>6. EntriesIn(cells, a, b) =
             IF \A g \in 1 .. l : Allowed(cells[(g - 1) * DirentSize + 1], a, b)
             THEN Ok([g \in 1 .. l |-> ParseEntry(cells[(g - 1) * DirentSize + 1])]) ELSE Bad
    BY <1>3, EntriesFound, Zenon
  <1>7. [g \in 1 .. l |-> ParseEntry(cells[(g - 1) * DirentSize + 1])] = [g \in 1 .. l |-> t[g]]
    BY <1>4, Zenon
  <1>8. QED
    BY <1>4, <1>5, <1>6, <1>7, Zenon

-----------------------------------------------------------------------------
(* From the tables to what Parse returns                                    *)

LEMMA FATRead ==
    ASSUME NEW f, NEW q, ReadDIFAT(f) = Ok(q), NEW cells, ReadSectors(f, q) = Ok(cells)
    PROVE  LoadFAT(f) = Ok(WordsOf(cells))
  <1>1. ReadDIFAT(f).ok /\ ReadDIFAT(f).val = q
    BY OkBad
  <1>2. ReadSectors(f, q).ok /\ ReadSectors(f, q).val = cells
    BY OkBad
  <1>3. QED
    BY <1>1, <1>2, Zenon DEF LoadFAT, Then

LEMMA FATUnread ==
    ASSUME NEW f, ~ReadDIFAT(f).ok \/ \E q : ReadDIFAT(f) = Ok(q) /\ ~ReadSectors(f, q).ok
    PROVE  ~Parse(f).ok
  <1>1. CASE ~ReadDIFAT(f).ok
    <2>1. LoadFAT(f) = Bad
      BY <1>1, Zenon DEF LoadFAT, Then
    <2>2. QED
      BY <2>1, OkBad, ThenBad
  <1>2. CASE \E q : ReadDIFAT(f) = Ok(q) /\ ~ReadSectors(f, q).ok
    <2>1. PICK q : ReadDIFAT(f) = Ok(q) /\ ~ReadSectors(f, q).ok
      BY <1>2
    <2>2. ReadDIFAT(f).ok /\ ReadDIFAT(f).val = q
      BY <2>1, OkBad
    <2>3. LoadFAT(f) = Bad
      BY <2>1, <2>2, Zenon DEF LoadFAT, Then
    <2>4. QED
      BY <2>3, OkBad, ThenBad
  <1>3. QED
    BY <1>1, <1>2

MiniChain(f, a) == WalkChain(a, f.header.firstMiniFAT, f.header.numMiniFAT)

LEMMA MiniNone ==
    ASSUME NEW f, NEW a, f.header.numMiniFAT = 0
    PROVE  LoadMiniFAT(f, a) = Ok(<<>>)
  BY DEF LoadMiniFAT

LEMMA MiniRead ==
    ASSUME NEW f, NEW a, f.header.numMiniFAT # 0, NEW q, MiniChain(f, a) = Ok(q),
           NEW cells, ReadSectors(f, q) = Ok(cells)
    PROVE  LoadMiniFAT(f, a) = Ok(WordsOf(cells))
  <1>1. MiniChain(f, a).ok /\ MiniChain(f, a).val = q
    BY OkBad
  <1>2. ReadSectors(f, q).ok /\ ReadSectors(f, q).val = cells
    BY OkBad
  <1>3. QED
    BY <1>1, <1>2, Zenon DEF LoadMiniFAT, MiniChain, Then

LEMMA MiniUnread ==
    ASSUME NEW f, NEW a, LoadFAT(f) = Ok(a), f.header.numMiniFAT # 0,
           ~MiniChain(f, a).ok \/ \E q : MiniChain(f, a) = Ok(q) /\ ~ReadSectors(f, q).ok
    PROVE  ~Parse(f).ok
  <1>1. CASE ~MiniChain(f, a).ok
    <2>1. LoadMiniFAT(f, a) = Bad
      BY <1>1, Zenon DEF LoadMiniFAT, MiniChain, Then
    <2>2. QED
      BY <2>1, OkBad, ThenMini
  <1>2. CASE \E q : MiniChain(f, a) = Ok(q) /\ ~ReadSectors(f, q).ok
    <2>1. PICK q : MiniChain(f, a) = Ok(q) /\ ~ReadSectors(f, q).ok
      BY <1>2
    <2>2. MiniChain(f, a).ok /\ MiniChain(f, a).val = q
      BY <2>1, OkBad
    <2>3. LoadMiniFAT(f, a) = Bad
      BY <2>1, <2>2, Zenon DEF LoadMiniFAT, MiniChain, Then
    <2>4. QED
      BY <2>3, OkBad, ThenMini
  <1>3. QED
    BY <1>1, <1>2

LEMMA ThenEntries ==
    ASSUME NEW f, NEW a, NEW m, LoadFAT(f) = Ok(a), LoadMiniFAT(f, a) = Ok(m), ~ParseEntries(f, a, m).ok
    PROVE  ~Parse(f).ok
  <1>1. LoadFAT(f).ok /\ LoadFAT(f).val = a
    BY OkBad
  <1>2. LoadMiniFAT(f, a).ok /\ LoadMiniFAT(f, a).val = m
    BY OkBad
  <1>3. QED
    BY <1>1, <1>2, OkBad, Zenon DEF Parse, Then

DirChain(f, a) == WalkChain(a, f.header.firstDir, f.header.numDir)

LEMMA EntriesRead ==
    ASSUME NEW f, NEW a, NEW m, NEW q, DirChain(f, a) = Ok(q),
           NEW cells, ReadSectors(f, q) = Ok(cells)
    PROVE  ParseEntries(f, a, m) = EntriesOf(cells, a, m)
  <1>1. DirChain(f, a).ok /\ DirChain(f, a).val = q
    BY OkBad
  <1>2. ReadSectors(f, q).ok /\ ReadSectors(f, q).val = cells
    BY OkBad
  <1>3. QED
    BY <1>1, <1>2, Zenon DEF ParseEntries, DirChain, Then

LEMMA EntriesUnread ==
    ASSUME NEW f, NEW a, NEW m, LoadFAT(f) = Ok(a), LoadMiniFAT(f, a) = Ok(m),
           ~DirChain(f, a).ok \/ \E q : DirChain(f, a) = Ok(q) /\ ~ReadSectors(f, q).ok
    PROVE  ~Parse(f).ok
  <1>1. CASE ~DirChain(f, a).ok
    <2>1. ParseEntries(f, a, m) = Bad
      BY <1>1, Zenon DEF ParseEntries, DirChain, Then
    <2>2. QED
      BY <2>1, OkBad, ThenEntries
  <1>2. CASE \E q : DirChain(f, a) = Ok(q) /\ ~ReadSectors(f, q).ok
    <2>1. PICK q : DirChain(f, a) = Ok(q) /\ ~ReadSectors(f, q).ok
      BY <1>2
    <2>2. DirChain(f, a).ok /\ DirChain(f, a).val = q
      BY <2>1, OkBad
    <2>3. ParseEntries(f, a, m) = Bad
      BY <2>1, <2>2, Zenon DEF ParseEntries, DirChain, Then
    <2>4. QED
      BY <2>3, OkBad, ThenEntries
  <1>3. QED
    BY <1>1, <1>2

LEMMA EntriesBad ==
    ASSUME NEW f, NEW a, NEW m, LoadFAT(f) = Ok(a), LoadMiniFAT(f, a) = Ok(m),
           NEW q, DirChain(f, a) = Ok(q), NEW cells, ReadSectors(f, q) = Ok(cells),
           ~EntriesOf(cells, a, m).ok
    PROVE  ~Parse(f).ok
  <1>1. ParseEntries(f, a, m) = EntriesOf(cells, a, m)
    BY EntriesRead
  <1>2. QED
    BY <1>1, ThenEntries, Zenon

LEMMA HeaderRefused ==
    ASSUME NEW f, ~HeaderValid(f.header) \/ ~SizePlausible(f)
    PROVE  ~Parse(f).ok
  BY OkBad, Zenon DEF Parse

-----------------------------------------------------------------------------
(* The invariant: what is loaded is what Parse finds                        *)

\* k turns of the loop of readDIFAT, at the sector s with the sectors q.
OnWay(f, k, s, q) ==
    \E a : /\ Turns(f, f.header.numDIFAT, a)
           /\ ReadDIFAT(f) = Told(f, a[f.header.numDIFAT])
           /\ a[k] = [ok |-> TRUE, sec |-> s, out |-> q]

\* The sectors read so far are there, and the buffer holds the last of them.
BatchHeld(f, q, a, n, b) ==
    /\ q \in Seq(Nat)
    /\ \A j \in 1 .. Len(q) : j <= a + n => There(f, q[j])
    /\ Filled(f, q, a, n, b)

\* Of the sectors q, those whose batch has been added to the table.
Added(q, a) == Smaller(a, Len(q))

Plausible == phase \in {"readDIFAT", "done"} \cup Loads => SizePlausible(file)

DIFATFollowed ==
    phase = "readDIFAT" =>
        OnWay(file, h.numDIFAT - left, sec, secs) /\ secs \in Seq(0 .. MaxRegSect)

Held == phase \in Loads => BatchHeld(file, secs, i, first, buf)

LoadingFAT ==
    phase = "loadFAT" => /\ ReadDIFAT(file) = Ok(secs) /\ HasWords(file, secs, Added(secs, i), fat)
                         /\ Len(miniFAT) = 0 /\ Len(entries) = 0

FATLoaded ==
    phase \in {"loadMiniFAT", "parseEntries"} => LoadFAT(file) = Ok(fat) /\ fat \in Seq(Nat)

LoadingMini ==
    phase = "loadMiniFAT" => /\ h.numMiniFAT # 0 /\ MiniChain(file, fat) = Ok(secs)
                             /\ HasWords(file, secs, Added(secs, i), miniFAT)
                             /\ Len(entries) = 0

LoadingEntries ==
    phase = "parseEntries" =>
        /\ LoadMiniFAT(file, fat) = Ok(miniFAT)
        /\ DirChain(file, fat) = Ok(secs)
        /\ HasEntries(file, secs, Added(secs, i), fat, miniFAT, entries)

Faithful ==
    /\ Plausible /\ DIFATFollowed /\ Held
    /\ LoadingFAT /\ FATLoaded /\ LoadingMini /\ LoadingEntries
    /\ LoadsWhatIsThere

\* An error is all that is left to show.
LEMMA ErrorFaithful ==
    ASSUME phase' = "error", failed' \/ ~Parse(file').ok
    PROVE  Faithful'
  <1>1. "error" \notin Loads
    BY DEF Loads
  <1>2. (Plausible /\ DIFATFollowed /\ Held)'
    BY <1>1 DEF Plausible, DIFATFollowed, Held
  <1>3. (LoadingFAT /\ FATLoaded /\ LoadingMini /\ LoadingEntries /\ LoadsWhatIsThere)'
    BY DEF LoadingFAT, FATLoaded, LoadingMini, LoadingEntries, LoadsWhatIsThere
  <1>4. QED
    BY <1>2, <1>3 DEF Faithful

LEMMA InitFaithful ==
    ASSUME Init PROVE Faithful
  <1>1. phase = "parseHeader" /\ "parseHeader" \notin Loads
    BY DEF Init, Loads
  <1>2. Plausible /\ DIFATFollowed /\ Held
    BY <1>1 DEF Plausible, DIFATFollowed, Held
  <1>3. LoadingFAT /\ FATLoaded /\ LoadingMini /\ LoadingEntries /\ LoadsWhatIsThere
    BY <1>1 DEF LoadingFAT, FATLoaded, LoadingMini, LoadingEntries, LoadsWhatIsThere
  <1>4. QED
    BY <1>2, <1>3 DEF Faithful

LEMMA HeaderFaithful ==
    ASSUME Inv, Faithful, ParseHeader
    PROVE  Faithful'
  <1>1. PICK err \in HeaderErrors :
            /\ phase' = IF err = "nil" /\ HeaderValid(h) THEN "checkFileSize" ELSE "error"
            /\ failed' = (err # "nil")
    BY DEF ParseHeader
  <1>2. file' = file
    BY DEF ParseHeader
  <1>3. CASE phase' = "error"
    <2>1. failed' \/ ~HeaderValid(file.header)
      BY <1>1, <1>3 DEF h
    <2>2. QED
      BY <1>2, <1>3, <2>1, HeaderRefused, ErrorFaithful
  <1>4. CASE phase' = "checkFileSize"
    <2>1. "checkFileSize" \notin Loads
      BY DEF Loads
    <2>2. (Plausible /\ DIFATFollowed /\ Held)'
      BY <1>4, <2>1 DEF Plausible, DIFATFollowed, Held
    <2>3. (LoadingFAT /\ FATLoaded /\ LoadingMini /\ LoadingEntries /\ LoadsWhatIsThere)'
      BY <1>4 DEF LoadingFAT, FATLoaded, LoadingMini, LoadingEntries, LoadsWhatIsThere
    <2>4. QED
      BY <2>2, <2>3 DEF Faithful
  <1>5. QED
    BY <1>1, <1>3, <1>4

\* A word of the header that is no sector number.
LEMMA FirstSpoilt ==
    ASSUME file \in Files, ~ \A n \in DOMAIN h.difat : h.difat[n] \in (0 .. MaxRegSect) \cup {FreeSect}
    PROVE  ~Parse(file).ok
  <1>1. h.difat \in Seq(0 .. Words - 1) /\ h.numDIFAT \in Nat
    BY HeaderFacts
  <1>2. PICK n \in 1 .. Len(h.difat) : h.difat[n] \notin (0 .. MaxRegSect) \cup {FreeSect}
    BY <1>1
  <1>3. h.difat[n] # FreeSect /\ h.difat[n] \in Nat /\ ~(h.difat[n] <= MaxRegSect)
    <2>1. h.difat[n] \in 0 .. Words - 1
      BY <1>1, ElementOfSeq
    <2>2. MaxRegSect \in Nat
      BY Sizes DEF MaxRegSect
    <2>3. QED
      BY <1>2, <2>1, <2>2
  <1>4. PICK j \in DOMAIN Listed(h.difat) : Listed(h.difat)[j] = h.difat[n]
    BY <1>1, <1>3, ListedHolds
  <1>5. PICK a : Turns(file, h.numDIFAT, a) /\ ReadDIFAT(file) = Told(file, a[h.numDIFAT])
    BY <1>1, TurnsChosen DEF h
  <1>6. a[0] = FirstDIFAT(file)
    BY <1>1, <1>5 DEF Turns, Turn
  <1>7. Spoilt(FirstDIFAT(file))
    BY <1>3, <1>4 DEF Spoilt, FirstDIFAT, h
  <1>8. ~ReadDIFAT(file).ok
    <2>1. 0 \in 0 .. h.numDIFAT
      BY <1>1
    <2>2. QED
      BY <1>5, <1>6, <1>7, <2>1, SpoiltIsBad
  <1>9. QED
    BY <1>8, FATUnread

LEMMA StartFaithful ==
    ASSUME Inv, Faithful, phase = "checkFileSize", StartDIFAT, SizePlausible(file)
    PROVE  Faithful'
  <1>1. file' = file /\ file \in Files /\ h' = h
    BY DEF StartDIFAT, Inv, Typed, h
  <1>2. h.difat \in Seq(0 .. Words - 1) /\ h.numDIFAT \in Nat
    BY <1>1, HeaderFacts
  <1>3. CASE ~ \A n \in DOMAIN h.difat : h.difat[n] \in (0 .. MaxRegSect) \cup {FreeSect}
    <2>1. phase' = "error"
      BY <1>3 DEF StartDIFAT
    <2>2. QED
      BY <1>1, <1>3, <2>1, FirstSpoilt, ErrorFaithful
  <1>4. CASE \A n \in DOMAIN h.difat : h.difat[n] \in (0 .. MaxRegSect) \cup {FreeSect}
    <2>1. phase' = "readDIFAT" /\ sec' = h.firstDIFAT /\ left' = h.numDIFAT /\ secs' = Listed(h.difat)
      BY <1>4 DEF StartDIFAT
    <2>2. \A n \in 1 .. Len(h.difat) : h.difat[n] = FreeSect \/ h.difat[n] \in 0 .. MaxRegSect
      BY <1>2, <1>4
    <2>3. secs' \in Seq(0 .. MaxRegSect)
      BY <1>2, <2>1, <2>2, ListedKeeps
    <2>4. PICK a : Turns(file, h.numDIFAT, a) /\ ReadDIFAT(file) = Told(file, a[h.numDIFAT])
      BY <1>2, TurnsChosen DEF h
    <2>5. a[0] = [ok |-> TRUE, sec |-> sec', out |-> secs']
      <3>1. a[0] = FirstDIFAT(file)
        BY <1>2, <2>4 DEF Turns, Turn
      <3>2. QED
        BY <2>1, <3>1 DEF FirstDIFAT, h
    <2>6. OnWay(file, 0, sec', secs')
      BY <2>4, <2>5, Zenon DEF OnWay, h
    <2>7. h.numDIFAT - left' = 0
      BY <1>2, <2>1
    <2>8. DIFATFollowed'
      BY <1>1, <2>3, <2>6, <2>7, Zenon DEF DIFATFollowed
    <2>9. "readDIFAT" \notin Loads
      BY DEF Loads
    <2>10. Plausible' /\ Held'
      BY <1>1, <2>1, <2>9 DEF Plausible, Held
    <2>11. (LoadingFAT /\ FATLoaded /\ LoadingMini /\ LoadingEntries /\ LoadsWhatIsThere)'
      BY <2>1 DEF LoadingFAT, FATLoaded, LoadingMini, LoadingEntries, LoadsWhatIsThere
    <2>12. QED
      BY <2>8, <2>10, <2>11 DEF Faithful
  <1>5. QED
    BY <1>3, <1>4

\* The cell that the probe asks for is the last one declared.
LEMMA ProbeFinds ==
    ASSUME file \in Files, HeaderValid(h), ~(DeclaredSize <= ProbeThreshold)
    PROVE  /\ DeclaredSize - 1 \in Nat
           /\ FileCells(file, DeclaredSize - 1, 1) # <<>> <=> SizePlausible(file)
  <1>1. /\ h.numFAT \in Nat /\ h.numMiniFAT \in Nat /\ h.numDir \in Nat /\ h.numDIFAT \in Nat
        /\ h.numFAT > 0 /\ file.body \in Seq(Cells)
    BY HeaderFacts DEF HeaderValid
  <1>2. PICK n \in Nat : n = 1 + h.numFAT + h.numDIFAT + h.numMiniFAT + h.numDir /\ 2 <= n
    <2>1. \A p, q, r, s \in Nat : p > 0 => 1 + p + q + r + s \in Nat /\ 2 <= 1 + p + q + r + s
      OBVIOUS
    <2>2. QED
      BY <1>1, <2>1, Zenon
  <1>3. PICK d \in Nat : d = n * SecSize
    BY Sizes
  <1>4. DeclaredSize = d
    BY <1>2, <1>3 DEF DeclaredSize
  <1>5. 2 * SecSize <= d
    BY <1>2, <1>3, Sizes, TimesMonotone
  <1>6. SizePlausible(file) <=> d <= SecSize + Len(file.body)
    <2>1. SizePlausible(file) <=> d <= ProbeThreshold \/ d <= SecSize + Len(file.body)
      BY <1>2, <1>3 DEF SizePlausible, h
    <2>2. QED
      BY <1>4, <2>1
  <1>7. PICK l \in Nat : l = Len(file.body)
    BY <1>1
  <1>8. PICK a \in Nat : a = (d - 1) - SecSize
    BY <1>5, Sizes
  <1>9. FileCells(file, d - 1, 1) = SubSeq(file.body, a + 1, Smaller(a + 1, l))
    BY <1>7, <1>8 DEF FileCells
  <1>10. d - 1 \in Nat /\ SecSize <= d - 1
    BY <1>5, Sizes
  <1>11. ASSUME SizePlausible(file) PROVE FileCells(file, d - 1, 1) # <<>>
    <2>1. (d - 1) - SecSize + 1 <= Len(file.body)
      BY <1>6, <1>7, <1>11, Sizes
    <2>2. Len(FileCells(file, d - 1, 1)) = 1
      <3>1. 1 \in Nat /\ d - 1 \in Nat /\ SecSize <= d - 1
        BY <1>10
      <3>2. file.body \in Seq(Cells)
        BY <1>1
      <3>3. QED
        BY <2>1, <3>1, <3>2, CellsFull, Zenon
    <2>3. QED
      BY <2>2, EmptyIsSeq
  <1>12. ASSUME ~SizePlausible(file) PROVE FileCells(file, d - 1, 1) = <<>>
    <2>1. ~(d <= SecSize + l)
      BY <1>6, <1>7, <1>12
    <2>2. Smaller(a + 1, l) = l /\ l <= a
      BY <1>8, <2>1, Sizes DEF Smaller
    <2>3. IsSeq(file.body)
      BY <1>1 DEF IsSeq
    <2>4. QED
      BY <1>9, <2>2, <2>3, EmptySlice
  <1>13. QED
    BY <1>4, <1>10, <1>11, <1>12

LEMMA ProbeFaithful ==
    ASSUME Inv, Faithful, SkipProbe \/ Probe
    PROVE  Faithful'
  <1>1. phase = "checkFileSize" /\ file \in Files /\ HeaderValid(h)
    BY DEF SkipProbe, Probe, Inv, Typed, Accepted
  <1>2. CASE SkipProbe
    <2>1. StartDIFAT /\ DeclaredSize <= ProbeThreshold
      BY <1>2 DEF SkipProbe
    <2>2. SizePlausible(file)
      BY <2>1 DEF SizePlausible, DeclaredSize, h
    <2>3. QED
      BY <1>1, <2>1, <2>2, StartFaithful
  <1>3. CASE Probe
    <2> DEFINE data == FileCells(file, DeclaredSize - 1, 1)
    <2>1. PICK r \in ReadAtResults(DeclaredSize - 1, 1) :
              /\ failed' = (failed \/ r.err = "other")
              /\ IF r.data # <<>> THEN StartDIFAT ELSE Fail
      BY <1>3 DEF Probe
    <2>2. DeclaredSize > ProbeThreshold
      BY <1>3 DEF Probe
    <2>3. ~(DeclaredSize <= ProbeThreshold)
      <3>1. /\ h.numFAT \in Nat /\ h.numMiniFAT \in Nat /\ h.numDir \in Nat /\ h.numDIFAT \in Nat
        BY <1>1, HeaderFacts
      <3>2. DeclaredSize \in Int
        BY <3>1, Sizes DEF DeclaredSize
      <3>3. QED
        BY <2>2, <3>2, LoadingAssumption
    <2>4. data # <<>> <=> SizePlausible(file)
      BY <1>1, <2>3, ProbeFinds
    <2>5. (r.data = data) \/ (r.data = <<>> /\ r.err = "other")
      <3>1. CASE r = [data |-> data, err |-> IF Len(data) = 1 THEN "nil" ELSE "EOF"]
        BY <3>1
      <3>2. CASE r \in {[data |-> data, err |-> e] : e \in IF DeclaredSize - 1 + 1 = Size THEN {"EOF"} ELSE {}}
        BY <3>2
      <3>3. CASE r \in {[data |-> <<>>, err |-> e] : e \in IF Faulty THEN {"other"} ELSE {}}
        BY <3>3
      <3>4. QED
        BY <3>1, <3>2, <3>3, Zenon DEF ReadAtResults
    <2> HIDE DEF data
    <2>6. CASE r.data # <<>>
      <3>1. SizePlausible(file) /\ StartDIFAT
        BY <2>1, <2>4, <2>5, <2>6
      <3>2. QED
        BY <1>1, <3>1, StartFaithful
    <2>7. CASE r.data = <<>>
      <3>1. Fail /\ (failed' \/ ~SizePlausible(file))
        BY <2>1, <2>4, <2>5, <2>7
      <3>2. phase' = "error" /\ file' = file
        BY <3>1 DEF Fail
      <3>3. QED
        BY <3>1, <3>2, HeaderRefused, ErrorFaithful
    <2>8. QED
      BY <2>6, <2>7
  <1>4. QED
    BY <1>2, <1>3

\* While the DIFAT is read, nothing else is to show.
LEMMA OnlyDIFAT ==
    ASSUME phase' = "readDIFAT", SizePlausible(file'), DIFATFollowed'
    PROVE  Faithful'
  <1>1. "readDIFAT" \notin Loads
    BY DEF Loads
  <1>2. Plausible' /\ Held'
    BY <1>1 DEF Plausible, Held
  <1>3. (LoadingFAT /\ FATLoaded /\ LoadingMini /\ LoadingEntries /\ LoadsWhatIsThere)'
    BY DEF LoadingFAT, FATLoaded, LoadingMini, LoadingEntries, LoadsWhatIsThere
  <1>4. QED
    BY <1>2, <1>3 DEF Faithful

\* An error of readDIFAT is one of NewReader.
LEMMA TurnSpoilt ==
    ASSUME file \in Files, NEW a, Turns(file, h.numDIFAT, a), ReadDIFAT(file) = Told(file, a[h.numDIFAT]),
           NEW k \in 0 .. h.numDIFAT, Spoilt(a[k])
    PROVE  ~Parse(file).ok
  <1>1. ~ReadDIFAT(file).ok
    BY SpoiltIsBad
  <1>2. QED
    BY <1>1, FATUnread

\* Where the loop of readDIFAT is.
LEMMA NextTurn ==
    ASSUME Inv, Faithful, phase = "readDIFAT", left # 0
    PROVE  \E a, k : /\ Turns(file, h.numDIFAT, a) /\ ReadDIFAT(file) = Told(file, a[h.numDIFAT])
                     /\ k \in Nat /\ k + 1 \in 0 .. h.numDIFAT /\ h.numDIFAT - (left - 1) = k + 1
                     /\ a[k] \in Found /\ a[k].sec = sec /\ a[k].out = secs
                     /\ a[k + 1] = NextDIFAT(file, a[k])
  <1>1. /\ sec \in Nat /\ left \in 0 .. h.numDIFAT /\ file \in Files /\ h.numDIFAT \in Nat
    BY HeaderFacts DEF Inv, OnDIFAT, Typed
  <1>2. OnWay(file, h.numDIFAT - left, sec, secs) /\ secs \in Seq(0 .. MaxRegSect)
    BY DEF Faithful, DIFATFollowed
  <1>3. PICK k \in Nat : k = h.numDIFAT - left
    BY <1>1
  <1>4. k + 1 \in 0 .. h.numDIFAT /\ h.numDIFAT - (left - 1) = k + 1 /\ k + 1 # 0 /\ (k + 1) - 1 = k
    BY <1>1, <1>3
  <1>5. PICK a : /\ Turns(file, h.numDIFAT, a) /\ ReadDIFAT(file) = Told(file, a[h.numDIFAT])
                 /\ a[k] = [ok |-> TRUE, sec |-> sec, out |-> secs]
    BY <1>2, <1>3 DEF OnWay, h
  <1>6. secs \in Seq(Nat)
    <2>1. MaxRegSect \in Nat
      BY Sizes DEF MaxRegSect
    <2>2. \A j \in 1 .. Len(secs) : secs[j] \in 0 .. MaxRegSect
      BY <1>2, ElementOfSeq
    <2>3. \A j \in 1 .. Len(secs) : secs[j] \in Nat
      BY <2>1, <2>2
    <2>4. secs = [j \in 1 .. Len(secs) |-> secs[j]] /\ Len(secs) \in Nat
      BY <1>2
    <2>5. QED
      BY <2>3, <2>4
  <1>7. a[k] \in Found /\ a[k].sec = sec /\ a[k].out = secs
    BY <1>1, <1>5, <1>6 DEF Found
  <1>8. a[k + 1] = Turn(file, a, k + 1)
    BY <1>4, <1>5 DEF Turns
  <1>9. a[k + 1] = NextDIFAT(file, a[k])
    BY <1>4, <1>8, Zenon DEF Turn
  <1>10. QED
    BY <1>4, <1>5, <1>7, <1>9, Zenon

LEMMA NumbersBelow ==
    ASSUME NEW q \in Seq(Nat), \A n \in DOMAIN q : q[n] <= MaxRegSect
    PROVE  q \in Seq(0 .. MaxRegSect)
  <1>1. MaxRegSect \in Nat
    BY Sizes DEF MaxRegSect
  <1>2. \A n \in 1 .. Len(q) : q[n] \in Nat /\ n \in DOMAIN q
    BY ElementOfSeq
  <1> DEFINE S == 0 .. MaxRegSect
  <1>3. \A n \in 1 .. Len(q) : q[n] \in S
    BY <1>1, <1>2
  <1> HIDE DEF S
  <1>4. q = [n \in 1 .. Len(q) |-> q[n]] /\ Len(q) \in Nat
    OBVIOUS
  <1>5. q \in Seq(S)
    BY <1>3, <1>4
  <1>6. QED
    BY <1>5 DEF S

LEMMA ReadDIFATFaithful ==
    ASSUME Inv, Faithful, ReadDIFATSector
    PROVE  Faithful'
  <1>1. /\ phase = "readDIFAT" /\ left # 0 /\ sec <= MaxRegSect
        /\ sec \in Nat /\ file \in Files /\ file.body \in Seq(Cells)
    BY HeaderFacts DEF ReadDIFATSector, DIFATRead, Inv, OnDIFAT, Typed
  <1>2. secs \in Seq(0 .. MaxRegSect) /\ SizePlausible(file)
    BY <1>1 DEF Faithful, DIFATFollowed, Plausible
  <1>3. PICK r \in ReadAtResults(SectorOffset(sec), SecSize) :
            LET words == WordsOf(r.data)
                found == Listed(Take(words, PerFAT - 1))
            IN  /\ Called(r, SecSize)
                /\ IF r.err = "nil" /\ \A n \in DOMAIN found : found[n] <= MaxRegSect
                   THEN /\ buf' = Overwrite(buf, 0, r.data)
                        /\ secs' = secs \o found
                        /\ sec' = words[PerFAT]
                        /\ left' = left - 1
                        /\ UNCHANGED <<file, phase, i, first, tables, list>>
                   ELSE Fail
    BY DEF ReadDIFATSector
  <1> DEFINE words == WordsOf(r.data)
             found == Listed(Take(words, PerFAT - 1))
             Fine == \A n \in DOMAIN found : found[n] <= MaxRegSect
  <1>4. Called(r, SecSize)
    BY <1>3
  <1>5. PICK a, k : /\ Turns(file, h.numDIFAT, a) /\ ReadDIFAT(file) = Told(file, a[h.numDIFAT])
                    /\ k \in Nat /\ k + 1 \in 0 .. h.numDIFAT /\ h.numDIFAT - (left - 1) = k + 1
                    /\ a[k] \in Found /\ a[k].sec = sec /\ a[k].out = secs
                    /\ a[k + 1] = NextDIFAT(file, a[k])
    BY <1>1, NextTurn
  <1>6. /\ SectorOffset(sec) \in Nat /\ SecSize <= SectorOffset(sec) /\ SecSize \in Nat \ {0}
        /\ SectorOffset(sec) - SecSize + SecSize = SectorOffset(sec)
    BY <1>1, SectorBehind, Sizes
  <1>7. CASE r.err # "nil"
    <2>1. phase' = "error" /\ file' = file
      BY <1>3, <1>7 DEF Fail
    <2>2. failed' \/ ~There(file, sec)
      BY <1>1, <1>4, <1>6, <1>7, CallFails DEF There
    <2>3. ASSUME ~There(file, sec) PROVE ~Parse(file).ok
      <3>1. a[k + 1] = Bad
        BY <1>5, <2>3, NextMissing
      <3>2. Spoilt(a[k + 1])
        BY <3>1, BadNotFound DEF Spoilt
      <3>3. QED
        BY <1>1, <1>5, <3>2, TurnSpoilt
    <2>4. QED
      BY <2>1, <2>2, <2>3, ErrorFaithful
  <1>8. CASE r.err = "nil"
    <2>1. /\ r.data = FileCells(file, SectorOffset(sec), SecSize)
          /\ r.data \in Seq(Cells) /\ Len(r.data) = SecSize
          /\ There(file, sec)
      BY <1>1, <1>6, <1>8, DataRead DEF There
    <2>2. /\ NextDIFAT(file, a[k]) = [ok |-> TRUE, sec |-> words[PerFAT], out |-> secs \o found]
          /\ NextDIFAT(file, a[k]) \in Found
      BY <1>1, <1>5, <2>1, NextFound
    <2>3. found \in Seq(Nat)
      BY <2>1, DIFATWords
    <2>4. CASE ~Fine
      <3>1. phase' = "error" /\ file' = file
        BY <1>3, <2>4 DEF Fail
      <3> HIDE DEF found, words
      <3>2. PICK n \in DOMAIN found : ~(found[n] <= MaxRegSect)
        BY <2>4
      <3>3. a[k + 1].out = secs \o found
        BY <1>5, <2>2
      <3>4. Len(secs) + n \in DOMAIN (secs \o found) /\ (secs \o found)[Len(secs) + n] = found[n]
        <4>1. secs \in Seq(Nat)
          BY <1>5 DEF Found
        <4>2. QED
          BY <2>3, <3>2, <4>1
      <3>5. Spoilt(a[k + 1])
        BY <3>2, <3>3, <3>4 DEF Spoilt
      <3>6. QED
        BY <1>1, <1>5, <3>1, <3>5, TurnSpoilt, ErrorFaithful
    <2>5. CASE Fine
      <3>1. /\ secs' = secs \o found /\ sec' = words[PerFAT] /\ left' = left - 1
            /\ file' = file /\ phase' = phase /\ h' = h
        BY <1>3, <1>8, <2>5 DEF h
      <3>9. \A n \in DOMAIN found : found[n] <= MaxRegSect
        BY <2>5
      <3> HIDE DEF words, Fine
      <3>2. found \in Seq(0 .. MaxRegSect)
        BY <2>3, <3>9, NumbersBelow
      <3> HIDE DEF found
      <3>3. secs' \in Seq(0 .. MaxRegSect)
        BY <1>2, <3>1, <3>2
      <3>4. a[k + 1] = [ok |-> TRUE, sec |-> sec', out |-> secs']
        BY <1>5, <2>2, <3>1
      <3>5. OnWay(file, k + 1, sec', secs')
        BY <1>5, <3>4, Zenon DEF OnWay, h
      <3>6. h'.numDIFAT - left' = k + 1
        BY <1>5, <3>1, Zenon
      <3>7. DIFATFollowed'
        BY <3>1, <3>3, <3>5, <3>6, Zenon DEF DIFATFollowed
      <3>8. QED
        BY <1>1, <1>2, <3>1, <3>7, OnlyDIFAT
    <2>6. QED
      BY <2>4, <2>5
  <1>9. QED
    BY <1>7, <1>8

LEMMA NoDIFATFaithful ==
    ASSUME Inv, Faithful, NoDIFATSector
    PROVE  Faithful'
  <1>1. phase = "readDIFAT" /\ left # 0 /\ sec > MaxRegSect /\ phase' = "error" /\ file' = file
        /\ file \in Files /\ sec \in Nat
    BY DEF NoDIFATSector, DIFATRead, Fail, Inv, Typed, OnDIFAT
  <1>2. ~(sec <= MaxRegSect)
    BY <1>1, Sizes DEF MaxRegSect
  <1>3. PICK a, k : /\ Turns(file, h.numDIFAT, a) /\ ReadDIFAT(file) = Told(file, a[h.numDIFAT])
                    /\ k \in Nat /\ k + 1 \in 0 .. h.numDIFAT /\ h.numDIFAT - (left - 1) = k + 1
                    /\ a[k] \in Found /\ a[k].sec = sec /\ a[k].out = secs
                    /\ a[k + 1] = NextDIFAT(file, a[k])
    BY <1>1, NextTurn
  <1>4. a[k + 1] = Bad
    BY <1>2, <1>3, NextMissing
  <1>5. Spoilt(a[k + 1])
    BY <1>4, BadNotFound DEF Spoilt
  <1>6. QED
    BY <1>1, <1>3, <1>5, TurnSpoilt, ErrorFaithful

\* Of no sector, the buffer need not hold anything.
LEMMA NothingFilled ==
    ASSUME NEW f, NEW q, NEW a, NEW b
    PROVE  Filled(f, q, a, 0, b)
  <1>1. 0 * SecSize = 0
    BY Sizes
  <1>2. QED
    BY <1>1 DEF Filled

LEMMA NumbersAreNat == ASSUME NEW q \in Seq(0 .. MaxRegSect) PROVE q \in Seq(Nat)
  <1>1. MaxRegSect \in Nat
    BY Sizes DEF MaxRegSect
  <1>2. \A j \in 1 .. Len(q) : q[j] \in 0 .. MaxRegSect
    BY ElementOfSeq
  <1>3. \A j \in 1 .. Len(q) : q[j] \in Nat
    BY <1>1, <1>2
  <1>4. q = [j \in 1 .. Len(q) |-> q[j]] /\ Len(q) \in Nat
    OBVIOUS
  <1>5. QED
    BY <1>3, <1>4

\* The first batch of a table.
LEMMA TableBegins ==
    ASSUME NEW f, NEW q \in Seq(Nat), NEW b
    PROVE  BatchHeld(f, q, 0, 0, b) /\ Added(q, 0) = 0
  <1>1. \A j \in 1 .. Len(q) : ~(j <= 0 + 0)
    OBVIOUS
  <1>2. BatchHeld(f, q, 0, 0, b)
    BY <1>1, NothingFilled DEF BatchHeld
  <1>3. Len(q) \in Nat
    OBVIOUS
  <1>4. Added(q, 0) = 0
    BY <1>3 DEF Added, Smaller
  <1>5. QED
    BY <1>2, <1>4

LEMMA EndDIFATFaithful ==
    ASSUME Inv, Faithful, EndDIFAT
    PROVE  Faithful'
  <1>1. /\ phase = "readDIFAT" /\ left = 0 /\ UNCHANGED <<file, secs, i, first, buf, fat, miniFAT, entries>>
        /\ phase' = IF sec = EndOfChain /\ Len(secs) = h.numFAT THEN "loadFAT" ELSE "error"
    BY DEF EndDIFAT, DIFATRead, cursor, tables
  <1>2. file \in Files /\ h.numDIFAT \in Nat
    BY HeaderFacts DEF Inv, Typed
  <1>3. /\ OnWay(file, h.numDIFAT - left, sec, secs) /\ secs \in Seq(0 .. MaxRegSect)
        /\ SizePlausible(file)
    BY <1>1 DEF Faithful, DIFATFollowed, Plausible
  <1>4. h.numDIFAT - left = h.numDIFAT
    BY <1>1, <1>2
  <1>5. ReadDIFAT(file) = Told(file, [ok |-> TRUE, sec |-> sec, out |-> secs])
    BY <1>3, <1>4, Zenon DEF OnWay, h
  <1>6. CASE ~(sec = EndOfChain /\ Len(secs) = h.numFAT)
    <2>1. ReadDIFAT(file) = Bad
      BY <1>5, <1>6 DEF Told, h
    <2>2. ~Parse(file).ok
      BY <2>1, OkBad, FATUnread
    <2>3. QED
      BY <1>1, <1>6, <2>2, ErrorFaithful
  <1>7. CASE sec = EndOfChain /\ Len(secs) = h.numFAT
    <2>1. \A j \in DOMAIN secs : secs[j] <= MaxRegSect
      <3>1. DOMAIN secs = 1 .. Len(secs)
        BY <1>3
      <3>2. \A j \in 1 .. Len(secs) : secs[j] \in 0 .. MaxRegSect
        BY <1>3, ElementOfSeq
      <3>3. MaxRegSect \in Nat
        BY Sizes DEF MaxRegSect
      <3>4. QED
        BY <3>1, <3>2, <3>3
    <2>2. ReadDIFAT(file) = Ok(secs)
      BY <1>5, <1>7, <2>1 DEF Told, h
    <2>3. i = 0 /\ first = 0 /\ Len(fat) = 0 /\ Len(miniFAT) = 0 /\ Len(entries) = 0 /\ IsSeq(fat)
      BY <1>1 DEF Inv, NothingLoaded, Typed, Before
    <2>4. secs \in Seq(Nat)
      BY <1>3, NumbersAreNat
    <2>5. BatchHeld(file, secs, 0, 0, buf) /\ Added(secs, 0) = 0
      BY <2>4, TableBegins
    <2>6. HasWords(file, secs, Added(secs, 0), fat)
      BY <2>3, <2>5, NoWords
    <2>7. phase' = "loadFAT"
      BY <1>1, <1>7
    <2>8. Plausible' /\ DIFATFollowed'
      BY <1>1, <1>3, <2>7 DEF Plausible, DIFATFollowed
    <2>9. Held'
      BY <1>1, <2>3, <2>5, Zenon DEF Held
    <2>10. LoadingFAT'
      BY <1>1, <2>2, <2>3, <2>6, Zenon DEF LoadingFAT
    <2>11. (FATLoaded /\ LoadingMini /\ LoadingEntries /\ LoadsWhatIsThere)'
      BY <2>7 DEF FATLoaded, LoadingMini, LoadingEntries, LoadsWhatIsThere
    <2>12. QED
      BY <2>8, <2>9, <2>10, <2>11 DEF Faithful
  <1>8. QED
    BY <1>6, <1>7

-----------------------------------------------------------------------------
(* Batches                                                                  *)

LEMMA LoadsApart ==
    /\ "loadFAT" \in Loads /\ "loadMiniFAT" \in Loads /\ "parseEntries" \in Loads
    /\ "readDIFAT" \notin Loads /\ "done" \notin Loads /\ "error" \notin Loads
  BY DEF Loads

\* Sectors of a table that cannot be read: Parse refuses the file, too.
LEMMA UnreadIsBad ==
    ASSUME Faithful, phase \in Loads, ~ReadSectors(file, secs).ok
    PROVE  ~Parse(file).ok
  <1>1. CASE phase = "loadFAT"
    <2>1. ReadDIFAT(file) = Ok(secs)
      BY <1>1 DEF Faithful, LoadingFAT
    <2>2. QED
      BY <2>1, FATUnread
  <1>2. CASE phase = "loadMiniFAT"
    <2>1. LoadFAT(file) = Ok(fat) /\ h.numMiniFAT # 0 /\ MiniChain(file, fat) = Ok(secs)
      BY <1>2 DEF Faithful, FATLoaded, LoadingMini
    <2>2. QED
      BY <2>1, MiniUnread DEF h
  <1>3. CASE phase = "parseEntries"
    <2>1. LoadFAT(file) = Ok(fat) /\ LoadMiniFAT(file, fat) = Ok(miniFAT) /\ DirChain(file, fat) = Ok(secs)
      BY <1>3 DEF Faithful, FATLoaded, LoadingEntries
    <2>2. QED
      BY <2>1, EntriesUnread
  <1>4. QED
    BY <1>1, <1>2, <1>3 DEF Loads

\* The sectors of the batch that is read.
LEMMA BatchSectors ==
    ASSUME Inv, Faithful, phase \in Loads, i < Len(secs)
    PROVE  /\ i \in Nat /\ secs \in Seq(Nat) /\ Len(Batch) \in Nat /\ Len(Batch) \in 1 .. BatchLen
           /\ BatchLen \in Nat
           /\ i + Len(Batch) <= Len(secs) /\ (i + Len(Batch) < Len(secs) => Len(Batch) = BatchLen)
           /\ \A j \in 1 .. Len(Batch) : Batch[j] = secs[i + j]
  <1>1. i \in Nat /\ secs \in Seq(Nat) /\ IsSeq(secs)
    BY DEF Inv, InBatch, Faithful, Held, BatchHeld
  <1>2. BatchLen \in Nat \ {0} /\ Len(Batch) \in 0 .. BatchLen /\ Len(Batch) > 0
    BY BatchFacts
  <1>3. PICK l \in Nat : l = Len(secs)
    BY <1>1
  <1>12. PICK w \in Nat \ {0} : w = BatchLen
    BY <1>2
  <1>4. PICK c \in Nat : /\ c = Smaller(i + w, l)
                         /\ i <= c /\ c <= l /\ (c < l => c = i + w)
    <2>1. i < l
      BY <1>3
    <2>2. Smaller(i + w, l) \in {i + w, l}
      BY DEF Smaller
    <2>3. \A x, y, z \in Nat : x < z => LET c == IF x + y < z THEN x + y ELSE z
                                      IN  c \in Nat /\ x <= c /\ c <= z /\ (c < z => c = x + y)
      OBVIOUS
    <2>4. QED
      BY <1>1, <2>1 DEF Smaller
  <1>5. Batch = SubSeq(secs, i + 1, c)
    BY <1>3, <1>4, <1>12, Zenon DEF Batch
  <1>6. i <= c /\ c <= l /\ (c < l => c = i + BatchLen)
    BY <1>4, <1>12, Zenon
  <1>7. /\ Len(Batch) = c - i
        /\ \A j \in 1 .. c - i : Batch[j] = secs[i + j]
    BY <1>1, <1>3, <1>5, <1>6, Slice
  <1>8. PICK b \in Nat : b = Len(Batch)
    BY <1>1, <1>6, <1>7
  <1>9. i + b <= l /\ (i + b < l => b = BatchLen)
    BY <1>1, <1>2, <1>6, <1>7, <1>8
  <1>10. b \in 1 .. BatchLen
    BY <1>2, <1>8
  <1>11. QED
    BY <1>1, <1>2, <1>3, <1>7, <1>8, <1>9, <1>10

\* What is held of a batch that is read is what Loaded takes from the buffer.
LEMMA LoadedHolds ==
    ASSUME Inv, Faithful, phase \in Loads, BatchRead
    PROVE  /\ Holds(file, secs, i, Len(Batch), Loaded)
           /\ Added(secs, i) = i /\ Added(secs, i + BatchLen) = i + Len(Batch)
           /\ i \in Nat /\ Len(Batch) \in Nat /\ i + Len(Batch) <= Len(secs) /\ secs \in Seq(Nat)
           /\ BatchHeld(file, secs, i + BatchLen, 0, buf)
  <1>1. i < Len(secs) /\ first = Len(Batch)
    BY DEF BatchRead
  <1>2. /\ i \in Nat /\ secs \in Seq(Nat) /\ Len(Batch) \in Nat /\ Len(Batch) \in 1 .. BatchLen
        /\ BatchLen \in Nat
        /\ i + Len(Batch) <= Len(secs) /\ (i + Len(Batch) < Len(secs) => Len(Batch) = BatchLen)
    BY <1>1, BatchSectors
  <1>3. BatchHeld(file, secs, i, Len(Batch), buf)
    BY <1>1 DEF Faithful, Held
  <1>4. PICK b \in Nat : b = Len(Batch)
    BY <1>2
  <1>5. PICK l \in Nat : l = Len(secs)
    BY <1>2
  <1>6. Added(secs, i) = i /\ Added(secs, i + BatchLen) = i + Len(Batch)
    <2>1. PICK w \in Nat : w = BatchLen
      BY <1>2
    <2>2. i < l /\ b <= w /\ i + b <= l /\ (i + b < l => b = w)
      BY <1>1, <1>2, <1>4, <1>5, <2>1
    <2>3. (IF i < l THEN i ELSE l) = i /\ (IF i + w < l THEN i + w ELSE l) = i + b
      BY <1>2, <2>2
    <2>4. QED
      BY <1>4, <1>5, <2>1, <2>3, Zenon DEF Added, Smaller
  <1>7. \A j \in 1 .. Len(secs) : j <= i + b => There(file, secs[j])
    BY <1>3, <1>4 DEF BatchHeld
  <1>8. BatchHeld(file, secs, i + BatchLen, 0, buf)
    <2>1. \A j \in 1 .. l : j <= i + BatchLen + 0 => j <= i + b
      BY <1>2, <1>4, <1>5
    <2>2. QED
      BY <1>2, <1>5, <1>7, <2>1, NothingFilled DEF BatchHeld
  <1>9. PICK v \in Nat : v = b * SecSize
    BY Sizes
  <1>10. IsSeq(Loaded) /\ Len(Loaded) = v
    BY <1>4, <1>9, LoadedShape
  <1>11. \A c \in 1 .. v : Loaded[c] = buf[c]
    <2>1. IsSeq(buf) /\ v <= Len(buf)
      <3>1. IsSeq(buf) /\ BatchLen * SecSize <= Len(buf) /\ Len(buf) \in Nat
        BY BatchFacts DEF Inv, BufferMade
      <3>2. b * SecSize <= BatchLen * SecSize /\ BatchLen * SecSize \in Nat
        BY <1>2, <1>4, Sizes, TimesMonotone
      <3>3. QED
        BY <1>9, <3>1, <3>2
    <2>2. PICK S : buf \in Seq(S)
      BY <2>1 DEF IsSeq
    <2>3. Loaded = SubSeq(buf, 0 + 1, v)
      <3>1. 0 + 1 = 1
        OBVIOUS
      <3>2. QED
        BY <1>4, <1>9, <3>1 DEF Loaded, Take
    <2>4. 0 \in Nat /\ 0 <= v /\ v - 0 = v /\ \A c \in 1 .. v : 0 + c = c
      OBVIOUS
    <2>5. \A c \in 1 .. v - 0 : Loaded[c] = buf[0 + c]
      BY <2>1, <2>2, <2>3, <2>4, Slice
    <2>6. QED
      BY <2>4, <2>5
  <1>12. PICK u \in Nat : u = i * SecSize
    BY <1>2, Sizes
  <1>13. \A c \in 0 .. v - 1 : buf[c + 1] = TableCell(file, secs, u + c)
    BY <1>3, <1>4, <1>9, <1>12 DEF BatchHeld, Filled
  <1>14. file.body \in Seq(Cells)
    BY HeaderFacts DEF Inv, Typed
  <1>15. ASSUME NEW c \in 0 .. v - 1
         PROVE  Loaded[c + 1] = TableCell(file, secs, u + c) /\ Loaded[c + 1] \in Cells
    <2>1. c + 1 \in 1 .. v
      OBVIOUS
    <2>2. Loaded[c + 1] = TableCell(file, secs, u + c)
      BY <1>11, <1>13, <2>1
    <2>3. u + c \in 0 .. (i + b) * SecSize - 1
      <3>1. (i + b) * SecSize = i * SecSize + b * SecSize
        BY <1>2, Sizes
      <3>2. (i + b) * SecSize = u + v
        BY <1>9, <1>12, <3>1
      <3>3. QED
        BY <3>2
    <2>4. i + b \in Nat /\ i + b <= Len(secs) /\ \A j \in 1 .. i + b : There(file, secs[j])
      <3>1. i + b \in Nat /\ i + b <= Len(secs)
        BY <1>2, <1>4
      <3>2. \A j \in 1 .. i + b : j \in 1 .. Len(secs) /\ j <= i + b
        BY <1>2, <1>5, <3>1
      <3>3. QED
        BY <1>7, <3>1, <3>2
    <2>5. TableCell(file, secs, u + c) \in Cells
      <3>1. i + b \in Nat /\ i + b <= Len(secs)
        BY <2>4
      <3>2. \A j \in 1 .. i + b : There(file, secs[j])
        BY <2>4
      <3>3. QED
        BY <1>2, <1>14, <2>3, <3>1, <3>2, CellThere
    <2>6. QED
      BY <2>2, <2>5
  <1>16. Loaded \in Seq(Cells)
    <2>1. \A c \in 1 .. v : Loaded[c] \in Cells
      <3>1. TAKE c \in 1 .. v
      <3>2. c - 1 \in 0 .. v - 1 /\ (c - 1) + 1 = c
        OBVIOUS
      <3>3. Loaded[(c - 1) + 1] \in Cells
        BY <1>15, <3>2
      <3>4. QED
        BY <3>2, <3>3
    <2>2. Loaded = [c \in 1 .. v |-> Loaded[c]]
      <3>1. PICK S : Loaded \in Seq(S)
        BY <1>10 DEF IsSeq
      <3>2. QED
        BY <1>10, <3>1
    <2>3. QED
      BY <2>1, <2>2
  <1>17. Holds(file, secs, i, Len(Batch), Loaded)
    BY <1>4, <1>9, <1>10, <1>12, <1>15, <1>16 DEF Holds
  <1>18. QED
    BY <1>2, <1>6, <1>8, <1>17

\* The batch of a table is added; the next one begins.
LEMMA BatchFaithful ==
    ASSUME Inv, Faithful, phase \in Loads, BatchRead, NextBatch, phase' = phase,
           LoadingFAT', FATLoaded', LoadingMini', LoadingEntries'
    PROVE  Faithful'
  <1>1. UNCHANGED <<file, buf, secs>> /\ i' = i + BatchLen /\ first' = 0
    BY DEF NextBatch
  <1>2. BatchHeld(file, secs, i + BatchLen, 0, buf)
    BY LoadedHolds
  <1>3. Held'
    BY <1>1, <1>2, Zenon DEF Held
  <1>4. Plausible' /\ DIFATFollowed' /\ LoadsWhatIsThere'
    <2>1. SizePlausible(file)
      BY DEF Faithful, Plausible
    <2>2. QED
      BY <1>1, <2>1, LoadsApart DEF Plausible, DIFATFollowed, LoadsWhatIsThere
  <1>5. QED
    BY <1>3, <1>4 DEF Faithful

LEMMA EndFATBatchFaithful ==
    ASSUME Inv, Faithful, EndFATBatch
    PROVE  Faithful'
  <1>1. /\ phase = "loadFAT" /\ phase \in Loads /\ BatchRead /\ NextBatch /\ phase' = phase
        /\ fat' = fat \o WordsOf(Loaded) /\ miniFAT' = miniFAT /\ entries' = entries
    BY LoadsApart DEF EndFATBatch
  <1>2. UNCHANGED <<file, secs>> /\ i' = i + BatchLen
    BY <1>1 DEF NextBatch
  <1>3. /\ ReadDIFAT(file) = Ok(secs) /\ HasWords(file, secs, Added(secs, i), fat)
        /\ Len(miniFAT) = 0 /\ Len(entries) = 0
    BY <1>1 DEF Faithful, LoadingFAT
  <1>4. /\ Holds(file, secs, i, Len(Batch), Loaded)
        /\ Added(secs, i) = i /\ Added(secs, i + BatchLen) = i + Len(Batch)
        /\ i \in Nat /\ Len(Batch) \in Nat
    BY <1>1, LoadedHolds
  <1>5. HasWords(file, secs, i + Len(Batch), fat \o WordsOf(Loaded))
    <2>1. HasWords(file, secs, i, fat)
      BY <1>3, <1>4
    <2>2. QED
      BY <1>4, <2>1, WordsGrow
  <1>6. LoadingFAT'
    <2>1. HasWords(file', secs', Added(secs', i'), fat')
      BY <1>1, <1>2, <1>4, <1>5
    <2>2. QED
      BY <1>1, <1>2, <1>3, <2>1 DEF LoadingFAT
  <1>7. (FATLoaded /\ LoadingMini /\ LoadingEntries)'
    BY <1>1 DEF FATLoaded, LoadingMini, LoadingEntries
  <1>8. QED
    BY <1>1, <1>6, <1>7, BatchFaithful

LEMMA EndMiniBatchFaithful ==
    ASSUME Inv, Faithful, EndMiniFATBatch
    PROVE  Faithful'
  <1>1. /\ phase = "loadMiniFAT" /\ phase \in Loads /\ BatchRead /\ NextBatch /\ phase' = phase
        /\ miniFAT' = miniFAT \o WordsOf(Loaded) /\ fat' = fat /\ entries' = entries
    BY LoadsApart DEF EndMiniFATBatch
  <1>2. UNCHANGED <<file, secs>> /\ i' = i + BatchLen /\ h' = h
    BY <1>1 DEF NextBatch, h
  <1>3. /\ LoadFAT(file) = Ok(fat) /\ fat \in Seq(Nat)
        /\ h.numMiniFAT # 0 /\ MiniChain(file, fat) = Ok(secs)
        /\ HasWords(file, secs, Added(secs, i), miniFAT) /\ Len(entries) = 0
    BY <1>1 DEF Faithful, FATLoaded, LoadingMini
  <1>4. /\ Holds(file, secs, i, Len(Batch), Loaded)
        /\ Added(secs, i) = i /\ Added(secs, i + BatchLen) = i + Len(Batch)
        /\ i \in Nat /\ Len(Batch) \in Nat
    BY <1>1, LoadedHolds
  <1>5. HasWords(file, secs, i + Len(Batch), miniFAT \o WordsOf(Loaded))
    <2>1. HasWords(file, secs, i, miniFAT)
      BY <1>3, <1>4
    <2>2. QED
      BY <1>4, <2>1, WordsGrow
  <1>6. LoadingMini'
    <2>1. HasWords(file', secs', Added(secs', i'), miniFAT')
      BY <1>1, <1>2, <1>4, <1>5
    <2>2. QED
      BY <1>1, <1>2, <1>3, <2>1 DEF LoadingMini
  <1>7. FATLoaded' /\ LoadingFAT' /\ LoadingEntries'
    BY <1>1, <1>2, <1>3 DEF FATLoaded, LoadingFAT, LoadingEntries
  <1>8. QED
    BY <1>1, <1>6, <1>7, BatchFaithful

\* Nothing is read of a directory whose sectors are not all there, or with an
\* entry that is refused.
LEMMA EntriesUnfit ==
    ASSUME Inv, Faithful, phase = "parseEntries", BatchRead, ~EntriesIn(Loaded, fat, miniFAT).ok
    PROVE  ~Parse(file).ok
  <1>1. /\ LoadFAT(file) = Ok(fat) /\ LoadMiniFAT(file, fat) = Ok(miniFAT) /\ DirChain(file, fat) = Ok(secs)
        /\ HasEntries(file, secs, Added(secs, i), fat, miniFAT, entries)
    BY DEF Faithful, FATLoaded, LoadingEntries
  <1>2. /\ Holds(file, secs, i, Len(Batch), Loaded) /\ Added(secs, i) = i
        /\ i \in Nat /\ Len(Batch) \in Nat /\ i + Len(Batch) <= Len(secs) /\ secs \in Seq(Nat)
    BY LoadsApart, LoadedHolds
  <1>3. CASE ~AllThere(file, secs)
    <2>1. ~ReadSectors(file, secs).ok
      BY <1>2, <1>3, SectorsMissing
    <2>2. QED
      BY <2>1, LoadsApart, UnreadIsBad
  <1>4. CASE AllThere(file, secs)
    <2>1. file.body \in Seq(Cells)
      BY HeaderFacts DEF Inv, Typed
    <2>2. PICK cells : ReadSectors(file, secs) = Ok(cells) /\ Gathered(file, secs, cells)
      BY <1>2, <1>4, <2>1, SectorsGathered
    <2>3. HasEntries(file, secs, i, fat, miniFAT, entries)
      BY <1>1, <1>2
    <2>4. ~EntriesIn(cells, fat, miniFAT).ok
      BY <1>2, <2>2, <2>3, EntriesRefused
    <2>5. ~EntriesOf(cells, fat, miniFAT).ok
      BY <2>4, OkBad, Zenon DEF EntriesOf, Then
    <2>6. QED
      BY <1>1, <2>2, <2>5, EntriesBad
  <1>5. QED
    BY <1>3, <1>4

LEMMA EndEntryBatchFaithful ==
    ASSUME Inv, Faithful, EndEntryBatch
    PROVE  Faithful'
  <1> DEFINE found == EntriesIn(Loaded, fat, miniFAT)
  <1>1. /\ phase = "parseEntries" /\ phase \in Loads /\ BatchRead /\ NextBatch
        /\ fat' = fat /\ miniFAT' = miniFAT
    BY LoadsApart DEF EndEntryBatch
  <1>2. IF found.ok THEN entries' = entries \o found.val /\ phase' = phase ELSE phase' = "error"
    BY DEF EndEntryBatch
  <1>3. UNCHANGED <<file, secs>> /\ i' = i + BatchLen
    BY <1>1 DEF NextBatch
  <1>4. CASE ~found.ok
    <2>1. phase' = "error"
      BY <1>2, <1>4
    <2>2. QED
      BY <1>1, <1>3, <1>4, <2>1, EntriesUnfit, ErrorFaithful
  <1>5. CASE found.ok
    <2>1. /\ LoadFAT(file) = Ok(fat) /\ fat \in Seq(Nat)
          /\ LoadMiniFAT(file, fat) = Ok(miniFAT) /\ DirChain(file, fat) = Ok(secs)
          /\ HasEntries(file, secs, Added(secs, i), fat, miniFAT, entries)
      BY <1>1 DEF Faithful, FATLoaded, LoadingEntries
    <2>2. /\ Holds(file, secs, i, Len(Batch), Loaded)
          /\ Added(secs, i) = i /\ Added(secs, i + BatchLen) = i + Len(Batch)
          /\ i \in Nat /\ Len(Batch) \in Nat
      BY <1>1, LoadedHolds
    <2>3. HasEntries(file, secs, i + Len(Batch), fat, miniFAT, entries \o found.val)
      <3>1. HasEntries(file, secs, i, fat, miniFAT, entries)
        BY <2>1, <2>2
      <3>2. QED
        BY <1>5, <2>2, <3>1, EntriesGrow
    <2>4. phase' = phase /\ entries' = entries \o found.val
      BY <1>2, <1>5
    <2> HIDE DEF found
    <2>5. LoadingEntries'
      <3>1. HasEntries(file', secs', Added(secs', i'), fat', miniFAT', entries')
        BY <1>1, <1>3, <2>2, <2>3, <2>4
      <3>2. QED
        BY <1>1, <1>3, <2>1, <3>1 DEF LoadingEntries
    <2>6. FATLoaded' /\ LoadingFAT' /\ LoadingMini'
      BY <1>1, <1>3, <2>1, <2>4 DEF FATLoaded, LoadingFAT, LoadingMini
    <2>7. QED
      BY <1>1, <2>4, <2>5, <2>6, BatchFaithful
  <1>6. QED
    BY <1>4, <1>5

-----------------------------------------------------------------------------
(* A run of neighbours is read                                              *)

LEMMA RunPlaced ==
    ASSUME Inv, Faithful, phase \in Loads, first < Len(Batch)
    PROVE  \E s, k : /\ s \in Nat /\ k \in Nat \ {0} /\ RunEnd = first + k /\ s = Batch[first + 1]
                     /\ RunAt(secs, i, first, k, s)
                     /\ first \in Nat /\ i \in Nat /\ secs \in Seq(Nat)
                     /\ first + k <= BatchLen /\ i + (first + k) <= Len(secs)
  <1>1. i < Len(secs)
    <2>1. Len(secs) \in Nat /\ i \in Nat /\ first \in Nat /\ Len(Batch) \in Nat
          /\ (i >= Len(secs) => Len(Batch) = 0)
      BY BatchFacts DEF Inv, InBatch, Typed
    <2>2. QED
      BY <2>1
  <1>2. /\ i \in Nat /\ secs \in Seq(Nat) /\ Len(Batch) \in Nat /\ Len(Batch) \in 1 .. BatchLen
        /\ BatchLen \in Nat
        /\ i + Len(Batch) <= Len(secs)
        /\ \A j \in 1 .. Len(Batch) : Batch[j] = secs[i + j]
    BY <1>1, BatchSectors
  <1>3. first \in Nat
    BY DEF Inv, Typed
  <1>4. /\ RunEnd \in first + 1 .. Len(Batch)
        /\ \A j \in first + 1 .. RunEnd - 1 : IsNext(Batch[j], Batch[j + 1])
    BY <1>2, <1>3, RunFound
  <1>5. PICK b \in Nat : b = Len(Batch)
    BY <1>2
  <1>6. PICK m \in first + 1 .. b : m = RunEnd
    BY <1>4, <1>5
  <1>7. PICK k \in Nat \ {0} : m = first + k
    <2>1. m - first \in Nat \ {0} /\ m = first + (m - first)
      BY <1>3, <1>5
    <2>2. QED
      BY <2>1
  <1>8. PICK s \in Nat : s = secs[i + first + 1]
    <2>1. i + first + 1 \in 1 .. Len(secs)
      BY <1>2, <1>3, <1>5, <1>6
    <2>2. QED
      BY <1>2, <2>1, ElementOfSeq
  <1>9. Batch[first + 1] = s
    <2>1. first + 1 \in 1 .. Len(Batch) /\ i + (first + 1) = i + first + 1
      BY <1>2, <1>3, <1>5, <1>6
    <2>2. Batch[first + 1] = secs[i + (first + 1)]
      BY <1>2, <2>1, Zenon
    <2>3. QED
      BY <1>8, <2>1, <2>2, Zenon
  <1>10. \A j \in first + 1 .. m - 1 : secs[i + (j + 1)] = secs[i + j] + 1
    <2>1. TAKE j \in first + 1 .. m - 1
    <2>2. j \in 1 .. b /\ j + 1 \in 1 .. b
      BY <1>3, <1>5, <1>6
    <2>3. Batch[j] = secs[i + j] /\ Batch[j + 1] = secs[i + (j + 1)]
      BY <1>2, <1>5, <2>2, Zenon
    <2>4. Batch[j + 1] = Batch[j] + 1
      BY <1>4, <1>6 DEF IsNext
    <2>5. QED
      BY <2>3, <2>4, Zenon
  <1>11. first < m /\ i + m <= Len(secs) /\ m \in Nat /\ m - first = k
    BY <1>2, <1>3, <1>5, <1>6, <1>7
  <1>12. RunAt(secs, i, first, m - first, secs[i + first + 1])
    <2>1. Adjoin(secs, i, first, m)
      BY <1>10 DEF Adjoin
    <2>2. QED
      BY <1>2, <1>3, <1>11, <2>1, Neighbours, Zenon
  <1>13. RunAt(secs, i, first, k, s)
    BY <1>8, <1>11, <1>12, Zenon
  <1>14. first + k <= BatchLen /\ i + (first + k) <= Len(secs)
    BY <1>2, <1>3, <1>5, <1>6, <1>7
  <1>15. QED
    BY <1>2, <1>3, <1>6, <1>7, <1>9, <1>13, <1>14, Zenon

\* A run that does not end in the file: a sector of it is not there.
LEMMA RunMissing ==
    ASSUME NEW f, f.body \in Seq(Cells), NEW q \in Seq(Nat), NEW a \in Nat, NEW n \in Nat,
           NEW k \in Nat \ {0}, NEW s \in Nat, RunAt(q, a, n, k, s), a + (n + k) <= Len(q),
           ~(s * SecSize + k * SecSize <= Len(f.body))
    PROVE  ~AllThere(f, q)
  <1>1. PICK t \in Nat : t = k - 1
    OBVIOUS
  <1>2. q[a + n + t + 1] = s + t
    <2>1. t \in 0 .. k - 1
      BY <1>1
    <2>2. QED
      BY <2>1 DEF RunAt
  <1>3. a + n + t + 1 \in 1 .. Len(q)
    BY <1>1
  <1>4. SectorOffset(s + t) = s * SecSize + k * SecSize
    <2>1. SecSize \in Nat
      BY Sizes
    <2>2. SectorOffset(s + t) = (s + t) * SecSize + SecSize
      BY SectorBehind
    <2>3. (s + t) * SecSize = s * SecSize + t * SecSize
      BY <2>1
    <2>4. k = t + 1 /\ (t + 1) * SecSize = t * SecSize + SecSize
      BY <1>1, <2>1
    <2>5. s * SecSize \in Nat /\ t * SecSize \in Nat
      BY <2>1
    <2>6. QED
      BY <2>1, <2>2, <2>3, <2>4, <2>5
  <1>5. ~There(f, s + t)
    BY <1>4 DEF There
  <1>6. QED
    BY <1>2, <1>3, <1>5, Zenon DEF AllThere

LEMMA RunHeld ==
    ASSUME NEW f, f.body \in Seq(Cells), NEW q \in Seq(Nat), NEW a \in Nat, NEW n \in Nat,
           NEW k \in Nat \ {0}, NEW s \in Nat, RunAt(q, a, n, k, s),
           s * SecSize + k * SecSize <= Len(f.body),
           NEW b, IsSeq(b), (n + k) * SecSize <= Len(b), BatchHeld(f, q, a, n, b),
           NEW data, data = FileCells(f, SectorOffset(s), k * SecSize)
    PROVE  BatchHeld(f, q, a, n + k, Overwrite(b, n * SecSize, data))
  <1>1. Filled(f, q, a, n + k, Overwrite(b, n * SecSize, data))
    <2>1. Filled(f, q, a, n, b)
      BY DEF BatchHeld
    <2>2. QED
      BY <2>1, RunFills
  <1>2. ASSUME NEW j \in 1 .. Len(q), j <= a + (n + k) PROVE There(f, q[j])
    <2>1. CASE j <= a + n
      BY <2>1 DEF BatchHeld
    <2>2. CASE a + n < j
      <3>1. PICK t \in 0 .. k - 1 : j = a + n + t + 1
        <4>1. j - (a + n + 1) \in 0 .. k - 1 /\ j = a + n + (j - (a + n + 1)) + 1
          BY <1>2, <2>2
        <4>2. QED
          BY <4>1
      <3>2. q[j] = s + t
        BY <3>1 DEF RunAt
      <3>3. There(f, s + t)
        BY RunThere
      <3>4. QED
        BY <3>2, <3>3
    <2>3. j <= a + n \/ a + n < j
      OBVIOUS
    <2>4. QED
      BY <2>1, <2>2, <2>3
  <1>3. QED
    BY <1>1, <1>2 DEF BatchHeld

LEMMA ReadRunFaithful ==
    ASSUME Inv, Faithful, ReadRun
    PROVE  Faithful'
  <1> DEFINE length == (RunEnd - first) * SecSize
  <1>1. /\ phase \in Loads /\ first < Len(Batch)
        /\ file \in Files /\ file.body \in Seq(Cells)
    BY HeaderFacts DEF ReadRun, Inv, Typed
  <1>2. PICK r \in ReadAtResults(SectorOffset(Batch[first + 1]), length) :
            /\ Called(r, length)
            /\ IF r.err = "nil"
               THEN /\ buf' = Overwrite(buf, first * SecSize, r.data)
                    /\ first' = RunEnd
                    /\ UNCHANGED <<file, phase, sec, left, secs, i, tables, list>>
               ELSE Fail
    BY DEF ReadRun
  <1>3. PICK s, k : /\ s \in Nat /\ k \in Nat \ {0} /\ RunEnd = first + k /\ s = Batch[first + 1]
                    /\ RunAt(secs, i, first, k, s)
                    /\ first \in Nat /\ i \in Nat /\ secs \in Seq(Nat)
                    /\ first + k <= BatchLen /\ i + (first + k) <= Len(secs)
    BY <1>1, RunPlaced
  <1>4. RunEnd - first = k
    BY <1>3
  <1>5. PICK n \in Nat \ {0} : n = k * SecSize
    BY <1>3, Sizes
  <1>6. PICK w \in Nat : w = s * SecSize
    BY <1>3, Sizes
  <1>7. PICK off \in Nat : off = SectorOffset(s) /\ SecSize <= off /\ off - SecSize = w
    BY <1>3, <1>6, SectorPlace
  <1>8. length = n
    BY <1>4, <1>5
  <1> HIDE DEF length
  <1>9. r \in ReadAtResults(off, n) /\ Called(r, n)
    BY <1>2, <1>3, <1>7, <1>8, Zenon
  <1>10. CASE r.err # "nil"
    <2>1. phase' = "error" /\ file' = file
      BY <1>2, <1>10 DEF Fail
    <2>2. failed' \/ ~(w + n <= Len(file.body))
      BY <1>1, <1>7, <1>9, <1>10, CallFails
    <2>3. ASSUME ~(w + n <= Len(file.body)) PROVE ~Parse(file).ok
      <3>1. ~AllThere(file, secs)
        BY <1>1, <1>3, <1>5, <1>6, <2>3, RunMissing
      <3>2. ~ReadSectors(file, secs).ok
        BY <1>3, <3>1, SectorsMissing
      <3>3. QED
        BY <1>1, <3>2, UnreadIsBad
    <2>4. QED
      BY <2>1, <2>2, <2>3, ErrorFaithful
  <1>11. CASE r.err = "nil"
    <2>1. /\ buf' = Overwrite(buf, first * SecSize, r.data) /\ first' = first + k
          /\ UNCHANGED <<file, phase, secs, i, fat, miniFAT, entries>> /\ h' = h
      BY <1>2, <1>3, <1>11 DEF tables, h
    <2>2. r.data = FileCells(file, off, n) /\ w + n <= Len(file.body)
      BY <1>1, <1>7, <1>9, <1>11, DataRead
    <2>3. IsSeq(buf) /\ (first + k) * SecSize <= Len(buf)
      <3>1. IsSeq(buf) /\ BatchLen * SecSize <= Len(buf) /\ Len(buf) \in Nat /\ BatchLen \in Nat
        BY <1>1, BatchFacts DEF Inv, BufferMade
      <3>2. (first + k) * SecSize <= BatchLen * SecSize /\ BatchLen * SecSize \in Nat
            /\ (first + k) * SecSize \in Nat
        BY <1>3, <3>1, Sizes, TimesMonotone
      <3>3. QED
        BY <3>1, <3>2
    <2>4. BatchHeld(file, secs, i, first, buf)
      BY <1>1 DEF Faithful, Held
    <2>5. BatchHeld(file, secs, i, first + k, Overwrite(buf, first * SecSize, r.data))
      BY <1>1, <1>3, <1>5, <1>6, <1>7, <2>2, <2>3, <2>4, RunHeld
    <2>6. Held'
      BY <2>1, <2>5, Zenon DEF Held
    <2>7. Plausible' /\ DIFATFollowed' /\ LoadsWhatIsThere'
      <3>1. SizePlausible(file)
        BY <1>1 DEF Faithful, Plausible
      <3>2. phase' \in Loads
        BY <1>1, <2>1
      <3>3. QED
        BY <2>1, <3>1, <3>2, LoadsApart DEF Plausible, DIFATFollowed, LoadsWhatIsThere
    <2>8. LoadingFAT' /\ FATLoaded' /\ LoadingMini' /\ LoadingEntries'
      <3>1. LoadingFAT /\ FATLoaded /\ LoadingMini /\ LoadingEntries
        BY DEF Faithful
      <3>2. QED
        BY <2>1, <3>1 DEF LoadingFAT, FATLoaded, LoadingMini, LoadingEntries
    <2>9. QED
      BY <2>6, <2>7, <2>8 DEF Faithful
  <1>12. QED
    BY <1>10, <1>11

-----------------------------------------------------------------------------
(* A table is loaded, and the next one begins                               *)

LEMMA HeaderLinks ==
    ASSUME file \in Files
    PROVE  h.firstMiniFAT \in Nat /\ h.firstDir \in Nat
  BY LoadingAssumption DEF Headers, h

LEMMA TableDone ==
    ASSUME Inv, Faithful, phase \in Loads, i >= Len(secs)
    PROVE  /\ secs \in Seq(Nat) /\ Added(secs, i) = Len(secs)
           /\ \E cells : ReadSectors(file, secs) = Ok(cells) /\ Gathered(file, secs, cells)
  <1>1. /\ file.body \in Seq(Cells) /\ i \in Nat /\ first \in Nat
        /\ BatchHeld(file, secs, i, first, buf)
    BY HeaderFacts DEF Inv, Typed, InBatch, Faithful, Held
  <1>2. secs \in Seq(Nat) /\ Len(secs) \in Nat
    BY <1>1 DEF BatchHeld
  <1>3. Added(secs, i) = Len(secs)
    <2>1. PICK l \in Nat : l = Len(secs)
      BY <1>2
    <2>2. (IF i < l THEN i ELSE l) = l
      BY <1>1, <2>1
    <2>3. QED
      BY <2>1, <2>2, Zenon DEF Added, Smaller
  <1>4. \A j \in 1 .. Len(secs) : j <= i + first
    <2>1. PICK l \in Nat : l = Len(secs)
      BY <1>2
    <2>2. QED
      BY <1>1, <2>1
  <1>5. AllThere(file, secs)
    BY <1>1, <1>4 DEF BatchHeld, AllThere
  <1>6. QED
    BY <1>1, <1>2, <1>3, <1>5, SectorsGathered

LEMMA DirectoryBegins ==
    ASSUME Inv, Faithful, phase \in Loads, Load("parseEntries", DirectoryChain),
           LoadFAT(file) = Ok(fat), fat \in Seq(Nat), LoadMiniFAT(file, fat) = Ok(miniFAT),
           Len(entries) = 0
    PROVE  Faithful'
  <1>1. /\ file \in Files /\ IsSeq(entries) /\ SizePlausible(file)
        /\ DirectoryChain = DirChain(file, fat)
    BY DEF Inv, Typed, Faithful, Plausible, DirectoryChain, DirChain, h
  <1>2. h.firstDir \in Nat /\ h.numDir \in Nat
    BY <1>1, HeaderLinks, HeaderFacts
  <1>3. UNCHANGED <<file, buf, fat, miniFAT, entries>> /\ i' = 0 /\ first' = 0
    BY DEF Load, tables
  <1> DEFINE chain == DirChain(file, fat)
  <1>4. CASE ~chain.ok
    <2>1. phase' = "error"
      BY <1>1, <1>4 DEF Load
    <2>2. ~Parse(file).ok
      BY <1>4, EntriesUnread
    <2>3. QED
      BY <1>3, <2>1, <2>2, ErrorFaithful
  <1>5. CASE chain.ok
    <2>1. phase' = "parseEntries" /\ secs' = chain.val
      BY <1>1, <1>5 DEF Load
    <2>2. chain = Ok(chain.val) /\ chain.val \in Seq(Nat)
      BY <1>2, <1>5, ChainNumbers DEF DirChain, h
    <2>3. DirChain(file, fat) = Ok(secs') /\ secs' \in Seq(Nat)
      BY <2>1, <2>2
    <2> HIDE DEF chain
    <2>4. BatchHeld(file, secs', 0, 0, buf) /\ Added(secs', 0) = 0
      BY <2>3, TableBegins
    <2>5. Held'
      BY <1>3, <2>4, Zenon DEF Held
    <2>6. HasEntries(file, secs', Added(secs', 0), fat, miniFAT, entries)
      BY <1>1, <2>4, NoEntries
    <2>7. LoadingEntries'
      <3>1. HasEntries(file', secs', Added(secs', i'), fat', miniFAT', entries')
        BY <1>3, <2>6
      <3>2. QED
        BY <1>3, <2>3, <3>1 DEF LoadingEntries
    <2>8. FATLoaded'
      BY <1>3 DEF FATLoaded
    <2>9. (Plausible /\ DIFATFollowed /\ LoadingFAT /\ LoadingMini /\ LoadsWhatIsThere)'
      BY <1>1, <1>3, <2>1 DEF Plausible, DIFATFollowed, LoadingFAT, LoadingMini, LoadsWhatIsThere
    <2>10. QED
      BY <2>5, <2>7, <2>8, <2>9 DEF Faithful
  <1>6. QED
    BY <1>4, <1>5

LEMMA MiniBegins ==
    ASSUME Inv, Faithful, phase \in Loads, h.numMiniFAT # 0,
           Load("loadMiniFAT", WalkChain(fat, h.firstMiniFAT, h.numMiniFAT)),
           LoadFAT(file) = Ok(fat), fat \in Seq(Nat), Len(miniFAT) = 0, Len(entries) = 0
    PROVE  Faithful'
  <1> DEFINE chain == MiniChain(file, fat)
  <1>1. /\ file \in Files /\ IsSeq(miniFAT) /\ SizePlausible(file)
        /\ WalkChain(fat, h.firstMiniFAT, h.numMiniFAT) = chain
    BY DEF Inv, Typed, Faithful, Plausible, MiniChain, h
  <1>2. h.firstMiniFAT \in Nat /\ h.numMiniFAT \in Nat
    BY <1>1, HeaderLinks, HeaderFacts
  <1>3. UNCHANGED <<file, buf, fat, miniFAT, entries>> /\ i' = 0 /\ first' = 0 /\ h' = h
    BY DEF Load, tables, h
  <1>4. CASE ~chain.ok
    <2>1. phase' = "error"
      BY <1>1, <1>4 DEF Load
    <2>2. ~Parse(file).ok
      BY <1>4, MiniUnread DEF h
    <2>3. QED
      BY <1>3, <2>1, <2>2, ErrorFaithful
  <1>5. CASE chain.ok
    <2>1. phase' = "loadMiniFAT" /\ secs' = chain.val
      BY <1>1, <1>5 DEF Load
    <2>2. chain = Ok(chain.val) /\ chain.val \in Seq(Nat)
      BY <1>2, <1>5, ChainNumbers DEF MiniChain, h
    <2>3. MiniChain(file, fat) = Ok(secs') /\ secs' \in Seq(Nat)
      BY <2>1, <2>2
    <2> HIDE DEF chain
    <2>4. BatchHeld(file, secs', 0, 0, buf) /\ Added(secs', 0) = 0
      BY <2>3, TableBegins
    <2>5. Held'
      BY <1>3, <2>4, Zenon DEF Held
    <2>6. HasWords(file, secs', Added(secs', 0), miniFAT)
      BY <1>1, <2>4, NoWords
    <2>7. LoadingMini'
      <3>1. HasWords(file', secs', Added(secs', i'), miniFAT')
        BY <1>3, <2>6
      <3>2. QED
        BY <1>3, <2>3, <3>1 DEF LoadingMini
    <2>8. FATLoaded'
      BY <1>3 DEF FATLoaded
    <2>9. (Plausible /\ DIFATFollowed /\ LoadingFAT /\ LoadingEntries /\ LoadsWhatIsThere)'
      BY <1>1, <1>3, <2>1 DEF Plausible, DIFATFollowed, LoadingFAT, LoadingEntries, LoadsWhatIsThere
    <2>10. QED
      BY <2>5, <2>7, <2>8, <2>9 DEF Faithful
  <1>6. QED
    BY <1>4, <1>5

LEMMA EndFATFaithful ==
    ASSUME Inv, Faithful, EndFAT
    PROVE  Faithful'
  <1>1. phase = "loadFAT" /\ phase \in Loads /\ i >= Len(secs)
    BY LoadsApart DEF EndFAT
  <1>2. /\ ReadDIFAT(file) = Ok(secs) /\ HasWords(file, secs, Added(secs, i), fat)
        /\ Len(miniFAT) = 0 /\ Len(entries) = 0
    BY <1>1 DEF Faithful, LoadingFAT
  <1>3. secs \in Seq(Nat) /\ Added(secs, i) = Len(secs)
    BY <1>1, TableDone
  <1>4. PICK cells : ReadSectors(file, secs) = Ok(cells) /\ Gathered(file, secs, cells)
    BY <1>1, TableDone
  <1>5. WordsOf(cells) = fat
    <2>1. HasWords(file, secs, Len(secs), fat)
      BY <1>2, <1>3
    <2>2. QED
      BY <1>3, <1>4, <2>1, WordsDone
  <1>6. LoadFAT(file) = Ok(fat) /\ fat \in Seq(Nat)
    BY <1>2, <1>4, <1>5, FATRead DEF HasWords
  <1>7. CASE h.numMiniFAT = 0
    <2>1. Load("parseEntries", DirectoryChain)
      BY <1>7 DEF EndFAT
    <2>2. miniFAT = <<>>
      BY <1>2, LenZeroIsEmpty DEF Inv, Typed
    <2>3. LoadMiniFAT(file, fat) = Ok(miniFAT)
      BY <1>7, <2>2, MiniNone DEF h
    <2>4. QED
      BY <1>1, <1>2, <1>6, <2>1, <2>3, DirectoryBegins
  <1>8. CASE h.numMiniFAT # 0
    <2>1. Load("loadMiniFAT", WalkChain(fat, h.firstMiniFAT, h.numMiniFAT))
      BY <1>8 DEF EndFAT
    <2>2. QED
      BY <1>1, <1>2, <1>6, <1>8, <2>1, MiniBegins
  <1>9. QED
    BY <1>7, <1>8

LEMMA EndMiniFATFaithful ==
    ASSUME Inv, Faithful, EndMiniFAT
    PROVE  Faithful'
  <1>1. /\ phase = "loadMiniFAT" /\ phase \in Loads /\ i >= Len(secs)
        /\ Load("parseEntries", DirectoryChain)
    BY LoadsApart DEF EndMiniFAT
  <1>2. /\ LoadFAT(file) = Ok(fat) /\ fat \in Seq(Nat)
        /\ h.numMiniFAT # 0 /\ MiniChain(file, fat) = Ok(secs)
        /\ HasWords(file, secs, Added(secs, i), miniFAT) /\ Len(entries) = 0
    BY <1>1 DEF Faithful, FATLoaded, LoadingMini
  <1>3. secs \in Seq(Nat) /\ Added(secs, i) = Len(secs)
    BY <1>1, TableDone
  <1>4. PICK cells : ReadSectors(file, secs) = Ok(cells) /\ Gathered(file, secs, cells)
    BY <1>1, TableDone
  <1>5. WordsOf(cells) = miniFAT
    <2>1. HasWords(file, secs, Len(secs), miniFAT)
      BY <1>2, <1>3
    <2>2. QED
      BY <1>3, <1>4, <2>1, WordsDone
  <1>6. LoadMiniFAT(file, fat) = Ok(miniFAT)
    <2>1. file.header.numMiniFAT # 0
      BY <1>2 DEF h
    <2>2. QED
      BY <1>2, <1>4, <1>5, <2>1, MiniRead
  <1>7. QED
    BY <1>1, <1>2, <1>6, DirectoryBegins

LEMMA EndEntriesFaithful ==
    ASSUME Inv, Faithful, EndEntries
    PROVE  Faithful'
  <1> DEFINE tree == Rest(entries, fat, miniFAT)
  <1>1. /\ phase = "parseEntries" /\ phase \in Loads /\ i >= Len(secs)
        /\ UNCHANGED <<file, fat, miniFAT, entries>>
    BY LoadsApart DEF EndEntries, tables
  <1>2. IF tree.ok THEN phase' = "done" /\ list' = tree.val ELSE phase' = "error"
    BY DEF EndEntries, Rest
  <1>3. /\ LoadFAT(file) = Ok(fat) /\ fat \in Seq(Nat)
        /\ LoadMiniFAT(file, fat) = Ok(miniFAT) /\ DirChain(file, fat) = Ok(secs)
        /\ HasEntries(file, secs, Added(secs, i), fat, miniFAT, entries)
    BY <1>1 DEF Faithful, FATLoaded, LoadingEntries
  <1>4. secs \in Seq(Nat) /\ Added(secs, i) = Len(secs)
    BY <1>1, TableDone
  <1>5. PICK cells : ReadSectors(file, secs) = Ok(cells) /\ Gathered(file, secs, cells)
    BY <1>1, TableDone
  <1>6. EntriesIn(cells, fat, miniFAT) = Ok(entries)
    <2>1. HasEntries(file, secs, Len(secs), fat, miniFAT, entries)
      BY <1>3, <1>4
    <2>2. QED
      BY <1>4, <1>5, <2>1, EntriesDone
  <1>7. EntriesOf(cells, fat, miniFAT) = IF BeginWithRoot(entries) THEN Ok(entries) ELSE Bad
    <2>1. EntriesIn(cells, fat, miniFAT).ok /\ EntriesIn(cells, fat, miniFAT).val = entries
      BY <1>6, OkBad
    <2>2. QED
      BY <2>1, Zenon DEF EntriesOf, Then
  <1>8. HeaderValid(file.header) /\ SizePlausible(file)
    BY <1>1, LoadsApart DEF Inv, Accepted, Faithful, Plausible, h
  <1>9. CASE ~BeginWithRoot(entries)
    <2>1. tree = Bad
      BY <1>9 DEF Rest
    <2>2. phase' = "error"
      BY <1>2, <2>1, OkBad
    <2>3. ~EntriesOf(cells, fat, miniFAT).ok
      BY <1>7, <1>9, OkBad
    <2>4. ~Parse(file).ok
      BY <1>3, <1>5, <2>3, EntriesBad
    <2>5. QED
      BY <1>1, <2>2, <2>4, ErrorFaithful
  <1>10. CASE BeginWithRoot(entries)
    <2>1. ParseEntries(file, fat, miniFAT) = Ok(entries)
      BY <1>3, <1>5, <1>7, <1>10, EntriesRead
    <2>2. Parse(file) = IF tree.ok THEN Ok([fat |-> fat, list |-> tree.val]) ELSE Bad
      BY <1>3, <1>8, <1>10, <2>1, ParseRest
    <2> HIDE DEF tree
    <2>3. CASE ~tree.ok
      <3>1. phase' = "error" /\ ~Parse(file).ok
        BY <1>2, <2>2, <2>3, OkBad
      <3>2. QED
        BY <1>1, <3>1, ErrorFaithful
    <2>4. CASE tree.ok
      <3>1. phase' = "done" /\ Parse(file) = Ok([fat |-> fat, list |-> list'])
        BY <1>2, <2>2, <2>4
      <3>2. LoadsWhatIsThere'
        BY <1>1, <3>1 DEF LoadsWhatIsThere
      <3>3. (Plausible /\ DIFATFollowed /\ Held)'
        BY <1>1, <1>8, <3>1, LoadsApart DEF Plausible, DIFATFollowed, Held
      <3>4. (LoadingFAT /\ FATLoaded /\ LoadingMini /\ LoadingEntries)'
        BY <3>1 DEF LoadingFAT, FATLoaded, LoadingMini, LoadingEntries
      <3>5. QED
        BY <3>2, <3>3, <3>4 DEF Faithful
    <2>5. QED
      BY <2>3, <2>4
  <1>11. QED
    BY <1>9, <1>10

LEMMA StutterFaithful ==
    ASSUME Faithful, UNCHANGED vars
    PROVE  Faithful'
  <1>1. /\ UNCHANGED <<file, phase, buf, sec, left, secs, i, first, fat, miniFAT, entries, list, failed>>
        /\ h' = h
    BY DEF vars, cursor, tables, h
  <1>2. (Plausible /\ DIFATFollowed /\ Held)'
    BY <1>1 DEF Faithful, Plausible, DIFATFollowed, Held
  <1>3. (LoadingFAT /\ FATLoaded /\ LoadingMini /\ LoadingEntries)'
    BY <1>1 DEF Faithful, LoadingFAT, FATLoaded, LoadingMini, LoadingEntries
  <1>4. LoadsWhatIsThere'
    BY <1>1 DEF Faithful, LoadsWhatIsThere
  <1>5. QED
    BY <1>2, <1>3, <1>4 DEF Faithful

(* NewReader and the file: however the sectors of the tables lie, however   *)
(* the batches of the buffer cut them and wherever calls of ReadAt fail,    *)
(* what NewReader returns is what Parse finds in the file, and it gives an  *)
(* error only for a file that Parse refuses, too, or when a call gave one.  *)
THEOREM LoadsAsParsed == Spec => []LoadsWhatIsThere
  <1>1. Init => Faithful
    BY InitFaithful
  <1>2. Inv /\ Faithful /\ [Next]_vars => Faithful'
    <2>1. SUFFICES ASSUME Inv, Faithful, [Next]_vars PROVE Faithful'
      OBVIOUS
    <2>2. CASE ParseHeader
      BY <2>1, <2>2, HeaderFaithful
    <2>3. CASE SkipProbe \/ Probe
      BY <2>1, <2>3, ProbeFaithful
    <2>4. CASE ReadDIFATSector
      BY <2>1, <2>4, ReadDIFATFaithful
    <2>5. CASE NoDIFATSector
      BY <2>1, <2>5, NoDIFATFaithful
    <2>6. CASE EndDIFAT
      BY <2>1, <2>6, EndDIFATFaithful
    <2>7. CASE ReadRun
      BY <2>1, <2>7, ReadRunFaithful
    <2>8. CASE EndFATBatch
      BY <2>1, <2>8, EndFATBatchFaithful
    <2>9. CASE EndMiniFATBatch
      BY <2>1, <2>9, EndMiniBatchFaithful
    <2>10. CASE EndEntryBatch
      BY <2>1, <2>10, EndEntryBatchFaithful
    <2>11. CASE EndFAT
      BY <2>1, <2>11, EndFATFaithful
    <2>12. CASE EndMiniFAT
      BY <2>1, <2>12, EndMiniFATFaithful
    <2>13. CASE EndEntries
      BY <2>1, <2>13, EndEntriesFaithful
    <2>14. CASE UNCHANGED vars
      BY <2>1, <2>14, StutterFaithful
    <2>15. QED
      BY <2>1, <2>2, <2>3, <2>4, <2>5, <2>6, <2>7, <2>8, <2>9, <2>10, <2>11, <2>12, <2>13, <2>14 DEF Next
  <1>3. Faithful => LoadsWhatIsThere
    BY DEF Faithful
  <1>4. QED
    BY <1>1, <1>2, <1>3, LoadingInvariant, PTL DEF Spec

=============================================================================
