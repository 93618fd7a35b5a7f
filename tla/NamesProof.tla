----------------------------- MODULE NamesProof -----------------------------
(***************************************************************************)
(* The table that casetablegen compresses gives every code the uppercase   *)
(* it was made from, for every map of lowercase to uppercase that is clean *)
(* and for any number of codes.                                            *)
(***************************************************************************)
EXTENDS Names, FiniteSetTheorems, TLAPS

\* What a sequence over a set is a function of.
LEMMA Elements ==
    ASSUME NEW S, NEW s \in Seq(S)
    PROVE  DOMAIN s = 1 .. Len(s) /\ Len(s) \in Nat /\ \A k \in DOMAIN s : s[k] \in S
  OBVIOUS

\* Codes are the numbers that wrapping leaves alone.
LEMMA WrapCode ==
    ASSUME NEW c \in Codes
    PROVE  Wrap(c) = c /\ Wrap(c + NumCodes) = c /\ Wrap(c - NumCodes) = c
  BY CodesAssumption DEF Wrap, Codes

\* A difference of two codes, wrapped and added, is the difference.
LEMMA WrapDelta ==
    ASSUME NEW c \in Codes, NEW lo \in Codes, NEW up \in Codes, NEW u \in Codes, u - c = up - lo
    PROVE  Wrap(up - lo) \in Codes /\ Wrap(c + Wrap(up - lo)) = u
  <1> DEFINE d == up - lo
  <1>1. d \in Int /\ u = c + d
    BY CodesAssumption DEF Codes
  <1>2. CASE d >= 0
    <2>1. d \in Codes
      BY <1>1, <1>2, CodesAssumption DEF Codes
    <2>2. Wrap(d) = d
      BY <2>1, WrapCode
    <2>3. QED
      BY <1>1, <2>1, <2>2, WrapCode
  <1>3. CASE d < 0
    <2>1. d + NumCodes \in Codes
      BY <1>1, <1>3, CodesAssumption DEF Codes
    <2>2. Wrap((d + NumCodes) - NumCodes) = d + NumCodes
      BY <2>1, WrapCode
    <2>3. Wrap(d) = d + NumCodes
      BY <1>1, <2>2, CodesAssumption
    <2>4. c + (d + NumCodes) = u + NumCodes
      BY <1>1, CodesAssumption DEF Codes
    <2>5. QED
      BY <2>1, <2>3, <2>4, WrapCode
  <1>4. QED
    BY <1>1, <1>2, <1>3

\* A code that is a step behind a smaller one has not wrapped.
LEMMA WrapStep ==
    ASSUME NEW c \in Codes, NEW d \in Codes, NEW n \in {1, 2}, d = Wrap(c + n), c < d
    PROVE  d = c + n
  <1>1. CASE c + n < NumCodes
    <2>1. c + n \in Codes
      BY <1>1, CodesAssumption DEF Codes
    <2>2. QED
      BY <2>1, WrapCode
  <1>2. CASE c + n >= NumCodes
    <2>1. c + n - NumCodes \in Codes
      BY <1>2, CodesAssumption DEF Codes
    <2>2. Wrap((c + n - NumCodes) + NumCodes) = c + n - NumCodes
      BY <2>1, WrapCode
    <2>3. d = c + n - NumCodes
      BY <2>2, CodesAssumption DEF Codes
    <2>4. QED
      BY <2>3, CodesAssumption DEF Codes
  <1>3. QED
    BY <1>1, <1>2, CodesAssumption DEF Codes

\* No pair of a clean map takes the first code to the last, where it would wrap.
LEMMA NextToUpper ==
    ASSUME NEW b, Clean(b), NEW c \in DOMAIN b, c = Wrap(b[c] + 1)
    PROVE  c = b[c] + 1
  <1>1. c \in Codes /\ b[c] \in Codes /\ b[c] # c
    BY DEF Clean
  <1>2. CASE b[c] = NumCodes - 1
    <2>1. Wrap(0 + NumCodes) = 0
      BY WrapCode, CodesAssumption DEF Codes
    <2>2. c = 0
      BY <1>2, <2>1, CodesAssumption
    <2>3. AsciiUpper(0) = 0
      BY CodesAssumption DEF AsciiUpper
    <2>4. AsciiUpper(0) = b[0]
      BY <2>2, CodesAssumption DEF Clean
    <2>5. QED
      BY <1>1, <2>2, <2>3, <2>4
  <1>3. CASE b[c] # NumCodes - 1
    <2>1. b[c] + 1 \in Codes
      BY <1>1, <1>3, CodesAssumption DEF Codes
    <2>2. QED
      BY <2>1, WrapCode
  <1>4. QED
    BY <1>2, <1>3

-----------------------------------------------------------------------------
(* The invariant                                                            *)

\* pairs lists base by lowercase code.
PairsSound ==
    /\ pairs \in Seq([lo : Codes, up : Codes])
    /\ \A k, l \in DOMAIN pairs : k < l => pairs[k].lo < pairs[l].lo
    /\ \A k \in DOMAIN pairs : pairs[k].lo \in DOMAIN base /\ pairs[k].up = base[pairs[k].lo]
    /\ \A c \in DOMAIN base : \E k \in DOMAIN pairs : pairs[k].lo = c

\* The pairs from i on, before j, are of one kind.
RunSound ==
    /\ i \in 1 .. Len(pairs) + 1
    /\ stage \in {"alternating", "constant"} => i <= Len(pairs) /\ j \in i + 1 .. Len(pairs) + 1
    /\ stage = "alternating" =>
          \A k \in i .. j - 1 : pairs[k].lo = pairs[i].lo + 2 * (k - i) /\ pairs[k].up = pairs[k].lo - 1
    /\ stage = "constant" =>
          \A k \in i .. j - 1 : /\ pairs[k].lo = pairs[i].lo + (k - i)
                                /\ pairs[k].up - pairs[k].lo = pairs[i].up - pairs[i].lo
    /\ stage = "done" => i = Len(pairs) + 1

InRange(r, c) == table[r].lo <= c /\ c <= table[r].hi

\* Each range ends with a pair, they are apart, and they say of their codes what
\* base does; every pair before i is in one.
RangesSound ==
    /\ table \in Seq([lo : Codes, hi : Codes, delta : Codes])
    /\ \A r \in DOMAIN table : \E k \in 1 .. i - 1 : table[r].hi = pairs[k].lo
    /\ \A q, r \in DOMAIN table : q < r => table[q].hi < table[r].lo
    /\ \A r \in DOMAIN table : \A c \in Codes : InRange(r, c) => UpperIn(table[r], c) = Mapped(c)
    /\ \A k \in 1 .. i - 1 : \E r \in DOMAIN table : InRange(r, pairs[k].lo)

NamesInv ==
    /\ stage \in {"apply", "compress", "alternating", "constant", "done"}
    /\ stage = "apply" => i = 1 /\ table = <<>>
    /\ stage # "apply" /\ Clean(base) => PairsSound /\ RunSound /\ RangesSound

\* The lists SetToSeqs gives of a finite set have all of its elements.
LEMMA AllListed ==
    ASSUME NEW S, IsFiniteSet(S), NEW q \in SetToSeqs(S), NEW T, S \subseteq T
    PROVE  q \in Seq(T) /\ q \in Seq(S) /\ \A x \in S : \E k \in DOMAIN q : q[k] = x
  <1> DEFINE D == 1 .. Cardinality(S)
  <1>1. Cardinality(S) \in Nat
    BY FS_CardinalityType
  <1>2. q \in [D -> S] /\ \A k, l \in D : k # l => q[k] # q[l]
    BY DEF SetToSeqs
  <1>3. q \in Injection(D, S)
    BY <1>2 DEF Injection, IsInjective
  <1>4. IsFiniteSet(D) /\ Cardinality(D) = Cardinality(S)
    <2>1. Cardinality(S) \in Int /\ 1 \in Int
      BY <1>1
    <2>2. IsFiniteSet(D) /\ Cardinality(D) = IF 1 > Cardinality(S) THEN 0 ELSE Cardinality(S) - 1 + 1
      BY <2>1, FS_Interval
    <2>3. QED
      BY <1>1, <2>2
  <1>5. q \in Surjection(D, S)
    BY <1>3, <1>4, FS_Injection
  <1>6. \A x \in S : \E k \in D : q[k] = x
    BY <1>5 DEF Surjection
  <1>7. q \in [D -> T]
    BY <1>2
  <1>8. QED
    BY <1>1, <1>2, <1>6, <1>7

\* The list that compress starts from is all of base, in order.
LEMMA SortedSound ==
    ASSUME NamesInv, SortPairs, Clean(base)
    PROVE  (PairsSound /\ RunSound /\ RangesSound)'
  <1>1. /\ stage = "apply" /\ stage' = "compress" /\ i = 1 /\ i' = 1
        /\ table = <<>> /\ table' = <<>> /\ base' = base
    BY DEF NamesInv, SortPairs
  <1>2. DOMAIN base \subseteq Codes /\ \A c \in DOMAIN base : base[c] \in Codes /\ base[c] # c
    BY DEF Clean
  <1>3. PairsOf(base) = {[lo |-> c, up |-> base[c]] : c \in DOMAIN base}
    BY <1>2 DEF PairsOf
  <1>4. IsFiniteSet(PairsOf(base))
    <2>1. IsFiniteSet(DOMAIN base)
      <3>1. NumCodes - 1 \in Int
        BY CodesAssumption
      <3>2. IsFiniteSet(Codes)
        BY <3>1, FS_Interval DEF Codes
      <3>3. DOMAIN base \in SUBSET Codes
        BY <1>2
      <3>4. QED
        BY <3>2, <3>3, FS_Subset
    <2> DEFINE f == [c \in DOMAIN base |-> [lo |-> c, up |-> base[c]]]
    <2>2. f \in [DOMAIN base -> PairsOf(base)]
      BY <1>3
    <2>3. \A p \in PairsOf(base) : \E c \in DOMAIN base : f[c] = p
      BY <1>3
    <2>4. f \in Surjection(DOMAIN base, PairsOf(base))
      BY <2>2, <2>3 DEF Surjection
    <2>5. QED
      BY <2>1, <2>4, FS_Surjection
  <1> PICK q \in SetToSeqs(PairsOf(base)) :
             pairs' = q /\ \A k, l \in DOMAIN q : k < l => q[k].lo < q[l].lo
    BY DEF SortPairs
  <1>5. q \in Seq([lo : Codes, up : Codes]) /\ q \in Seq(PairsOf(base))
        /\ \A p \in PairsOf(base) : \E k \in DOMAIN q : q[k] = p
    <2>1. PairsOf(base) \subseteq [lo : Codes, up : Codes]
      BY <1>2, <1>3
    <2>2. q \in SetToSeqs(PairsOf(base))
      OBVIOUS
    <2>3. q \in Seq([lo : Codes, up : Codes])
      BY <1>4, <2>1, <2>2, AllListed, ZenonT(30)
    <2>4. q \in Seq(PairsOf(base)) /\ \A p \in PairsOf(base) : \E k \in DOMAIN q : q[k] = p
      BY <1>4, <2>2, AllListed, ZenonT(30)
    <2>5. QED
      BY <2>3, <2>4
  <1>6. \A k \in DOMAIN q : q[k] \in PairsOf(base)
    BY <1>5
  <1>8. PairsSound'
    <2>1. q \in Seq([lo : Codes, up : Codes])
      BY <1>5
    <2>2. \A k \in DOMAIN q : q[k].lo \in DOMAIN base /\ q[k].up = base[q[k].lo]
      <3>1. \A p \in PairsOf(base) : p.lo \in DOMAIN base /\ p.up = base[p.lo]
        BY <1>3
      <3>2. QED
        BY <1>6, <3>1
    <2>3. ASSUME NEW c \in DOMAIN base PROVE \E k \in DOMAIN q : q[k].lo = c
      <3>1. [lo |-> c, up |-> base[c]] \in PairsOf(base)
        BY <1>3
      <3>2. PICK k \in DOMAIN q : q[k] = [lo |-> c, up |-> base[c]]
        BY <1>5, <3>1
      <3>3. QED
        BY <3>2
    <2>4. QED
      BY <1>1, <2>1, <2>2, <2>3 DEF PairsSound
  <1>9. RunSound'
    BY <1>1, <1>5 DEF RunSound
  <1>10. RangesSound'
    BY <1>1 DEF RangesSound
  <1>11. QED
    BY <1>8, <1>9, <1>10

\* What the invariant says of one pair.
LEMMA OnePair ==
    ASSUME PairsSound, Clean(base), NEW k \in 1 .. Len(pairs)
    PROVE  /\ pairs[k].lo \in Codes /\ pairs[k].up \in Codes
           /\ pairs[k].lo \in DOMAIN base /\ pairs[k].up \notin DOMAIN base
           /\ Mapped(pairs[k].lo) = pairs[k].up /\ Mapped(pairs[k].up) = pairs[k].up
           /\ Wrap(pairs[k].up - pairs[k].lo) # UpperLower
           /\ pairs[k].lo = Wrap(pairs[k].up + 1) => pairs[k].lo = pairs[k].up + 1
  <1>1. k \in DOMAIN pairs /\ pairs[k] \in [lo : Codes, up : Codes]
    <2>1. pairs \in Seq([lo : Codes, up : Codes])
      BY DEF PairsSound
    <2>2. QED
      BY <2>1, Elements
  <1>2. pairs[k].lo \in DOMAIN base /\ pairs[k].up = base[pairs[k].lo]
    BY <1>1 DEF PairsSound
  <1>3. pairs[k].up \notin DOMAIN base /\ Wrap(pairs[k].up - pairs[k].lo) # UpperLower
    BY <1>2 DEF Clean
  <1>4. pairs[k].lo = Wrap(pairs[k].up + 1) => pairs[k].lo = pairs[k].up + 1
    BY <1>2, NextToUpper
  <1>5. QED
    BY <1>1, <1>2, <1>3, <1>4 DEF Mapped

\* Pairs in order: a step of at most two codes to the next one has not wrapped.
LEMMA NextPair ==
    ASSUME PairsSound, Clean(base), NEW k \in 2 .. Len(pairs)
    PROVE  /\ pairs[k].lo = Wrap(pairs[k - 1].lo + 2) => pairs[k].lo = pairs[k - 1].lo + 2
           /\ pairs[k].lo = Wrap(pairs[k - 1].lo + 1) => pairs[k].lo = pairs[k - 1].lo + 1
  <1>1. k \in 1 .. Len(pairs) /\ k - 1 \in 1 .. Len(pairs) /\ k - 1 < k
    BY DEF PairsSound
  <1>2. pairs[k].lo \in Codes /\ pairs[k - 1].lo \in Codes
    BY <1>1, OnePair
  <1>3. pairs[k - 1].lo < pairs[k].lo
    BY <1>1 DEF PairsSound
  <1>4. QED
    BY <1>2, <1>3, WrapStep

\* A run of one pair: its kind is the one its two codes tell.
LEMMA StartSound ==
    ASSUME PairsSound, RunSound, RangesSound, Clean(base), Start
    PROVE  (PairsSound /\ RunSound /\ RangesSound)'
  <1>1. PairsSound' /\ RangesSound'
    BY DEF Start, PairsSound, RangesSound, InRange, Mapped
  <1>2. i \in 1 .. Len(pairs) /\ i' = i /\ j' = i + 1 /\ pairs' = pairs
    BY DEF Start, RunSound
  <1>3. pairs[i].lo \in Codes /\ pairs[i].up \in Codes
    BY <1>2, OnePair
  <1>4. \A k \in i' .. j' - 1 : k = i
    BY <1>2
  <1>5. stage' = "alternating" => pairs[i].up = pairs[i].lo - 1
    <2>1. stage' = "alternating" => pairs[i].lo = Wrap(pairs[i].up + 1)
      BY DEF Start
    <2>2. stage' = "alternating" => pairs[i].lo = pairs[i].up + 1
      BY <1>2, <2>1, OnePair
    <2>3. pairs[i].up \in Int
      BY <1>3, CodesAssumption DEF Codes
    <2>4. QED
      BY <2>2, <2>3
  <1>6. stage' \in {"alternating", "constant"}
    BY DEF Start
  <1>7. RunSound'
    BY <1>2, <1>3, <1>4, <1>5, <1>6, CodesAssumption DEF RunSound, Codes
  <1>8. QED
    BY <1>1, <1>7

\* The next pair continues the run without having wrapped.
LEMMA ExtendSound ==
    ASSUME PairsSound, RunSound, RangesSound, Clean(base), Extend
    PROVE  (PairsSound /\ RunSound /\ RangesSound)'
  <1>1. PairsSound' /\ RangesSound'
    BY DEF Extend, PairsSound, RangesSound, InRange, Mapped
  <1>2. /\ i \in 1 .. Len(pairs) /\ j \in i + 1 .. Len(pairs) /\ i' = i /\ j' = j + 1 /\ pairs' = pairs
        /\ stage' = stage /\ stage \in {"alternating", "constant"} /\ Len(pairs) \in Nat
        /\ i \in Int /\ j \in Int
    BY DEF Extend, Continues, RunSound, PairsSound
  <1>3. j \in 2 .. Len(pairs) /\ j - 1 \in 1 .. Len(pairs) /\ j \in 1 .. Len(pairs) /\ j - 1 \in i .. j - 1
    BY <1>2
  <1>4. /\ pairs[i].lo \in Int /\ pairs[i].up \in Int /\ pairs[j].lo \in Int /\ pairs[j].up \in Int
        /\ pairs[j - 1].lo \in Int /\ pairs[j - 1].up \in Int
    <2>1. /\ pairs[i].lo \in Codes /\ pairs[i].up \in Codes /\ pairs[j].lo \in Codes /\ pairs[j].up \in Codes
          /\ pairs[j - 1].lo \in Codes /\ pairs[j - 1].up \in Codes
      BY <1>2, <1>3, OnePair
    <2>2. QED
      BY <2>1, CodesAssumption DEF Codes
  <1>5. CASE stage = "alternating"
    <2>1. Alternates(pairs[j - 1], pairs[j])
      BY <1>5 DEF Extend, Continues
    <2>2. pairs[j].lo = pairs[j - 1].lo + 2
      BY <1>3, <2>1, NextPair DEF Alternates
    <2>3. pairs[j].lo = pairs[j].up + 1
      BY <1>3, <2>1, OnePair DEF Alternates
    <2>4. pairs[j - 1].lo = pairs[i].lo + 2 * (j - 1 - i)
      BY <1>3, <1>5 DEF RunSound
    <2>5. pairs[j].lo = pairs[i].lo + 2 * (j - i) /\ pairs[j].up = pairs[j].lo - 1
      <3>1. pairs[j].lo = (pairs[i].lo + 2 * (j - 1 - i)) + 2
        BY <2>2, <2>4
      <3>2. \A a, k, l \in Int : (a + 2 * (k - 1 - l)) + 2 = a + 2 * (k - l)
        OBVIOUS
      <3>3. pairs[j].up = pairs[j].lo - 1
        BY <1>4, <2>3
      <3>4. (pairs[i].lo + 2 * (j - 1 - i)) + 2 = pairs[i].lo + 2 * (j - i)
        <4> DEFINE a == pairs[i].lo
        <4>1. a \in Int /\ i \in Int /\ j \in Int
          BY <1>2, <1>4
        <4> HIDE DEF a
        <4>2. (a + 2 * (j - 1 - i)) + 2 = a + 2 * (j - i)
          BY <3>2, <4>1
        <4>3. QED
          BY <4>2 DEF a
      <3>5. QED
        BY <3>1, <3>3, <3>4
    <2>6. \A k \in i .. j : pairs[k].lo = pairs[i].lo + 2 * (k - i) /\ pairs[k].up = pairs[k].lo - 1
      <3>1. \A k \in i .. j : k = j \/ k \in i .. j - 1
        BY <1>2
      <3>2. \A k \in i .. j - 1 : pairs[k].lo = pairs[i].lo + 2 * (k - i) /\ pairs[k].up = pairs[k].lo - 1
        BY <1>5 DEF RunSound
      <3>3. QED
        BY <2>5, <3>1, <3>2
    <2>7. QED
      BY <1>1, <1>2, <1>5, <2>6 DEF RunSound
  <1>6. CASE stage = "constant"
    <2>1. SameDelta(pairs[j - 1], pairs[j])
      BY <1>6 DEF Extend, Continues
    <2>2. pairs[j].lo = pairs[j - 1].lo + 1 /\ pairs[j].up - pairs[j].lo = pairs[j - 1].up - pairs[j - 1].lo
      BY <1>3, <2>1, NextPair DEF SameDelta
    <2>3. /\ pairs[j - 1].lo = pairs[i].lo + (j - 1 - i)
          /\ pairs[j - 1].up - pairs[j - 1].lo = pairs[i].up - pairs[i].lo
      BY <1>3, <1>6 DEF RunSound
    <2>4. /\ pairs[j].lo = pairs[i].lo + (j - i)
          /\ pairs[j].up - pairs[j].lo = pairs[i].up - pairs[i].lo
      <3>1. pairs[j].lo = (pairs[i].lo + (j - 1 - i)) + 1
        BY <2>2, <2>3
      <3>2. (pairs[i].lo + (j - 1 - i)) + 1 = pairs[i].lo + (j - i)
        BY <1>2, <1>4
      <3>3. QED
        BY <2>2, <2>3, <3>1, <3>2
    <2>5. \A k \in i .. j : /\ pairs[k].lo = pairs[i].lo + (k - i)
                           /\ pairs[k].up - pairs[k].lo = pairs[i].up - pairs[i].lo
      <3>1. \A k \in i .. j : k = j \/ k \in i .. j - 1
        BY <1>2
      <3>2. \A k \in i .. j - 1 : /\ pairs[k].lo = pairs[i].lo + (k - i)
                                 /\ pairs[k].up - pairs[k].lo = pairs[i].up - pairs[i].lo
        BY <1>6 DEF RunSound
      <3>3. QED
        BY <2>4, <3>1, <3>2
    <2>6. QED
      BY <1>1, <1>2, <1>6, <2>5 DEF RunSound
  <1>7. QED
    BY <1>2, <1>5, <1>6

\* A single pair counts as a run of either kind.
LEMMA TryConstantSound ==
    ASSUME PairsSound, RunSound, RangesSound, Clean(base), TryConstant
    PROVE  (PairsSound /\ RunSound /\ RangesSound)'
  <1>1. PairsSound' /\ RangesSound'
    BY DEF TryConstant, PairsSound, RangesSound, InRange, Mapped
  <1>2. i \in 1 .. Len(pairs) /\ i' = i /\ j' = i + 1 /\ pairs' = pairs /\ stage' = "constant"
    BY DEF TryConstant, RunSound
  <1>3. pairs[i].lo \in Int /\ pairs[i].up \in Int
    BY <1>2, OnePair, CodesAssumption DEF Codes
  <1>4. \A k \in i' .. j' - 1 : k = i
    BY <1>2
  <1>5. RunSound'
    BY <1>2, <1>3, <1>4 DEF RunSound
  <1>6. QED
    BY <1>1, <1>5

\* A range for the pairs from i on, before j, may be added when it begins behind
\* the last one, ends with its last pair, covers them, and maps its codes rightly.
LEMMA RangeAdded ==
    ASSUME PairsSound, RunSound, RangesSound, Clean(base),
           i \in 1 .. Len(pairs), j \in i + 1 .. Len(pairs) + 1,
           NEW r \in [lo : Codes, hi : Codes, delta : Codes], AddRange(r),
           r.hi = pairs[j - 1].lo,
           r.lo <= pairs[i].lo,
           \A k \in 1 .. i - 1 : pairs[k].lo < r.lo,
           \A c \in Codes : r.lo <= c /\ c <= r.hi => UpperIn(r, c) = Mapped(c)
    PROVE  (PairsSound /\ RunSound /\ RangesSound)'
  <1>1. /\ table' = Append(table, r) /\ i' = j /\ stage' = "compress"
        /\ base' = base /\ pairs' = pairs /\ Len(pairs) \in Nat
    BY DEF AddRange, PairsSound
  <1>2. PairsSound' /\ RunSound'
    BY <1>1 DEF PairsSound, RunSound
  <1> DEFINE T == Seq([lo : Codes, hi : Codes, delta : Codes])
             n == Len(table) + 1
  <1>3. /\ table' \in T /\ n \in Nat /\ DOMAIN table = 1 .. n - 1 /\ DOMAIN table' = 1 .. n
        /\ table'[n] = r /\ \A q \in 1 .. n - 1 : table'[q] = table[q]
    BY <1>1 DEF RangesSound
  <1>4. \A q \in 1 .. n : \E k \in 1 .. j - 1 : table'[q].hi = pairs[k].lo
    <2>1. \A q \in 1 .. n - 1 : \E k \in 1 .. i - 1 : table[q].hi = pairs[k].lo
      BY <1>3 DEF RangesSound
    <2>2. j - 1 \in 1 .. j - 1 /\ table'[n].hi = pairs[j - 1].lo
      BY <1>1, <1>3
    <2>3. 1 .. i - 1 \subseteq 1 .. j - 1
      BY <1>1
    <2>4. QED
      BY <1>3, <2>1, <2>2, <2>3
  <1>5. \A p, q \in 1 .. n : p < q => table'[p].hi < table'[q].lo
    <2>1. \A p, q \in 1 .. n - 1 : p < q => table[p].hi < table[q].lo
      BY <1>3 DEF RangesSound
    <2>2. \A p \in 1 .. n - 1 : table[p].hi < r.lo
      BY <1>3 DEF RangesSound
    <2>3. \A q \in 1 .. n : q = n \/ q \in 1 .. n - 1
      BY <1>3
    <2>4. \A p, q \in 1 .. n : p < q => p \in 1 .. n - 1
      BY <1>3
    <2>5. QED
      BY <1>3, <2>1, <2>2, <2>3, <2>4
  <1>6. \A q \in 1 .. n : \A c \in Codes :
            table'[q].lo <= c /\ c <= table'[q].hi => UpperIn(table'[q], c) = Mapped(c)
    <2>1. \A q \in 1 .. n - 1 : \A c \in Codes :
              table[q].lo <= c /\ c <= table[q].hi => UpperIn(table[q], c) = Mapped(c)
      BY <1>3 DEF RangesSound, InRange
    <2>2. \A q \in 1 .. n : q = n \/ q \in 1 .. n - 1
      BY <1>3
    <2>3. QED
      BY <1>3, <2>1, <2>2
  <1>7. \A k \in 1 .. j - 1 : \E q \in 1 .. n : table'[q].lo <= pairs[k].lo /\ pairs[k].lo <= table'[q].hi
    <2>1. \A k \in 1 .. i - 1 : \E q \in 1 .. n - 1 : table[q].lo <= pairs[k].lo /\ pairs[k].lo <= table[q].hi
      BY <1>3 DEF RangesSound, InRange
    <2>2. ASSUME NEW k \in i .. j - 1 PROVE r.lo <= pairs[k].lo /\ pairs[k].lo <= r.hi
      <3>1. /\ k \in DOMAIN pairs /\ i \in DOMAIN pairs /\ j - 1 \in DOMAIN pairs
            /\ k \in 1 .. Len(pairs) /\ j - 1 \in 1 .. Len(pairs)
        <4>1. DOMAIN pairs = 1 .. Len(pairs)
          BY DEF PairsSound
        <4>2. QED
          BY <1>1, <4>1
      <3>2. pairs[i].lo \in Int /\ pairs[k].lo \in Int /\ pairs[j - 1].lo \in Int /\ r.lo \in Int
        <4>1. pairs[i].lo \in Codes /\ pairs[k].lo \in Codes /\ pairs[j - 1].lo \in Codes /\ r.lo \in Codes
          BY <3>1, OnePair
        <4>2. \A c \in Codes : c \in Int
          BY DEF Codes
        <4>3. QED
          BY <4>1, <4>2
      <3>3. i < k => pairs[i].lo < pairs[k].lo
        BY <3>1 DEF PairsSound
      <3>4. k < j - 1 => pairs[k].lo < pairs[j - 1].lo
        BY <3>1 DEF PairsSound
      <3>5. QED
        BY <3>2, <3>3, <3>4
    <2>3. \A k \in 1 .. j - 1 : k \in 1 .. i - 1 \/ k \in i .. j - 1
      BY <1>1
    <2>4. table'[n].lo = r.lo /\ table'[n].hi = r.hi /\ n \in 1 .. n
      BY <1>3
    <2>5. ASSUME NEW k \in 1 .. j - 1
          PROVE  \E q \in 1 .. n : table'[q].lo <= pairs[k].lo /\ pairs[k].lo <= table'[q].hi
      <3>1. CASE k \in i .. j - 1
        BY <2>2, <2>4, <3>1
      <3>2. CASE k \in 1 .. i - 1
        <4>1. PICK q \in 1 .. n - 1 : table[q].lo <= pairs[k].lo /\ pairs[k].lo <= table[q].hi
          BY <2>1, <3>2
        <4>2. table'[q] = table[q] /\ q \in 1 .. n
          BY <1>3
        <4>3. QED
          BY <4>1, <4>2
      <3>3. QED
        BY <2>3, <3>1, <3>2
    <2>6. QED
      BY <2>5
  <1>8. \A c : Mapped(c)' = Mapped(c)
    BY <1>1 DEF Mapped
  <1>9. RangesSound'
    BY <1>1, <1>3, <1>4, <1>5, <1>6, <1>7, <1>8 DEF RangesSound, InRange
  <1>10. QED
    BY <1>2, <1>9

\* An alternating range holds the uppercase codes too; none of them is a
\* lowercase code of an earlier pair, and toUpper leaves them as they are.
LEMMA EndAlternatingSound ==
    ASSUME PairsSound, RunSound, RangesSound, Clean(base), EndAlternating
    PROVE  (PairsSound /\ RunSound /\ RangesSound)'
  <1> DEFINE lo == pairs[i].up
             hi == pairs[j - 1].lo
             r == [lo |-> lo, hi |-> hi, delta |-> UpperLower]
  <1>1. /\ i \in 1 .. Len(pairs) /\ j \in i + 1 .. Len(pairs) + 1 /\ Len(pairs) \in Nat /\ stage = "alternating"
        /\ AddRange(r)
    BY DEF EndAlternating, RunSound, PairsSound
  <1>2. /\ i \in Int /\ j \in Int /\ j - 1 \in 1 .. Len(pairs) /\ j - 1 \in i .. j - 1 /\ i \in i .. j - 1
        /\ \A k \in i .. j - 1 : k \in 1 .. Len(pairs)
    BY <1>1
  <1>3. \A k \in i .. j - 1 : /\ pairs[k].lo = pairs[i].lo + 2 * (k - i)
                             /\ pairs[k].up = pairs[k].lo - 1
    BY <1>1 DEF RunSound
  <1>4. lo \in Codes /\ hi \in Codes /\ pairs[i].lo \in Codes
    BY <1>1, <1>2, OnePair
  <1>5. lo \in Int /\ hi \in Int /\ pairs[i].lo \in Int
    BY <1>4, CodesAssumption DEF Codes
  <1>6. pairs[i].lo = lo + 1 /\ hi = pairs[i].lo + 2 * (j - 1 - i)
    <2>1. hi = pairs[i].lo + 2 * (j - 1 - i)
      BY <1>2, <1>3
    <2>2. lo = pairs[i].lo - 1
      BY <1>2, <1>3
    <2>3. QED
      BY <1>5, <2>1, <2>2
  <1>7. UpperLower \in Codes
    BY CodesAssumption DEF UpperLower, Codes
  <1>8. r \in [lo : Codes, hi : Codes, delta : Codes]
    BY <1>4, <1>7
  <1>9. ASSUME NEW k \in 1 .. i - 1 PROVE pairs[k].lo < lo
    <2>1. k \in 1 .. Len(pairs) /\ k \in DOMAIN pairs /\ i \in DOMAIN pairs /\ k < i
      <3>1. DOMAIN pairs = 1 .. Len(pairs)
        BY DEF PairsSound
      <3>2. QED
        BY <1>1, <3>1
    <2>2. pairs[k].lo < pairs[i].lo
      BY <2>1 DEF PairsSound
    <2>3. pairs[k].lo # lo
      BY <1>1, <2>1, OnePair
    <2>4. pairs[k].lo \in Int
      <3>1. pairs[k].lo \in Codes
        BY <2>1, OnePair
      <3>2. QED
        BY <3>1, CodesAssumption DEF Codes
    <2>5. QED
      BY <1>5, <1>6, <2>2, <2>3, <2>4
  <1>10. ASSUME NEW c \in Codes, lo <= c, c <= hi PROVE UpperIn(r, c) = Mapped(c)
    <2> DEFINE m == (c - lo) \div 2
    <2>1. c \in Int
      BY CodesAssumption DEF Codes
    <2>2. m \in Int /\ (c - lo = 2 * m \/ c - lo = 2 * m + 1)
      BY <1>5, <2>1
    <2>3. i + m \in i .. j - 1
      <3>1. \A a, b, d, k, l, n \in Int :
                a <= d /\ d <= b /\ b = (a + 1) + 2 * (l - 1 - k) /\ (d - a = 2 * n \/ d - a = 2 * n + 1)
                    => k + n \in k .. l - 1
        OBVIOUS
      <3>2. hi = (lo + 1) + 2 * (j - 1 - i)
        BY <1>6
      <3> HIDE DEF lo, hi, m
      <3>3. QED
        BY <1>2, <1>5, <1>10, <2>1, <2>2, <3>1, <3>2
    <2>4. pairs[i + m].lo = lo + 1 + 2 * m /\ pairs[i + m].up = lo + 2 * m
      <3> DEFINE k == i + m
      <3>1. k \in i .. j - 1
        BY <2>3
      <3> HIDE DEF lo, hi, m
      <3>2. k - i = m /\ k \in Int
        BY <1>2, <2>2
      <3> HIDE DEF k
      <3>3. pairs[k].lo = pairs[i].lo + 2 * (k - i) /\ pairs[k].up = pairs[k].lo - 1
        BY <1>3, <3>1
      <3>4. pairs[k].lo = lo + 1 + 2 * m /\ pairs[k].up = lo + 2 * m
        BY <1>5, <1>6, <2>2, <3>2, <3>3
      <3>5. QED
        BY <3>4 DEF k
    <2>5. i + m \in 1 .. Len(pairs)
      BY <1>2, <2>3
    <2>6. Mapped(lo + 1 + 2 * m) = lo + 2 * m /\ Mapped(lo + 2 * m) = lo + 2 * m
      <3>1. Mapped(pairs[i + m].lo) = pairs[i + m].up /\ Mapped(pairs[i + m].up) = pairs[i + m].up
        BY <2>5, OnePair
      <3> HIDE DEF lo, m
      <3>2. QED
        BY <2>4, <3>1
    <2>7. UpperIn(r, c) = lo + m * 2
      BY DEF UpperIn
    <2> HIDE DEF lo, hi, m, r
    <2>8. c = lo + 2 * m \/ c = lo + 1 + 2 * m
      BY <1>5, <2>1, <2>2
    <2>9. m * 2 = 2 * m
      BY <2>2
    <2>10. QED
      BY <2>6, <2>7, <2>8, <2>9
  <1>11. r.hi = pairs[j - 1].lo /\ r.lo = lo /\ r.lo <= pairs[i].lo
    BY <1>5, <1>6
  <1>12. \A k \in 1 .. i - 1 : pairs[k].lo < r.lo
    BY <1>9
  <1>13. \A c \in Codes : r.lo <= c /\ c <= r.hi => UpperIn(r, c) = Mapped(c)
    BY <1>10
  <1> HIDE DEF r
  <1>14. QED
    BY <1>1, <1>8, <1>11, <1>12, <1>13, RangeAdded

\* In a constant range every code is the lowercase one of a pair.
LEMMA EndConstantSound ==
    ASSUME PairsSound, RunSound, RangesSound, Clean(base), EndConstant
    PROVE  (PairsSound /\ RunSound /\ RangesSound)'
  <1> DEFINE lo == pairs[i].lo
             up == pairs[i].up
             hi == pairs[j - 1].lo
             r == [lo |-> lo, hi |-> hi, delta |-> Wrap(up - lo)]
  <1>1. /\ i \in 1 .. Len(pairs) /\ j \in i + 1 .. Len(pairs) + 1 /\ Len(pairs) \in Nat /\ stage = "constant"
        /\ AddRange(r)
    BY DEF EndConstant, RunSound, PairsSound
  <1>2. /\ i \in Int /\ j \in Int /\ j - 1 \in 1 .. Len(pairs) /\ j - 1 \in i .. j - 1
        /\ \A k \in i .. j - 1 : k \in 1 .. Len(pairs)
    BY <1>1
  <1>3. \A k \in i .. j - 1 : pairs[k].lo = lo + (k - i) /\ pairs[k].up - pairs[k].lo = up - lo
    BY <1>1 DEF RunSound
  <1>4. lo \in Codes /\ hi \in Codes /\ up \in Codes /\ Wrap(up - lo) # UpperLower
    BY <1>1, <1>2, OnePair
  <1>5. lo \in Int /\ hi \in Int /\ up \in Int
    BY <1>4, CodesAssumption DEF Codes
  <1>6. hi = lo + (j - 1 - i)
    BY <1>2, <1>3
  <1>7. Wrap(up - lo) \in Codes
    BY <1>4, <1>5, WrapDelta
  <1>8. r \in [lo : Codes, hi : Codes, delta : Codes]
    BY <1>4, <1>7
  <1>9. ASSUME NEW k \in 1 .. i - 1 PROVE pairs[k].lo < lo
    <2>1. DOMAIN pairs = 1 .. Len(pairs)
      BY DEF PairsSound
    <2>2. k \in DOMAIN pairs /\ i \in DOMAIN pairs /\ k < i
      BY <1>1, <2>1
    <2>3. QED
      BY <2>2 DEF PairsSound
  <1>10. ASSUME NEW c \in Codes, lo <= c, c <= hi PROVE UpperIn(r, c) = Mapped(c)
    <2> DEFINE k == i + (c - lo)
    <2>1. c \in Int
      BY CodesAssumption DEF Codes
    <2>2. k \in i .. j - 1 /\ k \in Int /\ k - i = c - lo
      <3> HIDE DEF lo, hi
      <3>1. QED
        BY <1>2, <1>5, <1>6, <1>10, <2>1
    <2>3. k \in 1 .. Len(pairs)
      BY <1>2, <2>2
    <2> HIDE DEF k
    <2>4. pairs[k].lo = c /\ pairs[k].up - c = up - lo
      <3>1. pairs[k].lo = lo + (k - i) /\ pairs[k].up - pairs[k].lo = up - lo
        BY <1>3, <2>2
      <3> HIDE DEF lo, up
      <3>2. QED
        BY <1>5, <2>1, <2>2, <3>1
    <2>5. Mapped(c) = pairs[k].up /\ pairs[k].up \in Codes
      BY <2>3, <2>4, OnePair
    <2>6. UpperIn(r, c) = Wrap(c + Wrap(up - lo))
      BY <1>4 DEF UpperIn
    <2>7. Wrap(c + Wrap(up - lo)) = pairs[k].up
      BY <1>4, <2>4, <2>5, WrapDelta
    <2>8. QED
      BY <2>5, <2>6, <2>7
  <1>11. r.hi = pairs[j - 1].lo /\ r.lo = lo /\ r.lo <= pairs[i].lo
    BY <1>5
  <1>12. \A k \in 1 .. i - 1 : pairs[k].lo < r.lo
    BY <1>9
  <1>13. \A c \in Codes : r.lo <= c /\ c <= r.hi => UpperIn(r, c) = Mapped(c)
    BY <1>10
  <1> HIDE DEF r
  <1>14. QED
    BY <1>1, <1>8, <1>11, <1>12, <1>13, RangeAdded

\* When no pair is left, every pair is in a range.
LEMMA EmitSound ==
    ASSUME PairsSound, RunSound, RangesSound, Clean(base), Emit
    PROVE  (PairsSound /\ RunSound /\ RangesSound)'
  <1>1. PairsSound' /\ RangesSound'
    BY DEF Emit, PairsSound, RangesSound, InRange, Mapped
  <1>2. Len(pairs) \in Nat
    BY DEF PairsSound
  <1>3. RunSound'
    BY <1>2 DEF Emit, RunSound
  <1>4. QED
    BY <1>1, <1>3

\* The invariant holds in every reachable state.
LEMMA NamesInvHolds == Spec => []NamesInv
  <1>1. Init => NamesInv
    BY DEF Init, NamesInv
  <1>2. NamesInv /\ [Next]_vars => NamesInv'
    <2> SUFFICES ASSUME NamesInv, [Next]_vars
                 PROVE  NamesInv'
      OBVIOUS
    <2>1. CASE Apply
      BY <2>1 DEF Apply, NamesInv
    <2>2. CASE SortPairs
      <3>1. Clean(base)' => Clean(base)
        BY <2>2 DEF SortPairs
      <3>2. stage' = "compress"
        BY <2>2 DEF SortPairs
      <3>3. QED
        BY <2>2, <3>1, <3>2, SortedSound DEF NamesInv
    <2> DEFINE Compressing == Start \/ Extend \/ EndAlternating \/ TryConstant \/ EndConstant \/ Emit
    <2>3. CASE Compressing
      <3>1. base' = base /\ stage # "apply" /\ stage' \in {"compress", "alternating", "constant", "done"}
        BY <2>3 DEF Start, Extend, EndAlternating, TryConstant, EndConstant, Emit, AddRange
      <3>2. Clean(base)' => Clean(base)
        BY <3>1
      <3>3. Clean(base) => PairsSound /\ RunSound /\ RangesSound
        BY <3>1 DEF NamesInv
      <3>4. Clean(base) => (PairsSound /\ RunSound /\ RangesSound)'
        BY <2>3, <3>3, StartSound, ExtendSound, EndAlternatingSound, TryConstantSound, EndConstantSound, EmitSound
      <3>5. QED
        BY <3>1, <3>2, <3>4 DEF NamesInv
    <2>4. CASE UNCHANGED vars
      BY <2>4 DEF vars, NamesInv, PairsSound, RunSound, RangesSound, InRange, Mapped
    <2>5. QED
      BY <2>1, <2>2, <2>3, <2>4 DEF Next
  <1>3. QED
    BY <1>1, <1>2, PTL DEF Spec

\* With the ranges complete, the search finds the one that holds a code, if any.
LEMMA RangesAnswer ==
    ASSUME NamesInv, Clean(base), stage = "done", NEW c \in Codes
    PROVE  ToUpper(c) = Mapped(c)
  <1>1. PairsSound /\ RunSound /\ RangesSound
    BY DEF NamesInv
  <1>2. table \in Seq([lo : Codes, hi : Codes, delta : Codes])
    BY <1>1 DEF RangesSound
  <1>3. CASE c < AsciiEnd
    <2>1. c \in 0 .. AsciiEnd - 1
      BY <1>3, CodesAssumption DEF Codes
    <2>2. QED
      BY <1>3, <2>1 DEF Clean, ToUpper, Mapped
  <1>4. CASE ~(c < AsciiEnd) /\ c \in Surrogates
    BY <1>4 DEF Clean, ToUpper, Mapped
  <1>5. ASSUME ~(c < AsciiEnd), c \notin Surrogates, NEW r \in DOMAIN table, InRange(r, c)
        PROVE  ToUpper(c) = Mapped(c)
    <2>1. /\ \A q \in DOMAIN table : table[q].lo \in Codes /\ table[q].hi \in Codes
          /\ DOMAIN table = 1 .. Len(table) /\ Len(table) \in Nat
      <3>1. DOMAIN table = 1 .. Len(table) /\ Len(table) \in Nat
        BY <1>2, Elements
      <3>2. \A q \in DOMAIN table : table[q] \in [lo : Codes, hi : Codes, delta : Codes]
        BY <1>2, Elements
      <3>3. QED
        BY <3>1, <3>2
    <2>2. \A q \in DOMAIN table : table[q].lo \in Int /\ table[q].hi \in Int
      BY <2>1, CodesAssumption DEF Codes
    <2>3. c \in Int /\ r \in Int
      BY <2>1, CodesAssumption DEF Codes
    <2>4. table[r].lo <= c /\ c <= table[r].hi
      BY <1>5 DEF InRange
    <2>5. \A q \in 1 .. r - 1 : table[q].hi < c
      <3>1. \A q \in 1 .. r - 1 : q \in DOMAIN table /\ q < r
        BY <2>1
      <3>2. \A q \in 1 .. r - 1 : table[q].hi < table[r].lo
        BY <1>1, <3>1 DEF RangesSound
      <3>3. QED
        BY <2>2, <2>3, <2>4, <3>1, <3>2
    <2>6. r \in Found(c)
      BY <2>4, <2>5 DEF Found
    <2>7. \A q \in Found(c) : q = r
      <3> SUFFICES ASSUME NEW q \in Found(c) PROVE q = r
        OBVIOUS
      <3>1. q \in DOMAIN table /\ c <= table[q].hi /\ \A p \in 1 .. q - 1 : table[p].hi < c
        BY DEF Found
      <3>2. ~(q \in 1 .. r - 1)
        BY <2>2, <2>3, <2>5, <3>1
      <3>3. ~(r \in 1 .. q - 1)
        BY <2>2, <2>3, <2>4, <3>1
      <3>4. QED
        BY <2>1, <3>1, <3>2, <3>3
    <2>8. (CHOOSE q \in Found(c) : TRUE) = r
      BY <2>6, <2>7
    <2>9. ~(\A q \in Found(c) : c < table[q].lo)
      BY <2>2, <2>3, <2>4, <2>6
    <2>10. ToUpper(c) = UpperIn(table[r], c)
      BY <1>5, <2>8, <2>9 DEF ToUpper
    <2>11. QED
      BY <1>1, <1>5, <2>10 DEF RangesSound
  <1>6. ASSUME ~(c < AsciiEnd), c \notin Surrogates, \A r \in DOMAIN table : ~InRange(r, c)
        PROVE  ToUpper(c) = Mapped(c)
    <2>1. \A r \in DOMAIN table : table[r].lo \in Codes /\ table[r].hi \in Codes
      <3>1. \A r \in DOMAIN table : table[r] \in [lo : Codes, hi : Codes, delta : Codes]
        BY <1>2, Elements
      <3>2. QED
        BY <3>1
    <2>2. c \in Int /\ \A r \in DOMAIN table : table[r].lo \in Int /\ table[r].hi \in Int
      BY <2>1, CodesAssumption DEF Codes
    <2>3. \A r \in Found(c) : c < table[r].lo
      BY <1>6, <2>2 DEF Found, InRange
    <2>4. ToUpper(c) = c
      BY <1>6, <2>3 DEF ToUpper
    <2>5. c \notin DOMAIN base
      <3> SUFFICES ASSUME c \in DOMAIN base PROVE FALSE
        OBVIOUS
      <3>1. PICK k \in DOMAIN pairs : pairs[k].lo = c
        BY <1>1 DEF PairsSound
      <3>2. k \in 1 .. i - 1
        BY <1>1, <3>1 DEF PairsSound, RunSound
      <3>3. QED
        BY <1>1, <1>6, <3>1, <3>2 DEF RangesSound
    <2>6. QED
      BY <2>4, <2>5 DEF Mapped
  <1>7. QED
    BY <1>3, <1>4, <1>5, <1>6

\* For any number of codes and every folding whose map, with the exceptions, is
\* clean, toUpper gives for every code what that map gives, once the table is made.
THEOREM TableIsRight == Spec => [](Clean(base) => LooksUp)
  <1>1. NamesInv => (Clean(base) => LooksUp)
    BY RangesAnswer DEF LooksUp
  <1>3. QED
    BY <1>1, NamesInvHolds, PTL
=============================================================================
