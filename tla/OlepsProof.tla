----------------------------- MODULE OlepsProof -----------------------------
(***************************************************************************)
(* Package oleps, for every list of properties, any code pages, bytes of   *)
(* any size and any damage to the stream between Marshal and Unmarshal:    *)
(* Unmarshal never reaches outside the set, and Marshal refuses what it    *)
(* returned for two kinds of values only; a stream that nobody touched is  *)
(* read back as it was written, and one that is cut off is refused as one  *)
(* that ends too early.                                                    *)
(*                                                                         *)
(* Two invariants are inductive. OlepsInv says what is written of the      *)
(* stream so far and what the checks have established of it, whoever made  *)
(* it; ReadInv, over it, what is left of Marshal's stream and that each    *)
(* value decoded from it is the one that was encoded.                      *)
(***************************************************************************)
EXTENDS Oleps, SequenceLemmas, TLAPS

-----------------------------------------------------------------------------
(* Numbers, and the bytes they are written with                             *)

\* w has the powers of Base.
Powers(w) == w = [n \in 0 .. 8 |-> IF n = 0 THEN 1 ELSE Base * w[n - 1]]

\* The powers of Base, one from the other.
LEMMA PowerIs ==
    /\ Power[0] = 1
    /\ \A n \in 1 .. 8 : Power[n] = Base * Power[n - 1]
  <1> DEFINE p1 == Base
             p2 == Base * p1
             p3 == Base * p2
             p4 == Base * p3
             p5 == Base * p4
             p6 == Base * p5
             p7 == Base * p6
             p8 == Base * p7
             w == [n \in 0 .. 8 |-> IF n = 0 THEN 1 ELSE IF n = 1 THEN p1 ELSE IF n = 2 THEN p2
                      ELSE IF n = 3 THEN p3 ELSE IF n = 4 THEN p4 ELSE IF n = 5 THEN p5
                      ELSE IF n = 6 THEN p6 ELSE IF n = 7 THEN p7 ELSE p8]
  <1>1. p1 = Base * 1
    BY OlepsAssumption
  <1>2. p2 = Base * p1 /\ p3 = Base * p2 /\ p4 = Base * p3 /\ p5 = Base * p4 /\ p6 = Base * p5
        /\ p7 = Base * p6 /\ p8 = Base * p7
    OBVIOUS
  <1> HIDE DEF p1, p2, p3, p4, p5, p6, p7, p8
  <1>3. Powers(w)
    BY <1>1, <1>2 DEF Powers
  <1> HIDE DEF w
  <1>4. Powers(Power)
    BY <1>3, Zenon DEF Powers, Power
  <1>5. QED
    BY <1>4 DEF Powers

\* A product of numbers that are not 0.
LEMMA Product ==
    ASSUME NEW a \in Nat \ {0}, NEW b \in Nat \ {0}
    PROVE  a * b \in Nat \ {0}
  OBVIOUS

\* They are positive.
LEMMA PowerType == \A n \in 0 .. 8 : Power[n] \in Nat \ {0}
  <1>1. Base \in Nat \ {0}
    BY OlepsAssumption
  <1>2. ASSUME NEW n \in 1 .. 8, Power[n - 1] \in Nat \ {0} PROVE Power[n] \in Nat \ {0}
    BY <1>1, <1>2, PowerIs, Product
  <1>3. Power[0] \in Nat \ {0}
    BY PowerIs
  <1>4. Power[1] \in Nat \ {0}
    BY <1>2, <1>3
  <1>5. Power[2] \in Nat \ {0}
    BY <1>2, <1>4
  <1>6. Power[3] \in Nat \ {0}
    BY <1>2, <1>5
  <1>7. Power[4] \in Nat \ {0}
    BY <1>2, <1>6
  <1>8. Power[5] \in Nat \ {0}
    BY <1>2, <1>7
  <1>9. Power[6] \in Nat \ {0}
    BY <1>2, <1>8
  <1>10. Power[7] \in Nat \ {0}
    BY <1>2, <1>9
  <1>11. Power[8] \in Nat \ {0}
    BY <1>2, <1>10
  <1>12. QED
    BY <1>3, <1>4, <1>5, <1>6, <1>7, <1>8, <1>9, <1>10, <1>11

\* The number that the digits d make is made step by step: w has that of the first k, 0 to n.
SumStep(d, w, k) == IF k = 0 THEN 0 ELSE d[k] + Base * w[k - 1]
\* Of all of them.
Sums(d, n, w) == w = [k \in 0 .. n |-> SumStep(d, w, k)]

\* Each of the sums.
LEMMA SumsAt ==
    ASSUME NEW d, NEW n \in Nat, NEW w, Sums(d, n, w)
    PROVE  \A k \in 0 .. n : w[k] = SumStep(d, w, k)
  <1>1. TAKE k \in 0 .. n
  <1>2. PICK r : r = [j \in 0 .. n |-> SumStep(d, w, j)]
    OBVIOUS
  <1>3. w = r
    BY <1>2 DEF Sums
  <1>4. QED
    BY <1>2, <1>3

\* There are such sums.
LEMMA SumsExist ==
    ASSUME NEW d, NEW n \in Nat
    PROVE  \E w : Sums(d, n, w)
  <1> DEFINE Odd == {k \in Nat : ~\E w : Sums(d, k, w)}
  <1>1. SUFFICES ASSUME Odd # {} PROVE FALSE
    OBVIOUS
  <1>2. PICK m \in Odd : \A k \in Odd : m <= k
    BY <1>1, Least
  <1>3. m # 0
    <2> DEFINE e == [k \in 0 .. 0 |-> 0]
    <2>1. \A k \in 0 .. 0 : SumStep(d, e, k) = 0
      BY DEF SumStep
    <2>2. e = [k \in 0 .. 0 |-> SumStep(d, e, k)]
      BY <2>1
    <2>3. Sums(d, 0, e)
      BY <2>2 DEF Sums
    <2>4. QED
      BY <1>2, <2>3
  <1>4. m \in Nat /\ m - 1 \in Nat /\ ~(m <= m - 1)
    BY <1>2, <1>3
  <1>5. m - 1 \notin Odd
    BY <1>2, <1>4, Zenon
  <1>6. PICK w : Sums(d, m - 1, w)
    BY <1>4, <1>5
  <1> DEFINE g == [k \in 0 .. m |-> SumStep(d, w, k)]
  <1>7. \A k \in 0 .. m : k = 0 \/ k - 1 \in 0 .. m - 1
    BY <1>4
  <1>8. \A k \in 0 .. m - 1 : g[k] = w[k]
    <2>1. TAKE k \in 0 .. m - 1
    <2>2. w[k] = SumStep(d, w, k)
      BY <1>4, <1>6, SumsAt
    <2>3. k \in 0 .. m
      BY <1>4
    <2>4. QED
      BY <2>2, <2>3
  <1>9. ASSUME NEW k \in 0 .. m PROVE SumStep(d, w, k) = SumStep(d, g, k)
    <2>1. CASE k = 0
      BY <2>1 DEF SumStep
    <2>2. CASE k - 1 \in 0 .. m - 1
      <3> HIDE DEF g
      <3>1. g[k - 1] = w[k - 1]
        BY <1>8, <2>2, Zenon
      <3>2. QED
        BY <3>1 DEF SumStep
    <2>3. QED
      BY <1>7, <2>1, <2>2
  <1>10. Sums(d, m, g)
    BY <1>9 DEF Sums
  <1>11. QED
    BY <1>2, <1>10

\* The first n digits are the same.
SameDigits(d, e, n) == \A k \in 1 .. n : d[k] = e[k]

\* The first digits make the number, whatever follows them.
LEMMA SumsAgree ==
    ASSUME NEW d, NEW e, NEW m \in Nat, NEW n \in Nat, NEW v, Sums(d, m, v), NEW w, Sums(e, n, w),
           NEW j \in Nat, j <= m, j <= n, SameDigits(d, e, j)
    PROVE  v[j] = w[j]
  <1> DEFINE Odd == {k \in 0 .. j : v[k] # w[k]}
  <1>1. SUFFICES ASSUME Odd # {} PROVE FALSE
    OBVIOUS
  <1>2. PICK k \in Odd : \A i \in Odd : k <= i
    <2>1. Odd \subseteq Nat
      OBVIOUS
    <2>2. QED
      BY <1>1, <2>1, Least
  <1>3. k \in 0 .. j /\ v[k] # w[k]
    BY <1>2
  <1>4. v[k] = SumStep(d, v, k) /\ w[k] = SumStep(e, w, k)
    <2>1. k \in 0 .. m /\ k \in 0 .. n
      BY <1>3
    <2>2. QED
      BY <2>1, SumsAt
  <1>5. k # 0
    BY <1>3, <1>4 DEF SumStep
  <1>6. k - 1 \in 0 .. j /\ ~(k <= k - 1) /\ k \in 1 .. j
    BY <1>3, <1>5
  <1>7. v[k - 1] = w[k - 1]
    BY <1>2, <1>6
  <1>8. QED
    BY <1>3, <1>4, <1>5, <1>6, <1>7 DEF SumStep, SameDigits

\* One more digit.
LEMMA OneDigitMore ==
    ASSUME NEW p \in Nat \ {0}, NEW d \in Byte, NEW v \in 0 .. p - 1
    PROVE  d + Base * v \in 0 .. Base * p - 1
  <1>1. Base \in Nat /\ d \in Nat /\ d <= Base - 1 /\ v \in Nat
    BY OlepsAssumption DEF Byte
  <1>2. PICK r \in Nat : r = p - 1 - v
    OBVIOUS
  <1>3. Base * p = Base + Base * v + Base * r
    <2>1. p = 1 + v + r
      BY <1>1, <1>2
    <2>2. QED
      BY <1>1, <2>1
  <1>4. Base * v \in Nat /\ Base * r \in Nat
    BY <1>1, <1>2
  <1> DEFINE x == Base * v
             y == Base * r
             z == Base * p
  <1>5. x \in Nat /\ y \in Nat /\ z = Base + x + y
    BY <1>3, <1>4
  <1> HIDE DEF x, y, z
  <1>6. d + x \in 0 .. z - 1
    BY <1>1, <1>5
  <1>7. QED
    BY <1>6 DEF x, z

\* The numbers that so many digits make.
LEMMA SumsType ==
    ASSUME NEW n \in 0 .. 8, NEW d, \A k \in 1 .. n : d[k] \in Byte, NEW w, Sums(d, n, w)
    PROVE  \A k \in 0 .. n : w[k] \in 0 .. Power[k] - 1
  <1> DEFINE Odd == {k \in 0 .. n : w[k] \notin 0 .. Power[k] - 1}
  <1>1. SUFFICES ASSUME Odd # {} PROVE FALSE
    OBVIOUS
  <1>2. PICK k \in Odd : \A i \in Odd : k <= i
    <2>1. Odd \subseteq Nat
      OBVIOUS
    <2>2. QED
      BY <1>1, <2>1, Least
  <1>3. k \in 0 .. n /\ w[k] \notin 0 .. Power[k] - 1
    BY <1>2
  <1>4. w[k] = SumStep(d, w, k)
    BY <1>3, SumsAt
  <1>5. k # 0
    BY <1>3, <1>4, PowerIs DEF SumStep
  <1>6. k - 1 \in 0 .. n /\ ~(k <= k - 1) /\ k \in 1 .. n /\ k \in 1 .. 8 /\ k - 1 \in 0 .. 8
    BY <1>3, <1>5
  <1>7. w[k - 1] \in 0 .. Power[k - 1] - 1
    BY <1>2, <1>6
  <1>8. Power[k - 1] \in Nat \ {0} /\ Power[k] = Base * Power[k - 1]
    BY <1>6, PowerIs, PowerType
  <1>9. d[k] + Base * w[k - 1] \in 0 .. Power[k] - 1
    BY <1>6, <1>7, <1>8, OneDigitMore
  <1>10. QED
    BY <1>3, <1>4, <1>5, <1>9 DEF SumStep

\* The digits that UInt reads, the last byte first.
Digits(b, at, width) ==
    [k \in 1 .. width |-> IF at + width - k + 1 \in DOMAIN b THEN b[at + width - k + 1] ELSE 0]

\* UInt makes its number by these steps.
LEMMA UIntSums ==
    ASSUME NEW b, NEW at \in Nat, NEW width \in Nat
    PROVE  \E w : Sums(Digits(b, at, width), width, w) /\ UInt(b, at, width) = w[width]
  <1> DEFINE d == Digits(b, at, width)
             P(w) == w = [k \in 0 .. width |->
                            IF k = 0 THEN 0
                            ELSE LET i == at + width - k + 1
                                 IN  (IF i \in DOMAIN b THEN b[i] ELSE 0) + Base * w[k - 1]]
             high == CHOOSE w : P(w)
  <1>1. ASSUME NEW w PROVE P(w) <=> Sums(d, width, w)
    <2>1. ASSUME NEW k \in 0 .. width
          PROVE  SumStep(d, w, k) =
                   (IF k = 0 THEN 0
                    ELSE LET i == at + width - k + 1
                         IN  (IF i \in DOMAIN b THEN b[i] ELSE 0) + Base * w[k - 1])
      <3>1. CASE k = 0
        BY <3>1 DEF SumStep
      <3>2. CASE k \in 1 .. width
        BY <3>2 DEF SumStep, Digits
      <3>3. QED
        BY <3>1, <3>2
    <2> HIDE DEF d
    <2>2. QED
      BY <2>1 DEF Sums
  <1>2. PICK w : Sums(d, width, w)
    BY SumsExist
  <1>3. P(high)
    <2> HIDE DEF P, d
    <2>1. \E v : P(v)
      BY <1>1, <1>2
    <2>2. QED
      BY <2>1, Zenon
  <1>4. Sums(d, width, high)
    <2> HIDE DEF P, d, high
    <2>1. QED
      BY <1>1, <1>3
  <1>5. UInt(b, at, width) = high[width]
    BY Zenon DEF UInt
  <1>6. QED
    BY <1>4, <1>5

\* An integer of up to 8 bytes has the range of its width.
LEMMA UIntType ==
    ASSUME NEW b \in Seq(Byte), NEW at \in Nat, NEW width \in 0 .. 8
    PROVE  UInt(b, at, width) \in 0 .. Power[width] - 1
  <1>1. PICK w : Sums(Digits(b, at, width), width, w) /\ UInt(b, at, width) = w[width]
    <2>1. width \in Nat
      OBVIOUS
    <2>2. QED
      BY <2>1, UIntSums, Zenon
  <1>2. ASSUME NEW k \in 1 .. width PROVE Digits(b, at, width)[k] \in Byte
    <2>1. 0 \in Byte
      BY OlepsAssumption DEF Byte
    <2>2. \A i \in DOMAIN b : b[i] \in Byte
      OBVIOUS
    <2>3. QED
      BY <2>1, <2>2 DEF Digits
  <1> DEFINE d == Digits(b, at, width)
  <1> HIDE DEF d
  <1>3. Sums(d, width, w) /\ \A k \in 1 .. width : d[k] \in Byte
    BY <1>1, <1>2 DEF d
  <1>4. w[width] \in 0 .. Power[width] - 1
    BY <1>3, SumsType
  <1>5. QED
    BY <1>1, <1>4

\* So many bytes of a after the first i are those of b after the first j.
SameBytes(a, i, b, j, width) ==
    \A k \in 1 .. width : i + k \in DOMAIN a /\ j + k \in DOMAIN b /\ a[i + k] = b[j + k]

\* The same bytes make the same integer, wherever they lie.
LEMMA UIntSame ==
    ASSUME NEW a, NEW b, NEW i \in Nat, NEW j \in Nat, NEW width \in Nat,
           SameBytes(a, i, b, j, width)
    PROVE  UInt(a, i, width) = UInt(b, j, width)
  <1>1. PICK v : Sums(Digits(a, i, width), width, v) /\ UInt(a, i, width) = v[width]
    BY UIntSums
  <1>2. PICK w : Sums(Digits(b, j, width), width, w) /\ UInt(b, j, width) = w[width]
    BY UIntSums
  <1>3. ASSUME NEW k \in 1 .. width PROVE Digits(a, i, width)[k] = Digits(b, j, width)[k]
    <2>1. PICK m \in 1 .. width : m = width - k + 1
      OBVIOUS
    <2>2. i + width - k + 1 = i + m /\ j + width - k + 1 = j + m
      BY <2>1
    <2>3. i + m \in DOMAIN a /\ j + m \in DOMAIN b /\ a[i + m] = b[j + m]
      BY <2>1 DEF SameBytes
    <2>4. QED
      BY <2>2, <2>3 DEF Digits
  <1> DEFINE d == Digits(a, i, width)
             e == Digits(b, j, width)
  <1> HIDE DEF d, e
  <1>4. /\ Sums(d, width, v) /\ Sums(e, width, w) /\ SameDigits(d, e, width)
        /\ width <= width
    BY <1>1, <1>2, <1>3 DEF d, e, SameDigits
  <1>5. v[width] = w[width]
    <2>1. Sums(d, width, v)
      BY <1>4
    <2>2. Sums(e, width, w)
      BY <1>4
    <2>3. SameDigits(d, e, width) /\ width <= width
      BY <1>4
    <2>4. QED
      BY <2>1, <2>2, <2>3, SumsAgree
  <1>6. QED
    BY <1>1, <1>2, <1>5

\* An integer in a part of b is one in b.
LEMMA UIntSlice ==
    ASSUME NEW b \in Seq(Byte), NEW m \in Nat, NEW n \in Nat, m <= n, n <= Len(b),
           NEW at \in Nat, NEW width \in Nat, m + at + width <= n
    PROVE  UInt(SubSeq(b, m + 1, n), at, width) = UInt(b, m + at, width)
  <1> DEFINE a == SubSeq(b, m + 1, n)
  <1>1. a \in Seq(Byte) /\ Len(a) = n - m /\ \A i \in 1 .. n - m : a[i] = b[m + i]
    BY Slice
  <1> HIDE DEF a
  <1>2. DOMAIN a = 1 .. n - m /\ DOMAIN b = 1 .. Len(b) /\ Len(b) \in Nat
    BY <1>1
  <1>3. ASSUME NEW k \in 1 .. width
        PROVE  at + k \in DOMAIN a /\ m + at + k \in DOMAIN b /\ a[at + k] = b[m + at + k]
    <2>1. at + k \in 1 .. n - m /\ m + at + k \in 1 .. Len(b) /\ m + (at + k) = m + at + k
      BY <1>2
    <2>2. QED
      BY <1>1, <1>2, <2>1
  <1>4. PICK j \in Nat : j = m + at
    OBVIOUS
  <1>5. SameBytes(a, at, b, j, width)
    BY <1>3, <1>4 DEF SameBytes
  <1>6. UInt(a, at, width) = UInt(b, j, width)
    BY <1>5, UIntSame
  <1>7. QED
    BY <1>4, <1>6 DEF a

\* An integer is written with as many bytes as its width says.
LEMMA NumType ==
    ASSUME NEW n \in Int, NEW width \in 0 .. 8
    PROVE  Num(n, width) \in Seq(Byte) /\ Len(Num(n, width)) = width
  <1>1. ASSUME NEW i \in 1 .. width PROVE (n \div Power[i - 1]) % Base \in Byte
    <2>1. i - 1 \in 0 .. 8
      OBVIOUS
    <2>2. Power[i - 1] \in Nat \ {0}
      BY <2>1, PowerType
    <2>3. PICK p \in Nat \ {0} : p = Power[i - 1]
      BY <2>2
    <2>4. n \div p \in Int
      OBVIOUS
    <2>5. Base \in Nat \ {0}
      BY OlepsAssumption
    <2>6. \A x \in Int : x % Base \in 0 .. Base - 1
      BY <2>5
    <2>7. QED
      BY <2>3, <2>4, <2>6 DEF Byte
  <1>2. Num(n, width) \in [1 .. width -> Byte]
    BY <1>1 DEF Num
  <1>3. QED
    BY <1>2

\* Zeros are bytes.
LEMMA ZerosType ==
    ASSUME NEW n \in Nat
    PROVE  Zeros(n) \in Seq(Byte) /\ Len(Zeros(n)) = n /\ \A i \in 1 .. n : Zeros(n)[i] = 0
  <1>1. 0 \in Byte
    BY OlepsAssumption DEF Byte
  <1>2. QED
    BY <1>1 DEF Zeros

\* The padding is of up to three bytes.
LEMMA AlignIs ==
    ASSUME NEW b \in Seq(Byte)
    PROVE  /\ Align(b) \in Seq(Byte) /\ Len(Align(b)) % 4 = 0
           /\ Len(b) <= Len(Align(b)) /\ Len(Align(b)) < Len(b) + 4
           /\ \A i \in 1 .. Len(b) : Align(b)[i] = b[i]
  <1>1. PICK n \in Nat : n = Len(b)
    OBVIOUS
  <1>2. PICK k \in 0 .. 3 : k = (-n) % 4 /\ (n + k) % 4 = 0
    <2>1. (-n) % 4 \in 0 .. 3 /\ (n + ((-n) % 4)) % 4 = 0
      OBVIOUS
    <2>2. QED
      BY <2>1
  <1>3. PICK z \in Seq(Byte) : z = Zeros(k) /\ Len(z) = k
    BY ZerosType
  <1>4. Align(b) = Cat(b, z)
    BY <1>1, <1>2, <1>3 DEF Align, Cat
  <1>5. Cat(b, z) \in Seq(Byte) /\ Len(Cat(b, z)) = n + k /\ \A i \in 1 .. n : Cat(b, z)[i] = b[i]
    BY <1>1, <1>3, CatType, CatFirst
  <1>6. QED
    BY <1>1, <1>2, <1>4, <1>5

\* Bytes that are patched in stay within.
LEMMA PatchIs ==
    ASSUME NEW b \in Seq(Byte), NEW at \in Nat, NEW p \in Seq(Byte), at + Len(p) <= Len(b)
    PROVE  /\ Patch(b, at, p) \in Seq(Byte) /\ Len(Patch(b, at, p)) = Len(b)
           /\ \A i \in 1 .. Len(p) : Patch(b, at, p)[at + i] = p[i]
           /\ \A i \in 1 .. Len(b) : i <= at \/ i > at + Len(p) => Patch(b, at, p)[i] = b[i]
  <1>1. PICK n, m \in Nat : n = Len(p) /\ m = Len(b)
    OBVIOUS
  <1> DEFINE x == SubSeq(b, 0 + 1, at)
             y == SubSeq(b, at + n + 1, m)
  <1>2. x \in Seq(Byte) /\ Len(x) = at /\ \A i \in 1 .. at : x[i] = b[i]
    <2>1. 0 \in Nat /\ 0 <= at /\ at <= Len(b)
      BY <1>1
    <2>2. /\ x \in Seq(Byte) /\ Len(x) = at - 0 /\ \A i \in 1 .. at - 0 : x[i] = b[0 + i]
      BY <2>1, Slice
    <2> HIDE DEF x
    <2>3. QED
      BY <2>2
  <1>3. y \in Seq(Byte) /\ Len(y) = m - (at + n) /\ \A i \in 1 .. m - (at + n) : y[i] = b[at + n + i]
    <2>1. PICK a \in Nat : a = at + n /\ a <= m
      BY <1>1
    <2>2. SubSeq(b, a + 1, m) \in Seq(Byte) /\ Len(SubSeq(b, a + 1, m)) = m - a
          /\ \A i \in 1 .. m - a : SubSeq(b, a + 1, m)[i] = b[a + i]
      BY <1>1, <2>1, Slice
    <2>3. QED
      BY <2>1, <2>2
  <1>4. Patch(b, at, p) = Cat(Cat(x, p), y)
    BY <1>1 DEF Patch, Cat
  <1> HIDE DEF x, y
  <1>5. PICK u \in Seq(Byte) : u = Cat(x, p)
    BY <1>2, CatType
  <1>6. /\ Len(u) = at + n /\ \A i \in 1 .. at : u[i] = x[i]
        /\ \A i \in 1 .. n : u[at + i] = p[i]
    <2>1. Len(u) = Len(x) + Len(p)
      BY <1>2, <1>5, CatType
    <2>2. ASSUME NEW i \in 1 .. Len(x) PROVE Cat(x, p)[i] = x[i]
      BY <1>2, CatFirst
    <2>3. ASSUME NEW i \in 1 .. Len(p) PROVE Cat(x, p)[Len(x) + i] = p[i]
      <3>1. x \in Seq(Byte)
        BY <1>2
      <3>2. QED
        BY <3>1, CatSecond
    <2>4. QED
      BY <1>1, <1>2, <1>5, <2>1, <2>2, <2>3, Zenon
  <1>7. PICK v \in Seq(Byte) : v = Cat(u, y)
    BY <1>3, <1>5, CatType
  <1>8. /\ Len(v) = m /\ \A i \in 1 .. at + n : v[i] = u[i]
        /\ \A i \in 1 .. m - (at + n) : v[at + n + i] = y[i]
    <2>1. Len(v) = Len(u) + Len(y)
      BY <1>3, <1>7, CatType
    <2>2. ASSUME NEW i \in 1 .. Len(u) PROVE Cat(u, y)[i] = u[i]
      BY <1>3, CatFirst
    <2>3. ASSUME NEW i \in 1 .. Len(y) PROVE Cat(u, y)[Len(u) + i] = y[i]
      <3>1. u \in Seq(Byte) /\ y \in Seq(Byte)
        BY <1>3, <1>5
      <3>2. QED
        BY <3>1, CatSecond
    <2>4. Len(v) = m
      BY <1>1, <1>3, <1>6, <2>1
    <2>5. QED
      BY <1>3, <1>6, <1>7, <2>2, <2>3, <2>4, Zenon
  <1>9. v = Patch(b, at, p)
    BY <1>4, <1>5, <1>7
  <1>10. ASSUME NEW i \in 1 .. n PROVE v[at + i] = p[i]
    <2>1. PICK j \in 1 .. at + n : j = at + i
      BY <1>1
    <2>2. v[j] = u[j] /\ u[at + i] = p[i]
      BY <1>6, <1>8
    <2>3. QED
      BY <2>1, <2>2, Zenon
  <1>11. ASSUME NEW i \in 1 .. m, i <= at PROVE v[i] = b[i]
    <2>1. i \in 1 .. at /\ i \in 1 .. at + n
      BY <1>11
    <2>2. QED
      BY <1>2, <1>6, <1>8, <2>1
  <1>12. ASSUME NEW i \in 1 .. m, i > at + n PROVE v[i] = b[i]
    <2>1. PICK j \in 1 .. m - (at + n) : i = at + n + j
      <3>1. i - (at + n) \in 1 .. m - (at + n) /\ i = at + n + (i - (at + n))
        BY <1>12
      <3>2. QED
        BY <3>1
    <2>2. QED
      BY <1>3, <1>8, <2>1
  <1>13. QED
    BY <1>1, <1>8, <1>9, <1>10, <1>11, <1>12

-----------------------------------------------------------------------------
(* What the checks of Unmarshal establish                                   *)

\* What First returns.
LEMMA FirstIs ==
    ASSUME NEW S, S \subseteq Nat \ {0}
    PROVE  /\ First(S) = 0 <=> S = {}
           /\ S # {} => First(S) \in S /\ \A k \in S : First(S) <= k
  <1>1. CASE S = {}
    BY <1>1 DEF First
  <1>2. CASE S # {}
    <2>1. \E m \in S : \A k \in S : m <= k
      <3>1. S \subseteq Nat
        OBVIOUS
      <3>2. QED
        BY <1>2, <3>1, Least
    <2>2. Min(S) \in S /\ \A k \in S : Min(S) <= k
      BY <2>1, Zenon DEF Min
    <2>3. First(S) = Min(S)
      BY <1>2 DEF First
    <2>4. QED
      BY <1>2, <2>2, <2>3
  <1>3. QED
    BY <1>1, <1>2

\* A stream that has passed the checks of the header.
Passed(b) ==
    /\ Len(b) >= SetOff
    /\ UInt(b, 0, 2) = byteOrder
    /\ UInt(b, 2, 2) <= 1
    /\ UInt(b, 44, 4) >= SetOff
    /\ UInt(b, 44, 4) <= Len(b)

\* How a list of checks ends: no error if none fails, or what the first that fails says.
LEMMA FirstOfIs ==
    ASSUME NEW checks, NEW n \in Nat, DOMAIN checks = 1 .. n
    PROVE  \/ FirstOf(checks) = "none" /\ \A j \in 1 .. n : ~ checks[j][1]
           \/ \E j \in 1 .. n : /\ FirstOf(checks) = checks[j][2] /\ checks[j][1]
                               /\ \A k \in 1 .. j - 1 : ~ checks[k][1]
  <1> DEFINE S == {j \in DOMAIN checks : checks[j][1]}
             i == First(S)
  <1>1. S \subseteq Nat \ {0} /\ FirstOf(checks) = IF i = 0 THEN "none" ELSE checks[i][2]
    BY DEF FirstOf
  <1>2. CASE S = {}
    <2>1. i = 0
      BY <1>1, <1>2, FirstIs
    <2>2. FirstOf(checks) = "none"
      BY <1>1, <2>1
    <2>3. \A j \in 1 .. n : ~ checks[j][1]
      BY <1>2
    <2>4. QED
      BY <2>2, <2>3
  <1>3. CASE S # {}
    <2>1. i \in S /\ \A k \in S : i <= k
      BY <1>1, <1>3, FirstIs
    <2> HIDE DEF i
    <2>2. i \in 1 .. n /\ checks[i][1]
      BY <2>1
    <2>3. FirstOf(checks) = checks[i][2]
      BY <1>1, <2>2
    <2>4. ASSUME NEW k \in 1 .. i - 1 PROVE ~ checks[k][1]
      <3>1. k \in 1 .. n /\ ~(i <= k)
        BY <2>2
      <3>2. QED
        BY <2>1, <3>1
    <2>5. QED
      BY <2>2, <2>3, <2>4
  <1>4. QED
    BY <1>2, <1>3

\* The checks of the header, in their order.
HeaderChecks(b) ==
    << <<Len(b) < 2,                                "eof">>,
               <<UInt(b, 0, 2) # byteOrder,                  "invalid">>,
               <<Len(b) < 28,                               "eof">>,
               <<UInt(b, 2, 2) > 1 \/ UInt(b, 24, 4) # 1,     "invalid">>,
               <<Len(b) < SetOff,                           "eof">>,
               <<UInt(b, 44, 4) < SetOff,                    "invalid">>,
               <<UInt(b, 44, 4) > Len(b),                    "eof">> >>

\* When UnmarshalHeader finds no error, it has passed them.
LEMMA HeaderPassed ==
    ASSUME NEW b \in Seq(Byte), HeaderError(b) = "none"
    PROVE  Passed(b)
  <1> DEFINE checks == HeaderChecks(b)
  <1>1. DOMAIN checks = 1 .. 7 /\ HeaderError(b) = FirstOf(checks)
    BY DEF HeaderChecks, HeaderError
  <1>2. \A j \in 1 .. 7 : checks[j][2] # "none"
    BY DEF HeaderChecks
  <1>3. \A j \in 1 .. 7 : ~ checks[j][1]
    <2> HIDE DEF checks
    <2>1. QED
      BY <1>1, <1>2, FirstOfIs
  <1>4. /\ checks[2][1] <=> UInt(b, 0, 2) # byteOrder
        /\ checks[4][1] <=> UInt(b, 2, 2) > 1 \/ UInt(b, 24, 4) # 1
        /\ checks[5][1] <=> Len(b) < SetOff
        /\ checks[6][1] <=> UInt(b, 44, 4) < SetOff
        /\ checks[7][1] <=> UInt(b, 44, 4) > Len(b)
    BY DEF HeaderChecks
  <1> HIDE DEF checks
  <1>5. ~(UInt(b, 0, 2) # byteOrder) /\ ~(UInt(b, 2, 2) > 1 \/ UInt(b, 24, 4) # 1) /\ ~(Len(b) < SetOff)
        /\ ~(UInt(b, 44, 4) < SetOff) /\ ~(UInt(b, 44, 4) > Len(b))
    <2>1. \A j \in {2, 4, 5, 6, 7} : j \in 1 .. 7
      OBVIOUS
    <2>2. QED
      BY <1>3, <1>4, <2>1, Zenon
  <1>6. UInt(b, 2, 2) \in Nat /\ UInt(b, 44, 4) \in Nat
    <2>1. \A width \in 0 .. 8 : 0 .. Power[width] - 1 \subseteq Nat
      BY PowerType
    <2>2. 2 \in 0 .. 8 /\ 4 \in 0 .. 8 /\ 44 \in Nat /\ 2 \in Nat
      OBVIOUS
    <2>3. UInt(b, 2, 2) \in 0 .. Power[2] - 1 /\ UInt(b, 44, 4) \in 0 .. Power[4] - 1
      BY <2>2, UIntType
    <2>4. QED
      BY <2>1, <2>2, <2>3
  <1>7. QED
    BY <1>5, <1>6 DEF Passed, SetOff

\* An integer is a number below the power of its width.
LEMMA UIntNat ==
    ASSUME NEW b \in Seq(Byte), NEW at \in Nat, NEW width \in 1 .. 8
    PROVE  UInt(b, at, width) \in Nat /\ UInt(b, at, width) < Power[width]
  <1>1. width \in 0 .. 8
    OBVIOUS
  <1>2. UInt(b, at, width) \in 0 .. Power[width] - 1
    BY <1>1, UIntType
  <1>3. Power[width] \in Nat
    BY <1>1, PowerType
  <1>4. QED
    BY <1>2, <1>3

\* The checks of SizeError.
SizeChecks(s) ==
    << <<Len(s) < 8,                              "eof">>,
               <<UInt(s, 0, 4) > Len(s),                   "eof">>,
               <<UInt(s, 0, 4) < 8 + 8 * NumProps(s),      "invalid">> >>

\* A set that has passed them has room for the table it announces.
LEMMA SizePassed ==
    ASSUME NEW s \in Seq(Byte), SizeError(s) = "none"
    PROVE  /\ Len(s) >= 8 /\ UInt(s, 0, 4) <= Len(s)
           /\ UInt(s, 0, 4) >= 8 + 8 * NumProps(s)
           /\ UInt(s, 0, 4) \in Nat /\ NumProps(s) \in Nat
  <1> DEFINE checks == SizeChecks(s)
  <1>1. DOMAIN checks = 1 .. 3 /\ SizeError(s) = FirstOf(checks)
    BY DEF SizeChecks, SizeError
  <1>2. \A j \in 1 .. 3 : checks[j][2] # "none"
    BY DEF SizeChecks
  <1>3. /\ checks[1][1] <=> Len(s) < 8
        /\ checks[2][1] <=> UInt(s, 0, 4) > Len(s)
        /\ checks[3][1] <=> UInt(s, 0, 4) < 8 + 8 * NumProps(s)
    BY DEF SizeChecks
  <1> HIDE DEF checks
  <1>4. \A j \in 1 .. 3 : ~ checks[j][1]
    BY <1>1, <1>2, FirstOfIs
  <1>5. ~(Len(s) < 8) /\ ~(UInt(s, 0, 4) > Len(s)) /\ ~(UInt(s, 0, 4) < 8 + 8 * NumProps(s))
    <2>1. \A j \in {1, 2, 3} : j \in 1 .. 3
      OBVIOUS
    <2>2. QED
      BY <1>3, <1>4, <2>1, Zenon
  <1>6. UInt(s, 0, 4) \in Nat /\ UInt(s, 4, 4) \in Nat
    BY UIntNat
  <1>7. QED
    BY <1>5, <1>6 DEF NumProps

\* A set's table ends within it, and its size is a 32-bit number.
TableFits(s) == /\ NumProps(s) \in Nat /\ 8 + 8 * NumProps(s) <= Len(s)
                /\ Len(s) < U32 /\ U32 \in Nat

\* So does the set, cut to the size it announces.
LEMMA WholeFits ==
    ASSUME NEW s \in Seq(Byte), SizeError(s) = "none"
    PROVE  /\ SubSeq(s, 1, UInt(s, 0, 4)) \in Seq(Byte)
           /\ TableFits(SubSeq(s, 1, UInt(s, 0, 4)))
  <1>1. PICK n \in Nat : n = UInt(s, 0, 4)
    BY SizePassed
  <1>2. n <= Len(s) /\ n >= 8 + 8 * NumProps(s) /\ NumProps(s) \in Nat
    BY <1>1, SizePassed
  <1> DEFINE w == SubSeq(s, 0 + 1, n)
  <1>3. w \in Seq(Byte) /\ Len(w) = n
    <2>1. 0 \in Nat /\ 0 <= n
      OBVIOUS
    <2>2. w \in Seq(Byte) /\ Len(w) = n - 0
      BY <1>2, <2>1, Slice
    <2> HIDE DEF w
    <2>3. QED
      BY <2>2
  <1>4. UInt(w, 4, 4) = UInt(s, 0 + 4, 4)
    <2>1. 0 \in Nat /\ 0 <= n /\ 4 \in Nat /\ 0 + 4 + 4 <= n
      BY <1>2
    <2>2. QED
      BY <1>2, <2>1, UIntSlice
  <1>5. n < U32 /\ U32 \in Nat
    <2>1. UInt(s, 0, 4) < Power[4]
      BY UIntNat
    <2>2. 4 \in 0 .. 8
      OBVIOUS
    <2>3. Power[4] \in Nat
      BY <2>2, PowerType
    <2>4. QED
      BY <1>1, <2>1, <2>3 DEF U32
  <1>6. w = SubSeq(s, 1, UInt(s, 0, 4))
    BY <1>1
  <1> HIDE DEF w
  <1>7. NumProps(w) = NumProps(s)
    BY <1>4 DEF NumProps
  <1>8. QED
    BY <1>2, <1>3, <1>5, <1>6, <1>7 DEF TableFits

\* The range of a value whose entry passed.
LEMMA PacketFits ==
    ASSUME NEW s \in Seq(Byte), TableFits(s), NEW i \in 0 .. NumProps(s) - 1,
           ~ BadPacket(s, Packet(s, i))
    PROVE  /\ Packet(s, i).id \in 0 .. U32 - 1
           /\ Packet(s, i).off \in Nat /\ Packet(s, i).end \in Nat
           /\ 8 + 8 * NumProps(s) <= Packet(s, i).off
           /\ Packet(s, i).off + 4 <= Packet(s, i).end
           /\ Packet(s, i).end <= Len(s)
  <1>1. NumProps(s) \in Nat /\ 8 + 8 * NumProps(s) <= Len(s) /\ Len(s) < U32 /\ U32 \in Nat
    BY DEF TableFits
  <1>2. /\ Packet(s, i).id = UInt(s, 8 + 8 * i, 4)
        /\ Packet(s, i).off = UInt(s, 12 + 8 * i, 4)
        /\ Packet(s, i).end = IF i + 1 < NumProps(s) THEN UInt(s, 20 + 8 * i, 4) ELSE Len(s)
    BY DEF Packet
  <1>3. UInt(s, 8 + 8 * i, 4) \in Nat /\ UInt(s, 8 + 8 * i, 4) < U32
    <2>1. 8 + 8 * i \in Nat /\ 4 \in 1 .. 8
      BY <1>1
    <2>2. QED
      BY <2>1, UIntNat DEF U32
  <1>4. UInt(s, 12 + 8 * i, 4) \in Nat
    <2>1. 12 + 8 * i \in Nat /\ 4 \in 1 .. 8
      BY <1>1
    <2>2. QED
      BY <2>1, UIntNat
  <1>5. UInt(s, 20 + 8 * i, 4) \in Nat
    <2>1. 20 + 8 * i \in Nat /\ 4 \in 1 .. 8
      BY <1>1
    <2>2. QED
      BY <2>1, UIntNat
  <1> DEFINE off == Packet(s, i).off
             end == Packet(s, i).end
  <1>6. /\ ~(off < MinOff(s)) /\ ~(end < off) /\ ~((end - off) % U32 < 4) /\ ~(end > Len(s))
    BY DEF BadPacket
  <1>7. off \in Nat /\ end \in Nat
    BY <1>1, <1>2, <1>4, <1>5
  <1> HIDE DEF off, end
  <1>8. off <= end /\ end <= Len(s)
    BY <1>1, <1>6, <1>7
  <1>9. MinOff(s) = 8 + 8 * NumProps(s)
    BY <1>1 DEF MinOff
  <1>10. off + 4 <= end
    <2>1. (end - off) % U32 = end - off
      BY <1>1, <1>7, <1>8
    <2>2. QED
      BY <1>6, <1>7, <2>1
  <1>11. 8 + 8 * NumProps(s) <= off
    BY <1>1, <1>6, <1>7, <1>9
  <1>12. QED
    BY <1>1, <1>2, <1>3, <1>7, <1>8, <1>10, <1>11 DEF off, end

\* The entries of the table have passed the checks.
EntriesPassed(s) == \A i \in 0 .. NumProps(s) - 1 : ~ BadPacket(s, Packet(s, i))

\* The checks compare neighbours; no two values have a byte in common for all that.
LEMMA PacketsOrdered ==
    ASSUME NEW s \in Seq(Byte), TableFits(s), EntriesPassed(s),
           NEW i \in 0 .. NumProps(s) - 1, NEW j \in 0 .. NumProps(s) - 1, i < j
    PROVE  Packet(s, i).end <= Packet(s, j).off
  <1> DEFINE Odd == {k \in 0 .. NumProps(s) - 1 : i < k /\ ~(Packet(s, i).end <= Packet(s, k).off)}
  <1>1. SUFFICES ASSUME Odd # {} PROVE FALSE
    OBVIOUS
  <1>2. NumProps(s) \in Nat
    BY DEF TableFits
  <1>3. PICK k \in Odd : \A m \in Odd : k <= m
    <2>1. Odd \subseteq Nat
      BY <1>2
    <2>2. QED
      BY <1>1, <2>1, Least
  <1>4. k \in 0 .. NumProps(s) - 1 /\ i < k /\ ~(Packet(s, i).end <= Packet(s, k).off)
    BY <1>3
  <1>5. PICK p \in 0 .. NumProps(s) - 1 : p = k - 1 /\ i <= p /\ p < k /\ p + 1 < NumProps(s)
    <2>1. k - 1 \in 0 .. NumProps(s) - 1 /\ i <= k - 1 /\ k - 1 < k /\ k - 1 + 1 < NumProps(s)
      BY <1>2, <1>4
    <2>2. QED
      BY <2>1
  <1>6. Packet(s, p).end = Packet(s, k).off
    <2>1. 20 + 8 * p = 12 + 8 * k
      BY <1>4, <1>5
    <2>2. QED
      BY <1>5, <2>1 DEF Packet
  <1>7. p # i
    <2>1. Packet(s, k).off \in Nat
      BY <1>4, PacketFits DEF EntriesPassed
    <2>2. QED
      BY <1>4, <1>6, <2>1
  <1>8. Packet(s, i).end <= Packet(s, p).off
    <2>1. i < p /\ ~(k <= p)
      BY <1>4, <1>5, <1>7
    <2>2. p \notin Odd
      BY <1>3, <2>1
    <2>3. QED
      BY <2>1, <2>2
  <1>9. /\ Packet(s, p).off \in Nat /\ Packet(s, p).end \in Nat
        /\ Packet(s, p).off + 4 <= Packet(s, p).end /\ Packet(s, i).end \in Nat
    BY <1>5, PacketFits DEF EntriesPassed
  <1>10. QED
    BY <1>4, <1>6, <1>8, <1>9

-----------------------------------------------------------------------------
(* What Unmarshal decodes, and what of it Marshal encodes                   *)

\* A character takes one byte or two.
LEMMA CharSizeIs == ASSUME NEW page PROVE CharSize(page) \in {1, 2}
  BY DEF CharSize

\* Numbers of one and two bytes.
LEMMA SmallPowers ==
    /\ Power[1] \in Nat /\ Power[2] \in Nat /\ Power[4] \in Nat /\ Power[8] \in Nat
    /\ Power[1] = Base /\ Base \in Nat /\ Power[2] > 64 /\ Power[8] > 0 /\ Power[4] > Power[2]
    /\ Power[2] > Base
  <1>1. Base \in Nat /\ Base >= 2 /\ Power[2] > 64
    BY OlepsAssumption DEF vtFileTime
  <1>2. 1 \in 0 .. 8 /\ 2 \in 0 .. 8 /\ 4 \in 0 .. 8 /\ 8 \in 0 .. 8 /\ 3 \in 0 .. 8
    OBVIOUS
  <1>3. /\ Power[1] \in Nat \ {0} /\ Power[2] \in Nat \ {0} /\ Power[4] \in Nat \ {0}
        /\ Power[8] \in Nat \ {0} /\ Power[3] \in Nat \ {0}
    BY <1>2, PowerType
  <1>4. Power[0] = 1 /\ Power[1] = Base * Power[0]
    <2>1. 1 \in 1 .. 8 /\ 1 - 1 = 0
      OBVIOUS
    <2>2. QED
      BY <2>1, PowerIs
  <1>5. Power[2] = Base * Power[1] /\ Power[3] = Base * Power[2] /\ Power[4] = Base * Power[3]
    <2>1. 2 \in 1 .. 8 /\ 3 \in 1 .. 8 /\ 4 \in 1 .. 8 /\ 2 - 1 = 1 /\ 3 - 1 = 2 /\ 4 - 1 = 3
      OBVIOUS
    <2>2. QED
      BY <2>1, PowerIs
  <1>6. Power[1] = Base
    BY <1>1, <1>4
  <1>7. ASSUME NEW p \in Nat \ {0} PROVE Base * p > p
    <2>1. PICK k \in Nat : Base = k + 2
      <3>1. Base - 2 \in Nat /\ Base = Base - 2 + 2
        BY <1>1
      <3>2. QED
        BY <3>1
    <2>2. (k + 2) * p = k * p + p + p /\ k * p \in Nat
      OBVIOUS
    <2>3. QED
      BY <2>1, <2>2
  <1>8. Power[2] > Base
    <2>1. Base * Power[1] > Power[1]
      BY <1>3, <1>7
    <2>2. QED
      BY <1>5, <1>6, <2>1
  <1>9. Power[3] > Power[2] /\ Power[4] > Power[3]
    <2>1. Base * Power[2] > Power[2] /\ Base * Power[3] > Power[3]
      BY <1>3, <1>7
    <2>2. QED
      BY <1>5, <2>1
  <1>10. Power[4] > Power[2]
    BY <1>3, <1>9
  <1>11. QED
    BY <1>1, <1>3, <1>6, <1>8, <1>10

\* The units of a text are numbers of as many bytes as the code page has for one.
LEMMA UnitsAre ==
    ASSUME NEW raw \in Seq(Byte), NEW page
    PROVE  /\ Units(raw, page) \in Seq(Nat)
           /\ \A i \in DOMAIN Units(raw, page) : Units(raw, page)[i] < Power[CharSize(page)]
  <1> DEFINE w == CharSize(page)
             n == (Len(raw) + w - 1) \div w
             Char(i) == IF w * i <= Len(raw) THEN UInt(raw, w * (i - 1), w) ELSE Replacement
             text == [i \in 1 .. n |-> Char(i)]
  <1>1. w \in {1, 2}
    BY CharSizeIs
  <1> HIDE DEF w
  <1>2. n \in Nat
    BY <1>1
  <1>3. ASSUME NEW i \in 1 .. n PROVE Char(i) \in Nat /\ Char(i) < Power[w]
    <2>1. CASE w * i <= Len(raw)
      <3>1. w * (i - 1) \in Nat /\ w \in 1 .. 8
        BY <1>1, <1>2
      <3>2. UInt(raw, w * (i - 1), w) \in Nat /\ UInt(raw, w * (i - 1), w) < Power[w]
        BY <3>1, UIntNat
      <3>3. QED
        BY <2>1, <3>2
    <2>2. CASE ~(w * i <= Len(raw))
      <3>1. w = 2
        <4>1. CASE w = 1
          <5>1. n = Len(raw)
            BY <4>1
          <5>2. QED
            BY <2>2, <4>1, <5>1
        <4>2. QED
          BY <1>1, <4>1
      <3>2. QED
        BY <2>2, <3>1, SmallPowers DEF Replacement
    <2>3. QED
      BY <2>1, <2>2
  <1>4. Units(raw, page) = text
    BY DEF Units, w
  <1> HIDE DEF n, Char
  <1>5. text \in Seq(Nat) /\ \A i \in DOMAIN text : text[i] < Power[w]
    BY <1>2, <1>3
  <1> HIDE DEF text
  <1>6. QED
    BY <1>4, <1>5 DEF w

\* U+FFFD is a unit, no byte and no half of a character; nor is a byte one.
LEMMA NoHalves ==
    /\ Replacement \in 0 .. Power[2] - 1
    /\ Replacement \notin High /\ Replacement \notin Low
    /\ \A x \in Byte : x \notin High /\ x \notin Low /\ x \in 0 .. Power[2] - 1
    /\ \A x \in High : x \notin Low
  <1>1. Power[2] \in Nat /\ Power[2] > 64 /\ Power[2] > Base /\ Base \in Nat
    BY SmallPowers
  <1>2. \A x \in High \cup Low : x \in Base .. Power[2] - 4
    <2>1. \A x \in High \cup Low : x \in Base .. Replacement - 1
      BY OlepsAssumption
    <2>2. Replacement - 1 = Power[2] - 4
      BY <1>1 DEF Replacement
    <2>3. QED
      BY <2>1, <2>2
  <1>3. High \cap Low = {}
    BY OlepsAssumption
  <1>4. Replacement = Power[2] - 3
    BY DEF Replacement
  <1>5. \A x \in Byte : x \in 0 .. Base - 1
    BY DEF Byte
  <1>6. QED
    BY <1>1, <1>2, <1>3, <1>4, <1>5

\* What a text is.
LEMMA TextIsSeq ==
    ASSUME NEW s \in Text
    PROVE  /\ s \in Seq(Nat) /\ Len(s) \in Nat /\ DOMAIN s = 1 .. Len(s)
           /\ \A i \in DOMAIN s : s[i] < Power[2] /\ ~ Lone(s, i)
  <1>1. s \in Seq(0 .. Power[2] - 1) /\ \A i \in DOMAIN s : ~ Lone(s, i)
    BY DEF Text
  <1>2. Power[2] \in Nat
    BY SmallPowers
  <1>3. QED
    BY <1>1, <1>2

\* A function of 1 .. n is a sequence.
LEMMA FunctionIsSeq ==
    ASSUME NEW S, NEW n \in Nat, NEW s, s = [i \in 1 .. n |-> s[i]], \A i \in 1 .. n : s[i] \in S
    PROVE  s \in Seq(S)
  <1>1. s \in [1 .. n -> S]
    BY Zenon
  <1>2. QED
    BY <1>1

\* Where a decoder has put U+FFFD for every half of a character, none is left.
LEMMA NoLoneLeft ==
    ASSUME NEW n \in Nat, NEW u \in [1 .. n -> Nat], NEW s \in [1 .. n -> Nat],
           \A i \in 1 .. n : s[i] = IF Lone(u, i) THEN Replacement ELSE u[i],
           NEW i \in 1 .. n
    PROVE  ~ Lone(s, i)
  <1>1. ASSUME s[i] \in High PROVE i + 1 \in DOMAIN s /\ s[i + 1] \in Low
    <2>1. ~ Lone(u, i) /\ u[i] \in High
      BY <1>1, NoHalves
    <2>2. PICK j \in 1 .. n : j = i + 1 /\ u[j] \in Low
      BY <2>1 DEF Lone
    <2>3. j - 1 \in DOMAIN u /\ u[j - 1] \in High /\ u[j] \notin High
      BY <2>1, <2>2, NoHalves
    <2>4. ~ Lone(u, j)
      BY <2>3 DEF Lone
    <2>5. QED
      BY <2>2, <2>4
  <1>2. ASSUME s[i] \in Low PROVE i - 1 \in DOMAIN s /\ s[i - 1] \in High
    <2>1. ~ Lone(u, i) /\ u[i] \in Low
      BY <1>2, NoHalves
    <2>2. PICK j \in 1 .. n : j = i - 1 /\ u[j] \in High
      BY <2>1 DEF Lone
    <2>3. j + 1 \in DOMAIN u /\ u[j + 1] \in Low /\ u[j] \notin Low
      BY <2>1, <2>2, NoHalves
    <2>4. ~ Lone(u, j)
      BY <2>3 DEF Lone
    <2>5. QED
      BY <2>2, <2>4
  <1>3. QED
    BY <1>1, <1>2 DEF Lone

\* What the decoder makes of any bytes is a text; of a code page of one byte, it
\* has only mapped bytes and U+FFFD.
LEMMA DecodeTextIs ==
    ASSUME NEW raw \in Seq(Byte), NEW page
    PROVE  /\ DecodeText(raw, page) \in Text
           /\ page # cpWinUnicode =>
                \A i \in DOMAIN DecodeText(raw, page) :
                   DecodeText(raw, page)[i] \in (Byte \ Unmapped[page]) \cup {Replacement}
  <1>1. PICK u \in Seq(Nat) : u = Units(raw, page) /\ \A i \in DOMAIN u : u[i] < Power[CharSize(page)]
    BY UnitsAre
  <1>2. PICK n \in Nat : n = Len(u) /\ DOMAIN u = 1 .. n /\ u \in [1 .. n -> Nat]
    OBVIOUS
  <1> DEFINE s == [i \in 1 .. n |-> IF NoCharacter(u, i, page) THEN Replacement ELSE u[i]]
  <1>3. DecodeText(raw, page) = s
    BY <1>1, <1>2 DEF DecodeText
  <1>4. Power[1] = Base /\ Power[2] \in Nat /\ Base \in Nat /\ Replacement \in 0 .. Power[2] - 1
    BY SmallPowers, NoHalves
  <1>5. CASE page = cpWinUnicode
    <2>1. \A i \in 1 .. n : u[i] \in 0 .. Power[2] - 1
      BY <1>1, <1>2, <1>4, <1>5 DEF CharSize
    <2>2. \A i \in 1 .. n : s[i] = IF Lone(u, i) THEN Replacement ELSE u[i]
      BY <1>5 DEF NoCharacter
    <2>3. \A i \in 1 .. n : s[i] \in 0 .. Power[2] - 1
      BY <1>4, <2>1, <2>2
    <2>4. DOMAIN s = 1 .. n /\ s = [i \in 1 .. n |-> s[i]]
      OBVIOUS
    <2> HIDE DEF s
    <2>5. s \in Seq(0 .. Power[2] - 1) /\ s \in [1 .. n -> Nat] /\ DOMAIN s = 1 .. n
      <3>1. s \in Seq(0 .. Power[2] - 1)
        BY <2>3, <2>4, FunctionIsSeq
      <3>2. \A i \in 1 .. n : s[i] \in Nat
        BY <1>4, <2>3
      <3>3. s \in [1 .. n -> Nat]
        BY <2>4, <3>2, Zenon
      <3>4. QED
        BY <2>4, <3>1, <3>3
    <2>6. \A i \in 1 .. n : ~ Lone(s, i)
      BY <1>2, <2>2, <2>5, NoLoneLeft
    <2>7. QED
      BY <1>3, <1>5, <2>5, <2>6 DEF Text
  <1>6. CASE page # cpWinUnicode
    <2>1. \A i \in 1 .. n : u[i] \in Byte
      BY <1>1, <1>2, <1>4, <1>6 DEF CharSize, Byte
    <2>2. \A i \in 1 .. n : s[i] = IF u[i] \in Unmapped[page] THEN Replacement ELSE u[i]
      BY <1>6 DEF NoCharacter
    <2>3. DOMAIN s = 1 .. n /\ s = [i \in 1 .. n |-> s[i]]
      OBVIOUS
    <2> HIDE DEF s
    <2>4. \A i \in 1 .. n : s[i] \in (Byte \ Unmapped[page]) \cup {Replacement}
      BY <2>1, <2>2
    <2>5. \A i \in 1 .. n : s[i] \notin High /\ s[i] \notin Low /\ s[i] \in 0 .. Power[2] - 1
      BY <2>4, NoHalves
    <2>6. s \in Seq(0 .. Power[2] - 1)
      BY <2>3, <2>5, FunctionIsSeq
    <2>7. \A i \in 1 .. n : ~ Lone(s, i)
      BY <2>5 DEF Lone
    <2>8. QED
      BY <1>3, <2>3, <2>4, <2>6, <2>7 DEF Text
  <1>7. QED
    BY <1>5, <1>6

\* The seconds of a time that has so many ticks.
LEMMA SecondsOfTicks ==
    ASSUME NEW ticks \in Nat, ticks < Power[8]
    PROVE  Sec(ticks * NanosPerTick) \in 0 .. MaxSec + 1 /\ ticks * NanosPerTick \in Int
  <1>1. PICK n, t \in Nat \ {0} : n = NanosPerTick /\ t = TicksPerSec
    BY OlepsAssumption
  <1>2. PICK p \in Nat : p = Power[8] - 1 /\ ticks <= p
    BY SmallPowers
  <1>3. n * t \in Nat \ {0} /\ ticks * n \in Nat
    BY Product
  <1> DEFINE q == (ticks * n) \div (n * t)
             r == p \div t
  <1>4. q \in Nat /\ q * (n * t) <= ticks * n
    <2>1. \A a \in Nat, c \in Nat \ {0} : a \div c \in Nat /\ (a \div c) * c <= a
      OBVIOUS
    <2>2. QED
      BY <1>3, <2>1
  <1>5. r \in Nat /\ p < (r + 1) * t
    OBVIOUS
  <1> HIDE DEF q, r
  <1>6. q <= r
    <2>1. SUFFICES ASSUME r + 1 <= q PROVE FALSE
      BY <1>4, <1>5
    <2>2. (r + 1) * t <= q * t
      BY <1>4, <1>5, <2>1
    <2>3. ticks + 1 <= q * t /\ q * t \in Nat
      BY <1>2, <1>4, <1>5, <2>2
    <2>4. (ticks + 1) * n <= (q * t) * n
      BY <2>3
    <2>5. (q * t) * n = q * (n * t) /\ (ticks + 1) * n = ticks * n + n
      BY <1>4
    <2>6. QED
      BY <1>3, <1>4, <2>4, <2>5
  <1>7. Sec(ticks * NanosPerTick) = q
    BY <1>1 DEF Sec, q
  <1>8. MaxSec + 1 = r
    BY <1>1, <1>2, <1>5 DEF MaxSec, r
  <1>9. QED
    BY <1>1, <1>3, <1>4, <1>5, <1>6, <1>7, <1>8

\* A value Unmarshal returns: Marshal takes it again, unless it is a time of the
\* last second, or a text with U+FFFD in a code page of one byte a character.
Sound(value, page) ==
    /\ value # Nil
    /\ value.vt = vtLPSTR /\ page # cpWinUnicode =>
         \A i \in DOMAIN value.v : value.v[i] \in (Byte \ Unmapped[page]) \cup {Replacement}
    /\ value.vt = vtFileTime /\ value.v # <<>> => Sec(value.v[1]) \in 0 .. MaxSec + 1

\* What the decoder makes of an integer,
LEMMA DecodeInteger ==
    ASSUME NEW b \in Seq(Byte), NEW page, NEW vt \in {vtI2, vtI4, vtUI4}
    PROVE  DecodeValue(vt, b, page) \in Values /\ Sound(DecodeValue(vt, b, page), page)
  <1> DEFINE x == UInt(b, 0, Width[vt])
  <1>1. Width[vt] \in {2, 4} /\ (vt = vtI2 => Width[vt] = 2) /\ (vt # vtI2 => Width[vt] = 4)
    BY DEF Width, vtI2, vtI4, vtUI4, vtFileTime
  <1>2. x \in 0 .. Power[Width[vt]] - 1
    <2>1. Width[vt] \in 0 .. 8
      BY <1>1
    <2>2. QED
      BY <2>1, UIntType
  <1> HIDE DEF x
  <1>3. <<x>> \in Integer(Width[vt])
    BY <1>2 DEF Integer
  <1>4. DecodeValue(vt, b, page) = [vt |-> vt, v |-> <<x>>]
    BY DEF DecodeValue, x, vtI2, vtI4, vtUI4, vtLPSTR, vtFileTime
  <1>5. [vt |-> vt, v |-> <<x>>] \in Values
    <2>1. CASE vt = vtI2
      BY <1>1, <1>3, <2>1 DEF Values
    <2>2. CASE vt \in {vtI4, vtUI4} /\ vt # vtI2
      BY <1>1, <1>3, <2>2 DEF Values
    <2>3. QED
      BY <2>1, <2>2
  <1>6. Sound([vt |-> vt, v |-> <<x>>], page)
    BY DEF Sound, Nil, vtI2, vtI4, vtUI4, vtLPSTR, vtFileTime
  <1>7. QED
    BY <1>4, <1>5, <1>6

\* of a text,
LEMMA DecodeLPSTR ==
    ASSUME NEW b \in Seq(Byte), NEW page, Decodable(vtLPSTR, b, page)
    PROVE  DecodeValue(vtLPSTR, b, page) \in Values /\ Sound(DecodeValue(vtLPSTR, b, page), page)
  <1>1. PICK n : n = UInt(b, 0, 4)
    OBVIOUS
  <1>2. n \in Nat
    BY <1>1, UIntNat
  <1>3. /\ Len(b) >= 4 /\ n <= Len(b) - 4
        /\ n # 0 => n >= CharSize(page)
    BY <1>1 DEF Decodable
  <1> DEFINE raw == SubSeq(b, 4 + 1, 4 + n - CharSize(page))
             text == IF n = 0 THEN <<>> ELSE DecodeText(raw, page)
  <1>4. /\ text \in Text
        /\ page # cpWinUnicode =>
             \A i \in DOMAIN text : text[i] \in (Byte \ Unmapped[page]) \cup {Replacement}
    <2>1. CASE n = 0
      <3>1. text = <<>> /\ <<>> \in Seq(0 .. Power[2] - 1) /\ DOMAIN <<>> = {}
        BY <2>1
      <3> HIDE DEF text
      <3>2. QED
        BY <3>1 DEF Text
    <2>2. CASE n # 0
      <3>1. PICK m \in Nat : m = 4 + n - CharSize(page) /\ 4 <= m /\ m <= Len(b)
        <4>1. CharSize(page) \in {1, 2}
          BY CharSizeIs
        <4>2. QED
          BY <1>2, <1>3, <2>2, <4>1
      <3>2. SubSeq(b, 4 + 1, m) \in Seq(Byte)
        BY <3>1, Slice
      <3>3. raw \in Seq(Byte)
        BY <3>1, <3>2
      <3> HIDE DEF raw
      <3>4. text = DecodeText(raw, page)
        BY <2>2
      <3>5. QED
        BY <3>3, <3>4, DecodeTextIs
    <2>3. QED
      BY <2>1, <2>2
  <1>5. DecodeValue(vtLPSTR, b, page) = [vt |-> vtLPSTR, v |-> text]
    BY <1>1 DEF DecodeValue, vtLPSTR, vtFileTime
  <1> HIDE DEF text
  <1>6. [vt |-> vtLPSTR, v |-> text] \in Values
    BY <1>4 DEF Values
  <1>7. Sound([vt |-> vtLPSTR, v |-> text], page)
    BY <1>4 DEF Sound, Nil, vtLPSTR, vtFileTime
  <1>8. QED
    BY <1>5, <1>6, <1>7

\* and of a time.
LEMMA DecodeFileTime ==
    ASSUME NEW b \in Seq(Byte), NEW page
    PROVE  DecodeValue(vtFileTime, b, page) \in Values /\ Sound(DecodeValue(vtFileTime, b, page), page)
  <1>1. PICK ticks : ticks = UInt(b, 0, 8)
    OBVIOUS
  <1>2. ticks \in Nat /\ ticks < Power[8]
    <2>1. 8 \in 1 .. 8 /\ 0 \in Nat
      OBVIOUS
    <2>2. QED
      BY <1>1, <2>1, UIntNat
  <1>3. DecodeValue(vtFileTime, b, page) = [vt |-> vtFileTime, v |-> DecodeTime(ticks)]
    BY <1>1 DEF DecodeValue, vtLPSTR, vtFileTime
  <1>4. CASE ticks = 0
    <2>1. DecodeTime(ticks) = <<>>
      BY <1>4 DEF DecodeTime
    <2>2. [vt |-> vtFileTime, v |-> <<>>] \in Values
      BY DEF Values
    <2>3. Sound([vt |-> vtFileTime, v |-> <<>>], page)
      BY DEF Sound, Nil, vtLPSTR, vtFileTime
    <2>4. QED
      BY <1>3, <2>1, <2>2, <2>3
  <1>5. CASE ticks # 0
    <2>1. PICK x : x = ticks * NanosPerTick
      OBVIOUS
    <2>2. DecodeTime(ticks) = <<x>>
      BY <1>5, <2>1 DEF DecodeTime
    <2>3. x \in Int /\ Sec(x) \in 0 .. MaxSec + 1
      BY <1>2, <2>1, SecondsOfTicks
    <2>4. <<x>> \in [1 .. 1 -> Int]
      BY <2>3
    <2>5. [vt |-> vtFileTime, v |-> <<x>>] \in Values
      BY <2>4 DEF Values
    <2>6. Sound([vt |-> vtFileTime, v |-> <<x>>], page)
      BY <2>3 DEF Sound, Nil, vtLPSTR, vtFileTime
    <2>7. QED
      BY <1>3, <2>2, <2>5, <2>6
  <1>6. QED
    BY <1>4, <1>5

\* Whatever a value is decoded from, it has its type and Marshal takes it.
LEMMA DecodedIsSound ==
    ASSUME NEW b \in Seq(Byte), NEW page, NEW vt \in DOMAIN Width \cup {vtLPSTR},
           Decodable(vt, b, page)
    PROVE  /\ DecodeValue(vt, b, page) \in Values
           /\ Sound(DecodeValue(vt, b, page), page)
           /\ DecodeValue(vt, b, page).vt = vt
  <1>1. vt \in {vtI2, vtI4, vtUI4} \/ vt = vtFileTime \/ vt = vtLPSTR
    BY DEF Width
  <1>2. DecodeValue(vt, b, page).vt = vt
    BY DEF DecodeValue
  <1>3. CASE vt \in {vtI2, vtI4, vtUI4}
    BY <1>2, <1>3, DecodeInteger
  <1>4. CASE vt = vtFileTime
    BY <1>2, <1>4, DecodeFileTime
  <1>5. CASE vt = vtLPSTR
    BY <1>2, <1>5, DecodeLPSTR
  <1>6. QED
    BY <1>1, <1>3, <1>4, <1>5

\* The forms a value has.
LEMMA ValueForms ==
    ASSUME NEW value \in Values, value # Nil
    PROVE  \/ value.vt \in {vtI2, vtI4, vtUI4} /\ value.v \in Integer(Width[value.vt])
           \/ value.vt = vtLPSTR /\ value.v \in Text
           \/ value.vt = vtFileTime /\ (value.v = <<>> \/ value.v \in [1 .. 1 -> Int])
  <1>1. Width[vtI2] = 2 /\ Width[vtI4] = 4 /\ Width[vtUI4] = 4
    BY DEF Width, vtI2, vtI4, vtUI4, vtFileTime
  <1>2. CASE value \in [vt : {vtI2}, v : Integer(2)]
    BY <1>1, <1>2
  <1>3. CASE value \in [vt : {vtI4, vtUI4}, v : Integer(4)]
    BY <1>1, <1>3
  <1>4. CASE value \in [vt : {vtLPSTR}, v : Text]
    BY <1>4
  <1>5. CASE value \in [vt : {vtFileTime}, v : {<<>>} \cup [1 .. 1 -> Int]]
    BY <1>5
  <1>6. QED
    BY <1>2, <1>3, <1>4, <1>5 DEF Values

\* A value is encoded as bytes.
LEMMA EncodeType ==
    ASSUME NEW value \in Values, value # Nil, NEW page
    PROVE  EncodeValue(value, page) \in Seq(Byte)
  <1>1. CASE value.vt \in {vtI2, vtI4, vtUI4} /\ value.v \in Integer(Width[value.vt])
    <2>1. PICK w \in {2, 4} : w = Width[value.vt]
      BY <1>1 DEF Width, vtI2, vtI4, vtUI4, vtFileTime
    <2>2. value.v[1] \in Int
      <3>1. w \in 0 .. 8
        BY <2>1
      <3>2. Power[w] \in Nat
        BY <3>1, PowerType
      <3>3. QED
        BY <1>1, <2>1, <3>2 DEF Integer
    <2>3. EncodeValue(value, page) = Num(value.v[1], w)
      BY <1>1, <2>1 DEF EncodeValue, vtI2, vtI4, vtUI4, vtLPSTR, vtFileTime
    <2>4. w \in 0 .. 8
      BY <2>1
    <2>5. QED
      BY <2>2, <2>3, <2>4, NumType
  <1>2. CASE value.vt = vtLPSTR /\ value.v \in Text
    <2>1. PICK s \in Seq(Nat) : s = value.v
      BY <1>2, TextIsSeq
    <2>2. PICK w \in {1, 2} : w = CharSize(page)
      BY CharSizeIs
    <2> DEFINE chars == [i \in DOMAIN s |-> Num(s[i], w)]
    <2>3. chars \in Seq(Seq(Byte))
      <3>1. ASSUME NEW i \in DOMAIN s PROVE Num(s[i], w) \in Seq(Byte)
        <4>1. s[i] \in Int /\ w \in 0 .. 8
          BY <2>2
        <4>2. QED
          BY <4>1, NumType
      <3>2. chars \in [1 .. Len(s) -> Seq(Byte)]
        BY <3>1
      <3> HIDE DEF chars
      <3>3. QED
        BY <3>2
    <2>4. FlattenSeq(chars) \in Seq(Byte)
      <3>1. <<>> \in Seq(Byte)
        OBVIOUS
      <3> HIDE DEF chars
      <3>2. QED
        BY <2>3, <3>1, FlattenLast
    <2>5. Zeros(w) \in Seq(Byte)
      BY <2>2, ZerosType
    <2>6. PICK text \in Seq(Byte) : text = FlattenSeq(chars) \o Zeros(w)
      <3>1. PICK f \in Seq(Byte) : f = FlattenSeq(chars)
        BY <2>4
      <3>2. PICK z \in Seq(Byte) : z = Zeros(w)
        BY <2>5
      <3>3. f \o z \in Seq(Byte)
        BY <3>1, <3>2
      <3>4. QED
        BY <3>1, <3>2, <3>3
    <2>7. EncodeText(s, page) = Num(Len(text), 4) \o text
      <3>1. EncodeText(s, page) =
              Num(Len(FlattenSeq([i \in DOMAIN s |-> Num(s[i], CharSize(page))]) \o Terminator(page)), 4)
                \o (FlattenSeq([i \in DOMAIN s |-> Num(s[i], CharSize(page))]) \o Terminator(page))
        BY DEF EncodeText
      <3>2. Terminator(page) = Zeros(w)
        BY <2>2 DEF Terminator
      <3>3. chars = [i \in DOMAIN s |-> Num(s[i], CharSize(page))]
        BY <2>2
      <3>4. QED
        BY <2>6, <3>1, <3>2, <3>3, Zenon
    <2>8. PICK len \in Seq(Byte) : len = Num(Len(text), 4)
      <3>1. Len(text) \in Int /\ 4 \in 0 .. 8
        BY <2>6
      <3>2. QED
        BY <3>1, NumType
    <2>9. EncodeText(s, page) \in Seq(Byte)
      BY <2>7, <2>8
    <2>10. EncodeValue(value, page) = EncodeText(value.v, page)
      <3> HIDE DEF chars
      <3>1. QED
        BY <1>2 DEF EncodeValue, vtLPSTR, vtFileTime
    <2>11. QED
      BY <2>1, <2>9, <2>10, Zenon
  <1>3. CASE value.vt = vtFileTime /\ (value.v = <<>> \/ value.v \in [1 .. 1 -> Int])
    <2>1. ASSUME NEW n \in Int PROVE Num(n, 8) \in Seq(Byte)
      <3>1. 8 \in 0 .. 8
        OBVIOUS
      <3>2. QED
        BY <3>1, NumType
    <2>2. EncodeValue(value, page) = EncodeTime(value.v)
      BY <1>3 DEF EncodeValue, vtLPSTR, vtFileTime
    <2>3. CASE value.v = <<>>
      <3>1. EncodeTime(value.v) = Num(0, 8)
        BY <2>3 DEF EncodeTime
      <3>2. 0 \in Int
        OBVIOUS
      <3>3. QED
        BY <2>1, <2>2, <3>1, <3>2
    <2>4. CASE value.v # <<>> /\ value.v \in [1 .. 1 -> Int]
      <3>1. value.v[1] \in Int
        BY <2>4
      <3>2. \A x \in Int : x \div NanosPerTick \in Int
        BY OlepsAssumption
      <3>3. EncodeTime(value.v) = Num(value.v[1] \div NanosPerTick, 8)
        BY <2>4 DEF EncodeTime
      <3>4. QED
        BY <2>1, <2>2, <3>1, <3>2, <3>3
    <2>5. QED
      BY <1>3, <2>3, <2>4
  <1>4. QED
    BY <1>1, <1>2, <1>3, ValueForms

-----------------------------------------------------------------------------
(* Bytes at a place of the stream                                           *)

\* Dividing twice is dividing by the product.
LEMMA DivTwice ==
    ASSUME NEW n \in Nat, NEW p \in Nat \ {0}, NEW b \in Nat \ {0}
    PROVE  n \div (b * p) = (n \div p) \div b
  <1>1. PICK q \in Nat, r \in 0 .. p - 1 : n = q * p + r /\ q = n \div p
    <2>1. n \div p \in Nat /\ n % p \in 0 .. p - 1 /\ n = (n \div p) * p + (n % p)
      OBVIOUS
    <2>2. QED
      BY <2>1
  <1>2. PICK u \in Nat, v \in 0 .. b - 1 : q = u * b + v /\ u = q \div b
    <2>1. q \div b \in Nat /\ q % b \in 0 .. b - 1 /\ q = (q \div b) * b + (q % b)
      OBVIOUS
    <2>2. QED
      BY <2>1
  <1>3. PICK m \in Nat \ {0} : m = b * p
    BY Product
  <1>4. n = u * m + (v * p + r)
    <2>1. q * p = u * m + v * p
      <3>1. (u * b + v) * p = u * (b * p) + v * p
        OBVIOUS
      <3>2. QED
        BY <1>2, <1>3, <3>1
    <2>2. QED
      BY <1>1, <1>2, <2>1
  <1>5. v * p + r \in Nat /\ v * p + r < m
    <2>1. PICK x \in Nat : b = v + 1 + x
      <3>1. b - v - 1 \in Nat /\ b = v + 1 + (b - v - 1)
        BY <1>2
      <3>2. QED
        BY <3>1
    <2>2. (v + 1 + x) * p = v * p + p + x * p /\ v * p \in Nat /\ x * p \in Nat
      BY <1>2
    <2>3. QED
      BY <1>1, <1>3, <2>1, <2>2
  <1>6. PICK y \in Nat : y = v * p + r /\ y < m
    BY <1>5
  <1>7. n = u * m + y
    BY <1>4, <1>6
  <1>8. n \div m = u
    BY <1>6, <1>7
  <1>9. QED
    BY <1>1, <1>2, <1>3, <1>8

\* The bytes lie in b behind the first at ones.
At(b, at, bytes) == SameBytes(b, at, bytes, 0, Len(bytes))

\* A number that so many bytes can hold is read as it was written.
LEMMA NumReads ==
    ASSUME NEW width \in 1 .. 8, NEW n \in Nat, n < Power[width]
    PROVE  UInt(Num(n, width), 0, width) = n
  <1> DEFINE b == Num(n, width)
             d == Digits(b, 0, width)
  <1>1. PICK w : Sums(d, width, w) /\ UInt(b, 0, width) = w[width]
    BY UIntSums
  <1>2. ASSUME NEW k \in 1 .. width
        PROVE  d[k] = (n \div Power[width - k]) % Base
    <2>1. PICK m \in 1 .. width : m = width - k + 1 /\ m - 1 = width - k
      <3>1. width - k + 1 \in 1 .. width /\ width - k + 1 - 1 = width - k
        OBVIOUS
      <3>2. QED
        BY <3>1
    <2>2. d[k] = IF m \in DOMAIN b THEN b[m] ELSE 0
      <3>1. 0 + width - k + 1 = m
        BY <2>1
      <3>2. QED
        BY <3>1 DEF Digits
    <2>3. b[m] = (n \div Power[m - 1]) % Base /\ m \in DOMAIN b
      BY DEF Num
    <2>4. QED
      BY <2>1, <2>2, <2>3
  <1> HIDE DEF d, b
  <1>3. \A k \in 0 .. width : w[k] = SumStep(d, w, k)
    BY <1>1, SumsAt
  <1> DEFINE Odd == {k \in 0 .. width : w[k] # n \div Power[width - k]}
  <1>4. Odd = {}
    <2>1. SUFFICES ASSUME Odd # {} PROVE FALSE
      OBVIOUS
    <2>2. PICK k \in Odd : \A i \in Odd : k <= i
      <3>1. Odd \subseteq Nat
        OBVIOUS
      <3>2. QED
        BY <2>1, <3>1, Least
    <2>3. k \in 0 .. width /\ w[k] # n \div Power[width - k]
      BY <2>2
    <2>4. k # 0
      <3>1. SUFFICES ASSUME k = 0 PROVE FALSE
        OBVIOUS
      <3>2. w[0] = 0
        BY <1>3 DEF SumStep
      <3>3. width - 0 = width
        OBVIOUS
      <3>4. Power[width] \in Nat \ {0}
        <4>1. width \in 0 .. 8
          OBVIOUS
        <4>2. QED
          BY <4>1, PowerType
      <3>5. n \div Power[width] = 0
        BY <3>4
      <3>6. QED
        BY <2>3, <3>1, <3>2, <3>3, <3>5
    <2>5. PICK j : j = k - 1 /\ j \in 0 .. width /\ ~(k <= j) /\ k \in 1 .. width
      BY <2>3, <2>4
    <2>6. w[j] = n \div Power[width - j]
      BY <2>2, <2>5
    <2>7. PICK p, q \in Nat \ {0} : p = Power[width - k] /\ q = Power[width - j] /\ q = Base * p
      <3>1. width - k \in 0 .. 8 /\ width - j \in 1 .. 8 /\ width - j - 1 = width - k /\ width - j \in 0 .. 8
        BY <2>5
      <3>2. Power[width - j] = Base * Power[width - k]
        BY <3>1, PowerIs
      <3>3. QED
        BY <3>1, <3>2, PowerType
    <2>8. Base \in Nat \ {0}
      BY OlepsAssumption
    <2>9. n \div q = (n \div p) \div Base
      BY <2>7, <2>8, DivTwice
    <2>10. PICK x \in Nat : x = n \div p
      BY <2>7
    <2>11. w[k] = (x % Base) + Base * (x \div Base)
      <3>1. d[k] = x % Base
        BY <1>2, <2>5, <2>7, <2>10
      <3>2. w[k] = d[k] + Base * w[j]
        BY <1>3, <2>4, <2>5 DEF SumStep
      <3>3. w[j] = x \div Base
        BY <2>6, <2>7, <2>9, <2>10
      <3>4. QED
        BY <3>1, <3>2, <3>3
    <2>12. (x % Base) + Base * (x \div Base) = x
      BY <2>8
    <2>13. QED
      BY <2>3, <2>7, <2>10, <2>11, <2>12
  <1>5. w[width] = n \div Power[width - width]
    <2>1. width \in 0 .. width
      OBVIOUS
    <2>2. QED
      BY <1>4, <2>1
  <1>6. n \div Power[width - width] = n
    <2>1. width - width = 0
      OBVIOUS
    <2>2. QED
      BY <2>1, PowerIs
  <1>7. UInt(b, 0, width) = n
    BY <1>1, <1>5, <1>6
  <1>8. QED
    BY <1>7 DEF b

\* An integer that was written at a place is read there again.
LEMMA UIntNum ==
    ASSUME NEW b \in Seq(Byte), NEW at \in Nat, NEW width \in 1 .. 8, NEW n \in Nat, n < Power[width],
           At(b, at, Num(n, width))
    PROVE  UInt(b, at, width) = n
  <1>1. PICK a \in Seq(Byte) : a = Num(n, width) /\ Len(a) = width
    <2>1. width \in 0 .. 8
      OBVIOUS
    <2>2. n \in Int
      OBVIOUS
    <2>3. QED
      BY <2>1, <2>2, NumType, Zenon
  <1>2. SameBytes(b, at, a, 0, width)
    BY <1>1 DEF At
  <1>3. 0 \in Nat /\ width \in Nat
    OBVIOUS
  <1>4. UInt(b, at, width) = UInt(a, 0, width)
    BY <1>2, <1>3, UIntSame
  <1>5. QED
    BY <1>1, <1>4, NumReads

\* At, byte by byte.
LEMMA AtBytes ==
    ASSUME NEW b \in Seq(Byte), NEW at \in Nat, NEW x \in Seq(Byte)
    PROVE  At(b, at, x) <=> /\ at + Len(x) <= Len(b) \/ Len(x) = 0
                            /\ \A k \in 1 .. Len(x) : b[at + k] = x[k]
  <1>1. PICK n, m \in Nat : n = Len(x) /\ m = Len(b)
    OBVIOUS
  <1>2. DOMAIN x = 1 .. n /\ DOMAIN b = 1 .. m
    BY <1>1
  <1>3. \A k \in 1 .. n : 0 + k = k
    OBVIOUS
  <1>4. ASSUME At(b, at, x)
        PROVE  (at + n <= m \/ n = 0) /\ \A k \in 1 .. n : b[at + k] = x[k]
    <2>1. \A k \in 1 .. n : at + k \in 1 .. m /\ b[at + k] = x[k]
      BY <1>1, <1>2, <1>3, <1>4, Zenon DEF At, SameBytes
    <2>2. n = 0 \/ n \in 1 .. n
      OBVIOUS
    <2>3. n = 0 \/ at + n \in 1 .. m
      BY <2>1, <2>2
    <2>4. QED
      BY <2>1, <2>3
  <1>5. ASSUME at + n <= m \/ n = 0, \A k \in 1 .. n : b[at + k] = x[k]
        PROVE  At(b, at, x)
    <2>1. \A k \in 1 .. n : at + k \in 1 .. m /\ k \in 1 .. n
      BY <1>5
    <2>2. QED
      BY <1>1, <1>2, <1>3, <1>5, <2>1, Zenon DEF At, SameBytes
  <1>6. QED
    BY <1>1, <1>4, <1>5, Zenon

\* What lies in the first of two parts lies in the whole,
LEMMA AtFirst ==
    ASSUME NEW b \in Seq(Byte), NEW at \in Nat, NEW x \in Seq(Byte), NEW c \in Seq(Byte), At(b, at, x)
    PROVE  At(Cat(b, c), at, x)
  <1>1. PICK n, m \in Nat : n = Len(x) /\ m = Len(b)
    OBVIOUS
  <1>2. (at + n <= m \/ n = 0) /\ \A k \in 1 .. n : b[at + k] = x[k]
    BY <1>1, AtBytes
  <1>3. Cat(b, c) \in Seq(Byte) /\ Len(Cat(b, c)) = m + Len(c) /\ Len(c) \in Nat
    BY <1>1, CatType
  <1>4. \A i \in 1 .. m : Cat(b, c)[i] = b[i]
    BY <1>1, CatFirst
  <1>5. \A k \in 1 .. n : Cat(b, c)[at + k] = x[k]
    <2>1. TAKE k \in 1 .. n
    <2>2. PICK i \in 1 .. m : i = at + k
      BY <1>2
    <2>3. b[at + k] = x[k]
      BY <1>2
    <2>4. QED
      BY <1>4, <2>2, <2>3
  <1>6. at + n <= m + Len(c) \/ n = 0
    BY <1>2, <1>3
  <1>7. QED
    BY <1>1, <1>3, <1>5, <1>6, AtBytes

\* what lies in the second lies behind the first,
LEMMA AtSecond ==
    ASSUME NEW b \in Seq(Byte), NEW at \in Nat, NEW x \in Seq(Byte), NEW c \in Seq(Byte), At(c, at, x)
    PROVE  At(Cat(b, c), Len(b) + at, x)
  <1>1. PICK n, m, l \in Nat : n = Len(x) /\ m = Len(b) /\ l = Len(c)
    OBVIOUS
  <1>2. (at + n <= l \/ n = 0) /\ \A k \in 1 .. n : c[at + k] = x[k]
    BY <1>1, AtBytes
  <1>3. Cat(b, c) \in Seq(Byte) /\ Len(Cat(b, c)) = m + l
    BY <1>1, CatType
  <1>4. \A i \in 1 .. l : Cat(b, c)[m + i] = c[i]
    BY <1>1, CatSecond
  <1>5. PICK a \in Nat : a = m + at
    OBVIOUS
  <1>6. \A k \in 1 .. n : Cat(b, c)[a + k] = x[k]
    <2>1. TAKE k \in 1 .. n
    <2>2. PICK i \in 1 .. l : i = at + k /\ a + k = m + i
      <3>1. at + k \in 1 .. l /\ a + k = m + (at + k)
        BY <1>2, <1>5
      <3>2. QED
        BY <3>1
    <2>3. c[at + k] = x[k]
      BY <1>2
    <2>4. QED
      BY <1>4, <2>2, <2>3
  <1>7. a + n <= m + l \/ n = 0
    BY <1>2, <1>5
  <1>8. At(Cat(b, c), a, x)
    BY <1>1, <1>3, <1>6, <1>7, AtBytes
  <1>9. QED
    BY <1>1, <1>5, <1>8

\* A sequence lies in itself.
LEMMA AtSelf == ASSUME NEW b \in Seq(Byte) PROVE At(b, 0, b)
  <1>1. 0 \in Nat /\ (0 + Len(b) <= Len(b)) /\ \A k \in 1 .. Len(b) : b[0 + k] = b[k]
    OBVIOUS
  <1>2. QED
    BY <1>1, AtBytes

\* and two parts that lie in it follow each other.
LEMMA AtPart ==
    ASSUME NEW b \in Seq(Byte), NEW at \in Nat, NEW x \in Seq(Byte), NEW y \in Seq(Byte),
           At(b, at, Cat(x, y))
    PROVE  At(b, at, x) /\ At(b, at + Len(x), y)
  <1>1. PICK n, m, l \in Nat : n = Len(x) /\ m = Len(b) /\ l = Len(y)
    OBVIOUS
  <1>2. PICK c \in Seq(Byte) : c = Cat(x, y) /\ Len(c) = n + l
    BY <1>1, CatType
  <1>3. (at + (n + l) <= m \/ n + l = 0) /\ \A k \in 1 .. n + l : b[at + k] = c[k]
    <2>1. At(b, at, c)
      BY <1>2
    <2>2. at + Len(c) <= m \/ Len(c) = 0
      BY <1>1, <2>1, AtBytes
    <2>3. \A k \in 1 .. Len(c) : b[at + k] = c[k]
      BY <2>1, AtBytes
    <2>4. QED
      BY <1>2, <2>2, <2>3, Zenon
  <1>4. \A k \in 1 .. n : b[at + k] = x[k]
    <2>1. \A k \in 1 .. n : k \in 1 .. n + l
      OBVIOUS
    <2>2. \A k \in 1 .. n : c[k] = x[k]
      BY <1>1, <1>2, CatFirst
    <2>3. QED
      BY <1>3, <2>1, <2>2, Zenon
  <1>5. PICK a \in Nat : a = at + n
    OBVIOUS
  <1>6. \A k \in 1 .. l : b[a + k] = y[k]
    <2>1. \A k \in 1 .. l : n + k \in 1 .. n + l /\ a + k = at + (n + k)
      BY <1>5
    <2>2. ASSUME NEW k \in 1 .. l PROVE c[n + k] = y[k]
      <3>1. k \in 1 .. Len(y)
        BY <1>1
      <3>2. Cat(x, y)[Len(x) + k] = y[k]
        BY <3>1, CatSecond, Zenon
      <3>3. QED
        BY <1>1, <1>2, <3>2, Zenon
    <2>3. QED
      BY <1>3, <2>1, <2>2, Zenon
  <1>7. (at + n <= m \/ n = 0) /\ (a + l <= m \/ l = 0)
    BY <1>3, <1>5
  <1>8. At(b, at, x)
    BY <1>1, <1>4, <1>7, AtBytes
  <1>9. At(b, a, y)
    BY <1>1, <1>6, <1>7, AtBytes
  <1>10. QED
    BY <1>1, <1>5, <1>8, <1>9

\* What is patched into b lies there,
LEMMA AtPatched ==
    ASSUME NEW b \in Seq(Byte), NEW at \in Nat, NEW p \in Seq(Byte), at + Len(p) <= Len(b)
    PROVE  At(Patch(b, at, p), at, p)
  <1>1. /\ Patch(b, at, p) \in Seq(Byte) /\ Len(Patch(b, at, p)) = Len(b)
        /\ \A i \in 1 .. Len(p) : Patch(b, at, p)[at + i] = p[i]
    BY PatchIs
  <1>2. at + Len(p) <= Len(Patch(b, at, p)) \/ Len(p) = 0
    BY <1>1
  <1>3. QED
    BY <1>1, <1>2, AtBytes

\* and what lies beside it stays.
LEMMA AtKept ==
    ASSUME NEW b \in Seq(Byte), NEW at \in Nat, NEW p \in Seq(Byte), at + Len(p) <= Len(b),
           NEW i \in Nat, NEW x \in Seq(Byte), At(b, i, x), i + Len(x) <= at \/ at + Len(p) <= i
    PROVE  At(Patch(b, at, p), i, x)
  <1>1. PICK n, m, l \in Nat : n = Len(x) /\ m = Len(b) /\ l = Len(p)
    OBVIOUS
  <1> DEFINE q == Patch(b, at, p)
  <1>2. /\ q \in Seq(Byte) /\ Len(q) = m
        /\ \A k \in 1 .. m : k <= at \/ k > at + l => q[k] = b[k]
    <2>1. q \in Seq(Byte) /\ Len(q) = Len(b)
      BY PatchIs
    <2>2. \A k \in 1 .. Len(b) : k <= at \/ k > at + Len(p) => q[k] = b[k]
      BY PatchIs
    <2> HIDE DEF q
    <2>3. QED
      BY <1>1, <2>1, <2>2, Zenon
  <1> HIDE DEF q
  <1>3. (i + n <= m \/ n = 0) /\ \A k \in 1 .. n : b[i + k] = x[k]
    BY <1>1, AtBytes
  <1>4. ASSUME NEW k \in 1 .. n PROVE q[i + k] = x[k]
    <2>1. PICK j \in 1 .. m : j = i + k /\ (j <= at \/ j > at + l)
      <3>1. i + k \in 1 .. m
        BY <1>3
      <3>2. i + k <= at \/ i + k > at + l
        BY <1>1
      <3>3. QED
        BY <3>1, <3>2
    <2>2. q[j] = b[j]
      BY <1>2, <2>1
    <2>3. b[i + k] = x[k]
      BY <1>3
    <2>4. QED
      BY <2>1, <2>2, <2>3
  <1>5. At(q, i, x)
    BY <1>1, <1>2, <1>3, <1>4, AtBytes
  <1>6. QED
    BY <1>5 DEF q

\* What lies within a slice.
LEMMA AtSlice ==
    ASSUME NEW b \in Seq(Byte), NEW m \in Nat, NEW n \in Nat, m <= n, n <= Len(b),
           NEW i \in Nat, NEW x \in Seq(Byte), At(b, m + i, x), m + i + Len(x) <= n
    PROVE  At(SubSeq(b, m + 1, n), i, x)
  <1> DEFINE s == SubSeq(b, m + 1, n)
  <1>1. s \in Seq(Byte) /\ Len(s) = n - m /\ \A k \in 1 .. n - m : s[k] = b[m + k]
    BY Slice
  <1> HIDE DEF s
  <1>2. PICK l \in Nat : l = Len(x)
    OBVIOUS
  <1>3. PICK a \in Nat : a = m + i
    OBVIOUS
  <1>4. \A k \in 1 .. l : b[a + k] = x[k]
    BY <1>2, <1>3, AtBytes
  <1>5. ASSUME NEW k \in 1 .. l PROVE s[i + k] = x[k]
    <2>1. PICK j \in 1 .. n - m : j = i + k /\ m + j = a + k
      <3>1. i + k \in 1 .. n - m /\ m + (i + k) = a + k
        BY <1>2, <1>3
      <3>2. QED
        BY <3>1
    <2>2. s[j] = b[m + j]
      BY <1>1, <2>1
    <2>3. QED
      BY <1>4, <2>1, <2>2
  <1>6. i + l <= n - m
    BY <1>2
  <1>7. At(s, i, x)
    BY <1>1, <1>2, <1>5, <1>6, AtBytes
  <1>8. QED
    BY <1>7 DEF s

\* What lies behind the first at bytes is the slice there.
LEMMA AtIs ==
    ASSUME NEW b \in Seq(Byte), NEW at \in Nat, NEW x \in Seq(Byte), At(b, at, x), at + Len(x) <= Len(b)
    PROVE  SubSeq(b, at + 1, at + Len(x)) = x
  <1>1. PICK n, c \in Nat : n = Len(x) /\ c = at + n /\ c - at = n /\ at <= c /\ c <= Len(b)
    <2>1. PICK n \in Nat : n = Len(x)
      OBVIOUS
    <2>2. PICK c \in Nat : c = at + n
      OBVIOUS
    <2>3. c - at = n /\ at <= c /\ c <= Len(b)
      BY <2>1, <2>2
    <2>4. QED
      BY <2>1, <2>2, <2>3
  <1> DEFINE s == SubSeq(b, at + 1, c)
  <1>2. s \in Seq(Byte) /\ Len(s) = n /\ \A k \in 1 .. n : s[k] = b[at + k]
    <2>1. /\ s \in Seq(Byte) /\ Len(s) = c - at /\ \A k \in 1 .. c - at : s[k] = b[at + k]
      BY <1>1, Slice
    <2> HIDE DEF s
    <2>2. QED
      BY <1>1, <2>1
  <1> HIDE DEF s
  <1>3. \A k \in 1 .. n : b[at + k] = x[k]
    BY <1>1, AtBytes
  <1>4. s = x
    BY <1>1, <1>2, <1>3, SameSeq
  <1>5. QED
    BY <1>1, <1>4 DEF s

-----------------------------------------------------------------------------
(* What Marshal writes                                                      *)

\* What is appended lies behind what was there.
LEMMA Appended ==
    ASSUME NEW b \in Seq(Byte), NEW c \in Seq(Byte)
    PROVE  /\ Cat(b, c) \in Seq(Byte) /\ Len(Cat(b, c)) = Len(b) + Len(c)
           /\ At(Cat(b, c), Len(b), c)
  <1>1. At(c, 0, c)
    BY AtSelf
  <1>2. At(Cat(b, c), Len(b) + 0, c)
    <2>1. 0 \in Nat
      OBVIOUS
    <2>2. QED
      BY <1>1, <2>1, AtSecond
  <1>3. Len(b) + 0 = Len(b)
    OBVIOUS
  <1>4. QED
    BY <1>2, <1>3, CatType

\* A number in bytes.
LEMMA NumIs ==
    ASSUME NEW n \in Int, NEW width \in 1 .. 8
    PROVE  Num(n, width) \in Seq(Byte) /\ Len(Num(n, width)) = width
  <1>1. width \in 0 .. 8
    OBVIOUS
  <1>2. QED
    BY <1>1, NumType

\* The fields that Unmarshal looks at lie where it looks for them.
HeaderAt(b, version, n) ==
    /\ b \in Seq(Byte) /\ 56 + 8 * n <= Len(b)
    /\ At(b, 0, Num(byteOrder, 2)) /\ At(b, 2, Num(version, 2)) /\ At(b, 24, Num(1, 4))
    /\ At(b, 44, Num(SetOff, 4)) /\ At(b, 52, Num(n, 4))

\* The fields of the header that Unmarshal reads.
LEMMA HeaderWritten ==
    ASSUME NEW version \in Nat
    PROVE  LET h == Header(version)
           IN  /\ h \in Seq(Byte) /\ Len(h) = 48
               /\ At(h, 0, Num(byteOrder, 2)) /\ At(h, 2, Num(version, 2)) /\ At(h, 24, Num(1, 4))
               /\ At(h, 44, Num(SetOff, 4))
  <1>1. PICK a \in Seq(Byte) : a = Num(byteOrder, 2) /\ Len(a) = 2
    <2>1. byteOrder \in Int /\ 2 \in 1 .. 8
      BY SmallPowers DEF byteOrder
    <2>2. QED
      BY <2>1, NumIs
  <1>2. PICK v \in Seq(Byte) : v = Num(version, 2) /\ Len(v) = 2
    <2>1. version \in Int /\ 2 \in 1 .. 8
      OBVIOUS
    <2>2. QED
      BY <2>1, NumIs
  <1>3. PICK z \in Seq(Byte) : z = Zeros(20) /\ Len(z) = 20
    BY ZerosType
  <1>4. PICK o \in Seq(Byte) : o = Num(1, 4) /\ Len(o) = 4
    <2>1. 1 \in Int /\ 4 \in 1 .. 8
      OBVIOUS
    <2>2. QED
      BY <2>1, NumIs
  <1>5. PICK y \in Seq(Byte) : y = Zeros(16) /\ Len(y) = 16
    BY ZerosType
  <1>6. PICK p \in Seq(Byte) : p = Num(SetOff, 4) /\ Len(p) = 4
    <2>1. SetOff \in Int /\ 4 \in 1 .. 8
      BY DEF SetOff
    <2>2. QED
      BY <2>1, NumIs
  <1>7. Header(version) = Cat(Cat(Cat(Cat(Cat(a, v), z), o), y), p)
    BY <1>1, <1>2, <1>3, <1>4, <1>5, <1>6 DEF Header, Cat
  <1> DEFINE h2 == Cat(a, v)
  <1>8. h2 \in Seq(Byte) /\ Len(h2) = 4 /\ At(h2, 0, a) /\ At(h2, 2, v)
    <2>1. h2 \in Seq(Byte) /\ Len(h2) = Len(a) + Len(v) /\ At(h2, Len(a), v)
      BY Appended
    <2>2. At(h2, 0, a)
      BY AtSelf, AtFirst
    <2> HIDE DEF h2
    <2>3. Len(h2) = 4
      BY <1>1, <1>2, <2>1
    <2>4. At(h2, 2, v)
      BY <1>1, <2>1, Zenon
    <2>5. QED
      BY <2>1, <2>2, <2>3, <2>4, Zenon
  <1> HIDE DEF h2
  <1> DEFINE h3 == Cat(h2, z)
  <1>9. h3 \in Seq(Byte) /\ Len(h3) = 24 /\ At(h3, 0, a) /\ At(h3, 2, v)
    <2>1. h3 \in Seq(Byte) /\ Len(h3) = Len(h2) + Len(z)
      BY <1>8, Appended
    <2>2. 0 \in Nat /\ 2 \in Nat
      OBVIOUS
    <2>3. At(h3, 0, a) /\ At(h3, 2, v)
      BY <1>8, <2>2, AtFirst
    <2> HIDE DEF h3
    <2>4. QED
      BY <1>3, <1>8, <2>1, <2>3
  <1> HIDE DEF h3
  <1> DEFINE h4 == Cat(h3, o)
  <1>10. h4 \in Seq(Byte) /\ Len(h4) = 28 /\ At(h4, 0, a) /\ At(h4, 2, v) /\ At(h4, 24, o)
    <2>1. h4 \in Seq(Byte) /\ Len(h4) = Len(h3) + Len(o) /\ At(h4, Len(h3), o)
      BY <1>9, Appended
    <2>2. 0 \in Nat /\ 2 \in Nat
      OBVIOUS
    <2>3. At(h4, 0, a) /\ At(h4, 2, v)
      BY <1>9, <2>2, AtFirst
    <2> HIDE DEF h4
    <2>4. QED
      BY <1>4, <1>9, <2>1, <2>3
  <1> HIDE DEF h4
  <1> DEFINE h5 == Cat(h4, y)
  <1>11. h5 \in Seq(Byte) /\ Len(h5) = 44 /\ At(h5, 0, a) /\ At(h5, 2, v) /\ At(h5, 24, o)
    <2>1. h5 \in Seq(Byte) /\ Len(h5) = Len(h4) + Len(y)
      BY <1>10, Appended
    <2>2. 0 \in Nat /\ 2 \in Nat /\ 24 \in Nat
      OBVIOUS
    <2>3. At(h5, 0, a) /\ At(h5, 2, v) /\ At(h5, 24, o)
      BY <1>10, <2>2, AtFirst
    <2> HIDE DEF h5
    <2>4. QED
      BY <1>5, <1>10, <2>1, <2>3
  <1> HIDE DEF h5
  <1> DEFINE h6 == Cat(h5, p)
  <1>12. h6 \in Seq(Byte) /\ Len(h6) = 48 /\ At(h6, 0, a) /\ At(h6, 2, v) /\ At(h6, 24, o) /\ At(h6, 44, p)
    <2>1. h6 \in Seq(Byte) /\ Len(h6) = Len(h5) + Len(p) /\ At(h6, Len(h5), p)
      BY <1>11, Appended
    <2>2. 0 \in Nat /\ 2 \in Nat /\ 24 \in Nat
      OBVIOUS
    <2>3. At(h6, 0, a) /\ At(h6, 2, v) /\ At(h6, 24, o)
      BY <1>11, <2>2, AtFirst
    <2> HIDE DEF h6
    <2>4. QED
      BY <1>6, <1>11, <2>1, <2>3
  <1> HIDE DEF h6
  <1>13. Header(version) = h6
    BY <1>7 DEF h2, h3, h4, h5, h6
  <1>14. QED
    BY <1>1, <1>2, <1>4, <1>6, <1>12, <1>13

\* The stream MarshalHeader begins: the header, and an empty table.
LEMMA BeginsLaid ==
    ASSUME NEW version \in Nat, NEW n \in Nat
    PROVE  LET b == Header(version) \o Zeros(4) \o Num(n, 4) \o Zeros(8 * n)
           IN  HeaderAt(b, version, n) /\ Len(b) = 56 + 8 * n
  <1>1. PICK h \in Seq(Byte) :
           /\ h = Header(version) /\ Len(h) = 48
           /\ At(h, 0, Num(byteOrder, 2)) /\ At(h, 2, Num(version, 2)) /\ At(h, 24, Num(1, 4))
           /\ At(h, 44, Num(SetOff, 4))
    BY HeaderWritten
  <1>2. PICK z \in Seq(Byte) : z = Zeros(4) /\ Len(z) = 4
    BY ZerosType
  <1>3. PICK c \in Seq(Byte) : c = Num(n, 4) /\ Len(c) = 4
    <2>1. n \in Int /\ 4 \in 1 .. 8
      OBVIOUS
    <2>2. QED
      BY <2>1, NumIs
  <1>4. PICK y \in Seq(Byte) : y = Zeros(8 * n) /\ Len(y) = 8 * n
    <2>1. 8 * n \in Nat
      OBVIOUS
    <2>2. QED
      BY <2>1, ZerosType
  <1>5. Header(version) \o Zeros(4) \o Num(n, 4) \o Zeros(8 * n) = Cat(Cat(Cat(h, z), c), y)
    BY <1>1, <1>2, <1>3, <1>4 DEF Cat
  <1>6. PICK s, t, u, w : s = Num(byteOrder, 2) /\ t = Num(version, 2) /\ u = Num(1, 4) /\ w = Num(SetOff, 4)
    OBVIOUS
  <1>7. s \in Seq(Byte) /\ t \in Seq(Byte) /\ u \in Seq(Byte) /\ w \in Seq(Byte)
    <2>1. byteOrder \in Int /\ version \in Int /\ 1 \in Int /\ SetOff \in Int /\ 2 \in 1 .. 8 /\ 4 \in 1 .. 8
      BY SmallPowers DEF byteOrder, SetOff
    <2>2. QED
      BY <1>6, <2>1, NumIs
  <1>8. 0 \in Nat /\ 2 \in Nat /\ 24 \in Nat /\ 44 \in Nat /\ 52 \in Nat
    OBVIOUS
  <1> DEFINE Has(b) == At(b, 0, s) /\ At(b, 2, t) /\ At(b, 24, u) /\ At(b, 44, w)
  <1>9. ASSUME NEW b \in Seq(Byte), NEW x \in Seq(Byte), Has(b) PROVE Has(Cat(b, x))
    BY <1>7, <1>8, <1>9, AtFirst
  <1>10. Has(h)
    BY <1>1, <1>6
  <1> HIDE DEF Has
  <1> DEFINE b1 == Cat(h, z)
  <1>11. b1 \in Seq(Byte) /\ Len(b1) = 52 /\ Has(b1)
    <2>1. b1 \in Seq(Byte) /\ Len(b1) = Len(h) + Len(z)
      BY Appended
    <2>2. Has(b1)
      BY <1>9, <1>10
    <2> HIDE DEF b1
    <2>3. QED
      BY <1>1, <1>2, <2>1, <2>2
  <1> HIDE DEF b1
  <1> DEFINE b2 == Cat(b1, c)
  <1>12. b2 \in Seq(Byte) /\ Len(b2) = 56 /\ Has(b2) /\ At(b2, 52, c)
    <2>1. b2 \in Seq(Byte) /\ Len(b2) = Len(b1) + Len(c) /\ At(b2, Len(b1), c)
      BY <1>11, Appended
    <2>2. Has(b2)
      BY <1>9, <1>11
    <2> HIDE DEF b2
    <2>3. QED
      BY <1>3, <1>11, <2>1, <2>2
  <1> HIDE DEF b2
  <1> DEFINE b3 == Cat(b2, y)
  <1>13. b3 \in Seq(Byte) /\ Len(b3) = 56 + 8 * n /\ Has(b3) /\ At(b3, 52, c)
    <2>1. b3 \in Seq(Byte) /\ Len(b3) = Len(b2) + Len(y)
      BY <1>12, Appended
    <2>2. At(b3, 52, c)
      BY <1>8, <1>12, AtFirst
    <2>3. Has(b3)
      BY <1>9, <1>12
    <2> HIDE DEF b3
    <2>4. QED
      BY <1>4, <1>12, <2>1, <2>2, <2>3
  <1> HIDE DEF b3
  <1>14. Header(version) \o Zeros(4) \o Num(n, 4) \o Zeros(8 * n) = b3
    BY <1>5 DEF b1, b2, b3
  <1>15. HeaderAt(b3, version, n)
    BY <1>3, <1>6, <1>13 DEF HeaderAt, Has
  <1>16. QED
    BY <1>13, <1>14, <1>15

\* What lies in b outside the bytes from lo on, before hi, lies in c as well.
Kept(b, c, lo, hi) ==
    /\ b \in Seq(Byte) /\ c \in Seq(Byte) /\ Len(b) <= Len(c)
    /\ \A i \in Nat : \A x \in Seq(Byte) :
          At(b, i, x) /\ (i + Len(x) <= lo \/ hi <= i) => At(c, i, x)

\* The padding is appended.
LEMMA AlignAppends ==
    ASSUME NEW b \in Seq(Byte)
    PROVE  \E z \in Seq(Byte) : Align(b) = Cat(b, z)
  <1>1. (-Len(b)) % 4 \in Nat
    OBVIOUS
  <1>2. PICK z \in Seq(Byte) : z = Zeros((-Len(b)) % 4)
    BY <1>1, ZerosType
  <1>3. QED
    BY <1>2 DEF Align, Cat

\* MarshalProperty changes only the entry of the property,
LEMMA KeptByProperty ==
    ASSUME NEW b \in Seq(Byte), NEW at \in Nat, NEW p \in Seq(Byte), at + Len(p) <= Len(b),
           NEW v \in Seq(Byte)
    PROVE  Kept(b, Cat(Patch(Align(b), at, p), v), at, at + Len(p))
  <1>1. PICK a \in Seq(Byte) : a = Align(b) /\ Len(b) <= Len(a)
    BY AlignIs
  <1>2. PICK z \in Seq(Byte) : a = Cat(b, z)
    BY <1>1, AlignAppends
  <1>3. at + Len(p) <= Len(a)
    BY <1>1
  <1>4. Patch(a, at, p) \in Seq(Byte) /\ Len(Patch(a, at, p)) = Len(a)
    BY <1>3, PatchIs
  <1> DEFINE q == Patch(a, at, p)
             c == Cat(q, v)
  <1>5. ASSUME NEW i \in Nat, NEW x \in Seq(Byte), At(b, i, x), i + Len(x) <= at \/ at + Len(p) <= i
        PROVE  At(c, i, x)
    <2>1. At(a, i, x)
      BY <1>2, <1>5, AtFirst
    <2>2. At(q, i, x)
      BY <1>3, <1>5, <2>1, AtKept
    <2> HIDE DEF q
    <2>3. QED
      BY <1>4, <2>2, AtFirst DEF q
  <1>6. c \in Seq(Byte) /\ Len(c) = Len(q) + Len(v)
    BY <1>4, CatType
  <1>7. Len(b) <= Len(c)
    <2>1. PICK n, m \in Nat : n = Len(q) /\ m = Len(v)
      BY <1>4
    <2> HIDE DEF c
    <2>2. QED
      BY <1>1, <1>4, <1>6, <2>1
  <1> HIDE DEF c
  <1>8. Kept(b, c, at, at + Len(p))
    BY <1>5, <1>6, <1>7 DEF Kept
  <1>9. QED
    BY <1>1, <1>8 DEF c

\* and MarshalEnd only the size of the set.
LEMMA KeptBySeal ==
    ASSUME NEW b \in Seq(Byte), NEW at \in Nat, NEW p \in Seq(Byte), at + Len(p) <= Len(b)
    PROVE  Kept(b, Patch(Align(b), at, p), at, at + Len(p))
  <1>1. PICK a \in Seq(Byte) : a = Align(b) /\ Len(b) <= Len(a)
    BY AlignIs
  <1>2. PICK z \in Seq(Byte) : a = Cat(b, z)
    BY <1>1, AlignAppends
  <1>3. at + Len(p) <= Len(a)
    BY <1>1
  <1> DEFINE q == Patch(a, at, p)
  <1>4. q \in Seq(Byte) /\ Len(q) = Len(a)
    BY <1>3, PatchIs
  <1>5. ASSUME NEW i \in Nat, NEW x \in Seq(Byte), At(b, i, x), i + Len(x) <= at \/ at + Len(p) <= i
        PROVE  At(q, i, x)
    <2>1. At(a, i, x)
      BY <1>2, <1>5, AtFirst
    <2>2. QED
      BY <1>3, <1>5, <2>1, AtKept
  <1> HIDE DEF q
  <1>6. Kept(b, q, at, at + Len(p))
    BY <1>1, <1>4, <1>5 DEF Kept
  <1>7. QED
    BY <1>1, <1>6 DEF q

\* The header stays when they change what is behind it.
LEMMA HeaderKept ==
    ASSUME NEW b, NEW c, NEW lo \in Nat, NEW hi \in Nat, Kept(b, c, lo, hi),
           NEW version \in Nat, NEW n \in Nat, HeaderAt(b, version, n),
           lo >= 56 \/ (lo = 48 /\ hi = 52)
    PROVE  HeaderAt(c, version, n)
  <1>1. /\ b \in Seq(Byte) /\ c \in Seq(Byte) /\ Len(b) <= Len(c) /\ 56 + 8 * n <= Len(b)
    BY DEF HeaderAt, Kept
  <1>2. ASSUME NEW i \in Nat, NEW x \in Seq(Byte), At(b, i, x), i + Len(x) <= lo \/ hi <= i
        PROVE  At(c, i, x)
    BY <1>2 DEF Kept
  <1>3. byteOrder \in Int /\ version \in Int /\ 1 \in Int /\ SetOff \in Int /\ n \in Int /\ 2 \in 1 .. 8 /\ 4 \in 1 .. 8
    BY SmallPowers DEF byteOrder, SetOff
  <1>4. At(c, 0, Num(byteOrder, 2))
    <2>1. Num(byteOrder, 2) \in Seq(Byte) /\ Len(Num(byteOrder, 2)) = 2
      <3>1. byteOrder \in Int /\ 2 \in 1 .. 8
        BY <1>3
      <3>2. QED
        BY <3>1, NumIs
    <2>2. 0 \in Nat /\ 0 + 2 <= lo
      OBVIOUS
    <2>3. At(b, 0, Num(byteOrder, 2))
      BY DEF HeaderAt
    <2>4. QED
      BY <1>2, <2>1, <2>2, <2>3
  <1>5. At(c, 2, Num(version, 2))
    <2>1. Num(version, 2) \in Seq(Byte) /\ Len(Num(version, 2)) = 2
      BY <1>3, NumIs
    <2>2. 2 \in Nat /\ 2 + 2 <= lo
      OBVIOUS
    <2>3. At(b, 2, Num(version, 2))
      BY DEF HeaderAt
    <2>4. QED
      BY <1>2, <2>1, <2>2, <2>3
  <1>6. At(c, 24, Num(1, 4))
    <2>1. Num(1, 4) \in Seq(Byte) /\ Len(Num(1, 4)) = 4
      BY <1>3, NumIs
    <2>2. 24 \in Nat /\ 24 + 4 <= lo
      OBVIOUS
    <2>3. At(b, 24, Num(1, 4))
      BY DEF HeaderAt
    <2>4. QED
      BY <1>2, <2>1, <2>2, <2>3
  <1>7. At(c, 44, Num(SetOff, 4))
    <2>1. Num(SetOff, 4) \in Seq(Byte) /\ Len(Num(SetOff, 4)) = 4
      BY <1>3, NumIs
    <2>2. 44 \in Nat /\ 44 + 4 <= lo
      OBVIOUS
    <2>3. At(b, 44, Num(SetOff, 4))
      BY DEF HeaderAt
    <2>4. QED
      BY <1>2, <2>1, <2>2, <2>3
  <1>8. At(c, 52, Num(n, 4))
    <2>1. Num(n, 4) \in Seq(Byte) /\ Len(Num(n, 4)) = 4
      BY <1>3, NumIs
    <2>2. 52 \in Nat /\ (52 + 4 <= lo \/ hi <= 52)
      OBVIOUS
    <2>3. At(b, 52, Num(n, 4))
      BY DEF HeaderAt
    <2>4. QED
      BY <1>2, <2>1, <2>2, <2>3
  <1>9. QED
    BY <1>1, <1>4, <1>5, <1>6, <1>7, <1>8 DEF HeaderAt

\* The entry of a property in the table, and its value with its type.
EntryBytes(p, off) == Cat(Num(p.id, 4), Num(off, 4))
ValueBytes(p, page) == Cat(Cat(Num(p.value.vt, 2), Zeros(2)), EncodeValue(p.value, page))

\* The first k properties are ones that Marshal takes.
Taken(props, k, page) ==
    \A i \in 1 .. k : props[i].id # 0 /\ Encodable(props[i].value, page)

\* One property is written: its entry, and its value before end.
LaidOne(b, p, i, n, off, end, page) ==
    /\ off \in Nat /\ 8 + 8 * n <= off
    /\ off + Len(ValueBytes(p, page)) <= end /\ SetOff + end <= Len(b)
    /\ At(b, SetOff + 8 * i, EntryBytes(p, off))
    /\ At(b, SetOff + off, ValueBytes(p, page))

\* Where the i-th of k values ends, in the set that is being written.
EndOf(b, k, offs, i) == IF i < k THEN offs[i + 1] ELSE Len(b) - SetOff
\* The first k properties lie in b, the value of the i-th from offs[i] on.
Laid(b, props, k, offs, page) ==
    \A i \in 1 .. k : LaidOne(b, props[i], i, Len(props), offs[i], EndOf(b, k, offs, i), page)

\* Of what types they are.
LEMMA PropertyBytes ==
    ASSUME NEW p \in [id : 0 .. U32 - 1, value : Values], p.value # Nil, NEW page, NEW off \in Nat
    PROVE  /\ EntryBytes(p, off) \in Seq(Byte) /\ Len(EntryBytes(p, off)) = 8
           /\ ValueBytes(p, page) \in Seq(Byte)
           /\ Len(ValueBytes(p, page)) = 4 + Len(EncodeValue(p.value, page))
           /\ EncodeValue(p.value, page) \in Seq(Byte)
           /\ p.id \in Nat /\ p.id < U32 /\ p.value.vt \in Nat /\ p.value.vt < Power[2]
  <1>1. p.id \in 0 .. U32 - 1 /\ p.value \in Values /\ U32 \in Nat
    BY SmallPowers DEF U32
  <1>2. PICK x \in Seq(Byte) : x = Num(p.id, 4) /\ Len(x) = 4
    <2>1. p.id \in Int /\ 4 \in 1 .. 8
      BY <1>1
    <2>2. Num(p.id, 4) \in Seq(Byte) /\ Len(Num(p.id, 4)) = 4
      BY <2>1, NumIs
    <2>3. QED
      BY <2>2
  <1>3. PICK y \in Seq(Byte) : y = Num(off, 4) /\ Len(y) = 4
    <2>1. off \in Int /\ 4 \in 1 .. 8
      OBVIOUS
    <2>2. Num(off, 4) \in Seq(Byte) /\ Len(Num(off, 4)) = 4
      BY <2>1, NumIs
    <2>3. QED
      BY <2>2
  <1>4. p.value.vt \in Nat /\ p.value.vt < Power[2]
    <2>1. p.value.vt \in {2, 3, 19, 30, 64}
      BY <1>1, ValueForms DEF vtI2, vtI4, vtUI4, vtLPSTR, vtFileTime
    <2>2. QED
      BY <2>1, SmallPowers
  <1>5. PICK t \in Seq(Byte) : t = Num(p.value.vt, 2) /\ Len(t) = 2
    <2>1. p.value.vt \in Int /\ 2 \in 1 .. 8
      BY <1>4
    <2>2. Num(p.value.vt, 2) \in Seq(Byte) /\ Len(Num(p.value.vt, 2)) = 2
      BY <2>1, NumIs
    <2>3. QED
      BY <2>2
  <1>6. PICK z \in Seq(Byte) : z = Zeros(2) /\ Len(z) = 2
    BY ZerosType
  <1>7. PICK e \in Seq(Byte) : e = EncodeValue(p.value, page)
    BY <1>1, EncodeType
  <1>8. Cat(x, y) \in Seq(Byte) /\ Len(Cat(x, y)) = 8
    <2>1. Cat(x, y) \in Seq(Byte) /\ Len(Cat(x, y)) = Len(x) + Len(y)
      BY CatType
    <2>2. Len(x) = 4 /\ Len(y) = 4
      BY <1>2, <1>3, Zenon
    <2>3. QED
      BY <2>1, <2>2
  <1>9. Cat(t, z) \in Seq(Byte) /\ Len(Cat(t, z)) = 4
    <2>1. Cat(t, z) \in Seq(Byte) /\ Len(Cat(t, z)) = Len(t) + Len(z)
      BY CatType
    <2>2. Len(t) = 2 /\ Len(z) = 2
      BY <1>5, <1>6, Zenon
    <2>3. QED
      BY <2>1, <2>2
  <1>10. Cat(Cat(t, z), e) \in Seq(Byte) /\ Len(Cat(Cat(t, z), e)) = 4 + Len(e)
    <2>1. Cat(Cat(t, z), e) \in Seq(Byte) /\ Len(Cat(Cat(t, z), e)) = Len(Cat(t, z)) + Len(e)
      BY <1>9, CatType
    <2>2. QED
      BY <1>9, <2>1
  <1>11. EntryBytes(p, off) = Cat(x, y) /\ ValueBytes(p, page) = Cat(Cat(t, z), e)
    BY <1>2, <1>3, <1>5, <1>6, <1>7 DEF EntryBytes, ValueBytes
  <1>12. QED
    BY <1>1, <1>4, <1>7, <1>8, <1>10, <1>11

\* A property stays where it is when other bytes are changed.
LEMMA LaidOneKept ==
    ASSUME NEW b, NEW c, NEW lo \in Nat, NEW hi \in Nat, Kept(b, c, lo, hi),
           NEW p \in [id : 0 .. U32 - 1, value : Values], p.value # Nil, NEW page,
           NEW i \in Nat, NEW n \in Nat, NEW off, NEW end \in Int, LaidOne(b, p, i, n, off, end, page),
           hi <= 56 + 8 * n, SetOff + 8 * i + 8 <= lo \/ hi <= SetOff + 8 * i
    PROVE  LaidOne(c, p, i, n, off, end, page)
  <1>1. off \in Nat /\ 8 + 8 * n <= off /\ off + Len(ValueBytes(p, page)) <= end /\ SetOff + end <= Len(b)
    BY DEF LaidOne
  <1>2. EntryBytes(p, off) \in Seq(Byte) /\ Len(EntryBytes(p, off)) = 8 /\ ValueBytes(p, page) \in Seq(Byte)
    BY <1>1, PropertyBytes
  <1>3. At(b, SetOff + 8 * i, EntryBytes(p, off)) /\ At(b, SetOff + off, ValueBytes(p, page))
    BY DEF LaidOne
  <1>4. ASSUME NEW j \in Nat, NEW x \in Seq(Byte), At(b, j, x), j + Len(x) <= lo \/ hi <= j
        PROVE  At(c, j, x)
    BY <1>4 DEF Kept
  <1>5. At(c, SetOff + 8 * i, EntryBytes(p, off))
    <2>1. SetOff + 8 * i \in Nat
      BY DEF SetOff
    <2>2. QED
      BY <1>2, <1>3, <1>4, <2>1
  <1>6. At(c, SetOff + off, ValueBytes(p, page))
    <2>1. SetOff + off \in Nat /\ hi <= SetOff + off
      BY <1>1 DEF SetOff
    <2>2. QED
      BY <1>2, <1>3, <1>4, <2>1
  <1>7. SetOff + end <= Len(c)
    <2>1. b \in Seq(Byte) /\ c \in Seq(Byte) /\ Len(b) <= Len(c)
      BY DEF Kept
    <2>2. PICK m, l \in Nat : m = Len(b) /\ l = Len(c)
      BY <2>1
    <2>3. PICK v \in Nat : v = Len(ValueBytes(p, page))
      BY <1>2
    <2>4. QED
      BY <1>1, <2>1, <2>2, <2>3 DEF SetOff
  <1>8. QED
    BY <1>1, <1>5, <1>6, <1>7 DEF LaidOne

\* A value that ends before end ends before any later place.
LEMMA LaidOneWider ==
    ASSUME NEW b, NEW p, NEW i, NEW n, NEW off \in Nat, NEW end \in Int, NEW page, NEW later \in Int,
           LaidOne(b, p, i, n, off, end, page), end <= later, SetOff + later <= Len(b),
           ValueBytes(p, page) \in Seq(Byte)
    PROVE  LaidOne(b, p, i, n, off, later, page)
  <1>1. off + Len(ValueBytes(p, page)) <= end
    BY DEF LaidOne
  <1>2. PICK v \in Nat : v = Len(ValueBytes(p, page))
    OBVIOUS
  <1>3. off + Len(ValueBytes(p, page)) <= later
    BY <1>1, <1>2
  <1>4. QED
    BY <1>3 DEF LaidOne

\* What is known of a property list.
LEMMA PropertyIs ==
    ASSUME NEW props \in PropertyLists, NEW i \in 1 .. Len(props)
    PROVE  props[i] \in [id : 0 .. U32 - 1, value : Values]
  <1>1. ASSUME NEW S, NEW q \in Seq(S), NEW j \in 1 .. Len(q) PROVE q[j] \in S
    OBVIOUS
  <1>2. props \in Seq([id : 0 .. U32 - 1, value : Values])
    BY DEF PropertyLists
  <1>3. QED
    BY <1>1, <1>2

\* A value ends inside the stream.
LEMMA EndIs ==
    ASSUME NEW b \in Seq(Byte), NEW props, NEW k \in Nat, NEW offs, NEW page, Laid(b, props, k, offs, page),
           NEW i \in 1 .. k
    PROVE  offs[i] \in Nat /\ EndOf(b, k, offs, i) \in Int /\ SetOff + EndOf(b, k, offs, i) <= Len(b)
  <1>1. ASSUME NEW j \in 1 .. k PROVE offs[j] \in Nat
    BY DEF Laid, LaidOne
  <1>2. EndOf(b, k, offs, i) \in Int
    <2>1. CASE i < k
      <3>1. i + 1 \in 1 .. k
        BY <2>1
      <3>2. offs[i + 1] \in Nat
        BY <1>1, <3>1
      <3>3. QED
        BY <2>1, <3>2 DEF EndOf
    <2>2. CASE ~(i < k)
      BY <2>2 DEF EndOf, SetOff
    <2>3. QED
      BY <2>1, <2>2
  <1>3. SetOff + EndOf(b, k, offs, i) <= Len(b)
    BY DEF Laid, LaidOne
  <1>4. QED
    BY <1>1, <1>2, <1>3

\* What was written stays when the stream changes only behind its end, in an
\* entry that is not written yet, or in the set's size.
LEMMA LaidKept ==
    ASSUME NEW b, NEW c, NEW lo \in Nat, NEW hi \in Nat, Kept(b, c, lo, hi),
           NEW props \in PropertyLists, NEW k \in 0 .. Len(props), NEW offs, NEW page,
           Laid(b, props, k, offs, page), \A i \in 1 .. k : props[i].value # Nil,
           hi <= 56 + 8 * Len(props), SetOff + 8 * k + 8 <= lo \/ hi <= 56,
           NEW i \in 1 .. k
    PROVE  LaidOne(c, props[i], i, Len(props), offs[i], EndOf(b, k, offs, i), page)
  <1>1. b \in Seq(Byte) /\ k \in Nat /\ i \in Nat /\ i \in 1 .. Len(props) /\ Len(props) \in Nat
    BY DEF Kept, PropertyLists
  <1>2. offs[i] \in Nat /\ EndOf(b, k, offs, i) \in Int
    BY <1>1, EndIs
  <1>3. LaidOne(b, props[i], i, Len(props), offs[i], EndOf(b, k, offs, i), page)
    BY DEF Laid
  <1>4. SetOff + 8 * i + 8 <= lo \/ hi <= SetOff + 8 * i
    <2>1. CASE SetOff + 8 * k + 8 <= lo
      BY <1>1, <2>1 DEF SetOff
    <2>2. CASE hi <= 56
      BY <1>1, <2>2 DEF SetOff
    <2>3. QED
      BY <2>1, <2>2
  <1>5. props[i] \in [id : 0 .. U32 - 1, value : Values] /\ props[i].value # Nil
    BY <1>1, PropertyIs
  <1> DEFINE end == EndOf(b, k, offs, i)
  <1> HIDE DEF end
  <1>6. end \in Int /\ LaidOne(b, props[i], i, Len(props), offs[i], end, page)
    BY <1>2, <1>3 DEF end
  <1>7. LaidOne(c, props[i], i, Len(props), offs[i], end, page)
    BY <1>1, <1>4, <1>5, <1>6, LaidOneKept
  <1>8. QED
    BY <1>7 DEF end

\* The stream with the entry of p at index i patched and its value appended.
WithProperty(b, i, p, page) ==
    Patch(Align(b), SetOff + 8 * i, Entry(p, Align(b)))
      \o Num(p.value.vt, 2) \o Zeros(2) \o EncodeValue(p.value, page)

\* The property lies there, and the rest stays.
LEMMA WithPropertyIs ==
    ASSUME NEW b \in Seq(Byte), NEW n \in Nat, NEW i \in 1 .. n, 56 + 8 * n <= Len(b),
           NEW p \in [id : 0 .. U32 - 1, value : Values], p.value # Nil, NEW page
    PROVE  LET c == WithProperty(b, i, p, page)
               off == Len(Align(b)) - SetOff
           IN  /\ c \in Seq(Byte) /\ off \in Nat /\ Len(b) - SetOff <= off
               /\ Kept(b, c, SetOff + 8 * i, SetOff + 8 * i + 8)
               /\ LaidOne(c, p, i, n, off, Len(c) - SetOff, page)
  <1>1. PICK a \in Seq(Byte) : a = Align(b) /\ Len(b) <= Len(a)
    BY AlignIs
  <1>2. PICK m, l \in Nat : m = Len(a) /\ l = Len(b)
    OBVIOUS
  <1>3. PICK off \in Nat : off = m - 48 /\ 8 + 8 * n <= off /\ l - 48 <= off
    <2>1. m - 48 \in Nat /\ 8 + 8 * n <= m - 48 /\ l - 48 <= m - 48
      BY <1>1, <1>2
    <2>2. QED
      BY <2>1
  <1>4. PICK at \in Nat : at = SetOff + 8 * i /\ at + 8 <= l /\ at + 8 <= m
    <2>1. SetOff + 8 * i \in Nat /\ SetOff + 8 * i + 8 <= l /\ l <= m
      BY <1>1, <1>2 DEF SetOff
    <2>2. QED
      BY <2>1
  <1>5. PICK e \in Seq(Byte) : e = EntryBytes(p, off) /\ Len(e) = 8
    BY PropertyBytes
  <1>6. PICK v \in Seq(Byte) : v = ValueBytes(p, page)
    BY PropertyBytes
  <1>7. Entry(p, a) = e
    BY <1>2, <1>3, <1>5 DEF Entry, EntryBytes, Cat, SetOff
  <1>8. at + Len(e) <= Len(a) /\ at + Len(e) <= Len(b) /\ at + Len(e) = at + 8
    BY <1>2, <1>4, <1>5
  <1>9. PICK q \in Seq(Byte) : q = Patch(a, at, e) /\ Len(q) = m /\ At(q, at, e)
    <2>1. Patch(a, at, e) \in Seq(Byte) /\ Len(Patch(a, at, e)) = Len(a)
      BY <1>8, PatchIs
    <2>2. At(Patch(a, at, e), at, e)
      BY <1>8, AtPatched
    <2>3. QED
      BY <1>2, <2>1, <2>2
  <1> DEFINE c == Cat(q, v)
  <1>10. c = WithProperty(b, i, p, page)
    <2>1. /\ Num(p.value.vt, 2) \in Seq(Byte) /\ Zeros(2) \in Seq(Byte)
          /\ EncodeValue(p.value, page) \in Seq(Byte)
      <3>1. p.value.vt \in Nat /\ EncodeValue(p.value, page) \in Seq(Byte)
        BY PropertyBytes
      <3>2. p.value.vt \in Int /\ 2 \in 1 .. 8 /\ 2 \in Nat
        BY <3>1
      <3>3. QED
        BY <3>1, <3>2, NumIs, ZerosType
    <2>2. PICK t, z, x \in Seq(Byte) : /\ t = Num(p.value.vt, 2) /\ z = Zeros(2)
                                       /\ x = EncodeValue(p.value, page)
      BY <2>1
    <2>3. WithProperty(b, i, p, page) = Cat(Cat(Cat(q, t), z), x)
      BY <1>1, <1>4, <1>7, <1>9, <2>2 DEF WithProperty, Cat
    <2>4. v = Cat(Cat(t, z), x)
      BY <1>6, <2>2 DEF ValueBytes
    <2>5. Cat(Cat(Cat(q, t), z), x) = Cat(q, Cat(Cat(t, z), x))
      <3>1. Cat(t, z) \in Seq(Byte)
        BY CatType
      <3>2. Cat(q, Cat(Cat(t, z), x)) = Cat(Cat(q, Cat(t, z)), x)
        BY <3>1, CatAssoc
      <3>3. Cat(q, Cat(t, z)) = Cat(Cat(q, t), z)
        BY CatAssoc
      <3>4. QED
        BY <3>2, <3>3
    <2>6. QED
      BY <2>3, <2>4, <2>5
  <1>11. c \in Seq(Byte) /\ Len(c) = m + Len(v) /\ At(c, m, v)
    <2>1. c \in Seq(Byte) /\ Len(c) = Len(q) + Len(v) /\ At(c, Len(q), v)
      BY Appended
    <2> HIDE DEF c
    <2>2. Len(q) = m
      BY <1>9
    <2>3. QED
      BY <2>1, <2>2, Zenon
  <1>12. At(c, at, e)
    BY <1>9, AtFirst
  <1>13. Kept(b, c, at, at + 8)
    <2>1. Kept(b, Cat(Patch(Align(b), at, e), v), at, at + Len(e))
      BY <1>8, KeptByProperty
    <2>2. Patch(Align(b), at, e) = q
      BY <1>1, <1>9
    <2>3. QED
      BY <1>8, <2>1, <2>2
  <1> HIDE DEF c
  <1>14. LaidOne(c, p, i, n, off, Len(c) - SetOff, page)
    <2>1. PICK w \in Nat : w = Len(v)
      OBVIOUS
    <2>2. off + Len(ValueBytes(p, page)) <= Len(c) - SetOff /\ SetOff + (Len(c) - SetOff) <= Len(c)
      BY <1>3, <1>6, <1>11, <2>1 DEF SetOff
    <2>3. SetOff + off = m
      BY <1>3 DEF SetOff
    <2>4. QED
      BY <1>3, <1>4, <1>5, <1>6, <1>11, <1>12, <2>2, <2>3 DEF LaidOne
  <1>15. off = Len(Align(b)) - SetOff /\ Len(b) - SetOff <= off
    BY <1>1, <1>2, <1>3 DEF SetOff
  <1>16. QED
    BY <1>4, <1>10, <1>11, <1>13, <1>14, <1>15

\* Of a list Marshal takes, no value is nil.
LEMMA TakenIs ==
    ASSUME NEW props, NEW k, NEW page, Taken(props, k, page)
    PROVE  \A i \in 1 .. k : props[i].value # Nil
  BY DEF Taken, Encodable

\* One more property is written.
LEMMA PropertyLaid ==
    ASSUME NEW b \in Seq(Byte), NEW props \in PropertyLists, NEW k \in Nat, k < Len(props),
           NEW page, NEW offs, 56 + 8 * Len(props) <= Len(b),
           Laid(b, props, k, offs, page), Taken(props, k + 1, page)
    PROVE  LET c == WithProperty(b, k + 1, props[k + 1], page)
           IN  /\ c \in Seq(Byte) /\ Len(b) <= Len(c)
               /\ Kept(b, c, SetOff + 8 * (k + 1), SetOff + 8 * (k + 1) + 8)
               /\ \E f : Laid(c, props, k + 1, f, page)
  <1>1. PICK n \in Nat : n = Len(props) /\ k < n
    BY DEF PropertyLists
  <1>2. PICK j : j = k + 1 /\ j \in 1 .. n /\ j \in Nat
    BY <1>1
  <1>3. PICK p : p = props[j]
    OBVIOUS
  <1>4. p \in [id : 0 .. U32 - 1, value : Values]
    BY <1>1, <1>2, <1>3, PropertyIs
  <1>5. \A i \in 1 .. j : props[i].value # Nil
    BY <1>2, TakenIs
  <1>6. p.value # Nil
    BY <1>2, <1>3, <1>5
  <1> DEFINE c == WithProperty(b, j, p, page)
             off == Len(Align(b)) - SetOff
             f == [i \in 1 .. j |-> IF i <= k THEN offs[i] ELSE off]
  <1>7. /\ c \in Seq(Byte) /\ off \in Nat /\ Len(b) - SetOff <= off
        /\ Kept(b, c, SetOff + 8 * j, SetOff + 8 * j + 8)
        /\ LaidOne(c, p, j, n, off, Len(c) - SetOff, page)
    BY <1>1, <1>2, <1>4, <1>6, WithPropertyIs
  <1> HIDE DEF c, off
  <1>8. Len(b) <= Len(c)
    BY <1>7 DEF Kept
  <1>9. ASSUME NEW i \in 1 .. j PROVE LaidOne(c, props[i], i, n, f[i], EndOf(c, j, f, i), page)
    <2>1. CASE i \in 1 .. k
      <3>1. LaidOne(c, props[i], i, n, offs[i], EndOf(b, k, offs, i), page)
        <4>1. SetOff + 8 * j \in Nat /\ SetOff + 8 * j + 8 \in Nat /\ SetOff + 8 * j + 8 <= 56 + 8 * n
              /\ SetOff + 8 * k + 8 <= SetOff + 8 * j
          BY <1>1, <1>2 DEF SetOff
        <4>2. k \in 0 .. Len(props) /\ \A m \in 1 .. k : props[m].value # Nil
          BY <1>1, <1>2, <1>5
        <4>3. QED
          BY <1>1, <1>7, <2>1, <4>1, <4>2, LaidKept
      <3>2. PICK end \in Int : end = EndOf(b, k, offs, i) /\ SetOff + end <= Len(b)
        BY <2>1, EndIs
      <3> DEFINE later == EndOf(c, j, f, i)
      <3>3. later \in Int /\ end <= later /\ SetOff + later <= Len(c)
        <4>1. CASE i < k
          <5>1. i + 1 \in 1 .. k /\ i + 1 \in 1 .. j /\ i < j /\ i + 1 <= k
            BY <1>2, <4>1
          <5>2. f[i + 1] = offs[i + 1]
            BY <5>1
          <5>3. later = end
            BY <3>2, <4>1, <5>1, <5>2 DEF EndOf
          <5>4. SetOff + end <= Len(c)
            <6>1. PICK u, v \in Nat : u = Len(b) /\ v = Len(c) /\ u <= v
              BY <1>7, <1>8
            <6>2. QED
              BY <3>2, <6>1 DEF SetOff
          <5> HIDE DEF later
          <5>5. QED
            BY <5>3, <5>4
        <4>2. CASE i = k
          <5>1. i + 1 = j /\ i < j /\ ~(j <= k) /\ j \in 1 .. j /\ ~(i < k)
            BY <1>2, <2>1, <4>2
          <5>2. f[j] = off
            BY <5>1
          <5>3. later = off
            <6> HIDE DEF f
            <6>1. QED
              BY <5>1, <5>2 DEF EndOf
          <5>4. end = Len(b) - SetOff
            BY <3>2, <4>2, <5>1 DEF EndOf
          <5>5. SetOff + off <= Len(c)
            <6>1. off + Len(ValueBytes(p, page)) <= Len(c) - SetOff
              BY <1>7 DEF LaidOne
            <6>2. PICK w \in Nat : w = Len(ValueBytes(p, page))
              BY <1>4, <1>6, <1>7, PropertyBytes
            <6>3. PICK v \in Nat : v = Len(c)
              BY <1>7
            <6>4. QED
              BY <1>7, <6>1, <6>2, <6>3 DEF SetOff
          <5> HIDE DEF later
          <5>6. QED
            BY <1>7, <5>3, <5>4, <5>5
        <4>3. QED
          BY <2>1, <4>1, <4>2
      <3>4. offs[i] \in Nat
        BY <2>1, EndIs
      <3>5. ValueBytes(props[i], page) \in Seq(Byte)
        <4>1. i \in 1 .. Len(props) /\ props[i].value # Nil
          BY <1>1, <1>2, <1>5
        <4>2. props[i] \in [id : 0 .. U32 - 1, value : Values]
          BY <4>1, PropertyIs
        <4>3. 0 \in Nat
          OBVIOUS
        <4>4. QED
          BY <4>1, <4>2, <4>3, PropertyBytes
      <3>6. LaidOne(c, props[i], i, n, offs[i], later, page)
        <4> HIDE DEF later
        <4>1. QED
          BY <3>1, <3>2, <3>3, <3>4, <3>5, LaidOneWider
      <3>7. f[i] = offs[i]
        BY <2>1
      <3> HIDE DEF f
      <3>8. QED
        BY <3>6, <3>7
    <2>2. CASE i = j
      <3>1. f[i] = off
        BY <1>2, <2>2
      <3>2. EndOf(c, j, f, i) = Len(c) - SetOff
        BY <1>2, <2>2 DEF EndOf
      <3> HIDE DEF f
      <3>3. QED
        BY <1>3, <1>7, <2>2, <3>1, <3>2
    <2>3. QED
      BY <1>2, <2>1, <2>2
  <1> HIDE DEF f
  <1>10. Laid(c, props, j, f, page)
    BY <1>1, <1>9 DEF Laid
  <1>11. QED
    BY <1>2, <1>3, <1>7, <1>8, <1>10 DEF c

\* The set gets its size; what was written stays.
LEMMA SealIs ==
    ASSUME NEW b \in Seq(Byte), 56 <= Len(b)
    PROVE  /\ Seal(b) \in Seq(Byte) /\ Len(b) <= Len(Seal(b))
           /\ Kept(b, Seal(b), 48, 52)
           /\ At(Seal(b), 48, Num(Len(Seal(b)) - 48, 4))
  <1>1. PICK a \in Seq(Byte) : a = Align(b) /\ Len(b) <= Len(a)
    BY AlignIs
  <1>2. PICK m \in Nat : m = Len(a) /\ 56 <= m /\ m - 48 \in Nat
    BY <1>1
  <1>3. PICK e \in Seq(Byte) : e = Num(m - 48, 4) /\ Len(e) = 4
    <2>1. m - 48 \in Int /\ 4 \in 1 .. 8
      BY <1>2
    <2>2. Num(m - 48, 4) \in Seq(Byte) /\ Len(Num(m - 48, 4)) = 4
      BY <2>1, NumIs
    <2>3. QED
      BY <2>2
  <1>4. Len(e) = 4
    BY <1>3
  <1>5. 48 + Len(e) <= Len(a) /\ 48 + Len(e) <= Len(b) /\ 48 + Len(e) = 52 /\ 48 \in Nat
    BY <1>2, <1>4
  <1> DEFINE c == Patch(a, 48, e)
  <1>6. c \in Seq(Byte) /\ Len(c) = m
    BY <1>2, <1>5, PatchIs
  <1>7. At(c, 48, e)
    BY <1>5, AtPatched
  <1>8. Kept(b, c, 48, 52)
    <2>1. Kept(b, Patch(Align(b), 48, e), 48, 48 + Len(e))
      BY <1>5, KeptBySeal
    <2>2. QED
      BY <1>1, <1>5, <2>1
  <1>9. Seal(b) = c
    BY <1>1, <1>2, <1>3 DEF Seal, SetOff
  <1> HIDE DEF c
  <1>10. QED
    BY <1>1, <1>2, <1>3, <1>6, <1>7, <1>8, <1>9

\* MarshalEnd leaves the properties where they are.
LEMMA SealLaid ==
    ASSUME NEW b \in Seq(Byte), NEW props \in PropertyLists, NEW page, NEW offs,
           56 + 8 * Len(props) <= Len(b),
           Laid(b, props, Len(props), offs, page), Taken(props, Len(props), page)
    PROVE  Laid(Seal(b), props, Len(props), offs, page)
  <1>1. PICK n \in Nat : n = Len(props)
    BY DEF PropertyLists
  <1>2. PICK c \in Seq(Byte) : c = Seal(b) /\ Len(b) <= Len(c) /\ Kept(b, c, 48, 52)
    <2>1. 56 <= Len(b)
      BY <1>1
    <2>2. QED
      BY <2>1, SealIs
  <1>3. ASSUME NEW i \in 1 .. n PROVE LaidOne(c, props[i], i, n, offs[i], EndOf(c, n, offs, i), page)
    <2>1. LaidOne(c, props[i], i, n, offs[i], EndOf(b, n, offs, i), page)
      <3>1. 48 \in Nat /\ 52 \in Nat /\ 52 <= 56 + 8 * Len(props) /\ 52 <= 56 /\ n \in 0 .. Len(props)
        BY <1>1
      <3>2. \A j \in 1 .. n : props[j].value # Nil
        BY <1>1, TakenIs
      <3>3. QED
        BY <1>1, <1>2, <3>1, <3>2, LaidKept
    <2>2. PICK end \in Int : end = EndOf(b, n, offs, i) /\ SetOff + end <= Len(b) /\ offs[i] \in Nat
      BY <1>1, EndIs
    <2> DEFINE later == EndOf(c, n, offs, i)
    <2>3. later \in Int /\ end <= later /\ SetOff + later <= Len(c)
      <3>1. PICK u, v \in Nat : u = Len(b) /\ v = Len(c) /\ u <= v
        BY <1>2
      <3>2. CASE i < n
        <4>1. later = end
          BY <2>2, <3>2 DEF EndOf
        <4> HIDE DEF later
        <4>2. QED
          BY <2>2, <3>1, <4>1 DEF SetOff
      <3>3. CASE ~(i < n)
        BY <2>2, <3>1, <3>3 DEF EndOf, SetOff
      <3>4. QED
        BY <3>2, <3>3
    <2>4. ValueBytes(props[i], page) \in Seq(Byte)
      <3>1. i \in 1 .. Len(props) /\ props[i].value # Nil
        BY <1>1, TakenIs
      <3>2. props[i] \in [id : 0 .. U32 - 1, value : Values]
        BY <3>1, PropertyIs
      <3>3. 0 \in Nat
        OBVIOUS
      <3>4. QED
        BY <3>1, <3>2, <3>3, PropertyBytes
    <2>5. LaidOne(c, props[i], i, n, offs[i], later, page)
      <3> HIDE DEF later
      <3>1. QED
        BY <2>1, <2>2, <2>3, <2>4, LaidOneWider
    <2>6. QED
      BY <2>5
  <1>4. QED
    BY <1>1, <1>2, <1>3 DEF Laid

-----------------------------------------------------------------------------
(* A value that was encoded is decoded                                      *)

\* The first k characters of s as bytes, and what they make.
Chars(s, k, w) == [i \in 1 .. k |-> Num(s[i], w)]
CharsLaid(s, k, w) ==
    /\ FlattenSeq(Chars(s, k, w)) \in Seq(Byte)
    /\ Len(FlattenSeq(Chars(s, k, w))) = w * k
    /\ \A i \in 1 .. k : At(FlattenSeq(Chars(s, k, w)), w * (i - 1), Num(s[i], w))

\* A character as bytes.
LEMMA CharBytes ==
    ASSUME NEW s \in Seq(Nat), NEW i \in 1 .. Len(s), NEW w \in {1, 2}
    PROVE  Num(s[i], w) \in Seq(Byte) /\ Len(Num(s[i], w)) = w
  <1>1. s[i] \in Int /\ w \in 1 .. 8
    OBVIOUS
  <1>2. QED
    BY <1>1, NumIs

\* All of them.
LEMMA CharsType ==
    ASSUME NEW s \in Seq(Nat), NEW k \in 0 .. Len(s), NEW w \in {1, 2}
    PROVE  Chars(s, k, w) \in Seq(Seq(Byte)) /\ Len(Chars(s, k, w)) = k
  <1>1. ASSUME NEW i \in 1 .. k PROVE Num(s[i], w) \in Seq(Byte)
    <2>1. i \in 1 .. Len(s)
      OBVIOUS
    <2>2. QED
      BY <2>1, CharBytes
  <1>2. Chars(s, k, w) \in [1 .. k -> Seq(Byte)]
    BY <1>1 DEF Chars
  <1>3. k \in Nat
    OBVIOUS
  <1> DEFINE c == Chars(s, k, w)
  <1> HIDE DEF c
  <1>4. c \in Seq(Seq(Byte)) /\ Len(c) = k
    BY <1>2, <1>3 DEF c
  <1>5. QED
    BY <1>4 DEF c

\* Character by character, the text is laid out.
LEMMA CharsAreLaid ==
    ASSUME NEW s \in Seq(Nat), NEW w \in {1, 2}
    PROVE  CharsLaid(s, Len(s), w)
  <1> DEFINE Odd == {k \in 0 .. Len(s) : ~ CharsLaid(s, k, w)}
  <1>1. SUFFICES ASSUME Odd # {} PROVE FALSE
    <2>1. Len(s) \in 0 .. Len(s)
      OBVIOUS
    <2>2. QED
      BY <2>1
  <1>2. PICK k \in Odd : \A m \in Odd : k <= m
    <2>1. Odd \subseteq Nat
      OBVIOUS
    <2>2. QED
      BY <1>1, <2>1, Least
  <1>3. k \in 0 .. Len(s) /\ ~ CharsLaid(s, k, w)
    BY <1>2
  <1>4. k # 0
    <2>1. SUFFICES ASSUME k = 0 PROVE CharsLaid(s, 0, w)
      BY <1>3
    <2>2. PICK q : q = Chars(s, 0, w)
      OBVIOUS
    <2>3. Len(q) = 0 /\ q \in Seq(Byte)
      <3>1. q = <<>>
        BY <2>2 DEF Chars
      <3>2. QED
        BY <3>1
    <2>4. FlattenSeq(q) = q
      BY <2>3 DEF FlattenSeq
    <2>5. w * 0 = 0 /\ \A i \in 1 .. 0 : FALSE
      OBVIOUS
    <2>6. QED
      BY <2>2, <2>3, <2>4, <2>5, Zenon DEF CharsLaid
  <1>5. PICK j \in Nat : j = k - 1 /\ j \in 0 .. Len(s) /\ ~(k <= j) /\ k = j + 1 /\ k \in 1 .. Len(s)
    BY <1>3, <1>4
  <1>6. CharsLaid(s, j, w)
    BY <1>2, <1>5
  <1>7. PICK f \in Seq(Byte) : f = FlattenSeq(Chars(s, j, w))
    BY <1>6 DEF CharsLaid
  <1>8. Len(f) = w * j /\ \A i \in 1 .. j : At(f, w * (i - 1), Num(s[i], w))
    BY <1>6, <1>7 DEF CharsLaid
  <1>9. PICK x \in Seq(Byte) : x = Num(s[k], w) /\ Len(x) = w
    BY <1>5, CharBytes
  <1>10. FlattenSeq(Chars(s, k, w)) = Cat(f, x)
    <2>1. Chars(s, j, w) \in Seq(Seq(Byte)) /\ Len(Chars(s, j, w)) = j
      BY <1>5, CharsType
    <2>2. Chars(s, k, w) \in Seq(Seq(Byte)) /\ Len(Chars(s, k, w)) = k
      BY <1>3, CharsType
    <2>3. Agree(Chars(s, j, w), Chars(s, k, w), j)
      <3>1. \A i \in 1 .. j : i \in 1 .. k
        BY <1>5
      <3>2. QED
        BY <3>1 DEF Agree, Chars
    <2>4. Chars(s, k, w)[k] = x
      BY <1>5, <1>9 DEF Chars
    <2>5. Len(Chars(s, k, w)) = Len(Chars(s, j, w)) + 1 /\ Agree(Chars(s, j, w), Chars(s, k, w), Len(Chars(s, j, w)))
      BY <1>5, <2>1, <2>2, <2>3
    <2>6. FlattenSeq(Chars(s, k, w)) = Cat(FlattenSeq(Chars(s, j, w)), Chars(s, k, w)[Len(Chars(s, k, w))])
      BY <2>1, <2>2, <2>5, FlattenMore
    <2>7. QED
      BY <1>7, <2>2, <2>4, <2>6
  <1> DEFINE c == Cat(f, x)
  <1>11. c \in Seq(Byte) /\ Len(c) = Len(f) + Len(x) /\ At(c, Len(f), x)
    BY Appended
  <1>12. \A i \in 1 .. j : At(c, w * (i - 1), Num(s[i], w))
    <2>1. TAKE i \in 1 .. j
    <2>2. i \in 1 .. Len(s) /\ w * (i - 1) \in Nat
      BY <1>5
    <2>3. Num(s[i], w) \in Seq(Byte)
      BY <2>2, CharBytes
    <2>4. At(f, w * (i - 1), Num(s[i], w))
      BY <1>8
    <2>5. QED
      BY <2>2, <2>3, <2>4, AtFirst
  <1> HIDE DEF c
  <1>13. Len(c) = w * k
    <2>1. Len(x) = w
      BY <1>9
    <2>2. w * k = w * j + w
      BY <1>5
    <2>3. QED
      BY <1>8, <1>11, <2>1, <2>2
  <1>14. \A i \in 1 .. k : At(c, w * (i - 1), Num(s[i], w))
    <2>1. TAKE i \in 1 .. k
    <2>2. CASE i \in 1 .. j
      BY <1>12, <2>2
    <2>3. CASE i = k
      <3>1. w * (i - 1) = Len(f)
        BY <1>5, <1>8, <2>3
      <3>2. QED
        BY <1>9, <1>11, <2>3, <3>1, Zenon
    <2>4. QED
      BY <1>5, <2>2, <2>3
  <1>15. CharsLaid(s, k, w)
    BY <1>10, <1>11, <1>13, <1>14, Zenon DEF CharsLaid, c
  <1>16. QED
    BY <1>3, <1>15

\* A value is a record.
LEMMA ValueRecord ==
    ASSUME NEW value \in Values
    PROVE  value = [vt |-> value.vt, v |-> value.v]
  <1>1. \A S, T : \A r \in [vt : S, v : T] : r = [vt |-> r.vt, v |-> r.v]
    OBVIOUS
  <1>2. Nil = [vt |-> Nil.vt, v |-> Nil.v]
    BY DEF Nil
  <1>3. QED
    BY <1>1, <1>2 DEF Values

\* The text that the bytes of s make, with its terminator and its length before it.
LEMMA TextIs ==
    ASSUME NEW s \in Seq(Nat), NEW page, NEW w \in {1, 2}, w = CharSize(page)
    PROVE  \E f, z, n4 \in Seq(Byte) :
              /\ EncodeText(s, page) = Cat(n4, Cat(f, z))
              /\ n4 = Num(w * Len(s) + w, 4) /\ Len(n4) = 4
              /\ z = Terminator(page) /\ Len(z) = w
              /\ Len(f) = w * Len(s)
              /\ \A i \in 1 .. Len(s) : At(f, w * (i - 1), Num(s[i], w))
  <1>1. PICK f \in Seq(Byte) : f = FlattenSeq(Chars(s, Len(s), w))
    BY CharsAreLaid DEF CharsLaid
  <1>2. Len(f) = w * Len(s) /\ \A i \in 1 .. Len(s) : At(f, w * (i - 1), Num(s[i], w))
    BY <1>1, CharsAreLaid DEF CharsLaid
  <1>3. PICK z \in Seq(Byte) : z = Zeros(w) /\ Len(z) = w
    <2>1. w \in Nat
      OBVIOUS
    <2>2. QED
      BY <2>1, ZerosType
  <1>4. PICK t : t = Cat(f, z)
    OBVIOUS
  <1>5. t \in Seq(Byte) /\ Len(t) = w * Len(s) + w
    <2>1. t \in Seq(Byte) /\ Len(t) = Len(f) + Len(z)
      BY <1>4, CatType
    <2>2. Len(z) = w
      BY <1>3
    <2>3. QED
      BY <1>2, <2>1, <2>2
  <1>6. PICK n4 \in Seq(Byte) : n4 = Num(w * Len(s) + w, 4) /\ Len(n4) = 4
    <2>1. w * Len(s) + w \in Int /\ 4 \in 1 .. 8
      OBVIOUS
    <2>2. Num(w * Len(s) + w, 4) \in Seq(Byte) /\ Len(Num(w * Len(s) + w, 4)) = 4
      BY <2>1, NumIs
    <2>3. QED
      BY <2>2
  <1>7. [i \in DOMAIN s |-> Num(s[i], CharSize(page))] = Chars(s, Len(s), w)
    BY DEF Chars
  <1>8. Terminator(page) = z
    BY <1>3 DEF Terminator
  <1>9. FlattenSeq([i \in DOMAIN s |-> Num(s[i], CharSize(page))]) \o Terminator(page) = t
    BY <1>1, <1>4, <1>7, <1>8 DEF Cat
  <1>10. EncodeText(s, page) = Num(Len(t), 4) \o t
    BY <1>9, Zenon DEF EncodeText
  <1>11. EncodeText(s, page) = Cat(n4, Cat(f, z))
    BY <1>4, <1>5, <1>6, <1>10 DEF Cat
  <1>12. QED
    BY <1>2, <1>3, <1>6, <1>8, <1>11

\* A text reads back.
LEMMA TextReads ==
    ASSUME NEW s \in Text, NEW page, page # cpWinUnicode => \A i \in DOMAIN s : s[i] \in Byte \ Unmapped[page],
           NEW b \in Seq(Byte), At(b, 0, EncodeText(s, page)), Len(EncodeText(s, page)) <= Len(b),
           Len(EncodeText(s, page)) < U32
    PROVE  /\ Decodable(vtLPSTR, b, page)
           /\ DecodeValue(vtLPSTR, b, page) = [vt |-> vtLPSTR, v |-> s]
  <1>1. s \in Seq(Nat) /\ \A i \in DOMAIN s : s[i] < Power[CharSize(page)] /\ ~ NoCharacter(s, i, page)
    <2>1. CASE page = cpWinUnicode
      BY <2>1, TextIsSeq DEF CharSize, NoCharacter
    <2>2. CASE page # cpWinUnicode
      <3>1. \A x \in Byte : x < Power[1]
        BY SmallPowers DEF Byte
      <3>2. QED
        BY <2>2, <3>1, TextIsSeq DEF CharSize, NoCharacter
    <2>3. QED
      BY <2>1, <2>2
  <1>2. PICK w \in {1, 2} : w = CharSize(page)
    BY CharSizeIs
  <1>3. PICK f, z, n4 \in Seq(Byte) :
              /\ EncodeText(s, page) = Cat(n4, Cat(f, z))
              /\ n4 = Num(w * Len(s) + w, 4) /\ Len(n4) = 4
              /\ z = Terminator(page) /\ Len(z) = w
              /\ Len(f) = w * Len(s)
              /\ \A i \in 1 .. Len(s) : At(f, w * (i - 1), Num(s[i], w))
    <2>1. s \in Seq(Nat)
      BY <1>1
    <2>2. QED
      BY <1>2, <2>1, TextIs
  <1>4. PICK l, m, n \in Nat : l = Len(s) /\ m = w * l /\ n = m + w
    <2>1. PICK l \in Nat : l = Len(s)
      BY TextIsSeq
    <2>2. w * l \in Nat /\ w * l + w \in Nat
      OBVIOUS
    <2>3. QED
      BY <2>1, <2>2
  <1>5. Len(n4) = 4 /\ Len(z) = w /\ Len(f) = m /\ n4 = Num(n, 4) /\ z = Terminator(page)
    BY <1>3, <1>4
  <1>6. PICK t \in Seq(Byte) : t = Cat(f, z) /\ Len(t) = n
    <2>1. Cat(f, z) \in Seq(Byte) /\ Len(Cat(f, z)) = Len(f) + Len(z)
      BY CatType
    <2>2. Len(f) = m /\ Len(z) = w
      BY <1>5, Zenon
    <2>3. Len(Cat(f, z)) = n
      BY <1>4, <2>1, <2>2
    <2>4. QED
      BY <2>1, <2>3
  <1>7. EncodeText(s, page) = Cat(n4, t)
    BY <1>3, <1>6
  <1>8. Len(EncodeText(s, page)) = 4 + n
    <2>1. Len(Cat(n4, t)) = Len(n4) + Len(t)
      BY CatType
    <2>2. Len(n4) = 4 /\ Len(t) = n
      BY <1>5, <1>6, Zenon
    <2>3. QED
      BY <1>7, <2>1, <2>2
  <1>9. 4 + n <= Len(b) /\ 4 + n < U32
    BY <1>8
  <1>10. At(b, 0, n4) /\ At(b, 4, t)
    <2>1. At(b, 0, Cat(n4, t)) /\ 0 \in Nat
      BY <1>7
    <2>2. At(b, 0, n4) /\ At(b, 0 + Len(n4), t)
      BY <2>1, AtPart
    <2>3. Len(n4) = 4
      BY <1>5
    <2>4. 0 + Len(n4) = 4
      BY <2>3
    <2>5. QED
      BY <2>2, <2>4, Zenon
  <1>11. UInt(b, 0, 4) = n
    <2>1. 0 \in Nat /\ 4 \in 1 .. 8 /\ n < Power[4]
      BY <1>9, SmallPowers DEF U32
    <2>2. At(b, 0, Num(n, 4))
      BY <1>5, <1>10
    <2>3. QED
      BY <2>1, <2>2, UIntNum
  <1>12. At(b, 4, f) /\ At(b, 4 + m, z)
    <2>1. At(b, 4, Cat(f, z)) /\ 4 \in Nat
      BY <1>6, <1>10
    <2>2. At(b, 4, f) /\ At(b, 4 + Len(f), z)
      BY <2>1, AtPart
    <2>3. Len(f) = m
      BY <1>5
    <2>4. QED
      BY <2>2, <2>3
  <1>13. SubSeq(b, 5 + n - w, 4 + n) = Terminator(page)
    <2>1. Len(z) = w
      BY <1>5
    <2>2. 4 + m \in Nat /\ 4 + m + Len(z) <= Len(b) /\ 5 + n - w = 4 + m + 1 /\ 4 + n = 4 + m + Len(z)
      BY <1>4, <1>9, <2>1
    <2>3. SubSeq(b, 4 + m + 1, 4 + m + Len(z)) = z
      BY <1>12, <2>2, AtIs
    <2>4. QED
      BY <1>5, <2>2, <2>3
  <1>14. SubSeq(b, 5, 4 + n - w) = f
    <2>1. Len(f) = m
      BY <1>5
    <2>2. 4 \in Nat /\ 4 + Len(f) <= Len(b) /\ 4 + n - w = 4 + Len(f) /\ 5 = 4 + 1
      BY <1>4, <1>9, <2>1
    <2>3. SubSeq(b, 4 + 1, 4 + Len(f)) = f
      BY <1>12, <2>2, AtIs
    <2>4. QED
      BY <2>2, <2>3
  <1>15. n >= w /\ n # 0 /\ Len(b) >= 4 /\ n <= Len(b) - 4
    BY <1>4, <1>9
  <1>16. Decodable(vtLPSTR, b, page)
    BY <1>2, <1>11, <1>13, <1>15 DEF Decodable
  <1>17. Units(f, page) = s
    <2>1. (Len(f) + w - 1) \div w = l
      <3>1. Len(f) = w * l
        BY <1>4, <1>5
      <3>2. CASE w = 1
        BY <3>1, <3>2
      <3>3. CASE w = 2
        BY <3>1, <3>3
      <3>4. QED
        BY <3>2, <3>3
    <2>2. ASSUME NEW i \in 1 .. l
          PROVE  (IF w * i <= Len(f) THEN UInt(f, w * (i - 1), w) ELSE Replacement) = s[i]
      <3>1. Len(f) = w * l /\ w * i <= w * l
        BY <1>4, <1>5
      <3>2. s[i] \in Nat /\ s[i] < Power[w] /\ i \in 1 .. Len(s)
        <4>1. i \in 1 .. Len(s) /\ i \in DOMAIN s /\ s[i] \in Nat
          BY <1>1, <1>4
        <4>2. s[i] < Power[CharSize(page)]
          BY <1>1, <4>1
        <4>3. QED
          BY <1>2, <4>1, <4>2
      <3>3. w * (i - 1) \in Nat /\ w \in 1 .. 8
        OBVIOUS
      <3>4. At(f, w * (i - 1), Num(s[i], w))
        BY <1>3, <3>2
      <3>5. UInt(f, w * (i - 1), w) = s[i]
        BY <3>2, <3>3, <3>4, UIntNum
      <3>6. QED
        BY <3>1, <3>5
    <2>3. Units(f, page) = [i \in 1 .. (Len(f) + w - 1) \div w |->
              IF w * i <= Len(f) THEN UInt(f, w * (i - 1), w) ELSE Replacement]
      BY <1>2, Zenon DEF Units
    <2>4. Units(f, page) = [i \in 1 .. l |-> s[i]]
      BY <2>1, <2>2, <2>3
    <2>5. s = [i \in 1 .. l |-> s[i]]
      BY <1>1, <1>4
    <2>6. QED
      BY <2>4, <2>5
  <1>18. DecodeText(f, page) = s
    <2>1. DecodeText(f, page) = [i \in DOMAIN s |-> IF NoCharacter(s, i, page) THEN Replacement ELSE s[i]]
      BY <1>17 DEF DecodeText
    <2>2. s = [i \in DOMAIN s |-> s[i]]
      BY <1>1
    <2>3. QED
      BY <1>1, <2>1, <2>2
  <1>19. DecodeValue(vtLPSTR, b, page) = [vt |-> vtLPSTR, v |-> s]
    <2>1. DecodeValue(vtLPSTR, b, page) =
             [vt |-> vtLPSTR,
              v |-> IF UInt(b, 0, 4) = 0 THEN <<>>
                    ELSE DecodeText(SubSeq(b, 5, 4 + UInt(b, 0, 4) - CharSize(page)), page)]
      BY DEF DecodeValue, vtLPSTR, vtFileTime
    <2>2. SubSeq(b, 5, 4 + UInt(b, 0, 4) - CharSize(page)) = f
      BY <1>2, <1>11, <1>14
    <2>3. QED
      BY <1>11, <1>15, <1>18, <2>1, <2>2
  <1>20. QED
    BY <1>16, <1>19

\* So does an integer.
LEMMA IntegerReads ==
    ASSUME NEW value \in Values, value.vt \in {vtI2, vtI4, vtUI4}, value.v \in Integer(Width[value.vt]), NEW page,
           NEW b \in Seq(Byte), At(b, 0, EncodeValue(value, page)), Len(EncodeValue(value, page)) <= Len(b)
    PROVE  /\ Decodable(value.vt, b, page)
           /\ DecodeValue(value.vt, b, page) = value
           /\ EncodeValue(value, page) = Num(value.v[1], Width[value.vt])
  <1>1. PICK w \in {2, 4} : w = Width[value.vt]
    BY DEF Width, vtI2, vtI4, vtUI4, vtFileTime
  <1>2. PICK x \in Nat : x = value.v[1] /\ x < Power[w] /\ value.v = <<x>>
    <2>1. w \in 0 .. 8
      BY <1>1
    <2>2. Power[w] \in Nat
      BY <2>1, PowerType
    <2>3. value.v \in [1 .. 1 -> 0 .. Power[w] - 1]
      BY <1>1 DEF Integer
    <2>4. value.v[1] \in 0 .. Power[w] - 1 /\ value.v = <<value.v[1]>>
      BY <2>3
    <2>5. QED
      BY <2>2, <2>4
  <1>3. EncodeValue(value, page) = Num(x, w)
    BY <1>1, <1>2 DEF EncodeValue, vtI2, vtI4, vtUI4, vtLPSTR, vtFileTime
  <1>4. Len(Num(x, w)) = w
    <2>1. x \in Int /\ w \in 1 .. 8
      BY <1>1
    <2>2. QED
      BY <2>1, NumIs
  <1>5. UInt(b, 0, w) = x
    <2>1. 0 \in Nat /\ w \in 1 .. 8 /\ At(b, 0, Num(x, w))
      BY <1>1, <1>3
    <2>2. QED
      BY <1>2, <2>1, UIntNum
  <1>6. Decodable(value.vt, b, page)
    <2>1. Len(b) >= w
      BY <1>3, <1>4
    <2>2. QED
      BY <1>1, <2>1 DEF Decodable, vtI2, vtI4, vtUI4, vtLPSTR
  <1>7. DecodeValue(value.vt, b, page) = [vt |-> value.vt, v |-> <<UInt(b, 0, Width[value.vt])>>]
    BY DEF DecodeValue, vtI2, vtI4, vtUI4, vtLPSTR, vtFileTime
  <1>8. DecodeValue(value.vt, b, page) = value
    BY <1>1, <1>2, <1>5, <1>7, ValueRecord
  <1>9. QED
    BY <1>1, <1>2, <1>3, <1>6, <1>8

\* The ticks of a time that Marshal takes are a number of eight bytes.
LEMMA TicksOfSeconds ==
    ASSUME NEW t \in Int, Sec(t) \in 0 .. MaxSec
    PROVE  t \div NanosPerTick \in Nat /\ t \div NanosPerTick < Power[8]
  <1>1. PICK n, s \in Nat \ {0} : n = NanosPerTick /\ s = TicksPerSec
    BY OlepsAssumption
  <1>2. PICK d \in Nat \ {0} : d = n * s
    BY Product
  <1>3. PICK q \in Nat : q = t \div d /\ q <= MaxSec
    <2>1. Sec(t) = t \div d
      BY <1>1, <1>2 DEF Sec
    <2>2. QED
      BY <2>1
  <1>4. t \in Nat /\ t < (q + 1) * d
    <2>1. (t \div d) * d <= t /\ t < (t \div d + 1) * d
      OBVIOUS
    <2>2. q * d \in Nat
      OBVIOUS
    <2>3. QED
      BY <1>3, <2>1, <2>2
  <1>5. PICK p \in Nat : p = Power[8] - 1
    BY SmallPowers
  <1>6. PICK r \in Nat : r = p \div s /\ q + 1 <= r /\ r * s <= p
    <2>1. p \div s \in Nat /\ (p \div s) * s <= p
      OBVIOUS
    <2>2. MaxSec = p \div s - 1
      BY <1>1, <1>5 DEF MaxSec
    <2>3. QED
      BY <1>3, <2>1, <2>2
  <1>7. (q + 1) * d <= p * n
    <2>1. (q + 1) * d = ((q + 1) * s) * n
      BY <1>2
    <2>2. (q + 1) * s <= p
      <3>1. (q + 1) * s <= r * s
        BY <1>6
      <3>2. (q + 1) * s \in Nat /\ r * s \in Nat
        OBVIOUS
      <3>3. QED
        BY <1>6, <3>1, <3>2
    <2>3. PICK y \in Nat : y = (q + 1) * s
      OBVIOUS
    <2>4. y * n <= p * n
      BY <2>2, <2>3
    <2>5. QED
      BY <2>1, <2>3, <2>4
  <1>8. t \div n \in Nat /\ (t \div n) * n <= t
    BY <1>4
  <1>9. PICK k \in Nat : k = t \div n /\ k * n < p * n
    <2>1. (q + 1) * d \in Nat /\ p * n \in Nat
      OBVIOUS
    <2>2. PICK k \in Nat : k = t \div n
      BY <1>8
    <2>3. k * n \in Nat
      OBVIOUS
    <2>4. QED
      BY <1>4, <1>7, <1>8, <2>1, <2>2, <2>3
  <1>10. k < p
    <2>1. SUFFICES ASSUME p <= k PROVE FALSE
      OBVIOUS
    <2>2. p * n <= k * n
      BY <2>1
    <2>3. p * n \in Nat /\ k * n \in Nat
      OBVIOUS
    <2>4. QED
      BY <1>9, <2>2, <2>3
  <1>11. k = t \div NanosPerTick
    BY <1>1, <1>9
  <1>12. k < Power[8]
    BY <1>5, <1>10, SmallPowers
  <1>13. QED
    BY <1>11, <1>12

\* And so does a time, less what is no whole tick.
LEMMA TimeReads ==
    ASSUME NEW value \in Values, value.vt = vtFileTime, value.v = <<>> \/ value.v \in [1 .. 1 -> Int],
           NEW page, Encodable(value, page),
           NEW b \in Seq(Byte), At(b, 0, EncodeValue(value, page)), Len(EncodeValue(value, page)) <= Len(b)
    PROVE  /\ Decodable(value.vt, b, page)
           /\ DecodeValue(value.vt, b, page) = SeenValue(value)
  <1>1. PICK ticks \in Nat : /\ ticks < Power[8] /\ EncodeValue(value, page) = Num(ticks, 8)
                             /\ SeenValue(value) = [vt |-> vtFileTime, v |-> DecodeTime(ticks)]
    <2>1. value = [vt |-> vtFileTime, v |-> value.v]
      BY ValueRecord
    <2>2. EncodeValue(value, page) = EncodeTime(value.v)
      BY DEF EncodeValue, vtLPSTR, vtFileTime
    <2>3. CASE value.v = <<>>
      <3>1. EncodeValue(value, page) = Num(0, 8)
        BY <2>2, <2>3 DEF EncodeTime
      <3>2. SeenValue(value) = value /\ DecodeTime(0) = <<>>
        BY <2>3 DEF SeenValue, DecodeTime
      <3>3. 0 \in Nat /\ 0 < Power[8]
        BY SmallPowers
      <3>4. QED
        BY <2>1, <2>3, <3>1, <3>2, <3>3
    <2>4. CASE value.v # <<>>
      <3>1. PICK t \in Int : t = value.v[1]
        BY <2>4
      <3>2. Sec(t) \in 0 .. MaxSec
        BY <2>4, <3>1 DEF Encodable
      <3>3. PICK k \in Nat : k = t \div NanosPerTick /\ k < Power[8]
        BY <3>2, TicksOfSeconds
      <3>4. EncodeValue(value, page) = Num(k, 8)
        BY <2>2, <2>4, <3>1, <3>3 DEF EncodeTime
      <3>5. SeenValue(value) = [value EXCEPT !.v = DecodeTime(k)]
        BY <2>4, <3>1, <3>3 DEF SeenValue
      <3>6. SeenValue(value) = [vt |-> vtFileTime, v |-> DecodeTime(k)]
        <4>1. \A x, y : [[vt |-> vtFileTime, v |-> x] EXCEPT !.v = y] = [vt |-> vtFileTime, v |-> y]
          OBVIOUS
        <4>2. QED
          BY <2>1, <3>5, <4>1
      <3>7. QED
        BY <3>3, <3>4, <3>6
    <2>5. QED
      BY <2>3, <2>4
  <1>2. Len(Num(ticks, 8)) = 8
    <2>1. ticks \in Int /\ 8 \in 1 .. 8
      OBVIOUS
    <2>2. QED
      BY <2>1, NumIs
  <1>3. UInt(b, 0, 8) = ticks
    <2>1. 0 \in Nat /\ 8 \in 1 .. 8 /\ At(b, 0, Num(ticks, 8))
      BY <1>1
    <2>2. QED
      BY <1>1, <2>1, UIntNum
  <1>4. Decodable(value.vt, b, page)
    <2>1. Len(b) >= 8
      BY <1>1, <1>2
    <2>2. Width[vtFileTime] = 8 /\ vtFileTime # vtLPSTR
      BY DEF Width, vtI2, vtI4, vtUI4, vtFileTime, vtLPSTR
    <2>3. QED
      BY <2>1, <2>2 DEF Decodable
  <1>5. DecodeValue(value.vt, b, page) = [vt |-> vtFileTime, v |-> DecodeTime(UInt(b, 0, 8))]
    BY DEF DecodeValue, vtLPSTR, vtFileTime
  <1>6. QED
    BY <1>1, <1>3, <1>4, <1>5

\* Every value that Marshal takes reads back from a place where it lies.
LEMMA ValueReads ==
    ASSUME NEW value \in Values, NEW page, Encodable(value, page),
           NEW b \in Seq(Byte), At(b, 0, EncodeValue(value, page)), Len(EncodeValue(value, page)) <= Len(b),
           Len(b) < U32
    PROVE  /\ Decodable(value.vt, b, page)
           /\ DecodeValue(value.vt, b, page) = SeenValue(value)
  <1>1. value # Nil
    BY DEF Encodable
  <1>2. CASE value.vt \in {vtI2, vtI4, vtUI4} /\ value.v \in Integer(Width[value.vt])
    <2>1. SeenValue(value) = value
      BY <1>2 DEF SeenValue, vtI2, vtI4, vtUI4, vtFileTime
    <2>2. QED
      BY <1>2, <2>1, IntegerReads
  <1>3. CASE value.vt = vtFileTime /\ (value.v = <<>> \/ value.v \in [1 .. 1 -> Int])
    BY <1>3, TimeReads
  <1>4. CASE value.vt = vtLPSTR /\ value.v \in Text
    <2>1. value = [vt |-> vtLPSTR, v |-> value.v]
      BY <1>4, ValueRecord
    <2>2. EncodeValue(value, page) = EncodeText(value.v, page)
      BY <1>4 DEF EncodeValue, vtLPSTR, vtFileTime
    <2>3. page # cpWinUnicode => \A i \in DOMAIN value.v : value.v[i] \in Byte \ Unmapped[page]
      BY <1>4 DEF Encodable
    <2>4. Len(EncodeText(value.v, page)) < U32
      <3>1. EncodeValue(value, page) \in Seq(Byte) /\ U32 \in Nat
        BY <1>1, EncodeType, SmallPowers DEF U32
      <3>2. PICK m, l \in Nat : m = Len(EncodeValue(value, page)) /\ l = Len(b)
        BY <3>1
      <3>3. QED
        BY <2>2, <3>1, <3>2
    <2>5. SeenValue(value) = value
      BY <1>4 DEF SeenValue, vtLPSTR, vtFileTime
    <2>6. /\ Decodable(vtLPSTR, b, page)
          /\ DecodeValue(vtLPSTR, b, page) = [vt |-> vtLPSTR, v |-> value.v]
      BY <1>4, <2>2, <2>3, <2>4, TextReads
    <2>7. QED
      BY <1>4, <2>1, <2>5, <2>6
  <1>5. QED
    BY <1>1, <1>2, <1>3, <1>4, ValueForms

-----------------------------------------------------------------------------
(* The set that Marshal wrote, as Unmarshal reads it                        *)

\* One property lies in the set: its entry, and its value before end.
PartLaid(s, p, i, n, off, end, page) ==
    /\ off \in Nat /\ 8 + 8 * n <= off
    /\ off + Len(ValueBytes(p, page)) <= end /\ end <= Len(s)
    /\ At(s, 8 * i, EntryBytes(p, off))
    /\ At(s, off, ValueBytes(p, page))

\* Where the i-th value ends in the set s of a finished stream.
EndIn(s, n, offs, i) == IF i < n THEN offs[i + 1] ELSE Len(s)
\* All properties lie in the set, whose size and number of properties are right.
SetLaid(s, props, offs, page) ==
    /\ s \in Seq(Byte) /\ 8 + 8 * Len(props) <= Len(s) /\ Len(s) < U32
    /\ At(s, 0, Num(Len(s), 4)) /\ At(s, 4, Num(Len(props), 4))
    /\ Taken(props, Len(props), page)
    /\ \A i \in 1 .. Len(props) :
          PartLaid(s, props[i], i, Len(props), offs[i], EndIn(s, Len(props), offs, i), page)

\* A stream that Marshal finished.
Written(b, version, props, offs, page) ==
    /\ HeaderAt(b, version, Len(props))
    /\ At(b, SetOff, Num(Len(b) - SetOff, 4))
    /\ Laid(b, props, Len(props), offs, page)
    /\ Taken(props, Len(props), page)

\* What is known of a property that Marshal took.
LEMMA TakenBytes ==
    ASSUME NEW props \in PropertyLists, NEW page, Taken(props, Len(props), page),
           NEW i \in 1 .. Len(props)
    PROVE  /\ props[i] \in [id : 0 .. U32 - 1, value : Values] /\ props[i].value # Nil
           /\ props[i].id # 0 /\ Encodable(props[i].value, page) /\ props[i].value \in Values
           /\ ValueBytes(props[i], page) \in Seq(Byte)
           /\ EncodeValue(props[i].value, page) \in Seq(Byte)
           /\ Len(ValueBytes(props[i], page)) = 4 + Len(EncodeValue(props[i].value, page))
           /\ props[i].id \in Nat /\ props[i].id < U32
           /\ props[i].value.vt \in Nat /\ props[i].value.vt < Power[2]
  <1>1. props[i] \in [id : 0 .. U32 - 1, value : Values]
    BY PropertyIs
  <1>2. props[i].value # Nil
    BY TakenIs
  <1>3. 0 \in Nat
    OBVIOUS
  <1>4. props[i].id # 0 /\ Encodable(props[i].value, page)
    BY DEF Taken
  <1>5. props[i].value \in Values
    BY <1>1
  <1>6. QED
    BY <1>1, <1>2, <1>3, <1>4, <1>5, PropertyBytes

\* The set of a finished stream is what lies behind the header.
LEMMA SetOfStream ==
    ASSUME NEW b, NEW version \in Nat, NEW props \in PropertyLists, NEW offs, NEW page,
           Written(b, version, props, offs, page), Len(b) - SetOff < U32
    PROVE  /\ SubSeq(b, SetOff + 1, Len(b)) \in Seq(Byte)
           /\ Len(SubSeq(b, SetOff + 1, Len(b))) = Len(b) - SetOff
           /\ SetLaid(SubSeq(b, SetOff + 1, Len(b)), props, offs, page)
  <1>1. /\ b \in Seq(Byte) /\ 56 + 8 * Len(props) <= Len(b)
        /\ At(b, 52, Num(Len(props), 4)) /\ At(b, SetOff, Num(Len(b) - SetOff, 4))
        /\ Laid(b, props, Len(props), offs, page) /\ Taken(props, Len(props), page)
    BY DEF Written, HeaderAt
  <1>2. PICK n, l \in Nat : n = Len(props) /\ l = Len(b)
    BY <1>1 DEF PropertyLists
  <1>3. PICK m \in Nat : m = l - SetOff /\ 8 + 8 * n <= m /\ m < U32 /\ SetOff + m = l
    <2>1. l - SetOff \in Nat /\ 8 + 8 * n <= l - SetOff /\ l - SetOff < U32 /\ SetOff + (l - SetOff) = l
      BY <1>1, <1>2 DEF SetOff
    <2>2. QED
      BY <2>1
  <1> DEFINE s == SubSeq(b, SetOff + 1, Len(b))
  <1>4. SetOff \in Nat /\ SetOff <= Len(b) /\ Len(b) <= Len(b) /\ Len(b) \in Nat
    BY <1>2, <1>3 DEF SetOff
  <1>5. s \in Seq(Byte) /\ Len(s) = m
    <2>1. s \in Seq(Byte) /\ Len(s) = Len(b) - SetOff
      BY <1>1, <1>4, Slice
    <2>2. QED
      BY <1>2, <1>3, <2>1
  <1>6. ASSUME NEW i \in Nat, NEW x \in Seq(Byte), At(b, SetOff + i, x), SetOff + i + Len(x) <= Len(b)
        PROVE  At(s, i, x)
    BY <1>1, <1>4, <1>6, AtSlice
  <1>7. At(s, 0, Num(m, 4)) /\ At(s, 4, Num(n, 4))
    <2>1. m \in Int /\ n \in Int /\ 4 \in 1 .. 8
      OBVIOUS
    <2>2. PICK x, y \in Seq(Byte) : x = Num(m, 4) /\ y = Num(n, 4) /\ Len(x) = 4 /\ Len(y) = 4
      BY <2>1, NumIs
    <2>3. Len(x) = 4 /\ Len(y) = 4
      BY <2>2
    <2>4. SetOff + 0 + Len(x) <= Len(b) /\ SetOff + 4 + Len(y) <= Len(b) /\ SetOff + 0 = SetOff /\ SetOff + 4 = 52
          /\ 0 \in Nat /\ 4 \in Nat
      BY <1>2, <1>3, <2>3 DEF SetOff
    <2>5. At(b, SetOff + 0, x) /\ At(b, SetOff + 4, y)
      BY <1>1, <1>2, <1>3, <2>2, <2>4
    <2>6. At(s, 0, x) /\ At(s, 4, y)
      <3> HIDE DEF s
      <3>1. QED
        BY <1>6, <2>4, <2>5
    <2>7. QED
      BY <2>2, <2>6
  <1>8. ASSUME NEW i \in 1 .. n
        PROVE  PartLaid(s, props[i], i, n, offs[i], EndIn(s, n, offs, i), page)
    <2>1. LaidOne(b, props[i], i, n, offs[i], EndOf(b, n, offs, i), page)
      BY <1>1, <1>2 DEF Laid
    <2>2. PICK off \in Nat, end \in Int : off = offs[i] /\ end = EndOf(b, n, offs, i) /\ SetOff + end <= Len(b)
      BY <1>1, <1>2, EndIs
    <2>3. end = EndIn(s, n, offs, i)
      <3> HIDE DEF s
      <3>1. QED
        BY <1>2, <1>3, <1>5, <2>2 DEF EndOf, EndIn
    <2>4. i \in 1 .. Len(props)
      BY <1>2
    <2>5. PICK v, e \in Seq(Byte) : v = ValueBytes(props[i], page) /\ e = EntryBytes(props[i], off) /\ Len(e) = 8
      <3>1. props[i] \in [id : 0 .. U32 - 1, value : Values] /\ props[i].value # Nil
        BY <1>1, <2>4, TakenBytes
      <3>2. QED
        BY <3>1, PropertyBytes
    <2>6. /\ 8 + 8 * n <= off /\ off + Len(v) <= end
          /\ At(b, SetOff + 8 * i, e) /\ At(b, SetOff + off, v)
      BY <2>1, <2>2, <2>5 DEF LaidOne
    <2>7. Len(e) = 8
      BY <2>5
    <2>8. PICK k \in Nat : k = Len(v)
      OBVIOUS
    <2>9. SetOff + 8 * i + Len(e) <= Len(b) /\ SetOff + off + Len(v) <= Len(b) /\ 8 * i \in Nat /\ end <= m
      <3>1. SetOff + end <= l /\ off + k <= end
        BY <1>2, <2>2, <2>6, <2>8
      <3>2. SetOff + m = l /\ 8 + 8 * n <= m
        BY <1>3
      <3>3. end <= m /\ SetOff + off + k <= l /\ SetOff + 8 * i + 8 <= l /\ 8 * i \in Nat
        BY <3>1, <3>2 DEF SetOff
      <3>4. QED
        BY <1>2, <2>7, <2>8, <3>3
    <2>10. At(s, 8 * i, e) /\ At(s, off, v)
      <3> HIDE DEF s
      <3>1. At(s, 8 * i, e)
        BY <1>6, <2>6, <2>9
      <3>2. At(s, off, v)
        BY <1>6, <2>6, <2>9
      <3>3. QED
        BY <3>1, <3>2
    <2> HIDE DEF s
    <2>11. QED
      BY <1>5, <2>2, <2>3, <2>5, <2>6, <2>9, <2>10 DEF PartLaid
  <1> HIDE DEF s
  <1>9. SetLaid(s, props, offs, page)
    BY <1>1, <1>2, <1>3, <1>5, <1>7, <1>8 DEF SetLaid
  <1>10. QED
    BY <1>2, <1>3, <1>5, <1>9 DEF s

\* Entry and value, in their parts.
LEMMA PropertyParts ==
    ASSUME NEW p \in [id : 0 .. U32 - 1, value : Values], p.value # Nil, NEW page, NEW off \in Nat, off < U32,
           NEW s \in Seq(Byte), NEW at \in Nat, At(s, at, EntryBytes(p, off))
    PROVE  UInt(s, at, 4) = p.id /\ UInt(s, at + 4, 4) = off
  <1>1. p.id \in Nat /\ p.id < U32
    BY PropertyBytes
  <1>2. PICK x, y \in Seq(Byte) : x = Num(p.id, 4) /\ y = Num(off, 4) /\ Len(x) = 4
    <2>1. p.id \in Int /\ off \in Int /\ 4 \in 1 .. 8
      BY <1>1
    <2>2. QED
      BY <2>1, NumIs
  <1>3. Len(x) = 4
    BY <1>2
  <1>4. At(s, at, x) /\ At(s, at + Len(x), y)
    <2>1. At(s, at, Cat(x, y))
      BY <1>2 DEF EntryBytes
    <2>2. QED
      BY <2>1, AtPart
  <1>5. At(s, at, Num(p.id, 4)) /\ At(s, at + 4, Num(off, 4))
    BY <1>2, <1>3, <1>4
  <1>6. at + 4 \in Nat /\ 4 \in 1 .. 8
    OBVIOUS
  <1>7. UInt(s, at, 4) = p.id
    BY <1>1, <1>5, <1>6, UIntNum DEF U32
  <1>8. UInt(s, at + 4, 4) = off
    BY <1>5, <1>6, UIntNum DEF U32
  <1>9. QED
    BY <1>7, <1>8

\* The size, the number of properties and the table read as they were written.
LEMMA SetReads ==
    ASSUME NEW s, NEW props \in PropertyLists, NEW offs, NEW page, SetLaid(s, props, offs, page)
    PROVE  /\ s \in Seq(Byte) /\ UInt(s, 0, 4) = Len(s) /\ NumProps(s) = Len(props) /\ TableFits(s)
           /\ Len(props) \in Nat
  <1>1. /\ s \in Seq(Byte) /\ 8 + 8 * Len(props) <= Len(s) /\ Len(s) < U32
        /\ At(s, 0, Num(Len(s), 4)) /\ At(s, 4, Num(Len(props), 4))
    BY DEF SetLaid
  <1>2. PICK n, l \in Nat : n = Len(props) /\ l = Len(s)
    BY <1>1 DEF PropertyLists
  <1>3. U32 \in Nat /\ U32 = Power[4]
    BY SmallPowers DEF U32
  <1>4. n < U32 /\ l < U32 /\ 0 \in Nat /\ 4 \in Nat /\ 4 \in 1 .. 8
    BY <1>1, <1>2, <1>3
  <1>5. UInt(s, 0, 4) = l
    BY <1>1, <1>2, <1>3, <1>4, UIntNum
  <1>6. UInt(s, 4, 4) = n
    BY <1>1, <1>2, <1>3, <1>4, UIntNum
  <1>7. QED
    BY <1>1, <1>2, <1>3, <1>5, <1>6 DEF NumProps, TableFits

\* The table gives the id, the offset and the end of each value.
LEMMA PacketReads ==
    ASSUME NEW s, NEW props \in PropertyLists, NEW offs, NEW page, SetLaid(s, props, offs, page),
           NEW i \in 1 .. Len(props)
    PROVE  /\ Packet(s, i - 1).id = props[i].id
           /\ Packet(s, i - 1).off = offs[i]
           /\ Packet(s, i - 1).end = EndIn(s, Len(props), offs, i)
  <1>1. PICK n \in Nat : n = Len(props)
    BY DEF PropertyLists
  <1>2. s \in Seq(Byte) /\ NumProps(s) = n /\ Len(s) < U32 /\ U32 \in Nat
    BY <1>1, SetReads DEF TableFits
  <1>3. ASSUME NEW j \in 1 .. n PROVE UInt(s, 8 * j, 4) = props[j].id /\ UInt(s, 8 * j + 4, 4) = offs[j]
    <2>1. PartLaid(s, props[j], j, n, offs[j], EndIn(s, n, offs, j), page) /\ Taken(props, n, page)
      BY <1>1 DEF SetLaid
    <2>2. j \in 1 .. Len(props)
      BY <1>1
    <2>3. props[j] \in [id : 0 .. U32 - 1, value : Values] /\ props[j].value # Nil
          /\ ValueBytes(props[j], page) \in Seq(Byte)
      BY <1>1, <2>1, <2>2, TakenBytes
    <2>4. PICK off \in Nat : off = offs[j] /\ At(s, 8 * j, EntryBytes(props[j], off))
      BY <2>1 DEF PartLaid
    <2>5. off < U32
      <3>1. off + Len(ValueBytes(props[j], page)) <= EndIn(s, n, offs, j) /\ EndIn(s, n, offs, j) <= Len(s)
        BY <2>1, <2>4 DEF PartLaid
      <3>2. EndIn(s, n, offs, j) \in Int
        <4>1. CASE j < n
          <5>1. j + 1 \in 1 .. n
            BY <4>1
          <5>2. offs[j + 1] \in Nat
            BY <1>1, <5>1 DEF SetLaid, PartLaid
          <5>3. QED
            BY <4>1, <5>2 DEF EndIn
        <4>2. CASE ~(j < n)
          BY <1>2, <4>2 DEF EndIn
        <4>3. QED
          BY <4>1, <4>2
      <3>3. PICK e \in Int : e = EndIn(s, n, offs, j)
        BY <3>2
      <3>4. PICK v, l \in Nat : v = Len(ValueBytes(props[j], page)) /\ l = Len(s)
        BY <1>2, <2>3
      <3>5. off + v <= e /\ e <= l /\ l < U32
        BY <1>2, <3>1, <3>3, <3>4
      <3>6. QED
        BY <1>2, <3>5
    <2>6. PICK at \in Nat : at = 8 * j
      OBVIOUS
    <2>7. At(s, at, EntryBytes(props[j], off))
      BY <2>4, <2>6
    <2>8. PICK p \in [id : 0 .. U32 - 1, value : Values] : p = props[j] /\ p.value # Nil
      BY <2>3
    <2>9. At(s, at, EntryBytes(p, off)) /\ at \in Nat /\ off \in Nat
      BY <2>4, <2>6, <2>7, <2>8
    <2>10. UInt(s, at, 4) = p.id /\ UInt(s, at + 4, 4) = off
      BY <1>2, <2>5, <2>8, <2>9, PropertyParts
    <2>11. QED
      BY <2>4, <2>6, <2>8, <2>10
  <1>4. i \in 1 .. n
    BY <1>1
  <1>5. 8 + 8 * (i - 1) = 8 * i /\ 12 + 8 * (i - 1) = 8 * i + 4 /\ 20 + 8 * (i - 1) = 8 * (i + 1) + 4
        /\ i - 1 + 1 = i
    BY <1>4
  <1>6. /\ Packet(s, i - 1).id = UInt(s, 8 * i, 4)
        /\ Packet(s, i - 1).off = UInt(s, 8 * i + 4, 4)
        /\ Packet(s, i - 1).end = IF i < n THEN UInt(s, 8 * (i + 1) + 4, 4) ELSE Len(s)
    BY <1>2, <1>5 DEF Packet
  <1>7. Packet(s, i - 1).end = EndIn(s, n, offs, i)
    <2>1. CASE i < n
      <3>1. i + 1 \in 1 .. n
        BY <1>4, <2>1
      <3>2. QED
        BY <1>3, <1>6, <2>1, <3>1 DEF EndIn
    <2>2. CASE ~(i < n)
      BY <1>6, <2>2 DEF EndIn
    <2>3. QED
      BY <2>1, <2>2
  <1>8. QED
    BY <1>1, <1>3, <1>4, <1>6, <1>7

\* The first-found index is that of the first property with ID 1.
LEMMA SameIndex ==
    ASSUME NEW s, NEW props \in PropertyLists, NEW offs, NEW page, SetLaid(s, props, offs, page)
    PROVE  CodePageIndex(s) = First({j \in DOMAIN props : props[j].id = 1})
  <1>1. NumProps(s) = Len(props) /\ DOMAIN props = 1 .. Len(props)
    <2>1. DOMAIN props = 1 .. Len(props)
      BY DEF PropertyLists
    <2>2. NumProps(s) = Len(props)
      BY SetReads
    <2>3. QED
      BY <2>1, <2>2
  <1>2. \A i \in 1 .. Len(props) : Packet(s, i - 1).id = props[i].id
    BY PacketReads
  <1>3. {i \in 1 .. NumProps(s) : Packet(s, i - 1).id = 1} = {j \in DOMAIN props : props[j].id = 1}
    BY <1>1, <1>2
  <1>4. QED
    BY <1>3 DEF CodePageIndex

\* Marshal's entries pass the checks of the table.
LEMMA PacketPasses ==
    ASSUME NEW s, NEW props \in PropertyLists, NEW offs, NEW page, SetLaid(s, props, offs, page),
           NEW i \in 1 .. Len(props)
    PROVE  /\ offs[i] \in Nat /\ EndIn(s, Len(props), offs, i) \in Nat
           /\ offs[i] + 4 <= EndIn(s, Len(props), offs, i) /\ EndIn(s, Len(props), offs, i) <= Len(s)
           /\ offs[i] + Len(ValueBytes(props[i], page)) <= EndIn(s, Len(props), offs, i)
           /\ At(s, offs[i], ValueBytes(props[i], page))
           /\ ~ BadPacket(s, Packet(s, i - 1))
  <1>1. PICK n, l \in Nat : n = Len(props) /\ l = Len(s)
    BY DEF PropertyLists, SetLaid
  <1>2. NumProps(s) = n /\ TableFits(s)
    BY <1>1, SetReads
  <1>3. 8 + 8 * n <= l /\ l < U32 /\ U32 \in Nat
    BY <1>1, <1>2 DEF TableFits
  <1>4. ASSUME NEW j \in 1 .. n PROVE offs[j] \in Nat /\ 8 + 8 * n <= offs[j]
    BY <1>1 DEF SetLaid, PartLaid
  <1>5. i \in 1 .. n
    BY <1>1
  <1> DEFINE e == EndIn(s, n, offs, i)
  <1>6. e \in Int
    <2>1. CASE i < n
      <3>1. i + 1 \in 1 .. n
        BY <1>5, <2>1
      <3>2. QED
        BY <1>4, <2>1, <3>1 DEF EndIn
    <2>2. CASE ~(i < n)
      BY <1>1, <2>2 DEF EndIn
    <2>3. QED
      BY <2>1, <2>2
  <1>7. /\ offs[i] + Len(ValueBytes(props[i], page)) <= e /\ e <= Len(s)
        /\ At(s, offs[i], ValueBytes(props[i], page))
    BY <1>1 DEF SetLaid, PartLaid
  <1>8. PICK v \in Nat : v = Len(ValueBytes(props[i], page)) /\ 4 <= v
    <2>1. Taken(props, Len(props), page)
      BY DEF SetLaid
    <2>2. /\ ValueBytes(props[i], page) \in Seq(Byte) /\ EncodeValue(props[i].value, page) \in Seq(Byte)
          /\ Len(ValueBytes(props[i], page)) = 4 + Len(EncodeValue(props[i].value, page))
      BY <2>1, TakenBytes
    <2>3. QED
      BY <2>2
  <1>9. PICK off \in Nat : off = offs[i] /\ 8 + 8 * n <= off
    BY <1>4, <1>5
  <1> HIDE DEF e
  <1>10. PICK end \in Int : end = e
    BY <1>6
  <1>11. off + v <= end /\ end <= l
    BY <1>1, <1>7, <1>8, <1>9, <1>10
  <1>12. end \in Nat /\ off + 4 <= end
    BY <1>8, <1>11
  <1>13. ~ BadPacket(s, Packet(s, i - 1))
    <2>1. Packet(s, i - 1).off = off /\ Packet(s, i - 1).end = end
      BY <1>1, <1>9, <1>10, PacketReads DEF e
    <2>2. MinOff(s) = 8 + 8 * n
      <3>1. NumProps(s) * 8 = 8 * n /\ (8 + 8 * n) % U32 = 8 + 8 * n
        BY <1>2, <1>3
      <3>2. QED
        BY <3>1 DEF MinOff
    <2>3. (end - off) % U32 = end - off
      BY <1>3, <1>11, <1>12
    <2>4. ~(off < 8 + 8 * n) /\ ~(end < off) /\ ~(end - off < 4) /\ ~(end > l)
      BY <1>9, <1>11, <1>12
    <2>5. QED
      BY <1>1, <2>1, <2>2, <2>3, <2>4 DEF BadPacket
  <1>14. QED
    BY <1>1, <1>7, <1>8, <1>9, <1>10, <1>11, <1>12, <1>13 DEF e

\* The bytes of a value begin with its type, the padding and the value.
LEMMA BytesRead ==
    ASSUME NEW s, NEW props \in PropertyLists, NEW offs, NEW page, SetLaid(s, props, offs, page),
           NEW i \in 1 .. Len(props)
    PROVE  LET p == Packet(s, i - 1)
               v == Bytes(s, p)
               value == props[i].value
           IN  /\ p.off <= p.end /\ p.end <= Len(s)
               /\ v \in Seq(Byte) /\ 4 + Len(EncodeValue(value, page)) <= Len(v) /\ Len(v) < U32
               /\ UInt(v, 0, 2) = value.vt /\ UInt(v, 2, 2) = 0
               /\ At(v, 4, EncodeValue(value, page))
  <1>1. s \in Seq(Byte) /\ Len(s) < U32 /\ U32 \in Nat /\ Taken(props, Len(props), page)
    BY SetReads DEF TableFits, SetLaid
  <1>2. PICK off, end \in Nat : /\ off = Packet(s, i - 1).off /\ end = Packet(s, i - 1).end
                               /\ off = offs[i] /\ end = EndIn(s, Len(props), offs, i)
    <2>1. offs[i] \in Nat /\ EndIn(s, Len(props), offs, i) \in Nat
      BY PacketPasses
    <2>2. Packet(s, i - 1).off = offs[i] /\ Packet(s, i - 1).end = EndIn(s, Len(props), offs, i)
      BY PacketReads
    <2>3. QED
      BY <2>1, <2>2
  <1>3. PICK x \in Seq(Byte) : x = ValueBytes(props[i], page)
    BY <1>1, TakenBytes
  <1>4. off + 4 <= end /\ end <= Len(s) /\ off + Len(x) <= end /\ At(s, off, x)
    BY <1>2, <1>3, PacketPasses
  <1>5. PICK l \in Nat : l = Len(s) /\ l < U32
    BY <1>1
  <1>6. off <= end /\ end <= l /\ end - off < U32 /\ 0 \in Nat /\ off + 0 = off
    BY <1>1, <1>4, <1>5
  <1> DEFINE v == SubSeq(s, off + 1, end)
  <1>7. v \in Seq(Byte) /\ Len(v) = end - off
    BY <1>1, <1>5, <1>6, Slice
  <1>8. At(v, 0, x)
    <2>1. At(s, off + 0, x) /\ off + 0 + Len(x) <= end
      BY <1>4, <1>6
    <2>2. QED
      BY <1>1, <1>4, <1>6, <2>1, AtSlice
  <1>9. Bytes(s, Packet(s, i - 1)) = v
    BY <1>2 DEF Bytes
  <1> HIDE DEF v
  <1>10. PICK t, z, y \in Seq(Byte) :
            /\ t = Num(props[i].value.vt, 2) /\ z = Zeros(2) /\ y = EncodeValue(props[i].value, page)
    <2>1. props[i].value.vt \in Int /\ 2 \in 1 .. 8 /\ 2 \in Nat
      BY <1>1, TakenBytes
    <2>2. QED
      BY <1>1, <2>1, TakenBytes, NumIs, ZerosType
  <1>11. Len(t) = 2 /\ Len(z) = 2
    <2>1. props[i].value.vt \in Int /\ 2 \in 1 .. 8 /\ 2 \in Nat
      BY <1>1, TakenBytes
    <2>2. QED
      BY <1>10, <2>1, NumIs, ZerosType
  <1>12. x = Cat(Cat(t, z), y)
    BY <1>3, <1>10 DEF ValueBytes
  <1>13. Cat(t, z) \in Seq(Byte) /\ Len(Cat(t, z)) = 4
    <2>1. Len(Cat(t, z)) = Len(t) + Len(z) /\ Cat(t, z) \in Seq(Byte)
      BY CatType
    <2>2. QED
      BY <1>11, <2>1
  <1>14. At(v, 0, Cat(t, z)) /\ At(v, 0 + Len(Cat(t, z)), y)
    BY <1>6, <1>7, <1>8, <1>12, <1>13, AtPart
  <1>15. At(v, 0, t) /\ At(v, 0 + Len(t), z)
    BY <1>6, <1>7, <1>14, AtPart
  <1>16. At(v, 4, y) /\ At(v, 2, z)
    <2>1. 0 + Len(Cat(t, z)) = 4 /\ 0 + Len(t) = 2
      BY <1>11, <1>13
    <2>2. QED
      BY <1>14, <1>15, <2>1
  <1>17. UInt(v, 0, 2) = props[i].value.vt
    <2>1. props[i].value.vt \in Nat /\ props[i].value.vt < Power[2] /\ 2 \in 1 .. 8
      BY <1>1, TakenBytes
    <2>2. QED
      BY <1>6, <1>7, <1>10, <1>15, <2>1, UIntNum
  <1>18. UInt(v, 2, 2) = 0
    <2>1. 0 < Power[2] /\ 2 \in 1 .. 8 /\ 2 \in Nat /\ 0 \in Nat
      BY SmallPowers
    <2>2. Zeros(2) = Num(0, 2)
      <3>1. Base \in Nat \ {0}
        BY OlepsAssumption
      <3>2. ASSUME NEW k \in 1 .. 2 PROVE (0 \div Power[k - 1]) % Base = 0
        <4>1. k - 1 \in 0 .. 8
          OBVIOUS
        <4>2. PICK p \in Nat \ {0} : p = Power[k - 1]
          BY <4>1, PowerType
        <4>3. 0 \div p = 0 /\ 0 % Base = 0
          BY <3>1, <4>2
        <4>4. QED
          BY <4>2, <4>3
      <3>3. QED
        BY <3>2 DEF Zeros, Num
    <2>3. QED
      BY <1>7, <1>10, <1>16, <2>1, <2>2, UIntNum
  <1>19. 4 + Len(y) <= Len(v) /\ Len(v) < U32
    <2>1. Len(x) = 4 + Len(y)
      <3>1. Len(x) = Len(Cat(t, z)) + Len(y)
        BY <1>12, <1>13, CatType
      <3>2. QED
        BY <1>13, <3>1
    <2>2. PICK m, k \in Nat : m = Len(x) /\ k = Len(y)
      OBVIOUS
    <2>3. off + m <= end /\ m = 4 + k
      BY <1>4, <2>1, <2>2
    <2>4. QED
      BY <1>6, <1>7, <2>2, <2>3
  <1>20. QED
    BY <1>2, <1>5, <1>6, <1>7, <1>9, <1>10, <1>16, <1>17, <1>18, <1>19

\* Marshal found the code page in the list.
PageIs(props, page) ==
    /\ ToSet(CodePageOf(props)) \cap Pages # {}
    /\ page = CodePageOf(props)[1]

\* What a code page marshals to is found where Marshal found it.
LEMMA PageFound ==
    ASSUME NEW props \in PropertyLists, NEW page, PageIs(props, page)
    PROVE  LET i == First({j \in DOMAIN props : props[j].id = 1})
           IN  /\ i \in 1 .. Len(props) /\ props[i].id = 1
               /\ props[i].value.vt = vtI2 /\ props[i].value.v = CodePageOf(props)
               /\ props[i].value.v \in Integer(2) /\ props[i].value.v[1] = page
               /\ page \in Pages
  <1> DEFINE T == {j \in DOMAIN props : props[j].id = 1}
             i == First(T)
  <1>1. i # 0 /\ props[i].value.vt = vtI2 /\ CodePageOf(props) = props[i].value.v
    <2>1. SUFFICES ASSUME ~(i # 0 /\ props[i].value.vt = vtI2) PROVE FALSE
      BY DEF CodePageOf
    <2>2. CodePageOf(props) = <<>>
      BY <2>1 DEF CodePageOf
    <2>3. ToSet(<<>>) = {}
      BY DEF ToSet
    <2>4. QED
      BY <2>2, <2>3 DEF PageIs
  <1>2. DOMAIN props = 1 .. Len(props)
    BY DEF PropertyLists
  <1>3. i \in 1 .. Len(props) /\ props[i].id = 1
    <2>1. T \subseteq Nat \ {0}
      BY <1>2 DEF PropertyLists
    <2>2. i \in T
      BY <1>1, <2>1, FirstIs
    <2> HIDE DEF i
    <2>3. QED
      BY <1>2, <2>2
  <1> HIDE DEF i
  <1>4. props[i].value \in Values
    BY <1>3, PropertyIs
  <1>5. props[i].value.v \in Integer(2)
    <2>1. vtI2 # vtI4 /\ vtI2 # vtUI4 /\ vtI2 # vtLPSTR /\ vtI2 # vtFileTime
      BY DEF vtI2, vtI4, vtUI4, vtLPSTR, vtFileTime
    <2>2. props[i].value # Nil
      BY <1>1 DEF Nil, vtI2
    <2>3. Width[vtI2] = 2
      BY DEF Width
    <2>4. QED
      BY <1>1, <1>4, <2>1, <2>2, <2>3, ValueForms
  <1>6. ToSet(props[i].value.v) = {props[i].value.v[1]}
    <2>1. DOMAIN props[i].value.v = 1 .. 1
      BY <1>5 DEF Integer
    <2>2. 1 .. 1 = {1}
      OBVIOUS
    <2>3. QED
      BY <2>1, <2>2 DEF ToSet
  <1>7. props[i].value.v[1] = page /\ page \in Pages
    BY <1>1, <1>6 DEF PageIs
  <1>8. QED
    BY <1>1, <1>3, <1>5, <1>7 DEF i

\* Two bytes hold it.
LEMMA PageNumber ==
    ASSUME NEW page \in Pages
    PROVE  page \in Nat /\ page < Power[2] /\ 2 \in 1 .. 8
  <1>1. Power[2] \in Nat
    BY SmallPowers
  <1>2. page \in 0 .. Power[2] - 1
    BY OlepsAssumption
  <1>3. QED
    BY <1>1, <1>2

\* The checks that a finished set passes.
LEMMA TablePasses ==
    ASSUME NEW s, NEW props \in PropertyLists, NEW offs, NEW page, SetLaid(s, props, offs, page),
           PageIs(props, page)
    PROVE  TableValid(s) /\ CodePage(s) = page
  <1>1. PICK i \in 1 .. Len(props) :
           /\ i = First({j \in DOMAIN props : props[j].id = 1})
           /\ props[i].value.vt = vtI2 /\ props[i].value.v[1] = page
    BY PageFound
  <1>2. page \in Pages
    BY PageFound
  <1>3. CodePageIndex(s) = i /\ i # 0
    BY <1>1, SameIndex
  <1>4. PICK v \in Seq(Byte) : /\ v = CodePageBytes(s) /\ 4 + Len(EncodeValue(props[i].value, page)) <= Len(v)
                              /\ UInt(v, 0, 2) = vtI2 /\ At(v, 4, EncodeValue(props[i].value, page))
    <2>1. CodePageBytes(s) = Bytes(s, Packet(s, i - 1))
      BY <1>3 DEF CodePageBytes
    <2>2. QED
      BY <1>1, <2>1, BytesRead
  <1>5. EncodeValue(props[i].value, page) = Num(page, 2)
    <2>1. vtI2 # vtLPSTR /\ vtI2 # vtFileTime /\ Width[vtI2] = 2
      BY DEF vtI2, vtLPSTR, vtFileTime, Width
    <2>2. QED
      BY <1>1, <2>1 DEF EncodeValue
  <1>6. page \in Nat /\ page < Power[2] /\ 2 \in 1 .. 8 /\ 4 \in Nat
    BY <1>2, PageNumber
  <1>7. Len(Num(page, 2)) = 2
    <2>1. page \in Int
      BY <1>6
    <2>2. QED
      BY <1>6, <2>1, NumIs
  <1>8. UInt(v, 4, 2) = page
    BY <1>4, <1>5, <1>6, UIntNum
  <1>9. Len(v) >= 6
    <2>1. 4 + Len(Num(page, 2)) <= Len(v)
      BY <1>4, <1>5, Zenon
    <2>2. PICK k, l \in Nat : k = Len(Num(page, 2)) /\ l = Len(v)
      <3>1. 2 \in Nat /\ Len(v) \in Nat
        OBVIOUS
      <3>2. QED
        BY <1>7, <3>1, Zenon
    <2>3. k = 2
      BY <1>7, <2>2, Zenon
    <2>4. 4 + k <= l
      BY <2>1, <2>2, Zenon
    <2>5. l >= 6
      BY <2>3, <2>4
    <2>6. QED
      BY <2>2, <2>5, Zenon
  <1>10. CodePage(s) = page
    BY <1>4, <1>8 DEF CodePage
  <1>11. \A k \in 0 .. NumProps(s) - 1 : ~ BadPacket(s, Packet(s, k))
    <2>1. NumProps(s) = Len(props) /\ Len(props) \in Nat
      BY SetReads
    <2>2. ASSUME NEW k \in 0 .. NumProps(s) - 1 PROVE ~ BadPacket(s, Packet(s, k))
      <3>1. PICK j \in 1 .. Len(props) : j - 1 = k
        <4>1. k + 1 \in 1 .. Len(props) /\ k + 1 - 1 = k
          BY <2>1
        <4>2. QED
          BY <4>1
      <3>2. ~ BadPacket(s, Packet(s, j - 1))
        BY PacketPasses
      <3>3. QED
        BY <3>1, <3>2
    <2>3. QED
      BY <2>2
  <1>12. QED
    BY <1>2, <1>3, <1>4, <1>9, <1>10, <1>11 DEF TableValid

\* What Unmarshal makes of the property at index i.
ElementAt(s, i, page) ==
    LET p == Packet(s, i - 1)
        b == Bytes(s, p)
    IN  [id |-> p.id, value |-> DecodeValue(UInt(b, 0, 2), SubSeq(b, 5, Len(b)), page)]

\* Unmarshal takes each property of a finished set, and makes of it what Seen says.
LEMMA PropertyReads ==
    ASSUME NEW s, NEW props \in PropertyLists, NEW offs, NEW page, SetLaid(s, props, offs, page),
           NEW i \in 1 .. Len(props)
    PROVE  LET p == Packet(s, i - 1)
               b == Bytes(s, p)
               vt == UInt(b, 0, 2)
               body == SubSeq(b, 5, Len(b))
           IN  /\ p.off <= p.end /\ p.end <= Len(s)
               /\ ~ BadProperty(p.id, b)
               /\ Decodable(vt, body, page)
               /\ ElementAt(s, i, page) = Seen(props)[i]
  <1>1. Taken(props, Len(props), page)
    BY DEF SetLaid
  <1>2. /\ props[i] \in [id : 0 .. U32 - 1, value : Values] /\ props[i].value # Nil
        /\ props[i].id # 0 /\ Encodable(props[i].value, page) /\ props[i].value \in Values
        /\ EncodeValue(props[i].value, page) \in Seq(Byte)
    BY <1>1, TakenBytes
  <1>3. Packet(s, i - 1).id = props[i].id
    BY PacketReads
  <1>4. Packet(s, i - 1).off <= Packet(s, i - 1).end /\ Packet(s, i - 1).end <= Len(s)
    BY BytesRead
  <1>5. PICK b \in Seq(Byte) :
           /\ b = Bytes(s, Packet(s, i - 1)) /\ 4 + Len(EncodeValue(props[i].value, page)) <= Len(b)
           /\ Len(b) < U32
           /\ UInt(b, 0, 2) = props[i].value.vt /\ UInt(b, 2, 2) = 0
           /\ At(b, 4, EncodeValue(props[i].value, page))
    BY BytesRead
  <1>6. props[i].value.vt \in DOMAIN Width \cup {vtLPSTR}
    BY <1>2, ValueForms DEF Width
  <1>7. ~ BadProperty(props[i].id, b)
    BY <1>2, <1>5, <1>6 DEF BadProperty
  <1>8. PICK x \in Seq(Byte) : x = EncodeValue(props[i].value, page)
    BY <1>2
  <1>9. PICK m \in Nat : m = 4
    OBVIOUS
  <1> DEFINE body == SubSeq(b, m + 1, Len(b))
  <1>10. m <= Len(b) /\ Len(b) \in Nat /\ Len(b) <= Len(b) /\ 0 \in Nat /\ m + 0 = 4 /\ 4 + Len(x) <= Len(b)
    <2>1. Len(x) \in Nat
      OBVIOUS
    <2>2. 4 + Len(x) <= Len(b)
      BY <1>5, <1>8
    <2>3. QED
      BY <1>9, <2>1, <2>2
  <1>11. body \in Seq(Byte) /\ Len(body) = Len(b) - 4
    <2>1. body \in Seq(Byte) /\ Len(body) = Len(b) - m
      BY <1>10, Slice
    <2> HIDE DEF body
    <2>2. QED
      BY <1>9, <2>1
  <1>12. At(body, 0, x)
    <2>1. At(b, m + 0, x) /\ m + 0 + Len(x) <= Len(b)
      BY <1>5, <1>8, <1>10
    <2>2. QED
      BY <1>10, <2>1, AtSlice
  <1>13. SubSeq(b, 5, Len(b)) = body
    <2>1. m + 1 = 5
      BY <1>9
    <2>2. QED
      BY <2>1
  <1> HIDE DEF body
  <1>14. Len(x) <= Len(body) /\ Len(body) < U32
    <2>1. PICK k, l, u \in Nat : k = Len(x) /\ l = Len(b) /\ u = U32
      BY SmallPowers DEF U32
    <2>2. l < u
      BY <1>5, <2>1
    <2>3. 4 + k <= l
      BY <1>10, <2>1
    <2>4. k <= l - 4 /\ l - 4 < u
      BY <2>2, <2>3
    <2>5. QED
      BY <1>11, <2>1, <2>4
  <1>15. /\ Decodable(props[i].value.vt, body, page)
         /\ DecodeValue(props[i].value.vt, body, page) = SeenValue(props[i].value)
    BY <1>2, <1>8, <1>11, <1>12, <1>14, ValueReads
  <1>16. Seen(props)[i] = [id |-> props[i].id, value |-> SeenValue(props[i].value)]
    <2>1. DOMAIN props = 1 .. Len(props)
      BY DEF PropertyLists
    <2>2. Seen(props)[i] = [props[i] EXCEPT !.value = SeenValue(props[i].value)]
      BY <2>1 DEF Seen
    <2>3. \A r \in [id : 0 .. U32 - 1, value : Values] : \A y : [r EXCEPT !.value = y] = [id |-> r.id, value |-> y]
      OBVIOUS
    <2>4. QED
      BY <1>2, <2>2, <2>3
  <1>17. QED
    <2>1. ElementAt(s, i, page) = Seen(props)[i]
      BY <1>3, <1>5, <1>13, <1>15, <1>16 DEF ElementAt
    <2>2. QED
      BY <1>3, <1>4, <1>5, <1>7, <1>13, <1>15, <2>1

\* The same of the element alone.
SeenAt(props, i) == Seen(props)[i]
\* The element that Unmarshal makes of a property is the one seen.
LEMMA ElementReads ==
    ASSUME NEW s, NEW props \in PropertyLists, NEW offs, NEW page, SetLaid(s, props, offs, page),
           NEW i \in 1 .. Len(props)
    PROVE  ElementAt(s, i, page) = SeenAt(props, i)
  BY PropertyReads DEF SeenAt

\* An integer in the beginning of a stream reads as it does in the stream.
LEMMA PrefixReads ==
    ASSUME NEW b \in Seq(Byte), NEW m \in Nat, m <= Len(b), NEW at \in Nat, NEW width \in Nat,
           at + width <= m
    PROVE  UInt(SubSeq(b, 1, m), at, width) = UInt(b, at, width)
  <1>1. PICK z \in Nat : z = 0
    OBVIOUS
  <1>2. z \in Nat /\ z <= m /\ z + at + width <= m
    BY <1>1
  <1>3. UInt(SubSeq(b, z + 1, m), at, width) = UInt(b, z + at, width)
    BY <1>2, UIntSlice
  <1>4. z + 1 = 1 /\ z + at = at
    BY <1>1
  <1>5. QED
    BY <1>3, <1>4

\* The stream of Marshal, or a beginning of it, never fails the checks of its
\* header but for bytes it does not have.
LEMMA HeaderReads ==
    ASSUME NEW b, NEW version \in 0 .. 1, NEW n, HeaderAt(b, version, n),
           NEW m \in 0 .. Len(b), NEW c, c = SubSeq(b, 1, m)
    PROVE  /\ m < SetOff => HeaderError(c) = "eof"
           /\ m >= SetOff => HeaderError(c) = "none" /\ UInt(c, 44, 4) = SetOff
           /\ c \in Seq(Byte) /\ Len(c) = m
  <1>1. b \in Seq(Byte) /\ m \in Nat /\ m <= Len(b)
    BY DEF HeaderAt
  <1>2. PICK z \in Nat : z = 0
    OBVIOUS
  <1>3. c = SubSeq(b, z + 1, m) /\ z <= m /\ m - z = m
    <2>1. z + 1 = 1 /\ z <= m /\ m - z = m
      BY <1>1, <1>2
    <2>2. QED
      BY <2>1
  <1>4. c \in Seq(Byte) /\ Len(c) = m
    BY <1>1, <1>3, Slice
  <1>5. ASSUME NEW at \in Nat, NEW width \in Nat, at + width <= m
        PROVE  UInt(c, at, width) = UInt(b, at, width)
    <2>1. UInt(SubSeq(b, 1, m), at, width) = UInt(b, at, width)
      BY <1>1, <1>5, PrefixReads
    <2>2. QED
      BY <2>1
  <1>6. /\ UInt(b, 0, 2) = byteOrder /\ UInt(b, 2, 2) = version
        /\ UInt(b, 24, 4) = 1 /\ UInt(b, 44, 4) = SetOff
    <2>1. /\ byteOrder \in Nat /\ byteOrder < Power[2] /\ version \in Nat /\ version < Power[2]
          /\ 1 < Power[4] /\ SetOff < Power[4] /\ SetOff \in Nat /\ 1 \in Nat
      BY SmallPowers DEF byteOrder, SetOff
    <2>2. 2 \in 1 .. 8 /\ 4 \in 1 .. 8 /\ 0 \in Nat /\ 2 \in Nat /\ 24 \in Nat /\ 44 \in Nat
      OBVIOUS
    <2>3. /\ At(b, 0, Num(byteOrder, 2)) /\ At(b, 2, Num(version, 2)) /\ At(b, 24, Num(1, 4))
          /\ At(b, 44, Num(SetOff, 4))
      BY DEF HeaderAt
    <2>4. UInt(b, 0, 2) = byteOrder
      BY <1>1, <2>1, <2>2, <2>3, UIntNum
    <2>5. UInt(b, 2, 2) = version
      BY <1>1, <2>1, <2>2, <2>3, UIntNum
    <2>6. UInt(b, 24, 4) = 1
      BY <1>1, <2>1, <2>2, <2>3, UIntNum
    <2>7. UInt(b, 44, 4) = SetOff
      BY <1>1, <2>1, <2>2, <2>3, UIntNum
    <2>8. QED
      BY <2>4, <2>5, <2>6, <2>7
  <1>7. /\ m >= 2 => UInt(c, 0, 2) = byteOrder
        /\ m >= 28 => ~(UInt(c, 2, 2) > 1) /\ UInt(c, 24, 4) = 1
        /\ m >= SetOff => UInt(c, 44, 4) = SetOff
    <2>1. m >= 2 => UInt(c, 0, 2) = UInt(b, 0, 2)
      <3>1. m >= 2 => 0 + 2 <= m
        BY <1>1
      <3>2. 0 \in Nat /\ 2 \in Nat
        OBVIOUS
      <3>3. QED
        BY <1>5, <3>1, <3>2
    <2>2. m >= 28 => UInt(c, 2, 2) = UInt(b, 2, 2)
      <3>1. m >= 28 => 2 + 2 <= m
        BY <1>1
      <3>2. 2 \in Nat
        OBVIOUS
      <3>3. QED
        BY <1>5, <3>1, <3>2
    <2>3. m >= 28 => UInt(c, 24, 4) = UInt(b, 24, 4)
      <3>1. m >= 28 => 24 + 4 <= m
        BY <1>1
      <3>2. 24 \in Nat /\ 4 \in Nat
        OBVIOUS
      <3>3. QED
        BY <1>5, <3>1, <3>2
    <2>4. m >= SetOff => UInt(c, 44, 4) = UInt(b, 44, 4)
      <3>1. m >= SetOff => 44 + 4 <= m
        BY <1>1 DEF SetOff
      <3>2. 44 \in Nat /\ 4 \in Nat
        OBVIOUS
      <3>3. QED
        BY <1>5, <3>1, <3>2
    <2>5. ~(version > 1)
      OBVIOUS
    <2>6. QED
      BY <1>6, <2>1, <2>2, <2>3, <2>4, <2>5
  <1> DEFINE checks == HeaderChecks(c)
  <1>8. DOMAIN checks = 1 .. 7 /\ HeaderError(c) = FirstOf(checks)
    BY DEF HeaderError, HeaderChecks
  <1>9. /\ checks[1][1] <=> m < 2
        /\ checks[2][1] <=> UInt(c, 0, 2) # byteOrder
        /\ checks[3][1] <=> m < 28
        /\ checks[4][1] <=> UInt(c, 2, 2) > 1 \/ UInt(c, 24, 4) # 1
        /\ checks[5][1] <=> m < SetOff
        /\ checks[6][1] <=> UInt(c, 44, 4) < SetOff
        /\ checks[7][1] <=> UInt(c, 44, 4) > m
    BY <1>4 DEF HeaderChecks
  <1>10. \A j \in {1, 3, 5} : checks[j][2] = "eof"
    BY DEF HeaderChecks
  <1> HIDE DEF checks
  <1>11. ~ checks[2][1] \/ checks[1][1]
    BY <1>1, <1>7, <1>9
  <1>12. ~ checks[4][1] \/ checks[3][1]
    BY <1>1, <1>7, <1>9
  <1>13. CASE m >= SetOff
    <2>1. m >= 2 /\ m >= 28
      BY <1>13 DEF SetOff
    <2>2. ~(m < 2) /\ ~(m < 28) /\ ~(m < SetOff) /\ ~(SetOff < SetOff) /\ ~(SetOff > m)
      BY <1>1, <1>13, <2>1 DEF SetOff
    <2>3. \A j \in 1 .. 7 : ~ checks[j][1]
      <3>1. ~checks[1][1] /\ ~checks[2][1] /\ ~checks[3][1] /\ ~checks[4][1]
        BY <1>9, <1>11, <1>12, <2>2, Zenon
      <3>2. ~checks[5][1] /\ ~checks[6][1] /\ ~checks[7][1]
        BY <1>7, <1>9, <1>13, <2>2, Zenon
      <3>3. 1 .. 7 = {1, 2, 3, 4, 5, 6, 7}
        OBVIOUS
      <3>4. QED
        BY <3>1, <3>2, <3>3, Zenon
    <2>4. HeaderError(c) = "none"
      <3>1. 7 \in Nat
        OBVIOUS
      <3>2. QED
        BY <1>8, <2>3, <3>1, FirstOfIs, Zenon
    <2>5. QED
      BY <1>4, <1>7, <1>13, <2>2, <2>4, Zenon
  <1>14. CASE ~(m >= SetOff)
    <2>1. m < SetOff
      BY <1>1, <1>14 DEF SetOff
    <2>2. checks[5][1]
      BY <1>9, <2>1, Zenon
    <2>3. PICK j \in 1 .. 7 : /\ FirstOf(checks) = checks[j][2] /\ checks[j][1]
                              /\ \A k \in 1 .. j - 1 : ~ checks[k][1]
      <3>1. 7 \in Nat /\ 5 \in 1 .. 7
        OBVIOUS
      <3>2. QED
        BY <1>8, <2>2, <3>1, FirstOfIs, Zenon
    <2>4. j <= 5
      <3>1. SUFFICES ASSUME ~(j <= 5) PROVE FALSE
        OBVIOUS
      <3>2. 5 \in 1 .. j - 1
        BY <3>1
      <3>3. QED
        BY <2>2, <2>3, <3>2, Zenon
    <2>5. j # 2
      <3>1. SUFFICES ASSUME j = 2 PROVE FALSE
        OBVIOUS
      <3>2. 1 \in 1 .. j - 1
        BY <3>1
      <3>3. QED
        BY <1>11, <2>3, <3>1, <3>2, Zenon
    <2>6. j # 4
      <3>1. SUFFICES ASSUME j = 4 PROVE FALSE
        OBVIOUS
      <3>2. 3 \in 1 .. j - 1
        BY <3>1
      <3>3. QED
        BY <1>12, <2>3, <3>1, <3>2, Zenon
    <2>7. j \in {1, 3, 5}
      BY <2>4, <2>5, <2>6
    <2>8. HeaderError(c) = "eof"
      BY <1>8, <1>10, <2>3, <2>7, Zenon
    <2>9. QED
      BY <1>4, <1>14, <2>1, <2>8, Zenon
  <1>15. QED
    BY <1>13, <1>14

\* The size of a finished set passes its checks and is that of the whole set.
LEMMA SizePasses ==
    ASSUME NEW s, NEW props \in PropertyLists, NEW offs, NEW page, SetLaid(s, props, offs, page)
    PROVE  SizeError(s) = "none" /\ SubSeq(s, 1, UInt(s, 0, 4)) = s
  <1>1. /\ s \in Seq(Byte) /\ UInt(s, 0, 4) = Len(s) /\ NumProps(s) = Len(props)
        /\ 8 + 8 * NumProps(s) <= Len(s) /\ NumProps(s) \in Nat
    <2>1. TableFits(s)
      BY SetReads
    <2>2. QED
      BY <2>1, SetReads DEF TableFits
  <1>2. PICK n, l \in Nat : n = NumProps(s) /\ l = Len(s)
    BY <1>1
  <1>3. 8 + 8 * n <= l
    BY <1>1, <1>2
  <1>4. ~(l < 8) /\ ~(l > l) /\ ~(l < 8 + 8 * n)
    BY <1>3
  <1> DEFINE checks == SizeChecks(s)
  <1>5. DOMAIN checks = 1 .. 3 /\ SizeError(s) = FirstOf(checks)
    BY DEF SizeError, SizeChecks
  <1>6. \A j \in 1 .. 3 : ~ checks[j][1]
    <2>1. (checks[1][1] <=> l < 8) /\ (checks[2][1] <=> l > l) /\ (checks[3][1] <=> l < 8 + 8 * n)
      BY <1>1, <1>2 DEF SizeChecks
    <2> HIDE DEF checks
    <2>2. 1 .. 3 = {1, 2, 3}
      OBVIOUS
    <2>3. QED
      BY <1>4, <2>1, <2>2, Zenon
  <1> HIDE DEF checks
  <1>7. SizeError(s) = "none"
    <2>1. 3 \in Nat
      OBVIOUS
    <2>2. QED
      BY <1>5, <1>6, <2>1, FirstOfIs, Zenon
  <1>8. SubSeq(s, 1, Len(s)) = s
    BY <1>1
  <1>9. QED
    BY <1>1, <1>7, <1>8

\* Of a set that lost its end, the size says that something is missing.
LEMMA CutIsEOF ==
    ASSUME NEW b, NEW version \in Nat, NEW props \in PropertyLists, NEW offs, NEW page,
           Written(b, version, props, offs, page), Len(b) - SetOff < U32,
           NEW m \in Nat, SetOff <= m, m < Len(b)
    PROVE  SizeError(SubSeq(SubSeq(b, 1, m), SetOff + 1, m)) = "eof"
  <1>1. b \in Seq(Byte) /\ At(b, SetOff, Num(Len(b) - SetOff, 4)) /\ 56 + 8 * Len(props) <= Len(b)
    BY DEF Written, HeaderAt
  <1>2. PICK l, k \in Nat : l = Len(b) /\ k = l - SetOff /\ SetOff + k = l /\ m < l /\ k < U32
    <2>1. PICK l, n \in Nat : l = Len(b) /\ n = Len(props)
      BY <1>1 DEF PropertyLists
    <2>2. l - SetOff \in Nat /\ SetOff + (l - SetOff) = l /\ m < l
      BY <1>1, <2>1 DEF SetOff
    <2>3. QED
      BY <2>1, <2>2
  <1> DEFINE s == SubSeq(SubSeq(b, 1, m), SetOff + 1, m)
  <1>3. PICK z, off \in Nat : z = 0 /\ off = SetOff
    BY DEF SetOff
  <1>4. PICK c \in Seq(Byte) : c = SubSeq(b, 1, m) /\ Len(c) = m
    <2>1. z + 1 = 1 /\ z <= m /\ m <= Len(b) /\ m - z = m
      BY <1>2, <1>3
    <2>2. SubSeq(b, z + 1, m) \in Seq(Byte) /\ Len(SubSeq(b, z + 1, m)) = m - z
      BY <1>1, <2>1, Slice
    <2>3. QED
      BY <2>1, <2>2
  <1>5. off <= m /\ m <= Len(c) /\ m <= m
    BY <1>3, <1>4
  <1>6. s \in Seq(Byte) /\ Len(s) = m - off
    <2>1. SubSeq(c, off + 1, m) \in Seq(Byte) /\ Len(SubSeq(c, off + 1, m)) = m - off
      BY <1>5, Slice
    <2>2. QED
      BY <1>3, <1>4, <2>1
  <1>7. m - off >= 4 => UInt(s, 0, 4) = k
    <2>1. SUFFICES ASSUME m - off >= 4 PROVE UInt(s, 0, 4) = k
      OBVIOUS
    <2>2. /\ off + z + 4 <= m /\ z + (off + z) + 4 <= m /\ z + (off + z) = SetOff /\ off + z \in Nat
          /\ z <= m /\ m <= Len(b) /\ z + 1 = 1 /\ 4 \in Nat /\ 4 \in 1 .. 8
      BY <1>2, <1>3, <2>1
    <2>3. UInt(SubSeq(c, off + 1, m), z, 4) = UInt(c, off + z, 4)
      BY <1>5, <2>2, UIntSlice
    <2>4. UInt(SubSeq(b, z + 1, m), off + z, 4) = UInt(b, z + (off + z), 4)
      <3>1. PICK at \in Nat : at = off + z /\ z + at + 4 <= m
        BY <1>3, <2>2
      <3>2. b \in Seq(Byte) /\ z \in Nat /\ m \in Nat /\ z <= m /\ m <= Len(b)
        BY <1>1, <1>3, <2>2
      <3>3. UInt(SubSeq(b, z + 1, m), at, 4) = UInt(b, z + at, 4)
        BY <3>1, <3>2, UIntSlice
      <3>4. QED
        BY <3>1, <3>3
    <2>5. UInt(b, SetOff, 4) = k
      <3>1. SetOff \in Nat /\ k < Power[4] /\ At(b, SetOff, Num(k, 4))
        BY <1>1, <1>2 DEF SetOff, U32
      <3>2. QED
        BY <1>1, <2>2, <3>1, UIntNum
    <2>6. UInt(s, 0, 4) = UInt(SubSeq(c, off + 1, m), z, 4)
      BY <1>3, <1>4
    <2>7. UInt(c, off + z, 4) = UInt(SubSeq(b, z + 1, m), off + z, 4)
      BY <1>4, <2>2
    <2> HIDE DEF s
    <2>8. QED
      BY <2>2, <2>3, <2>4, <2>5, <2>6, <2>7
  <1> DEFINE checks == SizeChecks(s)
  <1> HIDE DEF s
  <1>8. DOMAIN checks = 1 .. 3 /\ SizeError(s) = FirstOf(checks)
    BY DEF SizeError, SizeChecks
  <1>9. /\ checks[1][1] <=> m - off < 8
        /\ checks[2][1] <=> UInt(s, 0, 4) > m - off
        /\ checks[1][2] = "eof" /\ checks[2][2] = "eof"
    BY <1>6 DEF SizeChecks
  <1> HIDE DEF checks
  <1>10. checks[1][1] \/ checks[2][1]
    <2>1. CASE m - off < 8
      BY <1>9, <2>1, Zenon
    <2>2. CASE ~(m - off < 8)
      <3>1. m - off >= 4 /\ k > m - off
        BY <1>2, <1>3, <2>2
      <3>2. QED
        BY <1>7, <1>9, <3>1, Zenon
    <2>3. QED
      BY <2>1, <2>2
  <1>11. PICK j \in 1 .. 3 : /\ FirstOf(checks) = checks[j][2] /\ checks[j][1]
                             /\ \A i \in 1 .. j - 1 : ~ checks[i][1]
    <2>1. 3 \in Nat /\ 1 \in 1 .. 3 /\ 2 \in 1 .. 3
      OBVIOUS
    <2>2. QED
      BY <1>8, <1>10, <2>1, FirstOfIs, Zenon
  <1>12. j # 3
    <2>1. SUFFICES ASSUME j = 3 PROVE FALSE
      OBVIOUS
    <2>2. 1 \in 1 .. j - 1 /\ 2 \in 1 .. j - 1
      BY <2>1
    <2>3. QED
      BY <1>10, <1>11, <2>2, Zenon
  <1>13. j \in {1, 2}
    BY <1>12
  <1>14. QED
    BY <1>8, <1>9, <1>11, <1>13, Zenon DEF s

-----------------------------------------------------------------------------
(* Where Marshal and Unmarshal stand                                        *)

\* Marshal is at work: the header is written, and the first k properties.
EncodingAt(s, b, page, k) ==
    /\ Len(s.sets) = 1 /\ s.version <= 1 /\ PageIs(s.sets[1], page)
    /\ HeaderAt(b, s.version, Len(s.sets[1])) /\ k <= Len(s.sets[1])
    /\ Taken(s.sets[1], k, page)
    /\ \E offs : Laid(b, s.sets[1], k, offs, page)

\* Marshal has returned b.
Marshalled(s, b, page) ==
    /\ Len(s.sets) = 1 /\ s.version <= 1 /\ PageIs(s.sets[1], page)
    /\ \E offs : Written(b, s.version, s.sets[1], offs, page)

\* The property list of a stream that has one.
LEMMA OnlyList ==
    ASSUME NEW s, s.sets \in Seq(PropertyLists), Len(s.sets) = 1
    PROVE  s.sets[1] \in PropertyLists /\ Len(s.sets[1]) \in Nat
  <1>1. ASSUME NEW S, NEW q \in Seq(S), Len(q) = 1 PROVE q[1] \in S
    BY <1>1
  <1>2. s.sets[1] \in PropertyLists
    BY <1>1
  <1>3. QED
    BY <1>2 DEF PropertyLists

\* The header that Marshal writes before the first property.
LEMMA EncodingBegins ==
    ASSUME NEW s, s.version \in Nat, s.sets \in Seq(PropertyLists),
           Len(s.sets) = 1, s.version <= 1, NEW page, PageIs(s.sets[1], page),
           NEW b, b = Header(s.version) \o Zeros(4) \o Num(Len(s.sets[1]), 4) \o Zeros(8 * Len(s.sets[1]))
    PROVE  EncodingAt(s, b, page, 0) /\ b \in Seq(Byte)
  <1>1. Len(s.sets[1]) \in Nat /\ 0 <= Len(s.sets[1])
    BY OnlyList
  <1>2. HeaderAt(b, s.version, Len(s.sets[1]))
    BY <1>1, BeginsLaid
  <1>3. 1 .. 0 = {}
    OBVIOUS
  <1>4. Taken(s.sets[1], 0, page) /\ Laid(b, s.sets[1], 0, <<>>, page)
    BY <1>3 DEF Taken, Laid
  <1>5. QED
    BY <1>1, <1>2, <1>4 DEF EncodingAt, HeaderAt

\* One property more.
LEMMA EncodingGoesOn ==
    ASSUME NEW s, s.version \in Nat, s.sets \in Seq(PropertyLists), NEW b, NEW page, NEW k \in Nat,
           EncodingAt(s, b, page, k), k + 1 <= Len(s.sets[1]),
           s.sets[1][k + 1].id # 0, Encodable(s.sets[1][k + 1].value, page)
    PROVE  LET c == WithProperty(b, k + 1, s.sets[1][k + 1], page)
           IN  EncodingAt(s, c, page, k + 1) /\ c \in Seq(Byte)
  <1>1. PICK props \in PropertyLists : props = s.sets[1] /\ Len(props) \in Nat
    BY OnlyList DEF EncodingAt
  <1>2. PICK n \in Nat : n = Len(props) /\ k + 1 <= n
    BY <1>1
  <1>3. PICK offs : Laid(b, props, k, offs, page)
    BY <1>1 DEF EncodingAt
  <1>4. HeaderAt(b, s.version, n) /\ b \in Seq(Byte) /\ 56 + 8 * n <= Len(b) /\ Taken(props, k, page)
    BY <1>1, <1>2 DEF EncodingAt, HeaderAt
  <1>5. Taken(props, k + 1, page)
    <2>1. ASSUME NEW i \in 1 .. k + 1 PROVE props[i].id # 0 /\ Encodable(props[i].value, page)
      <3>1. CASE i = k + 1
        BY <1>1, <3>1
      <3>2. CASE i # k + 1
        <4>1. i \in 1 .. k
          BY <3>2
        <4>2. QED
          BY <1>4, <4>1 DEF Taken
      <3>3. QED
        BY <3>1, <3>2
    <2>2. QED
      BY <2>1 DEF Taken
  <1> DEFINE c == WithProperty(b, k + 1, props[k + 1], page)
  <1>6. k < Len(props) /\ 56 + 8 * Len(props) <= Len(b)
    BY <1>2, <1>4
  <1>7. /\ c \in Seq(Byte) /\ Kept(b, c, SetOff + 8 * (k + 1), SetOff + 8 * (k + 1) + 8)
        /\ \E f : Laid(c, props, k + 1, f, page)
    BY <1>3, <1>4, <1>5, <1>6, PropertyLaid
  <1> HIDE DEF c
  <1>8. HeaderAt(c, s.version, n)
    <2>1. PICK lo, hi \in Nat : lo = SetOff + 8 * (k + 1) /\ hi = SetOff + 8 * (k + 1) + 8 /\ lo >= 56
      <3>1. SetOff + 8 * (k + 1) \in Nat /\ SetOff + 8 * (k + 1) + 8 \in Nat /\ SetOff + 8 * (k + 1) >= 56
        BY DEF SetOff
      <3>2. QED
        BY <3>1
    <2>2. Kept(b, c, lo, hi)
      BY <1>7, <2>1
    <2>3. QED
      BY <1>4, <2>1, <2>2, HeaderKept
  <1>9. QED
    BY <1>1, <1>2, <1>5, <1>7, <1>8 DEF EncodingAt, c

\* The end of Marshal.
LEMMA EncodingEnds ==
    ASSUME NEW s, s.version \in Nat, s.sets \in Seq(PropertyLists), NEW b, NEW page,
           EncodingAt(s, b, page, Len(s.sets[1]))
    PROVE  Marshalled(s, Seal(b), page) /\ Seal(b) \in Seq(Byte)
  <1>1. PICK props \in PropertyLists : props = s.sets[1] /\ Len(props) \in Nat
    BY OnlyList DEF EncodingAt
  <1>2. PICK offs : Laid(b, props, Len(props), offs, page)
    BY <1>1 DEF EncodingAt
  <1>3. HeaderAt(b, s.version, Len(props)) /\ b \in Seq(Byte) /\ 56 + 8 * Len(props) <= Len(b)
        /\ Taken(props, Len(props), page)
    BY <1>1 DEF EncodingAt, HeaderAt
  <1>4. 56 <= Len(b)
    BY <1>1, <1>3
  <1>5. PICK c \in Seq(Byte) : c = Seal(b) /\ Kept(b, c, 48, 52) /\ At(c, 48, Num(Len(c) - 48, 4))
    BY <1>3, <1>4, SealIs
  <1>6. HeaderAt(c, s.version, Len(props))
    <2>1. 48 \in Nat /\ 52 \in Nat
      OBVIOUS
    <2>2. QED
      BY <1>1, <1>3, <1>5, <2>1, HeaderKept
  <1>7. Laid(c, props, Len(props), offs, page)
    BY <1>2, <1>3, <1>5, SealLaid
  <1>8. At(c, SetOff, Num(Len(c) - SetOff, 4))
    BY <1>5 DEF SetOff
  <1>9. Written(c, s.version, props, offs, page)
    BY <1>3, <1>6, <1>7, <1>8 DEF Written
  <1>10. QED
    BY <1>1, <1>5, <1>9 DEF Marshalled, EncodingAt

\* What the properties o, decoded so far from the set q, are.
DecodedOne(q, p, k, page) ==
    /\ p.id = Packet(q, k - 1).id /\ p.id # 0 /\ Sound(p.value, page)
    /\ k = CodePageIndex(q) => p.value.vt = vtI2 /\ p.value.v = <<page>>
\* What has been decoded, from a set whose table has been checked.
Decoded(q, o, page) ==
    /\ TableFits(q) /\ TableValid(q) /\ page = CodePage(q) /\ Len(o) <= NumProps(q)
    /\ \A k \in 1 .. Len(o) : DecodedOne(q, o[k], k, page)

\* A list that Marshal takes, but for the values that Sound names.
Acceptable(props, page) ==
    /\ PageIs(props, page)
    /\ \A k \in 1 .. Len(props) : props[k].id # 0 /\ Sound(props[k].value, page)

\* The errors of the checks are those listed with them.
LEMMA ErrorsAre ==
    ASSUME NEW b
    PROVE  HeaderError(b) \in {"none", "eof", "invalid"} /\ SizeError(b) \in {"none", "eof", "invalid"}
  <1>1. HeaderError(b) \in {"none", "eof", "invalid"}
    <2> DEFINE checks == HeaderChecks(b)
    <2>1. DOMAIN checks = 1 .. 7 /\ HeaderError(b) = FirstOf(checks)
      BY DEF HeaderChecks, HeaderError
    <2>2. \A j \in 1 .. 7 : checks[j][2] \in {"eof", "invalid"}
      BY DEF HeaderChecks
    <2> HIDE DEF checks
    <2>3. 7 \in Nat
      OBVIOUS
    <2>4. FirstOf(checks) = "none" \/ \E j \in 1 .. 7 : FirstOf(checks) = checks[j][2]
      BY <2>1, <2>3, FirstOfIs, Zenon
    <2>5. QED
      BY <2>1, <2>2, <2>4, Zenon
  <1>2. SizeError(b) \in {"none", "eof", "invalid"}
    <2> DEFINE checks == SizeChecks(b)
    <2>1. DOMAIN checks = 1 .. 3 /\ SizeError(b) = FirstOf(checks)
      BY DEF SizeChecks, SizeError
    <2>2. \A j \in 1 .. 3 : checks[j][2] \in {"eof", "invalid"}
      BY DEF SizeChecks
    <2> HIDE DEF checks
    <2>3. 3 \in Nat
      OBVIOUS
    <2>4. FirstOf(checks) = "none" \/ \E j \in 1 .. 3 : FirstOf(checks) = checks[j][2]
      BY <2>1, <2>3, FirstOfIs, Zenon
    <2>5. QED
      BY <2>1, <2>2, <2>4, Zenon
  <1>3. QED
    BY <1>1, <1>2

\* The set is cut to its size and its table has passed.
LEMMA DecodingBegins ==
    ASSUME NEW s \in Seq(Byte), SizeError(s) = "none", TableValid(SubSeq(s, 1, UInt(s, 0, 4)))
    PROVE  LET w == SubSeq(s, 1, UInt(s, 0, 4))
           IN  w \in Seq(Byte) /\ Decoded(w, <<>>, CodePage(w))
  <1> DEFINE w == SubSeq(s, 1, UInt(s, 0, 4))
  <1>1. w \in Seq(Byte) /\ TableFits(w)
    BY WholeFits
  <1>2. TableValid(w)
    OBVIOUS
  <1> HIDE DEF w
  <1>3. Len(<<>>) = 0 /\ 1 .. 0 = {} /\ 0 <= NumProps(w)
    BY <1>1 DEF TableFits
  <1>4. Decoded(w, <<>>, CodePage(w))
    BY <1>1, <1>2, <1>3 DEF Decoded
  <1>5. QED
    BY <1>1, <1>4 DEF w

\* A value of the checked table lies in the set.
LEMMA PacketInside ==
    ASSUME NEW q \in Seq(Byte), NEW o, NEW page, Decoded(q, o, page), NEW i \in 1 .. NumProps(q)
    PROVE  LET p == Packet(q, i - 1)
           IN  /\ p.off <= p.end /\ p.end <= Len(q) /\ p.id \in 0 .. U32 - 1
               /\ Bytes(q, p) \in Seq(Byte) /\ Len(Bytes(q, p)) \in Nat /\ 4 <= Len(Bytes(q, p))
  <1>1. TableFits(q) /\ EntriesPassed(q)
    BY DEF Decoded, TableValid, EntriesPassed
  <1>2. PICK k \in 0 .. NumProps(q) - 1 : k = i - 1
    <2>1. i - 1 \in 0 .. NumProps(q) - 1
      BY <1>1 DEF TableFits
    <2>2. QED
      BY <2>1
  <1>3. ~ BadPacket(q, Packet(q, k))
    BY <1>1 DEF EntriesPassed
  <1>4. PICK off, end \in Nat : /\ off = Packet(q, k).off /\ end = Packet(q, k).end
                               /\ off + 4 <= end /\ end <= Len(q)
    BY <1>1, <1>3, PacketFits
  <1>5. Packet(q, k).id \in 0 .. U32 - 1
    BY <1>1, <1>3, PacketFits
  <1> DEFINE b == SubSeq(q, off + 1, end)
  <1>6. b \in Seq(Byte) /\ Len(b) = end - off
    <2>1. off <= end /\ end <= Len(q)
      BY <1>4
    <2>2. /\ SubSeq(q, off + 1, end) \in Seq(Byte)
          /\ Len(SubSeq(q, off + 1, end)) = end - off
      BY <2>1, Slice, Zenon
    <2>3. QED
      BY <2>2
  <1>7. Bytes(q, Packet(q, k)) = b
    BY <1>4 DEF Bytes
  <1> HIDE DEF b
  <1>8. off <= end /\ end <= Len(q) /\ Len(b) \in Nat /\ 4 <= Len(b)
    BY <1>4, <1>6
  <1>9. QED
    BY <1>2, <1>4, <1>5, <1>6, <1>7, <1>8

\* A sequence with one element more.
LEMMA AppendIs ==
    ASSUME NEW S, NEW q \in Seq(S), NEW x \in S
    PROVE  /\ Append(q, x) \in Seq(S) /\ Len(Append(q, x)) = Len(q) + 1
           /\ Append(q, x)[Len(q) + 1] = x
           /\ \A k \in 1 .. Len(q) : Append(q, x)[k] = q[k]
  OBVIOUS

\* Unmarshal takes the property at index i, and makes e of it.
DecodesTo(q, page, i, p, b, vt, body, e) ==
    /\ p = Packet(q, i - 1) /\ b = Bytes(q, p)
    /\ vt = UInt(b, 0, 2) /\ body = SubSeq(b, 5, Len(b))
    /\ ~ BadProperty(p.id, b) /\ Decodable(vt, body, page)
    /\ e = [id |-> p.id, value |-> DecodeValue(vt, body, page)]

\* One property more is decoded.
LEMMA DecodingGoesOn ==
    ASSUME NEW q \in Seq(Byte), NEW o \in PropertyLists, NEW page, Decoded(q, o, page),
           NEW i \in Nat, i = Len(o) + 1, i <= NumProps(q),
           NEW p, NEW b, NEW vt, NEW body, NEW e, DecodesTo(q, page, i, p, b, vt, body, e)
    PROVE  Append(o, e) \in PropertyLists /\ Len(Append(o, e)) = i /\ Decoded(q, Append(o, e), page)
  <1>1. PICK n, l \in Nat : n = NumProps(q) /\ l = Len(o) /\ i = l + 1 /\ i \in 1 .. n
    BY DEF Decoded, TableFits, PropertyLists
  <1>2. b \in Seq(Byte) /\ Len(b) \in Nat /\ 4 <= Len(b) /\ p.id \in 0 .. U32 - 1
    BY <1>1, PacketInside DEF DecodesTo
  <1>3. PICK m \in Nat : m = 4
    OBVIOUS
  <1>4. m + 1 = 5 /\ m <= Len(b) /\ Len(b) <= Len(b)
    BY <1>2, <1>3
  <1>5. body \in Seq(Byte)
    <2>1. SubSeq(b, m + 1, Len(b)) \in Seq(Byte)
      BY <1>2, <1>4, Slice
    <2>2. QED
      BY <1>4, <2>1 DEF DecodesTo
  <1>6. p.id # 0 /\ vt \in DOMAIN Width \cup {vtLPSTR} /\ Decodable(vt, body, page)
    BY DEF DecodesTo, BadProperty
  <1>7. DecodeValue(vt, body, page) \in Values /\ Sound(DecodeValue(vt, body, page), page)
        /\ DecodeValue(vt, body, page).vt = vt
    BY <1>5, <1>6, DecodedIsSound
  <1>8. e \in [id : 0 .. U32 - 1, value : Values] /\ e.id = p.id /\ e.value = DecodeValue(vt, body, page)
    <2>1. e = [id |-> p.id, value |-> DecodeValue(vt, body, page)]
      BY DEF DecodesTo
    <2>2. QED
      BY <1>2, <1>7, <2>1
  <1>9. i = CodePageIndex(q) => e.value.vt = vtI2 /\ e.value.v = <<page>>
    <2>1. SUFFICES ASSUME i = CodePageIndex(q) PROVE e.value.vt = vtI2 /\ e.value.v = <<page>>
      OBVIOUS
    <2>2. CodePageBytes(q) = b
      BY <2>1 DEF CodePageBytes, DecodesTo
    <2>3. vt = vtI2 /\ Len(b) >= 6 /\ page = UInt(b, 4, 2)
      BY <2>2 DEF Decoded, TableValid, CodePage, DecodesTo
    <2>4. DecodeValue(vt, body, page).v = <<UInt(body, 0, 2)>>
      <3>1. vtI2 # vtLPSTR /\ vtI2 # vtFileTime /\ Width[vtI2] = 2
        BY DEF vtI2, vtLPSTR, vtFileTime, Width
      <3>2. QED
        BY <2>3, <3>1 DEF DecodeValue
    <2>5. UInt(body, 0, 2) = UInt(b, 4, 2)
      <3>1. PICK z \in Nat : z = 0
        OBVIOUS
      <3>2. m + z + 2 <= Len(b) /\ m <= Len(b) /\ Len(b) <= Len(b)
        BY <1>2, <1>3, <2>3, <3>1
      <3>3. z \in Nat /\ m \in Nat /\ 2 \in Nat
        OBVIOUS
      <3>4. UInt(SubSeq(b, m + 1, Len(b)), z, 2) = UInt(b, m + z, 2)
        BY <1>2, <3>2, <3>3, UIntSlice
      <3>5. m + z = 4
        BY <1>3, <3>1
      <3>6. QED
        BY <1>4, <3>1, <3>4, <3>5 DEF DecodesTo
    <2>6. QED
      BY <1>7, <1>8, <2>3, <2>4, <2>5
  <1>10. DecodedOne(q, e, i, page)
    <2>1. e.id = Packet(q, i - 1).id
      BY <1>8 DEF DecodesTo
    <2>2. QED
      BY <1>6, <1>7, <1>8, <1>9, <2>1 DEF DecodedOne
  <1> DEFINE r == Append(o, e)
  <1>11. r \in PropertyLists /\ Len(r) = i /\ r[i] = e /\ \A k \in 1 .. l : r[k] = o[k]
    <2> DEFINE S == [id : 0 .. U32 - 1, value : Values]
    <2>1. o \in Seq(S) /\ e \in S
      BY <1>8 DEF PropertyLists
    <2> HIDE DEF S
    <2>2. /\ r \in Seq(S) /\ Len(r) = Len(o) + 1
          /\ r[Len(o) + 1] = e /\ \A k \in 1 .. Len(o) : r[k] = o[k]
      BY <2>1, AppendIs
    <2> HIDE DEF r
    <2>3. QED
      BY <1>1, <2>2, Zenon DEF PropertyLists, S
  <1> HIDE DEF r
  <1>12. ASSUME NEW k \in 1 .. i PROVE DecodedOne(q, r[k], k, page)
    <2>1. CASE k = i
      BY <1>10, <1>11, <2>1
    <2>2. CASE k # i
      <3>1. k \in 1 .. l
        BY <1>1, <2>2
      <3>2. DecodedOne(q, o[k], k, page)
        BY <1>1, <3>1 DEF Decoded
      <3>3. QED
        BY <1>11, <3>1, <3>2
    <2>3. QED
      BY <2>1, <2>2
  <1>13. Decoded(q, r, page)
    BY <1>11, <1>12 DEF Decoded
  <1>14. QED
    BY <1>11, <1>13 DEF r

\* All of them are.
LEMMA DecodingEnds ==
    ASSUME NEW q, NEW o \in PropertyLists, NEW page, Decoded(q, o, page), Len(o) = NumProps(q)
    PROVE  Acceptable(o, page)
  <1>1. DOMAIN o = 1 .. Len(o) /\ Len(o) \in Nat
    BY DEF PropertyLists
  <1>2. \A k \in 1 .. Len(o) : DecodedOne(q, o[k], k, page)
    BY DEF Decoded
  <1>3. {k \in 1 .. NumProps(q) : Packet(q, k - 1).id = 1} = {j \in DOMAIN o : o[j].id = 1}
    BY <1>1, <1>2 DEF DecodedOne
  <1>4. PICK i : i = CodePageIndex(q) /\ i # 0 /\ page \in Pages
    BY DEF Decoded, TableValid
  <1>5. i = First({j \in DOMAIN o : o[j].id = 1})
    BY <1>3, <1>4 DEF CodePageIndex
  <1>6. i \in 1 .. Len(o)
    <2>1. {j \in DOMAIN o : o[j].id = 1} \subseteq Nat \ {0}
      BY <1>1
    <2>2. i \in {j \in DOMAIN o : o[j].id = 1}
      BY <1>4, <1>5, <2>1, FirstIs
    <2>3. QED
      BY <1>1, <2>2
  <1>7. o[i].value.vt = vtI2 /\ o[i].value.v = <<page>>
    BY <1>2, <1>4, <1>6 DEF DecodedOne
  <1>8. CodePageOf(o) = <<page>>
    BY <1>4, <1>5, <1>7 DEF CodePageOf
  <1>9. ToSet(<<page>>) = {page} /\ <<page>>[1] = page
    BY DEF ToSet
  <1>10. PageIs(o, page)
    BY <1>4, <1>8, <1>9 DEF PageIs
  <1>11. QED
    BY <1>2, <1>10 DEF Acceptable, DecodedOne

\* What cannot be encoded although it was decoded: a time of the last second, or
\* a text with U+FFFD.
NotEncodable(value, page) ==
    \/ /\ value.vt = vtFileTime /\ value.v # <<>>
       /\ Sec(value.v[1]) = MaxSec + 1
    \/ /\ value.vt = vtLPSTR /\ page # cpWinUnicode
       /\ Replacement \in ToSet(value.v)

\* Nothing else of such a list does Marshal refuse.
LEMMA RefusedIs ==
    ASSUME NEW props \in PropertyLists, NEW page, Acceptable(props, page), NEW i \in 1 .. Len(props),
           ~(props[i].id # 0 /\ Encodable(props[i].value, page))
    PROVE  NotEncodable(props[i].value, page)
  <1>1. props[i].id # 0 /\ Sound(props[i].value, page)
    BY DEF Acceptable
  <1>2. ~ Encodable(props[i].value, page)
    BY <1>1
  <1>3. \/ /\ props[i].value.vt = vtFileTime /\ props[i].value.v # <<>>
           /\ Sec(props[i].value.v[1]) \notin 0 .. MaxSec
           /\ Sec(props[i].value.v[1]) \in 0 .. MaxSec + 1
        \/ /\ props[i].value.vt = vtLPSTR /\ page # cpWinUnicode
           /\ Replacement \in ToSet(props[i].value.v)
    BY <1>1, <1>2 DEF Sound, Encodable, ToSet
  <1>4. MaxSec \in Int
    <2>1. \A n \in Int : \A t \in Nat \ {0} : n \div t - 1 \in Int
      OBVIOUS
    <2>2. TicksPerSec \in Nat \ {0} /\ Power[8] - 1 \in Int
      BY OlepsAssumption, SmallPowers
    <2>3. QED
      BY <2>1, <2>2 DEF MaxSec
  <1>5. ASSUME NEW x, x \notin 0 .. MaxSec, x \in 0 .. MaxSec + 1 PROVE x = MaxSec + 1
    BY <1>4, <1>5
  <1>6. QED
    BY <1>3, <1>5 DEF NotEncodable

-----------------------------------------------------------------------------
(* The invariant, whatever happens to the stream                            *)

\* What every variable is.
Typed ==
    /\ stm.version \in Nat /\ stm.sets \in Seq(PropertyLists)
    /\ buf \in Seq(Byte) /\ set \in Seq(Byte) /\ out \in PropertyLists

\* What is written of the stream, and what has been checked and decoded of it.
Encoding == pc = "encode" => EncodingAt(stm, buf, cp, Len(out))
\* The whole stream.
Finished == pc = "marshalled" => Marshalled(stm, buf, cp)
\* No property is decoded yet.
Started == pc \in {"marshal", "marshalled", "unmarshal", "table"} => out = <<>>
\* The version is one that Marshal writes.
Versioned == pc \in {"table", "decode", "unmarshalled"} => UInt(buf, 2, 2) <= 1
\* The first properties of the set.
Decoding == pc = "decode" => Decoded(set, out, cp)
\* Unmarshal returns what Marshal takes again.
Resulting == pc = "unmarshalled" => Acceptable(out, cp)

\* Only a result of Unmarshal is marshalled again.
Again ==
    sent = "again" => /\ stm.version <= 1 /\ Len(stm.sets) = 1
                      /\ \E page : Acceptable(stm.sets[1], page)

\* The inductive invariant, for every stream, damage and list of properties.
OlepsInv ==
    /\ Typed /\ Encoding /\ Finished /\ Started /\ Versioned /\ Decoding /\ Resulting /\ Again
    /\ StaysInSet /\ ResultsMarshal

\* It holds before Marshal is called.
LEMMA OlepsInvInit == ASSUME Init PROVE OlepsInv
  <1>1. stm.version \in Nat /\ stm.sets \in Seq(PropertyLists)
    BY OlepsAssumption DEF Init
  <1>2. <<>> \in Seq(Byte) /\ <<>> \in PropertyLists
    BY DEF PropertyLists
  <1>3. Typed
    BY <1>1, <1>2 DEF Typed, Init
  <1>4. QED
    BY <1>3 DEF OlepsInv, Init, Encoding, Finished, Started, Versioned, Decoding, Resulting, Again,
                StaysInSet, ResultsMarshal

\* The header is written before any property.
LEMMA MarshalHeaderKeeps == ASSUME OlepsInv, MarshalHeader PROVE OlepsInv'
  <1> DEFINE props == stm.sets[1]
             page == CodePageOf(props)
             fits == /\ Len(stm.sets) = 1 /\ stm.version <= 1
                     /\ ToSet(page) \cap Pages # {}
  <1>1. Typed /\ Again /\ out = <<>> /\ pc = "marshal"
    BY DEF OlepsInv, Started, MarshalHeader
  <1>2. stm' = stm /\ sent' = sent /\ set' = set /\ out' = out
    BY DEF MarshalHeader
  <1>3. Again'
    BY <1>1, <1>2 DEF Again
  <1>4. CASE fits
    <2>1. /\ buf' = Header(stm.version) \o Zeros(4) \o Num(Len(props), 4) \o Zeros(8 * Len(props))
          /\ cp' = page[1] /\ pc' = "encode"
      BY <1>4 DEF MarshalHeader
    <2>2. EncodingAt(stm, buf', cp', 0) /\ buf' \in Seq(Byte)
      <3>1. PageIs(props, cp')
        BY <1>4, <2>1 DEF PageIs
      <3>2. stm.version \in Nat /\ stm.sets \in Seq(PropertyLists)
        BY <1>1 DEF Typed
      <3>3. QED
        BY <1>4, <2>1, <3>1, <3>2, EncodingBegins
    <2>3. Len(out') = 0
      BY <1>1, <1>2
    <2>4. Typed'
      BY <1>1, <1>2, <2>2 DEF Typed
    <2>5. Encoding'
      BY <1>2, <2>2, <2>3 DEF Encoding
    <2>6. QED
      BY <1>3, <2>1, <2>4, <2>5 DEF OlepsInv, Finished, Started, Versioned, Decoding, Resulting,
                                    StaysInSet, ResultsMarshal
  <1>5. CASE ~ fits
    <2>1. buf' = buf /\ cp' = cp /\ pc' = "refused"
      BY <1>5 DEF MarshalHeader
    <2>2. sent # "again"
      <3>1. SUFFICES ASSUME sent = "again" PROVE fits
        BY <1>5
      <3>2. PICK q : Acceptable(props, q) /\ stm.version <= 1 /\ Len(stm.sets) = 1
        BY <1>1, <3>1 DEF Again
      <3>3. ToSet(page) \cap Pages # {}
        BY <3>2 DEF Acceptable, PageIs
      <3>4. QED
        BY <3>2, <3>3
    <2>3. Typed'
      BY <1>1, <1>2, <2>1 DEF Typed
    <2>4. QED
      BY <1>2, <1>3, <2>1, <2>2, <2>3 DEF OlepsInv, Encoding, Finished, Started, Versioned, Decoding,
                                          Resulting, StaysInSet, ResultsMarshal
  <1>6. QED
    BY <1>4, <1>5

\* One more property lies in the set, and those before it stay.
LEMMA MarshalPropertyKeeps ==
    ASSUME OlepsInv, NEW i \in 1 .. Len(out) + 1, MarshalProperty(i)
    PROVE  OlepsInv'
  <1> DEFINE props == stm.sets[1]
             p == props[i]
  <1>1. /\ Typed /\ Again /\ EncodingAt(stm, buf, cp, Len(out)) /\ pc = "encode"
        /\ i <= Len(props) /\ Len(out) = i - 1
    BY DEF OlepsInv, Encoding, MarshalProperty
  <1>2. stm' = stm /\ sent' = sent /\ set' = set /\ cp' = cp
    BY DEF MarshalProperty
  <1>3. Again'
    BY <1>1, <1>2 DEF Again
  <1>4. PICK k \in Nat : k = Len(out) /\ i = k + 1
    <2>1. Len(out) \in Nat
      BY <1>1 DEF Typed, PropertyLists
    <2>2. QED
      BY <1>1, <2>1
  <1>5. stm.version \in Nat /\ stm.sets \in Seq(PropertyLists) /\ Len(stm.sets) = 1
    BY <1>1 DEF Typed, EncodingAt
  <1>6. props \in PropertyLists
    BY <1>5, OnlyList
  <1>7. CASE p.id # 0 /\ Encodable(p.value, cp)
    <2>1. out' = Append(out, p) /\ pc' = "encode"
      BY <1>1, <1>7 DEF MarshalProperty
    <2>2. buf' = WithProperty(buf, i, p, cp)
      BY <1>7 DEF MarshalProperty, WithProperty
    <2>3. EncodingAt(stm, buf', cp, k + 1) /\ buf' \in Seq(Byte)
      <3>1. EncodingAt(stm, buf, cp, k) /\ k + 1 <= Len(stm.sets[1])
        BY <1>1, <1>4
      <3>2. stm.sets[1][k + 1].id # 0 /\ Encodable(stm.sets[1][k + 1].value, cp)
        BY <1>4, <1>7
      <3>3. QED
        BY <1>4, <1>5, <2>2, <3>1, <3>2, EncodingGoesOn
    <2>4. out' \in PropertyLists /\ Len(out') = k + 1
      <3> DEFINE S == [id : 0 .. U32 - 1, value : Values]
      <3>1. i \in 1 .. Len(props)
        BY <1>1, <1>4
      <3>2. out \in Seq(S) /\ p \in S
        BY <1>1, <1>6, <3>1, PropertyIs DEF Typed, PropertyLists
      <3> HIDE DEF S, p
      <3>3. Append(out, p) \in Seq(S) /\ Len(Append(out, p)) = Len(out) + 1
        BY <3>2, AppendIs
      <3>4. QED
        BY <1>4, <2>1, <3>3 DEF PropertyLists, S
    <2>5. Typed'
      BY <1>1, <1>2, <2>3, <2>4 DEF Typed
    <2>6. Encoding'
      BY <1>2, <2>3, <2>4 DEF Encoding
    <2>7. QED
      BY <1>3, <2>1, <2>5, <2>6 DEF OlepsInv, Finished, Started, Versioned, Decoding, Resulting,
                                    StaysInSet, ResultsMarshal
  <1>8. CASE ~(p.id # 0 /\ Encodable(p.value, cp))
    <2>1. pc' = "refused" /\ buf' = buf /\ out' = out
      BY <1>8 DEF MarshalProperty
    <2>2. Typed'
      BY <1>1, <1>2, <2>1 DEF Typed
    <2>3. ResultsMarshal'
      <3>1. SUFFICES ASSUME sent = "again" PROVE buf # <<>> /\ NotEncodable(props[Len(out) + 1].value, cp)
        BY <1>2, <2>1 DEF ResultsMarshal, NotEncodable
      <3>2. PICK page : Acceptable(props, page)
        BY <1>1, <3>1 DEF Again
      <3>3. page = cp
        BY <1>1, <3>2 DEF Acceptable, PageIs, EncodingAt
      <3>4. i \in 1 .. Len(props) /\ i = Len(out) + 1
        BY <1>1, <1>4, <1>6 DEF PropertyLists
      <3>5. NotEncodable(p.value, cp)
        BY <1>6, <1>8, <3>2, <3>3, <3>4, RefusedIs
      <3>6. buf # <<>>
        <4>1. Len(props) \in Nat /\ 56 + 8 * Len(props) <= Len(buf)
          BY <1>1, <1>6 DEF EncodingAt, HeaderAt, PropertyLists
        <4>2. Len(<<>>) = 0
          OBVIOUS
        <4>3. QED
          BY <4>1, <4>2
      <3>7. QED
        BY <3>4, <3>5, <3>6
    <2>4. QED
      BY <1>3, <2>1, <2>2, <2>3 DEF OlepsInv, Encoding, Finished, Started, Versioned, Decoding, Resulting,
                                    StaysInSet
  <1>9. QED
    BY <1>7, <1>8

\* The size is written, and nothing else changes.
LEMMA MarshalEndKeeps == ASSUME OlepsInv, MarshalEnd PROVE OlepsInv'
  <1>1. Typed /\ Again /\ EncodingAt(stm, buf, cp, Len(stm.sets[1]))
    BY DEF OlepsInv, Encoding, MarshalEnd
  <1>2. /\ stm' = stm /\ sent' = sent /\ set' = set /\ cp' = cp /\ buf' = Seal(buf) /\ out' = <<>>
        /\ pc' = "marshalled"
    BY DEF MarshalEnd
  <1>3. Marshalled(stm, buf', cp) /\ buf' \in Seq(Byte)
    <2>1. stm.version \in Nat /\ stm.sets \in Seq(PropertyLists)
      BY <1>1 DEF Typed
    <2>2. QED
      BY <1>1, <1>2, <2>1, EncodingEnds
  <1>4. <<>> \in PropertyLists
    BY DEF PropertyLists
  <1>5. Typed'
    BY <1>1, <1>2, <1>3, <1>4 DEF Typed
  <1>6. Finished' /\ Again'
    BY <1>1, <1>2, <1>3 DEF Finished, Again
  <1>7. QED
    BY <1>2, <1>5, <1>6 DEF OlepsInv, Encoding, Started, Versioned, Decoding, Resulting,
                            StaysInSet, ResultsMarshal

\* Nothing but the stream is touched between the two calls.
LEMMA TransferKeeps == ASSUME OlepsInv, Transfer PROVE OlepsInv'
  <1>1. Typed /\ Again /\ out = <<>>
    <2>1. pc = "marshalled"
      BY DEF Transfer, Keep, Cut, Damage
    <2>2. QED
      BY <2>1 DEF OlepsInv, Started
  <1>2. stm' = stm /\ cp' = cp /\ set' = set /\ out' = out /\ pc' = "unmarshal" /\ (sent' = "again" => sent = "again")
    BY DEF Transfer, Keep, Cut, Damage
  <1>3. buf' \in Seq(Byte)
    <2>1. CASE Keep
      BY <1>1, <2>1 DEF Keep, Typed
    <2>2. ASSUME NEW n \in 0 .. Len(buf) - 1, Cut(n) PROVE buf' \in Seq(Byte)
      <3>1. PICK z \in Nat : z = 0
        OBVIOUS
      <3>2. buf \in Seq(Byte) /\ n \in Nat /\ z <= n /\ n <= Len(buf) /\ z + 1 = 1
        BY <1>1, <3>1 DEF Typed
      <3>3. SubSeq(buf, z + 1, n) \in Seq(Byte)
        BY <3>1, <3>2, Slice
      <3>4. QED
        BY <2>2, <3>2, <3>3 DEF Cut
    <2>3. ASSUME NEW at \in Places, NEW bytes \in Damages, Damage(at, bytes) PROVE buf' \in Seq(Byte)
      <3>1. at \in Nat /\ bytes \in Seq(Byte) /\ buf \in Seq(Byte)
        BY <1>1, OlepsAssumption DEF Typed
      <3>2. at + Len(bytes) <= Len(buf) /\ buf' = Patch(buf, at, bytes)
        BY <2>3 DEF Damage
      <3>3. QED
        BY <3>1, <3>2, PatchIs
    <2>4. QED
      BY <2>1, <2>2, <2>3 DEF Transfer
  <1>4. Typed' /\ Again' /\ Started'
    BY <1>1, <1>2, <1>3 DEF Typed, Again, Started
  <1>5. QED
    BY <1>2, <1>4 DEF OlepsInv, Encoding, Finished, Versioned, Decoding, Resulting, StaysInSet, ResultsMarshal

\* Nor does an error of Unmarshal change anything.
LEMMA ErrorKeeps == ASSUME OlepsInv, NEW how \in {"eof", "invalid"}, Ends(how) PROVE OlepsInv'
  <1>1. pc' = how /\ stm' = stm /\ buf' = buf /\ cp' = cp /\ sent' = sent /\ set' = set /\ out' = out
    BY DEF Ends
  <1>2. Typed' /\ Again'
    BY <1>1 DEF OlepsInv, Typed, Again
  <1>3. QED
    BY <1>1, <1>2 DEF OlepsInv, Encoding, Finished, Started, Versioned, Decoding, Resulting,
                      StaysInSet, ResultsMarshal

\* The checks of the header leave a set.
LEMMA UnmarshalHeaderKeeps == ASSUME OlepsInv, UnmarshalHeader PROVE OlepsInv'
  <1>1. Typed /\ Again /\ out = <<>> /\ pc = "unmarshal"
    BY DEF OlepsInv, Started, UnmarshalHeader
  <1>2. CASE Ends(HeaderError(buf))
    <2>1. HeaderError(buf) \in {"eof", "invalid"}
      BY <1>2, ErrorsAre DEF Ends
    <2>2. QED
      BY <1>2, <2>1, ErrorKeeps
  <1>3. CASE ~ Ends(HeaderError(buf))
    <2>1. /\ HeaderError(buf) = "none"
          /\ set' = SubSeq(buf, UInt(buf, 44, 4) + 1, Len(buf)) /\ pc' = "table"
          /\ stm' = stm /\ buf' = buf /\ cp' = cp /\ sent' = sent /\ out' = out
      BY <1>3 DEF UnmarshalHeader
    <2>2. buf \in Seq(Byte) /\ Len(buf) \in Nat
      BY <1>1 DEF Typed
    <2>3. UInt(buf, 2, 2) <= 1 /\ UInt(buf, 44, 4) <= Len(buf)
      BY <2>1, <2>2, HeaderPassed DEF Passed
    <2>4. set' \in Seq(Byte)
      <3>1. 44 \in Nat /\ 4 \in 1 .. 8
        OBVIOUS
      <3>2. PICK m \in Nat : m = UInt(buf, 44, 4)
        BY <2>2, <3>1, UIntNat
      <3>3. m <= Len(buf) /\ Len(buf) <= Len(buf)
        BY <2>2, <2>3, <3>2
      <3>4. SubSeq(buf, m + 1, Len(buf)) \in Seq(Byte)
        BY <2>2, <3>2, <3>3, Slice
      <3>5. QED
        BY <2>1, <3>2, <3>4
    <2>5. Typed' /\ Again' /\ Started' /\ Versioned'
      BY <1>1, <2>1, <2>3, <2>4 DEF Typed, Again, Started, Versioned
    <2>6. QED
      BY <2>1, <2>5 DEF OlepsInv, Encoding, Finished, Decoding, Resulting, StaysInSet, ResultsMarshal
  <1>4. QED
    BY <1>2, <1>3

\* The table is checked before a value is decoded.
LEMMA UnmarshalTableKeeps == ASSUME OlepsInv, UnmarshalTable PROVE OlepsInv'
  <1> DEFINE whole == SubSeq(set, 1, UInt(set, 0, 4))
  <1>1. Typed /\ Again /\ out = <<>> /\ pc = "table" /\ UInt(buf, 2, 2) <= 1 /\ set \in Seq(Byte)
    BY DEF OlepsInv, Started, Versioned, UnmarshalTable, Typed
  <1>2. CASE Ends(SizeError(set))
    <2>1. SizeError(set) \in {"eof", "invalid"}
      BY <1>2, ErrorsAre DEF Ends
    <2>2. QED
      BY <1>2, <2>1, ErrorKeeps
  <1>3. CASE Ends("invalid")
    BY <1>3, ErrorKeeps
  <1>4. CASE ~ Ends(SizeError(set)) /\ ~ Ends("invalid")
    <2>1. /\ SizeError(set) = "none" /\ TableValid(whole)
          /\ set' = whole /\ cp' = CodePage(whole) /\ pc' = "decode"
          /\ stm' = stm /\ buf' = buf /\ sent' = sent /\ out' = out
      BY <1>4 DEF UnmarshalTable
    <2>2. whole \in Seq(Byte) /\ Decoded(whole, <<>>, CodePage(whole))
      BY <1>1, <2>1, DecodingBegins
    <2> HIDE DEF whole
    <2>3. Typed' /\ Again' /\ Versioned' /\ Decoding'
      BY <1>1, <2>1, <2>2 DEF Typed, Again, Versioned, Decoding
    <2>4. QED
      BY <2>1, <2>3 DEF OlepsInv, Encoding, Finished, Started, Resulting, StaysInSet, ResultsMarshal
  <1>5. QED
    BY <1>2, <1>3, <1>4

\* A value that is decoded is of a type Marshal takes.
LEMMA UnmarshalPropertyKeeps ==
    ASSUME OlepsInv, NEW i \in 1 .. Len(out) + 1, UnmarshalProperty(i)
    PROVE  OlepsInv'
  <1> DEFINE p == Packet(set, i - 1)
             b == Bytes(set, p)
             vt == UInt(b, 0, 2)
             body == SubSeq(b, 5, Len(b))
             e == [id |-> p.id, value |-> DecodeValue(vt, body, cp)]
  <1>1. /\ Typed /\ Again /\ pc = "decode" /\ UInt(buf, 2, 2) <= 1 /\ Decoded(set, out, cp)
        /\ set \in Seq(Byte) /\ out \in PropertyLists
    BY DEF OlepsInv, Versioned, Decoding, Typed, UnmarshalProperty
  <1>2. i <= NumProps(set) /\ Len(out) = i - 1
    BY DEF UnmarshalProperty
  <1>3. i \in Nat /\ i = Len(out) + 1 /\ i \in 1 .. NumProps(set)
    <2>1. Len(out) \in Nat /\ NumProps(set) \in Nat
      BY <1>1 DEF PropertyLists, Decoded, TableFits
    <2>2. QED
      BY <1>2, <2>1
  <1>4. p.off <= p.end /\ p.end <= Len(set)
    BY <1>1, <1>3, PacketInside
  <1>5. CASE Ends("invalid")
    BY <1>5, ErrorKeeps
  <1>6. CASE ~ Ends("invalid")
    <2>1. /\ ~ BadProperty(p.id, b) /\ Decodable(vt, body, cp)
          /\ out' = Append(out, e)
          /\ pc' = pc /\ stm' = stm /\ buf' = buf /\ cp' = cp /\ sent' = sent /\ set' = set
      BY <1>4, <1>6 DEF UnmarshalProperty
    <2>2. DecodesTo(set, cp, i, p, b, vt, body, e)
      BY <2>1 DEF DecodesTo
    <2> HIDE DEF p, b, vt, body, e
    <2>3. out' \in PropertyLists /\ Decoded(set, out', cp)
      BY <1>1, <1>2, <1>3, <2>1, <2>2, DecodingGoesOn
    <2>4. Typed' /\ Again' /\ Versioned' /\ Decoding'
      BY <1>1, <2>1, <2>3 DEF Typed, Again, Versioned, Decoding
    <2>5. QED
      BY <1>1, <2>1, <2>4 DEF OlepsInv, Encoding, Finished, Started, Resulting, StaysInSet, ResultsMarshal
  <1>7. QED
    BY <1>5, <1>6

\* The result is complete when every packet has been decoded.
LEMMA UnmarshalEndKeeps == ASSUME OlepsInv, UnmarshalEnd PROVE OlepsInv'
  <1>1. Typed /\ Again /\ pc = "decode" /\ UInt(buf, 2, 2) <= 1 /\ Decoded(set, out, cp) /\ out \in PropertyLists
    BY DEF OlepsInv, Versioned, Decoding, Typed, UnmarshalEnd
  <1>2. /\ Len(out) = NumProps(set) /\ pc' = "unmarshalled"
        /\ stm' = stm /\ buf' = buf /\ cp' = cp /\ sent' = sent /\ set' = set /\ out' = out
    BY DEF UnmarshalEnd
  <1>3. Acceptable(out, cp)
    BY <1>1, <1>2, DecodingEnds
  <1>4. Typed' /\ Again' /\ Versioned' /\ Resulting'
    BY <1>1, <1>2, <1>3 DEF Typed, Again, Versioned, Resulting
  <1>5. QED
    BY <1>2, <1>4 DEF OlepsInv, Encoding, Finished, Started, Decoding, StaysInSet, ResultsMarshal

\* The result is marshalled again.
LEMMA MarshalResultKeeps == ASSUME OlepsInv, MarshalResult PROVE OlepsInv'
  <1>1. Typed /\ UInt(buf, 2, 2) <= 1 /\ Acceptable(out, cp) /\ out \in PropertyLists /\ buf \in Seq(Byte)
    BY DEF OlepsInv, Versioned, Resulting, Typed, MarshalResult
  <1>2. /\ stm' = [version |-> UInt(buf, 2, 2), sets |-> <<out>>] /\ pc' = "marshal"
        /\ buf' = <<>> /\ cp' = 0 /\ set' = <<>> /\ out' = <<>>
    BY DEF MarshalResult
  <1>3. stm'.version = UInt(buf, 2, 2) /\ stm'.sets = <<out>>
    BY <1>2
  <1>4. UInt(buf, 2, 2) \in Nat
    <2>1. 2 \in Nat /\ 2 \in 1 .. 8
      OBVIOUS
    <2>2. QED
      BY <1>1, <2>1, UIntNat
  <1>5. <<out>> \in Seq(PropertyLists) /\ Len(<<out>>) = 1 /\ <<out>>[1] = out
    BY <1>1
  <1>6. <<>> \in PropertyLists /\ <<>> \in Seq(Byte)
    BY DEF PropertyLists
  <1>7. Typed'
    BY <1>2, <1>3, <1>4, <1>5, <1>6 DEF Typed
  <1>8. Again'
    BY <1>1, <1>3, <1>5 DEF Again
  <1>9. QED
    BY <1>2, <1>7, <1>8 DEF OlepsInv, Encoding, Finished, Started, Versioned, Decoding, Resulting,
                            StaysInSet, ResultsMarshal

\* The invariant is inductive.
LEMMA OlepsInvNext == ASSUME OlepsInv, [Next]_vars PROVE OlepsInv'
  <1>1. CASE Marshal
    BY <1>1, MarshalHeaderKeeps, MarshalPropertyKeeps, MarshalEndKeeps DEF Marshal
  <1>2. CASE Transfer
    BY <1>2, TransferKeeps
  <1>3. CASE Unmarshal
    BY <1>3, UnmarshalHeaderKeeps, UnmarshalTableKeeps, UnmarshalPropertyKeeps, UnmarshalEndKeeps DEF Unmarshal
  <1>4. CASE MarshalResult
    BY <1>4, MarshalResultKeeps
  <1>5. CASE UNCHANGED vars
    BY <1>5 DEF OlepsInv, vars, Typed, Encoding, Finished, Started, Versioned, Decoding, Resulting, Again,
                StaysInSet, ResultsMarshal
  <1>6. QED
    BY <1>1, <1>2, <1>3, <1>4, <1>5 DEF Next

(* OlepsInv holds of every state, whatever was marshalled and whatever      *)
(* happened to the stream.                                                  *)
THEOREM OlepsInvariant == Spec => []OlepsInv
  <1>1. Init => OlepsInv
    BY OlepsInvInit
  <1>2. OlepsInv /\ [Next]_vars => OlepsInv'
    BY OlepsInvNext
  <1>3. QED
    BY <1>1, <1>2, PTL DEF Spec

(* StaysInSet: Unmarshal (decode.go), whatever bytes it is given, slices    *)
(* the set only where it has bytes; the checks it has made by then are      *)
(* enough.                                                                  *)
THEOREM StaysWithinSet == Spec => []StaysInSet
  <1>1. OlepsInv => StaysInSet
    BY DEF OlepsInv
  <1>2. QED
    BY <1>1, OlepsInvariant, PTL

(* ResultsMarshal: when Marshal (encode.go) refuses what Unmarshal returned *)
(* for some stream, it has come to a time of the last second or to a text   *)
(* of a code page of one byte a character in which decode.go:261 replaced   *)
(* bytes by U+FFFD. The decoder accepts no version, code page, type, size   *)
(* or id that the encoder does not write.                                   *)
THEOREM ResultsMarshalled == Spec => []ResultsMarshal
  <1>1. OlepsInv => ResultsMarshal
    BY DEF OlepsInv
  <1>2. QED
    BY <1>1, OlepsInvariant, PTL

(* PacketsApart: the values of a table that Unmarshal has checked lie       *)
(* behind the table and follow each other in its order, so that none        *)
(* shares a byte with another.                                              *)
THEOREM ValuesApart == Spec => []PacketsApart
  <1>1. ASSUME OlepsInv PROVE PacketsApart
    <2>1. SUFFICES ASSUME pc = "decode", NEW i \in 0 .. NumProps(set) - 1, NEW j \in 0 .. NumProps(set) - 1
                   PROVE  /\ Packet(set, i).off >= 8 + 8 * NumProps(set)
                          /\ i < j => Packet(set, i).end <= Packet(set, j).off
      BY DEF PacketsApart
    <2>2. set \in Seq(Byte) /\ TableFits(set) /\ EntriesPassed(set)
      BY <1>1, <2>1 DEF OlepsInv, Typed, Decoding, Decoded, TableValid, EntriesPassed
    <2>3. PICK off, n \in Nat : off = Packet(set, i).off /\ n = NumProps(set) /\ 8 + 8 * n <= off
      <3>1. ~ BadPacket(set, Packet(set, i))
        BY <2>2 DEF EntriesPassed
      <3>2. Packet(set, i).off \in Nat /\ 8 + 8 * NumProps(set) <= Packet(set, i).off
        BY <2>2, <3>1, PacketFits
      <3>3. QED
        BY <2>2, <3>2 DEF TableFits
    <2>4. Packet(set, i).off >= 8 + 8 * NumProps(set)
      BY <2>3
    <2>5. QED
      BY <2>2, <2>4, PacketsOrdered
  <1>2. OlepsInv => PacketsApart
    BY <1>1
  <1>3. QED
    BY <1>2, OlepsInvariant, PTL

-----------------------------------------------------------------------------
(* What is read is what was written                                         *)

\* The offsets and the size of the set are numbers of 32 bits.
Fits == Len(buf) - SetOff < U32

\* The properties decoded so far are the first that are to be seen.
ReadSoFar(props, o) == Len(o) <= Len(props) /\ \A i \in 1 .. Len(o) : o[i] = Seen(props)[i]
\* The set of a stream.
SetOf(b) == SubSeq(b, SetOff + 1, Len(b))
\* A stream that nobody touched is what Marshal wrote, no check refuses it, and
\* each property decoded from it is the one that was encoded, as it is seen.
Intact ==
    sent \in {"whole", "again"} =>
        /\ pc \notin {"eof", "invalid"}
        /\ pc \in {"unmarshal", "table", "decode"} => Marshalled(stm, buf, cp)
        /\ pc \in {"table", "decode"} => set = SetOf(buf)
        /\ pc = "decode" => ReadSoFar(stm.sets[1], out)
        /\ pc = "unmarshalled" => out = Seen(stm.sets[1])

\* b is the beginning of a stream that Marshal finished.
CutFrom(s, b, page) ==
    \E w, m : /\ Marshalled(s, w, page) /\ Len(w) - SetOff < U32
              /\ m \in 0 .. Len(w) - 1 /\ b = SubSeq(w, 1, m)
\* A stream that lost its end is the beginning of such a one; it does not get to a value.
Shortened ==
    sent = "cut" =>
        /\ pc \in {"unmarshal", "table", "eof"}
        /\ pc # "eof" => CutFrom(stm, buf, cp)
        /\ pc = "table" => Len(buf) >= SetOff /\ set = SetOf(buf)

\* The inductive invariant of what is read.
ReadInv == OlepsInv /\ Intact /\ Shortened

\* What a finished stream's set is.
LEMMA MarshalledSet ==
    ASSUME NEW s, s.version \in Nat, s.sets \in Seq(PropertyLists), NEW b, NEW page,
           Marshalled(s, b, page), Len(b) - SetOff < U32
    PROVE  /\ s.sets[1] \in PropertyLists /\ PageIs(s.sets[1], page)
           /\ s.version \in 0 .. 1 /\ HeaderAt(b, s.version, Len(s.sets[1]))
           /\ \E offs : /\ SetLaid(SetOf(b), s.sets[1], offs, page)
                        /\ Written(b, s.version, s.sets[1], offs, page)
  <1>1. Len(s.sets) = 1 /\ s.version \in 0 .. 1 /\ PageIs(s.sets[1], page)
    BY DEF Marshalled
  <1>2. s.sets[1] \in PropertyLists
    BY <1>1, OnlyList
  <1>3. PICK offs : Written(b, s.version, s.sets[1], offs, page)
    BY DEF Marshalled
  <1>4. SetLaid(SetOf(b), s.sets[1], offs, page)
    BY <1>2, <1>3, SetOfStream DEF SetOf
  <1>5. HeaderAt(b, s.version, Len(s.sets[1]))
    BY <1>3 DEF Written
  <1>6. QED
    BY <1>1, <1>2, <1>3, <1>4, <1>5

\* Marshal, and what happens to the stream.
LEMMA ReadInvStart ==
    ASSUME ReadInv, Fits, Marshal \/ Transfer \/ MarshalResult
    PROVE  Intact' /\ Shortened'
  <1>1. CASE Marshal
    <2>1. pc' \in {"encode", "refused", "marshalled"} /\ sent' = sent /\ pc \in {"marshal", "encode"}
      BY <1>1 DEF Marshal, MarshalHeader, MarshalProperty, MarshalEnd
    <2>2. sent # "cut"
      BY <2>1 DEF ReadInv, Shortened
    <2>3. QED
      BY <2>1, <2>2 DEF Intact, Shortened
  <1>2. CASE MarshalResult
    <2>1. pc' = "marshal" /\ sent' = "again"
      BY <1>2 DEF MarshalResult
    <2>2. QED
      BY <2>1 DEF Intact, Shortened
  <1>3. CASE Transfer
    <2>1. pc = "marshalled" /\ pc' = "unmarshal" /\ stm' = stm /\ cp' = cp /\ Marshalled(stm, buf, cp)
      BY <1>3 DEF Transfer, Keep, Cut, Damage, ReadInv, OlepsInv, Finished
    <2>2. CASE Keep
      <3>1. buf' = buf /\ sent' = sent /\ sent # "cut"
        BY <2>1, <2>2 DEF Keep, ReadInv, Shortened
      <3>2. QED
        BY <2>1, <3>1 DEF Intact, Shortened
    <2>3. ASSUME NEW n \in 0 .. Len(buf) - 1, Cut(n) PROVE Intact' /\ Shortened'
      <3>1. buf' = SubSeq(buf, 1, n) /\ sent' = "cut"
        BY <2>3 DEF Cut
      <3>2. CutFrom(stm, buf', cp)
        BY <2>1, <3>1 DEF CutFrom, Fits
      <3>3. QED
        BY <2>1, <3>1, <3>2 DEF Intact, Shortened
    <2>4. ASSUME NEW at \in Places, NEW bytes \in Damages, Damage(at, bytes) PROVE Intact' /\ Shortened'
      <3>1. sent' = "damaged"
        BY <2>4 DEF Damage
      <3>2. QED
        BY <3>1 DEF Intact, Shortened
    <2>5. QED
      BY <1>3, <2>2, <2>3, <2>4 DEF Transfer
  <1>4. QED
    BY <1>1, <1>2, <1>3

\* Whatever is appended to a sequence, its elements stay.
LEMMA AppendAny ==
    ASSUME NEW S, NEW q \in Seq(S), NEW x
    PROVE  /\ Len(Append(q, x)) = Len(q) + 1 /\ Append(q, x)[Len(q) + 1] = x
           /\ \A k \in 1 .. Len(q) : Append(q, x)[k] = q[k]
  <1> DEFINE T == S \cup {x}
  <1>1. q \in Seq(T) /\ x \in T
    OBVIOUS
  <1> HIDE DEF T
  <1>2. QED
    BY <1>1, AppendIs

\* A stream as Marshal returned it is taken at every step of Unmarshal.
LEMMA IntactUnmarshal == ASSUME ReadInv, Fits, Unmarshal PROVE Intact'
  <1>1. stm' = stm /\ sent' = sent /\ buf' = buf
    BY DEF Unmarshal, UnmarshalHeader, UnmarshalTable, UnmarshalProperty, UnmarshalEnd, Ends
  <1>2. SUFFICES ASSUME sent \in {"whole", "again"} PROVE Intact'
    BY <1>1 DEF Intact
  <1>3. /\ pc \notin {"eof", "invalid"}
        /\ pc \in {"unmarshal", "table", "decode"} => Marshalled(stm, buf, cp)
        /\ pc \in {"table", "decode"} => set = SetOf(buf)
        /\ pc = "decode" => ReadSoFar(stm.sets[1], out)
    BY <1>2 DEF ReadInv, Intact
  <1>4. pc \in {"unmarshal", "table", "decode"}
    BY DEF Unmarshal, UnmarshalHeader, UnmarshalTable, UnmarshalProperty, UnmarshalEnd
  <1>5. stm.version \in Nat /\ stm.sets \in Seq(PropertyLists) /\ buf \in Seq(Byte) /\ out \in PropertyLists
    BY DEF ReadInv, OlepsInv, Typed
  <1>6. PICK offs : /\ stm.sets[1] \in PropertyLists /\ PageIs(stm.sets[1], cp)
                    /\ stm.version \in 0 .. 1 /\ HeaderAt(buf, stm.version, Len(stm.sets[1]))
                    /\ SetLaid(SetOf(buf), stm.sets[1], offs, cp)
                    /\ Written(buf, stm.version, stm.sets[1], offs, cp)
    BY <1>3, <1>4, <1>5, MarshalledSet DEF Fits
  <1>7. Len(stm.sets[1]) \in Nat /\ DOMAIN stm.sets[1] = 1 .. Len(stm.sets[1])
    BY <1>6 DEF PropertyLists
  <1>8. CASE UnmarshalHeader
    <2>1. HeaderError(buf) = "none" /\ UInt(buf, 44, 4) = SetOff
      <3>1. PICK l \in Nat : l = Len(buf) /\ l \in 0 .. Len(buf) /\ 56 + 8 * Len(stm.sets[1]) <= l
        BY <1>5, <1>6 DEF HeaderAt
      <3>2. l >= SetOff
        BY <1>7, <3>1 DEF SetOff
      <3>3. buf = SubSeq(buf, 1, l)
        BY <1>5, <3>1
      <3>4. QED
        BY <1>6, <3>1, <3>2, <3>3, HeaderReads
    <2>2. set' = SetOf(buf) /\ pc' = "table" /\ cp' = cp
      BY <1>8, <2>1 DEF UnmarshalHeader, Ends, SetOf
    <2>3. QED
      BY <1>1, <1>3, <1>4, <2>2 DEF Intact
  <1>9. CASE UnmarshalTable
    <2>1. set = SetOf(buf) /\ pc = "table"
      BY <1>3, <1>9 DEF UnmarshalTable
    <2>2. SizeError(set) = "none" /\ SubSeq(set, 1, UInt(set, 0, 4)) = set
      BY <1>6, <2>1, SizePasses
    <2>3. TableValid(set) /\ CodePage(set) = cp
      BY <1>6, <2>1, TablePasses
    <2>4. set' = set /\ cp' = cp /\ pc' = "decode" /\ out' = out
      BY <1>9, <2>2, <2>3 DEF UnmarshalTable, Ends
    <2>5. ReadSoFar(stm.sets[1], out)
      <3>1. out = <<>> /\ Len(<<>>) = 0 /\ 1 .. 0 = {} /\ 0 <= Len(stm.sets[1])
        BY <1>7, <2>1 DEF ReadInv, OlepsInv, Started
      <3>2. QED
        BY <3>1 DEF ReadSoFar
    <2>6. QED
      BY <1>1, <1>3, <1>4, <2>1, <2>4, <2>5 DEF Intact
  <1>10. ASSUME NEW i \in 1 .. Len(out) + 1, UnmarshalProperty(i) PROVE Intact'
    <2>1. /\ set = SetOf(buf) /\ pc = "decode" /\ i <= NumProps(set) /\ Len(out) = i - 1
          /\ ReadSoFar(stm.sets[1], out)
      BY <1>3, <1>10 DEF UnmarshalProperty
    <2>2. NumProps(set) = Len(stm.sets[1])
      BY <1>6, <2>1, SetReads
    <2>3. i \in 1 .. Len(stm.sets[1])
      BY <1>7, <2>1, <2>2
    <2> DEFINE p == Packet(set, i - 1)
               b == Bytes(set, p)
               vt == UInt(b, 0, 2)
               body == SubSeq(b, 5, Len(b))
               e == [id |-> p.id, value |-> DecodeValue(vt, body, cp)]
    <2>4. /\ p.off <= p.end /\ p.end <= Len(set) /\ ~ BadProperty(p.id, b) /\ Decodable(vt, body, cp)
          /\ e = Seen(stm.sets[1])[i]
      <3>1. PICK props \in PropertyLists : props = stm.sets[1] /\ SetLaid(set, props, offs, cp) /\ i \in 1 .. Len(props)
        BY <1>6, <2>1, <2>3
      <3>2. p.off <= p.end /\ p.end <= Len(set)
        BY <3>1, PropertyReads
      <3>3. ~ BadProperty(p.id, b)
        BY <3>1, PropertyReads
      <3>4. Decodable(vt, body, cp)
        BY <3>1, PropertyReads
      <3>5. e = Seen(props)[i]
        <4>1. ElementAt(set, i, cp) = SeenAt(props, i)
          BY <3>1, ElementReads
        <4>2. QED
          BY <4>1 DEF ElementAt, SeenAt
      <3>6. QED
        BY <3>1, <3>2, <3>3, <3>4, <3>5
    <2>5. out' = Append(out, e) /\ pc' = pc /\ cp' = cp /\ set' = set
      BY <1>10, <2>4 DEF UnmarshalProperty
    <2> HIDE DEF e
    <2>6. /\ Len(Append(out, e)) = i /\ Append(out, e)[i] = e
          /\ \A k \in 1 .. Len(out) : Append(out, e)[k] = out[k]
      <3>1. PICK S : out \in Seq(S)
        BY <1>5 DEF PropertyLists
      <3>2. /\ Len(Append(out, e)) = Len(out) + 1 /\ Append(out, e)[Len(out) + 1] = e
            /\ \A k \in 1 .. Len(out) : Append(out, e)[k] = out[k]
        BY <3>1, AppendAny
      <3>3. Len(out) + 1 = i
        BY <2>1, <2>3
      <3>4. QED
        BY <3>2, <3>3
    <2> DEFINE r == Append(out, e)
    <2> HIDE DEF r
    <2>7. ASSUME NEW k \in 1 .. i PROVE r[k] = Seen(stm.sets[1])[k]
      <3>1. CASE k = i
        BY <2>4, <2>6, <3>1 DEF r
      <3>2. CASE k # i
        <4>1. k \in 1 .. Len(out)
          BY <2>1, <2>3, <3>2
        <4>2. QED
          BY <2>1, <2>6, <4>1 DEF r, ReadSoFar
      <3>3. QED
        BY <3>1, <3>2
    <2>8. ReadSoFar(stm.sets[1], r)
      <3>1. Len(r) = i /\ i <= Len(stm.sets[1])
        BY <2>3, <2>6 DEF r
      <3>2. QED
        BY <2>7, <3>1 DEF ReadSoFar
    <2>9. QED
      BY <1>1, <1>3, <1>4, <2>1, <2>5, <2>8 DEF Intact, r
  <1>11. CASE UnmarshalEnd
    <2>1. /\ set = SetOf(buf) /\ pc = "decode" /\ Len(out) = NumProps(set) /\ pc' = "unmarshalled" /\ out' = out
          /\ ReadSoFar(stm.sets[1], out)
      BY <1>3, <1>11 DEF UnmarshalEnd
    <2>2. NumProps(set) = Len(stm.sets[1])
      BY <1>6, <2>1, SetReads
    <2>3. out = Seen(stm.sets[1])
      <3>1. out = [k \in 1 .. Len(out) |-> out[k]]
        BY <1>5 DEF PropertyLists
      <3>2. Seen(stm.sets[1]) = [k \in 1 .. Len(out) |-> Seen(stm.sets[1])[k]]
        BY <1>7, <2>1, <2>2 DEF Seen
      <3>3. \A k \in 1 .. Len(out) : out[k] = Seen(stm.sets[1])[k]
        BY <2>1 DEF ReadSoFar
      <3>4. QED
        BY <3>1, <3>2, <3>3, Zenon
    <2>4. QED
      BY <1>1, <2>1, <2>3 DEF Intact
  <1>12. QED
    BY <1>8, <1>9, <1>10, <1>11 DEF Unmarshal

\* The beginning of a stream is refused for the bytes it does not have.
LEMMA ShortenedUnmarshal == ASSUME ReadInv, Unmarshal PROVE Shortened'
  <1>1. stm' = stm /\ sent' = sent /\ buf' = buf
    BY DEF Unmarshal, UnmarshalHeader, UnmarshalTable, UnmarshalProperty, UnmarshalEnd, Ends
  <1>2. SUFFICES ASSUME sent = "cut" PROVE Shortened'
    BY <1>1 DEF Shortened
  <1>3. /\ pc \in {"unmarshal", "table", "eof"}
        /\ pc # "eof" => CutFrom(stm, buf, cp)
        /\ pc = "table" => Len(buf) >= SetOff /\ set = SetOf(buf)
    BY <1>2 DEF ReadInv, Shortened
  <1>4. pc \in {"unmarshal", "table"}
    BY <1>3 DEF Unmarshal, UnmarshalHeader, UnmarshalTable, UnmarshalProperty, UnmarshalEnd
  <1>5. stm.version \in Nat /\ stm.sets \in Seq(PropertyLists) /\ buf \in Seq(Byte)
    BY DEF ReadInv, OlepsInv, Typed
  <1>6. PICK w, m : /\ Marshalled(stm, w, cp) /\ Len(w) - SetOff < U32
                    /\ m \in 0 .. Len(w) - 1 /\ buf = SubSeq(w, 1, m)
    BY <1>3, <1>4 DEF CutFrom
  <1>7. PICK props, offs : /\ props = stm.sets[1] /\ props \in PropertyLists /\ stm.version \in 0 .. 1
                           /\ HeaderAt(w, stm.version, Len(props))
                           /\ Written(w, stm.version, props, offs, cp)
    BY <1>5, <1>6, MarshalledSet
  <1>8. w \in Seq(Byte) /\ m \in Nat /\ m < Len(w) /\ m \in 0 .. Len(w)
    BY <1>6, <1>7 DEF HeaderAt
  <1>9. /\ m < SetOff => HeaderError(buf) = "eof"
        /\ m >= SetOff => HeaderError(buf) = "none" /\ UInt(buf, 44, 4) = SetOff
        /\ Len(buf) = m
    BY <1>6, <1>7, <1>8, HeaderReads
  <1>10. CASE UnmarshalHeader
    <2>1. CASE m < SetOff
      <3>1. pc' = "eof"
        BY <1>9, <1>10, <2>1 DEF UnmarshalHeader, Ends
      <3>2. QED
        BY <3>1 DEF Shortened
    <2>2. CASE ~(m < SetOff)
      <3>1. m >= SetOff
        BY <1>8, <2>2 DEF SetOff
      <3>2. pc' = "table" /\ set' = SetOf(buf) /\ cp' = cp
        BY <1>9, <1>10, <3>1 DEF UnmarshalHeader, Ends, SetOf
      <3>3. Len(buf) >= SetOff
        BY <1>9, <3>1
      <3>4. QED
        BY <1>1, <1>3, <1>4, <3>2, <3>3 DEF Shortened
    <2>3. QED
      BY <2>1, <2>2
  <1>11. CASE UnmarshalTable
    <2>1. set = SetOf(buf) /\ Len(buf) >= SetOff
      BY <1>3, <1>11 DEF UnmarshalTable
    <2>2. SizeError(set) = "eof"
      <3>1. SetOff <= m
        BY <1>8, <1>9, <2>1 DEF SetOff
      <3>2. set = SubSeq(SubSeq(w, 1, m), SetOff + 1, m)
        BY <1>6, <1>9, <2>1 DEF SetOf
      <3>3. stm.version \in Nat
        BY <1>5
      <3>4. SizeError(SubSeq(SubSeq(w, 1, m), SetOff + 1, m)) = "eof"
        BY <1>6, <1>7, <1>8, <3>1, <3>3, CutIsEOF
      <3>5. QED
        BY <3>2, <3>4
    <2>3. pc' = "eof"
      BY <1>11, <2>2 DEF UnmarshalTable, Ends
    <2>4. QED
      BY <2>3 DEF Shortened
  <1>12. ~ UnmarshalEnd /\ \A i \in 1 .. Len(out) + 1 : ~ UnmarshalProperty(i)
    BY <1>4 DEF UnmarshalEnd, UnmarshalProperty
  <1>13. QED
    BY <1>10, <1>11, <1>12 DEF Unmarshal

\* Every step keeps it, while the stream fits.
LEMMA ReadInvNext == ASSUME ReadInv, Fits, [Next]_vars PROVE ReadInv'
  <1>1. OlepsInv'
    BY OlepsInvNext DEF ReadInv
  <1>2. CASE Marshal \/ Transfer \/ MarshalResult
    BY <1>1, <1>2, ReadInvStart DEF ReadInv
  <1>3. CASE Unmarshal
    BY <1>1, <1>3, IntactUnmarshal, ShortenedUnmarshal DEF ReadInv
  <1>4. CASE UNCHANGED vars
    BY <1>1, <1>4 DEF ReadInv, Intact, Shortened, vars
  <1>5. QED
    BY <1>2, <1>3, <1>4 DEF Next

(* ReadInv holds of every state while the stream fits. Marshal casts the    *)
(* length of the set to an uint32 (encode.go:124, 142), and so writes       *)
(* wrong offsets in a larger one.                                           *)
THEOREM ReadInvariant == Spec /\ []Fits => []ReadInv
  <1>1. Init => ReadInv
    <2>1. ASSUME Init PROVE Intact /\ Shortened
      BY <2>1 DEF Init, Intact, Shortened
    <2>2. QED
      BY <2>1, OlepsInvInit DEF ReadInv
  <1>2. ReadInv /\ Fits /\ [Next]_vars => ReadInv'
    BY ReadInvNext
  <1>3. QED
    BY <1>1, <1>2, PTL DEF Spec

(* RoundTrip: Unmarshal returns of every stream that Marshal has finished,  *)
(* and that nobody touched, what was encoded, as far as a code page and a   *)
(* time can hold it. The set must fit an uint32.                            *)
THEOREM ReadsBack == Spec /\ []Fits => []RoundTrip
  <1>1. ReadInv => RoundTrip
    BY DEF ReadInv, Intact, RoundTrip
  <1>2. QED
    BY <1>1, ReadInvariant, PTL

(* TruncationIsEOF: wherever a stream that Marshal has finished is cut      *)
(* off, Unmarshal returns io.ErrUnexpectedEOF: no prefix passes for a       *)
(* whole stream or for an invalid one.                                      *)
THEOREM CutStreamIsEOF == Spec /\ []Fits => []TruncationIsEOF
  <1>1. ReadInv => TruncationIsEOF
    BY DEF ReadInv, Shortened, TruncationIsEOF
  <1>2. QED
    BY <1>1, ReadInvariant, PTL
=============================================================================
