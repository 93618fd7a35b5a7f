--------------------------- MODULE SequenceLemmas ---------------------------
(***************************************************************************)
(* Lemmas about sequences that several components' proofs need: induction  *)
(* by the least counterexample, slices of a sequence that grows, and       *)
(* FlattenSeq of the community modules, which is defined by recursion.     *)
(*                                                                         *)
(* The induction theorems of the library take the property as an operator  *)
(* argument. The lemma Least needs none: a property that fails for some    *)
(* natural number fails for a least one, a member of the set of those for  *)
(* which it fails, and that set is a first-order argument.                 *)
(***************************************************************************)
EXTENDS Integers, SequencesExt, SequenceTheorems, WellFoundedInduction, TLAPS

\* A set of natural numbers that is not empty has a least element.
LEMMA Least ==
    ASSUME NEW T, T \subseteq Nat, T # {}
    PROVE  \E m \in T : \A k \in T : m <= k
  <1>1. PICK x \in T : \A y \in T : ~(<<y, x>> \in OpToRel(<, Nat))
    BY NatLessThanWellFounded, WFMin, Zenon
  <1>2. \A y \in T : ~(y < x)
    BY <1>1 DEF OpToRel
  <1>3. QED
    BY <1>2

-----------------------------------------------------------------------------
\* Concatenation under a name of its own: the provers know too much of \o,
\* and lose their way in equations that only need that it is associative.
Cat(q, r) == q \o r

(* Slices                                                                   *)

\* What SubSeq returns, in the form most leaves need.
LEMMA Slice ==
    ASSUME NEW S, NEW q \in Seq(S), NEW a \in Nat, NEW c \in Nat, a <= c, c <= Len(q)
    PROVE  /\ SubSeq(q, a + 1, c) \in Seq(S)
           /\ Len(SubSeq(q, a + 1, c)) = c - a
           /\ \A i \in 1 .. c - a : SubSeq(q, a + 1, c)[i] = q[a + i]
  OBVIOUS

\* Sequences of the same length with the same elements.
LEMMA SameSeq ==
    ASSUME NEW S, NEW q \in Seq(S), NEW r \in Seq(S), Len(q) = Len(r),
           \A i \in 1 .. Len(q) : q[i] = r[i]
    PROVE  q = r
  OBVIOUS

\* A slice stays what it is when the sequence grows.
LEMMA SliceStays ==
    ASSUME NEW S, NEW q \in Seq(S), NEW x \in Seq(S)
    PROVE  \A a, c \in Nat : c <= Len(q) => SubSeq(Cat(q, x), a + 1, c) = SubSeq(q, a + 1, c)
  BY DEF Cat

\* What is appended is the slice at the end.
LEMMA SliceEnd ==
    ASSUME NEW S, NEW q \in Seq(S), NEW x \in Seq(S)
    PROVE  SubSeq(Cat(q, x), Len(q) + 1, Len(q) + Len(x)) = x
  BY DEF Cat

\* Two adjacent slices make one.
LEMMA SlicesJoin ==
    ASSUME NEW S, NEW q \in Seq(S)
    PROVE  \A a, b, c \in Nat : a <= b /\ b <= c /\ c <= Len(q)
             => Cat(SubSeq(q, a + 1, b), SubSeq(q, b + 1, c)) = SubSeq(q, a + 1, c)
  BY DEF Cat

\* What concatenation returns.
LEMMA CatType ==
    ASSUME NEW S, NEW q \in Seq(S), NEW r \in Seq(S)
    PROVE  /\ Cat(q, r) \in Seq(S)
           /\ Len(Cat(q, r)) = Len(q) + Len(r)
           /\ Len(q) \in Nat /\ Len(r) \in Nat
  BY DEF Cat

\* The elements of the first part of a concatenation,
LEMMA CatFirst ==
    ASSUME NEW S, NEW q \in Seq(S), NEW r \in Seq(S), NEW i \in 1 .. Len(q)
    PROVE  Cat(q, r)[i] = q[i]
  BY DEF Cat

\* and those of the second.
LEMMA CatSecond ==
    ASSUME NEW S, NEW q \in Seq(S), NEW r \in Seq(S), NEW i \in 1 .. Len(r)
    PROVE  Cat(q, r)[Len(q) + i] = r[i]
  BY DEF Cat

LEMMA CatEmpty == ASSUME NEW S, NEW q \in Seq(S) PROVE Cat(q, <<>>) = q /\ Cat(<<>>, q) = q
  BY DEF Cat

\* Concatenation is associative.
LEMMA CatAssoc ==
    ASSUME NEW S, NEW q \in Seq(S), NEW r \in Seq(S), NEW x \in Seq(S)
    PROVE  Cat(Cat(q, r), x) = Cat(q, Cat(r, x))
  BY DEF Cat

\* A sequence begins with what it began with before more was appended.
LEMMA PrefixStays ==
    ASSUME NEW S, NEW q \in Seq(S), NEW x \in Seq(S), NEW n \in Nat, n <= Len(q)
    PROVE  SubSeq(Cat(q, x), 1, n) = SubSeq(q, 1, n)
  BY DEF Cat

\* A slice up to the end grows by what is appended.
LEMMA SliceGrows ==
    ASSUME NEW S, NEW q \in Seq(S), NEW x \in Seq(S), NEW a \in Nat, a <= Len(q)
    PROVE  SubSeq(Cat(q, x), a + 1, Len(q) + Len(x)) = Cat(SubSeq(q, a + 1, Len(q)), x)
  <1> DEFINE w == Cat(q, x)
             m == Len(q)
             n == Len(q) + Len(x)
  <1>1. /\ w \in Seq(S) /\ m \in Nat /\ n \in Nat /\ a <= m /\ m <= n /\ n <= Len(w)
    <2>1. Len(x) \in Nat /\ Len(q) \in Nat /\ w \in Seq(S) /\ Len(w) = n
      BY CatType
    <2>2. QED
      BY <2>1
  <1>2. SubSeq(w, a + 1, m) = SubSeq(q, a + 1, m)
    <2>1. \A c \in Nat : c <= m => SubSeq(w, a + 1, c) = SubSeq(q, a + 1, c)
      BY SliceStays
    <2> HIDE DEF m, w
    <2>2. m <= m
      BY <1>1
    <2>3. QED
      BY <1>1, <2>1, <2>2
  <1>3. SubSeq(w, m + 1, n) = x
    BY SliceEnd
  <1> HIDE DEF w, m, n
  <1>4. Cat(SubSeq(w, a + 1, m), SubSeq(w, m + 1, n)) = SubSeq(w, a + 1, n)
    BY <1>1, SlicesJoin
  <1>5. SubSeq(w, a + 1, n) = Cat(SubSeq(q, a + 1, m), x)
    BY <1>2, <1>3, <1>4
  <1>6. QED
    BY <1>5 DEF w, m, n

\* Two slices of a sequence, the second of the rest.
LEMMA TakeDrop ==
    ASSUME NEW S, NEW q \in Seq(S), NEW n \in Nat, n <= Len(q)
    PROVE  Cat(SubSeq(q, 1, n), SubSeq(q, n + 1, Len(q))) = q
  <1>1. 0 \in Nat /\ Len(q) \in Nat /\ 0 <= n /\ 0 + 1 = 1 /\ Len(q) <= Len(q)
    OBVIOUS
  <1>2. \A a \in Nat : a <= n => Cat(SubSeq(q, a + 1, n), SubSeq(q, n + 1, Len(q)))
                                = SubSeq(q, a + 1, Len(q))
    BY <1>1, SlicesJoin
  <1>3. Cat(SubSeq(q, 1, n), SubSeq(q, n + 1, Len(q))) = SubSeq(q, 1, Len(q))
    BY <1>1, <1>2
  <1>4. SubSeq(q, 1, Len(q)) = q
    OBVIOUS
  <1>5. QED
    BY <1>3, <1>4

-----------------------------------------------------------------------------
(* FlattenSeq                                                               *)

\* The next partial result of flattening q.
Partial(q, f, i) == IF i = 1 THEN q[i] ELSE f[i - 1] \o q[i]

\* f lists the partial results up to place n.
Flattens(q, n, f) == f = [i \in 1 .. n |-> Partial(q, f, i)]

\* There are such partial results.
LEMMA FlatteningExists ==
    ASSUME NEW q, NEW n \in Nat
    PROVE  \E f : Flattens(q, n, f)
  <1> DEFINE Bad == {k \in Nat : ~\E f : Flattens(q, k, f)}
  <1>1. SUFFICES Bad = {}
    OBVIOUS
  <1>2. SUFFICES ASSUME Bad # {} PROVE FALSE
    OBVIOUS
  <1>3. PICK m \in Bad : \A k \in Bad : m <= k
    BY <1>2, Least
  <1>4. m # 0
    <2> DEFINE e == [i \in 1 .. 0 |-> Partial(q, <<>>, i)]
    <2>1. e = [i \in 1 .. 0 |-> Partial(q, e, i)]
      OBVIOUS
    <2>2. Flattens(q, 0, e)
      BY <2>1 DEF Flattens
    <2>3. QED
      BY <1>3, <2>2
  <1>5. m \in Nat /\ m - 1 \in Nat
    BY <1>3, <1>4
  <1>6. m - 1 \notin Bad
    BY <1>3, <1>5
  <1>7. PICK f : Flattens(q, m - 1, f)
    BY <1>5, <1>6
  <1> DEFINE g == [i \in 1 .. m |-> Partial(q, f, i)]
  <1>8. \A i \in 1 .. m : i = 1 \/ i - 1 \in 1 .. m - 1
    BY <1>5
  <1>9. \A i \in 1 .. m - 1 : i \in 1 .. m
    BY <1>5
  <1>10. ASSUME NEW i \in 1 .. m PROVE Partial(q, f, i) = Partial(q, g, i)
    <2>1. CASE i = 1
      BY <2>1 DEF Partial
    <2>2. CASE i - 1 \in 1 .. m - 1
      <3>1. f[i - 1] = Partial(q, f, i - 1)
        BY <1>7, <2>2 DEF Flattens
      <3>2. g[i - 1] = Partial(q, f, i - 1)
        BY <1>9, <2>2
      <3>3. QED
        BY <3>1, <3>2 DEF Partial
    <2>3. QED
      BY <1>8, <2>1, <2>2
  <1>11. Flattens(q, m, g)
    BY <1>10 DEF Flattens
  <1>12. QED
    BY <1>3, <1>11

\* FlattenSeq is the last of them.
LEMMA FlatteningChosen ==
    ASSUME NEW q, Len(q) \in Nat, Len(q) # 0
    PROVE  \E f : Flattens(q, Len(q), f) /\ FlattenSeq(q) = f[Len(q)]
  <1> DEFINE g == CHOOSE f : f = [i \in 1 .. Len(q) |-> IF i = 1 THEN q[i] ELSE f[i - 1] \o q[i]]
  <1>1. \E f : f = [i \in 1 .. Len(q) |-> IF i = 1 THEN q[i] ELSE f[i - 1] \o q[i]]
    BY FlatteningExists DEF Flattens, Partial
  <1>2. g = [i \in 1 .. Len(q) |-> IF i = 1 THEN q[i] ELSE g[i - 1] \o q[i]]
    BY <1>1
  <1>3. Flattens(q, Len(q), g)
    BY <1>2 DEF Flattens, Partial
  <1>4. FlattenSeq(q) = g[Len(q)]
    BY DEF FlattenSeq
  <1>5. QED
    BY <1>3, <1>4

Agree(q, r, n) == \A i \in 1 .. n : q[i] = r[i]

\* Two lists of partial results agree where the sequences do.
LEMMA FlatteningsAgree ==
    ASSUME NEW q, NEW r, NEW m \in Nat, NEW n \in Nat, NEW f, NEW g,
           Flattens(q, m, f), Flattens(r, n, g), m <= n, Agree(q, r, m)
    PROVE  Agree(f, g, m)
  <1> DEFINE Bad == {k \in 1 .. m : f[k] # g[k]}
  <1>1. SUFFICES ASSUME Bad # {} PROVE FALSE
    BY DEF Agree
  <1>2. Bad \subseteq Nat
    OBVIOUS
  <1>3. PICK k \in Bad : \A l \in Bad : k <= l
    BY <1>1, <1>2, Least
  <1>4. k \in 1 .. m /\ k \in 1 .. n
    OBVIOUS
  <1>5. f[k] = Partial(q, f, k) /\ g[k] = Partial(r, g, k)
    BY <1>4 DEF Flattens
  <1>6. k = 1 \/ k - 1 \in 1 .. m
    BY <1>4
  <1>7. k - 1 \notin Bad
    BY <1>3, <1>4
  <1>8. k = 1 \/ f[k - 1] = g[k - 1]
    BY <1>6, <1>7
  <1>9. q[k] = r[k]
    BY <1>4 DEF Agree
  <1>10. QED
    BY <1>5, <1>8, <1>9 DEF Partial

\* The partial results of flattening sequences over S are sequences over S.
LEMMA FlatteningType ==
    ASSUME NEW S, NEW q \in Seq(Seq(S)), NEW f, Flattens(q, Len(q), f)
    PROVE  \A i \in 1 .. Len(q) : f[i] \in Seq(S)
  <1> DEFINE Bad == {k \in 1 .. Len(q) : f[k] \notin Seq(S)}
  <1>1. SUFFICES ASSUME Bad # {} PROVE FALSE
    OBVIOUS
  <1>2. Bad \subseteq Nat
    OBVIOUS
  <1>3. PICK k \in Bad : \A l \in Bad : k <= l
    BY <1>1, <1>2, Least
  <1>4. k \in 1 .. Len(q) /\ q[k] \in Seq(S)
    BY ElementOfSeq
  <1>5. f[k] = Partial(q, f, k)
    BY <1>4 DEF Flattens
  <1>6. k = 1 \/ k - 1 \in 1 .. Len(q)
    BY <1>4
  <1>7. k - 1 \notin Bad
    BY <1>3, <1>4
  <1>8. k = 1 \/ f[k - 1] \in Seq(S)
    BY <1>6, <1>7
  <1>9. f[k] \in Seq(S)
    BY <1>4, <1>5, <1>8, ConcatProperties DEF Partial
  <1>10. QED
    BY <1>9

\* Flattening ends with the last sequence.
LEMMA FlattenLast ==
    ASSUME NEW S, NEW q \in Seq(Seq(S)), NEW x \in Seq(S)
    PROVE  /\ FlattenSeq(q) \in Seq(S)
           /\ FlattenSeq(Append(q, x)) = Cat(FlattenSeq(q), x)
  <1> DEFINE n == Len(q)
             r == Append(q, x)
  <1>1. /\ n \in Nat /\ r \in Seq(Seq(S)) /\ Len(r) = n + 1 /\ r[n + 1] = x
        /\ \A i \in 1 .. n : q[i] = r[i]
    OBVIOUS
  <1> HIDE DEF r
  <1>2. PICK g : Flattens(r, n + 1, g) /\ FlattenSeq(r) = g[n + 1]
    <2>1. Len(r) \in Nat /\ Len(r) # 0
      BY <1>1
    <2>2. QED
      BY <1>1, <2>1, FlatteningChosen
  <1>3. CASE n = 0
    <2>1. q = <<>> /\ FlattenSeq(q) = <<>>
      BY <1>3 DEF FlattenSeq
    <2>2. g[n + 1] = x
      BY <1>1, <1>2, <1>3 DEF Flattens, Partial
    <2>3. <<>> \in Seq(S) /\ <<>> \o x = x
      OBVIOUS
    <2>4. QED
      BY <1>2, <2>1, <2>2, <2>3 DEF r, Cat
  <1>4. CASE n # 0
    <2>1. PICK f : Flattens(q, n, f) /\ FlattenSeq(q) = f[n]
      BY <1>1, <1>4, FlatteningChosen
    <2>2. f[n] \in Seq(S)
      BY <1>1, <1>4, <2>1, FlatteningType
    <2>3. n + 1 \in Nat /\ n <= n + 1 /\ n \in 1 .. n /\ n + 1 \in 1 .. n + 1 /\ n + 1 # 1
          /\ (n + 1) - 1 = n
      BY <1>1, <1>4
    <2>4. f[n] = g[n]
      <3>1. Agree(q, r, n)
        BY <1>1 DEF Agree
      <3>2. Agree(f, g, n)
        BY <1>1, <1>2, <2>1, <2>3, <3>1, FlatteningsAgree
      <3>3. QED
        BY <2>3, <3>2 DEF Agree
    <2>5. g[n + 1] = Partial(r, g, n + 1)
      BY <1>2, <2>3 DEF Flattens
    <2>6. g[n + 1] = g[n] \o r[n + 1]
      BY <2>3, <2>5 DEF Partial
    <2>7. QED
      BY <1>1, <1>2, <2>1, <2>2, <2>3, <2>4, <2>6 DEF r, Cat
  <1>5. QED
    BY <1>3, <1>4

\* The same for two lists of sequences of which one has an element more,
LEMMA FlattenMore ==
    ASSUME NEW S, NEW q \in Seq(Seq(S)), NEW r \in Seq(Seq(S)),
           Len(r) = Len(q) + 1, Agree(q, r, Len(q))
    PROVE  FlattenSeq(r) = Cat(FlattenSeq(q), r[Len(r)])
  <1>1. Len(q) \in Nat /\ Len(r) \in 1 .. Len(r) /\ r[Len(r)] \in Seq(S)
    OBVIOUS
  <1> DEFINE a == Append(q, r[Len(r)])
  <1>2. a \in Seq(Seq(S)) /\ Len(a) = Len(r) /\ \A i \in 1 .. Len(q) : a[i] = q[i]
    BY <1>1, AppendProperties
  <1>3. a[Len(r)] = r[Len(r)]
    BY <1>1
  <1>4. \A i \in 1 .. Len(r) : i \in 1 .. Len(q) \/ i = Len(r)
    BY <1>1
  <1> HIDE DEF a
  <1>5. \A i \in 1 .. Len(r) : a[i] = r[i]
    BY <1>2, <1>3, <1>4 DEF Agree
  <1>6. r = a
    BY <1>2, <1>5, SeqEqual
  <1>7. QED
    BY <1>1, <1>6, FlattenLast DEF a

\* ... or a last element that is longer by x.
LEMMA FlattenLonger ==
    ASSUME NEW S, NEW q \in Seq(Seq(S)), NEW r \in Seq(Seq(S)), NEW x \in Seq(S),
           NEW n \in Nat, Len(q) = n + 1, Len(r) = n + 1, Agree(q, r, n),
           r[n + 1] = Cat(q[n + 1], x)
    PROVE  FlattenSeq(r) = Cat(FlattenSeq(q), x)
  <1> DEFINE f == SubSeq(q, 1, n)
  <1>1. /\ f \in Seq(Seq(S)) /\ Len(f) = n
        /\ \A i \in 1 .. n : f[i] = q[i]
    OBVIOUS
  <1>2. q[n + 1] \in Seq(S) /\ FlattenSeq(f) \in Seq(S)
    <2>1. n + 1 \in 1 .. Len(q)
      OBVIOUS
    <2>2. q[n + 1] \in Seq(S)
      BY <2>1, ElementOfSeq
    <2>3. QED
      BY <1>1, <2>2, FlattenLast
  <1>3. Agree(f, q, n) /\ Agree(f, r, n)
    BY <1>1 DEF Agree
  <1> HIDE DEF f
  <1>4. FlattenSeq(q) = Cat(FlattenSeq(f), q[n + 1])
    BY <1>1, <1>3, FlattenMore
  <1>5. FlattenSeq(r) = Cat(FlattenSeq(f), r[n + 1])
    BY <1>1, <1>3, FlattenMore
  <1>6. Cat(Cat(FlattenSeq(f), q[n + 1]), x) = Cat(FlattenSeq(f), Cat(q[n + 1], x))
    BY <1>2, CatAssoc
  <1>7. QED
    BY <1>4, <1>5, <1>6
=============================================================================
