----------------------------- MODULE AddFSProof -----------------------------
(***************************************************************************)
(* AddFS, for any number of callers, file systems and names, with any      *)
(* failures: a call that succeeds has added all of its file system and     *)
(* nothing else, a file that could be closed has no part of a stream, and  *)
(* the fs.FS of its Reader lists every entry once and opens each by the    *)
(* path it is listed under.                                                *)
(*                                                                         *)
(* Three invariants are inductive, each over those before it: Built (the   *)
(* types, and siblings with different names), AllMaking (what was created  *)
(* is like what it was made from) and AllReaching (what was not created is *)
(* still to be, by a call that has not failed).                            *)
(***************************************************************************)
EXTENDS AddFS, SequenceLemmas, FiniteSetTheorems, TLAPS

-----------------------------------------------------------------------------
(* Trees of entries                                                         *)

\* A tree is a sequence of entries that begins with the root storage, 0.
LEMMA TreeShape ==
    ASSUME NEW t, IsTree(t)
    PROVE  /\ \E n \in Nat : t \in [0 .. n -> Entries] /\ DOMAIN t = 0 .. n
           /\ 0 \in DOMAIN t /\ DOMAIN t \subseteq Nat
           /\ \A e \in DOMAIN t : t[e] \in Entries
           /\ \A e \in DOMAIN t : t[e].children \in Seq(Nat)
  <1>1. PICK n \in DOMAIN t \cap Nat : t \in [0 .. n -> Entries]
    BY DEF IsTree
  <1>2. DOMAIN t = 0 .. n /\ n \in Nat
    BY <1>1
  <1>3. \A e \in DOMAIN t : t[e] \in Entries
    BY <1>1, <1>2
  <1>4. \A e \in DOMAIN t : t[e].children \in Seq(Nat)
    BY <1>3 DEF Entries
  <1>5. QED
    BY <1>1, <1>2, <1>3, <1>4

\* The storage that an entry is in.
Parent(t, e) == CHOOSE s \in DOMAIN t : e \in Range(t[s].children)

\* An entry of a storage comes after it, and is in no other.
LEMMA TreeChild ==
    ASSUME NEW t, IsTree(t), NEW s \in DOMAIN t, NEW e \in Range(t[s].children)
    PROVE  /\ e \in DOMAIN t \ {0} /\ s < e /\ t[s].kind = "storage" /\ t[e].name \in Names
           /\ Parent(t, e) = s
  <1>1. t[s].kind = "storage" /\ e \in DOMAIN t /\ s < e /\ t[e].name \in Names
    BY Zenon DEF IsTree
  <1>2. s \in Nat
    BY TreeShape
  <1>3. e # 0
    BY <1>1, <1>2
  <1>4. \A r \in DOMAIN t : e \in Range(t[r].children) => r = s
    BY <1>1, <1>3, Zenon DEF IsTree
  <1>5. Parent(t, e) = s
    BY <1>4, Zenon DEF Parent
  <1>6. QED
    BY <1>1, <1>3, <1>5, Zenon

\* Every entry but the root is in a storage that comes before it.
LEMMA TreeParent ==
    ASSUME NEW t, IsTree(t), NEW e \in DOMAIN t \ {0}
    PROVE  /\ Parent(t, e) \in DOMAIN t /\ e \in Range(t[Parent(t, e)].children)
           /\ Parent(t, e) < e /\ t[Parent(t, e)].kind = "storage" /\ t[e].name \in Names
  <1>1. PICK s \in DOMAIN t : e \in Range(t[s].children)
    BY Zenon DEF IsTree
  <1>2. Parent(t, e) = s /\ s < e /\ t[s].kind = "storage" /\ t[e].name \in Names
    BY <1>1, TreeChild
  <1>3. QED
    BY <1>1, <1>2

\* The path of e from the path w gives of its storage; w has those of 0 to n.
PathStep(t, w, e) == IF e = 0 THEN <<>> ELSE Append(w[Parent(t, e)], t[e].name)
Paths(t, n, w) == w = [e \in 0 .. n |-> PathStep(t, w, e)]

\* The recursion that defines PathIn ends, since a storage has a smaller id.
LEMMA PathsExist ==
    ASSUME NEW t, IsTree(t), NEW n \in Nat, 0 .. n \subseteq DOMAIN t
    PROVE  \E w : Paths(t, n, w)
  <1> DEFINE Odd == {k \in 0 .. n : ~\E w : Paths(t, k, w)}
  <1>1. SUFFICES ASSUME Odd # {} PROVE FALSE
    BY DEF Odd
  <1>2. PICK m \in Odd : \A k \in Odd : m <= k
    <2>1. Odd \subseteq Nat
      OBVIOUS
    <2>2. QED
      BY <1>1, <2>1, Least
  <1>3. m # 0
    <2> DEFINE e == [k \in 0 .. 0 |-> <<>>]
    <2>1. \A k \in 0 .. 0 : PathStep(t, e, k) = <<>>
      BY DEF PathStep
    <2>2. e = [k \in 0 .. 0 |-> PathStep(t, e, k)]
      BY <2>1
    <2>3. Paths(t, 0, e)
      BY <2>2 DEF Paths
    <2>4. QED
      BY <1>2, <2>3
  <1>4. m \in 1 .. n /\ m - 1 \in 0 .. n /\ ~(m <= m - 1)
    BY <1>2, <1>3
  <1>5. m - 1 \notin Odd
    BY <1>2, <1>4, Zenon
  <1>6. PICK w : Paths(t, m - 1, w)
    BY <1>4, <1>5
  <1> DEFINE g == [e \in 0 .. m |-> PathStep(t, w, e)]
  <1>7. \A e \in 1 .. m : Parent(t, e) \in 0 .. m - 1
    <2>1. TAKE e \in 1 .. m
    <2>2. e \in DOMAIN t \ {0}
      BY <1>4
    <2>3. Parent(t, e) \in Nat /\ Parent(t, e) < e
      BY <2>2, TreeParent, TreeShape, Zenon
    <2>4. QED
      BY <1>4, <2>3
  <1>8. \A k \in 0 .. m - 1 : g[k] = w[k]
    <2>1. TAKE k \in 0 .. m - 1
    <2>2. w[k] = PathStep(t, w, k)
      BY <1>6 DEF Paths
    <2>3. k \in 0 .. m
      BY <1>4
    <2>4. QED
      BY <2>2, <2>3
  <1>9. ASSUME NEW e \in 0 .. m PROVE PathStep(t, w, e) = PathStep(t, g, e)
    <2>1. CASE e = 0
      BY <2>1 DEF PathStep
    <2>2. CASE e # 0
      <3>1. e \in 1 .. m
        BY <2>2, <1>4
      <3> HIDE DEF g
      <3>2. g[Parent(t, e)] = w[Parent(t, e)]
        BY <1>7, <1>8, <3>1, Zenon
      <3>3. QED
        BY <3>2 DEF PathStep
    <2>3. QED
      BY <2>1, <2>2
  <1>10. Paths(t, m, g)
    BY <1>9 DEF Paths
  <1>11. QED
    BY <1>2, <1>10

\* The path of an entry is that of its storage and its own name.
LEMMA PathOf ==
    ASSUME NEW t, IsTree(t)
    PROVE  /\ PathIn(t, 0) = <<>>
           /\ \A e \in DOMAIN t \ {0} : PathIn(t, e) = Append(PathIn(t, Parent(t, e)), t[e].name)
  <1>1. PICK n \in Nat : DOMAIN t = 0 .. n
    BY TreeShape
  <1> DEFINE P(w) == w = [e \in DOMAIN t |->
                         IF e = 0 THEN <<>>
                         ELSE Append(w[CHOOSE s \in DOMAIN t : e \in Range(t[s].children)], t[e].name)]
             at == CHOOSE w : P(w)
  <1>2. \E w : P(w)
    <2>1. PICK w : Paths(t, n, w)
      BY <1>1, PathsExist
    <2>2. P(w)
      BY <1>1, <2>1 DEF Paths, PathStep, Parent
    <2>3. QED
      BY <2>2
  <1>3. P(at)
    <2> HIDE DEF P
    <2>1. QED
      BY <1>2
  <1>4. \A e \in DOMAIN t : PathIn(t, e) = at[e]
    BY DEF PathIn
  <1> HIDE DEF at
  <1>5. \A e \in DOMAIN t : at[e] = IF e = 0 THEN <<>> ELSE Append(at[Parent(t, e)], t[e].name)
    BY <1>3 DEF Parent
  <1>6. 0 \in DOMAIN t
    BY TreeShape
  <1>7. \A e \in DOMAIN t \ {0} : Parent(t, e) \in DOMAIN t
    BY TreeParent
  <1>8. QED
    BY <1>4, <1>5, <1>6, <1>7

\* The paths of the entries are of names.
LEMMA PathIsNames ==
    ASSUME NEW t, IsTree(t)
    PROVE  \A e \in DOMAIN t : PathIn(t, e) \in Seq(Names)
  <1> DEFINE Odd == {e \in DOMAIN t : PathIn(t, e) \notin Seq(Names)}
  <1>1. SUFFICES ASSUME Odd # {} PROVE FALSE
    OBVIOUS
  <1>2. Odd \subseteq Nat
    BY TreeShape
  <1>3. PICK e \in Odd : \A k \in Odd : e <= k
    BY <1>1, <1>2, Least
  <1>4. e \in DOMAIN t /\ PathIn(t, e) \notin Seq(Names) /\ e # 0
    BY <1>3, PathOf
  <1>5. Parent(t, e) \in DOMAIN t /\ Parent(t, e) < e /\ t[e].name \in Names
    BY <1>4, TreeParent
  <1>6. Parent(t, e) \in Nat /\ e \in Nat
    BY <1>4, <1>5, TreeShape
  <1>7. ~(e <= Parent(t, e))
    BY <1>5, <1>6
  <1>8. PathIn(t, Parent(t, e)) \in Seq(Names)
    BY <1>3, <1>5, <1>7
  <1>9. PathIn(t, e) = Append(PathIn(t, Parent(t, e)), t[e].name)
    BY <1>4, PathOf
  <1>10. QED
    BY <1>4, <1>5, <1>8, <1>9

\* A path depends on the names and the storages of the entries only.
LEMMA PathKept ==
    ASSUME NEW t, IsTree(t), NEW u, IsTree(u), DOMAIN t \subseteq DOMAIN u,
           \A e \in DOMAIN t : u[e].name = t[e].name,
           \A s \in DOMAIN t : Range(t[s].children) \subseteq Range(u[s].children)
    PROVE  \A e \in DOMAIN t : PathIn(u, e) = PathIn(t, e)
  <1> DEFINE Odd == {e \in DOMAIN t : PathIn(u, e) # PathIn(t, e)}
  <1>1. SUFFICES ASSUME Odd # {} PROVE FALSE
    OBVIOUS
  <1>2. Odd \subseteq Nat
    BY TreeShape
  <1>3. PICK e \in Odd : \A k \in Odd : e <= k
    BY <1>1, <1>2, Least
  <1>4. e \in DOMAIN t /\ PathIn(u, e) # PathIn(t, e) /\ e # 0
    BY <1>3, PathOf
  <1>5. Parent(t, e) \in DOMAIN t /\ Parent(t, e) < e /\ e \in Range(t[Parent(t, e)].children)
    BY <1>4, TreeParent
  <1>6. Parent(t, e) \in Nat /\ e \in Nat
    BY <1>4, <1>5, TreeShape
  <1>7. ~(e <= Parent(t, e))
    BY <1>5, <1>6
  <1>8. PathIn(u, Parent(t, e)) = PathIn(t, Parent(t, e))
    BY <1>3, <1>5, <1>7
  <1>9. Parent(u, e) = Parent(t, e)
    <2>1. Parent(t, e) \in DOMAIN u /\ e \in Range(u[Parent(t, e)].children)
      BY <1>5
    <2>2. QED
      BY <2>1, TreeChild
  <1>10. PathIn(t, e) = Append(PathIn(t, Parent(t, e)), t[e].name)
    BY <1>4, PathOf
  <1>11. PathIn(u, e) = Append(PathIn(u, Parent(u, e)), u[e].name)
    BY <1>4, PathOf
  <1>12. QED
    BY <1>4, <1>8, <1>9, <1>10, <1>11

-----------------------------------------------------------------------------
(* Sorting                                                                  *)

\* No two of the elements of s are the same, or have the same key.
Keyed(s, key) ==
    /\ \A i, j \in DOMAIN s : s[i] = s[j] => i = j
    /\ \A e \in Range(s) : key[e] \in Nat
    /\ \A d, e \in Range(s) : key[d] = key[e] => d = e

\* r is s in the order of the keys.
Ordered(r, s, key) == r \in [DOMAIN s -> Range(s)] /\ SortsBy(r, s, key)

\* The elements that come no later than e.
NoneAbove(s, key, e) == {d \in Range(s) : key[d] <= key[e]}

\* The place of an element in the order is the number of those that are not above it.
LEMMA PlacesApart ==
    ASSUME NEW s \in Seq(Nat), NEW key, Keyed(s, key), NEW d \in Range(s), NEW e \in Range(s), key[d] < key[e]
    PROVE  Cardinality(NoneAbove(s, key, d)) # Cardinality(NoneAbove(s, key, e))
  <1> DEFINE D == NoneAbove(s, key, d)
             E == NoneAbove(s, key, e)
  <1>1. \A x \in Range(s) : key[x] \in Nat
    BY DEF Keyed
  <1>2. D \subseteq E /\ e \in E /\ e \notin D
    BY <1>1 DEF NoneAbove
  <1>3. IsFiniteSet(E)
    <2>1. DOMAIN s = 1 .. Len(s) /\ Len(s) \in Nat
      OBVIOUS
    <2>2. s \in Surjection(1 .. Len(s), Range(s))
      BY <2>1 DEF Surjection, Range
    <2>3. IsFiniteSet(1 .. Len(s))
      BY <2>1, FS_Interval
    <2>4. IsFiniteSet(Range(s))
      BY <2>2, <2>3, FS_Surjection
    <2>5. E \in SUBSET Range(s)
      BY DEF NoneAbove
    <2>6. QED
      BY <2>4, <2>5, FS_Subset
  <1>4. D \in SUBSET E /\ D # E
    BY <1>2
  <1>5. Cardinality(E) = Cardinality(D) => E = D
    BY <1>3, <1>4, FS_Subset
  <1>6. QED
    BY <1>4, <1>5

\* A sequence of elements with different keys can be sorted.
LEMMA OrderedExists ==
    ASSUME NEW s \in Seq(Nat), NEW key, Keyed(s, key)
    PROVE  \E r : Ordered(r, s, key)
  <1> DEFINE K == Range(s)
             n == Len(s)
             f == [e \in K |-> Cardinality(NoneAbove(s, key, e))]
  <1>1. DOMAIN s = 1 .. n /\ n \in Nat
    OBVIOUS
  <1>2. IsFiniteSet(1 .. n) /\ Cardinality(1 .. n) = n
    <2>1. 1 \in Int /\ n \in Int /\ (1 > n => n = 0) /\ n - 1 + 1 = n
      BY <1>1
    <2>2. QED
      BY <2>1, FS_Interval
  <1>3. IsFiniteSet(K) /\ Cardinality(K) = n
    <2>1. s \in Injection(1 .. n, K) /\ s \in Surjection(1 .. n, K)
      BY <1>1 DEF Surjection, Injection, IsInjective, Range, Keyed
    <2> HIDE DEF K, n
    <2>2. QED
      BY <1>2, <2>1, FS_Surjection
  <1>4. \A e \in K : key[e] \in Nat
    BY DEF Keyed
  <1>5. ASSUME NEW e \in K PROVE f[e] \in 1 .. n
    <2>1. e \in NoneAbove(s, key, e) /\ NoneAbove(s, key, e) \in SUBSET K
      BY <1>4 DEF NoneAbove
    <2> DEFINE A == NoneAbove(s, key, e)
    <2> HIDE DEF K, n, A
    <2>2. IsFiniteSet(A) /\ Cardinality(A) <= n
      BY <1>3, <2>1, FS_Subset DEF A
    <2>3. Cardinality(A) \in Nat /\ Cardinality(A) # 0
      BY <2>1, <2>2, FS_CardinalityType, FS_EmptySet DEF A
    <2>4. Cardinality(A) \in 1 .. n
      BY <1>1, <2>2, <2>3
    <2>5. QED
      BY <2>4 DEF A
  <1>6. ASSUME NEW d \in K, NEW e \in K, f[d] = f[e] PROVE d = e
    <2>1. ~(key[d] < key[e]) /\ ~(key[e] < key[d])
      BY <1>6, PlacesApart
    <2>2. key[d] = key[e]
      BY <1>4, <2>1
    <2>3. QED
      BY <2>2 DEF Keyed
  <1>7. f \in Injection(K, 1 .. n)
    <2>1. f \in [K -> 1 .. n]
      BY <1>5
    <2> HIDE DEF K, n, f
    <2>2. QED
      BY <1>6, <2>1 DEF Injection, IsInjective
  <1>8. f \in Surjection(K, 1 .. n)
    <2> HIDE DEF K, n, f
    <2>1. QED
      BY <1>2, <1>3, <1>7, FS_Injection
  <1> DEFINE r == [i \in 1 .. n |-> CHOOSE e \in K : f[e] = i]
  <1>9. \A i \in 1 .. n : r[i] \in K /\ f[r[i]] = i
    <2> HIDE DEF K, n, f
    <2>1. \A i \in 1 .. n : \E e \in K : f[e] = i
      BY <1>8 DEF Surjection
    <2>2. QED
      BY <2>1
  <1>10. \A e \in K : r[f[e]] = e
    <2>1. TAKE e \in K
    <2>2. f[e] \in 1 .. n
      BY <1>5
    <2>3. r[f[e]] \in K /\ f[r[f[e]]] = f[e]
      BY <1>9, <2>2
    <2>4. QED
      BY <1>6, <2>3
  <1>11. \A i, j \in 1 .. n : i < j => key[r[i]] < key[r[j]]
    <2>1. TAKE i, j \in 1 .. n
    <2>2. HAVE i < j
    <2> HIDE DEF r, f
    <2>3. r[i] \in K /\ r[j] \in K /\ f[r[i]] = i /\ f[r[j]] = j
      BY <1>9
    <2>4. SUFFICES ASSUME ~(key[r[i]] < key[r[j]]) PROVE FALSE
      OBVIOUS
    <2>5. key[r[j]] <= key[r[i]]
      BY <1>4, <2>3, <2>4
    <2>6. NoneAbove(s, key, r[j]) \in SUBSET NoneAbove(s, key, r[i])
      BY <1>4, <2>3, <2>5 DEF NoneAbove
    <2>7. NoneAbove(s, key, r[i]) \in SUBSET K
      BY DEF NoneAbove
    <2> DEFINE A == NoneAbove(s, key, r[i])
               B == NoneAbove(s, key, r[j])
    <2>8. f[r[i]] = Cardinality(A) /\ f[r[j]] = Cardinality(B)
      BY <2>3 DEF f
    <2> HIDE DEF K, n, A, B
    <2>9. IsFiniteSet(A)
      BY <1>3, <2>7, FS_Subset DEF A
    <2>10. Cardinality(B) <= Cardinality(A)
      BY <2>6, <2>9, FS_Subset DEF A, B
    <2>11. QED
      BY <1>1, <2>2, <2>3, <2>8, <2>10
  <1>12. Ordered(r, s, key)
    <2> HIDE DEF r, f
    <2>1. r \in [1 .. n -> K]
      BY <1>9 DEF r
    <2>2. \A e \in K : \E i \in 1 .. n : r[i] = e
      BY <1>5, <1>10
    <2>3. DOMAIN r = 1 .. n
      BY <2>1
    <2> HIDE DEF K, n
    <2>4. Range(r) = K
      BY <2>1, <2>2, <2>3 DEF Range
    <2>5. \A i, j \in 1 .. n : i < j => r[i] # r[j] /\ key[r[i]] <= key[r[j]]
      <3>1. TAKE i, j \in 1 .. n
      <3>2. HAVE i < j
      <3>3. key[r[i]] < key[r[j]] /\ key[r[i]] \in Nat /\ key[r[j]] \in Nat
        BY <1>4, <1>9, <1>11, <3>2
      <3>4. QED
        BY <3>3
    <2>6. QED
      BY <1>1, <2>1, <2>3, <2>4, <2>5 DEF Ordered, SortsBy, K
  <1>13. QED
    BY <1>12

\* What SortedBy returns.
LEMMA SortedByIs ==
    ASSUME NEW s \in Seq(Nat), NEW key, Keyed(s, key)
    PROVE  /\ SortedBy(s, key) \in Seq(Nat)
           /\ Range(SortedBy(s, key)) = Range(s)
           /\ \A i, j \in DOMAIN SortedBy(s, key) : SortedBy(s, key)[i] = SortedBy(s, key)[j] => i = j
  <1> DEFINE r == SortedBy(s, key)
  <1>1. PICK q : Ordered(q, s, key)
    BY OrderedExists
  <1>2. Ordered(r, s, key)
    <2>1. \E p \in [DOMAIN s -> Range(s)] : SortsBy(p, s, key)
      BY <1>1, Zenon DEF Ordered
    <2>2. r \in [DOMAIN s -> Range(s)] /\ SortsBy(r, s, key)
      BY <2>1, Zenon DEF SortedBy
    <2>3. QED
      BY <2>2, Zenon DEF Ordered
  <1> HIDE DEF r
  <1>3. DOMAIN s = 1 .. Len(s) /\ Len(s) \in Nat /\ Range(s) \subseteq Nat
    BY DEF Range
  <1>4. r \in [1 .. Len(s) -> Nat] /\ Range(r) = Range(s) /\ DOMAIN r = 1 .. Len(s)
    BY <1>2, <1>3 DEF Ordered, SortsBy
  <1>5. r \in Seq(Nat)
    <2>1. PICK n \in Nat : r \in [1 .. n -> Nat]
      BY <1>3, <1>4
    <2>2. QED
      BY <2>1
  <1>6. ASSUME NEW i \in DOMAIN r, NEW j \in DOMAIN r, r[i] = r[j] PROVE i = j
    <2>1. i \in Nat /\ j \in Nat
      BY <1>4
    <2>2. r[i] \in Range(s) /\ key[r[i]] \in Nat
      <3>1. r[i] \in Range(r)
        BY DEF Range
      <3>2. QED
        BY <1>4, <3>1 DEF Keyed
    <2>3. ~(i < j) /\ ~(j < i)
      BY <1>2, <1>6, <2>2 DEF Ordered, SortsBy
    <2>4. QED
      BY <2>1, <2>3
  <1>7. QED
    BY <1>4, <1>5, <1>6 DEF r

-----------------------------------------------------------------------------
(* Trees that grow                                                          *)

\* No storage has two entries with one name.
Apart(t) ==
    \A s \in DOMAIN t : \A d, e \in Range(t[s].children) :
        d # e => ~SameName(t[d].name, t[e].name)

\* What u and t agree on: all but what is in the storages.
Alike(t, u) ==
    \A e \in DOMAIN t : e \in DOMAIN u /\ u[e].name = t[e].name /\ u[e].kind = t[e].kind

\* The data of t's entries is the same in u.
SameData(t, u) == \A e \in DOMAIN t : u[e].data = t[e].data

\* They have the same paths in u.
SamePaths(t, u) == \A e \in DOMAIN t : PathIn(u, e) = PathIn(t, e)

\* The tree with one more entry, in the storage at.
Grown(t, at, entry) ==
    [id \in DOMAIN t \cup {Cardinality(DOMAIN t)} |->
        IF id = Cardinality(DOMAIN t) THEN entry
        ELSE IF id = at THEN [t[id] EXCEPT !.children = Append(@, Cardinality(DOMAIN t))]
        ELSE t[id]]

\* A storage or stream as CreateStorage and CreateStream make it.
NewEntry(entry) ==
    /\ entry \in Entries /\ entry.name \in Names /\ entry.children = <<>>
    /\ entry.kind = "storage" => entry.data = <<>>

\* The entries of a tree are numbered from 0.
LEMMA TreeSize ==
    ASSUME NEW t, IsTree(t)
    PROVE  /\ Cardinality(DOMAIN t) \in Nat \ {0}
           /\ DOMAIN t = 0 .. Cardinality(DOMAIN t) - 1
  <1>1. PICK n \in Nat : DOMAIN t = 0 .. n
    BY TreeShape
  <1>2. 0 \in Int /\ n \in Int /\ ~(0 > n) /\ n - 0 + 1 = n + 1
    OBVIOUS
  <1>3. Cardinality(0 .. n) = n + 1
    BY <1>2, FS_Interval
  <1>4. QED
    BY <1>1, <1>3

\* What Append adds, once.
LEMMA RangeAppend ==
    ASSUME NEW s \in Seq(Nat), NEW x \in Nat
    PROVE  /\ Append(s, x) \in Seq(Nat)
           /\ Range(Append(s, x)) = Range(s) \cup {x}
           /\ IsInjective(s) /\ x \notin Range(s) => IsInjective(Append(s, x))
  <1> DEFINE r == Append(s, x)
  <1>1. /\ r \in Seq(Nat) /\ DOMAIN r = 1 .. Len(s) + 1 /\ r[Len(s) + 1] = x
        /\ \A i \in 1 .. Len(s) : r[i] = s[i]
        /\ DOMAIN s = 1 .. Len(s) /\ Len(s) \in Nat
    OBVIOUS
  <1> HIDE DEF r
  <1>2. \A i \in DOMAIN r : i \in DOMAIN s \/ i = Len(s) + 1
    BY <1>1
  <1>3. Range(r) = Range(s) \cup {x}
    <2>1. ASSUME NEW y \in Range(r) PROVE y \in Range(s) \cup {x}
      BY <1>1, <1>2 DEF Range
    <2>2. ASSUME NEW y \in Range(s) PROVE y \in Range(r)
      BY <1>1 DEF Range
    <2>3. x \in Range(r)
      BY <1>1 DEF Range
    <2>4. QED
      BY <2>1, <2>2, <2>3
  <1>4. ASSUME IsInjective(s), x \notin Range(s) PROVE IsInjective(r)
    <2>1. \A i \in DOMAIN s : s[i] # x /\ r[i] = s[i]
      BY <1>1, <1>4 DEF Range
    <2>2. \A i, j \in DOMAIN s : s[i] = s[j] => i = j
      BY <1>4 DEF IsInjective
    <2>3. \A i, j \in DOMAIN r : r[i] = r[j] => i = j
      BY <1>1, <1>2, <2>1, <2>2
    <2>4. QED
      BY <2>3 DEF IsInjective
  <1>5. QED
    BY <1>1, <1>3, <1>4 DEF r

\* A new entry leaves a tree a tree, and the paths as they were.
LEMMA TreeGrows ==
    ASSUME NEW t, IsTree(t), NEW at \in DOMAIN t, t[at].kind = "storage", NEW entry, NewEntry(entry)
    PROVE  /\ IsTree(Grown(t, at, entry))
           /\ DOMAIN Grown(t, at, entry) = DOMAIN t \cup {Cardinality(DOMAIN t)}
           /\ Cardinality(DOMAIN t) \notin DOMAIN t
           /\ Grown(t, at, entry)[Cardinality(DOMAIN t)] = entry
           /\ Alike(t, Grown(t, at, entry))
           /\ SameData(t, Grown(t, at, entry))
           /\ SamePaths(t, Grown(t, at, entry))
           /\ PathIn(Grown(t, at, entry), Cardinality(DOMAIN t)) = Append(PathIn(t, at), entry.name)
           /\ \A s \in DOMAIN Grown(t, at, entry) : Range(Grown(t, at, entry)[s].children) =
                 IF s = at THEN Range(t[at].children) \cup {Cardinality(DOMAIN t)}
                 ELSE IF s \in DOMAIN t THEN Range(t[s].children) ELSE {}
  <1> DEFINE u == Grown(t, at, entry)
  <1>0. PICK n : n = Cardinality(DOMAIN t)
    OBVIOUS
  <1>1. n \in Nat \ {0} /\ DOMAIN t = 0 .. n - 1 /\ n \notin DOMAIN t
    <2>1. n \in Nat \ {0} /\ DOMAIN t = 0 .. n - 1
      BY <1>0, TreeSize
    <2>2. QED
      BY <2>1
  <1>2. /\ DOMAIN u = DOMAIN t \cup {n} /\ u[n] = entry
        /\ u[at] = [t[at] EXCEPT !.children = Append(@, n)]
        /\ \A e \in DOMAIN t \ {at} : u[e] = t[e]
    BY <1>0, <1>1 DEF Grown
  <1>3. \A e \in DOMAIN t : t[e] \in Entries /\ t[e].children \in Seq(Nat)
    BY TreeShape
  <1>4. /\ u[at] \in Entries /\ u[at].name = t[at].name /\ u[at].kind = t[at].kind
        /\ u[at].data = t[at].data /\ u[at].children = Append(t[at].children, n)
    <2>1. t[at].children \in Seq(Nat) /\ Append(t[at].children, n) \in Seq(Nat)
      BY <1>1, <1>3
    <2>2. QED
      BY <1>2, <1>3, <2>1 DEF Entries
  <1>5. /\ Range(u[at].children) = Range(t[at].children) \cup {n}
        /\ Range(u[n].children) = {} /\ IsInjective(u[n].children)
    <2>1. Range(u[at].children) = Range(t[at].children) \cup {n}
      BY <1>1, <1>3, <1>4, RangeAppend
    <2>2. u[n].children = <<>>
      BY <1>2 DEF NewEntry
    <2>3. QED
      BY <2>1, <2>2 DEF Range, IsInjective
  <1> HIDE DEF u
  <1>6. u \in [0 .. n -> Entries] /\ DOMAIN u = 0 .. n
    <2>1. DOMAIN u = 0 .. n
      BY <1>1, <1>2
    <2>2. \A e \in DOMAIN u : u[e] \in Entries
      BY <1>2, <1>3, <1>4 DEF NewEntry
    <2>3. u = [e \in DOMAIN u |-> u[e]]
      BY DEF u, Grown
    <2>4. QED
      BY <2>1, <2>2, <2>3
  <1>7. \A s \in DOMAIN u : Range(u[s].children) =
           IF s = at THEN Range(t[at].children) \cup {n}
           ELSE IF s \in DOMAIN t THEN Range(t[s].children) ELSE {}
    BY <1>1, <1>2, <1>5
  <1>8. \A s \in DOMAIN t : \A e \in Range(t[s].children) : e \in DOMAIN t /\ e # n /\ e # 0
    BY <1>1, TreeChild
  <1>9. \A s \in DOMAIN u : IsInjective(u[s].children)
    <2>1. \A s \in DOMAIN t : IsInjective(t[s].children)
      BY DEF IsTree
    <2>2. IsInjective(u[at].children)
      <3>1. n \notin Range(t[at].children)
        BY <1>8
      <3>2. QED
        BY <1>1, <1>3, <1>4, <2>1, <3>1, RangeAppend
    <2>3. QED
      BY <1>2, <1>5, <2>1, <2>2
  <1>10. \A e \in DOMAIN t : u[e].name = t[e].name /\ u[e].kind = t[e].kind /\ u[e].data = t[e].data
    BY <1>2, <1>4
  <1>11. ASSUME NEW s \in DOMAIN u, NEW e \in Range(u[s].children)
         PROVE  u[s].kind = "storage" /\ e \in DOMAIN u /\ s < e /\ u[e].name \in Names
    <2>1. CASE s \in DOMAIN t /\ e \in Range(t[s].children)
      <3>1. t[s].kind = "storage" /\ e \in DOMAIN t /\ s < e /\ t[e].name \in Names
        BY <2>1, TreeChild
      <3>2. QED
        BY <1>2, <1>10, <2>1, <3>1
    <2>2. CASE s = at /\ e = n
      <3>1. at < n
        BY <1>1
      <3>2. QED
        BY <1>2, <1>10, <2>2, <3>1 DEF NewEntry
    <2>3. QED
      BY <1>7, <2>1, <2>2
  <1>12. ASSUME NEW e \in DOMAIN u \ {0}
         PROVE  \E s \in DOMAIN u : \A r \in DOMAIN u : e \in Range(u[r].children) <=> r = s
    <2>1. CASE e = n
      <3>1. \A r \in DOMAIN u : e \in Range(u[r].children) <=> r = at
        BY <1>7, <1>8, <2>1
      <3>2. QED
        BY <1>2, <3>1
    <2>2. CASE e \in DOMAIN t
      <3>1. PICK s \in DOMAIN t : \A r \in DOMAIN t : e \in Range(t[r].children) <=> r = s
        BY <2>2, Zenon DEF IsTree
      <3>2. e # n
        BY <1>1, <2>2
      <3>3. \A r \in DOMAIN u : e \in Range(u[r].children) <=> r = s
        BY <1>2, <1>7, <3>1, <3>2
      <3>4. QED
        BY <1>2, <3>1, <3>3
    <2>3. QED
      BY <1>2, <2>1, <2>2
  <1>13. \A e \in DOMAIN u : u[e].kind = "storage" => u[e].data = <<>>
    <2>1. \A e \in DOMAIN t : t[e].kind = "storage" => t[e].data = <<>>
      BY DEF IsTree
    <2>2. QED
      BY <1>2, <1>10, <2>1 DEF NewEntry
  <1>14. u[0].kind = "storage"
    <2>1. t[0].kind = "storage" /\ 0 \in DOMAIN t
      BY <1>1 DEF IsTree
    <2>2. QED
      BY <1>10, <2>1
  <1>15. IsTree(u)
    <2>1. n \in DOMAIN u \cap Nat
      BY <1>1, <1>6
    <2>2. QED
      BY <1>6, <1>9, <1>11, <1>12, <1>13, <1>14, <2>1, Zenon DEF IsTree
  <1>16. \A e \in DOMAIN t : PathIn(u, e) = PathIn(t, e)
    <2>1. DOMAIN t \subseteq DOMAIN u
      BY <1>2
    <2>2. \A s \in DOMAIN t : Range(t[s].children) \subseteq Range(u[s].children)
      BY <1>2, <1>7
    <2>3. QED
      BY <1>10, <1>15, <2>1, <2>2, PathKept
  <1>17. PathIn(u, n) = Append(PathIn(t, at), entry.name)
    <2>1. n \in DOMAIN u \ {0} /\ at \in DOMAIN u /\ n \in Range(u[at].children)
      BY <1>1, <1>2, <1>5
    <2>2. Parent(u, n) = at
      BY <1>15, <2>1, TreeChild
    <2>3. PathIn(u, n) = Append(PathIn(u, Parent(u, n)), u[n].name)
      BY <1>15, <2>1, PathOf
    <2>4. QED
      BY <1>2, <1>16, <2>2, <2>3
  <1>18. QED
    BY <1>0, <1>1, <1>2, <1>7, <1>10, <1>15, <1>16, <1>17 DEF u, Alike, SameData, SamePaths

\* Siblings still have different names when one with a new name is added.
LEMMA GrownApart ==
    ASSUME NEW t, IsTree(t), NEW at \in DOMAIN t, t[at].kind = "storage", NEW entry, NewEntry(entry),
           Apart(t), \A e \in Range(t[at].children) : ~SameName(entry.name, t[e].name)
    PROVE  Apart(Grown(t, at, entry))
  <1> DEFINE u == Grown(t, at, entry)
             n == Cardinality(DOMAIN t)
  <1>1. /\ u[n] = entry /\ n \notin DOMAIN t
        /\ \A e \in DOMAIN t : u[e].name = t[e].name
        /\ \A s \in DOMAIN u : Range(u[s].children) =
                 IF s = at THEN Range(t[at].children) \cup {n}
                 ELSE IF s \in DOMAIN t THEN Range(t[s].children) ELSE {}
    BY TreeGrows DEF Alike
  <1>2. \A s \in DOMAIN t : \A e \in Range(t[s].children) : e \in DOMAIN t
    BY TreeChild
  <1> HIDE DEF u, n
  <1>3. ASSUME NEW s \in DOMAIN u, NEW d \in Range(u[s].children), NEW e \in Range(u[s].children), d # e
        PROVE  ~SameName(u[d].name, u[e].name)
    <2>1. CASE s \in DOMAIN t /\ d \in Range(t[s].children) /\ e \in Range(t[s].children)
      BY <1>1, <1>2, <1>3, <2>1 DEF Apart
    <2>2. CASE s = at /\ d = n /\ e \in Range(t[at].children)
      BY <1>1, <1>2, <2>2
    <2>3. CASE s = at /\ e = n /\ d \in Range(t[at].children)
      BY <1>1, <1>2, <2>3 DEF SameName
    <2>4. QED
      BY <1>1, <1>3, <2>1, <2>2, <2>3
  <1>4. QED
    BY <1>3 DEF Apart, u

\* Other data, or the entries of the storages in another order, leave a tree a tree.
LEMMA TreeChanges ==
    ASSUME NEW t, IsTree(t), NEW u, DOMAIN u = DOMAIN t, u = [e \in DOMAIN t |-> u[e]],
           \A e \in DOMAIN t : u[e] \in Entries /\ u[e].name = t[e].name /\ u[e].kind = t[e].kind,
           \A e \in DOMAIN t : Range(u[e].children) = Range(t[e].children) /\ IsInjective(u[e].children),
           \A e \in DOMAIN t : t[e].kind = "storage" => u[e].data = t[e].data
    PROVE  /\ IsTree(u)
           /\ \A e \in DOMAIN t : PathIn(u, e) = PathIn(t, e)
           /\ Apart(t) => Apart(u)
  <1>1. PICK n \in Nat : DOMAIN t = 0 .. n
    BY TreeShape
  <1>2. n \in DOMAIN u \cap Nat /\ u \in [0 .. n -> Entries]
    BY <1>1
  <1>3. u[0].kind = "storage"
    BY TreeShape DEF IsTree
  <1>4. \A s \in DOMAIN u : \A e \in Range(u[s].children) :
           u[s].kind = "storage" /\ e \in DOMAIN u /\ s < e /\ u[e].name \in Names
    BY TreeChild
  <1>5. ASSUME NEW e \in DOMAIN u \ {0}
        PROVE  \E s \in DOMAIN u : \A r \in DOMAIN u : e \in Range(u[r].children) <=> r = s
    <2>1. PICK s \in DOMAIN t : \A r \in DOMAIN t : e \in Range(t[r].children) <=> r = s
      BY Zenon DEF IsTree
    <2>2. QED
      BY <2>1
  <1>6. \A e \in DOMAIN u : u[e].kind = "storage" => u[e].data = <<>>
    BY DEF IsTree
  <1>7. IsTree(u)
    BY <1>2, <1>3, <1>4, <1>5, <1>6, Zenon DEF IsTree
  <1>8. \A e \in DOMAIN t : PathIn(u, e) = PathIn(t, e)
    BY <1>7, PathKept
  <1>9. Apart(t) => Apart(u)
    <2>1. \A s \in DOMAIN t : \A e \in Range(t[s].children) : e \in DOMAIN t
      BY TreeChild
    <2>2. QED
      BY <2>1 DEF Apart
  <1>10. QED
    BY <1>7, <1>8, <1>9

\* In a tree whose storages have no two entries of one name a path leads to one entry.
LEMMA PathsApart ==
    ASSUME NEW t, IsTree(t),
           \A s \in DOMAIN t : \A d, e \in Range(t[s].children) : d # e => t[d].name # t[e].name
    PROVE  \A d, e \in DOMAIN t : PathIn(t, d) = PathIn(t, e) => d = e
  <1> DEFINE Odd == {e \in DOMAIN t : \E d \in DOMAIN t : PathIn(t, d) = PathIn(t, e) /\ d # e}
  <1>1. SUFFICES ASSUME Odd # {} PROVE FALSE
    OBVIOUS
  <1>2. Odd \subseteq Nat
    BY TreeShape
  <1>3. PICK e \in Odd : \A k \in Odd : e <= k
    BY <1>1, <1>2, Least
  <1>4. PICK d \in DOMAIN t : PathIn(t, d) = PathIn(t, e) /\ d # e
    BY <1>3
  <1>5. e \in DOMAIN t
    BY <1>3
  <1>6. ASSUME NEW k \in DOMAIN t \ {0}
        PROVE  /\ PathIn(t, k) # <<>>
               /\ PathIn(t, k) = Append(PathIn(t, Parent(t, k)), t[k].name)
               /\ PathIn(t, Parent(t, k)) \in Seq(Names) /\ t[k].name \in Names
               /\ Parent(t, k) \in DOMAIN t /\ Parent(t, k) < k
               /\ k \in Range(t[Parent(t, k)].children)
    <2>1. PathIn(t, k) = Append(PathIn(t, Parent(t, k)), t[k].name)
      BY PathOf
    <2>2. Parent(t, k) \in DOMAIN t /\ t[k].name \in Names /\ k \in Range(t[Parent(t, k)].children) /\ Parent(t, k) < k
      BY TreeParent
    <2>3. PathIn(t, Parent(t, k)) \in Seq(Names)
      BY <2>2, PathIsNames
    <2>4. QED
      BY <2>1, <2>2, <2>3
  <1>7. PathIn(t, 0) = <<>>
    BY PathOf
  <1>8. d # 0 /\ e # 0
    BY <1>4, <1>5, <1>6, <1>7
  <1>9. PathIn(t, Parent(t, d)) = PathIn(t, Parent(t, e)) /\ t[d].name = t[e].name
    <2> DEFINE p == PathIn(t, Parent(t, d))
               q == PathIn(t, Parent(t, e))
    <2>1. Append(p, t[d].name) = Append(q, t[e].name) /\ p \in Seq(Names) /\ q \in Seq(Names)
          /\ t[d].name \in Names /\ t[e].name \in Names
      BY <1>4, <1>5, <1>6, <1>8
    <2> HIDE DEF p, q
    <2>2. p = q /\ t[d].name = t[e].name
      BY <2>1
    <2>3. QED
      BY <2>2 DEF p, q
  <1>10. Parent(t, d) # Parent(t, e)
    BY <1>4, <1>5, <1>6, <1>8, <1>9
  <1>11. Parent(t, e) \in Odd
    BY <1>4, <1>5, <1>6, <1>8, <1>9, <1>10
  <1>12. Parent(t, e) < e /\ e \in Nat /\ Parent(t, e) \in Nat
    BY <1>2, <1>3, <1>5, <1>6, <1>8, <1>11
  <1>13. QED
    BY <1>3, <1>11, <1>12

-----------------------------------------------------------------------------
(* Open                                                                     *)

\* findEntry gives a child of a kind with the name, or there is none.
LEMMA FindEntryIs ==
    ASSUME NEW t, NEW id, t[id].children \in Seq(Nat), NEW kinds, NEW name
    PROVE  \/ /\ FindEntry(t, id, kinds, name) = NoEntry
              /\ \A e \in Range(t[id].children) : ~(t[e].kind \in kinds /\ SameName(name, t[e].name))
           \/ /\ FindEntry(t, id, kinds, name) \in Range(t[id].children)
              /\ t[FindEntry(t, id, kinds, name)].kind \in kinds
              /\ SameName(name, t[FindEntry(t, id, kinds, name)].name)
  <1> DEFINE s == t[id].children
             at == {i \in DOMAIN s : t[s[i]].kind \in kinds /\ SameName(name, t[s[i]].name)}
             k == CHOOSE i \in at : \A j \in at : i <= j
  <1>1. FindEntry(t, id, kinds, name) = IF at = {} THEN NoEntry ELSE s[k]
    BY DEF FindEntry
  <1>2. CASE at = {}
    BY <1>1, <1>2 DEF Range
  <1>3. CASE at # {}
    <2>1. at \subseteq Nat
      OBVIOUS
    <2> HIDE DEF at
    <2>2. \E i \in at : \A j \in at : i <= j
      BY <1>3, <2>1, Least
    <2>3. k \in at
      BY <2>2
    <2> HIDE DEF k
    <2>4. k \in DOMAIN s /\ t[s[k]].kind \in kinds /\ SameName(name, t[s[k]].name)
      BY <2>3 DEF at
    <2>5. QED
      BY <1>1, <1>3, <2>4 DEF Range
  <1>4. QED
    BY <1>2, <1>3

\* findEntry gives a child with the name, if it has one of a kind.
LEMMA FindEntryFinds ==
    ASSUME NEW t, NEW id, t[id].children \in Seq(Nat), NEW kinds, NEW name, NEW e \in Range(t[id].children),
           t[e].kind \in kinds, SameName(name, t[e].name), NEW d, d = FindEntry(t, id, kinds, name)
    PROVE  d \in Range(t[id].children) /\ t[d].kind \in kinds /\ SameName(name, t[d].name)
  <1>1. ~(/\ FindEntry(t, id, kinds, name) = NoEntry
          /\ \A x \in Range(t[id].children) : ~(t[x].kind \in kinds /\ SameName(name, t[x].name)))
    OBVIOUS
  <1>2. QED
    BY <1>1, FindEntryIs

\* Where Open is after i names, from where it was before; w has that for 0 to n.
WalkStep(t, q, w, i) ==
    IF i = 0 THEN 0
    ELSE IF w[i - 1] = NoEntry THEN NoEntry
    ELSE FindEntry(t, w[i - 1], IF i < Len(q) THEN {"storage"} ELSE Kinds, q[i])
Walk(t, q, n, w) == w = [i \in 0 .. n |-> WalkStep(t, q, w, i)]

\* Whatever the names of a path, Open goes some way.
LEMMA WalkExists ==
    ASSUME NEW t, NEW q, NEW n \in Nat
    PROVE  \E w : Walk(t, q, n, w)
  <1> DEFINE Odd == {k \in Nat : ~\E w : Walk(t, q, k, w)}
  <1>1. SUFFICES ASSUME Odd # {} PROVE FALSE
    OBVIOUS
  <1>2. PICK m \in Odd : \A k \in Odd : m <= k
    BY <1>1, Least
  <1>3. m # 0
    <2> DEFINE e == [k \in 0 .. 0 |-> 0]
    <2>1. \A k \in 0 .. 0 : WalkStep(t, q, e, k) = 0
      BY DEF WalkStep
    <2>2. e = [k \in 0 .. 0 |-> WalkStep(t, q, e, k)]
      BY <2>1
    <2>3. Walk(t, q, 0, e)
      BY <2>2 DEF Walk
    <2>4. QED
      BY <1>2, <2>3
  <1>4. m \in Nat /\ m - 1 \in Nat /\ ~(m <= m - 1)
    BY <1>2, <1>3
  <1>5. m - 1 \notin Odd
    BY <1>2, <1>4, Zenon
  <1>6. PICK w : Walk(t, q, m - 1, w)
    BY <1>4, <1>5
  <1> DEFINE g == [k \in 0 .. m |-> WalkStep(t, q, w, k)]
  <1>7. \A k \in 0 .. m : k = 0 \/ k - 1 \in 0 .. m - 1
    BY <1>4
  <1>8. \A k \in 0 .. m - 1 : g[k] = w[k]
    <2>1. TAKE k \in 0 .. m - 1
    <2>2. w[k] = WalkStep(t, q, w, k)
      BY <1>6 DEF Walk
    <2>3. k \in 0 .. m
      BY <1>4
    <2>4. QED
      BY <2>2, <2>3
  <1>9. ASSUME NEW k \in 0 .. m PROVE WalkStep(t, q, w, k) = WalkStep(t, q, g, k)
    <2>1. CASE k = 0
      BY <2>1 DEF WalkStep
    <2>2. CASE k - 1 \in 0 .. m - 1
      <3> HIDE DEF g
      <3>1. g[k - 1] = w[k - 1]
        BY <1>8, <2>2, Zenon
      <3>2. QED
        BY <3>1 DEF WalkStep
    <2>3. QED
      BY <1>7, <2>1, <2>2
  <1>10. Walk(t, q, m, g)
    BY <1>9 DEF Walk
  <1>11. QED
    BY <1>2, <1>10

\* Open follows a walk, unless the path is that of the root or none.
LEMMA OpenWalks ==
    ASSUME NEW t, NEW q \in Seq(Names)
    PROVE  \E w : /\ \A i \in 0 .. Len(q) : w[i] = WalkStep(t, q, w, i)
                  /\ Open(t, q) = IF ~ValidPath(q) THEN NoEntry ELSE IF q = <<Dot>> THEN 0 ELSE w[Len(q)]
  <1> DEFINE P(w) == w = [i \in 0 .. Len(q) |->
                            IF i = 0 THEN 0
                            ELSE IF w[i - 1] = NoEntry THEN NoEntry
                            ELSE FindEntry(t, w[i - 1], IF i < Len(q) THEN {"storage"} ELSE Kinds, q[i])]
             at == CHOOSE w : P(w)
  <1>1. \E w : P(w)
    <2>1. Len(q) \in Nat
      OBVIOUS
    <2>2. PICK w : Walk(t, q, Len(q), w)
      BY <2>1, WalkExists
    <2>3. P(w)
      BY <2>2 DEF Walk, WalkStep
    <2>4. QED
      BY <2>3
  <1>2. P(at)
    <2> HIDE DEF P
    <2>1. QED
      BY <1>1
  <1>3. Open(t, q) = IF ~ValidPath(q) THEN NoEntry ELSE IF q = <<Dot>> THEN 0 ELSE at[Len(q)]
    BY DEF Open
  <1> HIDE DEF at
  <1>4. \A i \in 0 .. Len(q) : at[i] = WalkStep(t, q, at, i)
    BY <1>2 DEF WalkStep
  <1>5. QED
    BY <1>3, <1>4

\* Entries of one storage and of one kind have different names.
Clear(t) ==
    \A s \in DOMAIN t : \A d, e \in Range(t[s].children) :
        d # e /\ t[d].kind = t[e].kind => ~SameName(t[d].name, t[e].name)

\* Open gives an entry of the tree or none.
LEMMA OpenIsEntry ==
    ASSUME NEW t, IsTree(t), NEW q \in Seq(Names), Open(t, q) # NoEntry
    PROVE  Open(t, q) \in DOMAIN t
  <1>1. PICK w : /\ \A i \in 0 .. Len(q) : w[i] = WalkStep(t, q, w, i)
                 /\ Open(t, q) = IF ~ValidPath(q) THEN NoEntry ELSE IF q = <<Dot>> THEN 0 ELSE w[Len(q)]
    BY OpenWalks
  <1>2. 0 \in DOMAIN t
    BY TreeShape
  <1> DEFINE Odd == {i \in 0 .. Len(q) : w[i] # NoEntry /\ w[i] \notin DOMAIN t}
  <1>3. SUFFICES ASSUME Odd # {} PROVE FALSE
    <2>1. Len(q) \in 0 .. Len(q)
      OBVIOUS
    <2>2. QED
      BY <1>1, <1>2, <2>1
  <1>4. Odd \subseteq Nat
    OBVIOUS
  <1>5. PICK i \in Odd : \A k \in Odd : i <= k
    BY <1>3, <1>4, Least
  <1>6. i \in 0 .. Len(q) /\ w[i] # NoEntry /\ w[i] \notin DOMAIN t
    BY <1>5
  <1>7. w[i] = WalkStep(t, q, w, i)
    BY <1>1, <1>6
  <1>8. i # 0
    BY <1>2, <1>6, <1>7 DEF WalkStep
  <1>9. i - 1 \in 0 .. Len(q) /\ ~(i <= i - 1)
    BY <1>6, <1>8
  <1>10. w[i - 1] # NoEntry
    BY <1>6, <1>7, <1>8 DEF WalkStep
  <1>11. w[i - 1] \in DOMAIN t
    BY <1>5, <1>9, <1>10
  <1>12. PICK kinds : w[i] = FindEntry(t, w[i - 1], kinds, q[i])
    BY <1>7, <1>8, <1>10 DEF WalkStep
  <1>13. t[w[i - 1]].children \in Seq(Nat)
    BY <1>11, TreeShape
  <1>14. w[i] \in Range(t[w[i - 1]].children)
    BY <1>6, <1>12, <1>13, FindEntryIs
  <1>15. QED
    BY <1>6, <1>11, <1>14, TreeChild

\* q begins with names that are those of p, in any case.
Leads(p, q) == Len(p) <= Len(q) /\ \A i \in 1 .. Len(p) : SameName(q[i], p[i])

\* A walk comes by every storage that its path leads through.
LEMMA WalkReaches ==
    ASSUME NEW t, IsTree(t), Clear(t), NEW q \in Seq(Names), NEW w,
           \A i \in 0 .. Len(q) : w[i] = WalkStep(t, q, w, i)
    PROVE  \A e \in DOMAIN t :
              t[e].kind = "storage" /\ Leads(PathIn(t, e), q) /\ Len(PathIn(t, e)) < Len(q)
                => w[Len(PathIn(t, e))] = e
  <1> DEFINE Odd == {e \in DOMAIN t :
                        /\ t[e].kind = "storage" /\ Leads(PathIn(t, e), q) /\ Len(PathIn(t, e)) < Len(q)
                        /\ w[Len(PathIn(t, e))] # e}
  <1>1. SUFFICES ASSUME Odd # {} PROVE FALSE
    OBVIOUS
  <1>2. Odd \subseteq Nat
    BY TreeShape
  <1>3. PICK e \in Odd : \A k \in Odd : e <= k
    BY <1>1, <1>2, Least
  <1>4. /\ e \in DOMAIN t /\ t[e].kind = "storage" /\ Leads(PathIn(t, e), q)
        /\ Len(PathIn(t, e)) < Len(q) /\ w[Len(PathIn(t, e))] # e
    BY <1>3
  <1>5. e # 0
    <2>1. PathIn(t, 0) = <<>> /\ Len(<<>>) = 0
      BY PathOf
    <2>2. w[0] = 0
      <3>1. 0 \in 0 .. Len(q)
        OBVIOUS
      <3>2. QED
        BY <3>1 DEF WalkStep
    <2>3. QED
      BY <1>4, <2>1, <2>2
  <1>6. PICK s : s = Parent(t, e)
    OBVIOUS
  <1>7. s \in DOMAIN t /\ e \in Range(t[s].children) /\ s < e /\ t[s].kind = "storage"
    BY <1>4, <1>5, <1>6, TreeParent
  <1>8. PICK p \in Seq(Names) : p = PathIn(t, s)
    BY <1>7, PathIsNames
  <1>9. PathIn(t, e) = Append(p, t[e].name) /\ t[e].name \in Names
    BY <1>4, <1>5, <1>6, <1>8, PathOf, TreeParent
  <1>10. PICK k \in Nat : k = Len(p)
    OBVIOUS
  <1>11. /\ Len(PathIn(t, e)) = k + 1 /\ PathIn(t, e)[k + 1] = t[e].name
         /\ \A i \in 1 .. k : PathIn(t, e)[i] = p[i]
    BY <1>9, <1>10
  <1>12. /\ k + 1 < Len(q) /\ SameName(q[k + 1], t[e].name)
         /\ \A i \in 1 .. k : SameName(q[i], p[i])
    <2>1. \A i \in 1 .. k + 1 : SameName(q[i], PathIn(t, e)[i])
      BY <1>4, <1>11 DEF Leads
    <2>2. k + 1 \in 1 .. k + 1 /\ \A i \in 1 .. k : i \in 1 .. k + 1
      BY <1>10
    <2>3. QED
      BY <1>4, <1>11, <2>1, <2>2
  <1>13. w[k] = s
    <2>1. Leads(PathIn(t, s), q) /\ Len(PathIn(t, s)) < Len(q)
      BY <1>8, <1>10, <1>12 DEF Leads
    <2>2. s \in Nat /\ e \in Nat
      BY <1>4, <1>7, TreeShape
    <2>3. s \notin Odd
      BY <1>3, <1>7, <2>2
    <2>4. QED
      BY <1>7, <1>8, <1>10, <2>1, <2>3
  <1>14. w[k + 1] = FindEntry(t, s, {"storage"}, q[k + 1])
    <2>1. k + 1 \in 0 .. Len(q) /\ k + 1 # 0 /\ k + 1 - 1 = k
      BY <1>10, <1>12
    <2>2. s # NoEntry
      <3>1. s \in Nat
        BY <1>7, TreeShape
      <3>2. QED
        BY <3>1 DEF NoEntry
    <2>3. QED
      BY <1>12, <1>13, <2>1, <2>2 DEF WalkStep
  <1>15. w[k + 1] = e
    <2>1. t[s].children \in Seq(Nat)
      BY <1>7, TreeShape
    <2>2. w[k + 1] \in Range(t[s].children) /\ t[w[k + 1]].kind = "storage"
          /\ SameName(q[k + 1], t[w[k + 1]].name)
      <3>1. t[e].kind \in {"storage"}
        BY <1>4
      <3>2. PICK name, d : name = q[k + 1] /\ d = w[k + 1]
        OBVIOUS
      <3>3. d = FindEntry(t, s, {"storage"}, name) /\ SameName(name, t[e].name)
        BY <1>12, <1>14, <3>2, Zenon
      <3>4. d \in Range(t[s].children) /\ t[d].kind \in {"storage"} /\ SameName(name, t[d].name)
        BY <1>7, <2>1, <3>1, <3>3, FindEntryFinds, Zenon
      <3>5. QED
        BY <3>2, <3>4
    <2>3. SameName(t[w[k + 1]].name, t[e].name)
      BY <1>12, <2>2 DEF SameName
    <2>4. QED
      BY <1>4, <1>7, <2>2, <2>3 DEF Clear
  <1>16. QED
    BY <1>4, <1>11, <1>15

\* Open finds an entry of the storage and of the name that the path ends with.
LEMMA OpenFinds ==
    ASSUME NEW t, IsTree(t), Clear(t), NEW e \in DOMAIN t \ {0}, NEW q \in Seq(Names),
           Len(q) = Len(PathIn(t, e)), Leads(PathIn(t, e), q), \A i \in 1 .. Len(q) : q[i] \notin {Dot, DotDot}
    PROVE  /\ Open(t, q) \in Range(t[Parent(t, e)].children)
           /\ SameName(t[Open(t, q)].name, t[e].name)
  <1>1. PICK w : /\ \A i \in 0 .. Len(q) : w[i] = WalkStep(t, q, w, i)
                 /\ Open(t, q) = IF ~ValidPath(q) THEN NoEntry ELSE IF q = <<Dot>> THEN 0 ELSE w[Len(q)]
    BY OpenWalks
  <1>2. PICK s : s = Parent(t, e)
    OBVIOUS
  <1>3. s \in DOMAIN t /\ e \in Range(t[s].children) /\ t[s].kind = "storage" /\ e \in DOMAIN t
    BY <1>2, TreeParent
  <1>4. PICK p \in Seq(Names) : p = PathIn(t, s)
    BY <1>3, PathIsNames
  <1>5. PathIn(t, e) = Append(p, t[e].name) /\ t[e].name \in Names
    BY <1>2, <1>4, PathOf, TreeParent
  <1>6. PICK k \in Nat : k = Len(p)
    OBVIOUS
  <1>7. /\ Len(q) = k + 1 /\ PathIn(t, e)[k + 1] = t[e].name
        /\ \A i \in 1 .. k : PathIn(t, e)[i] = p[i]
    BY <1>5, <1>6
  <1>8. SameName(q[k + 1], t[e].name) /\ \A i \in 1 .. k : SameName(q[i], p[i])
    <2>1. \A i \in 1 .. k + 1 : SameName(q[i], PathIn(t, e)[i])
      BY <1>7 DEF Leads
    <2>2. k + 1 \in 1 .. k + 1 /\ \A i \in 1 .. k : i \in 1 .. k + 1
      BY <1>6
    <2>3. QED
      BY <1>7, <2>1, <2>2
  <1>9. ValidPath(q) /\ q # <<Dot>>
    <2>1. DOMAIN q = 1 .. k + 1 /\ q # <<>>
      BY <1>7
    <2>2. q[1] # Dot
      BY <1>7
    <2>3. QED
      BY <1>7, <2>1, <2>2 DEF ValidPath
  <1>10. w[k] = s
    <2>1. Leads(PathIn(t, s), q) /\ Len(PathIn(t, s)) < Len(q)
      BY <1>4, <1>6, <1>7, <1>8 DEF Leads
    <2>2. QED
      BY <1>1, <1>3, <1>4, <1>6, <2>1, WalkReaches
  <1>11. Open(t, q) = FindEntry(t, s, Kinds, q[k + 1])
    <2>1. k + 1 \in 0 .. Len(q) /\ k + 1 # 0 /\ k + 1 - 1 = k /\ ~(k + 1 < Len(q))
      BY <1>6, <1>7
    <2>2. s # NoEntry
      <3>1. s \in Nat
        BY <1>3, TreeShape
      <3>2. QED
        BY <3>1 DEF NoEntry
    <2>3. w[k + 1] = FindEntry(t, s, Kinds, q[k + 1])
      BY <1>1, <1>10, <2>1, <2>2 DEF WalkStep
    <2>4. QED
      BY <1>1, <1>7, <1>9, <2>3
  <1>12. t[s].children \in Seq(Nat) /\ t[e].kind \in Kinds
    <2>1. t[s].children \in Seq(Nat) /\ t[e] \in Entries
      BY <1>3, TreeShape
    <2>2. QED
      BY <2>1 DEF Entries
  <1>13. Open(t, q) \in Range(t[s].children) /\ SameName(q[k + 1], t[Open(t, q)].name)
    BY <1>3, <1>8, <1>11, <1>12, FindEntryFinds
  <1>14. QED
    BY <1>2, <1>8, <1>13 DEF SameName

\* What a source gives for the path of an entry is the entry, if it is of its kind.
LEMMA SourceOpens ==
    ASSUME NEW t, IsSource(t), NEW e \in DOMAIN t \ {0}, NEW d, d = Open(t, PathIn(t, e)), d # NoEntry,
           t[d].kind = t[e].kind, PathIn(t, e) = <<Dot>> => t[e].kind = "stream"
    PROVE  d = e
  <1>1. IsTree(t) /\ Clear(t)
    BY DEF IsSource, Clear
  <1>2. PICK q \in Seq(Names) : q = PathIn(t, e)
    BY <1>1, PathIsNames
  <1>3. PICK w : Open(t, q) = IF ~ValidPath(q) THEN NoEntry ELSE IF q = <<Dot>> THEN 0 ELSE w[Len(q)]
    BY OpenWalks
  <1>4. ValidPath(q)
    BY <1>2, <1>3
  <1>5. q # <<Dot>>
    <2>1. SUFFICES ASSUME q = <<Dot>> PROVE FALSE
      OBVIOUS
    <2>2. d = 0
      BY <1>2, <1>3, <1>4, <2>1
    <2>3. t[0].kind = "storage"
      BY <1>1 DEF IsTree
    <2>4. QED
      BY <1>2, <2>1, <2>2, <2>3
  <1>6. \A i \in 1 .. Len(q) : q[i] \notin {Dot, DotDot}
    BY <1>4, <1>5 DEF ValidPath
  <1>7. Leads(PathIn(t, e), q)
    BY <1>2 DEF Leads, SameName
  <1>8. d \in Range(t[Parent(t, e)].children) /\ SameName(t[d].name, t[e].name)
    BY <1>1, <1>2, <1>6, <1>7, OpenFinds
  <1>9. Parent(t, e) \in DOMAIN t /\ e \in Range(t[Parent(t, e)].children)
    BY <1>1, TreeParent
  <1>10. QED
    BY <1>1, <1>8, <1>9 DEF Clear

-----------------------------------------------------------------------------
(* Types, and the invariant on which the others rest                        *)

\* Where a call of AddFS may stand, and where it is running.
Stations == {"idle", "readdir", "next", "copy", "ok", "error"}
Busy == {"readdir", "next", "copy"}
\* A call of addFSDir and a copy; NoCopy has no entries.
Frames == [dir : Seq(Names), at : Nat, left : Seq(Nat)]
Copies == [to : Int, file : Int, pos : Nat]

\* The types of the state of the calls and of the tree they build.
AddFSTypeOK ==
    /\ src \in [Callers -> Sources]
    /\ IsTree(tree)
    /\ from \in Seq(Callers) /\ Len(from) = Cardinality(DOMAIN tree) - 1
    /\ closed \subseteq DOMAIN tree
    /\ sealed \in BOOLEAN
    /\ pc \in [Callers -> Stations]
    /\ stack \in [Callers -> Seq(Frames)]
    /\ copy \in [Callers -> Copies]

\* A frame adds entries of one storage of the source to a storage of the tree.
FrameOK(t, source, f) ==
    /\ f.at \in DOMAIN t /\ t[f.at].kind = "storage"
    /\ \E d \in DOMAIN source : Range(f.left) \subseteq Range(source[d].children)

\* A copy goes from an entry of the source to a stream of the tree.
CopyOK(t, source, k) ==
    /\ k.to \in DOMAIN t /\ t[k.to].kind = "stream"
    /\ k.file \in DOMAIN source /\ k.pos <= Len(source[k.file].data)

\* A call of AddFS that runs has a frame, and what its frames and its copy refer to exists.
CallerOK(t, source, p, s, k) ==
    /\ p \in Busy => s # <<>>
    /\ \A j \in DOMAIN s : FrameOK(t, source, s[j])
    /\ p = "copy" => CopyOK(t, source, k)

(* The inductive invariant of the types: no storage has two entries with    *)
(* one name, and the calls stand on entries that exist.                     *)
Built ==
    /\ AddFSTypeOK /\ Apart(tree)
    /\ \A c \in Callers : CallerOK(tree, src[c], pc[c], stack[c], copy[c])

-----------------------------------------------------------------------------
(* What the steps do                                                        *)

\* A caller has one of the file systems.
LEMMA SourceIs ==
    ASSUME AddFSTypeOK, NEW c \in Callers
    PROVE  src[c] \in Sources /\ IsSource(src[c]) /\ IsTree(src[c])
  <1>1. src[c] \in Sources
    BY DEF AddFSTypeOK
  <1>2. IsSource(src[c])
    BY <1>1, SourcesAssumption
  <1>3. QED
    BY <1>1, <1>2 DEF IsSource

\* The top frame and those below it.
LEMMA TopIs ==
    ASSUME AddFSTypeOK, NEW c \in Callers, stack[c] # <<>>
    PROVE  /\ Len(stack[c]) \in Nat \ {0} /\ DOMAIN stack[c] = 1 .. Len(stack[c])
           /\ Len(stack[c]) \in DOMAIN stack[c] /\ Top(c) \in Frames
           /\ Below(c) \in Seq(Frames) /\ Len(Below(c)) = Len(stack[c]) - 1
           /\ \A j \in 1 .. Len(stack[c]) - 1 : Below(c)[j] = stack[c][j]
  <1>1. PICK s \in Seq(Frames) : s = stack[c]
    BY DEF AddFSTypeOK
  <1>2. Len(s) \in Nat \ {0} /\ DOMAIN s = 1 .. Len(s)
    BY <1>1
  <1>3. /\ SubSeq(s, 1, Len(s) - 1) \in Seq(Frames) /\ Len(SubSeq(s, 1, Len(s) - 1)) = Len(s) - 1
        /\ \A j \in 1 .. Len(s) - 1 : SubSeq(s, 1, Len(s) - 1)[j] = s[j]
    BY <1>2
  <1>4. Len(s) \in DOMAIN s /\ s[Len(s)] \in Frames
    BY <1>2
  <1>5. QED
    BY <1>1, <1>2, <1>3, <1>4 DEF Top, Below

\* The frame that has begun its first entry.
LEMMA PassedIs ==
    ASSUME AddFSTypeOK, NEW c \in Callers, stack[c] # <<>>, Top(c).left # <<>>
    PROVE  /\ Passed(c) \in Frames /\ Passed(c).dir = Top(c).dir /\ Passed(c).at = Top(c).at
           /\ Head(Top(c).left) \in Range(Top(c).left)
           /\ Range(Top(c).left) = Range(Passed(c).left) \cup {Head(Top(c).left)}
  <1>1. Top(c) \in Frames
    BY TopIs
  <1>2. PICK s \in Seq(Nat) : s = Top(c).left
    BY <1>1 DEF Frames
  <1>3. Tail(s) \in Seq(Nat) /\ Len(s) \in Nat \ {0} /\ DOMAIN s = 1 .. Len(s) /\ DOMAIN Tail(s) = 1 .. Len(s) - 1
        /\ Head(s) = s[1] /\ \A i \in 1 .. Len(s) - 1 : Tail(s)[i] = s[i + 1]
    BY <1>2
  <1>4. Passed(c) \in Frames /\ Passed(c).dir = Top(c).dir /\ Passed(c).at = Top(c).at /\ Passed(c).left = Tail(s)
    BY <1>1, <1>2, <1>3 DEF Passed, Frames
  <1>5. Head(s) \in Range(s)
    BY <1>3 DEF Range
  <1>6. ASSUME NEW x \in Range(Tail(s)) PROVE x \in Range(s)
    <2>1. PICK i \in 1 .. Len(s) - 1 : x = Tail(s)[i]
      BY <1>3 DEF Range
    <2>2. i + 1 \in DOMAIN s /\ x = s[i + 1]
      BY <1>3, <2>1
    <2>3. QED
      BY <2>2 DEF Range
  <1>7. ASSUME NEW x \in Range(s) PROVE x \in Range(Tail(s)) \cup {Head(s)}
    <2>1. PICK i \in 1 .. Len(s) : x = s[i]
      BY <1>3 DEF Range
    <2>2. CASE i = 1
      BY <1>3, <2>1, <2>2
    <2>3. CASE i # 1
      <3>1. i - 1 \in DOMAIN Tail(s) /\ Tail(s)[i - 1] = x
        BY <1>3, <2>1, <2>3
      <3>2. QED
        BY <3>1 DEF Range
    <2>4. QED
      BY <2>2, <2>3
  <1>8. QED
    BY <1>2, <1>4, <1>5, <1>6, <1>7

\* The entry of the source that is begun.
LEMMA EntryIs ==
    ASSUME Built, NEW c \in Callers, stack[c] # <<>>, Top(c).left # <<>>
    PROVE  /\ Head(Top(c).left) \in DOMAIN src[c] \ {0}
           /\ Entry(c) = src[c][Head(Top(c).left)] /\ Entry(c).name \in Names
           /\ Top(c).at \in DOMAIN tree /\ tree[Top(c).at].kind = "storage"
  <1>1. AddFSTypeOK /\ IsTree(src[c])
    BY SourceIs DEF Built
  <1>2. FrameOK(tree, src[c], Top(c))
    <2>1. Len(stack[c]) \in DOMAIN stack[c]
      BY <1>1, TopIs
    <2>2. QED
      BY <2>1 DEF Built, CallerOK, Top
  <1>3. PICK d \in DOMAIN src[c] : Range(Top(c).left) \subseteq Range(src[c][d].children)
    BY <1>2 DEF FrameOK
  <1>4. Head(Top(c).left) \in Range(src[c][d].children)
    BY <1>1, <1>3, PassedIs
  <1>5. Head(Top(c).left) \in DOMAIN src[c] \ {0} /\ src[c][Head(Top(c).left)].name \in Names
    BY <1>1, <1>4, TreeChild
  <1>6. QED
    BY <1>2, <1>5 DEF FrameOK, Entry

\* An entry is new in the storage at, and the rest of the tree as it was.
Created(c, at, entry) ==
    /\ IsTree(tree') /\ Apart(tree') /\ Alike(tree, tree')
    /\ NewId \in Nat \ {0} /\ NewId \notin DOMAIN tree /\ DOMAIN tree' = DOMAIN tree \cup {NewId}
    /\ tree'[NewId] = entry /\ PathIn(tree', NewId) = Append(PathIn(tree, at), entry.name)
    /\ \A id \in DOMAIN tree : tree'[id].data = tree[id].data /\ PathIn(tree', id) = PathIn(tree, id)
    /\ from' \in Seq(Callers) /\ Len(from') = Cardinality(DOMAIN tree') - 1
    /\ from'[NewId] = c /\ \A id \in DOMAIN tree \ {0} : from'[id] = from[id]

\* What creating an entry does to the tree.
LEMMA CreateDoes ==
    ASSUME AddFSTypeOK, Apart(tree), NEW c \in Callers, NEW at \in DOMAIN tree, tree[at].kind = "storage",
           NEW entry, NewEntry(entry), CanCreate(at, entry.name), Create(c, at, entry)
    PROVE  Created(c, at, entry)
  <1>1. tree' = Grown(tree, at, entry)
    BY DEF Create, Grown, NewId
  <1>2. IsTree(tree) /\ from \in Seq(Callers) /\ Len(from) = Cardinality(DOMAIN tree) - 1
    BY DEF AddFSTypeOK
  <1>3. \A e \in Range(tree[at].children) : ~SameName(entry.name, tree[e].name)
    <2>1. tree[at].children \in Seq(Nat) /\ NoEntry \notin Nat
      BY <1>2, TreeShape DEF NoEntry
    <2>2. FindEntry(tree, at, Kinds, entry.name) = NoEntry
      BY DEF CanCreate, Taken
    <2>3. Range(tree[at].children) \subseteq DOMAIN tree /\ DOMAIN tree \subseteq Nat
      BY <1>2, TreeShape, TreeChild
    <2>4. \A e \in Range(tree[at].children) : ~(tree[e].kind \in Kinds /\ SameName(entry.name, tree[e].name))
      BY <2>1, <2>2, <2>3, FindEntryIs
    <2>5. \A e \in DOMAIN tree : tree[e].kind \in Kinds
      BY <1>2, TreeShape DEF Entries
    <2>6. QED
      BY <2>3, <2>4, <2>5
  <1>4. /\ IsTree(tree') /\ DOMAIN tree' = DOMAIN tree \cup {NewId} /\ NewId \notin DOMAIN tree
        /\ tree'[NewId] = entry /\ Alike(tree, tree')
        /\ PathIn(tree', NewId) = Append(PathIn(tree, at), entry.name)
        /\ \A id \in DOMAIN tree : tree'[id].data = tree[id].data /\ PathIn(tree', id) = PathIn(tree, id)
    <2> DEFINE u == Grown(tree, at, entry)
               n == Cardinality(DOMAIN tree)
    <2>1. /\ IsTree(u) /\ DOMAIN u = DOMAIN tree \cup {n} /\ n \notin DOMAIN tree
          /\ u[n] = entry /\ Alike(tree, u)
          /\ PathIn(u, n) = Append(PathIn(tree, at), entry.name)
          /\ SameData(tree, u) /\ SamePaths(tree, u)
      <3>1. IsTree(u) /\ DOMAIN u = DOMAIN tree \cup {n} /\ n \notin DOMAIN tree
        BY <1>2, TreeGrows, Zenon
      <3>2. u[n] = entry /\ Alike(tree, u)
        BY <1>2, TreeGrows, Zenon
      <3>3. PathIn(u, n) = Append(PathIn(tree, at), entry.name)
        BY <1>2, TreeGrows, Zenon
      <3>4. SameData(tree, u)
        BY <1>2, TreeGrows, Zenon
      <3>5. SamePaths(tree, u)
        BY <1>2, TreeGrows, Zenon
      <3>6. QED
        BY <3>1, <3>2, <3>3, <3>4, <3>5
    <2>2. u = tree' /\ n = NewId
      BY <1>1 DEF NewId
    <2> HIDE DEF u, n
    <2>3. QED
      BY <2>1, <2>2 DEF SameData, SamePaths
  <1>5. Apart(tree')
    BY <1>1, <1>2, <1>3, GrownApart
  <1>6. NewId \in Nat \ {0} /\ DOMAIN tree = 0 .. NewId - 1
    BY <1>2, TreeSize DEF NewId
  <1>7. Cardinality(DOMAIN tree') = NewId + 1
    <2>1. DOMAIN tree' = 0 .. NewId
      BY <1>4, <1>6
    <2>2. 0 \in Int /\ NewId \in Int /\ ~(0 > NewId) /\ NewId - 0 + 1 = NewId + 1
      BY <1>6
    <2>3. QED
      BY <2>1, <2>2, FS_Interval
  <1>8. from' = Append(from, c) /\ Len(from) = NewId - 1
    BY <1>2 DEF Create, NewId
  <1>9. /\ from' \in Seq(Callers) /\ Len(from') = NewId /\ from'[NewId] = c
        /\ \A id \in 1 .. NewId - 1 : from'[id] = from[id]
    BY <1>2, <1>6, <1>8
  <1>10. \A id \in DOMAIN tree \ {0} : id \in 1 .. NewId - 1
    BY <1>6
  <1>11. QED
    BY <1>4, <1>5, <1>6, <1>7, <1>9, <1>10 DEF Created

\* A caller's own state fits a tree that has grown.
LEMMA CallerKept ==
    ASSUME NEW t, NEW u, Alike(t, u), NEW source, NEW p, NEW s, NEW k, CallerOK(t, source, p, s, k)
    PROVE  CallerOK(u, source, p, s, k)
  BY DEF CallerOK, FrameOK, CopyOK, Alike

-----------------------------------------------------------------------------
(* The steps, and how they keep Built                                       *)

\* Only the state of one caller changes besides the tree.
Moves(c) ==
    /\ src' = src
    /\ \A d \in Callers \ {c} : pc'[d] = pc[d] /\ stack'[d] = stack[d] /\ copy'[d] = copy[d]

\* A step of c that lets the tree grow keeps what holds of the other callers.
LEMMA BuiltKept ==
    ASSUME Built, NEW c \in Callers, AddFSTypeOK', Apart(tree'), Alike(tree, tree'), Moves(c),
           CallerOK(tree', src[c], pc'[c], stack'[c], copy'[c])
    PROVE  Built'
  <1>1. ASSUME NEW d \in Callers PROVE CallerOK(tree', src'[d], pc'[d], stack'[d], copy'[d])
    <2>1. CASE d = c
      BY <2>1 DEF Moves
    <2>2. CASE d # c
      <3>1. CallerOK(tree, src[d], pc[d], stack[d], copy[d])
        BY DEF Built
      <3>2. CallerOK(tree', src[d], pc[d], stack[d], copy[d])
        BY <3>1, CallerKept
      <3>3. QED
        BY <2>2, <3>2 DEF Moves
    <2>3. QED
      BY <2>1, <2>2
  <1>2. QED
    BY <1>1 DEF Built

\* Built holds of a Writer that has just been made.
LEMMA BuiltInit ==
    ASSUME AddFSInit
    PROVE  Built
  <1> DEFINE root == Storage(0, <<>>)
  <1>1. root \in Entries /\ root.children = <<>> /\ root.kind = "storage" /\ root.data = <<>>
    BY DEF Storage, Entries, Kinds
  <1> HIDE DEF root
  <1>2. tree = [id \in {0} |-> root] /\ DOMAIN tree = {0} /\ tree[0] = root
    BY DEF AddFSInit, root
  <1>3. Range(tree[0].children) = {} /\ IsInjective(tree[0].children)
    BY <1>1, <1>2 DEF Range, IsInjective
  <1>4. tree \in [0 .. 0 -> Entries] /\ 0 \in DOMAIN tree \cap Nat
    BY <1>1, <1>2
  <1>5. IsTree(tree)
    BY <1>1, <1>2, <1>3, <1>4, Zenon DEF IsTree
  <1>6. Apart(tree)
    BY <1>2, <1>3 DEF Apart
  <1>7. Cardinality(DOMAIN tree) = 1
    BY <1>2, FS_Singleton
  <1>8. from \in Seq(Callers) /\ Len(from) = Cardinality(DOMAIN tree) - 1
    BY <1>7 DEF AddFSInit
  <1>9. NoCopy \in Copies /\ <<>> \in Seq(Frames)
    BY DEF NoCopy, NoEntry, Copies
  <1>10. AddFSTypeOK
    BY <1>5, <1>8, <1>9 DEF AddFSTypeOK, AddFSInit, Stations
  <1>11. ASSUME NEW c \in Callers PROVE CallerOK(tree, src[c], pc[c], stack[c], copy[c])
    BY DEF CallerOK, AddFSInit, Busy
  <1>12. QED
    BY <1>6, <1>10, <1>11 DEF Built

\* AddFS keeps Built when it begins.
LEMMA BuiltBegin ==
    ASSUME Built, NEW c \in Callers, Begin(c)
    PROVE  Built'
  <1> DEFINE f == [dir |-> <<Dot>>, at |-> 0, left |-> <<>>]
  <1>1. AddFSTypeOK /\ IsTree(tree) /\ IsTree(src[c])
    BY SourceIs DEF Built, AddFSTypeOK
  <1>2. f \in Frames /\ f.at = 0 /\ f.left = <<>>
    BY NamesAssumption DEF Frames
  <1>3. FrameOK(tree, src[c], f)
    <2>1. 0 \in DOMAIN tree /\ tree[0].kind = "storage" /\ 0 \in DOMAIN src[c]
      BY <1>1, TreeShape DEF IsTree
    <2>2. Range(f.left) = {}
      BY <1>2 DEF Range
    <2> HIDE DEF f
    <2>3. QED
      BY <1>2, <2>1, <2>2 DEF FrameOK
  <1>4. stack' = [stack EXCEPT ![c] = <<f>>] /\ pc' = [pc EXCEPT ![c] = "readdir"]
        /\ src' = src /\ tree' = tree /\ from' = from /\ closed' = closed /\ sealed' = sealed /\ copy' = copy
    BY DEF Begin, Goto
  <1> HIDE DEF f
  <1>5. <<f>> \in Seq(Frames) /\ <<f>> # <<>> /\ DOMAIN <<f>> = {1} /\ <<f>>[1] = f
    BY <1>2
  <1>6. stack'[c] = <<f>> /\ pc'[c] = "readdir"
    BY <1>1, <1>4 DEF AddFSTypeOK
  <1>7. AddFSTypeOK'
    BY <1>1, <1>4, <1>5 DEF AddFSTypeOK, Stations
  <1>8. CallerOK(tree', src[c], pc'[c], stack'[c], copy'[c])
    BY <1>3, <1>4, <1>5, <1>6 DEF CallerOK
  <1>9. Moves(c) /\ Alike(tree, tree') /\ Apart(tree')
    BY <1>1, <1>4 DEF Moves, Alike, Built, AddFSTypeOK
  <1>10. QED
    BY <1>7, <1>8, <1>9, BuiltKept

\* SortedByName gives the entries of a storage of the source.
LEMMA SortedIs ==
    ASSUME NEW t, IsSource(t), NEW d \in DOMAIN t
    PROVE  SortedByName(t, d) \in Seq(Nat) /\ Range(SortedByName(t, d)) = Range(t[d].children)
  <1> DEFINE key == [e \in DOMAIN t |-> t[e].name]
             s == t[d].children
  <1>1. IsTree(t)
    BY DEF IsSource
  <1>2. s \in Seq(Nat) /\ IsInjective(s)
    BY <1>1, TreeShape DEF IsTree
  <1>3. \A e \in Range(s) : e \in DOMAIN t /\ t[e] \in Entries
    BY <1>1, TreeShape, TreeChild
  <1>4. \A e \in Range(s) : key[e] = t[e].name /\ key[e] \in Nat
    BY <1>3 DEF Entries
  <1>5. \A x, e \in Range(s) : x # e => t[x].name # t[e].name
    BY Zenon DEF IsSource
  <1>6. Keyed(s, key)
    <2>1. \A i, j \in DOMAIN s : s[i] = s[j] => i = j
      BY <1>2 DEF IsInjective
    <2> HIDE DEF key, s
    <2>2. QED
      BY <1>4, <1>5, <2>1 DEF Keyed
  <1>7. SortedByName(t, d) = SortedBy(s, key)
    BY DEF SortedByName
  <1> HIDE DEF key, s
  <1>8. SortedBy(s, key) \in Seq(Nat) /\ Range(SortedBy(s, key)) = Range(s)
    BY <1>2, <1>6, SortedByIs
  <1>9. QED
    BY <1>7, <1>8 DEF s

\* What ReadStorage does: the frame on top has the entries of a storage of the source.
LEMMA ReadStorageDoes ==
    ASSUME AddFSTypeOK, NEW c \in Callers, stack[c] # <<>>, ReadStorage(c)
    PROVE  /\ Moves(c) /\ UNCHANGED <<src, tree, from, closed, sealed, copy, fsVars>>
           /\ pc[c] = "readdir"
           /\ \/ pc' = [pc EXCEPT ![c] = "error"] /\ stack' = stack
              \/ /\ pc' = [pc EXCEPT ![c] = "next"]
                 /\ \E d \in DOMAIN src[c] :
                      /\ d = Open(src[c], Top(c).dir) /\ src[c][d].kind = "storage"
                      /\ \E f \in Frames :
                           /\ f.dir = Top(c).dir /\ f.at = Top(c).at /\ Range(f.left) = Range(src[c][d].children)
                           /\ stack' = [stack EXCEPT ![c] = [@ EXCEPT ![Len(stack[c])] = f]]
  <1>1. PICK d : d = Open(src[c], Top(c).dir)
    OBVIOUS
  <1>2. Moves(c) /\ UNCHANGED <<src, tree, from, closed, sealed, copy, fsVars>> /\ pc[c] = "readdir"
    BY DEF ReadStorage, Moves, Goto, AddFSTypeOK
  <1>3. CASE ~(d # NoEntry /\ src[c][d].kind = "storage")
    BY <1>1, <1>2, <1>3 DEF ReadStorage, Goto
  <1>4. CASE d # NoEntry /\ src[c][d].kind = "storage"
    <2>1. Top(c) \in Frames /\ Top(c).dir \in Seq(Names)
      BY TopIs DEF Frames
    <2>2. d \in DOMAIN src[c]
      BY <1>1, <1>4, <2>1, OpenIsEntry, SourceIs
    <2>3. PICK l \in Seq(Nat) : l = SortedByName(src[c], d) /\ Range(l) = Range(src[c][d].children)
      BY <2>2, SourceIs, SortedIs
    <2>4. [Top(c) EXCEPT !.left = l] \in Frames
      BY <2>1, <2>3 DEF Frames
    <2>5. stack' = [stack EXCEPT ![c] = [@ EXCEPT ![Len(stack[c])] = [Top(c) EXCEPT !.left = l]]]
      BY <1>1, <1>4, <2>3 DEF ReadStorage, Top
    <2>6. pc' = [pc EXCEPT ![c] = "next"]
      BY <1>1, <1>4 DEF ReadStorage, Goto
    <2>7. [Top(c) EXCEPT !.left = l].dir = Top(c).dir /\ [Top(c) EXCEPT !.left = l].at = Top(c).at
          /\ [Top(c) EXCEPT !.left = l].left = l
      BY <2>1 DEF Frames
    <2>8. QED
      BY <1>1, <1>2, <1>4, <2>2, <2>3, <2>4, <2>5, <2>6, <2>7
  <1>5. QED
    BY <1>3, <1>4

\* AddFS goes down into the storage that it has created.
LEMMA AddStorageDoes ==
    ASSUME Built, NEW c \in Callers, AddStorage(c)
    PROVE  /\ Moves(c) /\ UNCHANGED <<src, closed, sealed, copy, fsVars>>
           /\ pc[c] = "next" /\ pc' = [pc EXCEPT ![c] = "readdir"]
           /\ stack[c] # <<>> /\ Top(c).left # <<>> /\ Entry(c).kind = "storage"
           /\ ~sealed /\ Created(c, Top(c).at, Storage(Entry(c).name, <<>>))
           /\ stack' = [stack EXCEPT ![c] = stack'[c]]
           /\ stack'[c] \in Seq(Frames) /\ Len(stack'[c]) = Len(stack[c]) + 1
           /\ \A j \in 1 .. Len(stack[c]) - 1 : stack'[c][j] = stack[c][j]
           /\ stack'[c][Len(stack[c])] = Passed(c)
           /\ stack'[c][Len(stack[c]) + 1] =
                [dir |-> Join(Top(c).dir, Entry(c).name), at |-> NewId, left |-> <<>>]
  <1>1. AddFSTypeOK /\ Apart(tree) /\ CallerOK(tree, src[c], pc[c], stack[c], copy[c])
    BY DEF Built
  <1>2. pc[c] = "next" /\ Top(c).left # <<>> /\ Entry(c).kind = "storage" /\ ~sealed
    BY DEF AddStorage, CanCreate
  <1>3. stack[c] # <<>>
    BY <1>1, <1>2 DEF CallerOK, Busy
  <1>4. /\ Top(c).at \in DOMAIN tree /\ tree[Top(c).at].kind = "storage" /\ Entry(c).name \in Names
    BY <1>2, <1>3, EntryIs
  <1> DEFINE entry == Storage(Entry(c).name, <<>>)
             f == [dir |-> Join(Top(c).dir, Entry(c).name), at |-> NewId, left |-> <<>>]
  <1>5. NewEntry(entry) /\ entry.name = Entry(c).name
    <2>1. Entry(c).name \in Nat
      BY <1>4, NamesAssumption
    <2>2. entry \in Entries
      BY <2>1 DEF Kinds, Storage, Entries
    <2>3. QED
      BY <1>4, <2>2 DEF NewEntry, Storage
  <1>6. Created(c, Top(c).at, entry)
    <2>1. CanCreate(Top(c).at, entry.name) /\ Create(c, Top(c).at, entry)
      BY <1>5 DEF AddStorage
    <2> HIDE DEF entry
    <2>2. QED
      BY <1>1, <1>4, <1>5, <2>1, CreateDoes
  <1>7. f \in Frames
    <2>1. Top(c).dir \in Seq(Names)
      BY <1>1, <1>3, TopIs DEF Frames
    <2>2. Join(Top(c).dir, Entry(c).name) \in Seq(Names)
      BY <1>4, <2>1 DEF Join
    <2>3. NewId \in Nat
      BY <1>6 DEF Created
    <2>4. QED
      BY <2>2, <2>3 DEF Frames
  <1>8. stack' = [stack EXCEPT ![c] = Below(c) \o <<Passed(c), f>>] /\ pc' = [pc EXCEPT ![c] = "readdir"]
        /\ UNCHANGED <<src, closed, sealed, copy, fsVars>>
    BY DEF AddStorage, Goto
  <1> HIDE DEF f, entry
  <1>9. Below(c) \in Seq(Frames) /\ Len(Below(c)) = Len(stack[c]) - 1 /\ Len(stack[c]) \in Nat \ {0}
        /\ (\A j \in 1 .. Len(stack[c]) - 1 : Below(c)[j] = stack[c][j]) /\ Passed(c) \in Frames
    BY <1>1, <1>2, <1>3, TopIs, PassedIs
  <1> DEFINE s == Below(c) \o <<Passed(c), f>>
  <1>10. /\ s \in Seq(Frames) /\ Len(s) = Len(stack[c]) + 1
         /\ \A j \in 1 .. Len(stack[c]) - 1 : s[j] = stack[c][j]
         /\ s[Len(stack[c])] = Passed(c) /\ s[Len(stack[c]) + 1] = f
    BY <1>7, <1>9
  <1>11. stack'[c] = s /\ Moves(c)
    BY <1>1, <1>8 DEF AddFSTypeOK, Moves
  <1> HIDE DEF s
  <1>12. stack' = [stack EXCEPT ![c] = stack'[c]]
    BY <1>8, <1>11 DEF s
  <1>13. QED
    BY <1>2, <1>3, <1>6, <1>8, <1>10, <1>11, <1>12 DEF f, entry

\* AddFS begins to copy a file to the stream that it has created.
LEMMA AddStreamDoes ==
    ASSUME Built, NEW c \in Callers, AddStream(c)
    PROVE  /\ Moves(c) /\ UNCHANGED <<src, closed, sealed, fsVars>>
           /\ pc[c] = "next" /\ pc' = [pc EXCEPT ![c] = "copy"]
           /\ stack[c] # <<>> /\ Top(c).left # <<>> /\ Entry(c).kind = "stream"
           /\ ~sealed /\ Created(c, Top(c).at, Stream(Entry(c).name, <<>>))
           /\ stack' = [stack EXCEPT ![c] = stack'[c]]
           /\ stack'[c] \in Seq(Frames) /\ Len(stack'[c]) = Len(stack[c])
           /\ \A j \in 1 .. Len(stack[c]) - 1 : stack'[c][j] = stack[c][j]
           /\ stack'[c][Len(stack[c])] = Passed(c)
           /\ \E file \in DOMAIN src[c] :
                /\ file = Open(src[c], Join(Top(c).dir, Entry(c).name)) /\ file # NoEntry
                /\ copy' = [copy EXCEPT ![c] = [to |-> NewId, file |-> file, pos |-> 0]]
  <1>1. AddFSTypeOK /\ Apart(tree) /\ CallerOK(tree, src[c], pc[c], stack[c], copy[c])
    BY DEF Built
  <1>2. pc[c] = "next" /\ Top(c).left # <<>> /\ Entry(c).kind = "stream" /\ ~sealed
    BY DEF AddStream, CanCreate
  <1>3. stack[c] # <<>>
    BY <1>1, <1>2 DEF CallerOK, Busy
  <1>4. /\ Top(c).at \in DOMAIN tree /\ tree[Top(c).at].kind = "storage" /\ Entry(c).name \in Names
    BY <1>2, <1>3, EntryIs
  <1> DEFINE entry == Stream(Entry(c).name, <<>>)
  <1>5. NewEntry(entry) /\ entry.name = Entry(c).name
    <2>1. Entry(c).name \in Nat
      BY <1>4, NamesAssumption
    <2>2. entry \in Entries
      BY <2>1 DEF Kinds, Stream, Entries
    <2>3. QED
      BY <1>4, <2>2 DEF NewEntry, Stream
  <1>6. Created(c, Top(c).at, entry)
    <2>1. CanCreate(Top(c).at, entry.name) /\ Create(c, Top(c).at, entry)
      BY <1>5 DEF AddStream
    <2> HIDE DEF entry
    <2>2. QED
      BY <1>1, <1>4, <1>5, <2>1, CreateDoes
  <1>7. PICK file : /\ file = Open(src[c], Join(Top(c).dir, Entry(c).name)) /\ file # NoEntry
                    /\ copy' = [copy EXCEPT ![c] = [to |-> NewId, file |-> file, pos |-> 0]]
    BY DEF AddStream
  <1>8. file \in DOMAIN src[c]
    <2>1. Top(c).dir \in Seq(Names)
      BY <1>1, <1>3, TopIs DEF Frames
    <2>2. Join(Top(c).dir, Entry(c).name) \in Seq(Names)
      BY <1>4, <2>1 DEF Join
    <2>3. QED
      BY <1>1, <1>7, <2>2, SourceIs, OpenIsEntry
  <1>9. stack' = [stack EXCEPT ![c] = Append(Below(c), Passed(c))] /\ pc' = [pc EXCEPT ![c] = "copy"]
        /\ UNCHANGED <<src, closed, sealed, fsVars>>
    BY DEF AddStream, Goto
  <1> HIDE DEF entry
  <1>10. Below(c) \in Seq(Frames) /\ Len(Below(c)) = Len(stack[c]) - 1 /\ Len(stack[c]) \in Nat \ {0}
         /\ (\A j \in 1 .. Len(stack[c]) - 1 : Below(c)[j] = stack[c][j]) /\ Passed(c) \in Frames
    BY <1>1, <1>2, <1>3, TopIs, PassedIs
  <1> DEFINE s == Append(Below(c), Passed(c))
  <1>11. /\ s \in Seq(Frames) /\ Len(s) = Len(stack[c])
         /\ \A j \in 1 .. Len(stack[c]) - 1 : s[j] = stack[c][j]
         /\ s[Len(stack[c])] = Passed(c)
    BY <1>10
  <1>12. stack'[c] = s /\ Moves(c)
    BY <1>1, <1>7, <1>9 DEF AddFSTypeOK, Moves
  <1> HIDE DEF s
  <1>13. stack' = [stack EXCEPT ![c] = stack'[c]]
    BY <1>9, <1>12 DEF s
  <1>14. QED
    BY <1>2, <1>3, <1>6, <1>7, <1>8, <1>9, <1>11, <1>12, <1>13 DEF entry

\* The first elements of what is left after a position.
LEMMA SliceOfRest ==
    ASSUME NEW s \in Seq(Nat), NEW p \in Nat, NEW k \in Nat, p + k <= Len(s)
    PROVE  SubSeq(SubSeq(s, p + 1, Len(s)), 1, k) = SubSeq(s, p + 1, p + k)
  <1> DEFINE m == p + k
             r == SubSeq(s, p + 1, Len(s))
             a == SubSeq(r, 0 + 1, k)
             b == SubSeq(s, p + 1, m)
  <1>1. m \in Nat /\ p <= m /\ m <= Len(s) /\ m - p = k
    OBVIOUS
  <1> HIDE DEF m
  <1>2. r \in Seq(Nat) /\ Len(r) = Len(s) - p /\ \A i \in 1 .. Len(s) - p : r[i] = s[p + i]
    <2>1. p <= Len(s) /\ Len(s) \in Nat
      OBVIOUS
    <2>2. QED
      BY <2>1, Slice
  <1> HIDE DEF r
  <1>3. a \in Seq(Nat) /\ Len(a) = k - 0 /\ \A i \in 1 .. k - 0 : a[i] = r[0 + i]
    <2>1. 0 \in Nat /\ 0 <= k /\ k <= Len(r)
      BY <1>2
    <2>2. QED
      BY <1>2, <2>1, Slice
  <1>4. b \in Seq(Nat) /\ Len(b) = m - p /\ \A i \in 1 .. m - p : b[i] = s[p + i]
    <2>1. m \in Nat /\ p <= m /\ m <= Len(s)
      BY <1>1
    <2> HIDE DEF r
    <2>2. QED
      BY <2>1, Slice
  <1>5. a = b
    <2>1. a \in Seq(Nat) /\ b \in Seq(Nat) /\ Len(a) = k /\ Len(b) = k
      <3>1. k - 0 = k
        OBVIOUS
      <3>2. QED
        BY <1>3, <1>4, <1>1, <3>1
    <2>2. ASSUME NEW i \in 1 .. k PROVE a[i] = b[i]
      <3>1. /\ i \in 1 .. k - 0 /\ i \in 1 .. m - p /\ i \in 1 .. Len(s) - p
            /\ 0 + i = i
        BY <1>1
      <3>2. QED
        BY <1>2, <1>3, <1>4, <3>1
    <2> HIDE DEF a, b
    <2>3. QED
      BY <2>1, <2>2, SameSeq
  <1>6. QED
    BY <1>5 DEF r, m

\* A turn of a copy moves some bytes of the file to the end of the stream.
LEMMA CopyChunkDoes ==
    ASSUME Built, NEW c \in Callers, CopyChunk(c)
    PROVE  /\ Moves(c) /\ UNCHANGED <<src, from, closed, sealed, pc, stack, fsVars>>
           /\ pc[c] = "copy"
           /\ IsTree(tree') /\ Apart(tree') /\ Alike(tree, tree') /\ DOMAIN tree' = DOMAIN tree
           /\ \A id \in DOMAIN tree : PathIn(tree', id) = PathIn(tree, id)
           /\ \A id \in DOMAIN tree \ {copy[c].to} : tree'[id].data = tree[id].data
           /\ \E k \in Nat :
                LET data == src[c][copy[c].file].data IN
                /\ data \in Seq(Nat) /\ copy[c].pos + k <= Len(data)
                /\ tree'[copy[c].to].data = tree[copy[c].to].data \o SubSeq(data, copy[c].pos + 1, copy[c].pos + k)
                /\ copy' = [copy EXCEPT ![c] = [copy[c] EXCEPT !.pos = copy[c].pos + k]]
  <1>1. AddFSTypeOK /\ Apart(tree) /\ CallerOK(tree, src[c], pc[c], stack[c], copy[c]) /\ pc[c] = "copy"
    BY DEF Built, CopyChunk
  <1>2. CopyOK(tree, src[c], copy[c])
    BY <1>1 DEF CallerOK
  <1>3. PICK to : to = copy[c].to
    OBVIOUS
  <1>4. PICK pos \in Nat : pos = copy[c].pos
    BY <1>1 DEF AddFSTypeOK, Copies
  <1>5. PICK data \in Seq(Nat) : data = src[c][copy[c].file].data
    <2>1. src[c][copy[c].file] \in Entries
      BY <1>1, <1>2, SourceIs, TreeShape DEF CopyOK
    <2>2. QED
      BY <2>1 DEF Entries
  <1>6. to \in DOMAIN tree /\ tree[to].kind = "stream" /\ pos <= Len(data) /\ IsTree(tree)
    BY <1>1, <1>2, <1>3, <1>4, <1>5 DEF CopyOK, AddFSTypeOK
  <1>7. PICK r : r = SubSeq(data, pos + 1, Len(data))
    OBVIOUS
  <1>8. r \in Seq(Nat) /\ Len(r) = Len(data) - pos /\ \A i \in 1 .. Len(r) : r[i] = data[pos + i]
    BY <1>6, <1>7
  <1>9. PICK k \in 1 .. Chunk : /\ k <= Len(r)
                                /\ tree' = [tree EXCEPT ![to].data = @ \o SubSeq(r, 1, k)]
                                /\ copy' = [copy EXCEPT ![c].pos = @ + k]
    BY <1>3, <1>4, <1>5, <1>7 DEF CopyChunk, Rest
  <1>10. k \in Nat /\ pos + k <= Len(data)
    BY <1>8, <1>9
  <1>11. SubSeq(r, 1, k) = SubSeq(data, pos + 1, pos + k)
    BY <1>6, <1>7, <1>10, SliceOfRest
  <1>12. PICK x \in Seq(Nat) : x = SubSeq(r, 1, k)
    <2>1. pos + k \in Nat /\ pos <= pos + k
      BY <1>10
    <2>2. SubSeq(data, pos + 1, pos + k) \in Seq(Nat)
      BY <1>10, <2>1, Slice
    <2>3. QED
      BY <1>11, <2>2
  <1>13. tree[to] \in Entries /\ tree[to].data \in Seq(Nat) /\ tree[to].data \o x \in Seq(Nat)
    <2>1. tree[to] \in Entries
      BY <1>6, TreeShape
    <2>2. QED
      BY <2>1 DEF Entries
  <1>14. /\ DOMAIN tree' = DOMAIN tree /\ tree' = [e \in DOMAIN tree |-> tree'[e]]
         /\ tree'[to] = [tree[to] EXCEPT !.data = tree[to].data \o x]
         /\ \A e \in DOMAIN tree \ {to} : tree'[e] = tree[e]
    BY <1>6, <1>9, <1>12
  <1>15. /\ tree'[to] \in Entries /\ tree'[to].name = tree[to].name /\ tree'[to].kind = tree[to].kind
         /\ tree'[to].children = tree[to].children /\ tree'[to].data = tree[to].data \o x
    BY <1>13, <1>14 DEF Entries
  <1>16. \A e \in DOMAIN tree : tree'[e] \in Entries /\ tree'[e].name = tree[e].name /\ tree'[e].kind = tree[e].kind
    BY <1>6, <1>14, <1>15, TreeShape
  <1>17. \A e \in DOMAIN tree : Range(tree'[e].children) = Range(tree[e].children) /\ IsInjective(tree'[e].children)
    <2>1. \A e \in DOMAIN tree : IsInjective(tree[e].children)
      BY <1>6 DEF IsTree
    <2>2. QED
      BY <1>14, <1>15, <2>1
  <1>18. \A e \in DOMAIN tree : tree[e].kind = "storage" => tree'[e].data = tree[e].data
    BY <1>6, <1>14
  <1>19. IsTree(tree') /\ Apart(tree') /\ \A id \in DOMAIN tree : PathIn(tree', id) = PathIn(tree, id)
    BY <1>1, <1>6, <1>14, <1>16, <1>17, <1>18, TreeChanges
  <1>20. Moves(c) /\ UNCHANGED <<src, from, closed, sealed, pc, stack, fsVars>>
    BY <1>1, <1>9 DEF Moves, CopyChunk, AddFSTypeOK
  <1>21. Alike(tree, tree')
    BY <1>14, <1>16 DEF Alike
  <1>22. \A id \in DOMAIN tree \ {to} : tree'[id].data = tree[id].data
    BY <1>14
  <1>23. tree'[to].data = tree[to].data \o SubSeq(data, pos + 1, pos + k)
    BY <1>11, <1>12, <1>15
  <1>24. copy' = [copy EXCEPT ![c] = [copy[c] EXCEPT !.pos = copy[c].pos + k]]
    BY <1>9
  <1>25. \E n \in Nat :
            /\ src[c][copy[c].file].data \in Seq(Nat) /\ copy[c].pos + n <= Len(src[c][copy[c].file].data)
            /\ tree'[copy[c].to].data = tree[copy[c].to].data
                 \o SubSeq(src[c][copy[c].file].data, copy[c].pos + 1, copy[c].pos + n)
            /\ copy' = [copy EXCEPT ![c] = [copy[c] EXCEPT !.pos = copy[c].pos + n]]
    BY <1>3, <1>4, <1>5, <1>10, <1>23, <1>24
  <1>26. QED
    BY <1>1, <1>3, <1>14, <1>19, <1>20, <1>21, <1>22, <1>25

\* The frame on top may be replaced by one for the same storages of both trees.
LEMMA FramesKept ==
    ASSUME Built, NEW c \in Callers, stack[c] # <<>>, NEW t, Alike(tree, t), NEW s,
           Len(s) = Len(stack[c]), s \in Seq(Frames),
           \A j \in 1 .. Len(stack[c]) - 1 : s[j] = stack[c][j],
           s[Len(stack[c])].at = Top(c).at, Range(s[Len(stack[c])].left) \subseteq Range(Top(c).left)
    PROVE  \A j \in DOMAIN s : FrameOK(t, src[c], s[j])
  <1>1. AddFSTypeOK /\ CallerOK(tree, src[c], pc[c], stack[c], copy[c])
    BY DEF Built
  <1>2. /\ Len(stack[c]) \in Nat \ {0} /\ DOMAIN stack[c] = 1 .. Len(stack[c])
        /\ Len(stack[c]) \in DOMAIN stack[c] /\ DOMAIN s = 1 .. Len(s)
    BY <1>1, TopIs
  <1>3. \A j \in DOMAIN stack[c] : FrameOK(t, src[c], stack[c][j])
    BY <1>1 DEF CallerOK, FrameOK, Alike
  <1>4. FrameOK(t, src[c], s[Len(stack[c])])
    BY <1>2, <1>3 DEF FrameOK, Top
  <1>5. ASSUME NEW j \in DOMAIN s PROVE FrameOK(t, src[c], s[j])
    <2>1. CASE j = Len(stack[c])
      BY <1>4, <2>1
    <2>2. CASE j # Len(stack[c])
      <3>1. j \in 1 .. Len(stack[c]) - 1
        BY <1>2, <2>2
      <3>2. QED
        BY <1>2, <1>3, <3>1
    <2>3. QED
      BY <2>1, <2>2
  <1>6. QED
    BY <1>5

\* So does fs.ReadDir: what is listed are entries of one storage of the source.
LEMMA BuiltReadStorage ==
    ASSUME Built, NEW c \in Callers, ReadStorage(c)
    PROVE  Built'
  <1>1. AddFSTypeOK /\ Apart(tree) /\ CallerOK(tree, src[c], pc[c], stack[c], copy[c])
    BY DEF Built
  <1>2. pc[c] = "readdir" /\ stack[c] # <<>>
    BY <1>1 DEF CallerOK, Busy, ReadStorage
  <1>3. Moves(c) /\ UNCHANGED <<src, tree, from, closed, sealed, copy, fsVars>>
    BY <1>1, <1>2, ReadStorageDoes
  <1>4. Alike(tree, tree') /\ Apart(tree') /\ tree' = tree
    BY <1>1, <1>3 DEF Alike
  <1>5. CASE pc' = [pc EXCEPT ![c] = "error"] /\ stack' = stack
    <2>1. AddFSTypeOK'
      BY <1>1, <1>3, <1>5 DEF AddFSTypeOK, Stations
    <2>2. pc'[c] = "error" /\ stack'[c] = stack[c]
      BY <1>1, <1>5 DEF AddFSTypeOK
    <2>3. CallerOK(tree', src[c], pc'[c], stack'[c], copy'[c])
      BY <1>1, <1>4, <2>2 DEF CallerOK, Busy
    <2>4. QED
      BY <1>3, <1>4, <2>1, <2>3, BuiltKept
  <1>6. ASSUME pc' = [pc EXCEPT ![c] = "next"],
               NEW d \in DOMAIN src[c], NEW f \in Frames, f.at = Top(c).at,
               Range(f.left) = Range(src[c][d].children),
               stack' = [stack EXCEPT ![c] = [@ EXCEPT ![Len(stack[c])] = f]]
        PROVE  Built'
    <2>1. /\ Len(stack[c]) \in Nat \ {0} /\ DOMAIN stack[c] = 1 .. Len(stack[c])
          /\ Len(stack[c]) \in DOMAIN stack[c]
      BY <1>1, <1>2, TopIs
    <2>2. stack[c] \in Seq(Frames) /\ stack'[c] = [stack[c] EXCEPT ![Len(stack[c])] = f] /\ pc'[c] = "next"
      BY <1>1, <1>6 DEF AddFSTypeOK
    <2>3. /\ stack'[c] \in Seq(Frames) /\ DOMAIN stack'[c] = DOMAIN stack[c] /\ stack'[c] # <<>>
          /\ stack'[c][Len(stack[c])] = f
          /\ \A j \in DOMAIN stack[c] \ {Len(stack[c])} : stack'[c][j] = stack[c][j]
      BY <1>6, <2>1, <2>2
    <2>4. AddFSTypeOK'
      <3>1. stack' = [stack EXCEPT ![c] = stack'[c]]
        BY <1>6, <2>2
      <3>2. stack' \in [Callers -> Seq(Frames)]
        BY <1>1, <2>3, <3>1 DEF AddFSTypeOK
      <3>3. QED
        BY <1>1, <1>3, <1>6, <3>2 DEF AddFSTypeOK, Stations
    <2>5. FrameOK(tree, src[c], f)
      <3>1. FrameOK(tree, src[c], Top(c))
        BY <1>1, <2>1 DEF CallerOK, Top
      <3>2. QED
        BY <1>6, <3>1 DEF FrameOK
    <2>6. \A j \in DOMAIN stack'[c] : FrameOK(tree, src[c], stack'[c][j])
      BY <1>1, <2>3, <2>5 DEF CallerOK
    <2>7. CallerOK(tree', src[c], pc'[c], stack'[c], copy'[c])
      BY <1>4, <2>2, <2>3, <2>6 DEF CallerOK
    <2>8. QED
      BY <1>3, <1>4, <2>4, <2>7, BuiltKept
  <1>7. QED
    BY <1>1, <1>2, <1>5, <1>6, ReadStorageDoes

\* So does CreateStorage: the name was not taken, and the new frame is of the new storage.
LEMMA BuiltAddStorage ==
    ASSUME Built, NEW c \in Callers, AddStorage(c)
    PROVE  Built'
  <1>1. AddFSTypeOK /\ Apart(tree) /\ IsTree(src[c])
    BY SourceIs DEF Built
  <1>2. /\ Moves(c) /\ UNCHANGED <<src, closed, sealed, copy, fsVars>>
        /\ pc' = [pc EXCEPT ![c] = "readdir"]
        /\ stack[c] # <<>> /\ Top(c).left # <<>>
        /\ Created(c, Top(c).at, Storage(Entry(c).name, <<>>))
        /\ stack' = [stack EXCEPT ![c] = stack'[c]]
    BY AddStorageDoes
  <1>3. PICK s \in Seq(Frames) : s = stack'[c]
    BY AddStorageDoes
  <1>4. PICK n \in Nat \ {0} : n = Len(stack[c])
    BY <1>1, <1>2, TopIs
  <1>5. /\ Len(s) = n + 1 /\ s[n] = Passed(c)
        /\ (\A j \in 1 .. n - 1 : s[j] = stack[c][j])
        /\ s[n + 1] = [dir |-> Join(Top(c).dir, Entry(c).name), at |-> NewId, left |-> <<>>]
    <2>1. Len(s) = n + 1 /\ s[n] = Passed(c)
      BY <1>3, <1>4, AddStorageDoes
    <2>2. \A j \in 1 .. n - 1 : s[j] = stack[c][j]
      BY <1>3, <1>4, AddStorageDoes
    <2>3. s[n + 1] = [dir |-> Join(Top(c).dir, Entry(c).name), at |-> NewId, left |-> <<>>]
      BY <1>3, <1>4, AddStorageDoes
    <2>4. QED
      BY <2>1, <2>2, <2>3
  <1>6. /\ IsTree(tree') /\ Apart(tree') /\ Alike(tree, tree') /\ DOMAIN tree \subseteq DOMAIN tree'
        /\ from' \in Seq(Callers) /\ Len(from') = Cardinality(DOMAIN tree') - 1
        /\ NewId \in DOMAIN tree' /\ tree'[NewId] = Storage(Entry(c).name, <<>>)
    BY <1>2 DEF Created
  <1>7. pc'[c] = "readdir"
    BY <1>1, <1>2 DEF AddFSTypeOK
  <1>8. AddFSTypeOK'
    <2>1. stack' \in [Callers -> Seq(Frames)]
      BY <1>1, <1>2, <1>3 DEF AddFSTypeOK
    <2>2. pc' \in [Callers -> Stations]
      BY <1>1, <1>2 DEF AddFSTypeOK, Stations
    <2>3. QED
      BY <1>1, <1>2, <1>6, <2>1, <2>2 DEF AddFSTypeOK
  <1>9. ASSUME NEW j \in DOMAIN s PROVE FrameOK(tree', src[c], s[j])
    <2> DEFINE b == SubSeq(s, 1, n)
    <2>1. b \in Seq(Frames) /\ Len(b) = n /\ DOMAIN b = 1 .. n /\ \A i \in 1 .. n : b[i] = s[i]
      BY <1>4, <1>5
    <2> HIDE DEF b
    <2>2. b[n].at = Top(c).at /\ Range(b[n].left) \subseteq Range(Top(c).left)
      <3>1. n \in 1 .. n
        BY <1>4
      <3>2. b[n] = Passed(c)
        BY <1>5, <2>1, <3>1
      <3>3. Passed(c).at = Top(c).at /\ Range(Passed(c).left) \subseteq Range(Top(c).left)
        BY <1>1, <1>2, PassedIs
      <3>4. QED
        BY <3>2, <3>3
    <2>3. \A i \in 1 .. n - 1 : b[i] = stack[c][i]
      BY <1>5, <2>1
    <2>4. \A i \in DOMAIN b : FrameOK(tree', src[c], b[i])
      <3>1. Len(b) = Len(stack[c]) /\ b \in Seq(Frames) /\ \A i \in 1 .. Len(stack[c]) - 1 : b[i] = stack[c][i]
        BY <1>4, <2>1, <2>3
      <3>2. b[Len(stack[c])].at = Top(c).at /\ Range(b[Len(stack[c])].left) \subseteq Range(Top(c).left)
        BY <1>4, <2>2
      <3>3. QED
        BY <1>2, <1>6, <3>1, <3>2, FramesKept
    <2>5. CASE j = n + 1
      <3>1. s[j].at = NewId /\ Range(s[j].left) = {}
        BY <1>5, <2>5 DEF Range
      <3>2. tree'[NewId].kind = "storage" /\ 0 \in DOMAIN src[c]
        BY <1>1, <1>6, TreeShape DEF Storage
      <3>3. QED
        BY <1>6, <3>1, <3>2 DEF FrameOK
    <2>6. CASE j # n + 1
      <3>1. j \in 1 .. n
        BY <1>5, <2>6
      <3>2. QED
        BY <2>1, <2>4, <3>1
    <2>7. QED
      BY <2>5, <2>6
  <1>10. s # <<>>
    BY <1>5
  <1>11. CallerOK(tree', src[c], pc'[c], stack'[c], copy'[c])
    BY <1>3, <1>7, <1>9, <1>10 DEF CallerOK
  <1>12. QED
    BY <1>2, <1>6, <1>8, <1>11, BuiltKept

\* So does CreateStream: the copy is to the new stream, from an entry of the source.
LEMMA BuiltAddStream ==
    ASSUME Built, NEW c \in Callers, AddStream(c)
    PROVE  Built'
  <1>1. AddFSTypeOK /\ Apart(tree) /\ IsTree(src[c])
    BY SourceIs DEF Built
  <1>2. /\ Moves(c) /\ UNCHANGED <<src, closed, sealed, fsVars>>
        /\ pc' = [pc EXCEPT ![c] = "copy"]
        /\ stack[c] # <<>> /\ Top(c).left # <<>>
        /\ Created(c, Top(c).at, Stream(Entry(c).name, <<>>))
        /\ stack' = [stack EXCEPT ![c] = stack'[c]]
    BY AddStreamDoes
  <1>3. PICK s \in Seq(Frames) : s = stack'[c]
    BY AddStreamDoes
  <1>4. PICK n \in Nat \ {0} : n = Len(stack[c])
    BY <1>1, <1>2, TopIs
  <1>5. Len(s) = n /\ s[n] = Passed(c) /\ \A j \in 1 .. n - 1 : s[j] = stack[c][j]
    BY <1>3, <1>4, AddStreamDoes
  <1>6. /\ IsTree(tree') /\ Apart(tree') /\ Alike(tree, tree') /\ DOMAIN tree \subseteq DOMAIN tree'
        /\ from' \in Seq(Callers) /\ Len(from') = Cardinality(DOMAIN tree') - 1
        /\ NewId \in Nat /\ NewId \in DOMAIN tree' /\ tree'[NewId] = Stream(Entry(c).name, <<>>)
    BY <1>2 DEF Created
  <1>7. PICK file \in DOMAIN src[c] : copy' = [copy EXCEPT ![c] = [to |-> NewId, file |-> file, pos |-> 0]]
    BY AddStreamDoes
  <1>8. file \in Nat
    BY <1>1, TreeShape
  <1>9. [to |-> NewId, file |-> file, pos |-> 0] \in Copies
    BY <1>6, <1>8 DEF Copies
  <1>10. pc'[c] = "copy" /\ copy'[c] = [to |-> NewId, file |-> file, pos |-> 0]
    BY <1>1, <1>2, <1>7 DEF AddFSTypeOK
  <1>11. AddFSTypeOK'
    <2>1. stack' \in [Callers -> Seq(Frames)]
      BY <1>1, <1>2, <1>3 DEF AddFSTypeOK
    <2>2. pc' \in [Callers -> Stations]
      BY <1>1, <1>2 DEF AddFSTypeOK, Stations
    <2>3. copy' \in [Callers -> Copies]
      BY <1>1, <1>7, <1>9 DEF AddFSTypeOK
    <2>4. QED
      BY <1>1, <1>2, <1>6, <2>1, <2>2, <2>3 DEF AddFSTypeOK
  <1>12. \A j \in DOMAIN s : FrameOK(tree', src[c], s[j])
    <2>1. s[n].at = Top(c).at /\ Range(s[n].left) \subseteq Range(Top(c).left)
      BY <1>1, <1>2, <1>5, PassedIs
    <2>2. QED
      BY <1>2, <1>4, <1>5, <1>6, <2>1, FramesKept
  <1>13. CopyOK(tree', src[c], copy'[c])
    <2>1. tree'[NewId].kind = "stream"
      BY <1>6 DEF Stream
    <2>2. src[c][file].data \in Seq(Nat)
      BY <1>1, TreeShape DEF Entries
    <2>3. 0 <= Len(src[c][file].data)
      BY <2>2
    <2>4. QED
      BY <1>6, <1>10, <2>1, <2>3 DEF CopyOK
  <1>14. s # <<>>
    BY <1>5
  <1>15. CallerOK(tree', src[c], pc'[c], stack'[c], copy'[c])
    BY <1>3, <1>12, <1>13, <1>14 DEF CallerOK
  <1>16. QED
    BY <1>2, <1>6, <1>11, <1>15, BuiltKept

\* A step that leaves the tree alone.
LEMMA BuiltStands ==
    ASSUME Built, NEW c \in Callers, UNCHANGED <<src, tree, from, sealed>>, closed' \subseteq DOMAIN tree,
           Moves(c), pc' \in [Callers -> Stations], stack' \in [Callers -> Seq(Frames)],
           copy' \in [Callers -> Copies], CallerOK(tree, src[c], pc'[c], stack'[c], copy'[c])
    PROVE  Built'
  <1>1. AddFSTypeOK' /\ Apart(tree') /\ Alike(tree, tree')
    BY DEF Built, AddFSTypeOK, Alike
  <1>2. QED
    BY <1>1, BuiltKept

\* So does an error before an entry is created.
LEMMA BuiltNotAdded ==
    ASSUME Built, NEW c \in Callers, NotAdded(c) \/ SourceFails(c)
    PROVE  Built'
  <1>1. AddFSTypeOK /\ CallerOK(tree, src[c], pc[c], stack[c], copy[c])
    BY DEF Built
  <1>2. pc' = [pc EXCEPT ![c] = "error"] /\ UNCHANGED <<src, tree, from, closed, sealed, stack, copy>>
    BY DEF NotAdded, SourceFails, Goto
  <1>3. Moves(c) /\ pc'[c] = "error" /\ pc' \in [Callers -> Stations] /\ closed' \subseteq DOMAIN tree
        /\ stack' \in [Callers -> Seq(Frames)] /\ copy' \in [Callers -> Copies]
    BY <1>1, <1>2 DEF Moves, AddFSTypeOK, Stations
  <1>4. CallerOK(tree, src[c], pc'[c], stack'[c], copy'[c])
    BY <1>1, <1>2, <1>3 DEF CallerOK, Busy
  <1>5. QED
    BY <1>2, <1>3, <1>4, BuiltStands

\* What EndStorage does: the frame on top is gone.
LEMMA EndStorageDoes ==
    ASSUME Built, NEW c \in Callers, EndStorage(c)
    PROVE  /\ Moves(c) /\ UNCHANGED <<src, tree, from, closed, sealed, copy, fsVars>>
           /\ pc[c] = "next" /\ stack[c] # <<>> /\ Top(c).left = <<>>
           /\ pc' = [pc EXCEPT ![c] = IF Len(stack[c]) = 1 THEN "ok" ELSE "next"]
           /\ stack' = [stack EXCEPT ![c] = Below(c)]
           /\ stack'[c] = Below(c)
  <1>1. AddFSTypeOK /\ CallerOK(tree, src[c], pc[c], stack[c], copy[c])
    BY DEF Built
  <1>2. pc[c] = "next" /\ Top(c).left = <<>> /\ stack[c] # <<>>
    BY <1>1 DEF CallerOK, EndStorage, Busy
  <1>3. /\ UNCHANGED <<src, tree, from, closed, sealed, copy, fsVars>>
        /\ pc' = [pc EXCEPT ![c] = IF Len(stack[c]) = 1 THEN "ok" ELSE "next"]
        /\ stack' = [stack EXCEPT ![c] = Below(c)]
    BY DEF EndStorage, Goto
  <1>4. Moves(c) /\ stack'[c] = Below(c)
    BY <1>1, <1>3 DEF AddFSTypeOK, Moves
  <1>5. QED
    BY <1>2, <1>3, <1>4

\* So does the return of addFSDir: the frames below remain.
LEMMA BuiltEndStorage ==
    ASSUME Built, NEW c \in Callers, EndStorage(c)
    PROVE  Built'
  <1>1. AddFSTypeOK /\ CallerOK(tree, src[c], pc[c], stack[c], copy[c])
    BY DEF Built
  <1>2. /\ Moves(c) /\ UNCHANGED <<src, tree, from, closed, sealed, copy, fsVars>> /\ stack[c] # <<>>
        /\ pc' = [pc EXCEPT ![c] = IF Len(stack[c]) = 1 THEN "ok" ELSE "next"]
        /\ stack' = [stack EXCEPT ![c] = Below(c)] /\ stack'[c] = Below(c)
    BY EndStorageDoes
  <1>3. /\ Below(c) \in Seq(Frames) /\ Len(Below(c)) = Len(stack[c]) - 1 /\ Len(stack[c]) \in Nat \ {0}
        /\ DOMAIN stack[c] = 1 .. Len(stack[c])
        /\ \A j \in 1 .. Len(stack[c]) - 1 : Below(c)[j] = stack[c][j]
    BY <1>1, <1>2, TopIs
  <1>4. \A j \in DOMAIN Below(c) : FrameOK(tree, src[c], Below(c)[j])
    <2>1. \A j \in DOMAIN Below(c) : j \in 1 .. Len(stack[c]) - 1 /\ j \in DOMAIN stack[c]
      BY <1>3
    <2>2. QED
      BY <1>1, <1>3, <2>1 DEF CallerOK
  <1>5. pc'[c] \in Busy => Below(c) # <<>>
    BY <1>1, <1>2, <1>3 DEF AddFSTypeOK, Busy
  <1>6. pc'[c] # "copy"
    BY <1>1, <1>2 DEF AddFSTypeOK
  <1>7. CallerOK(tree, src[c], pc'[c], stack'[c], copy'[c])
    BY <1>2, <1>4, <1>5, <1>6 DEF CallerOK
  <1>8. pc' \in [Callers -> Stations] /\ closed' \subseteq DOMAIN tree
        /\ stack' \in [Callers -> Seq(Frames)] /\ copy' \in [Callers -> Copies]
    BY <1>1, <1>2, <1>3 DEF AddFSTypeOK, Stations
  <1>9. QED
    BY <1>2, <1>7, <1>8, BuiltStands

\* So does a turn of io.Copy: the position stays in the file.
LEMMA BuiltCopyChunk ==
    ASSUME Built, NEW c \in Callers, CopyChunk(c)
    PROVE  Built'
  <1>1. AddFSTypeOK /\ CallerOK(tree, src[c], pc[c], stack[c], copy[c])
    BY DEF Built
  <1>2. /\ Moves(c) /\ UNCHANGED <<src, from, closed, sealed, pc, stack, fsVars>> /\ pc[c] = "copy"
        /\ IsTree(tree') /\ Apart(tree') /\ Alike(tree, tree') /\ DOMAIN tree' = DOMAIN tree
    BY CopyChunkDoes
  <1>3. PICK k \in Nat : /\ src[c][copy[c].file].data \in Seq(Nat)
                         /\ copy[c].pos + k <= Len(src[c][copy[c].file].data)
                         /\ copy' = [copy EXCEPT ![c] = [copy[c] EXCEPT !.pos = copy[c].pos + k]]
    BY CopyChunkDoes
  <1>4. copy[c] \in Copies /\ CopyOK(tree, src[c], copy[c])
    BY <1>1, <1>2 DEF AddFSTypeOK, CallerOK
  <1>5. /\ [copy[c] EXCEPT !.pos = copy[c].pos + k] \in Copies
        /\ copy'[c].to = copy[c].to /\ copy'[c].file = copy[c].file /\ copy'[c].pos = copy[c].pos + k
    <2>1. copy'[c] = [copy[c] EXCEPT !.pos = copy[c].pos + k]
      BY <1>1, <1>3 DEF AddFSTypeOK
    <2>2. PICK m \in Copies : m = copy[c]
      BY <1>4
    <2>3. /\ [m EXCEPT !.pos = m.pos + k] \in Copies
          /\ [m EXCEPT !.pos = m.pos + k].to = m.to /\ [m EXCEPT !.pos = m.pos + k].file = m.file
          /\ [m EXCEPT !.pos = m.pos + k].pos = m.pos + k
      BY <2>2 DEF Copies
    <2>4. QED
      BY <2>1, <2>2, <2>3
  <1>6. AddFSTypeOK'
    <2>1. copy' \in [Callers -> Copies]
      BY <1>1, <1>3, <1>5 DEF AddFSTypeOK
    <2>2. QED
      BY <1>1, <1>2, <2>1 DEF AddFSTypeOK
  <1>7. CallerOK(tree, src[c], pc'[c], stack'[c], copy'[c])
    <2>1. CopyOK(tree, src[c], copy'[c])
      BY <1>3, <1>4, <1>5 DEF CopyOK
    <2>2. QED
      BY <1>1, <1>2, <2>1 DEF CallerOK
  <1>8. CallerOK(tree', src[c], pc'[c], stack'[c], copy'[c])
    BY <1>2, <1>7, CallerKept
  <1>9. QED
    BY <1>2, <1>6, <1>8, BuiltKept

\* The stream of a copy may be closed when the copy ends.
LEMMA BuiltCopyEnds ==
    ASSUME Built, NEW c \in Callers, CopyFails(c) \/ CloseStream(c)
    PROVE  Built'
  <1>1. AddFSTypeOK /\ CallerOK(tree, src[c], pc[c], stack[c], copy[c]) /\ pc[c] = "copy"
    BY DEF Built, CopyFails, CloseStream
  <1>2. PICK to \in {"error", "next"} : pc' = [pc EXCEPT ![c] = to]
    BY DEF CopyFails, CloseStream, Goto
  <1>3. /\ copy' = [copy EXCEPT ![c] = NoCopy] /\ UNCHANGED <<src, tree, from, sealed, stack>>
        /\ closed' \subseteq closed \cup {copy[c].to}
    BY DEF CopyFails, CloseStream, LeftOpen
  <1>4. closed' \subseteq DOMAIN tree /\ NoCopy \in Copies
    BY <1>1, <1>3 DEF CallerOK, CopyOK, AddFSTypeOK, NoCopy, NoEntry, Copies
  <1>5. /\ Moves(c) /\ pc'[c] = to /\ pc' \in [Callers -> Stations] /\ stack' \in [Callers -> Seq(Frames)]
        /\ copy' \in [Callers -> Copies]
    BY <1>1, <1>2, <1>3, <1>4 DEF Moves, AddFSTypeOK, Stations
  <1>6. CallerOK(tree, src[c], pc'[c], stack'[c], copy'[c])
    BY <1>1, <1>2, <1>3, <1>5 DEF CallerOK, Busy
  <1>7. QED
    BY <1>3, <1>4, <1>5, <1>6, BuiltStands

\* Every step of the system keeps the entries a tree of names that are apart.
LEMMA BuiltNext ==
    ASSUME Built, [AddFSNext]_vars
    PROVE  Built'
  <1>1. ASSUME NEW c \in Callers, Begin(c) PROVE Built'
    BY <1>1, BuiltBegin
  <1>2. ASSUME NEW c \in Callers, Step(c) PROVE Built'
    BY <1>2, BuiltReadStorage, BuiltAddStorage, BuiltAddStream, BuiltNotAdded, BuiltEndStorage,
       BuiltCopyChunk, BuiltCopyEnds DEF Step
  <1>3. ASSUME NEW c \in Callers, Failure(c) PROVE Built'
    BY <1>3, BuiltNotAdded, BuiltCopyEnds DEF Failure
  <1>4. CASE CloseWriter
    <2>1. /\ UNCHANGED <<src, tree, from, closed, pc, stack, copy>> /\ sealed' = TRUE
      BY <1>4 DEF CloseWriter
    <2>2. QED
      BY <2>1 DEF Built, AddFSTypeOK
  <1>5. CASE Client
    BY <1>5 DEF Client, Built, AddFSTypeOK
  <1>6. CASE UNCHANGED vars
    BY <1>6 DEF vars, Built, AddFSTypeOK
  <1>7. QED
    BY <1>1, <1>2, <1>3, <1>4, <1>5, <1>6 DEF AddFSNext

\* The state of every call of AddFS and the tree that they build have their types.
THEOREM AddFSTypes == AddFSSpec => []AddFSTypeOK
  <1>1. AddFSInit => Built
    BY BuiltInit
  <1>2. Built /\ [AddFSNext]_vars => Built'
    BY BuiltNext
  <1>3. Built => AddFSTypeOK
    BY DEF Built
  <1>4. QED
    BY <1>1, <1>2, <1>3, PTL DEF AddFSSpec

-----------------------------------------------------------------------------
(* The handle of a storage, and Open on what is served                      *)

\* l is the first n elements of s.
Begins(l, s, n) == l \in Seq(Nat) /\ Len(l) = n /\ \A i \in 1 .. n : l[i] = s[i]

\* The handle has given what precedes its position, and all at the end.
HandleOK ==
    IF handle = NoHandle THEN listed = <<>> /\ eof = FALSE
    ELSE /\ handle.id \in DOMAIN view /\ handle = [id |-> handle.id, pos |-> handle.pos]
         /\ handle.pos \in 0 .. Len(view[handle.id].children)
         /\ Begins(listed, view[handle.id].children, handle.pos)
         /\ eof => handle.pos = Len(view[handle.id].children)

\* What is served is a tree of names that are apart.
ViewOK == (view # <<>> => IsTree(view) /\ Apart(view)) /\ (view = <<>> => handle = NoHandle) /\ HandleOK

\* The reader sees the tree in another order.
LEMMA ServedIs ==
    ASSUME IsTree(tree), Apart(tree)
    PROVE  IsTree(Served) /\ Apart(Served)
  <1> DEFINE key == [e \in DOMAIN tree |-> Rank[tree[e].name]]
             u == Served
  <1>1. /\ DOMAIN u = DOMAIN tree /\ u = [e \in DOMAIN tree |-> u[e]]
        /\ \A e \in DOMAIN tree : u[e] = [tree[e] EXCEPT !.children = SortedBy(tree[e].children, key)]
    BY DEF Served
  <1>2. ASSUME NEW e \in DOMAIN tree
        PROVE  /\ tree[e] \in Entries
               /\ SortedBy(tree[e].children, key) \in Seq(Nat)
               /\ Range(SortedBy(tree[e].children, key)) = Range(tree[e].children)
               /\ IsInjective(SortedBy(tree[e].children, key))
    <2>1. PICK s \in Seq(Nat) : s = tree[e].children
      BY TreeShape
    <2>2. \A x \in Range(s) : x \in DOMAIN tree /\ tree[x].name \in Names
      BY <2>1, TreeChild
    <2>3. \A x \in Range(s) : key[x] = Rank[tree[x].name] /\ key[x] \in Nat
      BY <2>2, NamesAssumption
    <2>4. \A x, y \in Range(s) : x # y => Rank[tree[x].name] # Rank[tree[y].name]
      BY <2>1 DEF Apart, SameName
    <2>5. \A i, j \in DOMAIN s : s[i] = s[j] => i = j
      BY <2>1 DEF IsTree, IsInjective
    <2> HIDE DEF key
    <2>6. Keyed(s, key)
      BY <2>3, <2>4, <2>5 DEF Keyed
    <2>7. SortedBy(s, key) \in Seq(Nat) /\ Range(SortedBy(s, key)) = Range(s)
      BY <2>6, SortedByIs
    <2>8. IsInjective(SortedBy(s, key))
      BY <2>6, SortedByIs DEF IsInjective
    <2>9. QED
      BY <2>1, <2>7, <2>8, TreeShape
  <1> HIDE DEF u, key
  <1>3. ASSUME NEW e \in DOMAIN tree
        PROVE  /\ u[e] \in Entries /\ u[e].name = tree[e].name /\ u[e].kind = tree[e].kind
               /\ u[e].data = tree[e].data
               /\ Range(u[e].children) = Range(tree[e].children) /\ IsInjective(u[e].children)
    <2>1. PICK x \in Entries : x = tree[e]
      BY <1>2
    <2>2. PICK s \in Seq(Nat) : s = SortedBy(tree[e].children, key)
      BY <1>2
    <2>3. u[e] = [x EXCEPT !.children = s]
      BY <1>1, <2>1, <2>2
    <2>4. /\ u[e] \in Entries /\ u[e].name = x.name /\ u[e].kind = x.kind /\ u[e].data = x.data
          /\ u[e].children = s
      BY <2>3 DEF Entries
    <2>5. QED
      BY <1>2, <2>1, <2>2, <2>4
  <1>4. IsTree(u) /\ Apart(u)
    BY <1>1, <1>3, TreeChanges
  <1>5. QED
    BY <1>4 DEF u

\* A handle that is opened has given nothing.
LEMMA ViewOpen ==
    ASSUME ViewOK, NEW name \in Names, OpenStorage(<<name>>)
    PROVE  ViewOK'
  <1>1. PICK d : d = Open(view, <<name>>)
    OBVIOUS
  <1>2. /\ view # <<>> /\ handle = NoHandle /\ d # NoEntry
        /\ handle' = [id |-> d, pos |-> 0] /\ view' = view /\ listed' = listed /\ eof' = eof
    BY <1>1 DEF OpenStorage
  <1>3. d \in DOMAIN view /\ view[d].children \in Seq(Nat)
    <2>1. <<name>> \in Seq(Names) /\ IsTree(view)
      BY <1>2 DEF ViewOK
    <2>2. d \in DOMAIN view
      BY <1>1, <1>2, <2>1, OpenIsEntry
    <2>3. QED
      BY <2>1, <2>2, TreeShape
  <1>4. handle'.id = d /\ handle'.pos = 0
    BY <1>2
  <1>5. listed' = <<>> /\ ~eof'
    BY <1>2 DEF ViewOK, HandleOK
  <1>6. 0 \in 0 .. Len(view[d].children)
    BY <1>3
  <1>7. handle' # NoHandle
    BY <1>2 DEF NoHandle
  <1>8. HandleOK'
    BY <1>2, <1>3, <1>4, <1>5, <1>6, <1>7 DEF HandleOK, Begins
  <1>9. QED
    BY <1>2, <1>8 DEF ViewOK

\* What precedes a position grows by the next elements.
LEMMA GivesMore ==
    ASSUME NEW s \in Seq(Nat), NEW p \in Nat, NEW k \in Nat, p + k <= Len(s),
           NEW l, Begins(l, s, p)
    PROVE  Begins(l \o SubSeq(s, p + 1, p + k), s, p + k)
  <1> DEFINE x == SubSeq(s, p + 1, p + k)
  <1>1. l \in Seq(Nat) /\ Len(l) = p /\ \A i \in 1 .. p : l[i] = s[i]
    BY DEF Begins
  <1>2. x \in Seq(Nat) /\ Len(x) = k /\ \A i \in 1 .. k : x[i] = s[p + i]
    <2>1. p + k \in Nat /\ p <= p + k /\ p + k - p = k
      OBVIOUS
    <2>2. QED
      BY <2>1, Slice
  <1> HIDE DEF x
  <1>3. l \o x = Cat(l, x)
    BY DEF Cat
  <1>4. Cat(l, x) \in Seq(Nat) /\ Len(Cat(l, x)) = Len(l) + Len(x)
    BY <1>1, <1>2, CatType
  <1>5. ASSUME NEW i \in 1 .. p + k PROVE Cat(l, x)[i] = s[i]
    <2>1. CASE i <= p
      <3>1. i \in 1 .. Len(l)
        BY <1>1, <2>1
      <3>2. Cat(l, x)[i] = l[i]
        BY <1>1, <1>2, <3>1, CatFirst
      <3>3. QED
        BY <1>1, <3>1, <3>2
    <2>2. CASE i > p
      <3>1. PICK j \in 1 .. Len(x) : i = p + j
        <4>1. i - p \in 1 .. k /\ i = p + (i - p)
          BY <2>2
        <4>2. QED
          BY <1>2, <4>1
      <3>2. Cat(l, x)[Len(l) + j] = x[j]
        <4>1. x \in Seq(Nat) /\ l \in Seq(Nat)
          BY <1>1, <1>2
        <4>2. QED
          BY <4>1, CatSecond, Zenon
      <3>3. QED
        BY <1>1, <1>2, <3>1, <3>2
    <2>3. QED
      BY <2>1, <2>2
  <1>6. Begins(Cat(l, x), s, p + k)
    BY <1>1, <1>2, <1>4, <1>5 DEF Begins
  <1>7. QED
    BY <1>3, <1>6 DEF x

\* ReadDir gives the entries from the position of the handle on.
LEMMA ViewReads ==
    ASSUME ViewOK, NEW n \in Nat, ReadDir(n)
    PROVE  ViewOK'
  <1>1. handle # NoHandle /\ view # <<>> /\ view' = view
    BY DEF ReadDir, ViewOK
  <1>2. PICK d, p : handle = [id |-> d, pos |-> p]
    BY <1>1 DEF ViewOK, HandleOK
  <1>3. PICK s : s = view[d].children
    OBVIOUS
  <1>4. d \in DOMAIN view /\ s \in Seq(Nat) /\ d \in Nat
    <2>1. d \in DOMAIN view /\ IsTree(view)
      BY <1>1, <1>2 DEF ViewOK, HandleOK
    <2>2. QED
      BY <1>3, <2>1, TreeShape
  <1>5. /\ p \in 0 .. Len(s) /\ Begins(listed, s, p)
    BY <1>1, <1>2, <1>3 DEF ViewOK, HandleOK
  <1>6. p \in Nat /\ p <= Len(s)
    BY <1>4, <1>5
  <1>7. PICK r : r = SubSeq(s, p + 1, Len(s))
    OBVIOUS
  <1>8. Len(r) = Len(s) - p /\ Len(r) \in Nat
    <2>1. Len(s) \in Nat
      BY <1>4
    <2>2. Len(r) = Len(s) - p
      BY <1>4, <1>6, <1>7, <2>1, Slice
    <2>3. QED
      BY <1>6, <2>1, <2>2
  <1>9. PICK k : k = IF n > 0 /\ n < Len(r) THEN n ELSE Len(r)
    OBVIOUS
  <1>10. k \in Nat /\ k <= Len(r) /\ (n <= 0 \/ k = 0 => k = Len(r))
    BY <1>8, <1>9
  <1>11. /\ listed' = listed \o SubSeq(r, 1, k)
         /\ handle' = [handle EXCEPT !.pos = @ + k]
         /\ eof' = (n <= 0 \/ k = 0)
    BY <1>2, <1>3, <1>7, <1>9 DEF ReadDir, Remaining, Advance
  <1>12. handle' = [id |-> d, pos |-> p + k]
    BY <1>2, <1>11
  <1>13. p + k \in 0 .. Len(s) /\ p + k <= Len(s) /\ p + k \in Nat
    BY <1>4, <1>6, <1>8, <1>10
  <1>14. Begins(listed', s, p + k)
    <2>1. Begins(listed \o SubSeq(s, p + 1, p + k), s, p + k)
      BY <1>4, <1>5, <1>6, <1>10, <1>13, GivesMore
    <2>2. SubSeq(r, 1, k) = SubSeq(s, p + 1, p + k)
      BY <1>4, <1>6, <1>7, <1>10, <1>13, SliceOfRest
    <2>3. QED
      BY <1>11, <2>1, <2>2
  <1>15. eof' => p + k = Len(s)
    <2>1. Len(s) \in Nat /\ p + Len(r) = Len(s)
      BY <1>4, <1>6, <1>8
    <2>2. QED
      BY <1>10, <1>11, <2>1
  <1>16. handle'.id = d /\ handle'.pos = p + k
    BY <1>12
  <1>17. handle' # NoHandle
    BY <1>4, <1>16 DEF NoHandle, NoEntry
  <1>18. HandleOK'
    BY <1>1, <1>3, <1>4, <1>12, <1>13, <1>14, <1>15, <1>16, <1>17 DEF HandleOK
  <1>19. QED
    BY <1>1, <1>17, <1>18 DEF ViewOK

(* Every step keeps ViewOK; Writer.Close serves a tree, as siblings with    *)
(* different names can be sorted.                                           *)
LEMMA ViewNext ==
    ASSUME Built, ViewOK, sealed \/ view = <<>>, [AddFSNext]_vars
    PROVE  ViewOK' /\ (sealed' \/ view' = <<>>)
  <1>1. ASSUME UNCHANGED <<sealed, fsVars>> PROVE ViewOK' /\ (sealed' \/ view' = <<>>)
    BY <1>1 DEF ViewOK, HandleOK, fsVars
  <1>2. ASSUME NEW c \in Callers, Begin(c) \/ Step(c) \/ Failure(c) PROVE UNCHANGED <<sealed, fsVars>>
    BY <1>2 DEF Begin, Step, Failure, ReadStorage, AddStorage, AddStream, NotAdded, EndStorage, CopyChunk,
       CloseStream, SourceFails, CopyFails
  <1>3. CASE CloseWriter
    <2>1. view = <<>> /\ view' = Served /\ sealed' = TRUE /\ handle' = handle /\ listed' = listed /\ eof' = eof
      BY <1>3 DEF CloseWriter
    <2>2. handle = NoHandle /\ IsTree(view') /\ Apart(view')
      BY <2>1, ServedIs DEF ViewOK, Built, AddFSTypeOK
    <2>3. view' # <<>>
      <3>1. DOMAIN <<>> = {}
        OBVIOUS
      <3>2. 0 \in DOMAIN view'
        BY <2>2, TreeShape
      <3>3. QED
        BY <3>1, <3>2
    <2>4. listed' = <<>> /\ eof' = FALSE /\ handle' = NoHandle
      BY <2>1, <2>2 DEF ViewOK, HandleOK
    <2>5. HandleOK'
      BY <2>4 DEF HandleOK
    <2>6. QED
      BY <2>1, <2>2, <2>3, <2>5 DEF ViewOK
  <1>4. CASE Client
    <2>1. sealed' = sealed /\ (view' = <<>> <=> view = <<>>)
      BY <1>4 DEF Client, OpenStorage, ReadDir
    <2>2. ViewOK'
      <3>1. CASE \E name \in Names : OpenStorage(<<name>>)
        BY <3>1, ViewOpen
      <3>2. ASSUME NEW n \in 0 .. 2, ReadDir(n) PROVE ViewOK'
        <4>1. n \in Nat
          OBVIOUS
        <4>2. QED
          BY <3>2, <4>1, ViewReads
      <3>3. QED
        BY <1>4, <3>1, <3>2 DEF Client
    <2>3. QED
      BY <2>1, <2>2
  <1>5. CASE UNCHANGED vars
    BY <1>1, <1>5 DEF vars
  <1>6. QED
    BY <1>1, <1>2, <1>3, <1>4, <1>5 DEF AddFSNext

\* The inductive invariant of the handle.
ViewBuilt == Built /\ ViewOK /\ (sealed \/ view = <<>>)

(* ViewBuilt holds of every state: no step between opening a handle and     *)
(* its end changes what it has given.                                       *)
LEMMA ViewAlways == AddFSSpec => []ViewBuilt
  <1>1. AddFSInit => ViewBuilt
    <2>1. AddFSInit => ViewOK /\ view = <<>>
      BY DEF AddFSInit, FsInit, ViewOK, HandleOK
    <2>2. QED
      BY <2>1, BuiltInit DEF ViewBuilt
  <1>2. ViewBuilt /\ [AddFSNext]_vars => ViewBuilt'
    BY BuiltNext, ViewNext DEF ViewBuilt
  <1>3. QED
    BY <1>1, <1>2, PTL DEF AddFSSpec

(* ListedOnce: however calls of ReadDir with and without a limit follow     *)
(* each other (File.ReadDir of fs.go), a handle gives every entry of the    *)
(* storage once and in order, and all by the time it says that there are    *)
(* no more.                                                                 *)
THEOREM HandlesListOnce == AddFSSpec => []ListedOnce
  <1>1. ASSUME ViewOK PROVE ListedOnce
    <2>1. SUFFICES ASSUME handle # NoHandle
                   PROVE  /\ IsPrefix(listed, view[handle.id].children)
                          /\ eof => listed = view[handle.id].children
      BY DEF ListedOnce
    <2>2. PICK s \in Seq(Nat) : s = view[handle.id].children
      BY <1>1, <2>1, TreeShape DEF ViewOK, HandleOK
    <2>3. PICK pos \in 0 .. Len(s) : pos = handle.pos
      BY <1>1, <2>1, <2>2 DEF ViewOK, HandleOK
    <2>4. /\ listed \in Seq(Nat) /\ Len(listed) = pos /\ (\A i \in 1 .. pos : listed[i] = s[i])
          /\ eof => pos = Len(s)
      BY <1>1, <2>1, <2>2, <2>3 DEF ViewOK, HandleOK, Begins
    <2>5. IsPrefix(listed, s)
      <3>1. /\ SubSeq(listed, 1, pos) \in Seq(Nat) /\ Len(SubSeq(listed, 1, pos)) = pos
            /\ \A i \in 1 .. pos : SubSeq(listed, 1, pos)[i] = listed[i]
        BY <2>3, <2>4
      <3>2. /\ SubSeq(s, 1, pos) \in Seq(Nat) /\ Len(SubSeq(s, 1, pos)) = pos
            /\ \A i \in 1 .. pos : SubSeq(s, 1, pos)[i] = s[i]
        BY <2>3
      <3>3. SubSeq(listed, 1, pos) = SubSeq(s, 1, pos)
        BY <2>4, <3>1, <3>2, SameSeq
      <3>4. QED
        BY <2>3, <2>4, <3>3 DEF IsPrefix
    <2>6. ASSUME eof PROVE listed = s
      BY <2>4, <2>6, SameSeq
    <2>7. QED
      BY <2>2, <2>5, <2>6
  <1>2. QED
    BY <1>1, ViewAlways, PTL DEF ViewBuilt

(* ListedOpens: in a file that a Writer has made by AddFS, whatever calls   *)
(* of it ran at the same time and failed, Reader.Open (fs.go) finds every   *)
(* entry by the path it is listed under, in any case, unless a name on it   *)
(* is "." or "..".                                                          *)
THEOREM ListedPathsOpen == AddFSSpec => []ListedOpens
  <1>1. ASSUME ViewOK PROVE ListedOpens
    <2>1. SUFFICES ASSUME NEW id \in DOMAIN view, NEW p \in Variants(PathIn(view, id)),
                          id # 0, Range(p) \cap {Dot, DotDot} = {}
                   PROVE  Open(view, p) = id
      BY DEF ListedOpens
    <2>2. view # <<>>
      <3>1. DOMAIN <<>> = {}
        OBVIOUS
      <3>2. QED
        BY <2>1, <3>1
    <2>3. IsTree(view) /\ Apart(view) /\ Clear(view)
      BY <1>1, <2>2 DEF ViewOK, Apart, Clear
    <2>4. PICK path \in Seq(Names) : path = PathIn(view, id)
      BY <2>3, PathIsNames
    <2>5. p \in [1 .. Len(path) -> Names] /\ \A i \in 1 .. Len(path) : SameName(p[i], path[i])
      BY <2>1, <2>4 DEF Variants
    <2>6. p \in Seq(Names) /\ Len(p) = Len(path)
      BY <2>4, <2>5
    <2>7. Leads(path, p)
      BY <2>5, <2>6 DEF Leads
    <2>8. \A i \in 1 .. Len(p) : p[i] \notin {Dot, DotDot}
      BY <2>1, <2>5, <2>6 DEF Range
    <2>9. Open(view, p) \in Range(view[Parent(view, id)].children) /\ SameName(view[Open(view, p)].name, view[id].name)
      BY <2>1, <2>3, <2>4, <2>6, <2>7, <2>8, OpenFinds
    <2>10. Parent(view, id) \in DOMAIN view /\ id \in Range(view[Parent(view, id)].children)
      BY <2>1, <2>3, TreeParent
    <2>11. QED
      BY <2>3, <2>9, <2>10 DEF Apart
  <1>2. QED
    BY <1>1, ViewAlways, PTL DEF ViewBuilt

-----------------------------------------------------------------------------
(* What a call of AddFS has made of its source                              *)

\* The path by which AddFS opens a storage.
Dir(path) == IF path = <<>> THEN <<Dot>> ELSE path

\* The frame adds the rest of storage d of the source to the storage of the same path.
FrameFor(t, source, f, d) ==
    /\ source[d].kind = "storage"
    /\ f.dir = Dir(PathIn(source, d)) /\ PathIn(t, f.at) = PathIn(source, d)
    /\ Range(f.left) \subseteq Range(source[d].children)

\* The entry id of the tree was made from e, and is like it if it is done.
MadeFrom(t, done, source, id, e) ==
    /\ PathIn(t, id) = PathIn(source, e) /\ t[id].kind = source[e].kind
    /\ id \in done => t[id].data = source[e].data

\* A stream has the first bytes of the file, which is the one of its path if it is a file.
Copying(t, done, source, k) ==
    /\ k.to \notin done
    /\ Begins(t[k.to].data, source[k.file].data, k.pos)
    /\ source[k.file].kind = "stream" => PathIn(t, k.to) = PathIn(source, k.file)

(* Everything c has created was made from an entry of its source, its       *)
(* frames are of the storages with the same paths, and what it copies is a  *)
(* beginning of the file.                                                   *)
Making(c) ==
    /\ \A id \in DOMAIN tree \ {0} : from[id] = c =>
          \E e \in DOMAIN src[c] \ {0} : MadeFrom(tree, closed, src[c], id, e)
    /\ \A j \in DOMAIN stack[c] : \E d \in DOMAIN src[c] : FrameFor(tree, src[c], stack[c][j], d)
    /\ pc[c] = "copy" => /\ copy[c].to # 0 /\ from[copy[c].to] = c
                         /\ Copying(tree, closed, src[c], copy[c])

\* The inductive invariant of what the calls make; a Writer is not closed with a stream open.
AllMaking == /\ \A c \in Callers : Making(c)
             /\ sealed => Streams \subseteq closed

\* c has created an entry for x.
Added(t, fr, source, c, x) ==
    \E id \in DOMAIN t \ {0} :
        fr[id] = c /\ PathIn(t, id) = PathIn(source, x) /\ t[id].kind = source[x].kind

\* y is still to be added by the call for its storage x.
Pending(t, source, p, s, x, y) ==
    \E j \in DOMAIN s :
        /\ FrameFor(t, source, s[j], x)
        /\ y \in Range(s[j].left) \/ (j = Len(s) /\ p = "readdir")

\* What c has not added, though the storage it is in, it is going to add.
Progress(t, fr, source, c, p, s) ==
    \A x \in DOMAIN source : \A y \in Range(source[x].children) :
        x = 0 \/ Added(t, fr, source, c, x) =>
            Added(t, fr, source, c, y) \/ Pending(t, source, p, s, x, y)

(* A call that has not failed has added or is going to add what its source  *)
(* holds, and has only the stream it copies to open.                        *)
Reaching(c) ==
    /\ pc[c] = "idle" => \A id \in DOMAIN tree \ {0} : from[id] # c
    /\ pc[c] = "ok" => stack[c] = <<>>
    /\ \A id \in DOMAIN tree \ {0} : from[id] = c /\ tree[id].kind = "stream" /\ id \notin closed =>
          pc[c] = "error" \/ (pc[c] = "copy" /\ id = copy[c].to)
    /\ pc[c] \notin {"idle", "error"} => Progress(tree, from, src[c], c, pc[c], stack[c])
AllReaching == \A c \in Callers : Reaching(c)

\* The root of the source has no storage with the name ".".
RootClear(t) == \A e \in Range(t[0].children) : t[e].kind = "storage" => t[e].name # Dot
NoDotInRoot == \A t \in Sources : RootClear(t)

-----------------------------------------------------------------------------
(* Paths of a source                                                        *)

\* Only the root has the empty path.
LEMMA PathNotEmpty ==
    ASSUME NEW t, IsTree(t), NEW e \in DOMAIN t \ {0}
    PROVE  PathIn(t, e) # <<>>
  <1>1. PICK p \in Seq(Names), m \in Names : PathIn(t, e) = Append(p, m)
    BY PathOf, TreeParent, PathIsNames
  <1>2. QED
    BY <1>1

\* No storage has the path that AddFS takes for the root's.
LEMMA StorageNotDot ==
    ASSUME NEW t, IsTree(t), RootClear(t), NEW e \in DOMAIN t \ {0}, t[e].kind = "storage"
    PROVE  PathIn(t, e) # <<Dot>>
  <1>1. PICK s : s = Parent(t, e)
    OBVIOUS
  <1>2. s \in DOMAIN t /\ e \in Range(t[s].children)
    BY <1>1, TreeParent
  <1>3. PICK p \in Seq(Names) : p = PathIn(t, s)
    BY <1>2, PathIsNames
  <1>4. PICK m \in Names : m = t[e].name
    BY TreeParent
  <1>5. PathIn(t, e) = Append(p, m)
    BY <1>1, <1>3, <1>4, PathOf
  <1>6. SUFFICES ASSUME Append(p, m) = <<Dot>> PROVE FALSE
    BY <1>5
  <1>7. p = <<>> /\ m = Dot
    <2>1. Len(Append(p, m)) = Len(p) + 1 /\ Len(<<Dot>>) = 1 /\ Len(p) \in Nat
      OBVIOUS
    <2>2. Len(p) = 0
      BY <1>6, <2>1
    <2>3. p = <<>>
      BY <2>2
    <2>4. Append(p, m)[1] = m /\ <<Dot>>[1] = Dot
      BY <2>3
    <2>5. QED
      BY <1>6, <2>3, <2>4
  <1>8. s = 0
    BY <1>2, <1>3, <1>7, PathNotEmpty
  <1>9. QED
    BY <1>2, <1>4, <1>7, <1>8 DEF RootClear

\* The path of an entry, joined as AddFS does.
LEMMA SourceJoin ==
    ASSUME NEW t, IsTree(t), RootClear(t), NEW d \in DOMAIN t, t[d].kind = "storage",
           NEW e \in Range(t[d].children)
    PROVE  Join(Dir(PathIn(t, d)), t[e].name) = PathIn(t, e)
  <1>1. e \in DOMAIN t \ {0} /\ Parent(t, e) = d
    BY TreeChild
  <1>2. PathIn(t, e) = Append(PathIn(t, d), t[e].name)
    BY <1>1, PathOf
  <1>3. CASE d = 0
    <2>1. PathIn(t, d) = <<>>
      BY <1>3, PathOf
    <2>2. QED
      BY <1>2, <2>1 DEF Join, Dir
  <1>4. CASE d # 0
    BY <1>2, <1>4, PathNotEmpty, StorageNotDot DEF Join, Dir
  <1>5. QED
    BY <1>3, <1>4

\* The storage that AddFS reads for the path of d is d.
LEMMA SourceDir ==
    ASSUME NEW t, IsSource(t), RootClear(t), NEW d \in DOMAIN t, t[d].kind = "storage",
           NEW o, o = Open(t, Dir(PathIn(t, d))), o # NoEntry, t[o].kind = "storage"
    PROVE  o = d
  <1>1. IsTree(t)
    BY DEF IsSource
  <1>2. CASE d = 0
    <2>1. PathIn(t, d) = <<>>
      BY <1>1, <1>2, PathOf
    <2>2. Dir(PathIn(t, d)) = <<Dot>>
      BY <2>1 DEF Dir
    <2>3. ValidPath(<<Dot>>)
      BY DEF ValidPath
    <2>4. <<Dot>> \in Seq(Names)
      BY NamesAssumption
    <2>5. PICK w : Open(t, <<Dot>>) = IF ~ValidPath(<<Dot>>) THEN NoEntry
                                      ELSE IF <<Dot>> = <<Dot>> THEN 0 ELSE w[Len(<<Dot>>)]
      BY <2>4, OpenWalks
    <2>6. QED
      BY <1>2, <2>2, <2>3, <2>5
  <1>3. CASE d # 0
    <2>1. PathIn(t, d) # <<>> /\ PathIn(t, d) # <<Dot>>
      BY <1>1, <1>3, PathNotEmpty, StorageNotDot
    <2>2. o = Open(t, PathIn(t, d))
      BY <2>1 DEF Dir
    <2>3. QED
      BY <1>3, <2>1, <2>2, SourceOpens
  <1>4. QED
    BY <1>2, <1>3

\* A source has one entry of a path.
LEMMA SourcePaths ==
    ASSUME NEW t, IsSource(t)
    PROVE  \A d, e \in DOMAIN t : PathIn(t, d) = PathIn(t, e) => d = e
  <1>1. IsTree(t) /\ \A s \in DOMAIN t : \A d, e \in Range(t[s].children) : d # e => t[d].name # t[e].name
    BY Zenon DEF IsSource
  <1>2. QED
    BY <1>1, PathsApart

-----------------------------------------------------------------------------
(* What one call leaves to the others                                       *)

\* A step of c changes only what c has made.
Ours(c) ==
    /\ Alike(tree, tree')
    /\ \A id \in DOMAIN tree : PathIn(tree', id) = PathIn(tree, id)
    /\ \A id \in DOMAIN tree \ {0} : from'[id] = from[id]
    /\ \A id \in DOMAIN tree \ {0} : from[id] # c =>
          tree'[id].data = tree[id].data /\ (id \in closed' => id \in closed)
    /\ \A id \in DOMAIN tree' \ DOMAIN tree : from'[id] = c
    /\ closed \subseteq closed'

\* What another call has made is made from its source as before.
LEMMA OthersMake ==
    ASSUME Built, NEW c \in Callers, Moves(c), Ours(c), NEW d \in Callers \ {c}, Making(d)
    PROVE  Making(d)'
  <1>1. src'[d] = src[d] /\ pc'[d] = pc[d] /\ stack'[d] = stack[d] /\ copy'[d] = copy[d]
    BY DEF Moves
  <1>2. CallerOK(tree, src[d], pc[d], stack[d], copy[d])
    BY DEF Built
  <1>3. ASSUME NEW id \in DOMAIN tree' \ {0}, from'[id] = d
        PROVE  \E e \in DOMAIN src[d] \ {0} : MadeFrom(tree', closed', src[d], id, e)
    <2>1. id \in DOMAIN tree \ {0} /\ from[id] = d
      BY <1>3 DEF Ours
    <2>2. PICK e \in DOMAIN src[d] \ {0} : MadeFrom(tree, closed, src[d], id, e)
      BY <2>1 DEF Making
    <2>3. MadeFrom(tree', closed', src[d], id, e)
      BY <2>1, <2>2 DEF MadeFrom, Ours, Alike
    <2>4. QED
      BY <2>3
  <1>4. ASSUME NEW j \in DOMAIN stack[d]
        PROVE  \E x \in DOMAIN src[d] : FrameFor(tree', src[d], stack[d][j], x)
    <2>1. PICK x \in DOMAIN src[d] : FrameFor(tree, src[d], stack[d][j], x)
      BY DEF Making
    <2>2. stack[d][j].at \in DOMAIN tree
      BY <1>2 DEF CallerOK, FrameOK
    <2>3. FrameFor(tree', src[d], stack[d][j], x)
      BY <2>1, <2>2 DEF FrameFor, Ours
    <2>4. QED
      BY <2>3
  <1>5. ASSUME pc[d] = "copy"
        PROVE  copy[d].to # 0 /\ from'[copy[d].to] = d /\ Copying(tree', closed', src[d], copy[d])
    <2>1. copy[d].to # 0 /\ from[copy[d].to] = d /\ Copying(tree, closed, src[d], copy[d])
      BY <1>5 DEF Making
    <2>2. copy[d].to \in DOMAIN tree \ {0}
      BY <1>2, <1>5, <2>1 DEF CallerOK, CopyOK
    <2>3. tree'[copy[d].to].data = tree[copy[d].to].data /\ PathIn(tree', copy[d].to) = PathIn(tree, copy[d].to)
          /\ (copy[d].to \in closed' => copy[d].to \in closed) /\ from'[copy[d].to] = d
      BY <2>1, <2>2 DEF Ours
    <2>4. QED
      BY <2>1, <2>3 DEF Copying
  <1>6. QED
    BY <1>1, <1>3, <1>4, <1>5 DEF Making

-----------------------------------------------------------------------------
(* How the steps keep AllMaking                                             *)

\* A step that leaves the tree and closes only a stream of c.
LEMMA OursStands ==
    ASSUME Built, NEW c \in Callers, UNCHANGED <<tree, from>>, closed \subseteq closed',
           \A id \in closed' \ closed : id = 0 \/ from[id] = c
    PROVE  Ours(c)
  BY DEF Ours, Alike

\* A step that changes only the frames of c.
LEMMA MakingStands ==
    ASSUME NEW c \in Callers, Making(c), UNCHANGED <<src, tree, from, closed>>, pc'[c] # "copy",
           \A j \in DOMAIN stack'[c] : \E d \in DOMAIN src[c] : FrameFor(tree, src[c], stack'[c][j], d)
    PROVE  Making(c)'
  BY DEF Making

\* A step of c that keeps Making(c) keeps it of all calls.
LEMMA MakingKept ==
    ASSUME Built, AllMaking, NEW c \in Callers, Moves(c), Ours(c), Making(c)',
           sealed' => Streams' \subseteq closed'
    PROVE  AllMaking'
  <1>1. ASSUME NEW d \in Callers PROVE Making(d)'
    <2>1. CASE d = c
      BY <2>1
    <2>2. CASE d # c
      <3>1. Making(d) /\ d \in Callers \ {c}
        BY <2>2 DEF AllMaking
      <3>2. QED
        BY <3>1, OthersMake
    <2>3. QED
      BY <2>1, <2>2
  <1>2. QED
    BY <1>1 DEF AllMaking

\* A step that changes but the frames, and does not begin a copy.
LEMMA MakingFrames ==
    ASSUME Built, AllMaking, NEW c \in Callers, Moves(c), UNCHANGED <<src, tree, from, closed, sealed>>,
           pc'[c] # "copy",
           \A j \in DOMAIN stack'[c] : \E d \in DOMAIN src[c] : FrameFor(tree, src[c], stack'[c][j], d)
    PROVE  AllMaking'
  <1>1. Ours(c)
    BY OursStands
  <1>2. Making(c)'
    BY MakingStands DEF AllMaking
  <1>3. sealed' => Streams' \subseteq closed'
    BY DEF AllMaking, Streams
  <1>4. QED
    BY <1>1, <1>2, <1>3, MakingKept

\* AddFS keeps AllMaking when it begins: the first frame is of both roots.
LEMMA MakingBegin ==
    ASSUME Built, AllMaking, NEW c \in Callers, Begin(c)
    PROVE  AllMaking'
  <1> DEFINE f == [dir |-> <<Dot>>, at |-> 0, left |-> <<>>]
  <1>1. AddFSTypeOK /\ IsTree(tree) /\ IsTree(src[c])
    BY SourceIs DEF Built, AddFSTypeOK
  <1>2. f.dir = <<Dot>> /\ f.at = 0 /\ Range(f.left) = {}
    BY DEF Range
  <1>3. stack' = [stack EXCEPT ![c] = <<f>>] /\ pc' = [pc EXCEPT ![c] = "readdir"]
        /\ UNCHANGED <<src, tree, from, closed, sealed, copy>>
    BY DEF Begin, Goto
  <1> HIDE DEF f
  <1>4. FrameFor(tree, src[c], f, 0) /\ 0 \in DOMAIN src[c]
    <2>1. PathIn(tree, 0) = <<>> /\ PathIn(src[c], 0) = <<>>
      BY <1>1, PathOf
    <2>2. src[c][0].kind = "storage"
      BY <1>1 DEF IsTree
    <2>3. QED
      BY <1>1, <1>2, <2>1, <2>2, TreeShape DEF FrameFor, Dir
  <1>5. DOMAIN <<f>> = {1} /\ <<f>>[1] = f
    OBVIOUS
  <1>6. stack'[c] = <<f>> /\ pc'[c] = "readdir" /\ Moves(c)
    BY <1>1, <1>3 DEF AddFSTypeOK, Moves
  <1>7. \A j \in DOMAIN stack'[c] : \E d \in DOMAIN src[c] : FrameFor(tree, src[c], stack'[c][j], d)
    BY <1>4, <1>5, <1>6
  <1>8. QED
    BY <1>3, <1>6, <1>7, MakingFrames

\* A storage that is read is the one that the frame on top is for.
LEMMA ReadStorageIs ==
    ASSUME Built, NoDotInRoot, NEW c \in Callers, Making(c), ReadStorage(c), pc'[c] # "error"
    PROVE  /\ stack[c] # <<>> /\ pc'[c] = "next" /\ DOMAIN stack'[c] = DOMAIN stack[c]
           /\ Len(stack[c]) \in DOMAIN stack[c]
           /\ \A j \in DOMAIN stack[c] \ {Len(stack[c])} : stack'[c][j] = stack[c][j]
           /\ \E d \in DOMAIN src[c] :
                /\ FrameFor(tree, src[c], Top(c), d)
                /\ FrameFor(tree, src[c], stack'[c][Len(stack[c])], d)
                /\ Range(stack'[c][Len(stack[c])].left) = Range(src[c][d].children)
  <1>1. AddFSTypeOK /\ CallerOK(tree, src[c], pc[c], stack[c], copy[c])
    BY DEF Built
  <1>2. IsSource(src[c]) /\ IsTree(src[c]) /\ RootClear(src[c])
    BY <1>1, SourceIs DEF NoDotInRoot
  <1>3. pc[c] = "readdir" /\ stack[c] # <<>>
    BY <1>1 DEF CallerOK, Busy, ReadStorage
  <1>4. pc' # [pc EXCEPT ![c] = "error"]
    BY <1>1 DEF AddFSTypeOK
  <1>5. PICK o \in DOMAIN src[c] :
           /\ o = Open(src[c], Top(c).dir) /\ src[c][o].kind = "storage"
           /\ \E f \in Frames :
                /\ f.dir = Top(c).dir /\ f.at = Top(c).at /\ Range(f.left) = Range(src[c][o].children)
                /\ stack' = [stack EXCEPT ![c] = [@ EXCEPT ![Len(stack[c])] = f]]
    BY <1>1, <1>3, <1>4, ReadStorageDoes
  <1>6. PICK f \in Frames :
           /\ f.dir = Top(c).dir /\ f.at = Top(c).at /\ Range(f.left) = Range(src[c][o].children)
           /\ stack' = [stack EXCEPT ![c] = [@ EXCEPT ![Len(stack[c])] = f]]
    BY <1>5
  <1>7. pc'[c] = "next"
    <2>1. pc' = [pc EXCEPT ![c] = "next"]
      BY <1>1, <1>3, <1>4, ReadStorageDoes
    <2>2. QED
      BY <1>1, <2>1 DEF AddFSTypeOK
  <1>8. Len(stack[c]) \in DOMAIN stack[c]
    BY <1>1, <1>3, TopIs
  <1>9. /\ DOMAIN stack'[c] = DOMAIN stack[c] /\ stack'[c][Len(stack[c])] = f
        /\ \A j \in DOMAIN stack[c] \ {Len(stack[c])} : stack'[c][j] = stack[c][j]
    <2>1. stack'[c] = [stack[c] EXCEPT ![Len(stack[c])] = f]
      BY <1>1, <1>6 DEF AddFSTypeOK
    <2>2. QED
      BY <1>8, <2>1
  <1>10. PICK d \in DOMAIN src[c] : FrameFor(tree, src[c], Top(c), d)
    BY <1>8 DEF Making, Top
  <1>11. o = d
    <2>1. o \in Nat
      BY <1>2, TreeShape
    <2>2. o # NoEntry
      BY <2>1 DEF NoEntry
    <2>3. o = Open(src[c], Dir(PathIn(src[c], d))) /\ src[c][d].kind = "storage"
      BY <1>5, <1>10 DEF FrameFor
    <2>4. QED
      BY <1>2, <1>5, <2>2, <2>3, SourceDir
  <1>12. FrameFor(tree, src[c], f, d)
    BY <1>6, <1>10, <1>11 DEF FrameFor
  <1>13. QED
    BY <1>3, <1>6, <1>7, <1>8, <1>9, <1>10, <1>11, <1>12

\* So does fs.ReadDir: what Open gives for the path of a storage is the storage.
LEMMA MakingReadStorage ==
    ASSUME Built, AllMaking, NoDotInRoot, NEW c \in Callers, ReadStorage(c)
    PROVE  AllMaking'
  <1>1. AddFSTypeOK /\ CallerOK(tree, src[c], pc[c], stack[c], copy[c]) /\ Making(c)
    BY DEF Built, AllMaking
  <1>2. pc[c] = "readdir" /\ stack[c] # <<>>
    BY <1>1 DEF CallerOK, Busy, ReadStorage
  <1>3. Moves(c) /\ UNCHANGED <<src, tree, from, closed, sealed, copy, fsVars>>
    BY <1>1, <1>2, ReadStorageDoes
  <1>4. CASE pc'[c] = "error"
    <2>1. pc' = [pc EXCEPT ![c] = "error"] /\ stack' = stack
      BY <1>1, <1>2, <1>4, ReadStorageDoes DEF AddFSTypeOK
    <2>2. \A j \in DOMAIN stack'[c] : \E d \in DOMAIN src[c] : FrameFor(tree, src[c], stack'[c][j], d)
      BY <1>1, <2>1 DEF Making
    <2>3. QED
      BY <1>3, <1>4, <2>2, MakingFrames
  <1>5. CASE pc'[c] # "error"
    <2>1. /\ pc'[c] = "next" /\ DOMAIN stack'[c] = DOMAIN stack[c]
          /\ \A j \in DOMAIN stack[c] \ {Len(stack[c])} : stack'[c][j] = stack[c][j]
      BY <1>1, <1>5, ReadStorageIs
    <2>2. PICK d \in DOMAIN src[c] : FrameFor(tree, src[c], stack'[c][Len(stack[c])], d)
      BY <1>1, <1>5, ReadStorageIs
    <2>3. \A j \in DOMAIN stack'[c] : \E x \in DOMAIN src[c] : FrameFor(tree, src[c], stack'[c][j], x)
      BY <1>1, <2>1, <2>2 DEF Making
    <2>4. QED
      BY <1>3, <2>1, <2>3, MakingFrames
  <1>6. QED
    BY <1>4, <1>5

\* So does an error before an entry is created.
LEMMA MakingNotAdded ==
    ASSUME Built, AllMaking, NEW c \in Callers, NotAdded(c) \/ SourceFails(c)
    PROVE  AllMaking'
  <1>1. AddFSTypeOK /\ Making(c)
    BY DEF Built, AllMaking
  <1>2. pc' = [pc EXCEPT ![c] = "error"] /\ UNCHANGED <<src, tree, from, closed, sealed, stack, copy>>
    BY DEF NotAdded, SourceFails, Goto
  <1>3. Moves(c) /\ pc'[c] = "error"
    BY <1>1, <1>2 DEF Moves, AddFSTypeOK
  <1>4. QED
    BY <1>1, <1>2, <1>3, MakingFrames DEF Making

\* So does the return of addFSDir.
LEMMA MakingEndStorage ==
    ASSUME Built, AllMaking, NEW c \in Callers, EndStorage(c)
    PROVE  AllMaking'
  <1>1. AddFSTypeOK /\ Making(c)
    BY DEF Built, AllMaking
  <1>2. /\ Moves(c) /\ UNCHANGED <<src, tree, from, closed, sealed, copy, fsVars>> /\ stack[c] # <<>>
        /\ pc' = [pc EXCEPT ![c] = IF Len(stack[c]) = 1 THEN "ok" ELSE "next"]
        /\ stack'[c] = Below(c)
    BY EndStorageDoes
  <1>3. /\ Below(c) \in Seq(Frames) /\ Len(Below(c)) = Len(stack[c]) - 1
        /\ DOMAIN stack[c] = 1 .. Len(stack[c])
        /\ \A j \in 1 .. Len(stack[c]) - 1 : Below(c)[j] = stack[c][j]
    BY <1>1, <1>2, TopIs
  <1>4. \A j \in DOMAIN Below(c) : j \in 1 .. Len(stack[c]) - 1 /\ j \in DOMAIN stack[c]
    BY <1>3
  <1>5. \A j \in DOMAIN stack'[c] : \E d \in DOMAIN src[c] : FrameFor(tree, src[c], stack'[c][j], d)
    BY <1>1, <1>2, <1>3, <1>4 DEF Making
  <1>6. pc'[c] # "copy"
    BY <1>1, <1>2 DEF AddFSTypeOK
  <1>7. QED
    BY <1>2, <1>5, <1>6, MakingFrames

\* The entry that is begun, and its path.
LEMMA BegunIs ==
    ASSUME Built, NoDotInRoot, NEW c \in Callers, Making(c), stack[c] # <<>>, Top(c).left # <<>>
    PROVE  \E d \in DOMAIN src[c], e \in DOMAIN src[c] \ {0} :
              /\ FrameFor(tree, src[c], Top(c), d) /\ e \in Range(src[c][d].children)
              /\ e = Head(Top(c).left) /\ Entry(c) = src[c][e]
              /\ Join(Top(c).dir, Entry(c).name) = PathIn(src[c], e)
              /\ Append(PathIn(tree, Top(c).at), Entry(c).name) = PathIn(src[c], e)
  <1>1. AddFSTypeOK /\ IsTree(src[c]) /\ RootClear(src[c])
    BY SourceIs DEF Built, NoDotInRoot
  <1>2. PICK d \in DOMAIN src[c] : FrameFor(tree, src[c], Top(c), d)
    BY <1>1, TopIs DEF Making, Top
  <1>3. PICK e : e = Head(Top(c).left)
    OBVIOUS
  <1>4. e \in Range(src[c][d].children)
    BY <1>1, <1>2, <1>3, PassedIs DEF FrameFor
  <1>5. e \in DOMAIN src[c] \ {0} /\ Entry(c) = src[c][e]
    BY <1>3, EntryIs
  <1>6. Join(Top(c).dir, Entry(c).name) = PathIn(src[c], e)
    BY <1>1, <1>2, <1>4, <1>5, SourceJoin DEF FrameFor
  <1>7. Append(PathIn(tree, Top(c).at), Entry(c).name) = PathIn(src[c], e)
    <2>1. Parent(src[c], e) = d
      BY <1>1, <1>4, TreeChild
    <2>2. PathIn(src[c], e) = Append(PathIn(src[c], d), src[c][e].name)
      BY <1>1, <1>5, <2>1, PathOf
    <2>3. QED
      BY <1>2, <1>5, <2>2 DEF FrameFor
  <1>8. QED
    BY <1>2, <1>3, <1>4, <1>5, <1>6, <1>7

\* The frames when it is begun.
LEMMA BegunFrames ==
    ASSUME Built, NEW c \in Callers, Making(c), stack[c] # <<>>, Top(c).left # <<>>,
           \A id \in DOMAIN tree : PathIn(tree', id) = PathIn(tree, id),
           NEW s, \A j \in 1 .. Len(stack[c]) - 1 : s[j] = stack[c][j], s[Len(stack[c])] = Passed(c)
    PROVE  \A j \in 1 .. Len(stack[c]) : \E d \in DOMAIN src[c] : FrameFor(tree', src[c], s[j], d)
  <1>1. AddFSTypeOK /\ CallerOK(tree, src[c], pc[c], stack[c], copy[c])
    BY DEF Built
  <1>2. PICK n \in Nat \ {0} : n = Len(stack[c]) /\ DOMAIN stack[c] = 1 .. n
    BY <1>1, TopIs
  <1>3. \A j \in 1 .. n : PathIn(tree', stack[c][j].at) = PathIn(tree, stack[c][j].at)
    BY <1>1, <1>2 DEF CallerOK, FrameOK
  <1>4. ASSUME NEW j \in 1 .. n PROVE \E d \in DOMAIN src[c] : FrameFor(tree', src[c], s[j], d)
    <2>1. PICK d \in DOMAIN src[c] : FrameFor(tree, src[c], stack[c][j], d)
      BY <1>2 DEF Making
    <2>2. FrameFor(tree', src[c], stack[c][j], d)
      BY <1>3, <2>1 DEF FrameFor
    <2>3. CASE j = n
      <3>1. s[j] = Passed(c) /\ stack[c][j] = Top(c)
        BY <1>2, <2>3 DEF Top
      <3>2. Passed(c).dir = Top(c).dir /\ Passed(c).at = Top(c).at /\ Range(Passed(c).left) \subseteq Range(Top(c).left)
        BY <1>1, PassedIs
      <3>3. QED
        BY <2>2, <3>1, <3>2 DEF FrameFor
    <2>4. CASE j # n
      <3>1. j \in 1 .. Len(stack[c]) - 1
        BY <1>2, <2>4
      <3>2. QED
        BY <2>2, <3>1
    <2>5. QED
      BY <2>3, <2>4
  <1>5. QED
    BY <1>2, <1>4

\* An entry that c creates is its own.
LEMMA OursCreated ==
    ASSUME Built, NEW c \in Callers, NEW at, NEW entry, Created(c, at, entry), closed' = closed
    PROVE  Ours(c)
  BY DEF Created, Ours

\* The entries of a call, when it has created one more.
LEMMA CreatedMade ==
    ASSUME Built, NEW c \in Callers, Making(c), NEW at, NEW entry, Created(c, at, entry), closed' = closed,
           NEW e \in DOMAIN src[c] \ {0}, Append(PathIn(tree, at), entry.name) = PathIn(src[c], e),
           entry.kind = src[c][e].kind
    PROVE  \A id \in DOMAIN tree' \ {0} : from'[id] = c =>
              \E x \in DOMAIN src[c] \ {0} : MadeFrom(tree', closed', src[c], id, x)
  <1>1. closed \subseteq DOMAIN tree
    BY DEF Built, AddFSTypeOK
  <1>2. SUFFICES ASSUME NEW id \in DOMAIN tree' \ {0}, from'[id] = c
                 PROVE  \E x \in DOMAIN src[c] \ {0} : MadeFrom(tree', closed', src[c], id, x)
    OBVIOUS
  <1>3. CASE id = NewId
    <2>1. MadeFrom(tree', closed', src[c], id, e)
      BY <1>1, <1>3 DEF MadeFrom, Created
    <2>2. QED
      BY <2>1
  <1>4. CASE id # NewId
    <2>1. id \in DOMAIN tree \ {0} /\ from[id] = c
      BY <1>2, <1>4 DEF Created
    <2>2. PICK x \in DOMAIN src[c] \ {0} : MadeFrom(tree, closed, src[c], id, x)
      BY <2>1 DEF Making
    <2>3. MadeFrom(tree', closed', src[c], id, x)
      BY <2>1, <2>2 DEF MadeFrom, Created, Alike
    <2>4. QED
      BY <2>3
  <1>5. QED
    BY <1>3, <1>4

(* So does CreateStorage: the paths of the new storage and of the one that  *)
(* it is made from are the same.                                            *)
LEMMA MakingAddStorage ==
    ASSUME Built, AllMaking, NoDotInRoot, NEW c \in Callers, AddStorage(c)
    PROVE  AllMaking'
  <1>1. AddFSTypeOK /\ Making(c) /\ IsTree(src[c])
    BY SourceIs DEF Built, AllMaking
  <1>2. /\ Moves(c) /\ UNCHANGED <<src, closed, sealed, copy, fsVars>>
        /\ pc' = [pc EXCEPT ![c] = "readdir"]
        /\ stack[c] # <<>> /\ Top(c).left # <<>> /\ Entry(c).kind = "storage" /\ ~sealed
        /\ Created(c, Top(c).at, Storage(Entry(c).name, <<>>))
    BY AddStorageDoes
  <1>3. PICK s \in Seq(Frames) : s = stack'[c]
    BY AddStorageDoes
  <1>4. PICK n \in Nat \ {0} : n = Len(stack[c])
    BY <1>1, <1>2, TopIs
  <1>5. Len(s) = n + 1 /\ s[n] = Passed(c)
    BY <1>3, <1>4, AddStorageDoes
  <1>6. \A j \in 1 .. n - 1 : s[j] = stack[c][j]
    BY <1>3, <1>4, AddStorageDoes
  <1>7. s[n + 1] = [dir |-> Join(Top(c).dir, Entry(c).name), at |-> NewId, left |-> <<>>]
    BY <1>3, <1>4, AddStorageDoes
  <1>8. PICK d \in DOMAIN src[c], e \in DOMAIN src[c] \ {0} :
           /\ e \in Range(src[c][d].children) /\ Entry(c) = src[c][e]
           /\ Join(Top(c).dir, Entry(c).name) = PathIn(src[c], e)
           /\ Append(PathIn(tree, Top(c).at), Entry(c).name) = PathIn(src[c], e)
    BY <1>1, <1>2, BegunIs
  <1>9. Storage(Entry(c).name, <<>>).name = Entry(c).name /\ Storage(Entry(c).name, <<>>).kind = src[c][e].kind
    BY <1>2, <1>8 DEF Storage
  <1>10. \A id \in DOMAIN tree' \ {0} : from'[id] = c =>
            \E x \in DOMAIN src[c] \ {0} : MadeFrom(tree', closed', src[c], id, x)
    BY <1>1, <1>2, <1>8, <1>9, CreatedMade
  <1>11. FrameFor(tree', src[c], s[n + 1], e)
    <2>1. PathIn(tree', NewId) = PathIn(src[c], e)
      BY <1>2, <1>8, <1>9 DEF Created
    <2>2. Dir(PathIn(src[c], e)) = PathIn(src[c], e)
      BY <1>1, PathNotEmpty DEF Dir
    <2>3. s[n + 1].dir = PathIn(src[c], e) /\ s[n + 1].at = NewId /\ Range(s[n + 1].left) = {}
      BY <1>7, <1>8 DEF Range
    <2>4. src[c][e].kind = "storage"
      BY <1>2, <1>8
    <2>5. QED
      BY <2>1, <2>2, <2>3, <2>4 DEF FrameFor
  <1>12. \A j \in DOMAIN s : \E x \in DOMAIN src[c] : FrameFor(tree', src[c], s[j], x)
    <2>1. \A j \in 1 .. n : \E x \in DOMAIN src[c] : FrameFor(tree', src[c], s[j], x)
      <3>1. \A id \in DOMAIN tree : PathIn(tree', id) = PathIn(tree, id)
        BY <1>2 DEF Created
      <3>2. \A j \in 1 .. Len(stack[c]) - 1 : s[j] = stack[c][j]
        BY <1>4, <1>6
      <3>3. s[Len(stack[c])] = Passed(c)
        BY <1>4, <1>5
      <3>4. \A j \in 1 .. Len(stack[c]) : \E x \in DOMAIN src[c] : FrameFor(tree', src[c], s[j], x)
        BY <1>1, <1>2, <3>1, <3>2, <3>3, BegunFrames
      <3>5. QED
        BY <1>4, <3>4
    <2>2. \A j \in DOMAIN s : j \in 1 .. n \/ j = n + 1
      BY <1>5
    <2>3. QED
      BY <1>11, <2>1, <2>2
  <1>13. pc'[c] # "copy"
    BY <1>1, <1>2 DEF AddFSTypeOK
  <1>14. Making(c)'
    BY <1>2, <1>3, <1>10, <1>12, <1>13 DEF Making
  <1>15. Ours(c)
    BY <1>2, OursCreated
  <1>16. QED
    BY <1>2, <1>14, <1>15, MakingKept

(* So does CreateStream: a file that is opened by the path of the new       *)
(* stream, if it is one, is the one listed.                                 *)
LEMMA MakingAddStream ==
    ASSUME Built, AllMaking, NoDotInRoot, NEW c \in Callers, AddStream(c)
    PROVE  AllMaking'
  <1>1. AddFSTypeOK /\ Making(c) /\ IsSource(src[c]) /\ IsTree(src[c])
    BY SourceIs DEF Built, AllMaking
  <1>2. /\ Moves(c) /\ UNCHANGED <<src, closed, sealed, fsVars>>
        /\ pc' = [pc EXCEPT ![c] = "copy"]
        /\ stack[c] # <<>> /\ Top(c).left # <<>> /\ Entry(c).kind = "stream" /\ ~sealed
        /\ Created(c, Top(c).at, Stream(Entry(c).name, <<>>))
    BY AddStreamDoes
  <1>3. PICK s \in Seq(Frames) : s = stack'[c]
    BY AddStreamDoes
  <1>4. PICK n \in Nat \ {0} : n = Len(stack[c])
    BY <1>1, <1>2, TopIs
  <1>5. Len(s) = n /\ s[n] = Passed(c)
    BY <1>3, <1>4, AddStreamDoes
  <1>6. \A j \in 1 .. n - 1 : s[j] = stack[c][j]
    BY <1>3, <1>4, AddStreamDoes
  <1>7. PICK file \in DOMAIN src[c] :
           /\ file = Open(src[c], Join(Top(c).dir, Entry(c).name)) /\ file # NoEntry
           /\ copy' = [copy EXCEPT ![c] = [to |-> NewId, file |-> file, pos |-> 0]]
    BY AddStreamDoes
  <1>8. PICK d \in DOMAIN src[c], e \in DOMAIN src[c] \ {0} :
           /\ e \in Range(src[c][d].children) /\ Entry(c) = src[c][e]
           /\ Join(Top(c).dir, Entry(c).name) = PathIn(src[c], e)
           /\ Append(PathIn(tree, Top(c).at), Entry(c).name) = PathIn(src[c], e)
    BY <1>1, <1>2, BegunIs
  <1>9. Stream(Entry(c).name, <<>>).name = Entry(c).name /\ Stream(Entry(c).name, <<>>).kind = src[c][e].kind
    BY <1>2, <1>8 DEF Stream
  <1>10. \A id \in DOMAIN tree' \ {0} : from'[id] = c =>
            \E x \in DOMAIN src[c] \ {0} : MadeFrom(tree', closed', src[c], id, x)
    BY <1>1, <1>2, <1>8, <1>9, CreatedMade
  <1>11. \A j \in DOMAIN s : \E x \in DOMAIN src[c] : FrameFor(tree', src[c], s[j], x)
    <2>1. \A id \in DOMAIN tree : PathIn(tree', id) = PathIn(tree, id)
      BY <1>2 DEF Created
    <2>2. \A j \in 1 .. Len(stack[c]) - 1 : s[j] = stack[c][j]
      BY <1>4, <1>6
    <2>3. s[Len(stack[c])] = Passed(c)
      BY <1>4, <1>5
    <2>4. \A j \in 1 .. Len(stack[c]) : \E x \in DOMAIN src[c] : FrameFor(tree', src[c], s[j], x)
      BY <1>1, <1>2, <2>1, <2>2, <2>3, BegunFrames
    <2>5. DOMAIN s = 1 .. Len(stack[c])
      BY <1>4, <1>5
    <2>6. QED
      BY <2>4, <2>5
  <1>12. copy'[c] = [to |-> NewId, file |-> file, pos |-> 0]
    BY <1>1, <1>7 DEF AddFSTypeOK
  <1>13. NewId \notin closed /\ NewId # 0 /\ from'[NewId] = c /\ tree'[NewId].data = <<>>
         /\ PathIn(tree', NewId) = PathIn(src[c], e)
    BY <1>1, <1>2, <1>8, <1>9 DEF Created, AddFSTypeOK, Stream
  <1>14. src[c][file].kind = "stream" => file = e
    <2>1. SUFFICES ASSUME src[c][file].kind = "stream" PROVE file = e
      OBVIOUS
    <2>2. src[c][e].kind = "stream"
      BY <1>2, <1>8
    <2>3. QED
      BY <1>1, <1>7, <1>8, <2>1, <2>2, SourceOpens
  <1>15. Begins(<<>>, src[c][file].data, 0)
    BY DEF Begins
  <1>16. Copying(tree', closed', src[c], copy'[c])
    BY <1>2, <1>12, <1>13, <1>14, <1>15 DEF Copying
  <1>17. Making(c)'
    BY <1>2, <1>3, <1>10, <1>11, <1>12, <1>13, <1>16 DEF Making
  <1>18. Ours(c)
    BY <1>2, OursCreated
  <1>19. QED
    BY <1>2, <1>17, <1>18, MakingKept

\* A call copies to a stream of its own.
LEMMA OursCopyChunk ==
    ASSUME Built, NEW c \in Callers, Making(c), CopyChunk(c)
    PROVE  Ours(c)
  <1>1. UNCHANGED <<from, closed>> /\ pc[c] = "copy" /\ Alike(tree, tree') /\ DOMAIN tree' = DOMAIN tree
    BY CopyChunkDoes
  <1>2. \A id \in DOMAIN tree : PathIn(tree', id) = PathIn(tree, id)
    BY CopyChunkDoes
  <1>3. \A id \in DOMAIN tree \ {copy[c].to} : tree'[id].data = tree[id].data
    BY CopyChunkDoes
  <1>4. from[copy[c].to] = c
    BY <1>1 DEF Making
  <1>5. QED
    BY <1>1, <1>2, <1>3, <1>4 DEF Ours

\* So does a turn of io.Copy: the next bytes of the file follow those the stream has.
LEMMA MakingCopyChunk ==
    ASSUME Built, AllMaking, NEW c \in Callers, CopyChunk(c)
    PROVE  AllMaking'
  <1>1. AddFSTypeOK /\ CallerOK(tree, src[c], pc[c], stack[c], copy[c]) /\ Making(c)
    BY DEF Built, AllMaking
  <1>2. /\ Moves(c) /\ UNCHANGED <<src, from, closed, sealed, pc, stack, fsVars>> /\ pc[c] = "copy"
        /\ Alike(tree, tree') /\ DOMAIN tree' = DOMAIN tree
    BY CopyChunkDoes
  <1>3. \A id \in DOMAIN tree : PathIn(tree', id) = PathIn(tree, id)
    BY CopyChunkDoes
  <1>4. \A id \in DOMAIN tree \ {copy[c].to} : tree'[id].data = tree[id].data
    BY CopyChunkDoes
  <1>5. PICK to, file, pos : to = copy[c].to /\ file = copy[c].file /\ pos = copy[c].pos /\ pos \in Nat
    BY <1>1 DEF AddFSTypeOK, Copies
  <1>6. PICK data \in Seq(Nat) : data = src[c][file].data
    BY <1>5, CopyChunkDoes
  <1>7. PICK k \in Nat :
           /\ pos + k <= Len(data) /\ tree'[to].data = tree[to].data \o SubSeq(data, pos + 1, pos + k)
           /\ copy' = [copy EXCEPT ![c] = [copy[c] EXCEPT !.pos = pos + k]]
    BY <1>5, <1>6, CopyChunkDoes
  <1>8. /\ to \in DOMAIN tree \ {0} /\ from[to] = c /\ to \notin closed /\ Begins(tree[to].data, data, pos)
        /\ src[c][file].kind = "stream" => PathIn(tree, to) = PathIn(src[c], file)
    BY <1>1, <1>2, <1>5, <1>6 DEF Making, Copying, CallerOK, CopyOK
  <1>9. copy'[c].to = to /\ copy'[c].file = file /\ copy'[c].pos = pos + k
    <2>1. PICK m \in Copies : m = copy[c]
      BY <1>1 DEF AddFSTypeOK
    <2>2. copy'[c] = [m EXCEPT !.pos = pos + k]
      BY <1>1, <1>7, <2>1 DEF AddFSTypeOK
    <2>3. QED
      BY <1>5, <2>1, <2>2 DEF Copies
  <1>10. Begins(tree'[to].data, data, pos + k)
    <2>1. PICK old, more : old = tree[to].data /\ more = tree'[to].data
      OBVIOUS
    <2>2. Begins(old, data, pos) /\ more = old \o SubSeq(data, pos + 1, pos + k)
      BY <1>7, <1>8, <2>1, Zenon
    <2>3. Begins(more, data, pos + k)
      BY <1>5, <1>7, <2>2, GivesMore
    <2>4. QED
      BY <2>1, <2>3
  <1>11. Copying(tree', closed', src[c], copy'[c])
    BY <1>2, <1>3, <1>6, <1>8, <1>9, <1>10 DEF Copying
  <1>12. ASSUME NEW id \in DOMAIN tree' \ {0}, from'[id] = c
         PROVE  \E e \in DOMAIN src[c] \ {0} : MadeFrom(tree', closed', src[c], id, e)
    <2>1. id \in DOMAIN tree \ {0} /\ from[id] = c
      BY <1>2, <1>12
    <2>2. PICK e \in DOMAIN src[c] \ {0} : MadeFrom(tree, closed, src[c], id, e)
      BY <1>1, <2>1 DEF Making
    <2>3. id \in closed => tree'[id].data = tree[id].data
      BY <1>4, <1>5, <1>8, <2>1
    <2>4. MadeFrom(tree', closed', src[c], id, e)
      BY <1>2, <1>3, <2>1, <2>2, <2>3 DEF MadeFrom, Alike
    <2>5. QED
      BY <2>4
  <1>13. ASSUME NEW j \in DOMAIN stack[c]
         PROVE  \E d \in DOMAIN src[c] : FrameFor(tree', src[c], stack[c][j], d)
    <2>1. PICK d \in DOMAIN src[c] : FrameFor(tree, src[c], stack[c][j], d)
      BY <1>1 DEF Making
    <2>2. stack[c][j].at \in DOMAIN tree
      BY <1>1 DEF CallerOK, FrameOK
    <2>3. FrameFor(tree', src[c], stack[c][j], d)
      BY <1>3, <2>1, <2>2 DEF FrameFor
    <2>4. QED
      BY <2>3
  <1>14. Making(c)'
    BY <1>2, <1>8, <1>9, <1>11, <1>12, <1>13 DEF Making
  <1>15. Ours(c)
    BY <1>1, OursCopyChunk
  <1>16. sealed' => Streams' \subseteq closed'
    <2>1. Streams' = Streams
      BY <1>2 DEF Streams, Alike
    <2>2. QED
      BY <1>2, <2>1 DEF AllMaking
  <1>17. QED
    BY <1>2, <1>14, <1>15, <1>16, MakingKept

\* So does a failed copy: its stream stays open.
LEMMA MakingCopyFails ==
    ASSUME Built, AllMaking, NEW c \in Callers, CopyFails(c)
    PROVE  AllMaking'
  <1>1. AddFSTypeOK /\ Making(c)
    BY DEF Built, AllMaking
  <1>2. /\ pc' = [pc EXCEPT ![c] = "error"] /\ copy' = [copy EXCEPT ![c] = NoCopy]
        /\ UNCHANGED <<src, tree, from, closed, sealed, stack>>
    BY DEF CopyFails, Goto, LeftOpen
  <1>3. Moves(c) /\ pc'[c] = "error"
    BY <1>1, <1>2 DEF Moves, AddFSTypeOK
  <1>4. QED
    BY <1>1, <1>2, <1>3, MakingFrames DEF Making

\* So does io.EOF: the stream that is closed has all of the file.
LEMMA MakingCloseStream ==
    ASSUME Built, AllMaking, NEW c \in Callers, CloseStream(c)
    PROVE  AllMaking'
  <1>1. AddFSTypeOK /\ CallerOK(tree, src[c], pc[c], stack[c], copy[c]) /\ Making(c) /\ IsTree(src[c])
    BY SourceIs DEF Built, AllMaking
  <1>2. /\ pc[c] = "copy" /\ src[c][copy[c].file].kind = "stream" /\ Rest(c) = <<>>
        /\ pc' = [pc EXCEPT ![c] = "next"] /\ copy' = [copy EXCEPT ![c] = NoCopy]
        /\ closed' = closed \cup {copy[c].to} /\ UNCHANGED <<src, tree, from, sealed, stack>>
    BY DEF CloseStream, Goto
  <1>3. PICK to, file, pos : to = copy[c].to /\ file = copy[c].file /\ pos = copy[c].pos /\ pos \in Nat
    BY <1>1 DEF AddFSTypeOK, Copies
  <1>4. Moves(c) /\ pc'[c] = "next"
    BY <1>1, <1>2 DEF Moves, AddFSTypeOK
  <1>5. /\ file \in DOMAIN src[c] /\ to \in DOMAIN tree \ {0} /\ from[to] = c /\ tree[to].kind = "stream"
        /\ PathIn(tree, to) = PathIn(src[c], file) /\ pos <= Len(src[c][file].data)
        /\ Begins(tree[to].data, src[c][file].data, pos)
    BY <1>1, <1>2, <1>3 DEF Making, Copying, CallerOK, CopyOK
  <1>6. file # 0
    BY <1>1, <1>2, <1>3 DEF IsTree
  <1>7. tree[to].data = src[c][file].data
    <2>1. PICK data \in Seq(Nat) : data = src[c][file].data
      <3>1. src[c][file] \in Entries
        BY <1>1, <1>5, TreeShape
      <3>2. QED
        BY <3>1 DEF Entries
    <2>2. pos \in Nat /\ pos <= Len(data) /\ Len(data) \in Nat
      BY <1>3, <1>5, <2>1
    <2>3. Len(SubSeq(data, pos + 1, Len(data))) = Len(data) - pos
      BY <2>2, Slice
    <2>4. pos = Len(data)
      <3>1. SubSeq(data, pos + 1, Len(data)) = <<>>
        BY <1>2, <1>3, <2>1 DEF Rest
      <3>2. Len(data) - pos = 0
        BY <2>3, <3>1
      <3>3. QED
        BY <2>2, <3>2
    <2>5. tree[to].data \in Seq(Nat) /\ Len(tree[to].data) = Len(data)
          /\ \A i \in 1 .. Len(data) : tree[to].data[i] = data[i]
      BY <1>5, <2>1, <2>4 DEF Begins
    <2>6. QED
      BY <2>1, <2>5, SameSeq
  <1>8. ASSUME NEW id \in DOMAIN tree \ {0}, from[id] = c
        PROVE  \E e \in DOMAIN src[c] \ {0} : MadeFrom(tree, closed', src[c], id, e)
    <2>1. CASE id = to
      <3>1. MadeFrom(tree, closed', src[c], id, file)
        BY <1>2, <1>3, <1>5, <1>7, <2>1 DEF MadeFrom
      <3>2. QED
        BY <1>5, <1>6, <3>1
    <2>2. CASE id # to
      <3>1. PICK e \in DOMAIN src[c] \ {0} : MadeFrom(tree, closed, src[c], id, e)
        BY <1>1, <1>8 DEF Making
      <3>2. MadeFrom(tree, closed', src[c], id, e)
        BY <1>2, <1>3, <2>2, <3>1 DEF MadeFrom
      <3>3. QED
        BY <3>2
    <2>3. QED
      BY <2>1, <2>2
  <1>9. Making(c)'
    BY <1>1, <1>2, <1>4, <1>8 DEF Making
  <1>10. Ours(c)
    BY <1>2, <1>3, <1>5, OursStands
  <1>11. sealed' => Streams' \subseteq closed'
    BY <1>2 DEF AllMaking, Streams
  <1>12. QED
    BY <1>4, <1>9, <1>10, <1>11, MakingKept

\* Every step keeps AllMaking: a Writer closes when every stream is closed.
LEMMA MakingNext ==
    ASSUME Built, AllMaking, NoDotInRoot, [AddFSNext]_vars
    PROVE  AllMaking'
  <1>1. ASSUME NEW c \in Callers, Begin(c) PROVE AllMaking'
    BY <1>1, MakingBegin
  <1>2. ASSUME NEW c \in Callers, Step(c) PROVE AllMaking'
    BY <1>2, MakingReadStorage, MakingAddStorage, MakingAddStream, MakingNotAdded, MakingEndStorage,
       MakingCopyChunk, MakingCloseStream DEF Step
  <1>3. ASSUME NEW c \in Callers, Failure(c) PROVE AllMaking'
    BY <1>3, MakingNotAdded, MakingCopyFails DEF Failure
  <1>4. CASE CloseWriter
    <2>1. UNCHANGED <<src, tree, from, closed, pc, stack, copy>> /\ Streams \subseteq closed
      BY <1>4 DEF CloseWriter
    <2>2. QED
      BY <2>1 DEF AllMaking, Making, Streams
  <1>5. CASE Client \/ UNCHANGED vars
    <2>1. UNCHANGED <<src, tree, from, closed, sealed, pc, stack, copy>>
      BY <1>5 DEF Client, vars
    <2>2. QED
      BY <2>1 DEF AllMaking, Making, Streams
  <1>6. QED
    BY <1>1, <1>2, <1>3, <1>4, <1>5 DEF AddFSNext

\* AllMaking holds before there are entries.
LEMMA MakingInit ==
    ASSUME AddFSInit
    PROVE  AllMaking
  BY DEF AddFSInit, AllMaking, Making

\* What is done in the tree has the data of the source.
LEMMA DoneAlike ==
    ASSUME NEW t, IsTree(t), NEW source, IsTree(source), NEW id \in DOMAIN t, NEW e \in DOMAIN source,
           NEW done, MadeFrom(t, done, source, id, e), t[id].kind = "stream" => id \in done
    PROVE  t[id].data = source[e].data
  <1>1. CASE t[id].kind = "stream"
    BY <1>1 DEF MadeFrom
  <1>2. CASE t[id].kind = "storage"
    BY <1>2 DEF MadeFrom, IsTree
  <1>3. t[id].kind \in {"storage", "stream"}
    BY TreeShape DEF Entries, Kinds
  <1>4. QED
    BY <1>1, <1>2, <1>3

\* So the streams of a call that are all closed are those of its source.
LEMMA AddedIsHeld ==
    ASSUME Built, NEW c \in Callers, Making(c),
           \A id \in DOMAIN tree \ {0} : from[id] = c /\ tree[id].kind = "stream" => id \in closed
    PROVE  AddedBy(c) \subseteq Held(c)
  <1>1. IsTree(tree) /\ IsTree(src[c])
    BY SourceIs DEF Built, AddFSTypeOK
  <1>2. SUFFICES ASSUME NEW id \in DOMAIN tree \ {0}, from[id] = c
                 PROVE  [path |-> PathIn(tree, id), kind |-> tree[id].kind, data |-> tree[id].data] \in Held(c)
    BY DEF AddedBy
  <1>3. PICK e \in DOMAIN src[c] \ {0} : MadeFrom(tree, closed, src[c], id, e)
    BY <1>2 DEF Making
  <1>4. tree[id].data = src[c][e].data
    BY <1>1, <1>2, <1>3, DoneAlike
  <1>5. PathIn(tree, id) = PathIn(src[c], e) /\ tree[id].kind = src[c][e].kind
    BY <1>3 DEF MadeFrom
  <1>6. QED
    BY <1>4, <1>5 DEF Held

\* Both invariants.
MakingBuilt == Built /\ AllMaking

\* AllMaking holds of every state.
LEMMA MakingAlways ==
    ASSUME NoDotInRoot
    PROVE  AddFSSpec => []MakingBuilt
  <1>1. AddFSInit => MakingBuilt
    BY BuiltInit, MakingInit DEF MakingBuilt
  <1>2. MakingBuilt /\ [AddFSNext]_vars => MakingBuilt'
    BY BuiltNext, MakingNext DEF MakingBuilt
  <1>3. QED
    BY <1>1, <1>2, PTL DEF AddFSSpec

(* SealedIsWhole: whatever calls of AddFS (writer.go) ran at the same time  *)
(* and whatever failed, a Writer that could be closed has for each entry    *)
(* the one it was made from, whole. No file system may have in its root a   *)
(* storage named ".", which AddFS would list without end.                   *)
THEOREM SealedWhole ==
    ASSUME NoDotInRoot
    PROVE  AddFSSpec => []SealedIsWhole
  <1>1. ASSUME MakingBuilt PROVE SealedIsWhole
    <2>1. SUFFICES ASSUME sealed, NEW c \in Callers PROVE AddedBy(c) \subseteq Held(c)
      BY DEF SealedIsWhole
    <2>2. Built /\ Making(c) /\ Streams \subseteq closed
      BY <1>1, <2>1 DEF MakingBuilt, AllMaking
    <2>3. \A id \in DOMAIN tree \ {0} : from[id] = c /\ tree[id].kind = "stream" => id \in closed
      BY <2>2 DEF Streams
    <2>4. QED
      BY <2>2, <2>3, AddedIsHeld
  <1>2. QED
    BY <1>1, MakingAlways, PTL

(* KeepsStructure: AddFS creates nothing that its file system has no path   *)
(* for, when no file system has in its root a storage named "."; the run    *)
(* add_fs_dot shows what happens to one that has.                           *)
THEOREM StructureKept ==
    ASSUME NoDotInRoot
    PROVE  AddFSSpec => []KeepsStructure
  <1>1. ASSUME MakingBuilt PROVE KeepsStructure
    <2>1. SUFFICES ASSUME NEW c \in Callers, NEW id \in DOMAIN tree \ {0}, from[id] = c
                   PROVE  PathIn(tree, id) \in {e.path : e \in Held(c)}
      BY DEF KeepsStructure, AddedBy
    <2>2. PICK e \in DOMAIN src[c] \ {0} : MadeFrom(tree, closed, src[c], id, e)
      BY <1>1, <2>1 DEF MakingBuilt, AllMaking, Making
    <2>3. PICK r : r = [path |-> PathIn(src[c], e), kind |-> src[c][e].kind, data |-> src[c][e].data]
      OBVIOUS
    <2>4. r \in Held(c) /\ r.path = PathIn(tree, id)
      BY <2>2, <2>3 DEF Held, MadeFrom
    <2>5. QED
      BY <2>4
  <1>2. QED
    BY <1>1, MakingAlways, PTL

-----------------------------------------------------------------------------
(* What a call of AddFS is still going to add                               *)

\* What a call has added stays, and so does what it is going to add.
LEMMA AddedStays ==
    ASSUME NEW c \in Callers, Ours(c), NEW source, NEW d \in Callers, NEW x, Added(tree, from, source, d, x)
    PROVE  Added(tree', from', source, d, x)
  <1>1. PICK id \in DOMAIN tree \ {0} :
           from[id] = d /\ PathIn(tree, id) = PathIn(source, x) /\ tree[id].kind = source[x].kind
    BY DEF Added
  <1>2. id \in DOMAIN tree' \ {0} /\ from'[id] = d /\ PathIn(tree', id) = PathIn(source, x)
        /\ tree'[id].kind = source[x].kind
    BY <1>1 DEF Ours, Alike
  <1>3. QED
    BY <1>2 DEF Added

\* Other calls add nothing for a call, nor does a step without a new entry.
LEMMA AddedBefore ==
    ASSUME NEW c \in Callers, Ours(c), NEW source, NEW d \in Callers, d # c \/ DOMAIN tree' = DOMAIN tree,
           NEW x, Added(tree', from', source, d, x)
    PROVE  Added(tree, from, source, d, x)
  <1>1. PICK id \in DOMAIN tree' \ {0} :
           from'[id] = d /\ PathIn(tree', id) = PathIn(source, x) /\ tree'[id].kind = source[x].kind
    BY DEF Added
  <1>2. id \in DOMAIN tree \ {0}
    BY <1>1 DEF Ours
  <1>3. from[id] = d /\ PathIn(tree, id) = PathIn(source, x) /\ tree[id].kind = source[x].kind
    BY <1>1, <1>2 DEF Ours, Alike
  <1>4. QED
    BY <1>2, <1>3 DEF Added

\* What c is going to add stays so whatever it creates.
LEMMA PendingStays ==
    ASSUME NEW c \in Callers, Ours(c), NEW source, NEW p, NEW s, NEW x, NEW y,
           \A j \in DOMAIN s : s[j].at \in DOMAIN tree, Pending(tree, source, p, s, x, y)
    PROVE  Pending(tree', source, p, s, x, y)
  <1>1. PICK j \in DOMAIN s : /\ FrameFor(tree, source, s[j], x)
                              /\ y \in Range(s[j].left) \/ (j = Len(s) /\ p = "readdir")
    BY DEF Pending
  <1>2. FrameFor(tree', source, s[j], x)
    BY <1>1 DEF FrameFor, Ours
  <1>3. QED
    BY <1>1, <1>2 DEF Pending

\* A step that adds nothing for d and takes nothing from its frames.
LEMMA ProgressStays ==
    ASSUME NEW c \in Callers, Ours(c), NEW source, NEW d \in Callers, d # c \/ DOMAIN tree' = DOMAIN tree,
           NEW p, NEW s, \A j \in DOMAIN s : s[j].at \in DOMAIN tree, Progress(tree, from, source, d, p, s)
    PROVE  Progress(tree', from', source, d, p, s)
  <1>1. SUFFICES ASSUME NEW x \in DOMAIN source, NEW y \in Range(source[x].children),
                        x = 0 \/ Added(tree', from', source, d, x)
                 PROVE  Added(tree', from', source, d, y) \/ Pending(tree', source, p, s, x, y)
    BY DEF Progress
  <1>2. x = 0 \/ Added(tree, from, source, d, x)
    BY <1>1, AddedBefore
  <1>3. Added(tree, from, source, d, y) \/ Pending(tree, source, p, s, x, y)
    BY <1>1, <1>2 DEF Progress
  <1>4. CASE Added(tree, from, source, d, y)
    BY <1>4, AddedStays
  <1>5. CASE Pending(tree, source, p, s, x, y)
    BY <1>5, PendingStays
  <1>6. QED
    BY <1>3, <1>4, <1>5

\* What another call has still to add is not disturbed.
LEMMA OthersReach ==
    ASSUME Built, NEW c \in Callers, Moves(c), Ours(c), NEW d \in Callers \ {c}, Reaching(d)
    PROVE  Reaching(d)'
  <1>1. src'[d] = src[d] /\ pc'[d] = pc[d] /\ stack'[d] = stack[d] /\ copy'[d] = copy[d]
    BY DEF Moves
  <1>2. \A id \in DOMAIN tree' \ {0} : from'[id] = d =>
           /\ id \in DOMAIN tree \ {0} /\ from[id] = d /\ tree'[id].kind = tree[id].kind
           /\ id \notin closed' => id \notin closed
    BY DEF Ours, Alike
  <1>3. pc[d] = "idle" => \A id \in DOMAIN tree' \ {0} : from'[id] # d
    BY <1>2 DEF Reaching
  <1>4. \A id \in DOMAIN tree' \ {0} : from'[id] = d /\ tree'[id].kind = "stream" /\ id \notin closed' =>
           pc[d] = "error" \/ (pc[d] = "copy" /\ id = copy[d].to)
    BY <1>2 DEF Reaching
  <1>5. ASSUME pc[d] \notin {"idle", "error"} PROVE Progress(tree', from', src[d], d, pc[d], stack[d])
    <2>1. \A j \in DOMAIN stack[d] : stack[d][j].at \in DOMAIN tree
      BY DEF Built, CallerOK, FrameOK
    <2>2. Progress(tree, from, src[d], d, pc[d], stack[d])
      BY <1>5 DEF Reaching
    <2>3. QED
      BY <2>1, <2>2, ProgressStays
  <1>6. pc[d] = "ok" => stack[d] = <<>>
    BY DEF Reaching
  <1>7. QED
    BY <1>1, <1>3, <1>4, <1>5, <1>6 DEF Reaching

\* A step of c that keeps Reaching(c) keeps it of all calls.
LEMMA ReachingKept ==
    ASSUME Built, AllReaching, NEW c \in Callers, Moves(c), Ours(c), Reaching(c)'
    PROVE  AllReaching'
  <1>1. ASSUME NEW d \in Callers PROVE Reaching(d)'
    <2>1. CASE d = c
      BY <2>1
    <2>2. CASE d # c
      BY <2>2, OthersReach DEF AllReaching
    <2>3. QED
      BY <2>1, <2>2
  <1>2. QED
    BY <1>1 DEF AllReaching

\* A call that stops because of an error may leave anything.
LEMMA ReachingError ==
    ASSUME Built, AllReaching, NEW c \in Callers, Moves(c), Ours(c), pc'[c] = "error"
    PROVE  AllReaching'
  <1>1. Reaching(c)'
    BY DEF Reaching
  <1>2. QED
    BY <1>1, ReachingKept

\* A call that fails keeps AllReaching, which asks nothing of it.
LEMMA ReachingFails ==
    ASSUME Built, AllReaching, NEW c \in Callers, NotAdded(c) \/ SourceFails(c) \/ CopyFails(c)
    PROVE  AllReaching'
  <1>1. AddFSTypeOK
    BY DEF Built
  <1>2. /\ pc' = [pc EXCEPT ![c] = "error"] /\ UNCHANGED <<src, tree, from, closed, sealed, stack>>
        /\ copy' = copy \/ copy' = [copy EXCEPT ![c] = NoCopy]
    BY DEF NotAdded, SourceFails, CopyFails, Goto, LeftOpen
  <1>3. Moves(c) /\ pc'[c] = "error" /\ Ours(c)
    BY <1>1, <1>2, OursStands DEF Moves, AddFSTypeOK
  <1>4. QED
    BY <1>3, ReachingError

\* AddFS keeps AllReaching when it begins: it has still to read the root.
LEMMA ReachingBegin ==
    ASSUME Built, AllReaching, NEW c \in Callers, Begin(c)
    PROVE  AllReaching'
  <1> DEFINE f == [dir |-> <<Dot>>, at |-> 0, left |-> <<>>]
  <1>1. AddFSTypeOK /\ IsTree(tree) /\ IsTree(src[c]) /\ Reaching(c)
    BY SourceIs DEF Built, AddFSTypeOK, AllReaching
  <1>2. /\ pc[c] = "idle" /\ stack' = [stack EXCEPT ![c] = <<f>>] /\ pc' = [pc EXCEPT ![c] = "readdir"]
        /\ UNCHANGED <<src, tree, from, closed, sealed, copy>>
    BY DEF Begin, Goto
  <1>3. f.dir = <<Dot>> /\ f.at = 0 /\ Range(f.left) = {}
    BY DEF Range
  <1> HIDE DEF f
  <1>4. FrameFor(tree, src[c], f, 0)
    <2>1. PathIn(tree, 0) = <<>> /\ PathIn(src[c], 0) = <<>>
      BY <1>1, PathOf
    <2>2. src[c][0].kind = "storage"
      BY <1>1 DEF IsTree
    <2>3. QED
      BY <1>3, <2>1, <2>2 DEF FrameFor, Dir
  <1>5. DOMAIN <<f>> = {1} /\ <<f>>[1] = f /\ Len(<<f>>) = 1
    OBVIOUS
  <1>6. stack'[c] = <<f>> /\ pc'[c] = "readdir" /\ Moves(c) /\ Ours(c)
    BY <1>1, <1>2, OursStands DEF AddFSTypeOK, Moves
  <1>7. \A id \in DOMAIN tree \ {0} : from[id] # c
    BY <1>1, <1>2 DEF Reaching
  <1>8. Progress(tree, from, src[c], c, "readdir", <<f>>)
    <2>1. SUFFICES ASSUME NEW x \in DOMAIN src[c], NEW y \in Range(src[c][x].children),
                          x = 0 \/ Added(tree, from, src[c], c, x)
                   PROVE  Pending(tree, src[c], "readdir", <<f>>, x, y)
      BY DEF Progress
    <2>2. x = 0
      BY <1>7, <2>1 DEF Added
    <2>3. QED
      BY <1>4, <1>5, <2>2 DEF Pending
  <1>9. Reaching(c)'
    BY <1>2, <1>6, <1>7, <1>8 DEF Reaching
  <1>10. QED
    BY <1>6, <1>9, ReachingKept

\* So does fs.ReadDir: all the entries of the storage are left to be added.
LEMMA ReachingReadStorage ==
    ASSUME Built, AllMaking, AllReaching, NoDotInRoot, NEW c \in Callers, ReadStorage(c)
    PROVE  AllReaching'
  <1>1. AddFSTypeOK /\ CallerOK(tree, src[c], pc[c], stack[c], copy[c]) /\ Making(c) /\ Reaching(c)
        /\ IsSource(src[c])
    BY SourceIs DEF Built, AllMaking, AllReaching
  <1>2. pc[c] = "readdir" /\ stack[c] # <<>>
    BY <1>1 DEF CallerOK, Busy, ReadStorage
  <1>3. Moves(c) /\ UNCHANGED <<src, tree, from, closed, sealed, copy, fsVars>>
    BY <1>1, <1>2, ReadStorageDoes
  <1>4. Ours(c)
    BY <1>3, OursStands
  <1>5. CASE pc'[c] = "error"
    BY <1>3, <1>4, <1>5, ReachingError
  <1>6. CASE pc'[c] # "error"
    <2> DEFINE n == Len(stack[c])
    <2>1. /\ pc'[c] = "next" /\ DOMAIN stack'[c] = DOMAIN stack[c] /\ n \in DOMAIN stack[c]
          /\ \A j \in DOMAIN stack[c] \ {n} : stack'[c][j] = stack[c][j]
      BY <1>1, <1>6, ReadStorageIs
    <2>2. PICK d \in DOMAIN src[c] :
             /\ FrameFor(tree, src[c], Top(c), d) /\ FrameFor(tree, src[c], stack'[c][n], d)
             /\ Range(stack'[c][n].left) = Range(src[c][d].children)
      BY <1>1, <1>6, ReadStorageIs
    <2>3. Top(c) = stack[c][n]
      BY DEF Top
    <2> HIDE DEF n
    <2>4. Progress(tree, from, src[c], c, "next", stack'[c])
      <3>1. SUFFICES ASSUME NEW x \in DOMAIN src[c], NEW y \in Range(src[c][x].children),
                            x = 0 \/ Added(tree, from, src[c], c, x), ~Added(tree, from, src[c], c, y)
                     PROVE  Pending(tree, src[c], "next", stack'[c], x, y)
        BY DEF Progress
      <3>2. Pending(tree, src[c], pc[c], stack[c], x, y)
        BY <1>1, <1>2, <3>1 DEF Reaching, Progress
      <3>3. PICK j \in DOMAIN stack[c] : /\ FrameFor(tree, src[c], stack[c][j], x)
                                         /\ y \in Range(stack[c][j].left) \/ j = n
        BY <3>2 DEF Pending, n
      <3>4. CASE j = n
        <4>1. PathIn(src[c], x) = PathIn(src[c], d)
          BY <2>2, <2>3, <3>3, <3>4 DEF FrameFor
        <4>2. x = d
          BY <1>1, <4>1, SourcePaths
        <4>3. QED
          BY <2>1, <2>2, <3>1, <4>2 DEF Pending
      <3>5. CASE j # n
        BY <2>1, <3>3, <3>5 DEF Pending
      <3>6. QED
        BY <3>4, <3>5
    <2>5. Reaching(c)'
      BY <1>1, <1>2, <1>3, <2>1, <2>4 DEF Reaching
    <2>6. QED
      BY <1>3, <1>4, <2>5, ReachingKept
  <1>7. QED
    BY <1>5, <1>6

\* So does the return of addFSDir: nothing was left of its storage.
LEMMA ReachingEndStorage ==
    ASSUME Built, AllReaching, NEW c \in Callers, EndStorage(c)
    PROVE  AllReaching'
  <1>1. AddFSTypeOK /\ Reaching(c)
    BY DEF Built, AllReaching
  <1>2. /\ Moves(c) /\ UNCHANGED <<src, tree, from, closed, sealed, copy, fsVars>>
        /\ pc[c] = "next" /\ stack[c] # <<>> /\ Top(c).left = <<>>
        /\ pc' = [pc EXCEPT ![c] = IF Len(stack[c]) = 1 THEN "ok" ELSE "next"]
        /\ stack'[c] = Below(c)
    BY EndStorageDoes
  <1>3. PICK n \in Nat \ {0} : n = Len(stack[c]) /\ DOMAIN stack[c] = 1 .. n
    BY <1>1, <1>2, TopIs
  <1>4. /\ Below(c) \in Seq(Frames) /\ Len(Below(c)) = n - 1
        /\ \A j \in 1 .. n - 1 : Below(c)[j] = stack[c][j]
    BY <1>1, <1>2, <1>3, TopIs
  <1>5. DOMAIN Below(c) = 1 .. n - 1
    BY <1>3, <1>4
  <1>6. Ours(c)
    BY <1>2, OursStands
  <1>7. pc'[c] \in {"ok", "next"} /\ (pc'[c] = "ok" => Below(c) = <<>>)
    <2>1. pc'[c] = IF n = 1 THEN "ok" ELSE "next"
      BY <1>1, <1>2, <1>3 DEF AddFSTypeOK
    <2>2. n = 1 => Below(c) = <<>>
      BY <1>4
    <2>3. QED
      BY <2>1, <2>2
  <1>8. Progress(tree, from, src[c], c, pc'[c], Below(c))
    <2>1. SUFFICES ASSUME NEW x \in DOMAIN src[c], NEW y \in Range(src[c][x].children),
                          x = 0 \/ Added(tree, from, src[c], c, x), ~Added(tree, from, src[c], c, y)
                   PROVE  Pending(tree, src[c], pc'[c], Below(c), x, y)
      BY DEF Progress
    <2>2. Pending(tree, src[c], pc[c], stack[c], x, y)
      BY <1>1, <1>2, <2>1 DEF Reaching, Progress
    <2>3. PICK j \in DOMAIN stack[c] : FrameFor(tree, src[c], stack[c][j], x) /\ y \in Range(stack[c][j].left)
      BY <1>2, <2>2 DEF Pending
    <2>4. j # n
      <3>1. Range(Top(c).left) = {}
        BY <1>2 DEF Range
      <3>2. QED
        BY <1>3, <2>3, <3>1 DEF Top
    <2>5. j \in 1 .. n - 1 /\ j \in DOMAIN Below(c) /\ Below(c)[j] = stack[c][j]
      BY <1>3, <1>4, <1>5, <2>4
    <2>6. QED
      BY <2>3, <2>5 DEF Pending
  <1>9. Reaching(c)'
    BY <1>1, <1>2, <1>7, <1>8 DEF Reaching
  <1>10. QED
    BY <1>2, <1>6, <1>9, ReachingKept

\* So does a turn of io.Copy.
LEMMA ReachingCopyChunk ==
    ASSUME Built, AllMaking, AllReaching, NEW c \in Callers, CopyChunk(c)
    PROVE  AllReaching'
  <1>1. AddFSTypeOK /\ Making(c) /\ Reaching(c)
    BY DEF Built, AllMaking, AllReaching
  <1>2. /\ Moves(c) /\ UNCHANGED <<src, from, closed, sealed, pc, stack, fsVars>> /\ pc[c] = "copy"
        /\ Alike(tree, tree') /\ DOMAIN tree' = DOMAIN tree
    BY CopyChunkDoes
  <1>3. Ours(c)
    BY <1>1, OursCopyChunk
  <1>4. copy'[c].to = copy[c].to
    <2>1. PICK k \in Nat : copy' = [copy EXCEPT ![c] = [copy[c] EXCEPT !.pos = copy[c].pos + k]]
      BY CopyChunkDoes
    <2>2. PICK m \in Copies : m = copy[c]
      BY <1>1 DEF AddFSTypeOK
    <2>3. copy'[c] = [m EXCEPT !.pos = copy[c].pos + k]
      BY <1>1, <2>1, <2>2 DEF AddFSTypeOK
    <2>4. QED
      BY <2>2, <2>3 DEF Copies
  <1>5. \A id \in DOMAIN tree' \ {0} : from'[id] = c /\ tree'[id].kind = "stream" /\ id \notin closed' =>
           id = copy[c].to
    BY <1>1, <1>2 DEF Reaching, Alike
  <1>6. Progress(tree', from', src[c], c, "copy", stack[c])
    <2>1. \A j \in DOMAIN stack[c] : stack[c][j].at \in DOMAIN tree
      BY DEF Built, CallerOK, FrameOK
    <2>2. Progress(tree, from, src[c], c, "copy", stack[c])
      BY <1>1, <1>2 DEF Reaching
    <2>3. QED
      BY <1>2, <1>3, <2>1, <2>2, ProgressStays
  <1>7. Reaching(c)'
    BY <1>2, <1>4, <1>5, <1>6 DEF Reaching
  <1>8. QED
    BY <1>2, <1>3, <1>7, ReachingKept

\* So does io.EOF: the only stream that c had open is closed.
LEMMA ReachingCloseStream ==
    ASSUME Built, AllMaking, AllReaching, NEW c \in Callers, CloseStream(c)
    PROVE  AllReaching'
  <1>1. AddFSTypeOK /\ Making(c) /\ Reaching(c)
    BY DEF Built, AllMaking, AllReaching
  <1>2. /\ pc[c] = "copy" /\ pc' = [pc EXCEPT ![c] = "next"] /\ copy' = [copy EXCEPT ![c] = NoCopy]
        /\ closed' = closed \cup {copy[c].to} /\ UNCHANGED <<src, tree, from, sealed, stack>>
    BY DEF CloseStream, Goto
  <1>3. Moves(c) /\ pc'[c] = "next" /\ stack'[c] = stack[c]
    BY <1>1, <1>2 DEF Moves, AddFSTypeOK
  <1>4. Ours(c)
    BY <1>1, <1>2, OursStands DEF Making
  <1>5. \A id \in DOMAIN tree \ {0} : ~(from[id] = c /\ tree[id].kind = "stream" /\ id \notin closed')
    BY <1>1, <1>2 DEF Reaching
  <1>6. Progress(tree, from, src[c], c, "next", stack[c])
    <2>1. SUFFICES ASSUME NEW x \in DOMAIN src[c], NEW y \in Range(src[c][x].children),
                          x = 0 \/ Added(tree, from, src[c], c, x), ~Added(tree, from, src[c], c, y)
                   PROVE  Pending(tree, src[c], "next", stack[c], x, y)
      BY DEF Progress
    <2>2. Pending(tree, src[c], pc[c], stack[c], x, y)
      BY <1>1, <1>2, <2>1 DEF Reaching, Progress
    <2>3. QED
      BY <1>2, <2>2 DEF Pending
  <1>7. Reaching(c)'
    BY <1>2, <1>3, <1>5, <1>6 DEF Reaching
  <1>8. QED
    BY <1>3, <1>4, <1>7, ReachingKept

\* The new entry is added, and what it holds is still to be added.
LEMMA CreatedProgress ==
    ASSUME Built, NEW c \in Callers, stack[c] # <<>>, Top(c).left # <<>>,
           NEW at, NEW entry, Created(c, at, entry), closed' = closed, IsSource(src[c]),
           NEW e \in DOMAIN src[c] \ {0}, e = Head(Top(c).left), entry.kind = src[c][e].kind,
           Append(PathIn(tree, at), entry.name) = PathIn(src[c], e),
           Progress(tree, from, src[c], c, "next", stack[c]),
           NEW p, NEW s, Len(stack[c]) \in DOMAIN s, s[Len(stack[c])] = Passed(c),
           \A j \in 1 .. Len(stack[c]) - 1 : j \in DOMAIN s /\ s[j] = stack[c][j],
           \A y \in Range(src[c][e].children) : Pending(tree', src[c], p, s, e, y)
    PROVE  Progress(tree', from', src[c], c, p, s)
  <1>1. AddFSTypeOK /\ CallerOK(tree, src[c], pc[c], stack[c], copy[c])
    BY DEF Built
  <1>2. Ours(c)
    BY OursCreated
  <1>3. NewId \in DOMAIN tree' \ {0} /\ from'[NewId] = c /\ PathIn(tree', NewId) = PathIn(src[c], e)
        /\ tree'[NewId].kind = src[c][e].kind
    BY DEF Created
  <1>4. PICK n \in Nat \ {0} : n = Len(stack[c]) /\ DOMAIN stack[c] = 1 .. n
    BY <1>1, TopIs
  <1>5. SUFFICES ASSUME NEW x \in DOMAIN src[c], NEW y \in Range(src[c][x].children), x # e,
                        x = 0 \/ Added(tree', from', src[c], c, x)
                 PROVE  Added(tree', from', src[c], c, y) \/ Pending(tree', src[c], p, s, x, y)
    BY DEF Progress
  <1>6. x = 0 \/ Added(tree, from, src[c], c, x)
    <2>1. SUFFICES ASSUME x # 0 PROVE Added(tree, from, src[c], c, x)
      OBVIOUS
    <2>2. PICK id \in DOMAIN tree' \ {0} :
             from'[id] = c /\ PathIn(tree', id) = PathIn(src[c], x) /\ tree'[id].kind = src[c][x].kind
      BY <1>5, <2>1 DEF Added
    <2>3. id # NewId
      <3>1. PathIn(src[c], x) # PathIn(src[c], e)
        BY <1>5, SourcePaths
      <3>2. QED
        BY <1>3, <2>2, <3>1
    <2>4. id \in DOMAIN tree \ {0}
      BY <2>2, <2>3 DEF Created
    <2>5. from[id] = c /\ PathIn(tree, id) = PathIn(src[c], x) /\ tree[id].kind = src[c][x].kind
      BY <2>2, <2>4 DEF Created, Alike
    <2>6. QED
      BY <2>4, <2>5 DEF Added
  <1>7. Added(tree, from, src[c], c, y) \/ Pending(tree, src[c], "next", stack[c], x, y)
    BY <1>5, <1>6 DEF Progress
  <1>8. CASE Added(tree, from, src[c], c, y)
    BY <1>2, <1>8, AddedStays
  <1>9. CASE Pending(tree, src[c], "next", stack[c], x, y)
    <2>1. PICK j \in DOMAIN stack[c] : FrameFor(tree, src[c], stack[c][j], x) /\ y \in Range(stack[c][j].left)
      BY <1>9 DEF Pending
    <2>2. FrameFor(tree', src[c], stack[c][j], x)
      <3>1. stack[c][j].at \in DOMAIN tree
        BY <1>1 DEF CallerOK, FrameOK
      <3>2. QED
        BY <1>2, <2>1, <3>1 DEF FrameFor, Ours
    <2>3. CASE j # n
      <3>1. j \in DOMAIN s /\ s[j] = stack[c][j]
        BY <1>4, <2>3
      <3>2. QED
        BY <2>1, <2>2, <3>1 DEF Pending
    <2>4. CASE j = n
      <3>1. /\ Passed(c).dir = Top(c).dir /\ Passed(c).at = Top(c).at
            /\ Range(Top(c).left) = Range(Passed(c).left) \cup {e}
        BY <1>1, PassedIs
      <3>2. stack[c][j] = Top(c) /\ s[j] = Passed(c) /\ j \in DOMAIN s
        BY <1>4, <2>4 DEF Top
      <3>3. CASE y = e
        BY <1>3, <3>3 DEF Added
      <3>4. CASE y # e
        <4>1. y \in Range(s[j].left) /\ FrameFor(tree', src[c], s[j], x)
          BY <2>1, <2>2, <3>1, <3>2, <3>4 DEF FrameFor
        <4>2. QED
          BY <3>2, <4>1 DEF Pending
      <3>5. QED
        BY <3>3, <3>4
    <2>5. QED
      BY <2>3, <2>4
  <1>10. QED
    BY <1>7, <1>8, <1>9

\* So does CreateStorage: the entry is added, and those in it are to be read.
LEMMA ReachingAddStorage ==
    ASSUME Built, AllMaking, AllReaching, NoDotInRoot, NEW c \in Callers, AddStorage(c)
    PROVE  AllReaching'
  <1>1. AddFSTypeOK /\ Making(c) /\ Reaching(c) /\ IsSource(src[c]) /\ IsTree(src[c])
    BY SourceIs DEF Built, AllMaking, AllReaching
  <1>2. /\ Moves(c) /\ UNCHANGED <<src, closed, sealed, copy, fsVars>>
        /\ pc[c] = "next" /\ pc' = [pc EXCEPT ![c] = "readdir"]
        /\ stack[c] # <<>> /\ Top(c).left # <<>> /\ Entry(c).kind = "storage"
        /\ Created(c, Top(c).at, Storage(Entry(c).name, <<>>))
    BY AddStorageDoes
  <1>3. PICK s \in Seq(Frames) : s = stack'[c]
    BY AddStorageDoes
  <1>4. PICK n \in Nat \ {0} : n = Len(stack[c])
    BY <1>1, <1>2, TopIs
  <1>5. Len(s) = n + 1 /\ s[n] = Passed(c)
    BY <1>3, <1>4, AddStorageDoes
  <1>6. \A j \in 1 .. n - 1 : s[j] = stack[c][j]
    BY <1>3, <1>4, AddStorageDoes
  <1>7. s[n + 1] = [dir |-> Join(Top(c).dir, Entry(c).name), at |-> NewId, left |-> <<>>]
    BY <1>3, <1>4, AddStorageDoes
  <1>8. PICK d \in DOMAIN src[c], e \in DOMAIN src[c] \ {0} :
           /\ e = Head(Top(c).left) /\ Entry(c) = src[c][e]
           /\ Join(Top(c).dir, Entry(c).name) = PathIn(src[c], e)
           /\ Append(PathIn(tree, Top(c).at), Entry(c).name) = PathIn(src[c], e)
    BY <1>1, <1>2, BegunIs
  <1>9. PICK entry : entry = Storage(Entry(c).name, <<>>)
    OBVIOUS
  <1>10. entry.name = Entry(c).name /\ entry.kind = "storage" /\ src[c][e].kind = "storage"
         /\ Created(c, Top(c).at, entry)
    BY <1>2, <1>8, <1>9 DEF Storage
  <1>11. Ours(c)
    BY <1>2, OursCreated
  <1>12. pc'[c] = "readdir"
    BY <1>1, <1>2 DEF AddFSTypeOK
  <1>13. FrameFor(tree', src[c], s[n + 1], e)
    <2>1. PathIn(tree', NewId) = PathIn(src[c], e)
      BY <1>8, <1>10 DEF Created
    <2>2. Dir(PathIn(src[c], e)) = PathIn(src[c], e)
      BY <1>1, PathNotEmpty DEF Dir
    <2>3. s[n + 1].dir = PathIn(src[c], e) /\ s[n + 1].at = NewId /\ Range(s[n + 1].left) = {}
      BY <1>7, <1>8 DEF Range
    <2>4. QED
      BY <1>10, <2>1, <2>2, <2>3 DEF FrameFor
  <1>14. DOMAIN s = 1 .. n + 1 /\ n + 1 \in DOMAIN s /\ n \in DOMAIN s /\ \A j \in 1 .. n - 1 : j \in DOMAIN s
    BY <1>4, <1>5
  <1>15. \A y \in Range(src[c][e].children) : Pending(tree', src[c], "readdir", s, e, y)
    BY <1>5, <1>13, <1>14 DEF Pending
  <1>16. Progress(tree', from', src[c], c, "readdir", s)
    <2>1. Progress(tree, from, src[c], c, "next", stack[c])
      BY <1>1, <1>2 DEF Reaching
    <2>2. Len(stack[c]) \in DOMAIN s /\ s[Len(stack[c])] = Passed(c)
          /\ \A j \in 1 .. Len(stack[c]) - 1 : j \in DOMAIN s /\ s[j] = stack[c][j]
      BY <1>4, <1>5, <1>6, <1>14
    <2>3. Append(PathIn(tree, Top(c).at), entry.name) = PathIn(src[c], e) /\ entry.kind = src[c][e].kind
      BY <1>8, <1>10
    <2>4. QED
      BY <1>1, <1>2, <1>8, <1>10, <1>15, <2>1, <2>2, <2>3, CreatedProgress
  <1>17. \A id \in DOMAIN tree' \ {0} : ~(from'[id] = c /\ tree'[id].kind = "stream" /\ id \notin closed')
    <2>1. SUFFICES ASSUME NEW id \in DOMAIN tree' \ {0}, from'[id] = c, tree'[id].kind = "stream", id \notin closed
                   PROVE  FALSE
      BY <1>2
    <2>2. id # NewId
      BY <1>10, <2>1 DEF Created
    <2>3. id \in DOMAIN tree \ {0} /\ from[id] = c /\ tree[id].kind = "stream"
      BY <1>10, <2>1, <2>2 DEF Created, Alike
    <2>4. QED
      BY <1>1, <1>2, <2>1, <2>3 DEF Reaching
  <1>18. Reaching(c)'
    BY <1>2, <1>3, <1>12, <1>16, <1>17 DEF Reaching
  <1>19. QED
    BY <1>2, <1>11, <1>18, ReachingKept

\* So does CreateStream: the entry is added, and open until it is copied.
LEMMA ReachingAddStream ==
    ASSUME Built, AllMaking, AllReaching, NoDotInRoot, NEW c \in Callers, AddStream(c)
    PROVE  AllReaching'
  <1>1. AddFSTypeOK /\ Making(c) /\ Reaching(c) /\ IsSource(src[c]) /\ IsTree(src[c])
    BY SourceIs DEF Built, AllMaking, AllReaching
  <1>2. /\ Moves(c) /\ UNCHANGED <<src, closed, sealed, fsVars>>
        /\ pc[c] = "next" /\ pc' = [pc EXCEPT ![c] = "copy"]
        /\ stack[c] # <<>> /\ Top(c).left # <<>> /\ Entry(c).kind = "stream"
        /\ Created(c, Top(c).at, Stream(Entry(c).name, <<>>))
    BY AddStreamDoes
  <1>3. PICK s \in Seq(Frames) : s = stack'[c]
    BY AddStreamDoes
  <1>4. PICK n \in Nat \ {0} : n = Len(stack[c])
    BY <1>1, <1>2, TopIs
  <1>5. Len(s) = n /\ s[n] = Passed(c)
    BY <1>3, <1>4, AddStreamDoes
  <1>6. \A j \in 1 .. n - 1 : s[j] = stack[c][j]
    BY <1>3, <1>4, AddStreamDoes
  <1>7. copy'[c].to = NewId
    <2>1. PICK file \in DOMAIN src[c] :
             /\ file = Open(src[c], Join(Top(c).dir, Entry(c).name)) /\ file # NoEntry
             /\ copy' = [copy EXCEPT ![c] = [to |-> NewId, file |-> file, pos |-> 0]]
      BY AddStreamDoes, Zenon
    <2>2. copy'[c] = [to |-> NewId, file |-> file, pos |-> 0]
      BY <1>1, <2>1 DEF AddFSTypeOK
    <2>3. QED
      BY <2>2
  <1>8. PICK d \in DOMAIN src[c], e \in DOMAIN src[c] \ {0} :
           /\ e = Head(Top(c).left) /\ Entry(c) = src[c][e]
           /\ Append(PathIn(tree, Top(c).at), Entry(c).name) = PathIn(src[c], e)
    BY <1>1, <1>2, BegunIs
  <1>9. PICK entry : entry = Stream(Entry(c).name, <<>>)
    OBVIOUS
  <1>10. entry.name = Entry(c).name /\ entry.kind = "stream" /\ src[c][e].kind = "stream"
         /\ Created(c, Top(c).at, entry)
    BY <1>2, <1>8, <1>9 DEF Stream
  <1>11. Ours(c)
    BY <1>2, OursCreated
  <1>12. pc'[c] = "copy"
    BY <1>1, <1>2 DEF AddFSTypeOK
  <1>13. DOMAIN s = 1 .. n /\ n \in DOMAIN s /\ \A j \in 1 .. n - 1 : j \in DOMAIN s
    BY <1>4, <1>5
  <1>14. \A y \in Range(src[c][e].children) : Pending(tree', src[c], "copy", s, e, y)
    <2>1. \A y \in Range(src[c][e].children) : src[c][e].kind = "storage"
      BY <1>1, TreeChild
    <2>2. QED
      BY <1>10, <2>1
  <1>15. Progress(tree', from', src[c], c, "copy", s)
    <2>1. Progress(tree, from, src[c], c, "next", stack[c])
      BY <1>1, <1>2 DEF Reaching
    <2>2. Len(stack[c]) \in DOMAIN s /\ s[Len(stack[c])] = Passed(c)
          /\ \A j \in 1 .. Len(stack[c]) - 1 : j \in DOMAIN s /\ s[j] = stack[c][j]
      BY <1>4, <1>5, <1>6, <1>13
    <2>3. Append(PathIn(tree, Top(c).at), entry.name) = PathIn(src[c], e) /\ entry.kind = src[c][e].kind
      BY <1>8, <1>10
    <2>4. QED
      BY <1>1, <1>2, <1>8, <1>10, <1>14, <2>1, <2>2, <2>3, CreatedProgress
  <1>16. \A id \in DOMAIN tree' \ {0} : from'[id] = c /\ tree'[id].kind = "stream" /\ id \notin closed' =>
            id = NewId
    <2>1. SUFFICES ASSUME NEW id \in DOMAIN tree' \ {0}, from'[id] = c, tree'[id].kind = "stream",
                          id \notin closed, id # NewId
                   PROVE  FALSE
      BY <1>2
    <2>2. id \in DOMAIN tree \ {0} /\ from[id] = c /\ tree[id].kind = "stream"
      BY <1>10, <2>1 DEF Created, Alike
    <2>3. QED
      BY <1>1, <1>2, <2>1, <2>2 DEF Reaching
  <1>17. Reaching(c)'
    BY <1>2, <1>3, <1>7, <1>12, <1>15, <1>16 DEF Reaching
  <1>18. QED
    BY <1>2, <1>11, <1>17, ReachingKept

\* Every step keeps AllReaching.
LEMMA ReachingNext ==
    ASSUME Built, AllMaking, AllReaching, NoDotInRoot, [AddFSNext]_vars
    PROVE  AllReaching'
  <1>1. ASSUME NEW c \in Callers, Begin(c) PROVE AllReaching'
    BY <1>1, ReachingBegin
  <1>2. ASSUME NEW c \in Callers, Step(c) PROVE AllReaching'
    BY <1>2, ReachingReadStorage, ReachingAddStorage, ReachingAddStream, ReachingFails, ReachingEndStorage,
       ReachingCopyChunk, ReachingCloseStream DEF Step
  <1>3. ASSUME NEW c \in Callers, Failure(c) PROVE AllReaching'
    BY <1>3, ReachingFails DEF Failure
  <1>4. CASE CloseWriter \/ Client \/ UNCHANGED vars
    <2>1. UNCHANGED <<src, tree, from, closed, pc, stack, copy>>
      BY <1>4 DEF CloseWriter, Client, vars
    <2>2. QED
      BY <2>1 DEF AllReaching, Reaching
  <1>5. QED
    BY <1>1, <1>2, <1>3, <1>4 DEF AddFSNext

\* A call that is done has added every entry of its source.
LEMMA AllAdded ==
    ASSUME Built, NEW c \in Callers, Reaching(c), pc[c] = "ok"
    PROVE  \A x \in DOMAIN src[c] \ {0} : Added(tree, from, src[c], c, x)
  <1>1. IsTree(src[c])
    BY SourceIs DEF Built
  <1> DEFINE Odd == {x \in DOMAIN src[c] \ {0} : ~Added(tree, from, src[c], c, x)}
  <1>2. SUFFICES ASSUME Odd # {} PROVE FALSE
    OBVIOUS
  <1>3. Odd \subseteq Nat
    BY <1>1, TreeShape
  <1>4. PICK y \in Odd : \A k \in Odd : y <= k
    BY <1>2, <1>3, Least
  <1>5. PICK x : x = Parent(src[c], y)
    OBVIOUS
  <1>6. x \in DOMAIN src[c] /\ y \in Range(src[c][x].children) /\ x < y /\ x \in Nat /\ y \in Nat
    <2>1. x \in DOMAIN src[c] /\ y \in Range(src[c][x].children) /\ x < y
      BY <1>1, <1>4, <1>5, TreeParent
    <2>2. QED
      BY <1>1, <1>4, <2>1, TreeShape
  <1>7. x \notin Odd
    BY <1>4, <1>6
  <1>8. x = 0 \/ Added(tree, from, src[c], c, x)
    BY <1>6, <1>7
  <1>9. Pending(tree, src[c], pc[c], stack[c], x, y)
    BY <1>4, <1>6, <1>8 DEF Reaching, Progress
  <1>10. DOMAIN stack[c] = {}
    BY DEF Reaching
  <1>11. QED
    BY <1>9, <1>10 DEF Pending

\* All three invariants.
ReachingBuilt == Built /\ AllMaking /\ AllReaching

\* AllReaching holds of every state.
LEMMA ReachingAlways ==
    ASSUME NoDotInRoot
    PROVE  AddFSSpec => []ReachingBuilt
  <1>1. AddFSInit => ReachingBuilt
    <2>1. AddFSInit => AllReaching
      BY DEF AddFSInit, AllReaching, Reaching
    <2>2. QED
      BY <2>1, BuiltInit, MakingInit DEF ReachingBuilt
  <1>2. ReachingBuilt /\ [AddFSNext]_vars => ReachingBuilt'
    BY BuiltNext, MakingNext, ReachingNext DEF ReachingBuilt
  <1>3. QED
    BY <1>1, <1>2, PTL DEF AddFSSpec

(* CopiesAll: when AddFS (writer.go) returns nil, all of its file system    *)
(* has been added by it, by path, kind and content, and nothing else,       *)
(* whatever other calls add to the same storages at the same time. Again    *)
(* no root may have a storage named ".".                                    *)
THEOREM AddFSCopiesAll ==
    ASSUME NoDotInRoot
    PROVE  AddFSSpec => []CopiesAll
  <1>1. ASSUME ReachingBuilt PROVE CopiesAll
    <2>1. SUFFICES ASSUME NEW c \in Callers, pc[c] = "ok" PROVE AddedBy(c) = Held(c)
      BY DEF CopiesAll
    <2>2. Built /\ Making(c) /\ Reaching(c)
      BY <1>1 DEF ReachingBuilt, AllMaking, AllReaching
    <2>3. IsTree(tree) /\ IsTree(src[c]) /\ IsSource(src[c])
      BY <2>2, SourceIs DEF Built, AddFSTypeOK
    <2>4. \A id \in DOMAIN tree \ {0} : from[id] = c /\ tree[id].kind = "stream" => id \in closed
      BY <2>1, <2>2 DEF Reaching
    <2>5. AddedBy(c) \subseteq Held(c)
      BY <2>2, <2>4, AddedIsHeld
    <2>6. ASSUME NEW x \in DOMAIN src[c] \ {0}
          PROVE  [path |-> PathIn(src[c], x), kind |-> src[c][x].kind, data |-> src[c][x].data] \in AddedBy(c)
      <3>1. PICK id \in DOMAIN tree \ {0} :
               from[id] = c /\ PathIn(tree, id) = PathIn(src[c], x) /\ tree[id].kind = src[c][x].kind
        BY <2>1, <2>2, AllAdded DEF Added
      <3>2. PICK e \in DOMAIN src[c] \ {0} : MadeFrom(tree, closed, src[c], id, e)
        BY <2>2, <3>1 DEF Making
      <3>3. e = x
        <4>1. PathIn(src[c], e) = PathIn(src[c], x)
          BY <3>1, <3>2 DEF MadeFrom
        <4>2. QED
          BY <2>3, <4>1, SourcePaths
      <3>4. tree[id].data = src[c][x].data
        BY <2>3, <2>4, <3>1, <3>2, <3>3, DoneAlike
      <3>5. QED
        BY <3>1, <3>4 DEF AddedBy
    <2>7. QED
      BY <2>5, <2>6 DEF Held
  <1>2. QED
    BY <1>1, ReachingAlways, PTL
=============================================================================
