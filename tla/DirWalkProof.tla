---------------------------- MODULE DirWalkProof ----------------------------
(***************************************************************************)
(* walkBST over every directory: its recursion is bounded, it never looks  *)
(* up an entry that is not there, it ends, and it accepts exactly the      *)
(* directories whose links make proper trees, listing their storages in    *)
(* order. A call that has passed the checks has marked an entry of its     *)
(* own, so no more calls are active than entries are marked, and one more  *)
(* that has not passed them yet.                                           *)
(***************************************************************************)
EXTENDS DirWalk, SequenceLemmas, FiniteSetTheorems, TLAPS

Places == {"enter", "self", "built", "right", "return"}
CallOf == [id : Nat, to : Nat, at : Places]

Typed ==
    /\ entries \in Directories
    /\ visited \subseteq Ids
    /\ stack \in Seq(CallOf)

\* Only the call on top has not passed the checks of its entry.
OnlyTopEnters ==
    \A i \in 1 .. Len(stack) :
        /\ i < Len(stack) => stack[i].at # "enter"
        /\ stack[i].at # "enter" => stack[i].id \in Ids

\* The calls that have passed them have each marked an entry.
CallsMarked ==
    Len(stack) <= Cardinality(visited)
                  + (IF stack # <<>> /\ Top.at = "enter" THEN 1 ELSE 0)

Inv == Typed /\ OnlyTopEnters /\ CallsMarked

-----------------------------------------------------------------------------
LEMMA EntriesFacts ==
    ASSUME entries \in Directories
    PROVE  /\ Len(entries) \in Nat \ {0}
           /\ IsFiniteSet(Ids) /\ Cardinality(Ids) = Len(entries)
           /\ \A id \in Ids : /\ Entry(id).leftSib \in Nat
                              /\ Entry(id).rightSib \in Nat
                              /\ Entry(id).childID \in Nat
  <1> DEFINE R == [objectType : Types, leftSib : Nat, rightSib : Nat, childID : Nat]
  <1>1. entries \in Seq(R) /\ entries # <<>>
    BY DirectoryAssumption
  <1>2. Len(entries) \in Nat \ {0}
    BY <1>1
  <1>3. IsFiniteSet(Ids) /\ Cardinality(Ids) = Len(entries)
    <2>1. IsFiniteSet(0 .. Len(entries) - 1)
          /\ Cardinality(0 .. Len(entries) - 1) =
                IF 0 > Len(entries) - 1 THEN 0 ELSE Len(entries) - 1 - 0 + 1
      BY <1>2, FS_Interval
    <2>2. QED
      BY <1>2, <2>1 DEF Ids
  <1>4. ASSUME NEW id \in Ids PROVE Entry(id) \in R
    <2>1. id + 1 \in 1 .. Len(entries)
      BY <1>2 DEF Ids
    <2>2. entries[id + 1] \in R
      BY <1>1, <2>1, ElementOfSeq
    <2>3. QED
      BY <2>2 DEF Entry
  <1>5. QED
    BY <1>2, <1>3, <1>4

LEMMA VisitedFinite ==
    ASSUME Typed
    PROVE  /\ IsFiniteSet(visited)
           /\ Cardinality(visited) \in Nat
           /\ Cardinality(visited) <= Len(entries)
  <1>1. IsFiniteSet(Ids) /\ Cardinality(Ids) = Len(entries) /\ visited \subseteq Ids
    BY EntriesFacts DEF Typed
  <1>2. IsFiniteSet(visited) /\ Cardinality(visited) <= Cardinality(Ids)
    BY <1>1, FS_Subset
  <1>3. QED
    BY <1>1, <1>2, FS_CardinalityType

\* The call on top and those below it.
LEMMA StackFacts ==
    ASSUME Inv, stack # <<>>
    PROVE  /\ Len(stack) \in Nat \ {0}
           /\ Top \in CallOf
           /\ Top.at # "enter" => Top.id \in Ids
           /\ Callers \in Seq(CallOf)
           /\ Len(Callers) = Len(stack) - 1
           /\ \A i \in 1 .. Len(Callers) :
                 /\ Callers[i] = stack[i]
                 /\ Callers[i].at # "enter"
                 /\ Callers[i].id \in Ids
  <1>1. stack \in Seq(CallOf)
    BY DEF Inv, Typed
  <1>2. Len(stack) \in Nat \ {0} /\ Top \in CallOf
    BY <1>1 DEF Top
  <1>3. Top.at # "enter" => Top.id \in Ids
    BY <1>2 DEF Inv, OnlyTopEnters, Top
  <1>4. /\ Callers \in Seq(CallOf)
        /\ Len(Callers) = Len(stack) - 1
        /\ \A i \in 1 .. Len(Callers) : Callers[i] = stack[i]
    BY <1>1, <1>2 DEF Callers
  <1>5. ASSUME NEW i \in 1 .. Len(Callers)
        PROVE  Callers[i].at # "enter" /\ Callers[i].id \in Ids
    <2>1. i \in 1 .. Len(stack) /\ i < Len(stack) /\ Callers[i] = stack[i]
      BY <1>2, <1>4
    <2>2. QED
      BY <2>1 DEF Inv, OnlyTopEnters
  <1>6. QED
    BY <1>2, <1>3, <1>4, <1>5

LEMMA InvInit == Init => Inv
  <1> SUFFICES ASSUME Init PROVE Inv
    OBVIOUS
  <1>1. entries \in Directories /\ visited = {} /\ stack = <<Call(Entry(0).childID, 0)>>
    BY DEF Init
  <1>2. Entry(0).childID \in Nat
    <2>1. 0 \in Ids
      BY <1>1, EntriesFacts DEF Ids
    <2>2. QED
      BY <1>1, <2>1, EntriesFacts
  <1>3. Call(Entry(0).childID, 0) \in CallOf /\ Call(Entry(0).childID, 0).at = "enter"
    BY <1>2 DEF Call, CallOf, Places
  <1>4. stack \in Seq(CallOf) /\ Len(stack) = 1 /\ stack[1].at = "enter"
    BY <1>1, <1>3
  <1>5. Cardinality(visited) = 0
    BY <1>1, FS_EmptySet
  <1>6. Typed /\ OnlyTopEnters /\ CallsMarked
    BY <1>1, <1>4, <1>5 DEF Typed, OnlyTopEnters, CallsMarked, Top
  <1>7. QED
    BY <1>6 DEF Inv

\* The call on top returns.
LEMMA Returns ==
    ASSUME Inv, stack # <<>>, stack' = Callers, UNCHANGED <<entries, visited>>
    PROVE  Inv'
  <1>1. Ids' = Ids
    BY DEF Ids
  <1>2. Typed'
    BY <1>1, StackFacts DEF Inv, Typed
  <1>3. OnlyTopEnters'
    BY <1>1, StackFacts DEF OnlyTopEnters
  <1>4. CallsMarked'
    <2>1. Len(stack) <= Cardinality(visited) + 1
      BY StackFacts, VisitedFinite DEF Inv, CallsMarked
    <2>2. Len(stack') <= Cardinality(visited)
      BY <2>1, StackFacts, VisitedFinite DEF Inv
    <2>3. QED
      BY <2>2, StackFacts, VisitedFinite DEF Inv, CallsMarked
  <1>5. QED
    BY <1>2, <1>3, <1>4 DEF Inv

\* The call on top goes on to at.
LEMMA GoesFacts ==
    ASSUME Inv, stack # <<>>, Top.id \in Ids, NEW at \in Places, at # "enter"
    PROVE  /\ Goes(at) \in Seq(CallOf)
           /\ Len(Goes(at)) = Len(stack)
           /\ \A i \in 1 .. Len(Goes(at)) : Goes(at)[i].at # "enter" /\ Goes(at)[i].id \in Ids
  <1> DEFINE top == [Top EXCEPT !.at = at]
  <1>1. top \in CallOf /\ top.at = at /\ top.id = Top.id
    BY StackFacts DEF CallOf
  <1>2. Goes(at) = Append(Callers, top)
    BY DEF Goes
  <1>3. /\ Goes(at) \in Seq(CallOf)
        /\ Len(Goes(at)) = Len(stack)
        /\ Goes(at)[Len(stack)] = top
        /\ \A i \in 1 .. Len(Callers) : Goes(at)[i] = Callers[i]
    BY <1>1, <1>2, StackFacts
  <1>4. ASSUME NEW i \in 1 .. Len(Goes(at))
        PROVE  Goes(at)[i].at # "enter" /\ Goes(at)[i].id \in Ids
    <2>1. CASE i = Len(stack)
      BY <1>1, <1>3, <2>1
    <2>2. CASE i \in 1 .. Len(Callers)
      BY <1>3, <2>2, StackFacts
    <2>3. QED
      BY <1>3, <2>1, <2>2, StackFacts
  <1>5. QED
    BY <1>3, <1>4

LEMMA GoesOn ==
    ASSUME Inv, stack # <<>>, Top.at # "enter", NEW at \in Places, at # "enter",
           stack' = Goes(at), UNCHANGED <<entries, visited>>
    PROVE  Inv'
  <1>1. Ids' = Ids /\ Top.id \in Ids
    BY StackFacts DEF Ids
  <1>2. Typed'
    BY <1>1, GoesFacts DEF Inv, Typed
  <1>3. OnlyTopEnters'
    BY <1>1, GoesFacts DEF OnlyTopEnters
  <1>4. CallsMarked'
    <2>1. Len(stack) <= Cardinality(visited)
      BY StackFacts, VisitedFinite DEF Inv, CallsMarked
    <2>2. Len(stack') <= Cardinality(visited)
      BY <1>1, <2>1, GoesFacts
    <2>3. QED
      BY <1>1, <2>2, GoesFacts, StackFacts, VisitedFinite DEF Inv, CallsMarked
  <1>5. QED
    BY <1>2, <1>3, <1>4 DEF Inv

\* The call on top calls walkBST for another entry.
LEMMA Calls ==
    ASSUME Inv, stack # <<>>, Top.id \in Ids, NEW at \in Places, at # "enter",
           NEW id \in Nat, NEW to \in Nat,
           stack' = Append(Goes(at), Call(id, to)),
           UNCHANGED entries, visited' \subseteq Ids,
           Len(stack) <= Cardinality(visited')
    PROVE  Inv'
  <1>1. Ids' = Ids
    BY DEF Ids
  <1>2. Call(id, to) \in CallOf /\ Call(id, to).at = "enter"
    BY DEF Call, CallOf, Places
  <1>3. /\ stack' \in Seq(CallOf)
        /\ Len(stack') = Len(stack) + 1
        /\ stack'[Len(stack) + 1].at = "enter"
        /\ \A i \in 1 .. Len(stack) : stack'[i] = Goes(at)[i]
    BY <1>2, GoesFacts, StackFacts
  <1>4. Typed'
    BY <1>1, <1>3 DEF Inv, Typed
  <1>5. OnlyTopEnters'
    <2>1. SUFFICES ASSUME NEW i \in 1 .. Len(stack')
                   PROVE  /\ i < Len(stack') => stack'[i].at # "enter"
                          /\ stack'[i].at # "enter" => stack'[i].id \in Ids
      BY <1>1 DEF OnlyTopEnters
    <2>2. CASE i = Len(stack) + 1
      BY <1>3, <2>2
    <2>3. CASE i \in 1 .. Len(stack)
      BY <1>3, <2>3, GoesFacts
    <2>4. QED
      BY <1>3, <2>2, <2>3, StackFacts
  <1>6. CallsMarked'
    <2>1. Top' = stack'[Len(stack) + 1] /\ stack' # <<>>
      BY <1>3, StackFacts DEF Top
    <2>2. Cardinality(visited') \in Nat
      BY <1>4, EntriesFacts, FS_Subset, FS_CardinalityType DEF Inv, Typed
    <2>3. QED
      BY <1>3, <2>1, <2>2, StackFacts DEF CallsMarked
  <1>7. QED
    BY <1>4, <1>5, <1>6 DEF Inv

LEMMA InvNext == Inv /\ [Next]_vars => Inv'
  <1> SUFFICES ASSUME Inv, [Next]_vars PROVE Inv'
    OBVIOUS
  <1> USE DEF Running
  <1>1. CASE EnterNothing
    BY <1>1, Returns DEF EnterNothing
  <1>2. CASE Enter
    <2>1. /\ stack # <<>> /\ Top.at = "enter" /\ Top.id \in Ids /\ Top.id \notin visited
          /\ visited' = visited \cup {Top.id} /\ UNCHANGED entries
          /\ stack' = Append(Goes("self"), Call(Entry(Top.id).leftSib, Top.to))
      BY <1>2 DEF Enter, Mark
    <2>2. Cardinality(visited') = Cardinality(visited) + 1
      BY <2>1, VisitedFinite, FS_AddElement DEF Inv
    <2>3. Len(stack) <= Cardinality(visited')
      BY <2>1, <2>2, StackFacts, VisitedFinite DEF Inv, CallsMarked
    <2>4. Entry(Top.id).leftSib \in Nat /\ Top.to \in Nat
      BY <2>1, EntriesFacts, StackFacts DEF Inv, Typed, CallOf
    <2>5. visited' \subseteq Ids
      BY <2>1 DEF Inv, Typed
    <2>6. QED
      BY <2>1, <2>3, <2>4, <2>5, Calls DEF Places
  <1>3. CASE Storage
    <2>1. /\ stack # <<>> /\ Top.at # "enter" /\ UNCHANGED <<entries, visited>>
          /\ stack' = Append(Goes("built"), Call(Entry(Top.id).childID, Top.id))
      BY <1>3 DEF Storage
    <2>2. Top.id \in Ids
      BY <2>1, StackFacts
    <2>3. Entry(Top.id).childID \in Nat /\ Top.id \in Nat
      BY <2>1, <2>2, EntriesFacts, StackFacts DEF Inv, Typed, CallOf
    <2>4. Len(stack) <= Cardinality(visited)
      BY <2>1, StackFacts, VisitedFinite DEF Inv, CallsMarked
    <2>5. QED
      BY <2>1, <2>2, <2>3, <2>4, Calls DEF Inv, Typed, Places
  <1>4. CASE Right
    <2>1. /\ stack # <<>> /\ Top.at # "enter" /\ UNCHANGED <<entries, visited>>
          /\ stack' = Append(Goes("return"), Call(Entry(Top.id).rightSib, Top.to))
      BY <1>4 DEF Right
    <2>2. Top.id \in Ids
      BY <2>1, StackFacts
    <2>3. Entry(Top.id).rightSib \in Nat /\ Top.to \in Nat
      BY <2>1, <2>2, EntriesFacts, StackFacts DEF Inv, Typed, CallOf
    <2>4. Len(stack) <= Cardinality(visited)
      BY <2>1, StackFacts, VisitedFinite DEF Inv, CallsMarked
    <2>5. QED
      BY <2>1, <2>2, <2>3, <2>4, Calls DEF Inv, Typed, Places
  <1>5. CASE StorageBuilt
    BY <1>5, GoesOn DEF StorageBuilt, Places
  <1>6. CASE Stream
    BY <1>6, GoesOn DEF Stream, Places
  <1>7. CASE Tolerate
    BY <1>7, GoesOn DEF Tolerate, Places
  <1>8. CASE Return
    BY <1>8, Returns DEF Return
  <1>9. CASE UNCHANGED <<entries, visited, stack>>
    BY <1>9 DEF Inv, Typed, OnlyTopEnters, CallsMarked, Ids, Top
  <1>10. QED
    BY <1>1, <1>2, <1>3, <1>4, <1>5, <1>6, <1>7, <1>8, <1>9
       DEF Next, EnterFails, Refuse, Finish, vars

(* The recursion never goes deeper than the directory has entries, and the  *)
(* one call that is about to be refused.                                    *)
THEOREM DepthIsBounded == Spec => []DepthBounded
  <1>1. Inv => DepthBounded
    <2> SUFFICES ASSUME Inv PROVE DepthBounded
      OBVIOUS
    <2>1. Len(stack) \in Nat /\ Len(entries) \in Nat
      BY EntriesFacts DEF Inv, Typed
    <2>2. QED
      BY <2>1, VisitedFinite DEF Inv, CallsMarked, DepthBounded
  <1>2. QED
    BY <1>1, InvInit, InvNext, PTL DEF Spec

\* A call that has passed the checks is of an entry of the directory.
LooksUpEntries ==
    \A i \in 1 .. Len(stack) : stack[i].at # "enter" => stack[i].id \in Ids

(* p.entries[id] is only ever evaluated with an id of an entry.             *)
THEOREM LookupsAreSafe == Spec => []LooksUpEntries
  <1>1. Inv => LooksUpEntries
    BY DEF Inv, OnlyTopEnters, LooksUpEntries
  <1>2. QED
    BY <1>1, InvInit, InvNext, PTL DEF Spec


-----------------------------------------------------------------------------
(* The measure                                                              *)

\* The work left to the first n calls of q, as a function of n.
Partly(q, f, n) == IF n = 0 THEN 0 ELSE f[n - 1] + Weight(q[n].at)

SumsUp(q, k, f) == f = [n \in 0 .. k |-> Partly(q, f, n)]

SumOf(q) ==
    LET sum[n \in 0 .. Len(q)] == IF n = 0 THEN 0 ELSE sum[n - 1] + Weight(q[n].at)
    IN  sum[Len(q)]

LEMMA SumExists ==
    ASSUME NEW q, NEW n \in Nat
    PROVE  \E f : SumsUp(q, n, f)
  <1> DEFINE Bad == {k \in Nat : ~\E f : SumsUp(q, k, f)}
  <1>1. SUFFICES Bad = {}
    OBVIOUS
  <1>2. SUFFICES ASSUME Bad # {} PROVE FALSE
    OBVIOUS
  <1>3. PICK m \in Bad : \A k \in Bad : m <= k
    BY <1>2, Least
  <1>4. m # 0
    <2> DEFINE e == [i \in 0 .. 0 |-> Partly(q, <<>>, i)]
    <2>1. \A i \in 0 .. 0 : Partly(q, <<>>, i) = Partly(q, e, i)
      BY DEF Partly
    <2>2. SumsUp(q, 0, e)
      BY <2>1 DEF SumsUp
    <2>3. QED
      BY <1>3, <2>2
  <1>5. m \in Nat /\ m - 1 \in Nat
    BY <1>3, <1>4
  <1>6. m - 1 \notin Bad
    BY <1>3, <1>5
  <1>7. PICK f : SumsUp(q, m - 1, f)
    BY <1>5, <1>6
  <1> DEFINE g == [i \in 0 .. m |-> Partly(q, f, i)]
  <1>8. \A i \in 0 .. m : i = 0 \/ i - 1 \in 0 .. m - 1
    BY <1>5
  <1>9. \A i \in 0 .. m - 1 : i \in 0 .. m
    BY <1>5
  <1>10. ASSUME NEW i \in 0 .. m PROVE Partly(q, f, i) = Partly(q, g, i)
    <2>1. CASE i = 0
      BY <2>1 DEF Partly
    <2>2. CASE i - 1 \in 0 .. m - 1
      <3>1. f[i - 1] = Partly(q, f, i - 1)
        BY <1>7, <2>2 DEF SumsUp
      <3>2. g[i - 1] = Partly(q, f, i - 1)
        BY <1>9, <2>2
      <3>3. QED
        BY <3>1, <3>2 DEF Partly
    <2>3. QED
      BY <1>8, <2>1, <2>2
  <1>11. SumsUp(q, m, g)
    BY <1>10 DEF SumsUp
  <1>12. QED
    BY <1>3, <1>11

LEMMA SumChosen ==
    ASSUME NEW q, Len(q) \in Nat
    PROVE  \E f : SumsUp(q, Len(q), f) /\ SumOf(q) = f[Len(q)]
  <1> DEFINE g == CHOOSE f : f = [n \in 0 .. Len(q) |->
                                     IF n = 0 THEN 0 ELSE f[n - 1] + Weight(q[n].at)]
  <1>1. \E f : f = [n \in 0 .. Len(q) |-> IF n = 0 THEN 0 ELSE f[n - 1] + Weight(q[n].at)]
    BY SumExists DEF SumsUp, Partly
  <1>2. g = [n \in 0 .. Len(q) |-> IF n = 0 THEN 0 ELSE g[n - 1] + Weight(q[n].at)]
    BY <1>1
  <1>3. SumsUp(q, Len(q), g)
    BY <1>2 DEF SumsUp, Partly
  <1>4. SumOf(q) = g[Len(q)]
    BY DEF SumOf
  <1>5. QED
    BY <1>3, <1>4

LEMMA WeightIs ==
    /\ Weight("enter") = 1 /\ Weight("self") = 6 /\ Weight("built") = 4
    /\ Weight("right") = 3 /\ Weight("return") = 1
  BY DEF Weight

\* The sums up to a place are those of any list that begins alike.
LEMMA SumsAgree ==
    ASSUME NEW q \in Seq(CallOf), NEW r \in Seq(CallOf), NEW m \in Nat, NEW n \in Nat,
           m <= Len(q), m <= n, n <= Len(r), NEW f, NEW g,
           SumsUp(q, m, f), SumsUp(r, n, g),
           \A i \in 1 .. m : q[i] = r[i]
    PROVE  \A k \in 0 .. m : f[k] = g[k] /\ f[k] \in Nat
  <1> DEFINE Bad == {k \in 0 .. m : ~(f[k] = g[k] /\ f[k] \in Nat)}
  <1>1. SUFFICES ASSUME Bad # {} PROVE FALSE
    OBVIOUS
  <1>2. Bad \subseteq Nat
    OBVIOUS
  <1>3. PICK k \in Bad : \A l \in Bad : k <= l
    BY <1>1, <1>2, Least
  <1>4. k \in 0 .. m /\ k \in 0 .. n
    OBVIOUS
  <1>5. f[k] = Partly(q, f, k) /\ g[k] = Partly(r, g, k)
    BY <1>4 DEF SumsUp
  <1>6. k # 0
    BY <1>3, <1>5 DEF Partly
  <1>7. k - 1 \in 0 .. m /\ k - 1 \notin Bad
    BY <1>3, <1>4, <1>6
  <1>8. f[k - 1] = g[k - 1] /\ f[k - 1] \in Nat
    BY <1>7
  <1>9. k \in 1 .. m /\ k \in 1 .. Len(q)
    BY <1>4, <1>6
  <1>10. q[k] = r[k] /\ q[k].at \in Places
    <2>1. q[k] \in CallOf
      BY <1>9, ElementOfSeq
    <2>2. q[k] = r[k]
      BY <1>9
    <2>3. QED
      BY <2>1, <2>2 DEF CallOf
  <1>11. Weight(q[k].at) \in Nat
    BY <1>10, WeightIs DEF Places
  <1>12. f[k] = f[k - 1] + Weight(q[k].at) /\ g[k] = g[k - 1] + Weight(q[k].at)
    BY <1>5, <1>6, <1>10 DEF Partly
  <1>13. f[k] = g[k] /\ f[k] \in Nat
    BY <1>8, <1>11, <1>12
  <1>14. QED
    BY <1>13

\* One call more has its own work left.
LEMMA SumOfMore ==
    ASSUME NEW q \in Seq(CallOf), NEW x \in CallOf
    PROVE  /\ SumOf(q) \in Nat
           /\ SumOf(Append(q, x)) = SumOf(q) + Weight(x.at)
  <1> DEFINE r == Append(q, x)
  <1>1. /\ r \in Seq(CallOf) /\ Len(q) \in Nat /\ Len(r) = Len(q) + 1
        /\ r[Len(r)] = x /\ \A i \in 1 .. Len(q) : q[i] = r[i]
    OBVIOUS
  <1> HIDE DEF r
  <1>2. PICK f : SumsUp(q, Len(q), f) /\ SumOf(q) = f[Len(q)]
    BY <1>1, SumChosen
  <1>3. PICK g : SumsUp(r, Len(r), g) /\ SumOf(r) = g[Len(r)]
    BY <1>1, SumChosen
  <1>4. PICK m \in Nat, n \in Nat : m = Len(q) /\ n = Len(r) /\ n = m + 1
    BY <1>1
  <1>5. SumsUp(q, m, f) /\ SumsUp(r, n, g) /\ m <= Len(q) /\ n <= Len(r) /\ m <= n
    BY <1>2, <1>3, <1>4
  <1>6. \A i \in 1 .. m : q[i] = r[i]
    BY <1>1, <1>4
  <1>7. \A k \in 0 .. m : f[k] = g[k] /\ f[k] \in Nat
    BY <1>1, <1>5, <1>6, SumsAgree
  <1>8. f[m] = g[m] /\ f[m] \in Nat
    BY <1>7
  <1>9. g[n] = g[m] + Weight(x.at)
    <2>1. n \in 0 .. n /\ n # 0 /\ n - 1 = m
      BY <1>4
    <2>2. g[n] = Partly(r, g, n)
      BY <1>5, <2>1 DEF SumsUp
    <2>3. r[n] = x
      BY <1>1, <1>4
    <2>4. QED
      BY <2>1, <2>2, <2>3 DEF Partly
  <1>10. SumOf(q) = f[m] /\ SumOf(r) = g[n]
    BY <1>2, <1>3, <1>4
  <1>11. SumOf(q) \in Nat /\ SumOf(r) = SumOf(q) + Weight(x.at)
    BY <1>8, <1>9, <1>10
  <1>12. QED
    BY <1>11 DEF r

Unvisited == Cardinality(Ids \ visited)

Walking == IF pc = "walk" THEN 1 ELSE 0

MeasureParts == Measure = 7 * Unvisited + SumOf(stack) + Walking

LEMMA MeasureIs == MeasureParts
  BY DEF MeasureParts, Measure, SumOf, Unvisited, Walking

LEMMA SumOfNone == SumOf(<<>>) = 0
  <1>1. Len(<<>>) = 0
    OBVIOUS
  <1>2. PICK f : SumsUp(<<>>, Len(<<>>), f) /\ SumOf(<<>>) = f[Len(<<>>)]
    BY <1>1, SumChosen
  <1>3. f[0] = 0
    BY <1>1, <1>2 DEF SumsUp, Partly
  <1>4. QED
    BY <1>1, <1>2, <1>3

\* The work of the calls, the one on top apart.
LEMMA SumOfStack ==
    ASSUME Inv, stack # <<>>
    PROVE  /\ SumOf(Callers) \in Nat
           /\ SumOf(stack) = SumOf(Callers) + Weight(Top.at)
  <1>1. Callers \in Seq(CallOf) /\ Top \in CallOf
    BY StackFacts
  <1>2. stack = Append(Callers, Top)
    <2>1. stack \in Seq(CallOf)
      BY DEF Inv, Typed
    <2>2. PICK r \in Seq(CallOf) : r = Append(Callers, Top)
      <3>1. Append(Callers, Top) \in Seq(CallOf)
        BY <1>1, AppendProperties
      <3>2. QED
        BY <3>1
    <2>3. Len(r) = Len(stack) /\ r[Len(stack)] = Top
      BY <1>1, <2>2, StackFacts
    <2>4. \A i \in 1 .. Len(Callers) : r[i] = Callers[i]
      BY <1>1, <2>2
    <2>5. ASSUME NEW i \in 1 .. Len(stack) PROVE stack[i] = r[i]
      <3>1. CASE i = Len(stack)
        BY <2>3, <3>1 DEF Top
      <3>2. CASE i \in 1 .. Len(Callers)
        BY <2>4, <3>2, StackFacts
      <3>3. QED
        BY <3>1, <3>2, StackFacts
    <2>6. stack = r
      BY <2>1, <2>3, <2>5, SameSeq
    <2>7. QED
      BY <2>2, <2>6
  <1>3. QED
    BY <1>1, <1>2, SumOfMore

\* The calls that a step of the one on top may leave.
LEMMA SumOfGoes ==
    ASSUME Inv, stack # <<>>, NEW at \in Places
    PROVE  /\ Goes(at) \in Seq(CallOf)
           /\ SumOf(Goes(at)) = SumOf(Callers) + Weight(at)
           /\ \A id, to \in Nat :
                 SumOf(Append(Goes(at), Call(id, to))) = SumOf(Callers) + Weight(at) + 1
  <1> DEFINE top == [Top EXCEPT !.at = at]
  <1>1. Callers \in Seq(CallOf) /\ Top \in CallOf
    BY StackFacts
  <1>2. top \in CallOf /\ top.at = at
    BY <1>1 DEF CallOf
  <1>3. Goes(at) = Append(Callers, top)
    BY DEF Goes
  <1> HIDE DEF top
  <1>4. Goes(at) \in Seq(CallOf)
    BY <1>1, <1>2, <1>3
  <1>5. SumOf(Goes(at)) = SumOf(Callers) + Weight(at)
    BY <1>1, <1>2, <1>3, SumOfMore
  <1>6. ASSUME NEW id \in Nat, NEW to \in Nat
        PROVE  SumOf(Append(Goes(at), Call(id, to))) = SumOf(Callers) + Weight(at) + 1
    <2>1. PICK x \in CallOf : x = Call(id, to) /\ x.at = "enter"
      <3>1. Call(id, to) \in CallOf /\ Call(id, to).at = "enter"
        BY DEF Call, CallOf, Places
      <3>2. QED
        BY <3>1
    <2>2. SumOf(Append(Goes(at), x)) = SumOf(Goes(at)) + Weight(x.at)
      BY <1>4, SumOfMore
    <2>3. QED
      BY <1>5, <2>1, <2>2, WeightIs
  <1>7. QED
    BY <1>4, <1>5, <1>6

LEMMA LeftOver ==
    ASSUME Inv
    PROVE  /\ IsFiniteSet(Ids \ visited)
           /\ Unvisited \in Nat
  BY EntriesFacts, FS_Subset, FS_CardinalityType DEF Inv, Typed, Unvisited

LEMMA SumType == ASSUME Inv PROVE SumOf(stack) \in Nat
  <1>1. CASE stack = <<>>
    BY <1>1, SumOfNone
  <1>2. CASE stack # <<>>
    <2>1. Top.at \in Places
      BY <1>2, StackFacts DEF CallOf
    <2>2. Weight(Top.at) \in Nat
      BY <2>1, WeightIs DEF Places
    <2>3. QED
      BY <1>2, <2>2, SumOfStack
  <1>3. QED
    BY <1>1, <1>2

\* A step that leaves less of the calls' work.
LEMMA LessWork ==
    ASSUME Inv, pc = "walk", pc' = "walk", UNCHANGED <<entries, visited>>,
           SumOf(stack') \in Nat, SumOf(stack') < SumOf(stack)
    PROVE  Measure' < Measure
  <1>1. Unvisited \in Nat /\ SumOf(stack) \in Nat
    BY LeftOver, SumType
  <1>2. Measure = 7 * Unvisited + SumOf(stack) + Walking
    BY MeasureIs DEF MeasureParts
  <1>3. MeasureParts'
    BY MeasureIs, PTL
  <1>4. Measure' = 7 * Unvisited' + SumOf(stack') + Walking'
    BY <1>3 DEF MeasureParts
  <1>5. Unvisited' = Unvisited /\ Walking = 1 /\ Walking' = 1
    BY DEF Unvisited, Ids, Walking
  <1>6. QED
    BY <1>1, <1>2, <1>4, <1>5

\* The walk ends.
LEMMA NoWalk ==
    ASSUME Inv, pc = "walk", pc' # "walk", UNCHANGED <<entries, visited, stack>>
    PROVE  Measure' < Measure
  <1>1. Unvisited \in Nat /\ SumOf(stack) \in Nat
    BY LeftOver, SumType
  <1>2. Measure = 7 * Unvisited + SumOf(stack) + Walking
    BY MeasureIs DEF MeasureParts
  <1>3. MeasureParts'
    BY MeasureIs, PTL
  <1>4. Measure' = 7 * Unvisited' + SumOf(stack') + Walking'
    BY <1>3 DEF MeasureParts
  <1>5. /\ Unvisited' = Unvisited /\ SumOf(stack') = SumOf(stack)
        /\ Walking = 1 /\ Walking' = 0
    BY DEF Unvisited, Ids, Walking
  <1>6. QED
    BY <1>1, <1>2, <1>4, <1>5

LEMMA StepsEnd == Inv /\ Next => Measure' < Measure
  <1> SUFFICES ASSUME Inv, Next PROVE Measure' < Measure
    OBVIOUS
  <1>1. stack # <<>> =>
           /\ SumOf(Callers) \in Nat
           /\ SumOf(stack) = SumOf(Callers) + Weight(Top.at)
    BY SumOfStack
  <1>2. ASSUME stack # <<>>, NEW at \in Places
        PROVE  SumOf(Goes(at)) = SumOf(Callers) + Weight(at)
    BY <1>2, SumOfGoes
  <1>3. ASSUME stack # <<>>, NEW at \in Places, NEW id \in Nat, NEW to \in Nat
        PROVE  SumOf(Append(Goes(at), Call(id, to))) = SumOf(Callers) + Weight(at) + 1
    BY <1>3, SumOfGoes
  <1>4. CASE EnterNothing \/ Return
    <2>1. /\ stack # <<>> /\ Top.at \in {"enter", "return"} /\ pc = "walk" /\ pc' = "walk"
          /\ stack' = Callers /\ UNCHANGED <<entries, visited>>
      BY <1>4 DEF EnterNothing, Return, Running
    <2>2. SumOf(stack') \in Nat /\ SumOf(stack') < SumOf(stack)
      BY <1>1, <2>1, WeightIs
    <2>3. QED
      BY <2>1, <2>2, LessWork
  <1>5. CASE StorageBuilt \/ Stream \/ Tolerate
    <2>1. /\ stack # <<>> /\ Top.at \in {"built", "self"} /\ pc = "walk" /\ pc' = "walk"
          /\ stack' = Goes("right") /\ UNCHANGED <<entries, visited>>
      BY <1>5 DEF StorageBuilt, Stream, Tolerate, Running
    <2>2. SumOf(Goes("right")) = SumOf(Callers) + Weight("right")
      BY <1>2, <2>1 DEF Places
    <2>3. SumOf(stack') \in Nat /\ SumOf(stack') < SumOf(stack)
      BY <1>1, <2>1, <2>2, WeightIs
    <2>4. QED
      BY <2>1, <2>3, LessWork
  <1>6. CASE Storage
    <2>1. /\ stack # <<>> /\ Top.at = "self" /\ pc = "walk" /\ pc' = "walk"
          /\ stack' = Append(Goes("built"), Call(Entry(Top.id).childID, Top.id))
          /\ UNCHANGED <<entries, visited>>
      BY <1>6 DEF Storage, Running
    <2>2. Entry(Top.id).childID \in Nat /\ Top.id \in Nat
      BY <2>1, EntriesFacts, StackFacts DEF Inv, Typed, CallOf
    <2>3. SumOf(stack') = SumOf(Callers) + Weight("built") + 1
      BY <1>3, <2>1, <2>2 DEF Places
    <2>4. SumOf(stack') \in Nat /\ SumOf(stack') < SumOf(stack)
      BY <1>1, <2>1, <2>3, WeightIs
    <2>5. QED
      BY <2>1, <2>4, LessWork
  <1>7. CASE Right
    <2>1. /\ stack # <<>> /\ Top.at = "right" /\ pc = "walk" /\ pc' = "walk"
          /\ stack' = Append(Goes("return"), Call(Entry(Top.id).rightSib, Top.to))
          /\ UNCHANGED <<entries, visited>>
      BY <1>7 DEF Right, Running
    <2>2. Entry(Top.id).rightSib \in Nat /\ Top.to \in Nat
      BY <2>1, EntriesFacts, StackFacts DEF Inv, Typed, CallOf
    <2>3. SumOf(stack') = SumOf(Callers) + Weight("return") + 1
      BY <1>3, <2>1, <2>2 DEF Places
    <2>4. SumOf(stack') \in Nat /\ SumOf(stack') < SumOf(stack)
      BY <1>1, <2>1, <2>3, WeightIs
    <2>5. QED
      BY <2>1, <2>4, LessWork
  <1>8. CASE Enter
    <2>1. /\ stack # <<>> /\ Top.at = "enter" /\ pc = "walk" /\ pc' = "walk"
          /\ Top.id \in Ids /\ Top.id \notin visited
          /\ visited' = visited \cup {Top.id} /\ UNCHANGED entries
          /\ stack' = Append(Goes("self"), Call(Entry(Top.id).leftSib, Top.to))
      BY <1>8 DEF Enter, Running, Mark
    <2>2. Entry(Top.id).leftSib \in Nat /\ Top.to \in Nat
      BY <2>1, EntriesFacts, StackFacts DEF Inv, Typed, CallOf
    <2>3. SumOf(stack') = SumOf(Callers) + Weight("self") + 1
      BY <1>3, <2>1, <2>2 DEF Places
    <2>4. SumOf(stack') = SumOf(stack) + 6 /\ SumOf(stack) \in Nat
      BY <1>1, <2>1, <2>3, WeightIs
    <2>5. Unvisited' = Unvisited - 1
      <3>1. Ids' \ visited' = (Ids \ visited) \ {Top.id} /\ Top.id \in Ids \ visited
        BY <2>1 DEF Ids
      <3>2. Cardinality((Ids \ visited) \ {Top.id}) = Cardinality(Ids \ visited) - 1
        BY <3>1, LeftOver, FS_RemoveElement
      <3>3. QED
        BY <3>1, <3>2 DEF Unvisited
    <2>6. Walking = 1 /\ Walking' = 1
      BY <2>1 DEF Walking
    <2>7. Measure = 7 * Unvisited + SumOf(stack) + Walking
      BY MeasureIs DEF MeasureParts
    <2>8. MeasureParts'
      BY MeasureIs, PTL
    <2>9. Measure' = 7 * Unvisited' + SumOf(stack') + Walking'
      BY <2>8 DEF MeasureParts
    <2>10. Unvisited \in Nat
      BY LeftOver
    <2>11. QED
      BY <2>4, <2>5, <2>6, <2>7, <2>9, <2>10
  <1>9. CASE EnterFails \/ Refuse \/ Finish
    BY <1>9, NoWalk DEF EnterFails, Refuse, Finish, Running
  <1>10. QED
    BY <1>4, <1>5, <1>6, <1>7, <1>8, <1>9 DEF Next

(* For every directory, each step of the walk lowers a natural number: it   *)
(* ends, whatever the links, and no entry is entered twice.                 *)
THEOREM WalkEnds == Spec => Ends
  <1>1. Inv /\ [Next]_vars => [Measure' < Measure]_vars
    BY StepsEnd
  <1>2. QED
    BY <1>1, InvInit, InvNext, PTL DEF Spec, Ends


-----------------------------------------------------------------------------
(* What the walk accepts                                                    *)
(*                                                                          *)
(* The operators of this part take the directory as an argument, as it      *)
(* never changes. A link is known once the entry it leaves is marked; it    *)
(* has arrived unless a call is still to follow it (Due), or the call on    *)
(* top has come along it and not yet looked at the entry (Arriving).        *)

EntryIn(e, id) == e[id + 1]

IdsIn(e) == 0 .. Len(e) - 1

RootLink(e) == <<0, "root", EntryIn(e, 0).childID>>
LeftLink(e, id) == <<id, "left", EntryIn(e, id).leftSib>>
RightLink(e, id) == <<id, "right", EntryIn(e, id).rightSib>>
ChildLink(e, id) == <<id, "child", EntryIn(e, id).childID>>

HasChildren(e, id) == id = 0 \/ EntryIn(e, id).objectType = "storage"

LinksIn(e, id) ==
    {LeftLink(e, id), RightLink(e, id)}
    \cup (IF HasChildren(e, id) THEN {ChildLink(e, id)} ELSE {})

\* The links a call still has to follow.
Due(e, c) ==
    IF c.at = "self" THEN {ChildLink(e, c.id), RightLink(e, c.id)}
    ELSE IF c.at \in {"built", "right"} THEN {RightLink(e, c.id)}
    ELSE {}

DueOf(e, q) == UNION {Due(e, q[i]) : i \in 1 .. Len(q)}

\* The link a call follows by the call it waits for.
LinkOf(e, c) ==
    IF c.at = "self" THEN LeftLink(e, c.id)
    ELSE IF c.at = "built" THEN ChildLink(e, c.id)
    ELSE RightLink(e, c.id)

\* The link along which the call c has come, called by the last of q.
Arriving(e, q, c) ==
    IF c.at # "enter" THEN {}
    ELSE IF q = <<>> THEN {RootLink(e)} ELSE {LinkOf(e, q[Len(q)])}

Known(e, V) == {RootLink(e)} \cup UNION {LinksIn(e, id) : id \in V}

\* The entries of calls that have not looked at their own type.
Unread(c) == IF c.at = "self" THEN {c.id} ELSE {}

UnreadOf(q) == UNION {Unread(q[i]) : i \in 1 .. Len(q)}

IdsOf(q) == {q[i].id : i \in 1 .. Len(q)}

\* The calls that wait have each marked an entry of its own.
Waiting(V, q) ==
    \A i \in 1 .. Len(q) :
        /\ q[i].at # "enter"
        /\ q[i].id \in V
        /\ \A j \in 1 .. i - 1 : q[j].id # q[i].id

\* The links that have arrived, A, make trees of the marked entries, V.
Arrive(V, A) ==
    /\ \A l \in A : l[3] \in V \cup {NoStream}
    /\ \A l, m \in A : l[3] = m[3] /\ l[3] # NoStream => l = m
    /\ \A id \in V : \E l \in A : l[3] = id

AcceptedTypes == {"storage", "stream", "unallocated"}

\* The types of the marked entries are accepted, those of U aside.
TypesRead(e, V, U) == \A id \in V \ U : EntryIn(e, id).objectType \in AcceptedTypes

\* Every set that has the root's children and follows its links has all of V.
ClosedUnder(e, X) ==
    /\ {EntryIn(e, 0).childID} \cap IdsIn(e) \subseteq X
    /\ \A id \in X : {l[3] : l \in LinksIn(e, id)} \cap IdsIn(e) \subseteq X

Grounded(e, V) == \A X \in SUBSET IdsIn(e) : ClosedUnder(e, X) => V \subseteq X

\* The walk with the call c on top and those of q waiting.
Walked(e, V, q, c) ==
    /\ Waiting(V, q)
    /\ c.at # "enter" => c.id \in V /\ c.id \notin IdsOf(q)
    /\ \A l \in Arriving(e, q, c) :
          l \in Known(e, V) /\ l \notin DueOf(e, q) /\ l[3] = c.id
    /\ Arrive(V, Known(e, V) \ (DueOf(e, q) \cup Due(e, c) \cup Arriving(e, q, c)))
    /\ TypesRead(e, V, UnreadOf(q) \cup Unread(c))

\* No call is left.
Complete(e, V) == Arrive(V, Known(e, V)) /\ TypesRead(e, V, {})

\* The two ways in which the call on top refuses its entry.
Refused ==
    \/ Top.at = "enter" /\ Top.id # NoStream /\ Top.id \notin Ids \ visited
    \/ Top.at = "self" /\ Entry(Top.id).objectType \notin AcceptedTypes

TreeInv ==
    /\ Inv
    /\ Grounded(entries, visited)
    /\ IF stack = <<>> THEN Complete(entries, visited)
       ELSE Walked(entries, visited, Callers, Top)
    /\ pc = "done" => stack = <<>>
    /\ pc = "error" => stack # <<>> /\ Refused

-----------------------------------------------------------------------------
\* One call more.
LEMMA MoreWaiting ==
    ASSUME NEW e, NEW q \in Seq(CallOf), NEW t \in CallOf
    PROVE  /\ DueOf(e, Append(q, t)) = DueOf(e, q) \cup Due(e, t)
           /\ UnreadOf(Append(q, t)) = UnreadOf(q) \cup Unread(t)
           /\ IdsOf(Append(q, t)) = IdsOf(q) \cup {t.id}
           /\ \A V : Waiting(V, Append(q, t))
                     <=> Waiting(V, q) /\ t.at # "enter" /\ t.id \in V /\ t.id \notin IdsOf(q)
  <1>1. PICK r : r = Append(q, t)
    OBVIOUS
  <1>2. PICK n \in Nat : n = Len(q)
    OBVIOUS
  <1>3. /\ Len(r) = n + 1 /\ r[n + 1] = t
        /\ \A i \in 1 .. n : r[i] = q[i]
    BY <1>1, <1>2
  <1>4. \A i \in 1 .. n + 1 : i \in 1 .. n \/ i = n + 1
    BY <1>2
  <1>5. n + 1 \in 1 .. n + 1 /\ \A i \in 1 .. n : i \in 1 .. n + 1
    BY <1>2
  <1>6. DueOf(e, r) = DueOf(e, q) \cup Due(e, t)
    <2>1. ASSUME NEW x PROVE x \in DueOf(e, r) <=> \E i \in 1 .. n + 1 : x \in Due(e, r[i])
      BY <1>3, Zenon DEF DueOf
    <2>2. ASSUME NEW x PROVE x \in DueOf(e, q) <=> \E i \in 1 .. n : x \in Due(e, q[i])
      BY <1>2, Zenon DEF DueOf
    <2>3. ASSUME NEW x PROVE x \in DueOf(e, r) <=> x \in DueOf(e, q) \/ x \in Due(e, t)
      BY <1>3, <1>4, <1>5, <2>1, <2>2, Zenon
    <2>4. QED
      BY <2>3, Zenon
  <1>7. UnreadOf(r) = UnreadOf(q) \cup Unread(t)
    <2>1. ASSUME NEW x PROVE x \in UnreadOf(r) <=> \E i \in 1 .. n + 1 : x \in Unread(r[i])
      BY <1>3, Zenon DEF UnreadOf
    <2>2. ASSUME NEW x PROVE x \in UnreadOf(q) <=> \E i \in 1 .. n : x \in Unread(q[i])
      BY <1>2, Zenon DEF UnreadOf
    <2>3. ASSUME NEW x PROVE x \in UnreadOf(r) <=> x \in UnreadOf(q) \/ x \in Unread(t)
      BY <1>3, <1>4, <1>5, <2>1, <2>2, Zenon
    <2>4. QED
      BY <2>3, Zenon
  <1>8. IdsOf(r) = IdsOf(q) \cup {t.id}
    <2>1. ASSUME NEW x PROVE x \in IdsOf(r) <=> \E i \in 1 .. n + 1 : x = r[i].id
      BY <1>3, Zenon DEF IdsOf
    <2>2. ASSUME NEW x PROVE x \in IdsOf(q) <=> \E i \in 1 .. n : x = q[i].id
      BY <1>2, Zenon DEF IdsOf
    <2>3. ASSUME NEW x PROVE x \in IdsOf(r) <=> x \in IdsOf(q) \/ x = t.id
      BY <1>3, <1>4, <1>5, <2>1, <2>2
    <2>4. QED
      BY <2>3, Zenon
  <1>9. ASSUME NEW V
        PROVE  Waiting(V, r)
               <=> Waiting(V, q) /\ t.at # "enter" /\ t.id \in V /\ t.id \notin IdsOf(q)
    <2>1. ASSUME Waiting(V, r)
          PROVE  Waiting(V, q) /\ t.at # "enter" /\ t.id \in V /\ t.id \notin IdsOf(q)
      <3>1. t.at # "enter" /\ t.id \in V /\ \A j \in 1 .. n : r[j].id # t.id
        <4>1. PICK k \in 1 .. n + 1 : k = n + 1
          BY <1>5
        <4>2. k \in 1 .. Len(r) /\ r[k] = t
          BY <1>3, <4>1
        <4>3. r[k].at # "enter" /\ r[k].id \in V /\ \A j \in 1 .. k - 1 : r[j].id # r[k].id
          BY <2>1, <4>2, Zenon DEF Waiting
        <4>4. \A j \in 1 .. n : j \in 1 .. k - 1
          BY <1>2, <4>1
        <4>5. QED
          BY <4>2, <4>3, <4>4, Zenon
      <3>2. t.id \notin IdsOf(q)
        BY <1>2, <1>3, <3>1, Zenon DEF IdsOf
      <3>3. ASSUME NEW i \in 1 .. n
            PROVE  /\ q[i].at # "enter" /\ q[i].id \in V
                   /\ \A j \in 1 .. i - 1 : q[j].id # q[i].id
        <4>1. \A j \in 1 .. i - 1 : j \in 1 .. n
          BY <1>2
        <4>2. QED
          BY <1>3, <1>5, <2>1, <4>1, Zenon DEF Waiting
      <3>4. QED
        BY <1>2, <3>1, <3>2, <3>3, Zenon DEF Waiting
    <2>2. ASSUME Waiting(V, q), t.at # "enter", t.id \in V, t.id \notin IdsOf(q)
          PROVE  Waiting(V, r)
      <3>1. ASSUME NEW i \in 1 .. n + 1
            PROVE  /\ r[i].at # "enter" /\ r[i].id \in V
                   /\ \A j \in 1 .. i - 1 : r[j].id # r[i].id
        <4>1. CASE i = n + 1
          <5>1. \A j \in 1 .. i - 1 : j \in 1 .. n
            BY <1>2, <4>1
          <5>2. QED
            BY <1>2, <1>3, <2>2, <4>1, <5>1, Zenon DEF IdsOf
        <4>2. CASE i \in 1 .. n
          <5>1. \A j \in 1 .. i - 1 : j \in 1 .. n
            BY <1>2, <4>2
          <5>2. QED
            BY <1>2, <1>3, <2>2, <4>2, <5>1, Zenon DEF Waiting
        <4>3. QED
          BY <1>4, <4>1, <4>2
      <3>2. QED
        BY <1>3, <3>1, Zenon DEF Waiting
    <2>3. QED
      BY <2>1, <2>2
  <1>10. QED
    BY <1>1, <1>6, <1>7, <1>8, <1>9, Zenon

\* No call waits.
LEMMA NoneWaiting ==
    ASSUME NEW e
    PROVE  /\ DueOf(e, <<>>) = {} /\ UnreadOf(<<>>) = {} /\ IdsOf(<<>>) = {}
           /\ \A V : Waiting(V, <<>>)
  <1>1. Len(<<>>) = 0 /\ 1 .. 0 = {}
    OBVIOUS
  <1>2. QED
    BY <1>1, Zenon DEF DueOf, UnreadOf, IdsOf, Waiting

\* Links of marked entries and of calls are told apart by their first two parts.
LEMMA LinkParts ==
    ASSUME NEW e, NEW id
    PROVE  /\ LeftLink(e, id)[1] = id /\ LeftLink(e, id)[2] = "left"
           /\ LeftLink(e, id)[3] = EntryIn(e, id).leftSib
           /\ RightLink(e, id)[1] = id /\ RightLink(e, id)[2] = "right"
           /\ RightLink(e, id)[3] = EntryIn(e, id).rightSib
           /\ ChildLink(e, id)[1] = id /\ ChildLink(e, id)[2] = "child"
           /\ ChildLink(e, id)[3] = EntryIn(e, id).childID
           /\ RootLink(e)[2] = "root" /\ RootLink(e)[3] = EntryIn(e, 0).childID
  BY DEF LeftLink, RightLink, ChildLink, RootLink

\* The links that calls still have to follow are of their own entries.
LEMMA DueParts ==
    ASSUME NEW e, NEW q
    PROVE  \A l \in DueOf(e, q) : l[1] \in IdsOf(q) /\ l[2] \in {"child", "right"}
  <1>1. ASSUME NEW l \in DueOf(e, q) PROVE l[1] \in IdsOf(q) /\ l[2] \in {"child", "right"}
    <2>1. PICK i \in 1 .. Len(q) : l \in Due(e, q[i])
      BY Zenon DEF DueOf
    <2>2. l = ChildLink(e, q[i].id) \/ l = RightLink(e, q[i].id)
      BY <2>1, Zenon DEF Due
    <2>3. l[1] = q[i].id /\ l[2] \in {"child", "right"}
      BY <2>2, LinkParts
    <2>4. q[i].id \in IdsOf(q)
      BY DEF IdsOf
    <2>5. QED
      BY <2>3, <2>4
  <1>2. QED
    BY <1>1

\* The known links that leave an entry are its own; they are known once it is marked.
LEMMA KnownParts ==
    ASSUME NEW e, NEW V
    PROVE  /\ \A l \in Known(e, V) : l = RootLink(e) \/ l[1] \in V
           /\ \A id : Known(e, V \cup {id}) = Known(e, V) \cup LinksIn(e, id)
           /\ \A id : \A l \in LinksIn(e, id) :
                 l = LeftLink(e, id) \/ l = RightLink(e, id) \/ l = ChildLink(e, id)
           /\ \A id : LeftLink(e, id) \in LinksIn(e, id) /\ RightLink(e, id) \in LinksIn(e, id)
           /\ \A id : HasChildren(e, id) => ChildLink(e, id) \in LinksIn(e, id)
           /\ \A id : ~HasChildren(e, id) => ChildLink(e, id) \notin LinksIn(e, id)
           /\ \A id \in V : LinksIn(e, id) \subseteq Known(e, V)
           /\ RootLink(e) \in Known(e, V)
  <1>1. ASSUME NEW id, NEW l \in LinksIn(e, id)
        PROVE  l = LeftLink(e, id) \/ l = RightLink(e, id) \/ l = ChildLink(e, id)
    BY Zenon DEF LinksIn
  <1>2. ASSUME NEW id PROVE LeftLink(e, id) \in LinksIn(e, id) /\ RightLink(e, id) \in LinksIn(e, id)
    BY Zenon DEF LinksIn
  <1>3. ASSUME NEW id, HasChildren(e, id) PROVE ChildLink(e, id) \in LinksIn(e, id)
    BY <1>3, Zenon DEF LinksIn
  <1>4. ASSUME NEW id, ~HasChildren(e, id) PROVE ChildLink(e, id) \notin LinksIn(e, id)
    <2>1. LinksIn(e, id) = {LeftLink(e, id), RightLink(e, id)}
      BY <1>4, Zenon DEF LinksIn
    <2>2. ChildLink(e, id) # LeftLink(e, id) /\ ChildLink(e, id) # RightLink(e, id)
      BY DEF ChildLink, LeftLink, RightLink
    <2>3. QED
      BY <2>1, <2>2, Zenon
  <1>5. ASSUME NEW l \in Known(e, V) PROVE l = RootLink(e) \/ l[1] \in V
    <2>1. CASE \E id \in V : l \in LinksIn(e, id)
      <3>1. PICK id \in V : l \in LinksIn(e, id)
        BY <2>1
      <3>2. l[1] = id
        BY <1>1, <3>1, LinkParts
      <3>3. QED
        BY <3>1, <3>2
    <2>2. QED
      BY <2>1, Zenon DEF Known
  <1>6. ASSUME NEW id PROVE Known(e, V \cup {id}) = Known(e, V) \cup LinksIn(e, id)
    BY Zenon DEF Known
  <1>7. ASSUME NEW id \in V PROVE LinksIn(e, id) \subseteq Known(e, V)
    BY Zenon DEF Known
  <1>8. RootLink(e) \in Known(e, V)
    BY Zenon DEF Known
  <1>9. QED
    BY <1>1, <1>2, <1>3, <1>4, <1>5, <1>6, <1>7, <1>8, Zenon

\* A link of an entry is known only if the entry is marked and the link one of its own.
LEMMA KnownLink ==
    ASSUME NEW e, NEW V, NEW id
    PROVE  /\ id \notin V => /\ LeftLink(e, id) \notin Known(e, V)
                             /\ RightLink(e, id) \notin Known(e, V)
                             /\ ChildLink(e, id) \notin Known(e, V)
           /\ ~HasChildren(e, id) => ChildLink(e, id) \notin Known(e, V)
  <1>1. ASSUME NEW l \in Known(e, V), l[2] # "root" PROVE \E k \in V : l \in LinksIn(e, k) /\ l[1] = k
    <2>1. l # RootLink(e)
      BY <1>1, LinkParts
    <2>2. PICK k \in V : l \in LinksIn(e, k)
      BY <2>1, Zenon DEF Known
    <2>3. l = LeftLink(e, k) \/ l = RightLink(e, k) \/ l = ChildLink(e, k)
      BY <2>2, KnownParts, Zenon
    <2>4. l[1] = k
      BY <2>3, LinkParts
    <2>5. QED
      BY <2>2, <2>4
  <1>2. ASSUME NEW l, l[1] = id, l[2] # "root", l \in Known(e, V)
        PROVE  id \in V /\ l \in LinksIn(e, id)
    BY <1>1, <1>2
  <1>3. /\ LeftLink(e, id)[1] = id /\ LeftLink(e, id)[2] # "root"
        /\ RightLink(e, id)[1] = id /\ RightLink(e, id)[2] # "root"
        /\ ChildLink(e, id)[1] = id /\ ChildLink(e, id)[2] # "root"
    BY LinkParts
  <1>4. ~HasChildren(e, id) => ChildLink(e, id) \notin LinksIn(e, id)
    BY KnownParts, Zenon
  <1>5. QED
    BY <1>2, <1>3, <1>4, Zenon

\* The call on top has done its work: its link, if it had come along one, arrives.
LEMMA TopReturns ==
    ASSUME NEW e, NEW V, NEW q \in Seq(CallOf), NEW c \in CallOf, Walked(e, V, q, c),
           c.at = "return" \/ (c.at = "enter" /\ c.id = NoStream)
    PROVE  /\ Waiting(V, q)
           /\ Arrive(V, Known(e, V) \ DueOf(e, q))
           /\ TypesRead(e, V, UnreadOf(q))
  <1> DEFINE A == Known(e, V) \ (DueOf(e, q) \cup Due(e, c) \cup Arriving(e, q, c))
             B == Known(e, V) \ DueOf(e, q)
  <1>1. Due(e, c) = {} /\ Unread(c) = {}
    BY DEF Due, Unread
  <1>2. Waiting(V, q) /\ Arrive(V, A) /\ TypesRead(e, V, UnreadOf(q))
    BY <1>1, Zenon DEF Walked
  <1>3. \A l \in Arriving(e, q, c) : l \in B /\ l[3] = NoStream
    <2>1. CASE c.at = "return"
      BY <2>1, Zenon DEF Arriving
    <2>2. CASE c.at = "enter" /\ c.id = NoStream
      BY <2>2, Zenon DEF Walked
    <2>3. QED
      BY <2>1, <2>2
  <1>4. /\ A \subseteq B
        /\ \A l \in B : l \in A \/ l[3] = NoStream
    BY <1>1, <1>3
  <1> HIDE DEF A, B
  <1>5. Arrive(V, B)
    BY <1>2, <1>4, Zenon DEF Arrive
  <1>6. QED
    BY <1>2, <1>5 DEF B

LEMMA LastReturns ==
    ASSUME NEW e, NEW V, NEW c \in CallOf, Walked(e, V, <<>>, c),
           c.at = "return" \/ (c.at = "enter" /\ c.id = NoStream)
    PROVE  Complete(e, V)
  <1>1. <<>> \in Seq(CallOf)
    OBVIOUS
  <1>2. Arrive(V, Known(e, V) \ DueOf(e, <<>>)) /\ TypesRead(e, V, UnreadOf(<<>>))
    BY <1>1, TopReturns
  <1>3. DueOf(e, <<>>) = {} /\ UnreadOf(<<>>) = {}
    BY NoneWaiting
  <1>4. Known(e, V) \ {} = Known(e, V)
    OBVIOUS
  <1>5. QED
    BY <1>2, <1>3, <1>4, Zenon DEF Complete

LEMMA CallReturns ==
    ASSUME NEW e, NEW V, NEW p \in Seq(CallOf), NEW t \in CallOf, NEW c \in CallOf,
           Walked(e, V, Append(p, t), c),
           c.at = "return" \/ (c.at = "enter" /\ c.id = NoStream)
    PROVE  Walked(e, V, p, t)
  <1>1. PICK q \in Seq(CallOf) : q = Append(p, t)
    <2>1. Append(p, t) \in Seq(CallOf)
      BY AppendProperties
    <2>2. QED
      BY <2>1
  <1>2. Waiting(V, q) /\ Arrive(V, Known(e, V) \ DueOf(e, q)) /\ TypesRead(e, V, UnreadOf(q))
    BY <1>1, TopReturns
  <1>3. /\ DueOf(e, q) = DueOf(e, p) \cup Due(e, t)
        /\ UnreadOf(q) = UnreadOf(p) \cup Unread(t)
        /\ Waiting(V, p) /\ t.at # "enter" /\ t.id \in V /\ t.id \notin IdsOf(p)
    BY <1>1, <1>2, MoreWaiting
  <1>4. Arriving(e, p, t) = {}
    BY <1>3, Zenon DEF Arriving
  <1>5. Known(e, V) \ DueOf(e, q) = Known(e, V) \ (DueOf(e, p) \cup Due(e, t) \cup {})
    BY <1>3
  <1>6. QED
    BY <1>2, <1>3, <1>4, <1>5, Zenon DEF Walked

\* The link of a call that waits is neither due nor unknown once it is followed.
LEMMA NextLink ==
    ASSUME NEW e, NEW q \in Seq(CallOf), NEW t \in CallOf, NEW d \in CallOf,
           t.id \notin IdsOf(q), t.at \in {"self", "built", "return"}, d.at = "enter"
    PROVE  /\ Arriving(e, Append(q, t), d) = {LinkOf(e, t)}
           /\ LinkOf(e, t) \notin DueOf(e, Append(q, t))
  <1>1. Arriving(e, Append(q, t), d) = {LinkOf(e, t)}
    <2>1. PICK r : r = Append(q, t)
      OBVIOUS
    <2>2. r # <<>> /\ r[Len(r)] = t
      BY <2>1
    <2>3. Arriving(e, r, d) = {LinkOf(e, t)}
      BY <2>2, Zenon DEF Arriving
    <2>4. QED
      BY <2>1, <2>3
  <1>2. LinkOf(e, t)[1] = t.id
    BY LinkParts DEF LinkOf
  <1>3. LinkOf(e, t) \notin DueOf(e, q)
    BY <1>2, DueParts
  <1>4. LinkOf(e, t) \notin Due(e, t)
    <2>1. CASE t.at = "self"
      <3>1. LinkOf(e, t)[2] = "left" /\ \A l \in Due(e, t) : l[2] \in {"child", "right"}
        BY <2>1, LinkParts DEF LinkOf, Due
      <3>2. QED
        BY <3>1
    <2>2. CASE t.at = "built"
      <3>1. LinkOf(e, t)[2] = "child" /\ \A l \in Due(e, t) : l[2] = "right"
        BY <2>2, LinkParts DEF LinkOf, Due
      <3>2. QED
        BY <3>1
    <2>3. CASE t.at = "return"
      BY <2>3, Zenon DEF Due
    <2>4. QED
      BY <2>1, <2>2, <2>3
  <1>5. QED
    BY <1>1, <1>3, <1>4, MoreWaiting

\* The call on top marks its entry and follows the link to the left.
LEMMA TopMarks ==
    ASSUME NEW e, NEW V, NEW q \in Seq(CallOf), NEW c \in CallOf, Walked(e, V, q, c),
           c.at = "enter", c.id # NoStream, c.id \notin V,
           NEW t \in CallOf, t.at = "self", t.id = c.id,
           NEW d \in CallOf, d.at = "enter", d.id = EntryIn(e, c.id).leftSib
    PROVE  Walked(e, V \cup {c.id}, Append(q, t), d)
  <1>1. PICK id : id = c.id
    OBVIOUS
  <1>2. PICK W : W = V \cup {id}
    OBVIOUS
  <1> DEFINE A == Known(e, V) \ (DueOf(e, q) \cup Due(e, c) \cup Arriving(e, q, c))
             B == Known(e, W) \ (DueOf(e, Append(q, t)) \cup Due(e, d) \cup {LinkOf(e, t)})
  <1>3. Due(e, c) = {} /\ Unread(c) = {} /\ Due(e, d) = {} /\ Unread(d) = {} /\ Unread(t) = {id}
    BY <1>1, Zenon DEF Due, Unread
  <1>4. /\ Waiting(V, q) /\ Arrive(V, A) /\ TypesRead(e, V, UnreadOf(q))
        /\ \A l \in Arriving(e, q, c) : l \in Known(e, V) /\ l \notin DueOf(e, q) /\ l[3] = id
    BY <1>1, <1>3, Zenon DEF Walked
  <1>5. id \notin IdsOf(q) /\ IdsOf(q) \subseteq V
    BY <1>1, <1>4, Zenon DEF IdsOf, Waiting
  <1>6. Waiting(W, Append(q, t))
    <2>1. Waiting(W, q)
      BY <1>2, <1>4, Zenon DEF Waiting
    <2>2. t.at # "enter" /\ t.id \in W /\ t.id \notin IdsOf(q)
      BY <1>1, <1>2, <1>5
    <2>3. QED
      BY <2>1, <2>2, MoreWaiting
  <1>7. /\ DueOf(e, Append(q, t)) = DueOf(e, q) \cup Due(e, t)
        /\ UnreadOf(Append(q, t)) = UnreadOf(q) \cup {id}
    BY <1>3, MoreWaiting
  <1>8. Due(e, t) = {ChildLink(e, id), RightLink(e, id)} /\ LinkOf(e, t) = LeftLink(e, id)
    BY <1>1, Zenon DEF Due, LinkOf
  <1>9. /\ Arriving(e, Append(q, t), d) = {LinkOf(e, t)}
        /\ LinkOf(e, t) \notin DueOf(e, Append(q, t))
    BY <1>1, <1>5, NextLink
  <1>10. LinkOf(e, t) \in Known(e, W) /\ LinkOf(e, t)[3] = d.id
    <2>1. id \in W
      BY <1>2
    <2>2. LeftLink(e, id) \in Known(e, W)
      BY <2>1, KnownParts
    <2>3. QED
      BY <1>1, <1>8, <2>2, LinkParts
  <1>11. B = A \cup Arriving(e, q, c)
    <2>1. Known(e, W) = Known(e, V) \cup LinksIn(e, id)
      BY <1>2, KnownParts
    <2>2. \A l \in LinksIn(e, id) : l \in {ChildLink(e, id), RightLink(e, id), LeftLink(e, id)}
      BY KnownParts
    <2>3. /\ LeftLink(e, id) \notin Known(e, V)
          /\ RightLink(e, id) \notin Known(e, V)
          /\ ChildLink(e, id) \notin Known(e, V)
      BY <1>1, KnownLink
    <2>4. B = Known(e, V) \ DueOf(e, q)
      BY <1>3, <1>7, <1>8, <2>1, <2>2, <2>3
    <2>5. QED
      BY <1>3, <1>4, <2>4
  <1> HIDE DEF A, B
  <1>12. Arrive(W, B)
    <2>1. PICK l \in B : l[3] = id
      <3>1. \E l : l \in Arriving(e, q, c)
        BY Zenon DEF Arriving
      <3>2. QED
        BY <1>4, <1>11, <3>1
    <2>2. \A x \in B : x \in A \/ x[3] = id
      BY <1>4, <1>11
    <2>3. \A x \in A : x[3] \in V \cup {NoStream} /\ x[3] # id /\ x \in B
      BY <1>1, <1>4, <1>11, Zenon DEF Arrive
    <2>4. \A x, y \in Arriving(e, q, c) : x = y
      BY Zenon DEF Arriving
    <2>5. \A x, y \in B : x[3] = y[3] /\ x[3] # NoStream => x = y
      <3>1. TAKE x \in B, y \in B
      <3>2. HAVE x[3] = y[3] /\ x[3] # NoStream
      <3>3. CASE x[3] = id
        <4>1. x \in Arriving(e, q, c) /\ y \in Arriving(e, q, c)
          BY <1>11, <2>3, <3>2, <3>3
        <4>2. QED
          BY <2>4, <4>1
      <3>4. CASE x[3] # id
        <4>1. x \in A /\ y \in A
          BY <2>2, <3>2, <3>4
        <4>2. QED
          BY <1>4, <3>2, <4>1, Zenon DEF Arrive
      <3>5. QED
        BY <3>3, <3>4
    <2>6. \A x \in B : x[3] \in W \cup {NoStream}
      BY <1>2, <2>2, <2>3
    <2>7. \A k \in W : \E x \in B : x[3] = k
      BY <1>2, <1>4, <2>1, <2>3, Zenon DEF Arrive
    <2>8. QED
      BY <2>5, <2>6, <2>7, Zenon DEF Arrive
  <1>13. TypesRead(e, W, UnreadOf(Append(q, t)) \cup Unread(d))
    <2>1. \A k \in W \ (UnreadOf(q) \cup {id} \cup {}) : k \in V \ UnreadOf(q)
      BY <1>2
    <2>2. TypesRead(e, W, UnreadOf(q) \cup {id} \cup {})
      BY <1>4, <2>1, Zenon DEF TypesRead
    <2>3. QED
      BY <1>3, <1>7, <2>2
  <1>14. Walked(e, W, Append(q, t), d)
    <2>1. \A l \in Arriving(e, Append(q, t), d) :
             l \in Known(e, W) /\ l \notin DueOf(e, Append(q, t)) /\ l[3] = d.id
      BY <1>9, <1>10
    <2>2. Arrive(W, Known(e, W) \ (DueOf(e, Append(q, t)) \cup Due(e, d) \cup Arriving(e, Append(q, t), d)))
      BY <1>9, <1>12 DEF B
    <2>3. QED
      BY <1>6, <1>13, <2>1, <2>2, Zenon DEF Walked
  <1>15. QED
    BY <1>1, <1>2, <1>14

\* The call on top goes on at another place, at which it has no link less to follow that is known.
LEMMA TopGoesOn ==
    ASSUME NEW e, NEW V, NEW q \in Seq(CallOf), NEW c \in CallOf, Walked(e, V, q, c),
           NEW t \in CallOf, t.at = "right", t.id = c.id,
           \/ c.at = "built"
           \/ /\ c.at = "self" /\ ~HasChildren(e, c.id)
              /\ EntryIn(e, c.id).objectType \in AcceptedTypes
    PROVE  Walked(e, V, q, t)
  <1>1. PICK id : id = c.id
    OBVIOUS
  <1> DEFINE A == Known(e, V) \ (DueOf(e, q) \cup Due(e, c) \cup Arriving(e, q, c))
             B == Known(e, V) \ (DueOf(e, q) \cup Due(e, t) \cup Arriving(e, q, t))
  <1>2. /\ Waiting(V, q) /\ Arrive(V, A) /\ TypesRead(e, V, UnreadOf(q) \cup Unread(c))
        /\ id \in V /\ id \notin IdsOf(q)
    BY <1>1, Zenon DEF Walked
  <1>3. Arriving(e, q, c) = {} /\ Arriving(e, q, t) = {}
    BY Zenon DEF Arriving
  <1>4. Due(e, t) = {RightLink(e, id)} /\ Unread(t) = {}
    BY <1>1, Zenon DEF Due, Unread
  <1>5. A = B
    <2>1. CASE c.at = "built"
      <3>1. Due(e, c) = {RightLink(e, id)}
        BY <1>1, <2>1, Zenon DEF Due
      <3>2. QED
        BY <1>3, <1>4, <3>1
    <2>2. CASE c.at = "self" /\ ~HasChildren(e, c.id)
      <3>1. Due(e, c) = {ChildLink(e, id), RightLink(e, id)}
        BY <1>1, <2>2, Zenon DEF Due
      <3>2. ChildLink(e, id) \notin Known(e, V)
        BY <1>1, <2>2, KnownLink
      <3>3. QED
        BY <1>3, <1>4, <3>1, <3>2
    <2>3. QED
      BY <2>1, <2>2
  <1>6. TypesRead(e, V, UnreadOf(q) \cup Unread(t))
    <2>1. CASE c.at = "built"
      <3>1. Unread(c) = {}
        BY <2>1, Zenon DEF Unread
      <3>2. QED
        BY <1>2, <1>4, <3>1
    <2>2. CASE c.at = "self" /\ EntryIn(e, c.id).objectType \in AcceptedTypes
      <3>1. Unread(c) = {id}
        BY <1>1, <2>2, Zenon DEF Unread
      <3>2. TypesRead(e, V, UnreadOf(q) \cup {id})
        BY <1>2, <3>1
      <3>3. \A k \in V \ UnreadOf(q) : k = id \/ k \in V \ (UnreadOf(q) \cup {id})
        OBVIOUS
      <3>4. \A k \in V \ UnreadOf(q) : EntryIn(e, k).objectType \in AcceptedTypes
        BY <1>1, <2>2, <3>2, <3>3, Zenon DEF TypesRead
      <3>5. UnreadOf(q) \cup Unread(t) = UnreadOf(q)
        BY <1>4
      <3>6. QED
        BY <3>4, <3>5, Zenon DEF TypesRead
    <2>3. QED
      BY <2>1, <2>2
  <1>7. Arrive(V, B)
    BY <1>2, <1>5
  <1>8. t.id \in V /\ t.id \notin IdsOf(q)
    BY <1>1, <1>2
  <1>9. \A l \in Arriving(e, q, t) : l \in Known(e, V) /\ l \notin DueOf(e, q) /\ l[3] = t.id
    BY <1>3
  <1>10. QED
    BY <1>2, <1>6, <1>7, <1>8, <1>9, Zenon DEF Walked

\* The call on top, having read its entry, follows the link to its children or to the right.
LEMMA TopFollows ==
    ASSUME NEW e, NEW V, NEW q \in Seq(CallOf), NEW c \in CallOf, Walked(e, V, q, c),
           NEW t \in CallOf, t.id = c.id,
           \/ /\ c.at = "self" /\ t.at = "built" /\ HasChildren(e, c.id)
              /\ EntryIn(e, c.id).objectType \in AcceptedTypes
           \/ c.at = "right" /\ t.at = "return",
           NEW d \in CallOf, d.at = "enter", d.id = LinkOf(e, t)[3]
    PROVE  Walked(e, V, Append(q, t), d)
  <1>1. PICK id : id = c.id
    OBVIOUS
  <1> DEFINE A == Known(e, V) \ (DueOf(e, q) \cup Due(e, c) \cup Arriving(e, q, c))
             B == Known(e, V) \ (DueOf(e, Append(q, t)) \cup Due(e, d) \cup {LinkOf(e, t)})
  <1>2. /\ Waiting(V, q) /\ Arrive(V, A) /\ TypesRead(e, V, UnreadOf(q) \cup Unread(c))
        /\ id \in V /\ id \notin IdsOf(q)
    BY <1>1, Zenon DEF Walked
  <1>3. Arriving(e, q, c) = {} /\ Due(e, d) = {} /\ Unread(d) = {} /\ Unread(t) = {}
    BY Zenon DEF Arriving, Due, Unread
  <1>4. /\ DueOf(e, Append(q, t)) = DueOf(e, q) \cup Due(e, t)
        /\ UnreadOf(Append(q, t)) = UnreadOf(q)
        /\ Waiting(V, Append(q, t))
    <2>1. t.at # "enter" /\ t.id \in V /\ t.id \notin IdsOf(q)
      BY <1>1, <1>2
    <2>2. /\ UnreadOf(Append(q, t)) = UnreadOf(q) \cup Unread(t)
          /\ DueOf(e, Append(q, t)) = DueOf(e, q) \cup Due(e, t)
          /\ Waiting(V, Append(q, t))
      BY <1>2, <2>1, MoreWaiting
    <2>3. QED
      BY <1>3, <2>2
  <1>5. /\ Arriving(e, Append(q, t), d) = {LinkOf(e, t)}
        /\ LinkOf(e, t) \notin DueOf(e, Append(q, t))
    <2>1. t.at \in {"self", "built", "return"} /\ t.id \notin IdsOf(q)
      BY <1>1, <1>2
    <2>2. QED
      BY <2>1, NextLink
  <1>6. Due(e, c) = Due(e, t) \cup {LinkOf(e, t)}
    <2>1. CASE c.at = "self" /\ t.at = "built"
      <3>1. /\ Due(e, c) = {ChildLink(e, id), RightLink(e, id)}
            /\ Due(e, t) = {RightLink(e, id)} /\ LinkOf(e, t) = ChildLink(e, id)
        BY <1>1, <2>1, Zenon DEF Due, LinkOf
      <3>2. QED
        BY <3>1
    <2>2. CASE c.at = "right" /\ t.at = "return"
      <3>1. Due(e, c) = {RightLink(e, id)} /\ Due(e, t) = {} /\ LinkOf(e, t) = RightLink(e, id)
        BY <1>1, <2>2, Zenon DEF Due, LinkOf
      <3>2. QED
        BY <3>1
    <2>3. QED
      BY <2>1, <2>2
  <1>7. A = B
    BY <1>3, <1>4, <1>6
  <1>8. LinkOf(e, t) \in Known(e, V)
    <2>1. CASE t.at = "built" /\ HasChildren(e, id)
      <3>1. LinkOf(e, t) = ChildLink(e, id)
        BY <1>1, <2>1, Zenon DEF LinkOf
      <3>2. QED
        BY <1>2, <2>1, <3>1, KnownParts
    <2>2. CASE t.at = "return"
      <3>1. LinkOf(e, t) = RightLink(e, id)
        BY <1>1, <2>2, Zenon DEF LinkOf
      <3>2. QED
        BY <1>2, <3>1, KnownParts
    <2>3. QED
      BY <1>1, <2>1, <2>2
  <1>9. TypesRead(e, V, UnreadOf(Append(q, t)) \cup Unread(d))
    <2>1. CASE c.at = "right"
      <3>1. Unread(c) = {}
        BY <2>1, Zenon DEF Unread
      <3>2. QED
        BY <1>2, <1>3, <1>4, <3>1
    <2>2. CASE c.at = "self" /\ EntryIn(e, id).objectType \in AcceptedTypes
      <3>1. Unread(c) = {id}
        BY <1>1, <2>2, Zenon DEF Unread
      <3>2. TypesRead(e, V, UnreadOf(q) \cup {id})
        BY <1>2, <3>1
      <3>3. \A k \in V \ UnreadOf(q) : k = id \/ k \in V \ (UnreadOf(q) \cup {id})
        OBVIOUS
      <3>4. \A k \in V \ UnreadOf(q) : EntryIn(e, k).objectType \in AcceptedTypes
        BY <2>2, <3>2, <3>3, Zenon DEF TypesRead
      <3>5. UnreadOf(Append(q, t)) \cup Unread(d) = UnreadOf(q)
        BY <1>3, <1>4
      <3>6. QED
        BY <3>4, <3>5, Zenon DEF TypesRead
    <2>3. QED
      BY <1>1, <2>1, <2>2
  <1>10. Arrive(V, Known(e, V) \ (DueOf(e, Append(q, t)) \cup Due(e, d) \cup Arriving(e, Append(q, t), d)))
    BY <1>2, <1>5, <1>7
  <1>11. \A l \in Arriving(e, Append(q, t), d) :
            l \in Known(e, V) /\ l \notin DueOf(e, Append(q, t)) /\ l[3] = d.id
    BY <1>5, <1>8
  <1>12. QED
    BY <1>4, <1>9, <1>10, <1>11, Zenon DEF Walked

-----------------------------------------------------------------------------
(* Reached                                                                  *)

\* One step along the links from the entries of S.
Grown(S) == S \cup UNION {{l[3] : l \in LinksOf(id)} \cap Ids : id \in S}

ReachedFrom == {Entry(0).childID} \cap Ids

Growth(f, n) == IF n = 0 THEN ReachedFrom ELSE Grown(f[n - 1])

Grows(f, k) == f = [n \in 0 .. k |-> Growth(f, n)]

LEMMA GrowthExists ==
    ASSUME NEW n \in Nat
    PROVE  \E f : Grows(f, n)
  <1> DEFINE Bad == {k \in Nat : ~\E f : Grows(f, k)}
  <1>1. SUFFICES Bad = {}
    OBVIOUS
  <1>2. SUFFICES ASSUME Bad # {} PROVE FALSE
    OBVIOUS
  <1>3. PICK m \in Bad : \A k \in Bad : m <= k
    BY <1>2, Least
  <1>4. m # 0
    <2> DEFINE e == [i \in 0 .. 0 |-> Growth(<<>>, i)]
    <2>1. \A i \in 0 .. 0 : Growth(<<>>, i) = Growth(e, i)
      BY DEF Growth
    <2>2. Grows(e, 0)
      BY <2>1 DEF Grows
    <2>3. QED
      BY <1>3, <2>2
  <1>5. m \in Nat /\ m - 1 \in Nat
    BY <1>3, <1>4
  <1>6. m - 1 \notin Bad
    BY <1>3, <1>5
  <1>7. PICK f : Grows(f, m - 1)
    BY <1>5, <1>6
  <1> DEFINE g == [i \in 0 .. m |-> Growth(f, i)]
  <1>8. \A i \in 0 .. m : i = 0 \/ i - 1 \in 0 .. m - 1
    BY <1>5
  <1>9. \A i \in 0 .. m - 1 : i \in 0 .. m
    BY <1>5
  <1>10. ASSUME NEW i \in 0 .. m PROVE Growth(f, i) = Growth(g, i)
    <2>1. CASE i = 0
      BY <2>1 DEF Growth
    <2>2. CASE i - 1 \in 0 .. m - 1
      <3>1. f[i - 1] = Growth(f, i - 1)
        BY <1>7, <2>2 DEF Grows
      <3>2. g[i - 1] = Growth(f, i - 1)
        BY <1>9, <2>2
      <3>3. QED
        BY <3>1, <3>2 DEF Growth
    <2>3. QED
      BY <1>8, <2>1, <2>2
  <1>11. Grows(g, m)
    BY <1>10 DEF Grows
  <1>12. QED
    BY <1>3, <1>11

LEMMA GrowthChosen ==
    ASSUME Len(entries) \in Nat
    PROVE  \E f : Grows(f, Len(entries)) /\ Reached = f[Len(entries)]
  <1> DEFINE g == CHOOSE f : f = [n \in 0 .. Len(entries) |->
                IF n = 0 THEN {Entry(0).childID} \cap Ids
                ELSE f[n - 1] \cup
                     UNION {{l[3] : l \in LinksOf(id)} \cap Ids : id \in f[n - 1]}]
  <1>1. \E f : f = [n \in 0 .. Len(entries) |->
                IF n = 0 THEN {Entry(0).childID} \cap Ids
                ELSE f[n - 1] \cup
                     UNION {{l[3] : l \in LinksOf(id)} \cap Ids : id \in f[n - 1]}]
    BY GrowthExists DEF Grows, Growth, Grown, ReachedFrom
  <1>2. g = [n \in 0 .. Len(entries) |->
                IF n = 0 THEN {Entry(0).childID} \cap Ids
                ELSE g[n - 1] \cup
                     UNION {{l[3] : l \in LinksOf(id)} \cap Ids : id \in g[n - 1]}]
    BY <1>1
  <1>3. Grows(g, Len(entries))
    BY <1>2 DEF Grows, Growth, Grown, ReachedFrom
  <1>4. Reached = g[Len(entries)]
    BY DEF Reached
  <1>5. QED
    BY <1>3, <1>4

\* The entries reached are those of every set that has the root's children and is closed.
Follows(X) == ReachedFrom \subseteq X /\ Grown(X) \subseteq X

LEMMA GrownWithin ==
    ASSUME NEW S, NEW X, S \subseteq X
    PROVE  Grown(S) \subseteq Grown(X) /\ S \subseteq Grown(S)
  BY Zenon DEF Grown

LEMMA ReachedIsLeast ==
    ASSUME entries \in Directories
    PROVE  /\ Reached \subseteq Ids
           /\ Follows(Reached)
           /\ \A X : Follows(X) => Reached \subseteq X
  <1>1. PICK N \in Nat : N = Len(entries)
    BY EntriesFacts
  <1>2. PICK f : Grows(f, N) /\ Reached = f[N]
    BY <1>1, GrowthChosen
  <1>3. f[0] = ReachedFrom
    <2>1. 0 \in 0 .. N
      BY <1>1
    <2>2. QED
      BY <1>2, <2>1 DEF Grows, Growth
  <1>4. ASSUME NEW n \in 0 .. N, n # 0 PROVE f[n] = Grown(f[n - 1])
    BY <1>2, <1>4 DEF Grows, Growth
  <1>5. ASSUME NEW X, Follows(X) PROVE \A n \in 0 .. N : f[n] \subseteq X
    <2> DEFINE Bad == {n \in 0 .. N : ~(f[n] \subseteq X)}
    <2>1. SUFFICES ASSUME Bad # {} PROVE FALSE
      OBVIOUS
    <2>2. Bad \subseteq Nat
      BY <1>1
    <2>3. PICK n \in Bad : \A k \in Bad : n <= k
      BY <2>1, <2>2, Least
    <2>4. n \in 0 .. N /\ n # 0
      BY <1>3, <1>5, <2>3 DEF Follows
    <2>5. n - 1 \in 0 .. N /\ n - 1 \notin Bad
      BY <1>1, <2>3, <2>4
    <2>6. f[n - 1] \subseteq X
      BY <2>5
    <2>7. Grown(f[n - 1]) \subseteq Grown(X)
      BY <2>6, GrownWithin
    <2>8. f[n] \subseteq X
      BY <1>4, <1>5, <2>4, <2>7 DEF Follows
    <2>9. QED
      BY <2>3, <2>8
  <1>6. Follows(Ids)
    BY DEF Follows, ReachedFrom, Grown
  <1>7. \A n \in 0 .. N : f[n] \subseteq Ids
    BY <1>5, <1>6
  <1>8. IsFiniteSet(Ids) /\ Cardinality(Ids) = N
    BY <1>1, EntriesFacts
  <1>9. ASSUME NEW n \in 0 .. N PROVE IsFiniteSet(f[n]) /\ Cardinality(f[n]) \in Nat
    BY <1>7, <1>8, FS_Subset, FS_CardinalityType
  <1>10. \A n \in 0 .. N : n # 0 => f[n - 1] \subseteq f[n]
    <2>1. TAKE n \in 0 .. N
    <2>2. HAVE n # 0
    <2>3. f[n - 1] \subseteq Grown(f[n - 1])
      BY GrownWithin
    <2>4. QED
      BY <1>4, <2>2, <2>3
  \* Either it grows in each of the first n steps, or it has stopped.
  <1>11. \A n \in 0 .. N : Cardinality(f[n]) >= n \/ Grown(f[n]) = f[n]
    <2> DEFINE Bad == {n \in 0 .. N : ~(Cardinality(f[n]) >= n \/ Grown(f[n]) = f[n])}
    <2>1. SUFFICES ASSUME Bad # {} PROVE FALSE
      OBVIOUS
    <2>2. Bad \subseteq Nat
      BY <1>1
    <2>3. PICK n \in Bad : \A k \in Bad : n <= k
      BY <2>1, <2>2, Least
    <2>4. n \in 0 .. N /\ n # 0
      <3>1. 0 \in 0 .. N
        BY <1>1
      <3>2. Cardinality(f[0]) >= 0
        BY <1>9, <3>1
      <3>3. QED
        BY <2>3, <3>2
    <2>5. n - 1 \in 0 .. N /\ n - 1 \notin Bad
      BY <1>1, <2>3, <2>4
    <2>6. f[n] = Grown(f[n - 1]) /\ f[n - 1] \subseteq f[n]
      BY <1>4, <1>10, <2>4
    <2>7. CASE Grown(f[n - 1]) = f[n - 1]
      <3>1. f[n] = f[n - 1]
        BY <2>6, <2>7
      <3>2. Grown(f[n]) = f[n]
        BY <2>7, <3>1
      <3>3. QED
        BY <2>3, <3>2
    <2>8. CASE Grown(f[n - 1]) # f[n - 1]
      <3>1. Cardinality(f[n - 1]) >= n - 1
        BY <2>5, <2>8
      <3>2. f[n - 1] # f[n] /\ f[n - 1] \subseteq f[n]
        BY <2>6, <2>8
      <3>3. Cardinality(f[n - 1]) < Cardinality(f[n])
        BY <1>9, <2>4, <3>2, FS_Subset
      <3>4. Cardinality(f[n]) \in Nat /\ Cardinality(f[n - 1]) \in Nat
        BY <1>9, <2>4, <2>5
      <3>5. Cardinality(f[n]) >= n
        BY <2>4, <3>1, <3>3, <3>4
      <3>6. QED
        BY <2>3, <3>5
    <2>9. QED
      BY <2>7, <2>8
  <1>12. Grown(f[N]) \subseteq f[N]
    <2>1. N \in 0 .. N
      BY <1>1
    <2>2. CASE Grown(f[N]) = f[N]
      BY <2>2
    <2>3. CASE Cardinality(f[N]) >= N
      <3>1. f[N] \subseteq Ids /\ Cardinality(f[N]) \in Nat
        BY <1>7, <1>9, <2>1
      <3>2. f[N] = Ids
        BY <1>8, <2>3, <3>1, FS_Subset
      <3>3. QED
        BY <1>6, <3>2 DEF Follows
    <2>4. QED
      BY <1>11, <2>1, <2>2, <2>3
  <1>13. ReachedFrom \subseteq f[N]
    <2> DEFINE Bad == {n \in 0 .. N : ~(ReachedFrom \subseteq f[n])}
    <2>1. SUFFICES Bad = {}
      BY <1>1
    <2>2. SUFFICES ASSUME Bad # {} PROVE FALSE
      OBVIOUS
    <2>3. Bad \subseteq Nat
      BY <1>1
    <2>4. PICK n \in Bad : \A k \in Bad : n <= k
      BY <2>2, <2>3, Least
    <2>5. n \in 0 .. N /\ n # 0
      BY <1>3, <2>4
    <2>6. n - 1 \in 0 .. N /\ n - 1 \notin Bad
      BY <1>1, <2>4, <2>5
    <2>7. ReachedFrom \subseteq f[n - 1] /\ f[n - 1] \subseteq f[n]
      BY <1>10, <2>5, <2>6
    <2>8. QED
      BY <2>4, <2>7
  <1>14. N \in 0 .. N
    BY <1>1
  <1>15. QED
    BY <1>2, <1>5, <1>7, <1>12, <1>13, <1>14 DEF Follows

\* The operators of the proof and those of the model.
LEMMA SameLinks ==
    /\ Ids = IdsIn(entries)
    /\ \A id : Entry(id) = EntryIn(entries, id)
    /\ \A id : LinksOf(id) = LinksIn(entries, id)
  <1>1. Ids = IdsIn(entries)
    BY DEF Ids, IdsIn
  <1>2. ASSUME NEW id PROVE Entry(id) = EntryIn(entries, id)
    BY DEF Entry, EntryIn
  <1>3. ASSUME NEW id PROVE LinksOf(id) = LinksIn(entries, id)
    <2>1. LinksOf(id) =
            {<<id, "left", EntryIn(entries, id).leftSib>>,
             <<id, "right", EntryIn(entries, id).rightSib>>}
            \cup (IF id # 0 /\ EntryIn(entries, id).objectType # "storage" THEN {}
                  ELSE {<<id, "child", EntryIn(entries, id).childID>>})
      BY <1>2, Zenon DEF LinksOf
    <2>2. CASE HasChildren(entries, id)
      BY <2>1, <2>2, Zenon DEF LinksIn, HasChildren, LeftLink, RightLink, ChildLink
    <2>3. CASE ~HasChildren(entries, id)
      BY <2>1, <2>3, Zenon DEF LinksIn, HasChildren, LeftLink, RightLink, ChildLink
    <2>4. QED
      BY <2>2, <2>3
  <1>4. QED
    BY <1>1, <1>2, <1>3

\* No link leads to an entry that is noStream, and the root is not below itself.
LEMMA DirectoryFacts ==
    ASSUME entries \in Directories
    PROVE  NoStream \notin Ids /\ Entry(0).objectType = "root"
  <1>1. /\ Len(entries) <= NoStream /\ entries[1].objectType = "root"
        /\ NoStream \in Nat /\ Len(entries) \in Nat
    BY DirectoryAssumption, EntriesFacts
  <1>2. 0 + 1 = 1
    OBVIOUS
  <1>3. Entry(0).objectType = "root"
    BY <1>1, <1>2 DEF Entry
  <1>4. NoStream \notin Ids
    BY <1>1 DEF Ids
  <1>5. QED
    BY <1>3, <1>4

LEMMA ClosedFollows ==
    ASSUME NEW X
    PROVE  Follows(X) <=> ClosedUnder(entries, X)
  <1>1. ASSUME Follows(X) PROVE ClosedUnder(entries, X)
    <2>1. {EntryIn(entries, 0).childID} \cap IdsIn(entries) \subseteq X
      BY <1>1, SameLinks, Zenon DEF Follows, ReachedFrom
    <2>2. ASSUME NEW id \in X
          PROVE  {l[3] : l \in LinksIn(entries, id)} \cap IdsIn(entries) \subseteq X
      <3>1. {l[3] : l \in LinksOf(id)} \cap Ids \subseteq Grown(X)
        BY Zenon DEF Grown
      <3>2. {l[3] : l \in LinksOf(id)} \cap Ids \subseteq X
        BY <1>1, <3>1 DEF Follows
      <3>3. QED
        BY <3>2, SameLinks, Zenon
    <2>3. QED
      BY <2>1, <2>2, Zenon DEF ClosedUnder
  <1>2. ASSUME ClosedUnder(entries, X) PROVE Follows(X)
    <2>1. ReachedFrom \subseteq X
      BY <1>2, SameLinks, Zenon DEF ClosedUnder, ReachedFrom
    <2>2. ASSUME NEW id \in X PROVE {l[3] : l \in LinksOf(id)} \cap Ids \subseteq X
      BY <1>2, SameLinks, Zenon DEF ClosedUnder
    <2>3. Grown(X) \subseteq X
      BY <2>2, Zenon DEF Grown
    <2>4. QED
      BY <2>1, <2>3 DEF Follows
  <1>3. QED
    BY <1>1, <1>2

\* Only entries that are reached are marked, and only links followed are known.
LEMMA KnownFollowed ==
    ASSUME TreeInv
    PROVE  visited \subseteq Reached /\ Known(entries, visited) \subseteq Followed
  <1>1. entries \in Directories
    BY DEF TreeInv, Inv, Typed
  <1>2. Reached \subseteq IdsIn(entries) /\ ClosedUnder(entries, Reached)
    BY <1>1, ReachedIsLeast, ClosedFollows, SameLinks
  <1>3. visited \subseteq Reached
    BY <1>2 DEF TreeInv, Grounded
  <1>4. Followed = {RootLink(entries)} \cup UNION {LinksIn(entries, id) : id \in Reached}
    <2>1. RootLink(entries) = <<0, "root", Entry(0).childID>>
      BY SameLinks DEF RootLink
    <2>2. QED
      BY <2>1, SameLinks, Zenon DEF Followed
  <1>5. Known(entries, visited) \subseteq Followed
    BY <1>3, <1>4, Zenon DEF Known
  <1>6. QED
    BY <1>3, <1>5

\* A walk that has come to its end has followed every link.
LEMMA CompleteIsProper ==
    ASSUME TreeInv, Complete(entries, visited)
    PROVE  Proper /\ Reached = visited
  <1>1. entries \in Directories /\ visited \subseteq Ids
    BY DEF TreeInv, Inv, Typed
  <1>2. NoStream \notin Ids
    BY <1>1, DirectoryFacts
  <1>3. /\ \A l \in Known(entries, visited) : l[3] \in visited \cup {NoStream}
        /\ \A l, m \in Known(entries, visited) : l[3] = m[3] /\ l[3] # NoStream => l = m
        /\ \A id \in visited : EntryIn(entries, id).objectType \in AcceptedTypes
    <2>1. visited \ {} = visited
      OBVIOUS
    <2>2. QED
      BY <2>1, Zenon DEF Complete, Arrive, TypesRead
  <1>4. Follows(visited)
    <2>1. ReachedFrom \subseteq visited
      <3>1. Entry(0).childID \in visited \cup {NoStream}
        BY <1>3, KnownParts, LinkParts, SameLinks
      <3>2. QED
        BY <1>2, <3>1 DEF ReachedFrom
    <2>2. ASSUME NEW id \in visited PROVE {l[3] : l \in LinksOf(id)} \cap Ids \subseteq visited
      <3>1. LinksOf(id) \subseteq Known(entries, visited)
        BY KnownParts, SameLinks
      <3>2. \A l \in LinksOf(id) : l[3] \in visited \cup {NoStream}
        BY <1>3, <3>1
      <3>3. QED
        BY <1>2, <3>2
    <2>3. Grown(visited) \subseteq visited
      BY <2>2, Zenon DEF Grown
    <2>4. QED
      BY <2>1, <2>3 DEF Follows
  <1>5. Reached = visited
    BY <1>1, <1>4, KnownFollowed, ReachedIsLeast
  <1>6. Followed = Known(entries, visited)
    <2>1. RootLink(entries) = <<0, "root", Entry(0).childID>>
      BY SameLinks DEF RootLink
    <2>2. QED
      BY <1>5, <2>1, SameLinks, Zenon DEF Followed, Known
  <1>7. \A l \in Followed : l[3] \in Ids \cup {NoStream}
    BY <1>1, <1>3, <1>6
  <1>8. \A id \in Reached : Entry(id).objectType \in {"storage", "stream", "unallocated"}
    BY <1>3, <1>5, SameLinks DEF AcceptedTypes
  <1>9. Proper
    BY <1>3, <1>6, <1>7, <1>8, Zenon DEF Proper
  <1>10. QED
    BY <1>5, <1>9

\* What the walk refuses is no tree.
LEMMA RefusedIsImproper ==
    ASSUME TreeInv, stack # <<>>, Refused
    PROVE  ~Proper
  <1>1. Walked(entries, visited, Callers, Top) /\ visited \subseteq Reached
        /\ Known(entries, visited) \subseteq Followed
    BY KnownFollowed DEF TreeInv
  <1>2. CASE Top.at = "enter" /\ Top.id # NoStream /\ Top.id \notin Ids \ visited
    <2>1. PICK lk : lk \in Arriving(entries, Callers, Top)
      BY <1>2, Zenon DEF Arriving
    <2>2. lk \in Known(entries, visited) /\ lk[3] = Top.id
      BY <1>1, <2>1, Zenon DEF Walked
    <2>3. CASE Top.id \notin Ids
      BY <1>1, <1>2, <2>2, <2>3 DEF Proper
    <2>4. CASE Top.id \in visited
      <3>1. PICK l \in Known(entries, visited) : l # lk /\ l[3] = Top.id
        <4>1. Arrive(visited, Known(entries, visited) \ (DueOf(entries, Callers)
                                 \cup Due(entries, Top) \cup Arriving(entries, Callers, Top)))
          BY <1>1, Zenon DEF Walked
        <4>2. PICK l \in Known(entries, visited) \ (DueOf(entries, Callers)
                                 \cup Due(entries, Top) \cup Arriving(entries, Callers, Top)) :
                 l[3] = Top.id
          BY <2>4, <4>1, Zenon DEF Arrive
        <4>3. QED
          BY <2>1, <4>2
      <3>2. lk \in Followed /\ l \in Followed /\ l[3] = lk[3] /\ l[3] # NoStream /\ l # lk
        BY <1>1, <1>2, <2>2, <3>1
      <3>3. QED
        BY <3>2, Zenon DEF Proper
    <2>5. QED
      BY <1>2, <2>3, <2>4
  <1>3. CASE Top.at = "self" /\ Entry(Top.id).objectType \notin AcceptedTypes
    <2>1. Top.id \in visited
      BY <1>1, <1>3, Zenon DEF Walked
    <2>2. QED
      BY <1>1, <1>3, <2>1, Zenon DEF Proper, AcceptedTypes
  <1>4. QED
    BY <1>2, <1>3 DEF Refused

-----------------------------------------------------------------------------
\* A sequence of calls is the calls that wait and the one on top.
LEMMA SplitCalls ==
    ASSUME NEW s \in Seq(CallOf), s # <<>>
    PROVE  \E q \in Seq(CallOf), c \in CallOf :
              /\ s = Append(q, c)
              /\ SubSeq(s, 1, Len(s) - 1) = q
              /\ s[Len(s)] = c
  <1>1. PICK n \in Nat : Len(s) = n + 1
    <2>1. Len(s) \in Nat /\ Len(s) # 0
      OBVIOUS
    <2>2. QED
      BY <2>1
  <1>2. PICK q : q = SubSeq(s, 1, Len(s) - 1)
    OBVIOUS
  <1>3. q \in Seq(CallOf) /\ Len(q) = n /\ \A i \in 1 .. n : q[i] = s[i]
    BY <1>1, <1>2
  <1>4. PICK c \in CallOf : c = s[n + 1]
    BY <1>1
  <1>5. PICK r \in Seq(CallOf) : r = Append(q, c)
    <2>1. Append(q, c) \in Seq(CallOf)
      BY <1>3, AppendProperties
    <2>2. QED
      BY <2>1
  <1>6. Len(r) = n + 1 /\ r[n + 1] = c /\ \A i \in 1 .. n : r[i] = q[i]
    BY <1>3, <1>5
  <1>7. ASSUME NEW i \in 1 .. Len(s) PROVE s[i] = r[i]
    <2>1. CASE i = n + 1
      BY <1>4, <1>6, <2>1
    <2>2. CASE i \in 1 .. n
      BY <1>3, <1>6, <2>2
    <2>3. QED
      BY <1>1, <2>1, <2>2
  <1>8. s = r
    BY <1>1, <1>6, <1>7, SameSeq
  <1>9. QED
    BY <1>1, <1>2, <1>3, <1>4, <1>5, <1>8

LEMMA AppendSplit ==
    ASSUME NEW q \in Seq(CallOf), NEW c \in CallOf, NEW s, s = Append(q, c)
    PROVE  s # <<>> /\ SubSeq(s, 1, Len(s) - 1) = q /\ s[Len(s)] = c
  <1>1. s \in Seq(CallOf) /\ Len(q) \in Nat /\ Len(s) = Len(q) + 1
        /\ s[Len(s)] = c /\ \A i \in 1 .. Len(q) : s[i] = q[i]
    BY AppendProperties
  <1>2. PICK x : x = SubSeq(s, 1, Len(s) - 1)
    OBVIOUS
  <1>3. x \in Seq(CallOf) /\ Len(x) = Len(q) /\ \A i \in 1 .. Len(x) : x[i] = q[i]
    BY <1>1, <1>2
  <1>4. x = q
    BY <1>3, SameSeq
  <1>5. QED
    BY <1>1, <1>2, <1>4

\* What a call becomes that goes on, and what a new one is.
LEMMA CallGoes ==
    ASSUME NEW c \in CallOf, NEW at \in Places
    PROVE  \E t \in CallOf : /\ t = [c EXCEPT !.at = at]
                             /\ t.at = at /\ t.id = c.id /\ t.to = c.to
  <1>1. PICK t : t = [c EXCEPT !.at = at]
    OBVIOUS
  <1>2. t \in CallOf /\ t.at = at /\ t.id = c.id /\ t.to = c.to
    BY <1>1 DEF CallOf
  <1>3. QED
    BY <1>1, <1>2

LEMMA CallBegins ==
    ASSUME NEW id \in Nat, NEW to \in Nat
    PROVE  \E d \in CallOf : d = Call(id, to) /\ d.at = "enter" /\ d.id = id /\ d.to = to
  <1>1. /\ Call(id, to) \in CallOf
        /\ Call(id, to).at = "enter" /\ Call(id, to).id = id /\ Call(id, to).to = to
    BY DEF Call, CallOf, Places
  <1>2. QED
    BY <1>1

\* The calls after a step, in the form TreeInv has them.
WalkedNow ==
    IF stack = <<>> THEN Complete(entries, visited) ELSE Walked(entries, visited, Callers, Top)

LEMMA WalkedAfter ==
    ASSUME NEW q \in Seq(CallOf), NEW c \in CallOf, stack' = Append(q, c),
           Walked(entries, visited', q, c), UNCHANGED entries
    PROVE  WalkedNow' /\ stack' # <<>>
  <1>1. stack' # <<>> /\ Callers' = q /\ Top' = c
    <2>1. PICK s : s = stack'
      OBVIOUS
    <2>2. s # <<>> /\ SubSeq(s, 1, Len(s) - 1) = q /\ s[Len(s)] = c
      BY <2>1, AppendSplit
    <2>3. QED
      BY <2>1, <2>2 DEF Callers, Top
  <1>2. Walked(entries', visited', Callers', Top')
    BY <1>1
  <1>3. QED
    BY <1>1, <1>2 DEF WalkedNow

\* The call on top returns, with nothing left of it to follow.
LEMMA WalkedReturn ==
    ASSUME TreeInv, stack # <<>>, stack' = Callers, UNCHANGED <<entries, visited>>,
           Top.at = "return" \/ (Top.at = "enter" /\ Top.id = NoStream)
    PROVE  WalkedNow'
  <1>1. /\ Callers \in Seq(CallOf) /\ Top \in CallOf
        /\ Walked(entries, visited, Callers, Top)
    BY StackFacts DEF TreeInv
  <1>2. CASE Callers = <<>>
    <2>1. Complete(entries, visited)
      BY <1>1, <1>2, LastReturns
    <2>2. QED
      BY <1>2, <2>1 DEF WalkedNow
  <1>3. CASE Callers # <<>>
    <2>1. PICK p \in Seq(CallOf), t \in CallOf : Callers = Append(p, t)
      BY <1>1, <1>3, SplitCalls
    <2>2. Walked(entries, visited, Append(p, t), Top)
      BY <1>1, <2>1
    <2>3. Walked(entries, visited, p, t)
      BY <1>1, <2>2, CallReturns
    <2>4. Walked(entries, visited', p, t) /\ stack' = Append(p, t)
      BY <2>1, <2>3
    <2>5. QED
      BY <2>4, WalkedAfter
  <1>4. QED
    BY <1>2, <1>3

\* The call on top goes on to the right.
LEMMA WalkedGoes ==
    ASSUME TreeInv, stack # <<>>, stack' = Goes("right"), UNCHANGED <<entries, visited>>,
           \/ Top.at = "built"
           \/ Top.at = "self" /\ Entry(Top.id).objectType \in {"stream", "unallocated"}
    PROVE  WalkedNow' /\ stack' # <<>>
  <1>1. /\ Callers \in Seq(CallOf) /\ Top \in CallOf
        /\ Walked(entries, visited, Callers, Top) /\ entries \in Directories
    BY StackFacts DEF TreeInv, Inv, Typed
  <1>2. PICK t \in CallOf : t = [Top EXCEPT !.at = "right"] /\ t.at = "right" /\ t.id = Top.id
    <2>1. "right" \in Places
      BY DEF Places
    <2>2. QED
      BY <1>1, <2>1, CallGoes
  <1>3. \/ Top.at = "built"
        \/ /\ Top.at = "self" /\ ~HasChildren(entries, Top.id)
           /\ EntryIn(entries, Top.id).objectType \in AcceptedTypes
    <2>1. CASE Top.at = "self" /\ Entry(Top.id).objectType \in {"stream", "unallocated"}
      <3>1. Entry(0).objectType = "root"
        BY <1>1, DirectoryFacts
      <3>2. Top.id # 0
        BY <2>1, <3>1
      <3>3. QED
        BY <2>1, <3>2, SameLinks DEF HasChildren, AcceptedTypes
    <2>2. QED
      BY <2>1
  <1>4. Walked(entries, visited, Callers, t)
    BY <1>1, <1>2, <1>3, TopGoesOn
  <1>5. stack' = Append(Callers, t) /\ Walked(entries, visited', Callers, t)
    BY <1>2, <1>4 DEF Goes
  <1>6. QED
    BY <1>1, <1>5, WalkedAfter

\* The call on top calls walkBST for the entry at the end of one of its links.
LEMMA WalkedCalls ==
    ASSUME TreeInv, stack # <<>>, UNCHANGED <<entries, visited>>,
           NEW at \in Places, NEW id \in Nat, NEW to \in Nat,
           stack' = Append(Goes(at), Call(id, to)),
           \/ /\ Top.at = "self" /\ at = "built" /\ Entry(Top.id).objectType = "storage"
              /\ id = Entry(Top.id).childID
           \/ Top.at = "right" /\ at = "return" /\ id = Entry(Top.id).rightSib
    PROVE  WalkedNow' /\ stack' # <<>>
  <1>1. /\ Callers \in Seq(CallOf) /\ Top \in CallOf
        /\ Walked(entries, visited, Callers, Top)
    BY StackFacts DEF TreeInv
  <1>2. PICK t \in CallOf : t = [Top EXCEPT !.at = at] /\ t.at = at /\ t.id = Top.id
    BY <1>1, CallGoes
  <1>3. PICK d \in CallOf : d = Call(id, to) /\ d.at = "enter" /\ d.id = id
    BY CallBegins
  <1>4. id = LinkOf(entries, t)[3]
    BY <1>2, LinkParts, SameLinks DEF LinkOf
  <1>5. \/ /\ Top.at = "self" /\ t.at = "built" /\ HasChildren(entries, Top.id)
           /\ EntryIn(entries, Top.id).objectType \in AcceptedTypes
        \/ Top.at = "right" /\ t.at = "return"
    BY <1>2, SameLinks DEF HasChildren, AcceptedTypes
  <1>6. Walked(entries, visited, Append(Callers, t), d)
    BY <1>1, <1>2, <1>3, <1>4, <1>5, TopFollows
  <1>7. PICK q \in Seq(CallOf) : q = Append(Callers, t)
    <2>1. Append(Callers, t) \in Seq(CallOf)
      BY <1>1, AppendProperties
    <2>2. QED
      BY <2>1
  <1>8. stack' = Append(q, d) /\ Walked(entries, visited', q, d)
    BY <1>2, <1>3, <1>6, <1>7 DEF Goes
  <1>9. QED
    BY <1>8, WalkedAfter

\* The call on top marks its entry.
LEMMA WalkedMarks ==
    ASSUME TreeInv, Enter
    PROVE  WalkedNow' /\ stack' # <<>> /\ Grounded(entries, visited')
  <1>1. /\ stack # <<>> /\ Top.at = "enter" /\ Top.id \in Ids /\ Top.id \notin visited
        /\ visited' = visited \cup {Top.id} /\ UNCHANGED entries
        /\ stack' = Append(Goes("self"), Call(Entry(Top.id).leftSib, Top.to))
    BY DEF Enter, Mark, Running
  <1>2. /\ Callers \in Seq(CallOf) /\ Top \in CallOf /\ entries \in Directories
        /\ Walked(entries, visited, Callers, Top)
    BY <1>1, StackFacts DEF TreeInv, Inv, Typed
  <1>3. PICK t \in CallOf : t = [Top EXCEPT !.at = "self"] /\ t.at = "self" /\ t.id = Top.id
    <2>1. "self" \in Places
      BY DEF Places
    <2>2. QED
      BY <1>2, <2>1, CallGoes
  <1>4. PICK d \in CallOf : /\ d = Call(Entry(Top.id).leftSib, Top.to) /\ d.at = "enter"
                            /\ d.id = EntryIn(entries, Top.id).leftSib
    <2>1. Entry(Top.id).leftSib \in Nat /\ Top.to \in Nat
      BY <1>1, <1>2, EntriesFacts DEF CallOf
    <2>2. QED
      BY <2>1, CallBegins, SameLinks
  <1>5. Top.id # NoStream
    BY <1>1, <1>2, DirectoryFacts
  <1>6. Walked(entries, visited \cup {Top.id}, Append(Callers, t), d)
    BY <1>1, <1>2, <1>3, <1>4, <1>5, TopMarks
  <1>7. PICK q \in Seq(CallOf) : q = Append(Callers, t)
    <2>1. Append(Callers, t) \in Seq(CallOf)
      BY <1>2, AppendProperties
    <2>2. QED
      BY <2>1
  <1>8. stack' = Append(q, d) /\ Walked(entries, visited', q, d)
    BY <1>1, <1>3, <1>4, <1>6, <1>7 DEF Goes
  <1>9. WalkedNow' /\ stack' # <<>>
    BY <1>1, <1>8, WalkedAfter
  <1>10. ASSUME NEW X \in SUBSET IdsIn(entries), ClosedUnder(entries, X)
         PROVE  visited' \subseteq X
    <2>1. visited \subseteq X
      BY <1>10 DEF TreeInv, Grounded
    <2>2. PICK l : l \in Arriving(entries, Callers, Top)
      BY <1>1, Zenon DEF Arriving
    <2>3. l \in Known(entries, visited) /\ l[3] = Top.id
      BY <1>2, <2>2, Zenon DEF Walked
    <2>4. Top.id \in IdsIn(entries)
      BY <1>1, SameLinks
    <2>5. CASE l = RootLink(entries)
      <3>1. Top.id \in {EntryIn(entries, 0).childID} \cap IdsIn(entries)
        BY <2>3, <2>4, <2>5, LinkParts
      <3>2. QED
        BY <1>1, <1>10, <2>1, <3>1 DEF ClosedUnder
    <2>6. CASE \E id \in visited : l \in LinksIn(entries, id)
      <3>1. PICK id \in visited : l \in LinksIn(entries, id)
        BY <2>6
      <3>2. Top.id \in {x[3] : x \in LinksIn(entries, id)} \cap IdsIn(entries)
        BY <2>3, <2>4, <3>1
      <3>3. QED
        BY <1>1, <1>10, <2>1, <3>1, <3>2 DEF ClosedUnder
    <2>7. QED
      BY <2>3, <2>5, <2>6, Zenon DEF Known
  <1>11. QED
    BY <1>9, <1>10 DEF Grounded

LEMMA TreeInit == Init => TreeInv
  <1> SUFFICES ASSUME Init PROVE TreeInv
    OBVIOUS
  <1>1. Inv /\ visited = {} /\ stack = <<Call(Entry(0).childID, 0)>> /\ pc = "walk"
    BY InvInit DEF Init
  <1>2. PICK c \in CallOf : c = Call(Entry(0).childID, 0) /\ c.at = "enter" /\ c.id = Entry(0).childID
    <2>1. entries \in Directories
      BY <1>1 DEF Inv, Typed
    <2>2. 0 \in Ids
      BY <2>1, EntriesFacts DEF Ids
    <2>3. Entry(0).childID \in Nat
      BY <2>1, <2>2, EntriesFacts
    <2>4. QED
      BY <2>3, CallBegins
  <1>3. stack # <<>> /\ Callers = <<>> /\ Top = c
    <2>1. stack = Append(<<>>, c) /\ <<>> \in Seq(CallOf)
      BY <1>1, <1>2
    <2>2. QED
      BY <2>1, AppendSplit DEF Callers, Top
  <1>4. Walked(entries, {}, <<>>, c)
    <2>1. Waiting({}, <<>>) /\ DueOf(entries, <<>>) = {}
      BY NoneWaiting
    <2>2. Arriving(entries, <<>>, c) = {RootLink(entries)}
      BY <1>2, Zenon DEF Arriving
    <2>3. Known(entries, {}) = {RootLink(entries)} /\ RootLink(entries)[3] = c.id
      BY <1>2, LinkParts, SameLinks DEF Known
    <2>4. Known(entries, {}) \ (DueOf(entries, <<>>) \cup Due(entries, c) \cup Arriving(entries, <<>>, c)) = {}
      BY <2>2, <2>3
    <2>5. Arrive({}, {}) /\ TypesRead(entries, {}, UnreadOf(<<>>) \cup Unread(c))
      BY DEF Arrive, TypesRead
    <2>6. \A l \in Arriving(entries, <<>>, c) :
             l \in Known(entries, {}) /\ l \notin DueOf(entries, <<>>) /\ l[3] = c.id
      BY <2>1, <2>2, <2>3
    <2>7. QED
      BY <1>2, <2>1, <2>4, <2>5, <2>6, Zenon DEF Walked
  <1>5. Grounded(entries, {})
    BY DEF Grounded
  <1>6. QED
    BY <1>1, <1>3, <1>4, <1>5 DEF TreeInv

LEMMA TreeNext == TreeInv /\ [Next]_vars => TreeInv'
  <1> SUFFICES ASSUME TreeInv, [Next]_vars PROVE TreeInv'
    OBVIOUS
  <1>1. Inv'
    BY InvNext DEF TreeInv
  <1>2. TreeInv' <=> /\ Inv' /\ Grounded(entries', visited') /\ WalkedNow'
                     /\ (pc' = "done" => stack' = <<>>)
                     /\ (pc' = "error" => stack' # <<>> /\ Refused')
    BY DEF TreeInv, WalkedNow
  <1>3. Grounded(entries, visited) /\ WalkedNow
    BY DEF TreeInv, WalkedNow
  <1>4. CASE EnterNothing \/ Return
    <2>1. /\ stack # <<>> /\ pc' = "walk" /\ stack' = Callers /\ UNCHANGED <<entries, visited>>
          /\ Top.at = "return" \/ (Top.at = "enter" /\ Top.id = NoStream)
      BY <1>4 DEF EnterNothing, Return, Running
    <2>2. WalkedNow'
      BY <2>1, WalkedReturn
    <2>3. QED
      BY <1>1, <1>2, <1>3, <2>1, <2>2
  <1>5. CASE StorageBuilt \/ Stream \/ Tolerate
    <2>1. /\ stack # <<>> /\ pc' = "walk" /\ stack' = Goes("right") /\ UNCHANGED <<entries, visited>>
          /\ \/ Top.at = "built"
             \/ Top.at = "self" /\ Entry(Top.id).objectType \in {"stream", "unallocated"}
      BY <1>5 DEF StorageBuilt, Stream, Tolerate, Tolerated, Running
    <2>2. WalkedNow'
      BY <2>1, WalkedGoes
    <2>3. QED
      BY <1>1, <1>2, <1>3, <2>1, <2>2
  <1>6. CASE Storage
    <2>1. /\ stack # <<>> /\ pc' = "walk" /\ UNCHANGED <<entries, visited>>
          /\ stack' = Append(Goes("built"), Call(Entry(Top.id).childID, Top.id))
          /\ Top.at = "self" /\ Entry(Top.id).objectType = "storage"
      BY <1>6 DEF Storage, Running
    <2>2. Entry(Top.id).childID \in Nat /\ Top.id \in Nat
      BY <2>1, EntriesFacts, StackFacts DEF TreeInv, Inv, Typed, CallOf
    <2>3. WalkedNow'
      BY <2>1, <2>2, WalkedCalls DEF Places
    <2>4. QED
      BY <1>1, <1>2, <1>3, <2>1, <2>3
  <1>7. CASE Right
    <2>1. /\ stack # <<>> /\ pc' = "walk" /\ UNCHANGED <<entries, visited>>
          /\ stack' = Append(Goes("return"), Call(Entry(Top.id).rightSib, Top.to))
          /\ Top.at = "right"
      BY <1>7 DEF Right, Running
    <2>2. Entry(Top.id).rightSib \in Nat /\ Top.to \in Nat
      BY <2>1, EntriesFacts, StackFacts DEF TreeInv, Inv, Typed, CallOf
    <2>3. WalkedNow'
      BY <2>1, <2>2, WalkedCalls DEF Places
    <2>4. QED
      BY <1>1, <1>2, <1>3, <2>1, <2>3
  <1>8. CASE Enter
    <2>1. pc' = "walk" /\ UNCHANGED entries
      BY <1>8 DEF Enter, Running
    <2>2. WalkedNow' /\ Grounded(entries, visited')
      BY <1>8, WalkedMarks
    <2>3. QED
      BY <1>1, <1>2, <2>1, <2>2
  <1>9. ASSUME UNCHANGED <<entries, visited, stack>>
        PROVE  Grounded(entries', visited') /\ WalkedNow' /\ (Refused => Refused')
    BY <1>3, <1>9 DEF WalkedNow, Callers, Top, Refused, Ids, Entry
  <1>10. CASE EnterFails \/ Refuse
    <2>1. /\ UNCHANGED <<entries, visited, stack>> /\ stack # <<>> /\ pc' = "error"
          /\ Refused
      BY <1>10 DEF EnterFails, Refuse, Running, Refused, AcceptedTypes, Tolerated
    <2>2. QED
      BY <1>1, <1>2, <1>9, <2>1
  <1>11. CASE Finish
    <2>1. UNCHANGED <<entries, visited, stack>> /\ stack = <<>> /\ pc' = "done"
      BY <1>11 DEF Finish
    <2>2. QED
      BY <1>1, <1>2, <1>9, <2>1
  <1>12. CASE UNCHANGED vars
    <2>1. UNCHANGED <<entries, visited, stack, pc>>
      BY <1>12 DEF vars
    <2>2. QED
      BY <1>1, <1>2, <1>9, <2>1 DEF TreeInv
  <1>13. QED
    BY <1>4, <1>5, <1>6, <1>7, <1>8, <1>10, <1>11, <1>12 DEF Next

(* For every directory: it is accepted exactly if its links make proper     *)
(* trees, in which no entry is in two places and none has another type.     *)
THEOREM AcceptsTrees == Spec => []AcceptsProper
  <1>1. TreeInv => AcceptsProper
    <2> SUFFICES ASSUME TreeInv PROVE AcceptsProper
      OBVIOUS
    <2>1. ASSUME pc = "done" PROVE Proper
      <3>1. Complete(entries, visited)
        BY <2>1 DEF TreeInv
      <3>2. QED
        BY <3>1, CompleteIsProper
    <2>2. ASSUME pc = "error" PROVE ~Proper
      <3>1. stack # <<>> /\ Refused
        BY <2>2 DEF TreeInv
      <3>2. QED
        BY <3>1, RefusedIsImproper
    <2>3. QED
      BY <2>1, <2>2 DEF AcceptsProper
  <1>2. QED
    BY <1>1, TreeInit, TreeNext, PTL DEF Spec


-----------------------------------------------------------------------------
(* The lists                                                                *)
(*                                                                          *)
(* w holds, for every entry, the tree under it in order. On a proper        *)
(* directory w unfolds: what it has for an entry is what it has for the     *)
(* entry's left, the entry itself, and what it has for its right. The       *)
(* invariant is that what a storage's list holds, and what the calls on the *)
(* stack will still append to it, are together what w has for its children. *)

UnderIn(e, w, id) == IF id \in IdsIn(e) THEN w[id] ELSE <<>>

OwnIn(e, id) == IF EntryIn(e, id).objectType = "unallocated" THEN <<>> ELSE <<id>>

HeadOf(e, w, id) == Cat(UnderIn(e, w, EntryIn(e, id).leftSib), OwnIn(e, id))

WholeOf(e, w, id) == Cat(HeadOf(e, w, id), UnderIn(e, w, EntryIn(e, id).rightSib))

\* The trees down to one level more than w has.
Deeper(e, w) == [id \in IdsIn(e) |-> WholeOf(e, w, id)]

Depth(e, f, d) == IF d = 0 THEN [id \in IdsIn(e) |-> <<>>] ELSE Deeper(e, f[d - 1])

Deepens(e, f, k) == f = [d \in 0 .. k |-> Depth(e, f, d)]

\* w is InOrder.
IsListing(e, w) == \E f : Deepens(e, f, Len(e)) /\ w = f[Len(e)]

\* r ranks the entries of F, and falls along their links to siblings.
RankedBy(e, F, r) ==
    \A id \in F :
        /\ r[id] \in Nat /\ 1 <= r[id] /\ r[id] <= Cardinality(F)
        /\ \A k \in {EntryIn(e, id).leftSib, EntryIn(e, id).rightSib} :
              k \in IdsIn(e) => k \in F /\ r[k] < r[id]

Ranked(e, F) == F \subseteq IdsIn(e) /\ \E r : RankedBy(e, F, r)

\* There are trees of every depth.
LEMMA DeepensExists ==
    ASSUME NEW e, NEW n \in Nat
    PROVE  \E f : Deepens(e, f, n)
  <1> DEFINE Bad == {k \in Nat : ~\E f : Deepens(e, f, k)}
  <1>1. SUFFICES Bad = {}
    OBVIOUS
  <1>2. SUFFICES ASSUME Bad # {} PROVE FALSE
    OBVIOUS
  <1>3. PICK m \in Bad : \A k \in Bad : m <= k
    BY <1>2, Least
  <1>4. m # 0
    <2> DEFINE g == [i \in 0 .. 0 |-> Depth(e, <<>>, i)]
    <2>1. \A i \in 0 .. 0 : Depth(e, <<>>, i) = Depth(e, g, i)
      BY DEF Depth
    <2>2. Deepens(e, g, 0)
      BY <2>1 DEF Deepens
    <2>3. QED
      BY <1>3, <2>2
  <1>5. m \in Nat /\ m - 1 \in Nat
    BY <1>3, <1>4
  <1>6. m - 1 \notin Bad
    BY <1>3, <1>5
  <1>7. PICK f : Deepens(e, f, m - 1)
    BY <1>5, <1>6
  <1> DEFINE g == [i \in 0 .. m |-> Depth(e, f, i)]
  <1>8. \A i \in 0 .. m : i = 0 \/ i - 1 \in 0 .. m - 1
    BY <1>5
  <1>9. \A i \in 0 .. m - 1 : i \in 0 .. m
    BY <1>5
  <1>10. ASSUME NEW i \in 0 .. m PROVE Depth(e, f, i) = Depth(e, g, i)
    <2>1. CASE i = 0
      BY <2>1 DEF Depth
    <2>2. CASE i - 1 \in 0 .. m - 1
      <3>1. f[i - 1] = Depth(e, f, i - 1)
        BY <1>7, <2>2 DEF Deepens
      <3>2. g[i - 1] = Depth(e, f, i - 1)
        BY <1>9, <2>2
      <3>3. QED
        BY <3>1, <3>2 DEF Depth
    <2>3. QED
      BY <1>8, <2>1, <2>2
  <1>11. Deepens(e, g, m)
    BY <1>10 DEF Deepens
  <1>12. QED
    BY <1>3, <1>11

\* InOrder is as deep as there are entries.
LEMMA InOrderListing ==
    ASSUME Len(entries) \in Nat
    PROVE  IsListing(entries, InOrder)
  <1> DEFINE S(f, depth) ==
                [id \in Ids |->
                    IF depth = 0 THEN <<>>
                    ELSE Under(f[depth - 1], Entry(id).leftSib) \o Own(id)
                         \o Under(f[depth - 1], Entry(id).rightSib)]
             g == CHOOSE f : f = [depth \in 0 .. Len(entries) |-> S(f, depth)]
  <1>1. ASSUME NEW f, NEW d \in 0 .. Len(entries) PROVE S(f, d) = Depth(entries, f, d)
    <2>1. CASE d = 0
      BY <2>1, SameLinks DEF Depth
    <2>2. CASE d # 0
      <3>1. \A id : Entry(id) = EntryIn(entries, id) /\ Ids = IdsIn(entries)
        BY SameLinks
      <3>2. ASSUME NEW id \in Ids
            PROVE  Under(f[d - 1], Entry(id).leftSib) \o Own(id)
                     \o Under(f[d - 1], Entry(id).rightSib)
                   = WholeOf(entries, f[d - 1], id)
        BY <3>1, Zenon DEF WholeOf, HeadOf, Cat, Under, UnderIn, Own, OwnIn
      <3>3. S(f, d) = [id \in Ids |-> WholeOf(entries, f[d - 1], id)]
        BY <2>2, <3>2
      <3>4. QED
        BY <2>2, <3>1, <3>3 DEF Depth, Deeper
    <2>3. QED
      BY <2>1, <2>2
  <1>2. PICK f : Deepens(entries, f, Len(entries))
    BY DeepensExists
  <1>3. f = [depth \in 0 .. Len(entries) |-> S(f, depth)]
    BY <1>1, <1>2 DEF Deepens
  <1>4. g = [depth \in 0 .. Len(entries) |-> S(g, depth)]
    BY <1>3
  <1>5. Deepens(entries, g, Len(entries))
    <2>1. \A d \in 0 .. Len(entries) : S(g, d) = Depth(entries, g, d)
      BY <1>1
    <2> HIDE DEF S
    <2>2. QED
      BY <1>4, <2>1 DEF Deepens
  <1>6. InOrder = g[Len(entries)]
    BY DEF InOrder
  <1>7. QED
    BY <1>5, <1>6 DEF IsListing

\* The values a list may have.
IdLists == Seq(Nat)

\* All of these are sequences of entries.
LEMMA WholeType ==
    ASSUME NEW e, NEW w \in [IdsIn(e) -> IdLists], NEW id \in Nat
    PROVE  /\ \A k : UnderIn(e, w, k) \in Seq(Nat)
           /\ OwnIn(e, id) \in Seq(Nat)
           /\ HeadOf(e, w, id) \in Seq(Nat)
           /\ WholeOf(e, w, id) \in Seq(Nat)
  <1>1. ASSUME NEW k PROVE UnderIn(e, w, k) \in Seq(Nat)
    <2>1. CASE k \in IdsIn(e)
      BY <2>1 DEF UnderIn, IdLists
    <2>2. CASE k \notin IdsIn(e)
      BY <2>2 DEF UnderIn
    <2>3. QED
      BY <2>1, <2>2
  <1>2. OwnIn(e, id) \in Seq(Nat)
    BY DEF OwnIn
  <1>3. HeadOf(e, w, id) \in Seq(Nat)
    BY <1>1, <1>2, CatType DEF HeadOf
  <1>4. WholeOf(e, w, id) \in Seq(Nat)
    BY <1>1, <1>3, CatType DEF WholeOf
  <1>5. QED
    BY <1>1, <1>2, <1>3, <1>4

LEMMA ListingType ==
    ASSUME NEW e, Len(e) \in Nat, NEW f, Deepens(e, f, Len(e))
    PROVE  \A d \in 0 .. Len(e) : f[d] \in [IdsIn(e) -> IdLists]
  <1> DEFINE Bad == {d \in 0 .. Len(e) : f[d] \notin [IdsIn(e) -> IdLists]}
  <1>1. SUFFICES ASSUME Bad # {} PROVE FALSE
    OBVIOUS
  <1>2. Bad \subseteq Nat
    OBVIOUS
  <1>3. PICK d \in Bad : \A k \in Bad : d <= k
    BY <1>1, <1>2, Least
  <1>4. f[d] = Depth(e, f, d) /\ d \in 0 .. Len(e)
    BY DEF Deepens
  <1>5. d # 0
    <2>1. CASE d = 0
      <3>1. <<>> \in IdLists
        BY DEF IdLists
      <3>2. f[d] = [id \in IdsIn(e) |-> <<>>]
        BY <1>4, <2>1, Zenon DEF Depth
      <3>3. f[d] \in [IdsIn(e) -> IdLists]
        BY <3>1, <3>2
      <3>4. QED
        BY <3>3
    <2>2. QED
      BY <2>1
  <1>6. d - 1 \in 0 .. Len(e) /\ d - 1 \notin Bad
    BY <1>3, <1>4, <1>5
  <1>7. PICK w \in [IdsIn(e) -> IdLists] : w = f[d - 1]
    BY <1>6
  <1>8. ASSUME NEW id \in IdsIn(e) PROVE WholeOf(e, w, id) \in IdLists
    <2>1. id \in Nat
      BY DEF IdsIn
    <2>2. QED
      BY <2>1, WholeType DEF IdLists
  <1>9. f[d] = Deeper(e, w)
    BY <1>4, <1>5, <1>7, Zenon DEF Depth
  <1>10. f[d] \in [IdsIn(e) -> IdLists]
    BY <1>8, <1>9 DEF Deeper
  <1>11. QED
    BY <1>10

\* Where ranks fall, the trees do not get deeper from a rank on.
LEMMA RanksSettle ==
    ASSUME NEW e, NEW N \in Nat, Len(e) = N, NEW f, Deepens(e, f, N),
           NEW F, NEW r, F \subseteq IdsIn(e), RankedBy(e, F, r)
    PROVE  \A x \in F, d \in 0 .. N : r[x] <= d => f[d][x] = f[N][x]
  <1> DEFINE Fails(n) == \E x \in F, d \in 0 .. N : r[x] = n /\ r[x] <= d /\ f[d][x] # f[N][x]
             Bad == {n \in Nat : Fails(n)}
  <1>1. ASSUME Bad # {} PROVE FALSE
    <2>1. PICK n \in Bad : \A k \in Bad : n <= k
      BY <1>1, Least
    <2>2. PICK x \in F, d \in 0 .. N : r[x] = n /\ r[x] <= d /\ f[d][x] # f[N][x]
      BY <2>1
    <2>3. /\ r[x] \in Nat /\ 1 <= r[x]
          /\ \A k \in {EntryIn(e, x).leftSib, EntryIn(e, x).rightSib} :
                k \in IdsIn(e) => k \in F /\ r[k] < r[x]
      BY Zenon DEF RankedBy
    <2>4. PICK d1 \in 0 .. N : d1 = d - 1
      BY <2>2, <2>3
    <2>5. PICK N1 \in 0 .. N : N1 = N - 1
      BY <2>2, <2>3
    <2>6. d # 0 /\ N # 0 /\ N \in 0 .. N
      BY <2>2, <2>3
    <2>7. f[d] = Deeper(e, f[d1]) /\ f[N] = Deeper(e, f[N1])
      <3>1. f[d] = Depth(e, f, d) /\ f[N] = Depth(e, f, N)
        BY <2>6 DEF Deepens
      <3>2. QED
        BY <2>4, <2>5, <2>6, <3>1, Zenon DEF Depth
    <2>8. x \in IdsIn(e)
      BY DEF Ranked
    <2>9. f[d][x] = WholeOf(e, f[d1], x) /\ f[N][x] = WholeOf(e, f[N1], x)
      BY <2>7, <2>8 DEF Deeper
    <2>10. ASSUME NEW k \in {EntryIn(e, x).leftSib, EntryIn(e, x).rightSib}
           PROVE  UnderIn(e, f[d1], k) = UnderIn(e, f[N1], k)
      <3>1. CASE k \in IdsIn(e)
        <4>1. k \in F /\ r[k] < r[x] /\ r[k] \in Nat
          BY <2>3, <3>1, Zenon DEF RankedBy
        <4>2. r[k] \notin Bad
          BY <2>1, <2>2, <2>3, <4>1
        <4>3. r[k] <= d1 /\ r[k] <= N1
          BY <2>2, <2>3, <2>4, <2>5, <4>1
        <4>4. f[d1][k] = f[N][k] /\ f[N1][k] = f[N][k]
          BY <4>1, <4>2, <4>3
        <4>5. QED
          BY <3>1, <4>4, Zenon DEF UnderIn
      <3>2. CASE k \notin IdsIn(e)
        BY <3>2, Zenon DEF UnderIn
      <3>3. QED
        BY <3>1, <3>2
    <2>11. WholeOf(e, f[d1], x) = WholeOf(e, f[N1], x)
      BY <2>10, Zenon DEF WholeOf, HeadOf
    <2>12. QED
      BY <2>2, <2>9, <2>11
  <1>2. ASSUME NEW x \in F, NEW d \in 0 .. N, r[x] <= d PROVE f[d][x] = f[N][x]
    <2>1. r[x] \in Nat
      BY DEF RankedBy
    <2>2. r[x] \notin Bad
      BY <1>1
    <2>3. QED
      BY <1>2, <2>1, <2>2
  <1>3. QED
    BY <1>2

\* What w has for an entry is what it has for the entry's left, the entry, and its right.
UnfoldsOn(e, w, X) == \A id \in X : w[id] = WholeOf(e, w, id)

LEMMA RankedUnfolds ==
    ASSUME NEW e, NEW N \in Nat, Len(e) = N, NEW w, IsListing(e, w), NEW F, Ranked(e, F)
    PROVE  UnfoldsOn(e, w, F)
  <1>1. PICK f : Deepens(e, f, N) /\ w = f[N]
    BY DEF IsListing
  <1>2. PICK r : RankedBy(e, F, r)
    BY DEF Ranked
  <1>3. F \subseteq IdsIn(e)
    BY DEF Ranked
  <1>4. Cardinality(F) <= N
    <2>1. IsFiniteSet(IdsIn(e)) /\ Cardinality(IdsIn(e)) = N
      <3>1. /\ IsFiniteSet(0 .. N - 1)
            /\ Cardinality(0 .. N - 1) = IF 0 > N - 1 THEN 0 ELSE N - 1 - 0 + 1
        BY FS_Interval
      <3>2. QED
        BY <3>1 DEF IdsIn
    <2>2. QED
      BY <1>3, <2>1, FS_Subset
  <1>5. ASSUME NEW id \in F PROVE w[id] = WholeOf(e, w, id)
    <2>1. /\ r[id] \in Nat /\ 1 <= r[id] /\ r[id] <= Cardinality(F)
          /\ \A k \in {EntryIn(e, id).leftSib, EntryIn(e, id).rightSib} :
                k \in IdsIn(e) => k \in F /\ r[k] < r[id]
      BY <1>2, Zenon DEF RankedBy
    <2>2. Cardinality(F) \in Nat
      <3>1. IsFiniteSet(IdsIn(e))
        BY FS_Interval DEF IdsIn
      <3>2. QED
        BY <1>3, <3>1, FS_Subset, FS_CardinalityType
    <2>3. PICK N1 \in 0 .. N : N1 = N - 1
      BY <1>4, <2>1, <2>2
    <2>4. N # 0 /\ N \in 0 .. N
      BY <2>3
    <2>5. f[N] = Deeper(e, f[N1])
      <3>1. f[N] = Depth(e, f, N)
        BY <1>1, <2>4 DEF Deepens
      <3>2. QED
        BY <2>3, <2>4, <3>1, Zenon DEF Depth
    <2>6. w[id] = WholeOf(e, f[N1], id)
      BY <1>1, <1>3, <2>5 DEF Deeper
    <2>7. ASSUME NEW k \in {EntryIn(e, id).leftSib, EntryIn(e, id).rightSib}
          PROVE  UnderIn(e, f[N1], k) = UnderIn(e, w, k)
      <3>1. CASE k \in IdsIn(e)
        <4>1. k \in F /\ r[k] < r[id] /\ r[k] \in Nat
          BY <1>2, <2>1, <3>1, Zenon DEF RankedBy
        <4>2. r[k] <= N1
          BY <1>4, <2>1, <2>2, <2>3, <4>1
        <4>3. f[N1][k] = f[N][k]
          BY <1>1, <1>2, <1>3, <4>1, <4>2, RanksSettle
        <4>4. QED
          BY <1>1, <3>1, <4>3, Zenon DEF UnderIn
      <3>2. CASE k \notin IdsIn(e)
        BY <3>2, Zenon DEF UnderIn
      <3>3. QED
        BY <3>1, <3>2
    <2>8. WholeOf(e, f[N1], id) = WholeOf(e, w, id)
      BY <2>7, Zenon DEF WholeOf, HeadOf
    <2>9. QED
      BY <2>6, <2>8
  <1>6. QED
    BY <1>5 DEF UnfoldsOn

\* An entry whose siblings are ranked is ranked above all of them.
LEMMA RankMore ==
    ASSUME NEW e, NEW F, IsFiniteSet(F), Ranked(e, F), NEW id \in IdsIn(e), id \notin F,
           \A k \in {EntryIn(e, id).leftSib, EntryIn(e, id).rightSib} : k \in IdsIn(e) => k \in F
    PROVE  Ranked(e, F \cup {id})
  <1>1. PICK r : RankedBy(e, F, r)
    BY DEF Ranked
  <1>2. PICK n \in Nat : n = Cardinality(F)
    BY FS_CardinalityType
  <1>3. Cardinality(F \cup {id}) = n + 1
    BY <1>2, FS_AddElement
  <1> DEFINE s == [x \in F \cup {id} |-> IF x = id THEN n + 1 ELSE r[x]]
  <1>4. PICK t : t = s
    OBVIOUS
  <1>5. t[id] = n + 1 /\ \A x \in F : t[x] = r[x]
    BY <1>4
  <1>6. ASSUME NEW x \in F \cup {id}
        PROVE  /\ t[x] \in Nat /\ 1 <= t[x] /\ t[x] <= n + 1
               /\ \A k \in {EntryIn(e, x).leftSib, EntryIn(e, x).rightSib} :
                    k \in IdsIn(e) => k \in F \cup {id} /\ t[k] < t[x]
    <2>1. CASE x \in F
      <3>1. /\ r[x] \in Nat /\ 1 <= r[x] /\ r[x] <= n
            /\ \A k \in {EntryIn(e, x).leftSib, EntryIn(e, x).rightSib} :
                  k \in IdsIn(e) => k \in F /\ r[k] < r[x]
        BY <1>1, <1>2, <2>1, Zenon DEF RankedBy
      <3>2. QED
        BY <1>5, <2>1, <3>1
    <2>2. CASE x = id
      <3>1. \A k \in F : r[k] \in Nat /\ r[k] <= n
        BY <1>1, <1>2, Zenon DEF RankedBy
      <3>2. \A k \in F : t[k] < n + 1
        BY <1>5, <3>1
      <3>3. QED
        BY <1>5, <2>2, <3>2
    <2>3. QED
      BY <2>1, <2>2
  <1>7. RankedBy(e, F \cup {id}, t)
    BY <1>3, <1>6, Zenon DEF RankedBy
  <1>8. F \cup {id} \subseteq IdsIn(e)
    BY DEF Ranked
  <1>9. QED
    BY <1>7, <1>8, Zenon DEF Ranked

\* Under a proper directory no entries lead to siblings among themselves only.
LEMMA NoLoop ==
    ASSUME entries \in Directories, Proper, NEW H, H \subseteq Reached,
           \A x \in H : Entry(x).leftSib \in H \/ Entry(x).rightSib \in H
    PROVE  H = {}
  <1>1. /\ Reached \subseteq Ids /\ Follows(Reached) /\ \A X : Follows(X) => Reached \subseteq X
        /\ IsFiniteSet(Ids) /\ NoStream \notin Ids
    BY ReachedIsLeast, EntriesFacts, DirectoryFacts
  <1>2. IsFiniteSet(H)
    BY <1>1, FS_Subset
  <1> DEFINE Next1(x) == IF Entry(x).leftSib \in H THEN Entry(x).leftSib ELSE Entry(x).rightSib
             Link(x) == IF Entry(x).leftSib \in H THEN LeftLink(entries, x) ELSE RightLink(entries, x)
  <1>3. ASSUME NEW x \in H
        PROVE  /\ Link(x) \in Followed /\ Link(x) \in LinksOf(x)
               /\ Link(x)[1] = x /\ Link(x)[2] \in {"left", "right"}
               /\ Link(x)[3] = Next1(x) /\ Next1(x) \in H
    <2>1. Link(x) \in LinksOf(x)
      BY SameLinks, Zenon DEF LinksIn
    <2>2. Link(x) \in Followed
      BY <2>1, Zenon DEF Followed
    <2>3. Link(x)[1] = x /\ Link(x)[2] \in {"left", "right"} /\ Link(x)[3] = Next1(x)
      BY LinkParts, SameLinks
    <2>4. QED
      BY <2>1, <2>2, <2>3
  <1>4. \A l, m \in Followed : l[3] = m[3] /\ l[3] # NoStream => l = m
    BY Zenon DEF Proper
  <1>5. PICK g : g = [x \in H |-> Next1(x)]
    OBVIOUS
  <1>6. \A x \in H : g[x] = Next1(x) /\ g[x] \in H
    BY <1>3, <1>5
  <1> DEFINE T == {g[x] : x \in H}
  <1> HIDE DEF Next1, Link
  <1>7. ASSUME NEW x \in H, NEW y \in H, g[x] = g[y] PROVE x = y
    <2>1. Link(x)[3] = Link(y)[3] /\ Link(x)[3] # NoStream
      BY <1>1, <1>3, <1>6, <1>7
    <2>2. Link(x) = Link(y)
      BY <1>3, <1>4, <2>1
    <2>3. QED
      BY <1>3, <2>2
  <1>8. T \subseteq H /\ g \in [H -> T]
    BY <1>5, <1>6
  <1>9. g \in Surjection(H, T) /\ g \in Injection(H, T)
    BY <1>7, <1>8 DEF Surjection, Injection, IsInjective
  <1>10. Cardinality(T) = Cardinality(H)
    BY <1>2, <1>9, FS_Surjection
  <1>11. T = H
    BY <1>2, <1>8, <1>10, FS_Subset
  <1> DEFINE X == Reached \ H
  <1>12. ASSUME NEW l \in Followed, l[3] \in H PROVE \E x \in H : l = Link(x)
    <2>1. PICK x \in H : l[3] = g[x]
      BY <1>11, <1>12
    <2>2. l[3] = Link(x)[3] /\ l[3] # NoStream
      BY <1>1, <1>3, <1>6, <1>12, <2>1
    <2>3. QED
      BY <1>3, <1>4, <2>2
  <1>13. ReachedFrom \subseteq X
    <2>1. ReachedFrom \subseteq Reached
      BY <1>1 DEF Follows
    <2>2. ASSUME Entry(0).childID \in H PROVE FALSE
      <3>1. RootLink(entries) \in Followed /\ RootLink(entries)[3] \in H
        BY <2>2, SameLinks, LinkParts DEF Followed, RootLink
      <3>2. PICK x \in H : RootLink(entries) = Link(x)
        BY <1>12, <3>1
      <3>3. QED
        BY <1>3, <3>2, LinkParts
    <2>3. QED
      BY <2>1, <2>2 DEF ReachedFrom
  <1>14. ASSUME NEW id \in X PROVE {l[3] : l \in LinksOf(id)} \cap Ids \subseteq X
    <2>1. SUFFICES ASSUME NEW l \in LinksOf(id), l[3] \in Ids PROVE l[3] \in X
      OBVIOUS
    <2>2. l[3] \in Reached
      <3>1. l[3] \in Grown(Reached)
        BY <2>1 DEF Grown
      <3>2. QED
        BY <1>1, <3>1 DEF Follows
    <2>3. ASSUME l[3] \in H PROVE FALSE
      <3>1. l \in Followed
        BY DEF Followed
      <3>2. PICK x \in H : l = Link(x)
        BY <1>12, <2>3, <3>1
      <3>3. l[1] = id
        <4>1. l \in LinksIn(entries, id)
          BY SameLinks
        <4>2. l \in {LeftLink(entries, id), RightLink(entries, id), ChildLink(entries, id)}
          BY <4>1, Zenon DEF LinksIn
        <4>3. QED
          BY <4>2, LinkParts
      <3>4. QED
        BY <1>3, <3>2, <3>3
    <2>4. QED
      BY <2>2, <2>3
  <1>15. Grown(X) \subseteq X
    BY <1>14, Zenon DEF Grown
  <1>16. Follows(X)
    BY <1>13, <1>15 DEF Follows
  <1>17. Reached \subseteq X
    BY <1>1, <1>16
  <1>18. QED
    BY <1>17

\* The trees of a proper directory are ranked, so InOrder is deep enough for them.
LEMMA ProperUnfolds ==
    ASSUME entries \in Directories, Proper
    PROVE  UnfoldsOn(entries, InOrder, Reached)
  <1>1. /\ Reached \subseteq Ids /\ Follows(Reached) /\ IsFiniteSet(Ids)
        /\ Ids = IdsIn(entries) /\ \A id : Entry(id) = EntryIn(entries, id)
    BY ReachedIsLeast, EntriesFacts, SameLinks
  <1>2. IsFiniteSet(Reached) /\ Cardinality(Reached) \in Nat
    BY <1>1, FS_Subset, FS_CardinalityType
  <1> DEFINE Able(F) == F \subseteq Reached /\ Ranked(entries, F)
             T == {n \in Nat : \E F : Able(F) /\ n = Cardinality(Reached) - Cardinality(F)}
  <1>3. ASSUME NEW F, Able(F)
        PROVE  IsFiniteSet(F) /\ Cardinality(F) \in Nat /\ Cardinality(F) <= Cardinality(Reached)
    BY <1>2, <1>3, FS_Subset, FS_CardinalityType
  <1>4. Cardinality(Reached) \in T
    <2>1. Able({})
      BY DEF Ranked, RankedBy
    <2>2. Cardinality({}) = 0
      BY FS_EmptySet
    <2>3. Cardinality(Reached) - 0 = Cardinality(Reached)
      BY <1>2
    <2>4. QED
      BY <1>2, <2>1, <2>2, <2>3
  <1>5. PICK n \in T : \A k \in T : n <= k
    <2>1. T \subseteq Nat /\ T # {}
      BY <1>4
    <2>2. QED
      BY <2>1, Least
  <1>6. PICK F : Able(F) /\ n = Cardinality(Reached) - Cardinality(F)
    BY <1>5
  <1> DEFINE H == Reached \ F
  <1>7. ASSUME NEW id \in H
        PROVE  Entry(id).leftSib \in H \/ Entry(id).rightSib \in H
    <2>1. SUFFICES ASSUME Entry(id).leftSib \notin H, Entry(id).rightSib \notin H PROVE FALSE
      OBVIOUS
    <2>2. {l[3] : l \in LinksOf(id)} \cap Ids \subseteq Reached
      <3>1. {l[3] : l \in LinksOf(id)} \cap Ids \subseteq Grown(Reached)
        BY Zenon DEF Grown
      <3>2. QED
        BY <1>1, <3>1 DEF Follows
    <2>3. Entry(id).leftSib \in {l[3] : l \in LinksOf(id)}
          /\ Entry(id).rightSib \in {l[3] : l \in LinksOf(id)}
      <3>1. LeftLink(entries, id) \in LinksOf(id) /\ RightLink(entries, id) \in LinksOf(id)
        BY SameLinks, Zenon DEF LinksIn
      <3>2. QED
        BY <1>1, <3>1, LinkParts
    <2>4. \A k \in {EntryIn(entries, id).leftSib, EntryIn(entries, id).rightSib} :
             k \in IdsIn(entries) => k \in F
      BY <1>1, <2>1, <2>2, <2>3
    <2>5. Able(F \cup {id})
      <3>1. Ranked(entries, F \cup {id})
        BY <1>1, <1>3, <1>6, <2>4, RankMore
      <3>2. QED
        BY <1>6, <3>1
    <2>6. Cardinality(F \cup {id}) = Cardinality(F) + 1
      BY <1>3, <1>6, FS_AddElement
    <2>7. /\ Cardinality(F) \in Nat /\ Cardinality(F \cup {id}) <= Cardinality(Reached)
      BY <1>3, <1>6, <2>5
    <2>8. PICK m \in Nat : m = Cardinality(Reached) - Cardinality(F \cup {id})
      BY <1>2, <2>6, <2>7
    <2>9. m \in T /\ m < n
      BY <1>2, <1>6, <2>5, <2>6, <2>7, <2>8
    <2>10. QED
      BY <1>5, <2>9
  <1>8. H = {}
    BY <1>7, NoLoop
  <1>9. F = Reached
    BY <1>6, <1>8
  <1>10. Len(entries) \in Nat
    BY EntriesFacts
  <1>11. UnfoldsOn(entries, InOrder, F)
    BY <1>6, <1>10, InOrderListing, RankedUnfolds
  <1>12. QED
    BY <1>9, <1>11

-----------------------------------------------------------------------------
\* What the call c will still append to the list of x, those it calls aside.
Part(e, w, c, x) ==
    IF c.to # x \/ c.at = "return" THEN <<>>
    ELSE IF c.at = "enter" THEN UnderIn(e, w, c.id)
    ELSE IF c.at = "right" THEN UnderIn(e, w, EntryIn(e, c.id).rightSib)
    ELSE Cat(OwnIn(e, c.id), UnderIn(e, w, EntryIn(e, c.id).rightSib))

OwesBy(e, w, s, x, h) ==
    /\ h[0] = <<>>
    /\ \A i \in 1 .. Len(s) : h[i] = Cat(Part(e, w, s[i], x), h[i - 1])
    /\ \A i \in 0 .. Len(s) : h[i] \in Seq(Nat)

\* The calls s will append g to the list of x: the last call first.
Owes(e, w, s, x, g) == \E h : OwesBy(e, w, s, x, h) /\ g = h[Len(s)]

\* The calls list entries of storages, and only a storage is built.
Placed(e, s) ==
    \A i \in 1 .. Len(s) :
        /\ s[i].to \in IdsIn(e)
        /\ s[i].at = "built" => EntryIn(e, s[i].id).objectType = "storage"

\* What x must have listed in the end, when the entries of O have been read.
WantedIn(e, w, O, x) ==
    IF x = 0 \/ (x \in O /\ EntryIn(e, x).objectType = "storage")
    THEN UnderIn(e, w, EntryIn(e, x).childID) ELSE <<>>

Listing(e, V, s, L, w) ==
    /\ L \in [IdsIn(e) -> IdLists]
    /\ Placed(e, s)
    /\ \A x \in IdsIn(e) : \E g \in Seq(Nat) :
          Owes(e, w, s, x, g) /\ Cat(L[x], g) = WantedIn(e, w, V \ UnreadOf(s), x)

LEMMA PartType ==
    ASSUME NEW e, NEW w \in [IdsIn(e) -> IdLists], NEW c \in CallOf, NEW x
    PROVE  Part(e, w, c, x) \in Seq(Nat)
  <1>1. c.id \in Nat /\ <<>> \in Seq(Nat)
    BY DEF CallOf
  <1>2. \A k : UnderIn(e, w, k) \in Seq(Nat)
    BY <1>1, WholeType
  <1>3. OwnIn(e, c.id) \in Seq(Nat)
    BY <1>1, WholeType
  <1>4. Cat(OwnIn(e, c.id), UnderIn(e, w, EntryIn(e, c.id).rightSib)) \in Seq(Nat)
    BY <1>2, <1>3, CatType
  <1>5. QED
    BY <1>1, <1>2, <1>4, Zenon DEF Part

LEMMA OwesNone ==
    ASSUME NEW e, NEW w, NEW x
    PROVE  \A g : Owes(e, w, <<>>, x, g) <=> g = <<>>
  <1>1. Len(<<>>) = 0 /\ 1 .. 0 = {} /\ 0 .. 0 = {0} /\ <<>> \in Seq(Nat)
    OBVIOUS
  <1>2. ASSUME NEW g, Owes(e, w, <<>>, x, g) PROVE g = <<>>
    BY <1>1, <1>2, Zenon DEF Owes, OwesBy
  <1>3. Owes(e, w, <<>>, x, <<>>)
    <2>1. PICK h : h = [i \in {0} |-> <<>>]
      OBVIOUS
    <2>2. h[0] = <<>>
      BY <2>1
    <2>3. OwesBy(e, w, <<>>, x, h)
      BY <1>1, <2>2 DEF OwesBy
    <2>4. QED
      BY <1>1, <2>2, <2>3, Zenon DEF Owes
  <1>4. QED
    BY <1>2, <1>3

\* The call on top appends before those that wait.
LEMMA OwesMore ==
    ASSUME NEW e, NEW w \in [IdsIn(e) -> IdLists], NEW q \in Seq(CallOf), NEW c \in CallOf, NEW x
    PROVE  /\ \A g : Owes(e, w, Append(q, c), x, g)
                     => \E f \in Seq(Nat) : Owes(e, w, q, x, f) /\ g = Cat(Part(e, w, c, x), f)
           /\ \A f : Owes(e, w, q, x, f)
                     => f \in Seq(Nat) /\ Owes(e, w, Append(q, c), x, Cat(Part(e, w, c, x), f))
  <1>1. PICK n \in Nat : n = Len(q)
    OBVIOUS
  <1>2. PICK s : s = Append(q, c)
    OBVIOUS
  <1>3. Len(s) = n + 1 /\ s[n + 1] = c /\ \A i \in 1 .. n : s[i] = q[i]
    BY <1>1, <1>2
  <1>4. PICK m \in Nat : m = n + 1
    OBVIOUS
  <1>5. /\ m - 1 = n /\ n \in 0 .. n /\ n \in 0 .. m /\ m \in 0 .. m /\ m \in 1 .. m /\ m \notin 0 .. n
        /\ 0 \in 0 .. n /\ 0 \in 0 .. m
        /\ \A i \in 1 .. m : i = m \/ i \in 1 .. n
        /\ \A i \in 0 .. m : i = m \/ i \in 0 .. n
        /\ \A i \in 1 .. n : i \in 1 .. m /\ i - 1 \in 0 .. n /\ i \in 0 .. n
        /\ \A i \in 0 .. n : i \in 0 .. m
    BY <1>1, <1>4
  <1>6. ASSUME NEW g, Owes(e, w, s, x, g)
        PROVE  \E f \in Seq(Nat) : Owes(e, w, q, x, f) /\ g = Cat(Part(e, w, c, x), f)
    <2>1. PICK h : OwesBy(e, w, s, x, h) /\ g = h[m]
      BY <1>3, <1>4, <1>6 DEF Owes
    <2>2. /\ h[0] = <<>>
          /\ \A i \in 1 .. m : h[i] = Cat(Part(e, w, s[i], x), h[i - 1])
          /\ \A i \in 0 .. m : h[i] \in Seq(Nat)
      BY <1>3, <1>4, <2>1, Zenon DEF OwesBy
    <2>3. OwesBy(e, w, q, x, h)
      BY <1>1, <1>3, <1>5, <2>2, Zenon DEF OwesBy
    <2>4. Owes(e, w, q, x, h[n])
      BY <1>1, <2>3, Zenon DEF Owes
    <2>5. h[n] \in Seq(Nat) /\ h[m] = Cat(Part(e, w, c, x), h[n])
      BY <1>3, <1>4, <1>5, <2>2
    <2>6. QED
      BY <2>1, <2>4, <2>5
  <1>7. ASSUME NEW f, Owes(e, w, q, x, f)
        PROVE  f \in Seq(Nat) /\ Owes(e, w, s, x, Cat(Part(e, w, c, x), f))
    <2>1. PICK h : OwesBy(e, w, q, x, h) /\ f = h[n]
      BY <1>1, <1>7 DEF Owes
    <2>2. /\ h[0] = <<>>
          /\ \A i \in 1 .. n : h[i] = Cat(Part(e, w, q[i], x), h[i - 1])
          /\ \A i \in 0 .. n : h[i] \in Seq(Nat)
      BY <1>1, <2>1, Zenon DEF OwesBy
    <2>3. PICK g : g = Cat(Part(e, w, c, x), f)
      OBVIOUS
    <2>4. f \in Seq(Nat) /\ g \in Seq(Nat)
      BY <1>5, <2>1, <2>2, <2>3, PartType, CatType
    <2>5. PICK k : k = [i \in 0 .. m |-> IF i = m THEN g ELSE h[i]]
      OBVIOUS
    <2>6. k[m] = g /\ \A i \in 0 .. n : k[i] = h[i]
      BY <1>5, <2>5
    <2>7. ASSUME NEW i \in 1 .. m PROVE k[i] = Cat(Part(e, w, s[i], x), k[i - 1])
      <3>1. CASE i = m
        BY <1>3, <1>4, <1>5, <2>1, <2>3, <2>6, <3>1
      <3>2. CASE i \in 1 .. n
        BY <1>3, <1>5, <2>2, <2>6, <3>2
      <3>3. QED
        BY <1>5, <3>1, <3>2
    <2>8. \A i \in 0 .. m : k[i] \in Seq(Nat)
      BY <1>5, <2>2, <2>4, <2>6
    <2>9. k[0] = <<>>
      BY <1>5, <2>2, <2>6
    <2>10. OwesBy(e, w, s, x, k)
      BY <1>3, <1>4, <2>7, <2>8, <2>9, Zenon DEF OwesBy
    <2>11. Owes(e, w, s, x, g)
      BY <1>3, <1>4, <2>6, <2>10, Zenon DEF Owes
    <2>12. QED
      BY <2>3, <2>4, <2>11
  <1>8. QED
    BY <1>2, <1>6, <1>7

\* The lists with the call c on top and those of q waiting.
ListingTop(e, V, q, c, L, w) ==
    /\ L \in [IdsIn(e) -> IdLists]
    /\ Placed(e, q)
    /\ c.to \in IdsIn(e)
    /\ c.at = "built" => EntryIn(e, c.id).objectType = "storage"
    /\ \A x \in IdsIn(e) : \E f \in Seq(Nat) :
          /\ Owes(e, w, q, x, f)
          /\ Cat(L[x], Cat(Part(e, w, c, x), f))
               = WantedIn(e, w, V \ (UnreadOf(q) \cup Unread(c)), x)

LEMMA ListingMore ==
    ASSUME NEW e, NEW V, NEW q \in Seq(CallOf), NEW c \in CallOf, NEW L,
           NEW w \in [IdsIn(e) -> IdLists]
    PROVE  Listing(e, V, Append(q, c), L, w) <=> ListingTop(e, V, q, c, L, w)
  <1>1. PICK s : s = Append(q, c)
    OBVIOUS
  <1>2. PICK n \in Nat : n = Len(q)
    OBVIOUS
  <1>3. Len(s) = n + 1 /\ s[n + 1] = c /\ \A i \in 1 .. n : s[i] = q[i]
    BY <1>1, <1>2
  <1>4. /\ \A i \in 1 .. n + 1 : i = n + 1 \/ i \in 1 .. n
        /\ n + 1 \in 1 .. n + 1 /\ \A i \in 1 .. n : i \in 1 .. n + 1
    BY <1>2
  <1>5. Placed(e, s) <=> /\ Placed(e, q) /\ c.to \in IdsIn(e)
                         /\ c.at = "built" => EntryIn(e, c.id).objectType = "storage"
    BY <1>2, <1>3, <1>4, Zenon DEF Placed
  <1>6. UnreadOf(s) = UnreadOf(q) \cup Unread(c)
    BY <1>1, MoreWaiting
  <1>7. ASSUME NEW x \in IdsIn(e), NEW Z
        PROVE  (\E g \in Seq(Nat) : Owes(e, w, s, x, g) /\ Cat(L[x], g) = Z)
               <=> (\E f \in Seq(Nat) : /\ Owes(e, w, q, x, f)
                                        /\ Cat(L[x], Cat(Part(e, w, c, x), f)) = Z)
    <2>1. ASSUME NEW g \in Seq(Nat), Owes(e, w, s, x, g), Cat(L[x], g) = Z
          PROVE  \E f \in Seq(Nat) : /\ Owes(e, w, q, x, f)
                                     /\ Cat(L[x], Cat(Part(e, w, c, x), f)) = Z
      <3>1. PICK f \in Seq(Nat) : Owes(e, w, q, x, f) /\ g = Cat(Part(e, w, c, x), f)
        BY <1>1, <2>1, OwesMore
      <3>2. QED
        BY <2>1, <3>1
    <2>2. ASSUME NEW f \in Seq(Nat), Owes(e, w, q, x, f),
                 Cat(L[x], Cat(Part(e, w, c, x), f)) = Z
          PROVE  \E g \in Seq(Nat) : Owes(e, w, s, x, g) /\ Cat(L[x], g) = Z
      <3>1. PICK g : g = Cat(Part(e, w, c, x), f)
        OBVIOUS
      <3>2. Owes(e, w, s, x, g)
        BY <1>1, <2>2, <3>1, OwesMore
      <3>3. g \in Seq(Nat)
        BY <3>1, PartType, CatType
      <3>4. QED
        BY <2>2, <3>1, <3>2, <3>3
    <2>3. QED
      BY <2>1, <2>2, Zenon
  <1>8. Listing(e, V, s, L, w)
        <=> /\ L \in [IdsIn(e) -> IdLists]
            /\ Placed(e, s)
            /\ \A x \in IdsIn(e) : \E g \in Seq(Nat) :
                  /\ Owes(e, w, s, x, g)
                  /\ Cat(L[x], g) = WantedIn(e, w, V \ (UnreadOf(q) \cup Unread(c)), x)
    BY <1>6 DEF Listing
  <1>9. (\A x \in IdsIn(e) : \E g \in Seq(Nat) :
                  /\ Owes(e, w, s, x, g)
                  /\ Cat(L[x], g) = WantedIn(e, w, V \ (UnreadOf(q) \cup Unread(c)), x))
        <=> (\A x \in IdsIn(e) : \E f \in Seq(Nat) :
                  /\ Owes(e, w, q, x, f)
                  /\ Cat(L[x], Cat(Part(e, w, c, x), f))
                       = WantedIn(e, w, V \ (UnreadOf(q) \cup Unread(c)), x))
    BY <1>7, Zenon
  <1>10. QED
    BY <1>1, <1>5, <1>8, <1>9, Zenon DEF ListingTop

-----------------------------------------------------------------------------
LEMMA CatNone ==
    ASSUME NEW S, NEW q \in Seq(S), NEW r \in Seq(S), Cat(q, r) = <<>>
    PROVE  q = <<>> /\ r = <<>>
  <1>1. Len(q) + Len(r) = 0
    BY CatType
  <1>2. QED
    BY <1>1

LEMMA CatOne ==
    ASSUME NEW S, NEW q \in Seq(S), NEW x \in S
    PROVE  Append(q, x) = Cat(q, <<x>>)
  BY DEF Cat

\* The call on top returns.
LEMMA ListReturns ==
    ASSUME NEW e, NEW V, NEW q \in Seq(CallOf), NEW c \in CallOf, NEW L,
           NEW w \in [IdsIn(e) -> IdLists], ListingTop(e, V, q, c, L, w),
           c.at = "return" \/ (c.at = "enter" /\ c.id \notin IdsIn(e))
    PROVE  Listing(e, V, q, L, w)
  <1>1. Unread(c) = {}
    BY Zenon DEF Unread
  <1>2. \A x : Part(e, w, c, x) = <<>>
    BY Zenon DEF Part, UnderIn
  <1>3. ASSUME NEW x \in IdsIn(e)
        PROVE  \E f \in Seq(Nat) :
                  Owes(e, w, q, x, f) /\ Cat(L[x], f) = WantedIn(e, w, V \ UnreadOf(q), x)
    <2>1. PICK f \in Seq(Nat) :
              /\ Owes(e, w, q, x, f)
              /\ Cat(L[x], Cat(Part(e, w, c, x), f))
                   = WantedIn(e, w, V \ (UnreadOf(q) \cup Unread(c)), x)
      BY DEF ListingTop
    <2>2. Cat(Part(e, w, c, x), f) = f
      BY <1>2, CatEmpty
    <2>3. UnreadOf(q) \cup Unread(c) = UnreadOf(q)
      BY <1>1
    <2>4. QED
      BY <2>1, <2>2, <2>3
  <1>4. QED
    BY <1>3, Zenon DEF ListingTop, Listing

\* The call on top lists its entry, if it is to be listed, and goes on to the right.
LEMMA ListGoes ==
    ASSUME NEW e, NEW V, NEW q \in Seq(CallOf), NEW c \in CallOf, NEW t \in CallOf,
           NEW L, NEW L2, NEW w \in [IdsIn(e) -> IdLists], ListingTop(e, V, q, c, L, w),
           t.at = "right", t.id = c.id, t.to = c.to,
           \/ /\ c.at = "built" \/ (c.at = "self" /\ EntryIn(e, c.id).objectType = "stream")
              /\ L2 = [L EXCEPT ![c.to] = Append(@, c.id)]
           \/ /\ c.at = "self" /\ EntryIn(e, c.id).objectType = "unallocated"
              /\ L2 = L
    PROVE  ListingTop(e, V, q, t, L2, w)
  <1>1. /\ L \in [IdsIn(e) -> IdLists] /\ c.to \in IdsIn(e) /\ c.id \in Nat
        /\ c.at = "built" => EntryIn(e, c.id).objectType = "storage"
    BY DEF ListingTop, CallOf
  <1>2. L2 \in [IdsIn(e) -> IdLists] /\ \A x \in IdsIn(e) : x # c.to => L2[x] = L[x]
    <2>1. \A s \in IdLists : Append(s, c.id) \in IdLists
      BY <1>1, AppendProperties DEF IdLists
    <2>2. PICK y \in IdLists : y = Append(L[c.to], c.id)
      BY <1>1, <2>1
    <2>3. PICK M : M = [L EXCEPT ![c.to] = y]
      OBVIOUS
    <2>4. M \in [IdsIn(e) -> IdLists] /\ \A x \in IdsIn(e) : x # c.to => M[x] = L[x]
      BY <1>1, <2>3
    <2>5. L2 = M \/ L2 = L
      BY <2>2, <2>3
    <2>6. QED
      BY <1>1, <2>4, <2>5
  <1>3. /\ Unread(t) = {} /\ Unread(c) \subseteq {c.id}
        /\ EntryIn(e, c.id).objectType = "storage" => Unread(c) = {}
    BY DEF Unread
  <1>4. \A x : WantedIn(e, w, V \ (UnreadOf(q) \cup Unread(c)), x)
               = WantedIn(e, w, V \ (UnreadOf(q) \cup Unread(t)), x)
    <2>1. \A x : EntryIn(e, x).objectType = "storage"
                 => (x \in V \ (UnreadOf(q) \cup Unread(c))
                     <=> x \in V \ (UnreadOf(q) \cup Unread(t)))
      BY <1>3
    <2>2. QED
      BY <2>1, Zenon DEF WantedIn
  <1>5. PICK u \in Seq(Nat) : u = UnderIn(e, w, EntryIn(e, c.id).rightSib)
    BY <1>1, WholeType
  <1>6. PICK o \in Seq(Nat) : o = OwnIn(e, c.id)
    BY <1>1, WholeType
  <1>7. /\ Part(e, w, c, c.to) = Cat(o, u) /\ Part(e, w, t, c.to) = u
        /\ \A x : x # c.to => Part(e, w, c, x) = <<>> /\ Part(e, w, t, x) = <<>>
    <2>1. c.at \in {"self", "built"}
      OBVIOUS
    <2>2. QED
      BY <1>5, <1>6, <2>1 DEF Part
  <1>8. L[c.to] \in Seq(Nat) /\ L2[c.to] = Cat(L[c.to], o)
    <2>1. L[c.to] \in Seq(Nat)
      BY <1>1 DEF IdLists
    <2>2. CASE EntryIn(e, c.id).objectType = "unallocated"
      <3>1. o = <<>> /\ L2 = L
        BY <1>1, <1>6, <2>2, Zenon DEF OwnIn
      <3>2. QED
        BY <2>1, <3>1, CatEmpty
    <2>3. CASE EntryIn(e, c.id).objectType # "unallocated"
      <3>1. o = <<c.id>> /\ L2 = [L EXCEPT ![c.to] = Append(@, c.id)]
        BY <1>6, <2>3, Zenon DEF OwnIn
      <3>2. L2[c.to] = Append(L[c.to], c.id)
        BY <1>1, <3>1
      <3>3. Append(L[c.to], c.id) = Cat(L[c.to], <<c.id>>)
        BY <1>1, <2>1, CatOne
      <3>4. QED
        BY <2>1, <3>1, <3>2, <3>3
    <2>4. QED
      BY <2>2, <2>3
  <1>9. ASSUME NEW x \in IdsIn(e)
        PROVE  \E f \in Seq(Nat) :
                  /\ Owes(e, w, q, x, f)
                  /\ Cat(L2[x], Cat(Part(e, w, t, x), f))
                       = WantedIn(e, w, V \ (UnreadOf(q) \cup Unread(t)), x)
    <2>1. PICK f \in Seq(Nat) :
              /\ Owes(e, w, q, x, f)
              /\ Cat(L[x], Cat(Part(e, w, c, x), f))
                   = WantedIn(e, w, V \ (UnreadOf(q) \cup Unread(c)), x)
      BY DEF ListingTop
    <2>2. Cat(L2[x], Cat(Part(e, w, t, x), f)) = Cat(L[x], Cat(Part(e, w, c, x), f))
      <3>1. CASE x = c.to
        <4>1. PICK l \in Seq(Nat) : l = L[c.to]
          BY <1>8
        <4>2. Cat(u, f) \in Seq(Nat)
          BY CatType
        <4>3. Cat(Cat(l, o), Cat(u, f)) = Cat(l, Cat(o, Cat(u, f)))
          BY <4>2, CatAssoc
        <4>4. Cat(Cat(o, u), f) = Cat(o, Cat(u, f))
          BY CatAssoc
        <4>5. QED
          BY <1>7, <1>8, <3>1, <4>1, <4>3, <4>4
      <3>2. CASE x # c.to
        BY <1>2, <1>7, <3>2
      <3>3. QED
        BY <3>1, <3>2
    <2>3. QED
      BY <1>4, <2>1, <2>2
  <1>10. QED
    BY <1>1, <1>2, <1>9, Zenon DEF ListingTop

\* What the calls c, or t and d in its place, still append is the same, but
\* for what is wanted when the entries of O2 have been read, instead of O.
SameListing(e, w, L, O, O2, c, t, d) ==
    \A x \in IdsIn(e), f \in Seq(Nat) :
        Cat(L[x], Cat(Part(e, w, c, x), f)) = WantedIn(e, w, O, x)
        => Cat(L[x], Cat(Part(e, w, d, x), Cat(Part(e, w, t, x), f))) = WantedIn(e, w, O2, x)

\* The call on top calls another.
LEMMA ListCalls ==
    ASSUME NEW e, NEW V, NEW V2, NEW q \in Seq(CallOf), NEW c \in CallOf,
           NEW t \in CallOf, NEW d \in CallOf, NEW L, NEW w \in [IdsIn(e) -> IdLists],
           ListingTop(e, V, q, c, L, w), t.to = c.to, d.at = "enter", d.to \in IdsIn(e),
           t.at = "built" => EntryIn(e, t.id).objectType = "storage",
           SameListing(e, w, L, V \ (UnreadOf(q) \cup Unread(c)),
                       V2 \ (UnreadOf(q) \cup Unread(t)), c, t, d)
    PROVE  ListingTop(e, V2, Append(q, t), d, L, w)
  <1>1. Unread(d) = {} /\ d.at # "built"
    BY Zenon DEF Unread
  <1>2. UnreadOf(Append(q, t)) \cup Unread(d) = UnreadOf(q) \cup Unread(t)
    <2>1. UnreadOf(Append(q, t)) = UnreadOf(q) \cup Unread(t)
      BY MoreWaiting
    <2>2. QED
      BY <1>1, <2>1
  <1>3. Placed(e, Append(q, t))
    <2>1. PICK n \in Nat : n = Len(q)
      OBVIOUS
    <2>2. PICK s : s = Append(q, t)
      OBVIOUS
    <2>3. Len(s) = n + 1 /\ s[n + 1] = t /\ \A i \in 1 .. n : s[i] = q[i]
      BY <2>1, <2>2
    <2>4. \A i \in 1 .. n + 1 : i = n + 1 \/ i \in 1 .. n
      BY <2>1
    <2>5. Placed(e, q) /\ t.to \in IdsIn(e)
      BY DEF ListingTop
    <2>6. Placed(e, s)
      BY <2>1, <2>3, <2>4, <2>5, Zenon DEF Placed
    <2>7. QED
      BY <2>2, <2>6
  <1>4. ASSUME NEW x \in IdsIn(e)
        PROVE  \E g \in Seq(Nat) :
                  /\ Owes(e, w, Append(q, t), x, g)
                  /\ Cat(L[x], Cat(Part(e, w, d, x), g))
                       = WantedIn(e, w, V2 \ (UnreadOf(q) \cup Unread(t)), x)
    <2>1. PICK f \in Seq(Nat) :
              /\ Owes(e, w, q, x, f)
              /\ Cat(L[x], Cat(Part(e, w, c, x), f))
                   = WantedIn(e, w, V \ (UnreadOf(q) \cup Unread(c)), x)
      BY DEF ListingTop
    <2>2. PICK g : g = Cat(Part(e, w, t, x), f)
      OBVIOUS
    <2>3. g \in Seq(Nat) /\ Owes(e, w, Append(q, t), x, g)
      BY <2>1, <2>2, OwesMore, PartType, CatType
    <2>4. QED
      BY <2>1, <2>2, <2>3 DEF SameListing
  <1>5. L \in [IdsIn(e) -> IdLists]
    BY DEF ListingTop
  <1>6. QED
    BY <1>1, <1>2, <1>3, <1>4, <1>5 DEF ListingTop

\* It follows the link to the right.
LEMMA ListFollows ==
    ASSUME NEW e, NEW V, NEW q \in Seq(CallOf), NEW c \in CallOf,
           NEW t \in CallOf, NEW d \in CallOf, NEW L, NEW w \in [IdsIn(e) -> IdLists],
           ListingTop(e, V, q, c, L, w), c.at = "right",
           t.at = "return", t.id = c.id, t.to = c.to,
           d.at = "enter", d.id = EntryIn(e, c.id).rightSib, d.to = c.to
    PROVE  ListingTop(e, V, Append(q, t), d, L, w)
  <1>1. Unread(c) = {} /\ Unread(t) = {} /\ c.to \in IdsIn(e)
    BY DEF Unread, ListingTop
  <1>2. \A x : Part(e, w, d, x) = Part(e, w, c, x) /\ Part(e, w, t, x) = <<>>
    BY DEF Part
  <1>3. ASSUME NEW x \in IdsIn(e), NEW f \in Seq(Nat)
        PROVE  Cat(L[x], Cat(Part(e, w, d, x), Cat(Part(e, w, t, x), f)))
               = Cat(L[x], Cat(Part(e, w, c, x), f))
    BY <1>2, CatEmpty
  <1>4. SameListing(e, w, L, V \ (UnreadOf(q) \cup Unread(c)),
                    V \ (UnreadOf(q) \cup Unread(t)), c, t, d)
    BY <1>1, <1>3 DEF SameListing
  <1>5. QED
    BY <1>1, <1>4, ListCalls

\* It marks its entry, and follows the link to the left.
LEMMA ListMarks ==
    ASSUME NEW e, NEW V, NEW q \in Seq(CallOf), NEW c \in CallOf,
           NEW t \in CallOf, NEW d \in CallOf, NEW L, NEW w \in [IdsIn(e) -> IdLists],
           ListingTop(e, V, q, c, L, w), c.at = "enter", c.id \in IdsIn(e), c.id \notin V,
           w[c.id] = WholeOf(e, w, c.id),
           t.at = "self", t.id = c.id, t.to = c.to,
           d.at = "enter", d.id = EntryIn(e, c.id).leftSib, d.to = c.to
    PROVE  ListingTop(e, V \cup {c.id}, Append(q, t), d, L, w)
  <1>1. Unread(c) = {} /\ Unread(t) = {c.id} /\ c.to \in IdsIn(e) /\ c.id \in Nat
    BY DEF Unread, ListingTop, CallOf
  <1>2. (V \cup {c.id}) \ (UnreadOf(q) \cup Unread(t)) = V \ (UnreadOf(q) \cup Unread(c))
    BY <1>1
  <1>3. PICK u \in Seq(Nat) : u = UnderIn(e, w, EntryIn(e, c.id).rightSib)
    BY <1>1, WholeType
  <1>4. PICK o \in Seq(Nat) : o = OwnIn(e, c.id)
    BY <1>1, WholeType
  <1>5. PICK l \in Seq(Nat) : l = UnderIn(e, w, EntryIn(e, c.id).leftSib)
    BY <1>1, WholeType
  <1>6. /\ Part(e, w, c, c.to) = Cat(Cat(l, o), u)
        /\ Part(e, w, d, c.to) = l /\ Part(e, w, t, c.to) = Cat(o, u)
        /\ \A x : x # c.to => /\ Part(e, w, c, x) = <<>> /\ Part(e, w, d, x) = <<>>
                              /\ Part(e, w, t, x) = <<>>
    <2>1. UnderIn(e, w, c.id) = Cat(Cat(l, o), u)
      BY <1>3, <1>4, <1>5, Zenon DEF UnderIn, WholeOf, HeadOf
    <2>2. QED
      BY <1>3, <1>4, <1>5, <2>1 DEF Part
  <1>7. ASSUME NEW x \in IdsIn(e), NEW f \in Seq(Nat)
        PROVE  Cat(Part(e, w, d, x), Cat(Part(e, w, t, x), f)) = Cat(Part(e, w, c, x), f)
    <2>1. CASE x = c.to
      <3>1. Cat(o, u) \in Seq(Nat)
        BY CatType
      <3>2. Cat(Cat(l, o), u) = Cat(l, Cat(o, u))
        BY CatAssoc
      <3>3. Cat(Cat(l, Cat(o, u)), f) = Cat(l, Cat(Cat(o, u), f))
        BY <3>1, CatAssoc
      <3>4. QED
        BY <1>6, <2>1, <3>2, <3>3
    <2>2. CASE x # c.to
      BY <1>6, <2>2, CatEmpty
    <2>3. QED
      BY <2>1, <2>2
  <1>8. SameListing(e, w, L, V \ (UnreadOf(q) \cup Unread(c)),
                    (V \cup {c.id}) \ (UnreadOf(q) \cup Unread(t)), c, t, d)
    BY <1>2, <1>7 DEF SameListing
  <1>9. QED
    BY <1>1, <1>8, ListCalls

\* It walks the children of its storage, whose list is empty so far.
LEMMA ListBuilds ==
    ASSUME NEW e, NEW V, NEW q \in Seq(CallOf), NEW c \in CallOf,
           NEW t \in CallOf, NEW d \in CallOf, NEW L, NEW w \in [IdsIn(e) -> IdLists],
           ListingTop(e, V, q, c, L, w), c.at = "self", c.id \in IdsIn(e), c.id # 0,
           c.id \in V, c.id \notin UnreadOf(q), EntryIn(e, c.id).objectType = "storage",
           t.at = "built", t.id = c.id, t.to = c.to,
           d.at = "enter", d.id = EntryIn(e, c.id).childID, d.to = c.id
    PROVE  ListingTop(e, V, Append(q, t), d, L, w)
  <1>1. Unread(c) = {c.id} /\ Unread(t) = {} /\ L \in [IdsIn(e) -> IdLists]
    BY DEF Unread, ListingTop
  <1>2. \A x : Part(e, w, t, x) = Part(e, w, c, x)
    BY DEF Part
  <1>3. /\ Part(e, w, d, c.id) = UnderIn(e, w, EntryIn(e, c.id).childID)
        /\ \A x : x # c.id => Part(e, w, d, x) = <<>>
    BY DEF Part
  <1> DEFINE Before(x) == WantedIn(e, w, V \ (UnreadOf(q) \cup Unread(c)), x)
             After(x) == WantedIn(e, w, V \ (UnreadOf(q) \cup Unread(t)), x)
  <1>4. Before(c.id) = <<>> /\ After(c.id) = UnderIn(e, w, EntryIn(e, c.id).childID)
    BY <1>1 DEF WantedIn
  <1>5. \A x : x # c.id => After(x) = Before(x)
    <2>1. \A x : x # c.id => (x \in V \ (UnreadOf(q) \cup Unread(c))
                              <=> x \in V \ (UnreadOf(q) \cup Unread(t)))
      BY <1>1
    <2>2. QED
      BY <2>1, Zenon DEF WantedIn
  <1>6. ASSUME NEW x \in IdsIn(e), NEW f \in Seq(Nat),
               Cat(L[x], Cat(Part(e, w, c, x), f)) = Before(x)
        PROVE  Cat(L[x], Cat(Part(e, w, d, x), Cat(Part(e, w, t, x), f))) = After(x)
    <2>1. PICK p \in Seq(Nat) : p = Part(e, w, c, x)
      BY PartType
    <2>2. Cat(p, f) \in Seq(Nat) /\ L[x] \in Seq(Nat)
      BY <1>1, CatType DEF IdLists
    <2>3. CASE x = c.id
      <3>1. PICK k \in Seq(Nat) : k = UnderIn(e, w, EntryIn(e, c.id).childID)
        BY <2>3, WholeType DEF IdsIn
      <3>2. Cat(L[x], Cat(p, f)) = <<>>
        BY <1>4, <1>6, <2>1, <2>3
      <3>3. L[x] = <<>> /\ Cat(p, f) = <<>>
        BY <2>2, <3>2, CatNone
      <3>4. Cat(k, <<>>) = k /\ Cat(<<>>, k) = k
        BY CatEmpty
      <3>5. QED
        BY <1>2, <1>3, <1>4, <2>1, <2>3, <3>1, <3>3, <3>4
    <2>4. CASE x # c.id
      <3>1. Cat(<<>>, Cat(p, f)) = Cat(p, f)
        BY <2>2, CatEmpty
      <3>2. QED
        BY <1>2, <1>3, <1>5, <1>6, <2>1, <2>4, <3>1
    <2>5. QED
      BY <2>3, <2>4
  <1>7. SameListing(e, w, L, V \ (UnreadOf(q) \cup Unread(c)),
                    V \ (UnreadOf(q) \cup Unread(t)), c, t, d)
    BY <1>6 DEF SameListing
  <1>8. QED
    BY <1>7, ListCalls

-----------------------------------------------------------------------------
\* w unfolds on all that is reached.
Unfolds(e, w) == \E X \in SUBSET IdsIn(e) : ClosedUnder(e, X) /\ UnfoldsOn(e, w, X)

ListsNow ==
    \A w \in [IdsIn(entries) -> IdLists] :
        Unfolds(entries, w) => Listing(entries, visited, stack, lists, w)

ListsInv == TreeInv /\ ListsNow

LEMMA ListsInit == Init => ListsInv
  <1> SUFFICES ASSUME Init PROVE ListsInv
    OBVIOUS
  <1>1. /\ TreeInv /\ entries \in Directories /\ visited = {}
        /\ stack = <<Call(Entry(0).childID, 0)>> /\ lists = [id \in Ids |-> <<>>]
    BY TreeInit DEF Init
  <1>2. 0 \in Ids /\ Entry(0).childID \in Nat
    <2>1. 0 \in Ids
      BY <1>1, EntriesFacts DEF Ids
    <2>2. QED
      BY <1>1, <2>1, EntriesFacts
  <1>3. PICK c \in CallOf : /\ c = Call(Entry(0).childID, 0) /\ c.at = "enter"
                            /\ c.id = EntryIn(entries, 0).childID /\ c.to = 0
    BY <1>2, CallBegins, SameLinks
  <1>4. stack = Append(<<>>, c) /\ <<>> \in Seq(CallOf) /\ <<>> \in Seq(Nat) /\ <<>> \in IdLists
    BY <1>1, <1>3 DEF IdLists
  <1>5. lists \in [IdsIn(entries) -> IdLists] /\ \A x \in IdsIn(entries) : lists[x] = <<>>
    BY <1>1, <1>4, SameLinks
  <1>6. Unread(c) = {} /\ UnreadOf(<<>>) = {}
    BY <1>3, NoneWaiting, Zenon DEF Unread
  <1>7. ASSUME NEW w \in [IdsIn(entries) -> IdLists], NEW x \in IdsIn(entries)
        PROVE  \E f \in Seq(Nat) :
                  /\ Owes(entries, w, <<>>, x, f)
                  /\ Cat(lists[x], Cat(Part(entries, w, c, x), f))
                       = WantedIn(entries, w, {} \ (UnreadOf(<<>>) \cup Unread(c)), x)
    <2>1. Owes(entries, w, <<>>, x, <<>>)
      BY OwesNone
    <2>2. PICK p \in Seq(Nat) : p = Part(entries, w, c, x)
      BY PartType
    <2>3. Cat(lists[x], Cat(p, <<>>)) = p
      BY <1>5, <2>2, CatEmpty
    <2>4. p = WantedIn(entries, w, {} \ (UnreadOf(<<>>) \cup Unread(c)), x)
      BY <1>3, <2>2 DEF Part, WantedIn
    <2>5. QED
      BY <1>4, <2>1, <2>2, <2>3, <2>4
  <1>8. Placed(entries, <<>>)
    BY DEF Placed
  <1>9. ASSUME NEW w \in [IdsIn(entries) -> IdLists]
        PROVE  Listing(entries, visited, stack, lists, w)
    <2>1. ListingTop(entries, {}, <<>>, c, lists, w)
      BY <1>2, <1>3, <1>5, <1>7, <1>8, SameLinks DEF ListingTop
    <2>2. QED
      BY <1>1, <1>4, <2>1, ListingMore
  <1>10. QED
    BY <1>1, <1>9 DEF ListsInv, ListsNow

\* The lists as the call on top and those that wait have them.
LEMMA ListsSplit ==
    ASSUME TreeInv, stack # <<>>, NEW w \in [IdsIn(entries) -> IdLists],
           Listing(entries, visited, stack, lists, w)
    PROVE  /\ Callers \in Seq(CallOf) /\ Top \in CallOf /\ entries \in Directories
           /\ Top.at # "enter" => Top.id \in IdsIn(entries)
           /\ Top.id \in Nat /\ Top.to \in Nat
           /\ Walked(entries, visited, Callers, Top)
           /\ ListingTop(entries, visited, Callers, Top, lists, w)
  <1>1. /\ Callers \in Seq(CallOf) /\ Top \in CallOf /\ entries \in Directories
        /\ Walked(entries, visited, Callers, Top) /\ stack \in Seq(CallOf)
        /\ Top.at # "enter" => Top.id \in IdsIn(entries)
    BY StackFacts, SameLinks DEF TreeInv, Inv, Typed
  <1>2. stack = Append(Callers, Top)
    BY <1>1, SplitCalls DEF Callers, Top
  <1>3. ListingTop(entries, visited, Callers, Top, lists, w)
    BY <1>1, <1>2, ListingMore
  <1>4. QED
    BY <1>1, <1>3 DEF CallOf

\* EnterNothing and Return.
LEMMA ListsReturn ==
    ASSUME TreeInv, NEW w \in [IdsIn(entries) -> IdLists],
           Listing(entries, visited, stack, lists, w), EnterNothing \/ Return
    PROVE  Listing(entries, visited', stack', lists', w)
  <1>1. /\ stack # <<>> /\ stack' = Callers /\ UNCHANGED <<visited, lists>>
        /\ Top.at = "return" \/ (Top.at = "enter" /\ Top.id = NoStream)
    BY DEF EnterNothing, Return, Running
  <1>2. /\ Callers \in Seq(CallOf) /\ Top \in CallOf
        /\ ListingTop(entries, visited, Callers, Top, lists, w)
        /\ NoStream \notin IdsIn(entries)
    BY <1>1, ListsSplit, DirectoryFacts, SameLinks
  <1>3. Listing(entries, visited, Callers, lists, w)
    BY <1>1, <1>2, ListReturns
  <1>4. QED
    BY <1>1, <1>3

\* StorageBuilt, Stream and Tolerate.
LEMMA ListsGo ==
    ASSUME TreeInv, NEW w \in [IdsIn(entries) -> IdLists],
           Listing(entries, visited, stack, lists, w), StorageBuilt \/ Stream \/ Tolerate
    PROVE  Listing(entries, visited', stack', lists', w)
  <1>1. /\ stack # <<>> /\ stack' = Goes("right") /\ UNCHANGED visited
        /\ \/ /\ Top.at = "built" \/ (Top.at = "self" /\ Entry(Top.id).objectType = "stream")
              /\ lists' = [lists EXCEPT ![Top.to] = Append(@, Top.id)]
           \/ /\ Top.at = "self" /\ Entry(Top.id).objectType = "unallocated"
              /\ lists' = lists
    BY DEF StorageBuilt, Stream, Tolerate, Tolerated, Running, Listed, Holder
  <1>2. /\ Callers \in Seq(CallOf) /\ Top \in CallOf
        /\ ListingTop(entries, visited, Callers, Top, lists, w)
        /\ Entry(Top.id) = EntryIn(entries, Top.id)
    BY <1>1, ListsSplit, SameLinks
  <1>3. PICK t \in CallOf : /\ t = [Top EXCEPT !.at = "right"]
                            /\ t.at = "right" /\ t.id = Top.id /\ t.to = Top.to
    BY <1>2, CallGoes DEF Places
  <1>4. ListingTop(entries, visited, Callers, t, lists', w)
    BY <1>1, <1>2, <1>3, ListGoes
  <1>5. stack' = Append(Callers, t)
    BY <1>1, <1>3 DEF Goes
  <1>6. Listing(entries, visited, Append(Callers, t), lists', w)
    BY <1>2, <1>4, ListingMore
  <1>7. QED
    BY <1>1, <1>5, <1>6

\* What follows from the calls after a step in which the call on top calls another.
LEMMA ListsAfter ==
    ASSUME NEW w \in [IdsIn(entries) -> IdLists], NEW V, NEW q \in Seq(CallOf),
           NEW t \in CallOf, NEW d \in CallOf,
           ListingTop(entries, V, Append(q, t), d, lists, w)
    PROVE  Listing(entries, V, Append(Append(q, t), d), lists, w)
  <1>1. PICK r \in Seq(CallOf) : r = Append(q, t)
    <2>1. Append(q, t) \in Seq(CallOf)
      BY AppendProperties
    <2>2. QED
      BY <2>1
  <1>2. Listing(entries, V, Append(r, d), lists, w)
    BY <1>1, ListingMore
  <1>3. QED
    BY <1>1, <1>2

LEMMA ListsFollow ==
    ASSUME TreeInv, NEW w \in [IdsIn(entries) -> IdLists],
           Listing(entries, visited, stack, lists, w), Right
    PROVE  Listing(entries, visited', stack', lists', w)
  <1>1. /\ stack # <<>> /\ UNCHANGED <<visited, lists>> /\ Top.at = "right"
        /\ stack' = Append(Goes("return"), Call(Entry(Top.id).rightSib, Top.to))
    BY DEF Right, Running
  <1>2. /\ Callers \in Seq(CallOf) /\ Top \in CallOf /\ entries \in Directories
        /\ Top.id \in Ids /\ Top.to \in Nat
        /\ ListingTop(entries, visited, Callers, Top, lists, w)
        /\ Entry(Top.id) = EntryIn(entries, Top.id)
    BY <1>1, ListsSplit, SameLinks
  <1>3. PICK t \in CallOf : /\ t = [Top EXCEPT !.at = "return"]
                            /\ t.at = "return" /\ t.id = Top.id /\ t.to = Top.to
    BY <1>2, CallGoes DEF Places
  <1>4. PICK d \in CallOf : /\ d = Call(Entry(Top.id).rightSib, Top.to) /\ d.at = "enter"
                            /\ d.id = EntryIn(entries, Top.id).rightSib /\ d.to = Top.to
    <2>1. Entry(Top.id).rightSib \in Nat
      BY <1>2, EntriesFacts
    <2>2. QED
      BY <1>2, <2>1, CallBegins
  <1>5. ListingTop(entries, visited, Append(Callers, t), d, lists, w)
    BY <1>1, <1>2, <1>3, <1>4, ListFollows
  <1>6. Listing(entries, visited, Append(Append(Callers, t), d), lists, w)
    BY <1>2, <1>5, ListsAfter
  <1>7. stack' = Append(Append(Callers, t), d)
    BY <1>1, <1>3, <1>4 DEF Goes
  <1>8. QED
    BY <1>1, <1>6, <1>7

LEMMA ListsBuild ==
    ASSUME TreeInv, NEW w \in [IdsIn(entries) -> IdLists],
           Listing(entries, visited, stack, lists, w), Storage
    PROVE  Listing(entries, visited', stack', lists', w)
  <1>1. /\ stack # <<>> /\ UNCHANGED <<visited, lists>> /\ Top.at = "self"
        /\ Entry(Top.id).objectType = "storage"
        /\ stack' = Append(Goes("built"), Call(Entry(Top.id).childID, Top.id))
    BY DEF Storage, Running
  <1>2. /\ Callers \in Seq(CallOf) /\ Top \in CallOf /\ entries \in Directories
        /\ Top.id \in Ids /\ Top.id \in Nat /\ Top.id \in IdsIn(entries)
        /\ ListingTop(entries, visited, Callers, Top, lists, w)
        /\ Walked(entries, visited, Callers, Top)
        /\ Entry(Top.id) = EntryIn(entries, Top.id)
    BY <1>1, ListsSplit, SameLinks
  <1>3. PICK t \in CallOf : /\ t = [Top EXCEPT !.at = "built"]
                            /\ t.at = "built" /\ t.id = Top.id /\ t.to = Top.to
    BY <1>2, CallGoes DEF Places
  <1>4. PICK d \in CallOf : /\ d = Call(Entry(Top.id).childID, Top.id) /\ d.at = "enter"
                            /\ d.id = EntryIn(entries, Top.id).childID /\ d.to = Top.id
    <2>1. Entry(Top.id).childID \in Nat
      BY <1>2, EntriesFacts
    <2>2. QED
      BY <1>2, <2>1, CallBegins
  <1>5. Top.id # 0
    BY <1>1, <1>2, DirectoryFacts
  <1>6. Top.id \in visited /\ Top.id \notin UnreadOf(Callers)
    <2>1. Top.id \in visited /\ Top.id \notin IdsOf(Callers)
      BY <1>1, <1>2, Zenon DEF Walked
    <2>2. UnreadOf(Callers) \subseteq IdsOf(Callers)
      <3>1. ASSUME NEW id \in UnreadOf(Callers) PROVE id \in IdsOf(Callers)
        <4>1. PICK i \in 1 .. Len(Callers) : id \in Unread(Callers[i])
          BY Zenon DEF UnreadOf
        <4>2. id = Callers[i].id
          BY <4>1, Zenon DEF Unread
        <4>3. QED
          BY <4>2, Zenon DEF IdsOf
      <3>2. QED
        BY <3>1
    <2>3. QED
      BY <2>1, <2>2
  <1>7. ListingTop(entries, visited, Append(Callers, t), d, lists, w)
    BY <1>1, <1>2, <1>3, <1>4, <1>5, <1>6, ListBuilds
  <1>8. Listing(entries, visited, Append(Append(Callers, t), d), lists, w)
    BY <1>2, <1>7, ListsAfter
  <1>9. stack' = Append(Append(Callers, t), d)
    BY <1>1, <1>3, <1>4 DEF Goes
  <1>10. QED
    BY <1>1, <1>8, <1>9

LEMMA ListsMark ==
    ASSUME TreeInv, TreeInv', NEW w \in [IdsIn(entries) -> IdLists], Unfolds(entries, w),
           Listing(entries, visited, stack, lists, w), Enter
    PROVE  Listing(entries, visited', stack', lists', w)
  <1>1. /\ stack # <<>> /\ UNCHANGED <<entries, lists>> /\ Top.at = "enter"
        /\ Top.id \in Ids /\ Top.id \notin visited /\ visited' = visited \cup {Top.id}
        /\ stack' = Append(Goes("self"), Call(Entry(Top.id).leftSib, Top.to))
    BY DEF Enter, Mark, Running
  <1>2. /\ Callers \in Seq(CallOf) /\ Top \in CallOf /\ entries \in Directories
        /\ Top.to \in Nat /\ Top.id \in IdsIn(entries)
        /\ ListingTop(entries, visited, Callers, Top, lists, w)
        /\ Entry(Top.id) = EntryIn(entries, Top.id)
    BY <1>1, ListsSplit, SameLinks
  <1>3. PICK t \in CallOf : /\ t = [Top EXCEPT !.at = "self"]
                            /\ t.at = "self" /\ t.id = Top.id /\ t.to = Top.to
    BY <1>2, CallGoes DEF Places
  <1>4. PICK d \in CallOf : /\ d = Call(Entry(Top.id).leftSib, Top.to) /\ d.at = "enter"
                            /\ d.id = EntryIn(entries, Top.id).leftSib /\ d.to = Top.to
    <2>1. Entry(Top.id).leftSib \in Nat
      BY <1>1, <1>2, EntriesFacts
    <2>2. QED
      BY <1>2, <2>1, CallBegins
  <1>5. w[Top.id] = WholeOf(entries, w, Top.id)
    <2>1. PICK X \in SUBSET IdsIn(entries) : ClosedUnder(entries, X) /\ UnfoldsOn(entries, w, X)
      BY DEF Unfolds
    <2>2. Grounded(entries, visited \cup {Top.id})
      BY <1>1 DEF TreeInv
    <2>3. Top.id \in X
      BY <2>1, <2>2 DEF Grounded
    <2>4. QED
      BY <2>1, <2>3 DEF UnfoldsOn
  <1>6. ListingTop(entries, visited \cup {Top.id}, Append(Callers, t), d, lists, w)
    BY <1>1, <1>2, <1>3, <1>4, <1>5, ListMarks
  <1>7. Listing(entries, visited \cup {Top.id}, Append(Append(Callers, t), d), lists, w)
    BY <1>2, <1>6, ListsAfter
  <1>8. stack' = Append(Append(Callers, t), d)
    BY <1>1, <1>3, <1>4 DEF Goes
  <1>9. QED
    BY <1>1, <1>7, <1>8

LEMMA ListsNext == ListsInv /\ [Next]_vars => ListsInv'
  <1> SUFFICES ASSUME ListsInv, [Next]_vars PROVE ListsInv'
    OBVIOUS
  <1>1. TreeInv /\ TreeInv'
    BY TreeNext DEF ListsInv
  <1>2. entries' = entries
    BY DEF Next, vars, EnterNothing, Enter, EnterFails, Storage, StorageBuilt, Stream,
           Tolerate, Refuse, Right, Return, Finish
  <1>3. ASSUME NEW w \in [IdsIn(entries) -> IdLists], Unfolds(entries, w)
        PROVE  Listing(entries, visited', stack', lists', w)
    <2>1. Listing(entries, visited, stack, lists, w)
      BY <1>3 DEF ListsInv, ListsNow
    <2>2. CASE EnterNothing \/ Return
      BY <1>1, <2>1, <2>2, ListsReturn
    <2>3. CASE StorageBuilt \/ Stream \/ Tolerate
      BY <1>1, <2>1, <2>3, ListsGo
    <2>4. CASE Right
      BY <1>1, <2>1, <2>4, ListsFollow
    <2>5. CASE Storage
      BY <1>1, <2>1, <2>5, ListsBuild
    <2>6. CASE Enter
      BY <1>1, <1>3, <2>1, <2>6, ListsMark
    <2>7. CASE EnterFails \/ Refuse \/ Finish \/ UNCHANGED vars
      <3>1. UNCHANGED <<visited, stack, lists>>
        BY <2>7 DEF EnterFails, Refuse, Finish, vars
      <3>2. QED
        BY <2>1, <3>1
    <2>8. QED
      BY <2>2, <2>3, <2>4, <2>5, <2>6, <2>7 DEF Next
  <1>4. ListsNow'
    BY <1>2, <1>3 DEF ListsNow
  <1>5. QED
    BY <1>1, <1>4 DEF ListsInv

(* For every directory that is accepted: each storage reached has its       *)
(* children listed in the order of their tree, and nothing else is listed.  *)
THEOREM ListsOrdered == Spec => []ListsInOrder
  <1>1. ListsInv => ListsInOrder
    <2> SUFFICES ASSUME ListsInv, pc = "done"
                 PROVE  \A id \in Reached \cup {0} :
                           lists[id] = IF id = 0 \/ Entry(id).objectType = "storage"
                                       THEN Under(InOrder, Entry(id).childID) ELSE <<>>
      BY DEF ListsInOrder
    <2>1. /\ TreeInv /\ entries \in Directories
          /\ stack = <<>> /\ Complete(entries, visited)
      BY DEF ListsInv, TreeInv, Inv, Typed
    <2>2. Proper /\ Reached = visited
      BY <2>1, CompleteIsProper
    <2>3. PICK w : w = InOrder
      OBVIOUS
    <2>4. PICK N \in Nat : N = Len(entries)
      BY <2>1, EntriesFacts
    <2>5. w \in [IdsIn(entries) -> IdLists]
      <3>1. IsListing(entries, w)
        BY <2>3, <2>4, InOrderListing
      <3>2. PICK f : Deepens(entries, f, N) /\ w = f[N]
        BY <2>4, <3>1 DEF IsListing
      <3>3. N \in 0 .. N
        BY <2>4
      <3>4. QED
        BY <2>4, <3>2, <3>3, ListingType
    <2>6. Unfolds(entries, w)
      <3>1. UnfoldsOn(entries, w, Reached)
        BY <2>1, <2>2, <2>3, ProperUnfolds
      <3>2. Reached \subseteq IdsIn(entries) /\ ClosedUnder(entries, Reached)
        BY <2>1, ReachedIsLeast, ClosedFollows, SameLinks
      <3>3. QED
        BY <3>1, <3>2, Zenon DEF Unfolds
    <2>7. Listing(entries, visited, <<>>, lists, w)
      BY <2>1, <2>5, <2>6 DEF ListsInv, ListsNow
    <2>8. Reached \cup {0} \subseteq IdsIn(entries)
      <3>1. 0 \in IdsIn(entries)
        BY <2>1, EntriesFacts DEF IdsIn
      <3>2. QED
        BY <2>1, <3>1, ReachedIsLeast, SameLinks
    <2>9. ASSUME NEW id \in Reached \cup {0}
          PROVE  lists[id] = IF id = 0 \/ EntryIn(entries, id).objectType = "storage"
                             THEN UnderIn(entries, w, EntryIn(entries, id).childID) ELSE <<>>
      <3>1. PICK g \in Seq(Nat) :
                /\ Owes(entries, w, <<>>, id, g)
                /\ Cat(lists[id], g) = WantedIn(entries, w, visited \ UnreadOf(<<>>), id)
        BY <2>7, <2>8 DEF Listing
      <3>2. lists[id] \in Seq(Nat)
        BY <2>7, <2>8 DEF Listing, IdLists
      <3>3. g = <<>>
        BY <3>1, OwesNone
      <3>4. lists[id] = WantedIn(entries, w, visited \ UnreadOf(<<>>), id)
        BY <3>1, <3>2, <3>3, CatEmpty
      <3>5. id = 0 \/ id \in visited \ UnreadOf(<<>>)
        BY <2>2, NoneWaiting
      <3>6. QED
        BY <3>4, <3>5, Zenon DEF WantedIn
    <2>10. \A k : UnderIn(entries, w, k) = Under(InOrder, k)
      BY <2>3, SameLinks, Zenon DEF UnderIn, Under
    <2>11. QED
      BY <2>9, <2>10, SameLinks
  <1>2. QED
    BY <1>1, ListsInit, ListsNext, PTL DEF Spec
=============================================================================
