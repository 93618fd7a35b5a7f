-------------------------------- MODULE Names --------------------------------
(***************************************************************************)
(* How the names of siblings are compared (name.go), with the table of     *)
(* ranges that casetablegen computes: it inverts the case folding of       *)
(* Unicode, applies the exceptions of MS-CFB one by one, and compresses    *)
(* the pairs, turn by turn, into ranges of two kinds. toUpper searches a   *)
(* range by its bounds and never sees the pairs it was made from.          *)
(***************************************************************************)
EXTENDS Integers, Sequences, SequencesExt, FiniteSetsExt

CONSTANTS
    NumCodes,       \* the number of code units, 2^16 in the code
    AsciiEnd,       \* toUpper answers for the codes below it without the table
    AsciiLower,     \* the lowercase ones among them
    AsciiShift,     \* how far they are from their uppercase
    Surrogates,     \* the codes it returns as they are
    Foldings,       \* the case foldings: functions from some codes to others
    ExceptionsFor(_)    \* the lists of exceptions that go with a folding

UpperLower == NumCodes \div 4
Codes == 0 .. NumCodes - 1

\* uint16
Wrap(x) == x % NumCodes

ASSUME CodesAssumption ==
    /\ NumCodes \in Nat
    /\ NumCodes >= 4
    /\ AsciiEnd \in 1 .. NumCodes
    /\ AsciiShift \in Nat
    /\ AsciiLower \subseteq AsciiShift .. AsciiEnd - 1

\* A folding leaves nothing more to fold, does not touch the surrogates, folds
\* in ASCII what toUpper does, and nothing by the distance that marks a range;
\* nor do the exceptions.
ASSUME FoldingAssumption ==
    \A f \in Foldings :
        /\ DOMAIN f \subseteq Codes \ Surrogates
        /\ \A s \in DOMAIN f : f[s] \in Codes \ (DOMAIN f \cup Surrogates)
        /\ \A s \in DOMAIN f : Wrap(s - f[s]) # UpperLower
        /\ {s \in DOMAIN f : f[s] < AsciiEnd /\ s < AsciiEnd} = {c - AsciiShift : c \in AsciiLower}
        /\ \A c \in AsciiLower : f[c - AsciiShift] = c
        /\ \A s \in DOMAIN f : s < AsciiEnd => f[s] < AsciiEnd
        /\ \A rows \in ExceptionsFor(f) : \A e \in Range(rows) : Wrap(e.to - e.from) # UpperLower

VARIABLES
    base,           \* from lowercase to uppercase
    exceptions,     \* those still to apply: [add, from, to]
    pairs,          \* base as a list of [lo, up], sorted by lo
    i, j,           \* the run of pairs looked at: from i on, before j
    table,          \* the ranges: [lo, hi, delta]
    stage           \* "apply", "compress", "alternating", "constant" or "done"

vars == <<base, exceptions, pairs, i, j, table, stage>>

-----------------------------------------------------------------------------
(* parseFolding and apply                                                   *)

\* parseFolding: of several codes that fold to one, the first in the file stays.
Inverted(f) == [lo \in {f[s] : s \in DOMAIN f} |-> Min({s \in DOMAIN f : f[s] = lo})]

Init ==
    /\ \E f \in Foldings :
          /\ base = Inverted(f)
          /\ exceptions \in ExceptionsFor(f)
    /\ pairs = <<>>
    /\ i = 1
    /\ j = 1
    /\ table = <<>>
    /\ stage = "apply"

Without(b, c) == [lo \in DOMAIN b \ {c} |-> b[lo]]
With(b, c, up) == [lo \in DOMAIN b \cup {c} |-> IF lo = c THEN up ELSE b[lo]]

\* base after one row: added, a pair of the same code deletes it; subtracted,
\* the pair is deleted if base has it.
Applied(b, e) ==
    CASE e.add /\ e.from = e.to -> Without(b, e.from)
      [] e.add /\ e.from # e.to -> With(b, e.from, e.to)
      [] ~e.add /\ e.from \in DOMAIN b /\ b[e.from] = e.to -> Without(b, e.from)
      [] OTHER -> b

Apply ==
    /\ stage = "apply"
    /\ exceptions # <<>>
    /\ base' = Applied(base, Head(exceptions))
    /\ exceptions' = Tail(exceptions)
    /\ UNCHANGED <<pairs, i, j, table, stage>>

\* The pairs of b, without those of one code.
PairsOf(b) == {[lo |-> c, up |-> b[c]] : c \in {c \in DOMAIN b : b[c] # c}}

SortPairs ==
    /\ stage = "apply"
    /\ exceptions = <<>>
    /\ pairs' \in {q \in SetToSeqs(PairsOf(base)) : \A k, l \in DOMAIN q : k < l => q[k].lo < q[l].lo}
    /\ stage' = "compress"
    /\ UNCHANGED <<base, exceptions, i, j, table>>

-----------------------------------------------------------------------------
(* compress, with the loops of alternatingRunEnd and constantRunEnd         *)

\* Mutant: the uppercase codes need not alternate with the lowercase ones.
AlternatesLoosely(p, q) == q.lo = Wrap(p.lo + 2)

Alternates(p, q) == q.lo = Wrap(p.lo + 2) /\ q.up = Wrap(p.up + 2) /\ q.lo = Wrap(q.up + 1)
SameDelta(p, q) == q.lo = Wrap(p.lo + 1) /\ q.up - q.lo = p.up - p.lo

Start ==
    /\ stage = "compress"
    /\ i <= Len(pairs)
    /\ j' = i + 1
    /\ stage' = IF pairs[i].lo = Wrap(pairs[i].up + 1) THEN "alternating" ELSE "constant"
    /\ UNCHANGED <<base, exceptions, pairs, i, table>>

\* The pair at j continues the run.
Continues ==
    /\ j <= Len(pairs)
    /\ \/ stage = "alternating" /\ Alternates(pairs[j - 1], pairs[j])
       \/ stage = "constant" /\ SameDelta(pairs[j - 1], pairs[j])

Extend ==
    /\ stage \in {"alternating", "constant"}
    /\ Continues
    /\ j' = j + 1
    /\ UNCHANGED <<base, exceptions, pairs, i, table, stage>>

\* The range for the run has been found; the next run begins behind it.
AddRange(r) ==
    /\ table' = Append(table, r)
    /\ i' = j
    /\ stage' = "compress"
    /\ UNCHANGED <<base, exceptions, pairs, j>>

EndAlternating ==
    /\ stage = "alternating"
    /\ ~Continues
    /\ j - i >= 2
    /\ AddRange([lo |-> pairs[i].up, hi |-> pairs[j - 1].lo, delta |-> UpperLower])

\* A single pair is no alternating run.
TryConstant ==
    /\ stage = "alternating"
    /\ ~Continues
    /\ j - i < 2
    /\ stage' = "constant"
    /\ j' = i + 1
    /\ UNCHANGED <<base, exceptions, pairs, i, table>>

EndConstant ==
    /\ stage = "constant"
    /\ ~Continues
    /\ AddRange([lo |-> pairs[i].lo, hi |-> pairs[j - 1].lo, delta |-> Wrap(pairs[i].up - pairs[i].lo)])

Emit ==
    /\ stage = "compress"
    /\ i > Len(pairs)
    /\ stage' = "done"
    /\ UNCHANGED <<base, exceptions, pairs, i, j, table>>

Next == Apply \/ SortPairs \/ Start \/ Extend \/ EndAlternating \/ TryConstant \/ EndConstant \/ Emit

Spec == Init /\ [][Next]_vars

-----------------------------------------------------------------------------
(* toUpper                                                                  *)

\* What the binary search finds: the first range that does not end before c.
Found(c) == {r \in DOMAIN table : c <= table[r].hi /\ \A q \in 1 .. r - 1 : table[q].hi < c}

\* c in the range r.
UpperIn(r, c) ==
    IF r.delta = UpperLower THEN r.lo + ((c - r.lo) \div 2) * 2 ELSE Wrap(c + r.delta)

AsciiUpper(c) == IF c \in AsciiLower THEN c - AsciiShift ELSE c

ToUpper(c) ==
    IF c < AsciiEnd THEN AsciiUpper(c)
    ELSE IF c \in Surrogates \/ \A r \in Found(c) : c < table[r].lo THEN c
    ELSE UpperIn(table[CHOOSE r \in Found(c) : TRUE], c)

-----------------------------------------------------------------------------
(* Properties                                                               *)

\* What the folding with the exceptions maps c to.
Mapped(c) == IF c \in DOMAIN base THEN base[c] ELSE c

\* What the folding of Unicode with the exceptions of MS-CFB is like: no
\* uppercase code has an uppercase itself, and toUpper's shortcuts are right.
Clean(b) ==
    /\ DOMAIN b \subseteq Codes \ Surrogates
    /\ \A c \in DOMAIN b : b[c] \in Codes \ DOMAIN b /\ Wrap(b[c] - c) # UpperLower
    /\ \A c \in 0 .. AsciiEnd - 1 : AsciiUpper(c) = IF c \in DOMAIN b THEN b[c] ELSE c

(* toUpper gives for every code, those between and beside the ranges too,   *)
(* what the folding with the exceptions gives: in a range of alternating    *)
(* pairs the uppercase codes stay, no range covers a code of another, and   *)
(* the codes that are answered without the table agree with it.             *)
LooksUp == stage = "done" => \A c \in Codes : ToUpper(c) = Mapped(c)
=============================================================================
