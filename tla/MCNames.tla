------------------------------- MODULE MCNames -------------------------------
(* Instances of Names for TLC: "A" and "a" are 0 and 1, 7 is a surrogate,   *)
(* and 2 to 6, 8 and 9 fold in every way.                                   *)
EXTENDS Names

Free == 2 .. 6 \cup {8, 9}

Admissible(f) ==
    \A s \in DOMAIN f : s = 0 \/ (f[s] \in (Free \ DOMAIN f) \cup {1} /\ Wrap(s - f[s]) # UpperLower)

SomeFoldings ==
    UNION {{f \in [{0} \cup srcs -> 1 .. 9] : f[0] = 1 /\ Admissible(f)} : srcs \in kSubset(3, Free) \cup kSubset(2, Free)}

Row(add, from, to) == [add |-> add, from |-> from, to |-> to]

\* The capital folds to the small letter: the small one stays as it is and the
\* capital becomes it, in the two orders the exceptions have.
Swapped(u, l) ==
    {<<Row(TRUE, u, l), Row(FALSE, u, u), Row(TRUE, l, l), Row(FALSE, l, u)>>,
     <<Row(TRUE, l, l), Row(FALSE, l, u), Row(TRUE, u, l), Row(FALSE, u, u)>>}

\* Two letters, s and u, fold to l: u is the uppercase of both.
Final(s, u, l) ==
    {<<Row(TRUE, s, u), Row(FALSE, s, s), Row(TRUE, l, u), Row(FALSE, l, s)>>}

\* The exceptions must not add a pair at the distance that marks a range.
Far(from, to) == Wrap(to - from) # UpperLower /\ Wrap(from - to) # UpperLower

SomeExceptions(f) ==
    LET Srcs == DOMAIN f \ {0} IN
    {<<>>} \cup UNION {Swapped(u, f[u]) : u \in {u \in Srcs : f[u] # 1 /\ Far(u, f[u])}}
           \cup UNION {Final(p[1], p[2], f[p[1]]) :
                          p \in {p \in Srcs \X Srcs : p[1] # p[2] /\ f[p[1]] = f[p[2]] /\ f[p[1]] # 1 /\ Far(p[1], p[2])}}
=============================================================================
