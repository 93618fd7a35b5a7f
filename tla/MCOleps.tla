------------------------------ MODULE MCOleps ------------------------------
(***************************************************************************)
(* Lists of properties for Oleps: every type, texts of even and odd        *)
(* length, with a NUL, a character that needs two bytes and one that needs *)
(* four, times that are not set, between two ticks, at both ends of the    *)
(* range and beyond, a code page that is missing, late, repeated or of     *)
(* another type.                                                           *)
(***************************************************************************)
EXTENDS Oleps, TLC

P(id, vt, v) == [id |-> id, value |-> [vt |-> vt, v |-> v]]
Single(props) == [version |-> 1, sets |-> <<props>>]

\* A code page in which every byte is a character, as 1252, and one with bytes
\* that are none, as 1253.
cp1252 == 52
cp1253 == 53
SomeUnmapped == cp1252 :> {} @@ cp1253 :> {8, 9}

Ansi == P(1, vtI2, <<cp1252>>)
Greek == P(1, vtI2, <<cp1253>>)
Wide == P(1, vtI2, <<cpWinUnicode>>)

\* The halves of one character.
SomeHigh == {60}
SomeLow == {80}

Texts == {<<>>, <<7>>, <<7, 0>>, <<7, 8, 9>>, <<0>>, <<7, Base + 1>>, <<60, 80>>}
LastTime == NanosPerTick * TicksPerSec * (MaxSec + 1) - 1
Times == {<<>>, <<0>>, <<1>>, <<5>>, <<-1>>, <<LastTime>>, <<LastTime + 1>>}

Others == {P(3, vtI4, <<77>>), P(4, vtUI4, <<2>>), P(5, vtI2, <<3>>)}
    \cup {P(2, vtLPSTR, s) : s \in Texts} \cup {P(6, vtFileTime, t) : t \in Times}
    \cup {[id |-> 7, value |-> Nil], P(0, vtI4, <<1>>), Ansi}

Lists == {<<>>, <<P(1, vtI4, <<cp1252>>)>>, <<P(1, vtI2, <<cp1252 - 1>>)>>}
    \cup {<<page, p, P(2, vtLPSTR, <<7>>)>> : page \in {Ansi, Greek, Wide}, p \in Others}
    \cup {<<p, page>> : page \in {Ansi, Greek, Wide}, p \in Others}

SomeStreams == {Single(props) : props \in Lists}
    \cup {[version |-> 2, sets |-> <<<<Ansi>>>>],
          [version |-> 0, sets |-> <<>>], [version |-> 0, sets |-> <<<<Ansi>>, <<Ansi>>>>]}

\* The start, the number of sets, and every word from the set's offset on.
SomePlaces == {0, 24} \cup {4 * k : k \in 11 .. 30}

\* Words, among them the offsets of a set of three properties and some between
\* them, code pages, halves of characters, and a quad word of all ones.
SomeDamages == {Num(n, 4) : n \in {0, 1, 2, 3, 8, 28, 30, 31, 38, 39, 44, 48, 50, 53, 54, 60, 80, 8060, U32 - 4}}
    \cup {[i \in 1 .. 8 |-> Base - 1]}
=============================================================================
