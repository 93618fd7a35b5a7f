------------------------------ MODULE MCAddFS -------------------------------
(* Instances of AddFS for TLC. The names are ".", "..", "A", "B", "a" and   *)
(* "bb" in the order of their bytes; compareNames takes "A" and "a" for     *)
(* one, and "bb", which is longer, for the last.                            *)
EXTENDS AddFS, TLC

CONSTANTS c1, c2

SomeNames == 0 .. 5
A == 2
B == 3
a == 4
bb == 5
SomeRank == 0 :> 0 @@ 1 :> 4 @@ A :> 1 @@ B :> 2 @@ a :> 1 @@ bb :> 5

Root(children) == 0 :> Storage(0, children)

\* Storages in storages, an empty one, an empty file, a name twice in two storages.
Nested ==
    Root(<<1, 4, 5>>) @@ 1 :> Storage(bb, <<3, 2>>)
    @@ 2 :> Stream(A, <<1, 2, 3>>) @@ 3 :> Storage(B, <<>>)
    @@ 4 :> Stream(a, <<>>) @@ 5 :> Stream(B, <<4, 5>>)

\* Names that differ by their case, of a file and a storage.
TwoCases ==
    Root(<<1, 3>>) @@ 1 :> Storage(a, <<2>>) @@ 2 :> Stream(bb, <<1, 2>>) @@ 3 :> Stream(A, <<3>>)

\* Names no path may have.
DotInside  == Root(<<1>>) @@ 1 :> Storage(B, <<2>>) @@ 2 :> Storage(Dot, <<>>)
DotStream  == Root(<<2, 1>>) @@ 1 :> Stream(Dot, <<1>>) @@ 2 :> Stream(B, <<2>>)
DotDotRoot == Root(<<1, 2>>) @@ 1 :> Stream(bb, <<1>>) @@ 2 :> Storage(DotDot, <<>>)

\* A name the others have, too.
Small == Root(<<1>>) @@ 1 :> Storage(A, <<2>>) @@ 2 :> Stream(A, <<6, 7>>)

SomeSources == {Nested, TwoCases, DotInside, DotStream, DotDotRoot, Small}

\* The root has a storage ".".
DotSources == {Root(<<1>>) @@ 1 :> Storage(Dot, <<2>>) @@ 2 :> Stream(B, <<1>>)}
=============================================================================
