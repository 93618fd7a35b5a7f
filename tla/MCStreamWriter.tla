--------------------------- MODULE MCStreamWriter ---------------------------
(* Instances of StreamWriter for TLC.                                       *)
EXTENDS StreamWriter

CONSTANTS s1, s2, d1, root

\* A stream beside a storage that holds a stream of the same name.
SmallParent == s1 :> root @@ s2 :> d1 @@ d1 :> root
SmallName   == s1 :> 1 @@ s2 :> 1 @@ d1 :> 2
=============================================================================
