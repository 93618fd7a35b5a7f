------------------------------ MODULE MCWriter ------------------------------
(* Instances of Writer for TLC.                                             *)
EXTENDS Writer

CONSTANTS s1, s2, s3, d1, root

\* Two streams in the root storage.
FlatParent == s1 :> root @@ s2 :> root
FlatName   == s1 :> 1 @@ s2 :> 2

\* One stream beside a storage with two streams, one of them with its name.
DeepParent == s1 :> root @@ s2 :> d1 @@ s3 :> d1 @@ d1 :> root
DeepName   == s1 :> 2 @@ s2 :> 2 @@ s3 :> 1 @@ d1 :> 1
=============================================================================
