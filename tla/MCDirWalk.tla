----------------------------- MODULE MCDirWalk -----------------------------
(* Instances of DirWalk for TLC.                                            *)
EXTENDS DirWalk

RootWith(child) ==
    [objectType |-> "root", leftSib |-> NoStream, rightSib |-> NoStream, childID |-> child]

EntriesOf(types, links, children) ==
    [objectType : types, leftSib : links, rightSib : links, childID : children]

\* Two entries of every type besides the root, with links to each of the three,
\* to none and to an entry that is not there. A child is looked at in a storage
\* only.
SmallDirectories ==
    LET links == {0, 1, 2, 3, NoStream}
        others == EntriesOf({"storage"}, links, links)
                  \cup EntriesOf(Types \ {"storage"}, links, {NoStream})
    IN  {RootWith(child) : child \in {0, 1, 3, NoStream}} \X others \X others

\* Three storages or streams, linked in every way.
LargerDirectories ==
    LET links == {1, 2, 3, NoStream}
        others == EntriesOf({"storage"}, links, links) \cup EntriesOf({"stream"}, links, {NoStream})
    IN  {RootWith(1)} \X EntriesOf({"storage"}, links, links) \X others \X others

AllDirectories == SmallDirectories \cup LargerDirectories
=============================================================================
