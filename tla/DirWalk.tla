------------------------------ MODULE DirWalk -------------------------------
(***************************************************************************)
(* walkBST and buildStorage of reader.go, call by call, over any directory *)
(* a file may hold: links to no entry, to the root, to an entry that was   *)
(* seen already, cycles, unallocated entries in a tree, unknown types.     *)
(*                                                                         *)
(* The recursion is a stack of the calls of walkBST that have not yet      *)
(* returned; the call of buildStorage in between has no frame of its own.  *)
(***************************************************************************)
EXTENDS Integers, Sequences, FiniteSets

CONSTANTS
    Directories,    \* the values p.entries may have
    NoStream        \* noStream, which is no entry

\* The object types: those of the format, one no version of it has, and a
\* stream whose chain buildStream refuses.
Types == {"unallocated", "storage", "stream", "root", "unknown", "badStream"}

ASSUME DirectoryAssumption ==
    /\ NoStream \in Nat
    /\ \A d \in Directories :
          /\ d \in Seq([objectType : Types, leftSib : Nat, rightSib : Nat, childID : Nat])
          /\ d # <<>>
          /\ d[1].objectType = "root"
          /\ Len(d) <= NoStream

VARIABLES
    entries,    \* p.entries
    visited,    \* the entries marked visited
    stack,      \* the calls of walkBST: [id, to, at], to is the storage whose list grows
    lists,      \* the children found of each entry, by their ids
    pc          \* "walk", "done" or "error"

vars == <<entries, visited, stack, lists, pc>>

Ids == 0 .. Len(entries) - 1
Entry(id) == entries[id + 1]

Call(id, to) == [id |-> id, to |-> to, at |-> "enter"]
Top == stack[Len(stack)]
Callers == SubSeq(stack, 1, Len(stack) - 1)

\* The call on top goes on to the place at.
Goes(at) == Append(Callers, [Top EXCEPT !.at = at])

Running(at) == pc = "walk" /\ stack # <<>> /\ Top.at = at

\* *out = append(*out, ...)
Listed(id, to) == [lists EXCEPT ![to] = Append(@, id)]

-----------------------------------------------------------------------------
\* NewReader calls buildStorage(0).
Init ==
    /\ entries \in Directories
    /\ visited = {}
    /\ stack = <<Call(Entry(0).childID, 0)>>
    /\ lists = [id \in Ids |-> <<>>]
    /\ pc = "walk"

EnterNothing ==
    /\ Running("enter")
    /\ Top.id = NoStream
    /\ stack' = Callers
    /\ UNCHANGED <<entries, visited, lists, pc>>

\* Mutant: the entry is not marked.
MarkNothing(id) == visited

Mark(id) == visited \cup {id}

\* Marked first, then the left subtree.
Enter ==
    /\ Running("enter")
    /\ Top.id \in Ids \ visited
    /\ visited' = Mark(Top.id)
    /\ stack' = Append(Goes("self"), Call(Entry(Top.id).leftSib, Top.to))
    /\ UNCHANGED <<entries, lists, pc>>

EnterFails ==
    /\ Running("enter")
    /\ Top.id # NoStream
    /\ Top.id \notin Ids \ visited
    /\ pc' = "error"
    /\ UNCHANGED <<entries, visited, stack, lists>>

\* buildStorage walks the tree of its children.
Storage ==
    /\ Running("self")
    /\ Entry(Top.id).objectType = "storage"
    /\ stack' = Append(Goes("built"), Call(Entry(Top.id).childID, Top.id))
    /\ UNCHANGED <<entries, visited, lists, pc>>

\* Mutant: the storage is listed in its own list.
HolderSelf == Top.id

\* The storage whose list the entry joins.
Holder == Top.to

StorageBuilt ==
    /\ Running("built")
    /\ lists' = Listed(Top.id, Holder)
    /\ stack' = Goes("right")
    /\ UNCHANGED <<entries, visited, pc>>

Stream ==
    /\ Running("self")
    /\ Entry(Top.id).objectType = "stream"
    /\ lists' = Listed(Top.id, Top.to)
    /\ stack' = Goes("right")
    /\ UNCHANGED <<entries, visited, pc>>

\* Mutant: the root storage is skipped as well.
ToleratedRoot == {"unallocated", "root"}

\* What is skipped in a tree.
Tolerated == {"unallocated"}

Tolerate ==
    /\ Running("self")
    /\ Entry(Top.id).objectType \in Tolerated
    /\ stack' = Goes("right")
    /\ UNCHANGED <<entries, visited, lists, pc>>

Refuse ==
    /\ Running("self")
    /\ Entry(Top.id).objectType \notin {"storage", "stream"} \cup Tolerated
    /\ pc' = "error"
    /\ UNCHANGED <<entries, visited, stack, lists>>

Right ==
    /\ Running("right")
    /\ stack' = Append(Goes("return"), Call(Entry(Top.id).rightSib, Top.to))
    /\ UNCHANGED <<entries, visited, lists, pc>>

Return ==
    /\ Running("return")
    /\ stack' = Callers
    /\ UNCHANGED <<entries, visited, lists, pc>>

Finish ==
    /\ pc = "walk"
    /\ stack = <<>>
    /\ pc' = "done"
    /\ UNCHANGED <<entries, visited, stack, lists>>

Next ==
    \/ EnterNothing \/ Enter \/ EnterFails
    \/ Storage \/ StorageBuilt \/ Stream \/ Tolerate \/ Refuse
    \/ Right \/ Return
    \/ Finish

Spec == Init /\ [][Next]_vars

-----------------------------------------------------------------------------
(* Properties                                                               *)

(* However the links lie, calls of walkBST are never nested deeper than     *)
(* there are entries: the recursion is in no danger from a cycle.           *)
DepthBounded == Len(stack) <= Len(entries) + 1

\* What a call at this place has left to do, in steps.
Weight(at) ==
    CASE at = "enter" -> 1 [] at = "self" -> 6 [] at = "built" -> 4
      [] at = "right" -> 3 [] at = "return" -> 1

Measure ==
    LET sum[n \in 0 .. Len(stack)] == IF n = 0 THEN 0 ELSE sum[n - 1] + Weight(stack[n].at)
    IN  7 * Cardinality(Ids \ visited) + sum[Len(stack)] + (IF pc = "walk" THEN 1 ELSE 0)

(* Every step of the walk uses up some of a finite amount of work, so       *)
(* NewReader neither hangs nor visits an entry twice, whatever the links.   *)
Ends == [][Measure' < Measure]_vars

\* The links that a walk through entry id follows.
LinksOf(id) ==
    {<<id, "left", Entry(id).leftSib>>, <<id, "right", Entry(id).rightSib>>}
    \cup (IF id # 0 /\ Entry(id).objectType # "storage" THEN {}
          ELSE {<<id, "child", Entry(id).childID>>})

\* The entries that links lead to from the root storage's children.
Reached ==
    LET grow[n \in 0 .. Len(entries)] ==
            IF n = 0 THEN {Entry(0).childID} \cap Ids
            ELSE grow[n - 1] \cup
                 UNION {{l[3] : l \in LinksOf(id)} \cap Ids : id \in grow[n - 1]}
    IN  grow[Len(entries)]

\* The links followed, that of the root storage among them.
Followed == {<<0, "root", Entry(0).childID>>} \cup UNION {LinksOf(id) : id \in Reached}

\* Trees of storages and streams, with no entry in two places.
Proper ==
    /\ \A l \in Followed : l[3] \in Ids \cup {NoStream}
    /\ \A l, m \in Followed : l[3] = m[3] /\ l[3] # NoStream => l = m
    /\ \A id \in Reached : Entry(id).objectType \in {"storage", "stream", "unallocated"}

(* A directory is accepted exactly if its links make proper trees.          *)
AcceptsProper == pc \in {"done", "error"} => (pc = "done" <=> Proper)

\* What w lists under id, if it is an entry.
Under(w, id) == IF id \in Ids THEN w[id] ELSE <<>>

\* Entry id at its own place in the list.
Own(id) == IF Entry(id).objectType = "unallocated" THEN <<>> ELSE <<id>>

\* The tree under each entry, in order, without unallocated entries.
InOrder ==
    LET walk[depth \in 0 .. Len(entries)] ==
            [id \in Ids |->
                IF depth = 0 THEN <<>>
                ELSE Under(walk[depth - 1], Entry(id).leftSib) \o Own(id)
                     \o Under(walk[depth - 1], Entry(id).rightSib)]
    IN  walk[Len(entries)]

(* "Entries lists the child entries in the order they appear in the         *)
(* directory BST": each storage has its own children, all of them, in       *)
(* order, although the lists of nested storages grow in turns.              *)
ListsInOrder ==
    pc = "done" => \A id \in Reached \cup {0} :
        lists[id] = IF id = 0 \/ Entry(id).objectType = "storage"
                    THEN Under(InOrder, Entry(id).childID) ELSE <<>>
=============================================================================
