------------------------------- MODULE FsView -------------------------------
(***************************************************************************)
(* The fs.FS that a Reader is (fs.go): Open resolves a path from storage   *)
(* to storage by names in which case does not matter, and a handle of a    *)
(* storage lists its entries in batches.                                   *)
(*                                                                         *)
(* A tree of entries is a function from ids to entries; the root storage   *)
(* is 0. Names are numbers in the order of their bytes, by which           *)
(* fs.ReadDir sorts; Rank numbers them in the order of compareNames.       *)
(***************************************************************************)
EXTENDS Integers, Sequences, SequencesExt

CONSTANTS
    Names,          \* the names entries may have
    Dot, DotDot,    \* those that are "." and ".."
    Rank            \* names of one rank are equal for compareNames

ASSUME NamesAssumption ==
    /\ Names \subseteq Nat
    /\ {Dot, DotDot} \subseteq Names
    /\ Rank \in [Names -> Nat]

VARIABLES
    view,           \* the tree that the Reader serves, <<>> before there is one
    handle,         \* an open handle of a storage, [id, pos], or NoHandle
    listed,         \* the entries it has given so far
    eof             \* it has answered io.EOF, or given all that remained

fsVars == <<view, handle, listed, eof>>

Storage(name, children) == [kind |-> "storage", name |-> name, children |-> children, data |-> <<>>]
Stream(name, data)      == [kind |-> "stream",  name |-> name, children |-> <<>>, data |-> data]

NoEntry  == -1
NoHandle == [id |-> NoEntry, pos |-> 0]
Kinds    == {"storage", "stream"}
Entries  == [kind : Kinds, name : Nat, children : Seq(Nat), data : Seq(Nat)]

\* Every entry but the root is in one storage, once, and has a larger id than it.
IsTree(t) ==
    /\ \E n \in DOMAIN t \cap Nat : t \in [0 .. n -> Entries]
    /\ t[0].kind = "storage"
    /\ \A s \in DOMAIN t : IsInjective(t[s].children)
    /\ \A s \in DOMAIN t : \A e \in Range(t[s].children) :
          t[s].kind = "storage" /\ e \in DOMAIN t /\ s < e /\ t[e].name \in Names
    /\ \A e \in DOMAIN t \ {0} :
          \E s \in DOMAIN t : \A r \in DOMAIN t : e \in Range(t[r].children) <=> r = s
    /\ \A e \in DOMAIN t : t[e].kind = "storage" => t[e].data = <<>>

SameName(a, b) == Rank[a] = Rank[b]

\* A file system gives the entry that it lists under a path, or one of the other kind.
IsSource(t) ==
    /\ IsTree(t)
    /\ \A s \in DOMAIN t : \A d, e \in Range(t[s].children) : d # e =>
          /\ t[d].name # t[e].name
          /\ t[d].kind = t[e].kind => ~SameName(t[d].name, t[e].name)

-----------------------------------------------------------------------------
(* Open                                                                     *)

\* "." is the root; no other path has "." or ".." in it.
ValidPath(path) ==
    path = <<Dot>> \/ (path # <<>> /\ \A i \in DOMAIN path : path[i] \notin {Dot, DotDot})

\* findEntry: the first child of a kind with the name.
FindEntry(t, id, kinds, name) ==
    LET at == {i \in DOMAIN t[id].children :
                  LET e == t[t[id].children[i]] IN e.kind \in kinds /\ SameName(name, e.name)}
    IN  IF at = {} THEN NoEntry
        ELSE t[id].children[CHOOSE i \in at : \A j \in at : i <= j]

\* The entry Reader.Open gives a handle for: all names but the last are storages'.
Open(t, path) ==
    LET at[i \in 0 .. Len(path)] ==
            IF i = 0 THEN 0
            ELSE IF at[i - 1] = NoEntry THEN NoEntry
            ELSE FindEntry(t, at[i - 1], IF i < Len(path) THEN {"storage"} ELSE Kinds, path[i])
    IN  IF ~ValidPath(path) THEN NoEntry
        ELSE IF path = <<Dot>> THEN 0
        ELSE at[Len(path)]

\* r has the elements of s, which differ, in the order of their keys.
SortsBy(r, s, key) ==
    /\ Range(r) = Range(s)
    /\ \A i, j \in DOMAIN r : i < j => r[i] # r[j] /\ key[r[i]] <= key[r[j]]

SortedBy(s, key) == CHOOSE r \in [DOMAIN s -> Range(s)] : SortsBy(r, s, key)

\* fs.ReadDir sorts what a handle lists at once.
SortedByName(t, id) == SortedBy(t[id].children, [e \in DOMAIN t |-> t[e].name])

-----------------------------------------------------------------------------
(* A handle of a storage                                                    *)

FsInit ==
    /\ view = <<>>
    /\ handle = NoHandle
    /\ listed = <<>>
    /\ eof = FALSE

OpenStorage(path) ==
    /\ view # <<>>
    /\ handle = NoHandle
    /\ Open(view, path) # NoEntry
    /\ view[Open(view, path)].kind = "storage"
    /\ handle' = [id |-> Open(view, path), pos |-> 0]
    /\ UNCHANGED <<view, listed, eof>>

Remaining ==
    LET children == view[handle.id].children IN SubSeq(children, handle.pos + 1, Len(children))

\* Mutant: only a call with a limit moves the position.
AdvanceIfLimited(n, take) == IF n > 0 THEN take ELSE 0

\* How far ReadDir(n) moves the position.
Advance(n, take) == take

\* ReadDir(n); without a limit it gives all the rest.
ReadDir(n) ==
    /\ handle # NoHandle
    /\ LET take == IF n > 0 /\ n < Len(Remaining) THEN n ELSE Len(Remaining) IN
       /\ listed' = listed \o SubSeq(Remaining, 1, take)
       /\ handle' = [handle EXCEPT !.pos = @ + Advance(n, take)]
       /\ eof' = (n <= 0 \/ take = 0)
    /\ UNCHANGED view

-----------------------------------------------------------------------------
(* Properties                                                               *)

\* The path of entry id.
PathIn(t, id) ==
    LET up(e) == CHOOSE s \in DOMAIN t : e \in Range(t[s].children)
        path[e \in DOMAIN t] == IF e = 0 THEN <<>> ELSE Append(path[up(e)], t[e].name)
    IN  path[id]

(* However calls of ReadDir with and without a limit follow each other,     *)
(* those of one handle give every entry of the storage once and in order,   *)
(* and all of them by the time one says that there are no more.             *)
ListedOnce ==
    handle # NoHandle =>
        LET children == view[handle.id].children IN
        /\ IsPrefix(listed, children)
        /\ eof => listed = children

\* A path with its names in another case.
Variants(path) ==
    {p \in [DOMAIN path -> Names] : \A i \in DOMAIN path : SameName(p[i], path[i])}

(* In a file a Writer has made, Open finds every entry by the path it is    *)
(* listed under, in any case, unless a name on it is "." or "..".           *)
ListedOpens ==
    \A id \in DOMAIN view : \A p \in Variants(PathIn(view, id)) :
        id # 0 /\ Range(p) \cap {Dot, DotDot} = {} => Open(view, p) = id
=============================================================================
