------------------------------- MODULE AddFS --------------------------------
(***************************************************************************)
(* AddFS of writer.go: storages and streams are created for what an fs.FS  *)
(* lists, storage by storage, and the files copied. Several calls may run  *)
(* at the same time and add to one storage; any call of the file system    *)
(* and any write may fail. Afterwards the Writer is closed and its file    *)
(* read through the fs.FS of a Reader (FsView).                            *)
(*                                                                         *)
(* The file systems that are added are trees, too, in which a path is      *)
(* resolved as a Reader does. Creating, writing and closing a stream are   *)
(* the operations that ByteStreams promises: a failed one has no effect.   *)
(***************************************************************************)
EXTENDS FsView, FiniteSets

CONSTANTS
    Callers,        \* the goroutines that call AddFS of the root storage
    Sources,        \* the trees they may be given, for each caller
    Chunk,          \* the most io.Copy reads at once
    Faulty          \* calls of the file system and writes may fail

ASSUME SourcesAssumption ==
    /\ Chunk \in Nat \ {0}
    /\ Faulty \in BOOLEAN
    /\ \A t \in Sources : IsSource(t)

VARIABLES
    src,            \* the file system of each caller
    tree,           \* the entries created
    from,           \* for each of them but the root, the caller
    closed,         \* the streams that are closed
    sealed,         \* Writer.Close has accepted the entries
    pc,             \* where each call of AddFS stands
    stack,          \* its calls of addFSDir: [dir, at, left], the source, the storage
                    \* to add to and the entries of the source not yet added
    copy            \* the stream that it copies: [to, file, pos]

vars == <<src, tree, from, closed, sealed, pc, stack, copy, fsVars>>

NoCopy == [to |-> NoEntry, file |-> NoEntry, pos |-> 0]
Top(c) == stack[c][Len(stack[c])]
Below(c) == SubSeq(stack[c], 1, Len(stack[c]) - 1)
Entry(c) == src[c][Head(Top(c).left)]

\* The path of name in dir; in the root it is the name alone.
Join(dir, name) == IF dir = <<Dot>> THEN <<name>> ELSE Append(dir, name)

-----------------------------------------------------------------------------
(* CreateStorage and CreateStream                                           *)

\* Mutant: the names are compared byte by byte.
TakenExactly(at, name) == \E id \in Range(tree[at].children) : tree[id].name = name

\* validateChildName: a sibling has the name.
Taken(at, name) == FindEntry(tree, at, Kinds, name) # NoEntry

CanCreate(at, name) == ~sealed /\ ~Taken(at, name)

NewId == Cardinality(DOMAIN tree)

Create(c, at, entry) ==
    /\ tree' = [id \in DOMAIN tree \cup {NewId} |->
                   IF id = NewId THEN entry
                   ELSE IF id = at THEN [tree[id] EXCEPT !.children = Append(@, NewId)]
                   ELSE tree[id]]
    /\ from' = Append(from, c)

-----------------------------------------------------------------------------
(* addFSDir                                                                 *)

\* Mutant: an error of the copy is dropped.
GotoNext(c, to) == pc' = [pc EXCEPT ![c] = IF @ = "copy" THEN "next" ELSE to]

\* Where the call of c stands next; every error is returned through all of them.
Goto(c, to) == pc' = [pc EXCEPT ![c] = to]

Begin(c) ==
    /\ pc[c] = "idle"
    /\ stack' = [stack EXCEPT ![c] = <<[dir |-> <<Dot>>, at |-> 0, left |-> <<>>]>>]
    /\ Goto(c, "readdir")
    /\ UNCHANGED <<src, tree, from, closed, sealed, copy, fsVars>>

ReadStorage(c) ==
    /\ pc[c] = "readdir"
    /\ LET d == Open(src[c], Top(c).dir) IN
       IF d # NoEntry /\ src[c][d].kind = "storage"
       THEN /\ stack' = [stack EXCEPT ![c][Len(stack[c])].left = SortedByName(src[c], d)]
            /\ Goto(c, "next")
       ELSE Goto(c, "error") /\ UNCHANGED stack
    /\ UNCHANGED <<src, tree, from, closed, sealed, copy, fsVars>>

\* The next entry is begun: the frame on top has it no longer.
Passed(c) == [Top(c) EXCEPT !.left = Tail(@)]

AddStorage(c) ==
    /\ pc[c] = "next" /\ Top(c).left # <<>> /\ Entry(c).kind = "storage"
    /\ CanCreate(Top(c).at, Entry(c).name)
    /\ Create(c, Top(c).at, Storage(Entry(c).name, <<>>))
    /\ stack' = [stack EXCEPT ![c] = Below(c) \o
                    <<Passed(c), [dir |-> Join(Top(c).dir, Entry(c).name), at |-> NewId, left |-> <<>>]>>]
    /\ Goto(c, "readdir")
    /\ UNCHANGED <<src, closed, sealed, copy, fsVars>>

\* addFSFile: the file is opened first.
AddStream(c) ==
    /\ pc[c] = "next" /\ Top(c).left # <<>> /\ Entry(c).kind = "stream"
    /\ CanCreate(Top(c).at, Entry(c).name)
    /\ LET file == Open(src[c], Join(Top(c).dir, Entry(c).name)) IN
       /\ file # NoEntry
       /\ copy' = [copy EXCEPT ![c] = [to |-> NewId, file |-> file, pos |-> 0]]
    /\ Create(c, Top(c).at, Stream(Entry(c).name, <<>>))
    /\ stack' = [stack EXCEPT ![c] = Append(Below(c), Passed(c))]
    /\ Goto(c, "copy")
    /\ UNCHANGED <<src, closed, sealed, fsVars>>

\* The name is taken or the Writer closed, or the path of a file is refused.
NotAdded(c) ==
    /\ pc[c] = "next" /\ Top(c).left # <<>>
    /\ \/ ~CanCreate(Top(c).at, Entry(c).name)
       \/ /\ Entry(c).kind = "stream"
          /\ Open(src[c], Join(Top(c).dir, Entry(c).name)) = NoEntry
    /\ Goto(c, "error")
    /\ UNCHANGED <<src, tree, from, closed, sealed, stack, copy, fsVars>>

\* The storage is done; its caller goes on, or AddFS returns nil.
EndStorage(c) ==
    /\ pc[c] = "next" /\ Top(c).left = <<>>
    /\ stack' = [stack EXCEPT ![c] = Below(c)]
    /\ Goto(c, IF Len(stack[c]) = 1 THEN "ok" ELSE "next")
    /\ UNCHANGED <<src, tree, from, closed, sealed, copy, fsVars>>

\* ReadDir, Info or Open fails.
SourceFails(c) ==
    /\ Faulty
    /\ pc[c] = "readdir" \/ (pc[c] = "next" /\ Top(c).left # <<>>)
    /\ Goto(c, "error")
    /\ UNCHANGED <<src, tree, from, closed, sealed, stack, copy, fsVars>>

-----------------------------------------------------------------------------
(* addFSFile, when it has created the stream                                *)

\* What is left to read of the file.
Rest(c) ==
    LET data == src[c][copy[c].file].data IN SubSeq(data, copy[c].pos + 1, Len(data))

\* A turn of io.Copy.
CopyChunk(c) ==
    /\ pc[c] = "copy"
    /\ \E k \in 1 .. Chunk :
          /\ k <= Len(Rest(c))
          /\ tree' = [tree EXCEPT ![copy[c].to].data = @ \o SubSeq(Rest(c), 1, k)]
          /\ copy' = [copy EXCEPT ![c].pos = @ + k]
    /\ UNCHANGED <<src, from, closed, sealed, pc, stack, fsVars>>

\* Mutant: the stream is closed on every way out.
LeftOpenNever(id) == closed \cup {id}

\* The stream of a copy that failed stays as it is.
LeftOpen(id) == closed

\* A Read or a Write fails; reading the handle of a storage always does.
CopyFails(c) ==
    /\ pc[c] = "copy"
    /\ Faulty \/ src[c][copy[c].file].kind = "storage"
    /\ closed' = LeftOpen(copy[c].to)
    /\ copy' = [copy EXCEPT ![c] = NoCopy]
    /\ Goto(c, "error")
    /\ UNCHANGED <<src, tree, from, sealed, stack, fsVars>>

\* io.EOF; StreamWriter.Close.
CloseStream(c) ==
    /\ pc[c] = "copy"
    /\ src[c][copy[c].file].kind = "stream"
    /\ Rest(c) = <<>>
    /\ closed' = closed \cup {copy[c].to}
    /\ copy' = [copy EXCEPT ![c] = NoCopy]
    /\ Goto(c, "next")
    /\ UNCHANGED <<src, tree, from, sealed, stack, fsVars>>

-----------------------------------------------------------------------------
(* The rest                                                                 *)

Streams == {id \in DOMAIN tree : tree[id].kind = "stream"}
Returned(c) == pc[c] \in {"ok", "error"}

\* The directory as NewReader finds it: siblings in the order of compareNames.
Served ==
    [id \in DOMAIN tree |->
        [tree[id] EXCEPT !.children = SortedBy(@, [e \in DOMAIN tree |-> Rank[tree[e].name]])]]

\* Writer.Close, while no call of AddFS runs, and NewReader.
CloseWriter ==
    /\ ~sealed
    /\ \A c \in Callers : pc[c] = "idle" \/ Returned(c)
    /\ Streams \subseteq closed
    /\ sealed' = TRUE
    /\ view' = Served
    /\ UNCHANGED <<src, tree, from, closed, pc, stack, copy, handle, listed, eof>>

Client ==
    /\ \/ \E name \in Names : OpenStorage(<<name>>)
       \/ \E n \in 0 .. 2 : ReadDir(n)
    /\ UNCHANGED <<src, tree, from, closed, sealed, pc, stack, copy>>

AddFSInit ==
    /\ src \in [Callers -> Sources]
    /\ tree = [id \in {0} |-> Storage(0, <<>>)]
    /\ from = <<>>
    /\ closed = {}
    /\ sealed = FALSE
    /\ pc = [c \in Callers |-> "idle"]
    /\ stack = [c \in Callers |-> <<>>]
    /\ copy = [c \in Callers |-> NoCopy]
    /\ FsInit

Step(c) ==
    \/ ReadStorage(c) \/ AddStorage(c) \/ AddStream(c) \/ NotAdded(c) \/ EndStorage(c)
    \/ CopyChunk(c) \/ CloseStream(c)

Failure(c) == SourceFails(c) \/ CopyFails(c)

AddFSNext ==
    \/ \E c \in Callers : Begin(c) \/ Step(c) \/ Failure(c)
    \/ CloseWriter
    \/ Client

AddFSSpec == AddFSInit /\ [][AddFSNext]_vars

-----------------------------------------------------------------------------
(* Properties                                                               *)

\* What c has created: each entry's path, kind and data.
AddedBy(c) ==
    {[path |-> PathIn(tree, id), kind |-> tree[id].kind, data |-> tree[id].data] :
        id \in {i \in DOMAIN tree \ {0} : from[i] = c}}

\* What its file system holds.
Held(c) ==
    {[path |-> PathIn(src[c], id), kind |-> src[c][id].kind, data |-> src[c][id].data] :
        id \in DOMAIN src[c] \ {0}}

(* "adding each file ... while maintaining the directory structure": when   *)
(* AddFS returns nil, all of its file system has been added by it, by path, *)
(* kind and content, and nothing else, although other calls add to the same *)
(* storages; so a file system with two names that a compound file takes for *)
(* one, or with a path that its Open refuses, must make it fail.            *)
CopiesAll == \A c \in Callers : pc[c] = "ok" => AddedBy(c) = Held(c)

(* A file never has part of a stream: whatever failed, a Writer that could  *)
(* be closed has for each entry the one it was made from, whole.            *)
SealedIsWhole == sealed => \A c \in Callers : AddedBy(c) \subseteq Held(c)

(* "maintaining the directory structure": nothing is created that the file  *)
(* system has no path for.                                                  *)
KeepsStructure ==
    \A c \in Callers : {e.path : e \in AddedBy(c)} \subseteq {e.path : e \in Held(c)}
=============================================================================
