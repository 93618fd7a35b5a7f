---------------------------- MODULE StreamWriter ----------------------------
(***************************************************************************)
(* The writing half of writer.go up to the point where Writer.Close starts *)
(* to emit its tables: CreateStream, CreateStorage, concurrent             *)
(* StreamWriter.Write and StreamWriter.Close calls, and the checks with    *)
(* which Writer.Close begins.                                              *)
(*                                                                         *)
(* A call of Write or Close is a little process: pc[s] says where the call *)
(* on stream s stands. Write and Close of one stream are not called        *)
(* concurrently (the documentation of Writer only promises concurrent      *)
(* Writes on distinct StreamWriters), but calls on distinct streams        *)
(* interleave at every step, and so do creations and Writer.Close.         *)
(***************************************************************************)
EXTENDS Geometry, SequencesExt

CONSTANTS
    Streams,        \* the streams callers may create
    Storages,       \* the storages callers may create
    Root,           \* the root storage
    Parent,         \* the storage each of them is created in
    Name,           \* the name of each; compareNames orders names like numbers
    WriteSizes,     \* the lengths of the slices passed to Write
    MaxSize,        \* bound: no Write takes a stream beyond this size
    Faulty,         \* whether the underlying io.WriteSeeker may fail
    NoOne           \* nobody holds w.mu

Closer == "Writer.Close"     \* the holder of w.mu during Writer.Close

ASSUME TreeAssumption ==
    /\ Streams \cap Storages = {}
    /\ Root \notin Streams \cup Storages
    /\ Parent \in [Streams \cup Storages -> Storages \cup {Root}]
    /\ Name \in [Streams \cup Storages -> Int]

ASSUME CallAssumption ==
    /\ WriteSizes \subseteq Nat
    /\ MaxSize \in Nat
    /\ Faulty \in BOOLEAN
    /\ NoOne \notin Streams
    /\ Closer \notin Streams
    /\ NoOne # Closer

VARIABLES
    \* Shared, under w.mu
    mu,         \* who holds w.mu
    out,        \* the cells w.cw has accepted; they belong after the header
    err,        \* the bufio.Writer below w.cw has failed; it stays failed
    miniBuf,    \* w.miniBuf
    miniSecs,   \* w.miniSecs
    made,       \* the storages and streams created so far
    descendants,\* w.descendants
    wclosed,    \* w.closed
    \* Per stream: the fields of its StreamWriter
    buf,        \* s.buf
    chain,      \* s.chain: sectorRuns [first, count]
    size,       \* s.size
    closed,     \* s.closed
    \* Per stream: the running call and its locals
    pc,         \* where the call stands, "idle" between calls
    p,          \* Write's remaining p, empty in Close
    b,          \* flush's argument, or what writeMini still has to take
    first       \* the sector (or mini sector) number read under the lock

shared == <<mu, out, err, miniBuf, miniSecs, made, descendants, wclosed>>
fields == <<buf, chain, size, closed>>
locals == <<pc, p, b, first>>
vars   == <<shared, fields, locals>>

-----------------------------------------------------------------------------
(* Helpers                                                                  *)

\* sectorIdx. w.cw.count starts at secSize and grows with out, so that
\* count/secSize - 1 counts the sectors of out.
SectorIdx == Len(out) \div SecSize

\* w.cw.Write(x) succeeds; bufio keeps x, or hands it on.
Put(x) ==
    /\ ~err
    /\ out' = out \o x
    /\ err' = err

\* w.cw.Write(x) fails: bufio has failed before, or the writer below it
\* fails now and some of x is counted.
PutFails(x) ==
    \/ /\ err
       /\ UNCHANGED <<out, err>>
    \/ /\ Faulty
       /\ ~err
       /\ err' = TRUE
       /\ \E k \in 0 .. Len(x) : out' = out \o Take(x, k)

\* Mutant: the lock is not taken.
LockForgotten(who) == mu' = who

Lock(who) == mu = NoOne /\ mu' = who
Unlock    == mu' = NoOne

\* Mutant: sectors are always taken to follow the last run.
AddRunBlindly(ch, f, n) ==
    IF ch # <<>>
    THEN [ch EXCEPT ![Len(ch)] = [@ EXCEPT !.count = U32(@ + n)]]
    ELSE Append(ch, [first |-> f, count |-> n])

\* What flush does with the sectors it wrote: extend the last run when it
\* ends where they begin, else start a new run.
AddRun(ch, f, n) ==
    LET last == ch[Len(ch)] IN
    IF ch # <<>> /\ U32(last.first + last.count) = f
    THEN [ch EXCEPT ![Len(ch)] = [first |-> last.first, count |-> U32(last.count + n)]]
    ELSE Append(ch, [first |-> f, count |-> n])

\* Mutant: everything is padded to a mini sector only.
PaddingMini(x, n) == IF Len(x) % MiniSize = 0 THEN <<>> ELSE Zeros(MiniSize - (Len(x) % MiniSize))

\* The zeros that take x to the next multiple of n.
Padding(x, n) == IF Len(x) % n = 0 THEN <<>> ELSE Zeros(n - (Len(x) % n))
PadTo(x, n)   == x \o Padding(x, n)

\* Mutant: only streams are counted.
CountStream(n) == IF n \in Streams THEN descendants + 1 ELSE descendants

\* w.descendants after the creation of n.
CountEntry(n) == descendants + 1

Siblings(n) == {m \in made : Parent[m] = Parent[n]}

\* Mutant: the partial sector in the buffer is forgotten.
RoomAfresh(s) ==
    IF size[s] < Cutoff THEN Cutoff - size[s]
    ELSE (Len(p[s]) \div SecSize) * SecSize

\* The number of cells the loop of Write wants to flush next.
Room(s) ==
    IF size[s] < Cutoff THEN Cutoff - size[s]
    ELSE IF buf[s] # <<>> THEN SecSize - Len(buf[s])
    ELSE (Len(p[s]) \div SecSize) * SecSize

\* Mutant: no sector to flush is not seen as a reason to stop.
BuffersIfShort(s) == Len(p[s]) < Room(s)

\* The loop of Write buffers what it has and returns.
Buffers(s) == Room(s) = 0 \/ Len(p[s]) < Room(s)

Return(s) == pc' = [pc EXCEPT ![s] = "idle"]

-----------------------------------------------------------------------------
(* CreateStream and CreateStorage. Refused calls (writer closed, duplicate  *)
(* name) change nothing. A storage can only be used once it was returned.   *)

Create(n) ==
    /\ mu = NoOne
    /\ n \notin made
    /\ Parent[n] \in made \cup {Root}
    /\ ~wclosed
    /\ \A m \in Siblings(n) : Name[m] # Name[n]
    /\ made' = made \cup {n}
    /\ descendants' = CountEntry(n)
    /\ UNCHANGED <<mu, out, err, miniBuf, miniSecs, wclosed, fields, locals>>

CreateStream(s)  == s \in Streams  /\ Create(s)
CreateStorage(d) == d \in Storages /\ Create(d)

-----------------------------------------------------------------------------
(* StreamWriter.Write                                                       *)

\* Write is called with a non-empty slice: the next n cells of stream s.
Write(s, n) ==
    /\ pc[s] = "idle"
    /\ s \in made
    /\ ~closed[s]
    /\ n > 0
    /\ V3 => size[s] + n <= SizeMaxV3
    /\ size[s] + n <= MaxSize
    /\ p' = [p EXCEPT ![s] = DataCells(s, size[s] + 1, size[s] + n)]
    /\ pc' = [pc EXCEPT ![s] = "write"]
    /\ UNCHANGED <<shared, fields, b, first>>

\* The loop keeps the rest of p in s.buf and returns.
KeepRest(s) ==
    /\ pc[s] = "write"
    /\ Buffers(s)
    /\ buf' = [buf EXCEPT ![s] = @ \o p[s]]
    /\ size' = [size EXCEPT ![s] = @ + Len(p[s])]
    /\ p' = [p EXCEPT ![s] = <<>>]
    /\ Return(s)
    /\ UNCHANGED <<shared, chain, closed, b, first>>

\* flush takes the lock and reads the next sector number.
Flush(s, x) ==
    /\ Lock(s)
    /\ first' = [first EXCEPT ![s] = U32(SectorIdx)]
    /\ b' = [b EXCEPT ![s] = x]
    /\ pc' = [pc EXCEPT ![s] = "flushbuf"]
    /\ UNCHANGED <<out, err, miniBuf, miniSecs, made, descendants, wclosed, fields, p>>

WriteFlush(s) ==
    /\ pc[s] = "write"
    /\ ~Buffers(s)
    /\ Flush(s, Take(p[s], Room(s)))

\* flush's first w.cw.Write
FlushBuf(s) ==
    /\ pc[s] = "flushbuf"
    /\ Put(buf[s])
    /\ pc' = [pc EXCEPT ![s] = "flushdata"]
    /\ UNCHANGED <<mu, miniBuf, miniSecs, made, descendants, wclosed, fields, p, b, first>>

\* The rest of a successful flush up to the unlock: the second w.cw.Write,
\* the chain, the buffer.
FlushRest(s) ==
    /\ pc[s] = "flushdata"
    /\ Put(b[s])
    /\ chain' = [chain EXCEPT ![s] =
                   AddRun(@, first[s], U32((Len(buf[s]) + Len(b[s])) \div SecSize))]
    /\ buf' = [buf EXCEPT ![s] = <<>>]
    /\ b' = [b EXCEPT ![s] = <<>>]
    /\ Unlock
    /\ UNCHANGED <<miniBuf, miniSecs, made, descendants, wclosed, first>>

\* ... called by Write, which goes on with the rest of p
FlushInWrite(s) ==
    /\ p[s] # <<>>
    /\ FlushRest(s)
    /\ size' = [size EXCEPT ![s] = @ + Len(b[s])]
    /\ p' = [p EXCEPT ![s] = Drop(@, Len(b[s]))]
    /\ IF Len(p[s]) = Len(b[s]) THEN Return(s) ELSE pc' = [pc EXCEPT ![s] = "write"]
    /\ UNCHANGED closed

\* ... called by Close, which finishes
FlushInClose(s) ==
    /\ p[s] = <<>>
    /\ FlushRest(s)
    /\ closed' = [closed EXCEPT ![s] = TRUE]
    /\ Return(s)
    /\ UNCHANGED <<size, p>>

\* The error return of Write or Close after one of flush's writes failed.
FlushFails(s) ==
    /\ \/ pc[s] = "flushbuf" /\ PutFails(buf[s])
       \/ pc[s] = "flushdata" /\ PutFails(b[s])
    /\ Unlock
    /\ Return(s)
    /\ p' = [p EXCEPT ![s] = <<>>]
    /\ b' = [b EXCEPT ![s] = <<>>]
    /\ UNCHANGED <<miniBuf, miniSecs, made, descendants, wclosed, fields, first>>

-----------------------------------------------------------------------------
(* StreamWriter.Close                                                       *)

\* Close is called on an open stream; on a closed one it returns at once.
CloseStream(s) ==
    /\ pc[s] = "idle"
    /\ s \in made
    /\ ~closed[s]
    /\ pc' = [pc EXCEPT ![s] = "close"]
    /\ UNCHANGED <<shared, fields, p, b, first>>

\* An empty stream, or a regular one with an empty buffer.
CloseNow(s) ==
    /\ pc[s] = "close"
    /\ size[s] = 0 \/ (size[s] >= Cutoff /\ buf[s] = <<>>)
    /\ closed' = [closed EXCEPT ![s] = TRUE]
    /\ Return(s)
    /\ UNCHANGED <<shared, buf, chain, size, p, b, first>>

\* A regular stream flushes its buffer, padded to a sector.
ClosePadded(s) ==
    /\ pc[s] = "close"
    /\ size[s] >= Cutoff
    /\ buf[s] # <<>>
    /\ Flush(s, Padding(buf[s], SecSize))

\* A small stream moves to the mini-stream, padded to a mini sector.
CloseMini(s) ==
    /\ pc[s] = "close"
    /\ size[s] \in 1 .. Cutoff - 1
    /\ Lock(s)
    /\ first' = [first EXCEPT ![s] =
                   U32((Len(miniSecs) * SecSize + Len(miniBuf)) \div MiniSize)]
    /\ b' = [b EXCEPT ![s] = PadTo(buf[s], MiniSize)]
    /\ pc' = [pc EXCEPT ![s] = "drain"]
    /\ UNCHANGED <<out, err, miniBuf, miniSecs, made, descendants, wclosed, fields, p>>

\* Mutant: an iteration does not stop at the end of the sector.
MiniTakeAll(x) == Len(x)

\* How much the next iteration of writeMini(x) takes, and the buffer it makes.
MiniTake(x)   == IF Len(x) < SecSize - Len(miniBuf) THEN Len(x) ELSE SecSize - Len(miniBuf)
MiniFilled(x) == miniBuf \o Take(x, MiniTake(x))

\* One iteration of writeMini(x) that succeeds.
WriteMini(x) ==
    IF Len(MiniFilled(x)) = SecSize
    THEN /\ Put(MiniFilled(x))
         /\ miniSecs' = Append(miniSecs, U32(SectorIdx))
         /\ miniBuf' = <<>>
    ELSE /\ miniBuf' = MiniFilled(x)
         /\ UNCHANGED <<out, err, miniSecs>>

\* One that fails leaves the buffer full.
WriteMiniFails(x) ==
    /\ Len(MiniFilled(x)) = SecSize
    /\ PutFails(MiniFilled(x))
    /\ miniBuf' = MiniFilled(x)
    /\ UNCHANGED miniSecs

\* Close drains the padded buffer into the mini-stream ...
Drain(s) ==
    /\ pc[s] = "drain"
    /\ Len(b[s]) > MiniTake(b[s])
    /\ WriteMini(b[s])
    /\ b' = [b EXCEPT ![s] = Drop(@, MiniTake(@))]
    /\ UNCHANGED <<mu, made, descendants, wclosed, fields, pc, p, first>>

\* ... and records the mini-stream run with the last of it.
DrainLast(s) ==
    /\ pc[s] = "drain"
    /\ Len(b[s]) = MiniTake(b[s])
    /\ WriteMini(b[s])
    /\ chain' = [chain EXCEPT ![s] =
                   <<[first |-> first[s],
                      count |-> U32(Len(PadTo(buf[s], MiniSize)) \div MiniSize)]>>]
    /\ buf' = [buf EXCEPT ![s] = <<>>]
    /\ b' = [b EXCEPT ![s] = <<>>]
    /\ closed' = [closed EXCEPT ![s] = TRUE]
    /\ Unlock
    /\ Return(s)
    /\ UNCHANGED <<made, descendants, wclosed, size, p, first>>

DrainFails(s) ==
    /\ pc[s] = "drain"
    /\ WriteMiniFails(b[s])
    /\ b' = [b EXCEPT ![s] = <<>>]
    /\ Unlock
    /\ Return(s)
    /\ UNCHANGED <<made, descendants, wclosed, fields, p, first>>

-----------------------------------------------------------------------------
(* The beginning of Writer.Close. A Close refused because a stream is still *)
(* open, or because the writer was closed before, changes nothing. From     *)
(* here on Writer.Close holds w.mu; the module Writer goes on.              *)

BeginClose ==
    /\ \A s \in Streams \cap made : closed[s]
    /\ ~wclosed
    /\ Lock(Closer)
    /\ wclosed' = TRUE
    /\ UNCHANGED <<out, err, miniBuf, miniSecs, made, descendants, fields, locals>>

-----------------------------------------------------------------------------
Init ==
    /\ mu = NoOne
    /\ out = <<>>
    /\ err = FALSE
    /\ miniBuf = <<>>
    /\ miniSecs = <<>>
    /\ made = {}
    /\ descendants = 1
    /\ wclosed = FALSE
    /\ buf = [s \in Streams |-> <<>>]
    /\ chain = [s \in Streams |-> <<>>]
    /\ size = [s \in Streams |-> 0]
    /\ closed = [s \in Streams |-> FALSE]
    /\ pc = [s \in Streams |-> "idle"]
    /\ p = [s \in Streams |-> <<>>]
    /\ b = [s \in Streams |-> <<>>]
    /\ first = [s \in Streams |-> 0]

\* The steps of a running call on stream s that need no lock they do not have.
Advance(s) ==
    \/ KeepRest(s)
    \/ FlushBuf(s) \/ FlushInWrite(s) \/ FlushInClose(s) \/ FlushFails(s)
    \/ CloseNow(s)
    \/ Drain(s) \/ DrainLast(s) \/ DrainFails(s)

\* The steps that wait for w.mu.
Acquire(s) == WriteFlush(s) \/ ClosePadded(s) \/ CloseMini(s)

\* What the callers of the streams and storages do.
ClientNext ==
    \/ \E s \in Streams :
          \/ CreateStream(s)
          \/ CloseStream(s)
          \/ \E n \in WriteSizes : Write(s, n)
          \/ Advance(s)
          \/ Acquire(s)
    \/ \E d \in Storages : CreateStorage(d)

Next == ClientNext \/ BeginClose

Spec == Init /\ [][Next]_vars

(* A running call goes on. sync.Mutex hands the lock to a waiter that has   *)
(* waited for 1 ms, so a call whose lock is released again and again gets   *)
(* it: strong fairness. Nothing makes callers call.                         *)
FairSpec ==
    /\ Spec
    /\ \A s \in Streams : WF_vars(Advance(s)) /\ SF_vars(Acquire(s))

-----------------------------------------------------------------------------
(* Properties                                                               *)

Words32 == 0 .. Words - 1
Cells   == [k : Streams \cup {"word", "dirent"}, v : Seq(Nat)]

SharedType ==
    /\ mu \in Streams \cup {NoOne, Closer}
    /\ out \in Seq(Cells)
    /\ err \in BOOLEAN
    /\ miniBuf \in Seq(Cells) /\ Len(miniBuf) <= SecSize
    /\ miniSecs \in Seq(Words32)
    /\ made \in SUBSET (Streams \cup Storages)
    /\ descendants \in Nat
    /\ wclosed \in BOOLEAN

FieldsType ==
    /\ buf \in [Streams -> Seq(Cells)]
    /\ chain \in [Streams -> Seq([first : Words32, count : Words32])]
    /\ size \in [Streams -> Nat]
    /\ closed \in [Streams -> BOOLEAN]

LocalsType ==
    /\ pc \in [Streams -> {"idle", "write", "close", "flushbuf", "flushdata", "drain"}]
    /\ p \in [Streams -> Seq(Cells)]
    /\ b \in [Streams -> Seq(Cells)]
    /\ first \in [Streams -> Words32]

(* The types of the variables; miniBuf never outgrows a sector.             *)
TypeOK == SharedType /\ FieldsType /\ LocalsType

(* flush is only called when "the combined length" of its buffer and its    *)
(* argument is "a non-zero multiple of secSize" (the comment on flush): the *)
(* sizes the loop of Write computes and the padding of Close add up to      *)
(* whole sectors for every sequence of Writes, and so no stream begins      *)
(* inside a sector of another one.                                          *)
FlushMultiple ==
    \A s \in Streams : pc[s] = "flushbuf" =>
        /\ Len(buf[s]) + Len(b[s]) > 0
        /\ (Len(buf[s]) + Len(b[s])) % SecSize = 0

(* Whenever nobody holds w.mu, w.cw stands at a sector boundary, unless the *)
(* underlying writer has failed: what sectorIdx returns under the lock is   *)
(* the exact position of the next write.                                    *)
SectorAligned ==
    mu = NoOne /\ ~err => Len(out) % SecSize = 0

Regular(s)  == size[s] >= Cutoff
RunEnd(r)   == r.first + r.count
RunSects(r) == r.first .. RunEnd(r) - 1

\* The sector numbers of the file still fit a FAT word.
FileFits == SectorIdx <= MaxRegSect + 1

(* The runs of regular streams and the sectors of the mini-stream, taken    *)
(* down by concurrent flushes and Closes, are pairwise disjoint and lie     *)
(* within the sectors written so far, also after failures and retries.      *)
SectorsDisjoint ==
    FileFits =>
        /\ \A s \in Streams : Regular(s) =>
              \A i \in DOMAIN chain[s] :
                  /\ chain[s][i].count > 0
                  /\ RunEnd(chain[s][i]) <= SectorIdx
                  /\ \A k \in DOMAIN miniSecs : miniSecs[k] \notin RunSects(chain[s][i])
                  /\ \A t \in Streams : Regular(t) =>
                        \A j \in DOMAIN chain[t] :
                            <<s, i>> # <<t, j>> =>
                              RunSects(chain[s][i]) \cap RunSects(chain[t][j]) = {}
        /\ \A k \in DOMAIN miniSecs :
              /\ miniSecs[k] < SectorIdx
              /\ \A l \in DOMAIN miniSecs : k < l => miniSecs[k] < miniSecs[l]

-----------------------------------------------------------------------------
(* The refinement of ByteStreams: the content of a stream is what its runs  *)
(* address in the file, or once it is closed its mini-stream run addresses  *)
(* in the mini-stream, followed by its buffer.                              *)

SectorCells(n) == SubSeq(out, n * SecSize + 1, (n + 1) * SecSize)

\* The cells of sector numbers f, f+1 .. f+n-1.
RunCells(r) == SubSeq(out, r.first * SecSize + 1, RunEnd(r) * SecSize)

MiniStream == FlattenSeq([i \in DOMAIN miniSecs |-> SectorCells(miniSecs[i])]) \o miniBuf

ChainCells(s) ==
    IF Regular(s)
    THEN FlattenSeq([i \in DOMAIN chain[s] |-> RunCells(chain[s][i])])
    ELSE FlattenSeq([i \in DOMAIN chain[s] |->
             SubSeq(MiniStream, chain[s][i].first * MiniSize + 1,
                                RunEnd(chain[s][i]) * MiniSize)])

Content(s) == Take(ChainCells(s) \o buf[s], size[s])

Phase(s) ==
    IF s \notin made THEN "absent" ELSE IF closed[s] THEN "closed" ELSE "open"

Promise == INSTANCE ByteStreams WITH
    phase    <- [s \in Streams |-> Phase(s)],
    content  <- [s \in Streams |-> Content(s)],
    sealed   <- wclosed,
    Supplied <- DataCells

(* Whatever calls interleave and fail, each stream holds exactly the cells  *)
(* its own Writes accepted, in order; once closed it can be read back from  *)
(* sectors alone; and after Writer.Close has begun nothing changes.         *)
ImplementsByteStreams == Promise!Spec

(* Every call of Write or Close returns: nobody keeps w.mu, the loops of    *)
(* Write and writeMini end, and no two calls wait for each other.           *)
CallsReturn == \A s \in Streams : pc[s] # "idle" ~> pc[s] = "idle"
=============================================================================
