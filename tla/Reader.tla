------------------------------- MODULE Reader -------------------------------
(***************************************************************************)
(* NewReader and Stream.ReadAt of reader.go as operators on a file: what   *)
(* the reader makes of the header and the sectors, or that it refuses them.*)
(*                                                                         *)
(* A file is [header, body]: the fields of the header sector, and the      *)
(* cells that follow it. Every result is Ok(value) or Bad, an error.       *)
(***************************************************************************)
EXTENDS Layout

CONSTANTS
    ProbeThreshold,     \* probeThreshold, in cells
    Quads               \* the number of values of a uint64

Ok(x) == [ok |-> TRUE, val |-> x]
Bad   == [ok |-> FALSE]

\* "if err != nil, return err": what follows only gets a good result. A
\* function, as TLC evaluates the argument of one only once.
Then(r, Next(_)) == [x \in {r} |-> IF x.ok THEN Next(x.val) ELSE Bad][r]

Smaller(m, n) == IF m < n THEN m ELSE n

\* A FAT word. What is not a word would be read as some number; this one is
\* never a link.
WordAt(c) == IF c.k = "word" THEN c.v[1] ELSE MaxRegSect + 1
WordsOf(cells) == [i \in DOMAIN cells |-> WordAt(cells[i])]

\* ReadAt of the file itself: up to n cells at the offset off, which lies
\* behind the header sector.
FileCells(file, off, n) ==
    SubSeq(file.body, off - SecSize + 1, Smaller(off - SecSize + n, Len(file.body)))

-----------------------------------------------------------------------------
(* The header                                                               *)

\* validateHeader, apart from the magic numbers.
HeaderValid(h) ==
    /\ V3 => h.numDir = 0
    /\ h.numDir <= h.numFAT * PerFAT
    /\ h.numFAT > 0
    /\ h.numMiniFAT = 0 <=> h.firstMiniFAT = EndOfChain
    /\ h.numMiniFAT <= h.numFAT * PerFAT
    /\ h.numDIFAT <= h.numFAT \div (PerFAT - 1) + 1

\* checkFileSize
SizePlausible(file) ==
    LET h == file.header
        size == (1 + h.numFAT + h.numDIFAT + h.numMiniFAT + h.numDir) * SecSize
    IN  size <= ProbeThreshold \/ size <= SecSize + Len(file.body)

-----------------------------------------------------------------------------
(* The FAT                                                                  *)

\* readSectors
ReadSectors(file, secs) ==
    IF \A i \in DOMAIN secs : SectorOffset(secs[i]) <= Len(file.body)
    THEN Ok(FlattenSeq([i \in DOMAIN secs |-> FileCells(file, SectorOffset(secs[i]), SecSize)]))
    ELSE Bad

\* The words of a DIFAT sector that say where a FAT sector lies.
Listed(words) ==
    LET upTo[n \in 0 .. Len(words)] ==
            IF n = 0 THEN <<>>
            ELSE IF words[n] = FreeSect THEN upTo[n - 1] ELSE Append(upTo[n - 1], words[n])
    IN  upTo[Len(words)]

\* readDIFAT: the header's entries, then those of each DIFAT sector.
ReadDIFAT(file) ==
    LET h == file.header
        after[i \in 0 .. h.numDIFAT] ==
            IF i = 0
            THEN [ok |-> TRUE, sec |-> h.firstDIFAT, out |-> Listed(h.difat)]
            ELSE LET before == after[i - 1]
                     read == ReadSectors(file, <<before.sec>>)
                     words == WordsOf(read.val)
                 IN  IF before.ok /\ before.sec <= MaxRegSect /\ read.ok
                     THEN [ok |-> TRUE, sec |-> words[PerFAT],
                           out |-> before.out \o Listed(Take(words, PerFAT - 1))]
                     ELSE Bad
        last == after[h.numDIFAT]
    IN  IF /\ last.ok
           /\ last.sec = EndOfChain
           /\ \A i \in DOMAIN last.out : last.out[i] <= MaxRegSect
           /\ Len(last.out) = h.numFAT
        THEN Ok(last.out) ELSE Bad

\* loadFAT
LoadFAT(file) ==
    Then(ReadDIFAT(file), LAMBDA secs :
    Then(ReadSectors(file, secs), LAMBDA cells : Ok(WordsOf(cells))))

\* No chain may have more sectors than this.
WalkLimit(fat, n) == IF n > 0 THEN Smaller(n, Len(fat)) ELSE Len(fat)

\* walkChain: the sectors from first to the end of the chain, exactly n of
\* them unless n is 0. at[k] is sec after k turns of the loop.
WalkChain(fat, first, n) ==
    LET next == [sec \in Nat |-> IF sec <= MaxRegSect /\ sec < Len(fat) THEN fat[sec + 1] ELSE sec]
        at[k \in 0 .. WalkLimit(fat, n)] == IF k = 0 THEN first ELSE next[at[k - 1]]
        ends == {k \in 0 .. WalkLimit(fat, n) : at[k] = EndOfChain}
    IN  IF ends # {} /\ (n > 0 => Min(ends) = n)
        THEN Ok([i \in 1 .. Min(ends) |-> at[i - 1]]) ELSE Bad

\* loadMiniFAT
LoadMiniFAT(file, fat) ==
    LET h == file.header IN
    IF h.numMiniFAT = 0 THEN Ok(<<>>)
    ELSE Then(WalkChain(fat, h.firstMiniFAT, h.numMiniFAT), LAMBDA secs :
         Then(ReadSectors(file, secs), LAMBDA cells : Ok(WordsOf(cells))))

-----------------------------------------------------------------------------
(* The directory                                                            *)

Unallocated == 0
StorageType == 1
StreamType  == 2
RootType    == 5

\* A directory entry is one cell of kind "dirent", the rest of it filler.
DirentCell(e) ==
    [k |-> "dirent",
     v |-> <<e.objectType, e.name, e.leftSib, e.rightSib, e.childID, e.startSector, e.streamSize>>]

\* parseEntry
ParseEntry(c) ==
    [objectType |-> c.v[1], name |-> c.v[2], leftSib |-> c.v[3], rightSib |-> c.v[4],
     childID |-> c.v[5], startSector |-> c.v[6],
     streamSize |-> IF V3 THEN U32(c.v[7]) ELSE c.v[7]]

SizeAllowed(e, fat, miniFAT) ==
    e.objectType = StreamType =>
        /\ V3 => e.streamSize <= SizeMaxV3
        /\ e.streamSize <= IF e.streamSize < Cutoff
                           THEN Len(miniFAT) * MiniSize ELSE Len(fat) * SecSize

\* The entries that begin in cells. Cells of any other kind are no entries
\* with a valid name.
Dirents(cells) == [i \in 1 .. Len(cells) \div DirentSize |-> cells[(i - 1) * DirentSize + 1]]

\* What the loop of parseEntries makes of the entries in cells.
EntriesIn(cells, fat, miniFAT) ==
    LET found == Dirents(cells)
    IN  IF \A i \in DOMAIN found :
              found[i].k = "dirent" /\ SizeAllowed(ParseEntry(found[i]), fat, miniFAT)
        THEN Ok([i \in DOMAIN found |-> ParseEntry(found[i])]) ELSE Bad

BeginWithRoot(entries) == entries # <<>> /\ entries[1].objectType = RootType

\* The directory: its first entry is the root storage.
EntriesOf(cells, fat, miniFAT) ==
    Then(EntriesIn(cells, fat, miniFAT), LAMBDA entries :
         IF BeginWithRoot(entries) THEN Ok(entries) ELSE Bad)

\* parseEntries
ParseEntries(file, fat, miniFAT) ==
    Then(WalkChain(fat, file.header.firstDir, file.header.numDir), LAMBDA secs :
    Then(ReadSectors(file, secs), LAMBDA cells : EntriesOf(cells, fat, miniFAT)))

\* loadMiniStream: the sectors of the mini-stream. Rounding the size up wraps
\* around; the room that walkChain reserves for a length nothing has bounded is
\* the matter of module ChainWalk.
LoadMiniStream(fat, root) ==
    IF root.streamSize = 0 \/ root.startSector = EndOfChain THEN Ok(<<>>)
    ELSE WalkChain(fat, root.startSector, ((root.streamSize + SecSize - 1) % Quads) \div SecSize)

-----------------------------------------------------------------------------
(* Streams                                                                  *)

\* resolveRegularRuns and resolveMiniRuns: the pieces of unit cells at the
\* offsets offs, neighbours made one run, cut to size.
ResolveRuns(offs, unit, size) ==
    LET add(runs, off) ==
            IF runs # <<>> /\ off = Last(runs).off + Last(runs).length
            THEN [runs EXCEPT ![Len(runs)].length = @ + unit]
            ELSE Append(runs, [off |-> off, length |-> unit,
                               start |-> IF runs = <<>> THEN 0
                                         ELSE Last(runs).start + Last(runs).length])
        runs == FoldLeft(add, <<>>, offs)
        total == Last(runs).start + Last(runs).length
    IN  IF runs = <<>> THEN runs
        ELSE [runs EXCEPT ![Len(runs)].length = @ - (IF total > size THEN total - size ELSE 0)]

\* Mutant: a stream of the cutoff size is sought in the mini-stream.
IsMiniIncl(size) == size <= Cutoff

IsMini(size) == size < Cutoff

RegularRuns(secs, size) ==
    Ok(ResolveRuns([i \in DOMAIN secs |-> SectorOffset(secs[i])], SecSize, size))

MiniRuns(secs, miniStream, size) ==
    IF \A i \in DOMAIN secs : (secs[i] * MiniSize) \div SecSize < Len(miniStream)
    THEN Ok(ResolveRuns([i \in DOMAIN secs |-> MiniOffset(miniStream, secs[i])], MiniSize, size))
    ELSE Bad

\* buildStream: the size and the runs of a stream.
BuildStream(e, fat, miniFAT, miniStream) ==
    LET size == e.streamSize
        runs == IF IsMini(size)
                THEN Then(WalkChain(miniFAT, e.startSector, CeilDiv(size, MiniSize)),
                          LAMBDA secs : MiniRuns(secs, miniStream, size))
                ELSE Then(WalkChain(fat, e.startSector, CeilDiv(size, SecSize)),
                          LAMBDA secs : RegularRuns(secs, size))
    IN  IF size = 0 THEN Ok([size |-> 0, runs |-> <<>>])
        ELSE IF e.startSector = EndOfChain THEN Bad
        ELSE Then(runs, LAMBDA found : Ok([size |-> size, runs |-> found]))

\* The cells of the runs from the j-th on, n of them, the first within cells
\* into its run.
ReadRuns(file, runs, j, within, n) ==
    LET rest[i \in Nat, skip \in Nat, left \in Nat] ==
            IF i > Len(runs) \/ left = 0 THEN [data |-> <<>>, short |-> left > 0]
            ELSE LET want == Smaller(left, runs[i].length - skip)
                     got == FileCells(file, runs[i].off + skip, want)
                     more == rest[i + 1, 0, left - want]
                 IN  IF Len(got) < want THEN [data |-> got, short |-> TRUE]
                     ELSE [data |-> got \o more.data, short |-> more.short]
    IN  rest[j, within, n]

\* Mutant: the place within the first run is forgotten.
WithinStart(r, off) == 0

\* How far into run r the offset off lies.
Within(r, off) == off - r.start

\* Stream.ReadAt of n cells at off. The file itself is read without an error
\* other than its end, which would be returned with the cells read before it.
ReadAt(file, st, off, n) ==
    LET len == Smaller(n, st.size - off)
        i == CHOOSE j \in DOMAIN st.runs :
                st.runs[j].start <= off /\ off < st.runs[j].start + st.runs[j].length
        read == ReadRuns(file, st.runs, i, Within(st.runs[i], off), len)
    IN  IF off < 0 THEN [data |-> <<>>, err |-> "negative offset"]
        ELSE IF off >= st.size THEN [data |-> <<>>, err |-> "EOF"]
        ELSE [data |-> read.data,
              err |-> IF read.short THEN "ErrUnexpectedEOF"
                      ELSE IF len < n THEN "EOF" ELSE "nil"]

-----------------------------------------------------------------------------
(* NewReader: the storages and streams in the order of a walk through all   *)
(* Entries, each with its path, and a stream with its size and runs.        *)

NoStreamData == [size |-> 0, runs |-> <<>>]

\* walkBST and buildStorage, from the children of the root on.
WalkBST(entries, fat, miniFAT, miniStream) ==
    LET walk[id \in Nat, path \in Seq(Int), seen \in SUBSET Nat] ==
            LET e == entries[id + 1]
                here == Append(path, e.name)
                left == walk[e.leftSib, path, seen \cup {id}]
                stream == BuildStream(e, fat, miniFAT, miniStream)
                below == IF e.objectType = StorageType THEN walk[e.childID, here, left.seen]
                         ELSE [left EXCEPT !.ok = e.objectType \in {StreamType, Unallocated},
                                           !.out = <<>>]
                right == walk[e.rightSib, path, below.seen]
                self == [path |-> here, objectType |-> e.objectType,
                         data |-> IF e.objectType = StreamType THEN stream.val ELSE NoStreamData]
            IN  IF id = NoStream THEN [ok |-> TRUE, seen |-> seen, out |-> <<>>]
                ELSE IF /\ id < Len(entries)
                        /\ id \notin seen
                        /\ left.ok
                        /\ e.objectType = StreamType => stream.ok
                        /\ below.ok
                        /\ right.ok
                THEN [ok |-> TRUE, seen |-> right.seen,
                      out |-> left.out
                              \o (IF e.objectType = Unallocated THEN <<>> ELSE <<self>>)
                              \o below.out \o right.out]
                ELSE Bad
        all == walk[entries[1].childID, <<>>, {}]
    IN  IF all.ok THEN Ok(all.out) ELSE Bad

Parse(file) ==
    IF HeaderValid(file.header) /\ SizePlausible(file)
    THEN Then(LoadFAT(file), LAMBDA fat :
         Then(LoadMiniFAT(file, fat), LAMBDA miniFAT :
         Then(ParseEntries(file, fat, miniFAT), LAMBDA entries :
         Then(LoadMiniStream(fat, entries[1]), LAMBDA miniStream :
         Then(WalkBST(entries, fat, miniFAT, miniStream), LAMBDA list :
              Ok([fat |-> fat, list |-> list]))))))
    ELSE Bad
=============================================================================
