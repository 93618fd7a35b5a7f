------------------------------- MODULE Writer -------------------------------
(***************************************************************************)
(* Writer.Close of writer.go, on top of StreamWriter: the serializer emits *)
(* the directory, the mini FAT, the FAT and the DIFAT, flushes the         *)
(* bufio.Writer and only then writes the header. Every step may fail. What *)
(* the writer leaves behind is judged by what Reader makes of it.          *)
(***************************************************************************)
EXTENDS StreamWriter, Reader

VARIABLES
    phase,      \* where Writer.Close stands, "idle" before it has begun
    ser,        \* the serializer's fields, as far as they are set
    handed,     \* the cells of out that are certain to have reached w.raw
    header      \* what is at offset 0 of the file: "none", "torn" or "whole"

serializer == <<phase, ser, handed, header>>
wvars      == <<vars, serializer>>

-----------------------------------------------------------------------------
(* The tree of entries                                                      *)

\* sw.streams and sw.storages, merged in the order of their names.
Children(d) ==
    LET kids == {m \in made : Parent[m] = d} IN
    CHOOSE q \in [1 .. Cardinality(kids) -> kids] :
        \A i, j \in DOMAIN q : i < j => Name[q[i]] < Name[q[j]]

\* Every entry in the order of the walks of assignLayout and emitDirectory;
\* the id of an entry is its index in this order, from 0.
Entries ==
    LET from[d \in Storages \cup {Root}] ==
            LET children == Children(d) IN
            <<d>> \o FlattenSeq([i \in DOMAIN children |->
                         IF children[i] \in Streams THEN <<children[i]>> ELSE from[children[i]]])
    IN  from[Root]

\* Mutant: entries are numbered as if the tree were walked level by level.
IdByLevel(n) ==
    IF Parent[n] = Root THEN SelectInSeq(Children(Root), LAMBDA m : m = n)
    ELSE Len(Children(Root)) + SelectInSeq(Children(Parent[n]), LAMBDA m : m = n)

Id(n) == SelectInSeq(Entries, LAMBDA m : m = n) - 1

\* layoutDirectory: the siblings and the child of every entry.
LayoutDirectory ==
    LET ids(d) == LET children == Children(d) IN [i \in DOMAIN children |-> Id(children[i])]
        entry(n) ==
            LET tree == LinkBST(ids(Parent[n]))
                id == Id(n)
            IN  [leftSib  |-> tree.leftSib[id],
                 rightSib |-> tree.rightSib[id],
                 childID  |-> IF n \in Streams THEN NoStream ELSE LinkBST(ids(n)).root]
        top == [leftSib |-> NoStream, rightSib |-> NoStream, childID |-> LinkBST(ids(Root)).root]
    IN  [n \in made \cup {Root} |-> IF n = Root THEN top ELSE entry(n)]

-----------------------------------------------------------------------------
(* serializer.init                                                          *)

\* numMiniSecs: the mini sectors in use, without the padding.
NumMiniSecs == (Len(miniSecs) * SecSize) \div MiniSize + Len(miniBuf) \div MiniSize

MiniPadding == Zeros(SecSize - Len(miniBuf))

InitSerializer ==
    /\ phase = "init"
    /\ IF Len(miniBuf) \in 1 .. SecSize - 1
       THEN WriteMini(MiniPadding)
       ELSE UNCHANGED <<out, err, miniBuf, miniSecs>>
    /\ ser' = [miniSize  |-> NumMiniSecs * MiniSize,
               miniStart |-> IF NumMiniSecs > 0 THEN miniSecs'[1] ELSE EndOfChain]
    /\ phase' = "directory"
    /\ UNCHANGED <<mu, made, descendants, wclosed, fields, locals, handed, header>>

InitFails ==
    /\ phase = "init"
    /\ Len(miniBuf) \in 1 .. SecSize - 1
    /\ WriteMiniFails(MiniPadding)
    /\ Unlock
    /\ phase' = "failed"
    /\ UNCHANGED <<made, descendants, wclosed, fields, locals, ser, handed, header>>

-----------------------------------------------------------------------------
(* The regions                                                              *)

\* The sector a stream's entry points to.
StartOf(s) == IF size[s] > 0 THEN chain[s][1].first ELSE EndOfChain

\* emitDirectory
DirectoryRegion ==
    LET layout == LayoutDirectory
        entries == Entries
        entry(n) ==
            layout[n] @@
            [objectType  |-> CASE n = Root -> RootType
                               [] n \in Streams -> StreamType
                               [] n \in Storages -> StorageType,
             name        |-> IF n = Root THEN 0 ELSE Name[n],
             startSector |-> CASE n = Root -> IF ser.miniSize > 0 THEN ser.miniStart ELSE EndOfChain
                               [] n \in Streams -> StartOf(n)
                               [] n \in Storages -> EndOfChain,
             streamSize  |-> CASE n = Root -> ser.miniSize
                               [] n \in Streams -> size[n]
                               [] n \in Storages -> 0]
        empty == [objectType |-> Unallocated, name |-> 0, leftSib |-> NoStream,
                  rightSib |-> NoStream, childID |-> NoStream, startSector |-> 0, streamSize |-> 0]
        perDir == SecSize \div DirentSize
        dirent(i) == <<DirentCell(IF i <= Len(entries) THEN entry(entries[i]) ELSE empty)>>
                     \o Zeros(DirentSize - 1)
    IN  FlattenSeq([i \in 1 .. CeilDiv(Len(entries), perDir) * perDir |-> dirent(i)])

ChainRun(first_, count, terminal) ==
    [first |-> first_, count |-> count, terminal |-> terminal, linear |-> TRUE]
TableRun(first_, count, terminal) ==
    [first |-> first_, count |-> count, terminal |-> terminal, linear |-> FALSE]

RegularStreams == {s \in Streams \cap made : Regular(s)}
MiniStreams    == {s \in Streams \cap made : size[s] \in 1 .. Cutoff - 1}

MiniFATSecs ==
    IF ser.miniSize > 0 THEN CeilDiv(U32(ser.miniSize \div MiniSize), PerFAT) ELSE 0

MiniFATRegion ==
    Table(MiniFATSecs,
          SortRuns({ChainRun(chain[s][1].first, chain[s][1].count, EndOfChain) : s \in MiniStreams}))

\* The runs of the regular streams, each ending with the link to the next.
StreamRuns ==
    UNION {{ChainRun(chain[s][i].first, chain[s][i].count,
                     IF i < Len(chain[s]) THEN chain[s][i + 1].first ELSE EndOfChain) :
               i \in DOMAIN chain[s]} : s \in RegularStreams}

\* Mutant: any later sector is taken for the next one.
FollowsLoosely(j) == j > 1 /\ miniSecs[j] > miniSecs[j - 1]

\* The j-th mini-stream sector lies right after the one before it.
Follows(j) == j > 1 /\ miniSecs[j] = miniSecs[j - 1] + 1

\* The mini-stream's own sectors, neighbours made one run.
MiniSecRuns ==
    LET heads == {j \in DOMAIN miniSecs : ~Follows(j)}
        next(i) == Min({j \in heads : j > i} \cup {Len(miniSecs) + 1})
    IN  {ChainRun(miniSecs[i], next(i) - i,
                  IF next(i) <= Len(miniSecs) THEN miniSecs[next(i)] ELSE EndOfChain) : i \in heads}

FATRegion(start, counts) ==
    Table(counts.fat,
          SortRuns(StreamRuns \cup MiniSecRuns \cup
              {ChainRun(ser.dirStart, ser.dirSecs, EndOfChain),
               ChainRun(ser.miniFATStart, ser.miniFATSecs, EndOfChain),
               TableRun(start, counts.fat, FatSect),
               TableRun(start + counts.fat, counts.difat, DifSect)}))

\* emitDIFAT
DIFATRegion ==
    LET perDIFAT == PerFAT - 1
        word(i, j) ==
            LET fatIdx == InlineDIFAT + i * perDIFAT + j IN
            IF fatIdx < ser.fatCount THEN ser.fatStart + fatIdx ELSE FreeSect
        next(i) == IF i + 1 < ser.difatCount THEN ser.difatStart + i + 1 ELSE EndOfChain
    IN  FlattenSeq([i \in 1 .. ser.difatCount |->
            [j \in 1 .. PerFAT |->
                WordCell(IF j <= perDIFAT THEN word(i - 1, j - 1) ELSE next(i - 1))]])

\* What is emitted in each phase.
Region ==
    CASE phase = "directory" -> DirectoryRegion
      [] phase = "minifat"   -> MiniFATRegion
      [] phase = "fat"       -> FATRegion(SectorIdx, FatCounts(SectorIdx))
      [] phase = "difat"     -> DIFATRegion

-----------------------------------------------------------------------------
(* The emit phases. Writer.Close holds w.mu throughout, so only a failure   *)
(* can be told from inside a region: each region is one step.               *)

Emit(from, to) ==
    /\ phase = from
    /\ Put(Region)
    /\ phase' = to
    /\ UNCHANGED <<mu, miniBuf, miniSecs, made, descendants, wclosed, fields, locals, handed, header>>

EmitDirectory ==
    /\ Emit("directory", "minifat")
    /\ ser' = ser @@ [dirStart |-> SectorIdx, dirSecs |-> SectorIdx' - SectorIdx]

EmitMiniFAT ==
    /\ Emit("minifat", "fat")
    /\ ser' = ser @@ [miniFATStart |-> SectorIdx, miniFATSecs |-> MiniFATSecs]

EmitFAT ==
    /\ Emit("fat", "difat")
    /\ LET counts == FatCounts(SectorIdx) IN
       ser' = ser @@ [fatStart |-> SectorIdx, fatCount |-> counts.fat,
                      difatStart |-> SectorIdx + counts.fat, difatCount |-> counts.difat]

EmitDIFAT ==
    /\ Emit("difat", "flush")
    /\ UNCHANGED ser

EmitFails ==
    /\ phase \in {"directory", "minifat", "fat", "difat"}
    /\ PutFails(Region)
    /\ Unlock
    /\ phase' = "failed"
    /\ UNCHANGED <<miniBuf, miniSecs, made, descendants, wclosed, fields, locals, ser, handed, header>>

-----------------------------------------------------------------------------
(* The end of Writer.Close                                                  *)

\* w.bw.Flush
FlushOut ==
    /\ phase = "flush"
    /\ ~err
    /\ handed' = Len(out)
    /\ phase' = "header"
    /\ UNCHANGED <<vars, ser, header>>

FlushOutFails ==
    /\ phase = "flush"
    /\ err \/ Faulty
    /\ err' = TRUE
    /\ Unlock
    /\ phase' = "failed"
    /\ UNCHANGED <<out, miniBuf, miniSecs, made, descendants, wclosed, fields, locals, ser, handed, header>>

\* patchHeader
PatchHeader ==
    /\ phase = "header"
    /\ header' = "whole"
    /\ Unlock
    /\ phase' = "closed"
    /\ UNCHANGED <<out, err, miniBuf, miniSecs, made, descendants, wclosed, fields, locals, ser, handed>>

\* The seek or the write of the header fails, or in version 4, whose header
\* is padded to a sector, the write of the padding after it.
PatchHeaderFails ==
    /\ phase = "header"
    /\ Faulty
    /\ header' \in {"none", "torn"} \cup (IF V3 THEN {} ELSE {"whole"})
    /\ Unlock
    /\ phase' = "failed"
    /\ UNCHANGED <<out, err, miniBuf, miniSecs, made, descendants, wclosed, fields, locals, ser, handed>>

\* The fields of a whole header.
Header ==
    [numDir       |-> IF V3 THEN 0 ELSE U32(ser.dirSecs),
     numFAT       |-> U32(ser.fatCount),
     firstDir     |-> U32(ser.dirStart),
     firstMiniFAT |-> IF ser.miniFATSecs > 0 THEN U32(ser.miniFATStart) ELSE EndOfChain,
     numMiniFAT   |-> U32(ser.miniFATSecs),
     firstDIFAT   |-> IF ser.difatCount > 0 THEN U32(ser.difatStart) ELSE EndOfChain,
     numDIFAT     |-> U32(ser.difatCount),
     difat        |-> [i \in 1 .. InlineDIFAT |->
                          IF i <= ser.fatCount THEN U32(ser.fatStart + i - 1) ELSE FreeSect]]

-----------------------------------------------------------------------------
WriterInit ==
    /\ Init
    /\ phase = "idle"
    /\ ser = <<>>
    /\ handed = 0
    /\ header = "none"

CloseWriter == BeginClose /\ phase' = "init" /\ UNCHANGED <<ser, handed, header>>

Serialize ==
    \/ InitSerializer \/ InitFails
    \/ EmitDirectory \/ EmitMiniFAT \/ EmitFAT \/ EmitDIFAT \/ EmitFails
    \/ FlushOut \/ FlushOutFails
    \/ PatchHeader \/ PatchHeaderFails

WriterNext ==
    \/ ClientNext /\ UNCHANGED serializer
    \/ CloseWriter
    \/ Serialize

WriterSpec == WriterInit /\ [][WriterNext]_wvars

-----------------------------------------------------------------------------
(* Properties                                                               *)

\* The file as it is certain to be found after a crash.
File == [header |-> Header, body |-> Take(out, handed)]

\* What the callers have put into the file, in the order of the entries.
Listing ==
    LET path[n \in made] ==
            IF Parent[n] = Root THEN <<Name[n]>> ELSE Append(path[Parent[n]], Name[n])
    IN  [i \in 1 .. Len(Entries) - 1 |->
            LET n == Entries[i + 1] IN
            [path       |-> path[n],
             objectType |-> IF n \in Streams THEN StreamType ELSE StorageType,
             content    |-> IF n \in Streams THEN DataCells(n, 1, size[n]) ELSE <<>>]]

\* Entry got of the reader's list is entry want of the callers' one.
SameEntry(got, want) ==
    /\ got.path = want.path
    /\ got.objectType = want.objectType
    /\ got.data.size = Len(want.content)
    /\ ReadAt(File, got.data, 0, got.data.size).data = want.content

ReadsAs(r, want) ==
    /\ r.ok
    /\ Len(r.val.list) = Len(want)
    /\ \A i \in DOMAIN want : SameEntry(r.val.list[i], want[i])

(* As soon as there is a whole header, whatever failed on the way or fails  *)
(* after it and wherever the process dies, NewReader accepts the file and   *)
(* finds every storage and stream under its path, with exactly the cells    *)
(* its caller wrote.                                                        *)
RoundTrip == header = "whole" => ReadsAs(Parse(File), Listing)

\* Every range of the stream st reads as that range of want.
RangesReadAs(st, want) ==
    \A off \in 0 .. Len(want) + 1, n \in 1 .. Len(want) + 1 :
        ReadAt(File, st, off, n) =
            [data |-> SubSeq(want, off + 1, Smaller(off + n, Len(want))),
             err  |-> IF off + n > Len(want) THEN "EOF" ELSE "nil"]

AllRangesReadAs(r, want) ==
    r.ok => \A i \in DOMAIN want : RangesReadAs(r.val.list[i].data, want[i].content)

(* "Reads past Size return io.EOF": every range of every stream reads as    *)
(* that range of what was written, across the runs of a fragmented stream,  *)
(* and a read that reaches beyond the end says so.                          *)
RangeReads == header = "whole" => AllRangesReadAs(Parse(File), Listing)

\* The first sectors of the chains in the FAT.
ChainStarts ==
    {chain[s][1].first : s \in RegularStreams}
    \cup {ser.dirStart}
    \cup {n \in {ser.miniStart, Header.firstMiniFAT} : n # EndOfChain}

TableSectors == ToSet(ReadDIFAT(File).val)
                \cup ser.difatStart .. ser.difatStart + ser.difatCount - 1

\* Sector n is in the chain of the FAT that begins at start.
OnChain(fat, start, n) == LET c == WalkChain(fat, start, 0) IN c.ok /\ Contains(c.val, n)

AccountsForAll(fat, sectors) ==
    LET tables == {n \in sectors : fat[n + 1] \in {FatSect, DifSect}}
    IN  /\ \A n \in sectors \ tables : Cardinality({m \in ChainStarts : OnChain(fat, m, n)}) = 1
        /\ tables = TableSectors
        /\ \A i \in DOMAIN fat : i - 1 \notin sectors => fat[i] = FreeSect

(* The FAT accounts for every sector of the file exactly once: each sector  *)
(* is in one chain of one stream, the mini-stream, the directory or the     *)
(* mini FAT, or is a FAT or DIFAT sector listed as such; none is lost, and  *)
(* what lies beyond the end of the file is free.                            *)
EverySectorOnce ==
    header = "whole" =>
        /\ LoadFAT(File).ok
        /\ AccountsForAll(LoadFAT(File).val, 0 .. Len(out) \div SecSize - 1)

(* serializer.init makes room for as many entries as the counter says, and  *)
(* assignLayout writes the entries it finds in the tree. The two are kept   *)
(* apart: a creation adds to both in one hold of w.mu, the counter is never *)
(* compared with the tree, and whatever streams and storages were created   *)
(* on the way, at any depth, the number counted is the number found.        *)
LayoutFits == phase = "directory" => descendants = Len(Entries)
=============================================================================
