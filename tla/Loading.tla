------------------------------ MODULE Loading -------------------------------
(***************************************************************************)
(* NewReader of reader.go as the sequence of ReadAt calls it makes: the    *)
(* header, the probe of the size, the DIFAT sectors, and the FAT, the mini *)
(* FAT and the directory, each in batches of what the shared buffer p.buf  *)
(* holds, with neighbouring sectors read in one call.                      *)
(*                                                                         *)
(* The file is any io.ReaderAt: a call that ends where the file ends may   *)
(* return io.EOF with all the data it was asked for, and any call may fail.*)
(* What NewReader should make of a file is Parse of module Reader.         *)
(***************************************************************************)
EXTENDS Reader

CONSTANTS
    Files,      \* the files to read, [header, body] as in Reader
    BufMax,     \* the largest p.buf, 64<<10 bytes in the code
    Faulty      \* a call of ReadAt may fail

\* Every field of the header is a uint32.
Headers ==
    LET uint32 == 0 .. Words - 1 IN
    [numDir : uint32, numFAT : uint32, firstDir : uint32, firstMiniFAT : uint32, numMiniFAT : uint32,
     firstDIFAT : uint32, numDIFAT : uint32, difat : Seq(uint32)]

\* A word, or anything else.
Cells == {WordCell(w) : w \in 0 .. Words - 1} \cup [k : STRING \ {"word"}, v : Seq(Nat)]

ASSUME LoadingAssumption ==
    /\ Files \subseteq [header : Headers, body : Seq(Cells)]
    /\ BufMax \in Nat
    /\ BufMax >= SecSize
    /\ Faulty \in BOOLEAN
    /\ ProbeThreshold \in Nat

VARIABLES
    file,       \* what is read
    phase,      \* the method of the parser that runs, or "done" or "error"
    buf,        \* p.buf
    sec, left,  \* readDIFAT: the next DIFAT sector, and how many are to come
    secs,       \* the sectors of the table that is loaded
    i, first,   \* how many of them are loaded, and read in this batch
    fat, miniFAT, entries,
    list,       \* the storages and streams that NewReader returns
    reads,      \* the calls of ReadAt
    failed      \* some call returned an error of its own, or io.EOF with all data

tables == <<fat, miniFAT, entries>>
cursor == <<buf, sec, left, secs, i, first>>
vars   == <<file, phase, cursor, tables, list, reads, failed>>

h == file.header
Size == SecSize + Len(file.body)

-----------------------------------------------------------------------------
(* The file                                                                 *)

\* What ReadAt may return for n cells at off; "other" stands for any error.
ReadAtResults(off, n) ==
    LET data == FileCells(file, off, n) IN
    {[data |-> data, err |-> IF Len(data) = n THEN "nil" ELSE "EOF"]}
    \cup {[data |-> data, err |-> e] : e \in IF off + n = Size THEN {"EOF"} ELSE {}}
    \cup {[data |-> <<>>, err |-> e] : e \in IF Faulty THEN {"other"} ELSE {}}

\* One call of ReadAt, its result r.
Called(r, n) ==
    /\ reads' = reads + 1
    /\ failed' = (failed \/ r.err = "other" \/ (r.err = "EOF" /\ Len(r.data) = n))

Fail == phase' = "error" /\ UNCHANGED <<file, cursor, tables, list>>

\* data copied to b[at:].
Overwrite(b, at, data) ==
    [k \in DOMAIN b |-> IF k - at \in DOMAIN data THEN data[k - at] ELSE b[k]]

-----------------------------------------------------------------------------
(* The header                                                               *)

\* In version 4 the header is followed by padding, so the file goes on.
HeaderErrors ==
    {"nil"} \cup (IF V3 /\ Size = SecSize THEN {"EOF"} ELSE {})
            \cup (IF Faulty THEN {"other"} ELSE {})

ParseHeader ==
    /\ phase = "parseHeader"
    /\ \E err \in HeaderErrors :
          /\ phase' = IF err = "nil" /\ HeaderValid(h) THEN "checkFileSize" ELSE "error"
          /\ failed' = (err # "nil")
    /\ reads' = reads + 1
    /\ UNCHANGED <<file, cursor, tables, list>>

\* Mutant: the FAT is left out.
NeedWithoutFAT == Max({h.numMiniFAT, h.numDir})

\* The largest of the tables whose length the header says.
Need == Max({h.numFAT, h.numMiniFAT, h.numDir})

BufLen == Smaller(Need * SecSize, BufMax)

\* The beginning of readDIFAT.
StartDIFAT ==
    /\ phase' = IF \A n \in DOMAIN h.difat : h.difat[n] \in (0 .. MaxRegSect) \cup {FreeSect}
                THEN "readDIFAT" ELSE "error"
    /\ buf' = Zeros(BufLen)
    /\ sec' = h.firstDIFAT
    /\ left' = h.numDIFAT
    /\ secs' = Listed(h.difat)
    /\ UNCHANGED <<file, i, first, tables, list>>

DeclaredSize == (1 + h.numFAT + h.numDIFAT + h.numMiniFAT + h.numDir) * SecSize

\* A small file is not probed.
SkipProbe ==
    /\ phase = "checkFileSize"
    /\ DeclaredSize <= ProbeThreshold
    /\ StartDIFAT
    /\ UNCHANGED <<reads, failed>>

\* A single cell that is there is enough, whatever the error with it.
Probe ==
    /\ phase = "checkFileSize"
    /\ DeclaredSize > ProbeThreshold
    /\ \E r \in ReadAtResults(DeclaredSize - 1, 1) :
          /\ reads' = reads + 1
          /\ failed' = (failed \/ r.err = "other")
          /\ IF r.data # <<>> THEN StartDIFAT ELSE Fail

-----------------------------------------------------------------------------
(* readDIFAT                                                                *)

\* Mutant: the chain of DIFAT sectors is followed to its end.
DIFATReadAll == sec = EndOfChain

DIFATRead == left = 0

ReadDIFATSector ==
    /\ phase = "readDIFAT"
    /\ ~DIFATRead
    /\ sec <= MaxRegSect
    /\ \E r \in ReadAtResults(SectorOffset(sec), SecSize) :
          LET words == WordsOf(r.data)
              found == Listed(Take(words, PerFAT - 1))
          IN  /\ Called(r, SecSize)
              /\ IF r.err = "nil" /\ \A n \in DOMAIN found : found[n] <= MaxRegSect
                 THEN /\ buf' = Overwrite(buf, 0, r.data)
                      /\ secs' = secs \o found
                      /\ sec' = words[PerFAT]
                      /\ left' = left - 1
                      /\ UNCHANGED <<file, phase, i, first, tables, list>>
                 ELSE Fail

\* The chain is too short, or a link in it no sector.
NoDIFATSector ==
    /\ phase = "readDIFAT"
    /\ ~DIFATRead
    /\ sec > MaxRegSect
    /\ Fail
    /\ UNCHANGED <<reads, failed>>

\* The end of readDIFAT: the sectors found are those of the FAT.
EndDIFAT ==
    /\ phase = "readDIFAT"
    /\ DIFATRead
    /\ phase' = IF sec = EndOfChain /\ Len(secs) = h.numFAT THEN "loadFAT" ELSE "error"
    /\ UNCHANGED <<file, cursor, tables, list, reads, failed>>

-----------------------------------------------------------------------------
(* The loop of loadFAT, loadMiniFAT and parseEntries over batches of secs,  *)
(* and in it readSectors                                                    *)

Loads == {"loadFAT", "loadMiniFAT", "parseEntries"}

\* How many sectors the buffer holds.
BatchLen == Len(buf) \div SecSize

\* secs[i:end]
Batch == SubSeq(secs, i + 1, Smaller(i + BatchLen, Len(secs)))

\* Mutant: any later sector is taken for the next one.
IsNextLoosely(s, t) == t > s

\* Sector t lies right behind sector s.
IsNext(s, t) == t = s + 1

\* Where the run of neighbours that begins behind the first sectors ends.
RunEnd ==
    CHOOSE k \in first + 1 .. Len(Batch) :
        /\ \A j \in first + 1 .. k - 1 : IsNext(Batch[j], Batch[j + 1])
        /\ k < Len(Batch) => ~IsNext(Batch[k], Batch[k + 1])

\* One turn of readSectors.
ReadRun ==
    /\ phase \in Loads
    /\ first < Len(Batch)
    /\ LET length == (RunEnd - first) * SecSize IN
       \E r \in ReadAtResults(SectorOffset(Batch[first + 1]), length) :
          /\ Called(r, length)
          /\ IF r.err = "nil"
             THEN /\ buf' = Overwrite(buf, first * SecSize, r.data)
                  /\ first' = RunEnd
                  /\ UNCHANGED <<file, phase, sec, left, secs, i, tables, list>>
             ELSE Fail

\* What the batch adds to the table.
Loaded == Take(buf, Len(Batch) * SecSize)

BatchRead == i < Len(secs) /\ first = Len(Batch)

NextBatch ==
    /\ i' = i + BatchLen
    /\ first' = 0
    /\ UNCHANGED <<file, buf, sec, left, secs, list, reads, failed>>

EndFATBatch ==
    /\ phase = "loadFAT"
    /\ BatchRead
    /\ fat' = fat \o WordsOf(Loaded)
    /\ NextBatch
    /\ UNCHANGED <<phase, miniFAT, entries>>

EndMiniFATBatch ==
    /\ phase = "loadMiniFAT"
    /\ BatchRead
    /\ miniFAT' = miniFAT \o WordsOf(Loaded)
    /\ NextBatch
    /\ UNCHANGED <<phase, fat, entries>>

EndEntryBatch ==
    /\ phase = "parseEntries"
    /\ BatchRead
    /\ LET found == EntriesIn(Loaded, fat, miniFAT) IN
       IF found.ok
       THEN entries' = entries \o found.val /\ UNCHANGED phase
       ELSE phase' = "error" /\ UNCHANGED entries
    /\ NextBatch
    /\ UNCHANGED <<fat, miniFAT>>

\* The next table, in the sectors of the chain that walkChain returned.
Load(to, chain) ==
    /\ IF chain.ok THEN phase' = to /\ secs' = chain.val ELSE phase' = "error" /\ UNCHANGED secs
    /\ i' = 0
    /\ first' = 0
    /\ UNCHANGED <<file, buf, sec, left, tables, list, reads, failed>>

DirectoryChain == WalkChain(fat, h.firstDir, h.numDir)

EndFAT ==
    /\ phase = "loadFAT"
    /\ i >= Len(secs)
    /\ IF h.numMiniFAT = 0
       THEN Load("parseEntries", DirectoryChain)
       ELSE Load("loadMiniFAT", WalkChain(fat, h.firstMiniFAT, h.numMiniFAT))

EndMiniFAT ==
    /\ phase = "loadMiniFAT"
    /\ i >= Len(secs)
    /\ Load("parseEntries", DirectoryChain)

\* The end of parseEntries, loadMiniStream and buildStorage, which read nothing.
EndEntries ==
    /\ phase = "parseEntries"
    /\ i >= Len(secs)
    /\ LET tree == IF BeginWithRoot(entries)
                   THEN Then(LoadMiniStream(fat, entries[1]),
                             LAMBDA miniStream : WalkBST(entries, fat, miniFAT, miniStream))
                   ELSE Bad
       IN  IF tree.ok THEN phase' = "done" /\ list' = tree.val
                      ELSE phase' = "error" /\ UNCHANGED list
    /\ UNCHANGED <<file, cursor, tables, reads, failed>>

Init ==
    /\ file \in Files
    /\ phase = "parseHeader"
    /\ buf = <<>> /\ sec = EndOfChain /\ left = 0
    /\ secs = <<>> /\ i = 0 /\ first = 0
    /\ fat = <<>> /\ miniFAT = <<>> /\ entries = <<>> /\ list = <<>>
    /\ reads = 0
    /\ failed = FALSE

Next ==
    \/ ParseHeader
    \/ SkipProbe \/ Probe
    \/ ReadDIFATSector \/ NoDIFATSector \/ EndDIFAT
    \/ ReadRun
    \/ EndFATBatch \/ EndMiniFATBatch \/ EndEntryBatch
    \/ EndFAT \/ EndMiniFAT \/ EndEntries

Spec == Init /\ [][Next]_vars

\* NewReader is one call: it runs on until it returns.
FairSpec == Spec /\ WF_vars(Next)

-----------------------------------------------------------------------------
(* Properties                                                               *)

(* "The parser never panics": every slice that is cut from p.buf lies in it *)
(* and every batch holds a sector, although the buffer is made from the     *)
(* header's counts and the sectors are counted on chains (in version 3 the  *)
(* header does not count the directory's).                                  *)
SlicesFit ==
    /\ phase = "readDIFAT" => SecSize <= Len(buf)
    /\ phase \in Loads /\ i < Len(secs) => BatchLen > 0 /\ Len(Batch) * SecSize <= Len(buf)

(* However the sectors of the tables lie and the batches cut them,          *)
(* NewReader finds what Parse finds in the file, or gives an error; it      *)
(* gives one only for a file that Parse refuses, too, or when a call failed *)
(* or returned io.EOF with all the data, which io.ReaderAt allows and       *)
(* readSectors takes for a failure.                                         *)
LoadsWhatIsThere ==
    /\ phase = "done" => Parse(file) = Ok([fat |-> fat, list |-> list])
    /\ phase = "error" => failed \/ ~Parse(file).ok

SectorsLoaded ==
    (Len(fat) + Len(miniFAT) + Len(entries) * DirentSize) \div SecSize + first

(* No file makes NewReader read without bound: two calls for header and     *)
(* probe, as many for the DIFAT as the FAT's length allows, cyclic or not,  *)
(* and no more than one for each sector of the tables it builds.            *)
ReadsBounded ==
    phase # "error" => reads <= 3 + h.numFAT \div (PerFAT - 1) + SectorsLoaded

(* "The parser never hangs": NewReader returns for every file.              *)
Returns == <>(phase \in {"done", "error"})
=============================================================================
