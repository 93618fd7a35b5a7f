# go-cfb: specification, model checking and proofs

TLA+ models of [go-cfb](../src/README.md), a pure Go library that reads and writes compound files (the
COM structured storage container of `.doc`, `.msi`, `.msg`), the TLC configurations that check them and
TLAPS proofs about them. Source locations are relative to the repository root.

1. [The system](#the-system) 2. [The modules](#the-modules) 3. [The runs](#the-runs)
4. [Bounds and abstractions](#bounds-and-abstractions) 5. [Fairness](#fairness) 6. [The proofs](#the-proofs)
7. [What is only checked, and what is not modelled](#limits) 8. [Plan](#plan)

## The system

A compound file is a header sector followed by equal sectors. The FAT, a table of one word a sector, links
the sectors of every stream into a chain; the DIFAT lists the sectors of the FAT itself (the first ones in
the header, the rest in sectors of its own); the directory is a chain of entries in which the children of
each storage form a binary search tree. Streams shorter than a cutoff live in mini sectors inside one hidden
stream, the mini-stream, with a mini FAT of its own.

| Component | State | Operations | Talks to |
|---|---|---|---|
| `Writer` (`writer.go`) | `mu`, `cw` (position), `miniBuf`, `miniSecs`, `descendants`, `closed`, the tree | `CreateStream`, `CreateStorage`, `Close` | every `StreamWriter` shares it; `bufio.Writer` over an `io.WriteSeeker` |
| `StreamWriter` (`writer.go`) | `buf`, `chain` (runs of sectors), `size`, `closed` | `Write`, `Close`, internally `flush`, `Writer.writeMini` | takes `w.mu`, appends to `w.cw` or the mini-stream |
| serializer (`writer.go`) | entries, counts, table starts | `init`, `emitDirectory`, `emitFAT`, `emitDIFAT`, `patchHeader` | reads what the StreamWriters left; run by `Writer.Close` |
| allocation (`writer.go`) | the loops' locals | `computeFATCounts`, `writeChainTable`, `linkBST` | serializer |
| parser, `Reader`, `Stream` (`reader.go`) | header, DIFAT, FAT, mini FAT, entries; per stream a list of byte runs | `NewReader`, `Stream.ReadAt`, `Open*` | `io.ReaderAt` |
| `AddFS` (`writer.go`) | none of its own | copies an `fs.FS` into storages and streams | `StorageWriter`, `StreamWriter` |
| fs view (`fs.go`) | position of a directory handle | `Open`, `ReadDir`, `Stat` | `Storage`, `Stream` |
| names (`name.go`, `casetable.go`) | none; a generated table of ranges | `encodeName`, `compareNames`, `toUpper` | everything that orders siblings |
| `casetablegen` | a map and the list of its pairs, while it runs | `parseFolding`, `apply`, `compress` | makes the table of `toUpper` |
| `oleps` | `encoder`, `decoder` | `Marshal`, `Unmarshal` | a stream's bytes, `filetime`, code pages |
| `filetime` | none | `Encode`, `Decode` | `oleps`, directory entries |

What makes it hard:

* **Interleaving.** Writes of distinct streams run concurrently and share only `w.mu`, the file position
  and the mini-stream. A flush reads the sector number, makes *two* writes and records the run; another
  flush or a mini sector in between would share its sectors. Flushes of other streams fragment a stream.
  Several calls of `AddFS` may add to one storage.
* **Arithmetic at boundaries.** `Write` picks among three cases so that buffer and argument always flush
  as whole sectors; a stream that reaches the cutoff exactly is regular on both sides; the mini-stream's
  length and its chain differ by the padding; the FAT counts itself; `readSectors` cuts tables into batches and
  joins neighbouring sectors.
* **Failure.** Any write may fail after taking part of its bytes; callers may retry and go on with other
  streams. `Writer.Close` may fail or die at every step, and the header must only ever point to a file
  whose tables are complete. Any call of `io.ReaderAt` and of an `fs.FS` may fail.
* **Malformed files.** Chains and directory trees of a file may be cyclic, shared, or shorter or longer than
  announced. Only a comparison of lengths and a set of marks stop the loops; too strict a bound refuses good files.
* **Agreement of two programs.** The writer's layout must be what the reader's walk expects: fields,
  counts, chain lengths, tree links. The table of `toUpper` is searched without the pairs it was made from.
* **Offsets from a file.** `Unmarshal` follows offsets in unsigned 32-bit arithmetic.

What makes each part correct, in short: a stream holds what its own caller wrote (StreamWriter); no sector
belongs to two owners (StreamWriter, serializer); the tables describe every sector once and themselves too
(serializer, allocation); a file with a whole header reads back exactly as written (serializer and reader);
a read never sees bytes outside of the range asked for (`ReadAt`); `NewReader` returns for every file, with
what is in it or an error, and gives an error only for a reason; what `AddFS` reports as added is there, whole,
and is listed and opened; `toUpper` is the case folding; a property set reads back as marshalled, is never read
from a truncated stream and never from outside its bytes (`oleps`).

## The modules

An arrow points to a module that extends the one it leaves. `*Proof` modules and the `MC*` modules of the instances
extend the module of their name; `WriterProof` has what is proved of `StreamWriter` and its refinement of `ByteStreams`, too, `AddFSProof` what is proved of
`FsView`, and `TablesProof` what is proved of `ChainTable` and `BuildStream`, the tables as they are written and as they are
read. `SequenceLemmas` has what several of the proofs need of sequences.

    Geometry --> StreamWriter (implements ByteStreams) ----------+--> Writer
        |                                                        |
        +--> Layout --> FatCounts --> ChainTable                 |
        |         +---> Reader ----------------------------------+
        |                 +---> Loading
        +--> ChainWalk ---+--> BuildStream
        +--> StreamRuns --+

    DirWalk      FsView --> AddFS      Names      Oleps

**Geometry** has the sizes (`MiniSize`, `SecSize`, `Cutoff`), the special FAT words and the *cells* files
are made of: a data cell says which cell of which stream it is, so a single misplaced cell is seen.

**ByteStreams** is the abstract promise of the writing half: append-only sequences that only their own
caller changes, frozen by closing; sealing the file needs all of them closed; a failed call has no effect.

**StreamWriter** is `writer.go:46-411`, one action at each point between which another goroutine can run:

| Code | Actions |
|---|---|
| `CreateStream`, `CreateStorage`, `validateChildName` | `CreateStream`, `CreateStorage` |
| `StreamWriter.Write` | `Write` (checks), `KeepRest` (buffer the rest), `WriteFlush` (cut `room`) |
| `flush` | `Flush` (lock, sector number), `FlushBuf`, `FlushRest` (second write, record the run, unlock), `FlushFails`; `FlushInWrite` / `FlushInClose` say how the caller continues |
| `StreamWriter.Close` | `CloseStream`, `CloseNow`, `ClosePadded`, `CloseMini`, `DrainLast` |
| `Writer.writeMini` | `WriteMini`, `Drain`, and the failing `WriteMiniFails`, `DrainFails` |
| `Writer.Close` up to the serializer | `BeginClose` |

`pc[s]` says where the call on stream `s` stands, `p`, `b`, `first` are its locals. `out` is what `w.cw` has
accepted; `err` is the sticky error of the `bufio.Writer`.

**Layout** has the pure algorithms as operators: `FatCounts` (`computeFATCounts`), `Table`
(`writeChainTable`), `LinkBST`. **FatCounts** and **ChainTable** run the two loops turn by turn, the second with
the counts the first returns, against reference definitions.

**Reader** is `NewReader` and `Stream.ReadAt` as operators on a file, each phase returning `Ok(value)` or `Bad` with
the checks of the code: header validation, file-size probe, DIFAT, FAT, directory, mini FAT, mini-stream, the walk
over the tree with its visited marks, run lists, ranges. It is the judge of `Writer` and the reference for the
three modules below.

**Loading** is `NewReader` as a sequence of calls of `ReadAt`, each with every result `io.ReaderAt` allows: `ParseHeader`,
`StartDIFAT`, `Probe`, `SkipProbe`, `ReadDIFATSector`, `NoDIFATSector`, `EndDIFAT`, then for each table `ReadRun` (a run of
neighbouring sectors), `NextBatch`, `EndFATBatch` / `EndMiniFATBatch` / `EndEntryBatch` and `EndFAT` / `EndMiniFAT` /
`EndEntries`. `buf` is `p.buf`, shared by all of them and never larger than `BufMax`. What it loads must be what
`Parse` of Reader finds.

**ChainWalk** is `walkChain` turn by turn (`Follow`, `Refuse`, `Finish`) over any table, with the length each of its callers
computes; **StreamRuns** is `resolveRegularRuns` and `resolveMiniRuns` (`First`, `Extend`, `NewRun`, `RefuseRuns`,
`FinishRuns`); **BuildStream** composes them as `buildStream` does: what the walk returns is what is resolved.

**DirWalk** is `walkBST` and `buildStorage` as a stack of calls over any directory, with links to entries that are missing,
unallocated, of an unknown type or visited already.

**Writer** extends StreamWriter with the serializer (`InitSerializer`, `EmitDirectory`, `EmitMiniFAT`,
`EmitFAT`, `EmitDIFAT`, `FlushOut`, `PatchHeader`, and the failing variants). `handed` is the part of the
output that is certain to have passed the `bufio.Writer`; `header` is none, torn or whole. The file after a
crash is `File`; its judge is the Reader.

**FsView** is the `fs.FS` that a Reader is: `Open` resolves a path with `findEntry`, in which case does not matter,
and a handle lists a storage in batches (`OpenStorage`, `ReadDir`). **AddFS** copies file systems of the same shape:
`ReadStorage`, `AddStorage`, `AddStream`, `CopyChunk`, `CloseStream`, `EndStorage`, the refusals `NotAdded`, and a
failure at each call (`SourceFails`, `CopyFails`). `stack[c]` holds the nested calls of `addFSDir` of caller `c`.
Then `CloseWriter` seals the file and FsView serves it. Creating, writing and closing a stream are single steps here, as
ByteStreams promises they look.

**Names** is `casetablegen` and `toUpper`: `Inverted` (`parseFolding`), `Apply` (a row of exceptions), `SortPairs`, and
`compress` with its two inner loops (`Start`, `Extend`, `EndAlternating`, `TryConstant`, `EndConstant`, `Emit`); then
`ToUpper` searches the ranges.

**Oleps** is package `oleps` over bytes: `MarshalHeader`, `MarshalProperty(i)`, `MarshalEnd` append and
patch; then the stream is kept, cut at any byte, or overwritten at one place; `UnmarshalHeader`,
`UnmarshalTable`, `UnmarshalProperty(i)`, `UnmarshalEnd` read it. What was decoded from an overwritten
stream goes through both once more. `DecodeText` makes U+FFFD (`Replacement`) of what is `NoCharacter` of the code page and never fails;
`Encodable` says what `Marshal` takes. `filetime` is `EncodeTime`, `DecodeTime`, `Sec`, `MaxSec`.

A definition with a comment *Mutant:* is a plausible bug in the definition below it; substituted for it, it makes the
run report a violation.

## The runs

| Run (config) | Question | Properties | States |
|---|---|---|---|
| `streams` (StreamWriter) | Two streams and a storage, concurrent, every write may fail, callers retry | `TypeOK`, `FlushMultiple`: flush only gets whole sectors; `SectorAligned`: a free lock means a sector boundary; `SectorsDisjoint`; `ImplementsByteStreams`: refinement of the abstract promise; `CallsReturn` | 67,082 |
| `fat` (ChainTable) | `computeFATCounts` on all files up to 60 sectors, then `writeChainTable` with placements of runs that begin, end and touch everywhere | `ReturnsEnough`, `NeverTooMany` (least solution), `Returns` (the loop ends), `TableAsWanted` | 129,326 |
| `writer_v3` (WriterV3) | Two streams through `Close` and `NewReader`, failures and death at each step | `RoundTrip`, `RangeReads` | 163,005 |
| `writer_v4` (WriterV4) | Three streams, a nested storage, DIFAT sectors | `RoundTrip`, `EverySectorOnce`, `LayoutFits` | 1,442,604 |
| `oleps` (Oleps) | 126 property set streams whole, cut, overwritten, and again | `RoundTrip`, `TruncationIsEOF`, `StaysInSet`, `PacketsApart`, `ResultsMarshal` | 178,442 |
| `build_stream` (BuildStream) | `walkChain` on every table of four words from every sector, and the runs of every stream in it | `TypeOK` (with the bound of the chain), `ReturnsChain`, `NoSectorTwice`, `RefusesOnlyBad`, `RunsCover`, `RunsAddress`, `BytesApart` | 1,385,354 |
| `loading` (Loading) | `NewReader` call by call on sound, cut and damaged files, any call failing | `SlicesFit`, `LoadsWhatIsThere`, `ReadsBounded`, `Returns` | 19,521 |
| `dir_walk` (DirWalk) | `walkBST` on every directory of three entries and many of four | `DepthBounded`, `AcceptsProper`, `ListsInOrder`, `Ends` | 3,004,497 |
| `add_fs` (AddFS) | Two concurrent `AddFS` with all pairs of six file systems, everything may fail | `CopiesAll`, `SealedIsWhole`, `ListedOnce`, `ListedOpens` | 16,876 |
| `names` (Names) | The table for every folding of two or three letters with every exception for them | `LooksUp` | 57,975 |
| `chain_walk_reserve` (ChainWalkReserve) | What `walkChain` reserves for each caller | `ReserveNeverPanics`: violated | |
| `add_fs_dot` (AddFSDot) | A file system with a storage named "." | `KeepsStructure`: violated | |

The first ten hold. The last two are disagreements of the code with its own documentation:

* **`chain_walk_reserve`**: `parseEntries` compares the size of streams with what the FAT can hold, but not that of the root
  entry, from which `reader.go:618` computes how long the mini-stream's chain is; `walkChain` reserves as many words
  (`reader.go:436`). In a version 4 file whose root entry has a size near 2^63, `make` panics, while `fuzz_test.go:13-14`
  asserts that the parser never does.
* **`add_fs_dot`**: `addFSDir` takes "." for the root (`writer.go:239`). A storage of that name, which `encodeName` accepts,
  in the root of the source makes it read the root again and add it inside the storage, without end, instead of
  "maintaining the directory structure" (`writer.go:218-219`). Elsewhere such names give an error.

Exceptions that the properties name, met while modelling and not reported as disagreements:

* `readSectors`, `parseHeader` and `readDIFAT` (`reader.go:354, 250, 384`) take an `io.EOF` that comes with all the data, which
  `io.ReaderAt` allows at the end of a file, for a failure; `Stream.ReadAt` (192-194) and `checkFileSize` (334) do not.
  `LoadsWhatIsThere` allows an error after one.
* A FILETIME in the last, incomplete second of its range is decoded, but the encoder, whose limit is the last whole
  second (`filetime.go:18`), refuses it; and 1601-01-01 00:00 exactly reads back as an unset time
  (`ResultsMarshal`, `SeenValue`).
* Bytes that are no character of the code page are decoded without an error, to U+FFFD (`decode.go:261`), which has no encoding
  in a page of one byte a character: `encode.go:177` refuses it ("cannot encode string"). It is enough that another word stands
  for the code page. `ResultsMarshal` says that this and the FILETIME above are the only reasons to refuse what was
  decoded, neither the header, the code page, the list nor another value being one.
* When a copy fails in `AddFS`, its stream stays open and the Writer can no longer be closed; `SealedIsWhole` says
  that this is what keeps part of a file from being served.
* `parseFolding` keeps the first code of several that fold to one. Thus the Greek letters iota and mu get the
  compatibility characters U+0345 and U+00B5 as uppercase, and their capitals are different names, as on Windows
  (`TestNameRules` compares all names of one letter).

## Bounds and abstractions

* **Cells instead of bytes.** A sector of 4 cells, a mini sector of 2 and a cutoff of 8 (version 3: two sectors;
  512/4096 in the code) or 4 (version 4: sector and cutoff equal) keep every ratio a branch depends on: a write
  can end before, at and after a mini sector, sector and cutoff boundary. `WriteSizes` hold odd sizes below and
  above a sector, and the cutoff itself; `MaxSize` lets a stream pass the cutoff and fill
  further sectors, so that chains of several runs occur.
* **Two or three streams.** Interference is through one lock and one position; two streams show every pair of
  steps, the third a mini-stream shared while another is flushed.
* **Small words.** `Words` is the number of values of a FAT word. `PerFAT = SecSize` words a sector, so that files of
  a few sectors need several FAT sectors; `InlineDIFAT` 1 or 2 (109 in the code) so that DIFAT sectors occur.
* **`ProbeThreshold`**: 0 in Writer, where the reader always probes the file size; 24 in Loading, where files on both
  sides of it occur.
* **`FileFits`**: `uint32(w.sectorIdx())` is unchecked; the properties are stated for files whose sector numbers
  fit a word.
* **`Quads`**, the number of values of a uint64, is large in Writer and Loading, whose files are of a size the tables can
  hold; the wrap of a size near 2^64, and the reserve that follows from it, are the question of ChainWalk. A `ReadAt` of the
  file itself that fails in the middle of `Stream.ReadAt`, which returns the bytes read so far with the error
  (`reader.go:198`), is left out; in Loading every call of it may fail.
* **`SizeMaxV3`** is reached in `streams`, so the refusal of oversized writes is exercised.
* **Loading**: a file with three FAT, two DIFAT and two directory sectors in three layouts (in order, reversed, mixed); it ends
  at any cell, any word of a table has another value, the header other counts and first sectors, the DIFAT is
  cyclic, and in one layout each field of a directory entry has another value. `BufMax` is two sectors, so tables take
  several batches and the last one is short. Allocation of the buffer is what `Need` says, in whole sectors.
* **ChainWalk**: four words and links to each of them, behind the table, to free sectors and to the end: all cycles, shared
  tails and lengths. Stream sizes are `0 .. Quads-1` for uint64. `MakeLimit` stands for what `make` accepts.
* **DirWalk**: two entries of every type beside the root with links everywhere, three of storage and stream type. A
  stack of calls cannot be deeper, so the walk meets every order of entering and returning. The first entry is the root, as
  `parseEntries` requires (`reader.go:525-526`).
* **AddFS**: the file systems are trees (`IsSource`) in which a path is resolved as a Reader does it, without regard to case; so
  siblings of one kind have names of different ranks in them, while a storage and a stream may share one. Names "A" and "a" that are one name, "." and ".." that no path may have, and "bb", that is listed
  before but compared after another; nested and empty storages; an empty file; files of up to three pieces copied one or
  two at a time. The metadata copied by `AddFS` is left out. `Writer.Close` comes only when no call of `AddFS` runs:
  the documentation allows concurrent creations and writes, not a concurrent close.
* **Names** of 16 codes: 0 and 1 are "A" and "a", 7 is a surrogate, and 2 to 6, 8 and 9 fold in every way, so that alternating
  runs (with codes between that are no letters), runs of one distance, and single pairs of either kind occur next to each
  other. `UpperLower`, the distance that marks an alternating range, is `NumCodes \div 4`, as in the code. Foldings
  and exceptions with a pair at that very distance are excluded (`FoldingAssumption`): Unicode has none, and the
  format of the table could not express it.
* **Names elsewhere** are integers in the order of `compareNames`; equal names collide as in `validateChildName`. Payload
  that is copied untouched (CLSID, state bits, times) is left out.
* **Failure**: a failing write takes any prefix a `bufio.Writer` may have passed on and fails for ever after, as
  `bufio.Writer` documents. There is no fsync in the code and none in the model: the crash is that of the
  process.
* **Oleps** works on real bytes with `Base = 10` values each, so 2, 4 and 8 of them hold numbers up to 10^2,
  10^4 and 10^8; sizes and offsets of the format (28, 48, 8 an entry, 4 alignment) are the code's. Lists
  have up to three properties: odd and even texts, with NUL, with a character the one-byte code page lacks,
  times at both ends. Every prefix is tried, and a word or a quad word at 22 places with 20 values.
* **Code pages.** UTF-16, a page of one byte a character in which each byte is one (as 28591), and a page with bytes that
  are none (as 874, 1253, 1255). Overwriting exchanges pages, and makes bytes that are no character, lone halves of UTF-16
  characters (`High`, `Low`) and odd lengths, all of which become U+FFFD. `golang.org/x/text` is not in the repository; it is modelled from how
  `decode.go:261` and `encode.go:177` use it, and its documentation: a decoder replaces what it cannot decode, an encoder
  fails. Pages of one or two bytes a character (932, 936, 949, 950) and UTF-8 are left out: where a character ends depends on
  its bytes there, which is the library's affair, and what is no character has the same effect for the first four as in the
  page modelled; UTF-8 encodes U+FFFD as UTF-16 does. A character of a one-byte page has the number of its
  byte, so texts are told apart as in the code within one page, and the strings given to `Marshal` are valid.

Deadlock checking is off because every system here ends: all streams written to their bound, the file closed, the
parser returned.

## Fairness

`FairSpec` of StreamWriter has weak fairness for each stream's `Advance` (a goroutine inside a call keeps running)
and strong fairness for `Acquire` (taking `w.mu`): Go's `sync.Mutex` hands the lock to a waiter that has waited for
1 ms (starvation mode), so a caller cannot be overtaken for ever; weak fairness would allow that, as the lock is
not continuously free. Nothing makes callers call: creations, new calls and failures have no fairness.
`FatCounts`, `ChainTable` and `Loading` only assume that a loop, or a call that was made, runs on. `DirWalk` needs none: `Ends` is
a measure that every step lowers. `AddFS` and `Names` state no liveness.

## The proofs

TLAPS checks them for every value of the constants that the assumptions allow (`GeometryAssumption`: a mini sector divides
a sector, a sector the cutoff; `TreeAssumption`, `CallAssumption`, `CodesAssumption` and those of the other modules, such as that the fields of a header are
32 bit numbers and a buffer holds a sector), every
number of streams, every table and directory, every interleaving and failure.

* **`Types`** (WriterProof): `Spec => []TypeOK`. Inductive as it stands; the interesting part is that the pending
  mini-stream bytes never exceed a sector, because `writeMini` takes at most what is missing, also after failures.
* **`FlushesWholeSectors`**: `[]FlushMultiple`. Not inductive alone: what `Write` hands to `flush` depends on what
  earlier calls left in `buf`. `CallInv` says, for every place a call can stand at, how `buf`, `p`, `b`, `size`
  and `chain` relate: below the cutoff all bytes are in the buffer, from the cutoff on the buffer is shorter than a
  sector, and so on.
* **`AlignedWhenFree`**: `[]SectorAligned`. `AlignInv` adds that only the holder of `w.mu` is between two writes and how
  far from the boundary it is; with `CallInv` the second write completes the sector.
* **`SectorsNeverShared`**: `[]SectorsDisjoint`. `RunInv` strengthens it with what is being recorded: the
  sector number a holder of the lock has read is the one after all recorded ones, and every recorded run ends at or
  before the current position. A step that records a run uses `AlignInv` for its position.
* **`StreamsKeepTheirCells`**: `Spec /\ []Fits => ImplementsByteStreams`, the refinement, every action of
  StreamWriter mapped to one of ByteStreams or to a stutter. The invariant says that the cells gathered from a stream's runs (in
  the file, or in the mini-stream and from there in the file), followed by those in its buffer and those that a call still
  holds, are what its Writes accepted. It stands on three lemmas: the file and the mini-stream only grow, so what a run addresses
  stays; a new run addresses exactly the cells that the flush appended; between two steps of a flush, or of `writeMini`, the
  cells written so far are known. `Fits` (`FileFits /\ MiniFits`) says that sector numbers fit a FAT word: `uint32(w.sectorIdx())`
  is not checked by the code.
* **`RoomForAll`**: `WriterSpec => []LayoutFits`, and **`EntriesAreMade`**: the walk of `assignLayout` numbers the root and whatever was
  created, each once. `TreeInv` says that the creations are counted, that siblings have different names, and that each entry lies in one that
  was created before it. So the children of a storage can be sorted (`CanSort`), and the recursion over the tree has a solution (`ListingExists`,
  by the levels of the tree from below). What it lists for a storage is everything below it and nothing twice: two children have
  nothing below them in common, as an entry of least level in both would have its parent in both (`NothingShared`).
* **`CountsTyped`, `EnoughReturned`, `LeastCounted`** (TablesProof): `computeFATCounts` returns a FAT and DIFAT that
  describe the file and themselves, and the loop never passes the least solution; this needs the monotonicity of
  ceiling division, proved as lemmas first. **`CountsKept`** carries both to the composition with `writeChainTable`.
* **`WordsAsWanted`**: `TableSpec /\ []TableFits => []TableAsWanted`, for any list of sorted, disjoint runs. The invariant is about
  the cursor: runs before it end before the words to come, so what a sector of the table leaves out nobody asks for; as the runs
  are disjoint, one at most asks for a word; as whole sectors are written, the table ends with the FAT's own words.
  `TableFits` excludes that `end := base + perWord` (`writer.go:671`) wraps around as a uint32.
* **`WalkTyped`, `ChainReturned`, `SectorsOnce`, `OnlyBadRefused`** (TablesProof): for every table, cyclic or not, `walkChain` indexes
  only inside it; what it returns is the chain the table links, of the announced length, with no sector twice; and it refuses
  only what has no such chain. That no sector comes twice is the surprising one, as the code keeps no marks: a chain that came
  to a sector again would repeat from there and never reach the end, so an end excludes it. For `OnlyBadRefused` a good chain,
  were there one, is compared with the walk sector by sector: both follow the same links.
* **`Covered`, `Addressed`**: for every chain and size the runs begin at 0, follow each other without gap, end at
  the stream's size, and each begins in the file where its sectors lie. The invariant relates the run that is being
  extended to the pieces it stands for.
* **`BytesKeptApart`**: `BuildSpec => []BytesApart`, two bytes of a stream are never read from one place. The run that an offset hits
  gives it the place its sector has (`Addressed`), a place determines sector and offset in it, a mini sector lies within one
  sector, and no sector comes twice (`SectorsOnce`), neither in the stream's chain nor in the mini-stream's. **`PartsKept`**: the
  properties of `walkChain` and of the resolvers hold in their composition.
* **`DepthIsBounded`, `LookupsAreSafe`** (DirWalkProof): for every directory the nested calls of `walkBST` stand for distinct entries
  (each but the innermost has marked its own), so there are no more of them than entries, and one; and no entry is
  looked up that is not there.
* **`WalkEnds`**: `Spec => Ends`, every step lowers the measure: the sum, over the calls, of what each may still do.
* **`AcceptsTrees`**: `[]AcceptsProper`, a directory is accepted if its links make proper trees, and only then. Each link
  is *due* (a call will follow it), *arriving* (the call on top stands for it) or has arrived; each entry that was marked is
  reached, as it is in every set that is closed under the links; a link of a tree arrives once, so no mark is met. What `Reached` computes,
  a recursion as deep as there are entries, is shown to be the least closed set by counting.
* **`ListsOrdered`**: `[]ListsInOrder`, every storage reached lists its children in the order of their tree, and nothing else is
  listed, although the lists of nested storages grow in turns. The invariant: what a storage's list holds, followed by what the
  calls on the stack will still append to it, is the in-order list of its tree. `InOrder` recurses as deep as there are
  entries, which is enough: the links of an accepted directory do not run in circles (a circle would be a set of entries that
  only its own members link to, and that the walk could not reach), so every tree has a rank below that number.
* **`SlicesFitAlways`** (LoadingProof): `[]SlicesFit`, for every header that 32 bit fields can hold, every body, and every failure of
  `ReadAt`. The buffer has the length that `BufLen` makes of a header with a FAT, at least one sector, and keeps it; a batch is
  cut from the sectors so that it has no more of them than the buffer holds, wherever a chain ends.
* **`ReadsAreBounded`**: `[]ReadsBounded`. `ReadsCounted` says how many calls each phase can have made; a run of neighbours has
  a sector at least, so a batch needs no more calls than it adds sectors; `validateHeader` bounds the DIFAT by the FAT.
* **`LoadsAsParsed`**: `[]LoadsWhatIsThere`, the refinement of `Parse`: however the sectors of the tables lie, runs join them,
  batches cut them and calls fail, `NewReader` returns what `Parse` finds in the file, and errs only where `Parse` does or a
  call did. The invariant `Faithful` says of each phase what it owes: the DIFAT is `left` turns before what `ReadDIFAT` finds
  (`OnWay`), and whatever spoils it on the way spoils the end; the buffer holds, cell by cell, the sectors of the batch
  read so far, and all of them lie in the file (`BatchHeld`); the table holds the words, or the entries, of the batches before
  (`HasWords`, `HasEntries`). A run of neighbours is one piece of the file (`RunFills`); if it does not fit, its last sector
  is missing, and `readSectors` of the whole table fails, too (`RunMissing`); an entry refused in a batch is refused
  in the whole directory (`EntriesRefused`). It needs of the probe that the cell it asks for is the last one declared.
* **`TableIsRight`** (NamesProof): for any number of codes, and every map of lowercase to uppercase that is `Clean` (no uppercase
  code has one of its own, none at the distance that marks a range, and the shortcuts of `toUpper` agree with it),
  `toUpper` answers what the map says, for all codes. `NamesInv` has three parts: the pairs are all of the map, in
  order (`PairsSound`); the run from `i` to `j` is of one kind, and has not wrapped around 2^16 (`RunSound`); the ranges so
  far lie apart, end with a pair, cover every pair before `i` and answer rightly within (`RangesSound`). That ranges stay
  apart is why `Clean` is needed: an alternating range begins at an uppercase code, in front of its first pair.

* **`AddFSTypes`** (AddFSProof): `AddFSSpec => []AddFSTypeOK`, for any number of callers, file systems, names and failures; the
  tree that the callers build together stays a tree. This needs `Built`: siblings have different names, every frame of `stack` adds
  entries of one storage of the source to a storage that is there, every copy goes to a stream that is there.
* **`SealedWhole`**: `[]SealedIsWhole`, and **`StructureKept`**: `[]KeepsStructure`. `AllMaking` relates each entry of the tree to the one
  of the source that it was made from: they have the same path and kind, a stream being copied has a beginning of its file,
  a closed one all of it, and each frame joins the storages of one path. What `Open` answers for that path is the heart of it:
  a storage is found again under the path it was listed under (`SourceDir`), and a file that is opened is the one listed (`SourcePaths`),
  as siblings of one kind differ by rank, while a storage may get in the way of a file of the same rank: then the copy fails.
* **`AddFSCopiesAll`**: `[]CopiesAll`. `AllReaching` is the other direction: as long as a call has not failed, each entry of the
  source whose storage it has added is added or left to a frame (`Progress`), and no stream but the one it copies is open. A call that
  returns nil has no frame left, so all storages, from the root down, have all of their entries added. What other callers do
  changes neither invariant (`Ours`).
* **`HandlesListOnce`**: `[]ListedOnce`, and **`ListedPathsOpen`**: `[]ListedOpens`. `ViewOK` says that what is served is a tree with siblings of different
  names, and that a handle has given what precedes its position. Sorting keeps the tree; a path is followed from storage to storage,
  and at each one name fits, whatever its case.

* **`StaysWithinSet`** (OlepsProof): `[]StaysInSet`, **`ValuesApart`**: `[]PacketsApart`, and **`ResultsMarshalled`**: `[]ResultsMarshal`, for every list
  of properties handed to `Marshal`, every table and every damage to the stream. The invariant `OlepsInv` says what has been
  established when a step runs: what the checks of the header and of the size leave (`Decoding`: a set of the announced size
  whose table ends within it, every entry of which has passed), and that each value decoded so far is one that `Marshal` takes,
  a time in the last second that a FILETIME reaches, or a text with U+FFFD in a page of one byte a character (`Sound`). What makes
  a text one that UTF-16 takes is that replacing lone halves leaves none (`NoLoneLeft`). The checks compare an offset only with the next one; that no two values overlap follows from the place behind which the
  least offset must lie and an induction along the table (`PacketsOrdered`). A number that is missing bytes in the stream reads as if
  they were zeros in the model; the proof shows that no check passes because of it.
* **`ReadsBack`**: `Spec /\ []Fits => []RoundTrip`, and **`CutStreamIsEOF`**: `Spec /\ []Fits => []TruncationIsEOF`. Both follow from `ReadInv`
  (**`ReadInvariant`**), which adds what is left of the stream: one that nobody touched is what `Marshal` wrote and is read
  value by value as it was encoded (`Intact`); one that was cut is a prefix of such a stream (`Shortened`). The encoder's half of it says
  where every field lies (`Laid`): a patch of the table or of the size touches nothing but its own bytes (`Kept`), and what is
  appended lies behind everything before. The decoder's half is that each number, text and time reads as it was written
  (`NumReads`, `TextReads`, `TimeReads`), that the table leads to the values, and that the code page is found where the encoder found it
  (`SameIndex`). For a prefix, the field that is missing is always met before the checks say anything else than
  `io.ErrUnexpectedEOF`: in the header in the order of the checks (`HeaderReads`), behind it because the size announced is that of the whole set
  (`CutIsEOF`). `Fits` says that the set is shorter than 2^32 bytes: the encoder casts offsets and size to a uint32 without a
  check (`encode.go:124`, `142`), so a larger one is written with wrong offsets.

The hypothesis `NoDotInRoot` of `SealedWhole`, `StructureKept` and `AddFSCopiesAll` excludes file systems with a storage named "." in the root: the
run `add_fs_dot` shows that `KeepsStructure` fails for one. It is no assumption on the constants, as that run has such a file system.

Each induction is laid out as `Init => Inv`, one step for every action of `Next`, and a final temporal step. The library's
induction theorems take an operator as a parameter, which the provers cannot instantiate. `Least` (SequenceLemmas) takes their
place: a set of natural numbers that is not empty has a least one, so a claim that fails for some number has a least
counterexample. With it the proofs get at recursive *functions*: `FlattenSeq`, `Listed`, `ReadDIFAT`, `Reached`, the measure of `Ends`, the powers of a
byte's values and the integers that bytes make (`Power`, `UInt`).

<a name="limits"></a>
## What is only checked, and what is not modelled

Only model-checked: liveness (`CallsReturn`, `Returns`) and anything about `ENABLED`, which the prover does not handle;
`RoundTrip`, `RangeReads`, `EverySectorOnce` of Writer, which relate the serializer to the whole reader;
that the map which Unicode and MS-CFB give is `Clean`, which is a fact about data and in the
model follows from `FoldingAssumption`; and that sector numbers fit a word (`Fits`, `TableFits`), and that a property set's
size does (`Fits` of OlepsProof), which the code does not check and some theorems have as hypotheses.

Not modelled:

* `encodeName`, which checks a string and keeps no state, and `compareNames` as an order of strings: the models use an order.
* `Stat` and the `Read` of file handles (`io.SectionReader` over `ReadAt`), `OpenReader`, `Reader.Close`: no state of their own.
* Code page tables, the birth time of files, `guid`: stateless, or one field of a system structure.
* `structuredstorage` (Windows bindings), the test helpers and the generators of test data: not part of the library.

## Plan

1. **Proofs**: `EverySectorOnce` of Writer for every file, with the serializer's sectors related to the counts
   that TablesProof has shown to be the least.
2. **Names**: `compareNames` over sequences of code units as a total order that agrees with the duplicate check.
3. **Composition**: `AddFS` over StreamWriter instead of ByteStreams, so that a copy fails in the middle of a flush.
