----------------------------- MODULE MCLoading -----------------------------
(* Instances of Loading for TLC: a file with three FAT sectors, two DIFAT   *)
(* sectors, two directory sectors, a mini FAT, a mini-stream and a regular  *)
(* stream of two sectors, laid out in several orders and then damaged.      *)
EXTENDS Loading

\* What a sector is for: FAT, DIFAT, directory, mini FAT, mini-stream, stream.
Chains == <<<<"D1", "D2">>, <<"M1">>, <<"S1">>, <<"R1", "R2">>>>

Orders ==
    {<<"F1", "F2", "F3", "X1", "X2", "D1", "D2", "M1", "S1", "R1", "R2">>,
     <<"R2", "R1", "S1", "M1", "D2", "D1", "X2", "X1", "F3", "F2", "F1">>,
     <<"D1", "F1", "R2", "F2", "F3", "X2", "D2", "S1", "X1", "M1", "R1">>}

\* The number of the sector for role r.
At(order, r) == (CHOOSE n \in DOMAIN order : order[n] = r) - 1

NextOf(order, r) ==
    LET links == {<<c[n], c[n + 1]>> : <<c, n>> \in
                    {p \in Range(Chains) \X (1 .. 1) : p[2] < Len(p[1])}}
    IN  IF \E l \in links : l[1] = r THEN At(order, (CHOOSE l \in links : l[1] = r)[2])
        ELSE EndOfChain

LinkWord(order, n) ==
    IF n > Len(order) THEN FreeSect
    ELSE CASE order[n] \in {"F1", "F2", "F3"} -> FatSect
           [] order[n] \in {"X1", "X2"}       -> DifSect
           [] OTHER                           -> NextOf(order, order[n])

WordCells(words) == [n \in DOMAIN words |-> WordCell(words[n])]
FATCells(order, k) == WordCells([n \in 1 .. 4 |-> LinkWord(order, 4 * (k - 1) + n)])

Dirent(type, name, left_, right, child, start, size) ==
    <<DirentCell([objectType |-> type, name |-> name, leftSib |-> left_, rightSib |-> right,
                  childID |-> child, startSector |-> start, streamSize |-> size]), WordCell(0)>>

CellsOf(order, r) ==
    CASE r = "F1" -> FATCells(order, 1)
      [] r = "F2" -> FATCells(order, 2)
      [] r = "F3" -> FATCells(order, 3)
      [] r = "X1" -> WordCells(<<At(order, "F2"), FreeSect, FreeSect, At(order, "X2")>>)
      [] r = "X2" -> WordCells(<<FreeSect, At(order, "F3"), FreeSect, EndOfChain>>)
      [] r = "D1" -> Dirent(RootType, 0, NoStream, NoStream, 1, At(order, "S1"), 4)
                     \o Dirent(StreamType, 1, NoStream, 2, NoStream, 0, 3)
      [] r = "D2" -> Dirent(StreamType, 2, NoStream, NoStream, NoStream, At(order, "R1"), 8)
                     \o Dirent(Unallocated, 0, NoStream, NoStream, NoStream, 0, 0)
      [] r = "M1" -> WordCells(<<1, EndOfChain, FreeSect, FreeSect>>)
      [] r = "S1" -> DataCells("mini", 1, 4)
      [] r = "R1" -> DataCells("stream", 1, 4)
      [] r = "R2" -> DataCells("stream", 5, 8)

Sound(order) ==
    [header |-> [numDir |-> IF V3 THEN 0 ELSE 2, numFAT |-> 3, firstDir |-> At(order, "D1"),
                 firstMiniFAT |-> At(order, "M1"), numMiniFAT |-> 1,
                 firstDIFAT |-> At(order, "X1"), numDIFAT |-> 2, difat |-> <<At(order, "F1")>>],
     body |-> FlattenSeq([n \in DOMAIN order |-> CellsOf(order, order[n])])]

SoundFiles == {Sound(order) : order \in Orders}

\* The file ends early, anywhere.
Shortened(f) == {[f EXCEPT !.body = Take(@, n)] : n \in 0 .. Len(f.body) - 1}

\* A word of a table, or a stream that is read as one, has another value.
Overwritten(f) ==
    {[f EXCEPT !.body[n] = WordCell(w)] :
        n \in {m \in DOMAIN f.body : f.body[m].k = "word"},
        w \in {0, 5, 11, MaxRegSect + 1, EndOfChain, FreeSect}}

\* A field of a directory entry has another value.
OtherEntry(f) ==
    {[f EXCEPT !.body[n].v[k] = w] :
        n \in {m \in DOMAIN f.body : f.body[m].k = "dirent"},
        k \in {1, 3, 4, 5, 6, 7},
        w \in {0, 1, 2, 3, 4, 5, 7, 10, 40, 60, EndOfChain, NoStream}}

\* The header has other counts or begins other chains.
OtherHeader(f) ==
    {[f EXCEPT !.header.numFAT = n] : n \in {0, 2, 4}}
    \cup {[f EXCEPT !.header.numDIFAT = n] : n \in {0, 1, 3, 9}}
    \cup {[f EXCEPT !.header.firstDIFAT = n] : n \in {0, 11, EndOfChain}}
    \cup {[f EXCEPT !.header.numDir = n] : n \in {0, 1, 3, 40}}
    \cup {[f EXCEPT !.header.numMiniFAT = n] : n \in {0, 2, 40}}
    \cup {[f EXCEPT !.header.numMiniFAT = 0, !.header.firstMiniFAT = EndOfChain,
                    !.header.numDir = n] : n \in {0, f.header.numDir}}
    \cup {[f EXCEPT !.header.difat = <<w>>] : w \in {11, MaxRegSect + 1, FreeSect}}

\* A chain of DIFAT sectors that leads back, and a count of them to match.
Cyclic(f) ==
    LET x == f.header.firstDIFAT IN
    {[f EXCEPT !.header.numDIFAT = n, !.body[SecSize * (x + 1)] = WordCell(x)] : n \in {2, 30}}

DamagedFiles ==
    UNION {{f} \cup Shortened(f) \cup Overwritten(f) \cup OtherHeader(f) \cup Cyclic(f) : f \in SoundFiles}
    \cup OtherEntry(CHOOSE f \in SoundFiles : TRUE)
=============================================================================
