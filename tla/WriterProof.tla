----------------------------- MODULE WriterProof -----------------------------
(***************************************************************************)
(* Proofs about StreamWriter and Writer, for all sizes, streams and trees. *)
(*                                                                         *)
(* Four invariants, each proved with the help of those before it:          *)
(*   TypeOK     types                                                      *)
(*   CallInv    what a call knows at each of its steps: who holds w.mu, how *)
(*              much is buffered, how much flush was handed                *)
(*   AlignInv   where w.cw stands relative to sector boundaries            *)
(*   RunInv     where the recorded runs lie relative to w.cw               *)
(* FlushMultiple, SectorAligned and SectorsDisjoint follow.                *)
(*                                                                         *)
(* The second part is the refinement: StreamWriter implements ByteStreams. *)
(* Its bulk is an invariant: what the runs of a stream address in the file *)
(* or in the mini-stream, followed by what its buffer holds, is what its   *)
(* Writes accepted. It stands on three things: the file and the            *)
(* mini-stream only grow, a new run addresses exactly the cells the flush  *)
(* appended, and between the steps of a flush or of writeMini the cells    *)
(* written so far are known.                                               *)
(*                                                                         *)
(* The third part is about Writer: the walk of assignLayout numbers every  *)
(* entry once, and makes LayoutFits of the count of the creations. Its     *)
(* invariant, TreeInv, is that siblings have different names and that each *)
(* entry lies in one made before it; with it the recursion of Entries is   *)
(* shown to have a solution, and what the solution lists.                  *)
(***************************************************************************)
EXTENDS Writer, SequenceLemmas, FiniteSetTheorems, TLAPS

Locked(s)   == pc[s] \in {"flushbuf", "flushdata", "drain"}
Flushing(s) == pc[s] \in {"flushbuf", "flushdata"}

-----------------------------------------------------------------------------
(* Lemmas on the operators of Geometry and StreamWriter                     *)

\* What Take and Drop return.
LEMMA TakeLength ==
    ASSUME NEW S, NEW q \in Seq(S), NEW n \in 0 .. Len(q)
    PROVE  Take(q, n) \in Seq(S) /\ Len(Take(q, n)) = n
  BY DEF Take

LEMMA DropLength ==
    ASSUME NEW S, NEW q \in Seq(S), NEW n \in 0 .. Len(q)
    PROVE  Drop(q, n) \in Seq(S) /\ Len(Drop(q, n)) = Len(q) - n
  BY DEF Drop

\* Take never leaves the type, whatever it is asked for up to the length.
LEMMA TakeType ==
    ASSUME NEW S, NEW q \in Seq(S), NEW n \in Int, n <= Len(q)
    PROVE  Take(q, n) \in Seq(S)
  BY DEF Take

LEMMA ConcatLength ==
    ASSUME NEW S, NEW q \in Seq(S), NEW r \in Seq(S)
    PROVE  q \o r \in Seq(S) /\ Len(q \o r) = Len(q) + Len(r)
  OBVIOUS

LEMMA ZerosLength ==
    ASSUME NEW n \in Nat
    PROVE  Zeros(n) \in Seq(Cells) /\ Len(Zeros(n)) = n
  <1>1. WordCell(0) \in Cells
    BY DEF WordCell, Cells
  <1>2. QED
    BY <1>1 DEF Zeros

LEMMA DataLength ==
    ASSUME NEW s \in Streams, NEW i \in Nat, NEW n \in Nat
    PROVE  /\ DataCells(s, i + 1, i + n) \in Seq(Cells)
           /\ Len(DataCells(s, i + 1, i + n)) = n
  <1>1. \A k \in Nat : DataCell(s, k) \in Cells
    BY DEF DataCell, Cells
  <1>2. DataCells(s, i + 1, i + n) = [k \in 1 .. n |-> DataCell(s, i + k)]
    BY DEF DataCells
  <1>3. QED
    BY <1>1, <1>2

\* Division by a size.
LEMMA DivType ==
    ASSUME NEW n \in Nat, NEW d \in Nat \ {0}
    PROVE  n \div d \in Nat
  OBVIOUS

LEMMA SectorIdxType ==
    ASSUME TypeOK
    PROVE  SectorIdx \in Nat
  <1>1. Len(out) \in Nat
    BY DEF TypeOK, SharedType
  <1>2. QED
    BY <1>1, DivType, GeometryAssumption DEF SectorIdx

\* uint32 conversion.
LEMMA U32Type ==
    ASSUME NEW n \in Nat
    PROVE  /\ U32(n) \in Words32
           /\ n < Words => U32(n) = n
  BY GeometryAssumption DEF U32, Words32

\* What a write to w.cw, successful or not, leaves in out.
LEMMA PutType ==
    ASSUME TypeOK, NEW x \in Seq(Cells), Put(x) \/ PutFails(x)
    PROVE  out' \in Seq(Cells) /\ err' \in BOOLEAN
  <1>1. CASE Put(x)
    BY <1>1 DEF Put, TypeOK, SharedType
  <1>2. CASE PutFails(x)
    <2>1. \A k \in 0 .. Len(x) : Take(x, k) \in Seq(Cells)
      BY TakeLength
    <2>2. CASE \E k \in 0 .. Len(x) : out' = out \o Take(x, k)
      <3>1. PICK k \in 0 .. Len(x) : out' = out \o Take(x, k)
        BY <2>2
      <3>2. out \in Seq(Cells) /\ Take(x, k) \in Seq(Cells)
        BY <2>1 DEF TypeOK, SharedType
      <3>3. out' \in Seq(Cells)
        BY <3>1, <3>2, ConcatLength
      <3>4. err' \in BOOLEAN
        BY <1>2 DEF PutFails, TypeOK, SharedType
      <3>5. QED
        BY <3>3, <3>4
    <2>3. CASE UNCHANGED <<out, err>>
      BY <2>3 DEF TypeOK, SharedType
    <2>4. QED
      BY <1>2, <2>2, <2>3 DEF PutFails
  <1>3. QED
    BY <1>1, <1>2

\* The runs of a stream.
Runs == [first : Words32, count : Words32]

LEMMA AddRunType ==
    ASSUME NEW ch \in Seq(Runs), NEW f \in Words32, NEW n \in Nat
    PROVE  AddRun(ch, f, U32(n)) \in Seq(Runs)
  <1>1. U32(n) \in Words32
    BY U32Type
  <1>2. ASSUME ch # <<>>
        PROVE  [first |-> ch[Len(ch)].first, count |-> U32(ch[Len(ch)].count + U32(n))] \in Runs
    <2>1. ch[Len(ch)] \in Runs
      BY <1>2
    <2>2. ch[Len(ch)].count + U32(n) \in Nat
      BY <2>1, <1>1, GeometryAssumption DEF Runs, Words32
    <2>3. QED
      BY <2>1, <2>2, U32Type DEF Runs
  <1>3. [first |-> f, count |-> U32(n)] \in Runs
    BY <1>1 DEF Runs
  <1>4. QED
    BY <1>2, <1>3 DEF AddRun

\* Padding to a multiple of n.
LEMMA PaddingType ==
    ASSUME NEW x \in Seq(Cells), NEW n \in Nat \ {0}
    PROVE  Padding(x, n) \in Seq(Cells)
  <1>1. CASE Len(x) % n = 0
    BY <1>1 DEF Padding
  <1>2. CASE Len(x) % n # 0
    <2>1. n - (Len(x) % n) \in Nat
      OBVIOUS
    <2>2. QED
      BY <1>2, <2>1, ZerosLength DEF Padding
  <1>3. QED
    BY <1>1, <1>2

LEMMA PadToType ==
    ASSUME NEW x \in Seq(Cells), NEW n \in Nat \ {0}
    PROVE  PadTo(x, n) \in Seq(Cells)
  BY PaddingType DEF PadTo

\* One iteration of writeMini.
LEMMA MiniStep ==
    ASSUME TypeOK, NEW x \in Seq(Cells)
    PROVE  /\ MiniTake(x) \in 0 .. Len(x)
           /\ MiniFilled(x) \in Seq(Cells)
           /\ Len(MiniFilled(x)) = Len(miniBuf) + MiniTake(x)
           /\ Len(MiniFilled(x)) <= SecSize
           /\ Drop(x, MiniTake(x)) \in Seq(Cells)
  <1>1. MiniTake(x) \in 0 .. Len(x) /\ MiniTake(x) <= SecSize - Len(miniBuf)
    BY GeometryAssumption DEF MiniTake, TypeOK, SharedType
  <1>2. Take(x, MiniTake(x)) \in Seq(Cells) /\ Len(Take(x, MiniTake(x))) = MiniTake(x)
    BY <1>1, TakeLength
  <1>3. MiniFilled(x) \in Seq(Cells) /\ Len(MiniFilled(x)) = Len(miniBuf) + MiniTake(x)
    BY <1>2, ConcatLength DEF MiniFilled, TypeOK, SharedType
  <1>4. QED
    BY <1>1, <1>3, DropLength, GeometryAssumption DEF TypeOK, SharedType

-----------------------------------------------------------------------------
(* Types                                                                    *)

LEMMA TypeInit == Init => TypeOK
  <1> SUFFICES ASSUME Init PROVE TypeOK
    OBVIOUS
  <1>1. mu \in Streams \cup {NoOne, Closer} /\ descendants \in Nat
    BY DEF Init
  <1>2. /\ out \in Seq(Cells)
        /\ miniBuf \in Seq(Cells) /\ Len(miniBuf) <= SecSize
        /\ miniSecs \in Seq(Words32)
    BY GeometryAssumption DEF Init
  <1>3. err \in BOOLEAN /\ wclosed \in BOOLEAN /\ closed \in [Streams -> BOOLEAN]
    BY DEF Init
  <1>4. /\ buf \in [Streams -> Seq(Cells)]
        /\ chain \in [Streams -> Seq([first : Words32, count : Words32])]
        /\ pc \in [Streams -> {"idle", "write", "close", "flushbuf", "flushdata", "drain"}]
        /\ p \in [Streams -> Seq(Cells)]
        /\ b \in [Streams -> Seq(Cells)]
    BY DEF Init
  <1>5. /\ size \in [Streams -> Nat]
        /\ first \in [Streams -> Words32]
        /\ made \in SUBSET (Streams \cup Storages)
    BY GeometryAssumption DEF Init, Words32
  <1>6. QED
    BY <1>1, <1>2, <1>3, <1>4, <1>5 DEF TypeOK, SharedType, FieldsType, LocalsType

\* What leaves a group of variables alone keeps its types.
LEMMA TypeKept ==
    ASSUME TypeOK
    PROVE  /\ UNCHANGED shared => SharedType'
           /\ UNCHANGED fields => FieldsType'
           /\ UNCHANGED locals => LocalsType'
  <1>1. UNCHANGED shared => SharedType'
    BY DEF shared, TypeOK, SharedType
  <1>2. UNCHANGED fields => FieldsType'
    BY DEF fields, TypeOK, FieldsType
  <1>3. UNCHANGED locals => LocalsType'
    BY DEF locals, TypeOK, LocalsType
  <1>4. QED
    BY <1>1, <1>2, <1>3

LEMMA TypeNext == TypeOK /\ [Next]_vars => TypeOK'
  <1> SUFFICES ASSUME TypeOK, [Next]_vars PROVE TypeOK'
    OBVIOUS
  <1> USE DEF TypeOK
  <1>1. ASSUME NEW n \in Streams \cup Storages, Create(n) PROVE TypeOK'
    <2>1. SharedType'
      BY <1>1 DEF Create, CountEntry, SharedType
    <2>2. QED
      BY <1>1, <2>1, TypeKept DEF Create, CountEntry
  <1>2. ASSUME NEW s \in Streams, CloseStream(s) PROVE TypeOK'
    <2>1. LocalsType'
      BY <1>2 DEF CloseStream, LocalsType
    <2>2. QED
      BY <1>2, <2>1, TypeKept DEF CloseStream
  <1>3. ASSUME NEW s \in Streams, NEW n \in WriteSizes, Write(s, n) PROVE TypeOK'
    <2>1. DataCells(s, size[s] + 1, size[s] + n) \in Seq(Cells)
      BY DataLength, CallAssumption DEF FieldsType
    <2>2. LocalsType'
      BY <1>3, <2>1 DEF Write, LocalsType
    <2>3. QED
      BY <1>3, <2>2, TypeKept DEF Write
  <1>4. ASSUME NEW s \in Streams, KeepRest(s) PROVE TypeOK'
    <2>1. LocalsType'
      BY <1>4 DEF KeepRest, Return, LocalsType
    <2>2. buf[s] \o p[s] \in Seq(Cells) /\ size[s] + Len(p[s]) \in Nat
      BY ConcatLength DEF FieldsType, LocalsType
    <2>3. FieldsType'
      BY <1>4, <2>2 DEF KeepRest, FieldsType
    <2>4. QED
      BY <1>4, <2>1, <2>3, TypeKept DEF KeepRest
  <1>5. ASSUME NEW s \in Streams, NEW x \in Seq(Cells), Flush(s, x) PROVE TypeOK'
    <2>1. U32(SectorIdx) \in Words32
      BY SectorIdxType, U32Type
    <2>2. LocalsType'
      BY <1>5, <2>1 DEF Flush, LocalsType
    <2>3. SharedType'
      BY <1>5 DEF Flush, Lock, SharedType
    <2>4. QED
      BY <1>5, <2>2, <2>3, TypeKept DEF Flush
  <1>6. ASSUME NEW s \in Streams, WriteFlush(s) PROVE TypeOK'
    <2>1. Room(s) \in Int
      <3>1. Len(p[s]) \in Nat /\ Len(buf[s]) \in Nat /\ size[s] \in Nat
        BY DEF LocalsType, FieldsType
      <3>2. Len(p[s]) \div SecSize \in Nat
        BY <3>1, DivType, GeometryAssumption
      <3>3. QED
        BY <3>1, <3>2, GeometryAssumption DEF Room
    <2>2. Take(p[s], Room(s)) \in Seq(Cells)
      <3>1. p[s] \in Seq(Cells) /\ Room(s) <= Len(p[s])
        BY <1>6, <2>1 DEF WriteFlush, Buffers, LocalsType
      <3>2. QED
        BY <2>1, <3>1, TakeType
    <2>3. QED
      BY <1>6, <1>5, <2>2 DEF WriteFlush
  <1>7. ASSUME NEW s \in Streams, FlushBuf(s) PROVE TypeOK'
    <2>1. out' \in Seq(Cells) /\ err' \in BOOLEAN
      BY <1>7, PutType DEF FlushBuf, FieldsType
    <2>2. SharedType'
      BY <1>7, <2>1 DEF FlushBuf, SharedType
    <2>3. LocalsType'
      BY <1>7 DEF FlushBuf, LocalsType
    <2>4. QED
      BY <1>7, <2>2, <2>3, TypeKept DEF FlushBuf
  <1>8. ASSUME NEW s \in Streams, FlushRest(s)
        PROVE  /\ SharedType'
               /\ chain' \in [Streams -> Seq(Runs)]
               /\ buf' \in [Streams -> Seq(Cells)]
               /\ b' \in [Streams -> Seq(Cells)]
    <2>1. out' \in Seq(Cells) /\ err' \in BOOLEAN
      BY <1>8, PutType DEF FlushRest, LocalsType
    <2>2. SharedType'
      BY <1>8, <2>1 DEF FlushRest, Unlock, SharedType
    <2>3. (Len(buf[s]) + Len(b[s])) \div SecSize \in Nat
      <3>1. Len(buf[s]) + Len(b[s]) \in Nat
        BY DEF FieldsType, LocalsType
      <3>2. QED
        BY <3>1, DivType, GeometryAssumption
    <2>4. AddRun(chain[s], first[s], U32((Len(buf[s]) + Len(b[s])) \div SecSize)) \in Seq(Runs)
      BY <2>3, AddRunType DEF Runs, FieldsType, LocalsType
    <2>5. chain' \in [Streams -> Seq(Runs)]
      BY <1>8, <2>4 DEF FlushRest, Runs, FieldsType
    <2>6. QED
      BY <1>8, <2>2, <2>5 DEF FlushRest, FieldsType, LocalsType
  <1>9. ASSUME NEW s \in Streams, FlushInWrite(s) PROVE TypeOK'
    <2>1. Drop(p[s], Len(b[s])) \in Seq(Cells)
      BY DEF Drop, LocalsType
    <2>2. FlushRest(s)
      BY <1>9 DEF FlushInWrite
    <2>3. size[s] + Len(b[s]) \in Nat
      BY DEF FieldsType, LocalsType
    <2>4. FieldsType'
      BY <1>8, <1>9, <2>2, <2>3 DEF FlushInWrite, FieldsType, Runs
    <2>5. first' = first
      BY <2>2 DEF FlushRest
    <2>6. LocalsType'
      BY <1>8, <1>9, <2>1, <2>2, <2>5 DEF FlushInWrite, Return, LocalsType
    <2>7. QED
      BY <1>8, <2>2, <2>4, <2>6
  <1>10. ASSUME NEW s \in Streams, FlushInClose(s) PROVE TypeOK'
    <2>1. FlushRest(s)
      BY <1>10 DEF FlushInClose
    <2>2. FieldsType'
      BY <1>8, <1>10, <2>1 DEF FlushInClose, FieldsType, Runs
    <2>3. first' = first
      BY <2>1 DEF FlushRest
    <2>4. LocalsType'
      BY <1>8, <1>10, <2>1, <2>3 DEF FlushInClose, Return, LocalsType
    <2>5. QED
      BY <1>8, <2>1, <2>2, <2>4
  <1>11. ASSUME NEW s \in Streams, FlushFails(s) PROVE TypeOK'
    <2>1. out' \in Seq(Cells) /\ err' \in BOOLEAN
      BY <1>11, PutType DEF FlushFails, FieldsType, LocalsType
    <2>2. SharedType'
      BY <1>11, <2>1 DEF FlushFails, Unlock, SharedType
    <2>3. LocalsType'
      BY <1>11 DEF FlushFails, Return, LocalsType
    <2>4. QED
      BY <1>11, <2>2, <2>3, TypeKept DEF FlushFails
  <1>12. ASSUME NEW s \in Streams, CloseNow(s) PROVE TypeOK'
    <2>1. LocalsType'
      BY <1>12 DEF CloseNow, Return, LocalsType
    <2>2. FieldsType'
      BY <1>12 DEF CloseNow, FieldsType
    <2>3. QED
      BY <1>12, <2>1, <2>2, TypeKept DEF CloseNow
  <1>13. ASSUME NEW s \in Streams, ClosePadded(s) PROVE TypeOK'
    <2>1. Padding(buf[s], SecSize) \in Seq(Cells)
      BY PaddingType, GeometryAssumption DEF FieldsType
    <2>2. QED
      BY <1>5, <1>13, <2>1 DEF ClosePadded
  <1>14. ASSUME NEW s \in Streams, CloseMini(s) PROVE TypeOK'
    <2>1. PadTo(buf[s], MiniSize) \in Seq(Cells)
      BY PadToType, GeometryAssumption DEF FieldsType
    <2>2. (Len(miniSecs) * SecSize + Len(miniBuf)) \div MiniSize \in Nat
      <3>1. Len(miniSecs) \in Nat /\ Len(miniBuf) \in Nat
        BY DEF SharedType
      <3>2. Len(miniSecs) * SecSize + Len(miniBuf) \in Nat
        BY <3>1, GeometryAssumption
      <3>3. QED
        BY <3>2, DivType, GeometryAssumption
    <2>3. U32((Len(miniSecs) * SecSize + Len(miniBuf)) \div MiniSize) \in Words32
      BY <2>2, U32Type
    <2>4. LocalsType'
      BY <1>14, <2>1, <2>3 DEF CloseMini, LocalsType
    <2>5. SharedType'
      BY <1>14 DEF CloseMini, Lock, SharedType
    <2>6. QED
      BY <1>14, <2>4, <2>5, TypeKept DEF CloseMini
  <1>15. ASSUME NEW s \in Streams, WriteMini(b[s]) \/ WriteMiniFails(b[s])
         PROVE  /\ out' \in Seq(Cells) /\ err' \in BOOLEAN
                /\ miniBuf' \in Seq(Cells) /\ Len(miniBuf') <= SecSize
                /\ miniSecs' \in Seq(Words32)
    <2>1. U32(SectorIdx) \in Words32
      BY SectorIdxType, U32Type
    <2>2. b[s] \in Seq(Cells)
      BY DEF LocalsType
    <2>3. MiniFilled(b[s]) \in Seq(Cells) /\ Len(MiniFilled(b[s])) <= SecSize
      BY <2>2, MiniStep
    <2>4. CASE WriteMini(b[s]) /\ Len(MiniFilled(b[s])) = SecSize
      <3>1. Put(MiniFilled(b[s])) /\ miniBuf' = <<>> /\ miniSecs' = Append(miniSecs, U32(SectorIdx))
        BY <2>4 DEF WriteMini
      <3>2. out' \in Seq(Cells) /\ err' \in BOOLEAN
        BY <2>3, <3>1, PutType
      <3>3. QED
        BY <2>1, <3>1, <3>2, GeometryAssumption DEF SharedType
    <2>5. CASE WriteMini(b[s]) /\ Len(MiniFilled(b[s])) # SecSize
      BY <2>3, <2>5 DEF WriteMini, SharedType
    <2>6. CASE WriteMiniFails(b[s])
      <3>1. PutFails(MiniFilled(b[s])) /\ miniBuf' = MiniFilled(b[s]) /\ miniSecs' = miniSecs
        BY <2>6 DEF WriteMiniFails
      <3>2. out' \in Seq(Cells) /\ err' \in BOOLEAN
        BY <2>3, <3>1, PutType
      <3>3. QED
        BY <2>3, <3>1, <3>2 DEF SharedType
    <2>7. QED
      BY <1>15, <2>4, <2>5, <2>6
  <1>16. ASSUME NEW s \in Streams, Drain(s) PROVE TypeOK'
    <2>1. Drop(b[s], MiniTake(b[s])) \in Seq(Cells)
      BY MiniStep DEF LocalsType
    <2>2. LocalsType'
      BY <1>16, <2>1 DEF Drain, LocalsType
    <2>3. SharedType'
      BY <1>15, <1>16 DEF Drain, SharedType
    <2>4. QED
      BY <1>16, <2>2, <2>3, TypeKept DEF Drain
  <1>17. ASSUME NEW s \in Streams, DrainLast(s) PROVE TypeOK'
    <2>1. Len(PadTo(buf[s], MiniSize)) \div MiniSize \in Nat
      <3>1. PadTo(buf[s], MiniSize) \in Seq(Cells)
        BY PadToType, GeometryAssumption DEF FieldsType
      <3>2. Len(PadTo(buf[s], MiniSize)) \in Nat
        BY <3>1
      <3>3. QED
        BY <3>2, DivType, GeometryAssumption
    <2>2. U32(Len(PadTo(buf[s], MiniSize)) \div MiniSize) \in Words32
      BY <2>1, U32Type
    <2>3. [first |-> first[s], count |-> U32(Len(PadTo(buf[s], MiniSize)) \div MiniSize)] \in Runs
      BY <2>2 DEF Runs, LocalsType
    <2>4. <<[first |-> first[s], count |-> U32(Len(PadTo(buf[s], MiniSize)) \div MiniSize)]>>
             \in Seq([first : Words32, count : Words32])
      BY <2>3 DEF Runs
    <2>5. PICK r \in Seq([first : Words32, count : Words32]) : chain' = [chain EXCEPT ![s] = r]
      BY <1>17, <2>4 DEF DrainLast
    <2>6. FieldsType'
      <3>1. /\ buf' = [buf EXCEPT ![s] = <<>>]
            /\ closed' = [closed EXCEPT ![s] = TRUE]
            /\ size' = size
        BY <1>17 DEF DrainLast
      <3>2. buf' \in [Streams -> Seq(Cells)]
        BY <3>1 DEF FieldsType
      <3>3. chain' \in [Streams -> Seq([first : Words32, count : Words32])]
        BY <2>5 DEF FieldsType
      <3>4. size' \in [Streams -> Nat] /\ closed' \in [Streams -> BOOLEAN]
        BY <3>1 DEF FieldsType
      <3>5. QED
        BY <3>2, <3>3, <3>4 DEF FieldsType
    <2>7. LocalsType'
      BY <1>17 DEF DrainLast, Return, LocalsType
    <2>8. SharedType'
      BY <1>15, <1>17 DEF DrainLast, Unlock, SharedType
    <2>9. QED
      BY <2>6, <2>7, <2>8
  <1>18. ASSUME NEW s \in Streams, DrainFails(s) PROVE TypeOK'
    <2>1. LocalsType'
      BY <1>18 DEF DrainFails, Return, LocalsType
    <2>2. SharedType'
      BY <1>15, <1>18 DEF DrainFails, Unlock, SharedType
    <2>3. QED
      BY <1>18, <2>1, <2>2, TypeKept DEF DrainFails
  <1>19. CASE BeginClose
    <2>1. SharedType'
      BY <1>19 DEF BeginClose, Lock, SharedType
    <2>2. QED
      BY <1>19, <2>1, TypeKept DEF BeginClose
  <1>20. CASE UNCHANGED vars
    BY <1>20, TypeKept DEF vars
  <1>21. QED
    BY <1>1, <1>2, <1>3, <1>4, <1>6, <1>7, <1>9, <1>10, <1>11, <1>12, <1>13, <1>14,
       <1>16, <1>17, <1>18, <1>19, <1>20
       DEF Next, ClientNext, Advance, Acquire, CreateStream, CreateStorage

(* Every reachable state has the types of TypeOK, and the pending mini-     *)
(* stream bytes never exceed a sector.                                      *)
THEOREM Types == Spec => []TypeOK
  BY TypeInit, TypeNext, PTL DEF Spec

-----------------------------------------------------------------------------
(* Arithmetic of sector boundaries                                          *)

LEMMA Sizes == MiniSize \in Nat \ {0} /\ SecSize \in Nat \ {0} /\ Cutoff \in Nat \ {0}
  BY GeometryAssumption

LEMMA MultipleSum ==
    ASSUME NEW n \in Int, NEW m \in Int, NEW d \in Nat \ {0}, n % d = 0, m % d = 0
    PROVE  (n + m) % d = 0
  <1>1. n = d * (n \div d) /\ m = d * (m \div d) /\ n \div d \in Int /\ m \div d \in Int
    OBVIOUS
  <1>2. \A q \in Int : (d * q) % d = 0
    OBVIOUS
  <1>3. n + m = d * (n \div d + m \div d)
    BY <1>1
  <1>4. QED
    BY <1>1, <1>2, <1>3

LEMMA NextMultiple ==
    ASSUME NEW n \in Int, NEW d \in Nat \ {0}, n % d = 0
    PROVE  (n + d) % d = 0
  <1>1. n = d * (n \div d) /\ n \div d \in Int
    OBVIOUS
  <1>2. n + d = d * (n \div d + 1)
    BY <1>1
  <1>3. \A q \in Int : (d * q) % d = 0
    OBVIOUS
  <1>4. QED
    BY <1>1, <1>2, <1>3

LEMMA Floor ==
    ASSUME NEW n \in Nat, NEW d \in Nat \ {0}
    PROVE  /\ (n \div d) * d \in Nat
           /\ (n \div d) * d <= n
           /\ n - (n \div d) * d < d
           /\ ((n \div d) * d) % d = 0
  OBVIOUS

LEMMA RoundUp ==
    ASSUME NEW n \in Nat, NEW d \in Nat \ {0}
    PROVE  (n + (d - (n % d))) % d = 0 /\ d - (n % d) \in 1 .. d
  <1>1. (n + (d - (n % d))) % d = 0
    OBVIOUS
  <1>2. d - (n % d) \in 1 .. d
    OBVIOUS
  <1>3. QED
    BY <1>1, <1>2

\* The padding completes the last sector.
LEMMA PaddingLength ==
    ASSUME NEW x \in Seq(Cells), NEW n \in Nat \ {0}
    PROVE  (Len(x) + Len(Padding(x, n))) % n = 0
  <1>1. CASE Len(x) % n = 0
    <2>1. Padding(x, n) = <<>> /\ Len(<<>>) = 0
      BY <1>1 DEF Padding
    <2>2. Len(x) + 0 = Len(x)
      OBVIOUS
    <2>3. QED
      BY <1>1, <2>1, <2>2
  <1>2. CASE Len(x) % n # 0
    <2>1. n - (Len(x) % n) \in Nat
      OBVIOUS
    <2>2. Len(Padding(x, n)) = n - (Len(x) % n)
      BY <1>2, <2>1, ZerosLength DEF Padding
    <2>3. QED
      BY <2>2, RoundUp
  <1>3. QED
    BY <1>1, <1>2

-----------------------------------------------------------------------------
(* What a call knows at each of its steps                                   *)

StepOf(s) ==
    /\ Locked(s) <=> mu = s
    /\ closed[s] => pc[s] = "idle"
    /\ pc[s] = "write" => p[s] # <<>>
    /\ pc[s] \in {"idle", "close", "drain"} => p[s] = <<>>
    /\ ~closed[s] /\ size[s] < Cutoff => Len(buf[s]) = size[s]
    /\ size[s] >= Cutoff => Len(buf[s]) < SecSize
    /\ pc[s] = "drain" => size[s] \in 1 .. Cutoff - 1
    /\ Flushing(s) =>
          /\ Len(buf[s]) + Len(b[s]) > 0
          /\ (Len(buf[s]) + Len(b[s])) % SecSize = 0
          /\ p[s] = <<>> => size[s] >= Cutoff
          /\ p[s] # <<>> => Len(b[s]) <= Len(p[s])
          /\ p[s] # <<>> /\ size[s] < Cutoff => Len(b[s]) = Cutoff - size[s]

CallInv == \A s \in Streams : StepOf(s)

\* The call on t is not disturbed by steps of others, which may take a free
\* lock or release their own.
LEMMA OtherCall ==
    ASSUME CallInv, NEW t \in Streams,
           pc'[t] = pc[t], p'[t] = p[t], b'[t] = b[t],
           buf'[t] = buf[t], size'[t] = size[t], closed'[t] = closed[t],
           mu' = t <=> mu = t
    PROVE  StepOf(t)'
  BY DEF CallInv, StepOf, Locked, Flushing

\* What the loop of Write hands to flush.
LEMMA RoomFits ==
    ASSUME TypeOK, NEW s \in Streams, StepOf(s), pc[s] = "write", ~Buffers(s)
    PROVE  /\ Room(s) \in 1 .. Len(p[s])
           /\ (Len(buf[s]) + Room(s)) % SecSize = 0
           /\ size[s] < Cutoff => Room(s) = Cutoff - size[s]
  <1>1. /\ Len(p[s]) \in Nat /\ Len(buf[s]) \in Nat /\ size[s] \in Nat
        /\ buf[s] = <<>> <=> Len(buf[s]) = 0
    BY DEF TypeOK, LocalsType, FieldsType
  <1>2. ~closed[s]
    BY DEF StepOf
  <1>3. CASE size[s] < Cutoff
    <2>1. Room(s) = Cutoff - size[s]
      BY <1>3 DEF Room
    <2>2. Len(buf[s]) = size[s]
      BY <1>2, <1>3 DEF StepOf
    <2>3. Len(buf[s]) + Room(s) = Cutoff
      BY <1>1, <2>1, <2>2, Sizes
    <2>4. Cutoff % SecSize = 0
      BY GeometryAssumption
    <2>5. Room(s) \in 1 .. Len(p[s])
      BY <1>1, <1>3, <2>1, Sizes DEF Buffers
    <2>6. QED
      BY <2>1, <2>3, <2>4, <2>5
  <1>4. CASE size[s] >= Cutoff /\ buf[s] # <<>>
    <2>1. Room(s) = SecSize - Len(buf[s]) /\ Len(buf[s]) < SecSize
      BY <1>1, <1>4, Sizes DEF StepOf, Room
    <2>2. (Len(buf[s]) + Room(s)) = SecSize
      BY <1>1, <2>1, Sizes
    <2>3. SecSize % SecSize = 0
      BY Sizes
    <2>4. QED
      BY <1>1, <1>4, <2>1, <2>2, <2>3, Sizes DEF Buffers
  <1>5. CASE size[s] >= Cutoff /\ buf[s] = <<>>
    <2>1. Room(s) = (Len(p[s]) \div SecSize) * SecSize /\ Len(buf[s]) = 0
      <3>1. ~(size[s] < Cutoff) /\ ~(buf[s] # <<>>) /\ Len(buf[s]) = 0
        BY <1>1, <1>5, Sizes
      <3>2. QED
        BY <3>1 DEF Room
    <2>2. Room(s) \in Nat /\ Room(s) <= Len(p[s]) /\ Room(s) % SecSize = 0
      <3>1. Len(p[s]) \in Nat /\ SecSize \in Nat \ {0}
        BY <1>1, Sizes
      <3>2. ASSUME NEW n \in Nat, NEW d \in Nat \ {0} PROVE ((n \div d) * d) % d = 0
        <4>1. n \div d \in Int
          OBVIOUS
        <4>2. QED
          BY <4>1
      <3>3. /\ (Len(p[s]) \div SecSize) * SecSize \in Nat
            /\ (Len(p[s]) \div SecSize) * SecSize <= Len(p[s])
        BY <3>1, Floor, Zenon
      <3>4. ((Len(p[s]) \div SecSize) * SecSize) % SecSize = 0
        BY <3>1, <3>2, Zenon
      <3>5. QED
        BY <2>1, <3>3, <3>4, Zenon
    <2>3. Room(s) # 0
      BY <1>5 DEF Buffers
    <2>4. Room(s) \in 1 .. Len(p[s])
      BY <1>1, <2>2, <2>3
    <2>5. Len(buf[s]) + Room(s) = Room(s)
      BY <2>1, <2>2
    <2>6. ~(size[s] < Cutoff)
      BY <1>1, <1>5, Sizes
    <2>7. QED
      BY <2>2, <2>4, <2>5, <2>6
  <1>6. QED
    BY <1>1, <1>3, <1>4, <1>5, Sizes

\* What the loop of Write keeps in the buffer.
LEMMA BufferFits ==
    ASSUME TypeOK, NEW s \in Streams, StepOf(s), pc[s] = "write", Buffers(s)
    PROVE  /\ size[s] < Cutoff => Len(p[s]) < Cutoff - size[s]
           /\ size[s] >= Cutoff => Len(buf[s]) + Len(p[s]) < SecSize
  <1>1. /\ Len(p[s]) \in Nat /\ Len(buf[s]) \in Nat /\ size[s] \in Nat
        /\ buf[s] = <<>> <=> Len(buf[s]) = 0
    BY DEF TypeOK, LocalsType, FieldsType
  <1>2. Room(s) = 0 \/ Len(p[s]) < Room(s)
    BY DEF Buffers
  <1>3. CASE size[s] < Cutoff
    <2>1. Room(s) = Cutoff - size[s]
      BY <1>3 DEF Room
    <2>2. Len(p[s]) < Cutoff - size[s]
      BY <1>1, <1>2, <1>3, <2>1, Sizes
    <2>3. ~(size[s] >= Cutoff)
      BY <1>1, <1>3, Sizes
    <2>4. QED
      BY <2>2, <2>3
  <1>4. CASE ~(size[s] < Cutoff) /\ buf[s] # <<>>
    <2>1. Room(s) = SecSize - Len(buf[s])
      BY <1>4 DEF Room
    <2>2. Len(buf[s]) < SecSize
      BY <1>1, <1>4, Sizes DEF StepOf
    <2>3. Len(buf[s]) + Len(p[s]) < SecSize
      BY <1>2, <2>1, <2>2, Sizes DEF TypeOK, LocalsType, FieldsType
    <2>4. QED
      BY <1>4, <2>3
  <1>5. CASE ~(size[s] < Cutoff) /\ ~(buf[s] # <<>>)
    <2>1. Room(s) = (Len(p[s]) \div SecSize) * SecSize
      BY <1>5 DEF Room
    <2>2. Room(s) \in Nat /\ Room(s) <= Len(p[s]) /\ Len(p[s]) - Room(s) < SecSize
      BY <1>1, <2>1, Floor, Sizes
    <2>3. Len(p[s]) < SecSize
      BY <1>1, <1>2, <2>2, Sizes
    <2>4. Len(buf[s]) = 0
      BY <1>1, <1>5
    <2>5. QED
      BY <1>1, <1>5, <2>3, <2>4
  <1>6. QED
    BY <1>3, <1>4, <1>5

LEMMA CallInit == Init => CallInv
  BY CallAssumption, GeometryAssumption DEF Init, CallInv, StepOf, Locked, Flushing

LEMMA CallNext == TypeOK /\ CallInv /\ [Next]_vars => CallInv'
  <1> SUFFICES ASSUME TypeOK, CallInv, [Next]_vars PROVE CallInv'
    OBVIOUS
  <1> USE DEF CallInv
  \* A step of the call on s that leaves the other streams alone.
  <1>1. ASSUME NEW s \in Streams, StepOf(s)',
               \A t \in Streams \ {s} :
                   /\ pc'[t] = pc[t] /\ p'[t] = p[t] /\ b'[t] = b[t]
                   /\ buf'[t] = buf[t] /\ size'[t] = size[t] /\ closed'[t] = closed[t]
                   /\ mu' = t <=> mu = t
        PROVE  CallInv'
    <2>1. ASSUME NEW t \in Streams \ {s} PROVE StepOf(t)'
      BY <1>1, OtherCall
    <2>2. QED
      BY <1>1, <2>1
  \* A step of nobody's call.
  <1>2. ASSUME UNCHANGED <<fields, locals>>, \A t \in Streams : mu' = t <=> mu = t
        PROVE  CallInv'
    BY <1>2 DEF fields, locals, StepOf, Locked, Flushing
  <1>3. ASSUME NEW n \in Streams \cup Storages, Create(n) PROVE CallInv'
    BY <1>2, <1>3 DEF Create, CountEntry
  <1>4. CASE BeginClose
    BY <1>2, <1>4, CallAssumption DEF BeginClose, Lock
  <1>5. CASE UNCHANGED vars
    BY <1>2, <1>5 DEF vars, shared
  <1>6. ASSUME NEW s \in Streams, NEW n \in WriteSizes, Write(s, n) PROVE CallInv'
    <2>1. DataCells(s, size[s] + 1, size[s] + n) # <<>>
      <3>1. Len(DataCells(s, size[s] + 1, size[s] + n)) = n
        BY DataLength, CallAssumption DEF TypeOK, FieldsType
      <3>2. n > 0
        BY <1>6 DEF Write
      <3>3. QED
        BY <3>1, <3>2
    <2>2. StepOf(s)'
      BY <1>6, <2>1 DEF Write, StepOf, Locked, Flushing, shared, fields, TypeOK, LocalsType
    <2>3. QED
      BY <1>1, <1>6, <2>2 DEF Write, shared, fields
  <1>7. ASSUME NEW s \in Streams, CloseStream(s) PROVE CallInv'
    <2>1. StepOf(s)'
      BY <1>7 DEF CloseStream, StepOf, Locked, Flushing, shared, fields, TypeOK, LocalsType
    <2>2. QED
      BY <1>1, <1>7, <2>1 DEF CloseStream, shared, fields
  <1>8. ASSUME NEW s \in Streams, KeepRest(s) PROVE CallInv'
    <2>1. /\ p[s] \in Seq(Cells) /\ buf[s] \in Seq(Cells) /\ size[s] \in Nat
          /\ pc[s] = "write" /\ p[s] # <<>> /\ ~closed[s]
      BY <1>8 DEF KeepRest, TypeOK, LocalsType, FieldsType, StepOf
    <2>2. Len(buf[s] \o p[s]) = Len(buf[s]) + Len(p[s])
      BY <2>1, ConcatLength
    <2>3. /\ size[s] < Cutoff => Len(p[s]) < Cutoff - size[s]
          /\ size[s] >= Cutoff => Len(buf[s]) + Len(p[s]) < SecSize
      BY <1>8, <2>1, BufferFits DEF KeepRest
    <2>4. /\ Len(buf[s]) \in Nat /\ Len(p[s]) \in Nat
          /\ Locked(s) <=> mu = s
          /\ size[s] < Cutoff => Len(buf[s]) = size[s]
      <3>1. Len(buf[s]) \in Nat /\ Len(p[s]) \in Nat
        BY <2>1
      <3>2. QED
        BY <2>1, <3>1 DEF StepOf
    <2>5. /\ buf'[s] = buf[s] \o p[s] /\ size'[s] = size[s] + Len(p[s])
          /\ p'[s] = <<>> /\ pc'[s] = "idle"
          /\ closed' = closed /\ b' = b /\ mu' = mu
      BY <1>8 DEF KeepRest, Return, shared, TypeOK, LocalsType, FieldsType
    <2>6. /\ size'[s] < Cutoff => Len(buf'[s]) = size'[s]
          /\ size'[s] >= Cutoff => Len(buf'[s]) < SecSize
      <3>1. Len(buf'[s]) = Len(buf[s]) + Len(p[s]) /\ size'[s] = size[s] + Len(p[s])
        BY <2>2, <2>5
      <3>2. ASSUME NEW z \in Nat, NEW l \in Nat, NEW n \in Nat,
                   z < Cutoff => l = z /\ n < Cutoff - z,
                   z >= Cutoff => l + n < SecSize
            PROVE  /\ z + n < Cutoff => l + n = z + n
                   /\ z + n >= Cutoff => l + n < SecSize
        BY <3>2, Sizes
      <3>3. QED
        BY <2>1, <2>3, <2>4, <3>1, <3>2
    <2>7. mu # s
      BY <2>1, <2>4 DEF Locked
    <2>8. StepOf(s)'
      BY <2>1, <2>5, <2>6, <2>7 DEF StepOf, Locked, Flushing
    <2>9. QED
      BY <1>1, <1>8, <2>8 DEF KeepRest, Return, shared
  <1>9. ASSUME NEW s \in Streams, NEW x \in Seq(Cells), Flush(s, x),
               Len(buf[s]) + Len(x) > 0,
               (Len(buf[s]) + Len(x)) % SecSize = 0,
               ~closed[s],
               p[s] = <<>> => size[s] >= Cutoff,
               p[s] # <<>> => Len(x) <= Len(p[s]),
               p[s] # <<>> /\ size[s] < Cutoff => Len(x) = Cutoff - size[s]
        PROVE  CallInv'
    <2>1. /\ b'[s] = x /\ pc'[s] = "flushbuf" /\ p' = p /\ mu' = s /\ mu = NoOne
          /\ buf' = buf /\ size' = size /\ closed' = closed
      BY <1>9 DEF Flush, Lock, fields, TypeOK, LocalsType
    <2>2. StepOf(s)'
      BY <1>9, <2>1 DEF StepOf, Locked, Flushing
    <2>3. QED
      BY <1>1, <1>9, <2>1, <2>2, CallAssumption DEF Flush
  <1>10. ASSUME NEW s \in Streams, WriteFlush(s) PROVE CallInv'
    <2>1. pc[s] = "write" /\ ~Buffers(s) /\ Flush(s, Take(p[s], Room(s)))
      BY <1>10 DEF WriteFlush
    <2>2. /\ Room(s) \in 1 .. Len(p[s])
          /\ (Len(buf[s]) + Room(s)) % SecSize = 0
          /\ size[s] < Cutoff => Room(s) = Cutoff - size[s]
      BY <2>1, RoomFits
    <2>3. Take(p[s], Room(s)) \in Seq(Cells) /\ Len(Take(p[s], Room(s))) = Room(s)
      BY <2>2, TakeLength DEF TypeOK, LocalsType
    <2>4. ~closed[s] /\ p[s] # <<>>
      BY <2>1 DEF StepOf
    <2>5. Len(buf[s]) + Room(s) > 0
      BY <2>2 DEF TypeOK, LocalsType, FieldsType
    <2>6. Room(s) <= Len(p[s])
      BY <2>2 DEF TypeOK, LocalsType
    <2>7. QED
      BY <1>9, <2>1, <2>2, <2>3, <2>4, <2>5, <2>6
  <1>11. ASSUME NEW s \in Streams, ClosePadded(s) PROVE CallInv'
    <2>1. pc[s] = "close" /\ size[s] >= Cutoff /\ buf[s] # <<>> /\ Flush(s, Padding(buf[s], SecSize))
      BY <1>11 DEF ClosePadded
    <2>2. ~closed[s] /\ p[s] = <<>>
      BY <2>1 DEF StepOf
    <2>3. Padding(buf[s], SecSize) \in Seq(Cells)
      BY PaddingType, Sizes DEF TypeOK, FieldsType
    <2>4. (Len(buf[s]) + Len(Padding(buf[s], SecSize))) % SecSize = 0
      BY PaddingLength, Sizes DEF TypeOK, FieldsType
    <2>5. Len(buf[s]) + Len(Padding(buf[s], SecSize)) > 0
      <3>1. Len(buf[s]) > 0
        BY <2>1 DEF TypeOK, FieldsType
      <3>2. QED
        BY <2>3, <3>1 DEF TypeOK, FieldsType
    <2>6. QED
      BY <1>9, <2>1, <2>2, <2>3, <2>4, <2>5
  <1>12. ASSUME NEW s \in Streams, CloseMini(s) PROVE CallInv'
    <2>1. /\ pc[s] = "close" /\ size[s] \in 1 .. Cutoff - 1 /\ mu = NoOne
          /\ pc'[s] = "drain" /\ p' = p /\ mu' = s
          /\ buf' = buf /\ size' = size /\ closed' = closed
      BY <1>12 DEF CloseMini, Lock, fields, TypeOK, LocalsType
    <2>2. StepOf(s)'
      BY <2>1 DEF StepOf, Locked, Flushing
    <2>3. QED
      BY <1>1, <1>12, <2>1, <2>2, CallAssumption DEF CloseMini
  <1>13. ASSUME NEW s \in Streams, FlushBuf(s) PROVE CallInv'
    <2>1. StepOf(s)'
      BY <1>13 DEF FlushBuf, fields, StepOf, Locked, Flushing, TypeOK, LocalsType
    <2>2. QED
      BY <1>1, <1>13, <2>1 DEF FlushBuf, fields
  <1>14. ASSUME NEW s \in Streams, FlushInWrite(s) PROVE CallInv'
    <2>1. /\ pc[s] = "flushdata" /\ p[s] # <<>> /\ mu = s /\ ~closed[s]
          /\ Len(b[s]) <= Len(p[s])
          /\ size[s] < Cutoff => Len(b[s]) = Cutoff - size[s]
      BY <1>14 DEF FlushInWrite, FlushRest, StepOf, Locked, Flushing
    <2>2. /\ mu' = NoOne /\ buf'[s] = <<>> /\ closed' = closed
          /\ size'[s] = size[s] + Len(b[s])
          /\ p'[s] = Drop(p[s], Len(b[s]))
          /\ pc'[s] = IF Len(p[s]) = Len(b[s]) THEN "idle" ELSE "write"
      BY <1>14 DEF FlushInWrite, FlushRest, Return, Unlock, TypeOK, FieldsType, LocalsType
    <2>3. size'[s] >= Cutoff
      <3>1. size[s] \in Nat /\ Len(b[s]) \in Nat
        BY DEF TypeOK, FieldsType, LocalsType
      <3>2. ASSUME NEW z \in Nat, NEW n \in Nat, z < Cutoff => n = Cutoff - z PROVE z + n >= Cutoff
        BY <3>2, Sizes
      <3>3. QED
        BY <2>1, <2>2, <3>1, <3>2
    <2>4. p'[s] = <<>> <=> Len(p[s]) = Len(b[s])
      <3>1. Len(b[s]) \in 0 .. Len(p[s])
        BY <2>1 DEF TypeOK, LocalsType
      <3>2. p'[s] \in Seq(Cells) /\ Len(p'[s]) = Len(p[s]) - Len(b[s])
        BY <2>2, <3>1, DropLength DEF TypeOK, LocalsType
      <3>3. ASSUME NEW q \in Seq(Cells) PROVE q = <<>> <=> Len(q) = 0
        OBVIOUS
      <3>4. ASSUME NEW m \in Nat, NEW n \in Nat PROVE m - n = 0 <=> m = n
        OBVIOUS
      <3>5. Len(p[s]) \in Nat /\ Len(b[s]) \in Nat
        BY DEF TypeOK, LocalsType
      <3>6. p'[s] = <<>> <=> Len(p'[s]) = 0
        BY <3>2, <3>3, Zenon
      <3>7. Len(p[s]) - Len(b[s]) = 0 <=> Len(p[s]) = Len(b[s])
        BY <3>4, <3>5, Zenon
      <3>8. QED
        BY <3>2, <3>6, <3>7, Zenon
    <2>5. s # NoOne
      BY CallAssumption
    <2>6. size'[s] \in Nat /\ ~(size'[s] < Cutoff)
      BY <2>2, <2>3, Sizes DEF TypeOK, FieldsType, LocalsType
    <2>7. StepOf(s)'
      BY <2>1, <2>2, <2>4, <2>5, <2>6, Sizes DEF StepOf, Locked, Flushing
    <2>8. ASSUME NEW t \in Streams \ {s}
          PROVE  /\ pc'[t] = pc[t] /\ p'[t] = p[t] /\ b'[t] = b[t]
                 /\ buf'[t] = buf[t] /\ size'[t] = size[t] /\ closed'[t] = closed[t]
      BY <1>14 DEF FlushInWrite, FlushRest, Return, TypeOK, FieldsType, LocalsType
    <2>9. QED
      BY <1>1, <2>1, <2>2, <2>7, <2>8, CallAssumption
  <1>15. ASSUME NEW s \in Streams, FlushInClose(s) PROVE CallInv'
    <2>1. /\ pc[s] = "flushdata" /\ p[s] = <<>> /\ mu = s /\ size[s] >= Cutoff
      BY <1>15 DEF FlushInClose, FlushRest, StepOf, Locked, Flushing
    <2>2. /\ mu' = NoOne /\ buf'[s] = <<>> /\ closed'[s] = TRUE
          /\ size' = size /\ p' = p /\ pc'[s] = "idle"
      BY <1>15 DEF FlushInClose, FlushRest, Return, Unlock, TypeOK, FieldsType, LocalsType
    <2>3. s # NoOne
      BY CallAssumption
    <2>4. StepOf(s)'
      BY <2>1, <2>2, <2>3, Sizes DEF StepOf, Locked, Flushing
    <2>5. ASSUME NEW t \in Streams \ {s} PROVE closed'[t] = closed[t]
      BY <1>15 DEF FlushInClose, TypeOK, FieldsType
    <2>6. ASSUME NEW t \in Streams \ {s}
          PROVE  /\ pc'[t] = pc[t] /\ p'[t] = p[t] /\ b'[t] = b[t]
                 /\ buf'[t] = buf[t] /\ size'[t] = size[t]
      BY <1>15 DEF FlushInClose, FlushRest, Return, TypeOK, FieldsType, LocalsType
    <2>7. QED
      BY <1>1, <2>1, <2>2, <2>4, <2>5, <2>6, CallAssumption
  <1>16. ASSUME NEW s \in Streams, FlushFails(s) PROVE CallInv'
    <2>1. pc[s] \in {"flushbuf", "flushdata"} /\ mu = s /\ ~closed[s]
      BY <1>16 DEF FlushFails, StepOf, Locked
    <2>2. /\ mu' = NoOne /\ p'[s] = <<>> /\ pc'[s] = "idle"
          /\ buf' = buf /\ size' = size /\ closed' = closed
      BY <1>16 DEF FlushFails, Return, Unlock, fields, TypeOK, LocalsType
    <2>3. s # NoOne
      BY CallAssumption
    <2>4. StepOf(s)'
      BY <2>1, <2>2, <2>3 DEF StepOf, Locked, Flushing
    <2>5. QED
      BY <1>1, <1>16, <2>1, <2>2, <2>4, CallAssumption DEF FlushFails, Return, Unlock
  <1>17. ASSUME NEW s \in Streams, CloseNow(s) PROVE CallInv'
    <2>1. StepOf(s)'
      BY <1>17 DEF CloseNow, Return, shared, StepOf, Locked, Flushing, TypeOK, FieldsType, LocalsType
    <2>2. ASSUME NEW t \in Streams \ {s} PROVE closed'[t] = closed[t]
      BY <1>17 DEF CloseNow, TypeOK, FieldsType
    <2>3. ASSUME NEW t \in Streams \ {s}
          PROVE  /\ pc'[t] = pc[t] /\ p'[t] = p[t] /\ b'[t] = b[t]
                 /\ buf'[t] = buf[t] /\ size'[t] = size[t] /\ mu' = mu
      BY <1>17 DEF CloseNow, Return, shared, TypeOK, FieldsType, LocalsType
    <2>4. QED
      BY <1>1, <2>1, <2>2, <2>3
  <1>18. ASSUME NEW s \in Streams, Drain(s) PROVE CallInv'
    <2>1. StepOf(s)'
      BY <1>18 DEF Drain, fields, StepOf, Locked, Flushing
    <2>2. QED
      BY <1>1, <1>18, <2>1 DEF Drain, fields
  <1>19. ASSUME NEW s \in Streams, DrainLast(s) PROVE CallInv'
    <2>1. pc[s] = "drain" /\ mu = s /\ p[s] = <<>> /\ size[s] \in 1 .. Cutoff - 1
      BY <1>19 DEF DrainLast, StepOf, Locked
    <2>2. /\ mu' = NoOne /\ closed'[s] = TRUE /\ pc'[s] = "idle"
          /\ size' = size /\ p' = p
      BY <1>19 DEF DrainLast, Return, Unlock, TypeOK, FieldsType, LocalsType
    <2>3. s # NoOne /\ ~(size[s] >= Cutoff)
      BY <2>1, CallAssumption, Sizes
    <2>4. StepOf(s)'
      BY <2>1, <2>2, <2>3 DEF StepOf, Locked, Flushing
    <2>5. ASSUME NEW t \in Streams \ {s} PROVE closed'[t] = closed[t]
      BY <1>19 DEF DrainLast, TypeOK, FieldsType
    <2>6. ASSUME NEW t \in Streams \ {s}
          PROVE  /\ pc'[t] = pc[t] /\ p'[t] = p[t] /\ b'[t] = b[t]
                 /\ buf'[t] = buf[t] /\ size'[t] = size[t]
      BY <1>19 DEF DrainLast, Return, TypeOK, FieldsType, LocalsType
    <2>7. QED
      BY <1>1, <2>1, <2>2, <2>4, <2>5, <2>6, CallAssumption
  <1>20. ASSUME NEW s \in Streams, DrainFails(s) PROVE CallInv'
    <2>1. pc[s] = "drain" /\ mu = s /\ p[s] = <<>> /\ ~closed[s]
      BY <1>20 DEF DrainFails, StepOf, Locked
    <2>2. /\ mu' = NoOne /\ pc'[s] = "idle" /\ p' = p
          /\ buf' = buf /\ size' = size /\ closed' = closed
      BY <1>20 DEF DrainFails, Return, Unlock, fields, TypeOK, LocalsType
    <2>3. s # NoOne
      BY CallAssumption
    <2>4. StepOf(s)'
      BY <2>1, <2>2, <2>3 DEF StepOf, Locked, Flushing
    <2>5. QED
      BY <1>1, <1>20, <2>1, <2>2, <2>4, CallAssumption DEF DrainFails, Return, Unlock
  <1>21. QED
    BY <1>3, <1>4, <1>5, <1>6, <1>7, <1>8, <1>10, <1>11, <1>12, <1>13, <1>14, <1>15,
       <1>16, <1>17, <1>18, <1>19, <1>20
       DEF Next, ClientNext, Advance, Acquire, CreateStream, CreateStorage

(* No sequence of Writes of whatever sizes, and no interleaving of calls,   *)
(* makes a call hand flush anything but whole sectors, as flush demands.    *)
THEOREM FlushesWholeSectors == Spec => []FlushMultiple
  <1>1. CallInv => FlushMultiple
    BY DEF CallInv, StepOf, Flushing, FlushMultiple
  <1>2. QED
    BY Types, CallInit, CallNext, <1>1, PTL DEF Spec

-----------------------------------------------------------------------------
(* Where w.cw stands                                                        *)

\* Where the running flush of s began to write.
FlushBase(s) == IF pc[s] = "flushdata" THEN Len(out) - Len(buf[s]) ELSE Len(out)

AtBoundary(s) ==
    Flushing(s) =>
        /\ FlushBase(s) >= 0
        /\ FlushBase(s) % SecSize = 0
        /\ first[s] = U32(FlushBase(s) \div SecSize)

\* As long as the underlying writer works.
AlignInv ==
    ~err =>
        /\ Len(miniBuf) < SecSize
        /\ (\A s \in Streams : pc[s] # "flushdata") => Len(out) % SecSize = 0
        /\ \A s \in Streams : AtBoundary(s)

LEMMA AlignInit == Init => AlignInv
  <1> SUFFICES ASSUME Init PROVE AlignInv
    OBVIOUS
  <1>1. Len(miniBuf) = 0 /\ Len(out) = 0
    BY DEF Init
  <1>2. 0 < SecSize /\ 0 % SecSize = 0
    BY Sizes
  <1>3. \A s \in Streams : AtBoundary(s)
    BY DEF Init, AtBoundary, Flushing
  <1>4. QED
    BY <1>1, <1>2, <1>3 DEF AlignInv

\* Only the holder of the lock is within flush.
LEMMA OneHolder ==
    ASSUME CallInv, NEW s \in Streams, mu = s
    PROVE  \A t \in Streams \ {s} : ~Locked(t)
  BY DEF CallInv, StepOf

LEMMA NoHolder ==
    ASSUME CallInv, mu \notin Streams
    PROVE  \A t \in Streams : ~Locked(t)
  BY DEF CallInv, StepOf

LEMMA AlignNext == TypeOK /\ CallInv /\ AlignInv /\ [Next]_vars => AlignInv'
  <1> SUFFICES ASSUME TypeOK, CallInv, AlignInv, [Next]_vars, ~err' PROVE AlignInv'
    BY DEF AlignInv
  \* Steps that write nothing and neither begin nor end a flush.
  <1>1. ASSUME UNCHANGED <<out, err, miniBuf, first>>,
               \A t \in Streams :
                  /\ Flushing(t)' <=> Flushing(t)
                  /\ pc'[t] = "flushdata" <=> pc[t] = "flushdata"
                  /\ Flushing(t) => buf'[t] = buf[t]
        PROVE  AlignInv'
    BY <1>1 DEF AlignInv, AtBoundary, FlushBase, Flushing
  <1>2. ASSUME NEW n \in Streams \cup Storages, Create(n) PROVE AlignInv'
    BY <1>1, <1>2 DEF Create, CountEntry, fields, locals, Flushing
  <1>3. CASE BeginClose
    BY <1>1, <1>3 DEF BeginClose, fields, locals, Flushing
  <1>4. CASE UNCHANGED vars
    BY <1>1, <1>4 DEF vars, shared, fields, locals, Flushing
  <1>5. ASSUME NEW s \in Streams, NEW n \in WriteSizes, Write(s, n) PROVE AlignInv'
    BY <1>1, <1>5 DEF Write, shared, fields, Flushing, TypeOK, LocalsType
  <1>6. ASSUME NEW s \in Streams, CloseStream(s) PROVE AlignInv'
    BY <1>1, <1>6 DEF CloseStream, shared, fields, Flushing, TypeOK, LocalsType
  <1>7. ASSUME NEW s \in Streams, KeepRest(s) PROVE AlignInv'
    <2>1. ASSUME NEW t \in Streams
          PROVE  /\ Flushing(t)' <=> Flushing(t)
                 /\ pc'[t] = "flushdata" <=> pc[t] = "flushdata"
                 /\ Flushing(t) => buf'[t] = buf[t]
      BY <1>7 DEF KeepRest, Return, Flushing, TypeOK, LocalsType, FieldsType
    <2>2. QED
      BY <1>1, <1>7, <2>1 DEF KeepRest, shared
  <1>8. ASSUME NEW s \in Streams, CloseNow(s) PROVE AlignInv'
    BY <1>1, <1>8 DEF CloseNow, Return, shared, Flushing, TypeOK, LocalsType
  <1>9. ASSUME NEW s \in Streams, CloseMini(s) PROVE AlignInv'
    <2>1. ASSUME NEW t \in Streams
          PROVE  /\ ~Flushing(t) /\ ~Flushing(t)'
      BY <1>9, NoHolder, CallAssumption
         DEF CloseMini, Lock, Locked, Flushing, TypeOK, LocalsType
    <2>2. QED
      BY <1>9, <2>1 DEF CloseMini, AlignInv, AtBoundary, Flushing
  <1>10. ASSUME NEW s \in Streams, NEW x \in Seq(Cells), Flush(s, x) PROVE AlignInv'
    <2>1. /\ UNCHANGED <<out, err, miniBuf>> /\ mu = NoOne
          /\ first'[s] = U32(SectorIdx) /\ pc'[s] = "flushbuf"
          /\ \A t \in Streams \ {s} : pc'[t] = pc[t]
      BY <1>10 DEF Flush, Lock, TypeOK, LocalsType
    <2>2. \A t \in Streams : ~Locked(t)
      BY <2>1, NoHolder, CallAssumption
    <2>3. Len(miniBuf) < SecSize /\ Len(out) % SecSize = 0
      BY <2>1, <2>2 DEF AlignInv, Locked
    <2>4. AtBoundary(s)'
      <3>1. FlushBase(s)' = Len(out)
        BY <2>1 DEF FlushBase
      <3>2. Len(out) >= 0
        BY DEF TypeOK, SharedType
      <3>3. QED
        BY <2>1, <2>3, <3>1, <3>2 DEF AtBoundary, SectorIdx
    <2>5. ASSUME NEW t \in Streams \ {s} PROVE AtBoundary(t)'
      BY <2>1, <2>2 DEF AtBoundary, Flushing, Locked
    <2>6. QED
      BY <2>1, <2>3, <2>4, <2>5 DEF AlignInv
  <1>11. ASSUME NEW s \in Streams, FlushBuf(s) PROVE AlignInv'
    <2>1. /\ pc[s] = "flushbuf" /\ out' = out \o buf[s] /\ ~err
          /\ UNCHANGED <<miniBuf, buf, first>>
          /\ pc'[s] = "flushdata"
          /\ \A t \in Streams \ {s} : pc'[t] = pc[t]
      BY <1>11 DEF FlushBuf, Put, fields, TypeOK, LocalsType
    <2>2. mu = s
      BY <2>1 DEF CallInv, StepOf, Locked
    <2>3. \A t \in Streams \ {s} : ~Flushing(t)
      BY <2>2, OneHolder DEF Locked, Flushing
    <2>4. FlushBase(s)' = FlushBase(s)
      <3>1. buf[s] \in Seq(Cells) /\ out \in Seq(Cells)
        BY DEF TypeOK, FieldsType, SharedType
      <3>2. Len(out') = Len(out) + Len(buf[s])
        BY <2>1, <3>1, ConcatLength
      <3>3. ASSUME NEW m \in Nat, NEW n \in Nat PROVE (m + n) - n = m
        OBVIOUS
      <3>4. Len(out) \in Nat /\ Len(buf[s]) \in Nat
        BY <3>1
      <3>5. QED
        BY <2>1, <3>2, <3>3, <3>4 DEF FlushBase
    <2>5. AtBoundary(s)'
      BY <2>1, <2>4 DEF AlignInv, AtBoundary, Flushing
    <2>6. ASSUME NEW t \in Streams \ {s} PROVE AtBoundary(t)'
      BY <2>1, <2>3 DEF AtBoundary, Flushing
    <2>7. Len(miniBuf) < SecSize
      BY <2>1 DEF AlignInv
    <2>8. QED
      BY <2>1, <2>5, <2>6, <2>7 DEF AlignInv
  <1>12. ASSUME NEW s \in Streams, FlushRest(s), pc'[s] \in {"idle", "write"},
                \A t \in Streams \ {s} : pc'[t] = pc[t]
         PROVE  AlignInv'
    <2>1. /\ pc[s] = "flushdata" /\ out' = out \o b[s] /\ ~err
          /\ UNCHANGED <<miniBuf, first>>
      BY <1>12 DEF FlushRest, Put
    <2>2. mu = s
      BY <2>1 DEF CallInv, StepOf, Locked
    <2>3. \A t \in Streams \ {s} : ~Flushing(t)
      BY <2>2, OneHolder DEF Locked, Flushing
    <2>4. Len(out') % SecSize = 0
      <3>1. /\ Len(out) \in Nat /\ Len(buf[s]) \in Nat /\ Len(b[s]) \in Nat
            /\ out \in Seq(Cells) /\ b[s] \in Seq(Cells)
        BY DEF TypeOK, SharedType, FieldsType, LocalsType
      <3>2. (Len(out) - Len(buf[s])) % SecSize = 0
        BY <2>1 DEF AlignInv, AtBoundary, Flushing, FlushBase
      <3>3. (Len(buf[s]) + Len(b[s])) % SecSize = 0
        BY <2>1 DEF CallInv, StepOf, Flushing
      <3>4. ASSUME NEW l \in Nat, NEW m \in Nat, NEW n \in Nat,
                   (l - m) % SecSize = 0, (m + n) % SecSize = 0
            PROVE  (l + n) % SecSize = 0
        <4>1. (l - m) + (m + n) = l + n /\ l - m \in Int /\ m + n \in Int
          OBVIOUS
        <4>2. ((l - m) + (m + n)) % SecSize = 0
          BY <3>4, <4>1, MultipleSum, Sizes
        <4>3. QED
          BY <4>1, <4>2
      <3>5. Len(out') = Len(out) + Len(b[s])
        BY <2>1, <3>1, ConcatLength
      <3>6. (Len(out) + Len(b[s])) % SecSize = 0
        BY <3>1, <3>2, <3>3, <3>4, Zenon
      <3>7. QED
        BY <3>5, <3>6, Zenon
    <2>5. ASSUME NEW t \in Streams PROVE AtBoundary(t)'
      BY <1>12, <2>1, <2>3 DEF AtBoundary, Flushing
    <2>6. Len(miniBuf') < SecSize
      BY <2>1 DEF AlignInv
    <2>7. QED
      BY <2>4, <2>5, <2>6 DEF AlignInv
  <1>13. ASSUME NEW s \in Streams, FlushInWrite(s) PROVE AlignInv'
    BY <1>12, <1>13 DEF FlushInWrite, Return, TypeOK, LocalsType
  <1>14. ASSUME NEW s \in Streams, FlushInClose(s) PROVE AlignInv'
    BY <1>12, <1>14 DEF FlushInClose, Return, TypeOK, LocalsType
  <1>15. ASSUME NEW x, PutFails(x) PROVE FALSE
    BY <1>15 DEF PutFails
  <1>16. ASSUME NEW s \in Streams, FlushFails(s) PROVE AlignInv'
    BY <1>15, <1>16 DEF FlushFails
  <1>17. ASSUME NEW s \in Streams, DrainFails(s) PROVE AlignInv'
    BY <1>15, <1>17 DEF DrainFails, WriteMiniFails
  <1>18. ASSUME NEW s \in Streams, WriteMini(b[s]), pc[s] = "drain", pc'[s] \in {"idle", "drain"},
                \A t \in Streams \ {s} : pc'[t] = pc[t]
         PROVE  AlignInv'
    <2>1. mu = s
      BY <1>18 DEF CallInv, StepOf, Locked
    <2>2. \A t \in Streams : ~Flushing(t)
      BY <1>18, <2>1, OneHolder DEF Locked, Flushing
    <2>3. ~err
      BY <1>18 DEF WriteMini, Put
    <2>4. Len(out) % SecSize = 0
      BY <2>2, <2>3 DEF AlignInv, Flushing
    <2>5. b[s] \in Seq(Cells) /\ out \in Seq(Cells)
      BY DEF TypeOK, LocalsType, SharedType
    <2>6. MiniFilled(b[s]) \in Seq(Cells) /\ Len(MiniFilled(b[s])) <= SecSize
      BY <2>5, MiniStep
    <2>7. Len(out') % SecSize = 0 /\ Len(miniBuf') < SecSize
      <3>1. CASE Len(MiniFilled(b[s])) = SecSize
        <4>1. out' = out \o MiniFilled(b[s]) /\ miniBuf' = <<>>
          BY <1>18, <3>1 DEF WriteMini, Put
        <4>2. Len(out') = Len(out) + SecSize
          BY <2>5, <2>6, <3>1, <4>1, ConcatLength
        <4>3. Len(out) \in Nat
          BY <2>5
        <4>4. Len(out') % SecSize = 0
          <5>1. \A n \in Int : n % SecSize = 0 => (n + SecSize) % SecSize = 0
            BY NextMultiple, Sizes
          <5>2. Len(out) \in Int
            BY <4>3
          <5>3. QED
            BY <2>4, <4>2, <5>1, <5>2
        <4>5. Len(miniBuf') < SecSize
          BY <4>1, Sizes
        <4>6. QED
          BY <4>4, <4>5
      <3>2. CASE Len(MiniFilled(b[s])) # SecSize
        <4>1. out' = out /\ miniBuf' = MiniFilled(b[s])
          BY <1>18, <3>2 DEF WriteMini
        <4>2. Len(MiniFilled(b[s])) < SecSize
          BY <2>6, <3>2, Sizes
        <4>3. QED
          BY <2>4, <4>1, <4>2
      <3>3. QED
        BY <3>1, <3>2
    <2>8. ASSUME NEW t \in Streams PROVE AtBoundary(t)'
      BY <1>18, <2>2 DEF AtBoundary, Flushing
    <2>9. QED
      BY <2>7, <2>8 DEF AlignInv
  <1>19. ASSUME NEW s \in Streams, Drain(s) PROVE AlignInv'
    BY <1>18, <1>19 DEF Drain
  <1>20. ASSUME NEW s \in Streams, DrainLast(s) PROVE AlignInv'
    BY <1>18, <1>20 DEF DrainLast, Return, TypeOK, LocalsType
  <1>21. ASSUME NEW s \in Streams, WriteFlush(s) PROVE AlignInv'
    <2>1. Take(p[s], Room(s)) \in Seq(Cells)
      BY <1>21, RoomFits, TakeLength DEF WriteFlush, CallInv, TypeOK, LocalsType
    <2>2. QED
      BY <1>10, <1>21, <2>1 DEF WriteFlush
  <1>22. ASSUME NEW s \in Streams, ClosePadded(s) PROVE AlignInv'
    <2>1. Padding(buf[s], SecSize) \in Seq(Cells)
      BY PaddingType, Sizes DEF TypeOK, FieldsType
    <2>2. QED
      BY <1>10, <1>22, <2>1 DEF ClosePadded
  <1>23. QED
    BY <1>2, <1>3, <1>4, <1>5, <1>6, <1>7, <1>8, <1>9, <1>11, <1>13, <1>14, <1>16, <1>17,
       <1>19, <1>20, <1>21, <1>22
       DEF Next, ClientNext, Advance, Acquire, CreateStream, CreateStorage

(* Whatever flushes and Closes interleave, w.cw is at a sector boundary     *)
(* whenever the lock is free and the writer below has not failed.           *)
THEOREM AlignedWhenFree == Spec => []SectorAligned
  <1>1. CallInv /\ AlignInv => SectorAligned
    BY NoHolder, CallAssumption DEF AlignInv, SectorAligned, Locked
  <1>2. QED
    BY Types, CallInit, CallNext, AlignInit, AlignNext, <1>1, PTL DEF Spec

-----------------------------------------------------------------------------
(* Which sectors belong to whom                                             *)

\* Sector n belongs to the i-th run of regular stream s.
Owns(s, i, n) == Regular(s) /\ i \in DOMAIN chain[s] /\ n \in RunSects(chain[s][i])

\* Every sector taken so far has a number below n.
TakenBelow(n) ==
    /\ \A s \in Streams : Regular(s) => \A i \in DOMAIN chain[s] : RunEnd(chain[s][i]) <= n
    /\ \A k \in DOMAIN miniSecs : miniSecs[k] < n

OneOwner ==
    /\ \A s, t \in Streams, i, j, n \in Int : Owns(s, i, n) /\ Owns(t, j, n) => s = t /\ i = j
    /\ \A s \in Streams, i \in Int, k \in DOMAIN miniSecs : ~Owns(s, i, miniSecs[k])
    /\ \A k, l \in DOMAIN miniSecs : k < l => miniSecs[k] < miniSecs[l]

RunsSound ==
    /\ OneOwner
    /\ TakenBelow(SectorIdx)
    /\ \A s \in Streams : Regular(s) => \A i \in DOMAIN chain[s] : chain[s][i].count > 0
    /\ \A s \in Streams : ~Regular(s) /\ ~closed[s] => chain[s] = <<>>
    /\ \A s \in Streams : Flushing(s) /\ ~err => TakenBelow(first[s])

RunInv == FileFits => RunsSound

LEMMA RunInit == Init => RunInv
  <1> SUFFICES ASSUME Init PROVE RunsSound
    BY DEF RunInv
  <1>1. /\ DOMAIN miniSecs = {}
        /\ \A s \in Streams : chain[s] = <<>> /\ DOMAIN chain[s] = {} /\ ~Flushing(s)
    BY DEF Init, Flushing
  <1>2. OneOwner /\ \A n : TakenBelow(n)
    BY <1>1 DEF OneOwner, Owns, TakenBelow
  <1>3. QED
    BY <1>1, <1>2 DEF RunsSound

\* out only grows.
LEMMA OutGrows ==
    ASSUME TypeOK, TypeOK', [Next]_vars
    PROVE  Len(out) <= Len(out')
  <1>0. out \in Seq(Cells)
    BY DEF TypeOK, SharedType
  <1>1. ASSUME NEW x \in Seq(Cells), Put(x) \/ PutFails(x) PROVE Len(out) <= Len(out')
    <2>1. CASE Put(x)
      BY <1>0, <2>1, ConcatLength DEF Put
    <2>2. CASE PutFails(x) /\ out' # out
      <3>1. PICK k \in 0 .. Len(x) : out' = out \o Take(x, k)
        BY <2>2 DEF PutFails
      <3>2. Take(x, k) \in Seq(Cells)
        BY TakeLength
      <3>3. QED
        BY <1>0, <3>1, <3>2, ConcatLength
    <2>3. CASE out' = out
      BY <1>0, <2>3
    <2>4. QED
      BY <1>1, <2>1, <2>2, <2>3
  <1>2. CASE out' = out
    BY <1>0, <1>2
  <1>3. ASSUME NEW s \in Streams, FlushBuf(s) PROVE Len(out) <= Len(out')
    BY <1>1, <1>3 DEF FlushBuf, TypeOK, FieldsType
  <1>4. ASSUME NEW s \in Streams, FlushRest(s) PROVE Len(out) <= Len(out')
    BY <1>1, <1>4 DEF FlushRest, TypeOK, LocalsType
  <1>5. ASSUME NEW s \in Streams, FlushFails(s) PROVE Len(out) <= Len(out')
    BY <1>1, <1>5 DEF FlushFails, TypeOK, FieldsType, LocalsType
  <1>6. ASSUME NEW s \in Streams, WriteMini(b[s]) \/ WriteMiniFails(b[s])
        PROVE  Len(out) <= Len(out')
    <2>1. MiniFilled(b[s]) \in Seq(Cells)
      BY MiniStep DEF TypeOK, LocalsType
    <2>2. out' = out \/ Put(MiniFilled(b[s])) \/ PutFails(MiniFilled(b[s]))
      BY <1>6 DEF WriteMini, WriteMiniFails
    <2>3. QED
      BY <1>1, <1>2, <2>1, <2>2
  <1>7. QED
    BY <1>2, <1>3, <1>4, <1>5, <1>6
       DEF Next, ClientNext, Advance, Acquire, CreateStream, CreateStorage, Create, Write, KeepRest, WriteFlush,
           Flush, FlushInWrite, FlushInClose, CloseStream, CloseNow, ClosePadded, CloseMini, Drain,
           DrainLast, DrainFails, BeginClose, vars, shared

LEMMA DivMonotone ==
    ASSUME NEW m \in Nat, NEW n \in Nat, NEW d \in Nat \ {0}, m <= n
    PROVE  m \div d <= n \div d
  OBVIOUS

LEMMA SectorIdxGrows ==
    ASSUME TypeOK, TypeOK', [Next]_vars
    PROVE  /\ SectorIdx \in Nat /\ SectorIdx' \in Nat
           /\ SectorIdx <= SectorIdx'
           /\ FileFits' => FileFits
  <1>1. Len(out) <= Len(out')
    BY OutGrows
  <1>2. Len(out) \in Nat /\ Len(out') \in Nat
    BY DEF TypeOK, SharedType
  <1>3. SectorIdx <= SectorIdx'
    BY <1>1, <1>2, DivMonotone, Sizes DEF SectorIdx
  <1>4. SectorIdx \in Nat /\ SectorIdx' \in Nat
    BY <1>2, DivType, Sizes DEF SectorIdx
  <1>5. QED
    BY <1>3, <1>4, GeometryAssumption DEF FileFits, MaxRegSect

LEMMA ElementType ==
    ASSUME NEW S, NEW q \in Seq(S), NEW i \in DOMAIN q
    PROVE  q[i] \in S
  OBVIOUS

LEMMA RunTypes ==
    ASSUME TypeOK
    PROVE  /\ \A s \in Streams : \A i \in DOMAIN chain[s] :
                 chain[s][i].first \in Nat /\ chain[s][i].count \in Nat /\ RunEnd(chain[s][i]) \in Nat
           /\ \A k \in DOMAIN miniSecs : miniSecs[k] \in Nat
  <1>1. ASSUME NEW s \in Streams, NEW i \in DOMAIN chain[s]
        PROVE  chain[s][i] \in [first : Words32, count : Words32]
    <2>1. chain[s] \in Seq([first : Words32, count : Words32])
      BY DEF TypeOK, FieldsType
    <2>2. QED
      BY <2>1, ElementType
  <1>2. \A n \in Words32 : n \in Nat
    BY GeometryAssumption DEF Words32
  <1>3. \A r \in [first : Words32, count : Words32] :
           r.first \in Nat /\ r.count \in Nat /\ RunEnd(r) \in Nat
    BY <1>2 DEF RunEnd
  <1>4. \A k \in DOMAIN miniSecs : miniSecs[k] \in Words32
    BY DEF TypeOK, SharedType
  <1>5. QED
    BY <1>1, <1>2, <1>3, <1>4

LEMMA TakenBelowLarger ==
    ASSUME TypeOK, NEW m \in Nat, NEW n \in Nat, m <= n, TakenBelow(m)
    PROVE  TakenBelow(n)
  BY RunTypes DEF TakenBelow

\* Steps that take no sector.
LEMMA RunsKept ==
    ASSUME TypeOK, TypeOK', RunsSound,
           SectorIdx \in Nat, SectorIdx' \in Nat, SectorIdx <= SectorIdx',
           miniSecs' = miniSecs,
           \A t \in Streams :
              /\ Regular(t)' <=> Regular(t)
              /\ Regular(t) => chain'[t] = chain[t]
              /\ ~Regular(t) /\ ~closed'[t] => chain'[t] = <<>>
              /\ Flushing(t)' /\ ~err' =>
                    \/ Flushing(t) /\ ~err /\ first'[t] = first[t]
                    \/ first'[t] = SectorIdx
    PROVE  RunsSound'
  <1>1. \A t \in Streams, i, n \in Int : Owns(t, i, n)' <=> Owns(t, i, n)
    BY DEF Owns
  <1>2. OneOwner'
    <2>1. \A k \in DOMAIN miniSecs : miniSecs[k] \in Int
      BY RunTypes
    <2>2. OneOwner
      BY DEF RunsSound
    <2>3. ASSUME NEW s \in Streams, NEW t \in Streams, NEW i \in Int, NEW j \in Int, NEW n \in Int,
                 Owns(s, i, n)', Owns(t, j, n)'
          PROVE  s = t /\ i = j
      <3>1. Owns(s, i, n) /\ Owns(t, j, n)
        BY <1>1, <2>3
      <3>2. QED
        BY <2>2, <3>1 DEF OneOwner
    <2>4. ASSUME NEW s \in Streams, NEW i \in Int, NEW k \in DOMAIN miniSecs
          PROVE  ~Owns(s, i, miniSecs[k])'
      <3>1. Owns(s, i, miniSecs[k])' <=> Owns(s, i, miniSecs[k])
        BY <1>1, <2>1 DEF Owns
      <3>2. QED
        BY <2>2, <3>1 DEF OneOwner
    <2>5. \A k, l \in DOMAIN miniSecs' : k < l => miniSecs'[k] < miniSecs'[l]
      BY <2>2 DEF OneOwner
    <2>6. QED
      BY <2>3, <2>4, <2>5 DEF OneOwner
  <1>3. \A n : TakenBelow(n)' <=> TakenBelow(n)
    BY DEF TakenBelow
  <1>4. TakenBelow(SectorIdx)'
    <2>1. TakenBelow(SectorIdx')
      BY TakenBelowLarger DEF RunsSound
    <2>2. QED
      BY <2>1 DEF TakenBelow
  <1>5. ASSUME NEW t \in Streams
        PROVE  Regular(t)' => \A i \in DOMAIN chain'[t] : chain'[t][i].count > 0
    BY DEF RunsSound
  <1>6. ASSUME NEW t \in Streams, Flushing(t)', ~err' PROVE TakenBelow(first[t])'
    <2>1. TakenBelow(first'[t])
      BY <1>6 DEF RunsSound
    <2>2. QED
      BY <2>1 DEF TakenBelow
  <1>7. QED
    BY <1>2, <1>4, <1>5, <1>6 DEF RunsSound

\* The runs of ch end at or before sector f.
EndsBelow(ch, f) == \A i \in DOMAIN ch : RunEnd(ch[i]) <= f /\ ch[i].count > 0

\* new has the sectors of ch and, in its last run, sectors f .. f+n-1.
Extends(ch, new, f, n) ==
    \A i \in DOMAIN new :
        /\ RunEnd(new[i]) <= f + n
        /\ new[i].count > 0
        /\ \A x \in RunSects(new[i]) :
              \/ i \in DOMAIN ch /\ x \in RunSects(ch[i])
              \/ i = Len(new) /\ f <= x

\* What a successful flush adds to a chain, to the last run or as a new one.
LEMMA AddRunAdds ==
    ASSUME NEW ch \in Seq(Runs), NEW f \in Nat, NEW n \in Nat, n > 0, f + n < Words,
           EndsBelow(ch, f)
    PROVE  AddRun(ch, f, n) \in Seq(Runs) /\ Extends(ch, AddRun(ch, f, n), f, n)
  <1> USE DEF EndsBelow, Extends
  <1> DEFINE last == ch[Len(ch)]
             merged == [first |-> last.first, count |-> U32(last.count + n)]
             fresh == [first |-> f, count |-> n]
  <1>1. \A r \in Runs : r.first \in Nat /\ r.count \in Nat /\ RunEnd(r) = r.first + r.count
    BY GeometryAssumption DEF Runs, Words32, RunEnd
  <1>2. \A i \in DOMAIN ch : ch[i] \in Runs
    OBVIOUS
  <1>3. CASE ch # <<>> /\ U32(last.first + last.count) = f
    <2>1. Len(ch) \in DOMAIN ch /\ last \in Runs
      BY <1>3
    <2>2. RunEnd(last) <= f /\ RunEnd(last) = last.first + last.count
          /\ last.first \in Nat /\ last.count \in Nat
      BY <1>1, <2>1
    <2>3. last.first + last.count \in Nat /\ last.first + last.count < Words
      BY <2>2, GeometryAssumption
    <2>4. last.first + last.count = f
      BY <1>3, <2>3, U32Type
    <2>5. last.count + n \in Nat /\ last.count + n < Words
      BY <2>2, <2>4, GeometryAssumption
    <2>6. U32(last.count + n) = last.count + n /\ U32(last.count + n) \in Words32
      BY <2>5, U32Type
    <2>7. /\ merged \in Runs /\ merged.first = last.first /\ merged.count = last.count + n
      BY <2>1, <2>6 DEF Runs
    <2>8. AddRun(ch, f, n) = [ch EXCEPT ![Len(ch)] = merged]
      BY <1>3 DEF AddRun
    <2>9. AddRun(ch, f, n) \in Seq(Runs) /\ Len(AddRun(ch, f, n)) = Len(ch)
          /\ DOMAIN AddRun(ch, f, n) = DOMAIN ch
          /\ AddRun(ch, f, n)[Len(ch)] = merged
          /\ \A i \in DOMAIN ch : i # Len(ch) => AddRun(ch, f, n)[i] = ch[i]
      BY <2>1, <2>7, <2>8
    <2>10. RunEnd(merged) = f + n /\ merged.count > 0
      <3>1. RunEnd(merged) = last.first + (last.count + n)
        BY <2>7 DEF RunEnd
      <3>2. \A x, y \in Nat : x + (y + n) = (x + y) + n
        OBVIOUS
      <3>3. last.first + (last.count + n) = f + n
        <4>1. last.first + (last.count + n) = (last.first + last.count) + n
          BY <2>2, <3>2, Zenon
        <4>2. QED
          BY <2>4, <4>1, Zenon
      <3>4. merged.count > 0
        BY <2>2, <2>7
      <3>5. QED
        BY <3>1, <3>3, <3>4
    <2>11. ASSUME NEW x \in RunSects(merged) PROVE x \in RunSects(last) \/ f <= x
      BY <2>2, <2>4, <2>7, <2>10 DEF RunSects
    <2>12. ASSUME NEW i \in DOMAIN ch PROVE RunEnd(ch[i]) <= f + n
      BY <1>1, <1>2
    <2>13. QED
      BY <2>9, <2>10, <2>11, <2>12
  <1>4. CASE ~(ch # <<>> /\ U32(last.first + last.count) = f)
    <2>1. AddRun(ch, f, n) = Append(ch, fresh)
      BY <1>4 DEF AddRun
    <2>2. fresh \in Runs /\ RunEnd(fresh) = f + n /\ fresh.count = n
      BY GeometryAssumption DEF Runs, Words32, RunEnd
    <2>3. /\ AddRun(ch, f, n) \in Seq(Runs)
          /\ Len(AddRun(ch, f, n)) = Len(ch) + 1
          /\ DOMAIN AddRun(ch, f, n) = 1 .. Len(ch) + 1
          /\ AddRun(ch, f, n)[Len(ch) + 1] = fresh
          /\ \A i \in DOMAIN ch : AddRun(ch, f, n)[i] = ch[i]
      BY <2>1, <2>2
    <2>4. ASSUME NEW i \in 1 .. Len(ch) + 1 PROVE i \in DOMAIN ch \/ i = Len(ch) + 1
      OBVIOUS
    <2>5. ASSUME NEW x \in RunSects(fresh) PROVE f <= x
      BY DEF RunSects
    <2>6. ASSUME NEW i \in DOMAIN ch PROVE RunEnd(ch[i]) <= f + n
      BY <1>1, <1>2
    <2>7. QED
      BY <2>2, <2>3, <2>4, <2>5, <2>6
  <1>5. QED
    BY <1>3, <1>4

\* A chain that has grown by sectors f .. f+n-1, above everything taken before.
LEMMA RunsExtended ==
    ASSUME TypeOK, TypeOK', NEW s \in Streams, NEW f \in Nat, NEW n \in Nat,
           OneOwner, TakenBelow(f),
           miniSecs' = miniSecs,
           Regular(s)',
           Regular(s) \/ chain[s] = <<>>,
           Extends(chain[s], chain'[s], f, n),
           \A t \in Streams \ {s} : (Regular(t)' <=> Regular(t)) /\ chain'[t] = chain[t]
    PROVE  OneOwner' /\ TakenBelow(f + n)'
  \* Whoever owned a sector before, it lies below f.
  <1>1. ASSUME NEW t \in Streams, NEW i \in Int, NEW x \in Int, Owns(t, i, x) PROVE x < f
    <2>1. /\ Regular(t) /\ i \in DOMAIN chain[t]
          /\ x \in chain[t][i].first .. RunEnd(chain[t][i]) - 1
      BY <1>1 DEF Owns, RunSects
    <2>2. RunEnd(chain[t][i]) <= f /\ RunEnd(chain[t][i]) \in Nat
      BY <2>1, RunTypes DEF TakenBelow
    <2>3. QED
      BY <2>1, <2>2
  \* Who owns a sector now owned it before, or it is a new one of s.
  <1>2. ASSUME NEW t \in Streams, NEW i \in Int, NEW x \in Int, Owns(t, i, x)'
        PROVE  Owns(t, i, x) \/ (t = s /\ i = Len(chain'[s]) /\ f <= x)
    <2>1. CASE t = s
      <3>1. i \in DOMAIN chain'[s] /\ x \in RunSects(chain'[s][i])
        BY <1>2, <2>1 DEF Owns, RunSects, RunEnd
      <3>2. \/ i \in DOMAIN chain[s] /\ x \in RunSects(chain[s][i])
            \/ i = Len(chain'[s]) /\ f <= x
        BY <3>1 DEF Extends
      <3>3. CASE i \in DOMAIN chain[s] /\ x \in RunSects(chain[s][i])
        BY <2>1, <3>3 DEF Owns
      <3>4. QED
        BY <2>1, <3>2, <3>3
    <2>2. CASE t # s
      BY <1>2, <2>2 DEF Owns
    <2>3. QED
      BY <2>1, <2>2
  <1>3. OneOwner'
    <2>1. ASSUME NEW t \in Streams, NEW u \in Streams, NEW i \in Int, NEW j \in Int, NEW x \in Int,
                 Owns(t, i, x)', Owns(u, j, x)'
          PROVE  t = u /\ i = j
      <3>1. /\ Owns(t, i, x) \/ (t = s /\ i = Len(chain'[s]) /\ f <= x)
            /\ Owns(u, j, x) \/ (u = s /\ j = Len(chain'[s]) /\ f <= x)
        BY <1>2, <2>1
      <3>2. (Owns(t, i, x) => x < f) /\ (Owns(u, j, x) => x < f)
        BY <1>1
      <3>3. CASE Owns(t, i, x) /\ Owns(u, j, x)
        BY <3>3 DEF OneOwner
      <3>4. QED
        BY <3>1, <3>2, <3>3
    <2>2. ASSUME NEW t \in Streams, NEW i \in Int, NEW k \in DOMAIN miniSecs
          PROVE  ~Owns(t, i, miniSecs[k])'
      <3>1. miniSecs[k] \in Nat /\ miniSecs[k] < f
        BY RunTypes DEF TakenBelow
      <3>2. ~Owns(t, i, miniSecs[k])
        BY DEF OneOwner
      <3>3. ASSUME NEW x \in Int, x = miniSecs[k], Owns(t, i, x)' PROVE FALSE
        BY <1>2, <3>1, <3>2, <3>3
      <3>4. QED
        BY <3>1, <3>3 DEF Owns
    <2>3. \A k, l \in DOMAIN miniSecs' : k < l => miniSecs'[k] < miniSecs'[l]
      BY DEF OneOwner
    <2>4. QED
      BY <2>1, <2>2, <2>3 DEF OneOwner
  <1>4. TakenBelow(f + n)'
    <2>1. ASSUME NEW t \in Streams, Regular(t)', NEW i \in DOMAIN chain'[t]
          PROVE  RunEnd(chain'[t][i]) <= f + n
      <3>1. CASE t = s
        BY <2>1, <3>1 DEF Extends
      <3>2. CASE t # s
        <4>1. Regular(t) /\ chain'[t] = chain[t]
          BY <2>1, <3>2
        <4>2. RunEnd(chain[t][i]) <= f /\ RunEnd(chain[t][i]) \in Nat
          BY <4>1, RunTypes DEF TakenBelow
        <4>3. QED
          BY <4>1, <4>2
      <3>3. QED
        BY <3>1, <3>2
    <2>2. ASSUME NEW k \in DOMAIN miniSecs' PROVE miniSecs'[k] < f + n
      <3>1. miniSecs[k] \in Nat /\ miniSecs[k] < f
        BY RunTypes DEF TakenBelow
      <3>2. QED
        BY <3>1
    <2>3. QED
      BY <2>1, <2>2 DEF TakenBelow, RunEnd
  <1>5. QED
    BY <1>3, <1>4

\* A full sector of the mini-stream, which takes the next number.
LEMMA MiniSecAppended ==
    ASSUME TypeOK, TypeOK', RunsSound, NEW n \in Nat,
           n = SectorIdx, SectorIdx' = n + 1,
           miniSecs' = Append(miniSecs, n),
           \A t \in Streams :
              /\ Regular(t)' <=> Regular(t)
              /\ Regular(t) => chain'[t] = chain[t]
              /\ ~Regular(t) /\ ~closed'[t] => chain'[t] = <<>>
              /\ ~Flushing(t)'
    PROVE  RunsSound'
  <1>1. /\ DOMAIN miniSecs' = DOMAIN miniSecs \cup {Len(miniSecs) + 1}
        /\ \A k \in DOMAIN miniSecs : miniSecs'[k] = miniSecs[k] /\ k < Len(miniSecs) + 1
        /\ miniSecs'[Len(miniSecs) + 1] = n
        /\ Len(miniSecs) + 1 \notin DOMAIN miniSecs
    <2>1. miniSecs \in Seq(Words32)
      BY DEF TypeOK, SharedType
    <2>2. QED
      BY <2>1
  <1>2. ASSUME NEW t \in Streams, NEW i, NEW x, Owns(t, i, x)'
        PROVE  Owns(t, i, x)
    BY <1>2 DEF Owns
  <1>3. ASSUME NEW t \in Streams, NEW i \in Int, Owns(t, i, n) PROVE FALSE
    <2>1. /\ Regular(t) /\ i \in DOMAIN chain[t]
          /\ n \in chain[t][i].first .. RunEnd(chain[t][i]) - 1
      BY <1>3 DEF Owns, RunSects
    <2>2. RunEnd(chain[t][i]) <= n /\ RunEnd(chain[t][i]) \in Nat
      BY <2>1, RunTypes DEF TakenBelow, RunsSound
    <2>3. QED
      BY <2>1, <2>2
  <1>4. \A k \in DOMAIN miniSecs : miniSecs[k] \in Nat /\ miniSecs[k] < n
    BY RunTypes DEF TakenBelow, RunsSound
  <1>5. OneOwner'
    <2>1. ASSUME NEW t \in Streams, NEW u \in Streams, NEW i \in Int, NEW j \in Int, NEW x \in Int,
                 Owns(t, i, x)', Owns(u, j, x)'
          PROVE  t = u /\ i = j
      BY <1>2, <2>1 DEF RunsSound, OneOwner
    <2>2. ASSUME NEW t \in Streams, NEW i \in Int, NEW k \in DOMAIN miniSecs',
                 Owns(t, i, miniSecs[k])'
          PROVE  FALSE
      <3>1. Owns(t, i, miniSecs'[k])
        BY <2>2 DEF Owns
      <3>2. CASE k \in DOMAIN miniSecs
        BY <1>1, <3>1, <3>2 DEF RunsSound, OneOwner
      <3>3. CASE k = Len(miniSecs) + 1
        BY <1>1, <1>3, <3>1, <3>3
      <3>4. QED
        BY <1>1, <3>2, <3>3
    <2>3. ASSUME NEW k \in DOMAIN miniSecs', NEW l \in DOMAIN miniSecs', k < l
          PROVE  miniSecs'[k] < miniSecs'[l]
      <3>0. miniSecs \in Seq(Words32) /\ DOMAIN miniSecs = 1 .. Len(miniSecs)
        BY DEF TypeOK, SharedType
      <3>1. CASE l \in DOMAIN miniSecs
        BY <1>1, <2>3, <3>0, <3>1 DEF RunsSound, OneOwner
      <3>2. CASE l = Len(miniSecs) + 1
        <4>1. k \in DOMAIN miniSecs
          BY <1>1, <2>3, <3>0, <3>2
        <4>2. QED
          BY <1>1, <1>4, <3>2, <4>1
      <3>3. QED
        BY <1>1, <3>1, <3>2
    <2>4. QED
      BY <2>1, <2>2, <2>3 DEF OneOwner
  <1>6. TakenBelow(SectorIdx)'
    <2>1. ASSUME NEW t \in Streams, Regular(t)', NEW i \in DOMAIN chain'[t]
          PROVE  RunEnd(chain'[t][i]) <= n + 1
      <3>1. chain'[t] = chain[t] /\ Regular(t)
        BY <2>1
      <3>2. RunEnd(chain[t][i]) <= n /\ RunEnd(chain[t][i]) \in Nat
        BY <3>1, RunTypes DEF TakenBelow, RunsSound
      <3>3. QED
        BY <3>1, <3>2
    <2>2. ASSUME NEW k \in DOMAIN miniSecs' PROVE miniSecs'[k] < n + 1
      BY <1>1, <1>4
    <2>3. QED
      BY <2>1, <2>2 DEF TakenBelow, RunEnd
  <1>7. ASSUME NEW t \in Streams, Regular(t)'
        PROVE  \A i \in DOMAIN chain'[t] : chain'[t][i].count > 0
    BY <1>7 DEF RunsSound
  <1>8. QED
    BY <1>5, <1>6, <1>7 DEF RunsSound

-----------------------------------------------------------------------------
(* Every step keeps RunInv                                                  *)

LEMMA DivSum ==
    ASSUME NEW m \in Nat, NEW k \in Nat, NEW d \in Nat \ {0}, m % d = 0, k % d = 0, k > 0
    PROVE  /\ (m + k) \div d = m \div d + k \div d
           /\ k \div d \in Nat /\ k \div d > 0 /\ m \div d \in Nat
  <1>1. m = d * (m \div d) /\ k = d * (k \div d) /\ m \div d \in Nat /\ k \div d \in Nat
    OBVIOUS
  <1>2. k \div d > 0
    BY <1>1
  <1>3. m + k = d * (m \div d + k \div d)
    BY <1>1
  <1>4. \A q \in Nat : (d * q) \div d = q
    OBVIOUS
  <1>5. m \div d + k \div d \in Nat
    BY <1>1
  <1>6. QED
    BY <1>1, <1>2, <1>3, <1>4, <1>5

\* A sector number of the file survives the conversion to uint32.
LEMMA SectorIdxFits ==
    ASSUME TypeOK, FileFits
    PROVE  SectorIdx \in Nat /\ SectorIdx < Words /\ U32(SectorIdx) = SectorIdx
  <1>1. SectorIdx \in Nat
    BY SectorIdxType
  <1>2. SectorIdx < Words
    BY <1>1, GeometryAssumption DEF FileFits, MaxRegSect
  <1>3. QED
    BY <1>1, <1>2, U32Type

\* A successful flush has written whole sectors from first[s] on.
LEMMA FlushedSectors ==
    ASSUME TypeOK, TypeOK', CallInv, AlignInv, FileFits', NEW s \in Streams, FlushRest(s),
           NEW n, n = (Len(buf[s]) + Len(b[s])) \div SecSize
    PROVE  /\ n \in Nat /\ n > 0 /\ U32(n) = n
           /\ first[s] \in Nat
           /\ SectorIdx' = first[s] + n
           /\ first[s] + n < Words
  <1> DEFINE base == Len(out) - Len(buf[s])
             k == Len(buf[s]) + Len(b[s])
  <1>1. pc[s] = "flushdata" /\ ~err /\ out' = out \o b[s]
    BY DEF FlushRest, Put
  <1>2. /\ Len(out) \in Nat /\ Len(buf[s]) \in Nat /\ Len(b[s]) \in Nat
        /\ out \in Seq(Cells) /\ b[s] \in Seq(Cells)
    <2>1. out \in Seq(Cells)
      BY DEF TypeOK, SharedType
    <2>2. buf[s] \in Seq(Cells)
      BY DEF TypeOK, FieldsType
    <2>3. b[s] \in Seq(Cells)
      BY DEF TypeOK, LocalsType
    <2>4. QED
      BY <2>1, <2>2, <2>3
  <1>3. base >= 0 /\ base % SecSize = 0 /\ first[s] = U32(base \div SecSize)
    BY <1>1 DEF AlignInv, AtBoundary, Flushing, FlushBase
  <1>4. k > 0 /\ k % SecSize = 0
    BY <1>1 DEF CallInv, StepOf, Flushing
  <1>5. base \in Nat /\ k \in Nat /\ Len(out') = base + k
    <2>1. Len(out') = Len(out) + Len(b[s])
      BY <1>1, <1>2, ConcatLength
    <2>2. /\ Len(out) - Len(buf[s]) \in Nat /\ Len(buf[s]) + Len(b[s]) \in Nat
          /\ Len(out) + Len(b[s]) = (Len(out) - Len(buf[s])) + (Len(buf[s]) + Len(b[s]))
      <3>1. Len(out) - Len(buf[s]) >= 0
        BY <1>3
      <3>2. Len(out) \in Nat /\ Len(buf[s]) \in Nat /\ Len(b[s]) \in Nat
        BY <1>2
      <3>3. PICK l \in Nat, m \in Nat, j \in Nat :
                  l = Len(out) /\ m = Len(buf[s]) /\ j = Len(b[s])
        BY <3>2, Zenon
      <3>4. l - m \in Nat /\ m + j \in Nat /\ l + j = (l - m) + (m + j)
        <4>1. l - m >= 0
          BY <3>1, <3>3, Zenon
        <4>2. QED
          BY <4>1, SMT
      <3>5. QED
        BY <3>3, <3>4, Zenon
    <2>3. QED
      BY <2>1, <2>2, Zenon
  <1> HIDE DEF base, k
  <1>6. /\ SectorIdx' = base \div SecSize + k \div SecSize
        /\ k \div SecSize \in Nat /\ k \div SecSize > 0 /\ base \div SecSize \in Nat
    <2>1. SectorIdx' = (base + k) \div SecSize
      BY <1>5 DEF SectorIdx
    <2>2. QED
      BY <1>3, <1>4, <1>5, <2>1, DivSum, Sizes
  <1>7. n = k \div SecSize
    BY DEF k
  <1>8. SectorIdx' < Words
    BY <1>6, GeometryAssumption DEF FileFits, MaxRegSect
  <1>9. base \div SecSize < Words /\ n < Words
    <2>1. ASSUME NEW l \in Nat, NEW m \in Nat, l + m < Words PROVE l < Words /\ m < Words
      BY <2>1, GeometryAssumption
    <2>2. QED
      BY <1>6, <1>7, <1>8, <2>1
  <1>10. first[s] = base \div SecSize /\ U32(n) = n
    BY <1>3, <1>6, <1>7, <1>9, U32Type
  <1>11. QED
    BY <1>6, <1>7, <1>8, <1>10

LEMMA FlushKeepsRuns ==
    ASSUME TypeOK, TypeOK', CallInv, AlignInv, FileFits', RunsSound,
           NEW s \in Streams, FlushRest(s), Regular(s)',
           pc'[s] \in {"idle", "write"},
           \A t \in Streams \ {s} :
              pc'[t] = pc[t] /\ size'[t] = size[t] /\ closed'[t] = closed[t]
    PROVE  RunsSound'
  <1> PICK f, n : f = first[s] /\ n = (Len(buf[s]) + Len(b[s])) \div SecSize
    OBVIOUS
  <1>1. n \in Nat /\ n > 0 /\ U32(n) = n /\ f \in Nat /\ SectorIdx' = f + n /\ f + n < Words
    BY FlushedSectors
  <1>2. /\ pc[s] = "flushdata" /\ ~err /\ mu = s /\ ~closed[s]
        /\ miniSecs' = miniSecs
        /\ \A t \in Streams \ {s} : ~Flushing(t)
    <2>1. pc[s] = "flushdata" /\ ~err /\ miniSecs' = miniSecs
      BY DEF FlushRest, Put
    <2>2. mu = s /\ ~closed[s]
      BY <2>1 DEF CallInv, StepOf, Locked
    <2>3. QED
      BY <2>1, <2>2, OneHolder DEF Locked, Flushing
  <1>3. chain'[s] = AddRun(chain[s], f, n) /\ \A t \in Streams \ {s} : chain'[t] = chain[t]
    BY <1>1 DEF FlushRest, TypeOK, FieldsType
  <1>4. OneOwner /\ TakenBelow(f)
    BY <1>2 DEF RunsSound, Flushing
  <1>5. Regular(s) \/ chain[s] = <<>>
    BY <1>2 DEF RunsSound
  <1>6. chain[s] \in Seq(Runs)
    BY DEF TypeOK, FieldsType, Runs
  <1>7. EndsBelow(chain[s], f)
    <2>1. CASE Regular(s)
      BY <1>4, <2>1 DEF TakenBelow, RunsSound, EndsBelow
    <2>2. CASE chain[s] = <<>>
      BY <2>2 DEF EndsBelow
    <2>3. QED
      BY <1>5, <2>1, <2>2
  <1>8. Extends(chain[s], chain'[s], f, n)
    BY <1>1, <1>3, <1>6, <1>7, AddRunAdds
  <1>9. \A t \in Streams \ {s} : (Regular(t)' <=> Regular(t)) /\ chain'[t] = chain[t]
    BY <1>3 DEF Regular
  <1>10. OneOwner' /\ TakenBelow(f + n)'
    BY <1>1, <1>2, <1>4, <1>5, <1>8, <1>9, RunsExtended
  <1>11. TakenBelow(SectorIdx)'
    <2>1. SectorIdx' = f + n
      BY <1>1
    <2>2. QED
      BY <1>10, <2>1 DEF TakenBelow
  <1>12. ASSUME NEW t \in Streams, Regular(t)'
         PROVE  \A i \in DOMAIN chain'[t] : chain'[t][i].count > 0
    <2>1. CASE t = s
      BY <1>8, <2>1 DEF Extends
    <2>2. CASE t # s
      BY <1>9, <1>12, <2>2 DEF RunsSound
    <2>3. QED
      BY <2>1, <2>2
  <1>13. ASSUME NEW t \in Streams, ~Regular(t)', ~closed'[t] PROVE chain'[t] = <<>>
    <2>1. t # s
      BY <1>13 DEF Regular
    <2>2. QED
      BY <1>9, <1>13, <2>1 DEF RunsSound
  <1>14. ASSUME NEW t \in Streams PROVE ~Flushing(t)'
    BY <1>2 DEF Flushing
  <1>15. QED
    BY <1>10, <1>11, <1>12, <1>13, <1>14 DEF RunsSound

\* A step of writeMini, with or without a full sector.
LEMMA DrainKeepsRuns ==
    ASSUME TypeOK, TypeOK', CallInv, AlignInv, RunsSound, FileFits, FileFits',
           NEW s \in Streams, WriteMini(b[s]), pc[s] = "drain",
           pc'[s] \in {"idle", "drain"}, size' = size,
           chain'[s] = chain[s] \/ closed'[s],
           \A t \in Streams \ {s} :
              pc'[t] = pc[t] /\ chain'[t] = chain[t] /\ closed'[t] = closed[t],
           closed[s] => closed'[s],
           SectorIdx \in Nat, SectorIdx' \in Nat, SectorIdx <= SectorIdx'
    PROVE  RunsSound'
  <1>1. mu = s /\ ~Regular(s) /\ ~closed[s]
    <2>1. mu = s /\ size[s] \in 1 .. Cutoff - 1 /\ ~closed[s]
      BY DEF CallInv, StepOf, Locked
    <2>2. QED
      BY <2>1, Sizes DEF Regular
  <1>2. \A t \in Streams : ~Flushing(t) /\ ~Flushing(t)' /\ pc[t] # "flushdata"
    BY <1>1, OneHolder DEF Locked, Flushing
  <1>3. \A t \in Streams :
           /\ Regular(t)' <=> Regular(t)
           /\ Regular(t) => chain'[t] = chain[t]
           /\ ~Regular(t) /\ ~closed'[t] => chain'[t] = <<>>
    BY <1>1 DEF RunsSound, Regular
  <1>4. CASE Len(MiniFilled(b[s])) # SecSize
    <2>1. miniSecs' = miniSecs
      BY <1>4 DEF WriteMini
    <2>2. QED
      BY <1>2, <1>3, <2>1, RunsKept
  <1>5. CASE Len(MiniFilled(b[s])) = SecSize
    <2>1. /\ ~err /\ out' = out \o MiniFilled(b[s])
          /\ miniSecs' = Append(miniSecs, U32(SectorIdx))
      BY <1>5 DEF WriteMini, Put
    <2>2. U32(SectorIdx) = SectorIdx
      BY SectorIdxFits
    <2>3. Len(out) % SecSize = 0
      BY <1>2, <2>1 DEF AlignInv
    <2>4. SectorIdx' = SectorIdx + 1
      <3>1. out \in Seq(Cells) /\ MiniFilled(b[s]) \in Seq(Cells)
        BY MiniStep DEF TypeOK, SharedType, LocalsType
      <3>2. Len(out') = Len(out) + SecSize /\ Len(out) \in Nat
        <4>1. Len(out \o MiniFilled(b[s])) = Len(out) + Len(MiniFilled(b[s]))
          BY <3>1, ConcatLength, Zenon
        <4>2. Len(out) \in Nat
          BY <3>1
        <4>3. QED
          BY <1>5, <2>1, <4>1, <4>2, Zenon
      <3>3. SecSize % SecSize = 0 /\ SecSize \div SecSize = 1 /\ SecSize > 0 /\ SecSize \in Nat
        BY Sizes
      <3>4. (Len(out) + SecSize) \div SecSize = Len(out) \div SecSize + SecSize \div SecSize
        BY <2>3, <3>2, <3>3, DivSum, Sizes
      <3>5. QED
        BY <3>2, <3>3, <3>4 DEF SectorIdx
    <2>5. QED
      BY <1>2, <1>3, <2>1, <2>2, <2>4, MiniSecAppended
  <1>6. QED
    BY <1>4, <1>5

LEMMA RunNext == TypeOK /\ TypeOK' /\ CallInv /\ AlignInv /\ RunInv /\ [Next]_vars => RunInv'
  <1> SUFFICES ASSUME TypeOK, TypeOK', CallInv, AlignInv, RunInv, [Next]_vars, FileFits'
               PROVE  RunsSound'
    BY DEF RunInv
  <1>1. SectorIdx \in Nat /\ SectorIdx' \in Nat /\ SectorIdx <= SectorIdx' /\ FileFits
    BY SectorIdxGrows
  <1>2. RunsSound
    BY <1>1 DEF RunInv
  \* Steps that take no sector and begin no flush.
  <1>3. ASSUME UNCHANGED <<chain, miniSecs, first, closed>>,
               err' \/ ~err,
               \A t \in Streams :
                  /\ Regular(t)' <=> Regular(t)
                  /\ Flushing(t)' /\ ~err' => Flushing(t)
        PROVE  RunsSound'
    <2>1. ASSUME NEW t \in Streams
          PROVE  /\ Regular(t) => chain'[t] = chain[t]
                 /\ ~Regular(t) /\ ~closed'[t] => chain'[t] = <<>>
                 /\ Flushing(t)' /\ ~err' => Flushing(t) /\ ~err /\ first'[t] = first[t]
      BY <1>2, <1>3 DEF RunsSound
    <2>2. QED
      BY <1>1, <1>2, <1>3, <2>1, RunsKept
  <1>4. ASSUME NEW n \in Streams \cup Storages, Create(n) PROVE RunsSound'
    BY <1>3, <1>4 DEF Create, fields, locals, Flushing, Regular
  <1>5. CASE BeginClose
    BY <1>3, <1>5 DEF BeginClose, fields, locals, Flushing, Regular
  <1>6. CASE UNCHANGED vars
    BY <1>3, <1>6 DEF vars, shared, fields, locals, Flushing, Regular
  <1>7. ASSUME NEW s \in Streams, NEW n \in WriteSizes, Write(s, n) PROVE RunsSound'
    BY <1>3, <1>7 DEF Write, shared, fields, Flushing, Regular, TypeOK, LocalsType
  <1>8. ASSUME NEW s \in Streams, CloseStream(s) PROVE RunsSound'
    BY <1>3, <1>8 DEF CloseStream, shared, fields, Flushing, Regular, TypeOK, LocalsType
  <1>9. ASSUME NEW s \in Streams, KeepRest(s) PROVE RunsSound'
    <2>1. /\ UNCHANGED <<chain, miniSecs, first, closed, err>>
          /\ pc[s] = "write" /\ Buffers(s)
          /\ size'[s] = size[s] + Len(p[s])
          /\ \A t \in Streams \ {s} : size'[t] = size[t]
          /\ \A t \in Streams : Flushing(t)' <=> Flushing(t)
      BY <1>9 DEF KeepRest, Return, shared, Flushing, TypeOK, FieldsType, LocalsType
    <2>2. size[s] < Cutoff => Len(p[s]) < Cutoff - size[s]
      BY <2>1, BufferFits DEF CallInv
    <2>3. Regular(s)' <=> Regular(s)
      <3>1. size[s] \in Nat /\ Len(p[s]) \in Nat
        BY DEF TypeOK, FieldsType, LocalsType
      <3>2. ASSUME NEW z \in Nat, NEW n \in Nat, z < Cutoff => n < Cutoff - z
            PROVE  z + n >= Cutoff <=> z >= Cutoff
        BY <3>2, Sizes
      <3>3. size[s] + Len(p[s]) >= Cutoff <=> size[s] >= Cutoff
        BY <2>2, <3>1, <3>2, Zenon
      <3>4. QED
        BY <2>1, <3>3, Zenon DEF Regular
    <2>4. \A t \in Streams : Regular(t)' <=> Regular(t)
      BY <2>1, <2>3 DEF Regular
    <2>5. QED
      BY <1>3, <2>1, <2>4
  <1>10. ASSUME NEW s \in Streams, CloseNow(s) PROVE RunsSound'
    <2>1. /\ UNCHANGED <<miniSecs, chain, size, first, err>>
          /\ \A t \in Streams : Flushing(t)' => Flushing(t)
          /\ \A t \in Streams : closed'[t] \/ ~closed[t]
      BY <1>10 DEF CloseNow, Return, shared, Flushing, TypeOK, FieldsType, LocalsType
    <2>2. ASSUME NEW t \in Streams
          PROVE  /\ Regular(t)' <=> Regular(t)
                 /\ Regular(t) => chain'[t] = chain[t]
                 /\ ~Regular(t) /\ ~closed'[t] => chain'[t] = <<>>
                 /\ Flushing(t)' /\ ~err' => Flushing(t) /\ ~err /\ first'[t] = first[t]
      BY <1>2, <2>1 DEF RunsSound, Regular
    <2>3. QED
      BY <1>1, <1>2, <2>1, <2>2, RunsKept
  <1>11. ASSUME NEW s \in Streams, CloseMini(s) PROVE RunsSound'
    <2>1. /\ UNCHANGED <<miniSecs, chain, size, closed, err>>
          /\ \A t \in Streams : Flushing(t)' => t # s /\ Flushing(t)
          /\ \A t \in Streams \ {s} : first'[t] = first[t]
      BY <1>11 DEF CloseMini, fields, Flushing, TypeOK, LocalsType
    <2>2. ASSUME NEW t \in Streams
          PROVE  /\ Regular(t)' <=> Regular(t)
                 /\ Regular(t) => chain'[t] = chain[t]
                 /\ ~Regular(t) /\ ~closed'[t] => chain'[t] = <<>>
                 /\ Flushing(t)' /\ ~err' => Flushing(t) /\ ~err /\ first'[t] = first[t]
      BY <1>2, <2>1 DEF RunsSound, Regular
    <2>3. QED
      BY <1>1, <1>2, <2>1, <2>2, RunsKept
  <1>12. ASSUME NEW s \in Streams, NEW x, Flush(s, x) PROVE RunsSound'
    <2>1. U32(SectorIdx) = SectorIdx
      BY <1>1, SectorIdxFits
    <2>2. /\ UNCHANGED <<miniSecs, chain, size, closed, err>>
          /\ first'[s] = SectorIdx
          /\ \A t \in Streams \ {s} : first'[t] = first[t] /\ (Flushing(t)' <=> Flushing(t))
      BY <1>12, <2>1 DEF Flush, fields, Flushing, TypeOK, LocalsType
    <2>3. ASSUME NEW t \in Streams
          PROVE  /\ Regular(t)' <=> Regular(t)
                 /\ Regular(t) => chain'[t] = chain[t]
                 /\ ~Regular(t) /\ ~closed'[t] => chain'[t] = <<>>
                 /\ Flushing(t)' /\ ~err' =>
                       \/ Flushing(t) /\ ~err /\ first'[t] = first[t]
                       \/ first'[t] = SectorIdx
      BY <1>2, <2>2 DEF RunsSound, Regular
    <2>4. QED
      BY <1>1, <1>2, <2>2, <2>3, RunsKept
  <1>13. ASSUME NEW s \in Streams, FlushBuf(s) PROVE RunsSound'
    <2>1. /\ UNCHANGED <<miniSecs, chain, size, closed, first, err>>
          /\ \A t \in Streams : Flushing(t)' <=> Flushing(t)
      BY <1>13 DEF FlushBuf, Put, fields, Flushing, TypeOK, LocalsType
    <2>2. QED
      BY <1>3, <2>1 DEF Regular
  <1>14. ASSUME NEW x, PutFails(x) PROVE err'
    BY <1>14 DEF PutFails
  <1>15. ASSUME NEW s \in Streams, FlushFails(s) PROVE RunsSound'
    <2>1. UNCHANGED <<miniSecs, chain, size, closed, first>> /\ err'
      BY <1>14, <1>15 DEF FlushFails, fields
    <2>2. QED
      BY <1>3, <2>1 DEF Regular
  <1>16. ASSUME NEW s \in Streams, DrainFails(s) PROVE RunsSound'
    <2>1. UNCHANGED <<miniSecs, chain, size, closed, first>> /\ err'
      BY <1>14, <1>16 DEF DrainFails, WriteMiniFails, fields
    <2>2. QED
      BY <1>3, <2>1 DEF Regular
  <1>17. ASSUME NEW s \in Streams, FlushInWrite(s) PROVE RunsSound'
    <2>1. /\ FlushRest(s) /\ pc[s] = "flushdata" /\ p[s] # <<>>
          /\ size'[s] = size[s] + Len(b[s])
          /\ pc'[s] \in {"idle", "write"}
          /\ \A t \in Streams \ {s} :
                pc'[t] = pc[t] /\ size'[t] = size[t] /\ closed'[t] = closed[t]
      BY <1>17 DEF FlushInWrite, FlushRest, Return, TypeOK, FieldsType, LocalsType
    <2>2. size[s] < Cutoff => Len(b[s]) = Cutoff - size[s]
      BY <2>1 DEF CallInv, StepOf, Flushing
    <2>3. Regular(s)'
      <3>1. size[s] \in Nat /\ Len(b[s]) \in Nat
        BY DEF TypeOK, FieldsType, LocalsType
      <3>2. ASSUME NEW z \in Nat, NEW n \in Nat, z < Cutoff => n = Cutoff - z PROVE z + n >= Cutoff
        BY <3>2, Sizes
      <3>3. QED
        BY <2>1, <2>2, <3>1, <3>2 DEF Regular
    <2>4. QED
      BY <1>2, <2>1, <2>3, FlushKeepsRuns
  <1>18. ASSUME NEW s \in Streams, FlushInClose(s) PROVE RunsSound'
    <2>1. /\ FlushRest(s) /\ pc[s] = "flushdata" /\ p[s] = <<>>
          /\ size' = size
          /\ pc'[s] \in {"idle", "write"}
          /\ \A t \in Streams \ {s} : pc'[t] = pc[t]
      BY <1>18 DEF FlushInClose, FlushRest, Return, TypeOK, LocalsType
    <2>2. \A t \in Streams \ {s} : closed'[t] = closed[t]
      BY <1>18 DEF FlushInClose, TypeOK, FieldsType
    <2>3. Regular(s)'
      BY <2>1 DEF CallInv, StepOf, Flushing, Regular
    <2>4. QED
      BY <1>2, <2>1, <2>2, <2>3, FlushKeepsRuns
  <1>19. ASSUME NEW s \in Streams, Drain(s) PROVE RunsSound'
    BY <1>1, <1>2, <1>19, DrainKeepsRuns DEF Drain, fields
  <1>20. ASSUME NEW s \in Streams, DrainLast(s) PROVE RunsSound'
    <2>1. /\ WriteMini(b[s]) /\ pc[s] = "drain" /\ pc'[s] = "idle" /\ size' = size
          /\ \A t \in Streams \ {s} : pc'[t] = pc[t]
      BY <1>20 DEF DrainLast, Return, TypeOK, LocalsType
    <2>2. closed'[s] /\ \A t \in Streams \ {s} : closed'[t] = closed[t]
      BY <1>20 DEF DrainLast, TypeOK, FieldsType
    <2>3. \A t \in Streams \ {s} : chain'[t] = chain[t]
      <3>1. PICK r : chain' = [chain EXCEPT ![s] = r]
        BY <1>20 DEF DrainLast
      <3>2. QED
        BY <3>1 DEF TypeOK, FieldsType
    <2>4. QED
      BY <1>1, <1>2, <2>1, <2>2, <2>3, DrainKeepsRuns
  <1>21. QED
    BY <1>4, <1>5, <1>6, <1>7, <1>8, <1>9, <1>10, <1>11, <1>12, <1>13, <1>15, <1>16, <1>17,
       <1>18, <1>19, <1>20
       DEF Next, ClientNext, Advance, Acquire, CreateStream, CreateStorage, WriteFlush, ClosePadded

LEMMA RunsDisjoint == TypeOK /\ RunInv => SectorsDisjoint
  <1> SUFFICES ASSUME TypeOK, RunInv, FileFits PROVE SectorsDisjoint
    BY DEF SectorsDisjoint
  <1>1. RunsSound
    BY DEF RunInv
  <1>2. \A s \in Streams : \A i \in DOMAIN chain[s] :
           i \in Int /\ chain[s][i].first \in Nat /\ RunEnd(chain[s][i]) \in Nat
    <2>1. ASSUME NEW s \in Streams, NEW i \in DOMAIN chain[s] PROVE i \in Int
      <3>1. chain[s] \in Seq(Runs)
        BY DEF TypeOK, FieldsType, Runs
      <3>2. QED
        BY <3>1
    <2>2. QED
      BY <2>1, RunTypes
  <1>3. ASSUME NEW s \in Streams, Regular(s), NEW i \in DOMAIN chain[s]
        PROVE  /\ chain[s][i].count > 0
               /\ RunEnd(chain[s][i]) <= SectorIdx
               /\ \A k \in DOMAIN miniSecs : miniSecs[k] \notin RunSects(chain[s][i])
    BY <1>1, <1>2, <1>3 DEF RunsSound, TakenBelow, OneOwner, Owns
  <1>4. ASSUME NEW s \in Streams, Regular(s), NEW i \in DOMAIN chain[s],
               NEW t \in Streams, Regular(t), NEW j \in DOMAIN chain[t],
               <<s, i>> # <<t, j>>
        PROVE  RunSects(chain[s][i]) \cap RunSects(chain[t][j]) = {}
    <2>1. ASSUME NEW x, x \in RunSects(chain[s][i]), x \in RunSects(chain[t][j]) PROVE FALSE
      <3>1. x \in Int
        BY <1>2, <2>1 DEF RunSects
      <3>2. Owns(s, i, x) /\ Owns(t, j, x)
        BY <1>4, <2>1 DEF Owns
      <3>3. s = t /\ i = j
        BY <1>1, <1>2, <3>1, <3>2 DEF RunsSound, OneOwner
      <3>4. QED
        BY <1>4, <3>3
    <2>2. QED
      BY <2>1
  <1>5. ASSUME NEW k \in DOMAIN miniSecs
        PROVE  /\ miniSecs[k] < SectorIdx
               /\ \A l \in DOMAIN miniSecs : k < l => miniSecs[k] < miniSecs[l]
    BY <1>1 DEF RunsSound, TakenBelow, OneOwner
  <1>6. QED
    BY <1>3, <1>4, <1>5 DEF SectorsDisjoint

(* As long as the sector numbers fit a FAT word, no sector is recorded      *)
(* twice, whatever flushes and Closes of however many streams interleave    *)
(* and fail: the sector number flush and writeMini read under w.mu stays    *)
(* the position of their write until they have recorded it.                 *)
THEOREM SectorsNeverShared == Spec => []SectorsDisjoint
  <1>1. Spec => [](TypeOK /\ CallInv /\ AlignInv /\ RunInv)
    <2>1. Init => TypeOK /\ CallInv /\ AlignInv /\ RunInv
      BY TypeInit, CallInit, AlignInit, RunInit
    <2>2. TypeOK /\ CallInv /\ AlignInv /\ RunInv /\ [Next]_vars
             => (TypeOK /\ CallInv /\ AlignInv /\ RunInv)'
      BY TypeNext, CallNext, AlignNext, RunNext
    <2>3. QED
      BY <2>1, <2>2, PTL DEF Spec
  <1>2. QED
    BY <1>1, RunsDisjoint, PTL

-----------------------------------------------------------------------------
(* Gathering the cells a list of runs addresses. One definition serves for  *)
(* the runs in the file, those in the mini-stream, and the sectors of the   *)
(* mini-stream, as runs of one.                                             *)

RunsOf == Seq([first : Nat, count : Nat])

\* The cells of o that r addresses, in units of u.
Piece(o, r, u) == SubSeq(o, r.first * u + 1, RunEnd(r) * u)

Pieces(o, ch, u) == [i \in DOMAIN ch |-> Piece(o, ch[i], u)]

Gather(o, ch, u) == FlattenSeq(Pieces(o, ch, u))

\* The runs end within o.
Inside(o, ch, u) == \A i \in DOMAIN ch : RunEnd(ch[i]) * u <= Len(o)

LEMMA Times ==
    ASSUME NEW m \in Nat, NEW n \in Nat, NEW u \in Nat, m <= n
    PROVE  m * u \in Nat /\ n * u \in Nat /\ m * u <= n * u
  <1>1. m * u \in Nat /\ n * u \in Nat
    OBVIOUS
  <1>2. PICK k \in Nat : n = m + k
    <2>1. n - m \in Nat /\ n = m + (n - m)
      OBVIOUS
    <2>2. QED
      BY <2>1
  <1>3. n * u = m * u + k * u /\ k * u \in Nat
    BY <1>2
  <1>4. QED
    BY <1>1, <1>3

\* A piece within o is a sequence of cells, as long as its run says.
LEMMA PieceType ==
    ASSUME NEW o \in Seq(Cells), NEW r \in [first : Nat, count : Nat], NEW u \in Nat,
           RunEnd(r) * u <= Len(o)
    PROVE  /\ Piece(o, r, u) \in Seq(Cells)
           /\ r.first * u \in Nat /\ RunEnd(r) * u \in Nat /\ r.first * u <= RunEnd(r) * u
           /\ Len(Piece(o, r, u)) = RunEnd(r) * u - r.first * u
  <1>1. r.first \in Nat /\ RunEnd(r) \in Nat /\ r.first <= RunEnd(r)
    BY DEF RunEnd
  <1>2. r.first * u \in Nat /\ RunEnd(r) * u \in Nat /\ r.first * u <= RunEnd(r) * u
    BY <1>1, Times
  <1>3. \A a, c \in Nat : a <= c /\ c <= Len(o) =>
           SubSeq(o, a + 1, c) \in Seq(Cells) /\ Len(SubSeq(o, a + 1, c)) = c - a
    BY Slice
  <1>4. QED
    BY <1>2, <1>3 DEF Piece

LEMMA PiecesType ==
    ASSUME NEW o \in Seq(Cells), NEW ch \in RunsOf, NEW u \in Nat, Inside(o, ch, u)
    PROVE  /\ Pieces(o, ch, u) \in Seq(Seq(Cells))
           /\ Len(Pieces(o, ch, u)) = Len(ch)
           /\ Gather(o, ch, u) \in Seq(Cells)
  <1>1. ASSUME NEW i \in DOMAIN ch PROVE Piece(o, ch[i], u) \in Seq(Cells)
    <2>1. ch[i] \in [first : Nat, count : Nat]
      BY ElementType DEF RunsOf
    <2>2. QED
      BY <2>1, PieceType DEF Inside
  <1>2. Len(ch) \in Nat /\ DOMAIN ch = 1 .. Len(ch)
    BY DEF RunsOf
  <1>3. Pieces(o, ch, u) \in Seq(Seq(Cells)) /\ Len(Pieces(o, ch, u)) = Len(ch)
    BY <1>1, <1>2 DEF Pieces
  <1>4. <<>> \in Seq(Cells)
    OBVIOUS
  <1>5. QED
    BY <1>3, <1>4, FlattenLast DEF Gather

\* Nothing is gathered without runs.
LEMMA GatherNone == ASSUME NEW o, NEW u PROVE Gather(o, <<>>, u) = <<>>
  BY DEF Gather, Pieces, FlattenSeq

\* A slice of o is what it is when o grows.
LEMMA CellsStay ==
    ASSUME NEW o \in Seq(Cells), NEW x \in Seq(Cells)
    PROVE  \A a, c \in Nat : c <= Len(o) => SubSeq(Cat(o, x), a + 1, c) = SubSeq(o, a + 1, c)
  BY SliceStays, Zenon

\* What is appended to o later does not matter.
LEMMA GatherStays ==
    ASSUME NEW o \in Seq(Cells), NEW x \in Seq(Cells), NEW ch \in RunsOf, NEW u \in Nat,
           Inside(o, ch, u)
    PROVE  Gather(Cat(o, x), ch, u) = Gather(o, ch, u) /\ Inside(Cat(o, x), ch, u)
  <1>1. Len(Cat(o, x)) = Len(o) + Len(x) /\ Len(o) \in Nat /\ Len(x) \in Nat
    BY CatType
  <1>2. ASSUME NEW i \in DOMAIN ch
        PROVE  /\ Piece(Cat(o, x), ch[i], u) = Piece(o, ch[i], u)
               /\ RunEnd(ch[i]) * u <= Len(Cat(o, x))
    <2>1. ch[i] \in [first : Nat, count : Nat] /\ RunEnd(ch[i]) * u <= Len(o)
      BY ElementType DEF RunsOf, Inside
    <2>2. ch[i].first * u \in Nat /\ RunEnd(ch[i]) * u \in Nat
      BY <2>1, PieceType
    <2>3. \A a, c \in Nat : c <= Len(o) => SubSeq(Cat(o, x), a + 1, c) = SubSeq(o, a + 1, c)
      BY CellsStay
    <2>4. Piece(Cat(o, x), ch[i], u) = Piece(o, ch[i], u)
      BY <2>1, <2>2, <2>3, Zenon DEF Piece
    <2>5. QED
      BY <1>1, <2>1, <2>2, <2>4
  <1>3. Pieces(Cat(o, x), ch, u) = Pieces(o, ch, u)
    BY <1>2 DEF Pieces
  <1>4. QED
    BY <1>2, <1>3 DEF Gather, Inside

\* A new run adds the cells it addresses, at the end.
LEMMA GatherNew ==
    ASSUME NEW o \in Seq(Cells), NEW ch \in RunsOf, NEW u \in Nat, Inside(o, ch, u),
           NEW r \in [first : Nat, count : Nat], RunEnd(r) * u <= Len(o)
    PROVE  /\ Gather(o, Append(ch, r), u) = Cat(Gather(o, ch, u), Piece(o, r, u))
           /\ Inside(o, Append(ch, r), u)
  <1> DEFINE new == Append(ch, r)
             n == Len(ch)
  <1>1. /\ n \in Nat /\ DOMAIN ch = 1 .. n
        /\ new \in RunsOf /\ Len(new) = n + 1 /\ DOMAIN new = 1 .. n + 1
        /\ new[n + 1] = r /\ \A i \in 1 .. n : new[i] = ch[i]
    BY DEF RunsOf
  <1> HIDE DEF new, n
  <1>2. \A i \in 1 .. n + 1 : i \in 1 .. n \/ i = n + 1
    BY <1>1
  <1>3. Inside(o, new, u)
    BY <1>1, <1>2 DEF Inside
  <1>4. /\ Pieces(o, ch, u) \in Seq(Seq(Cells)) /\ Len(Pieces(o, ch, u)) = n
        /\ Pieces(o, new, u) \in Seq(Seq(Cells)) /\ Len(Pieces(o, new, u)) = n + 1
    BY <1>1, <1>3, PiecesType DEF n
  <1>5. \A i \in 1 .. n : Pieces(o, ch, u)[i] = Pieces(o, new, u)[i]
    BY <1>1 DEF Pieces
  <1>6. Pieces(o, new, u)[n + 1] = Piece(o, r, u)
    BY <1>1 DEF Pieces
  <1>7. Agree(Pieces(o, ch, u), Pieces(o, new, u), n)
    BY <1>5 DEF Agree
  <1>8. Gather(o, new, u) = Cat(Gather(o, ch, u), Pieces(o, new, u)[n + 1])
    BY <1>4, <1>7, FlattenMore DEF Gather
  <1>9. QED
    BY <1>3, <1>6, <1>8 DEF new

\* A longer last run adds the cells by which it is longer.
LEMMA GatherMore ==
    ASSUME NEW o \in Seq(Cells), NEW ch \in RunsOf, NEW u \in Nat, Inside(o, ch, u),
           ch # <<>>, NEW last, last = ch[Len(ch)], NEW k \in Nat,
           (RunEnd(last) + k) * u <= Len(o),
           NEW new, new = [ch EXCEPT ![Len(ch)] = [first |-> last.first, count |-> last.count + k]]
    PROVE  /\ Gather(o, new, u)
                = Cat(Gather(o, ch, u), SubSeq(o, RunEnd(last) * u + 1, (RunEnd(last) + k) * u))
           /\ Inside(o, new, u)
  <1>1. PICK n \in Nat : Len(ch) = n + 1 /\ DOMAIN ch = 1 .. n + 1
    <2>1. Len(ch) \in Nat /\ Len(ch) # 0 /\ DOMAIN ch = 1 .. Len(ch)
      BY EmptySeq, LenProperties DEF RunsOf
    <2>2. Len(ch) - 1 \in Nat /\ Len(ch) = (Len(ch) - 1) + 1
      BY <2>1
    <2>3. QED
      BY <2>1, <2>2
  <1>2. last \in [first : Nat, count : Nat] /\ last.first \in Nat /\ last.count \in Nat
        /\ RunEnd(last) \in Nat /\ last.first <= RunEnd(last)
    <2>1. Len(ch) \in DOMAIN ch
      BY <1>1
    <2>2. last \in [first : Nat, count : Nat]
      BY <2>1, ElementType DEF RunsOf
    <2>3. QED
      BY <2>2 DEF RunEnd
  <1> DEFINE r == [first |-> last.first, count |-> last.count + k]
             a == last.first * u
             m == RunEnd(last) * u
             z == (RunEnd(last) + k) * u
  <1>3. r \in [first : Nat, count : Nat] /\ RunEnd(r) = RunEnd(last) + k /\ r.first = last.first
    BY <1>2 DEF RunEnd
  <1>4. /\ new \in RunsOf /\ Len(new) = n + 1 /\ DOMAIN new = 1 .. n + 1
        /\ new[n + 1] = r /\ \A i \in 1 .. n : new[i] = ch[i]
    <2>1. /\ ch \in Seq([first : Nat, count : Nat]) /\ r \in [first : Nat, count : Nat]
          /\ n + 1 \in 1 .. Len(ch) /\ new = [ch EXCEPT ![n + 1] = r]
      BY <1>1, <1>3 DEF RunsOf
    <2> HIDE DEF r
    <2>2. /\ new \in Seq([first : Nat, count : Nat]) /\ Len(new) = n + 1
          /\ \A i \in 1 .. n + 1 : new[i] = IF i = n + 1 THEN r ELSE ch[i]
      BY <1>1, <2>1, ExceptSeq
    <2>3. n + 1 \in 1 .. n + 1 /\ \A i \in 1 .. n : i \in 1 .. n + 1 /\ i # n + 1
      BY <1>1
    <2>4. QED
      BY <1>1, <2>2, <2>3, LenProperties DEF RunsOf
  <1>5. a \in Nat /\ m \in Nat /\ z \in Nat /\ a <= m /\ m <= z /\ z <= Len(o)
    <2>1. RunEnd(last) + k \in Nat /\ RunEnd(last) <= RunEnd(last) + k
      BY <1>2
    <2>2. a \in Nat /\ m \in Nat /\ a <= m
      BY <1>2, Times
    <2>3. z \in Nat /\ m <= z
      BY <1>2, <2>1, Times
    <2>4. QED
      BY <2>2, <2>3
  <1> HIDE DEF r, a, m, z
  <1>6. Piece(o, r, u) = SubSeq(o, a + 1, z) /\ Piece(o, last, u) = SubSeq(o, a + 1, m)
    BY <1>3 DEF Piece, a, m, z
  <1>7. Piece(o, r, u) = Cat(Piece(o, last, u), SubSeq(o, m + 1, z))
    <2>1. \A i, j, l \in Nat : i <= j /\ j <= l /\ l <= Len(o)
             => Cat(SubSeq(o, i + 1, j), SubSeq(o, j + 1, l)) = SubSeq(o, i + 1, l)
      BY SlicesJoin, Zenon
    <2>2. QED
      BY <1>5, <1>6, <2>1, SMTT(40)
  <1>8. Inside(o, new, u)
    <2>1. RunEnd(r) * u <= Len(o)
      BY <1>3
    <2>2. \A i \in 1 .. n + 1 : i \in 1 .. n \/ i = n + 1
      BY <1>1
    <2>3. \A i \in 1 .. n : i \in 1 .. n + 1
      BY <1>1
    <2>4. QED
      BY <1>1, <1>4, <2>1, <2>2, <2>3 DEF Inside
  <1>9. /\ Pieces(o, ch, u) \in Seq(Seq(Cells)) /\ Len(Pieces(o, ch, u)) = n + 1
        /\ Pieces(o, new, u) \in Seq(Seq(Cells)) /\ Len(Pieces(o, new, u)) = n + 1
    <2>1. Pieces(o, ch, u) \in Seq(Seq(Cells)) /\ Len(Pieces(o, ch, u)) = Len(ch)
      BY PiecesType
    <2>2. Pieces(o, new, u) \in Seq(Seq(Cells)) /\ Len(Pieces(o, new, u)) = Len(new)
      BY <1>4, <1>8, PiecesType
    <2>3. QED
      BY <1>1, <1>4, <2>1, <2>2
  <1>10. Agree(Pieces(o, ch, u), Pieces(o, new, u), n)
    <2>1. \A i \in 1 .. n : i \in 1 .. n + 1
      BY <1>1
    <2>2. QED
      BY <1>1, <1>4, <2>1 DEF Pieces, Agree
  <1>11. Pieces(o, new, u)[n + 1] = Cat(Pieces(o, ch, u)[n + 1], SubSeq(o, m + 1, z))
    <2>1. n + 1 \in 1 .. n + 1 /\ ch[n + 1] = last
      BY <1>1
    <2>2. Pieces(o, new, u)[n + 1] = Piece(o, r, u) /\ Pieces(o, ch, u)[n + 1] = Piece(o, last, u)
      BY <1>1, <1>4, <2>1 DEF Pieces
    <2>3. QED
      BY <1>7, <2>2
  <1>12. SubSeq(o, m + 1, z) \in Seq(Cells)
    BY <1>5, Slice
  <1>13. Gather(o, new, u) = Cat(Gather(o, ch, u), SubSeq(o, m + 1, z))
    <2>1. PICK q, h, x : q = Pieces(o, ch, u) /\ h = Pieces(o, new, u) /\ x = SubSeq(o, m + 1, z)
      OBVIOUS
    <2>2. /\ q \in Seq(Seq(Cells)) /\ h \in Seq(Seq(Cells)) /\ x \in Seq(Cells)
          /\ Len(q) = n + 1 /\ Len(h) = n + 1 /\ Agree(q, h, n)
          /\ h[n + 1] = Cat(q[n + 1], x)
      BY <1>9, <1>10, <1>11, <1>12, <2>1
    <2>3. FlattenSeq(h) = Cat(FlattenSeq(q), x)
      BY <1>1, <2>2, FlattenLonger
    <2>4. QED
      BY <2>1, <2>3 DEF Gather
  <1>14. QED
    BY <1>8, <1>13 DEF m, z

\* What flush records addresses, besides what was recorded before, the cells
\* of sectors f .. f+n-1.
LEMMA GatherFlushed ==
    ASSUME NEW o \in Seq(Cells), NEW ch \in Seq(Runs), NEW u \in Nat, Inside(o, ch, u),
           NEW f \in Nat, NEW n \in Nat, n > 0, f + n < Words, (f + n) * u <= Len(o),
           EndsBelow(ch, f)
    PROVE  /\ Gather(o, AddRun(ch, f, n), u) = Cat(Gather(o, ch, u), SubSeq(o, f * u + 1, (f + n) * u))
           /\ Inside(o, AddRun(ch, f, n), u)
  <1>1. Words \in Nat /\ f < Words /\ n < Words
    BY GeometryAssumption
  <1>2. /\ Runs \subseteq [first : Nat, count : Nat]
        /\ ch \in RunsOf
    <2>1. Words32 \subseteq Nat
      BY <1>1 DEF Words32
    <2>2. Runs \subseteq [first : Nat, count : Nat]
      BY <2>1 DEF Runs
    <2>3. QED
      BY <2>2, SeqMonotonic DEF RunsOf
  <1> DEFINE last == ch[Len(ch)]
  <1>3. CASE ch # <<>> /\ U32(last.first + last.count) = f
    <2>1. Len(ch) \in DOMAIN ch
      BY <1>2, <1>3, EmptySeq, LenProperties DEF RunsOf
    <2>2. last \in [first : Nat, count : Nat] /\ last.first \in Nat /\ last.count \in Nat
      BY <1>2, <2>1, ElementType DEF RunsOf
    <2>3. RunEnd(last) <= f /\ RunEnd(last) = last.first + last.count
      BY <2>1 DEF EndsBelow, RunEnd
    <2>4. RunEnd(last) = f
      <3>1. last.first + last.count \in Nat /\ last.first + last.count < Words
        BY <1>1, <2>2, <2>3
      <3>2. QED
        BY <1>3, <2>3, <3>1, U32Type
    <2>5. U32(last.count + n) = last.count + n
      <3>1. last.count + n \in Nat /\ last.count + n < Words
        <4>1. \A i, j, l, m, w \in Nat : i + j = l /\ l + m < w => j + m \in Nat /\ j + m < w
          OBVIOUS
        <4> HIDE DEF last
        <4>2. QED
          BY <1>1, <2>2, <2>3, <2>4, <4>1
      <3>2. QED
        BY <3>1, U32Type
    <2> DEFINE new == [ch EXCEPT ![Len(ch)] = [first |-> last.first, count |-> last.count + n]]
    <2>6. AddRun(ch, f, n) = new
      BY <1>3, <2>5 DEF AddRun
    <2> HIDE DEF new
    <2>7. /\ Gather(o, new, u)
               = Cat(Gather(o, ch, u), SubSeq(o, RunEnd(last) * u + 1, (RunEnd(last) + n) * u))
          /\ Inside(o, new, u)
      <3>1. (RunEnd(last) + n) * u <= Len(o)
        BY <2>4
      <3>2. QED
        BY <1>2, <1>3, <3>1, GatherMore DEF new
    <2>8. QED
      BY <2>4, <2>6, <2>7
  <1>4. CASE ~(ch # <<>> /\ U32(last.first + last.count) = f)
    <2> DEFINE r == [first |-> f, count |-> n]
    <2>1. r \in [first : Nat, count : Nat] /\ RunEnd(r) = f + n /\ r.first = f
      BY DEF RunEnd
    <2>2. AddRun(ch, f, n) = Append(ch, r)
      BY <1>4 DEF AddRun
    <2> HIDE DEF r
    <2>3. /\ Gather(o, Append(ch, r), u) = Cat(Gather(o, ch, u), Piece(o, r, u))
          /\ Inside(o, Append(ch, r), u)
      BY <1>2, <2>1, GatherNew
    <2>4. Piece(o, r, u) = SubSeq(o, f * u + 1, (f + n) * u)
      BY <2>1 DEF Piece
    <2>5. QED
      BY <2>2, <2>3, <2>4
  <1>5. QED
    BY <1>3, <1>4

-----------------------------------------------------------------------------
(* What callers supply                                                      *)

LEMMA DataType ==
    ASSUME NEW s \in Streams, NEW i \in Nat, NEW n \in Nat
    PROVE  /\ DataCells(s, i + 1, i + n) \in Seq(Cells)
           /\ Len(DataCells(s, i + 1, i + n)) = n
           /\ \A k \in 1 .. n : DataCells(s, i + 1, i + n)[k] = DataCell(s, i + k)
  <1>1. \A k \in Nat : DataCell(s, k) \in Cells
    BY DEF DataCell, Cells
  <1>2. DataCells(s, i + 1, i + n) = [k \in 1 .. n |-> DataCell(s, i + k)]
    BY DEF DataCells
  <1>3. QED
    BY <1>1, <1>2

LEMMA DataFromOne ==
    ASSUME NEW s \in Streams, NEW n \in Nat
    PROVE  /\ DataCells(s, 1, n) \in Seq(Cells)
           /\ Len(DataCells(s, 1, n)) = n
           /\ \A k \in 1 .. n : DataCells(s, 1, n)[k] = DataCell(s, k)
  <1>1. \A k \in Nat : DataCell(s, k) \in Cells
    BY DEF DataCell, Cells
  <1>2. DataCells(s, 1, n) = [k \in 1 .. n |-> DataCell(s, k)]
    BY DEF DataCells
  <1>3. QED
    BY <1>1, <1>2

\* The cells before and after the first n of them.
LEMMA DataSplit ==
    ASSUME NEW s \in Streams
    PROVE  \A i, n, k \in Nat : n <= k =>
              /\ Take(DataCells(s, i + 1, i + k), n) = DataCells(s, i + 1, i + n)
              /\ Drop(DataCells(s, i + 1, i + k), n)
                    = DataCells(s, (i + n) + 1, (i + n) + (k - n))
  <1> SUFFICES ASSUME NEW i \in Nat, NEW n \in Nat, NEW k \in Nat, n <= k
               PROVE  /\ Take(DataCells(s, i + 1, i + k), n) = DataCells(s, i + 1, i + n)
                      /\ Drop(DataCells(s, i + 1, i + k), n)
                            = DataCells(s, (i + n) + 1, (i + n) + (k - n))
    OBVIOUS
  <1> DEFINE d == DataCells(s, i + 1, i + k)
             x == DataCells(s, i + 1, i + n)
             y == DataCells(s, (i + n) + 1, (i + n) + (k - n))
  <1>1. d \in Seq(Cells) /\ Len(d) = k /\ \A l \in 1 .. k : d[l] = DataCell(s, i + l)
    BY DataType
  <1>2. x \in Seq(Cells) /\ Len(x) = n /\ \A l \in 1 .. n : x[l] = DataCell(s, i + l)
    BY DataType
  <1>3. y \in Seq(Cells) /\ Len(y) = k - n
        /\ \A l \in 1 .. k - n : y[l] = DataCell(s, (i + n) + l)
    <2>1. i + n \in Nat /\ k - n \in Nat
      OBVIOUS
    <2>2. QED
      BY <2>1, DataType
  <1> HIDE DEF d, x, y
  <1>4. Take(d, n) = x
    <2>1. Take(d, n) \in Seq(Cells) /\ Len(Take(d, n)) = n /\ \A l \in 1 .. n : Take(d, n)[l] = d[l]
      BY <1>1 DEF Take
    <2>2. \A l \in 1 .. n : l \in 1 .. k
      OBVIOUS
    <2>3. QED
      BY <1>1, <1>2, <2>1, <2>2, SameSeq
  <1>5. Drop(d, n) = y
    <2>1. Drop(d, n) \in Seq(Cells) /\ Len(Drop(d, n)) = k - n
          /\ \A l \in 1 .. k - n : Drop(d, n)[l] = d[n + l]
      BY <1>1 DEF Drop
    <2>2. \A l \in 1 .. k - n : n + l \in 1 .. k /\ i + (n + l) = (i + n) + l
      OBVIOUS
    <2>3. QED
      BY <1>1, <1>3, <2>1, <2>2, SameSeq
  <1>6. QED
    BY <1>4, <1>5 DEF d, x, y

\* The first i cells and the n after them.
LEMMA DataJoin ==
    ASSUME NEW s \in Streams, NEW i \in Nat, NEW n \in Nat
    PROVE  Cat(DataCells(s, 1, i), DataCells(s, i + 1, i + n)) = DataCells(s, 1, i + n)
  <1> DEFINE x == DataCells(s, 1, i)
             y == DataCells(s, i + 1, i + n)
             d == DataCells(s, 1, i + n)
  <1>1. /\ x \in Seq(Cells) /\ Len(x) = i /\ \A l \in 1 .. i : x[l] = DataCell(s, l)
        /\ d \in Seq(Cells) /\ Len(d) = i + n /\ \A l \in 1 .. i + n : d[l] = DataCell(s, l)
    BY DataFromOne
  <1>2. y \in Seq(Cells) /\ Len(y) = n /\ \A l \in 1 .. n : y[l] = DataCell(s, i + l)
    BY DataType
  <1> HIDE DEF x, y, d
  <1>3. /\ Cat(x, y) \in Seq(Cells) /\ Len(Cat(x, y)) = i + n
        /\ \A l \in 1 .. i + n : Cat(x, y)[l] = IF l <= i THEN x[l] ELSE y[l - i]
    BY <1>1, <1>2, ConcatProperties DEF Cat
  <1>4. ASSUME NEW l \in 1 .. i + n PROVE Cat(x, y)[l] = d[l]
    <2>1. CASE l <= i
      BY <1>1, <1>3, <2>1
    <2>2. CASE i < l
      <3>1. l - i \in 1 .. n /\ i + (l - i) = l /\ ~(l <= i)
        BY <2>2
      <3>2. QED
        BY <1>1, <1>2, <1>3, <3>1
    <2>3. QED
      BY <2>1, <2>2
  <1>5. Cat(x, y) = d
    BY <1>1, <1>3, <1>4, SameSeq
  <1>6. QED
    BY <1>5 DEF x, y, d

LEMMA DataNone == ASSUME NEW s \in Streams, NEW i \in Nat PROVE DataCells(s, i + 1, i + 0) = <<>>
  BY DEF DataCells

-----------------------------------------------------------------------------
(* What each step of a call on s does to the fields and locals of s; those  *)
(* of the other streams keep their values.                                  *)

Same(t) ==
    /\ pc'[t] = pc[t] /\ p'[t] = p[t] /\ b'[t] = b[t] /\ first'[t] = first[t]
    /\ buf'[t] = buf[t] /\ chain'[t] = chain[t] /\ size'[t] = size[t] /\ closed'[t] = closed[t]

OthersSame(s) == \A t \in Streams \ {s} : Same(t)

\* Calls begin.
LEMMA WriteFacts ==
    ASSUME TypeOK, NEW s \in Streams, NEW n, Write(s, n)
    PROVE  /\ OthersSame(s) /\ UNCHANGED shared
           /\ pc[s] = "idle" /\ pc'[s] = "write" /\ s \in made /\ ~closed[s]
           /\ n > 0 /\ size[s] + n <= MaxSize
           /\ p'[s] = DataCells(s, size[s] + 1, size[s] + n)
           /\ b' = b /\ first' = first
           /\ buf' = buf /\ chain' = chain /\ size' = size /\ closed' = closed
  BY DEF Write, fields, OthersSame, Same, TypeOK, LocalsType

LEMMA CloseStreamFacts ==
    ASSUME TypeOK, NEW s \in Streams, CloseStream(s)
    PROVE  /\ OthersSame(s) /\ UNCHANGED shared
           /\ pc[s] = "idle" /\ pc'[s] = "close" /\ s \in made /\ ~closed[s]
           /\ p' = p /\ b' = b /\ first' = first
           /\ buf' = buf /\ chain' = chain /\ size' = size /\ closed' = closed
  BY DEF CloseStream, fields, OthersSame, Same, TypeOK, LocalsType

\* Steps without the lock.
LEMMA KeepRestFacts ==
    ASSUME TypeOK, NEW s \in Streams, KeepRest(s)
    PROVE  /\ OthersSame(s) /\ UNCHANGED shared
           /\ pc[s] = "write" /\ Buffers(s) /\ pc'[s] = "idle"
           /\ p'[s] = <<>> /\ b' = b /\ first' = first
           /\ buf'[s] = buf[s] \o p[s] /\ size'[s] = size[s] + Len(p[s])
           /\ chain' = chain /\ closed' = closed
  BY DEF KeepRest, Return, OthersSame, Same, TypeOK, LocalsType, FieldsType

LEMMA CloseNowFacts ==
    ASSUME TypeOK, NEW s \in Streams, CloseNow(s)
    PROVE  /\ OthersSame(s) /\ UNCHANGED shared
           /\ pc[s] = "close" /\ pc'[s] = "idle"
           /\ p' = p /\ b' = b /\ first' = first
           /\ buf' = buf /\ chain' = chain /\ size' = size /\ closed'[s] = TRUE
  BY DEF CloseNow, Return, OthersSame, Same, TypeOK, LocalsType, FieldsType

\* Steps that take the lock.
LEMMA FlushFacts ==
    ASSUME TypeOK, NEW s \in Streams, NEW x, Flush(s, x)
    PROVE  /\ OthersSame(s)
           /\ UNCHANGED <<out, err, miniBuf, miniSecs, made, descendants, wclosed>>
           /\ pc'[s] = "flushbuf" /\ p' = p /\ b'[s] = x
           /\ buf' = buf /\ chain' = chain /\ size' = size /\ closed' = closed
  BY DEF Flush, fields, OthersSame, Same, TypeOK, LocalsType

LEMMA CloseMiniFacts ==
    ASSUME TypeOK, NEW s \in Streams, CloseMini(s)
    PROVE  /\ OthersSame(s) /\ mu = NoOne
           /\ UNCHANGED <<out, err, miniBuf, miniSecs, made, descendants, wclosed>>
           /\ pc[s] = "close" /\ size[s] \in 1 .. Cutoff - 1
           /\ pc'[s] = "drain" /\ p' = p /\ b'[s] = PadTo(buf[s], MiniSize)
           /\ first'[s] = U32((Len(miniSecs) * SecSize + Len(miniBuf)) \div MiniSize)
           /\ buf' = buf /\ chain' = chain /\ size' = size /\ closed' = closed
  BY DEF CloseMini, Lock, fields, OthersSame, Same, TypeOK, LocalsType

\* Steps under the lock.
LEMMA FlushBufFacts ==
    ASSUME TypeOK, NEW s \in Streams, FlushBuf(s)
    PROVE  /\ OthersSame(s) /\ UNCHANGED <<mu, miniBuf, miniSecs, made, descendants, wclosed>>
           /\ ~err /\ out' = Cat(out, buf[s])
           /\ pc[s] = "flushbuf" /\ pc'[s] = "flushdata" /\ p' = p /\ b' = b /\ first' = first
           /\ buf' = buf /\ chain' = chain /\ size' = size /\ closed' = closed
  BY DEF FlushBuf, Put, Cat, fields, OthersSame, Same, TypeOK, LocalsType

LEMMA FlushInWriteFacts ==
    ASSUME TypeOK, NEW s \in Streams, FlushInWrite(s)
    PROVE  /\ OthersSame(s) /\ UNCHANGED <<miniBuf, miniSecs, made, descendants, wclosed>>
           /\ FlushRest(s) /\ ~err /\ out' = Cat(out, b[s])
           /\ pc[s] = "flushdata" /\ pc'[s] \in {"idle", "write"} /\ p[s] # <<>>
           /\ p'[s] = Drop(p[s], Len(b[s])) /\ b'[s] = <<>> /\ first' = first
           /\ buf'[s] = <<>> /\ size'[s] = size[s] + Len(b[s]) /\ closed' = closed
           /\ chain'[s] = AddRun(chain[s], first[s], U32((Len(buf[s]) + Len(b[s])) \div SecSize))
  <1>1. FlushRest(s)
    BY DEF FlushInWrite
  <1>2. OthersSame(s)
    BY DEF FlushInWrite, FlushRest, Return, OthersSame, Same, TypeOK, LocalsType, FieldsType
  <1>3. pc'[s] \in {"idle", "write"}
    BY DEF FlushInWrite, FlushRest, Return, TypeOK, LocalsType
  <1>4. QED
    BY <1>1, <1>2, <1>3
       DEF FlushInWrite, FlushRest, Put, Cat, TypeOK, LocalsType, FieldsType

LEMMA FlushInCloseFacts ==
    ASSUME TypeOK, NEW s \in Streams, FlushInClose(s)
    PROVE  /\ OthersSame(s) /\ UNCHANGED <<miniBuf, miniSecs, made, descendants, wclosed>>
           /\ FlushRest(s) /\ ~err /\ out' = Cat(out, b[s])
           /\ pc[s] = "flushdata" /\ pc'[s] = "idle" /\ p[s] = <<>>
           /\ p' = p /\ b'[s] = <<>> /\ first' = first
           /\ buf'[s] = <<>> /\ size' = size /\ closed'[s] = TRUE
           /\ chain'[s] = AddRun(chain[s], first[s], U32((Len(buf[s]) + Len(b[s])) \div SecSize))
  <1>1. FlushRest(s)
    BY DEF FlushInClose
  <1>2. OthersSame(s)
    BY DEF FlushInClose, FlushRest, Return, OthersSame, Same, TypeOK, LocalsType, FieldsType
  <1>3. QED
    BY <1>1, <1>2
       DEF FlushInClose, FlushRest, Return, Put, Cat, TypeOK, LocalsType, FieldsType

LEMMA FlushFailsFacts ==
    ASSUME TypeOK, NEW s \in Streams, FlushFails(s)
    PROVE  /\ OthersSame(s) /\ UNCHANGED <<miniBuf, miniSecs, made, descendants, wclosed>>
           /\ PutFails(buf[s]) \/ PutFails(b[s])
           /\ pc[s] \in {"flushbuf", "flushdata"} /\ pc'[s] = "idle"
           /\ p'[s] = <<>> /\ b'[s] = <<>> /\ first' = first
           /\ buf' = buf /\ chain' = chain /\ size' = size /\ closed' = closed
  BY DEF FlushFails, Return, fields, OthersSame, Same, TypeOK, LocalsType

LEMMA DrainFacts ==
    ASSUME TypeOK, NEW s \in Streams, Drain(s)
    PROVE  /\ OthersSame(s) /\ UNCHANGED <<mu, made, descendants, wclosed>>
           /\ WriteMini(b[s]) /\ Len(b[s]) > MiniTake(b[s])
           /\ pc[s] = "drain" /\ pc' = pc /\ p' = p /\ first' = first
           /\ b'[s] = Drop(b[s], MiniTake(b[s]))
           /\ buf' = buf /\ chain' = chain /\ size' = size /\ closed' = closed
  <1>1. b' = [b EXCEPT ![s] = Drop(b[s], MiniTake(b[s]))]
    BY DEF Drain
  <1>2. OthersSame(s)
    BY <1>1 DEF Drain, fields, OthersSame, Same, TypeOK, LocalsType
  <1>3. b'[s] = Drop(b[s], MiniTake(b[s]))
    BY <1>1 DEF TypeOK, LocalsType
  <1>4. QED
    BY <1>2, <1>3 DEF Drain, fields

LEMMA DrainLastFacts ==
    ASSUME TypeOK, NEW s \in Streams, DrainLast(s)
    PROVE  /\ OthersSame(s) /\ UNCHANGED <<made, descendants, wclosed>>
           /\ WriteMini(b[s]) /\ Len(b[s]) = MiniTake(b[s])
           /\ pc[s] = "drain" /\ pc'[s] = "idle" /\ p' = p /\ first' = first /\ b'[s] = <<>>
           /\ chain'[s] = <<[first |-> first[s],
                             count |-> U32(Len(PadTo(buf[s], MiniSize)) \div MiniSize)]>>
           /\ buf'[s] = <<>> /\ size' = size /\ closed'[s] = TRUE
  <1>1. OthersSame(s)
    BY DEF DrainLast, Return, OthersSame, Same, TypeOK, LocalsType, FieldsType
  <1>2. QED
    BY <1>1 DEF DrainLast, Return, TypeOK, LocalsType, FieldsType

LEMMA DrainFailsFacts ==
    ASSUME TypeOK, NEW s \in Streams, DrainFails(s)
    PROVE  /\ OthersSame(s) /\ UNCHANGED <<made, descendants, wclosed>>
           /\ WriteMiniFails(b[s])
           /\ pc[s] = "drain" /\ pc'[s] = "idle" /\ p' = p /\ first' = first /\ b'[s] = <<>>
           /\ buf' = buf /\ chain' = chain /\ size' = size /\ closed' = closed
  BY DEF DrainFails, Return, fields, OthersSame, Same, TypeOK, LocalsType

-----------------------------------------------------------------------------
(* What a call still has to write is the next part of what its caller       *)
(* supplies.                                                                *)

Supply(s) ==
    /\ p[s] = DataCells(s, size[s] + 1, size[s] + Len(p[s]))
    /\ size[s] + Len(p[s]) <= MaxSize
    /\ Flushing(s) /\ p[s] # <<>> => b[s] = Take(p[s], Len(b[s]))
    /\ pc[s] # "idle" \/ closed[s] => s \in made

SupplyInv == \A s \in Streams : Supply(s)

LEMMA NoneLeft ==
    ASSUME TypeOK, NEW s \in Streams, p'[s] = <<>>, size'[s] \in Nat, size'[s] <= MaxSize
    PROVE  /\ p'[s] = DataCells(s, size'[s] + 1, size'[s] + Len(p'[s]))
           /\ size'[s] + Len(p'[s]) <= MaxSize
  <1>1. Len(p'[s]) = 0
    OBVIOUS
  <1>2. DataCells(s, size'[s] + 1, size'[s] + 0) = <<>>
    BY DataNone
  <1>3. size'[s] + 0 = size'[s]
    OBVIOUS
  <1>4. QED
    BY <1>1, <1>2, <1>3

LEMMA SupplyInit == Init => SupplyInv
  <1> SUFFICES ASSUME Init, NEW s \in Streams PROVE Supply(s)
    BY DEF SupplyInv
  <1>1. p[s] = <<>> /\ size[s] = 0 /\ pc[s] = "idle" /\ ~closed[s]
    BY DEF Init
  <1>2. Len(p[s]) = 0 /\ 0 + 0 = 0 /\ 0 <= MaxSize
    BY <1>1, CallAssumption
  <1>3. DataCells(s, 0 + 1, 0 + 0) = <<>>
    BY DataNone
  <1>4. QED
    BY <1>1, <1>2, <1>3 DEF Supply, Flushing

\* A step that leaves alone what Supply(s) speaks about.
LEMMA SupplyKept ==
    ASSUME NEW s \in Streams, Supply(s), p'[s] = p[s], size'[s] = size[s], made \subseteq made',
           pc'[s] # "idle" \/ closed'[s] => pc[s] # "idle" \/ closed[s] \/ s \in made',
           Flushing(s)' /\ p[s] # <<>> => Flushing(s) /\ b'[s] = b[s]
    PROVE  Supply(s)'
  BY DEF Supply, Flushing

LEMMA SupplyNext == TypeOK /\ TypeOK' /\ CallInv /\ SupplyInv /\ [Next]_vars => SupplyInv'
  <1> SUFFICES ASSUME TypeOK, TypeOK', CallInv, SupplyInv, [Next]_vars PROVE SupplyInv'
    OBVIOUS
  <1>0. /\ \A s \in Streams : /\ size[s] \in Nat /\ size'[s] \in Nat
                              /\ p[s] \in Seq(Cells) /\ b[s] \in Seq(Cells)
                              /\ Len(p[s]) \in Nat /\ Len(b[s]) \in Nat
        /\ MaxSize \in Nat
    <2>1. ASSUME NEW s \in Streams
          PROVE  size[s] \in Nat /\ size'[s] \in Nat /\ p[s] \in Seq(Cells) /\ b[s] \in Seq(Cells)
      BY DEF TypeOK, FieldsType, LocalsType
    <2>2. QED
      BY <2>1, CallAssumption
  \* A step of the call on s that leaves the other streams alone.
  <1>1. ASSUME NEW s \in Streams, Supply(s)', OthersSame(s), made' = made PROVE SupplyInv'
    <2>1. ASSUME NEW t \in Streams \ {s} PROVE Supply(t)'
      BY <1>1, SupplyKept DEF SupplyInv, OthersSame, Same, Flushing
    <2>2. QED
      BY <1>1, <2>1 DEF SupplyInv
  \* A step of nobody's call.
  <1>2. ASSUME UNCHANGED <<fields, locals>>, made \subseteq made' PROVE SupplyInv'
    BY <1>2, SupplyKept DEF SupplyInv, fields, locals, Flushing
  <1>3. ASSUME NEW n \in Streams \cup Storages, Create(n) PROVE SupplyInv'
    BY <1>2, <1>3 DEF Create
  <1>4. CASE BeginClose
    BY <1>2, <1>4 DEF BeginClose
  <1>5. CASE UNCHANGED vars
    BY <1>2, <1>5 DEF vars, shared
  <1>6. ASSUME NEW s \in Streams, NEW n \in WriteSizes, Write(s, n) PROVE SupplyInv'
    <2>1. /\ OthersSame(s) /\ made' = made /\ pc'[s] = "write" /\ s \in made
          /\ size[s] + n <= MaxSize /\ size' = size
          /\ p'[s] = DataCells(s, size[s] + 1, size[s] + n)
      BY <1>6, WriteFacts DEF shared
    <2>2. Len(p'[s]) = n
      BY <1>0, <2>1, DataType, CallAssumption
    <2>3. Supply(s)'
      BY <2>1, <2>2 DEF Supply, Flushing
    <2>4. QED
      BY <1>1, <2>1, <2>3
  <1>7. ASSUME NEW s \in Streams, CloseStream(s) PROVE SupplyInv'
    <2>1. Supply(s)'
      BY <1>7, CloseStreamFacts, SupplyKept DEF SupplyInv, Flushing, shared
    <2>2. QED
      BY <1>1, <1>7, <2>1, CloseStreamFacts DEF shared
  \* The call returns or fails, or goes on with nothing left to write.
  <1>8. ASSUME NEW s \in Streams, OthersSame(s), made' = made,
               p'[s] = <<>>, size'[s] <= MaxSize, s \in made
        PROVE  SupplyInv'
    <2>1. Supply(s)'
      BY <1>0, <1>8, NoneLeft DEF Supply, Flushing
    <2>2. QED
      BY <1>1, <1>8, <2>1
  <1>9. ASSUME NEW s \in Streams
        PROVE  /\ pc[s] # "idle" => s \in made
               /\ size[s] + Len(p[s]) <= MaxSize /\ size[s] <= MaxSize
               /\ pc[s] \in {"close", "drain"} => p[s] = <<>>
    <2>1. Supply(s) /\ StepOf(s)
      BY DEF SupplyInv, CallInv
    <2>2. QED
      BY <1>0, <2>1 DEF Supply, StepOf
  <1>10. ASSUME NEW s \in Streams, KeepRest(s) PROVE SupplyInv'
    BY <1>8, <1>9, <1>10, KeepRestFacts DEF shared
  <1>11. ASSUME NEW s \in Streams, CloseNow(s) PROVE SupplyInv'
    BY <1>8, <1>9, <1>11, CloseNowFacts DEF shared
  <1>12. ASSUME NEW s \in Streams, FlushInClose(s) PROVE SupplyInv'
    BY <1>8, <1>9, <1>12, FlushInCloseFacts
  <1>13. ASSUME NEW s \in Streams, FlushFails(s) PROVE SupplyInv'
    BY <1>8, <1>9, <1>13, FlushFailsFacts
  <1>14. ASSUME NEW s \in Streams, CloseMini(s) PROVE SupplyInv'
    BY <1>8, <1>9, <1>14, CloseMiniFacts
  <1>15. ASSUME NEW s \in Streams, Drain(s) PROVE SupplyInv'
    BY <1>8, <1>9, <1>15, DrainFacts
  <1>16. ASSUME NEW s \in Streams, DrainLast(s) PROVE SupplyInv'
    BY <1>8, <1>9, <1>16, DrainLastFacts
  <1>17. ASSUME NEW s \in Streams, DrainFails(s) PROVE SupplyInv'
    BY <1>8, <1>9, <1>17, DrainFailsFacts
  <1>18. ASSUME NEW s \in Streams, ClosePadded(s) PROVE SupplyInv'
    <2>1. pc[s] = "close" /\ Flush(s, Padding(buf[s], SecSize))
      BY <1>18 DEF ClosePadded
    <2>2. QED
      BY <1>8, <1>9, <2>1, FlushFacts
  <1>19. ASSUME NEW s \in Streams, FlushBuf(s) PROVE SupplyInv'
    <2>1. Supply(s)'
      BY <1>9, <1>19, FlushBufFacts, SupplyKept DEF SupplyInv, Flushing
    <2>2. QED
      BY <1>1, <1>19, <2>1, FlushBufFacts
  <1>20. ASSUME NEW s \in Streams, WriteFlush(s) PROVE SupplyInv'
    <2>1. pc[s] = "write" /\ ~Buffers(s) /\ Flush(s, Take(p[s], Room(s)))
      BY <1>20 DEF WriteFlush
    <2>2. Room(s) \in 1 .. Len(p[s])
      BY <2>1, RoomFits DEF CallInv
    <2>3. Len(Take(p[s], Room(s))) = Room(s)
      <3>1. Room(s) \in 0 .. Len(p[s])
        BY <1>0, <2>2
      <3>2. QED
        BY <1>0, <3>1, TakeLength
    <2>4. /\ OthersSame(s) /\ made' = made /\ p' = p /\ size' = size
          /\ b'[s] = Take(p[s], Room(s)) /\ s \in made
      BY <1>9, <2>1, FlushFacts
    <2>5. b'[s] = Take(p'[s], Len(b'[s]))
      BY <2>3, <2>4
    <2>6. Supply(s)'
      BY <2>4, <2>5 DEF SupplyInv, Supply
    <2>7. QED
      BY <1>1, <2>4, <2>6
  <1>21. ASSUME NEW s \in Streams, FlushInWrite(s) PROVE SupplyInv'
    <2>1. /\ OthersSame(s) /\ made' = made /\ pc[s] = "flushdata" /\ pc'[s] \in {"idle", "write"}
          /\ p[s] # <<>> /\ p'[s] = Drop(p[s], Len(b[s])) /\ size'[s] = size[s] + Len(b[s])
      BY <1>21, FlushInWriteFacts
    <2>2. Len(b[s]) <= Len(p[s])
      BY <2>1 DEF CallInv, StepOf, Flushing
    <2>3. p[s] = DataCells(s, size[s] + 1, size[s] + Len(p[s])) /\ size[s] + Len(p[s]) <= MaxSize
      BY DEF SupplyInv, Supply
    <2> DEFINE z == size[s]
               k == Len(p[s])
               n == Len(b[s])
    <2>4. z \in Nat /\ k \in Nat /\ n \in Nat /\ n <= k
      BY <1>0, <2>2
    <2>5. /\ p'[s] = Drop(DataCells(s, z + 1, z + k), n)
          /\ size'[s] = z + n /\ z + k <= MaxSize
      BY <2>1, <2>3
    <2> HIDE DEF z, k, n
    <2>6. p'[s] = DataCells(s, (z + n) + 1, (z + n) + (k - n))
      <3>1. \A i, m, l \in Nat : m <= l =>
              /\ Take(DataCells(s, i + 1, i + l), m) = DataCells(s, i + 1, i + m)
              /\ Drop(DataCells(s, i + 1, i + l), m)
                    = DataCells(s, (i + m) + 1, (i + m) + (l - m))
        BY DataSplit
      <3>2. Drop(DataCells(s, z + 1, z + k), n) = DataCells(s, (z + n) + 1, (z + n) + (k - n))
        BY <2>4, <3>1, ZenonT(60)
      <3>3. QED
        BY <2>5, <3>2
    <2>7. Len(p'[s]) = k - n /\ z + n \in Nat /\ (z + n) + (k - n) = z + k
      <3>1. z + n \in Nat /\ k - n \in Nat /\ (z + n) + (k - n) = z + k
        BY <2>4
      <3>2. QED
        BY <2>6, <3>1, DataType
    <2>8. s \in made
      BY <1>9, <2>1
    <2>9. Supply(s)'
      BY <2>1, <2>5, <2>6, <2>7, <2>8 DEF Supply, Flushing
    <2>10. QED
      BY <1>1, <2>1, <2>9
  <1>22. QED
    BY <1>3, <1>4, <1>5, <1>6, <1>7, <1>10, <1>11, <1>12, <1>13, <1>14, <1>15, <1>16,
       <1>17, <1>18, <1>19, <1>20, <1>21
       DEF Next, ClientNext, Advance, Acquire, CreateStream, CreateStorage

-----------------------------------------------------------------------------
(* The file and the mini-stream only grow.                                  *)

LEMMA PutGrows ==
    ASSUME TypeOK, NEW x \in Seq(Cells), Put(x) \/ PutFails(x)
    PROVE  \E y \in Seq(Cells) : out' = Cat(out, y)
  <1>1. out \in Seq(Cells) /\ <<>> \in Seq(Cells)
    BY DEF TypeOK, SharedType
  <1>2. CASE Put(x)
    BY <1>2 DEF Put, Cat
  <1>3. CASE PutFails(x)
    <2>1. CASE out' = out
      BY <1>1, <2>1, CatEmpty
    <2>2. CASE \E k \in 0 .. Len(x) : out' = out \o Take(x, k)
      BY <2>2, TakeLength DEF Cat
    <2>3. QED
      BY <1>3, <2>1, <2>2 DEF PutFails
  <1>4. QED
    BY <1>2, <1>3

\* Where a small stream's cells are moved to: the mini-stream as the cells of
\* its sectors, gathered like those of a chain whose runs have one sector.
UnitRuns(secs) == [k \in DOMAIN secs |-> [first |-> secs[k], count |-> 1]]

LEMMA MiniStreamGathered ==
    MiniStream = Cat(Gather(out, UnitRuns(miniSecs), SecSize), miniBuf)
  <1> DEFINE f == [i \in DOMAIN miniSecs |-> SectorCells(miniSecs[i])]
  <1>1. DOMAIN UnitRuns(miniSecs) = DOMAIN miniSecs
    BY DEF UnitRuns
  <1>2. ASSUME NEW i \in DOMAIN miniSecs
        PROVE  Piece(out, UnitRuns(miniSecs)[i], SecSize) = SectorCells(miniSecs[i])
    BY DEF UnitRuns, Piece, RunEnd, SectorCells
  <1>3. Pieces(out, UnitRuns(miniSecs), SecSize) = f
    BY <1>1, <1>2 DEF Pieces
  <1>4. QED
    BY <1>3 DEF MiniStream, Gather, Cat

\* The sectors below sectorIdx lie within the file.
LEMMA SectorsInside ==
    ASSUME TypeOK, NEW n \in Nat, n <= SectorIdx
    PROVE  n * SecSize \in Nat /\ n * SecSize <= Len(out)
  <1>1. Len(out) \in Nat /\ SecSize \in Nat \ {0} /\ SectorIdx \in Nat
    BY SectorIdxType, Sizes DEF TypeOK, SharedType
  <1>2. SectorIdx * SecSize \in Nat /\ SectorIdx * SecSize <= Len(out)
    BY <1>1, Floor DEF SectorIdx
  <1>3. n * SecSize \in Nat /\ n * SecSize <= SectorIdx * SecSize
    BY <1>1, Times
  <1>4. Len(out) \in Int /\ n * SecSize \in Int /\ SectorIdx * SecSize \in Int
    BY <1>1, <1>2, <1>3
  <1>5. QED
    BY <1>2, <1>3, <1>4

LEMMA UnitRunsInside ==
    ASSUME TypeOK, TakenBelow(SectorIdx)
    PROVE  /\ UnitRuns(miniSecs) \in RunsOf /\ Len(UnitRuns(miniSecs)) = Len(miniSecs)
           /\ Inside(out, UnitRuns(miniSecs), SecSize)
           /\ Gather(out, UnitRuns(miniSecs), SecSize) \in Seq(Cells)
  <1>1. miniSecs \in Seq(Nat)
    <2>1. Words32 \subseteq Nat
      BY GeometryAssumption DEF Words32
    <2>2. QED
      BY <2>1, SeqMonotonic DEF TypeOK, SharedType
  <1>2. UnitRuns(miniSecs) \in RunsOf /\ Len(UnitRuns(miniSecs)) = Len(miniSecs)
        /\ DOMAIN UnitRuns(miniSecs) = DOMAIN miniSecs
    <2>1. ASSUME NEW k \in DOMAIN miniSecs
          PROVE  [first |-> miniSecs[k], count |-> 1] \in [first : Nat, count : Nat]
      BY <1>1, ElementType
    <2>2. DOMAIN miniSecs = 1 .. Len(miniSecs) /\ Len(miniSecs) \in Nat
      BY <1>1
    <2>3. QED
      BY <2>1, <2>2 DEF UnitRuns, RunsOf
  <1>3. ASSUME NEW k \in DOMAIN miniSecs PROVE RunEnd(UnitRuns(miniSecs)[k]) * SecSize <= Len(out)
    <2>1. miniSecs[k] \in Nat /\ miniSecs[k] < SectorIdx
      BY RunTypes DEF TakenBelow
    <2>2. miniSecs[k] + 1 \in Nat /\ miniSecs[k] + 1 <= SectorIdx
      BY <2>1, SectorIdxType
    <2>3. RunEnd(UnitRuns(miniSecs)[k]) = miniSecs[k] + 1
      BY DEF UnitRuns, RunEnd
    <2>4. QED
      BY <2>2, <2>3, SectorsInside
  <1>4. Inside(out, UnitRuns(miniSecs), SecSize)
    BY <1>2, <1>3 DEF Inside
  <1>5. QED
    BY <1>2, <1>4, PiecesType, Sizes DEF TypeOK, SharedType

\* A step that adds nothing to the mini-stream leaves it as it was.
LEMMA MiniStays ==
    ASSUME TypeOK, TakenBelow(SectorIdx), NEW x \in Seq(Cells), out' = Cat(out, x),
           miniSecs' = miniSecs, miniBuf' = miniBuf
    PROVE  MiniStream' = MiniStream
  <1>1. Gather(Cat(out, x), UnitRuns(miniSecs), SecSize) = Gather(out, UnitRuns(miniSecs), SecSize)
    BY UnitRunsInside, GatherStays, Sizes DEF TypeOK, SharedType
  <1>2. (MiniStream = Cat(Gather(out, UnitRuns(miniSecs), SecSize), miniBuf))'
    BY MiniStreamGathered, PTL
  <1>3. QED
    BY <1>1, <1>2, MiniStreamGathered

\* Whoever is in writeMini finds the file at a sector boundary.
LEMMA DrainAligned ==
    ASSUME TypeOK, CallInv, AlignInv, NEW s \in Streams, pc[s] = "drain", ~err
    PROVE  SectorIdx * SecSize = Len(out) /\ SectorIdx \in Nat
  <1>1. mu = s
    BY DEF CallInv, StepOf, Locked
  <1>2. \A t \in Streams : pc[t] # "flushdata"
    BY <1>1, OneHolder DEF Locked
  <1>3. Len(out) % SecSize = 0
    BY <1>2 DEF AlignInv
  <1>4. Len(out) \in Nat /\ SecSize \in Nat \ {0}
    BY Sizes DEF TypeOK, SharedType
  <1>5. (Len(out) \div SecSize) * SecSize = Len(out)
    BY <1>3, <1>4
  <1>6. QED
    BY <1>5, SectorIdxType DEF SectorIdx

\* An iteration of writeMini appends to the mini-stream what it takes, whether
\* it fills a sector, writes a sector, or fails to write it.
LEMMA MiniGrows ==
    ASSUME TypeOK, CallInv, AlignInv, TakenBelow(SectorIdx), FileFits,
           NEW s \in Streams, pc[s] = "drain", WriteMini(b[s]) \/ WriteMiniFails(b[s])
    PROVE  /\ MiniStream' = Cat(MiniStream, Take(b[s], MiniTake(b[s])))
           /\ MiniStream \in Seq(Cells) /\ Take(b[s], MiniTake(b[s])) \in Seq(Cells)
           /\ b[s] \in Seq(Cells) /\ MiniTake(b[s]) \in 0 .. Len(b[s])
  <1> DEFINE x == Take(b[s], MiniTake(b[s]))
             U == UnitRuns(miniSecs)
             G == Gather(out, U, SecSize)
             F == MiniFilled(b[s])
  <1>1. out \in Seq(Cells) /\ miniBuf \in Seq(Cells) /\ b[s] \in Seq(Cells)
    BY DEF TypeOK, SharedType, LocalsType
  <1>2. /\ MiniTake(b[s]) \in 0 .. Len(b[s]) /\ x \in Seq(Cells)
        /\ F = Cat(miniBuf, x) /\ F \in Seq(Cells)
    <2>1. MiniTake(b[s]) \in 0 .. Len(b[s])
      BY <1>1, MiniStep
    <2>2. x \in Seq(Cells)
      BY <1>1, <2>1, TakeLength
    <2>3. F = Cat(miniBuf, x)
      BY DEF MiniFilled, Cat
    <2>4. F \in Seq(Cells)
      BY <1>1, <2>2, <2>3, CatType
    <2>5. QED
      BY <2>1, <2>2, <2>3, <2>4
  <1>3. /\ U \in RunsOf /\ Inside(out, U, SecSize) /\ G \in Seq(Cells) /\ SecSize \in Nat \ {0}
        /\ MiniStream = Cat(G, miniBuf)
    BY UnitRunsInside, MiniStreamGathered, Sizes
  <1>4. (MiniStream = Cat(Gather(out, UnitRuns(miniSecs), SecSize), miniBuf))'
    BY MiniStreamGathered, PTL
  <1> HIDE DEF x, U, G, F
  <1>5. Cat(Cat(G, miniBuf), x) = Cat(G, F)
    BY <1>1, <1>2, <1>3, CatAssoc
  \* The sector stays in the buffer.
  <1>6. ASSUME NEW y \in Seq(Cells), out' = Cat(out, y), miniSecs' = miniSecs, miniBuf' = F
        PROVE  MiniStream' = Cat(MiniStream, x)
    <2>1. Gather(Cat(out, y), U, SecSize) = G
      BY <1>1, <1>3, <1>6, GatherStays DEF G
    <2>2. QED
      BY <1>3, <1>4, <1>5, <1>6, <2>1 DEF U
  <1>7. ASSUME WriteMini(b[s]), Len(F) = SecSize
        PROVE  MiniStream' = Cat(MiniStream, x)
    <2>1. ~err /\ out' = Cat(out, F) /\ miniSecs' = Append(miniSecs, U32(SectorIdx)) /\ miniBuf' = <<>>
      BY <1>7 DEF WriteMini, Put, Cat, F
    <2> DEFINE r == [first |-> SectorIdx, count |-> 1]
    <2>2. SectorIdx * SecSize = Len(out) /\ SectorIdx \in Nat
      BY <2>1, DrainAligned
    <2>3. U32(SectorIdx) = SectorIdx
      BY SectorIdxFits
    <2>4. UnitRuns(miniSecs') = Append(U, r)
      <3>1. miniSecs \in Seq(Words32)
        BY DEF TypeOK, SharedType
      <3>2. miniSecs' = Append(miniSecs, SectorIdx)
        BY <2>1, <2>3
      <3>3. QED
        BY <3>1, <3>2 DEF UnitRuns, U
    <2>5. r \in [first : Nat, count : Nat] /\ r.first = SectorIdx /\ RunEnd(r) = SectorIdx + 1
      BY <2>2 DEF RunEnd
    <2>6. out' \in Seq(Cells) /\ Len(out') = Len(out) + SecSize
      BY <1>1, <1>2, <1>7, <2>1, CatType
    <2>7. RunEnd(r) * SecSize = Len(out') /\ Len(out') \in Nat
      <3>1. (SectorIdx + 1) * SecSize = SectorIdx * SecSize + SecSize
        <4>1. \A i, j \in Nat : (i + 1) * j = i * j + j
          OBVIOUS
        <4>2. QED
          BY <1>3, <2>2, <4>1, Zenon
      <3>2. Len(out) \in Nat /\ SecSize \in Nat
        BY <1>1, Sizes
      <3>3. RunEnd(r) * SecSize = SectorIdx * SecSize + SecSize
        BY <2>5, <3>1, Zenon
      <3>4. SectorIdx * SecSize = Len(out)
        BY <1>3, <2>2, Zenon
      <3>5. RunEnd(r) * SecSize = Len(out')
        BY <2>6, <3>3, <3>4, Zenon
      <3>6. Len(out') \in Nat
        BY <2>6, <3>2, SMT
      <3>7. QED
        BY <3>5, <3>6, Zenon
    <2> HIDE DEF r
    <2>8. Gather(out', U, SecSize) = G /\ Inside(out', U, SecSize)
      BY <1>1, <1>2, <1>3, <2>1, GatherStays DEF G
    <2>9. Gather(out', Append(U, r), SecSize) = Cat(G, Piece(out', r, SecSize))
      <3>1. RunEnd(r) * SecSize <= Len(out')
        BY <2>7
      <3>2. QED
        BY <1>3, <2>5, <2>6, <2>8, <3>1, GatherNew
    <2>10. Piece(out', r, SecSize) = F
      <3>1. Piece(out', r, SecSize) = SubSeq(Cat(out, F), Len(out) + 1, Len(out) + Len(F))
        BY <1>7, <2>1, <2>2, <2>5, <2>6, <2>7 DEF Piece
      <3>2. QED
        BY <1>1, <1>2, <3>1, SliceEnd
    <2>11. MiniStream' = Cat(Cat(G, F), <<>>)
      BY <1>4, <2>1, <2>4, <2>9, <2>10
    <2>12. Cat(G, F) \in Seq(Cells)
      BY <1>2, <1>3, CatType
    <2>13. MiniStream' = Cat(G, F)
      BY <2>11, <2>12, CatEmpty
    <2>14. QED
      BY <1>3, <1>5, <2>13
  <1>8. ASSUME WriteMini(b[s]), Len(F) # SecSize
        PROVE  MiniStream' = Cat(MiniStream, x)
    <2>1. out' = out /\ miniSecs' = miniSecs /\ miniBuf' = F
      BY <1>8 DEF WriteMini, F
    <2>2. out' = Cat(out, <<>>) /\ <<>> \in Seq(Cells)
      BY <1>1, <2>1, CatEmpty
    <2>3. QED
      BY <1>6, <2>1, <2>2
  <1>9. ASSUME WriteMiniFails(b[s])
        PROVE  MiniStream' = Cat(MiniStream, x)
    <2>1. PutFails(F) /\ miniBuf' = F /\ miniSecs' = miniSecs
      BY <1>9 DEF WriteMiniFails, F
    <2>2. PICK y \in Seq(Cells) : out' = Cat(out, y)
      BY <1>2, <2>1, PutGrows
    <2>3. QED
      BY <1>6, <2>1, <2>2
  <1>10. MiniStream' = Cat(MiniStream, x)
    BY <1>7, <1>8, <1>9
  <1>11. MiniStream \in Seq(Cells)
    BY <1>1, <1>3, CatType
  <1>12. QED
    BY <1>1, <1>2, <1>10, <1>11 DEF x

-----------------------------------------------------------------------------
(* What the runs of a stream and its buffer hold                            *)

\* The length of the mini-stream, which first is computed from.
MiniEnd == Len(miniSecs) * SecSize + Len(miniBuf)

\* The numbers of the mini sectors still fit a FAT word.
MiniFits == MiniEnd \div MiniSize <= MaxRegSect + 1

Fits == FileFits /\ MiniFits

Held(s) == Cat(ChainCells(s), buf[s])

\* What of the mini-stream writeMini has written for s, and what is left.
Draining(s) ==
    /\ first[s] * MiniSize <= Len(MiniStream)
    /\ Cat(SubSeq(MiniStream, first[s] * MiniSize + 1, Len(MiniStream)), b[s])
          = PadTo(buf[s], MiniSize)

\* The first half of a flush is at the end of the file.
HalfFlushed(s) == SubSeq(out, Len(out) - Len(buf[s]) + 1, Len(out)) = buf[s]

\* The stream holds what was written to it.
Stored(s) ==
    /\ ~Regular(s) => Inside(MiniStream, chain[s], MiniSize)
    /\ IF closed[s] THEN Content(s) = DataCells(s, 1, size[s])
                    ELSE Held(s) = DataCells(s, 1, size[s])

StreamInv(s) ==
    /\ Stored(s)
    /\ pc[s] = "drain" => Draining(s)
    /\ pc[s] = "flushdata" => HalfFlushed(s)

MiniInv ==
    /\ Len(MiniStream) = MiniEnd
    /\ (\A s \in Streams : pc[s] # "drain") => MiniEnd % MiniSize = 0

HeldInv == MiniInv /\ \A s \in Streams : StreamInv(s)

\* The cells a stream has on disk are gathered in the file or in the mini-stream.
ChainsGathered ==
    \A s \in Streams :
       ChainCells(s) = IF Regular(s) THEN Gather(out, chain[s], SecSize)
                                     ELSE Gather(MiniStream, chain[s], MiniSize)

LEMMA ChainGathered == ChainsGathered
  <1> SUFFICES ASSUME NEW s \in Streams
               PROVE  ChainCells(s) = IF Regular(s) THEN Gather(out, chain[s], SecSize)
                                                   ELSE Gather(MiniStream, chain[s], MiniSize)
    BY DEF ChainsGathered
  <1>1. Gather(out, chain[s], SecSize)
           = FlattenSeq([i \in DOMAIN chain[s] |-> RunCells(chain[s][i])])
    BY DEF Gather, Pieces, Piece, RunCells
  <1>2. Gather(MiniStream, chain[s], MiniSize)
           = FlattenSeq([i \in DOMAIN chain[s] |->
                SubSeq(MiniStream, chain[s][i].first * MiniSize + 1,
                                   RunEnd(chain[s][i]) * MiniSize)])
    BY DEF Gather, Pieces, Piece
  <1>3. QED
    BY <1>1, <1>2 DEF ChainCells

\* The runs of any stream are runs, those of regular streams in the file.
LEMMA ChainRuns ==
    ASSUME TypeOK, TakenBelow(SectorIdx), NEW s \in Streams
    PROVE  chain[s] \in RunsOf /\ (Regular(s) => Inside(out, chain[s], SecSize))
  <1>1. chain[s] \in RunsOf
    <2>1. [first : Words32, count : Words32] \subseteq [first : Nat, count : Nat]
      BY GeometryAssumption DEF Words32
    <2>2. chain[s] \in Seq([first : Words32, count : Words32])
      BY DEF TypeOK, FieldsType
    <2>3. QED
      BY <2>1, <2>2, SeqMonotonic DEF RunsOf
  <1>2. ASSUME Regular(s), NEW i \in DOMAIN chain[s]
        PROVE  RunEnd(chain[s][i]) * SecSize <= Len(out)
    <2>1. RunEnd(chain[s][i]) \in Nat /\ RunEnd(chain[s][i]) <= SectorIdx
      BY <1>2, RunTypes DEF TakenBelow
    <2>2. QED
      BY <2>1, SectorsInside
  <1>3. QED
    BY <1>1, <1>2 DEF Inside

LEMMA MiniStreamType ==
    ASSUME TypeOK, TakenBelow(SectorIdx)
    PROVE  MiniStream \in Seq(Cells) /\ Len(MiniStream) \in Nat
  <1>1. Gather(out, UnitRuns(miniSecs), SecSize) \in Seq(Cells) /\ miniBuf \in Seq(Cells)
    BY UnitRunsInside DEF TypeOK, SharedType
  <1>2. MiniStream \in Seq(Cells)
    BY <1>1, MiniStreamGathered, CatType
  <1>3. QED
    BY <1>2

LEMMA HeldType ==
    ASSUME TypeOK, TakenBelow(SectorIdx), NEW s \in Streams, Stored(s)
    PROVE  ChainCells(s) \in Seq(Cells) /\ buf[s] \in Seq(Cells) /\ Held(s) \in Seq(Cells)
  <1>1. out \in Seq(Cells) /\ buf[s] \in Seq(Cells)
    BY DEF TypeOK, SharedType, FieldsType
  <1>2. MiniStream \in Seq(Cells) /\ chain[s] \in RunsOf
    BY MiniStreamType, ChainRuns
  <1>3. MiniSize \in Nat /\ SecSize \in Nat
    BY Sizes
  <1>4. CASE Regular(s)
    <2>1. Gather(out, chain[s], SecSize) \in Seq(Cells)
      BY <1>1, <1>2, <1>3, <1>4, ChainRuns, PiecesType
    <2>2. ChainCells(s) \in Seq(Cells)
      BY <1>4, <2>1, ChainGathered DEF ChainsGathered
    <2>3. QED
      BY <1>1, <2>2, CatType DEF Held
  <1>5. CASE ~Regular(s)
    <2>1. Gather(MiniStream, chain[s], MiniSize) \in Seq(Cells)
      BY <1>2, <1>3, <1>5, PiecesType DEF Stored
    <2>2. ChainCells(s) \in Seq(Cells)
      BY <1>5, <2>1, ChainGathered DEF ChainsGathered
    <2>3. QED
      BY <1>1, <2>2, CatType DEF Held
  <1>6. QED
    BY <1>4, <1>5

\* What the runs of s address stays what it is while the file and the mini-
\* stream grow.
LEMMA ChainCellsStay ==
    ASSUME TypeOK, TakenBelow(SectorIdx), NEW s \in Streams, Stored(s),
           chain'[s] = chain[s], Regular(s)' <=> Regular(s),
           NEW x \in Seq(Cells), out' = Cat(out, x),
           NEW y \in Seq(Cells), MiniStream' = Cat(MiniStream, y)
    PROVE  /\ ChainCells(s)' = ChainCells(s)
           /\ (~Regular(s) => Inside(MiniStream, chain[s], MiniSize))'
  <1>1. ChainCells(s)' = IF Regular(s)' THEN Gather(out', chain'[s], SecSize)
                                        ELSE Gather(MiniStream', chain'[s], MiniSize)
    <2>1. ChainsGathered'
      BY ChainGathered, PTL
    <2>2. QED
      BY <2>1 DEF ChainsGathered
  <1>2. /\ out \in Seq(Cells) /\ MiniStream \in Seq(Cells) /\ chain[s] \in RunsOf
        /\ MiniSize \in Nat /\ SecSize \in Nat
    BY MiniStreamType, ChainRuns, Sizes DEF TypeOK, SharedType
  <1>3. CASE Regular(s)
    <2>1. Gather(Cat(out, x), chain[s], SecSize) = Gather(out, chain[s], SecSize)
      BY <1>2, <1>3, ChainRuns, GatherStays
    <2>2. QED
      BY <1>1, <1>3, <2>1, ChainGathered DEF ChainsGathered
  <1>4. CASE ~Regular(s)
    <2>1. /\ Gather(Cat(MiniStream, y), chain[s], MiniSize) = Gather(MiniStream, chain[s], MiniSize)
          /\ Inside(Cat(MiniStream, y), chain[s], MiniSize)
      BY <1>2, <1>4, GatherStays DEF Stored
    <2>2. QED
      BY <1>1, <1>4, <2>1, ChainGathered DEF ChainsGathered
  <1>5. QED
    BY <1>3, <1>4

LEMMA StoredKept ==
    ASSUME TypeOK, TakenBelow(SectorIdx), NEW s \in Streams, Stored(s),
           chain'[s] = chain[s], buf'[s] = buf[s], size'[s] = size[s], closed'[s] = closed[s],
           NEW x \in Seq(Cells), out' = Cat(out, x),
           NEW y \in Seq(Cells), MiniStream' = Cat(MiniStream, y)
    PROVE  Stored(s)'
  <1>1. Regular(s)' <=> Regular(s)
    BY DEF Regular
  <1>2. ChainCells(s)' = ChainCells(s) /\ (~Regular(s) => Inside(MiniStream, chain[s], MiniSize))'
    BY <1>1, ChainCellsStay
  <1>3. Content(s)' = Content(s) /\ Held(s)' = Held(s)
    BY <1>2 DEF Content, Held
  <1>4. QED
    BY <1>2, <1>3 DEF Stored

\* A step that writes nothing for s, and nothing at all while s is between the
\* writes of a flush or within writeMini.
LEMMA Undisturbed ==
    ASSUME TypeOK, TakenBelow(SectorIdx), NEW s \in Streams, StreamInv(s),
           chain'[s] = chain[s], buf'[s] = buf[s], size'[s] = size[s], closed'[s] = closed[s],
           NEW x \in Seq(Cells), out' = Cat(out, x),
           NEW y \in Seq(Cells), MiniStream' = Cat(MiniStream, y),
           pc'[s] = "drain" => /\ pc[s] = "drain" /\ MiniStream' = MiniStream
                               /\ b'[s] = b[s] /\ first'[s] = first[s],
           pc'[s] = "flushdata" => pc[s] = "flushdata" /\ out' = out
    PROVE  StreamInv(s)'
  <1>1. Stored(s)'
    BY StoredKept DEF StreamInv
  <1>2. pc'[s] = "drain" => Draining(s)'
    BY DEF StreamInv, Draining
  <1>3. pc'[s] = "flushdata" => HalfFlushed(s)'
    BY DEF StreamInv, HalfFlushed
  <1>4. QED
    BY <1>1, <1>2, <1>3 DEF StreamInv

\* Nothing is written at all.
LEMMA NothingWritten ==
    ASSUME TypeOK, TakenBelow(SectorIdx), out' = out, miniSecs' = miniSecs, miniBuf' = miniBuf
    PROVE  /\ <<>> \in Seq(Cells)
           /\ out' = Cat(out, <<>>) /\ MiniStream' = Cat(MiniStream, <<>>)
           /\ MiniStream' = MiniStream /\ MiniEnd' = MiniEnd
  <1>1. <<>> \in Seq(Cells) /\ out \in Seq(Cells)
    BY DEF TypeOK, SharedType
  <1>2. out' = Cat(out, <<>>)
    BY <1>1, CatEmpty
  <1>3. MiniStream' = MiniStream
    BY <1>1, <1>2, MiniStays
  <1>4. MiniStream' = Cat(MiniStream, <<>>)
    BY <1>1, <1>3, MiniStreamType, CatEmpty
  <1>5. QED
    BY <1>1, <1>2, <1>3, <1>4 DEF MiniEnd

\* Only the file grows.
LEMMA FileWritten ==
    ASSUME TypeOK, TakenBelow(SectorIdx), NEW x \in Seq(Cells), out' = Cat(out, x),
           miniSecs' = miniSecs, miniBuf' = miniBuf
    PROVE  /\ <<>> \in Seq(Cells) /\ MiniStream' = Cat(MiniStream, <<>>)
           /\ MiniStream' = MiniStream /\ MiniEnd' = MiniEnd
  <1>1. MiniStream' = MiniStream
    BY MiniStays
  <1>2. <<>> \in Seq(Cells)
    OBVIOUS
  <1>3. MiniStream' = Cat(MiniStream, <<>>)
    BY <1>1, <1>2, MiniStreamType, CatEmpty
  <1>4. QED
    BY <1>1, <1>2, <1>3 DEF MiniEnd

\* A step of s that leaves the other calls alone, and writes nothing, or to
\* the file with the lock held.
LEMMA OthersKept ==
    ASSUME TypeOK, CallInv, TakenBelow(SectorIdx), HeldInv, NEW s \in Streams, OthersSame(s),
           NEW x \in Seq(Cells), out' = Cat(out, x),
           NEW y \in Seq(Cells), MiniStream' = Cat(MiniStream, y),
           mu = s \/ (out' = out /\ MiniStream' = MiniStream)
    PROVE  \A t \in Streams \ {s} : StreamInv(t)'
  <1> SUFFICES ASSUME NEW t \in Streams \ {s} PROVE StreamInv(t)'
    OBVIOUS
  <1>1. Same(t) /\ StreamInv(t) /\ t \in Streams
    BY DEF OthersSame, HeldInv
  <1>2. CASE mu = s
    <2>1. pc[t] # "drain" /\ pc[t] # "flushdata"
      BY <1>2, OneHolder DEF Locked
    <2>2. QED
      BY <1>1, <2>1, Undisturbed DEF Same
  <1>3. CASE out' = out /\ MiniStream' = MiniStream
    BY <1>1, <1>3, Undisturbed DEF Same
  <1>4. QED
    BY <1>2, <1>3

-----------------------------------------------------------------------------
(* Every step keeps HeldInv.                                                *)

LEMMA HeldInit == Init => HeldInv
  <1> SUFFICES ASSUME Init PROVE HeldInv
    OBVIOUS
  <1>1. /\ out = <<>> /\ miniSecs = <<>> /\ miniBuf = <<>>
        /\ \A s \in Streams : /\ chain[s] = <<>> /\ buf[s] = <<>> /\ size[s] = 0
                              /\ closed[s] = FALSE /\ pc[s] = "idle"
    BY DEF Init
  <1>2. UnitRuns(miniSecs) = <<>>
    BY <1>1 DEF UnitRuns
  <1>3. MiniStream = <<>>
    <2>1. <<>> \in Seq(Cells)
      OBVIOUS
    <2>2. Gather(out, UnitRuns(miniSecs), SecSize) = <<>>
      BY <1>2, GatherNone
    <2>3. MiniStream = Cat(<<>>, <<>>)
      BY <1>1, <2>2, MiniStreamGathered
    <2>4. QED
      BY <2>1, <2>3, CatEmpty
  <1>4. Len(MiniStream) = MiniEnd /\ MiniEnd % MiniSize = 0
    <2>1. MiniEnd = 0
      BY <1>1, Sizes DEF MiniEnd
    <2>2. 0 % MiniSize = 0
      BY Sizes
    <2>3. QED
      BY <1>3, <2>1, <2>2
  <1>5. ASSUME NEW s \in Streams PROVE StreamInv(s)
    <2>1. ChainCells(s) = <<>>
      BY <1>1, ChainGathered, GatherNone DEF ChainsGathered
    <2>2. Held(s) = <<>>
      <3>1. <<>> \in Seq(Cells)
        OBVIOUS
      <3>2. QED
        BY <1>1, <2>1, <3>1, CatEmpty DEF Held
    <2>3. DataCells(s, 1, 0) = <<>>
      BY DEF DataCells
    <2>4. Inside(MiniStream, chain[s], MiniSize)
      BY <1>1 DEF Inside
    <2>5. Held(s) = DataCells(s, 1, size[s]) /\ ~closed[s]
      BY <1>1, <2>2, <2>3
    <2>6. pc[s] # "drain" /\ pc[s] # "flushdata"
      BY <1>1
    <2>7. QED
      BY <2>4, <2>5, <2>6, Zenon DEF StreamInv, Stored
  <1>6. QED
    BY <1>4, <1>5 DEF HeldInv, MiniInv

LEMMA MiniKept ==
    ASSUME MiniInv, MiniStream' = MiniStream, MiniEnd' = MiniEnd,
           (\A s \in Streams : pc'[s] # "drain") => \A s \in Streams : pc[s] # "drain"
    PROVE  MiniInv'
  BY DEF MiniInv

\* Steps that write nothing and record nothing.
LEMMA QuietStep ==
    ASSUME TypeOK, CallInv, TakenBelow(SectorIdx), HeldInv, NEW s \in Streams, OthersSame(s),
           out' = out, miniSecs' = miniSecs, miniBuf' = miniBuf,
           buf' = buf, chain' = chain, size' = size, closed' = closed,
           pc[s] # "drain", pc'[s] \notin {"drain", "flushdata"}
    PROVE  HeldInv'
  <1>1. \A t \in Streams \ {s} : StreamInv(t)'
    BY OthersKept, NothingWritten
  <1>2. StreamInv(s)'
    BY Undisturbed, NothingWritten DEF HeldInv
  <1>3. MiniInv'
    BY NothingWritten, MiniKept DEF HeldInv, OthersSame, Same
  <1>4. QED
    BY <1>1, <1>2, <1>3 DEF HeldInv

\* Steps of nobody's call.
LEMMA NoCall ==
    ASSUME TypeOK, TakenBelow(SectorIdx), HeldInv,
           out' = out, miniSecs' = miniSecs, miniBuf' = miniBuf,
           UNCHANGED <<fields, locals>>
    PROVE  HeldInv'
  <1>1. ASSUME NEW t \in Streams PROVE StreamInv(t)'
    BY Undisturbed, NothingWritten DEF HeldInv, fields, locals
  <1>2. MiniInv'
    BY NothingWritten, MiniKept DEF HeldInv, locals
  <1>3. QED
    BY <1>1, <1>2 DEF HeldInv

LEMMA KeepRestHeld ==
    ASSUME TypeOK, CallInv, SupplyInv, TakenBelow(SectorIdx), HeldInv, NEW s \in Streams, KeepRest(s)
    PROVE  HeldInv'
  <1>1. /\ OthersSame(s) /\ UNCHANGED shared
        /\ pc[s] = "write" /\ Buffers(s) /\ pc'[s] = "idle"
        /\ buf'[s] = Cat(buf[s], p[s]) /\ size'[s] = size[s] + Len(p[s])
        /\ chain'[s] = chain[s] /\ closed'[s] = closed[s]
    BY KeepRestFacts DEF Cat
  <1>2. out' = out /\ miniSecs' = miniSecs /\ miniBuf' = miniBuf
    BY <1>1 DEF shared
  <1>3. /\ <<>> \in Seq(Cells)
        /\ out' = Cat(out, <<>>) /\ MiniStream' = Cat(MiniStream, <<>>)
        /\ MiniStream' = MiniStream /\ MiniEnd' = MiniEnd
    BY <1>2, NothingWritten
  <1>4. \A t \in Streams \ {s} : StreamInv(t)'
    BY <1>1, <1>2, <1>3, OthersKept
  <1>5. MiniInv'
    BY <1>1, <1>3, MiniKept DEF HeldInv, OthersSame, Same
  <1>6. /\ size[s] \in Nat /\ p[s] \in Seq(Cells) /\ Len(p[s]) \in Nat /\ Cutoff \in Nat
        /\ StepOf(s) /\ Stored(s) /\ Supply(s)
    BY Sizes DEF TypeOK, FieldsType, LocalsType, CallInv, HeldInv, StreamInv, SupplyInv
  <1>7. Regular(s)' <=> Regular(s)
    <2>1. size[s] < Cutoff => Len(p[s]) < Cutoff - size[s]
      BY <1>1, <1>6, BufferFits
    <2>2. QED
      BY <1>1, <1>6, <2>1 DEF Regular
  <1>8. ChainCells(s)' = ChainCells(s) /\ (~Regular(s) => Inside(MiniStream, chain[s], MiniSize))'
    BY <1>1, <1>3, <1>6, <1>7, ChainCellsStay
  <1>9. Held(s)' = DataCells(s, 1, size'[s])
    <2>1. ~closed[s]
      BY <1>1, <1>6 DEF StepOf
    <2>2. Held(s) = DataCells(s, 1, size[s])
      BY <1>6, <2>1 DEF Stored
    <2>3. Held(s)' = Cat(ChainCells(s), Cat(buf[s], p[s]))
      BY <1>1, <1>8 DEF Held
    <2>4. Held(s)' = Cat(Held(s), p[s])
      BY <1>6, <2>3, HeldType, CatAssoc DEF Held
    <2>5. p[s] = DataCells(s, size[s] + 1, size[s] + Len(p[s]))
      BY <1>6 DEF Supply
    <2>6. Cat(DataCells(s, 1, size[s]), DataCells(s, size[s] + 1, size[s] + Len(p[s])))
             = DataCells(s, 1, size[s] + Len(p[s]))
      BY <1>6, DataJoin
    <2>7. QED
      BY <1>1, <2>2, <2>4, <2>5, <2>6
  <1>10. ~closed'[s]
    BY <1>1, <1>6 DEF StepOf
  <1>11. StreamInv(s)'
    BY <1>1, <1>8, <1>9, <1>10 DEF StreamInv, Stored
  <1>12. QED
    BY <1>4, <1>5, <1>11 DEF HeldInv

LEMMA TakeAll ==
    ASSUME NEW S, NEW q \in Seq(S) PROVE Take(q, Len(q)) = q
  BY DEF Take

LEMMA ContentHeld == ASSUME NEW s \in Streams PROVE Content(s) = Take(Held(s), size[s])
  BY DEF Content, Held, Cat

LEMMA CloseNowHeld ==
    ASSUME TypeOK, CallInv, TakenBelow(SectorIdx), HeldInv, NEW s \in Streams, CloseNow(s)
    PROVE  HeldInv'
  <1>1. /\ OthersSame(s) /\ UNCHANGED shared
        /\ pc[s] = "close" /\ pc'[s] = "idle"
        /\ buf'[s] = buf[s] /\ size'[s] = size[s] /\ chain'[s] = chain[s] /\ closed'[s] = TRUE
    BY CloseNowFacts
  <1>2. out' = out /\ miniSecs' = miniSecs /\ miniBuf' = miniBuf
    BY <1>1 DEF shared
  <1>3. /\ <<>> \in Seq(Cells)
        /\ out' = Cat(out, <<>>) /\ MiniStream' = Cat(MiniStream, <<>>)
        /\ MiniStream' = MiniStream /\ MiniEnd' = MiniEnd
    BY <1>2, NothingWritten
  <1>4. \A t \in Streams \ {s} : StreamInv(t)'
    BY <1>1, <1>2, <1>3, OthersKept
  <1>5. MiniInv'
    BY <1>1, <1>3, MiniKept DEF HeldInv, OthersSame, Same
  <1>6. size[s] \in Nat /\ StepOf(s) /\ Stored(s) /\ ~closed[s]
    BY <1>1 DEF TypeOK, FieldsType, CallInv, HeldInv, StreamInv, StepOf
  <1>7. Regular(s)' <=> Regular(s)
    BY <1>1 DEF Regular
  <1>8. ChainCells(s)' = ChainCells(s) /\ (~Regular(s) => Inside(MiniStream, chain[s], MiniSize))'
    BY <1>1, <1>3, <1>6, <1>7, ChainCellsStay
  <1>9. Content(s)' = DataCells(s, 1, size'[s])
    <2>1. Content(s)' = Content(s)
      BY <1>1, <1>8 DEF Content
    <2>2. Content(s) = Take(DataCells(s, 1, size[s]), size[s])
      BY <1>6, ContentHeld DEF Stored
    <2>3. DataCells(s, 1, size[s]) \in Seq(Cells) /\ Len(DataCells(s, 1, size[s])) = size[s]
      BY <1>6, DataFromOne
    <2>4. Take(DataCells(s, 1, size[s]), size[s]) = DataCells(s, 1, size[s])
      BY <2>3, TakeAll
    <2>5. QED
      BY <1>1, <2>1, <2>2, <2>4
  <1>10. StreamInv(s)'
    BY <1>1, <1>8, <1>9 DEF StreamInv, Stored
  <1>11. QED
    BY <1>4, <1>5, <1>10 DEF HeldInv

\* The first write of a flush.
LEMMA FlushBufHeld ==
    ASSUME TypeOK, CallInv, TakenBelow(SectorIdx), HeldInv, NEW s \in Streams, FlushBuf(s)
    PROVE  HeldInv'
  <1>1. /\ OthersSame(s) /\ miniSecs' = miniSecs /\ miniBuf' = miniBuf
        /\ pc[s] = "flushbuf" /\ pc'[s] = "flushdata" /\ out' = Cat(out, buf[s])
        /\ buf'[s] = buf[s] /\ size'[s] = size[s] /\ chain'[s] = chain[s] /\ closed'[s] = closed[s]
    BY FlushBufFacts
  <1>2. out \in Seq(Cells) /\ buf[s] \in Seq(Cells) /\ mu = s /\ Stored(s)
    BY <1>1 DEF TypeOK, SharedType, FieldsType, CallInv, StepOf, Locked, HeldInv, StreamInv
  <1>3. /\ <<>> \in Seq(Cells) /\ MiniStream' = Cat(MiniStream, <<>>)
        /\ MiniStream' = MiniStream /\ MiniEnd' = MiniEnd
    BY <1>1, <1>2, FileWritten
  <1>4. \A t \in Streams \ {s} : StreamInv(t)'
    BY <1>1, <1>2, <1>3, OthersKept
  <1>5. MiniInv'
    BY <1>1, <1>3, MiniKept DEF HeldInv, OthersSame, Same
  <1>6. Stored(s)'
    BY <1>1, <1>2, <1>3, StoredKept
  <1>7. HalfFlushed(s)'
    <2>1. Len(out') = Len(out) + Len(buf[s]) /\ Len(out) \in Nat /\ Len(buf[s]) \in Nat
      BY <1>1, <1>2, CatType
    <2>2. Len(out') - Len(buf'[s]) = Len(out)
      BY <1>1, <2>1
    <2>3. SubSeq(out', Len(out) + 1, Len(out')) = buf[s]
      BY <1>1, <1>2, <2>1, SliceEnd
    <2>4. QED
      BY <1>1, <2>2, <2>3 DEF HalfFlushed
  <1>8. StreamInv(s)'
    BY <1>1, <1>6, <1>7 DEF StreamInv
  <1>9. QED
    BY <1>4, <1>5, <1>8 DEF HeldInv

\* A flush that fails leaves the fields of s alone, whatever it wrote.
LEMMA FlushFailsHeld ==
    ASSUME TypeOK, CallInv, TakenBelow(SectorIdx), HeldInv, NEW s \in Streams, FlushFails(s)
    PROVE  HeldInv'
  <1>1. /\ OthersSame(s) /\ miniSecs' = miniSecs /\ miniBuf' = miniBuf
        /\ PutFails(buf[s]) \/ PutFails(b[s])
        /\ pc[s] \in {"flushbuf", "flushdata"} /\ pc'[s] = "idle"
        /\ buf'[s] = buf[s] /\ size'[s] = size[s] /\ chain'[s] = chain[s] /\ closed'[s] = closed[s]
    BY FlushFailsFacts
  <1>2. buf[s] \in Seq(Cells) /\ b[s] \in Seq(Cells) /\ mu = s
    BY <1>1 DEF TypeOK, LocalsType, FieldsType, CallInv, StepOf, Locked
  <1>3. PICK x \in Seq(Cells) : out' = Cat(out, x)
    BY <1>1, <1>2, PutGrows
  <1>4. /\ <<>> \in Seq(Cells) /\ MiniStream' = Cat(MiniStream, <<>>)
        /\ MiniStream' = MiniStream /\ MiniEnd' = MiniEnd
    BY <1>1, <1>3, FileWritten
  <1>5. \A t \in Streams \ {s} : StreamInv(t)'
    BY <1>1, <1>2, <1>3, <1>4, OthersKept
  <1>6. MiniInv'
    BY <1>1, <1>4, MiniKept DEF HeldInv, OthersSame, Same
  <1>7. StreamInv(s)'
    BY <1>1, <1>3, <1>4, Undisturbed DEF HeldInv
  <1>8. QED
    BY <1>5, <1>6, <1>7 DEF HeldInv

\* A multiple of d.
LEMMA Whole ==
    ASSUME NEW x \in Nat, NEW d \in Nat \ {0}, x % d = 0
    PROVE  x \div d \in Nat /\ (x \div d) * d = x
  OBVIOUS

LEMMA FlushSums ==
    ASSUME NEW L \in Nat, NEW k \in Nat, NEW m \in Nat, NEW f \in Nat, NEW n \in Nat,
           NEW d \in Nat \ {0}, k <= L, (L - k) % d = 0, (k + m) % d = 0,
           f + n = (L + m) \div d, n = (k + m) \div d
    PROVE  f * d \in Nat /\ f * d = L - k /\ f * d <= L /\ (f + n) * d = L + m
  <1>1. n * d = k + m
    BY Whole
  <1>2. (f + n) * d = L + m
    <2>1. L - k \in Int /\ k + m \in Int /\ (L - k) + (k + m) = L + m /\ L + m \in Nat
      OBVIOUS
    <2>2. ((L - k) + (k + m)) % d = 0
      BY <2>1, MultipleSum
    <2>3. (L + m) % d = 0
      BY <2>1, <2>2
    <2>4. ((L + m) \div d) * d = L + m
      BY <2>1, <2>3, Whole
    <2>5. QED
      BY <2>4
  <1>3. (f + n) * d = f * d + n * d /\ f * d \in Nat
    OBVIOUS
  <1>4. QED
    BY <1>1, <1>2, <1>3

\* The number of sectors a flush writes.
Sectors(s) == (Len(buf[s]) + Len(b[s])) \div SecSize

\* A flush has written what the stream's buffer held and what it was handed,
\* in whole sectors from first[s] to the end of the file.
LEMMA FlushWrote ==
    ASSUME TypeOK, TypeOK', CallInv, AlignInv, FileFits', HeldInv, NEW s \in Streams, FlushRest(s),
           NEW n, n = Sectors(s)
    PROVE  /\ first[s] \in Nat /\ (first[s] + n) * SecSize <= Len(out')
           /\ SubSeq(out', first[s] * SecSize + 1, (first[s] + n) * SecSize) = Cat(buf[s], b[s])
  <1>1. /\ n \in Nat /\ n > 0 /\ U32(n) = n /\ first[s] \in Nat
        /\ SectorIdx' = first[s] + n /\ first[s] + n < Words
    BY FlushedSectors DEF Sectors
  <1>2. pc[s] = "flushdata" /\ ~err /\ out' = Cat(out, b[s])
    BY DEF FlushRest, Put, Cat
  <1>3. /\ out \in Seq(Cells) /\ buf[s] \in Seq(Cells) /\ b[s] \in Seq(Cells)
        /\ SecSize \in Nat \ {0}
    BY Sizes DEF TypeOK, SharedType, FieldsType, LocalsType
  <1>4. /\ Len(out') = Len(out) + Len(b[s])
        /\ Len(out) \in Nat /\ Len(b[s]) \in Nat /\ Len(buf[s]) \in Nat
    BY <1>2, <1>3, CatType
  <1>5. /\ Len(buf[s]) <= Len(out) /\ (Len(out) - Len(buf[s])) % SecSize = 0
        /\ (Len(buf[s]) + Len(b[s])) % SecSize = 0
    <2>1. AtBoundary(s)
      BY <1>2 DEF AlignInv
    <2>2. Len(out) - Len(buf[s]) >= 0 /\ (Len(out) - Len(buf[s])) % SecSize = 0
      BY <1>2, <2>1 DEF AtBoundary, FlushBase, Flushing
    <2>3. (Len(buf[s]) + Len(b[s])) % SecSize = 0
      BY <1>2 DEF CallInv, StepOf, Flushing
    <2>4. Len(buf[s]) <= Len(out)
      BY <1>4, <2>2
    <2>5. QED
      BY <2>2, <2>3, <2>4
  <1>6. first[s] + n = (Len(out) + Len(b[s])) \div SecSize
    BY <1>1, <1>4 DEF SectorIdx
  <1>7. /\ first[s] * SecSize \in Nat /\ first[s] * SecSize = Len(out) - Len(buf[s])
        /\ first[s] * SecSize <= Len(out)
        /\ (first[s] + n) * SecSize = Len(out) + Len(b[s])
    <2>1. PICK L, k, m, f : L = Len(out) /\ k = Len(buf[s]) /\ m = Len(b[s]) /\ f = first[s]
      OBVIOUS
    <2>2. /\ L \in Nat /\ k \in Nat /\ m \in Nat /\ f \in Nat /\ n \in Nat /\ k <= L
          /\ SecSize \in Nat \ {0} /\ (L - k) % SecSize = 0 /\ (k + m) % SecSize = 0
          /\ f + n = (L + m) \div SecSize /\ n = (k + m) \div SecSize
      BY <1>1, <1>3, <1>4, <1>5, <1>6, <2>1 DEF Sectors
    <2>3. /\ f * SecSize \in Nat /\ f * SecSize = L - k /\ f * SecSize <= L
          /\ (f + n) * SecSize = L + m
      BY <2>2, FlushSums
    <2>4. QED
      BY <2>1, <2>3
  <1> DEFINE a == first[s] * SecSize
  <1>8. SubSeq(out', a + 1, Len(out) + Len(b[s])) = Cat(SubSeq(out, a + 1, Len(out)), b[s])
    <2>1. a \in Nat /\ a <= Len(out)
      BY <1>7
    <2> HIDE DEF a
    <2>2. QED
      BY <1>2, <1>3, <2>1, SliceGrows
  <1>9. SubSeq(out, a + 1, Len(out)) = buf[s]
    BY <1>2, <1>7 DEF HeldInv, StreamInv, HalfFlushed
  <1>10. (first[s] + n) * SecSize <= Len(out')
    <2>1. Len(out') \in Nat /\ Len(out') = (first[s] + n) * SecSize
      BY <1>4, <1>7
    <2>2. \A i \in Nat : i <= i
      OBVIOUS
    <2>3. QED
      BY <2>1, <2>2
  <1>11. QED
    BY <1>1, <1>7, <1>8, <1>9, <1>10

\* ... and has recorded it.
LEMMA FlushHolds ==
    ASSUME TypeOK, TypeOK', CallInv, AlignInv, FileFits', RunsSound, HeldInv,
           NEW s \in Streams, FlushRest(s), Regular(s)'
    PROVE  ChainCells(s)' = Cat(Held(s), b[s]) /\ Held(s) = DataCells(s, 1, size[s])
  <1> PICK n : n = Sectors(s)
    OBVIOUS
  <1>1. /\ n \in Nat /\ n > 0 /\ U32(n) = n /\ first[s] \in Nat
        /\ first[s] + n < Words
    BY FlushedSectors DEF Sectors
  <1>2. /\ (first[s] + n) * SecSize <= Len(out')
        /\ SubSeq(out', first[s] * SecSize + 1, (first[s] + n) * SecSize) = Cat(buf[s], b[s])
    BY FlushWrote
  <1>3. /\ pc[s] = "flushdata" /\ ~err /\ out' = Cat(out, b[s])
        /\ chain'[s] = AddRun(chain[s], first[s], n)
    BY <1>1 DEF FlushRest, Put, Cat, TypeOK, FieldsType, Sectors
  <1>4. /\ out \in Seq(Cells) /\ out' \in Seq(Cells)
        /\ buf[s] \in Seq(Cells) /\ b[s] \in Seq(Cells)
        /\ SecSize \in Nat /\ chain[s] \in Seq(Runs)
        /\ Stored(s) /\ ~closed[s] /\ TakenBelow(SectorIdx)
    <2>1. TakenBelow(SectorIdx)
      BY DEF RunsSound
    <2>2. Stored(s) /\ ~closed[s]
      BY <1>3 DEF HeldInv, StreamInv, CallInv, StepOf
    <2>3. QED
      BY <2>1, <2>2, Sizes DEF TypeOK, SharedType, FieldsType, LocalsType, Runs
  \* The runs recorded before.
  <1>5. /\ Gather(out', chain[s], SecSize) = ChainCells(s)
        /\ Inside(out', chain[s], SecSize) /\ EndsBelow(chain[s], first[s])
    <2>1. CASE Regular(s)
      <3>1. chain[s] \in RunsOf /\ Inside(out, chain[s], SecSize)
        BY <1>4, <2>1, ChainRuns
      <3>2. Gather(out', chain[s], SecSize) = Gather(out, chain[s], SecSize)
            /\ Inside(out', chain[s], SecSize)
        BY <1>3, <1>4, <3>1, GatherStays
      <3>3. EndsBelow(chain[s], first[s])
        BY <1>3, <2>1 DEF RunsSound, Flushing, TakenBelow, EndsBelow
      <3>4. QED
        BY <2>1, <3>2, <3>3, ChainGathered DEF ChainsGathered
    <2>2. CASE ~Regular(s)
      <3>1. chain[s] = <<>>
        BY <1>4, <2>2 DEF RunsSound
      <3>2. ChainCells(s) = <<>> /\ Gather(out', chain[s], SecSize) = <<>>
        BY <2>2, <3>1, ChainGathered, GatherNone DEF ChainsGathered
      <3>3. Inside(out', chain[s], SecSize) /\ EndsBelow(chain[s], first[s])
        BY <3>1 DEF Inside, EndsBelow
      <3>4. QED
        BY <3>2, <3>3
    <2>3. QED
      BY <2>1, <2>2
  <1>6. Gather(out', AddRun(chain[s], first[s], n), SecSize)
           = Cat(Gather(out', chain[s], SecSize),
                 SubSeq(out', first[s] * SecSize + 1, (first[s] + n) * SecSize))
    <2>1. PICK f, ch, o : f = first[s] /\ ch = chain[s] /\ o = out'
      OBVIOUS
    <2>2. /\ f \in Nat /\ n \in Nat /\ n > 0 /\ f + n < Words /\ ch \in Seq(Runs)
          /\ o \in Seq(Cells) /\ SecSize \in Nat /\ (f + n) * SecSize <= Len(o) /\ Inside(o, ch, SecSize) /\ EndsBelow(ch, f)
      BY <1>1, <1>2, <1>4, <1>5, <2>1
    <2>3. Gather(o, AddRun(ch, f, n), SecSize)
             = Cat(Gather(o, ch, SecSize), SubSeq(o, f * SecSize + 1, (f + n) * SecSize))
      BY <2>2, GatherFlushed
    <2>4. QED
      BY <2>1, <2>3
  <1>7. ChainCells(s)' = Gather(out', chain'[s], SecSize)
    <2>1. ChainsGathered'
      BY ChainGathered, PTL
    <2>2. QED
      BY <2>1 DEF ChainsGathered
  <1>8. ChainCells(s)' = Cat(ChainCells(s), Cat(buf[s], b[s]))
    BY <1>2, <1>3, <1>5, <1>6, <1>7
  <1>9. ChainCells(s) \in Seq(Cells)
    BY <1>4, HeldType
  <1>10. ChainCells(s)' = Cat(Held(s), b[s])
    BY <1>4, <1>8, <1>9, CatAssoc DEF Held
  <1>11. Held(s) = DataCells(s, 1, size[s])
    BY <1>4 DEF Stored
  <1>12. QED
    BY <1>10, <1>11

\* What a successful flush does to the other streams and the mini-stream.
LEMMA FlushRestOthers ==
    ASSUME TypeOK, CallInv, TakenBelow(SectorIdx), HeldInv, NEW s \in Streams, OthersSame(s),
           miniSecs' = miniSecs, miniBuf' = miniBuf, out' = Cat(out, b[s]),
           pc[s] = "flushdata", pc'[s] \in {"idle", "write"}
    PROVE  MiniInv' /\ \A t \in Streams \ {s} : StreamInv(t)'
  <1>1. b[s] \in Seq(Cells) /\ mu = s
    BY DEF TypeOK, LocalsType, CallInv, StepOf, Locked
  <1>2. /\ <<>> \in Seq(Cells) /\ MiniStream' = Cat(MiniStream, <<>>)
        /\ MiniStream' = MiniStream /\ MiniEnd' = MiniEnd
    BY <1>1, FileWritten
  <1>3. \A t \in Streams \ {s} : StreamInv(t)'
    BY <1>1, <1>2, OthersKept
  <1>4. MiniInv'
    BY <1>2, MiniKept DEF HeldInv, OthersSame, Same
  <1>5. QED
    BY <1>3, <1>4

LEMMA FlushInWriteHeld ==
    ASSUME TypeOK, TypeOK', CallInv, AlignInv, FileFits', RunsSound, SupplyInv, HeldInv,
           NEW s \in Streams, FlushInWrite(s)
    PROVE  HeldInv'
  <1>1. /\ OthersSame(s) /\ miniSecs' = miniSecs /\ miniBuf' = miniBuf
        /\ FlushRest(s) /\ out' = Cat(out, b[s])
        /\ pc[s] = "flushdata" /\ pc'[s] \in {"idle", "write"} /\ p[s] # <<>>
        /\ buf'[s] = <<>> /\ size'[s] = size[s] + Len(b[s]) /\ closed'[s] = closed[s]
    BY FlushInWriteFacts
  <1>2. /\ size[s] \in Nat /\ b[s] \in Seq(Cells) /\ p[s] \in Seq(Cells)
        /\ Len(b[s]) \in Nat /\ Len(p[s]) \in Nat /\ Cutoff \in Nat
        /\ StepOf(s) /\ Supply(s) /\ TakenBelow(SectorIdx) /\ Stored(s)
    BY Sizes DEF TypeOK, FieldsType, LocalsType, CallInv, SupplyInv, RunsSound, HeldInv, StreamInv
  <1>3. MiniInv' /\ \A t \in Streams \ {s} : StreamInv(t)'
    BY <1>1, <1>2, FlushRestOthers
  <1>4. Len(b[s]) <= Len(p[s]) /\ ~closed[s] /\ (size[s] < Cutoff => Len(b[s]) = Cutoff - size[s])
    BY <1>1, <1>2 DEF StepOf, Flushing
  <1>5. Regular(s)'
    BY <1>1, <1>2, <1>4 DEF Regular
  <1>6. ChainCells(s)' = Cat(Held(s), b[s]) /\ Held(s) = DataCells(s, 1, size[s])
    BY <1>1, <1>5, FlushHolds
  <1>7. Held(s) \in Seq(Cells) /\ Cat(Held(s), b[s]) \in Seq(Cells)
    BY <1>2, HeldType, CatType
  <1>8. Held(s)' = Cat(Held(s), b[s])
    BY <1>1, <1>6, <1>7, CatEmpty DEF Held
  <1>9. b[s] = DataCells(s, size[s] + 1, size[s] + Len(b[s]))
    <2>1. b[s] = Take(p[s], Len(b[s]))
      BY <1>1, <1>2 DEF Supply, Flushing
    <2>2. p[s] = DataCells(s, size[s] + 1, size[s] + Len(p[s]))
      BY <1>2 DEF Supply
    <2>3. PICK z, k, n : z = size[s] /\ k = Len(p[s]) /\ n = Len(b[s])
      OBVIOUS
    <2>4. z \in Nat /\ k \in Nat /\ n \in Nat /\ n <= k
      BY <1>2, <1>4, <2>3
    <2>5. Take(DataCells(s, z + 1, z + k), n) = DataCells(s, z + 1, z + n)
      <3>1. \A i, m, l \in Nat : m <= l =>
              /\ Take(DataCells(s, i + 1, i + l), m) = DataCells(s, i + 1, i + m)
              /\ Drop(DataCells(s, i + 1, i + l), m)
                    = DataCells(s, (i + m) + 1, (i + m) + (l - m))
        BY DataSplit
      <3>2. QED
        BY <2>4, <3>1
    <2>6. QED
      BY <2>1, <2>2, <2>3, <2>5
  <1>10. Held(s)' = DataCells(s, 1, size'[s])
    <2>1. Cat(DataCells(s, 1, size[s]), DataCells(s, size[s] + 1, size[s] + Len(b[s])))
             = DataCells(s, 1, size[s] + Len(b[s]))
      BY <1>2, DataJoin
    <2>2. QED
      BY <1>1, <1>6, <1>8, <1>9, <2>1
  <1>11. StreamInv(s)'
    BY <1>1, <1>4, <1>5, <1>10 DEF StreamInv, Stored
  <1>12. QED
    BY <1>3, <1>11 DEF HeldInv

\* A padded flush: the padding is beyond the size.
LEMMA FlushInCloseHeld ==
    ASSUME TypeOK, TypeOK', CallInv, AlignInv, FileFits', RunsSound, HeldInv,
           NEW s \in Streams, FlushInClose(s)
    PROVE  HeldInv'
  <1>1. /\ OthersSame(s) /\ miniSecs' = miniSecs /\ miniBuf' = miniBuf
        /\ FlushRest(s) /\ out' = Cat(out, b[s])
        /\ pc[s] = "flushdata" /\ pc'[s] = "idle" /\ p[s] = <<>>
        /\ buf'[s] = <<>> /\ size'[s] = size[s] /\ closed'[s] = TRUE
    BY FlushInCloseFacts
  <1>2. /\ size[s] \in Nat /\ b[s] \in Seq(Cells)
        /\ StepOf(s) /\ TakenBelow(SectorIdx) /\ Stored(s)
    BY DEF TypeOK, FieldsType, LocalsType, CallInv, RunsSound, HeldInv, StreamInv
  <1>3. MiniInv' /\ \A t \in Streams \ {s} : StreamInv(t)'
    BY <1>1, <1>2, FlushRestOthers
  <1>4. Regular(s)'
    BY <1>1, <1>2 DEF Regular, StepOf, Flushing
  <1>5. ChainCells(s)' = Cat(Held(s), b[s]) /\ Held(s) = DataCells(s, 1, size[s])
    BY <1>1, <1>4, FlushHolds
  <1>6. Held(s) \in Seq(Cells) /\ Cat(Held(s), b[s]) \in Seq(Cells)
    BY <1>2, HeldType, CatType
  <1>7. Held(s)' = Cat(DataCells(s, 1, size[s]), b[s])
    BY <1>1, <1>5, <1>6, CatEmpty DEF Held
  <1>8. DataCells(s, 1, size[s]) \in Seq(Cells) /\ Len(DataCells(s, 1, size[s])) = size[s]
    BY <1>2, DataFromOne
  <1>9. Content(s)' = Take(Held(s)', size'[s])
    BY DEF Content, Held, Cat
  <1>10. Take(Cat(DataCells(s, 1, size[s]), b[s]), size[s]) = DataCells(s, 1, size[s])
    <2>1. PICK d, n : d = DataCells(s, 1, size[s]) /\ n = size[s]
      OBVIOUS
    <2>2. d \in Seq(Cells) /\ n \in Nat /\ n <= Len(d) /\ Len(d) = n
      BY <1>2, <1>8, <2>1
    <2>3. SubSeq(Cat(d, b[s]), 1, n) = SubSeq(d, 1, n)
      BY <1>2, <2>2, PrefixStays
    <2>4. Take(d, n) = d
      BY <2>2, TakeAll
    <2>5. QED
      BY <2>1, <2>3, <2>4 DEF Take
  <1>11. Content(s)' = DataCells(s, 1, size'[s])
    BY <1>1, <1>7, <1>9, <1>10
  <1>12. StreamInv(s)'
    BY <1>1, <1>4, <1>11 DEF StreamInv, Stored
  <1>13. QED
    BY <1>3, <1>12 DEF HeldInv

\* Close takes the lock and finds the mini-stream at a mini sector boundary.
LEMMA CloseMiniHeld ==
    ASSUME TypeOK, CallInv, TakenBelow(SectorIdx), MiniFits, HeldInv,
           NEW s \in Streams, CloseMini(s)
    PROVE  HeldInv'
  <1>1. /\ OthersSame(s) /\ mu = NoOne
        /\ out' = out /\ miniSecs' = miniSecs /\ miniBuf' = miniBuf
        /\ pc[s] = "close" /\ pc'[s] = "drain" /\ b'[s] = PadTo(buf[s], MiniSize)
        /\ first'[s] = U32(MiniEnd \div MiniSize)
        /\ buf'[s] = buf[s] /\ size'[s] = size[s] /\ chain'[s] = chain[s] /\ closed'[s] = closed[s]
    BY CloseMiniFacts DEF MiniEnd
  <1>2. /\ <<>> \in Seq(Cells)
        /\ out' = Cat(out, <<>>) /\ MiniStream' = Cat(MiniStream, <<>>)
        /\ MiniStream' = MiniStream /\ MiniEnd' = MiniEnd
    BY <1>1, NothingWritten
  <1>3. \A t \in Streams \ {s} : StreamInv(t)'
    BY <1>1, <1>2, OthersKept
  <1>4. MiniInv'
    BY <1>1, <1>2 DEF HeldInv, MiniInv
  <1>5. Stored(s)'
    BY <1>1, <1>2, StoredKept DEF HeldInv, StreamInv
  <1>6. MiniStream \in Seq(Cells) /\ Len(MiniStream) = MiniEnd /\ MiniEnd \in Nat
    BY MiniStreamType DEF HeldInv, MiniInv
  <1>7. first'[s] * MiniSize = MiniEnd
    <2>1. \A t \in Streams : pc[t] # "drain"
      BY <1>1, NoHolder, CallAssumption DEF Locked
    <2>2. MiniEnd % MiniSize = 0
      BY <2>1 DEF HeldInv, MiniInv
    <2>3. MiniEnd \div MiniSize \in Nat /\ (MiniEnd \div MiniSize) * MiniSize = MiniEnd
      BY <1>6, <2>2, Whole, Sizes
    <2>4. MiniEnd \div MiniSize < Words
      BY <2>3, GeometryAssumption DEF MiniFits, MaxRegSect
    <2>5. QED
      BY <1>1, <2>3, <2>4, U32Type
  <1>8. Draining(s)'
    <2>1. buf[s] \in Seq(Cells) /\ PadTo(buf[s], MiniSize) \in Seq(Cells)
      BY PadToType, Sizes DEF TypeOK, FieldsType
    <2>2. SubSeq(MiniStream, MiniEnd + 1, MiniEnd) = <<>>
      BY <1>6
    <2>3. Cat(SubSeq(MiniStream, MiniEnd + 1, MiniEnd), PadTo(buf[s], MiniSize))
             = PadTo(buf[s], MiniSize)
      BY <2>1, <2>2, CatEmpty
    <2>4. Len(MiniStream') = MiniEnd /\ MiniEnd <= MiniEnd
      BY <1>2, <1>6
    <2>5. QED
      BY <1>1, <1>2, <1>7, <2>3, <2>4 DEF Draining
  <1>9. StreamInv(s)'
    BY <1>1, <1>5, <1>8 DEF StreamInv
  <1>10. QED
    BY <1>3, <1>4, <1>9 DEF HeldInv

LEMMA MultipleTimes ==
    ASSUME NEW n \in Nat, NEW x \in Nat, NEW d \in Nat \ {0}, x % d = 0
    PROVE  (n * x) % d = 0
  <1>1. PICK q \in Nat : x = q * d
    BY Whole
  <1>2. n * x = (n * q) * d /\ n * q \in Nat
    BY <1>1
  <1>3. \A k \in Nat : (k * d) % d = 0
    OBVIOUS
  <1>4. QED
    BY <1>2, <1>3

\* The mini-stream grows by what an iteration of writeMini takes.
LEMMA MiniEndGrows ==
    ASSUME TypeOK, NEW x \in Seq(Cells), WriteMini(x) \/ WriteMiniFails(x)
    PROVE  MiniTake(x) \in Nat /\ MiniEnd' = MiniEnd + MiniTake(x)
  <1> DEFINE k == MiniTake(x)
             F == MiniFilled(x)
  <1>1. k \in Nat /\ F \in Seq(Cells) /\ Len(F) = Len(miniBuf) + k
    <2>1. k \in 0 .. Len(x) /\ F \in Seq(Cells) /\ Len(F) = Len(miniBuf) + k
      BY MiniStep
    <2>2. QED
      BY <2>1
  <1>2. /\ Len(miniSecs) \in Nat /\ Len(miniBuf) \in Nat /\ SecSize \in Nat \ {0}
    BY Sizes DEF TypeOK, SharedType
  <1> HIDE DEF k, F
  \* The sector that is full, or the buffer that is longer.
  <1>3. ASSUME miniBuf' = F, miniSecs' = miniSecs
        PROVE  MiniEnd' = MiniEnd + k
    <2>1. MiniEnd' = Len(miniSecs) * SecSize + (Len(miniBuf) + k)
      BY <1>1, <1>3 DEF MiniEnd
    <2>2. PICK z : z = Len(miniSecs) * SecSize
      OBVIOUS
    <2>3. z \in Nat /\ Len(miniBuf) \in Nat /\ k \in Nat
      BY <1>1, <1>2, <2>2
    <2>4. z + (Len(miniBuf) + k) = (z + Len(miniBuf)) + k
      BY <2>3
    <2>5. MiniEnd = z + Len(miniBuf) /\ MiniEnd' = z + (Len(miniBuf) + k)
      BY <2>1, <2>2 DEF MiniEnd
    <2>6. QED
      BY <2>4, <2>5
  <1>4. ASSUME miniBuf' = <<>>, Len(miniSecs') = Len(miniSecs) + 1, Len(F) = SecSize
        PROVE  MiniEnd' = MiniEnd + k
    <2>1. Len(miniBuf') = 0
      BY <1>4
    <2>2. MiniEnd' = (Len(miniSecs) + 1) * SecSize + 0
      BY <1>4, <2>1 DEF MiniEnd
    <2>3. (Len(miniSecs) + 1) * SecSize = Len(miniSecs) * SecSize + SecSize
          /\ Len(miniSecs) * SecSize \in Nat
      BY <1>2
    <2>4. MiniEnd = Len(miniSecs) * SecSize + Len(miniBuf)
      BY DEF MiniEnd
    <2>5. Len(miniBuf) + k = SecSize
      BY <1>1, <1>4
    <2>6. QED
      BY <1>1, <1>2, <2>2, <2>3, <2>4, <2>5
  <1>5. Len(Append(miniSecs, U32(SectorIdx))) = Len(miniSecs) + 1
    BY DEF TypeOK, SharedType
  <1>6. MiniEnd' = MiniEnd + k
    BY <1>3, <1>4, <1>5 DEF WriteMini, WriteMiniFails, F
  <1>7. QED
    BY <1>1, <1>6 DEF k

\* What an iteration of writeMini does to the file and the mini-stream.
LEMMA MiniWritten ==
    ASSUME TypeOK, CallInv, AlignInv, TakenBelow(SectorIdx), FileFits, MiniInv,
           NEW s \in Streams, pc[s] = "drain", WriteMini(b[s]) \/ WriteMiniFails(b[s])
    PROVE  /\ \E x \in Seq(Cells) : out' = Cat(out, x)
           /\ Take(b[s], MiniTake(b[s])) \in Seq(Cells)
           /\ MiniStream' = Cat(MiniStream, Take(b[s], MiniTake(b[s])))
           /\ Len(MiniStream') = MiniEnd'
           /\ WriteMiniFails(b[s]) => MiniEnd' % MiniSize = 0
  <1> DEFINE k == MiniTake(b[s])
             x == Take(b[s], k)
             F == MiniFilled(b[s])
  <1>1. /\ MiniStream' = Cat(MiniStream, x) /\ MiniStream \in Seq(Cells)
        /\ x \in Seq(Cells) /\ b[s] \in Seq(Cells)
    BY MiniGrows
  <1>2. /\ k \in Nat /\ F \in Seq(Cells) /\ Len(F) = Len(miniBuf) + k /\ Len(x) = k
    <2>1. k \in 0 .. Len(b[s]) /\ F \in Seq(Cells) /\ Len(F) = Len(miniBuf) + k
      BY <1>1, MiniStep
    <2>2. Len(x) = k
      BY <1>1, <2>1, TakeLength
    <2>3. k \in Nat
      BY <2>1
    <2>4. QED
      BY <2>1, <2>2, <2>3
  <1>3. /\ Len(miniSecs) \in Nat /\ Len(miniBuf) \in Nat /\ SecSize \in Nat \ {0}
        /\ out \in Seq(Cells)
    BY Sizes DEF TypeOK, SharedType
  <1>4. Len(MiniStream') = MiniEnd + k
    BY <1>1, <1>2, CatType DEF MiniInv
  <1> HIDE DEF k, x, F
  <1>5. \E y \in Seq(Cells) : out' = Cat(out, y)
    <2>1. CASE Put(F) \/ PutFails(F)
      BY <1>2, <2>1, PutGrows
    <2>2. CASE out' = out
      <3>1. <<>> \in Seq(Cells) /\ Cat(out, <<>>) = out
        BY <1>3, CatEmpty
      <3>2. QED
        BY <2>2, <3>1
    <2>3. Put(F) \/ PutFails(F) \/ out' = out
      BY DEF WriteMini, WriteMiniFails, F
    <2>4. QED
      BY <2>1, <2>2, <2>3
  <1>6. MiniEnd' = MiniEnd + k
    BY <1>1, MiniEndGrows DEF k
  <1>7. ASSUME WriteMiniFails(b[s]) PROVE MiniEnd' % MiniSize = 0
    <2>1. miniBuf' = F /\ Len(F) = SecSize /\ miniSecs' = miniSecs
      BY <1>7 DEF WriteMiniFails, F
    <2>2. MiniEnd' = Len(miniSecs) * SecSize + SecSize
      BY <2>1 DEF MiniEnd
    <2>3. SecSize % MiniSize = 0 /\ MiniSize \in Nat \ {0}
      BY GeometryAssumption
    <2>4. (Len(miniSecs) * SecSize) % MiniSize = 0 /\ Len(miniSecs) * SecSize \in Int
          /\ SecSize \in Int
      <3>1. Len(miniSecs) * SecSize \in Int /\ SecSize \in Nat
        BY <1>3
      <3>2. \A n \in Nat : (n * SecSize) % MiniSize = 0
        BY <2>3, <3>1, MultipleTimes
      <3>3. QED
        BY <1>3, <3>1, <3>2
    <2>5. (Len(miniSecs) * SecSize + SecSize) % MiniSize = 0
      BY <2>3, <2>4, MultipleSum
    <2>6. QED
      BY <2>2, <2>5
  <1>8. QED
    BY <1>1, <1>4, <1>5, <1>6, <1>7 DEF x, k

\* The mini-stream after an iteration of writeMini, from where s began.
LEMMA DrainWrote ==
    ASSUME TypeOK, CallInv, AlignInv, TakenBelow(SectorIdx), FileFits, HeldInv,
           NEW s \in Streams, pc[s] = "drain", WriteMini(b[s]), first'[s] = first[s],
           NEW a, a = first[s] * MiniSize
    PROVE  /\ a \in Nat /\ a <= Len(MiniStream')
           /\ MiniStream' \in Seq(Cells)
           /\ SubSeq(MiniStream', a + 1, Len(MiniStream'))
                = Cat(SubSeq(MiniStream, a + 1, Len(MiniStream)), Take(b[s], MiniTake(b[s])))
           /\ Cat(SubSeq(MiniStream, a + 1, Len(MiniStream)), b[s]) = PadTo(buf[s], MiniSize)
           /\ SubSeq(MiniStream, a + 1, Len(MiniStream)) \in Seq(Cells)
  <1>1. PICK x : x = Take(b[s], MiniTake(b[s]))
    OBVIOUS
  <1>2. x \in Seq(Cells) /\ MiniStream' = Cat(MiniStream, x)
    BY <1>1, MiniWritten DEF HeldInv
  <1>3. MiniStream \in Seq(Cells) /\ Draining(s)
    BY MiniStreamType DEF HeldInv, StreamInv
  <1>4. a \in Nat /\ a <= Len(MiniStream)
    <2>1. first[s] \in Nat
      BY GeometryAssumption DEF TypeOK, LocalsType, Words32
    <2>2. a <= Len(MiniStream)
      BY <1>3 DEF Draining
    <2>3. QED
      BY <2>1, <2>2, Sizes
  <1>5. PICK m : m = MiniStream
    OBVIOUS
  <1>6. m \in Seq(Cells) /\ a <= Len(m) /\ MiniStream' = Cat(m, x)
    BY <1>2, <1>3, <1>4, <1>5
  <1>7. Len(Cat(m, x)) = Len(m) + Len(x) /\ Cat(m, x) \in Seq(Cells)
        /\ Len(m) \in Nat /\ Len(x) \in Nat
    BY <1>2, <1>6, CatType
  <1>8. SubSeq(Cat(m, x), a + 1, Len(m) + Len(x)) = Cat(SubSeq(m, a + 1, Len(m)), x)
    BY <1>2, <1>4, <1>6, SliceGrows
  <1>9. SubSeq(m, a + 1, Len(m)) \in Seq(Cells)
    BY <1>4, <1>6
  <1>10. a <= Len(m) + Len(x)
    BY <1>4, <1>6, <1>7
  <1>11. Cat(SubSeq(MiniStream, a + 1, Len(MiniStream)), b[s]) = PadTo(buf[s], MiniSize)
    BY <1>3 DEF Draining
  <1>12. QED
    BY <1>1, <1>4, <1>5, <1>6, <1>7, <1>8, <1>9, <1>10, <1>11

\* What an iteration of writeMini does to the other streams.
LEMMA DrainOthers ==
    ASSUME TypeOK, CallInv, AlignInv, TakenBelow(SectorIdx), FileFits, HeldInv,
           NEW s \in Streams, pc[s] = "drain", OthersSame(s), WriteMini(b[s]) \/ WriteMiniFails(b[s])
    PROVE  \A t \in Streams \ {s} : StreamInv(t)'
  <1>1. mu = s
    BY DEF CallInv, StepOf, Locked
  <1>2. PICK x \in Seq(Cells) : out' = Cat(out, x)
    BY MiniWritten DEF HeldInv
  <1>3. PICK y \in Seq(Cells) : MiniStream' = Cat(MiniStream, y)
    BY MiniWritten DEF HeldInv
  <1>4. QED
    BY <1>1, <1>2, <1>3, OthersKept

LEMMA DrainHeld ==
    ASSUME TypeOK, CallInv, AlignInv, TakenBelow(SectorIdx), FileFits, HeldInv,
           NEW s \in Streams, Drain(s)
    PROVE  HeldInv'
  <1>1. /\ OthersSame(s) /\ WriteMini(b[s])
        /\ pc[s] = "drain" /\ pc' = pc /\ first'[s] = first[s]
        /\ b'[s] = Drop(b[s], MiniTake(b[s]))
        /\ buf'[s] = buf[s] /\ size'[s] = size[s] /\ chain'[s] = chain[s] /\ closed'[s] = closed[s]
    BY DrainFacts
  <1>2. \A t \in Streams \ {s} : StreamInv(t)'
    BY <1>1, DrainOthers
  <1>3. PICK x \in Seq(Cells) : out' = Cat(out, x)
    BY <1>1, MiniWritten DEF HeldInv
  <1>4. PICK y \in Seq(Cells) : y = Take(b[s], MiniTake(b[s])) /\ MiniStream' = Cat(MiniStream, y)
    BY <1>1, MiniWritten DEF HeldInv
  <1>5. Stored(s)'
    BY <1>1, <1>3, <1>4, StoredKept DEF HeldInv, StreamInv
  <1>6. MiniInv'
    <2>1. Len(MiniStream') = MiniEnd'
      BY <1>1, MiniWritten DEF HeldInv
    <2>2. QED
      BY <1>1, <2>1 DEF MiniInv
  <1>7. Draining(s)'
    <2>1. PICK a : a = first[s] * MiniSize
      OBVIOUS
    <2>2. PICK q : q = SubSeq(MiniStream, a + 1, Len(MiniStream))
      OBVIOUS
    <2>3. /\ a \in Nat /\ a <= Len(MiniStream') /\ q \in Seq(Cells)
          /\ SubSeq(MiniStream', a + 1, Len(MiniStream')) = Cat(q, y)
          /\ Cat(q, b[s]) = PadTo(buf[s], MiniSize)
      BY <1>1, <1>4, <2>1, <2>2, DrainWrote
    <2>4. Cat(y, b'[s]) = b[s] /\ b'[s] \in Seq(Cells)
      <3>1. b[s] \in Seq(Cells)
        BY DEF TypeOK, LocalsType
      <3>2. MiniTake(b[s]) \in Nat /\ MiniTake(b[s]) <= Len(b[s])
            /\ Drop(b[s], MiniTake(b[s])) \in Seq(Cells)
        BY <3>1, MiniStep
      <3>3. QED
        BY <1>1, <1>4, <3>1, <3>2, TakeDrop DEF Take, Drop
    <2>5. Cat(Cat(q, y), b'[s]) = PadTo(buf[s], MiniSize)
      BY <2>3, <2>4, CatAssoc
    <2>6. QED
      BY <1>1, <2>1, <2>3, <2>5 DEF Draining
  <1>8. StreamInv(s)'
    BY <1>1, <1>5, <1>7 DEF StreamInv
  <1>9. QED
    BY <1>2, <1>6, <1>8 DEF HeldInv

\* A writeMini that fails leaves a full buffer, and so whole mini sectors.
LEMMA DrainFailsHeld ==
    ASSUME TypeOK, CallInv, AlignInv, TakenBelow(SectorIdx), FileFits, HeldInv,
           NEW s \in Streams, DrainFails(s)
    PROVE  HeldInv'
  <1>1. /\ OthersSame(s) /\ WriteMiniFails(b[s])
        /\ pc[s] = "drain" /\ pc'[s] = "idle"
        /\ buf'[s] = buf[s] /\ size'[s] = size[s] /\ chain'[s] = chain[s] /\ closed'[s] = closed[s]
    BY DrainFailsFacts
  <1>2. \A t \in Streams \ {s} : StreamInv(t)'
    BY <1>1, DrainOthers
  <1>3. PICK x \in Seq(Cells) : out' = Cat(out, x)
    BY <1>1, MiniWritten DEF HeldInv
  <1>4. PICK y \in Seq(Cells) : MiniStream' = Cat(MiniStream, y)
    BY <1>1, MiniWritten DEF HeldInv
  <1>5. StreamInv(s)'
    BY <1>1, <1>3, <1>4, Undisturbed DEF HeldInv
  <1>6. MiniInv'
    <2>1. Len(MiniStream') = MiniEnd' /\ MiniEnd' % MiniSize = 0
      BY <1>1, MiniWritten DEF HeldInv
    <2>2. QED
      BY <2>1 DEF MiniInv
  <1>7. QED
    BY <1>2, <1>5, <1>6 DEF HeldInv

\* The run that is recorded for a small stream addresses the whole of it.
LEMMA MiniRun ==
    ASSUME NEW m \in Seq(Cells), NEW f \in Nat, NEW n \in Nat, (f + n) * MiniSize = Len(m)
    PROVE  /\ Gather(m, <<[first |-> f, count |-> n]>>, MiniSize)
                = SubSeq(m, f * MiniSize + 1, Len(m))
           /\ Inside(m, <<[first |-> f, count |-> n]>>, MiniSize)
  <1> DEFINE r == [first |-> f, count |-> n]
             ch == <<r>>
             q == SubSeq(m, f * MiniSize + 1, Len(m))
  <1>1. r \in [first : Nat, count : Nat] /\ RunEnd(r) = f + n /\ r.first = f
    BY DEF RunEnd
  <1>2. ch = Append(<<>>, r)
    OBVIOUS
  <1> HIDE DEF r, ch
  <1>3. <<>> \in RunsOf /\ Inside(m, <<>>, MiniSize)
    BY DEF RunsOf, Inside
  <1>4. Len(m) \in Nat /\ Len(m) <= Len(m) /\ MiniSize \in Nat
    BY Sizes
  <1>5. RunEnd(r) * MiniSize <= Len(m)
    BY <1>1, <1>4
  <1>6. /\ Gather(m, Append(<<>>, r), MiniSize) = Cat(Gather(m, <<>>, MiniSize), Piece(m, r, MiniSize))
        /\ Inside(m, Append(<<>>, r), MiniSize)
    BY <1>1, <1>3, <1>4, <1>5, GatherNew
  <1>7. Piece(m, r, MiniSize) = q /\ Piece(m, r, MiniSize) \in Seq(Cells)
    <2>1. Piece(m, r, MiniSize) \in Seq(Cells)
      BY <1>1, <1>4, <1>5, PieceType
    <2>2. QED
      BY <1>1, <2>1 DEF Piece
  <1>8. Gather(m, Append(<<>>, r), MiniSize) = Cat(<<>>, q) /\ q \in Seq(Cells)
    BY <1>6, <1>7, GatherNone
  <1> HIDE DEF q
  <1>9. Cat(<<>>, q) = q
    BY <1>8, CatEmpty
  <1>10. Gather(m, ch, MiniSize) = q /\ Inside(m, ch, MiniSize)
    BY <1>2, <1>6, <1>8, <1>9
  <1>11. QED
    BY <1>10 DEF q, ch, r

\* Padding is beyond what it pads.
LEMMA PadToHolds ==
    ASSUME NEW x \in Seq(Cells), NEW n \in Nat \ {0}
    PROVE  /\ PadTo(x, n) \in Seq(Cells) /\ Len(PadTo(x, n)) \in Nat
           /\ Len(PadTo(x, n)) % n = 0
           /\ Take(PadTo(x, n), Len(x)) = x
  <1>1. Padding(x, n) \in Seq(Cells) /\ PadTo(x, n) = Cat(x, Padding(x, n))
    BY PaddingType DEF PadTo, Cat
  <1>2. /\ PadTo(x, n) \in Seq(Cells) /\ Len(PadTo(x, n)) = Len(x) + Len(Padding(x, n))
        /\ Len(x) \in Nat /\ Len(Padding(x, n)) \in Nat
    BY <1>1, CatType
  <1>3. Len(PadTo(x, n)) % n = 0
    BY <1>2, PaddingLength
  <1>4. Take(PadTo(x, n), Len(x)) = x
    <2>1. PICK y, k : y = Padding(x, n) /\ k = Len(x)
      OBVIOUS
    <2>2. y \in Seq(Cells) /\ k \in Nat /\ k <= Len(x) /\ PadTo(x, n) = Cat(x, y)
      BY <1>1, <1>2, <2>1
    <2>3. SubSeq(Cat(x, y), 1, k) = SubSeq(x, 1, k)
      BY <2>2, PrefixStays
    <2>4. Take(x, Len(x)) = x
      BY TakeAll
    <2>5. QED
      BY <2>1, <2>2, <2>3, <2>4 DEF Take
  <1>5. QED
    BY <1>2, <1>3, <1>4

\* Where the run of a small stream ends.
LEMMA MiniSums ==
    ASSUME NEW d \in Nat \ {0}
    PROVE  \A f, n, m \in Nat : m = f + n
              => m * d = f * d + n * d /\ (m * d) % d = 0 /\ (m * d) \div d = m
  <1>1. \A m \in Nat : (m * d) % d = 0 /\ (m * d) \div d = m
    OBVIOUS
  <1>2. \A f, n \in Nat : (f + n) * d = f * d + n * d
    OBVIOUS
  <1>3. QED
    BY <1>1, <1>2

LEMMA DrainLastHeld ==
    ASSUME TypeOK, CallInv, AlignInv, RunsSound, FileFits, MiniFits', HeldInv,
           NEW s \in Streams, DrainLast(s)
    PROVE  HeldInv'
  <1>0. TakenBelow(SectorIdx)
    BY DEF RunsSound
  <1>1. /\ OthersSame(s) /\ WriteMini(b[s]) /\ Len(b[s]) = MiniTake(b[s])
        /\ pc[s] = "drain" /\ pc'[s] = "idle" /\ first'[s] = first[s]
        /\ chain'[s] = <<[first |-> first[s],
                          count |-> U32(Len(PadTo(buf[s], MiniSize)) \div MiniSize)]>>
        /\ buf'[s] = <<>> /\ size'[s] = size[s] /\ closed'[s] = TRUE
    BY DrainLastFacts
  <1>2. \A t \in Streams \ {s} : StreamInv(t)'
    BY <1>0, <1>1, DrainOthers
  <1>3. /\ b[s] \in Seq(Cells) /\ buf[s] \in Seq(Cells) /\ first[s] \in Nat /\ size[s] \in Nat
        /\ MiniSize \in Nat \ {0}
        /\ StepOf(s) /\ Stored(s)
    BY GeometryAssumption
       DEF TypeOK, FieldsType, LocalsType, Words32, CallInv, HeldInv, StreamInv
  <1>4. Take(b[s], MiniTake(b[s])) = b[s]
    BY <1>1, <1>3, TakeAll
  <1>5. PICK q : q = PadTo(buf[s], MiniSize)
    OBVIOUS
  <1>6. /\ q \in Seq(Cells) /\ Len(q) \in Nat /\ Len(q) % MiniSize = 0
        /\ Take(q, Len(buf[s])) = buf[s]
    BY <1>3, <1>5, PadToHolds
  <1>7. PICK m : m = MiniStream'
    OBVIOUS
  <1>8. /\ m \in Seq(Cells) /\ first[s] * MiniSize \in Nat /\ first[s] * MiniSize <= Len(m)
        /\ SubSeq(m, first[s] * MiniSize + 1, Len(m)) = q
    BY <1>0, <1>1, <1>4, <1>5, <1>7, DrainWrote
  <1>9. Len(m) \in Nat /\ Len(m) - first[s] * MiniSize = Len(q)
    <2>1. PICK a : a = first[s] * MiniSize
      OBVIOUS
    <2>2. a \in Nat /\ a <= Len(m) /\ SubSeq(m, a + 1, Len(m)) = q /\ Len(m) \in Nat
      BY <1>8, <2>1
    <2>3. Len(SubSeq(m, a + 1, Len(m))) = Len(m) - a
      BY <1>8, <2>2
    <2>4. QED
      BY <2>1, <2>2, <2>3
  <1>10. PICK n : n = Len(q) \div MiniSize
    OBVIOUS
  <1>11. /\ n \in Nat /\ (first[s] + n) * MiniSize = Len(m) /\ Len(m) % MiniSize = 0
         /\ Len(m) \div MiniSize = first[s] + n
    <2>1. PICK f, E, l : f = first[s] /\ E = Len(m) /\ l = Len(q)
      OBVIOUS
    <2>2. /\ f \in Nat /\ E \in Nat /\ l \in Nat /\ MiniSize \in Nat \ {0}
          /\ l % MiniSize = 0 /\ n = l \div MiniSize
      BY <1>3, <1>6, <1>9, <1>10, <2>1
    <2>3. E = f * MiniSize + l
      <3>1. PICK c \in Nat : c = f * MiniSize
        BY <1>8, <2>1
      <3>2. E - c = l
        BY <1>9, <2>1, <3>1
      <3>3. E = c + l
        BY <2>2, <3>1, <3>2
      <3>4. QED
        BY <3>1, <3>3
    <2>4. /\ n \in Nat /\ (f + n) * MiniSize = E /\ E % MiniSize = 0
          /\ E \div MiniSize = f + n
      <3>1. n \in Nat /\ n * MiniSize = l
        BY <2>2, Whole
      <3>2. PICK k \in Nat : k = f + n
        BY <2>2, <3>1
      <3>3. \A i, j, c \in Nat : c = i + j
              => /\ c * MiniSize = i * MiniSize + j * MiniSize
                 /\ (c * MiniSize) % MiniSize = 0 /\ (c * MiniSize) \div MiniSize = c
        BY <2>2, MiniSums
      <3>4. /\ k * MiniSize = f * MiniSize + n * MiniSize
            /\ (k * MiniSize) % MiniSize = 0 /\ (k * MiniSize) \div MiniSize = k
        BY <2>2, <3>1, <3>2, <3>3
      <3>5. k * MiniSize = E
        BY <2>3, <3>1, <3>4
      <3>6. QED
        BY <3>1, <3>2, <3>4, <3>5
    <2>5. QED
      BY <2>1, <2>4
  <1>12. Len(m) = MiniEnd'
    BY <1>0, <1>1, <1>7, MiniWritten DEF HeldInv
  <1>13. U32(n) = n
    <2>1. first[s] + n <= MaxRegSect + 1
      BY <1>11, <1>12 DEF MiniFits
    <2>2. n < Words
      BY <1>3, <1>11, <2>1, GeometryAssumption DEF MaxRegSect
    <2>3. QED
      BY <1>11, <2>2, U32Type
  <1>14. MiniInv'
    BY <1>7, <1>11, <1>12 DEF MiniInv
  \* The cells of s, all of them in the mini-stream.
  <1>15. ~Regular(s) /\ ~Regular(s)' /\ Len(buf[s]) = size[s] /\ ~closed[s]
    BY <1>1, <1>3, Sizes DEF StepOf, Regular
  <1>16. Gather(m, chain'[s], MiniSize) = q /\ Inside(m, chain'[s], MiniSize)
    <2>1. chain'[s] = <<[first |-> first[s], count |-> n]>>
      BY <1>1, <1>5, <1>10, <1>13
    <2>2. PICK f : f = first[s]
      OBVIOUS
    <2>3. m \in Seq(Cells) /\ f \in Nat /\ n \in Nat /\ (f + n) * MiniSize = Len(m)
      BY <1>3, <1>8, <1>11, <2>2
    <2>4. /\ Gather(m, <<[first |-> f, count |-> n]>>, MiniSize)
                = SubSeq(m, f * MiniSize + 1, Len(m))
          /\ Inside(m, <<[first |-> f, count |-> n]>>, MiniSize)
      BY <2>3, MiniRun
    <2>5. QED
      BY <1>8, <2>1, <2>2, <2>4
  <1>17. ChainCells(s)' = q
    <2>1. ChainsGathered'
      BY ChainGathered, PTL
    <2>2. QED
      BY <1>7, <1>15, <1>16, <2>1 DEF ChainsGathered
  <1>18. Content(s)' = buf[s]
    <2>1. Content(s)' = Take(Cat(q, <<>>), size'[s])
      BY <1>1, <1>17 DEF Content, Cat
    <2>2. QED
      BY <1>1, <1>6, <1>15, <2>1, CatEmpty
  <1>19. buf[s] = DataCells(s, 1, size[s])
    <2>1. chain[s] = <<>>
      BY <1>15 DEF RunsSound
    <2>2. ChainCells(s) = <<>>
      BY <1>15, <2>1, ChainGathered, GatherNone DEF ChainsGathered
    <2>3. Held(s) = buf[s]
      BY <1>3, <2>2, CatEmpty DEF Held
    <2>4. QED
      BY <1>3, <1>15, <2>3 DEF Stored
  <1>20. StreamInv(s)'
    <2>1. Content(s)' = DataCells(s, 1, size'[s])
      BY <1>1, <1>18, <1>19
    <2>2. QED
      BY <1>1, <1>7, <1>16, <2>1 DEF StreamInv, Stored
  <1>21. QED
    BY <1>2, <1>14, <1>20 DEF HeldInv

-----------------------------------------------------------------------------
(* As long as the sector and mini sector numbers fit a FAT word, HeldInv    *)
(* holds.                                                                   *)

LEMMA MiniFitsBefore ==
    ASSUME TypeOK, [Next]_vars, MiniFits'
    PROVE  MiniFits
  <1>1. \A s \in Streams : b[s] \in Seq(Cells)
    BY DEF TypeOK, LocalsType
  <1>2. MiniEnd \in Nat
    <2>1. Len(miniSecs) \in Nat /\ Len(miniBuf) \in Nat /\ SecSize \in Nat
      BY Sizes DEF TypeOK, SharedType
    <2>2. Len(miniSecs) * SecSize \in Nat
      BY <2>1
    <2>3. QED
      BY <2>1, <2>2 DEF MiniEnd
  <1>3. \/ miniSecs' = miniSecs /\ miniBuf' = miniBuf
        \/ \E s \in Streams : WriteMini(b[s]) \/ WriteMiniFails(b[s])
    <2> DEFINE Kept == miniSecs' = miniSecs /\ miniBuf' = miniBuf
    <2>1. ASSUME NEW s \in Streams, Advance(s)
          PROVE  Kept \/ WriteMini(b[s]) \/ WriteMiniFails(b[s])
      <3>1. CASE KeepRest(s) \/ CloseNow(s)
        BY <3>1 DEF KeepRest, CloseNow, shared
      <3>2. CASE FlushBuf(s) \/ FlushInWrite(s) \/ FlushInClose(s) \/ FlushFails(s)
        BY <3>2 DEF FlushBuf, FlushInWrite, FlushInClose, FlushRest, FlushFails, Flush, shared
      <3>3. CASE Drain(s) \/ DrainLast(s) \/ DrainFails(s)
        BY <3>3 DEF Drain, DrainLast, DrainFails, shared
      <3>4. QED
        BY <2>1, <3>1, <3>2, <3>3 DEF Advance
    <2>2. ASSUME NEW s \in Streams, Acquire(s) PROVE Kept
      BY <2>2 DEF Acquire, WriteFlush, ClosePadded, CloseMini, Flush, shared
    <2>3. ASSUME NEW s \in Streams,
                 CreateStream(s) \/ CloseStream(s) \/ \E n \in WriteSizes : Write(s, n)
          PROVE  Kept
      BY <2>3 DEF CreateStream, CloseStream, Write, Create, shared
    <2>4. ASSUME NEW d \in Storages, CreateStorage(d) PROVE Kept
      BY <2>4 DEF CreateStorage, Create, shared
    <2>5. BeginClose => Kept
      BY DEF BeginClose, shared
    <2>6. UNCHANGED vars => Kept
      BY DEF vars, shared
    <2> HIDE DEF Kept
    <2>7. QED
      BY <2>1, <2>2, <2>3, <2>4, <2>5, <2>6 DEF Next, ClientNext, Kept
  <1>4. CASE miniSecs' = miniSecs /\ miniBuf' = miniBuf
    BY <1>4 DEF MiniFits, MiniEnd
  <1>5. ASSUME NEW s \in Streams, WriteMini(b[s]) \/ WriteMiniFails(b[s]) PROVE MiniFits
    <2>1. PICK k \in Nat : MiniEnd' = MiniEnd + k
      BY <1>1, <1>5, MiniEndGrows
    <2>2. MiniEnd' \in Nat /\ MiniEnd <= MiniEnd'
      BY <1>2, <2>1
    <2>3. MiniEnd \div MiniSize <= MiniEnd' \div MiniSize
      <3>1. \A m, n \in Nat : m <= n => m \div MiniSize <= n \div MiniSize
        BY DivMonotone, Sizes
      <3>2. QED
        BY <1>2, <2>2, <3>1
    <2>4. MiniEnd \div MiniSize \in Nat /\ MiniEnd' \div MiniSize \in Nat /\ MaxRegSect \in Int
      <3>1. \A n \in Nat : n \div MiniSize \in Nat
        BY DivType, Sizes
      <3>2. MaxRegSect \in Int
        BY GeometryAssumption DEF MaxRegSect
      <3>3. QED
        BY <1>2, <2>2, <3>1, <3>2
    <2>5. QED
      BY <2>3, <2>4 DEF MiniFits
  <1>6. QED
    BY <1>3, <1>4, <1>5

LEMMA HeldNext ==
    TypeOK /\ TypeOK' /\ CallInv /\ AlignInv /\ RunInv /\ SupplyInv /\ (Fits => HeldInv) /\ [Next]_vars
      => (Fits' => Fits /\ HeldInv')
  <1> SUFFICES ASSUME TypeOK, TypeOK', CallInv, AlignInv, RunInv, SupplyInv, Fits => HeldInv,
                      [Next]_vars, Fits'
               PROVE  Fits /\ HeldInv'
    OBVIOUS
  <1>1. FileFits' /\ MiniFits' /\ FileFits /\ MiniFits
    BY SectorIdxGrows, MiniFitsBefore DEF Fits
  <1>2. HeldInv /\ RunsSound /\ TakenBelow(SectorIdx)
    BY <1>1 DEF Fits, RunInv, RunsSound
  <1>3. ASSUME NEW n \in Streams \cup Storages, Create(n) PROVE HeldInv'
    BY <1>2, <1>3, NoCall DEF Create
  <1>4. ASSUME BeginClose PROVE HeldInv'
    BY <1>2, <1>4, NoCall DEF BeginClose
  <1>5. ASSUME UNCHANGED vars PROVE HeldInv'
    BY <1>2, <1>5, NoCall DEF vars, shared
  <1>6. ASSUME NEW s \in Streams, NEW n \in WriteSizes, Write(s, n) PROVE HeldInv'
    <2>1. /\ OthersSame(s) /\ out' = out /\ miniSecs' = miniSecs /\ miniBuf' = miniBuf
          /\ buf' = buf /\ chain' = chain /\ size' = size /\ closed' = closed
          /\ pc[s] = "idle" /\ pc'[s] \in {"write", "close"}
      BY <1>6, WriteFacts DEF shared
    <2>2. QED
      BY <1>2, <2>1, QuietStep
  <1>7. ASSUME NEW s \in Streams, CloseStream(s) PROVE HeldInv'
    <2>1. /\ OthersSame(s) /\ out' = out /\ miniSecs' = miniSecs /\ miniBuf' = miniBuf
          /\ buf' = buf /\ chain' = chain /\ size' = size /\ closed' = closed
          /\ pc[s] = "idle" /\ pc'[s] \in {"write", "close"}
      BY <1>7, CloseStreamFacts DEF shared
    <2>2. QED
      BY <1>2, <2>1, QuietStep
  <1>8. ASSUME NEW s \in Streams, KeepRest(s) PROVE HeldInv'
    BY <1>2, <1>8, KeepRestHeld
  <1>9. ASSUME NEW s \in Streams, CloseNow(s) PROVE HeldInv'
    BY <1>2, <1>9, CloseNowHeld
  <1>10. ASSUME NEW s \in Streams, NEW x, Flush(s, x), pc[s] # "drain" PROVE HeldInv'
    BY <1>2, <1>10, FlushFacts, QuietStep
  <1>11. ASSUME NEW s \in Streams, WriteFlush(s) PROVE HeldInv'
    BY <1>10, <1>11 DEF WriteFlush
  <1>12. ASSUME NEW s \in Streams, ClosePadded(s) PROVE HeldInv'
    BY <1>10, <1>12 DEF ClosePadded
  <1>13. ASSUME NEW s \in Streams, FlushBuf(s) PROVE HeldInv'
    BY <1>2, <1>13, FlushBufHeld
  <1>14. ASSUME NEW s \in Streams, FlushInWrite(s) PROVE HeldInv'
    BY <1>1, <1>2, <1>14, FlushInWriteHeld
  <1>15. ASSUME NEW s \in Streams, FlushInClose(s) PROVE HeldInv'
    BY <1>1, <1>2, <1>15, FlushInCloseHeld
  <1>16. ASSUME NEW s \in Streams, FlushFails(s) PROVE HeldInv'
    BY <1>2, <1>16, FlushFailsHeld
  <1>17. ASSUME NEW s \in Streams, CloseMini(s) PROVE HeldInv'
    BY <1>1, <1>2, <1>17, CloseMiniHeld
  <1>18. ASSUME NEW s \in Streams, Drain(s) PROVE HeldInv'
    BY <1>1, <1>2, <1>18, DrainHeld
  <1>19. ASSUME NEW s \in Streams, DrainLast(s) PROVE HeldInv'
    BY <1>1, <1>2, <1>19, DrainLastHeld
  <1>20. ASSUME NEW s \in Streams, DrainFails(s) PROVE HeldInv'
    BY <1>1, <1>2, <1>20, DrainFailsHeld
  <1>21. HeldInv'
    BY <1>3, <1>4, <1>5, <1>6, <1>7, <1>8, <1>9, <1>11, <1>12, <1>13, <1>14, <1>15, <1>16,
       <1>17, <1>18, <1>19, <1>20
       DEF Next, ClientNext, Advance, Acquire, CreateStream, CreateStorage
  <1>22. QED
    BY <1>1, <1>21 DEF Fits

-----------------------------------------------------------------------------
(* The steps of ByteStreams. What a stream holds is known from its size, so *)
(* that only made, size, closed and wclosed tell the steps apart.           *)

Known == \A s \in Streams : Content(s) = DataCells(s, 1, size[s]) /\ size[s] \in Nat

LEMMA HeldKnown == TypeOK /\ RunInv /\ Fits /\ HeldInv => Known
  <1> SUFFICES ASSUME TypeOK, RunInv, Fits, HeldInv, NEW s \in Streams
               PROVE  Content(s) = DataCells(s, 1, size[s]) /\ size[s] \in Nat
    BY DEF Known
  <1>1. size[s] \in Nat /\ Stored(s)
    BY DEF TypeOK, FieldsType, HeldInv, StreamInv
  <1>2. CASE closed[s]
    BY <1>1, <1>2 DEF Stored
  <1>3. CASE ~closed[s]
    <2>1. Content(s) = Take(DataCells(s, 1, size[s]), size[s])
      BY <1>1, <1>3, ContentHeld DEF Stored
    <2>2. DataCells(s, 1, size[s]) \in Seq(Cells) /\ Len(DataCells(s, 1, size[s])) = size[s]
      BY <1>1, DataFromOne
    <2>3. Take(DataCells(s, 1, size[s]), size[s]) = DataCells(s, 1, size[s])
      BY <2>2, TakeAll
    <2>4. QED
      BY <1>1, <2>1, <2>3
  <1>4. QED
    BY <1>2, <1>3

LEMMA PromiseStutters ==
    ASSUME Known, Known', wclosed' = wclosed,
           \A t \in Streams : /\ size'[t] = size[t] /\ closed'[t] = closed[t]
                              /\ t \in made' <=> t \in made
    PROVE  UNCHANGED Promise!vars
  <1>1. [s \in Streams |-> Phase(s)]' = [s \in Streams |-> Phase(s)]
    BY DEF Phase
  <1>2. [s \in Streams |-> Content(s)]' = [s \in Streams |-> Content(s)]
    BY DEF Known
  <1>3. QED
    BY <1>1, <1>2 DEF Promise!vars

LEMMA PromiseCreates ==
    ASSUME Known, Known', wclosed' = wclosed, ~wclosed,
           \A t \in Streams : size'[t] = size[t] /\ closed'[t] = closed[t],
           NEW s \in Streams, s \notin made, made' = made \cup {s}, ~closed[s]
    PROVE  Promise!Create(s)
  <1>1. [t \in Streams |-> Phase(t)]' = [[t \in Streams |-> Phase(t)] EXCEPT ![s] = "open"]
    BY DEF Phase
  <1>2. [t \in Streams |-> Content(t)]' = [t \in Streams |-> Content(t)]
    BY DEF Known
  <1>3. [t \in Streams |-> Phase(t)][s] = "absent"
    BY DEF Phase
  <1>4. QED
    BY <1>1, <1>2, <1>3 DEF Promise!Create

LEMMA PromiseAccepts ==
    ASSUME Known, Known', wclosed' = wclosed, made' = made,
           \A t \in Streams : closed'[t] = closed[t],
           NEW s \in Streams, s \in made, ~closed[s], NEW n \in Nat,
           size'[s] = size[s] + n, size[s] + n <= MaxSize,
           \A t \in Streams \ {s} : size'[t] = size[t]
    PROVE  Promise!Accept(s, n)
  <1>1. [t \in Streams |-> Phase(t)]' = [t \in Streams |-> Phase(t)]
        /\ [t \in Streams |-> Phase(t)][s] = "open"
    BY DEF Phase
  <1>2. size[s] \in Nat /\ Content(s) = DataCells(s, 1, size[s]) /\ Len(Content(s)) = size[s]
    BY DataFromOne DEF Known
  <1>3. Content(s)' = Content(s) \o DataCells(s, size[s] + 1, size[s] + n)
    <2>1. Content(s)' = DataCells(s, 1, size[s] + n)
      BY DEF Known
    <2>2. Cat(DataCells(s, 1, size[s]), DataCells(s, size[s] + 1, size[s] + n))
             = DataCells(s, 1, size[s] + n)
      BY <1>2, DataJoin
    <2>3. QED
      BY <1>2, <2>1, <2>2 DEF Cat
  <1>4. \A t \in Streams \ {s} : Content(t)' = Content(t)
    BY DEF Known
  <1>5. [t \in Streams |-> Content(t)]'
           = [[t \in Streams |-> Content(t)] EXCEPT
                ![s] = Content(s) \o DataCells(s, size[s] + 1, size[s] + n)]
    BY <1>3, <1>4
  <1>6. QED
    BY <1>1, <1>2, <1>5 DEF Promise!Accept

LEMMA PromiseCloses ==
    ASSUME Known, Known', wclosed' = wclosed, made' = made,
           \A t \in Streams : size'[t] = size[t],
           NEW s \in Streams, s \in made, ~closed[s], closed'[s] = TRUE,
           \A t \in Streams \ {s} : closed'[t] = closed[t]
    PROVE  Promise!Close(s)
  <1>1. [t \in Streams |-> Phase(t)]' = [[t \in Streams |-> Phase(t)] EXCEPT ![s] = "closed"]
    BY DEF Phase
  <1>2. [t \in Streams |-> Content(t)]' = [t \in Streams |-> Content(t)]
    BY DEF Known
  <1>3. [t \in Streams |-> Phase(t)][s] = "open"
    BY DEF Phase
  <1>4. QED
    BY <1>1, <1>2, <1>3 DEF Promise!Close

LEMMA PromiseSeals ==
    ASSUME Known, Known', made' = made, ~wclosed,
           \A t \in Streams : size'[t] = size[t] /\ closed'[t] = closed[t],
           wclosed' = TRUE,
           \A s \in Streams \cap made : closed[s]
    PROVE  Promise!Seal
  <1>1. [t \in Streams |-> Phase(t)]' = [t \in Streams |-> Phase(t)]
    BY DEF Phase
  <1>2. [t \in Streams |-> Content(t)]' = [t \in Streams |-> Content(t)]
    BY DEF Known
  <1>3. \A t \in Streams : [u \in Streams |-> Phase(u)][t] # "open"
    BY DEF Phase
  <1>4. QED
    BY <1>1, <1>2, <1>3 DEF Promise!Seal

LEMMA PromiseInit == Init => Promise!Init
  <1> SUFFICES ASSUME Init PROVE Promise!Init
    OBVIOUS
  <1>1. [s \in Streams |-> Phase(s)] = [s \in Streams |-> "absent"]
    BY DEF Init, Phase
  <1>2. ASSUME NEW s \in Streams PROVE Content(s) = <<>>
    <2>1. chain[s] = <<>> /\ buf[s] = <<>> /\ size[s] = 0
      BY <1>2 DEF Init
    <2>2. ChainCells(s) = <<>>
      BY <2>1, ChainGathered, GatherNone DEF ChainsGathered
    <2>3. Content(s) = Take(<<>> \o <<>>, 0)
      BY <2>1, <2>2 DEF Content
    <2>4. QED
      BY <2>3 DEF Take
  <1>3. [s \in Streams |-> Content(s)] = [s \in Streams |-> <<>>]
    BY <1>2
  <1>4. wclosed = FALSE
    BY DEF Init
  <1>5. QED
    BY <1>1, <1>3, <1>4 DEF Promise!Init

\* A step of ByteStreams, or one that changes nothing it knows of.
Simulated == Promise!Next \/ UNCHANGED Promise!vars

\* The step of one call, by what it does to the size and closed of its stream.
LEMMA CallSimulated ==
    ASSUME TypeOK, CallInv, SupplyInv, Known, Known', NEW s \in Streams, OthersSame(s),
           wclosed' = wclosed, made' = made,
           \/ size'[s] = size[s] /\ closed'[s] = closed[s]
           \/ /\ pc[s] # "idle" /\ closed'[s] = closed[s]
              /\ \E n \in Nat : size'[s] = size[s] + n /\ n <= Len(p[s])
           \/ pc[s] # "idle" /\ size'[s] = size[s] /\ closed'[s] = TRUE
    PROVE  Simulated
  <1>1. /\ size[s] \in Nat /\ Len(p[s]) \in Nat /\ size[s] + Len(p[s]) <= MaxSize /\ MaxSize \in Nat
        /\ pc[s] # "idle" => s \in made /\ ~closed[s]
    <2>1. Supply(s) /\ StepOf(s) /\ p[s] \in Seq(Cells) /\ size[s] \in Nat
      BY DEF SupplyInv, CallInv, TypeOK, FieldsType, LocalsType
    <2>2. QED
      BY <2>1, CallAssumption DEF Supply, StepOf
  <1>2. \A t \in Streams \ {s} : size'[t] = size[t] /\ closed'[t] = closed[t]
    BY DEF OthersSame, Same
  <1>3. CASE size'[s] = size[s] /\ closed'[s] = closed[s]
    BY <1>2, <1>3, PromiseStutters DEF Simulated
  <1>4. ASSUME pc[s] # "idle", closed'[s] = closed[s],
               NEW n \in Nat, size'[s] = size[s] + n, n <= Len(p[s])
        PROVE  Simulated
    <2>1. CASE n = 0
      BY <1>1, <1>3, <1>4, <2>1
    <2>2. CASE n # 0
      <3>1. size[s] + n <= MaxSize /\ n \in 1 .. MaxSize
        BY <1>1, <1>4, <2>2
      <3>2. Promise!Accept(s, n)
        BY <1>1, <1>2, <1>4, <3>1, PromiseAccepts
      <3>3. QED
        BY <3>1, <3>2 DEF Simulated, Promise!Next
    <2>3. QED
      BY <2>1, <2>2
  <1>5. CASE pc[s] # "idle" /\ size'[s] = size[s] /\ closed'[s] = TRUE
    <2>1. Promise!Close(s)
      BY <1>1, <1>2, <1>5, PromiseCloses
    <2>2. QED
      BY <2>1 DEF Simulated, Promise!Next
  <1>6. QED
    BY <1>3, <1>4, <1>5

LEMMA PromiseNext ==
    TypeOK /\ CallInv /\ SupplyInv /\ Known /\ Known' /\ [Next]_vars => Simulated
  <1> SUFFICES ASSUME TypeOK, CallInv, SupplyInv, Known, Known', [Next]_vars PROVE Simulated
    OBVIOUS
  <1>1. ASSUME NEW n \in Streams \cup Storages, Create(n) PROVE Simulated
    <2>1. /\ n \notin made /\ made' = made \cup {n} /\ ~wclosed /\ wclosed' = wclosed
          /\ size' = size /\ closed' = closed
      BY <1>1 DEF Create, fields
    <2>2. CASE n \in Streams
      <3>1. ~closed[n]
        BY <2>1, <2>2 DEF SupplyInv, Supply
      <3>2. Promise!Create(n)
        BY <2>1, <2>2, <3>1, PromiseCreates
      <3>3. QED
        BY <2>2, <3>2 DEF Simulated, Promise!Next
    <2>3. CASE n \in Storages
      <3>1. \A s \in Streams : s \in made' <=> s \in made
        BY <2>1, <2>3, TreeAssumption
      <3>2. QED
        BY <2>1, <3>1, PromiseStutters DEF Simulated
    <2>4. QED
      BY <2>2, <2>3
  <1>2. ASSUME BeginClose PROVE Simulated
    <2>1. Promise!Seal
      BY <1>2, PromiseSeals DEF BeginClose, fields
    <2>2. QED
      BY <2>1 DEF Simulated, Promise!Next
  <1>3. ASSUME UNCHANGED vars PROVE Simulated
    BY <1>3, PromiseStutters DEF Simulated, vars, shared, fields
  <1>4. ASSUME NEW s \in Streams, NEW n \in WriteSizes, Write(s, n) PROVE Simulated
    <2>1. /\ OthersSame(s) /\ UNCHANGED shared /\ size' = size /\ closed' = closed
      BY <1>4, WriteFacts
    <2>2. QED
      BY <2>1, CallSimulated DEF shared
  <1>5. ASSUME NEW s \in Streams, CloseStream(s) PROVE Simulated
    BY <1>5, CloseStreamFacts, CallSimulated DEF shared
  <1>6. ASSUME NEW s \in Streams, NEW x, Flush(s, x) PROVE Simulated
    BY <1>6, FlushFacts, CallSimulated
  <1>7. ASSUME NEW s \in Streams, WriteFlush(s) \/ ClosePadded(s) PROVE Simulated
    BY <1>6, <1>7 DEF WriteFlush, ClosePadded
  <1>8. ASSUME NEW s \in Streams, CloseMini(s) PROVE Simulated
    BY <1>8, CloseMiniFacts, CallSimulated
  <1>9. ASSUME NEW s \in Streams, FlushBuf(s) PROVE Simulated
    BY <1>9, FlushBufFacts, CallSimulated
  <1>10. ASSUME NEW s \in Streams, FlushFails(s) PROVE Simulated
    BY <1>10, FlushFailsFacts, CallSimulated
  <1>11. ASSUME NEW s \in Streams, Drain(s) PROVE Simulated
    BY <1>11, DrainFacts, CallSimulated
  <1>12. ASSUME NEW s \in Streams, DrainFails(s) PROVE Simulated
    BY <1>12, DrainFailsFacts, CallSimulated
  <1>13. ASSUME NEW s \in Streams, KeepRest(s) PROVE Simulated
    <2>1. /\ OthersSame(s) /\ UNCHANGED shared /\ pc[s] # "idle"
          /\ size'[s] = size[s] + Len(p[s]) /\ closed' = closed
      BY <1>13, KeepRestFacts
    <2>2. Len(p[s]) \in Nat /\ Len(p[s]) <= Len(p[s])
      BY DEF TypeOK, LocalsType
    <2>3. QED
      BY <2>1, <2>2, CallSimulated DEF shared
  <1>14. ASSUME NEW s \in Streams, FlushInWrite(s) PROVE Simulated
    <2>1. /\ OthersSame(s) /\ UNCHANGED <<made, wclosed>> /\ pc[s] = "flushdata" /\ p[s] # <<>>
          /\ size'[s] = size[s] + Len(b[s]) /\ closed' = closed
      BY <1>14, FlushInWriteFacts
    <2>2. Len(b[s]) \in Nat /\ Len(b[s]) <= Len(p[s])
      BY <2>1 DEF TypeOK, LocalsType, CallInv, StepOf, Flushing
    <2>3. QED
      BY <2>1, <2>2, CallSimulated
  <1>15. ASSUME NEW s \in Streams, CloseNow(s) PROVE Simulated
    BY <1>15, CloseNowFacts, CallSimulated DEF shared
  <1>16. ASSUME NEW s \in Streams, FlushInClose(s) PROVE Simulated
    BY <1>16, FlushInCloseFacts, CallSimulated
  <1>17. ASSUME NEW s \in Streams, DrainLast(s) PROVE Simulated
    BY <1>17, DrainLastFacts, CallSimulated
  <1>18. QED
    BY <1>1, <1>2, <1>3, <1>4, <1>5, <1>7, <1>8, <1>9, <1>10, <1>11, <1>12, <1>13, <1>14,
       <1>15, <1>16, <1>17
       DEF Next, ClientNext, Advance, Acquire, CreateStream, CreateStorage

(* As long as the sector and mini sector numbers fit a FAT word, the        *)
(* writing half of the package implements ByteStreams: whatever Writes,     *)
(* flushes and Closes of however many streams interleave and fail, a stream *)
(* holds in its runs and its buffer exactly the cells its own Writes        *)
(* accepted, in order, and once it is closed in its runs alone.             *)
THEOREM StreamsKeepTheirCells == Spec /\ []Fits => ImplementsByteStreams
  <1> DEFINE Inv == /\ TypeOK /\ CallInv /\ AlignInv /\ RunInv
                    /\ SupplyInv /\ (Fits => HeldInv)
  <1>1. Init => Inv
    BY TypeInit, CallInit, AlignInit, RunInit, SupplyInit, HeldInit
  <1>2. Inv /\ [Next]_vars => Inv'
    BY TypeNext, CallNext, AlignNext, RunNext, SupplyNext, HeldNext
  <1>3. Inv /\ Fits => TypeOK /\ CallInv /\ SupplyInv /\ Known
    BY HeldKnown
  <1>4. Inv /\ Fits /\ (Inv /\ Fits)' /\ [Next]_vars => [Promise!Next]_(Promise!vars)
    <2>1. (Inv /\ Fits => TypeOK /\ CallInv /\ SupplyInv /\ Known)'
      BY <1>3, PTL
    <2>2. QED
      BY <1>3, <2>1, PromiseNext DEF Simulated
  <1>5. QED
    BY <1>1, <1>2, <1>4, PromiseInit, PTL DEF Spec, ImplementsByteStreams, Promise!Spec

-----------------------------------------------------------------------------
(* Sorted lists of finite sets                                              *)

\* Some element of a finite set has the greatest key.
LEMMA GreatestKey ==
    ASSUME NEW S, IsFiniteSet(S), S # {}, NEW key \in [S -> Int]
    PROVE  \E m \in S : \A x \in S : key[x] <= key[m]
  <1> DEFINE above(x) == {y \in S : key[y] > key[x]}
             counts == {Cardinality(above(x)) : x \in S}
  <1>1. \A x \in S : IsFiniteSet(above(x)) /\ Cardinality(above(x)) \in Nat
    BY FS_Subset, FS_CardinalityType
  <1>2. counts \subseteq Nat /\ counts # {}
    BY <1>1
  <1>3. PICK c \in counts : \A k \in counts : c <= k
    BY <1>2, Least
  <1>4. PICK m \in S : c = Cardinality(above(m))
    BY <1>3
  <1>5. ASSUME NEW x \in S, ~(key[x] <= key[m]) PROVE FALSE
    <2>1. key[x] > key[m]
      BY <1>5
    <2>2. above(x) \subseteq above(m) /\ x \in above(m) /\ x \notin above(x)
      BY <2>1
    <2>3. Cardinality(above(x)) <= Cardinality(above(m)) /\ Cardinality(above(x)) # Cardinality(above(m))
      <3> HIDE DEF above
      <3>1. above(x) \in SUBSET above(m)
        BY <2>2
      <3>2. IsFiniteSet(above(m))
        BY <1>1
      <3>3. QED
        BY <2>2, <3>1, <3>2, FS_Subset
    <2>4. c <= Cardinality(above(x))
      BY <1>3
    <2>5. Cardinality(above(x)) \in Nat /\ Cardinality(above(m)) \in Nat
      BY <1>1
    <2> HIDE DEF above
    <2>6. QED
      BY <1>4, <2>3, <2>4, <2>5
  <1>6. QED
    BY <1>5

\* q lists the elements of S with growing keys.
Grows(q, S, key) ==
    /\ q \in [1 .. Cardinality(S) -> S]
    /\ \A i, j \in DOMAIN q : i < j => key[q[i]] < key[q[j]]

\* A finite set whose elements have different keys can be sorted.
LEMMA CanSort ==
    ASSUME NEW S, IsFiniteSet(S), NEW key, \A x \in S : key[x] \in Int,
           \A x, y \in S : key[x] = key[y] => x = y
    PROVE  \E q : Grows(q, S, key)
  <1> DEFINE Odd == {n \in Nat : \E T \in SUBSET S : Cardinality(T) = n /\ ~\E q : Grows(q, T, key)}
  <1>1. Cardinality(S) \in Nat
    BY FS_CardinalityType
  <1>2. SUFFICES ASSUME Odd # {} PROVE FALSE
    BY <1>1
  <1>3. Odd \subseteq Nat
    OBVIOUS
  <1>4. PICK n \in Odd : \A k \in Odd : n <= k
    BY <1>2, <1>3, Least
  <1>5. PICK T \in SUBSET S : Cardinality(T) = n /\ ~\E q : Grows(q, T, key)
    BY <1>4
  <1>6. IsFiniteSet(T) /\ n \in Nat
    BY <1>3, FS_Subset
  <1>7. T # {}
    <2>1. SUFFICES ASSUME T = {} PROVE FALSE
      OBVIOUS
    <2>2. n = 0
      BY <1>5, <2>1, FS_EmptySet
    <2> DEFINE e == [i \in 1 .. Cardinality(T) |-> i]
    <2>3. 1 .. Cardinality(T) = {}
      BY <1>5, <2>2
    <2>4. e \in [1 .. Cardinality(T) -> T] /\ DOMAIN e = {}
      BY <2>3
    <2>5. Grows(e, T, key)
      BY <2>4 DEF Grows
    <2>6. QED
      BY <1>5, <2>5
  <1>8. PICK m \in T : \A x \in T : key[x] <= key[m]
    <2> DEFINE k == [x \in T |-> key[x]]
    <2>1. k \in [T -> Int]
      OBVIOUS
    <2>2. PICK m \in T : \A x \in T : k[x] <= k[m]
      <3> HIDE DEF k
      <3> QED
        BY <1>6, <1>7, <2>1, GreatestKey
    <2>3. QED
      BY <2>2
  <1> DEFINE R == T \ {m}
  <1>9. IsFiniteSet(R) /\ Cardinality(R) = n - 1
    BY <1>5, <1>6, FS_RemoveElement
  <1>10. n - 1 \in Nat
    BY <1>9, FS_CardinalityType
  <1>11. n - 1 \notin Odd
    BY <1>4, <1>6
  <1>12. PICK r : Grows(r, R, key)
    BY <1>9, <1>10, <1>11
  <1>13. r \in [1 .. n - 1 -> R] /\ \A i, j \in 1 .. n - 1 : i < j => key[r[i]] < key[r[j]]
    BY <1>9, <1>12 DEF Grows
  <1> DEFINE q == [i \in 1 .. n |-> IF i = n THEN m ELSE r[i]]
  <1>14. \A i \in 1 .. n : i = n \/ i \in 1 .. n - 1
    BY <1>6, <1>10
  <1>15. q \in [1 .. n -> T]
    BY <1>13, <1>14
  <1>16. \A x \in R : key[x] < key[m]
    <2>1. TAKE x \in R
    <2>2. key[x] <= key[m] /\ key[x] # key[m] /\ key[x] \in Int /\ key[m] \in Int
      BY <1>8
    <2>3. QED
      BY <2>2
  <1>17. ASSUME NEW i \in 1 .. n, NEW j \in 1 .. n, i < j PROVE key[q[i]] < key[q[j]]
    <2>1. i \in 1 .. n - 1 /\ i # n
      BY <1>6, <1>17
    <2>2. q[i] = r[i] /\ r[i] \in R
      BY <1>13, <2>1
    <2>3. CASE j = n
      BY <1>16, <2>2, <2>3
    <2>4. CASE j # n
      <3>1. j \in 1 .. n - 1 /\ q[j] = r[j]
        BY <1>14, <2>4
      <3>2. QED
        BY <1>13, <1>17, <2>1, <2>2, <3>1
    <2>5. QED
      BY <2>3, <2>4
  <1>18. Grows(q, T, key)
    BY <1>5, <1>15, <1>17 DEF Grows
  <1>19. QED
    BY <1>5, <1>18

\* Each element of S is in q once.
ListsOnce(q, S) ==
    /\ q \in Seq(S)
    /\ \A i, j \in 1 .. Len(q) : q[i] = q[j] => i = j
    /\ \A x \in S : \E i \in 1 .. Len(q) : q[i] = x

\* A sorted list has each of them once,
LEMMA SortedOnce ==
    ASSUME NEW S, IsFiniteSet(S), NEW key, \A x \in S : key[x] \in Int,
           NEW q, Grows(q, S, key)
    PROVE  ListsOnce(q, S)
  <1> DEFINE n == Cardinality(S)
  <1>1. n \in Nat
    BY FS_CardinalityType
  <1>2. q \in [1 .. n -> S] /\ q \in Seq(S) /\ Len(q) = n
    BY <1>1 DEF Grows
  <1>3. ASSUME NEW i \in 1 .. n, NEW j \in 1 .. n, q[i] = q[j] PROVE i = j
    <2>1. key[q[i]] \in Int /\ key[q[i]] = key[q[j]]
      BY <1>2, <1>3
    <2>2. ~(i < j) /\ ~(j < i)
      BY <1>2, <2>1 DEF Grows
    <2>3. QED
      BY <1>1, <2>2
  <1>4. q \in Injection(1 .. n, S)
    BY <1>2, <1>3 DEF Injection, IsInjective
  <1>5. IsFiniteSet(1 .. n) /\ Cardinality(1 .. n) = n
    BY <1>1, FS_Interval
  <1>6. q \in Surjection(1 .. n, S)
    BY <1>4, <1>5, FS_Injection
  <1>7. \A x \in S : \E i \in 1 .. n : q[i] = x
    BY <1>6 DEF Surjection
  <1>8. QED
    BY <1>2, <1>3, <1>7 DEF ListsOnce

\* ... and a list of all of them, each once, is as long as the set is large.
LEMMA OnceIsCounted ==
    ASSUME NEW S, NEW q, ListsOnce(q, S)
    PROVE  IsFiniteSet(S) /\ Len(q) = Cardinality(S)
  <1> DEFINE n == Len(q)
  <1>1. n \in Nat /\ q \in [1 .. n -> S]
    BY DEF ListsOnce
  <1>2. q \in Bijection(1 .. n, S)
    BY <1>1 DEF ListsOnce, Bijection, Injection, Surjection, IsInjective
  <1>3. IsFiniteSet(1 .. n) /\ Cardinality(1 .. n) = n
    BY <1>1, FS_Interval
  <1>4. ExistsBijection(1 .. n, S)
    BY <1>2 DEF ExistsBijection
  <1>5. QED
    BY <1>3, <1>4, FS_Bijection

-----------------------------------------------------------------------------
(* What flattening a list of lists leaves in it                             *)

\* x is in q.
Has(q, x) == \E i \in 1 .. Len(q) : q[i] = x

\* Nothing is in q twice.
NoRepeats(q) == \A i, j \in 1 .. Len(q) : q[i] = q[j] => i = j

LEMMA CatHas ==
    ASSUME NEW S, NEW q \in Seq(S), NEW r \in Seq(S), NEW x
    PROVE  Has(Cat(q, r), x) <=> Has(q, x) \/ Has(r, x)
  <1>1. /\ Cat(q, r) \in Seq(S) /\ Len(Cat(q, r)) = Len(q) + Len(r)
        /\ Len(q) \in Nat /\ Len(r) \in Nat
    BY DEF Cat
  <1>2. \A i \in 1 .. Len(q) : Cat(q, r)[i] = q[i]
    BY DEF Cat
  <1>3. \A i \in 1 .. Len(r) : Cat(q, r)[Len(q) + i] = r[i]
    BY DEF Cat
  <1>4. ASSUME Has(q, x) PROVE Has(Cat(q, r), x)
    BY <1>1, <1>2, <1>4 DEF Has
  <1>5. ASSUME Has(r, x) PROVE Has(Cat(q, r), x)
    <2>1. PICK i \in 1 .. Len(r) : r[i] = x
      BY <1>5 DEF Has
    <2>2. Len(q) + i \in 1 .. Len(Cat(q, r)) /\ Cat(q, r)[Len(q) + i] = x
      BY <1>1, <1>3, <2>1
    <2>3. QED
      BY <2>2 DEF Has
  <1>6. ASSUME Has(Cat(q, r), x) PROVE Has(q, x) \/ Has(r, x)
    <2>1. PICK i \in 1 .. Len(Cat(q, r)) : Cat(q, r)[i] = x
      BY <1>6 DEF Has
    <2>2. CASE i \in 1 .. Len(q)
      BY <1>2, <2>1, <2>2 DEF Has
    <2>3. CASE i \notin 1 .. Len(q)
      <3>1. i - Len(q) \in 1 .. Len(r) /\ Len(q) + (i - Len(q)) = i
        BY <1>1, <2>1, <2>3
      <3>2. r[i - Len(q)] = x
        BY <1>3, <2>1, <3>1
      <3>3. QED
        BY <3>1, <3>2 DEF Has
    <2>4. QED
      BY <2>2, <2>3
  <1>7. QED
    BY <1>4, <1>5, <1>6

LEMMA CatNoRepeats ==
    ASSUME NEW S, NEW q \in Seq(S), NEW r \in Seq(S), NoRepeats(q), NoRepeats(r),
           \A x : ~(Has(q, x) /\ Has(r, x))
    PROVE  NoRepeats(Cat(q, r))
  <1> DEFINE c == Cat(q, r)
             m == Len(q)
  <1>1. Len(c) = m + Len(r) /\ m \in Nat /\ Len(r) \in Nat
    BY DEF Cat
  <1>2. \A i \in 1 .. m : c[i] = q[i]
    BY DEF Cat
  <1>3. \A i \in 1 .. Len(r) : c[m + i] = r[i]
    BY DEF Cat
  <1> HIDE DEF c
  <1>4. \A i \in 1 .. Len(c) : i \in 1 .. m \/ (i - m \in 1 .. Len(r) /\ c[i] = r[i - m])
    <2>1. TAKE i \in 1 .. Len(c)
    <2>2. i \in 1 .. m \/ (i - m \in 1 .. Len(r) /\ m + (i - m) = i)
      BY <1>1
    <2>3. QED
      BY <1>3, <2>2
  <1>5. ASSUME NEW i \in 1 .. Len(c), NEW j \in 1 .. Len(c), c[i] = c[j] PROVE i = j
    <2>1. CASE i \in 1 .. m /\ j \in 1 .. m
      BY <1>2, <1>5, <2>1 DEF NoRepeats
    <2>2. CASE i \notin 1 .. m /\ j \notin 1 .. m
      <3>1. /\ i - m \in 1 .. Len(r) /\ j - m \in 1 .. Len(r)
            /\ r[i - m] = r[j - m]
        BY <1>4, <1>5, <2>2
      <3>2. i - m = j - m
        BY <3>1 DEF NoRepeats
      <3>3. QED
        BY <1>1, <3>2
    <2>3. CASE i \in 1 .. m /\ j \notin 1 .. m
      <3>1. Has(q, c[i])
        BY <1>2, <2>3 DEF Has
      <3>2. Has(r, c[j])
        BY <1>4, <2>3 DEF Has
      <3>3. QED
        BY <1>5, <3>1, <3>2
    <2>4. CASE i \notin 1 .. m /\ j \in 1 .. m
      <3>1. Has(r, c[i])
        BY <1>4, <2>4 DEF Has
      <3>2. Has(q, c[j])
        BY <1>2, <2>4 DEF Has
      <3>3. QED
        BY <1>5, <3>1, <3>2
    <2>5. QED
      BY <2>1, <2>2, <2>3, <2>4
  <1>6. QED
    BY <1>5 DEF NoRepeats, c

\* What the first k sequences of q are made into.
Joined(q, k) == FlattenSeq(SubSeq(q, 1, k))

LEMMA JoinedFacts ==
    ASSUME NEW S, NEW q \in Seq(Seq(S))
    PROVE  /\ Joined(q, 0) = <<>>
           /\ Joined(q, Len(q)) = FlattenSeq(q)
           /\ \A k \in 0 .. Len(q) : Joined(q, k) \in Seq(S)
           /\ \A k \in 1 .. Len(q) : Joined(q, k) = Cat(Joined(q, k - 1), q[k])
  <1>1. Len(q) \in Nat
    OBVIOUS
  <1>2. ASSUME NEW k \in 0 .. Len(q)
        PROVE  /\ SubSeq(q, 1, k) \in Seq(Seq(S)) /\ Len(SubSeq(q, 1, k)) = k
               /\ \A i \in 1 .. k : SubSeq(q, 1, k)[i] = q[i]
    OBVIOUS
  <1>3. Joined(q, 0) = <<>>
    <2>1. Len(SubSeq(q, 1, 0)) = 0 /\ SubSeq(q, 1, 0) = <<>>
      OBVIOUS
    <2>2. QED
      BY <2>1 DEF Joined, FlattenSeq
  <1>4. SubSeq(q, 1, Len(q)) = q
    BY <1>1, <1>2, SeqEqual
  <1>5. ASSUME NEW k \in 0 .. Len(q) PROVE Joined(q, k) \in Seq(S)
    <2>1. <<>> \in Seq(S)
      OBVIOUS
    <2>2. QED
      BY <1>2, <2>1, FlattenLast DEF Joined
  <1>6. ASSUME NEW k \in 1 .. Len(q) PROVE Joined(q, k) = Cat(Joined(q, k - 1), q[k])
    <2> DEFINE a == SubSeq(q, 1, k - 1)
               w == SubSeq(q, 1, k)
    <2>1. k - 1 \in 0 .. Len(q) /\ k \in 0 .. Len(q) /\ k \in 1 .. k
          /\ \A i \in 1 .. k - 1 : i \in 1 .. k
      OBVIOUS
    <2>2. /\ a \in Seq(Seq(S)) /\ Len(a) = k - 1 /\ \A i \in 1 .. k - 1 : a[i] = q[i]
      BY <1>2, <2>1
    <2>3. /\ w \in Seq(Seq(S)) /\ Len(w) = k /\ \A i \in 1 .. k : w[i] = q[i]
      BY <1>2, <2>1
    <2> HIDE DEF a, w
    <2>4. Agree(a, w, Len(a))
      BY <2>1, <2>2, <2>3 DEF Agree
    <2>5. Len(w) = Len(a) + 1
      <3>1. k \in Int /\ (k - 1) + 1 = k
        OBVIOUS
      <3>2. QED
        BY <2>2, <2>3, <3>1
    <2>6. FlattenSeq(w) = Cat(FlattenSeq(a), w[Len(w)])
      BY <2>2, <2>3, <2>4, <2>5, FlattenMore
    <2>7. QED
      BY <2>1, <2>3, <2>6 DEF Joined, a, w
  <1>7. QED
    BY <1>3, <1>4, <1>5, <1>6 DEF Joined

\* A sequence of sequences has, when it is flattened, what they have, 
LEMMA FlattenHas ==
    ASSUME NEW S, NEW q \in Seq(Seq(S)), NEW x
    PROVE  Has(FlattenSeq(q), x) <=> \E i \in 1 .. Len(q) : Has(q[i], x)
  <1> DEFINE Sound(k) == Has(Joined(q, k), x) <=> \E i \in 1 .. k : Has(q[i], x)
             Odd == {k \in 0 .. Len(q) : ~Sound(k)}
  <1>1. Len(q) \in Nat
    OBVIOUS
  <1>2. SUFFICES ASSUME Odd # {} PROVE FALSE
    <2>1. Len(q) \in 0 .. Len(q)
      BY <1>1
    <2>2. QED
      BY <2>1, JoinedFacts
  <1>3. Odd \subseteq Nat
    BY <1>1
  <1>4. PICK k \in Odd : \A l \in Odd : k <= l
    BY <1>2, <1>3, Least
  <1>5. k # 0
    <2>1. ~Has(<<>>, x)
      BY DEF Has
    <2>2. Joined(q, 0) = <<>>
      BY JoinedFacts
    <2>3. Sound(0)
      BY <2>1, <2>2
    <2>4. QED
      BY <1>4, <2>3
  <1>6. k \in 1 .. Len(q) /\ k - 1 \in 0 .. Len(q) /\ k \in Nat
    BY <1>4, <1>5, <1>1
  <1>7. Sound(k - 1)
    <2>1. k - 1 \notin Odd
      BY <1>4, <1>6
    <2>2. QED
      BY <1>6, <2>1
  <1>8. Joined(q, k - 1) \in Seq(S) /\ q[k] \in Seq(S) /\ Joined(q, k) = Cat(Joined(q, k - 1), q[k])
    BY <1>6, JoinedFacts, ElementOfSeq
  <1>9. Has(Joined(q, k), x) <=> Has(Joined(q, k - 1), x) \/ Has(q[k], x)
    BY <1>8, CatHas
  <1>10. \A i \in 1 .. k : i \in 1 .. k - 1 \/ i = k
    BY <1>6
  <1>11. \A i \in 1 .. k - 1 : i \in 1 .. k
    BY <1>6
  <1>12. k \in 1 .. k
    BY <1>6
  <1>13. Sound(k)
    BY <1>7, <1>9, <1>10, <1>11, <1>12
  <1>14. QED
    BY <1>4, <1>13

\* ... and nothing twice if each of them has not, and no two share anything.
LEMMA FlattenNoRepeats ==
    ASSUME NEW S, NEW q \in Seq(Seq(S)),
           \A i \in 1 .. Len(q) : NoRepeats(q[i]),
           \A i, j \in 1 .. Len(q) : \A x : Has(q[i], x) /\ Has(q[j], x) => i = j
    PROVE  NoRepeats(FlattenSeq(q))
  <1> DEFINE Odd == {k \in 0 .. Len(q) : ~NoRepeats(Joined(q, k))}
  <1>1. Len(q) \in Nat
    OBVIOUS
  <1>2. SUFFICES ASSUME Odd # {} PROVE FALSE
    <2>1. Len(q) \in 0 .. Len(q)
      BY <1>1
    <2>2. QED
      BY <2>1, JoinedFacts
  <1>3. Odd \subseteq Nat
    BY <1>1
  <1>4. PICK k \in Odd : \A l \in Odd : k <= l
    BY <1>2, <1>3, Least
  <1>5. k # 0
    <2>1. NoRepeats(<<>>)
      BY DEF NoRepeats
    <2>2. Joined(q, 0) = <<>>
      BY JoinedFacts
    <2>3. QED
      BY <1>4, <2>1, <2>2
  <1>6. k \in 1 .. Len(q) /\ k - 1 \in 0 .. Len(q) /\ k \in Nat
    BY <1>4, <1>5, <1>1
  <1>7. NoRepeats(Joined(q, k - 1))
    <2>1. k - 1 \notin Odd
      BY <1>4, <1>6
    <2>2. QED
      BY <1>6, <2>1
  <1>8. Joined(q, k - 1) \in Seq(S) /\ q[k] \in Seq(S) /\ Joined(q, k) = Cat(Joined(q, k - 1), q[k])
    BY <1>6, JoinedFacts, ElementOfSeq
  <1> DEFINE f == SubSeq(q, 1, k - 1)
  <1>9. f \in Seq(Seq(S)) /\ Len(f) = k - 1 /\ \A i \in 1 .. k - 1 : f[i] = q[i]
    BY <1>6
  <1>10. ASSUME NEW x, Has(Joined(q, k - 1), x), Has(q[k], x) PROVE FALSE
    <2> HIDE DEF f
    <2>1. Has(FlattenSeq(f), x)
      BY <1>10 DEF Joined, f
    <2>2. PICK i \in 1 .. Len(f) : Has(f[i], x)
      BY <1>9, <2>1, FlattenHas
    <2>3. i \in 1 .. Len(q) /\ i # k /\ Has(q[i], x)
      BY <1>6, <1>9, <2>2
    <2>4. QED
      BY <1>6, <1>10, <2>3
  <1>11. NoRepeats(Joined(q, k))
    BY <1>7, <1>8, <1>6, <1>10, CatNoRepeats
  <1>12. QED
    BY <1>4, <1>11

-----------------------------------------------------------------------------
(* The invariant of the tree                                                *)

Dirs    == Storages \cup {Root}
Kids(d) == {m \in made : Parent[m] = d}

\* The creations are counted, no two siblings have a name in common,
Counted    == IsFiniteSet(made) /\ descendants = Cardinality(made) + 1
NamesApart == \A m, n \in made : Parent[m] = Parent[n] /\ Name[m] = Name[n] => m = n

\* ... and whatever was made was made in the root or in a storage made before it.
MadeInOrder(rank) ==
    /\ rank \in [made -> 1 .. descendants - 1]
    /\ \A n \in made : Parent[n] = Root \/ (Parent[n] \in made /\ rank[Parent[n]] < rank[n])

TreeInv ==
    /\ made \subseteq Streams \cup Storages
    /\ Counted
    /\ NamesApart
    /\ \E rank \in [made -> 1 .. descendants - 1] : MadeInOrder(rank)

\* The children of a storage are listed once.
LEMMA ChildrenOnce ==
    ASSUME TreeInv, NEW d
    PROVE  ListsOnce(Children(d), Kids(d))
  <1>1. IsFiniteSet(Kids(d))
    BY FS_Subset DEF TreeInv, Counted, Kids
  <1>2. \A x \in Kids(d) : Name[x] \in Int
    BY TreeAssumption DEF TreeInv, Kids
  <1>3. \A x, y \in Kids(d) : Name[x] = Name[y] => x = y
    BY DEF TreeInv, NamesApart, Kids
  <1>4. \E q : Grows(q, Kids(d), Name)
    BY <1>1, <1>2, <1>3, CanSort
  <1>5. Grows(Children(d), Kids(d), Name)
    BY <1>4 DEF Children, Grows, Kids
  <1>6. QED
    BY <1>1, <1>2, <1>5, SortedOnce

\* How far from the root an entry can be at most; what is not made has no children.
Level(rank, d) == IF d = Root THEN 0 ELSE IF d \in made THEN rank[d] ELSE descendants

LEMMA Levels ==
    ASSUME TreeInv, NEW rank, MadeInOrder(rank)
    PROVE  /\ descendants \in Nat
           /\ \A d : Level(rank, d) \in 0 .. descendants
           /\ \A n \in made : /\ n \in Streams \cup Storages /\ n # Root
                              /\ Parent[n] \in Dirs
                              /\ Parent[n] \notin Streams
                              /\ Parent[n] \in made \cup {Root}
                              /\ Level(rank, Parent[n]) < Level(rank, n)
  <1>1. descendants \in Nat
    BY FS_CardinalityType DEF TreeInv, Counted
  <1>2. ASSUME NEW d PROVE Level(rank, d) \in 0 .. descendants
    BY <1>1 DEF Level, MadeInOrder
  <1>3. ASSUME NEW n \in made
        PROVE  /\ n \in Streams \cup Storages /\ n # Root
               /\ Parent[n] \in Dirs
               /\ Parent[n] \notin Streams
    BY TreeAssumption DEF TreeInv, Dirs
  <1>4. ASSUME NEW n \in made
        PROVE  Parent[n] \in made \cup {Root} /\ Level(rank, Parent[n]) < Level(rank, n)
    <2>1. rank[n] \in 1 .. descendants - 1 /\ Level(rank, n) = rank[n]
      BY <1>3 DEF MadeInOrder, Level
    <2>2. CASE Parent[n] = Root
      BY <1>1, <2>1, <2>2 DEF Level
    <2>3. CASE Parent[n] \in made /\ rank[Parent[n]] < rank[n]
      BY <1>3, <2>1, <2>3 DEF Level
    <2>4. QED
      BY <2>2, <2>3 DEF MadeInOrder
  <1>5. QED
    BY <1>1, <1>2, <1>3, <1>4

-----------------------------------------------------------------------------
(* The recursion of Entries                                                 *)

\* What Entries lists for a child m, and for a storage d, where f has the lists
\* of the storages below it.
Part(f, m)  == IF m \in Streams THEN <<m>> ELSE f[m]
Parts(f, d) == [i \in DOMAIN Children(d) |-> Part(f, Children(d)[i])]
List(f, d)  == <<d>> \o FlattenSeq(Parts(f, d))

LEMMA SameList ==
    ASSUME TreeInv, NEW d, NEW f, NEW g, \A m \in Kids(d) \ Streams : f[m] = g[m]
    PROVE  List(f, d) = List(g, d)
  <1>1. Children(d) \in Seq(Kids(d))
    BY ChildrenOnce DEF ListsOnce
  <1>2. ASSUME NEW i \in DOMAIN Children(d)
        PROVE  Part(f, Children(d)[i]) = Part(g, Children(d)[i])
    <2>1. Children(d)[i] \in Kids(d)
      BY <1>1
    <2>2. QED
      BY <2>1 DEF Part
  <1>3. Parts(f, d) = Parts(g, d)
    BY <1>2 DEF Parts
  <1>4. QED
    BY <1>3 DEF List

\* The storages k levels from the end, and beyond.
Deep(rank, k) == {d \in Dirs : Level(rank, d) + k >= descendants}

\* The recursion of Entries has a solution.
LEMMA ListingExists ==
    ASSUME TreeInv
    PROVE  \E f : f = [d \in Dirs |-> List(f, d)]
  <1>1. PICK rank : MadeInOrder(rank)
    BY DEF TreeInv
  <1> DEFINE Solved(k) == \E f : f = [d \in Deep(rank, k) |-> List(f, d)]
             Odd == {k \in Nat : ~Solved(k)}
  <1>2. descendants \in Nat /\ \A d : Level(rank, d) \in 0 .. descendants
    BY <1>1, Levels
  <1>3. Deep(rank, descendants) = Dirs
    BY <1>2 DEF Deep
  <1>4. SUFFICES ASSUME Odd # {} PROVE FALSE
    BY <1>2, <1>3
  <1>5. PICK k \in Odd : \A l \in Odd : k <= l
    BY <1>4, Least
  <1>6. \E f : k # 0 => f = [d \in Deep(rank, k - 1) |-> List(f, d)]
    <2>1. CASE k = 0
      BY <2>1
    <2>2. CASE k # 0
      <3>1. k - 1 \in Nat /\ k - 1 \notin Odd
        BY <1>5, <2>2
      <3>2. Solved(k - 1)
        BY <3>1
      <3>3. QED
        BY <3>2
    <2>3. QED
      BY <2>1, <2>2
  <1>7. PICK f : k # 0 => f = [d \in Deep(rank, k - 1) |-> List(f, d)]
    BY <1>6
  <1> DEFINE g == [d \in Deep(rank, k) |-> List(f, d)]
  <1>8. ASSUME NEW d \in Deep(rank, k) PROVE List(f, d) = List(g, d)
    <2>1. ASSUME NEW m \in Kids(d) \ Streams PROVE f[m] = g[m]
      <3>1. m \in made /\ Parent[m] = d
        BY DEF Kids
      <3>2. m \in Dirs /\ Level(rank, d) < Level(rank, m)
        BY <1>1, <3>1, Levels DEF Dirs
      <3>3. Level(rank, d) + k >= descendants
        BY DEF Deep
      <3>4. /\ Level(rank, m) + k >= descendants
            /\ Level(rank, m) + (k - 1) >= descendants
            /\ k # 0
        <4>1. Level(rank, d) \in 0 .. descendants /\ Level(rank, m) \in 0 .. descendants /\ k \in Nat
          BY <1>2, <1>5
        <4>2. QED
          BY <1>2, <3>2, <3>3, <4>1
      <3>5. m \in Deep(rank, k) /\ m \in Deep(rank, k - 1)
        BY <3>2, <3>4 DEF Deep
      <3>6. g[m] = List(f, m)
        BY <3>5
      <3>7. f[m] = List(f, m)
        BY <1>7, <3>4, <3>5
      <3>8. QED
        BY <3>6, <3>7
    <2> HIDE DEF g
    <2>2. QED
      BY <2>1, SameList
  <1>9. g = [d \in Deep(rank, k) |-> List(g, d)]
    BY <1>8
  <1>10. Solved(k)
    BY <1>9
  <1>11. QED
    BY <1>5, <1>10

\* Entries is what a solution has for the root.
LEMMA EntriesChosen ==
    ASSUME TreeInv
    PROVE  \E f : f = [d \in Dirs |-> List(f, d)] /\ Entries = f[Root]
  <1> DEFINE Solves(f) ==
                 f = [d \in Storages \cup {Root} |->
                         <<d>> \o FlattenSeq([i \in DOMAIN Children(d) |->
                             IF Children(d)[i] \in Streams THEN <<Children(d)[i]>>
                             ELSE f[Children(d)[i]]])]
             g == CHOOSE f : Solves(f)
  <1>1. \A f : Solves(f) <=> f = [d \in Dirs |-> List(f, d)]
    BY DEF Dirs, List, Parts, Part
  <1>2. Solves(g)
    <2>1. \E f : Solves(f)
      <3> HIDE DEF Solves
      <3> QED
        BY <1>1, ListingExists
    <2> HIDE DEF Solves
    <2>2. QED
      BY <2>1
  <1>3. Entries = g[Root]
    BY DEF Entries
  <1>4. QED
    <2> HIDE DEF Solves, g
    <2> QED
      BY <1>1, <1>2, <1>3

-----------------------------------------------------------------------------
(* What its solution lists                                                  *)

\* q lists d and everything below it.
ListsBelow(rank, q, d) ==
    /\ q \in Seq(made \cup {d})
    /\ Has(q, d)
    /\ NoRepeats(q)
    /\ \A x : Has(q, x) => Level(rank, d) <= Level(rank, x)
    /\ \A x : Has(q, x) /\ x # d => x \in made /\ Has(q, Parent[x])
    /\ \A x \in made : Has(q, Parent[x]) => Has(q, x)

\* A stream has nothing below it.
LEMMA StreamBelow ==
    ASSUME TreeInv, NEW rank, MadeInOrder(rank), NEW m \in Streams
    PROVE  ListsBelow(rank, <<m>>, m)
  <1> DEFINE q == <<m>>
  <1>1. q \in Seq(made \cup {m}) /\ Len(q) = 1 /\ q[1] = m
    OBVIOUS
  <1> HIDE DEF q
  <1>2. \A x : Has(q, x) <=> x = m
    <2>1. \A i : i \in 1 .. Len(q) <=> i = 1
      BY <1>1
    <2>2. QED
      BY <1>1, <2>1 DEF Has
  <1>3. NoRepeats(q)
    BY <1>1 DEF NoRepeats
  <1>4. \A x \in made : Parent[x] # m
    BY Levels
  <1>5. Level(rank, m) \in 0 .. descendants /\ descendants \in Nat
    BY Levels
  <1>6. Level(rank, m) <= Level(rank, m)
    BY <1>5
  <1>7. QED
    BY <1>1, <1>2, <1>3, <1>4, <1>6 DEF ListsBelow, q

\* What is below one child of d is not below another.
LEMMA NothingShared ==
    ASSUME TreeInv, NEW rank, MadeInOrder(rank), NEW d, NEW m \in Kids(d), NEW n \in Kids(d), m # n,
           NEW q, NEW r, ListsBelow(rank, q, m), ListsBelow(rank, r, n)
    PROVE  \A x : ~(Has(q, x) /\ Has(r, x))
  <1> DEFINE Both(x) == Has(q, x) /\ Has(r, x)
             Odd == {l \in Nat : \E x : Both(x) /\ Level(rank, x) = l}
  <1>1. \A x : Level(rank, x) \in Nat
    BY Levels
  <1>2. SUFFICES ASSUME Odd # {} PROVE FALSE
    BY <1>1
  <1>3. Odd \subseteq Nat
    OBVIOUS
  <1>4. PICK l \in Odd : \A k \in Odd : l <= k
    BY <1>2, <1>3, Least
  <1>5. PICK x : Both(x) /\ Level(rank, x) = l
    BY <1>4
  <1>6. Level(rank, d) < Level(rank, m) /\ Level(rank, d) < Level(rank, n)
    BY Levels DEF Kids
  <1>7. ~Has(q, d) /\ ~Has(r, d)
    <2>1. ~(Level(rank, m) <= Level(rank, d)) /\ ~(Level(rank, n) <= Level(rank, d))
      BY <1>1, <1>6
    <2>2. QED
      BY <2>1 DEF ListsBelow
  <1>8. x # m
    <2>1. ASSUME x = m PROVE FALSE
      <3>1. Has(r, Parent[m])
        BY <1>5, <2>1 DEF ListsBelow
      <3>2. QED
        BY <1>7, <3>1 DEF Kids
    <2>2. QED
      BY <2>1
  <1>9. x # n
    <2>1. ASSUME x = n PROVE FALSE
      <3>1. Has(q, Parent[n])
        BY <1>5, <2>1 DEF ListsBelow
      <3>2. QED
        BY <1>7, <3>1 DEF Kids
    <2>2. QED
      BY <2>1
  <1>10. x \in made /\ Both(Parent[x])
    BY <1>5, <1>8, <1>9 DEF ListsBelow
  <1>11. Level(rank, Parent[x]) < l
    BY <1>5, <1>10, Levels
  <1>12. Level(rank, Parent[x]) \in Odd
    BY <1>1, <1>10
  <1>13. l <= Level(rank, Parent[x])
    BY <1>4, <1>12
  <1>14. l \in Nat /\ Level(rank, Parent[x]) \in Nat
    BY <1>1, <1>3
  <1>15. QED
    BY <1>11, <1>13, <1>14

\* From lists of what is below its storages, List makes one of what is below d.
LEMMA ListHolds ==
    ASSUME TreeInv, NEW rank, MadeInOrder(rank), NEW d, NEW f,
           \A m \in Kids(d) \ Streams : ListsBelow(rank, f[m], m)
    PROVE  ListsBelow(rank, List(f, d), d)
  <1> DEFINE c == Children(d)
             q == Parts(f, d)
             below == FlattenSeq(q)
             all == List(f, d)
  <1>1. /\ c \in Seq(Kids(d))
        /\ \A i, j \in 1 .. Len(c) : c[i] = c[j] => i = j
        /\ \A m \in Kids(d) : \E i \in 1 .. Len(c) : c[i] = m
    BY ChildrenOnce DEF ListsOnce
  <1>2. \A i \in 1 .. Len(c) : c[i] \in Kids(d) /\ c[i] \in made /\ Parent[c[i]] = d
    BY <1>1, ElementOfSeq DEF Kids
  <1> HIDE DEF c
  <1>3. Len(c) \in Nat /\ DOMAIN c = 1 .. Len(c)
    BY <1>1
  <1>4. q = [i \in 1 .. Len(c) |-> Part(f, c[i])]
    BY <1>3 DEF Parts, c
  <1>5. ASSUME NEW i \in 1 .. Len(c) PROVE ListsBelow(rank, q[i], c[i])
    <2>1. q[i] = Part(f, c[i])
      BY <1>4
    <2>2. CASE c[i] \in Streams
      BY <2>1, <2>2, StreamBelow DEF Part
    <2>3. CASE c[i] \notin Streams
      BY <1>2, <2>1, <2>3 DEF Part
    <2>4. QED
      BY <2>2, <2>3
  <1> HIDE DEF q
  <1>6. \A i \in 1 .. Len(c) : q[i] \in Seq(made)
    <2>1. TAKE i \in 1 .. Len(c)
    <2>2. q[i] \in Seq(made \cup {c[i]})
      BY <1>5 DEF ListsBelow
    <2>3. made \cup {c[i]} = made
      BY <1>2
    <2>4. QED
      BY <2>2, <2>3
  <1>7. q \in Seq(Seq(made)) /\ Len(q) = Len(c)
    <2>1. q \in [1 .. Len(c) -> Seq(made)]
      BY <1>4, <1>6
    <2>2. QED
      BY <1>3, <2>1
  <1>8. below \in Seq(made)
    <2>1. Joined(q, Len(q)) = FlattenSeq(q) /\ Len(q) \in 0 .. Len(q)
      BY <1>3, <1>7, JoinedFacts
    <2>2. QED
      BY <1>7, <2>1, JoinedFacts
  <1>9. \A x : Has(below, x) <=> \E i \in 1 .. Len(c) : Has(q[i], x)
    BY <1>7, FlattenHas
  <1> DEFINE S == made \cup {d}
             head == <<d>>
  <1>10. /\ head \in Seq(S) /\ below \in Seq(S) /\ NoRepeats(head)
         /\ \A x : Has(head, x) <=> x = d
    <2>1. head \in Seq(S) /\ Len(head) = 1 /\ head[1] = d
      OBVIOUS
    <2>2. below \in Seq(S)
      BY <1>8
    <2> HIDE DEF head, S, below
    <2>3. NoRepeats(head)
      BY <2>1 DEF NoRepeats
    <2>4. \A i : i \in 1 .. Len(head) <=> i = 1
      BY <2>1
    <2>5. \A x : Has(head, x) <=> x = d
      BY <2>1, <2>4 DEF Has
    <2>6. QED
      BY <2>1, <2>2, <2>3, <2>5
  <1>11. all = Cat(head, below)
    BY DEF List, Cat, q
  <1> HIDE DEF below, head, S, all
  <1>12. all \in Seq(S) /\ \A x : Has(all, x) <=> x = d \/ Has(below, x)
    BY <1>10, <1>11, CatType, CatHas
  <1>13. \A x : Level(rank, x) \in Nat
    BY Levels
  <1>14. \A i \in 1 .. Len(c) : Level(rank, d) < Level(rank, c[i])
    BY <1>2, Levels
  <1>15. ASSUME NEW x, Has(below, x) PROVE Level(rank, d) < Level(rank, x)
    <2>1. PICK i \in 1 .. Len(c) : Has(q[i], x)
      BY <1>9, <1>15
    <2>2. Level(rank, c[i]) <= Level(rank, x)
      BY <1>5, <2>1 DEF ListsBelow
    <2>3. QED
      BY <1>13, <1>14, <2>2
  <1>16. NoRepeats(all)
    <2>1. \A i \in 1 .. Len(q) : NoRepeats(q[i])
      BY <1>5, <1>7 DEF ListsBelow
    <2>2. ASSUME NEW i \in 1 .. Len(q), NEW j \in 1 .. Len(q), NEW x, Has(q[i], x), Has(q[j], x), i # j
          PROVE  FALSE
      <3>1. c[i] \in Kids(d) /\ c[j] \in Kids(d) /\ c[i] # c[j]
        BY <1>1, <1>2, <1>7, <2>2
      <3>2. ListsBelow(rank, q[i], c[i]) /\ ListsBelow(rank, q[j], c[j])
        BY <1>5, <1>7
      <3>3. QED
        BY <2>2, <3>1, <3>2, NothingShared
    <2>3. NoRepeats(below)
      BY <1>7, <2>1, <2>2, FlattenNoRepeats DEF below
    <2>4. \A x : ~(Has(head, x) /\ Has(below, x))
      <3>1. ~(Level(rank, d) < Level(rank, d))
        BY <1>13
      <3>2. QED
        BY <1>10, <1>15, <3>1
    <2>5. QED
      BY <1>10, <1>11, <2>3, <2>4, CatNoRepeats
  <1>17. ASSUME NEW x, Has(all, x) PROVE Level(rank, d) <= Level(rank, x)
    BY <1>12, <1>13, <1>15, <1>17
  <1>18. ASSUME NEW x, Has(all, x), x # d PROVE x \in made /\ Has(all, Parent[x])
    <2>1. PICK i \in 1 .. Len(c) : Has(q[i], x)
      BY <1>9, <1>12, <1>18
    <2>2. CASE x = c[i]
      BY <1>2, <1>12, <2>2
    <2>3. CASE x # c[i]
      <3>1. x \in made /\ Has(q[i], Parent[x])
        BY <1>5, <2>1, <2>3 DEF ListsBelow
      <3>2. QED
        BY <1>9, <1>12, <3>1
    <2>4. QED
      BY <2>2, <2>3
  <1>19. ASSUME NEW x \in made, Has(all, Parent[x]) PROVE Has(all, x)
    <2>1. CASE Parent[x] = d
      <3>1. x \in Kids(d)
        BY <2>1 DEF Kids
      <3>2. PICK i \in 1 .. Len(c) : c[i] = x
        BY <1>1, <3>1
      <3>3. Has(q[i], x)
        BY <1>5, <3>2 DEF ListsBelow
      <3>4. QED
        BY <1>9, <1>12, <3>3
    <2>2. CASE Parent[x] # d
      <3>1. PICK i \in 1 .. Len(c) : Has(q[i], Parent[x])
        BY <1>9, <1>12, <1>19, <2>2
      <3>2. Has(q[i], x)
        BY <1>5, <3>1 DEF ListsBelow
      <3>3. QED
        BY <1>9, <1>12, <3>2
    <2>3. QED
      BY <2>1, <2>2
  <1>20. Has(all, d)
    BY <1>12
  <1>21. QED
    BY <1>12, <1>16, <1>17, <1>18, <1>19, <1>20 DEF ListsBelow, S, all

\* A solution of the recursion lists for every storage what is below it.
LEMMA ListingHolds ==
    ASSUME TreeInv, NEW rank, MadeInOrder(rank), NEW f, f = [d \in Dirs |-> List(f, d)]
    PROVE  \A d \in Dirs : ListsBelow(rank, f[d], d)
  <1> DEFINE Odd == {k \in Nat : \E d \in Dirs : /\ Level(rank, d) + k = descendants
                                                 /\ ~ListsBelow(rank, f[d], d)}
  <1>1. descendants \in Nat /\ \A d : Level(rank, d) \in 0 .. descendants
    BY Levels
  <1>2. SUFFICES ASSUME Odd # {} PROVE FALSE
    <2>1. TAKE d \in Dirs
    <2>2. /\ descendants - Level(rank, d) \in Nat
          /\ Level(rank, d) + (descendants - Level(rank, d)) = descendants
      BY <1>1
    <2>3. QED
      BY <2>2
  <1>3. Odd \subseteq Nat
    OBVIOUS
  <1>4. PICK k \in Odd : \A l \in Odd : k <= l
    BY <1>2, <1>3, Least
  <1>5. PICK d \in Dirs : Level(rank, d) + k = descendants /\ ~ListsBelow(rank, f[d], d)
    BY <1>4
  <1>6. ASSUME NEW m \in Kids(d) \ Streams PROVE ListsBelow(rank, f[m], m)
    <2>1. m \in made /\ Parent[m] = d
      BY DEF Kids
    <2>2. m \in Dirs /\ Level(rank, d) < Level(rank, m)
      BY <2>1, Levels DEF Dirs
    <2> DEFINE l == descendants - Level(rank, m)
    <2>3. l \in Nat /\ l < k /\ Level(rank, m) + l = descendants
      <3>1. /\ Level(rank, m) \in 0 .. descendants /\ Level(rank, d) \in 0 .. descendants
            /\ k \in Nat
        BY <1>1, <1>3
      <3>2. QED
        BY <1>1, <1>5, <2>2, <3>1
    <2>4. l \notin Odd
      <3>1. ~(k <= l)
        BY <1>3, <2>3
      <3>2. QED
        BY <1>4, <3>1
    <2>5. QED
      BY <2>2, <2>3, <2>4
  <1>7. ListsBelow(rank, List(f, d), d)
    BY <1>6, ListHolds
  <1>8. f[d] = List(f, d)
    OBVIOUS
  <1>9. QED
    BY <1>5, <1>7, <1>8

\* Entries lists the root and whatever was made, each once.
AllListed == ListsOnce(Entries, made \cup {Root})

LEMMA EntriesListAll ==
    ASSUME TreeInv
    PROVE  AllListed
  <1>1. PICK rank : MadeInOrder(rank)
    BY DEF TreeInv
  <1>2. PICK f : f = [d \in Dirs |-> List(f, d)] /\ Entries = f[Root]
    BY EntriesChosen
  <1>3. ListsBelow(rank, Entries, Root)
    <2>1. \A d \in Dirs : ListsBelow(rank, f[d], d)
      BY <1>1, <1>2, ListingHolds
    <2>2. Root \in Dirs
      BY DEF Dirs
    <2>3. QED
      BY <1>2, <2>1, <2>2
  <1> DEFINE Odd == {l \in Nat : \E n \in made : ~Has(Entries, n) /\ Level(rank, n) = l}
  <1>4. \A x : Level(rank, x) \in Nat
    BY <1>1, Levels
  <1>5. \A n \in made : Has(Entries, n)
    <2>1. SUFFICES ASSUME Odd # {} PROVE FALSE
      BY <1>4
    <2>2. Odd \subseteq Nat
      OBVIOUS
    <2>3. PICK l \in Odd : \A k \in Odd : l <= k
      BY <2>1, <2>2, Least
    <2>4. PICK n \in made : ~Has(Entries, n) /\ Level(rank, n) = l
      BY <2>3
    <2>5. Parent[n] \in made \cup {Root} /\ Level(rank, Parent[n]) < l
      BY <1>1, <2>4, Levels
    <2>6. CASE Has(Entries, Parent[n])
      BY <1>3, <2>4, <2>6 DEF ListsBelow
    <2>7. CASE ~Has(Entries, Parent[n])
      <3>1. Parent[n] \in made
        BY <1>3, <2>5, <2>7 DEF ListsBelow
      <3>2. Level(rank, Parent[n]) \in Odd
        BY <1>4, <2>7, <3>1
      <3>3. l <= Level(rank, Parent[n]) /\ l \in Nat /\ Level(rank, Parent[n]) \in Nat
        BY <1>4, <2>3, <3>2
      <3>4. QED
        BY <2>5, <3>3
    <2>8. QED
      BY <2>6, <2>7
  <1>6. QED
    BY <1>3, <1>5 DEF AllListed, ListsOnce, ListsBelow, Has, NoRepeats

-----------------------------------------------------------------------------
\* The invariant holds in every state.
LEMMA TreeInit == Init => TreeInv
  <1> SUFFICES ASSUME Init PROVE TreeInv
    OBVIOUS
  <1>1. made = {} /\ descendants = 1
    BY DEF Init
  <1>2. Counted
    BY <1>1, FS_EmptySet DEF Counted
  <1> DEFINE none == [n \in {} |-> 0]
  <1>3. none \in [made -> 1 .. descendants - 1]
    BY <1>1
  <1>4. MadeInOrder(none)
    BY <1>1, <1>3 DEF MadeInOrder
  <1>5. QED
    BY <1>1, <1>2, <1>3, <1>4 DEF TreeInv, NamesApart

LEMMA CreateKeepsTree ==
    ASSUME TreeInv, NEW n \in Streams \cup Storages, Create(n)
    PROVE  TreeInv'
  <1>1. /\ n \notin made /\ Parent[n] \in made \cup {Root}
        /\ \A m \in Siblings(n) : Name[m] # Name[n]
        /\ made' = made \cup {n} /\ descendants' = descendants + 1
    BY DEF Create, CountEntry
  <1>2. descendants \in Nat
    BY FS_CardinalityType DEF TreeInv, Counted
  <1>3. Counted'
    BY <1>1, <1>2, FS_AddElement DEF TreeInv, Counted
  <1>4. NamesApart'
    BY <1>1 DEF TreeInv, NamesApart, Siblings
  <1>5. PICK rank \in [made -> 1 .. descendants - 1] : MadeInOrder(rank)
    BY DEF TreeInv
  <1>6. descendants >= 1
    BY FS_CardinalityType DEF TreeInv, Counted
  <1>7. PICK next : next = [m \in made' |-> IF m = n THEN descendants ELSE rank[m]]
    OBVIOUS
  <1>8. \A m \in made : m \in made' /\ m # n /\ rank[m] \in 1 .. descendants - 1 /\ next[m] = rank[m]
    BY <1>1, <1>5, <1>7
  <1>9. n \in made' /\ next[n] = descendants
    BY <1>1, <1>7
  <1>10. next \in [made' -> 1 .. descendants' - 1]
    <2>1. descendants' - 1 = descendants
      BY <1>1, <1>2
    <2>2. \A m \in made' : next[m] \in 1 .. descendants
      BY <1>1, <1>2, <1>6, <1>8, <1>9
    <2>3. QED
      BY <1>7, <2>1, <2>2
  <1>11. ASSUME NEW m \in made'
         PROVE  Parent[m] = Root \/ (Parent[m] \in made' /\ next[Parent[m]] < next[m])
    <2>1. CASE m = n
      <3>1. Parent[n] \in made => next[Parent[n]] < next[n]
        BY <1>2, <1>8, <1>9
      <3>2. QED
        BY <1>1, <2>1, <3>1
    <2>2. CASE m \in made
      <3>1. Parent[m] = Root \/ (Parent[m] \in made /\ rank[Parent[m]] < rank[m])
        BY <1>5, <2>2 DEF MadeInOrder
      <3>2. QED
        BY <1>8, <2>2, <3>1
    <2>3. QED
      BY <1>1, <2>1, <2>2
  <1>12. MadeInOrder(next)'
    BY <1>10, <1>11 DEF MadeInOrder
  <1>13. (made \subseteq Streams \cup Storages)'
    BY <1>1 DEF TreeInv
  <1>14. QED
    BY <1>3, <1>4, <1>10, <1>12, <1>13 DEF TreeInv

\* No other step creates anything.
LEMMA TreeNext == TreeInv /\ [WriterNext]_wvars => TreeInv'
  <1> SUFFICES ASSUME TreeInv, [WriterNext]_wvars PROVE TreeInv'
    OBVIOUS
  <1>1. ASSUME UNCHANGED <<made, descendants>> PROVE TreeInv'
    BY <1>1 DEF TreeInv, Counted, NamesApart, MadeInOrder
  <1>2. CASE UNCHANGED wvars
    BY <1>1, <1>2 DEF wvars, vars, shared
  <1>3. CASE ClientNext
    <2>1. ASSUME NEW s \in Streams, CreateStream(s) PROVE TreeInv'
      BY <2>1, CreateKeepsTree DEF CreateStream
    <2>2. ASSUME NEW d \in Storages, CreateStorage(d) PROVE TreeInv'
      BY <2>2, CreateKeepsTree DEF CreateStorage
    <2>3. ASSUME NEW s \in Streams, CloseStream(s) \/ \E n \in WriteSizes : Write(s, n)
          PROVE  TreeInv'
      BY <1>1, <2>3 DEF CloseStream, Write, shared
    <2>4. ASSUME NEW s \in Streams, Advance(s) PROVE TreeInv'
      BY <1>1, <2>4 DEF Advance, KeepRest, FlushBuf, FlushInWrite, FlushInClose, FlushRest,
                        FlushFails, CloseNow, Drain, DrainLast, DrainFails, shared
    <2>5. ASSUME NEW s \in Streams, Acquire(s) PROVE TreeInv'
      BY <1>1, <2>5 DEF Acquire, WriteFlush, ClosePadded, CloseMini, Flush
    <2>6. QED
      BY <1>3, <2>1, <2>2, <2>3, <2>4, <2>5 DEF ClientNext
  <1>4. CASE CloseWriter
    BY <1>1, <1>4 DEF CloseWriter, BeginClose
  <1>5. CASE Serialize
    <2>1. CASE InitSerializer \/ InitFails
      BY <1>1, <2>1 DEF InitSerializer, InitFails
    <2>2. CASE EmitDirectory \/ EmitMiniFAT \/ EmitFAT \/ EmitDIFAT \/ EmitFails
      BY <1>1, <2>2 DEF EmitDirectory, EmitMiniFAT, EmitFAT, EmitDIFAT, EmitFails, Emit
    <2>3. CASE FlushOut \/ FlushOutFails \/ PatchHeader \/ PatchHeaderFails
      BY <1>1, <2>3 DEF FlushOut, FlushOutFails, PatchHeader, PatchHeaderFails, vars, shared
    <2>4. QED
      BY <1>5, <2>1, <2>2, <2>3 DEF Serialize
  <1>6. QED
    BY <1>2, <1>3, <1>4, <1>5 DEF WriterNext

(* assignLayout gives an id to the root and to every storage and stream     *)
(* that was created, no id to two of them and no two to one, whatever tree  *)
(* the concurrent creations have made, refused ones among them: no entry is *)
(* lost to a storage that the walk does not reach, and none is written      *)
(* twice.                                                                   *)
THEOREM EntriesAreMade == WriterSpec => []AllListed
  <1>1. TreeInv => AllListed
    BY EntriesListAll
  <1>2. WriterInit => TreeInv
    BY TreeInit DEF WriterInit
  <1>3. QED
    BY <1>1, <1>2, TreeNext, PTL DEF WriterSpec

(* The layout that serializer.init makes for as many entries as the counter *)
(* says has room for the ids that assignLayout gives, and none to spare.    *)
THEOREM RoomForAll == WriterSpec => []LayoutFits
  <1>1. TreeInv => LayoutFits
    <2> SUFFICES ASSUME TreeInv PROVE descendants = Len(Entries)
      BY DEF LayoutFits
    <2>1. Len(Entries) = Cardinality(made \cup {Root})
      BY EntriesListAll, OnceIsCounted DEF AllListed
    <2>2. Root \notin made
      BY TreeAssumption DEF TreeInv
    <2>3. Cardinality(made \cup {Root}) = Cardinality(made) + 1
      BY <2>2, FS_AddElement DEF TreeInv, Counted
    <2>4. QED
      BY <2>1, <2>3 DEF TreeInv, Counted
  <1>2. WriterInit => TreeInv
    BY TreeInit DEF WriterInit
  <1>3. QED
    BY <1>1, <1>2, TreeNext, PTL DEF WriterSpec
=============================================================================
