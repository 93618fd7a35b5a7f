----------------------------- MODULE StreamRuns -----------------------------
(***************************************************************************)
(* resolveRegularRuns and resolveMiniRuns of reader.go, turn by turn: the  *)
(* sectors of a stream become runs of bytes in the file, neighbours one    *)
(* run. Stream.ReadAt searches the run that an offset falls into and       *)
(* relies on there being one.                                              *)
(***************************************************************************)
EXTENDS Geometry

CONSTANTS
    Chains,         \* the chains that walkChain may return for a stream
    MiniStreams     \* the chains of the mini-stream

ASSUME RunsAssumption ==
    /\ Chains \subseteq Seq(Nat)
    /\ \A c \in Chains : c # <<>>
    /\ MiniStreams \subseteq Seq(Nat)

VARIABLES
    mini,           \* resolveMiniRuns, else resolveRegularRuns
    miniStream,     \* p.miniStream
    pieces, size,   \* the arguments: the (mini) sectors of a stream and its size
    k,              \* the sectors that cur and runs account for
    cur, runs, total,
    stage           \* "loop", "done" or "error"

runsVars == <<mini, miniStream, pieces, size, k, cur, runs, total, stage>>

\* The size of what the chain links.
Unit == IF mini THEN MiniSize ELSE SecSize

\* What is to come after k sectors lies in the mini-stream.
Resolvable == mini => (pieces[k + 1] * MiniSize) \div SecSize < Len(miniStream)

\* Where the j-th piece of the stream lies.
Offset(j) == IF mini THEN MiniOffset(miniStream, pieces[j]) ELSE SectorOffset(pieces[j])

NoRun == [off |-> 0, length |-> 0, start |-> 0]

\* walkChain has returned as many sectors as the size requires.
RunsInit ==
    /\ mini \in BOOLEAN
    /\ miniStream \in MiniStreams
    /\ pieces \in Chains
    /\ size \in (Len(pieces) - 1) * Unit + 1 .. Len(pieces) * Unit
    /\ k = 0
    /\ cur = NoRun
    /\ runs = <<>>
    /\ total = 0
    /\ stage = "loop"

First ==
    /\ stage = "loop"
    /\ k = 0
    /\ Resolvable
    /\ k' = 1
    /\ cur' = [off |-> Offset(1), length |-> Unit, start |-> 0]
    /\ UNCHANGED <<mini, miniStream, pieces, size, runs, total, stage>>

\* Mutant: a piece is compared with the end of the run's first one.
NextToFirst == Offset(k + 1) = cur.off + Unit

\* The next piece lies right behind the run.
NextToRun == Offset(k + 1) = cur.off + cur.length

\* Mutant: the new run begins where the last one does.
StartWithRun == total

\* Where in the stream a new run begins.
StartAfterRun == total + cur.length

Extend ==
    /\ stage = "loop"
    /\ k \in 1 .. Len(pieces) - 1
    /\ Resolvable
    /\ NextToRun
    /\ k' = k + 1
    /\ cur' = [cur EXCEPT !.length = @ + Unit]
    /\ UNCHANGED <<mini, miniStream, pieces, size, runs, total, stage>>

NewRun ==
    /\ stage = "loop"
    /\ k \in 1 .. Len(pieces) - 1
    /\ Resolvable
    /\ ~NextToRun
    /\ k' = k + 1
    /\ runs' = Append(runs, cur)
    /\ total' = total + cur.length
    /\ cur' = [off |-> Offset(k + 1), length |-> Unit, start |-> StartAfterRun]
    /\ UNCHANGED <<mini, miniStream, pieces, size, stage>>

RefuseRuns ==
    /\ stage = "loop"
    /\ k < Len(pieces)
    /\ ~Resolvable
    /\ stage' = "error"
    /\ UNCHANGED <<mini, miniStream, pieces, size, k, cur, runs, total>>

\* The last run, cut to the size of the stream.
FinishRuns ==
    /\ stage = "loop"
    /\ k = Len(pieces)
    /\ total' = total + cur.length
    /\ runs' = Append(runs,
                  [cur EXCEPT !.length = IF total' > size THEN @ - (total' - size) ELSE @])
    /\ stage' = "done"
    /\ UNCHANGED <<mini, miniStream, pieces, size, k, cur>>

RunsNext == First \/ Extend \/ NewRun \/ RefuseRuns \/ FinishRuns

RunsSpec == RunsInit /\ [][RunsNext]_runsVars

-----------------------------------------------------------------------------
(* Properties                                                               *)

\* Offset x of the stream falls into run r.
Hits(r, x) == r.start <= x /\ x < r.start + r.length

(* "walkChain ensures runs cover [0, Size); off < Size guarantees a hit":   *)
(* each offset of the stream falls into exactly one run, none behind its    *)
(* end into any, and the runs are sorted as the binary search of ReadAt     *)
(* requires.                                                                *)
RunsCover ==
    stage = "done" =>
        /\ runs # <<>>
        /\ runs[1].start = 0
        /\ \A i \in 1 .. Len(runs) :
              /\ runs[i].length > 0
              /\ runs[i].start + runs[i].length =
                    IF i < Len(runs) THEN runs[i + 1].start ELSE size

(* An offset of the stream is read at its place in the sector that the      *)
(* chain has for it, through however many runs the chain was cut into.      *)
RunsAddress ==
    stage = "done" =>
        \A i \in 1 .. Len(runs), x \in 0 .. size - 1 :
            Hits(runs[i], x) =>
                runs[i].off + (x - runs[i].start) = Offset(x \div Unit + 1) + (x % Unit)
=============================================================================
