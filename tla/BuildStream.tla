---------------------------- MODULE BuildStream -----------------------------
(***************************************************************************)
(* buildStream of reader.go: the chain of a stream is walked in the FAT or *)
(* the mini FAT (ChainWalk), and what walkChain returns is resolved into   *)
(* runs (StreamRuns).                                                      *)
(***************************************************************************)
EXTENDS ChainWalk, StreamRuns, FiniteSets, Functions

buildVars == <<vars, runsVars>>

\* The stream's size: the sectors announced are what it takes.
SizesFor(count) ==
    {z \in 1 .. Len(fat) * SecSize :
        count = CeilDiv(z, IF z < Cutoff THEN MiniSize ELSE SecSize)}

BuildInit ==
    /\ Init
    /\ mini = FALSE /\ miniStream = <<>> /\ pieces = <<>> /\ size = 0
    /\ k = 0 /\ cur = NoRun /\ runs = <<>> /\ total = 0
    /\ stage = "wait"

Walk == Next /\ UNCHANGED runsVars

\* walkChain has returned the chain of a stream.
BeginRuns ==
    /\ caller = "stream"
    /\ pc = "ok"
    /\ stage = "wait"
    /\ pieces' = chain
    /\ size' \in SizesFor(n)
    /\ mini' = (size' < Cutoff)
    /\ miniStream' \in IF mini' THEN MiniStreams ELSE {<<>>}
    /\ stage' = "loop"
    /\ UNCHANGED <<vars, k, cur, runs, total>>

Resolve == RunsNext /\ UNCHANGED vars

BuildNext == Walk \/ BeginRuns \/ Resolve

BuildSpec == BuildInit /\ [][BuildNext]_buildVars

-----------------------------------------------------------------------------
(* Properties                                                               *)

\* The place in the file of offset x of the stream.
PlaceOf(x) ==
    LET r == runs[CHOOSE i \in DOMAIN runs : Hits(runs[i], x)]
    IN  r.off + (x - r.start)

(* No two bytes of a stream are read from one place of the file, and none   *)
(* from outside of the sectors it owns: what walkChain refuses and how the  *)
(* runs are joined and cut together keep a stream's bytes apart. (A mini    *)
(* stream's are as far apart as the sectors of the mini-stream are.)        *)
BytesApart ==
    stage = "done" =>
        LET Places == {PlaceOf(x) : x \in 0 .. size - 1} IN
        /\ \A p \in Places : p >= SecSize
        /\ ~mini =>
              /\ Cardinality(Places) = size
              /\ \A p \in Places : p \div SecSize - 1 \in Range(chain)
        /\ mini /\ IsInjective(miniStream) => Cardinality(Places) = size
=============================================================================
