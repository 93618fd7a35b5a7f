---------------------------- MODULE ByteStreams ----------------------------
(***************************************************************************)
(* What the writing half of a compound file promises its callers: every    *)
(* stream is an append-only sequence of cells that only its own caller     *)
(* changes, closing it freezes it, and sealing the file (Writer.Close)     *)
(* happens once, when every stream is closed, and freezes everything.      *)
(* No sectors, no buffers, no lock, no mini-stream, no failures: an        *)
(* operation that fails has no effect here.                                *)
(***************************************************************************)
EXTENDS Integers, Sequences

CONSTANTS
    Streams,            \* the streams that may be created
    MaxSize,            \* bound on the cells one stream accepts
    Supplied(_, _, _)   \* Supplied(s, i, j): cells i .. j the caller of s writes

VARIABLES
    phase,      \* [Streams -> {"absent", "open", "closed"}]
    content,    \* the cells each stream holds
    sealed      \* Writer.Close has been accepted

vars == <<phase, content, sealed>>

Init ==
    /\ phase = [s \in Streams |-> "absent"]
    /\ content = [s \in Streams |-> <<>>]
    /\ sealed = FALSE

Create(s) ==
    /\ ~sealed
    /\ phase[s] = "absent"
    /\ phase' = [phase EXCEPT ![s] = "open"]
    /\ UNCHANGED <<content, sealed>>

\* The n-th cell a stream holds is the n-th cell its caller supplied.
Accept(s, n) ==
    /\ phase[s] = "open"
    /\ Len(content[s]) + n <= MaxSize
    /\ content' = [content EXCEPT ![s] = @ \o Supplied(s, Len(@) + 1, Len(@) + n)]
    /\ UNCHANGED <<phase, sealed>>

Close(s) ==
    /\ phase[s] = "open"
    /\ phase' = [phase EXCEPT ![s] = "closed"]
    /\ UNCHANGED <<content, sealed>>

Seal ==
    /\ ~sealed
    /\ \A s \in Streams : phase[s] # "open"
    /\ sealed' = TRUE
    /\ UNCHANGED <<phase, content>>

Next ==
    \/ \E s \in Streams :
          \/ Create(s)
          \/ Close(s)
          \/ \E n \in 1 .. MaxSize : Accept(s, n)
    \/ Seal

Spec == Init /\ [][Next]_vars
=============================================================================
