----------------------------- MODULE DataStream -----------------------------
(***************************************************************************)
(* What a barectf tracer promises to the reader of a data stream.          *)
(*                                                                         *)
(* The application's calls of tracing functions are numbered from 1.  The  *)
(* tracer takes them in order and records, discards or, when tracing is    *)
(* disabled, ignores each one, at once.  Recorded events are pending until *)
(* they leave, together and in order, as the next packet of the stream.    *)
(* A packet tells its sequence number and how many events were discarded   *)
(* before it left.                                                         *)
(***************************************************************************)
EXTENDS Integers, Sequences

CONSTANTS
    Word,         \* modulus of the tracer's counters
    SeqMod,       \* modulus of the sequence number field
    DiscardedMod  \* modulus of the discarded counter field

VARIABLES
    enabled,    \* tracing is enabled
    calls,      \* calls dealt with
    pending,    \* recorded calls that have not left
    discarded,  \* number of discarded calls, modulo Word
    stream      \* packets that left

vars == << enabled, calls, pending, discarded, stream >>

Init ==
    /\ enabled = TRUE
    /\ calls = 0
    /\ pending = << >>
    /\ discarded = 0
    /\ stream = << >>

Record ==
    /\ calls' = calls + 1
    /\ pending' = Append(pending, calls')
    /\ UNCHANGED << enabled, discarded, stream >>

Discard ==
    /\ calls' = calls + 1
    /\ discarded' = (discarded + 1) % Word
    /\ UNCHANGED << enabled, pending, stream >>

Ignore ==
    /\ ~enabled
    /\ calls' = calls + 1
    /\ UNCHANGED << enabled, pending, discarded, stream >>

Flush ==
    /\ stream' = Append(stream, [calls |-> pending,
                                 seq_num |-> (Len(stream) % Word) % SeqMod,
                                 discarded |-> discarded % DiscardedMod])
    /\ pending' = << >>
    /\ UNCHANGED << enabled, calls, discarded >>

SetTracing ==
    /\ enabled' = ~enabled
    /\ UNCHANGED << calls, pending, discarded, stream >>

Next == Record \/ Discard \/ Ignore \/ Flush \/ SetTracing

Spec == Init /\ [][Next]_vars

=============================================================================
