-------------------------------- MODULE Ctx --------------------------------
(***************************************************************************)
(* The barectf context of one data stream and the C functions generated    *)
(* from barectf.c.j2 that read or change it, one operator per function.    *)
(*                                                                         *)
(* A context is a record with the members of struct barectf_ctx.  Its buf  *)
(* member is what the packet buffer holds: the fields of the packet        *)
(* context, the offset where they end, and the event records serialized    *)
(* since the packet was opened.  Opening a packet skips the fields that    *)
(* closing writes, so until then they keep what the buffer held before.    *)
(*                                                                         *)
(* The data stream type has all its packet features: both timestamps, the  *)
(* discarded event record counter snapshot and the sequence number.        *)
(***************************************************************************)
EXTENDS Layout, Sequences

CONSTANTS
    Word,         \* 2^32: the members of the context are uint32_t
    SeqMod,       \* 2^width of the packet sequence number field
    DiscardedMod  \* 2^width of the discarded event records snapshot field

ASSUME CtxAssumption ==
    /\ Word \in Nat \ {0}
    /\ SeqMod \in Nat \ {0}
    /\ DiscardedMod \in Nat \ {0}

(* A serialized event record: the call that wrote it, its timestamp field  *)
(* and the offset after it.                                                *)
ErImage == [id : Nat, ts : Nat, end : Nat]

Packet ==
    [packet_size : Nat, begin : Nat, end : Nat, content_size : Nat,
     events_discarded : Nat, seq_num : Nat, header_end : Nat, ers : Seq(ErImage)]

CtxType ==
    [buf : Packet, packet_size : Nat, content_size : Nat, at : Nat, off_content : Nat,
     events_discarded : Nat, sequence_number : Nat, packet_is_open : BOOLEAN,
     in_tracing_section : BOOLEAN, is_tracing_enabled : BOOLEAN,
     use_cur_last_event_ts : BOOLEAN, cur_last_event_ts : Nat]

(* uint32_t subtraction. *)
Minus(a, b) == (a - b) % Word

-----------------------------------------------------------------------------

(* barectf_init: garbage stands for what the memory held; the function     *)
(* does not write off_content, content_size, cur_last_event_ts or the      *)
(* buffer.                                                                 *)
CtxInit(size, garbage) ==
    [buf |-> [packet_size |-> garbage, begin |-> garbage, end |-> garbage,
              content_size |-> garbage, events_discarded |-> garbage,
              seq_num |-> garbage, header_end |-> garbage, ers |-> << >>],
     packet_size |-> size, content_size |-> garbage, at |-> 0, off_content |-> garbage,
     events_discarded |-> 0, sequence_number |-> 0, packet_is_open |-> FALSE,
     in_tracing_section |-> FALSE, is_tracing_enabled |-> TRUE,
     use_cur_last_event_ts |-> FALSE, cur_last_event_ts |-> garbage]

PacketIsFull(c) == c.at = c.packet_size

(* Mutant of PacketIsEmpty: any packet that is not full. *)
PacketIsNotFull(c) == c.at < c.packet_size

PacketIsEmpty(c) == c.at <= c.off_content

EnableTracing(c, enable) == [c EXCEPT !.is_tracing_enabled = enable]

(* Mutant of PacketSetBuf: a closed packet does not stay full. *)
PacketSetBufOnly(c, size) == [c EXCEPT !.packet_size = size]

(* barectf_packet_set_buf: a full packet stays full. *)
PacketSetBuf(c, size) ==
    [c EXCEPT !.packet_size = size,
              !.at = IF PacketIsFull(c) THEN size ELSE @]

-----------------------------------------------------------------------------

(* The timestamp an opening or closing function uses when the clock is at  *)
(* now.                                                                    *)
PacketTimestamp(c, now) ==
    IF c.use_cur_last_event_ts THEN c.cur_last_event_ts ELSE now

(* Mutant of MayAlter: no test of is_tracing_enabled. *)
AlwaysAlter(c) == TRUE

(* Whether an opening or closing function may alter the packet: it may not *)
(* when the platform calls it directly while tracing is disabled.          *)
MayAlter(c) == c.is_tracing_enabled \/ c.in_tracing_section

(* The packet header and context fields the opening function writes; off   *)
(* is where they end.                                                      *)
OpeningFields(c, now, off) ==
    [c.buf EXCEPT !.packet_size = c.packet_size,
                  !.begin = PacketTimestamp(c, now),
                  !.seq_num = c.sequence_number % SeqMod,
                  !.header_end = off,
                  !.ers = << >>]

(* The packet context fields the closing function writes.                  *)
ClosingFields(c, now) ==
    [c.buf EXCEPT !.end = PacketTimestamp(c, now),
                  !.content_size = c.at,
                  !.events_discarded = c.events_discarded % DiscardedMod]

(* barectf_DST_open_packet; off depends on the parameters the platform     *)
(* passes.                                                                 *)
OpenPacket(c, now, off) ==
    IF MayAlter(c) /\ ~c.packet_is_open
    THEN [c EXCEPT !.buf = OpeningFields(c, now, off),
                   !.at = off,
                   !.off_content = off,
                   !.packet_is_open = TRUE]
    ELSE c

(* Mutants of ClosePacket: the content size is read once the offset is back *)
(* at the end of the packet; the counter restarts after each snapshot; the  *)
(* sequence number stays.                                                   *)
ClosePacketSizeLast(c, now) ==
    IF MayAlter(c) /\ c.packet_is_open
    THEN LET full == [c EXCEPT !.at = c.packet_size] IN
         [full EXCEPT !.content_size = full.at,
                      !.buf = ClosingFields(full, now),
                      !.packet_is_open = FALSE,
                      !.sequence_number = (@ + 1) % Word]
    ELSE c

ClosePacketCountRestarts(c, now) ==
    IF MayAlter(c) /\ c.packet_is_open
    THEN [c EXCEPT !.content_size = c.at,
                   !.buf = ClosingFields(c, now),
                   !.events_discarded = 0,
                   !.at = c.packet_size,
                   !.packet_is_open = FALSE,
                   !.sequence_number = (@ + 1) % Word]
    ELSE c

ClosePacketSameNumber(c, now) ==
    IF MayAlter(c) /\ c.packet_is_open
    THEN [c EXCEPT !.content_size = c.at,
                   !.buf = ClosingFields(c, now),
                   !.at = c.packet_size,
                   !.packet_is_open = FALSE]
    ELSE c

(* barectf_DST_close_packet *)
ClosePacket(c, now) ==
    IF MayAlter(c) /\ c.packet_is_open
    THEN [c EXCEPT !.content_size = c.at,
                   !.buf = ClosingFields(c, now),
                   !.at = c.packet_size,
                   !.packet_is_open = FALSE,
                   !.sequence_number = (@ + 1) % Word]
    ELSE c

(* _serialize_er_DST_ERT: writes the record that call id reserved space    *)
(* for.                                                                    *)
Serialize(c, er, id) ==
    LET end == ErEnd(c.at, er)
        image == [id |-> id, ts |-> c.cur_last_event_ts, end |-> end]
    IN [c EXCEPT !.at = end, !.buf = [c.buf EXCEPT !.ers = Append(c.buf.ers, image)]]

(* The no_space path of _reserve_er_space. *)
CountDiscarded(c) == [c EXCEPT !.events_discarded = (@ + 1) % Word]

(* Mutants: the packet begins at the current time; the flag is cleared      *)
(* instead of restored.                                                     *)
OpenPacketAtNow(c, now, off) == OpenPacket(c, now, off)

ClosePacketClearsSection(c, now) ==
    [ClosePacket([c EXCEPT !.use_cur_last_event_ts = TRUE], now)
        EXCEPT !.use_cur_last_event_ts = FALSE, !.in_tracing_section = FALSE]

(* A packet operation of a tracing function call: the callback uses the    *)
(* timestamp of the event record.                                          *)
OpenPacketForEvent(c, now, off) ==
    [OpenPacket([c EXCEPT !.use_cur_last_event_ts = TRUE], now, off)
        EXCEPT !.use_cur_last_event_ts = FALSE]

ClosePacketForEvent(c, now) ==
    [ClosePacket([c EXCEPT !.use_cur_last_event_ts = TRUE], now)
        EXCEPT !.use_cur_last_event_ts = FALSE]

(* Mutants of CannotFit and DoesNotFit: the space left in the current       *)
(* packet stands for that of an empty one; the offset is taken to start at  *)
(* the content.                                                             *)
CannotFitCurrent(c, er_size) == er_size > Minus(c.packet_size, c.at)
DoesNotFitContent(c, er_size) == er_size > Minus(c.packet_size, c.at - c.off_content)

(* The first test of _reserve_er_space: no packet can hold the record. *)
CannotFit(c, er_size) == er_size > Minus(c.packet_size, c.off_content)

(* The record does not fit what is left of the current packet. *)
DoesNotFit(c, er_size) == er_size > Minus(c.packet_size, c.at)

=============================================================================
