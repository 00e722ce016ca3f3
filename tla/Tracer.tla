------------------------------- MODULE Tracer -------------------------------
(***************************************************************************)
(* A barectf tracer at run time: one data stream context, the application  *)
(* that calls its tracing functions, and the platform that opens, closes   *)
(* and stores its packets.                                                 *)
(*                                                                         *)
(* A call of a tracing function takes several steps.  Between two of them  *)
(* other code may run: the clock moves, the back end fills or drains, and  *)
(* an interrupt handler enables or disables tracing or makes the platform  *)
(* start a new packet (it does so only when the context is not in a        *)
(* tracing section).                                                       *)
(***************************************************************************)
EXTENDS Ctx, FiniteSets

CONSTANTS
    EventRecords,     \* the event records the application may write
    BufSizes,         \* buffer sizes, in bits, a packet may have
    ContentOffsets,   \* offsets where a packet header and context may end
    Garbage,          \* what uninitialized memory may hold
    MaxCalls,         \* bound: calls of tracing functions
    MaxClock,         \* bound: clock value
    MaxPackets,       \* bound: packets after which the platform starts no new one itself
    AsyncFlush,       \* the platform may start a new packet during a call
    DisabledClose,    \* the platform may close a packet while tracing is disabled
    CanDisable,       \* the application disables and enables tracing
    CanFill,          \* the back end may be full
    RealtimeClock     \* the clock source may be set back, as CLOCK_REALTIME may

ASSUME TracerAssumption ==
    /\ EventRecords \subseteq EventRecord
    /\ BufSizes \subseteq 0 .. (Word - 1)
    /\ BufSizes # {}
    /\ ContentOffsets \subseteq Nat
    /\ Garbage \subseteq Nat
    /\ MaxCalls \in Nat
    /\ MaxClock \in Nat
    /\ MaxPackets \in Nat
    /\ {AsyncFlush, DisabledClose, CanDisable, CanFill, RealtimeClock} \subseteq BOOLEAN

VARIABLES
    ctx,           \* struct barectf_DST_ctx
    clock,         \* value of the default clock
    backend_full,  \* what the is_backend_full callback returns
    backend,       \* packets in the back end
    pc,            \* next step of the current call
    er,            \* event record of the current call
    er_size,       \* local variable of the tracing function
    fate           \* history: what became of the record of each call

vars == << ctx, clock, backend_full, backend, pc, er, er_size, fate >>

(* The steps of a call during which ctx.in_tracing_section is 1. *)
SectionSteps == {"reserve", "fit", "closed", "serialize", "commit"}

Steps == {"idle", "saved", "enter", "finished"} \cup SectionSteps

(* The identifier of the current call: calls are counted from 1. *)
Call == Len(fate) + 1

TypeOK ==
    /\ ctx \in CtxType
    /\ clock \in Nat
    /\ backend_full \in BOOLEAN
    /\ backend \in Seq(Packet)
    /\ pc \in Steps
    /\ er \in EventRecord
    /\ er_size \in Nat
    /\ fate \in Seq({"recorded", "discarded", "ignored"})

-----------------------------------------------------------------------------
(* Platform callbacks. *)

(* close_packet, where the closing function turns the context into closed: *)
(* stores the packet and sets a packet buffer.                             *)
Stores(closed) == backend' = Append(backend, closed.buf)

AfterClosing(closed, size) == PacketSetBuf(closed, size)


LeaveSection(c) == [c EXCEPT !.in_tracing_section = FALSE]

-----------------------------------------------------------------------------

(* The platform initialization function. *)
Init ==
    /\ clock = 0
    /\ \E size \in BufSizes, g \in Garbage, off \in ContentOffsets :
            ctx = OpenPacket(CtxInit(size, g), 0, off)
    /\ backend_full \in {FALSE, CanFill}
    /\ backend = << >>
    /\ pc = "idle"
    /\ er \in EventRecords
    /\ er_size = 0
    /\ fate = << >>

-----------------------------------------------------------------------------
(* A call of a tracing function. *)

(* The application calls the tracing function, which saves the timestamp. *)
SaveTimestamp ==
    /\ pc = "idle"
    /\ Len(fate) < MaxCalls
    /\ er' \in EventRecords
    /\ ctx' = [ctx EXCEPT !.cur_last_event_ts = clock]
    /\ pc' = "saved"
    /\ UNCHANGED << clock, backend_full, backend, er_size, fate >>

TracingEnabled ==
    /\ pc = "saved"
    /\ ctx.is_tracing_enabled
    /\ pc' = "enter"
    /\ UNCHANGED << ctx, clock, backend_full, backend, er, er_size, fate >>

TracingDisabled ==
    /\ pc = "saved"
    /\ ~ctx.is_tracing_enabled
    /\ pc' = "idle"
    /\ fate' = Append(fate, "ignored")
    /\ UNCHANGED << ctx, clock, backend_full, backend, er, er_size >>

(* Enters the tracing section and computes the size of the event record. *)
EnterSection ==
    /\ pc = "enter"
    /\ ctx' = [ctx EXCEPT !.in_tracing_section = TRUE]
    /\ er_size' = ErSize(ctx.at, er)
    /\ pc' = "reserve"
    /\ UNCHANGED << clock, backend_full, backend, er, fate >>

(* No space: count the record as discarded and leave the section. *)
NoSpace ==
    /\ ctx' = LeaveSection(CountDiscarded(ctx))
    /\ fate' = Append(fate, "discarded")
    /\ pc' = "idle"
    /\ UNCHANGED << clock, backend_full, backend, er, er_size >>

DiscardOversized ==
    /\ pc = "reserve"
    /\ CannotFit(ctx, er_size)
    /\ NoSpace

(* Mutant of DiscardWhenFull: try again until the back end has space. *)
RetryWhenFull ==
    /\ pc = "reserve"
    /\ ~CannotFit(ctx, er_size)
    /\ PacketIsFull(ctx)
    /\ backend_full
    /\ UNCHANGED vars

(* The current packet is full, thus closed: a new one is needed. *)
DiscardWhenFull ==
    /\ pc = "reserve"
    /\ ~CannotFit(ctx, er_size)
    /\ PacketIsFull(ctx)
    /\ backend_full
    /\ NoSpace

OpenWhenFull ==
    /\ pc = "reserve"
    /\ ~CannotFit(ctx, er_size)
    /\ PacketIsFull(ctx)
    /\ ~backend_full
    /\ \E off \in ContentOffsets : ctx' = OpenPacketForEvent(ctx, clock, off)
    /\ pc' = "fit"
    /\ UNCHANGED << clock, backend_full, backend, er, er_size, fate >>

UseCurrentPacket ==
    /\ pc = "reserve"
    /\ ~CannotFit(ctx, er_size)
    /\ ~PacketIsFull(ctx)
    /\ pc' = "fit"
    /\ UNCHANGED << ctx, clock, backend_full, backend, er, er_size, fate >>

RecordFits ==
    /\ pc = "fit"
    /\ ~DoesNotFit(ctx, er_size)
    /\ pc' = "serialize"
    /\ UNCHANGED << ctx, clock, backend_full, backend, er, er_size, fate >>

CloseForSpace ==
    /\ pc = "fit"
    /\ DoesNotFit(ctx, er_size)
    /\ LET closed == ClosePacketForEvent(ctx, clock) IN
        /\ Stores(closed)
        /\ \E size \in BufSizes : ctx' = AfterClosing(closed, size)
    /\ pc' = "closed"
    /\ UNCHANGED << clock, backend_full, er, er_size, fate >>

DiscardAfterClose ==
    /\ pc = "closed"
    /\ backend_full
    /\ NoSpace

OpenAfterClose ==
    /\ pc = "closed"
    /\ ~backend_full
    /\ \E off \in ContentOffsets : ctx' = OpenPacketForEvent(ctx, clock, off)
    /\ pc' = "serialize"
    /\ UNCHANGED << clock, backend_full, backend, er, er_size, fate >>

SerializeEr ==
    /\ pc = "serialize"
    /\ ctx' = Serialize(ctx, er, Call)
    /\ fate' = Append(fate, "recorded")
    /\ pc' = "commit"
    /\ UNCHANGED << clock, backend_full, backend, er, er_size >>

CommitEr ==
    /\ pc = "commit"
    /\ ~PacketIsFull(ctx)
    /\ ctx' = LeaveSection(ctx)
    /\ pc' = "idle"
    /\ UNCHANGED << clock, backend_full, backend, er, er_size, fate >>

(* Mutant of CommitFull: the full packet is closed but not stored. *)
CommitFullNotStored ==
    /\ pc = "commit"
    /\ PacketIsFull(ctx)
    /\ ctx' = LeaveSection(ClosePacket(ctx, clock))
    /\ pc' = "idle"
    /\ UNCHANGED << clock, backend_full, backend, er, er_size, fate >>

(* The record fills the packet: close it at once. *)
CommitFull ==
    /\ pc = "commit"
    /\ PacketIsFull(ctx)
    /\ LET closed == ClosePacket(ctx, clock) IN
        /\ Stores(closed)
        /\ \E size \in BufSizes : ctx' = LeaveSection(AfterClosing(closed, size))
    /\ pc' = "idle"
    /\ UNCHANGED << clock, backend_full, er, er_size, fate >>

-----------------------------------------------------------------------------
(* The platform on its own behalf, between two steps of the application.   *)
(* It leaves the packet alone when the context is in a tracing section.    *)

MayStartPacket ==
    /\ pc \in IF AsyncFlush THEN Steps \ {"finished"} ELSE {"idle"}
    /\ ~ctx.in_tracing_section
    /\ ctx.is_tracing_enabled \/ DisabledClose
    /\ Len(backend) < MaxPackets

(* test_platform_new_packet when a packet is open: close it, open another. *)
ReplacePacket ==
    /\ MayStartPacket
    /\ ctx.packet_is_open
    /\ LET closed == ClosePacket(ctx, clock) IN
        /\ Stores(closed)
        /\ \E size \in BufSizes, off \in ContentOffsets :
                ctx' = OpenPacket(AfterClosing(closed, size), clock, off)
    /\ UNCHANGED << clock, backend_full, pc, er, er_size, fate >>

(* test_platform_new_packet when no packet is open. *)
StartPacket ==
    /\ MayStartPacket
    /\ ~ctx.packet_is_open
    /\ \E off \in ContentOffsets : ctx' = OpenPacket(ctx, clock, off)
    /\ UNCHANGED << clock, backend_full, backend, pc, er, er_size, fate >>

(* The platform finalization function: close the last packet unless it is  *)
(* empty.  The application calls no tracing function afterwards.           *)
Fini ==
    /\ pc = "idle"
    /\ ctx.is_tracing_enabled \/ DisabledClose
    /\ IF ctx.packet_is_open /\ ~PacketIsEmpty(ctx)
       THEN LET closed == ClosePacket(ctx, clock) IN
            /\ Stores(closed)
            /\ \E size \in BufSizes : ctx' = AfterClosing(closed, size)
       ELSE UNCHANGED << ctx, backend >>
    /\ pc' = "finished"
    /\ UNCHANGED << clock, backend_full, er, er_size, fate >>

-----------------------------------------------------------------------------
(* The environment. *)

(* barectf_enable_tracing, from any code that may interrupt a call. *)
SetTracing ==
    /\ CanDisable
    /\ ctx' = EnableTracing(ctx, ~ctx.is_tracing_enabled)
    /\ UNCHANGED << clock, backend_full, backend, pc, er, er_size, fate >>

BackendChanges ==
    /\ CanFill
    /\ backend_full' = ~backend_full
    /\ UNCHANGED << ctx, clock, backend, pc, er, er_size, fate >>

Tick ==
    /\ clock < MaxClock
    /\ clock' = clock + 1
    /\ UNCHANGED << ctx, backend_full, backend, pc, er, er_size, fate >>

(* get_clock of the Linux FS platform reads CLOCK_REALTIME. *)
ClockSetBack ==
    /\ RealtimeClock
    /\ clock > 0
    /\ clock' = clock - 1
    /\ UNCHANGED << ctx, backend_full, backend, pc, er, er_size, fate >>

-----------------------------------------------------------------------------

TracingCallStep ==
    \/ TracingEnabled
    \/ TracingDisabled
    \/ EnterSection
    \/ DiscardOversized
    \/ DiscardWhenFull
    \/ OpenWhenFull
    \/ UseCurrentPacket
    \/ RecordFits
    \/ CloseForSpace
    \/ DiscardAfterClose
    \/ OpenAfterClose
    \/ SerializeEr
    \/ CommitEr
    \/ CommitFull

Platform == ReplacePacket \/ StartPacket \/ Fini

Environment == SetTracing \/ BackendChanges \/ Tick \/ ClockSetBack

Next == SaveTimestamp \/ TracingCallStep \/ Platform \/ Environment

Spec == Init /\ [][Next]_vars

(* A started call keeps running, and the application finalizes the         *)
(* platform in the end.                                                    *)
FairSpec == Spec /\ WF_vars(TracingCallStep) /\ WF_vars(Fini)

-----------------------------------------------------------------------------
(* What a reader of the data stream relies on. *)

EndOfContent(p) == IF p.ers = << >> THEN p.header_end ELSE p.ers[Len(p.ers)].end

(* Every event record ends inside its packet: the write offset never      *)
(* passes the end of an open packet, and the record about to be           *)
(* serialized ends at or before it (_er_size_*, _reserve_er_space and     *)
(* _serialize_er_* agree on the space a record takes).                    *)
InsidePacket ==
    /\ ctx.packet_is_open => ctx.off_content <= ctx.at /\ ctx.at <= ctx.packet_size
    /\ pc = "serialize" => ctx.packet_is_open /\ ErEnd(ctx.at, er) <= ctx.packet_size

(* Every packet of the back end was closed: its content size field is the *)
(* offset where its last event record ends, within the packet (what       *)
(* close_packet wrote is about this packet, not left from another one).   *)
PacketsAreClosed ==
    \A i \in DOMAIN backend :
        /\ backend[i].content_size = EndOfContent(backend[i])
        /\ backend[i].content_size <= backend[i].packet_size

(* The packets of the back end have consecutive sequence numbers, modulo  *)
(* the field's width: none was lost, written twice or out of order.       *)
SequenceNumbers ==
    \A i \in DOMAIN backend : backend[i].seq_num = ((i - 1) % Word) % SeqMod

(* Time does not go back inside a packet whose clock snapshots are ts: its *)
(* beginning, its event records, then its end.                            *)
Timestamps(p) == << p.begin >> \o [i \in DOMAIN p.ers |-> p.ers[i].ts]

Ascending(s) == \A i, j \in DOMAIN s : i <= j => s[i] <= s[j]

(* Along the data stream time never goes back: a packet begins after the  *)
(* end of the previous one, each event record follows the beginning of    *)
(* its packet and the previous record, and a packet ends after its last   *)
(* record (opening and closing functions choose between the timestamp of  *)
(* the event record and the clock with use_cur_last_event_ts).            *)
TimestampsOrdered ==
    /\ \A i \in DOMAIN backend : Ascending(Timestamps(backend[i]) \o << backend[i].end >>)
    /\ \A i \in DOMAIN backend : i > 1 => backend[i - 1].end <= backend[i].begin
    /\ ctx.packet_is_open =>
        /\ Ascending(Timestamps(ctx.buf) \o << clock >>)
        /\ backend # << >> => backend[Len(backend)].end <= ctx.buf.begin

ErsOf(p) == {p.ers[k] : k \in DOMAIN p.ers}

(* The discarded event records among the first n calls. *)
Discarded(n) == Cardinality({k \in 1 .. n : fate[k] = "discarded"})

(* A packet's snapshot of the discarded event record counter places the   *)
(* losses right: it counts every loss that precedes a record of the       *)
(* packet or of an earlier one, and none that follows a record of a later *)
(* packet.                                                                *)
DiscardsArePlaced ==
    \A i \in DOMAIN backend :
        \E n \in 0 .. Len(fate) :
            /\ backend[i].events_discarded = Discarded(n) % DiscardedMod
            /\ \A j \in DOMAIN backend : \A e \in ErsOf(backend[j]) : j <= i <=> e.id <= n
            /\ ctx.packet_is_open => \A e \in ErsOf(ctx.buf) : n < e.id

(* An event record is discarded only when it fits no empty packet of the   *)
(* current buffer or when the back end is full.                           *)
DiscardIsNecessary ==
    [][ctx'.events_discarded # ctx.events_discarded =>
        backend_full \/ ErEnd(ctx.off_content, er) > ctx.packet_size]_vars

(* The part of the context that describes the packet. *)
PacketState(c) ==
    << c.buf, c.packet_size, c.content_size, c.at, c.off_content, c.sequence_number,
       c.packet_is_open >>

(* While a call is in its tracing section only its own steps change the    *)
(* packet: whoever tests in_tracing_section before starting a new packet   *)
(* never does so between the steps that reserve and commit a record.       *)
SectionIsExclusive ==
    [][(pc \in SectionSteps /\ pc' = pc) =>
        PacketState(ctx') = PacketState(ctx) /\ backend' = backend]_vars

(* Once tracing is disabled and no tracing section is under way the packet *)
(* does not change (the guards of open_packet and close_packet).           *)
FrozenWhileDisabled ==
    [][~ctx.is_tracing_enabled /\ ~ctx.in_tracing_section =>
        PacketState(ctx') = PacketState(ctx)]_vars

(* A call of a tracing function returns: it does not wait for the back end *)
(* to drain nor retry.                                                     *)
CallReturns == pc = "saved" ~> pc \in {"idle", "finished"}

(* Every recorded event record reaches the back end, at the latest when    *)
(* the platform is finalized.                                              *)
RecordIsDelivered ==
    \A k \in 1 .. MaxCalls :
        (k \in DOMAIN fate /\ fate[k] = "recorded") ~>
            \E i \in DOMAIN backend : \E e \in ErsOf(backend[i]) : e.id = k

(* A flag that is set says a call is in its tracing section, and only      *)
(* then; the callbacks restore it whichever way they return.               *)
SectionFlag == ctx.in_tracing_section <=> pc \in SectionSteps

=============================================================================
