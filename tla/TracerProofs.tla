---------------------------- MODULE TracerProofs ----------------------------
(***************************************************************************)
(* What the operators of Ctx return, and theorems about the tracer, for    *)
(* every value of its constants: its types, its sections, and the space of *)
(* event records.                                                          *)
(*                                                                         *)
(* Then the stream of packets a tracer produces: it implements DataStream, *)
(* its sequence numbers are consecutive and its packets are closed when    *)
(* they are stored; time never goes back, the losses that packets report   *)
(* are where they happened, and the losses of packed records could not be  *)
(* avoided.  Every step of the tracer has one of a few kinds, according to *)
(* what it does to the stream (lemma NextFlow); each of these results is   *)
(* about the kinds, not about the steps.                                   *)
(***************************************************************************)
EXTENDS TracerRefinement, LayoutLemmas

-----------------------------------------------------------------------------
(* The context. *)

(* A subtraction of offsets that does not go below zero is exact; any      *)
(* subtraction is a natural number.                                        *)
LEMMA MinusFacts ==
    ASSUME NEW a \in Int, NEW b \in Int
    PROVE  /\ Minus(a, b) \in Nat
           /\ b <= a /\ a - b < Word => Minus(a, b) = a - b
BY CtxAssumption DEF Minus

(* The context that the initialization function fills is well formed.      *)
LEMMA CtxInitType ==
    ASSUME NEW size \in Nat, NEW g \in Nat
    PROVE  CtxInit(size, g) \in CtxType
BY DEF CtxInit, CtxType, Packet

(* The time of a packet is a time.                                         *)
LEMMA PacketTimestampType ==
    ASSUME NEW c \in CtxType, NEW now \in Nat
    PROVE  PacketTimestamp(c, now) \in Nat
BY DEF PacketTimestamp, CtxType

(* What the opening function writes is a packet.                           *)
LEMMA OpeningFieldsType ==
    ASSUME NEW c \in CtxType, NEW now \in Nat, NEW off \in Nat
    PROVE  OpeningFields(c, now, off) \in Packet
<1>1. c.sequence_number % SeqMod \in Nat
  BY CtxAssumption DEF CtxType
<1>2. c.buf \in Packet /\ c.packet_size \in Nat
  BY DEF CtxType
<1>3. PacketTimestamp(c, now) \in Nat
  BY PacketTimestampType
<1>4. << >> \in Seq(ErImage)
  OBVIOUS
<1> QED
  BY <1>1, <1>2, <1>3, <1>4 DEF OpeningFields, Packet

(* The opening function keeps the type of the context, its flags and the   *)
(* packet size.                                                            *)
LEMMA OpenPacketKeeps ==
    ASSUME NEW c \in CtxType, NEW now \in Nat, NEW off \in Nat
    PROVE  /\ OpenPacket(c, now, off) \in CtxType
           /\ OpenPacket(c, now, off).in_tracing_section = c.in_tracing_section
           /\ OpenPacket(c, now, off).is_tracing_enabled = c.is_tracing_enabled
           /\ OpenPacket(c, now, off).packet_size = c.packet_size
BY OpeningFieldsType DEF OpenPacket, CtxType

(* It changes nothing when it may not alter the packet or it is open.      *)
LEMMA OpenPacketRefuses ==
    ASSUME NEW c, NEW now, NEW off, ~MayAlter(c) \/ c.packet_is_open
    PROVE  OpenPacket(c, now, off) = c
BY DEF OpenPacket

(* Otherwise the packet is open at its content offset.                     *)
LEMMA OpenPacketOpens ==
    ASSUME NEW c \in CtxType, NEW now \in Nat, NEW off \in Nat,
           MayAlter(c), ~c.packet_is_open
    PROVE  /\ OpenPacket(c, now, off).packet_is_open
           /\ OpenPacket(c, now, off).at = off
           /\ OpenPacket(c, now, off).off_content = off
           /\ OpenPacket(c, now, off).packet_size = c.packet_size
BY DEF OpenPacket, CtxType

(* The closing function: likewise, and the packet is closed and full.      *)
LEMMA ClosePacketFacts ==
    ASSUME NEW c \in CtxType, NEW now \in Nat
    PROVE  /\ ClosePacket(c, now) \in CtxType
           /\ ClosePacket(c, now).in_tracing_section = c.in_tracing_section
           /\ ClosePacket(c, now).is_tracing_enabled = c.is_tracing_enabled
           /\ ClosePacket(c, now).packet_size = c.packet_size
           /\ ClosePacket(c, now).off_content = c.off_content
           /\ ~MayAlter(c) \/ ~c.packet_is_open => ClosePacket(c, now) = c
           /\ MayAlter(c) /\ c.packet_is_open =>
                /\ ~ClosePacket(c, now).packet_is_open
                /\ ClosePacket(c, now).at = c.packet_size
<1>1. ClosingFields(c, now) \in Packet
  <2>1. c.events_discarded % DiscardedMod \in Nat
    BY CtxAssumption DEF CtxType
  <2>2. c.buf \in Packet /\ c.at \in Nat
    BY DEF CtxType
  <2> QED
    BY <2>1, <2>2, PacketTimestampType DEF ClosingFields, Packet
<1>2. (c.sequence_number + 1) % Word \in Nat
  BY CtxAssumption DEF CtxType
<1> QED
  BY <1>1, <1>2 DEF ClosePacket, CtxType

(* The same when a tracing function opens or closes, which raises          *)
(* use_cur_last_event_ts meanwhile.                                        *)
LEMMA UseEventTimestamp ==
    ASSUME NEW c \in CtxType, NEW use \in BOOLEAN
    PROVE  LET d == [c EXCEPT !.use_cur_last_event_ts = use] IN
           /\ d \in CtxType
           /\ d.in_tracing_section = c.in_tracing_section
           /\ d.is_tracing_enabled = c.is_tracing_enabled
           /\ d.packet_size = c.packet_size
           /\ d.packet_is_open = c.packet_is_open
           /\ d.at = c.at
           /\ d.off_content = c.off_content
           /\ MayAlter(d) <=> MayAlter(c)
BY DEF CtxType, MayAlter

(* An open on behalf of a tracing function leaves the flags and the sizes  *)
(* of the context.                                                         *)
LEMMA OpenPacketForEventKeeps ==
    ASSUME NEW c \in CtxType, NEW now \in Nat, NEW off \in Nat
    PROVE  /\ OpenPacketForEvent(c, now, off) \in CtxType
           /\ OpenPacketForEvent(c, now, off).in_tracing_section = c.in_tracing_section
           /\ OpenPacketForEvent(c, now, off).is_tracing_enabled = c.is_tracing_enabled
           /\ OpenPacketForEvent(c, now, off).packet_size = c.packet_size
<1> DEFINE d == [c EXCEPT !.use_cur_last_event_ts = TRUE]
           e == OpenPacket(d, now, off)
<1>1. /\ d \in CtxType
      /\ d.in_tracing_section = c.in_tracing_section
      /\ d.is_tracing_enabled = c.is_tracing_enabled
      /\ d.packet_size = c.packet_size
  BY UseEventTimestamp
<1>3. OpenPacketForEvent(c, now, off) = [e EXCEPT !.use_cur_last_event_ts = FALSE]
  BY DEF OpenPacketForEvent
<1> HIDE DEF d
<1>4. /\ e \in CtxType
      /\ e.in_tracing_section = c.in_tracing_section
      /\ e.is_tracing_enabled = c.is_tracing_enabled
      /\ e.packet_size = c.packet_size
  BY <1>1, OpenPacketKeeps
<1> HIDE DEF e
<1> QED
  BY <1>3, <1>4, UseEventTimestamp

(* The opening function does nothing when tracing is disabled outside a    *)
(* section, or when a packet is open.                                      *)
LEMMA OpenPacketForEventRefuses ==
    ASSUME NEW c \in CtxType, NEW now \in Nat, NEW off \in Nat,
           ~MayAlter(c) \/ c.packet_is_open
    PROVE  /\ OpenPacketForEvent(c, now, off).packet_is_open = c.packet_is_open
           /\ OpenPacketForEvent(c, now, off).at = c.at
           /\ OpenPacketForEvent(c, now, off).off_content = c.off_content
           /\ OpenPacketForEvent(c, now, off).packet_size = c.packet_size
<1> DEFINE d == [c EXCEPT !.use_cur_last_event_ts = TRUE]
<1>1. /\ d \in CtxType
      /\ d.packet_is_open = c.packet_is_open
      /\ d.at = c.at
      /\ d.off_content = c.off_content
      /\ d.packet_size = c.packet_size
      /\ MayAlter(d) <=> MayAlter(c)
  BY UseEventTimestamp
<1> HIDE DEF d
<1>2. OpenPacket(d, now, off) = d
  BY <1>1, OpenPacketRefuses
<1>3. OpenPacketForEvent(c, now, off) = [d EXCEPT !.use_cur_last_event_ts = FALSE]
  BY <1>2 DEF OpenPacketForEvent, d
<1> QED
  BY <1>1, <1>3, UseEventTimestamp

(* Otherwise it opens a packet and the position is the offset of the       *)
(* content.                                                                *)
LEMMA OpenPacketForEventOpens ==
    ASSUME NEW c \in CtxType, NEW now \in Nat, NEW off \in Nat,
           MayAlter(c), ~c.packet_is_open
    PROVE  /\ OpenPacketForEvent(c, now, off).packet_is_open
           /\ OpenPacketForEvent(c, now, off).at = off
           /\ OpenPacketForEvent(c, now, off).off_content = off
           /\ OpenPacketForEvent(c, now, off).packet_size = c.packet_size
<1> DEFINE d == [c EXCEPT !.use_cur_last_event_ts = TRUE]
           e == OpenPacket(d, now, off)
<1>1. /\ d \in CtxType
      /\ ~d.packet_is_open
      /\ d.packet_size = c.packet_size
      /\ MayAlter(d)
  BY UseEventTimestamp
<1>2. OpenPacketForEvent(c, now, off) = [e EXCEPT !.use_cur_last_event_ts = FALSE]
  BY DEF OpenPacketForEvent
<1> HIDE DEF d
<1>3. /\ e \in CtxType
      /\ e.packet_is_open
      /\ e.at = off
      /\ e.off_content = off
      /\ e.packet_size = c.packet_size
  BY <1>1, OpenPacketKeeps, OpenPacketOpens
<1> HIDE DEF e
<1> QED
  BY <1>2, <1>3, UseEventTimestamp

(* What a close on behalf of a tracing function leaves of the context.     *)
LEMMA ClosePacketForEventFacts ==
    ASSUME NEW c \in CtxType, NEW now \in Nat
    PROVE  /\ ClosePacketForEvent(c, now) \in CtxType
           /\ ClosePacketForEvent(c, now).in_tracing_section = c.in_tracing_section
           /\ ClosePacketForEvent(c, now).is_tracing_enabled = c.is_tracing_enabled
           /\ ClosePacketForEvent(c, now).packet_size = c.packet_size
           /\ ClosePacketForEvent(c, now).off_content = c.off_content
           /\ MayAlter(c) /\ c.packet_is_open =>
                /\ ~ClosePacketForEvent(c, now).packet_is_open
                /\ ClosePacketForEvent(c, now).at = c.packet_size
<1> DEFINE d == [c EXCEPT !.use_cur_last_event_ts = TRUE]
           e == ClosePacket(d, now)
<1>1. /\ d \in CtxType
      /\ d.in_tracing_section = c.in_tracing_section
      /\ d.is_tracing_enabled = c.is_tracing_enabled
      /\ d.packet_size = c.packet_size
      /\ d.packet_is_open = c.packet_is_open
      /\ d.off_content = c.off_content
  BY DEF CtxType
<1>2. MayAlter(d) <=> MayAlter(c)
  BY <1>1 DEF MayAlter
<1>3. ClosePacketForEvent(c, now) = [e EXCEPT !.use_cur_last_event_ts = FALSE]
  BY DEF ClosePacketForEvent
<1> HIDE DEF d
<1>4. /\ e \in CtxType
      /\ e.in_tracing_section = c.in_tracing_section
      /\ e.is_tracing_enabled = c.is_tracing_enabled
      /\ e.packet_size = c.packet_size
      /\ e.off_content = c.off_content
      /\ MayAlter(c) /\ c.packet_is_open => ~e.packet_is_open /\ e.at = c.packet_size
  BY <1>1, <1>2, ClosePacketFacts
<1> HIDE DEF e
<1> QED
  BY <1>1, <1>3, <1>4 DEF CtxType

(* Setting a packet buffer changes the packet size and keeps a full packet *)
(* full.                                                                   *)
LEMMA PacketSetBufFacts ==
    ASSUME NEW c \in CtxType, NEW size \in Nat
    PROVE  /\ PacketSetBuf(c, size) \in CtxType
           /\ PacketSetBuf(c, size).packet_size = size
           /\ PacketSetBuf(c, size).in_tracing_section = c.in_tracing_section
           /\ PacketSetBuf(c, size).is_tracing_enabled = c.is_tracing_enabled
           /\ PacketSetBuf(c, size).off_content = c.off_content
           /\ PacketSetBuf(c, size).packet_is_open = c.packet_is_open
           /\ PacketSetBuf(c, size).at = IF PacketIsFull(c) THEN size ELSE c.at
BY DEF PacketSetBuf, CtxType, PacketIsFull

(* What the write of a record leaves of the context: the position moves to *)
(* the end of the record.                                                  *)
LEMMA SerializeFacts ==
    ASSUME NEW c \in CtxType, NEW record \in EventRecord, NEW id \in Nat
    PROVE  /\ Serialize(c, record, id) \in CtxType
           /\ Serialize(c, record, id).at = ErEnd(c.at, record)
           /\ Serialize(c, record, id).packet_size = c.packet_size
           /\ Serialize(c, record, id).in_tracing_section = c.in_tracing_section
           /\ Serialize(c, record, id).is_tracing_enabled = c.is_tracing_enabled
           /\ Serialize(c, record, id).off_content = c.off_content
           /\ Serialize(c, record, id).packet_is_open = c.packet_is_open
<1> DEFINE image == [id |-> id, ts |-> c.cur_last_event_ts, end |-> ErEnd(c.at, record)]
<1>1. c.at \in Nat /\ c.cur_last_event_ts \in Nat /\ c.buf \in Packet
  BY DEF CtxType
<1>2. ErEnd(c.at, record) \in Nat
  BY <1>1, ErEndBound
<1>3. image \in ErImage
  BY <1>1, <1>2 DEF ErImage
<1> HIDE DEF image
<1>4. Append(c.buf.ers, image) \in Seq(ErImage)
  BY <1>1, <1>3 DEF Packet
<1>5. [c.buf EXCEPT !.ers = Append(c.buf.ers, image)] \in Packet
  BY <1>1, <1>4 DEF Packet
<1>6. Serialize(c, record, id) =
        [c EXCEPT !.at = ErEnd(c.at, record),
                  !.buf = [c.buf EXCEPT !.ers = Append(c.buf.ers, image)]]
  BY DEF Serialize, image
<1> QED
  BY <1>2, <1>5, <1>6 DEF CtxType

(* A loss moves nothing but the counter.                                   *)
LEMMA CountDiscardedFacts ==
    ASSUME NEW c \in CtxType
    PROVE  /\ CountDiscarded(c) \in CtxType
           /\ CountDiscarded(c).at = c.at
           /\ CountDiscarded(c).packet_size = c.packet_size
           /\ CountDiscarded(c).is_tracing_enabled = c.is_tracing_enabled
           /\ CountDiscarded(c).off_content = c.off_content
           /\ CountDiscarded(c).packet_is_open = c.packet_is_open
<1>1. (c.events_discarded + 1) % Word \in Nat
  BY CtxAssumption DEF CtxType
<1> QED
  BY <1>1 DEF CountDiscarded, CtxType

-----------------------------------------------------------------------------
(* The tracer. *)

(* The closing callback keeps types, the flag and the content offset; the  *)
(* packet gets the size of the buffer.                                     *)
LEMMA AfterClosingFacts ==
    ASSUME NEW c \in CtxType, NEW size \in BufSizes
    PROVE  /\ AfterClosing(c, size) \in CtxType
           /\ AfterClosing(c, size).in_tracing_section = c.in_tracing_section
           /\ AfterClosing(c, size).is_tracing_enabled = c.is_tracing_enabled
           /\ AfterClosing(c, size).packet_is_open = c.packet_is_open
           /\ AfterClosing(c, size).off_content = c.off_content
           /\ AfterClosing(c, size).packet_size = size
           /\ AfterClosing(c, size).at = IF PacketIsFull(c) THEN size ELSE c.at
<1>1. size \in Nat
  BY TracerAssumption, CtxAssumption
<1> QED
  BY <1>1, PacketSetBufFacts DEF AfterClosing

(* Leaving a section clears its flag and moves nothing else.               *)
LEMMA LeaveSectionFacts ==
    ASSUME NEW c \in CtxType
    PROVE  /\ LeaveSection(c) \in CtxType
           /\ LeaveSection(c).in_tracing_section = FALSE
           /\ LeaveSection(c).is_tracing_enabled = c.is_tracing_enabled
           /\ LeaveSection(c).packet_is_open = c.packet_is_open
           /\ LeaveSection(c).off_content = c.off_content
           /\ LeaveSection(c).packet_size = c.packet_size
           /\ LeaveSection(c).at = c.at
BY DEF LeaveSection, CtxType

-----------------------------------------------------------------------------
(* Type correctness. *)

(* The first state is well formed.                                         *)
LEMMA InitType == Init => TypeOK
<1> SUFFICES ASSUME Init PROVE TypeOK
  OBVIOUS
<1> USE TracerAssumption
<1>1. PICK size \in BufSizes, g \in Garbage, off \in ContentOffsets :
        ctx = OpenPacket(CtxInit(size, g), 0, off)
  BY DEF Init
<1>2. size \in Nat /\ g \in Nat /\ off \in Nat
  OBVIOUS
<1>3. ctx \in CtxType
  BY <1>1, <1>2, CtxInitType, OpenPacketKeeps
<1>4. backend_full \in BOOLEAN
  BY DEF Init
<1>5. /\ clock \in Nat
      /\ backend \in Seq(Packet)
      /\ pc \in Steps
      /\ er \in EventRecord
      /\ er_size \in Nat
      /\ fate \in Seq({"recorded", "discarded", "ignored"})
  BY DEF Init, Steps
<1> QED
  BY <1>3, <1>4, <1>5 DEF TypeOK

(* The platform stores packets.                                            *)
LEMMA StoresType ==
    ASSUME TypeOK, NEW closed \in CtxType, Stores(closed)
    PROVE  backend' \in Seq(Packet)
BY DEF TypeOK, Stores, CtxType

(* Every step keeps the state well formed.                                 *)
LEMMA NextType == TypeOK /\ [Next]_vars => TypeOK'
<1> SUFFICES ASSUME TypeOK, [Next]_vars PROVE TypeOK'
  OBVIOUS
<1> USE TracerAssumption
<1> DEFINE Fates == {"recorded", "discarded", "ignored"}
<1>0. /\ ctx \in CtxType
      /\ clock \in Nat
      /\ backend_full \in BOOLEAN
      /\ backend \in Seq(Packet)
      /\ pc \in Steps
      /\ er \in EventRecord
      /\ er_size \in Nat
      /\ fate \in Seq(Fates)
  BY DEF TypeOK
<1>a. ctx.at \in Nat
  BY <1>0 DEF CtxType
<1>b. ASSUME NEW c \in CtxType
      PROVE  LeaveSection(c) \in CtxType
  BY LeaveSectionFacts
<1>c. ASSUME NEW c \in CtxType, NEW size \in BufSizes
      PROVE  AfterClosing(c, size) \in CtxType
  BY AfterClosingFacts
<1>1. CASE SaveTimestamp
  <2>1. ctx' \in CtxType
    BY <1>0, <1>1 DEF SaveTimestamp, CtxType
  <2> QED
    BY <1>0, <1>1, <2>1 DEF SaveTimestamp, TypeOK, Steps
<1>2. CASE TracingEnabled
  BY <1>0, <1>2 DEF TracingEnabled, TypeOK, Steps
<1>3. CASE TracingDisabled
  BY <1>0, <1>3 DEF TracingDisabled, TypeOK, Steps
<1>4. CASE EnterSection
  <2>1. ctx' \in CtxType
    BY <1>0, <1>4 DEF EnterSection, CtxType
  <2>2. er_size' \in Nat
    BY <1>0, <1>a, <1>4, ErEndBound DEF EnterSection
  <2> QED
    BY <1>0, <1>4, <2>1, <2>2 DEF EnterSection, TypeOK, Steps, SectionSteps
<1>5. CASE NoSpace
  <2>1. ctx' \in CtxType
    BY <1>0, <1>5, <1>b, CountDiscardedFacts DEF NoSpace
  <2> QED
    BY <1>0, <1>5, <2>1 DEF NoSpace, TypeOK, Steps
<1>6. CASE OpenWhenFull
  <2>a. PICK off \in ContentOffsets : ctx' = OpenPacketForEvent(ctx, clock, off)
    BY <1>6 DEF OpenWhenFull
  <2>b. off \in Nat
    OBVIOUS
  <2>1. ctx' \in CtxType
    BY <1>0, <2>a, <2>b, OpenPacketForEventKeeps
  <2> QED
    BY <1>0, <1>6, <2>1 DEF OpenWhenFull, TypeOK, Steps, SectionSteps
<1>7. CASE UseCurrentPacket
  BY <1>0, <1>7 DEF UseCurrentPacket, TypeOK, Steps, SectionSteps
<1>8. CASE RecordFits
  BY <1>0, <1>8 DEF RecordFits, TypeOK, Steps, SectionSteps
<1>9. CASE CloseForSpace
  <2> DEFINE closed == ClosePacketForEvent(ctx, clock)
  <2>1. closed \in CtxType
    BY <1>0, ClosePacketForEventFacts
  <2>2. Stores(closed) /\ \E size \in BufSizes : ctx' = AfterClosing(closed, size)
    BY <1>9 DEF CloseForSpace
  <2> HIDE DEF closed
  <2>3. ctx' \in CtxType /\ backend' \in Seq(Packet)
    BY <2>1, <2>2, <1>c, StoresType
  <2> QED
    BY <1>0, <1>9, <2>3 DEF CloseForSpace, TypeOK, Steps, SectionSteps
<1>10. CASE OpenAfterClose
  <2>a. PICK off \in ContentOffsets : ctx' = OpenPacketForEvent(ctx, clock, off)
    BY <1>10 DEF OpenAfterClose
  <2>b. off \in Nat
    OBVIOUS
  <2>1. ctx' \in CtxType
    BY <1>0, <2>a, <2>b, OpenPacketForEventKeeps
  <2> QED
    BY <1>0, <1>10, <2>1 DEF OpenAfterClose, TypeOK, Steps, SectionSteps
<1>11. CASE SerializeEr
  <2>1. Call \in Nat
    BY <1>0 DEF Call
  <2>2. ctx' \in CtxType
    BY <1>0, <1>11, <2>1, SerializeFacts DEF SerializeEr
  <2> QED
    BY <1>0, <1>11, <2>2 DEF SerializeEr, TypeOK, Steps, SectionSteps
<1>12. CASE CommitEr
  BY <1>0, <1>12, <1>b DEF CommitEr, TypeOK, Steps
<1>13. CASE CommitFull
  <2> DEFINE closed == ClosePacket(ctx, clock)
  <2>1. closed \in CtxType
    BY <1>0, ClosePacketFacts
  <2>2. Stores(closed) /\ \E size \in BufSizes : ctx' = LeaveSection(AfterClosing(closed, size))
    BY <1>13 DEF CommitFull
  <2> HIDE DEF closed
  <2>3. ctx' \in CtxType /\ backend' \in Seq(Packet)
    BY <2>1, <2>2, <1>b, <1>c, StoresType
  <2> QED
    BY <1>0, <1>13, <2>3 DEF CommitFull, TypeOK, Steps
<1>14. CASE ReplacePacket
  <2> DEFINE closed == ClosePacket(ctx, clock)
  <2>1. closed \in CtxType
    BY <1>0, ClosePacketFacts
  <2>2. Stores(closed)
    BY <1>14 DEF ReplacePacket
  <2>3. PICK size \in BufSizes, off \in ContentOffsets :
            ctx' = OpenPacket(AfterClosing(closed, size), clock, off)
    BY <1>14 DEF ReplacePacket
  <2> HIDE DEF closed
  <2>4. AfterClosing(closed, size) \in CtxType
    BY <2>1, <1>c
  <2>5. ctx' \in CtxType /\ backend' \in Seq(Packet)
    BY <1>0, <2>1, <2>2, <2>3, <2>4, OpenPacketKeeps, StoresType
  <2> QED
    BY <1>0, <1>14, <2>5 DEF ReplacePacket, TypeOK
<1>15. CASE StartPacket
  <2>a. PICK off \in ContentOffsets : ctx' = OpenPacket(ctx, clock, off)
    BY <1>15 DEF StartPacket
  <2>1. ctx' \in CtxType
    BY <1>0, <2>a, OpenPacketKeeps
  <2> QED
    BY <1>0, <1>15, <2>1 DEF StartPacket, TypeOK
<1>16. CASE Fini
  <2>1. CASE UNCHANGED << ctx, backend >>
    BY <1>0, <1>16, <2>1 DEF Fini, TypeOK, Steps
  <2>2. CASE /\ Stores(ClosePacket(ctx, clock))
             /\ \E size \in BufSizes : ctx' = AfterClosing(ClosePacket(ctx, clock), size)
    <3>1. ClosePacket(ctx, clock) \in CtxType
      BY <1>0, ClosePacketFacts
    <3>2. ctx' \in CtxType /\ backend' \in Seq(Packet)
      BY <2>2, <3>1, <1>c, StoresType
    <3> QED
      BY <1>0, <1>16, <3>2 DEF Fini, TypeOK, Steps
  <2> QED
    BY <1>16, <2>1, <2>2 DEF Fini
<1>17. CASE SetTracing
  <2>1. ctx' \in CtxType
    BY <1>0, <1>17 DEF SetTracing, EnableTracing, CtxType
  <2> QED
    BY <1>0, <1>17, <2>1 DEF SetTracing, TypeOK
<1>18. CASE BackendChanges
  BY <1>0, <1>18 DEF BackendChanges, TypeOK
<1>19. CASE Tick \/ ClockSetBack
  BY <1>0, <1>19 DEF Tick, ClockSetBack, TypeOK
<1>20. CASE UNCHANGED vars
  BY <1>0, <1>20 DEF vars, TypeOK
<1> QED
  BY <1>1, <1>2, <1>3, <1>4, <1>5, <1>6, <1>7, <1>8, <1>9, <1>10, <1>11, <1>12, <1>13, <1>14,
     <1>15, <1>16, <1>17, <1>18, <1>19, <1>20
  DEF Next, TracingCallStep, Platform, Environment, DiscardOversized, DiscardWhenFull,
      DiscardAfterClose

(* Every variable keeps its type: in particular the size the tracing       *)
(* function computes is never negative, whatever the record's layout.      *)
THEOREM TypeCorrect == Spec => []TypeOK
<1>1. Init => TypeOK
  BY InitType
<1>2. TypeOK /\ [Next]_vars => TypeOK'
  BY NextType
<1> QED
  BY <1>1, <1>2, PTL DEF Spec

-----------------------------------------------------------------------------
(* The tracing section. *)

(* SectionFlag is inductive together with the type invariant and the facts *)
(* that the packet size is the one of a buffer and that nothing but the    *)
(* application disables tracing.                                           *)
SectionInv ==
    /\ TypeOK
    /\ SectionFlag
    /\ ctx.packet_size \in BufSizes
    /\ CanDisable \/ ctx.is_tracing_enabled

(* No tracing function is running when the platform has returned.          *)
LEMMA InitSection == Init => SectionInv
<1> SUFFICES ASSUME Init PROVE SectionInv
  OBVIOUS
<1> USE TracerAssumption
<1>1. PICK size \in BufSizes, g \in Garbage, off \in ContentOffsets :
        ctx = OpenPacket(CtxInit(size, g), 0, off)
  BY DEF Init
<1> DEFINE c == CtxInit(size, g)
<1>2. /\ c \in CtxType
      /\ c.in_tracing_section = FALSE
      /\ c.is_tracing_enabled = TRUE
      /\ c.packet_size = size
  BY CtxInitType DEF CtxInit
<1> HIDE DEF c
<1>3. /\ ctx.in_tracing_section = FALSE
      /\ ctx.is_tracing_enabled = TRUE
      /\ ctx.packet_size = size
  <2>1. 0 \in Nat /\ off \in Nat /\ ctx = OpenPacket(c, 0, off)
    BY <1>1 DEF c
  <2>2. /\ OpenPacket(c, 0, off).in_tracing_section = c.in_tracing_section
        /\ OpenPacket(c, 0, off).is_tracing_enabled = c.is_tracing_enabled
        /\ OpenPacket(c, 0, off).packet_size = c.packet_size
    BY ONLY <1>2, <2>1, OpenPacketKeeps
  <2> QED
    BY <1>2, <2>1, <2>2
<1>4. pc = "idle"
  BY DEF Init
<1> QED
  BY <1>3, <1>4, InitType DEF SectionInv, SectionFlag, SectionSteps

(* Every step keeps the flag in agreement with the control points.         *)
LEMMA NextSection == SectionInv /\ [Next]_vars => SectionInv'
<1> SUFFICES ASSUME SectionInv, [Next]_vars PROVE SectionInv'
  OBVIOUS
<1> USE TracerAssumption
<1> DEFINE Good == /\ SectionFlag'
                   /\ ctx'.packet_size \in BufSizes
                   /\ CanDisable \/ ctx'.is_tracing_enabled
<1>0. /\ ctx \in CtxType
      /\ clock \in Nat
      /\ er \in EventRecord
      /\ fate \in Seq({"recorded", "discarded", "ignored"})
      /\ ctx.in_tracing_section <=> pc \in SectionSteps
      /\ ctx.packet_size \in BufSizes
      /\ CanDisable \/ ctx.is_tracing_enabled
  BY DEF SectionInv, SectionFlag, TypeOK
<1>b. ASSUME NEW c \in CtxType
      PROVE  /\ LeaveSection(c).in_tracing_section = FALSE
             /\ LeaveSection(c).is_tracing_enabled = c.is_tracing_enabled
             /\ LeaveSection(c).packet_size = c.packet_size
  BY LeaveSectionFacts
<1>c. ASSUME NEW c \in CtxType, NEW size \in BufSizes
      PROVE  /\ AfterClosing(c, size) \in CtxType
             /\ AfterClosing(c, size).in_tracing_section = c.in_tracing_section
             /\ AfterClosing(c, size).is_tracing_enabled = c.is_tracing_enabled
             /\ AfterClosing(c, size).packet_size = size
  BY AfterClosingFacts
<1>d. /\ ClosePacket(ctx, clock) \in CtxType
      /\ ClosePacket(ctx, clock).in_tracing_section = ctx.in_tracing_section
      /\ ClosePacket(ctx, clock).is_tracing_enabled = ctx.is_tracing_enabled
  BY <1>0, ClosePacketFacts
<1>1. ASSUME SaveTimestamp PROVE Good
  <2>1. /\ ctx'.in_tracing_section = ctx.in_tracing_section
        /\ ctx'.is_tracing_enabled = ctx.is_tracing_enabled
        /\ ctx'.packet_size = ctx.packet_size
    BY <1>0, <1>1 DEF SaveTimestamp, CtxType
  <2> QED
    BY <1>0, <1>1, <2>1 DEF SaveTimestamp, SectionFlag, SectionSteps
<1>2. ASSUME TracingEnabled PROVE Good
  BY <1>0, <1>2 DEF TracingEnabled, SectionFlag, SectionSteps
<1>3. ASSUME TracingDisabled PROVE Good
  BY <1>0, <1>3 DEF TracingDisabled, SectionFlag, SectionSteps
<1>4. ASSUME EnterSection PROVE Good
  <2>1. /\ ctx'.in_tracing_section = TRUE
        /\ ctx'.is_tracing_enabled = ctx.is_tracing_enabled
        /\ ctx'.packet_size = ctx.packet_size
    BY <1>0, <1>4 DEF EnterSection, CtxType
  <2> QED
    BY <1>0, <1>4, <2>1 DEF EnterSection, SectionFlag, SectionSteps
<1>5. ASSUME NoSpace PROVE Good
  <2>1. /\ ctx'.in_tracing_section = FALSE
        /\ ctx'.is_tracing_enabled = ctx.is_tracing_enabled
        /\ ctx'.packet_size = ctx.packet_size
    BY <1>0, <1>5, <1>b, CountDiscardedFacts DEF NoSpace
  <2> QED
    BY <1>0, <1>5, <2>1 DEF NoSpace, SectionFlag, SectionSteps
<1>6. ASSUME OpenWhenFull PROVE Good
  <2>a. PICK off \in ContentOffsets : ctx' = OpenPacketForEvent(ctx, clock, off)
    BY <1>6 DEF OpenWhenFull
  <2>1. /\ ctx'.in_tracing_section = ctx.in_tracing_section
        /\ ctx'.is_tracing_enabled = ctx.is_tracing_enabled
        /\ ctx'.packet_size = ctx.packet_size
    BY <1>0, <2>a, OpenPacketForEventKeeps
  <2> QED
    BY <1>0, <1>6, <2>1 DEF OpenWhenFull, SectionFlag, SectionSteps
<1>7. ASSUME UseCurrentPacket PROVE Good
  BY <1>0, <1>7 DEF UseCurrentPacket, SectionFlag, SectionSteps
<1>8. ASSUME RecordFits PROVE Good
  BY <1>0, <1>8 DEF RecordFits, SectionFlag, SectionSteps
<1>9. ASSUME CloseForSpace PROVE Good
  <2>a. PICK size \in BufSizes : ctx' = AfterClosing(ClosePacketForEvent(ctx, clock), size)
    BY <1>9 DEF CloseForSpace
  <2>1. /\ ctx'.in_tracing_section = ctx.in_tracing_section
        /\ ctx'.is_tracing_enabled = ctx.is_tracing_enabled
        /\ ctx'.packet_size = size
    <3>1. /\ ClosePacketForEvent(ctx, clock) \in CtxType
          /\ ClosePacketForEvent(ctx, clock).in_tracing_section = ctx.in_tracing_section
          /\ ClosePacketForEvent(ctx, clock).is_tracing_enabled = ctx.is_tracing_enabled
      BY <1>0, ClosePacketForEventFacts
    <3> QED
      BY <1>c, <2>a, <3>1
  <2> QED
    BY <1>0, <1>9, <2>1 DEF CloseForSpace, SectionFlag, SectionSteps
<1>10. ASSUME OpenAfterClose PROVE Good
  <2>a. PICK off \in ContentOffsets : ctx' = OpenPacketForEvent(ctx, clock, off)
    BY <1>10 DEF OpenAfterClose
  <2>1. /\ ctx'.in_tracing_section = ctx.in_tracing_section
        /\ ctx'.is_tracing_enabled = ctx.is_tracing_enabled
        /\ ctx'.packet_size = ctx.packet_size
    BY <1>0, <2>a, OpenPacketForEventKeeps
  <2> QED
    BY <1>0, <1>10, <2>1 DEF OpenAfterClose, SectionFlag, SectionSteps
<1>11. ASSUME SerializeEr PROVE Good
  <2>1. /\ ctx'.in_tracing_section = ctx.in_tracing_section
        /\ ctx'.is_tracing_enabled = ctx.is_tracing_enabled
        /\ ctx'.packet_size = ctx.packet_size
    BY <1>0, <1>11, SerializeFacts DEF SerializeEr, Call
  <2> QED
    BY <1>0, <1>11, <2>1 DEF SerializeEr, SectionFlag, SectionSteps
<1>12. ASSUME CommitEr PROVE Good
  <2>1. /\ ctx'.in_tracing_section = FALSE
        /\ ctx'.is_tracing_enabled = ctx.is_tracing_enabled
        /\ ctx'.packet_size = ctx.packet_size
    BY <1>0, <1>12, <1>b DEF CommitEr
  <2> QED
    BY <1>0, <1>12, <2>1 DEF CommitEr, SectionFlag, SectionSteps
<1>13. ASSUME CommitFull PROVE Good
  <2>a. PICK size \in BufSizes : ctx' = LeaveSection(AfterClosing(ClosePacket(ctx, clock), size))
    BY <1>13 DEF CommitFull
  <2>1. /\ ctx'.in_tracing_section = FALSE
        /\ ctx'.is_tracing_enabled = ctx.is_tracing_enabled
        /\ ctx'.packet_size = size
    <3> DEFINE d == AfterClosing(ClosePacket(ctx, clock), size)
    <3>1. /\ d \in CtxType
          /\ d.is_tracing_enabled = ctx.is_tracing_enabled
          /\ d.packet_size = size
      BY <1>c, <1>d
    <3> HIDE DEF d
    <3>2. ctx' = LeaveSection(d)
      BY <2>a DEF d
    <3> QED
      BY <1>b, <3>1, <3>2
  <2> QED
    BY <1>0, <1>13, <2>1 DEF CommitFull, SectionFlag, SectionSteps
<1>14. ASSUME ReplacePacket PROVE Good
  <2>a. PICK size \in BufSizes, off \in ContentOffsets :
            ctx' = OpenPacket(AfterClosing(ClosePacket(ctx, clock), size), clock, off)
    BY <1>14 DEF ReplacePacket
  <2> DEFINE d == AfterClosing(ClosePacket(ctx, clock), size)
  <2>b. /\ d \in CtxType
        /\ d.in_tracing_section = ctx.in_tracing_section
        /\ d.is_tracing_enabled = ctx.is_tracing_enabled
        /\ d.packet_size = size
    BY <1>c, <1>d
  <2>c. ctx' = OpenPacket(d, clock, off) /\ off \in Nat
    BY <2>a
  <2> HIDE DEF d
  <2>1. /\ ctx'.in_tracing_section = ctx.in_tracing_section
        /\ ctx'.is_tracing_enabled = ctx.is_tracing_enabled
        /\ ctx'.packet_size = size
    <3>1. /\ OpenPacket(d, clock, off).in_tracing_section = d.in_tracing_section
          /\ OpenPacket(d, clock, off).is_tracing_enabled = d.is_tracing_enabled
          /\ OpenPacket(d, clock, off).packet_size = d.packet_size
      BY <1>0, <2>b, <2>c, OpenPacketKeeps
    <3> QED
      BY <2>b, <2>c, <3>1
  <2> QED
    BY <1>0, <1>14, <2>1 DEF ReplacePacket, SectionFlag
<1>15. ASSUME StartPacket PROVE Good
  <2>a. PICK off \in ContentOffsets : ctx' = OpenPacket(ctx, clock, off)
    BY <1>15 DEF StartPacket
  <2>1. /\ ctx'.in_tracing_section = ctx.in_tracing_section
        /\ ctx'.is_tracing_enabled = ctx.is_tracing_enabled
        /\ ctx'.packet_size = ctx.packet_size
    <3>1. off \in Nat
      OBVIOUS
    <3> QED
      BY <1>0, <2>a, <3>1, OpenPacketKeeps
  <2> QED
    BY <1>0, <1>15, <2>1 DEF StartPacket, SectionFlag
<1>16. ASSUME Fini PROVE Good
  <2>1. /\ ctx'.in_tracing_section = ctx.in_tracing_section
        /\ ctx'.is_tracing_enabled = ctx.is_tracing_enabled
        /\ ctx'.packet_size \in BufSizes
    <3>1. CASE ctx' = ctx
      BY <1>0, <3>1
    <3>2. CASE \E size \in BufSizes : ctx' = AfterClosing(ClosePacket(ctx, clock), size)
      BY <1>c, <1>d, <3>2
    <3> QED
      BY <1>16, <3>1, <3>2 DEF Fini
  <2> QED
    BY <1>0, <1>16, <2>1 DEF Fini, SectionFlag, SectionSteps
<1>17. ASSUME SetTracing PROVE Good
  <2>1. /\ ctx'.in_tracing_section = ctx.in_tracing_section
        /\ ctx'.packet_size = ctx.packet_size
    BY <1>0, <1>17 DEF SetTracing, EnableTracing, CtxType
  <2> QED
    BY <1>0, <1>17, <2>1 DEF SetTracing, SectionFlag
<1>18. ASSUME BackendChanges \/ Tick \/ ClockSetBack PROVE Good
  BY <1>0, <1>18 DEF BackendChanges, Tick, ClockSetBack, SectionFlag
<1>19. ASSUME UNCHANGED vars PROVE Good
  BY <1>0, <1>19 DEF vars, SectionFlag
<1>20. Good
  <2> HIDE DEF Good
  <2> QED
    BY <1>1, <1>2, <1>3, <1>4, <1>5, <1>6, <1>7, <1>8, <1>9, <1>10, <1>11, <1>12, <1>13,
       <1>14, <1>15, <1>16, <1>17, <1>18, <1>19
    DEF Next, TracingCallStep, Platform, Environment, DiscardOversized, DiscardWhenFull,
        DiscardAfterClose
<1>21. TypeOK'
  BY NextType DEF SectionInv
<1> QED
  BY <1>20, <1>21 DEF SectionInv

(* In every reachable state the flag agrees with the control points.       *)
LEMMA SectionInvariant == Spec => []SectionInv
<1>1. Init => SectionInv
  BY InitSection
<1>2. SectionInv /\ [Next]_vars => SectionInv'
  BY NextSection
<1> QED
  BY <1>1, <1>2, PTL DEF Spec

(* in_tracing_section is 1 exactly during the steps that reserve space,    *)
(* serialize and commit, however the callbacks return.                     *)
THEOREM SectionFlagCorrect == Spec => []SectionFlag
<1>1. SectionInv => SectionFlag
  BY DEF SectionInv
<1> QED
  BY <1>1, SectionInvariant, PTL

(* Only the steps of the call change the packet during its tracing         *)
(* section: no other step is a tracing function's, and a platform that     *)
(* tests the flag finds it set.                                            *)
THEOREM SectionExclusive == Spec => SectionIsExclusive
<1> DEFINE A == (pc \in SectionSteps /\ pc' = pc) =>
                    PacketState(ctx') = PacketState(ctx) /\ backend' = backend
<1>1. SectionInv /\ [Next]_vars => [A]_vars
  <2> SUFFICES ASSUME SectionInv, Next, pc \in SectionSteps, pc' = pc
               PROVE  PacketState(ctx') = PacketState(ctx) /\ backend' = backend
    OBVIOUS
  <2>0. ctx \in CtxType /\ ctx.in_tracing_section
    BY DEF SectionInv, SectionFlag, TypeOK
  <2>1. ~SaveTimestamp /\ ~TracingCallStep
    BY DEF SaveTimestamp, TracingCallStep, TracingEnabled, TracingDisabled, EnterSection,
           DiscardOversized, DiscardWhenFull, NoSpace, OpenWhenFull, UseCurrentPacket,
           RecordFits, CloseForSpace, DiscardAfterClose, OpenAfterClose, SerializeEr,
           CommitEr, CommitFull, SectionSteps
  <2>2. ~Platform
    BY <2>0 DEF Platform, ReplacePacket, StartPacket, Fini, MayStartPacket, SectionSteps
  <2>3. CASE SetTracing
    BY <2>0, <2>3 DEF SetTracing, EnableTracing, PacketState, CtxType
  <2>4. CASE BackendChanges \/ Tick \/ ClockSetBack
    BY <2>4 DEF BackendChanges, Tick, ClockSetBack
  <2> QED
    BY <2>1, <2>2, <2>3, <2>4 DEF Next, Environment
<1> QED
  BY <1>1, SectionInvariant, PTL DEF Spec, SectionIsExclusive

-----------------------------------------------------------------------------
(***************************************************************************)
(* Event records never pass the end of their packet, on two conditions     *)
(* about the configuration and the platform:                               *)
(*  - every event record that _reserve_er_space accepts at some offset     *)
(*    fits every empty packet (the size it tests is computed at the old    *)
(*    offset and may be too small for the packet it opens: the run         *)
(*    stale_size).  It is so when every record fits every empty packet,    *)
(*    and when sizes do not depend on offsets;                             *)
(*  - a platform that closes packets while tracing is disabled, when the   *)
(*    closing function does nothing, does not change the buffer size.      *)
(***************************************************************************)

(* The record fits every empty packet. *)
AlwaysFits(r) == \A off \in ContentOffsets, size \in BufSizes : ErEnd(off, r) <= size

EveryRecordFits == \A r \in EventRecords : AlwaysFits(r)

(* The header and context of a packet fit every buffer. *)
HeadersFit == \A off \in ContentOffsets, size \in BufSizes : off <= size

(* What the first test of _reserve_er_space accepts, computed at some      *)
(* offset for some packet, fits every empty packet.                        *)
AcceptedRecordsFit ==
    /\ HeadersFit
    /\ \A r \in EventRecords, at \in Nat, off \in ContentOffsets, size \in BufSizes :
        ErSize(at, r) <= Minus(size, off) => AlwaysFits(r)

SameSizeWhenDisabled == DisabledClose /\ CanDisable => \A s, t \in BufSizes : s = t

(* An open packet's offset is between its content offset and its end; a    *)
(* closed packet is full.                                                  *)
Bounded(c) ==
    /\ c.packet_size \in BufSizes
    /\ c.off_content \in ContentOffsets
    /\ c.packet_is_open => c.off_content <= c.at /\ c.at <= c.packet_size
    /\ ~c.packet_is_open => c.at = c.packet_size

(* What er_size stands for: the size at the current offset, unless the     *)
(* packet was opened since; then the record fits it.                       *)
Reserved ==
    /\ pc = "reserve" => er_size = ErSize(ctx.at, er)
    /\ pc \in {"fit", "closed"} => AlwaysFits(er)
    /\ pc = "fit" =>
        /\ ctx.packet_is_open
        /\ er_size = ErSize(ctx.at, er) \/ ErEnd(ctx.at, er) <= ctx.packet_size
    /\ pc = "closed" => ~ctx.packet_is_open
    /\ pc = "serialize" => ctx.packet_is_open /\ ErEnd(ctx.at, er) <= ctx.packet_size

SpaceInv ==
    /\ SectionInv
    /\ er \in EventRecords
    /\ Bounded(ctx)
    /\ Reserved

-----------------------------------------------------------------------------

(* The content of an empty packet starts inside it.                        *)
LEMMA ContentInside ==
    ASSUME HeadersFit, NEW off \in ContentOffsets, NEW size \in BufSizes
    PROVE  off \in Nat /\ size \in Nat /\ off <= size
BY TracerAssumption, CtxAssumption DEF HeadersFit

(* Opening a packet keeps the bounds.                                      *)
LEMMA OpenBounded ==
    ASSUME HeadersFit, NEW c \in CtxType, Bounded(c), NEW now \in Nat, NEW off \in ContentOffsets
    PROVE  Bounded(OpenPacket(c, now, off))
<1>1. off \in Nat /\ off <= c.packet_size
  BY ContentInside DEF Bounded
<1>2. CASE ~MayAlter(c) \/ c.packet_is_open
  <2>1. OpenPacket(c, now, off) = c
    BY <1>1, <1>2, OpenPacketRefuses
  <2> QED
    BY <2>1
<1>3. CASE MayAlter(c) /\ ~c.packet_is_open
  <2> DEFINE d == OpenPacket(c, now, off)
  <2>1. /\ d.packet_is_open
        /\ d.at = off
        /\ d.off_content = off
        /\ d.packet_size = c.packet_size
    BY <1>1, <1>3, OpenPacketOpens
  <2> HIDE DEF d
  <2>2. Bounded(d)
    BY <1>1, <1>3, <2>1 DEF Bounded
  <2> QED
    BY <2>2 DEF d
<1> QED
  BY <1>2, <1>3

(* Closing a packet and setting a buffer keeps the bounds, when the        *)
(* closing function may alter the packet or the buffer keeps its size.     *)
LEMMA CloseBounded ==
    ASSUME NEW c \in CtxType, Bounded(c), NEW d \in CtxType, NEW size \in BufSizes,
           d.off_content = c.off_content,
           \/ d.packet_is_open = c.packet_is_open /\ d.at = c.at /\ c.packet_size = size
              /\ d.packet_size = size
           \/ ~d.packet_is_open /\ d.at = d.packet_size
    PROVE  Bounded(AfterClosing(d, size))
<1> DEFINE e == AfterClosing(d, size)
<1>1. /\ e.packet_is_open = d.packet_is_open
      /\ e.off_content = d.off_content
      /\ e.packet_size = size
      /\ e.at = IF PacketIsFull(d) THEN size ELSE d.at
  BY AfterClosingFacts
<1> HIDE DEF e
<1>2. ASSUME d.packet_is_open = c.packet_is_open, d.at = c.at, c.packet_size = size,
             d.packet_size = size
      PROVE  Bounded(e)
  <2>1. e.at = c.at
    BY <1>1, <1>2 DEF PacketIsFull
  <2> QED
    BY <1>1, <1>2, <2>1 DEF Bounded
<1>3. ASSUME ~d.packet_is_open, d.at = d.packet_size
      PROVE  Bounded(e)
  BY <1>1, <1>3 DEF Bounded, PacketIsFull
<1> QED
  BY <1>2, <1>3 DEF e

(* Closing a packet of the current context on behalf of the platform.      *)
LEMMA PlatformCloseBounded ==
    ASSUME SameSizeWhenDisabled, SpaceInv, NEW size \in BufSizes,
           ctx.is_tracing_enabled \/ DisabledClose
    PROVE  /\ ClosePacket(ctx, clock) \in CtxType
           /\ Bounded(AfterClosing(ClosePacket(ctx, clock), size))
<1> DEFINE d == ClosePacket(ctx, clock)
<1>1. ctx \in CtxType /\ clock \in Nat /\ Bounded(ctx)
  BY DEF SpaceInv, SectionInv, TypeOK
<1>2. /\ d \in CtxType
      /\ d.off_content = ctx.off_content
      /\ d.packet_size = ctx.packet_size
      /\ ~MayAlter(ctx) \/ ~ctx.packet_is_open => d = ctx
      /\ MayAlter(ctx) /\ ctx.packet_is_open => ~d.packet_is_open /\ d.at = ctx.packet_size
  BY <1>1, ClosePacketFacts
<1> HIDE DEF d
<1>3. \/ d.packet_is_open = ctx.packet_is_open /\ d.at = ctx.at /\ ctx.packet_size = size
         /\ d.packet_size = size
      \/ ~d.packet_is_open /\ d.at = d.packet_size
  <2>1. CASE MayAlter(ctx) /\ ctx.packet_is_open
    BY <1>2, <2>1
  <2>2. CASE ~ctx.packet_is_open
    BY <1>1, <1>2, <2>2 DEF Bounded
  <2>3. CASE ~MayAlter(ctx)
    <3>1. DisabledClose /\ CanDisable
      BY <2>3 DEF MayAlter, SpaceInv, SectionInv
    <3>2. ctx.packet_size = size
      BY <1>1, <3>1 DEF SameSizeWhenDisabled, Bounded
    <3> QED
      BY <1>2, <2>3, <3>2
  <2> QED
    BY <2>1, <2>2, <2>3
<1>4. Bounded(AfterClosing(d, size))
  BY <1>1, <1>2, <1>3, CloseBounded
<1> QED
  BY <1>2, <1>4 DEF d

-----------------------------------------------------------------------------

(* The first packet is open and its header fits.                           *)
LEMMA InitSpace == ASSUME HeadersFit PROVE Init => SpaceInv
<1> SUFFICES ASSUME Init PROVE SpaceInv
  OBVIOUS
<1>1. PICK size \in BufSizes, g \in Garbage, off \in ContentOffsets :
        ctx = OpenPacket(CtxInit(size, g), 0, off)
  BY DEF Init
<1> DEFINE c == CtxInit(size, g)
<1>2. er \in EventRecords /\ pc = "idle"
  BY DEF Init
<1>3. off \in Nat /\ size \in Nat /\ g \in Nat /\ off <= size
  BY <1>2, ContentInside, TracerAssumption
<1>4. c \in CtxType /\ MayAlter(c) /\ ~c.packet_is_open /\ c.packet_size = size
  BY <1>3, CtxInitType DEF CtxInit, MayAlter
<1> HIDE DEF c
<1>5. /\ OpenPacket(c, 0, off).packet_is_open
      /\ OpenPacket(c, 0, off).at = off
      /\ OpenPacket(c, 0, off).off_content = off
      /\ OpenPacket(c, 0, off).packet_size = size
  BY <1>3, <1>4, OpenPacketOpens
<1>6. Bounded(ctx)
  BY <1>1, <1>3, <1>5 DEF Bounded, c
<1> QED
  BY <1>2, <1>6, InitSection DEF SpaceInv, Reserved

(* Every step keeps the records within their packets: a tracing function   *)
(* reserves the room and the callbacks between the reservation and the     *)
(* write do not take it away.                                              *)
LEMMA NextSpace ==
    ASSUME AcceptedRecordsFit, SameSizeWhenDisabled
    PROVE  SpaceInv /\ [Next]_vars => SpaceInv'
<1> SUFFICES ASSUME SpaceInv, [Next]_vars PROVE SpaceInv'
  OBVIOUS
<1> DEFINE Good == er' \in EventRecords /\ Bounded(ctx') /\ Reserved'
           OutsideSection == pc' \notin SectionSteps
<1>0. /\ ctx \in CtxType
      /\ clock \in Nat
      /\ er \in EventRecord
      /\ er \in EventRecords
      /\ er_size \in Nat
      /\ fate \in Seq({"recorded", "discarded", "ignored"})
      /\ ctx.in_tracing_section <=> pc \in SectionSteps
      /\ Bounded(ctx)
      /\ Reserved
  BY DEF SpaceInv, SectionInv, SectionFlag, TypeOK
<1>a. /\ ctx.at \in Nat
      /\ ctx.packet_size \in Nat
      /\ ctx.packet_size < Word
      /\ ctx.off_content \in Nat
  BY <1>0, TracerAssumption, CtxAssumption DEF CtxType, Bounded
<1>b. ErEnd(ctx.at, er) \in Nat /\ ctx.at + ErSize(ctx.at, er) = ErEnd(ctx.at, er)
  BY <1>0, <1>a, ErEndBound
<1>d. HeadersFit
  BY DEF AcceptedRecordsFit
<1>c. OutsideSection => Reserved'
  BY DEF Reserved, SectionSteps
<1>1. ASSUME SaveTimestamp PROVE Good
  <2>1. Bounded(ctx')
    BY <1>0, <1>1 DEF SaveTimestamp, Bounded, CtxType
  <2>2. OutsideSection
    BY <1>1 DEF SaveTimestamp, SectionSteps
  <2> QED
    BY <1>1, <1>c, <2>1, <2>2 DEF SaveTimestamp
<1>2. ASSUME TracingEnabled \/ TracingDisabled PROVE Good
  BY <1>0, <1>2, <1>c DEF TracingEnabled, TracingDisabled, SectionSteps
<1>4. ASSUME EnterSection PROVE Good
  <2>1. Bounded(ctx') /\ ctx'.at = ctx.at
    BY <1>0, <1>4 DEF EnterSection, Bounded, CtxType
  <2> QED
    BY <1>0, <1>4, <2>1 DEF EnterSection, Reserved
<1>5. ASSUME NoSpace PROVE Good
  <2> DEFINE d == CountDiscarded(ctx)
  <2>1. /\ d \in CtxType
        /\ d.at = ctx.at
        /\ d.packet_size = ctx.packet_size
        /\ d.off_content = ctx.off_content
        /\ d.packet_is_open = ctx.packet_is_open
    BY <1>0, CountDiscardedFacts
  <2>2. ctx' = LeaveSection(d)
    BY <1>5 DEF NoSpace
  <2> HIDE DEF d
  <2>3. /\ LeaveSection(d).packet_is_open = d.packet_is_open
        /\ LeaveSection(d).off_content = d.off_content
        /\ LeaveSection(d).packet_size = d.packet_size
        /\ LeaveSection(d).at = d.at
    BY <2>1, LeaveSectionFacts
  <2>4. Bounded(ctx')
    BY <1>0, <2>1, <2>2, <2>3 DEF Bounded
  <2> QED
    BY <1>0, <1>5, <1>c, <2>4 DEF NoSpace, SectionSteps
<1>e. ASSUME pc = "reserve", ~CannotFit(ctx, er_size) PROVE AlwaysFits(er)
  <2>1. Minus(ctx.packet_size, ctx.off_content) \in Nat
    BY <1>a, CtxAssumption DEF Minus
  <2>2. ErSize(ctx.at, er) <= Minus(ctx.packet_size, ctx.off_content)
    BY <1>0, <1>e, <2>1 DEF CannotFit, Reserved
  <2> QED
    BY <1>0, <1>a, <2>2 DEF AcceptedRecordsFit, Bounded
<1>6. ASSUME OpenWhenFull PROVE Good
  <2>1. PICK off \in ContentOffsets : ctx' = OpenPacketForEvent(ctx, clock, off)
    BY <1>6 DEF OpenWhenFull
  <2>2. MayAlter(ctx) /\ pc' = "fit" /\ er' = er /\ er_size' = er_size
    BY <1>0, <1>6 DEF OpenWhenFull, MayAlter, SectionSteps
  <2>3. /\ off \in Nat /\ off <= ctx.packet_size
        /\ AlwaysFits(er) /\ ErEnd(off, er) <= ctx.packet_size
    BY <1>0, <1>d, <1>e, <1>6, ContentInside DEF OpenWhenFull, Bounded, AlwaysFits
  <2>4. CASE ctx.packet_is_open
    <3>1. ctx'.packet_is_open /\ ctx'.at = ctx.at /\ ctx'.off_content = ctx.off_content
          /\ ctx'.packet_size = ctx.packet_size
      BY <1>0, <2>1, <2>3, <2>4, OpenPacketForEventRefuses
    <3>2. er_size = ErSize(ctx.at, er)
      BY <1>0, <1>6 DEF OpenWhenFull, Reserved
    <3> QED
      BY <1>0, <2>2, <2>3, <2>4, <3>1, <3>2 DEF Bounded, Reserved
  <2>5. CASE ~ctx.packet_is_open
    <3>1. ctx'.packet_is_open /\ ctx'.at = off /\ ctx'.off_content = off
          /\ ctx'.packet_size = ctx.packet_size
      BY <1>0, <2>1, <2>2, <2>3, <2>5, OpenPacketForEventOpens
    <3> QED
      BY <1>0, <2>2, <2>3, <3>1 DEF Bounded, Reserved
  <2> QED
    BY <2>4, <2>5
<1>7. ASSUME UseCurrentPacket PROVE Good
  <2>1. ctx.packet_is_open
    BY <1>0, <1>7 DEF UseCurrentPacket, Bounded, PacketIsFull
  <2> QED
    BY <1>0, <1>e, <1>7, <2>1 DEF UseCurrentPacket, Reserved
<1>8. ASSUME RecordFits PROVE Good
  <2>1. ErEnd(ctx.at, er) <= ctx.packet_size /\ ctx.packet_is_open
    <3>1. ctx.packet_is_open /\ ctx.at <= ctx.packet_size
      BY <1>0, <1>8 DEF RecordFits, Reserved, Bounded
    <3>2. Minus(ctx.packet_size, ctx.at) = ctx.packet_size - ctx.at
      <4>1. ctx.packet_size - ctx.at < Word /\ ctx.packet_size \in Int /\ ctx.at \in Int
        BY <1>a, CtxAssumption
      <4> QED
        BY <3>1, <4>1, MinusFacts
    <3>3. CASE er_size = ErSize(ctx.at, er)
      BY <1>0, <1>a, <1>b, <1>8, <3>1, <3>2, <3>3 DEF RecordFits, DoesNotFit
    <3> QED
      BY <1>0, <1>8, <3>1, <3>3 DEF RecordFits, Reserved
  <2> QED
    BY <1>0, <1>8, <2>1 DEF RecordFits, Reserved
<1>9. ASSUME CloseForSpace PROVE Good
  <2> DEFINE d == ClosePacketForEvent(ctx, clock)
  <2>1. PICK size \in BufSizes : ctx' = AfterClosing(d, size)
    BY <1>9 DEF CloseForSpace
  <2>2. MayAlter(ctx) /\ ctx.packet_is_open /\ pc' = "closed" /\ er' = er
    BY <1>0, <1>9 DEF CloseForSpace, MayAlter, SectionSteps, Reserved
  <2>3. /\ d \in CtxType
        /\ d.off_content = ctx.off_content
        /\ d.packet_size = ctx.packet_size
        /\ ~d.packet_is_open /\ d.at = ctx.packet_size
    BY <1>0, <2>2, ClosePacketForEventFacts
  <2> HIDE DEF d
  <2>4. Bounded(ctx')
    BY <1>0, <2>1, <2>3, CloseBounded
  <2>5. ~ctx'.packet_is_open
    BY <2>1, <2>3, AfterClosingFacts
  <2>6. AlwaysFits(er)
    BY <1>0, <1>9 DEF CloseForSpace, Reserved
  <2> QED
    BY <1>0, <2>2, <2>4, <2>5, <2>6 DEF Reserved
<1>10. ASSUME OpenAfterClose PROVE Good
  <2>1. PICK off \in ContentOffsets : ctx' = OpenPacketForEvent(ctx, clock, off)
    BY <1>10 DEF OpenAfterClose
  <2>2. MayAlter(ctx) /\ ~ctx.packet_is_open /\ pc' = "serialize" /\ er' = er
    BY <1>0, <1>10 DEF OpenAfterClose, MayAlter, SectionSteps, Reserved
  <2>3. off \in Nat /\ off <= ctx.packet_size /\ ErEnd(off, er) <= ctx.packet_size
    BY <1>0, <1>d, <1>10, ContentInside DEF OpenAfterClose, Bounded, Reserved, AlwaysFits
  <2>4. ctx'.packet_is_open /\ ctx'.at = off /\ ctx'.off_content = off
        /\ ctx'.packet_size = ctx.packet_size
    BY <1>0, <2>1, <2>2, <2>3, OpenPacketForEventOpens
  <2> QED
    BY <1>0, <2>2, <2>3, <2>4 DEF Bounded, Reserved
<1>11. ASSUME SerializeEr PROVE Good
  <2>1. /\ ctx'.at = ErEnd(ctx.at, er)
        /\ ctx'.packet_size = ctx.packet_size
        /\ ctx'.off_content = ctx.off_content
        /\ ctx'.packet_is_open = ctx.packet_is_open
    BY <1>0, <1>11, SerializeFacts DEF SerializeEr, Call
  <2>2. ctx.packet_is_open /\ ErEnd(ctx.at, er) <= ctx.packet_size /\ ctx.at <= ErEnd(ctx.at, er)
    BY <1>0, <1>a, <1>11, ErEndBound DEF SerializeEr, Reserved
  <2>3. Bounded(ctx')
    BY <1>0, <1>a, <1>b, <2>1, <2>2 DEF Bounded
  <2> QED
    BY <1>0, <1>11, <2>3 DEF SerializeEr, Reserved
<1>12. ASSUME CommitEr PROVE Good
  <2>1. Bounded(ctx')
    BY <1>0, <1>12, LeaveSectionFacts DEF CommitEr, Bounded
  <2> QED
    BY <1>0, <1>c, <1>12, <2>1 DEF CommitEr, SectionSteps
<1>13. ASSUME CommitFull PROVE Good
  <2> DEFINE d == ClosePacket(ctx, clock)
  <2>1. PICK size \in BufSizes : ctx' = LeaveSection(AfterClosing(d, size))
    BY <1>13 DEF CommitFull
  <2>2. MayAlter(ctx) /\ ctx.at = ctx.packet_size
    BY <1>0, <1>13 DEF CommitFull, MayAlter, SectionSteps, PacketIsFull
  <2>3. /\ d \in CtxType
        /\ d.off_content = ctx.off_content
        /\ ~d.packet_is_open /\ d.at = d.packet_size
    BY <1>0, <2>2, ClosePacketFacts
  <2> HIDE DEF d
  <2>4. Bounded(AfterClosing(d, size)) /\ AfterClosing(d, size) \in CtxType
    BY <1>0, <2>3, CloseBounded, AfterClosingFacts
  <2>5. Bounded(ctx')
    BY <2>1, <2>4, LeaveSectionFacts DEF Bounded
  <2> QED
    BY <1>0, <1>c, <1>13, <2>5 DEF CommitFull, SectionSteps
<1>14. ASSUME ReplacePacket PROVE Good
  <2> DEFINE d == ClosePacket(ctx, clock)
  <2>1. PICK size \in BufSizes, off \in ContentOffsets :
            ctx' = OpenPacket(AfterClosing(d, size), clock, off)
    BY <1>14 DEF ReplacePacket
  <2>2. ctx.is_tracing_enabled \/ DisabledClose
    BY <1>14 DEF ReplacePacket, MayStartPacket
  <2>3. d \in CtxType /\ Bounded(AfterClosing(d, size))
    BY <2>2, PlatformCloseBounded
  <2> HIDE DEF d
  <2>4. Bounded(ctx')
    BY <1>0, <1>d, <2>1, <2>3, AfterClosingFacts, OpenBounded
  <2>5. OutsideSection
    BY <1>0, <1>14 DEF ReplacePacket, MayStartPacket
  <2> QED
    BY <1>0, <1>c, <1>14, <2>4, <2>5 DEF ReplacePacket
<1>15. ASSUME StartPacket PROVE Good
  <2>1. Bounded(ctx')
    BY <1>0, <1>d, <1>15, OpenBounded DEF StartPacket
  <2>2. OutsideSection
    BY <1>0, <1>15 DEF StartPacket, MayStartPacket
  <2> QED
    BY <1>0, <1>c, <1>15, <2>1, <2>2 DEF StartPacket
<1>16. ASSUME Fini PROVE Good
  <2>1. Bounded(ctx')
    <3>1. CASE ctx' = ctx
      BY <1>0, <3>1
    <3>2. CASE \E size \in BufSizes : ctx' = AfterClosing(ClosePacket(ctx, clock), size)
      BY <1>16, <3>2, PlatformCloseBounded DEF Fini
    <3> QED
      BY <1>16, <3>1, <3>2 DEF Fini
  <2>2. OutsideSection
    BY <1>16 DEF Fini, SectionSteps
  <2> QED
    BY <1>0, <1>c, <1>16, <2>1, <2>2 DEF Fini
<1>17. ASSUME SetTracing PROVE Good
  <2>1. /\ ctx'.at = ctx.at
        /\ ctx'.packet_size = ctx.packet_size
        /\ ctx'.off_content = ctx.off_content
        /\ ctx'.packet_is_open = ctx.packet_is_open
    BY <1>0, <1>17 DEF SetTracing, EnableTracing, CtxType
  <2>2. er' = er /\ pc' = pc /\ er_size' = er_size
    BY <1>17 DEF SetTracing
  <2> QED
    BY <1>0, <2>1, <2>2 DEF Bounded, Reserved
<1>18. ASSUME BackendChanges \/ Tick \/ ClockSetBack PROVE Good
  BY <1>0, <1>18 DEF BackendChanges, Tick, ClockSetBack, Reserved
<1>19. ASSUME UNCHANGED vars PROVE Good
  BY <1>0, <1>19 DEF vars, Reserved
<1>20. Good
  <2> HIDE DEF Good
  <2> QED
    BY <1>1, <1>2, <1>4, <1>5, <1>6, <1>7, <1>8, <1>9, <1>10, <1>11, <1>12, <1>13,
       <1>14, <1>15, <1>16, <1>17, <1>18, <1>19
    DEF Next, TracingCallStep, Platform, Environment, DiscardOversized, DiscardWhenFull,
        DiscardAfterClose
<1>21. SectionInv'
  BY NextSection DEF SpaceInv
<1> QED
  BY <1>20, <1>21 DEF SpaceInv

-----------------------------------------------------------------------------
(* Packed records. *)

(* Every part of a record is a number of units, and no alignment is more   *)
(* than a unit: the parts of a record that starts at a multiple of unit    *)
(* follow each other without padding.  A byte-packed configuration is so   *)
(* with a unit of 8 bits.                                                  *)
PackedPart(unit, part) == unit % part.align = 0 /\ part.size % unit = 0

Packed(unit, r) ==
    /\ PackedPart(unit, r.header)
    /\ PackedPart(unit, r.common_ctx)
    /\ PackedPart(unit, r.specific_ctx)
    /\ PackedPart(unit, r.payload)

(* The size of a packed record. *)
TotalSize(r) == r.header.size + r.common_ctx.size + r.specific_ctx.size + r.payload.size

(* A part of packed parts needs no padding where the unit divides the      *)
(* position.                                                               *)
LEMMA PutPacked ==
    ASSUME NEW unit \in Nat \ {0}, NEW at \in Nat, at % unit = 0,
           NEW part \in Part, PackedPart(unit, part)
    PROVE  Put(at, part) = at + part.size /\ (at + part.size) % unit = 0
<1> DEFINE m == part.align
<1>1. m \in Nat \ {0} /\ part.size \in Nat /\ unit % m = 0 /\ part.size % unit = 0
  BY DEF Part, PackedPart
<1>2. AlignUp(at, m) = at
  <2> HIDE DEF m
  <2>1. (at % unit) % m = at % m
    BY <1>1, ModOfMod
  <2>2. 0 % m = 0
    BY <1>1
  <2>3. at % m = 0
    BY <2>1, <2>2
  <2>4. (-at) % m = 0
    <3> DEFINE q == at \div m
    <3>1. q \in Int /\ at = m * q + 0
      BY <1>1, <2>3
    <3> HIDE DEF q
    <3>2. -at = m * (-q) + 0 /\ -q \in Int
      BY <1>1, <3>1
    <3>3. (m * (-q) + 0) % m = 0
      BY <1>1, <3>2, ModSplit
    <3> QED
      BY <3>2, <3>3
  <2> QED
    BY <2>4 DEF AlignUp
<1>3. (at + part.size) % unit = 0
  <2> DEFINE s == part.size
             q == at \div unit
             k == s \div unit
  <2>1. q \in Int /\ at = unit * q
    OBVIOUS
  <2>2. k \in Int /\ s = unit * k
    <3>1. s \in Nat /\ s % unit = 0
      BY <1>1
    <3> HIDE DEF s
    <3> QED
      BY <3>1
  <2> HIDE DEF s, q, k
  <2>3. at + s = unit * (q + k) + 0 /\ q + k \in Int
    BY <2>1, <2>2
  <2>4. (unit * (q + k) + 0) % unit = 0
    BY <2>3, ModSplit
  <2> QED
    BY <2>3, <2>4 DEF s
<1> QED
  BY <1>1, <1>2, <1>3 DEF Put

(* A packed record that starts at a multiple of the unit takes its total   *)
(* size and ends at such an offset.                                        *)
LEMMA PackedSize ==
    ASSUME NEW unit \in Nat \ {0}, NEW at \in Nat, at % unit = 0,
           NEW r \in EventRecord, Packed(unit, r)
    PROVE  /\ ErEnd(at, r) = at + TotalSize(r)
           /\ ErEnd(at, r) % unit = 0
           /\ ErSize(at, r) = TotalSize(r)
           /\ TotalSize(r) \in Nat
<1> DEFINE a == at + r.header.size
           b == a + r.common_ctx.size
           c == b + r.specific_ctx.size
           d == c + r.payload.size
<1>0. /\ r.header \in Part /\ r.common_ctx \in Part
      /\ r.specific_ctx \in Part /\ r.payload \in Part
      /\ r.header.size \in Nat /\ r.common_ctx.size \in Nat
      /\ r.specific_ctx.size \in Nat /\ r.payload.size \in Nat
  BY DEF EventRecord, Part
<1>1. a \in Nat /\ b \in Nat /\ c \in Nat /\ d \in Nat
  BY <1>0
<1>2. d = at + TotalSize(r) /\ TotalSize(r) \in Nat
  BY <1>0 DEF TotalSize
<1>3. Put(at, r.header) = a /\ a % unit = 0
  BY <1>0, PutPacked DEF Packed
<1> HIDE DEF a
<1>4. Put(a, r.common_ctx) = b /\ b % unit = 0
  BY <1>0, <1>1, <1>3, PutPacked DEF Packed
<1> HIDE DEF b
<1>5. Put(b, r.specific_ctx) = c /\ c % unit = 0
  BY <1>0, <1>1, <1>4, PutPacked DEF Packed
<1> HIDE DEF c
<1>6. Put(c, r.payload) = d /\ d % unit = 0
  BY <1>0, <1>1, <1>5, PutPacked DEF Packed
<1> HIDE DEF d
<1>7. ErEnd(at, r) = d
  BY <1>3, <1>4, <1>5, <1>6 DEF ErEnd
<1> QED
  BY <1>1, <1>2, <1>6, <1>7 DEF ErSize

(* From any other offset a record takes no less. *)
LEMMA SizeAtLeastTotal ==
    ASSUME NEW at \in Nat, NEW r \in EventRecord
    PROVE  TotalSize(r) \in Nat /\ TotalSize(r) <= ErSize(at, r)
<1> DEFINE a == Put(at, r.header)
           b == Put(a, r.common_ctx)
           c == Put(b, r.specific_ctx)
           d == Put(c, r.payload)
<1>0. /\ r.header \in Part /\ r.common_ctx \in Part
      /\ r.specific_ctx \in Part /\ r.payload \in Part
      /\ r.header.size \in Nat /\ r.common_ctx.size \in Nat
      /\ r.specific_ctx.size \in Nat /\ r.payload.size \in Nat
  BY DEF EventRecord, Part
<1>1. ASSUME NEW x \in Nat, NEW part \in Part PROVE Put(x, part) \in Nat /\ x + part.size <= Put(x, part)
  <2>1. part.align \in Nat \ {0} /\ part.size \in Nat
    BY DEF Part
  <2>2. AlignUp(x, part.align) \in Nat /\ x <= AlignUp(x, part.align)
    BY <2>1, AlignUpBound
  <2> QED
    BY <2>1, <2>2 DEF Put
<1>2. a \in Nat /\ at + r.header.size <= a
  BY <1>0, <1>1
<1> HIDE DEF a
<1>3. b \in Nat /\ a + r.common_ctx.size <= b
  BY <1>0, <1>1, <1>2
<1> HIDE DEF b
<1>4. c \in Nat /\ b + r.specific_ctx.size <= c
  BY <1>0, <1>1, <1>3
<1> HIDE DEF c
<1>5. d \in Nat /\ c + r.payload.size <= d
  BY <1>0, <1>1, <1>4
<1>6. ErEnd(at, r) = d
  BY DEF ErEnd, a, b, c
<1> HIDE DEF d
<1> QED
  BY <1>0, <1>2, <1>3, <1>4, <1>5, <1>6 DEF ErSize, TotalSize

(* The size that is tested is right in two configurations: when every      *)
(* record fits every empty packet, and when records are packed, buffers    *)
(* have one size and the content of every packet starts at the same offset.*)
LEMMA EveryRecordFitsIsEnough ==
    ASSUME EveryRecordFits, EventRecords # {}
    PROVE  AcceptedRecordsFit
<1>1. HeadersFit
  <2> SUFFICES ASSUME NEW off \in ContentOffsets, NEW size \in BufSizes PROVE off <= size
    BY DEF HeadersFit
  <2>1. PICK r \in EventRecords : TRUE
    OBVIOUS
  <2>2. off \in Nat /\ size \in Nat /\ r \in EventRecord
    BY TracerAssumption, CtxAssumption
  <2>3. off <= ErEnd(off, r) /\ ErEnd(off, r) \in Nat
    BY <2>2, ErEndBound
  <2>4. ErEnd(off, r) <= size
    BY DEF EveryRecordFits, AlwaysFits
  <2> QED
    BY <2>2, <2>3, <2>4
<1> QED
  BY <1>1 DEF AcceptedRecordsFit, EveryRecordFits

(* Packed records, and only one buffer size and one offset of the content, *)
(* are enough for what the reservation accepts to fit wherever it is       *)
(* written.                                                                *)
LEMMA PackingIsEnough ==
    ASSUME HeadersFit,
           NEW unit \in Nat \ {0}, \A r \in EventRecords : Packed(unit, r),
           \A off \in ContentOffsets : off % unit = 0,
           \A s, t \in BufSizes : s = t, \A s, t \in ContentOffsets : s = t
    PROVE  AcceptedRecordsFit
<1> SUFFICES ASSUME NEW r \in EventRecords, NEW at \in Nat,
                    NEW off \in ContentOffsets, NEW size \in BufSizes,
                    ErSize(at, r) <= Minus(size, off)
             PROVE  ErEnd(off, r) <= size
  <2>1. ASSUME NEW r \in EventRecords, NEW at \in Nat,
               NEW off \in ContentOffsets, NEW size \in BufSizes,
               ErEnd(off, r) <= size
        PROVE  AlwaysFits(r)
    BY <2>1 DEF AlwaysFits
  <2> QED
    BY <2>1 DEF AcceptedRecordsFit
<1>1. /\ off \in Nat /\ size \in Nat /\ size < Word /\ off <= size
      /\ r \in EventRecord /\ off % unit = 0
  BY TracerAssumption, CtxAssumption DEF HeadersFit
<1>2. Minus(size, off) = size - off
  <2>1. size \in Int /\ off \in Int /\ size - off < Word
    BY <1>1, CtxAssumption
  <2> QED
    BY <1>1, <2>1, MinusFacts
<1>3. ErEnd(off, r) = off + TotalSize(r)
  BY <1>1, PackedSize
<1>4. TotalSize(r) \in Nat /\ TotalSize(r) <= ErSize(at, r) /\ ErSize(at, r) \in Nat
  BY <1>1, SizeAtLeastTotal, ErEndBound
<1> QED
  BY <1>1, <1>2, <1>3, <1>4

-----------------------------------------------------------------------------

(* Nothing is written past the end of a packet and the assertion about the *)
(* reserved space is justified: when every accepted record fits every      *)
(* empty packet, _reserve_er_space works although it compares the space    *)
(* left in a new packet with the size the record had in the old one.       *)
THEOREM RecordsStayInside ==
    ASSUME AcceptedRecordsFit, SameSizeWhenDisabled
    PROVE  Spec => []InsidePacket
<1>1. Init => SpaceInv
  BY InitSpace DEF AcceptedRecordsFit
<1>2. SpaceInv /\ [Next]_vars => SpaceInv'
  BY NextSpace
<1>3. SpaceInv => InsidePacket
  BY DEF SpaceInv, Bounded, Reserved, InsidePacket
<1> QED
  BY <1>1, <1>2, <1>3, PTL DEF Spec

-----------------------------------------------------------------------------
(* Disabled tracing. *)

(* Setting a buffer of the same size changes nothing.                      *)
LEMMA SameBufferKeepsPacket ==
    ASSUME NEW c \in CtxType
    PROVE  PacketState(AfterClosing(c, c.packet_size)) = PacketState(c)
BY DEF AfterClosing, PacketSetBuf, PacketIsFull, PacketState, CtxType

(* Disabled tracing freezes the packet outside tracing sections: the       *)
(* opening and closing functions return early, and a platform that calls   *)
(* them anyway sets a buffer of the same size.                             *)
THEOREM DisabledIsFrozen ==
    ASSUME SameSizeWhenDisabled
    PROVE  Spec => FrozenWhileDisabled
<1> DEFINE Off == ~ctx.is_tracing_enabled /\ ~ctx.in_tracing_section
           Same == PacketState(ctx') = PacketState(ctx)
<1>1. SectionInv /\ [Next]_vars => [Off => Same]_vars
  <2> SUFFICES ASSUME SectionInv, Next, Off PROVE Same
    OBVIOUS
  <2>0. /\ ctx \in CtxType
        /\ clock \in Nat
        /\ pc \notin SectionSteps
        /\ ctx.packet_size \in BufSizes
        /\ ~MayAlter(ctx)
        /\ CanDisable
    BY DEF SectionInv, SectionFlag, TypeOK, MayAlter
  <2>1. ASSUME SaveTimestamp \/ TracingCallStep PROVE Same
    <3>1. SaveTimestamp \/ TracingEnabled \/ TracingDisabled \/ EnterSection
      BY <2>0, <2>1 DEF TracingCallStep, DiscardOversized, DiscardWhenFull, OpenWhenFull,
             UseCurrentPacket, RecordFits, CloseForSpace, DiscardAfterClose, OpenAfterClose,
             SerializeEr, CommitEr, CommitFull, SectionSteps
    <3> QED
      BY <2>0, <3>1 DEF SaveTimestamp, TracingEnabled, TracingDisabled, EnterSection,
             PacketState, CtxType
  <2>2. ClosePacket(ctx, clock) = ctx
    BY <2>0, ClosePacketFacts
  <2>3. ASSUME NEW size \in BufSizes, ctx.is_tracing_enabled \/ DisabledClose
        PROVE  PacketState(AfterClosing(ctx, size)) = PacketState(ctx)
    <3>1. size = ctx.packet_size
      BY <2>0, <2>3 DEF SameSizeWhenDisabled
    <3> QED
      BY <2>0, <3>1, SameBufferKeepsPacket
  <2>4. ASSUME NEW c \in CtxType, ~MayAlter(c), NEW off \in ContentOffsets
        PROVE  OpenPacket(c, clock, off) = c
    BY <2>0, <2>4 DEF OpenPacket
  <2>5. ASSUME ReplacePacket PROVE Same
    <3>1. PICK size \in BufSizes, off \in ContentOffsets :
              ctx' = OpenPacket(AfterClosing(ctx, size), clock, off)
      BY <2>2, <2>5 DEF ReplacePacket
    <3> DEFINE d == AfterClosing(ctx, size)
    <3>2. d \in CtxType /\ ~MayAlter(d)
      BY <2>0, AfterClosingFacts DEF MayAlter
    <3>3. PacketState(d) = PacketState(ctx)
      BY <2>3, <2>5 DEF ReplacePacket, MayStartPacket
    <3> HIDE DEF d
    <3>4. ctx' = d
      BY <2>4, <3>1, <3>2 DEF d
    <3> QED
      BY <3>3, <3>4
  <2>6. ASSUME StartPacket PROVE Same
    BY <2>0, <2>4, <2>6 DEF StartPacket
  <2>7. ASSUME Fini PROVE Same
    BY <2>2, <2>3, <2>7 DEF Fini
  <2>8. ASSUME Environment PROVE Same
    <3>1. CASE SetTracing
      BY <2>0, <3>1 DEF SetTracing, EnableTracing, PacketState, CtxType
    <3>2. CASE BackendChanges \/ Tick \/ ClockSetBack
      BY <3>2 DEF BackendChanges, Tick, ClockSetBack
    <3> QED
      BY <2>8, <3>1, <3>2 DEF Environment
  <2> QED
    BY <2>1, <2>5, <2>6, <2>7, <2>8 DEF Next, Platform
<1> QED
  BY <1>1, SectionInvariant, PTL DEF Spec, FrozenWhileDisabled

-----------------------------------------------------------------------------
(* The stream of packets. *)

(* The platform never calls the closing function while tracing is          *)
(* disabled: otherwise it stores packets that were not closed (the run     *)
(* disabled_fini).                                                         *)
ClosesWhenEnabled == ~DisabledClose \/ ~CanDisable

-----------------------------------------------------------------------------
(* What the generated functions do to a context c, which becomes d.        *)

SameSwitch(c, d) == d.is_tracing_enabled = c.is_tracing_enabled

SameCount(c, d) == d.events_discarded = c.events_discarded

(* The packet that is stored when c is closed at time ts. *)
Closed(c, ts) ==
    [c.buf EXCEPT !.end = ts,
                  !.content_size = c.at,
                  !.events_discarded = c.events_discarded % DiscardedMod]

ClosesTo(c, d) ==
    /\ c.packet_is_open /\ ~d.packet_is_open
    /\ d.at = d.packet_size
    /\ d.sequence_number = (c.sequence_number + 1) % Word
    /\ d.off_content = c.off_content
    /\ SameCount(c, d)

OpensTo(c, d, ts) ==
    /\ ~c.packet_is_open /\ d.packet_is_open
    /\ d.at = d.off_content
    /\ d.off_content \in ContentOffsets
    /\ d.packet_size = c.packet_size
    /\ d.sequence_number = c.sequence_number
    /\ d.buf.packet_size = c.packet_size
    /\ d.buf.begin = ts
    /\ d.buf.seq_num = c.sequence_number % SeqMod
    /\ d.buf.header_end = d.at
    /\ d.buf.ers = << >>
    /\ SameCount(c, d)

WritesTo(c, d, r, id) ==
    /\ c.packet_is_open /\ d.packet_is_open
    /\ d.at = ErEnd(c.at, r)
    /\ d.off_content = c.off_content
    /\ d.packet_size = c.packet_size
    /\ d.sequence_number = c.sequence_number
    /\ d.buf = [c.buf EXCEPT !.ers =
                    Append(c.buf.ers, [id |-> id, ts |-> c.cur_last_event_ts, end |-> d.at])]
    /\ SameCount(c, d)

(* What a close changes of a context, and what its caller sees of it.      *)
LEMMA ClosingEffect ==
    ASSUME NEW c \in CtxType, c.packet_is_open, MayAlter(c), NEW now \in Nat,
           NEW size \in BufSizes
    PROVE  /\ ClosesTo(c, AfterClosing(ClosePacket(c, now), size))
           /\ ClosePacket(c, now).buf = Closed(c, PacketTimestamp(c, now))
           /\ AfterClosing(ClosePacket(c, now), size).use_cur_last_event_ts
                = c.use_cur_last_event_ts
           /\ SameSwitch(c, AfterClosing(ClosePacket(c, now), size))
<1> DEFINE d == ClosePacket(c, now)
           e == AfterClosing(d, size)
<1>1. size \in Nat
  BY TracerAssumption, CtxAssumption
<1>2. /\ d \in CtxType
      /\ ~d.packet_is_open
      /\ d.at = c.packet_size
      /\ d.packet_size = c.packet_size
      /\ d.off_content = c.off_content
      /\ SameSwitch(c, d)
  BY ClosePacketFacts DEF SameSwitch
<1>3. /\ d.buf = Closed(c, PacketTimestamp(c, now))
      /\ d.sequence_number = (c.sequence_number + 1) % Word
      /\ d.events_discarded = c.events_discarded
      /\ d.use_cur_last_event_ts = c.use_cur_last_event_ts
  BY DEF ClosePacket, ClosingFields, Closed, CtxType
<1> HIDE DEF d
<1>4. /\ e.sequence_number = d.sequence_number
      /\ e.events_discarded = d.events_discarded
      /\ e.use_cur_last_event_ts = d.use_cur_last_event_ts
  BY <1>2 DEF AfterClosing, PacketSetBuf, CtxType
<1>5. /\ ~e.packet_is_open
      /\ e.at = e.packet_size
      /\ e.off_content = d.off_content
      /\ SameSwitch(d, e)
  BY <1>2, AfterClosingFacts DEF PacketIsFull, SameSwitch
<1> HIDE DEF e
<1>6. ClosesTo(c, e)
  BY <1>2, <1>3, <1>4, <1>5 DEF ClosesTo, SameCount
<1> QED
  BY <1>2, <1>3, <1>4, <1>5, <1>6 DEF d, e, SameSwitch

(* What an open changes of a context.                                      *)
LEMMA OpeningEffect ==
    ASSUME NEW c \in CtxType, ~c.packet_is_open, MayAlter(c), NEW now \in Nat,
           NEW off \in ContentOffsets
    PROVE  /\ OpensTo(c, OpenPacket(c, now, off), PacketTimestamp(c, now))
           /\ OpenPacket(c, now, off).use_cur_last_event_ts = c.use_cur_last_event_ts
           /\ SameSwitch(c, OpenPacket(c, now, off))
<1> DEFINE d == OpenPacket(c, now, off)
           b == OpeningFields(c, now, off)
<1>1. off \in Nat
  BY TracerAssumption
<1>2. /\ d.packet_is_open
      /\ d.at = off
      /\ d.off_content = off
      /\ d.packet_size = c.packet_size
      /\ d.buf = b
      /\ d.sequence_number = c.sequence_number
      /\ d.events_discarded = c.events_discarded
      /\ d.use_cur_last_event_ts = c.use_cur_last_event_ts
      /\ d.is_tracing_enabled = c.is_tracing_enabled
  BY DEF OpenPacket, CtxType
<1>3. /\ b.packet_size = c.packet_size
      /\ b.begin = PacketTimestamp(c, now)
      /\ b.seq_num = c.sequence_number % SeqMod
      /\ b.header_end = off
      /\ b.ers = << >>
  BY DEF OpeningFields, CtxType, Packet
<1> HIDE DEF d, b
<1> QED
  BY <1>2, <1>3 DEF OpensTo, SameCount, SameSwitch, d

(* What the write of a record changes of a context.                        *)
LEMMA WritingEffect ==
    ASSUME NEW c \in CtxType, c.packet_is_open, NEW r \in EventRecord, NEW id \in Nat
    PROVE  /\ WritesTo(c, Serialize(c, r, id), r, id)
           /\ Serialize(c, r, id).use_cur_last_event_ts = c.use_cur_last_event_ts
           /\ SameSwitch(c, Serialize(c, r, id))
BY DEF Serialize, WritesTo, CtxType, SameCount, SameSwitch

(* The same when a tracing function opens or closes: the time is that of   *)
(* the event record.                                                       *)
LEMMA ClosingForEventEffect ==
    ASSUME NEW c \in CtxType, c.packet_is_open, MayAlter(c), NEW now \in Nat,
           NEW size \in BufSizes
    PROVE  /\ ClosesTo(c, AfterClosing(ClosePacketForEvent(c, now), size))
           /\ ClosePacketForEvent(c, now).buf = Closed(c, c.cur_last_event_ts)
           /\ AfterClosing(ClosePacketForEvent(c, now), size).use_cur_last_event_ts = FALSE
           /\ SameSwitch(c, AfterClosing(ClosePacketForEvent(c, now), size))
<1> DEFINE b == [c EXCEPT !.use_cur_last_event_ts = TRUE]
           d == ClosePacket(b, now)
           e == [d EXCEPT !.use_cur_last_event_ts = FALSE]
           f == AfterClosing(d, size)
           g == AfterClosing(e, size)
<1>1. /\ b \in CtxType /\ b.packet_is_open /\ MayAlter(b)
      /\ b.sequence_number = c.sequence_number
      /\ b.off_content = c.off_content
      /\ b.events_discarded = c.events_discarded
      /\ b.is_tracing_enabled = c.is_tracing_enabled
      /\ Closed(b, PacketTimestamp(b, now)) = Closed(c, c.cur_last_event_ts)
  BY DEF CtxType, MayAlter, Closed, PacketTimestamp
<1>2. ClosePacketForEvent(c, now) = e
  BY DEF ClosePacketForEvent
<1> HIDE DEF b
<1>3. /\ d \in CtxType
      /\ d.buf = Closed(b, PacketTimestamp(b, now))
      /\ ClosesTo(b, f)
      /\ SameSwitch(b, f)
  BY <1>1, ClosePacketFacts, ClosingEffect
<1> HIDE DEF d
<1>4. f \in CtxType
  BY <1>3, AfterClosingFacts
<1>5. e.buf = d.buf
  BY <1>3 DEF CtxType
<1>6. g = [f EXCEPT !.use_cur_last_event_ts = FALSE]
  BY <1>3 DEF AfterClosing, PacketSetBuf, PacketIsFull, CtxType
<1> HIDE DEF e, f, g
<1>7. ClosesTo(c, g) /\ g.use_cur_last_event_ts = FALSE /\ SameSwitch(c, g)
  BY <1>1, <1>3, <1>4, <1>6 DEF ClosesTo, SameCount, SameSwitch, CtxType
<1> QED
  BY <1>1, <1>2, <1>3, <1>5, <1>7 DEF g

(* What an open on behalf of a tracing function changes of a context: the  *)
(* packet begins at the time the function has saved.                       *)
LEMMA OpeningForEventEffect ==
    ASSUME NEW c \in CtxType, ~c.packet_is_open, MayAlter(c), NEW now \in Nat,
           NEW off \in ContentOffsets
    PROVE  /\ OpensTo(c, OpenPacketForEvent(c, now, off), c.cur_last_event_ts)
           /\ OpenPacketForEvent(c, now, off).use_cur_last_event_ts = FALSE
           /\ SameSwitch(c, OpenPacketForEvent(c, now, off))
<1> DEFINE b == [c EXCEPT !.use_cur_last_event_ts = TRUE]
           d == OpenPacket(b, now, off)
           e == [d EXCEPT !.use_cur_last_event_ts = FALSE]
<1>1. /\ b \in CtxType /\ ~b.packet_is_open /\ MayAlter(b)
      /\ b.sequence_number = c.sequence_number
      /\ b.events_discarded = c.events_discarded
      /\ b.is_tracing_enabled = c.is_tracing_enabled
      /\ b.packet_size = c.packet_size
      /\ PacketTimestamp(b, now) = c.cur_last_event_ts
  BY DEF CtxType, MayAlter, PacketTimestamp
<1>2. OpenPacketForEvent(c, now, off) = e
  BY DEF OpenPacketForEvent
<1> HIDE DEF b
<1>3. d \in CtxType /\ OpensTo(b, d, c.cur_last_event_ts) /\ SameSwitch(b, d)
  <2>1. off \in Nat
    BY TracerAssumption
  <2> QED
    BY <1>1, <2>1, OpenPacketKeeps, OpeningEffect
<1> HIDE DEF d
<1>4. OpensTo(c, e, c.cur_last_event_ts) /\ e.use_cur_last_event_ts = FALSE /\ SameSwitch(c, e)
  BY <1>1, <1>3 DEF OpensTo, SameCount, SameSwitch, CtxType
<1> HIDE DEF e
<1> QED
  BY <1>2, <1>4

(* Opening an open packet changes nothing but the flag.                    *)
LEMMA OpeningForEventRefused ==
    ASSUME NEW c \in CtxType, c.packet_is_open, NEW now, NEW off
    PROVE  OpenPacketForEvent(c, now, off) = [c EXCEPT !.use_cur_last_event_ts = FALSE]
<1> DEFINE b == [c EXCEPT !.use_cur_last_event_ts = TRUE]
<1>1. b.packet_is_open
  BY DEF CtxType
<1>2. OpenPacket(b, now, off) = b
  BY <1>1, OpenPacketRefuses
<1> QED
  BY <1>2 DEF OpenPacketForEvent, CtxType

-----------------------------------------------------------------------------
(* The kinds of steps.                                                     *)

Quiet == PacketState(ctx') = PacketState(ctx) /\ UNCHANGED backend

(* Nothing happens to the stream. *)
Stays == Quiet /\ SameCount(ctx, ctx') /\ SameSwitch(ctx, ctx') /\ UNCHANGED fate

Switches ==
    /\ Quiet /\ SameCount(ctx, ctx')
    /\ ctx'.is_tracing_enabled = ~ctx.is_tracing_enabled
    /\ UNCHANGED fate

Ignores ==
    /\ Quiet /\ SameCount(ctx, ctx') /\ SameSwitch(ctx, ctx')
    /\ ~ctx.is_tracing_enabled
    /\ fate' = Append(fate, "ignored")

Discards ==
    /\ Quiet /\ SameSwitch(ctx, ctx')
    /\ ctx'.events_discarded = (ctx.events_discarded + 1) % Word
    /\ fate' = Append(fate, "discarded")

Writes ==
    /\ WritesTo(ctx, ctx', er, Call)
    /\ SameSwitch(ctx, ctx')
    /\ UNCHANGED backend
    /\ fate' = Append(fate, "recorded")

Opens(ts) ==
    /\ OpensTo(ctx, ctx', ts)
    /\ SameSwitch(ctx, ctx')
    /\ UNCHANGED << backend, fate >>

Closes(ts) ==
    /\ ClosesTo(ctx, ctx')
    /\ SameSwitch(ctx, ctx')
    /\ backend' = Append(backend, Closed(ctx, ts))
    /\ UNCHANGED fate

Replaces(ts) ==
    /\ \E c \in CtxType : ClosesTo(ctx, c) /\ OpensTo(c, ctx', ts)
    /\ SameSwitch(ctx, ctx')
    /\ backend' = Append(backend, Closed(ctx, ts))
    /\ UNCHANGED fate

Moves(ts) == Opens(ts) \/ Closes(ts) \/ Replaces(ts)

(* The time of what the current step does: that of its event record during *)
(* a call, until the record is serialized.                                 *)
CallSteps == {"saved", "enter", "reserve", "fit", "closed", "serialize"}

EventTime == IF pc \in CallSteps THEN ctx.cur_last_event_ts ELSE clock

Kinds ==
    \/ Stays
    \/ Switches /\ CanDisable
    \/ Ignores /\ pc = "saved"
    \/ Discards /\ pc \in {"reserve", "closed"}
    \/ Writes /\ pc = "serialize"
    \/ \E ts \in Nat : Moves(ts) /\ (AsyncFlush \/ ts = EventTime)

(* The packet is open when a step is about to use it, and a closed one is  *)
(* full, which is how _reserve_er_space finds out.                         *)
FlowInv ==
    /\ SectionInv
    /\ er \in EventRecords
    /\ ctx.use_cur_last_event_ts = FALSE
    /\ ctx.off_content \in ContentOffsets
    /\ ~ctx.packet_is_open => ctx.at = ctx.packet_size
    /\ pc \in {"fit", "serialize", "commit"} => ctx.packet_is_open
    /\ pc = "closed" => ~ctx.packet_is_open

(* The platform opens the first packet before it returns.                  *)
LEMMA InitFlow == Init => FlowInv
<1> SUFFICES ASSUME Init PROVE FlowInv
  OBVIOUS
<1> USE TracerAssumption
<1>1. PICK size \in BufSizes, g \in Garbage, off \in ContentOffsets :
        ctx = OpenPacket(CtxInit(size, g), 0, off)
  BY DEF Init
<1> DEFINE c == CtxInit(size, g)
<1>2. size \in Nat /\ g \in Nat /\ off \in Nat
  BY CtxAssumption
<1>3. /\ c \in CtxType
      /\ MayAlter(c)
      /\ ~c.packet_is_open
      /\ c.use_cur_last_event_ts = FALSE
      /\ c.is_tracing_enabled = TRUE
  BY <1>2, CtxInitType DEF CtxInit, MayAlter
<1>4. ctx = OpenPacket(c, 0, off)
  BY <1>1
<1> HIDE DEF c
<1>5. /\ OpensTo(c, ctx, PacketTimestamp(c, 0))
      /\ ctx.use_cur_last_event_ts = FALSE
      /\ SameSwitch(c, ctx)
  BY <1>3, <1>4, OpeningEffect
<1>6. pc = "idle" /\ er \in EventRecords
  BY DEF Init
<1> QED
  BY <1>3, <1>5, <1>6, InitSection DEF FlowInv, OpensTo, SameSwitch

(* Every step has one of the kinds.  The steps that close a packet do so   *)
(* when it is open and the closing function may alter it.                  *)
LEMMA NextFlow ==
    ASSUME ClosesWhenEnabled
    PROVE  FlowInv /\ [Next]_vars => Kinds /\ FlowInv'
<1> SUFFICES ASSUME FlowInv, [Next]_vars PROVE Kinds /\ FlowInv'
  OBVIOUS
<1> USE TracerAssumption
<1> DEFINE Rest == /\ er' \in EventRecords
                   /\ ctx'.use_cur_last_event_ts = FALSE
                   /\ ctx'.off_content \in ContentOffsets
                   /\ ~ctx'.packet_is_open => ctx'.at = ctx'.packet_size
                   /\ pc' \in {"fit", "serialize", "commit"} => ctx'.packet_is_open
                   /\ pc' = "closed" => ~ctx'.packet_is_open
           Good == Kinds /\ Rest
<1>0. /\ ctx \in CtxType
      /\ clock \in Nat
      /\ er \in EventRecord
      /\ fate \in Seq({"recorded", "discarded", "ignored"})
      /\ ctx.in_tracing_section <=> pc \in SectionSteps
      /\ er \in EventRecords
      /\ ctx.use_cur_last_event_ts = FALSE
      /\ CanDisable \/ ctx.is_tracing_enabled
      /\ ctx.off_content \in ContentOffsets
      /\ ~ctx.packet_is_open => ctx.at = ctx.packet_size
      /\ pc \in {"fit", "serialize", "commit"} => ctx.packet_is_open
      /\ pc = "closed" => ~ctx.packet_is_open
  BY DEF FlowInv, SectionInv, SectionFlag, TypeOK
<1>a. ctx.cur_last_event_ts \in Nat /\ Call \in Nat
  BY <1>0 DEF CtxType, Call
<1>b. PacketTimestamp(ctx, clock) = clock
  BY <1>0 DEF PacketTimestamp
<1>1. ASSUME SaveTimestamp PROVE Good
  <2>1. ctx' = [ctx EXCEPT !.cur_last_event_ts = clock]
    BY <1>1 DEF SaveTimestamp
  <2>2. /\ PacketState(ctx') = PacketState(ctx)
        /\ SameCount(ctx, ctx') /\ SameSwitch(ctx, ctx')
        /\ ctx'.use_cur_last_event_ts = FALSE
    BY <1>0, <2>1 DEF PacketState, SameCount, SameSwitch, CtxType
  <2>3. Stays
    BY <1>1, <2>2 DEF SaveTimestamp, Stays, Quiet
  <2>4. Rest
    BY <1>0, <1>1, <2>2 DEF SaveTimestamp, PacketState, SameSwitch
  <2> QED
    BY <2>3, <2>4 DEF Kinds
<1>2. ASSUME TracingEnabled \/ UseCurrentPacket \/ RecordFits PROVE Good
  <2>1. Stays
    BY <1>2 DEF TracingEnabled, UseCurrentPacket, RecordFits, Stays, Quiet, SameCount, SameSwitch
  <2>2. Rest
    BY <1>0, <1>2 DEF TracingEnabled, UseCurrentPacket, RecordFits, PacketIsFull
  <2> QED
    BY <2>1, <2>2 DEF Kinds
<1>3. ASSUME TracingDisabled PROVE Good
  <2>1. Ignores /\ pc = "saved"
    BY <1>3 DEF TracingDisabled, Ignores, Quiet, SameCount, SameSwitch
  <2>2. Rest
    BY <1>0, <1>3 DEF TracingDisabled
  <2> QED
    BY <2>1, <2>2 DEF Kinds
<1>4. ASSUME EnterSection PROVE Good
  <2>1. /\ PacketState(ctx') = PacketState(ctx)
        /\ SameCount(ctx, ctx') /\ SameSwitch(ctx, ctx')
        /\ ctx'.use_cur_last_event_ts = FALSE
    BY <1>0, <1>4 DEF EnterSection, PacketState, SameCount, SameSwitch, CtxType
  <2>2. Stays
    BY <1>4, <2>1 DEF EnterSection, Stays, Quiet
  <2>3. Rest
    BY <1>0, <1>4, <2>1 DEF EnterSection, PacketState, SameSwitch
  <2> QED
    BY <2>2, <2>3 DEF Kinds
<1>5. ASSUME NoSpace, pc \in {"reserve", "closed"} PROVE Good
  <2>1. /\ PacketState(ctx') = PacketState(ctx)
        /\ SameSwitch(ctx, ctx')
        /\ ctx'.events_discarded = (ctx.events_discarded + 1) % Word
        /\ ctx'.use_cur_last_event_ts = FALSE
    BY <1>0, <1>5
    DEF NoSpace, LeaveSection, CountDiscarded, PacketState, SameSwitch, CtxType
  <2>2. Discards
    BY <1>5, <2>1 DEF NoSpace, Discards, Quiet
  <2>3. Rest
    BY <1>0, <1>5, <2>1 DEF NoSpace, PacketState, SameSwitch
  <2> QED
    BY <1>5, <2>2, <2>3 DEF Kinds
<1>6. ASSUME NEW off \in ContentOffsets, ctx' = OpenPacketForEvent(ctx, clock, off),
             pc \in {"reserve", "closed"}, pc' \in {"fit", "serialize"},
             UNCHANGED << clock, backend_full, backend, er, er_size, fate >>
      PROVE  Good
  <2>1. MayAlter(ctx)
    BY <1>0, <1>6 DEF MayAlter, SectionSteps
  <2>2. CASE ctx.packet_is_open
    <3>1. ctx' = ctx
      <4>1. ctx' = [ctx EXCEPT !.use_cur_last_event_ts = FALSE]
        BY <1>0, <1>6, <2>2, OpeningForEventRefused
      <4> QED
        BY <1>0, <4>1 DEF CtxType
    <3>2. Stays
      BY <1>6, <3>1 DEF Stays, Quiet, SameCount, SameSwitch
    <3>3. Rest
      BY <1>0, <1>6, <2>2, <3>1
    <3> QED
      BY <3>2, <3>3 DEF Kinds
  <2>3. CASE ~ctx.packet_is_open
    <3>1. /\ OpensTo(ctx, ctx', ctx.cur_last_event_ts)
          /\ ctx'.use_cur_last_event_ts = FALSE
          /\ SameSwitch(ctx, ctx')
      BY <1>0, <1>6, <2>1, <2>3, OpeningForEventEffect
    <3>2. Opens(ctx.cur_last_event_ts) /\ ctx.cur_last_event_ts = EventTime
      BY <1>6, <3>1 DEF Opens, EventTime, CallSteps
    <3>3. Rest
      BY <1>0, <1>6, <3>1 DEF OpensTo, SameSwitch
    <3> QED
      BY <1>a, <3>2, <3>3 DEF Kinds, Moves
  <2> QED
    BY <2>2, <2>3
<1>7. ASSUME OpenWhenFull \/ OpenAfterClose PROVE Good
  <2>1. PICK off \in ContentOffsets : ctx' = OpenPacketForEvent(ctx, clock, off)
    BY <1>7 DEF OpenWhenFull, OpenAfterClose
  <2> HIDE DEF Good
  <2> QED
    BY <1>6, <1>7, <2>1 DEF OpenWhenFull, OpenAfterClose
<1>9. ASSUME CloseForSpace PROVE Good
  <2> DEFINE d == ClosePacketForEvent(ctx, clock)
             ts == ctx.cur_last_event_ts
  <2>1. PICK size \in BufSizes : Stores(d) /\ ctx' = AfterClosing(d, size)
    BY <1>9 DEF CloseForSpace
  <2>2. MayAlter(ctx) /\ ctx.packet_is_open
    BY <1>0, <1>9 DEF CloseForSpace, MayAlter, SectionSteps
  <2>3. /\ ClosesTo(ctx, ctx')
        /\ d.buf = Closed(ctx, ts)
        /\ ctx'.use_cur_last_event_ts = FALSE
        /\ SameSwitch(ctx, ctx')
    BY <1>0, <2>1, <2>2, ClosingForEventEffect
  <2>4. Closes(ts) /\ ts = EventTime
    BY <1>9, <2>1, <2>3 DEF CloseForSpace, Closes, Stores, EventTime, CallSteps
  <2>5. Rest
    BY <1>0, <1>9, <2>3 DEF CloseForSpace, ClosesTo, SameSwitch
  <2> QED
    BY <1>a, <2>4, <2>5 DEF Kinds, Moves
<1>11. ASSUME SerializeEr PROVE Good
  <2>1. ctx.packet_is_open /\ ctx' = Serialize(ctx, er, Call)
    BY <1>0, <1>11 DEF SerializeEr
  <2>2. /\ WritesTo(ctx, ctx', er, Call)
        /\ ctx'.use_cur_last_event_ts = FALSE
        /\ SameSwitch(ctx, ctx')
    BY <1>0, <1>a, <2>1, WritingEffect
  <2>3. Writes /\ pc = "serialize"
    BY <1>11, <2>2 DEF SerializeEr, Writes
  <2>4. Rest
    BY <1>0, <1>11, <2>2 DEF SerializeEr, WritesTo, SameSwitch
  <2> QED
    BY <2>3, <2>4 DEF Kinds
<1>12. ASSUME CommitEr PROVE Good
  <2>1. /\ PacketState(ctx') = PacketState(ctx)
        /\ SameCount(ctx, ctx') /\ SameSwitch(ctx, ctx')
        /\ ctx'.use_cur_last_event_ts = FALSE
    BY <1>0, <1>12 DEF CommitEr, LeaveSection, PacketState, SameCount, SameSwitch, CtxType
  <2>2. Stays
    BY <1>12, <2>1 DEF CommitEr, Stays, Quiet
  <2>3. Rest
    BY <1>0, <1>12, <2>1 DEF CommitEr, PacketState, SameSwitch
  <2> QED
    BY <2>2, <2>3 DEF Kinds
<1>13. ASSUME CommitFull PROVE Good
  <2> DEFINE d == ClosePacket(ctx, clock)
  <2>1. PICK size \in BufSizes : Stores(d) /\ ctx' = LeaveSection(AfterClosing(d, size))
    BY <1>13 DEF CommitFull
  <2> DEFINE e == AfterClosing(d, size)
  <2>2. MayAlter(ctx) /\ ctx.packet_is_open
    BY <1>0, <1>13 DEF CommitFull, MayAlter, SectionSteps
  <2>3. /\ ClosesTo(ctx, e)
        /\ d.buf = Closed(ctx, clock)
        /\ e.use_cur_last_event_ts = FALSE
        /\ SameSwitch(ctx, e)
    BY <1>0, <1>b, <2>2, ClosingEffect
  <2>4. e \in CtxType
    <3>1. d \in CtxType
      BY <1>0, ClosePacketFacts
    <3> QED
      BY <3>1, AfterClosingFacts
  <2>5. ctx' = LeaveSection(e)
    BY <2>1
  <2> HIDE DEF e
  <2>6. ClosesTo(ctx, ctx') /\ SameSwitch(ctx, ctx') /\ ctx'.use_cur_last_event_ts = FALSE
    BY <2>3, <2>4, <2>5 DEF LeaveSection, ClosesTo, SameCount, SameSwitch, CtxType
  <2>7. Closes(clock) /\ clock = EventTime
    BY <1>13, <2>1, <2>3, <2>6 DEF CommitFull, Closes, Stores, EventTime, CallSteps
  <2>8. Rest
    BY <1>0, <1>13, <2>6 DEF CommitFull, ClosesTo, SameSwitch
  <2> QED
    BY <1>0, <2>7, <2>8 DEF Kinds, Moves
<1>14. ASSUME ReplacePacket PROVE Good
  <2> DEFINE d == ClosePacket(ctx, clock)
  <2>1. PICK size \in BufSizes, off \in ContentOffsets :
            Stores(d) /\ ctx' = OpenPacket(AfterClosing(d, size), clock, off)
    BY <1>14 DEF ReplacePacket
  <2> DEFINE e == AfterClosing(d, size)
  <2>2. MayAlter(ctx) /\ ctx.packet_is_open
    BY <1>0, <1>14 DEF ReplacePacket, MayStartPacket, ClosesWhenEnabled, MayAlter
  <2>3. /\ ClosesTo(ctx, e)
        /\ d.buf = Closed(ctx, clock)
        /\ e.use_cur_last_event_ts = FALSE
        /\ SameSwitch(ctx, e)
    BY <1>0, <1>b, <2>2, ClosingEffect
  <2>4. e \in CtxType /\ e.in_tracing_section = ctx.in_tracing_section
    <3>1. d \in CtxType /\ d.in_tracing_section = ctx.in_tracing_section
      BY <1>0, ClosePacketFacts
    <3> QED
      BY <3>1, AfterClosingFacts
  <2>5. ctx' = OpenPacket(e, clock, off)
    BY <2>1
  <2> HIDE DEF e
  <2>6. ~e.packet_is_open /\ MayAlter(e) /\ PacketTimestamp(e, clock) = clock
    BY <2>2, <2>3, <2>4 DEF ClosesTo, MayAlter, SameSwitch, PacketTimestamp
  <2>7. /\ OpensTo(e, ctx', clock)
        /\ ctx'.use_cur_last_event_ts = FALSE
        /\ SameSwitch(ctx, ctx')
    BY <1>0, <2>3, <2>4, <2>5, <2>6, OpeningEffect DEF SameSwitch
  <2>8. Replaces(clock) /\ (AsyncFlush \/ clock = EventTime)
    BY <1>14, <2>1, <2>3, <2>4, <2>7
    DEF ReplacePacket, MayStartPacket, Replaces, Stores, EventTime, CallSteps
  <2>9. Rest
    BY <1>0, <1>14, <2>7 DEF ReplacePacket, MayStartPacket, OpensTo, SameSwitch, SectionSteps
  <2> QED
    BY <1>0, <2>8, <2>9 DEF Kinds, Moves
<1>15. ASSUME StartPacket PROVE Good
  <2>1. PICK off \in ContentOffsets : ctx' = OpenPacket(ctx, clock, off)
    BY <1>15 DEF StartPacket
  <2>2. MayAlter(ctx) /\ ~ctx.packet_is_open
    BY <1>0, <1>15 DEF StartPacket, MayStartPacket, ClosesWhenEnabled, MayAlter
  <2>3. /\ OpensTo(ctx, ctx', clock)
        /\ ctx'.use_cur_last_event_ts = FALSE
        /\ SameSwitch(ctx, ctx')
    BY <1>0, <1>b, <2>1, <2>2, OpeningEffect
  <2>4. Opens(clock) /\ (AsyncFlush \/ clock = EventTime)
    BY <1>15, <2>3 DEF StartPacket, MayStartPacket, Opens, EventTime, CallSteps
  <2>5. Rest
    BY <1>0, <1>15, <2>3 DEF StartPacket, MayStartPacket, OpensTo, SameSwitch, SectionSteps
  <2> QED
    BY <1>0, <2>4, <2>5 DEF Kinds, Moves
<1>16. ASSUME Fini PROVE Good
  <2>1. CASE UNCHANGED << ctx, backend >>
    <3>1. Stays
      BY <1>16, <2>1 DEF Fini, Stays, Quiet, SameCount, SameSwitch
    <3>2. Rest
      BY <1>0, <1>16, <2>1 DEF Fini
    <3> QED
      BY <3>1, <3>2 DEF Kinds
  <2>2. CASE ctx.packet_is_open /\ ~PacketIsEmpty(ctx)
    <3> DEFINE d == ClosePacket(ctx, clock)
    <3>1. PICK size \in BufSizes : Stores(d) /\ ctx' = AfterClosing(d, size)
      BY <1>16, <2>2 DEF Fini
    <3>2. MayAlter(ctx)
      BY <1>0, <1>16 DEF Fini, ClosesWhenEnabled, MayAlter
    <3>3. /\ ClosesTo(ctx, ctx')
          /\ d.buf = Closed(ctx, clock)
          /\ ctx'.use_cur_last_event_ts = FALSE
          /\ SameSwitch(ctx, ctx')
      BY <1>0, <1>b, <2>2, <3>1, <3>2, ClosingEffect
    <3>4. Closes(clock) /\ clock = EventTime
      BY <1>16, <3>1, <3>3 DEF Fini, Closes, Stores, EventTime, CallSteps
    <3>5. Rest
      BY <1>0, <1>16, <3>3 DEF Fini, ClosesTo, SameSwitch
    <3> QED
      BY <1>0, <3>4, <3>5 DEF Kinds, Moves
  <2> QED
    BY <1>16, <2>1, <2>2 DEF Fini
<1>17. ASSUME SetTracing PROVE Good
  <2>1. /\ PacketState(ctx') = PacketState(ctx)
        /\ SameCount(ctx, ctx')
        /\ ctx'.is_tracing_enabled = ~ctx.is_tracing_enabled
        /\ ctx'.use_cur_last_event_ts = FALSE
    BY <1>0, <1>17 DEF SetTracing, EnableTracing, PacketState, SameCount, CtxType
  <2>2. Switches /\ CanDisable
    BY <1>17, <2>1 DEF SetTracing, Switches, Quiet
  <2>3. Rest
    BY <1>0, <1>17, <2>1 DEF SetTracing, PacketState
  <2> QED
    BY <2>2, <2>3 DEF Kinds
<1>18. ASSUME BackendChanges \/ Tick \/ ClockSetBack \/ UNCHANGED vars PROVE Good
  <2>1. Stays
    BY <1>18 DEF BackendChanges, Tick, ClockSetBack, vars, Stays, Quiet, SameCount, SameSwitch
  <2>2. Rest
    BY <1>0, <1>18 DEF BackendChanges, Tick, ClockSetBack, vars
  <2> QED
    BY <2>1, <2>2 DEF Kinds
<1>20. Good
  <2> HIDE DEF Good
  <2> QED
    BY <1>1, <1>2, <1>3, <1>4, <1>5, <1>7, <1>9, <1>11, <1>12, <1>13, <1>14, <1>15, <1>16,
       <1>17, <1>18
    DEF Next, TracingCallStep, Platform, Environment, DiscardOversized, DiscardWhenFull,
        DiscardAfterClose
<1>21. SectionInv'
  BY NextSection DEF FlowInv
<1> QED
  BY <1>20, <1>21 DEF FlowInv

(* In every reachable state the control points agree with the context.     *)
LEMMA FlowInvariant == ASSUME ClosesWhenEnabled PROVE Spec => []FlowInv
<1>1. FlowInv /\ [Next]_vars => FlowInv'
  BY NextFlow
<1> QED
  BY <1>1, InitFlow, PTL DEF Spec

-----------------------------------------------------------------------------
(* The packet that is stored: only three of its fields are new.            *)
LEMMA ClosedFacts ==
    ASSUME NEW c \in CtxType, NEW ts \in Nat
    PROVE  /\ Closed(c, ts) \in Packet
           /\ Closed(c, ts).end = ts
           /\ Closed(c, ts).content_size = c.at
           /\ Closed(c, ts).events_discarded = c.events_discarded % DiscardedMod
           /\ Closed(c, ts).packet_size = c.buf.packet_size
           /\ Closed(c, ts).begin = c.buf.begin
           /\ Closed(c, ts).seq_num = c.buf.seq_num
           /\ Closed(c, ts).header_end = c.buf.header_end
           /\ Closed(c, ts).ers = c.buf.ers
<1>1. c.events_discarded % DiscardedMod \in Nat
  BY CtxAssumption DEF CtxType
<1> QED
  BY <1>1 DEF Closed, CtxType, Packet

(* Storing a packet. *)
LEMMA AppendedFacts ==
    ASSUME NEW S, NEW s \in Seq(S), NEW e \in S
    PROVE  /\ Append(s, e) \in Seq(S)
           /\ Len(Append(s, e)) = Len(s) + 1
           /\ DOMAIN Append(s, e) = 1 .. (Len(s) + 1)
           /\ \A i \in DOMAIN s : Append(s, e)[i] = s[i]
           /\ Append(s, e)[Len(s) + 1] = e
           /\ DOMAIN s = 1 .. Len(s)
           /\ Len(s) \in Nat
OBVIOUS

(* What a kind of step does to the open packet and to the back end.        *)
LEMMA StoredBy ==
    ASSUME FlowInv, NEW ts \in Nat, Closes(ts) \/ Replaces(ts)
    PROVE  /\ ctx.packet_is_open
           /\ Closed(ctx, ts) \in Packet
           /\ backend' = Append(backend, Closed(ctx, ts))
           /\ Len(backend') = Len(backend) + 1
           /\ DOMAIN backend' = 1 .. (Len(backend) + 1)
           /\ DOMAIN backend = 1 .. Len(backend)
           /\ Len(backend) \in Nat
           /\ \A i \in DOMAIN backend : backend'[i] = backend[i]
           /\ backend'[Len(backend) + 1] = Closed(ctx, ts)
<1>1. ctx \in CtxType /\ backend \in Seq(Packet)
  BY DEF FlowInv, SectionInv, TypeOK
<1>2. Closed(ctx, ts) \in Packet
  BY <1>1, ClosedFacts
<1>3. ctx.packet_is_open /\ backend' = Append(backend, Closed(ctx, ts))
  BY DEF Closes, Replaces, ClosesTo
<1> QED
  BY <1>1, <1>2, <1>3, AppendedFacts

-----------------------------------------------------------------------------
(* Sequence numbers. *)

(* The counter of the context is the number of packets stored, and the     *)
(* open packet has the number of the next one.                             *)
NumberInv ==
    /\ FlowInv
    /\ ctx.sequence_number = Len(backend) % Word
    /\ ctx.packet_is_open => ctx.buf.seq_num = ctx.sequence_number % SeqMod
    /\ SequenceNumbers

(* The first packet has number 0.                                          *)
LEMMA InitNumber == Init => NumberInv
<1> SUFFICES ASSUME Init PROVE NumberInv
  OBVIOUS
<1>1. PICK size \in BufSizes, g \in Garbage, off \in ContentOffsets :
        ctx = OpenPacket(CtxInit(size, g), 0, off)
  BY DEF Init
<1> DEFINE c == CtxInit(size, g)
<1>2. size \in Nat /\ g \in Nat
  BY TracerAssumption, CtxAssumption
<1>3. c \in CtxType /\ MayAlter(c) /\ ~c.packet_is_open /\ c.sequence_number = 0
  BY <1>2, CtxInitType DEF CtxInit, MayAlter
<1>4. ctx = OpenPacket(c, 0, off)
  BY <1>1
<1> HIDE DEF c
<1>5. OpensTo(c, ctx, PacketTimestamp(c, 0))
  BY <1>3, <1>4, OpeningEffect
<1>6. backend = << >>
  BY DEF Init
<1>7. 0 % Word = 0
  BY CtxAssumption
<1> QED
  BY <1>3, <1>5, <1>6, <1>7, InitFlow DEF NumberInv, OpensTo, SequenceNumbers

(* Every step keeps the numbers consecutive.                               *)
LEMMA NextNumber ==
    ASSUME ClosesWhenEnabled
    PROVE  NumberInv /\ [Next]_vars => NumberInv'
<1> SUFFICES ASSUME NumberInv, [Next]_vars PROVE NumberInv'
  OBVIOUS
<1> USE CtxAssumption
<1>0. /\ FlowInv
      /\ ctx \in CtxType
      /\ backend \in Seq(Packet)
      /\ ctx.sequence_number = Len(backend) % Word
      /\ ctx.packet_is_open => ctx.buf.seq_num = ctx.sequence_number % SeqMod
      /\ SequenceNumbers
  BY DEF NumberInv, FlowInv, SectionInv, TypeOK
<1>1. Kinds /\ FlowInv'
  BY <1>0, NextFlow
<1>2. CASE Quiet
  <2>1. /\ ctx'.sequence_number = ctx.sequence_number
        /\ ctx'.packet_is_open = ctx.packet_is_open
        /\ ctx'.buf = ctx.buf
        /\ backend' = backend
    BY <1>2 DEF Quiet, PacketState
  <2> QED
    BY <1>0, <1>1, <2>1 DEF NumberInv, SequenceNumbers
<1>3. CASE Writes
  <2>1. ctx.packet_is_open /\ ctx'.buf.seq_num = ctx.buf.seq_num
    BY <1>0, <1>3 DEF Writes, WritesTo, CtxType, Packet
  <2> QED
    BY <1>0, <1>1, <1>3, <2>1 DEF Writes, WritesTo, NumberInv, SequenceNumbers
<1>4. ASSUME NEW ts \in Nat, Opens(ts) PROVE NumberInv'
  BY <1>0, <1>1, <1>4 DEF Opens, OpensTo, NumberInv, SequenceNumbers
<1>5. ASSUME NEW ts \in Nat, Closes(ts) \/ Replaces(ts) PROVE NumberInv'
  <2>1. /\ ctx'.sequence_number = (ctx.sequence_number + 1) % Word
        /\ ctx'.packet_is_open => ctx'.buf.seq_num = ctx'.sequence_number % SeqMod
    BY <1>5 DEF Closes, Replaces, ClosesTo, OpensTo
  <2>2. ctx'.sequence_number = Len(backend') % Word
    <3>1. Len(backend) \in Nat /\ Len(backend') = Len(backend) + 1
      BY <1>0, <1>5, StoredBy
    <3>2. ((Len(backend) % Word) + 1) % Word = (Len(backend) + 1) % Word
      BY <3>1, ModNext
    <3> QED
      BY <1>0, <2>1, <3>1, <3>2
  <2>3. Closed(ctx, ts).seq_num = (Len(backend) % Word) % SeqMod
    BY <1>0, <1>5, StoredBy, ClosedFacts
  <2>4. SequenceNumbers'
    <3> SUFFICES ASSUME NEW i \in DOMAIN backend'
                 PROVE  backend'[i].seq_num = ((i - 1) % Word) % SeqMod
      BY DEF SequenceNumbers
    <3>0. /\ DOMAIN backend' = 1 .. (Len(backend) + 1)
          /\ DOMAIN backend = 1 .. Len(backend)
          /\ Len(backend) \in Nat
      BY <1>0, <1>5, StoredBy
    <3>1. CASE i \in DOMAIN backend
      <4>1. backend'[i] = backend[i]
        BY <1>0, <1>5, <3>1, StoredBy
      <4> QED
        BY <1>0, <3>1, <4>1 DEF SequenceNumbers
    <3>2. CASE i = Len(backend) + 1
      <4>1. backend'[i] = Closed(ctx, ts)
        BY <1>0, <1>5, <3>2, StoredBy
      <4>2. i - 1 = Len(backend)
        BY <3>0, <3>2
      <4> QED
        BY <2>3, <4>1, <4>2
    <3>3. i \in DOMAIN backend \/ i = Len(backend) + 1
      BY <3>0
    <3> QED
      BY <3>1, <3>2, <3>3
  <2> QED
    BY <1>1, <2>1, <2>2, <2>4 DEF NumberInv
<1> QED
  BY <1>1, <1>2, <1>3, <1>4, <1>5 DEF Kinds, Stays, Switches, Ignores, Discards, Moves

(* The sequence numbers of the packets in the back end are consecutive,    *)
(* whatever the widths of the counter and of the field.                    *)
THEOREM NumbersConsecutive ==
    ASSUME ClosesWhenEnabled
    PROVE  Spec => []SequenceNumbers
<1>1. NumberInv /\ [Next]_vars => NumberInv'
  BY NextNumber
<1>2. NumberInv => SequenceNumbers
  BY DEF NumberInv
<1> QED
  BY <1>1, <1>2, InitNumber, PTL DEF Spec

-----------------------------------------------------------------------------
(* The refinement. *)

(* A record that is appended to a packet is a call that is appended to     *)
(* those of the packet.                                                    *)
LEMMA CallsOfAppend ==
    ASSUME NEW p \in Packet, NEW e \in ErImage, NEW q \in Packet,
           q.ers = Append(p.ers, e)
    PROVE  Calls(q) = Append(Calls(p), e.id)
<1>1. p.ers \in Seq(ErImage)
  BY DEF Packet
<1>2. /\ Len(q.ers) = Len(p.ers) + 1
      /\ DOMAIN q.ers = 1 .. (Len(p.ers) + 1)
      /\ \A i \in DOMAIN p.ers : q.ers[i] = p.ers[i]
      /\ q.ers[Len(p.ers) + 1] = e
      /\ DOMAIN p.ers = 1 .. Len(p.ers)
      /\ Len(p.ers) \in Nat
  BY <1>1, AppendedFacts
<1>3. Calls(p) \in Seq(Nat) /\ Len(Calls(p)) = Len(p.ers)
  <2>1. \A i \in 1 .. Len(p.ers) : p.ers[i] \in ErImage
    BY <1>1, <1>2
  <2>2. \A i \in 1 .. Len(p.ers) : p.ers[i].id \in Nat
    BY <2>1 DEF ErImage
  <2>3. Calls(p) = [i \in 1 .. Len(p.ers) |-> p.ers[i].id]
    BY <1>2 DEF Calls
  <2> QED
    BY <1>2, <2>2, <2>3
<1>4. e.id \in Nat
  BY DEF ErImage
<1> DEFINE s == Append(Calls(p), e.id)
<1>5. /\ DOMAIN s = 1 .. (Len(p.ers) + 1)
      /\ \A i \in DOMAIN p.ers : s[i] = Calls(p)[i]
      /\ s[Len(p.ers) + 1] = e.id
      /\ s \in Seq(Nat)
  BY <1>2, <1>3, <1>4, AppendedFacts
<1> HIDE DEF s
<1>6. \A i \in 1 .. (Len(p.ers) + 1) : q.ers[i].id = s[i]
  <2> SUFFICES ASSUME NEW i \in 1 .. (Len(p.ers) + 1) PROVE q.ers[i].id = s[i]
    OBVIOUS
  <2>1. CASE i \in DOMAIN p.ers
    BY <1>2, <1>5, <2>1 DEF Calls
  <2>2. CASE i = Len(p.ers) + 1
    BY <1>2, <1>5, <2>2
  <2> QED
    BY <1>2, <2>1, <2>2
<1>7. s = [i \in 1 .. (Len(p.ers) + 1) |-> s[i]]
  BY <1>5
<1>8. Calls(q) = [i \in 1 .. (Len(p.ers) + 1) |-> s[i]]
  BY <1>2, <1>6 DEF Calls
<1> QED
  BY <1>7, <1>8 DEF s

(* What the reader sees of the back end when a packet is added to it.      *)
LEMMA StreamOfAppend ==
    ASSUME NEW s \in Seq(Packet), NEW p \in Packet
    PROVE  [i \in DOMAIN Append(s, p) |-> AbstractPacket(Append(s, p)[i])]
             = Append([i \in DOMAIN s |-> AbstractPacket(s[i])], AbstractPacket(p))
<1> DEFINE a == Append(s, p)
           t == [i \in DOMAIN s |-> AbstractPacket(s[i])]
           u == Append(t, AbstractPacket(p))
           S == {AbstractPacket(q) : q \in Packet}
<1>1. /\ DOMAIN a = 1 .. (Len(s) + 1)
      /\ \A i \in DOMAIN s : a[i] = s[i]
      /\ a[Len(s) + 1] = p
      /\ DOMAIN s = 1 .. Len(s)
      /\ Len(s) \in Nat
  BY AppendedFacts
<1>2. t \in Seq(S) /\ Len(t) = Len(s) /\ AbstractPacket(p) \in S
  BY <1>1
<1> HIDE DEF a, S
<1>3. /\ DOMAIN u = 1 .. (Len(s) + 1)
      /\ \A i \in DOMAIN s : u[i] = t[i]
      /\ u[Len(s) + 1] = AbstractPacket(p)
      /\ u \in Seq(S)
  BY <1>1, <1>2, AppendedFacts
<1>4. \A i \in DOMAIN s : t[i] = AbstractPacket(s[i])
  OBVIOUS
<1> HIDE DEF t, u
<1>5. \A i \in 1 .. (Len(s) + 1) : AbstractPacket(a[i]) = u[i]
  <2> SUFFICES ASSUME NEW i \in 1 .. (Len(s) + 1) PROVE AbstractPacket(a[i]) = u[i]
    OBVIOUS
  <2>1. CASE i \in DOMAIN s
    BY <1>1, <1>3, <1>4, <2>1
  <2>2. CASE i = Len(s) + 1
    BY <1>1, <1>3, <2>2
  <2> QED
    BY <1>1, <2>1, <2>2
<1>6. u = [i \in 1 .. (Len(s) + 1) |-> u[i]]
  BY <1>3
<1>7. [i \in DOMAIN a |-> AbstractPacket(a[i])] = [i \in 1 .. (Len(s) + 1) |-> u[i]]
  BY <1>1, <1>5
<1> QED
  BY <1>6, <1>7 DEF a, t, u

(* The kind of a step decides the step of the data stream.                 *)
LEMMA NextSimulates ==
    ASSUME ClosesWhenEnabled
    PROVE  NumberInv /\ [Next]_vars => [DS!Next]_(DS!vars)
<1> SUFFICES ASSUME NumberInv, [Next]_vars PROVE [DS!Next]_(DS!vars)
  OBVIOUS
<1> DEFINE Pending == IF ctx.packet_is_open THEN Calls(ctx.buf) ELSE << >>
           Stream == [i \in DOMAIN backend |-> AbstractPacket(backend[i])]
<1>0. /\ FlowInv
      /\ ctx \in CtxType
      /\ ctx.buf \in Packet
      /\ backend \in Seq(Packet)
      /\ fate \in Seq({"recorded", "discarded", "ignored"})
      /\ ctx.sequence_number = Len(backend) % Word
      /\ ctx.packet_is_open => ctx.buf.seq_num = ctx.sequence_number % SeqMod
  BY DEF NumberInv, FlowInv, SectionInv, TypeOK, CtxType
<1>1. Kinds /\ ctx' \in CtxType /\ ctx'.buf \in Packet
  BY <1>0, NextFlow DEF FlowInv, SectionInv, TypeOK, CtxType
<1>2. \A f \in {"recorded", "discarded", "ignored"} :
        fate' = Append(fate, f) => Len(fate') = Len(fate) + 1
  BY <1>0
<1>3. Quiet => Pending' = Pending /\ Stream' = Stream
  BY DEF Quiet, PacketState
<1>4. CASE Stays
  BY <1>3, <1>4 DEF Stays, SameCount, SameSwitch, DS!vars
<1>5. CASE Switches
  BY <1>0, <1>1, <1>3, <1>5 DEF Switches, SameCount, DS!Next, DS!SetTracing
<1>6. CASE Ignores
  BY <1>2, <1>3, <1>6 DEF Ignores, SameCount, SameSwitch, DS!Next, DS!Ignore
<1>7. CASE Discards
  BY <1>2, <1>3, <1>7 DEF Discards, SameSwitch, DS!Next, DS!Discard
<1>8. CASE Writes
  <2> DEFINE e == [id |-> Call, ts |-> ctx.cur_last_event_ts, end |-> ctx'.at]
  <2>1. /\ e \in ErImage /\ e.id = Call
        /\ Call = Len(fate')
        /\ Call = Len(fate) + 1
    BY <1>0, <1>1, <1>2, <1>8 DEF Writes, Call, ErImage, CtxType
  <2>2. /\ ctx.packet_is_open /\ ctx'.packet_is_open
        /\ ctx'.buf.ers = Append(ctx.buf.ers, e)
        /\ SameCount(ctx, ctx') /\ SameSwitch(ctx, ctx')
        /\ UNCHANGED backend
    BY <1>0, <1>8 DEF Writes, WritesTo, Packet
  <2> HIDE DEF e
  <2>3. Calls(ctx'.buf) = Append(Calls(ctx.buf), Call)
    BY <1>0, <1>1, <2>1, <2>2, CallsOfAppend
  <2> QED
    BY <2>1, <2>2, <2>3 DEF SameCount, SameSwitch, DS!Next, DS!Record
<1>9. ASSUME NEW ts \in Nat, Opens(ts) PROVE UNCHANGED DS!vars
  BY <1>9 DEF Opens, OpensTo, SameCount, SameSwitch, Calls, DS!vars
<1>10. ASSUME NEW ts \in Nat, Closes(ts) \/ Replaces(ts) PROVE DS!Flush
  <2> DEFINE p == Closed(ctx, ts)
  <2>1. /\ p \in Packet
        /\ backend' = Append(backend, p)
        /\ ctx.packet_is_open
    BY <1>0, <1>10, StoredBy
  <2>2. /\ p.ers = ctx.buf.ers
        /\ p.seq_num = (Len(backend) % Word) % SeqMod
        /\ p.events_discarded = ctx.events_discarded % DiscardedMod
    BY <1>0, <2>1, ClosedFacts
  <2> HIDE DEF p
  <2>3. Len(Stream) = Len(backend)
    BY <1>0
  <2>4. AbstractPacket(p) = [calls |-> Pending,
                             seq_num |-> (Len(Stream) % Word) % SeqMod,
                             discarded |-> ctx.events_discarded % DiscardedMod]
    BY <2>1, <2>2, <2>3 DEF AbstractPacket, Calls
  <2>5. Stream' = Append(Stream, AbstractPacket(p))
    BY <1>0, <2>1, StreamOfAppend
  <2>6. Pending' = << >>
    BY <1>10 DEF Closes, Replaces, ClosesTo, OpensTo, Calls
  <2>7. /\ ctx'.is_tracing_enabled = ctx.is_tracing_enabled
        /\ ctx'.events_discarded = ctx.events_discarded
        /\ UNCHANGED fate
    BY <1>10 DEF Closes, Replaces, ClosesTo, OpensTo, SameCount, SameSwitch
  <2> QED
    BY <2>4, <2>5, <2>6, <2>7 DEF DS!Flush
<1> QED
  BY <1>1, <1>4, <1>5, <1>6, <1>7, <1>8, <1>9, <1>10 DEF Kinds, Moves, DS!Next

(* The tracer implements the data stream: each call of a tracing function  *)
(* is one recorded, discarded or ignored call of the abstract stream, and  *)
(* each packet that is stored is one flush of the calls recorded since the *)
(* last, with the sequence number and the counter snapshot the abstract    *)
(* stream gives it (open_packet, close_packet, _reserve_er_space,          *)
(* _commit_er and the callbacks together).                                 *)
THEOREM TracerImplementsStream ==
    ASSUME ClosesWhenEnabled
    PROVE  Spec => ImplementsDataStream
<1>1. Init => DS!Init
  <2> SUFFICES ASSUME Init PROVE DS!Init
    OBVIOUS
  <2>1. PICK size \in BufSizes, g \in Garbage, off \in ContentOffsets :
          ctx = OpenPacket(CtxInit(size, g), 0, off)
    BY DEF Init
  <2> DEFINE c == CtxInit(size, g)
  <2>2. size \in Nat /\ g \in Nat
    BY TracerAssumption, CtxAssumption
  <2>3. /\ c \in CtxType /\ MayAlter(c) /\ ~c.packet_is_open
        /\ c.events_discarded = 0 /\ c.is_tracing_enabled = TRUE
    BY <2>2, CtxInitType DEF CtxInit, MayAlter
  <2>4. ctx = OpenPacket(c, 0, off)
    BY <2>1
  <2> HIDE DEF c
  <2>5. OpensTo(c, ctx, PacketTimestamp(c, 0)) /\ SameSwitch(c, ctx)
    BY <2>3, <2>4, OpeningEffect
  <2>6. Calls(ctx.buf) = << >>
    BY <2>5 DEF OpensTo, Calls
  <2>7. backend = << >> /\ fate = << >>
    BY DEF Init
  <2> QED
    BY <2>3, <2>5, <2>6, <2>7 DEF OpensTo, SameCount, SameSwitch, DS!Init
<1>2. NumberInv /\ [Next]_vars => NumberInv'
  BY NextNumber
<1>3. NumberInv /\ [Next]_vars => [DS!Next]_(DS!vars)
  BY NextSimulates
<1> QED
  BY <1>1, <1>2, <1>3, InitNumber, PTL DEF Spec, ImplementsDataStream, DS!Spec

-----------------------------------------------------------------------------
(* Closed packets. *)

(* What the open packet will tell when it is closed.                       *)
ClosedInv ==
    /\ FlowInv
    /\ SpaceInv
    /\ ctx.packet_is_open =>
        EndOfContent(ctx.buf) = ctx.at /\ ctx.buf.packet_size = ctx.packet_size
    /\ PacketsAreClosed

(* Nothing is stored yet, and the first packet has no content.             *)
LEMMA InitClosed == ASSUME HeadersFit PROVE Init => ClosedInv
<1> SUFFICES ASSUME Init PROVE ClosedInv
  OBVIOUS
<1>1. PICK size \in BufSizes, g \in Garbage, off \in ContentOffsets :
        ctx = OpenPacket(CtxInit(size, g), 0, off)
  BY DEF Init
<1> DEFINE c == CtxInit(size, g)
<1>2. size \in Nat /\ g \in Nat
  BY TracerAssumption, CtxAssumption
<1>3. c \in CtxType /\ MayAlter(c) /\ ~c.packet_is_open
  BY <1>2, CtxInitType DEF CtxInit, MayAlter
<1>4. ctx = OpenPacket(c, 0, off)
  BY <1>1
<1> HIDE DEF c
<1>5. OpensTo(c, ctx, PacketTimestamp(c, 0))
  BY <1>3, <1>4, OpeningEffect
<1>6. backend = << >>
  BY DEF Init
<1> QED
  BY <1>5, <1>6, InitFlow, InitSpace DEF ClosedInv, OpensTo, EndOfContent, PacketsAreClosed

(* A record that is appended ends the content of its packet.               *)
LEMMA EndOfAppend ==
    ASSUME NEW p \in Packet, NEW q \in Packet, NEW e \in ErImage,
           q.ers = Append(p.ers, e)
    PROVE  EndOfContent(q) = e.end
<1>1. p.ers \in Seq(ErImage)
  BY DEF Packet
<1>2. /\ Len(q.ers) = Len(p.ers) + 1
      /\ q.ers[Len(p.ers) + 1] = e
      /\ Len(p.ers) \in Nat
  BY <1>1, AppendedFacts
<1>3. Len(q.ers) # 0
  BY <1>2
<1>4. q.ers # << >>
  <2>1. Len(<< >>) = 0
    OBVIOUS
  <2> QED
    BY <1>3, <2>1
<1> QED
  BY <1>2, <1>4 DEF EndOfContent

(* Every step keeps the stored packets closed: each tells the size of what *)
(* it holds.                                                               *)
LEMMA NextClosed ==
    ASSUME AcceptedRecordsFit, ClosesWhenEnabled
    PROVE  ClosedInv /\ [Next]_vars => ClosedInv'
<1> SUFFICES ASSUME ClosedInv, [Next]_vars PROVE ClosedInv'
  OBVIOUS
<1> DEFINE Told == ctx.packet_is_open =>
                      EndOfContent(ctx.buf) = ctx.at /\ ctx.buf.packet_size = ctx.packet_size
<1>0. /\ FlowInv
      /\ ctx \in CtxType
      /\ ctx.buf \in Packet
      /\ backend \in Seq(Packet)
      /\ Told
      /\ PacketsAreClosed
      /\ ctx.packet_is_open => ctx.at <= ctx.packet_size
  BY DEF ClosedInv, FlowInv, SectionInv, TypeOK, CtxType, SpaceInv, Bounded
<1>1. Kinds /\ FlowInv' /\ SpaceInv' /\ ctx' \in CtxType /\ ctx'.buf \in Packet
  <2>1. SameSizeWhenDisabled
    BY DEF ClosesWhenEnabled, SameSizeWhenDisabled
  <2>2. Kinds /\ FlowInv' /\ SpaceInv'
    BY <2>1, NextFlow, NextSpace DEF ClosedInv
  <2> QED
    BY <2>2 DEF FlowInv, SectionInv, TypeOK, CtxType
<1>2. ASSUME Quiet PROVE Told' /\ PacketsAreClosed'
  <2>1. /\ ctx'.packet_is_open = ctx.packet_is_open
        /\ ctx'.buf = ctx.buf
        /\ ctx'.at = ctx.at
        /\ ctx'.packet_size = ctx.packet_size
        /\ backend' = backend
    BY <1>2 DEF Quiet, PacketState
  <2> QED
    BY <1>0, <2>1 DEF PacketsAreClosed
<1>3. ASSUME Writes PROVE Told' /\ PacketsAreClosed'
  <2> DEFINE e == [id |-> Call, ts |-> ctx.cur_last_event_ts, end |-> ctx'.at]
  <2>1. e \in ErImage /\ e.end = ctx'.at
    <3>1. Call \in Nat
      BY <1>0 DEF FlowInv, SectionInv, TypeOK, Call
    <3> QED
      BY <1>0, <1>1, <3>1 DEF ErImage, CtxType
  <2>2. /\ ctx.packet_is_open
        /\ ctx'.buf.ers = Append(ctx.buf.ers, e)
        /\ ctx'.buf.packet_size = ctx.buf.packet_size
        /\ ctx'.packet_size = ctx.packet_size
        /\ backend' = backend
    BY <1>0, <1>3 DEF Writes, WritesTo, Packet
  <2> HIDE DEF e
  <2>3. EndOfContent(ctx'.buf) = ctx'.at
    BY <1>0, <1>1, <2>1, <2>2, EndOfAppend
  <2> QED
    BY <1>0, <2>2, <2>3 DEF PacketsAreClosed
<1>4. ASSUME NEW ts \in Nat, Opens(ts) PROVE Told' /\ PacketsAreClosed'
  BY <1>0, <1>4 DEF Opens, OpensTo, EndOfContent, PacketsAreClosed
<1>5. ASSUME NEW ts \in Nat, Closes(ts) \/ Replaces(ts) PROVE Told' /\ PacketsAreClosed'
  <2> DEFINE p == Closed(ctx, ts)
  <2>1. Told'
    BY <1>5 DEF Closes, Replaces, ClosesTo, OpensTo, EndOfContent
  <2>2. EndOfContent(p) = EndOfContent(ctx.buf) /\ p.content_size = ctx.at
        /\ p.packet_size = ctx.buf.packet_size /\ ctx.packet_is_open
    BY <1>0, <1>5, ClosedFacts, StoredBy DEF EndOfContent
  <2>3. PacketsAreClosed'
    <3> SUFFICES ASSUME NEW i \in DOMAIN backend'
                 PROVE  /\ backend'[i].content_size = EndOfContent(backend'[i])
                        /\ backend'[i].content_size <= backend'[i].packet_size
      BY DEF PacketsAreClosed
    <3>1. CASE i \in DOMAIN backend
      BY <1>0, <1>5, <3>1, StoredBy DEF PacketsAreClosed
    <3>2. CASE i = Len(backend) + 1
      <4>1. backend'[i] = p
        BY <1>0, <1>5, <3>2, StoredBy
      <4> QED
        BY <1>0, <2>2, <4>1
    <3> QED
      BY <1>0, <1>5, <3>1, <3>2, StoredBy
  <2> QED
    BY <2>1, <2>3
<1>6. Told' /\ PacketsAreClosed'
  <2> HIDE DEF Told
  <2> QED
    BY <1>1, <1>2, <1>3, <1>4, <1>5 DEF Kinds, Stays, Switches, Ignores, Discards, Moves
<1> QED
  BY <1>1, <1>6 DEF ClosedInv

(* Every packet of the back end tells where its content ends, within its   *)
(* size: the closing function writes it from the offset of the context,    *)
(* which is that of the packet in the buffer.                              *)
THEOREM StoredPacketsAreClosed ==
    ASSUME AcceptedRecordsFit, ClosesWhenEnabled
    PROVE  Spec => []PacketsAreClosed
<1>1. ClosedInv /\ [Next]_vars => ClosedInv'
  BY NextClosed
<1>2. ClosedInv => PacketsAreClosed
  BY DEF ClosedInv
<1>3. Init => ClosedInv
  BY InitClosed DEF AcceptedRecordsFit
<1> QED
  BY <1>1, <1>2, <1>3, PTL DEF Spec

-----------------------------------------------------------------------------
(* Time. *)

(* The snapshots of a packet in terms of its event records: each follows   *)
(* the beginning of the packet and the previous record, and precedes t.    *)
Rising(p) ==
    /\ \A k \in DOMAIN p.ers : p.begin <= p.ers[k].ts
    /\ \A j, k \in DOMAIN p.ers : j <= k => p.ers[j].ts <= p.ers[k].ts

Until(p, t) == p.begin <= t /\ \A k \in DOMAIN p.ers : p.ers[k].ts <= t

(* A packet whose times rise until t is ascending with t as its end time.  *)
LEMMA RisingAscends ==
    ASSUME NEW p \in Packet, NEW t \in Nat, Rising(p), Until(p, t)
    PROVE  Ascending(Timestamps(p) \o << t >>)
<1> DEFINE n == Len(p.ers)
           F == [i \in DOMAIN p.ers |-> p.ers[i].ts]
           s == Timestamps(p) \o << t >>
<1>1. /\ p.begin \in Nat
      /\ n \in Nat
      /\ DOMAIN p.ers = 1 .. n
      /\ \A i \in 1 .. n : p.ers[i] \in ErImage
  BY DEF Packet
<1>2. \A i \in 1 .. n : p.ers[i].ts \in Nat
  BY <1>1 DEF ErImage
<1>3. F \in Seq(Nat) /\ Len(F) = n /\ \A i \in 1 .. n : F[i] = p.ers[i].ts
  BY <1>1, <1>2
<1> HIDE DEF F, n
<1>4. /\ << p.begin >> \o F \in Seq(Nat)
      /\ Len(<< p.begin >> \o F) = n + 1
      /\ (<< p.begin >> \o F)[1] = p.begin
      /\ \A i \in 2 .. (n + 1) : (<< p.begin >> \o F)[i] = F[i - 1]
  BY <1>1, <1>3
<1>5. Timestamps(p) = << p.begin >> \o F
  BY DEF Timestamps, F
<1>6. /\ DOMAIN s = 1 .. (n + 2)
      /\ s[1] = p.begin
      /\ \A i \in 2 .. (n + 1) : s[i] = F[i - 1]
      /\ s[n + 2] = t
  <2> DEFINE G == << p.begin >> \o F
  <2>1. G \in Seq(Nat) /\ Len(G) = n + 1
    BY <1>4
  <2>2. s = G \o << t >>
    BY <1>5
  <2>3. G[1] = p.begin /\ \A i \in 2 .. (n + 1) : G[i] = F[i - 1]
    BY <1>4
  <2> HIDE DEF G, s
  <2>4. /\ DOMAIN (G \o << t >>) = 1 .. (n + 2)
        /\ \A i \in 1 .. (n + 1) : (G \o << t >>)[i] = G[i]
        /\ (G \o << t >>)[n + 2] = t
    BY <1>1, <2>1
  <2> QED
    BY <1>1, <2>2, <2>3, <2>4
<1> HIDE DEF s
<1>7. /\ \A k \in 1 .. n : p.begin <= F[k] /\ F[k] <= t /\ F[k] \in Nat
      /\ \A j, k \in 1 .. n : j <= k => F[j] <= F[k]
      /\ p.begin <= t
  <2>1. \A k \in 1 .. n : p.begin <= F[k] /\ F[k] <= t
    BY <1>1, <1>3 DEF Rising, Until
  <2>2. \A k \in 1 .. n : F[k] \in Nat
    BY <1>2, <1>3
  <2>3. \A j, k \in 1 .. n : j <= k => F[j] <= F[k]
    <3> SUFFICES ASSUME NEW j \in 1 .. n, NEW k \in 1 .. n, j <= k PROVE F[j] <= F[k]
      OBVIOUS
    <3>1. p.ers[j].ts <= p.ers[k].ts
      BY <1>1 DEF Rising
    <3> QED
      BY <1>3, <3>1
  <2> QED
    BY <2>1, <2>2, <2>3 DEF Until
<1>8. ASSUME NEW i \in 1 .. (n + 2), NEW j \in 1 .. (n + 2), i <= j PROVE s[i] <= s[j]
  <2>1. CASE i = 1
    <3>1. CASE j = 1
      BY <1>1, <1>6, <2>1, <3>1
    <3>2. CASE j \in 2 .. (n + 1)
      <4>1. j - 1 \in 1 .. n /\ s[j] = F[j - 1]
        BY <1>1, <1>6, <3>2
      <4> QED
        BY <1>6, <1>7, <2>1, <4>1
    <3>3. CASE j = n + 2
      BY <1>1, <1>6, <1>7, <2>1, <3>3
    <3> QED
      BY <1>1, <3>1, <3>2, <3>3
  <2>2. CASE i \in 2 .. (n + 1)
    <3>1. i - 1 \in 1 .. n /\ s[i] = F[i - 1]
      BY <1>1, <1>6, <2>2
    <3>2. CASE j \in 2 .. (n + 1)
      <4>1. j - 1 \in 1 .. n /\ s[j] = F[j - 1] /\ i - 1 <= j - 1
        BY <1>1, <1>6, <1>8, <3>1, <3>2
      <4> QED
        BY <1>7, <3>1, <4>1
    <3>3. CASE j = n + 2
      BY <1>6, <1>7, <3>1, <3>3
    <3> QED
      BY <1>1, <1>8, <2>2, <3>2, <3>3
  <2>3. CASE i = n + 2
    BY <1>1, <1>6, <1>8, <2>3
  <2> QED
    BY <1>1, <2>1, <2>2, <2>3
<1> QED
  BY <1>6, <1>8 DEF Ascending, s

(* Opening, closing and setting a buffer do not change the saved           *)
(* timestamp.                                                              *)
LEMMA OpeningKeepsTimestamp ==
    ASSUME NEW c \in CtxType, NEW now \in Nat, NEW off \in ContentOffsets
    PROVE  OpenPacketForEvent(c, now, off).cur_last_event_ts = c.cur_last_event_ts
<1> DEFINE b == [c EXCEPT !.use_cur_last_event_ts = TRUE]
           d == OpenPacket(b, now, off)
<1>1. b \in CtxType /\ b.cur_last_event_ts = c.cur_last_event_ts
  BY DEF CtxType
<1>2. OpenPacketForEvent(c, now, off) = [d EXCEPT !.use_cur_last_event_ts = FALSE]
  BY DEF OpenPacketForEvent
<1> HIDE DEF b
<1>3. d \in CtxType
  <2>1. off \in Nat
    BY TracerAssumption
  <2> QED
    BY <1>1, <2>1, OpenPacketKeeps
<1>4. d.cur_last_event_ts = b.cur_last_event_ts
  BY <1>1, <1>3 DEF OpenPacket, CtxType
<1> HIDE DEF d
<1> QED
  BY <1>1, <1>2, <1>3, <1>4 DEF CtxType

(* A close on behalf of a tracing function leaves the timestamp that       *)
(* function has saved.                                                     *)
LEMMA ClosingKeepsTimestamp ==
    ASSUME NEW c \in CtxType, NEW now \in Nat, NEW size \in BufSizes
    PROVE  AfterClosing(ClosePacketForEvent(c, now), size).cur_last_event_ts
             = c.cur_last_event_ts
<1> DEFINE b == [c EXCEPT !.use_cur_last_event_ts = TRUE]
           d == ClosePacket(b, now)
           e == [d EXCEPT !.use_cur_last_event_ts = FALSE]
<1>1. b \in CtxType /\ b.cur_last_event_ts = c.cur_last_event_ts
  BY DEF CtxType
<1>2. ClosePacketForEvent(c, now) = e
  BY DEF ClosePacketForEvent
<1> HIDE DEF b
<1>3. d \in CtxType
  BY <1>1, ClosePacketFacts
<1>4. d.cur_last_event_ts = b.cur_last_event_ts
  BY <1>1, <1>3 DEF ClosePacket, CtxType
<1> HIDE DEF d
<1>5. e \in CtxType /\ e.cur_last_event_ts = d.cur_last_event_ts
  BY <1>3 DEF CtxType
<1> HIDE DEF e
<1>6. AfterClosing(e, size).cur_last_event_ts = e.cur_last_event_ts
  BY <1>5 DEF AfterClosing, PacketSetBuf, CtxType
<1> QED
  BY <1>1, <1>2, <1>4, <1>5, <1>6

(* The time of the current step never goes back and is not after the       *)
(* clock, if the clock is not set back and no interrupt handler starts a   *)
(* packet during a call.                                                   *)
LEMMA TimeAdvances ==
    ASSUME ~AsyncFlush, ~RealtimeClock
    PROVE  FlowInv /\ EventTime <= clock /\ [Next]_vars
             => EventTime <= EventTime' /\ EventTime' <= clock'
<1> SUFFICES ASSUME FlowInv, EventTime <= clock, [Next]_vars
             PROVE  EventTime <= EventTime' /\ EventTime' <= clock'
  OBVIOUS
<1> DEFINE Good == EventTime <= EventTime' /\ EventTime' <= clock'
<1>0. /\ ctx \in CtxType
      /\ clock \in Nat
      /\ ctx.cur_last_event_ts \in Nat
      /\ EventTime \in Nat
  BY DEF FlowInv, SectionInv, TypeOK, CtxType, EventTime
<1>a. ASSUME pc' \notin CallSteps, clock' = clock PROVE Good
  BY <1>0, <1>a DEF EventTime
<1>b. ASSUME pc \in CallSteps, pc' \in CallSteps, clock' \in Nat, clock <= clock',
             ctx'.cur_last_event_ts = ctx.cur_last_event_ts
      PROVE  Good
  BY <1>0, <1>b DEF EventTime
<1>1. ASSUME SaveTimestamp PROVE Good
  <2>1. EventTime = clock /\ EventTime' = clock /\ clock' = clock
    BY <1>0, <1>1 DEF SaveTimestamp, EventTime, CallSteps, CtxType
  <2> QED
    BY <1>0, <2>1
<1>2. ASSUME TracingDisabled \/ DiscardOversized \/ DiscardWhenFull \/ DiscardAfterClose
             \/ SerializeEr \/ CommitEr \/ CommitFull \/ Fini
      PROVE  Good
  <2>1. pc' \in {"idle", "commit", "finished"} /\ clock' = clock
    BY <1>2 DEF TracingDisabled, DiscardOversized, DiscardWhenFull, DiscardAfterClose,
                NoSpace, SerializeEr, CommitEr, CommitFull, Fini
  <2> QED
    BY <1>a, <2>1 DEF CallSteps
<1>3. ASSUME TracingEnabled \/ EnterSection \/ UseCurrentPacket \/ RecordFits PROVE Good
  <2>1. /\ pc \in CallSteps /\ pc' \in CallSteps /\ clock' = clock
        /\ ctx'.cur_last_event_ts = ctx.cur_last_event_ts
    BY <1>0, <1>3 DEF TracingEnabled, EnterSection, UseCurrentPacket, RecordFits, CallSteps,
                      CtxType
  <2> QED
    BY <1>0, <1>b, <2>1
<1>4. ASSUME OpenWhenFull \/ OpenAfterClose \/ CloseForSpace PROVE Good
  <2>1. ctx'.cur_last_event_ts = ctx.cur_last_event_ts
    <3>2. CASE OpenWhenFull \/ OpenAfterClose
      <4>1. PICK off \in ContentOffsets : ctx' = OpenPacketForEvent(ctx, clock, off)
        BY <3>2 DEF OpenWhenFull, OpenAfterClose
      <4> QED
        BY <1>0, <4>1, OpeningKeepsTimestamp
    <3>3. CASE CloseForSpace
      BY <1>0, <3>3, ClosingKeepsTimestamp DEF CloseForSpace
    <3> QED
      BY <1>4, <3>2, <3>3
  <2>2. pc \in CallSteps /\ pc' \in CallSteps /\ clock' = clock
    BY <1>4 DEF OpenWhenFull, OpenAfterClose, CloseForSpace, CallSteps
  <2> QED
    BY <1>0, <1>b, <2>1, <2>2
<1>5. ASSUME ReplacePacket \/ StartPacket PROVE Good
  <2>1. pc = "idle" /\ pc' = pc /\ clock' = clock
    BY <1>5 DEF ReplacePacket, StartPacket, MayStartPacket
  <2> QED
    BY <1>a, <2>1 DEF CallSteps
<1>6. ASSUME SetTracing \/ BackendChanges \/ Tick \/ UNCHANGED vars PROVE Good
  <2>1. /\ clock' \in Nat /\ clock <= clock' /\ pc' = pc
        /\ ctx'.cur_last_event_ts = ctx.cur_last_event_ts
    BY <1>0, <1>6 DEF SetTracing, EnableTracing, BackendChanges, Tick, vars, CtxType
  <2> QED
    BY <1>0, <2>1 DEF EventTime
<1>7. ~ClockSetBack
  BY DEF ClockSetBack
<1> QED
  <2> HIDE DEF Good
  <2>1. Good
    BY <1>1, <1>2, <1>3, <1>4, <1>5, <1>6, <1>7 DEF Next, TracingCallStep, Platform, Environment
  <2> QED
    BY <2>1 DEF Good

(* The open packet's snapshots precede the time of the current step, and   *)
(* the packets of the back end precede the open one.                       *)
TimeInv ==
    /\ FlowInv
    /\ EventTime <= clock
    /\ ctx.packet_is_open => Rising(ctx.buf) /\ Until(ctx.buf, EventTime)
    /\ \A i \in DOMAIN backend : Rising(backend[i]) /\ Until(backend[i], backend[i].end)
    /\ \A i \in DOMAIN backend : i > 1 => backend[i - 1].end <= backend[i].begin
    /\ backend # << >> =>
        backend[Len(backend)].end <= IF ctx.packet_is_open THEN ctx.buf.begin ELSE EventTime

(* The first packet starts at time 0.                                      *)
LEMMA InitTime == ASSUME ~AsyncFlush, ~RealtimeClock PROVE Init => TimeInv
<1> SUFFICES ASSUME Init PROVE TimeInv
  OBVIOUS
<1>1. PICK size \in BufSizes, g \in Garbage, off \in ContentOffsets :
        ctx = OpenPacket(CtxInit(size, g), 0, off)
  BY DEF Init
<1> DEFINE c == CtxInit(size, g)
<1>2. size \in Nat /\ g \in Nat
  BY TracerAssumption, CtxAssumption
<1>3. c \in CtxType /\ MayAlter(c) /\ ~c.packet_is_open /\ PacketTimestamp(c, 0) = 0
  BY <1>2, CtxInitType DEF CtxInit, MayAlter, PacketTimestamp
<1>4. ctx = OpenPacket(c, 0, off)
  BY <1>1
<1> HIDE DEF c
<1>5. OpensTo(c, ctx, 0)
  BY <1>3, <1>4, OpeningEffect
<1>6. backend = << >> /\ clock = 0 /\ EventTime = 0
  BY DEF Init, EventTime, CallSteps
<1>7. Rising(ctx.buf) /\ Until(ctx.buf, EventTime)
  BY <1>5, <1>6 DEF OpensTo, Rising, Until
<1> QED
  BY <1>6, <1>7, InitFlow DEF TimeInv

(* Later is after as well. *)
LEMMA UntilLater ==
    ASSUME NEW p \in Packet, NEW t \in Nat, NEW u \in Nat, Until(p, t), t <= u
    PROVE  Until(p, u)
<1>1. p.begin \in Nat /\ \A k \in DOMAIN p.ers : p.ers[k] \in ErImage
  BY DEF Packet
<1>2. \A k \in DOMAIN p.ers : p.ers[k].ts \in Nat
  BY <1>1 DEF ErImage
<1> QED
  BY <1>1, <1>2 DEF Until

(* A record written at a time that is not before the others keeps the      *)
(* order.                                                                  *)
LEMMA RisingAppend ==
    ASSUME NEW p \in Packet, NEW q \in Packet, NEW e \in ErImage,
           q.ers = Append(p.ers, e), q.begin = p.begin, Rising(p), Until(p, e.ts)
    PROVE  Rising(q) /\ Until(q, e.ts)
<1>1. p.ers \in Seq(ErImage)
  BY DEF Packet
<1>2. /\ DOMAIN q.ers = 1 .. (Len(p.ers) + 1)
      /\ \A i \in DOMAIN p.ers : q.ers[i] = p.ers[i]
      /\ q.ers[Len(p.ers) + 1] = e
      /\ DOMAIN p.ers = 1 .. Len(p.ers)
      /\ Len(p.ers) \in Nat
  BY <1>1, AppendedFacts
<1>3. e.ts \in Nat
  BY DEF ErImage
<1>4. \A k \in DOMAIN q.ers : k \in DOMAIN p.ers \/ k = Len(p.ers) + 1
  BY <1>2
<1>5. \A k \in DOMAIN q.ers : q.begin <= q.ers[k].ts /\ q.ers[k].ts <= e.ts
  BY <1>2, <1>3, <1>4 DEF Rising, Until
<1>6. ASSUME NEW j \in DOMAIN q.ers, NEW k \in DOMAIN q.ers, j <= k
      PROVE  q.ers[j].ts <= q.ers[k].ts
  <2>1. CASE k = Len(p.ers) + 1
    BY <1>2, <1>5, <2>1
  <2>2. CASE k \in DOMAIN p.ers
    <3>1. j \in DOMAIN p.ers
      BY <1>2, <1>6, <2>2
    <3> QED
      BY <1>2, <1>6, <2>2, <3>1 DEF Rising
  <2> QED
    BY <1>4, <2>1, <2>2
<1> QED
  BY <1>5, <1>6 DEF Rising, Until

(* Every step keeps the times of the packets in order, when nothing but    *)
(* the tracing functions opens and closes packets and the clock does not   *)
(* go back.                                                                *)
LEMMA NextTime ==
    ASSUME ClosesWhenEnabled, ~AsyncFlush, ~RealtimeClock
    PROVE  TimeInv /\ [Next]_vars => TimeInv'
<1> SUFFICES ASSUME TimeInv, [Next]_vars PROVE TimeInv'
  OBVIOUS
<1> DEFINE Open == ctx.packet_is_open => Rising(ctx.buf) /\ Until(ctx.buf, EventTime)
           Stored == /\ \A i \in DOMAIN backend :
                           Rising(backend[i]) /\ Until(backend[i], backend[i].end)
                     /\ \A i \in DOMAIN backend :
                           i > 1 => backend[i - 1].end <= backend[i].begin
           Last == backend # << >> =>
                     backend[Len(backend)].end
                       <= IF ctx.packet_is_open THEN ctx.buf.begin ELSE EventTime
           Good == Open' /\ Stored' /\ Last'
<1>0. /\ FlowInv
      /\ ctx \in CtxType
      /\ ctx.buf \in Packet
      /\ backend \in Seq(Packet)
      /\ EventTime \in Nat
      /\ Open /\ Stored /\ Last
  BY DEF TimeInv, FlowInv, SectionInv, TypeOK, CtxType, EventTime
<1>1. /\ Kinds /\ FlowInv'
      /\ ctx' \in CtxType /\ ctx'.buf \in Packet
      /\ EventTime' \in Nat
  <2>1. Kinds /\ FlowInv'
    BY <1>0, NextFlow
  <2>2. TypeOK'
    BY <2>1 DEF FlowInv, SectionInv
  <2> QED
    BY <2>1, <2>2 DEF TypeOK, CtxType, EventTime
<1>2. EventTime <= EventTime' /\ EventTime' <= clock'
  BY <1>0, TimeAdvances DEF TimeInv
<1>b. backend # << >> => /\ Len(backend) \in DOMAIN backend
                         /\ backend[Len(backend)] \in Packet
                         /\ backend[Len(backend)].end \in Nat
  <2> SUFFICES ASSUME backend # << >>
               PROVE  /\ Len(backend) \in DOMAIN backend
                      /\ backend[Len(backend)] \in Packet
                      /\ backend[Len(backend)].end \in Nat
    OBVIOUS
  <2>1. Len(backend) \in DOMAIN backend
    BY <1>0
  <2>2. backend[Len(backend)] \in Packet
    BY <1>0, <2>1
  <2> QED
    BY <2>1, <2>2 DEF Packet
<1>3. ASSUME Quiet PROVE Good
  <2>1. /\ ctx'.packet_is_open = ctx.packet_is_open
        /\ ctx'.buf = ctx.buf
        /\ backend' = backend
    BY <1>3 DEF Quiet, PacketState
  <2>2. Open'
    BY <1>0, <1>1, <1>2, <2>1, UntilLater
  <2>3. Last'
    BY <1>0, <1>1, <1>2, <1>b, <2>1
  <2> QED
    BY <1>0, <2>1, <2>2, <2>3
<1>4. ASSUME Writes, pc = "serialize" PROVE Good
  <2> DEFINE e == [id |-> Call, ts |-> ctx.cur_last_event_ts, end |-> ctx'.at]
  <2>1. e \in ErImage /\ e.ts = EventTime
    <3>1. Call \in Nat
      BY <1>0 DEF FlowInv, SectionInv, TypeOK, Call
    <3> QED
      BY <1>0, <1>1, <1>4, <3>1 DEF ErImage, CtxType, EventTime, CallSteps
  <2>2. /\ ctx.packet_is_open /\ ctx'.packet_is_open
        /\ ctx'.buf.ers = Append(ctx.buf.ers, e)
        /\ ctx'.buf.begin = ctx.buf.begin
        /\ backend' = backend
    BY <1>0, <1>4 DEF Writes, WritesTo, Packet
  <2> HIDE DEF e
  <2>3. Rising(ctx'.buf) /\ Until(ctx'.buf, EventTime)
    BY <1>0, <1>1, <2>1, <2>2, RisingAppend
  <2>4. Until(ctx'.buf, EventTime')
    BY <1>0, <1>1, <1>2, <2>3, UntilLater
  <2> QED
    BY <1>0, <2>2, <2>3, <2>4
<1>5. ASSUME Opens(EventTime) PROVE Good
  <2>1. /\ ~ctx.packet_is_open /\ ctx'.packet_is_open
        /\ ctx'.buf.begin = EventTime /\ ctx'.buf.ers = << >>
        /\ backend' = backend
    BY <1>5 DEF Opens, OpensTo
  <2>2. Open'
    BY <1>2, <2>1 DEF Rising, Until
  <2> QED
    BY <1>0, <2>1, <2>2
<1>6. ASSUME Closes(EventTime) \/ Replaces(EventTime) PROVE Good
  <2> DEFINE p == Closed(ctx, EventTime)
             n == Len(backend)
  <2>1. /\ ctx.packet_is_open
        /\ p \in Packet
        /\ p.end = EventTime /\ p.begin = ctx.buf.begin /\ p.ers = ctx.buf.ers
    BY <1>0, <1>6, StoredBy, ClosedFacts
  <2>2. /\ Len(backend') = n + 1
        /\ DOMAIN backend' = 1 .. (n + 1)
        /\ DOMAIN backend = 1 .. n
        /\ n \in Nat
        /\ \A i \in DOMAIN backend : backend'[i] = backend[i]
        /\ backend'[n + 1] = p
    BY <1>0, <1>6, StoredBy
  <2> HIDE DEF p
  <2>3. Rising(p) /\ Until(p, p.end)
    BY <1>0, <2>1 DEF Rising, Until
  <2>4. \A i \in DOMAIN backend' : Rising(backend'[i]) /\ Until(backend'[i], backend'[i].end)
    <3> SUFFICES ASSUME NEW i \in DOMAIN backend'
                 PROVE  Rising(backend'[i]) /\ Until(backend'[i], backend'[i].end)
      OBVIOUS
    <3>1. CASE i \in DOMAIN backend
      BY <1>0, <2>2, <3>1
    <3>2. CASE i = n + 1
      BY <2>2, <2>3, <3>2
    <3> QED
      BY <2>2, <3>1, <3>2
  <2>5. \A i \in DOMAIN backend' : i > 1 => backend'[i - 1].end <= backend'[i].begin
    <3> SUFFICES ASSUME NEW i \in DOMAIN backend', i > 1
                 PROVE  backend'[i - 1].end <= backend'[i].begin
      OBVIOUS
    <3>1. CASE i \in DOMAIN backend
      <4>1. i - 1 \in DOMAIN backend
        BY <2>2, <3>1
      <4> QED
        BY <1>0, <2>2, <3>1, <4>1
    <3>2. CASE i = n + 1
      <4>1. n \in DOMAIN backend /\ backend # << >> /\ i - 1 = n
        BY <1>0, <2>2, <3>2
      <4>2. backend[n].end <= ctx.buf.begin
        BY <1>0, <2>1, <4>1
      <4> QED
        BY <2>1, <2>2, <3>2, <4>1, <4>2
    <3> QED
      BY <2>2, <3>1, <3>2
  <2>6. Open' /\ Last'
    <3>1. backend'[Len(backend')].end = EventTime
      BY <2>1, <2>2
    <3>2. CASE Closes(EventTime)
      BY <1>2, <3>1, <3>2 DEF Closes, ClosesTo
    <3>3. CASE Replaces(EventTime)
      <4>1. ctx'.packet_is_open /\ ctx'.buf.begin = EventTime /\ ctx'.buf.ers = << >>
        BY <3>3 DEF Replaces, OpensTo
      <4> QED
        BY <1>0, <1>2, <3>1, <4>1 DEF Rising, Until
    <3> QED
      BY <1>6, <3>2, <3>3
  <2> QED
    BY <2>4, <2>5, <2>6
<1>7. Good
  <2> HIDE DEF Good
  <2> QED
    BY <1>1, <1>3, <1>4, <1>5, <1>6
    DEF Kinds, Stays, Switches, Ignores, Discards, Moves
<1> QED
  BY <1>1, <1>2, <1>7 DEF TimeInv

(* Time never goes back along the data stream, if the clock does not and   *)
(* no interrupt handler starts a packet between the step that saves the    *)
(* timestamp of a record and the one that writes it: the opening and       *)
(* closing functions take that timestamp during the call and the clock     *)
(* otherwise.                                                              *)
THEOREM TimeNeverGoesBack ==
    ASSUME ClosesWhenEnabled, ~AsyncFlush, ~RealtimeClock
    PROVE  Spec => []TimestampsOrdered
<1>1. TimeInv /\ [Next]_vars => TimeInv'
  BY NextTime
<1>2. TimeInv => TimestampsOrdered
  <2> SUFFICES ASSUME TimeInv PROVE TimestampsOrdered
    OBVIOUS
  <2>0. /\ backend \in Seq(Packet)
        /\ clock \in Nat
        /\ EventTime \in Nat
        /\ ctx.buf \in Packet
    BY DEF TimeInv, FlowInv, SectionInv, TypeOK, CtxType, EventTime
  <2>1. ASSUME NEW i \in DOMAIN backend
        PROVE  Ascending(Timestamps(backend[i]) \o << backend[i].end >>)
    <3>1. backend[i] \in Packet
      BY <2>0
    <3>2. backend[i].end \in Nat
      BY <3>1 DEF Packet
    <3> QED
      BY <3>1, <3>2, RisingAscends DEF TimeInv
  <2>2. ASSUME ctx.packet_is_open
        PROVE  /\ Ascending(Timestamps(ctx.buf) \o << clock >>)
               /\ backend # << >> => backend[Len(backend)].end <= ctx.buf.begin
    <3>1. Rising(ctx.buf) /\ Until(ctx.buf, clock)
      BY <2>0, <2>2, UntilLater DEF TimeInv
    <3> QED
      BY <2>0, <2>2, <3>1, RisingAscends DEF TimeInv
  <2> QED
    BY <2>1, <2>2 DEF TimestampsOrdered, TimeInv
<1>3. Init => TimeInv
  BY InitTime
<1> QED
  BY <1>1, <1>2, <1>3, PTL DEF Spec

-----------------------------------------------------------------------------
(* Losses. *)

(* The counter and its snapshot agree on every number of losses the run    *)
(* may reach.                                                              *)
SnapshotIsExact == \A n \in 0 .. MaxCalls : (n % Word) % DiscardedMod = n % DiscardedMod

(* They do when the field is not wider than the counter, the moduli being  *)
(* powers of two, and when the counter does not wrap.                      *)
LEMMA NarrowSnapshot ==
    ASSUME Word % DiscardedMod = 0
    PROVE  SnapshotIsExact
<1> SUFFICES ASSUME NEW n \in 0 .. MaxCalls PROVE (n % Word) % DiscardedMod = n % DiscardedMod
  BY DEF SnapshotIsExact
<1>1. n \in Nat /\ Word \in Nat \ {0} /\ DiscardedMod \in Nat \ {0}
  BY CtxAssumption, TracerAssumption
<1> QED
  BY <1>1, ModOfMod

(* As long as the calls are fewer than the values of a machine word the    *)
(* counter never wraps, so that what a packet stores of it is exact.       *)
LEMMA FewCalls ==
    ASSUME MaxCalls < Word
    PROVE  SnapshotIsExact
<1> SUFFICES ASSUME NEW n \in 0 .. MaxCalls PROVE (n % Word) % DiscardedMod = n % DiscardedMod
  BY DEF SnapshotIsExact
<1>1. n \in 0 .. (Word - 1) /\ Word \in Nat \ {0}
  BY CtxAssumption, TracerAssumption
<1>2. n % Word = n
  BY <1>1
<1> QED
  BY <1>2

(* The calls among the first n whose records were discarded. *)
Losses(f, n) == {k \in 1 .. n : f[k] = "discarded"}

(* No more records are lost in the first n calls than there are calls.     *)
LEMMA LossesBound ==
    ASSUME NEW f, NEW n \in Nat
    PROVE  /\ IsFiniteSet(Losses(f, n))
           /\ Cardinality(Losses(f, n)) \in 0 .. n
<1>1. IsFiniteSet(1 .. n) /\ Cardinality(1 .. n) = n
  BY FS_Interval
<1>2. Losses(f, n) \subseteq 1 .. n
  BY DEF Losses
<1>3. IsFiniteSet(Losses(f, n)) /\ Cardinality(Losses(f, n)) <= n
  BY <1>1, <1>2, FS_Subset
<1> QED
  BY <1>3, FS_CardinalityType

(* One more call adds a loss when it discards, and moves none of the       *)
(* earlier ones.                                                           *)
LEMMA LossesAppend ==
    ASSUME NEW S, NEW f \in Seq(S), NEW x \in S
    PROVE  /\ \A n \in 0 .. Len(f) : Losses(Append(f, x), n) = Losses(f, n)
           /\ Cardinality(Losses(Append(f, x), Len(f) + 1))
                = Cardinality(Losses(f, Len(f))) + IF x = "discarded" THEN 1 ELSE 0
<1> DEFINE g == Append(f, x)
           n == Len(f)
<1>1. /\ n \in Nat
      /\ DOMAIN f = 1 .. n
      /\ \A i \in DOMAIN f : g[i] = f[i]
      /\ g[n + 1] = x
  BY AppendedFacts
<1> HIDE DEF g, n
<1>2. \A m \in 0 .. n : Losses(g, m) = Losses(f, m)
  BY <1>1 DEF Losses
<1>3. IsFiniteSet(Losses(f, n)) /\ Cardinality(Losses(f, n)) \in Nat
  BY <1>1, LossesBound
<1>4. CASE x = "discarded"
  <2>1. Losses(g, n + 1) = Losses(f, n) \cup {n + 1}
    BY <1>1, <1>4 DEF Losses
  <2>2. n + 1 \notin Losses(f, n)
    BY <1>1 DEF Losses
  <2>3. Cardinality(Losses(f, n) \cup {n + 1}) = Cardinality(Losses(f, n)) + 1
    BY <1>3, <2>2, FS_AddElement
  <2> QED
    BY <1>2, <1>4, <2>1, <2>3 DEF g, n
<1>5. CASE x # "discarded"
  <2>1. Losses(g, n + 1) = Losses(f, n)
    BY <1>1, <1>5 DEF Losses
  <2> QED
    BY <1>2, <1>3, <1>5, <2>1 DEF g, n
<1> QED
  BY <1>4, <1>5

(* There are never more calls than MaxCalls, the current one included.     *)
CallBound ==
    /\ Len(fate) <= MaxCalls
    /\ pc \in CallSteps => Len(fate) < MaxCalls

(* No step completes more than MaxCalls calls.                             *)
LEMMA NextCallBound == FlowInv /\ CallBound /\ [Next]_vars => CallBound'
<1> SUFFICES ASSUME FlowInv, CallBound, [Next]_vars PROVE CallBound'
  OBVIOUS
<1>0. fate \in Seq({"recorded", "discarded", "ignored"}) /\ Len(fate) \in Nat /\ MaxCalls \in Nat
  BY TracerAssumption DEF FlowInv, SectionInv, TypeOK
<1>1. \A f \in {"recorded", "discarded", "ignored"} :
        fate' = Append(fate, f) => Len(fate') = Len(fate) + 1
  BY <1>0
<1>2. ASSUME TracingDisabled \/ DiscardOversized \/ DiscardWhenFull \/ DiscardAfterClose
             \/ SerializeEr
      PROVE  CallBound'
  <2>1. Len(fate') = Len(fate) + 1
    BY <1>1, <1>2 DEF TracingDisabled, DiscardOversized, DiscardWhenFull, DiscardAfterClose,
                      NoSpace, SerializeEr
  <2>2. pc \in CallSteps /\ pc' \in {"idle", "commit"}
    BY <1>2 DEF TracingDisabled, DiscardOversized, DiscardWhenFull, DiscardAfterClose,
                NoSpace, SerializeEr, CallSteps
  <2> QED
    BY <1>0, <2>1, <2>2 DEF CallBound, CallSteps
<1>3. ASSUME TracingEnabled \/ EnterSection \/ OpenWhenFull \/ UseCurrentPacket \/ RecordFits
             \/ CloseForSpace \/ OpenAfterClose
      PROVE  CallBound'
  <2>1. pc \in CallSteps /\ fate' = fate
    BY <1>3 DEF TracingEnabled, EnterSection, OpenWhenFull, UseCurrentPacket, RecordFits,
                CloseForSpace, OpenAfterClose, CallSteps
  <2> QED
    BY <1>0, <2>1 DEF CallBound
<1>4. ASSUME SaveTimestamp PROVE CallBound'
  BY <1>0, <1>4 DEF SaveTimestamp, CallBound
<1>5. ASSUME CommitEr \/ CommitFull \/ Fini PROVE CallBound'
  <2>1. pc' \notin CallSteps /\ fate' = fate
    BY <1>5 DEF CommitEr, CommitFull, Fini, CallSteps
  <2> QED
    BY <2>1 DEF CallBound
<1>6. ASSUME ReplacePacket \/ StartPacket \/ Environment \/ UNCHANGED vars PROVE CallBound'
  <2>1. pc' = pc /\ fate' = fate
    BY <1>6 DEF ReplacePacket, StartPacket, Environment, SetTracing, BackendChanges, Tick,
                ClockSetBack, vars
  <2> QED
    BY <2>1 DEF CallBound
<1> QED
  BY <1>2, <1>3, <1>4, <1>5, <1>6 DEF Next, TracingCallStep, Platform

(* The counter counts the losses; every record that was written precedes   *)
(* the calls to come.                                                      *)
LossInv ==
    /\ FlowInv
    /\ CallBound
    /\ ctx.events_discarded = Discarded(Len(fate)) % Word
    /\ ctx.packet_is_open => \A e \in ErsOf(ctx.buf) : e.id <= Len(fate)
    /\ \A j \in DOMAIN backend : \A e \in ErsOf(backend[j]) : e.id <= Len(fate)
    /\ DiscardsArePlaced

(* The first packet starts with no losses.                                 *)
LEMMA InitLoss == Init => LossInv
<1> SUFFICES ASSUME Init PROVE LossInv
  OBVIOUS
<1>1. PICK size \in BufSizes, g \in Garbage, off \in ContentOffsets :
        ctx = OpenPacket(CtxInit(size, g), 0, off)
  BY DEF Init
<1> DEFINE c == CtxInit(size, g)
<1>2. size \in Nat /\ g \in Nat
  BY TracerAssumption, CtxAssumption
<1>3. c \in CtxType /\ MayAlter(c) /\ ~c.packet_is_open /\ c.events_discarded = 0
  BY <1>2, CtxInitType DEF CtxInit, MayAlter
<1>4. ctx = OpenPacket(c, 0, off)
  BY <1>1
<1> HIDE DEF c
<1>5. OpensTo(c, ctx, PacketTimestamp(c, 0))
  BY <1>3, <1>4, OpeningEffect
<1>6. backend = << >> /\ fate = << >> /\ pc = "idle"
  BY DEF Init
<1>7. ctx.events_discarded = Discarded(Len(fate)) % Word
  <2>1. Len(fate) = 0
    BY <1>6
  <2>2. Discarded(0) = 0
    BY LossesBound DEF Discarded, Losses
  <2>3. 0 % Word = 0
    BY CtxAssumption
  <2> QED
    BY <1>3, <1>5, <2>1, <2>2, <2>3 DEF OpensTo, SameCount
<1>8. ErsOf(ctx.buf) = {}
  BY <1>5 DEF OpensTo, ErsOf
<1>9. CallBound
  BY <1>6, TracerAssumption DEF CallBound, CallSteps
<1> QED
  BY <1>6, <1>7, <1>8, <1>9, InitFlow DEF LossInv, DiscardsArePlaced

(* A packet's records and snapshot do not depend on later calls.           *)
LEMMA PlacedByLaterCalls ==
    ASSUME DiscardsArePlaced, fate \in Seq({"recorded", "discarded", "ignored"}),
           NEW f \in {"recorded", "discarded", "ignored"}, fate' = Append(fate, f),
           backend' = backend,
           ctx'.packet_is_open => ctx.packet_is_open,
           ctx'.packet_is_open =>
             \A e \in ErsOf(ctx'.buf) : e \in ErsOf(ctx.buf) \/ e.id = Len(fate) + 1
    PROVE  DiscardsArePlaced'
<1>1. /\ Len(fate) \in Nat
      /\ Len(fate') = Len(fate) + 1
      /\ \A n \in 0 .. Len(fate) : Losses(fate', n) = Losses(fate, n)
  BY LossesAppend
<1> SUFFICES ASSUME NEW i \in DOMAIN backend
             PROVE  \E n \in 0 .. Len(fate') :
                        /\ backend[i].events_discarded = (Discarded(n))' % DiscardedMod
                        /\ \A j \in DOMAIN backend : \A e \in ErsOf(backend[j]) : j <= i <=> e.id <= n
                        /\ ctx'.packet_is_open => \A e \in ErsOf(ctx'.buf) : n < e.id
  BY DEF DiscardsArePlaced
<1>2. PICK n \in 0 .. Len(fate) :
        /\ backend[i].events_discarded = Discarded(n) % DiscardedMod
        /\ \A j \in DOMAIN backend : \A e \in ErsOf(backend[j]) : j <= i <=> e.id <= n
        /\ ctx.packet_is_open => \A e \in ErsOf(ctx.buf) : n < e.id
  BY DEF DiscardsArePlaced
<1>3. n \in 0 .. Len(fate')
  BY <1>1
<1>4. (Discarded(n))' = Discarded(n)
  BY <1>1 DEF Discarded, Losses
<1>5. ctx'.packet_is_open => \A e \in ErsOf(ctx'.buf) : n < e.id
  BY <1>1, <1>2
<1> QED
  BY <1>2, <1>3, <1>4, <1>5

(* Every step keeps the counts of the packets placed among the calls.      *)
LEMMA NextLoss ==
    ASSUME ClosesWhenEnabled, SnapshotIsExact
    PROVE  LossInv /\ [Next]_vars => LossInv'
<1> SUFFICES ASSUME LossInv, [Next]_vars PROVE LossInv'
  OBVIOUS
<1> DEFINE Fates == {"recorded", "discarded", "ignored"}
           Count == ctx.events_discarded = Discarded(Len(fate)) % Word
           Open == ctx.packet_is_open => \A e \in ErsOf(ctx.buf) : e.id <= Len(fate)
           Stored == \A j \in DOMAIN backend : \A e \in ErsOf(backend[j]) : e.id <= Len(fate)
           Good == Count' /\ Open' /\ Stored' /\ DiscardsArePlaced'
<1>0. /\ FlowInv /\ CallBound
      /\ ctx \in CtxType
      /\ ctx.buf \in Packet
      /\ backend \in Seq(Packet)
      /\ fate \in Seq(Fates)
      /\ Len(fate) \in Nat
      /\ Count /\ Open /\ Stored /\ DiscardsArePlaced
  BY DEF LossInv, FlowInv, SectionInv, TypeOK, CtxType
<1>1. Kinds /\ FlowInv' /\ CallBound'
  BY <1>0, NextFlow, NextCallBound
<1>a. \A n \in 0 .. Len(fate) : Discarded(n) = Cardinality(Losses(fate, n)) /\ Discarded(n) \in 0 .. n
  BY LossesBound DEF Discarded, Losses
<1>b. Discarded(Len(fate)) \in Nat /\ Discarded(Len(fate)) \in 0 .. MaxCalls
  BY <1>0, <1>a, TracerAssumption DEF CallBound
<1>c. ASSUME NEW f \in Fates, fate' = Append(fate, f)
      PROVE  /\ Len(fate') = Len(fate) + 1
             /\ (Discarded(Len(fate)))'
                  = Discarded(Len(fate)) + IF f = "discarded" THEN 1 ELSE 0
  <2>1. Len(fate') = Len(fate) + 1
    BY <1>0, <1>c
  <2>2. (Discarded(Len(fate)))' = Cardinality(Losses(fate', Len(fate')))
    BY DEF Discarded, Losses
  <2> QED
    BY <1>0, <1>a, <1>c, <2>1, <2>2, LossesAppend
(* The record ids seen so far stay below the number of calls. *)
<1>d. (\A j \in DOMAIN backend : \A e \in ErsOf(backend[j]) : e.id \in Nat)
      /\ \A e \in ErsOf(ctx.buf) : e.id \in Nat
  <2>1. ASSUME NEW p \in Packet PROVE \A e \in ErsOf(p) : e.id \in Nat
    <3>1. p.ers \in Seq(ErImage)
      BY DEF Packet
    <3>2. \A k \in DOMAIN p.ers : p.ers[k] \in ErImage
      BY <3>1
    <3> QED
      BY <3>2 DEF ErsOf, ErImage
  <2> QED
    BY <1>0, <2>1
<1>e. ASSUME fate' = fate PROVE \A n \in 0 .. Len(fate) : (Discarded(n))' = Discarded(n)
  BY <1>e DEF Discarded
<1>2. ASSUME Quiet, SameCount(ctx, ctx'), UNCHANGED fate PROVE Good
  <2>1. /\ ctx'.packet_is_open = ctx.packet_is_open
        /\ ctx'.buf = ctx.buf
        /\ backend' = backend /\ fate' = fate
        /\ ctx'.events_discarded = ctx.events_discarded
    BY <1>2 DEF Quiet, PacketState, SameCount
  <2>2. DiscardsArePlaced'
    BY <1>0, <1>e, <2>1 DEF DiscardsArePlaced
  <2> QED
    BY <1>0, <2>1, <2>2 DEF Discarded
<1>3. ASSUME Ignores \/ Discards PROVE Good
  <2>1. /\ ctx'.packet_is_open = ctx.packet_is_open
        /\ ctx'.buf = ctx.buf
        /\ backend' = backend
    BY <1>3 DEF Ignores, Discards, Quiet, PacketState
  <2>2. PICK f \in Fates : fate' = Append(fate, f)
    BY <1>3 DEF Ignores, Discards
  <2>3. Len(fate') = Len(fate) + 1
    BY <1>c, <2>2
  <2>4. Open' /\ Stored'
    BY <1>0, <1>d, <2>1, <2>3
  <2>5. DiscardsArePlaced'
    BY <1>0, <2>1, <2>2, PlacedByLaterCalls
  <2>6. CASE Ignores
    <3>1. (Discarded(Len(fate)))' = Discarded(Len(fate)) + 0
      BY <1>c, <2>6 DEF Ignores
    <3> QED
      BY <1>0, <1>b, <2>4, <2>5, <2>6, <3>1 DEF Ignores, SameCount
  <2>7. CASE Discards
    <3>1. (Discarded(Len(fate)))' = Discarded(Len(fate)) + 1
      BY <1>c, <2>7 DEF Discards
    <3>2. ((Discarded(Len(fate)) % Word) + 1) % Word = (Discarded(Len(fate)) + 1) % Word
      BY <1>b, CtxAssumption, ModNext
    <3>3. Count'
      BY <1>0, <2>7, <3>1, <3>2 DEF Discards
    <3> QED
      BY <2>4, <2>5, <3>3
  <2> QED
    BY <1>3, <2>6, <2>7
<1>4. ASSUME Writes PROVE Good
  <2> DEFINE x == [id |-> Call, ts |-> ctx.cur_last_event_ts, end |-> ctx'.at]
  <2>1. /\ ctx.packet_is_open /\ ctx'.packet_is_open
        /\ ctx'.buf.ers = Append(ctx.buf.ers, x)
        /\ backend' = backend
        /\ ctx'.events_discarded = ctx.events_discarded
        /\ fate' = Append(fate, "recorded")
    BY <1>0, <1>4 DEF Writes, WritesTo, SameCount, Packet
  <2>2. x.id = Len(fate) + 1
    BY DEF Call
  <2> HIDE DEF x
  <2>3. Len(fate') = Len(fate) + 1 /\ (Discarded(Len(fate)))' = Discarded(Len(fate)) + 0
    BY <1>c, <2>1
  <2>4. \A e \in ErsOf(ctx'.buf) : e \in ErsOf(ctx.buf) \/ e.id = Len(fate) + 1
    <3> DEFINE s == ctx.buf.ers
    <3>1. s \in Seq(ErImage)
      BY <1>0 DEF Packet
    <3>2. x \in ErImage
      <4>1. ctx' \in CtxType
        BY <1>1 DEF FlowInv, SectionInv, TypeOK
      <4> QED
        BY <1>0, <2>2, <4>1 DEF x, ErImage, CtxType, Call
    <3> HIDE DEF s
    <3>3. /\ DOMAIN Append(s, x) = 1 .. (Len(s) + 1)
          /\ \A i \in DOMAIN s : Append(s, x)[i] = s[i]
          /\ Append(s, x)[Len(s) + 1] = x
          /\ DOMAIN s = 1 .. Len(s)
          /\ Len(s) \in Nat
      BY <3>1, <3>2, AppendedFacts
    <3>4. \A k \in 1 .. (Len(s) + 1) : k \in DOMAIN s \/ k = Len(s) + 1
      BY <3>3
    <3> QED
      BY <2>1, <2>2, <3>3, <3>4 DEF ErsOf, s
  <2>5. Stored'
    <3> SUFFICES ASSUME NEW j \in DOMAIN backend, NEW e \in ErsOf(backend[j])
                 PROVE  e.id <= Len(fate')
      BY <2>1
    <3>1. e.id \in Nat /\ e.id <= Len(fate)
      BY <1>0, <1>d
    <3> QED
      BY <1>0, <2>3, <3>1
  <2>6. Open'
    BY <1>0, <1>d, <2>1, <2>3, <2>4
  <2>7. DiscardsArePlaced'
    BY <1>0, <2>1, <2>4, PlacedByLaterCalls
  <2> QED
    BY <1>0, <1>b, <2>1, <2>3, <2>5, <2>6, <2>7
<1>5. ASSUME NEW ts \in Nat, Opens(ts) PROVE Good
  <2>1. /\ ~ctx.packet_is_open
        /\ ErsOf(ctx'.buf) = {}
        /\ backend' = backend /\ fate' = fate
        /\ ctx'.events_discarded = ctx.events_discarded
    BY <1>5 DEF Opens, OpensTo, SameCount, ErsOf
  <2>2. DiscardsArePlaced'
    BY <1>0, <1>e, <2>1 DEF DiscardsArePlaced
  <2> QED
    BY <1>0, <2>1, <2>2 DEF Discarded
<1>6. ASSUME NEW ts \in Nat, Closes(ts) \/ Replaces(ts) PROVE Good
  <2> DEFINE p == Closed(ctx, ts)
             m == Len(backend)
  <2>1. /\ ctx.packet_is_open
        /\ ErsOf(p) = ErsOf(ctx.buf)
        /\ p.events_discarded = ctx.events_discarded % DiscardedMod
    BY <1>0, <1>6, StoredBy, ClosedFacts DEF ErsOf
  <2>2. /\ DOMAIN backend' = 1 .. (m + 1)
        /\ DOMAIN backend = 1 .. m
        /\ m \in Nat
        /\ \A i \in DOMAIN backend : backend'[i] = backend[i]
        /\ backend'[m + 1] = p
    BY <1>0, <1>6, StoredBy
  <2> HIDE DEF p, m
  <2>3. /\ fate' = fate
        /\ ctx'.events_discarded = ctx.events_discarded
        /\ ctx'.packet_is_open => ErsOf(ctx'.buf) = {}
    BY <1>6 DEF Closes, Replaces, ClosesTo, OpensTo, SameCount, ErsOf
  <2>4. \A j \in DOMAIN backend' : j \in DOMAIN backend \/ j = m + 1
    BY <2>2
  <2>5. Count' /\ Open'
    BY <1>0, <2>3 DEF Discarded
  <2>6. Stored'
    BY <1>0, <2>1, <2>2, <2>3, <2>4
  <2>7. DiscardsArePlaced'
    <3> SUFFICES ASSUME NEW i \in DOMAIN backend'
                 PROVE  \E n \in 0 .. Len(fate) :
                     /\ backend'[i].events_discarded = Discarded(n) % DiscardedMod
                     /\ \A j \in DOMAIN backend' :
                          \A e \in ErsOf(backend'[j]) : j <= i <=> e.id <= n
                     /\ ctx'.packet_is_open => \A e \in ErsOf(ctx'.buf) : n < e.id
      BY <1>e, <2>3 DEF DiscardsArePlaced
    <3>1. CASE i \in DOMAIN backend
      <4>1. PICK n \in 0 .. Len(fate) :
              /\ backend[i].events_discarded = Discarded(n) % DiscardedMod
              /\ \A j \in DOMAIN backend :
                    \A e \in ErsOf(backend[j]) : j <= i <=> e.id <= n
              /\ \A e \in ErsOf(ctx.buf) : n < e.id
        BY <1>0, <2>1, <3>1 DEF DiscardsArePlaced
      <4>2. ASSUME NEW j \in DOMAIN backend', NEW e \in ErsOf(backend'[j])
            PROVE  j <= i <=> e.id <= n
        <5>1. CASE j \in DOMAIN backend
          BY <2>2, <4>1, <4>2, <5>1
        <5>2. CASE j = m + 1
          <6>1. e \in ErsOf(ctx.buf)
            BY <2>1, <2>2, <4>2, <5>2
          <6>2. ~(j <= i) /\ n < e.id /\ e.id \in Nat
            BY <1>d, <2>2, <3>1, <4>1, <5>2, <6>1
          <6> QED
            BY <6>2
        <5> QED
          BY <2>4, <5>1, <5>2
      <4> QED
        BY <2>2, <2>3, <3>1, <4>1, <4>2
    <3>2. CASE i = m + 1
      <4> DEFINE n == Len(fate)
      <4>1. backend'[i].events_discarded = Discarded(n) % DiscardedMod
        BY <1>0, <1>b, <2>1, <2>2, <3>2 DEF SnapshotIsExact
      <4>2. ASSUME NEW j \in DOMAIN backend', NEW e \in ErsOf(backend'[j])
            PROVE  j <= i /\ e.id <= n
        <5>1. j <= i
          BY <2>2, <3>2
        <5>2. CASE j \in DOMAIN backend
          BY <1>0, <2>2, <4>2, <5>1, <5>2
        <5>3. CASE j = m + 1
          BY <1>0, <2>1, <2>2, <4>2, <5>1, <5>3
        <5> QED
          BY <2>4, <5>2, <5>3
      <4>3. n \in 0 .. Len(fate)
        BY <1>0
      <4> QED
        BY <2>3, <4>1, <4>2, <4>3
    <3> QED
      BY <2>4, <3>1, <3>2
  <2> QED
    BY <2>5, <2>6, <2>7
<1>7. Good
  <2> HIDE DEF Good
  <2> QED
    BY <1>1, <1>2, <1>3, <1>4, <1>5, <1>6 DEF Kinds, Stays, Switches, Moves
<1> QED
  BY <1>1, <1>7 DEF LossInv

(* A packet's snapshot of the discarded event record counter counts every  *)
(* loss that precedes its last record, and none that follows a record of a *)
(* later packet, although it is taken when the packet is closed and the    *)
(* counter grows while the packet is open.                                 *)
THEOREM SnapshotsPlaceLosses ==
    ASSUME ClosesWhenEnabled, SnapshotIsExact
    PROVE  Spec => []DiscardsArePlaced
<1>1. LossInv /\ [Next]_vars => LossInv'
  BY NextLoss
<1>2. LossInv => DiscardsArePlaced
  BY DEF LossInv
<1> QED
  BY <1>1, <1>2, InitLoss, PTL DEF Spec

-----------------------------------------------------------------------------
(* Necessary losses. *)

(* All offsets are multiples of a unit to which the records are packed.    *)
PackedStream(unit) ==
    /\ \A r \in EventRecords : Packed(unit, r)
    /\ \A off \in ContentOffsets : off % unit = 0
    /\ \A size \in BufSizes : size % unit = 0

(* The size that is tested is then that of the record, wherever it starts. *)
PackedInv(unit) ==
    /\ FlowInv
    /\ ctx.at % unit = 0
    /\ pc = "reserve" => er_size = TotalSize(er)

(* The first packet starts at a multiple of the unit.                      *)
LEMMA InitPacked ==
    ASSUME NEW unit \in Nat \ {0}, PackedStream(unit)
    PROVE  Init => PackedInv(unit)
<1> SUFFICES ASSUME Init PROVE PackedInv(unit)
  OBVIOUS
<1>1. PICK size \in BufSizes, g \in Garbage, off \in ContentOffsets :
        ctx = OpenPacket(CtxInit(size, g), 0, off)
  BY DEF Init
<1> DEFINE c == CtxInit(size, g)
<1>2. size \in Nat /\ g \in Nat
  BY TracerAssumption, CtxAssumption
<1>3. c \in CtxType /\ MayAlter(c) /\ ~c.packet_is_open
  BY <1>2, CtxInitType DEF CtxInit, MayAlter
<1>4. ctx = OpenPacket(c, 0, off)
  BY <1>1
<1> HIDE DEF c
<1>5. ctx.at \in ContentOffsets
  BY <1>3, <1>4, OpeningEffect DEF OpensTo
<1>6. pc # "reserve"
  BY DEF Init
<1> QED
  BY <1>5, <1>6, InitFlow DEF PackedInv, PackedStream

(* Every step keeps the position a multiple of the unit.                   *)
LEMMA NextPacked ==
    ASSUME ClosesWhenEnabled, NEW unit \in Nat \ {0}, PackedStream(unit)
    PROVE  PackedInv(unit) /\ [Next]_vars => PackedInv(unit)'
<1> SUFFICES ASSUME PackedInv(unit), [Next]_vars PROVE PackedInv(unit)'
  OBVIOUS
<1>0. /\ FlowInv
      /\ ctx.at \in Nat /\ ctx.at % unit = 0
      /\ er \in EventRecord /\ Packed(unit, er)
  BY DEF PackedInv, FlowInv, SectionInv, TypeOK, CtxType, PackedStream
<1>1. Kinds /\ FlowInv' /\ ctx'.packet_size \in BufSizes
  BY <1>0, NextFlow DEF FlowInv, SectionInv
<1>2. ctx'.at % unit = 0
  <2>1. CASE Quiet
    BY <1>0, <2>1 DEF Quiet, PacketState
  <2>2. CASE Writes
    BY <1>0, <2>2, PackedSize DEF Writes, WritesTo
  <2>3. ASSUME NEW ts \in Nat, Opens(ts) \/ Replaces(ts) PROVE ctx'.at % unit = 0
    BY <2>3 DEF Opens, Replaces, OpensTo, PackedStream
  <2>4. ASSUME NEW ts \in Nat, Closes(ts) PROVE ctx'.at % unit = 0
    BY <1>1, <2>4 DEF Closes, ClosesTo, PackedStream
  <2> QED
    BY <1>1, <2>1, <2>2, <2>3, <2>4 DEF Kinds, Stays, Switches, Ignores, Discards, Moves
<1>3. ASSUME pc' = "reserve" PROVE er_size' = TotalSize(er')
  <2>1. CASE EnterSection
    BY <1>0, <2>1, PackedSize DEF EnterSection
  <2>2. CASE ~EnterSection
    <3>1. pc = "reserve" /\ er' = er /\ er_size' = er_size
      BY <1>3, <2>2
      DEF Next, TracingCallStep, Platform, Environment, SaveTimestamp, TracingEnabled,
          TracingDisabled, DiscardOversized, DiscardWhenFull, OpenWhenFull, UseCurrentPacket,
          RecordFits, CloseForSpace, DiscardAfterClose, OpenAfterClose, NoSpace, SerializeEr,
          CommitEr, CommitFull, ReplacePacket, StartPacket, Fini, SetTracing, BackendChanges,
          Tick, ClockSetBack, vars
    <3> QED
      BY <3>1 DEF PackedInv
  <2> QED
    BY <2>1, <2>2
<1> QED
  BY <1>1, <1>2, <1>3 DEF PackedInv

(* When records are packed, one is discarded only if no empty packet of    *)
(* the current buffer holds it or the back end is full: the size that      *)
(* _reserve_er_space tests, computed at the current offset, is then the    *)
(* size in an empty packet too.                                            *)
THEOREM DiscardsAreNecessary ==
    ASSUME ClosesWhenEnabled, HeadersFit, NEW unit \in Nat \ {0}, PackedStream(unit)
    PROVE  Spec => DiscardIsNecessary
<1> DEFINE Loss == ctx'.events_discarded # ctx.events_discarded
           Cause == backend_full \/ ErEnd(ctx.off_content, er) > ctx.packet_size
<1>1. PackedInv(unit) /\ [Next]_vars => [Loss => Cause]_vars
  <2> SUFFICES ASSUME PackedInv(unit), Next, Loss PROVE Cause
    OBVIOUS
  <2>0. /\ FlowInv
        /\ fate \in Seq({"recorded", "discarded", "ignored"})
        /\ er \in EventRecord /\ Packed(unit, er)
        /\ ctx.off_content \in ContentOffsets /\ ctx.packet_size \in BufSizes
    BY DEF PackedInv, FlowInv, SectionInv, TypeOK, PackedStream
  <2>1. Kinds
    BY <2>0, NextFlow
  <2>2. Discards /\ pc \in {"reserve", "closed"}
    BY <2>1 DEF Kinds, Stays, Switches, Ignores, Writes, WritesTo, Moves, Opens, OpensTo, Closes,
                ClosesTo, Replaces, SameCount
  <2>3. fate' # fate
    <3>1. Len(fate') = Len(fate) + 1 /\ Len(fate) \in Nat
      BY <2>0, <2>2 DEF Discards
    <3> QED
      BY <3>1
  <2>4. CASE DiscardWhenFull \/ DiscardAfterClose
    BY <2>4 DEF DiscardWhenFull, DiscardAfterClose
  <2>5. CASE DiscardOversized
    <3>1. /\ ctx.off_content \in Nat /\ ctx.packet_size \in Nat
          /\ ctx.packet_size < Word
          /\ ctx.off_content <= ctx.packet_size
          /\ ctx.off_content % unit = 0
      <4>1. ctx.off_content % unit = 0
        BY <2>0 DEF PackedStream
      <4>2. ctx.off_content \in Nat /\ ctx.packet_size \in 0 .. (Word - 1)
        BY <2>0, TracerAssumption
      <4>3. ctx.off_content <= ctx.packet_size
        BY <2>0 DEF HeadersFit
      <4> QED
        BY <4>1, <4>2, <4>3, CtxAssumption
    <3>2. Minus(ctx.packet_size, ctx.off_content) = ctx.packet_size - ctx.off_content
      <4>1. /\ ctx.packet_size \in Int /\ ctx.off_content \in Int
            /\ ctx.packet_size - ctx.off_content < Word
        BY <3>1, CtxAssumption
      <4> QED
        BY <3>1, <4>1, MinusFacts
    <3>3. TotalSize(er) > ctx.packet_size - ctx.off_content
      BY <2>5, <3>2 DEF DiscardOversized, CannotFit, PackedInv
    <3>4. ErEnd(ctx.off_content, er) = ctx.off_content + TotalSize(er) /\ TotalSize(er) \in Nat
      BY <2>0, <3>1, PackedSize
    <3> QED
      BY <3>1, <3>3, <3>4
  <2>6. DiscardOversized \/ DiscardWhenFull \/ DiscardAfterClose
    BY <2>2, <2>3
    DEF Next, TracingCallStep, Platform, Environment, SaveTimestamp, TracingEnabled,
        TracingDisabled, EnterSection, OpenWhenFull, UseCurrentPacket, RecordFits, CloseForSpace,
        OpenAfterClose, SerializeEr, CommitEr, CommitFull, ReplacePacket, StartPacket, Fini,
        SetTracing, BackendChanges, Tick, ClockSetBack
  <2> QED
    BY <2>4, <2>5, <2>6
<1>2. PackedInv(unit) /\ [Next]_vars => PackedInv(unit)'
  BY NextPacked
<1>3. Init => PackedInv(unit)
  BY InitPacked
<1> QED
  BY <1>1, <1>2, <1>3, PTL DEF Spec, DiscardIsNecessary

=============================================================================
