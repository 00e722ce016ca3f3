------------------------------ MODULE Metadata ------------------------------
(***************************************************************************)
(* The metadata stream that is generated for a trace type (tsdl182gen.py   *)
(* and its templates), and what a reader learns from it: which stream and  *)
(* event declarations are those of the packet and of the event record that *)
(* it decodes, knowing only their headers.                                 *)
(***************************************************************************)
EXTENDS TraceTypes

NoId == -1

(* _filt_ft_lengths *)
FtLengths(members, m) ==
    [i \in DOMAIN m.dims |-> IF m.dims[i] = Dynamic THEN << LenName(members, m) >>
                             ELSE << m.dims[i] >>]

(* A structure declaration: the fields with their integer's clock, the     *)
(* lengths of arrays and the labelled ranges of enumerations.              *)
RangeStrs(mappings) ==
    UNION {{<< label, r[1], r[2] >> : r \in mappings[label]} : label \in DOMAIN mappings}

StructFt(members) ==
    [i \in DOMAIN members |->
        [name |-> members[i].name, class |-> members[i].class, size |-> members[i].size,
         map |-> members[i].clk, lengths |-> FtLengths(members, members[i]),
         labels |-> RangeStrs(members[i].mappings)]]

(* cfg.trace.type.features.data_stream_type_id_field_type *)
HasMember(members, name) == \E m \in Range(members) : m.name = name

DstIdsAreOn == HasMember(trace.pkt_header, "stream_id")

StreamId(dst) == IF DstIdsAreOn THEN trace.dst_ids[dst.name] ELSE NoId

Stream(dst) ==
    [name |-> dst.name, id |-> StreamId(dst), packet_context |-> StructFt(dst.pkt_ctx),
     event_header |-> StructFt(dst.er_header), event_context |-> StructFt(dst.common)]

(* The level 0 is left out. *)
LogLevel(level) == IF level = << "level", 0 >> THEN << >> ELSE level

Event(dst, ert) ==
    [stream_id |-> StreamId(dst), id |-> dst.ert_ids[ert], name |-> ert,
     loglevel |-> LogLevel(dst.erts[ert].log_level),
     context |-> StructFt(dst.erts[ert].spec), fields |-> StructFt(dst.erts[ert].payload)]

Streams == {Stream(d) : d \in Range(dsts)}

Events == UNION {{Event(d, e) : e \in DOMAIN d.erts} : d \in Range(dsts)}

ClockTypes == {d.clk : d \in Range(dsts)} \ {NoClock}

-----------------------------------------------------------------------------
(* Reading *)

(* The header's field holds as many bits of an identifier as its size. *)
IdRead(members, name, id) ==
    LET i == SelectInSeq(members, LAMBDA m : m.name = name)
    IN IF i = 0 THEN NoId
       ELSE IF members[i].size >= 31 THEN id ELSE id % 2^members[i].size

StreamsFound(dst) ==
    LET id == IdRead(trace.pkt_header, "stream_id", trace.dst_ids[dst.name])
    IN {s \in Streams : s.id = id}

(* Without an identifier an event record is of the only type there is. *)
EventsFound(dst, ert) ==
    LET id == IdRead(dst.er_header, "id", dst.ert_ids[ert])
    IN {e \in Events : /\ \E s \in StreamsFound(dst) : e.stream_id = s.id
                       /\ id = NoId \/ e.id = id}

(* Whatever the number of types, their names and the features that are on, *)
(* a reader finds the one stream and the one event declaration that        *)
(* describe what was serialized, and every clock that they refer to (the   *)
(* numbering of config.py, the two size checks of the parser and           *)
(* metadata.j2 must agree).                                                *)
ReaderFindsTypes ==
    status = "done" => \A d \in Range(dsts) :
        /\ StreamsFound(d) = {Stream(d)}
        /\ \A e \in DOMAIN d.erts : EventsFound(d, e) = {Event(d, e)}
        /\ \A s \in StreamsFound(d) : \A f \in Range(s.packet_context \o s.event_header) :
               f.map \in ClockTypes \cup {NoClock}

=============================================================================
