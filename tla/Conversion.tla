----------------------------- MODULE Conversion -----------------------------
(***************************************************************************)
(* Parsing of a configuration of either version: a metadata node of        *)
(* version 2, whose field types are already expanded, is converted to a    *)
(* trace type node of version 3 (config_parse_v2.py), from which the trace *)
(* type is created.                                                        *)
(***************************************************************************)
EXTENDS TraceTypes

CONSTANTS
    Nodes3,   \* trace type nodes of version 3
    Nodes2,   \* metadata nodes of version 2
    NoStream,  \* no $default-stream property
    EnumValues \* values of enumerations that a reader may find

(* What an expanded metadata node has, as its schema says: structures are  *)
(* maps by name, and members that the tracer writes are unsigned integers. *)
IsField(f) ==
    /\ f = [name |-> f.name, class |-> f.class, signed |-> f.signed, size |-> f.size,
            dims |-> f.dims, clk |-> f.clk, members |-> f.members]
    /\ f.class \in {"int", "enum", "real", "string", "structure"}
    /\ f.signed \in BOOLEAN /\ (f.signed => f.class \in {"int", "enum"})
    /\ f.clk # Null
    /\ f.members \in Seq(Range(f.members))
    /\ \A m \in Range(f.members) :
           \/ Len(m) = 1
           \/ Len(m) = 3 /\ m[2] \in Int /\ m[3] \in Int

IsStruct2(fields) ==
    /\ AreNamed(fields)
    /\ \A f \in Range(fields) : IsField(f)
    /\ \A i, j \in DOMAIN fields : fields[i].name = fields[j].name => i = j

IsUIntField(f) == f.class = "int" /\ ~f.signed /\ f.size \in Nat \ {Off}

AreUInts(fields, names) ==
    \A f \in Range(fields) : f.name \in names => IsUIntField(f) /\ f.dims = << >>

AreMapped(fields, names) ==
    \A f \in Range(fields) : f.name \in names => f.clk # NoClock

IsPktHeader2(fields) ==
    /\ IsStruct2(fields)
    /\ AreUInts(fields, {"magic", "stream_id", "stream_instance_id"})
    /\ \A f \in Range(fields) :
           f.name = "uuid" => IsUIntField(f) /\ f.size = 8 /\ f.dims = << 16 >>

CtfMemberNames ==
    {"packet_size", "content_size", "timestamp_begin", "timestamp_end",
     "events_discarded", "packet_seq_num"}

IsDst2(dst) ==
    /\ dst = [name |-> dst.name, is_default |-> dst.is_default, pkt_ctx |-> dst.pkt_ctx,
              er_header |-> dst.er_header, common |-> dst.common, erts |-> dst.erts]
    /\ dst.name \in Int
    /\ IsStruct2(dst.pkt_ctx) /\ AreUInts(dst.pkt_ctx, CtfMemberNames)
    /\ {"packet_size", "content_size"} \subseteq {f.name : f \in Range(dst.pkt_ctx)}
    /\ AreMapped(dst.pkt_ctx, {"timestamp_begin", "timestamp_end"})
    /\ IsStruct2(dst.er_header) /\ AreUInts(dst.er_header, {"id", "timestamp"})
    /\ AreMapped(dst.er_header, {"timestamp"})
    /\ IsStruct2(dst.common)
    /\ AreErtNames(DOMAIN dst.erts)
    /\ \A e \in DOMAIN dst.erts :
           IsStruct2(dst.erts[e].spec) /\ IsStruct2(dst.erts[e].payload)

IsMetaNode(m) ==
    /\ m.dsts \in Seq(Range(m.dsts)) /\ AreDstNames(m.dsts)
    /\ IsPktHeader2(m.pkt_header)
    /\ \A i \in DOMAIN m.dsts : IsDst2(m.dsts[i])

ASSUME ConversionAssumption ==
    /\ \A tt \in Nodes3 : IsTraceTypeNode(tt)
    /\ \A m \in Nodes2 : IsMetaNode(m)

VARIABLES
    meta,     \* << >>, or the metadata node to convert
    dst_nodes \* data stream type nodes converted so far

config_vars == << vars3, meta, dst_nodes >>

-----------------------------------------------------------------------------
(* Field types.  A field has a name, the class of its deepest element,     *)
(* whether that is signed, its size, the lengths of the arrays around it,  *)
(* the clock that it is mapped to and, for an enumeration, its members:    *)
(* << label >>, or << label, lower, upper >>.                              *)

(* The ranges of a label are gathered in a list. *)
Mapped(mappings, label, range) ==
    LET known == IF label \in DOMAIN mappings THEN mappings[label] ELSE << >>
    IN [l \in {label} \cup DOMAIN mappings |->
            IF l = label THEN Append(known, range) ELSE mappings[l]]

(* Mutant of AddMapping: counting goes on from the lower value. *)
AddMappingFromLower(state, member) ==
    LET lower == IF Len(member) = 1 THEN state.cur ELSE member[2]
        upper == IF Len(member) = 1 THEN state.cur ELSE member[3]
    IN [cur |-> lower + 1,
        mappings |-> Mapped(state.mappings, member[1], << lower, upper >>)]

(* A member without a value has the one that follows the last one. *)
AddMapping(state, member) ==
    LET lower == IF Len(member) = 1 THEN state.cur ELSE member[2]
        upper == IF Len(member) = 1 THEN state.cur ELSE member[3]
    IN [cur |-> upper + 1,
        mappings |-> Mapped(state.mappings, member[1], << lower, upper >>)]

NoMappings == [cur |-> 0, mappings |-> [l \in {} |-> << >>]]

ConvEnumMembers(members) == FoldLeft(AddMapping, NoMappings, members).mappings

(* The class of an integer or enumeration follows from its property. *)
ConvClass(field) ==
    CASE field.class = "int"  -> IF field.signed THEN "sint" ELSE "uint"
      [] field.class = "enum" -> IF field.signed THEN "senum" ELSE "uenum"
      [] OTHER                -> field.class

(* Converting an integer drops its property mappings. *)
ConvFt(field) ==
    MemberNode(field.name, ConvClass(field),
               IF field.class = "real" THEN field.size.exp + field.size.mant ELSE field.size,
               field.dims, ConvEnumMembers(field.members))

ConvStructFt(fields) == [i \in DOMAIN fields |-> ConvFt(fields[i])]

ConvFtIfExists(fields, name) ==
    LET i == SelectInSeq(fields, LAMBDA f : f.name = name)
    IN IF i = 0 THEN Missing ELSE ConvFt(fields[i]).size

(* Mutant of SetV3Feature: an absent member leaves the feature unset. *)
LeaveV3Feature(ft) == ft

(* Without the member the feature is off, not the default. *)
SetV3Feature(ft) == IF ft = Missing THEN Off ELSE ft

Feature(fields, name) == SetV3Feature(ConvFtIfExists(fields, name))

ClkTypeName(fields, name) ==
    LET i == SelectInSeq(fields, LAMBDA f : f.name = name)
    IN IF i = 0 THEN NoClock ELSE fields[i].clk

-----------------------------------------------------------------------------
(* Data stream types *)

V3Features(dst) ==
    [total |-> ConvFtIfExists(dst.pkt_ctx, "packet_size"),
     content |-> ConvFtIfExists(dst.pkt_ctx, "content_size"),
     beginning |-> Feature(dst.pkt_ctx, "timestamp_begin"),
     end |-> Feature(dst.pkt_ctx, "timestamp_end"),
     discarded |-> Feature(dst.pkt_ctx, "events_discarded"),
     seq_num |-> Missing,
     id |-> Feature(dst.er_header, "id"),
     timestamp |-> Feature(dst.er_header, "timestamp")]

DifferentClocks(dst) ==
    LET begin == ClkTypeName(dst.pkt_ctx, "timestamp_begin")
        end == ClkTypeName(dst.pkt_ctx, "timestamp_end")
    IN begin # NoClock /\ end # NoClock /\ begin # end

(* Mutant of DefaultClock: only packets are looked at. *)
PacketClock(dst) == ClkTypeName(dst.pkt_ctx, "timestamp_begin")

DefaultClock(dst) ==
    LET er == ClkTypeName(dst.er_header, "timestamp")
        begin == ClkTypeName(dst.pkt_ctx, "timestamp_begin")
    IN IF er # NoClock THEN er
       ELSE IF begin # NoClock THEN begin
       ELSE ClkTypeName(dst.pkt_ctx, "timestamp_end")

ExtraMembers(dst) ==
    ConvStructFt(Where(dst.pkt_ctx, LAMBDA f : f.name \notin CtfMemberNames))

(* Mutant of ConvErtNode: the log level is not copied. *)
ConvErtNodeNoLevel(ert) ==
    [log_level |-> << >>, spec |-> ConvStructFt(ert.spec),
     payload |-> ConvStructFt(ert.payload)]

ConvErtNode(ert) ==
    [log_level |-> ert.log_level, spec |-> ConvStructFt(ert.spec),
     payload |-> ConvStructFt(ert.payload)]

ConvDstNode(dst) ==
    [name |-> dst.name, is_default |-> dst.is_default, clk |-> DefaultClock(dst),
     features |-> V3Features(dst), extra |-> ExtraMembers(dst),
     common |-> ConvStructFt(dst.common),
     erts |-> [e \in DOMAIN dst.erts |-> ConvErtNode(dst.erts[e])]]

-----------------------------------------------------------------------------
(* The metadata node *)

(* The parser is given one of these nodes. *)
ConfigInit(nodes3, nodes2) ==
    /\ \/ node \in nodes3 /\ meta = << >> /\ status = "log_levels"
       \/ node = << >> /\ meta \in {<< m >> : m \in nodes2} /\ status = "convert"
    /\ dsts = << >>
    /\ trace = [pkt_header |-> << >>, dst_ids |-> << >>, default |-> {}]
    /\ dst_nodes = << >>

NextDst2 == meta[1].dsts[Len(dst_nodes) + 1]

MoreDsts == status = "convert" /\ Len(dst_nodes) < Len(meta[1].dsts)

RefuseClocks ==
    /\ MoreDsts
    /\ DifferentClocks(NextDst2)
    /\ Refuse
    /\ UNCHANGED << meta, dst_nodes >>

ConvDst ==
    /\ MoreDsts
    /\ ~DifferentClocks(NextDst2)
    /\ dst_nodes' = Append(dst_nodes, ConvDstNode(NextDst2))
    /\ UNCHANGED << vars3, meta >>

Converted == status = "convert" /\ Len(dst_nodes) = Len(meta[1].dsts)

UnknownStream(m, nodes) ==
    /\ m.default_stream # NoStream
    /\ \A i \in DOMAIN nodes : nodes[i].name # m.default_stream

RefuseStream ==
    /\ Converted
    /\ UnknownStream(meta[1], dst_nodes)
    /\ Refuse
    /\ UNCHANGED << meta, dst_nodes >>

TraceTypeNode(m, nodes) ==
    [uuid |-> m.uuid, clocks |-> m.clocks, aliases |-> m.aliases,
     features |-> [magic |-> Feature(m.pkt_header, "magic"),
                   uuid |-> Feature(m.pkt_header, "uuid"),
                   dst_id |-> Feature(m.pkt_header, "stream_id")],
     dsts |-> [i \in DOMAIN nodes |->
                 [nodes[i] EXCEPT !.is_default = @ \/ nodes[i].name = m.default_stream]]]

ConvMeta ==
    /\ Converted
    /\ ~UnknownStream(meta[1], dst_nodes)
    /\ node' = TraceTypeNode(meta[1], dst_nodes)
    /\ status' = "log_levels"
    /\ UNCHANGED << dsts, trace, meta, dst_nodes >>

ParseConfig ==
    \/ RefuseClocks
    \/ ConvDst
    \/ RefuseStream
    \/ ConvMeta
    \/ Parse3 /\ UNCHANGED << meta, dst_nodes >>

ConfigSpec == ConfigInit(Nodes3, Nodes2) /\ [][ParseConfig]_config_vars

-----------------------------------------------------------------------------

(* The members of a structure, as a reader of the trace sees them: the     *)
(* length of a dynamic array comes with it.                                *)
Signed(class) == class \in {"signed-integer", "signed-enumeration"}

Bits2(field) ==
    IF field.class = "real" THEN field.size.exp + field.size.mant ELSE field.size

Layout2(fields) ==
    {<< f.name, Bits2(f), f.signed, f.dims >> : f \in Range(fields)}
        \cup {<< "__" \o f.name \o "_len", 32, FALSE, << >> >> :
                 f \in {g \in Range(fields) : g.dims # << >> /\ g.dims[1] = Dynamic}}

Layout3(members) == {<< m.name, m.size, Signed(m.class), m.dims >> : m \in Range(members)}

SameEr(ert2, ert3) ==
    /\ Layout2(ert2.spec) = Layout3(ert3.spec)
    /\ Layout2(ert2.payload) = Layout3(ert3.payload)

SameLayout(dst2, dst3) ==
    /\ Layout2(dst2.pkt_ctx) = Layout3(dst3.pkt_ctx)
    /\ Layout2(dst2.er_header) = Layout3(dst3.er_header)
    /\ Layout2(dst2.common) = Layout3(dst3.common)
    /\ \A e \in DOMAIN dst2.erts : SameEr(dst2.erts[e], dst3.erts[e])

(* The trace type of a version 2 configuration has the members it declares *)
(* and no other, not even those that version 3 adds by default: the        *)
(* converted node is equivalent (comment of config_parse_v2.py's _Parser). *)
EquivalentTraceType ==
    status = "done" /\ meta # << >> =>
        /\ Layout2(meta[1].pkt_header) = Layout3(trace.pkt_header)
        /\ \A i \in DOMAIN dsts : SameLayout(meta[1].dsts[i], dsts[i])

(* The same, but for what the conversion does not look at: the sequence    *)
(* number, and the members of headers that barectf does not write itself.  *)
Only(fields, names) == Where(fields, LAMBDA f : f.name \in names)

Seen(dst) ==
    [dst EXCEPT !.pkt_ctx = Where(@, LAMBDA f : f.name # "packet_seq_num"),
                !.er_header = Only(@, {"id", "timestamp"})]

MembersKept ==
    status = "done" /\ meta # << >> =>
        /\ Layout2(Only(meta[1].pkt_header, {"magic", "uuid", "stream_id"}))
               = Layout3(trace.pkt_header)
        /\ \A i \in DOMAIN dsts : SameLayout(Seen(meta[1].dsts[i]), dsts[i])

(* Whatever the members of an enumeration, in whatever order and with      *)
(* whatever labels in common, each value has the labels that they give it: *)
(* a member without a value has the one after the last of the previous     *)
(* member (_conv_enum_ft_node, labels_for_value() of config.py).           *)
LastValues(members) ==
    LET last[i \in 0 .. Len(members)] ==
            IF i = 0 THEN -1
            ELSE IF Len(members[i]) = 1 THEN last[i - 1] + 1 ELSE members[i][3]
    IN last

LabelsOf(members, value) ==
    LET last == LastValues(members)
        first(i) == IF Len(members[i]) = 1 THEN last[i] ELSE members[i][2]
    IN {members[i][1] : i \in {j \in DOMAIN members : value \in first(j) .. last[j]}}

LabelsForValue(mappings, value) ==
    {l \in DOMAIN mappings : \E r \in mappings[l] : value \in r[1] .. r[2]}

LabelsKept ==
    status = "done" /\ meta # << >> =>
        \A i \in DOMAIN dsts : \A e \in DOMAIN dsts[i].erts :
            \A f \in Range(meta[1].dsts[i].erts[e].payload) :
                \A m \in Range(dsts[i].erts[e].payload) :
                    f.name = m.name => \A value \in EnumValues :
                        LabelsForValue(m.mappings, value) = LabelsOf(f.members, value)

(* Timestamps *)
Timestamps(dst) ==
    {m \in Range(dst.pkt_ctx) : m.name \in {"timestamp_begin", "timestamp_end"}}
        \cup {m \in Range(dst.er_header) : m.name = "timestamp"}

(* A data stream type that names one clock in version 2, wherever it names *)
(* it, has all its timestamps mapped to that clock, and it is a clock that *)
(* exists (conversion to $default-clock-type-name and                      *)
(* _set_ft_mapped_clk_type_name).                                          *)
ClocksKept ==
    status = "done" /\ meta # << >> =>
        \A i \in DOMAIN dsts :
            LET named == {m.clk : m \in Timestamps(meta[1].dsts[i])} IN
            Cardinality(named) = 1 =>
                \A m \in Timestamps(dsts[i]) : m.clk \in named /\ m.clk \in node.clocks

=============================================================================
