----------------------------- MODULE TraceTypes -----------------------------
(***************************************************************************)
(* Parsing of an expanded trace type node of a barectf 3 configuration     *)
(* (config_parse_v3.py, _parse): log level aliases are substituted and     *)
(* properties normalized, then a trace type and its data stream types are  *)
(* created.  Their own construction (config.py) sets features, identifiers *)
(* and the members of the root structures.                                 *)
(*                                                                         *)
(* A feature's field type is its size in bits; names that are sorted are   *)
(* numbers.                                                                *)
(***************************************************************************)
EXTENDS FieldTypes

CONSTANTS Keywords  \* names of types that are not valid identifiers

(* Values of a feature property that are not the size of a field type.     *)
Off == 0
Default == -1
Missing == -2
Null == -3

VARIABLES
    node,    \* the trace type node
    status,  \* what is to be done next, "done" or "refused"
    dsts,    \* data stream types created so far
    trace    \* the trace type, with the default data stream type

vars3 == << node, status, dsts, trace >>

(* What an expanded trace type node has, as its schema says; data stream   *)
(* types and event record types are maps by name.                          *)
FeatureValues == Nat \cup {Default, Missing, Null}

DstFeatureNames ==
    {"total", "content", "beginning", "end", "discarded", "seq_num", "id", "timestamp"}

TraceFeatureNames == {"magic", "uuid", "dst_id"}

AreErtNames(names) == names \subseteq Int /\ IsFiniteSet(names)

AreDstNames(nodes) ==
    \A i, j \in DOMAIN nodes :
        nodes[i].name \in Int /\ (nodes[i].name = nodes[j].name => i = j)

IsErtNode(ert) ==
    /\ ert = [log_level |-> ert.log_level, spec |-> ert.spec, payload |-> ert.payload]
    /\ IsStructNode(ert.spec) /\ IsStructNode(ert.payload)

IsDstNode(dst) ==
    /\ dst = [name |-> dst.name, is_default |-> dst.is_default, clk |-> dst.clk,
              features |-> dst.features, extra |-> dst.extra, common |-> dst.common,
              erts |-> dst.erts]
    /\ dst.features \in [DstFeatureNames -> FeatureValues]
    /\ IsStructNode(dst.extra) /\ IsStructNode(dst.common)
    /\ AreErtNames(DOMAIN dst.erts)
    /\ \A e \in DOMAIN dst.erts : IsErtNode(dst.erts[e])

IsTraceTypeNode(tt) ==
    /\ tt = [uuid |-> tt.uuid, clocks |-> tt.clocks, aliases |-> tt.aliases,
             features |-> tt.features, dsts |-> tt.dsts]
    /\ tt.features \in [TraceFeatureNames -> FeatureValues]
    /\ tt.dsts \in Seq(Range(tt.dsts)) /\ AreDstNames(tt.dsts)
    /\ \A i \in DOMAIN tt.dsts : IsDstNode(tt.dsts[i])

(* _validate_iden *)
InvalidIdens(names) == names \cap Keywords # {}

Refuse ==
    /\ status' = "refused"
    /\ UNCHANGED << node, dsts, trace >>

-----------------------------------------------------------------------------
(* Log levels: a node is << >>, << "null" >>, << "level", l >> or          *)
(* << "alias", a >>.                                                       *)

IsAlias(level) == level # << >> /\ level[1] = "alias"

Erts(tt) == UNION {Range(tt.dsts[i].erts) : i \in DOMAIN tt.dsts}

Aliases(tt) == {e.log_level[2] : e \in {f \in Erts(tt) : IsAlias(f.log_level)}}

KnownAliases(tt) == IF tt.aliases = << >> THEN {} ELSE DOMAIN tt.aliases[1]

AliasesAreKnown(tt) == Aliases(tt) \subseteq KnownAliases(tt)

(* Without aliases any of them is refused as not being an integer. *)
RefuseLogLevel == status = "log_levels" /\ ~AliasesAreKnown(node) /\ Refuse

SubLogLevel(aliases, level) ==
    IF IsAlias(level) THEN << "level", aliases[1][level[2]] >> ELSE level

SubErt(aliases, ert) == [ert EXCEPT !.log_level = SubLogLevel(aliases, @)]

SubDst(aliases, dst) == [dst EXCEPT !.erts = [e \in DOMAIN @ |-> SubErt(aliases, @[e])]]

SubTraceType(tt) ==
    [tt EXCEPT !.aliases = << >>, !.dsts = [i \in DOMAIN @ |-> SubDst(tt.aliases, @[i])]]

SubLogLevelAliases ==
    /\ status = "log_levels"
    /\ AliasesAreKnown(node)
    /\ node' = SubTraceType(node)
    /\ status' = "normalize"
    /\ UNCHANGED << dsts, trace >>

-----------------------------------------------------------------------------
(* Normalization: a null property is one that is missing.                  *)

NormalizeFeatures(features) ==
    [f \in DOMAIN features |-> IF features[f] = Null THEN Missing ELSE features[f]]

NormalizeErt(ert) ==
    [log_level |-> IF ert.log_level = << "null" >> THEN << >> ELSE ert.log_level,
     spec |-> NormalizeMembers(ert.spec), payload |-> NormalizeMembers(ert.payload)]

NormalizeDst(dst) ==
    [dst EXCEPT !.clk = IF @ = Null THEN NoClock ELSE @,
                !.features = NormalizeFeatures(@),
                !.extra = NormalizeMembers(@),
                !.common = NormalizeMembers(@),
                !.erts = [e \in DOMAIN @ |-> NormalizeErt(@[e])]]

NormalizeTraceType(tt) ==
    [tt EXCEPT !.features = NormalizeFeatures(@),
               !.dsts = [i \in DOMAIN @ |-> NormalizeDst(@[i])]]

NormalizeProps ==
    /\ status = "normalize"
    /\ node' = NormalizeTraceType(node)
    /\ status' = "features"
    /\ UNCHANGED << dsts, trace >>

-----------------------------------------------------------------------------
(* Features *)

FeatureFt(value, none) == IF value = Missing THEN none ELSE value

GetFt(ft, default_size) == IF ft = Default THEN default_size ELSE ft

(* Timestamps are on by default in a data stream type with a clock. *)
DstFeatures(dst) ==
    LET ts == IF dst.clk = NoClock THEN Off ELSE Default
        none == [total |-> Default, content |-> Default, beginning |-> ts, end |-> ts,
                 discarded |-> Default, seq_num |-> Off, id |-> Default, timestamp |-> ts]
    IN [f \in DOMAIN none |-> FeatureFt(dst.features[f], none[f])]

TraceFeatures(tt) ==
    LET none == [magic |-> Default, uuid |-> IF tt.uuid THEN Default ELSE Off,
                 dst_id |-> Default]
    IN [f \in DOMAIN none |-> FeatureFt(tt.features[f], none[f])]

(* Mutant of IdTooSmall: the last identifier compared with the number of   *)
(* values.                                                                 *)
LastIdTooSmall(ft, count) == ft \notin {Off, Default} /\ count - 1 > 2^ft

IdTooSmall(ft, count) == ft \notin {Off, Default} /\ count > 2^ft

IdRequired(ft, count) == ft = Off /\ count > 1

(* Identifiers follow the order of the names. *)
Ids(names) == [n \in names |-> Cardinality({m \in names : m < n})]

-----------------------------------------------------------------------------
(* Data stream types *)

(* Mutant of ReservedMemberNames: the list before sequence numbers. *)
OldReservedMemberNames ==
    {"packet_size", "content_size", "timestamp_begin", "timestamp_end", "events_discarded"}

ReservedMemberNames ==
    {"packet_size", "content_size", "timestamp_begin", "timestamp_end",
     "events_discarded", "packet_seq_num"}

(* The members of those features that are on. *)
FeatureMembers(members) == Where(members, LAMBDA m : m.size # Off)

ErHeaderFt(dst) ==
    LET f == DstFeatures(dst) IN
    FeatureMembers(<< UInt("id", GetFt(f.id, 64), NoClock),
                      UInt("timestamp", GetFt(f.timestamp, 64), dst.clk) >>)

PktCtxFt(dst) ==
    LET f == DstFeatures(dst) IN
    FeatureMembers(<< UInt("packet_size", GetFt(f.total, 64), NoClock),
                      UInt("content_size", GetFt(f.content, 64), NoClock),
                      UInt("timestamp_begin", GetFt(f.beginning, 64), dst.clk),
                      UInt("timestamp_end", GetFt(f.end, 64), dst.clk),
                      UInt("events_discarded", GetFt(f.discarded, 64), NoClock),
                      UInt("packet_seq_num", GetFt(f.seq_num, 64), NoClock) >>)
    \o CreateStructFtMembers(dst.extra)

EmptyErt(dst, ert) == ErHeaderFt(dst) \o dst.common \o ert.spec \o ert.payload = << >>

InvalidErt(dst, ert) ==
    EmptyErt(dst, ert) \/ InvalidMembers(ert.spec) \/ InvalidMembers(ert.payload)

Refused(clocks, dst) ==
    LET id == DstFeatures(dst).id
        count == Cardinality(DOMAIN dst.erts)
    IN \/ InvalidIdens({dst.name} \cup DOMAIN dst.erts)
       \/ dst.clk \notin clocks \cup {NoClock}
       \/ IdRequired(id, count)
       \/ IdTooSmall(id, count)
       \/ InvalidMembers(dst.extra)
       \/ \E m \in Range(CreateStructFtMembers(dst.extra)) : m.name \in ReservedMemberNames
       \/ \E ert \in Range(dst.erts) : InvalidErt(dst, ert)
       \/ InvalidMembers(dst.common)

Ert(ert) ==
    [log_level |-> ert.log_level, spec |-> CreateStructFtMembers(ert.spec),
     payload |-> CreateStructFtMembers(ert.payload)]

Dst(dst) ==
    [name |-> dst.name, clk |-> dst.clk, ert_ids |-> Ids(DOMAIN dst.erts),
     er_header |-> ErHeaderFt(dst), pkt_ctx |-> PktCtxFt(dst),
     common |-> CreateStructFtMembers(dst.common),
     erts |-> [e \in DOMAIN dst.erts |-> Ert(dst.erts[e])]]

-----------------------------------------------------------------------------
(* The parser *)

(* Checked before any data stream type is created. *)
FeaturesRefused(tt) ==
    LET ft == TraceFeatures(tt).dst_id
        count == Len(tt.dsts)
    IN \/ InvalidIdens(tt.clocks)
       \/ IdRequired(ft, count)
       \/ IdTooSmall(ft, count)

RefuseFeatures == status = "features" /\ FeaturesRefused(node) /\ Refuse

CreateFeatures ==
    /\ status = "features"
    /\ ~FeaturesRefused(node)
    /\ status' = "dsts"
    /\ UNCHANGED << node, dsts, trace >>

NextDst == node.dsts[Len(dsts) + 1]

RefuseDst ==
    /\ status = "dsts"
    /\ Len(dsts) < Len(node.dsts)
    /\ Refused(node.clocks, NextDst)
    /\ Refuse

CreateDst ==
    /\ status = "dsts"
    /\ Len(dsts) < Len(node.dsts)
    /\ ~Refused(node.clocks, NextDst)
    /\ dsts' = Append(dsts, Dst(NextDst))
    /\ UNCHANGED << node, status, trace >>

(* A UUID is an array of 16 bytes. *)
PktHeaderFt(tt) ==
    LET f == TraceFeatures(tt) IN
    FeatureMembers(<< UInt("magic", GetFt(f.magic, 32), NoClock),
                      [UInt("uuid", GetFt(f.uuid, 8), NoClock) EXCEPT !.dims = << 16 >>],
                      UInt("stream_id", GetFt(f.dst_id, 64), NoClock) >>)

CreateTraceType ==
    /\ status = "dsts"
    /\ Len(dsts) = Len(node.dsts)
    /\ trace' = [trace EXCEPT !.pkt_header = PktHeaderFt(node),
                              !.dst_ids = Ids({dsts[i].name : i \in DOMAIN dsts})]
    /\ status' = "options"
    /\ UNCHANGED << node, dsts >>

Defaults(tt) == {n \in Range(tt.dsts) : n.is_default}

RefuseDefaults == status = "options" /\ Cardinality(Defaults(node)) > 1 /\ Refuse

CreateConfig ==
    /\ status = "options"
    /\ Cardinality(Defaults(node)) <= 1
    /\ trace' = [trace EXCEPT !.default = {n.name : n \in Defaults(node)}]
    /\ status' = "done"
    /\ UNCHANGED << node, dsts >>

Parse3 ==
    \/ RefuseLogLevel
    \/ SubLogLevelAliases
    \/ NormalizeProps
    \/ RefuseFeatures
    \/ CreateFeatures
    \/ RefuseDst
    \/ CreateDst
    \/ CreateTraceType
    \/ RefuseDefaults
    \/ CreateConfig

-----------------------------------------------------------------------------

(* No member of a packet context hides another one: what the assertion of  *)
(* _set_pkt_ctx_ft says, whatever the user adds and the features that are  *)
(* on (reserved names of _create_dst).                                     *)
MembersDistinct ==
    \A i \in DOMAIN dsts : \A j, k \in DOMAIN dsts[i].pkt_ctx :
        dsts[i].pkt_ctx[j].name = dsts[i].pkt_ctx[k].name => j = k

(* Whatever arrays a structure has, each dynamic one has a length of its   *)
(* own in the same structure, and it is read and written before the array  *)
(* (_create_struct_ft_members, _set_dyn_array_ft_length_ft_member_names).  *)
Structures ==
    UNION {{dsts[i].er_header, dsts[i].pkt_ctx, dsts[i].common}
               \cup {e.spec : e \in Range(dsts[i].erts)}
               \cup {e.payload : e \in Range(dsts[i].erts)} : i \in DOMAIN dsts}

LengthsPrecedeArrays ==
    \A s \in Structures : \A a \in {i \in DOMAIN s : IsDynamicArray(s[i])} :
        LET len == LenOf(s, s[a]) IN
        /\ len \in 1 .. a - 1
        /\ s[len].class = "unsigned-integer"
        /\ \A b \in DOMAIN s : IsDynamicArray(s[b]) /\ LenOf(s, s[b]) = len => b = a

=============================================================================
