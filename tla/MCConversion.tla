---------------------------- MODULE MCConversion ----------------------------
(***************************************************************************)
(* Configurations for Conversion. Stream and event record names are        *)
(* numbers, and so are clock names: 9 is a keyword, clock 0 is no clock and *)
(* clock 3 is never declared.  Sets of configurations vary one part of     *)
(* them each.                                                              *)
(***************************************************************************)
EXTENDS Conversion

Clocks == {1, 2}

SomeBadNames == {"int"}

SomeValues == 0 .. 8

LogLevels == << [warn |-> 4, info |-> 6] >>

Optional(fields) == {<< >>} \cup {<< f >> : f \in fields}

-----------------------------------------------------------------------------
(* Version 2 *)

Field2(name, class, signed, size, dims, clk, members) ==
    [name |-> name, class |-> class, signed |-> signed, size |-> size, dims |-> dims,
     clk |-> clk, members |-> members]

Field(name, size, clk) == Field2(name, "int", FALSE, size, << >>, clk, << >>)
UInt16(name) == Field(name, 16, 0)
Array(name, dims) == Field2(name, "int", TRUE, 8, dims, 0, << >>)
Real(name) == Field2(name, "real", FALSE, [exp |-> 8, mant |-> 24], << >>, 0, << >>)
String(name) == Field2(name, "string", FALSE, 0, << >>, 0, << >>)
Enum(name, members) == Field2(name, "enum", TRUE, 8, << 2 >>, 0, members)

Ert2(log_level, spec, payload) == [log_level |-> log_level, spec |-> spec, payload |-> payload]

PlainErt2 == Ert2(<< >>, << >>, << UInt16("p") >>)
EmptyErt2 == Ert2(<< >>, << >>, << >>)

Erts2 ==
    {<< PlainErt2 >>, << EmptyErt2 >>, << PlainErt2, PlainErt2 >>,
     << PlainErt2, EmptyErt2, PlainErt2, EmptyErt2 >>}

PacketTimestamps ==
    {<< >>} \cup {<< Field("timestamp_begin", 32, b), Field("timestamp_end", 32, e) >> :
                      b \in Clocks, e \in Clocks}

PlainCtx == << UInt16("packet_size"), UInt16("content_size") >>

PktCtxs(SeqNums) ==
    {PlainCtx \o ts \o extra \o discarded \o seq_num :
        ts \in PacketTimestamps,
        extra \in Optional({UInt16("x"), Array("x", << Dynamic >>)}),
        discarded \in Optional({UInt16("events_discarded")}),
        seq_num \in Optional(SeqNums)}

ErHeaders ==
    {id \o ts : id \in Optional({Field("id", 1, 0), Field("id", 2, 0)}),
                ts \in Optional({Field("timestamp", 64, c) : c \in Clocks \cup {3}})}

Dst2(name, pkt_ctx, er_header, erts, is_default) ==
    [name |-> name, pkt_ctx |-> pkt_ctx, er_header |-> er_header, erts |-> erts,
     common |-> << >>, is_default |-> is_default]

PktHeaders ==
    {<< >>, << Field("magic", 32, 0), Field("stream_id", 1, 0) >>,
     << Field2("uuid", "int", FALSE, 8, << 16 >>, 0, << >>), UInt16("stream_id") >>}

Meta(uuid, pkt_header, default_stream, dsts2) ==
    [uuid |-> uuid, pkt_header |-> pkt_header, default_stream |-> default_stream,
     clocks |-> Clocks, aliases |-> LogLevels, dsts |-> dsts2]

OneDst2(dst) == Meta(TRUE, << Field("magic", 32, 0) >>, 0, << dst >>)

(* One stream with anything in its packet context and event record header. *)
OneStream(SeqNums) ==
    {OneDst2(Dst2(1, c, h, e, FALSE)) : c \in PktCtxs(SeqNums), h \in ErHeaders, e \in Erts2}

(* Several streams, any one of them the default one. *)
PlainDst2(name, is_default) ==
    Dst2(name, PlainCtx, << Field("id", 1, 0) >>, << PlainErt2 >>, is_default)

SeveralStreams ==
    {Meta(FALSE, h, d, [i \in 1 .. n |-> PlainDst2(4 - i, i = k)]) :
        h \in PktHeaders, d \in 0 .. 3, n \in 2 .. 3, k \in 0 .. 2}

(* One event record type with any field types. *)
EnumMembers == {<< "a" >>, << "b" >>, << "a", 2, 2 >>, << "b", 1, 3 >>, << "a", 0, 0 >>}

Payloads2 ==
    {<< Enum("e", m) >> : m \in UNION {[1 .. n -> EnumMembers] : n \in 1 .. 3}}
    \cup {<< Array("x", d), String("y"), Real("z") >> :
             d \in {<< 2 >>, << Dynamic >>, << Dynamic, 3 >>, << 3, Dynamic >>}}

Levels2 == {<< >>, << "level", 0 >>, << "level", 5 >>, << "alias", "warn" >>, << "alias", "none" >>}

PlainErHeader == << Field("id", 2, 0) >>

ErtStreams ==
    {OneDst2([Dst2(1, PlainCtx, PlainErHeader, << Ert2(<< >>, << String("s") >>, p) >>, TRUE)
                 EXCEPT !.common = << Array("c", << Dynamic >>) >>]) : p \in Payloads2}
    \cup {OneDst2(Dst2(1, PlainCtx, PlainErHeader,
                       << Ert2(k, << >>, << UInt16("p") >>), Ert2(l, << >>, << >>) >>, TRUE)) :
             k \in Levels2, l \in Levels2}

(* Headers with a member of the user *)
HeaderStreams ==
    {[OneDst2(Dst2(1, PlainCtx, h \o << Field("id", 8, 0) >>, << PlainErt2 >>, TRUE))
        EXCEPT !.pkt_header = << Field("magic", 32, 0), f >>] :
            h \in Optional({String("x"), UInt16("timestamp_begin")}),
            f \in {UInt16("stream_instance_id"), UInt16("stream_id")}}

SeqNumStreams == OneStream({UInt16("packet_seq_num")})

SomeNodes2 == SeqNumStreams \cup SeveralStreams \cup ErtStreams \cup HeaderStreams

-----------------------------------------------------------------------------
(* Version 3 *)

Member3(name, class, dims) == MemberNode(name, class, 8, dims, << >>)

UInt3(name) == Member3(name, "uint", << >>)

Extras ==
    {<< >>, << Member3("x", "uint", << Dynamic >>), UInt3("y") >>, << UInt3("x"), UInt3("x") >>,
     << UInt3("packet_seq_num") >>, << UInt3("int") >>}

Ert3(log_level, spec, payload) == [log_level |-> log_level, spec |-> spec, payload |-> payload]

PlainErt3 == Ert3(<< >>, << >>, << UInt3("p") >>)
EmptyErt3 == Ert3(<< "null" >>, << >>, << >>)

Erts3 ==
    {<< PlainErt3 >>, << EmptyErt3 >>, << PlainErt3, PlainErt3 >>,
     << PlainErt3, EmptyErt3, PlainErt3, EmptyErt3 >>}

Dst3(name, clk, features, extra, erts, is_default) ==
    [name |-> name, clk |-> clk, features |-> features, extra |-> extra, erts |-> erts,
     common |-> << >>, is_default |-> is_default]

PlainFeatures ==
    [f \in {"total", "content", "beginning", "end", "discarded", "seq_num", "id", "timestamp"} |->
        Missing]

Features3 ==
    {[PlainFeatures EXCEPT !.total = t, !.beginning = b, !.end = e, !.discarded = d,
                           !.seq_num = s, !.id = i, !.timestamp = ts] :
        t \in {Missing, 16}, b \in {Missing, Off}, e \in {Null, 32}, d \in {Missing, Off},
        s \in {Missing, Default}, i \in {Missing, Off, 1}, ts \in {Missing, Off}}

Node3(clocks, features, dsts3) ==
    [uuid |-> TRUE, clocks |-> clocks, features |-> features, aliases |-> << >>,
     dsts |-> dsts3]

Plain3(dst_id) == [magic |-> Missing, uuid |-> Missing, dst_id |-> dst_id]

OneDst3(dst) == Node3(Clocks, Plain3(Missing), << dst >>)

(* Any structures for an event record *)
Members3 ==
    Optional({UInt3("a"), Member3("a", "str", << 2 >>), Member3("a", "sint", << Dynamic, 2 >>),
              Member3("a", "real", << 2, Dynamic >>), Member3("a", "struct", << >>)})

Structs3 ==
    {m \o n : m \in Members3, n \in Optional({Member3("b", "senum", << Dynamic >>)})}

NoNodes == {}

SomeNodes3 ==
    {OneDst3(Dst3(1, c, f, << >>, e, TRUE)) : c \in {0, 1, 3, Null}, f \in Features3, e \in Erts3}
    \cup
    {OneDst3(Dst3(1, c, [PlainFeatures EXCEPT !.seq_num = s], x, << PlainErt3 >>, FALSE)) :
        c \in {0, 1}, s \in {Missing, Default}, x \in Extras}
    \cup
    {OneDst3([Dst3(1, 1, PlainFeatures, x, << Ert3(<< >>, s, p) >>, FALSE) EXCEPT !.common = c]) :
        x \in {<< >>, << Member3("x", "uint", << Dynamic >>), UInt3("y") >>},
        c \in {<< >>, << Member3("c", "uint", << Dynamic >>), Member3("d", "string", << >>) >>},
        s \in Structs3, p \in Structs3}
    \cup
    {[OneDst3(Dst3(1, 1, PlainFeatures, << >>,
                   << Ert3(l, << >>, << >>), Ert3(k, << >>, << >>) >>, TRUE)) EXCEPT !.aliases = a] :
        l \in Levels2 \cup {<< "null" >>}, k \in Levels2, a \in {<< >>, LogLevels}}
    \cup
    {Node3(c, Plain3(i), [k \in 1 .. n |-> Dst3(s[k], 0, PlainFeatures, << >>, << PlainErt3 >>, k = d)]) :
        c \in {{}, {1, 9}}, i \in {Null, Off, 1}, n \in 1 .. 3, d \in 0 .. 1,
        s \in {<< 1, 2, 3 >>, << 3, 1, 2 >>, << 9, 1, 2 >>}}

=============================================================================
