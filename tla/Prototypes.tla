----------------------------- MODULE Prototypes -----------------------------
(***************************************************************************)
(* The functions that are generated for a data stream type: the parameters *)
(* of their prototypes, which cgen.py makes, and the names in their        *)
(* statements, which come from templates (barectf.c.j2 and the ones of     *)
(* operations).  The two never meet before the C compiler.                 *)
(*                                                                         *)
(* A name is the prefix of a root structure and a member, or a local one.  *)
(***************************************************************************)
EXTENDS TraceTypes

Local(name) == << "", name >>

-----------------------------------------------------------------------------
(* cgen.py *)

ProtoParams(members, prefix, exclude_set, only_dyn) ==
    LET params == Where(members, LAMBDA m :
            /\ m.name \notin exclude_set
            /\ only_dyn => SizeIsDynamic(m) \/ IsLen(members, m))
    IN [i \in DOMAIN params |-> << prefix, params[i].name >>]

(* Mutant of OpenExcludeSet: the set before sequence numbers. *)
OldOpenExcludeSet ==
    {"timestamp_begin", "timestamp_end", "packet_size", "content_size", "events_discarded"}

OpenExcludeSet ==
    {"timestamp_begin", "timestamp_end", "packet_size", "content_size", "events_discarded",
     "packet_seq_num"}

OpenParams(dst) ==
    ProtoParams(trace.pkt_header, "ph", {"magic", "stream_id", "uuid"}, FALSE)
        \o ProtoParams(dst.pkt_ctx, "pc", OpenExcludeSet, FALSE)

TraceParams(dst, ert, only_dyn) ==
    ProtoParams(dst.er_header, "erh", {"id", "timestamp"}, only_dyn)
        \o ProtoParams(dst.common, "ercc", {}, only_dyn)
        \o ProtoParams(ert.spec, "ersc", {}, only_dyn)
        \o ProtoParams(ert.payload, "erp", {}, only_dyn)

-----------------------------------------------------------------------------
(* Templates *)

(* Mutant of CallParams: without the lengths of arrays. *)
CallParamsNoLength(members, prefix, only_dyn) ==
    LET params == Where(members, LAMBDA m : ~only_dyn \/ SizeIsDynamic(m))
    IN [i \in DOMAIN params |-> << prefix, params[i].name >>]

(* ft_call_params *)
CallParams(members, prefix, only_dyn) ==
    LET params == Where(members, LAMBDA m :
            ~only_dyn \/ SizeIsDynamic(m) \/ IsLen(members, m))
    IN [i \in DOMAIN params |-> << prefix, params[i].name >>]

TraceCallParams(dst, ert, only_dyn) ==
    CallParams(dst.common, "ercc", only_dyn)
        \o CallParams(ert.spec, "ersc", only_dyn)
        \o CallParams(ert.payload, "erp", only_dyn)

LenVars(members, prefix) ==
    {<< prefix, LenName(members, m) >> : m \in {a \in Range(members) : IsDynamicArray(a)}}

(* Members of a packet context with a template of their own *)
PktCtxTemplates ==
    {"timestamp_begin", "packet_size", "timestamp_end", "events_discarded", "content_size",
     "packet_seq_num"}

(* Sources of the values that are written, but for members that have a     *)
(* template of their own.                                                  *)
Written(members, prefix, special) ==
    {<< prefix, m.name >> : m \in {x \in Range(members) : x.name \notin special}}
        \cup LenVars(members, prefix)

(* A size only depends on the lengths of arrays and on strings. *)
Measured(members, prefix) ==
    {<< prefix, m.name >> : m \in {x \in Range(members) : x.class = "string"}}
        \cup LenVars(members, prefix)

Timestamp(members, name) ==
    IF \E m \in Range(members) : m.name = name THEN {Local("ts")} ELSE {}

(* ts is declared for a feature of a data stream type with a clock. *)
DefinedTimestamp(dst, members, name) ==
    IF dst.clk = NoClock THEN {} ELSE Timestamp(members, name)

-----------------------------------------------------------------------------
(* Functions *)

Func(params, locals, names, calls) ==
    [params |-> params, locals |-> locals, names |-> names, calls |-> calls]

Call(func, args) == [params |-> func.params, args |-> args]

OpenFunc(dst) ==
    Func(OpenParams(dst), DefinedTimestamp(dst, dst.pkt_ctx, "timestamp_begin"),
         Written(trace.pkt_header, "ph", {"magic", "uuid", "stream_id"})
             \cup Written(dst.pkt_ctx, "pc", PktCtxTemplates)
             \cup Timestamp(dst.pkt_ctx, "timestamp_begin"),
         {})

CloseFunc(dst) ==
    Func(<< >>, DefinedTimestamp(dst, dst.pkt_ctx, "timestamp_end"),
         Timestamp(dst.pkt_ctx, "timestamp_end"), {})

SerializeErHeaderFunc(dst) ==
    Func(<< Local("ert_id") >>, DefinedTimestamp(dst, dst.er_header, "timestamp"),
         Written(dst.er_header, "erh", {"id", "timestamp"})
             \cup Timestamp(dst.er_header, "timestamp"),
         {})

SerializeErCommonCtxFunc(dst) ==
    Func(ProtoParams(dst.common, "ercc", {}, FALSE), {}, Written(dst.common, "ercc", {}), {})

SerializeErFunc(dst, ert) ==
    Func(TraceParams(dst, ert, FALSE), {},
         Written(ert.spec, "ersc", {}) \cup Written(ert.payload, "erp", {}),
         {Call(SerializeErCommonCtxFunc(dst), CallParams(dst.common, "ercc", FALSE))})

ErSizeFunc(dst, ert) ==
    Func(TraceParams(dst, ert, TRUE), {},
         Measured(dst.er_header, "erh") \cup Measured(dst.common, "ercc")
             \cup Measured(ert.spec, "ersc") \cup Measured(ert.payload, "erp"),
         {})

TraceFunc(dst, ert) ==
    Func(TraceParams(dst, ert, FALSE), {}, {},
         {Call(ErSizeFunc(dst, ert), TraceCallParams(dst, ert, TRUE)),
          Call(SerializeErFunc(dst, ert), TraceCallParams(dst, ert, FALSE))})

WritingFuncs(dst) ==
    {OpenFunc(dst), CloseFunc(dst), SerializeErHeaderFunc(dst), SerializeErCommonCtxFunc(dst)}
        \cup {SerializeErFunc(dst, e) : e \in Range(dst.erts)}
        \cup {TraceFunc(dst, e) : e \in Range(dst.erts)}

Funcs(dst) == WritingFuncs(dst) \cup {ErSizeFunc(dst, e) : e \in Range(dst.erts)}

-----------------------------------------------------------------------------

Names(func) == func.names \cup UNION {Range(c.args) : c \in func.calls}

(* A timestamp that was turned on without a clock has no value. *)
TimestampWithoutClock(dst) ==
    dst.clk = NoClock /\ \E m \in Range(dst.pkt_ctx \o dst.er_header) :
        m.name \in {"timestamp_begin", "timestamp_end", "timestamp"}

(* Whatever the members of the root structures, a generated function only  *)
(* uses names that it has, and it calls another one with the arguments     *)
(* that this one's prototype names, in the same order: three separate      *)
(* selections of dynamic members agree (_proto_params_str, ft_call_params  *)
(* and the size templates).                                                *)
NamesAreBound ==
    status = "done" => \A d \in Range(dsts) : \A func \in Funcs(d) :
        /\ TimestampWithoutClock(d) \/ Names(func) \subseteq Range(func.params) \cup func.locals
        /\ \A c \in func.calls : c.args = c.params

(* No value that the user gives is lost: what a packet opening or tracing  *)
(* function gets, down to the functions that it calls, is written in the   *)
(* packet, and nothing is asked of the user that the tracer writes itself  *)
(* (exclude sets of _open_func_params_str and _trace_func_params_str).     *)
ParametersAreWritten ==
    status = "done" => \A d \in Range(dsts) : \A func \in WritingFuncs(d) :
        \A p \in Range(func.params) : p \in Names(func) \/ p = Local("ert_id")

=============================================================================
