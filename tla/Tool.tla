-------------------------------- MODULE Tool --------------------------------
(***************************************************************************)
(* The barectf tool: it creates a command from its arguments (Cli), then   *)
(* runs it (exec() of cli.py).  Generating reads the configuration file    *)
(* (Conversion), possibly twice, then generates and writes the metadata    *)
(* stream, the C headers and the C source (codegen.py).                    *)
(***************************************************************************)
EXTENDS Cli, Conversion, Metadata, Prototypes

CONSTANTS
    ArgLists,    \* arguments the tool may be given
    FewNodes3,   \* configurations, of both versions, it is given with any
    FewNodes2,   \*   of these arguments
    PlainArgs    \* arguments it is given with any configuration

(* Arguments are sequences of words. *)
ASSUME ToolAssumption ==
    /\ \A a \in ArgLists \cup {PlainArgs} :
        /\ a \in Seq(Range(a))
        /\ \A word \in Range(a) : IsWord(word)
    /\ \A tt \in FewNodes3 : IsTraceTypeNode(tt)
    /\ \A m \in FewNodes2 : IsMetaNode(m)

(* The name of no member is the one that the length of another will have:  *)
(* an identifier may begin with "__".                                      *)
LengthNamesAreFree ==
    /\ \A tt \in Nodes3 \cup FewNodes3 : \A d \in Range(tt.dsts) :
           /\ LengthsAreFree(d.extra) /\ LengthsAreFree(d.common)
           /\ \A e \in Range(d.erts) : LengthsAreFree(e.spec) /\ LengthsAreFree(e.payload)
    /\ \A m \in Nodes2 \cup FewNodes2 : \A d \in Range(m.dsts) :
           /\ LengthsAreFree(d.pkt_ctx) /\ LengthsAreFree(d.common)
           /\ \A e \in Range(d.erts) : LengthsAreFree(e.spec) /\ LengthsAreFree(e.payload)

VARIABLES
    content,   \* the node that the configuration file holds, as loaded
    position,  \* where the open configuration file is read: "start" or "end"
    dumped,    \* << >>, or the effective node that --dump-config has printed
    prefixes,  \* << >>, or the prefixes of the code generator
    pending,   \* files generated, not written yet
    generated, \* how many groups of files were generated
    writing,   \* a file is open for writing
    disk,      \* output files: "old", "empty" or "new"
    cause      \* why the tool failed

exec_vars ==
    << content, position, dumped, prefixes, pending, generated, writing, disk, cause >>

vars == << cli_vars, config_vars, exec_vars >>

(* Output files, in the order in which they are generated *)
Groups == << << "metadata" >>, << "header", "bitfield_header" >>, << "source" >> >>

Outputs == UNION {Range(Groups[g]) : g \in DOMAIN Groups}

-----------------------------------------------------------------------------
(* Prefixes.  The prefix option applies the rules of barectf 2. *)

V3PrefixesFromV2Prefix(v2_prefix) ==
    LET kept == {i \in DOMAIN v2_prefix : v2_prefix[i] # "_"}
    IN [identifier |-> v2_prefix,
        file_name |-> SubSeq(v2_prefix, 1, IF kept = {} THEN 0 ELSE Max(kept))]

(* Those of a configuration that sets no prefix. *)
ConfigPrefixes == [identifier |-> << "barectf", "_" >>, file_name |-> << "barectf" >>]

-----------------------------------------------------------------------------

(* _run *)
Init ==
    /\ \/ args = PlainArgs /\ ConfigInit(Nodes3, Nodes2)
       \/ args \in ArgLists /\ ConfigInit(FewNodes3, FewNodes2)
    /\ stage = "general"
    /\ cmd = << >>
    /\ orig_args = args
    /\ opt_descrs = GeneralOptDescrs
    /\ fail_on_unknown_opt = FALSE
    /\ orig_arg_index = 1
    /\ items = << >>
    /\ parsing = "words"
    /\ content = [node |-> node, meta |-> meta, status |-> status]
    /\ position = "start"
    /\ dumped = << >>
    /\ prefixes = << >>
    /\ pending = << >>
    /\ generated = 0
    /\ writing = FALSE
    /\ disk = [f \in Outputs |-> "old"]
    /\ cause = "none"

Fail(why) ==
    /\ stage' = "exit_1"
    /\ cause' = why
    /\ UNCHANGED << parse_vars, args, cmd, config_vars, content, position, dumped,
                    prefixes, pending, generated, writing, disk >>

-----------------------------------------------------------------------------
(* Reading the configuration file *)

(* open() may fail; the file may be the same when it is read again. *)
OpenFails == stage = "open" /\ Fail("disk")

(* The whole file is read.  At its end there is nothing: the root node is  *)
(* not an object.                                                          *)
Load ==
    /\ node' = content.node
    /\ meta' = content.meta
    /\ status' = IF position = "start" THEN content.status ELSE "refused"
    /\ dsts' = << >>
    /\ trace' = [pkt_header |-> << >>, dst_ids |-> << >>, default |-> {}]
    /\ dst_nodes' = << >>
    /\ position' = "end"

ReadConfig ==
    /\ stage = "open"
    /\ cmd[1].name # "version"
    /\ Load
    /\ stage' = IF cmd[1].name = "effective" \/ cmd[1].dump THEN "effective" ELSE "configuration"
    /\ UNCHANGED << parse_vars, args, cmd, content, dumped, prefixes, pending, generated,
                    writing, disk, cause >>

(* configuration_file_major_version() only loads the file. *)
ShowVersion ==
    /\ stage = "open"
    /\ cmd[1].name = "version"
    /\ position' = "end"
    /\ stage' = "exit_0"
    /\ UNCHANGED << parse_vars, args, cmd, config_vars, content, dumped, prefixes, pending,
                    generated, writing, disk, cause >>

Parse ==
    /\ stage \in {"effective", "configuration"}
    /\ ParseConfig
    /\ UNCHANGED << cli_vars, exec_vars >>

ConfigRefused ==
    stage \in {"effective", "configuration"} /\ status = "refused" /\ Fail("configuration")

ShowEffective ==
    /\ stage = "effective"
    /\ status = "done"
    /\ cmd[1].name = "effective"
    /\ dumped' = << node >>
    /\ stage' = "exit_0"
    /\ UNCHANGED << parse_vars, args, cmd, config_vars, content, position, prefixes, pending,
                    generated, writing, disk, cause >>

(* Mutant of Rewind: the file is left where it was read. *)
NoRewind == position

(* f.seek(0) *)
Rewind == "start"

DumpConfig ==
    /\ stage = "effective"
    /\ status = "done"
    /\ cmd[1].name = "gen"
    /\ dumped' = << node >>
    /\ position' = Rewind
    /\ stage' = "dumped"
    /\ UNCHANGED << parse_vars, args, cmd, config_vars, content, prefixes, pending, generated,
                    writing, disk, cause >>

ReadAgain ==
    /\ stage = "dumped"
    /\ Load
    /\ stage' = "configuration"
    /\ UNCHANGED << parse_vars, args, cmd, content, dumped, prefixes, pending, generated,
                    writing, disk, cause >>

-----------------------------------------------------------------------------
(* Generating and writing *)

CreateCodeGenerator ==
    /\ stage = "configuration"
    /\ status = "done"
    /\ prefixes' = << IF cmd[1].prefix = << >> THEN ConfigPrefixes
                      ELSE V3PrefixesFromV2Prefix(Last(cmd[1].prefix)) >>
    /\ stage' = "generate"
    /\ UNCHANGED << parse_vars, args, cmd, config_vars, content, position, dumped, pending,
                    generated, writing, disk, cause >>

MustGenerate == stage = "generate" /\ pending = << >> /\ generated < Len(Groups)

(* All the files of a group are generated before any of them is written.   *)
Generate ==
    /\ MustGenerate
    /\ pending' = Groups[generated + 1]
    /\ generated' = generated + 1
    /\ UNCHANGED << cli_vars, config_vars, content, position, dumped, prefixes, writing, disk,
                    cause >>

(* Mutant of GenerateFails: contents are made once their file is open. *)
FailsWhileWriting ==
    /\ MustGenerate
    /\ disk' = [disk EXCEPT ![Groups[generated + 1][1]] = "empty"]
    /\ cause' = "generator"
    /\ stage' = "exit_1"
    /\ UNCHANGED << parse_vars, args, cmd, config_vars, content, position, dumped, prefixes,
                    pending, generated, writing >>

GenerateFails == MustGenerate /\ Fail("generator")

OpenOutput ==
    /\ stage = "generate"
    /\ pending # << >>
    /\ ~writing
    /\ disk' = [disk EXCEPT ![Head(pending)] = "empty"]
    /\ writing' = TRUE
    /\ UNCHANGED << cli_vars, config_vars, content, position, dumped, prefixes, pending,
                    generated, cause >>

WriteOutput ==
    /\ stage = "generate"
    /\ writing
    /\ disk' = [disk EXCEPT ![Head(pending)] = "new"]
    /\ pending' = Tail(pending)
    /\ writing' = FALSE
    /\ UNCHANGED << cli_vars, config_vars, content, position, dumped, prefixes, generated,
                    cause >>

WriteFails == stage = "generate" /\ pending # << >> /\ Fail("disk")

Finish ==
    /\ stage = "generate"
    /\ pending = << >>
    /\ generated = Len(Groups)
    /\ stage' = "exit_0"
    /\ UNCHANGED << parse_vars, args, cmd, config_vars, exec_vars >>

-----------------------------------------------------------------------------

Next ==
    \/ CreateCmd /\ UNCHANGED << config_vars, exec_vars >>
    \/ OpenFails
    \/ ReadConfig
    \/ ShowVersion
    \/ Parse
    \/ ConfigRefused
    \/ ShowEffective
    \/ DumpConfig
    \/ ReadAgain
    \/ CreateCodeGenerator
    \/ Generate
    \/ GenerateFails
    \/ OpenOutput
    \/ WriteOutput
    \/ WriteFails
    \/ Finish

(* The tool is one sequential process. *)
Spec == Init /\ [][Next]_vars /\ WF_vars(Next)

-----------------------------------------------------------------------------

(* No output is left half made: the tool that succeeds wrote all of its    *)
(* files; the one that refuses its arguments or its configuration touched  *)
(* none; and when it fails on the way only a file that the disk refused is *)
(* truncated, since contents are generated before a file is opened (exec() *)
(* of _GenCmd).                                                            *)
NoHalfOutput ==
    /\ stage = "exit_0" /\ prefixes # << >> => \A f \in Outputs : disk[f] = "new"
    /\ prefixes = << >> => \A f \in Outputs : disk[f] = "old"
    /\ \A f \in Outputs :
        disk[f] = "empty" => writing /\ f = Head(pending) /\ cause \in {"none", "disk"}

(* A configuration whose effective form was printed is the one that code   *)
(* is generated from, and it is not refused afterwards (f.seek(0) of       *)
(* exec()).                                                                *)
DumpedIsGenerated ==
    dumped # << >> =>
        /\ cause # "configuration"
        /\ prefixes # << >> => node = dumped[1]

(* Whatever its version and the stages that it goes through, the log level *)
(* that the configuration gives an event record type, by its number or by  *)
(* an alias, is the one that a reader of the metadata stream finds         *)
(* (_sub_log_level_aliases, _conv_ert_node, metadata.j2), except for 0.    *)
LogLevelMeant(level, aliases) ==
    IF IsAlias(level) THEN << "level", aliases[1][level[2]] >>
    ELSE IF level = << "null" >> THEN << >> ELSE level

LogLevelsKept ==
    status = "done" =>
        LET source == IF content.meta = << >> THEN content.node ELSE content.meta[1] IN
        \A i \in DOMAIN dsts : \A e \in DOMAIN dsts[i].erts :
            LET meant == LogLevelMeant(source.dsts[i].erts[e].log_level, source.aliases) IN
            meant # << "level", 0 >> => Event(dsts[i], e).loglevel = meant

(* Whatever its arguments and its configuration, the tool exits.           *)
ToolExits == <>(stage \in Exits)

=============================================================================
