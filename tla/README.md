# Verification of barectf

barectf reads a YAML configuration and generates C code: a tracer, that is,
a set of *tracing functions* the application calls to append event records to the
packets of a CTF data stream, and functions a *platform* calls to open, close and
store those packets. The generated code runs on bare metal, often with interrupts
and nothing else, so it keeps all of its state in one context structure, and its
correctness is about steps of different actors on that structure: the application's
calls, the platform's callbacks, interrupt handlers, the clock and the back end.
The generator, in Python, is a sequence of passes over a tree of nodes that
change it in place, and then over the objects made from it; what is hard there is
what a pass assumes of the ones before, and what two of them, or two templates, must
decide in the same way without ever meeting.

This directory holds TLA+ models of both, the TLC configurations that check them and
proofs that TLAPS checks.

## Inventory

| Component | Source | State | Operations | Hard parts | What makes it correct |
|---|---|---|---|---|---|
| Context and packet functions | `templates/c/barectf.c.j2`, `barectf.h.j2` | `struct barectf_ctx`, packet buffer | init, open, close, `packet_set_buf`, `enable_tracing`, size, reserve, serialize, commit | sizes that depend on the offset, unsigned wrap, flags saved and restored around callbacks | records inside the packet, closing fields right |
| Tracing functions | same, 508-556 | `er_size`, saved timestamp, `in_tracing_section` | one call of a tracing function | interrupts between any two steps, tracing switched off halfway, full back end | exact order, sequence numbers, timestamps and discard counts |
| Platforms | `platforms/linux-fs`, `tests/tracing/support/*` | file, buffer, simulated full back end | the callbacks, init, fini, starting a new packet | closing while tracing is disabled, changing the buffer | every packet stored was closed, nothing is lost |
| Operation builder | `cgen.py` | static offset in byte, nesting | one (align, write) operation per field | the static offset must follow the run-time offset | literal offsets are right |
| Bit array writers | `templates/c/bitfield.h.j2` | the buffer's bytes | write of up to 64 bits at any bit offset | partial first and last unit, both byte orders | writes the value's bits and no other |
| Inclusion | `config_parse_common.py`, `config_parse_v2.py`, `config_parse_v3.py` | inclusion stack, nodes | load, skip, patch, per child node and file | cycles, several names of a file, order of layers | terminates, last writer wins |
| Field type aliases and inheritance | same | aliases node, resolved and encountered aliases | expand in place, copy, inherit | cycles, sharing | refuses cycles only, every field type has its meaning |
| Log levels, normalization | `config_parse_v3.py` | the trace type node | substitute aliases, drop nulls, choose class names | order of the passes, a property deleted between two of them | the level that was meant is the one in the metadata |
| Trace type creation | `config_parse_v3.py`, `config.py` | types created so far | features, identifiers, members, lengths of dynamic arrays | minimum field sizes, reserved names, sorted identifiers, members that are found again by identity | a reader can tell types apart, no member hides another, a length comes before its array |
| Version 2 conversion | `config_parse_v2.py` | node trees | conversion to version 3 | other defaults, features deduced from members, enumeration values that count on | an equivalent trace type |
| Metadata generator | `tsdl182gen.py`, `templates/metadata` | – | declarations of streams, events, fields and clocks | must match the numbering of types and the features that are on | a reader finds the declaration of what was serialized |
| Function prototypes and calls | `cgen.py`, `barectf.c.j2`, `barectf.c-macros.j2` | – | parameters, arguments, names of written members | three selections of dynamic members, lists of reserved names in four places | names are bound, arguments match, no parameter is lost |
| Argument parser | `argpar.py` | index, items | next item | arguments in the same or the next word, groups of short options | each word is used once |
| Command line tool, code generation driver | `cli.py`, `codegen.py`, `config_parse.py` | command, open file, files generated and written | create a command, read, dump, read again, generate, write | arguments parsed twice, a file read twice, failures between two files | the command gets its words, no half made output, the tool exits |
| Templates, schemas, tracepoint header | `template.py`, `schemas`, `extra` | – | text output, data, macros | – | – |

The generated functions interact through the context only. A tracing function calls
`is_backend_full`, `open_packet`, `close_packet` and the clock source; the two
packet callbacks call the opening and closing functions back, and the closing
callback stores the packet and may call `packet_set_buf`. An interrupt handler may
call `enable_tracing` at any time and starts a new packet only when
`is_in_tracing_section` returns 0.

## Modules

* `Layout` – alignment and size of the four root structures of an event record and
  the size function. A root structure is at least as aligned as its members, so
  what it contains is laid out the same wherever it starts: a *part* is an alignment
  and a size.
* `Ctx` – `struct barectf_ctx` as a record and one operator per generated function.
  The buffer is kept as the packet context fields, where they end, and the event
  records serialized since the packet was opened (what an older packet left behind
  is never read again, except the fields that only closing writes, which are kept).
  The data stream type has all its packet features.
* `Tracer` – the state machine. `pc` says where the current call is; the other
  actors take whole steps in between. `fate` is a history of what became of each call.
* `DataStream` – the abstract promise: calls are taken in order, each one recorded,
  discarded or (disabled) ignored; recorded ones leave in order in packets that
  have consecutive sequence numbers and an exact snapshot of the discarded counter.
* `TracerRefinement` – the refinement mapping; `ImplementsDataStream` is checked as
  a property.
* `LayoutLemmas`, `TracerProofs`, `OpBuilderProofs`, `BitFieldProofs`,
  `IncludeProofs`, `AliasProofs`, `ConfigProofs`, `ToolProofs` – lemmas, theorems and proofs (see
  Proofs).
* `OpBuilder` – the code generator's operation builder and, beside it, the run of
  the operations it makes: `offset` is `_offset_in_byte`, `at` is `ctx->at`.
* `BitField` – the bit field write macros, statement by statement, on units of
  `Ts` bits.
* `NodeUpdate` – `_update_node` for one node: its own properties, which are scalars, lists, maps and
  lists of members (ordered maps). How the values of a name that both maps have patch each other is
  the constant `PatchNested`, and how child nodes do is `PatchChildren`.
* `Include` – extends it: `frames` are the calls of `_process_node_include` under
  way, with the node, the files it has still to include and its effective layers;
  the inclusion stack is kept as the code does.
* `EffectiveNode` – `PatchValues` and `PatchNodes`, the values of these constants in the runs, which
  are `_update_node` again; the effective node is compared with what the documents mean. `Meaning` does not use the
  updates: it takes all the layers of a node together (`NodeOf`), then those of each name in it (`ValueOf`),
  where the code patches one node by another in place. It would find a member that is
  replaced instead of merged, layers in another order, or a list that is not extended.
* `Aliases` – alias expansion in place: `frames` are the nodes being expanded. What
  inheritance makes of the expanded trace type is the constant `ApplyInheritance`.
* `Inheritance` – `ApplyFtInheritance`, its value in the run; the result is compared with the
  meaning of a trace type, which follows names and inheritance as they come.
* `FieldTypes` – nodes of structure members and the objects made from them: an
  ordered map of members, where a dynamic array brings a length of its own. A field
  type is described by its deepest element and the lengths of the arrays around it.
* `TraceTypes` – what becomes of an expanded version 3 trace type node: substitution of
  log levels, normalization, creation of data stream types and of the trace type.
  `status` says which pass is next.
* `Conversion` – extends it: converts a version 2 metadata node, then creates it.
* `Metadata` – the declarations of the metadata stream, and a reader that looks up the
  stream and event of what it decodes by the identifiers in its headers.
* `Prototypes` – the generated functions of a data stream type: `params` are what
  `cgen.py` puts in their prototypes, `names` what the templates write in their
  statements, `calls` the calls between them.
* `ArgPar` – `parse()`, one action per outcome of an iteration. A word is a sequence of
  tokens: `<< "-", "h", "I", "d" >>` is a group of short options. `items`, and
  `orig_arg_index` (from 1), are the code's.
* `Cli` – `_cmd_from_args()`, which calls it twice: `stage` is "general", then "command".
* `Tool` – composes `Cli`, `Conversion`, `Metadata` and `Prototypes`: the tool from its
  arguments to its exit. `content` is the configuration file, `position` where it is read,
  `disk` what each output file holds.
* `MCTracer`, `MCOpBuilder`, `MCBitField`, `MCInclude`, `MCAliases`,
  `MCConversion`, `MCTool` – inputs for the runs.

`Ctx` and `OpBuilder` use `Layout`; `Tracer` extends `Ctx`; `TracerRefinement` extends
`Tracer` and instantiates `DataStream`. The two modules `EffectiveNode` and `Inheritance`
have what is recursive over trees of nodes, so that `Include` and `Aliases`, which have all the
steps, can be proved about. Of the proofs, `TracerProofs` extends
`TracerRefinement` and `ToolProofs` extends `ConfigProofs`, which has what is proved of the
operators of `FieldTypes`, `TraceTypes`, `Conversion`, `Metadata` and `Prototypes`.
`LayoutLemmas` is under all but `BitFieldProofs`. `Layout` treats a structure as an alignment and a size:
`PositionIndependent`, in `OpBuilder`, is why it may.

| Code | Model |
|---|---|
| `barectf_trace_*` 517, 520, 525-532 | `SaveTimestamp`, `TracingEnabled`/`TracingDisabled`, `EnterSection` |
| `_reserve_er_space` 197, 202-213, 216-233 | `DiscardOversized`; `DiscardWhenFull`, `OpenWhenFull`, `UseCurrentPacket`; `RecordFits`, `CloseForSpace`, `DiscardAfterClose`, `OpenAfterClose` |
| `_serialize_er_*`, `_commit_er` | `SerializeEr`, `CommitEr`, `CommitFull` |
| new packet outside a call | `ReplacePacket`, `StartPacket` |
| platform finalization | `Fini` |
| `enable_tracing`, `is_backend_full`'s answer, clock | `SetTracing`, `BackendChanges`, `Tick`, `ClockSetBack` |
| `_OpBuilder._build_for_ft` | `BeginStruct`, `BuildArray`, `BuildLeaf`; `TryAlign`, `AfterWrite` |
| generated loops and writes | `AlignElement`, `WriteElement`, `EndMember` |
| `_bt_bitfield_write_le`, `_be` | `LEOneUnit`, `LEFirst`, `LEMiddle`, `LELast`; `BELast`, `BEMiddle`, `BEFirst`, `BEOneUnit` |
| `_process_node_include`, `_load_include`, `_update_node` | `ProcessChild`, `NotFound`, `IgnoreNotFound`, `RefuseRecursive`, `LoadInclude`, `LoadEmpty`, `Return`, `Finish`; `Patch`, `PatchValues`, `PatchNodes` |
| `_resolve_ft_alias`, `_apply_ft_inheritance` | `NoSuchAlias`, `CycleDetected`, `ResolveAlias`, `CopyAlias`, `EnterNode`, the three returns; `ApplyFtInheritance` |
| `_sub_log_level_aliases`, `_normalize_props` | `SubLogLevelAliases`, `RefuseLogLevel`; `NormalizeProps` |
| `_create_struct_ft_members`, `_create_enum_ft`, `_create_array_ft` | `CreateStructFtMembers`, `AddMember`; `CreateFt`; `InvalidFt` |
| `_create_trace_type`, `_create_dst`, `_create_ert`, `_create_config` | `CreateFeatures`, `CreateDst`, `Ert`, `CreateTraceType`, `CreateConfig` and their refusals |
| `_conv_meta_node`, `_conv_dst_node`, `_conv_ert_node`, `_conv_enum_ft_node` | `ConvDst`, `RefuseClocks`, `RefuseStream`, `ConvMeta`; `V3Features`, `DefaultClock`, `ExtraMembers`; `ConvErtNode`; `AddMapping` |
| `metadata.j2`, `struct-ft.j2`, `enum-ft.j2`, `_filt_ft_lengths` | `Stream`, `Event`; `StructFt`; `RangeStrs`; `FtLengths` |
| `_proto_params_str`, `_open_func_params_str`, `_trace_func_params_str`, `ft_call_params` | `ProtoParams`, `OpenParams`, `TraceParams`, `CallParams` |
| functions of `barectf.c.j2` | `OpenFunc`, `CloseFunc`, `SerializeErFunc`, `ErSizeFunc`, `TraceFunc`… |
| `parse`, `parse_short_opts`, `parse_long_opt` | `TakeNonOpt`, `TakeOpts`, `TakeOptsAndNext`, `StopAtUnknownOpt`, `FailOnUnknownOpt`, `MissingOptArg`, `RefuseDashes`, `EndOfWords` |
| `_cmd_from_args` and the functions of each command | `HelpOrVersion`, `CallCommand`; `CommandHelp`, `RefuseCommand`, `CreateCommand` |
| `exec()` of each command | `ReadConfig`, `DumpConfig`, `ReadAgain`, `ShowEffective`, `ShowVersion`, `CreateCodeGenerator`, `Generate`, `OpenOutput`, `WriteOutput`, `Finish` and their failures |

Parameters of the environment: `AsyncFlush` (a platform that starts packets from an
interrupt), `DisabledClose` (one that closes packets without asking whether tracing
is enabled, as `barectf_platform_linux_fs_fini` does), `CanDisable`, `CanFill`,
`RealtimeClock`. An interrupt handler runs to completion between two steps of the
application; concurrent threads on one context are outside what barectf supports
(`docs/modules/tracing-funcs/pages/index.adoc`, 190-202).

## Runs

| Run | Question | Result |
|---|---|---|
| `calls` | four calls, records that fill, do not fit, or never fit a 256-bit packet; disable, full back end, flush between calls | nothing outside the packet, every stored packet closed, timestamps ordered, discards counted where they happen and only when needed; implements `DataStream` |
| `buffers` | records whose size depends on the offset, each at most an empty packet; the closing callback switches between two buffer sizes; interrupts that start packets between any two steps; a clock set back | nothing outside, sequence numbers consecutive, implements `DataStream` |
| `liveness` | a platform that closes packets while tracing is disabled, with interrupts; fair calls and finalization | packet frozen outside tracing sections, sections exclusive, calls return, every record delivered |
| `members` | every root structure of up to three members | literal offsets are those of the running code; layout does not depend on where a structure begins |
| `units` | every field of up to three units, both byte orders, signed or not | the value is written, its neighbours are kept |
| `includes` | two files, one with two names, included by root, child and each other | no file inside itself; effective node is what the documents mean; member names stay unique |
| `aliases` | three aliases that name, contain, inherit each other | only cycles are refused; expansion is the meaning |
| `tool` | any arguments with one good and one refused configuration of each version; any configuration of both versions with plain arguments | every word is used once and the command gets its own; members distinct, lengths before arrays, types found by a reader, names bound, parameters written; conversion keeps members, labels, clock and log level; no half made output; what is dumped is what is generated; the tool exits |
| `stale_size` | a record that is larger in the new packet than where its size was computed | **violated**: written past the end |
| `disabled_fini` | finalization while disabled | **violated**: unclosed packet stored |
| `empty_include` | an empty file included twice | **violated**: refused as recursive |
| `seq_num` | `packet_seq_num` in a version 2 configuration | **violated**: the member disappears |

The violated ones are differences between the code and what its comments, assertion
or documentation say; `PROJECT.json` quotes them. `MembersKept` of `tool` leaves out
what is lost in this way, the sequence number and members of headers: it is about what the
conversion looks at (`Seen`). `LengthsPrecedeArrays` of `tool` is about configurations none of whose
members has the name of a length (`LengthNamesAreFree`, which TLC checks of them).

What else was seen while modelling, and has no run of its own:

* The size computed at the old offset may also be too *large* in the new packet: a
  record that fits is then discarded.
* An interrupt handler that starts a packet after the timestamp is saved and before
  `in_tracing_section` is set makes the record older than the packet's beginning.
  `is_in_tracing_section` is 0 there, so that the handler may. `TimestampsOrdered` is
  checked without such handlers and with a clock that does not go back.
* A closing callback that switches to a buffer in which the record does not fit makes
  the assertion of `_reserve_er_space` fail.
* The builder keeps an offset known inside a loop when it leaves an array, which is
  right only because the parser refuses arrays of dynamic arrays: without that
  restriction (`AcceptedNested`) `KnownOffset` fails.
* Version 2: when the event record header names another clock than the packet context, the
  conversion keeps the header's and maps the timestamps of the packets to it as well, without
  an error (`ClocksKept` is about data stream types that name one clock); structure nodes without `fields` for packet or event
  headers raise `KeyError`.
* Version 2: members of headers that the conversion does not look up disappear as the sequence
  number does, among them `stream_instance_id`, which the schema names.
* Version 3: the parser adds a member `__x_len` for the length of a dynamic array `x`, and looks for
  duplicates among the user's names only. A member that the user gives this name, declared after
  the array, takes the place of the length, which the metadata and the code then call `None`.
* Version 3: a timestamp feature turned on explicitly in a data stream type without a
  clock is accepted, and the generated functions use a variable that they do not have.
  `NamesAreBound` excepts such data stream types (`TimestampWithoutClock`); the
  configurations of `tool` contain some, and without the exception it is violated.
* Version 3: a UUID feature turned on explicitly without a UUID is accepted, and the
  generated code copies 16 bytes of an empty array; a null `mappings` property passes
  the schema, is removed by normalization and then raises `KeyError`.
* The length of a string is kept in 32 bits, so that its size in bits wraps from 512 MiB. Records
  discarded after the last packet was opened are reported by no packet if that one stays empty.
* The metadata template tests whether a log level is true, so that the level 0 is left
  out; `LogLevelsKept` is about the others.
* When the disk fails between two output files, files of the previous generation stay
  beside new ones. A file being written is truncated first: `NoHalfOutput` says that
  only the disk itself can leave it so.

### Bounds

`MCTracer`: `MaxCalls` is 3 or 4: the packets of the runs hold two records, so that
many calls fill a packet, close one, open the next and write or discard in it.
`MaxClock` is 1 or 2 (enough for two snapshots to differ and be ordered).
`MaxPackets` bounds the packets the platform starts by itself. `Word` (2^32 in the
code) is 65536, more than any offset; the sequence number and counter fields have
one bit so that their wrap is reached. `Garbage` is what uninitialized memory holds,
one value that no field takes otherwise.

`MCOpBuilder`: three members, eleven kinds of them: alignment below, equal to and
above a byte, sizes that are and are not whole bytes, strings, arrays up to two
deep. `MaxLength` is 2: an empty array, one iteration and a second one that
begins where the first ended. The builder starts with any offset, the structure at
an aligned and at an odd one.

`MCBitField`: units of four bits instead of eight (nothing in the macros depends on
their size but the size itself), lengths up to nine bits: one, two and three units, with
every position in the first, every value, over zeros and over ones.

`MCInclude`: two files, two inclusion directories, inclusions at most two levels of
nodes deep (`MaxLevel`), enough for a cycle through a file and through a child node, and
for the same file under two names. Each document has every kind of value, one that is a list in
some documents and a scalar in another, and a member that all have, whose value is a map with such values.

`MCAliases`: three aliases; a cycle of any length up to three, an alias used twice, one
that inherits from one that contains another. `MaxDepth` is 6: a name is at most five levels
below a value, after an acyclic expansion of all three aliases too.

`MCConversion`: sets of configurations, each of which varies one part: the features,
clocks and identifier sizes of one data stream type; two or three plain ones that differ in
their order and default; the structures of one event record type, with dynamic arrays, arrays of
strings and arrays of arrays, alone and beside a common context with an array of its own;
enumerations of up to three members with two labels, with and without values, ranges that
overlap and labels that come back; log levels of two event record types by number, by alias, by
an unknown alias, null and absent. Identifier fields have one or two bits, so that four types fit
exactly. Names and clocks are numbers where their order matters, 9 being a keyword.

`MCTool`: any three of eighteen words, which have every form that the parsers tell apart (short
and long, known to one command only, with the argument inside or after, empty, `-` and `--`,
names of commands, files, directories and nothing), and any five of the five most
ambiguous ones: three are enough for an option, its argument and what follows, five for a
command after options whose argument is its name. A file that holds `gen` exists, so that a
word may be both a command and a configuration.

### Deadlock and fairness

Deadlock checking is off: after `Fini` the program has stopped, and the other
models are of functions that return or of a tool that exits.

Fairness (`FairSpec`). `WF(TracingCallStep)`: a call that has begun is straight-line
code and keeps running. `WF(Fini)`: the application ends by finalizing the platform
when no call is under way. Nothing is assumed of the clock, the back end, interrupts
or new calls. `WF(Next)` in `Tool`: the tool is one sequential process, which goes on until it
exits; nothing is assumed of which failure happens, or that none does.

## Proofs

TLAPS proves the following for every value of the constants: any record layouts, buffer
sizes, header sizes, field widths, unit sizes, structures, words, configurations, and any
number of calls. Beside the assumptions that the modules declare (what the constants
are), a theorem names what it assumes of the platform, of the sizes and of the configuration:

| Hypothesis | Meaning | Without it |
|---|---|---|
| `ClosesWhenEnabled` | the platform does not call the closing function while tracing is disabled, or tracing is never disabled | run `disabled_fini` stores a packet that was not closed |
| `AcceptedRecordsFit` | a record whose size, computed anywhere, is accepted by the first test of `_reserve_er_space` fits every empty packet | run `stale_size` writes past the end |
| `SameSizeWhenDisabled` | a platform that does close packets while disabled keeps the size of the buffer | the open packet gets a smaller buffer |
| `SnapshotIsExact` | the counter of discarded records and its field agree on each number of losses | a field wider than the 32-bit counter does not wrap with it |
| `PackedStream(unit)` | records are packed to a unit that divides header ends and buffer sizes | a size computed at an old offset, too large in the new packet, discards a record that fits |
| `~AsyncFlush`, `~RealtimeClock` | no packet is started between two steps of a call; the clock does not go back | the record is older than its packet |
| `LengthNamesAreFree` | no member of a configuration has the name that the parser gives to the length of a dynamic array of the same structure | a member `__x_len` declared after the array `x` takes the place of its length |

The constants of the run `calls` satisfy all but the last, those of `tool` the last (with a unit of 8 bits), and those of
`buffers` all those of the theorems about `SequenceNumbers`, `InsidePacket` and the
refinement. `EveryRecordFitsIsEnough` and `PackingIsEnough` are two simple conditions for
`AcceptedRecordsFit` (every record fits every empty packet; or records are packed and all
buffers have one size and headers one end); `NarrowSnapshot` and `FewCalls` are two for
`SnapshotIsExact` (the field's modulus divides the counter's, as powers of two do when the
field is no wider; or the counter does not wrap).

### Tracer

* `TypeCorrect` – `Spec => []TypeOK`. The part that is not bookkeeping is that
  aligning and writing never move an offset back (`PutBound`, `ErEndBound`), so that the
  size of a record is a natural number.
* `SectionFlagCorrect` – `in_tracing_section` holds exactly at the steps from
  reserving to committing. `SectionInv` adds the type, that the packet size is a
  buffer's, and what a step of a call has tested of the context; `OpenPacketKeeps` and
  `ClosePacketFacts` say the callbacks restore the flag on every path.
* `SectionExclusive` – from it: only the call's own steps change the packet then.
* `RecordsStayInside` – `Spec => []InsidePacket` (`AcceptedRecordsFit`,
  `SameSizeWhenDisabled`). `InsidePacket` is not inductive: `SpaceInv` adds that a closed
  packet is full (`Bounded`), so that `_reserve_er_space` opens it before writing, and
  what `er_size` stands for at each step (`Reserved`): the size at the current offset, or,
  once a packet has been opened for the record, only that the record fits it.
* `DisabledIsFrozen` – `Spec => FrozenWhileDisabled` (`SameSizeWhenDisabled`).
* `TracerImplementsStream` – `Spec => ImplementsDataStream` (`ClosesWhenEnabled`): initial
  states map to initial states, and each step to a step of `DataStream` or a stutter. Lemma
  `NextFlow` sorts the twenty-odd actions into a few kinds by what they do to the stream
  (close and store, open, write a record, finish a call, lose one, nothing of these), with
  exact equations for the context (`ClosesTo`, `OpensTo`, `WritesTo`); the refinement and
  the theorems below are then about kinds. `FlowInv` is `SectionInv` and what the kinds
  need: the identifiers of the records, and what is open where.
* `NumbersConsecutive` – `Spec => []SequenceNumbers` (`ClosesWhenEnabled`). `NumberInv`: the
  counter is the number of stored packets and the open packet has it.
* `StoredPacketsAreClosed` – `Spec => []PacketsAreClosed` (`AcceptedRecordsFit`,
  `ClosesWhenEnabled`). `ClosedInv`: the offset is where the open packet's content ends.
* `TimeNeverGoesBack` – `Spec => []TimestampsOrdered` (`ClosesWhenEnabled`, `~AsyncFlush`,
  `~RealtimeClock`). `TimeInv` relates the saved timestamp, the clock, the open packet and
  the last one stored at each step of a call.
* `SnapshotsPlaceLosses` – `Spec => []DiscardsArePlaced` (`ClosesWhenEnabled`,
  `SnapshotIsExact`). `LossInv`: each stored packet comes with a number of calls whose losses it has
  counted, which is not less than the identifiers of its records and not more than those of later ones.
* `DiscardsAreNecessary` – `Spec => DiscardIsNecessary` (`ClosesWhenEnabled`, headers that fit
  and `PackedStream`). `PackedInv`: every offset is a multiple of the unit, so that the size of a
  record is the same everywhere.

### Code generator

* `OpBuilderProofs` – `BuilderInvariant`: `OpInv` says that what the builder knows
  of the position agrees with the run of its operations (`Building`, `Running`) and where the
  members are relative to the beginning of the structure (`Placed`). From it
  `LiteralsAreRight` (`LiteralOffset`), `BuilderKnowsOffset` (`KnownOffset`) and
  `LayoutIsRelative` (`PositionIndependent`). That arrays of dynamic arrays are refused is
  in `AcceptedNested`; the case of loops needs it.
* `BitFieldProofs` – `FieldInvariant`, for any unit size, start and length: `Kept` (bits outside the
  field), `Stored` (bits of the value that were written, each in its place) and `Behind` (what is left
  of the value). One lemma per macro statement. From it `NeighborsAreKept` and `ValueIsWritten`.

### Tool

* `OutputIsWhole` – `Spec => []NoHalfOutput`. `OutputInv` relates the groups generated, the
  files pending and the contents of each file. The proof found an error of the model: a
  file could still be opened after the tool had exited; `OpenOutput` and `WriteOutput` are
  now steps of the stage "generate", as in the code.
* `CommandGetsItsWords` – `Spec => []OnlyNameIsTaken`. `CliInv`: while general options are
  parsed, the items read so far are general options without arguments, which spell the
  words before the current one.
* `ItemsSayTheWords` – `Spec => []ItemsSpellWords`, for both uses of the parser. `SpellInv`: the
  words are words (`IsWord`, an assumption about the constants of `Tool`: no token is empty
  and `=` separates the name of a long option from its text), and the items found spell those passed over.
  `WordSpelled` is the lemma about one option word, long (`LongSpelled`) or a group of letters
  (`ShortSpelled`), with its argument in it or in the next word; what two texts say together
  is what each of them says (`BothSaid`), so that steps add up (`SpellsMore`).
* `GeneratesWhatItDumped` and `LogLevelsAreKept` – `Spec => []DumpedIsGenerated`,
  `Spec => []LogLevelsKept`. `ToolInv` has three parts: `OutputInv`; `ConfigInv`, which says
  at each stage what the node, the data stream types made so far and the ones converted so
  far are, as functions of the configuration file (`NodeOf`, `EffectiveNode`, `DstsOf`); and
  `ReadInv`, that what was dumped is the effective node of an accepted file. An
  effective node is a fixed point of the passes, so that the second reading gives it again.

### Configurations

These theorems are about all configurations that have the shapes of the schemas
(`IsTraceTypeNode`, `IsMetaNode`), and about everything that the tool makes of them. They need
`TraceInv` beside `ToolInv`: the data stream types are those made of the first nodes of the
effective node, none of which was refused, and the trace type has the headers and
identifiers of all of them. Each theorem is then about what one node, which was not refused,
becomes (`DstMade`), or one metadata node of version 2 (`ConvertedDone`).

* `NoMemberIsHidden` – `Spec => []MembersDistinct`. The members of features have different
  names (`CtxFeatureNames`), the user's are those of an ordered map (`CreatedDistinct`), and
  reserved names are refused.
* `LengthsComeFirst` – `Spec => []LengthsPrecedeArrays` (`LengthNamesAreFree`). `IsLaid` says of
  a list of members that each array follows its length and that a length is its array's only;
  `CreatedLaid` that the structure made of any list of nodes is.
* `ArgumentsAreWritten` – `Spec => []ParametersAreWritten`. What a prototype asks for
  (`AskedFor`) is compared, structure by structure, with what the functions write.
* `FunctionsAgree` – `Spec => []NamesAreBound` (`LengthNamesAreFree`). A parameter list and the
  arguments of a call are the same function of the structures (`CallsAsAsked`), although one
  leaves out members that it looks up by name and the other those that a call measures.
* `TypesAreFound` – `Spec => []ReaderFindsTypes`. The identifiers are the ranks of the names
  (`IdsFacts`), so that they are different and less than their number; a field that was not
  refused holds them all (`IdIsRead`), and there is one type at most where there is no field.
* `ClockIsKept` – `Spec => []ClocksKept`. The clock that the conversion takes (`ClockNamed`) is
  that of all timestamps (`TimestampClocks`), and it was looked up (`Refused`).
* `DeclaredMembersAreKept` – `Spec => []MembersKept` (`LengthNamesAreFree`). Each structure is a
  concatenation in both versions: what a reader sees of a field is what it sees of the
  members created from it (`StructKept`), headers and packet contexts are the members of
  features that are on (`PktHeaderKept`, `PktCtxKept`, `ErHeaderKept`), and the sizes of features pass through the
  normalization (`FeaturesKept`).
* `ValuesKeepTheirLabels` – `Spec => []LabelsKept` (`LengthNamesAreFree`). One induction over the
  members of an enumeration (`RangesCounted`) relates the counter of the conversion and the
  ranges gathered by label to the value that each member has in version 2.

The lists of the configuration are built with folds, filters and concatenations. That is
induction over data, which the provers cannot do for recursive *operators*; what they are
here are the recursive functions of the community modules, and one induction over a set of
natural numbers (`Induction`, from the least element of a set) gives each of them as a function of its
elements (`FoldExists`, `FlattenSteps`, `CreateSteps`). `Where`, in `FieldTypes`, is `SelectSeq`
written with `FlattenSeq` for that reason: the definition of `SelectSeq` cannot be expanded.

### Inclusion

* `FilesAreNotNested` – `Spec => []NoFileInsideItself`, for any files, directories, nodes and
  `Patch`. `IncludeInv` cannot say that the stack holds exactly the files under way: an empty
  file stays on it (run `empty_include`), and when the file that included it returns, the
  empty one is popped in its place. It says what remains true (`Accounted`): nothing is on the stack twice, and
  the files under way are on it in the order in which they include each other, so that
  popping any last element leaves those of the outer ones.
* `MembersAreNotRepeated` – `Spec => []MembersStayUnique`, where the property supposes that each
  list of members that is written names a member once (`DocumentsAreMaps`). `MapsInv` says it of
  every layer of a frame (`Layers`), and of the node of a frame only what is its own: a child node that is being processed is
  still in its parent's, as it was. `UpdateFacts` is about a list of members patched by
  another (`Updated`, folded): the names are those of both, none of them twice.
  `IncludeAssumption` gives the shapes of the documents. How deeper values and nodes patch each other
  (`PatchNested`, `PatchChildren`) may be any operators: the property is about the members of the node itself.

### Field type aliases

Both theorems are about any aliases, trace type and order of expansion, and about whatever
inheritance then does (`ApplyInheritance`). `AliasesAssumption` says that field types are finite
trees: they end within `MaxDepth` levels, as the documents do which YAML gives. The steps do not depend on
`MaxDepth`, which bounds only how deep `Names` looks: what holds for any value from some depth on
holds at all depths. `NestedFacts` gives the levels of a value, a recursive function, one from the other.

* `ResolvedNameNothing` – `Spec => []ResolvedAreComplete`. Expansion changes nodes in place and in any
  order, so that `AliasInv` says, of each frame, that a part that is still to be expanded is
  what it was in the document and one that is expanded names nothing (`Calls`); of each alias,
  that it is resolved and names nothing, or is as it was written.
* `OnlyCyclesAreRefused` – `Spec => []OnlyCyclesRefused`. The encountered aliases are too many: they
  include those of sibling nodes. `AliasInv` has that those which are *not resolved* are being
  expanded, and that each alias being expanded was named by what encloses it up to the alias before
  (`Origin`). An alias that is named while it is being expanded is then in every set closed under
  names that it leads to (`UnderWayDepend`), which is what `Cyclic` says.

The constants of `Tool`, `Conversion` and `OpBuilder` have named assumptions about the
shape of a word, a node and a structure. `LayoutLemmas` has the arithmetic that the provers
do not find: remainders of sums and multiples, powers of an alignment, and least and
greatest elements, which come from the library's theorem on well-founded relations (instead
of an induction).

### Only model-checked

* Liveness (`CallReturns`, `RecordIsDelivered`, `ToolExits`): out of the prover's reach.
* `EffectiveIsMeaning`, of `EffectiveNode` and of `Inheritance`: what a tree of nodes means is
  a RECURSIVE operator over trees, and so are patching of nested nodes and inheritance; induction over them
  is out of reach.

## Abstractions

* Tracer: contents of records, byte order, and the text of the generated code are left
  out; a record is its call number, timestamp and end. The content size field is taken
  as wide enough. Reading the clock in a callback and the callback itself are one step.
  `off_content` before the first opening is not explored: the initialization function
  opens a packet at once. Error paths of the platform's initialization (allocation,
  `fopen`) leave no tracer behind and are not modelled.
* `OpBuilder`: a static array has any length up to the bound, as a dynamic one;
  choosing templates and C types is text. Structures are not nested, which version 3
  does not allow in arrays.
* `BitField`: the `memcpy` path of whole-byte integers in the native byte order is
  not modelled bit by bit.
* `Include`: YAML loading and JSON schema validation are external. Of the lists that
  are merged by name only version 3 `members` is modelled; version 2 `fields` are maps. An
  item of `members` has one name, as the schema requires.
* `Aliases`, `Inheritance`: a node is properties and parts; the order of parts is nondeterministic,
  so that every order the parsers use is checked.
* `FieldTypes`, `TraceTypes`, `Conversion`: a feature's field type is its size. Alignments
  (see `OpBuilder`), byte orders, display bases, the trace environment, clock properties and
  code generation options other than the default data stream type are copied by the code
  without a decision, and left out. Null values are modelled for features, log levels and
  the clock name; version 2 nulls are not. An enumeration's labels are compared on the values 0 to 8.
* `Metadata`: declarations are records; the reader reads identifiers as CTF says, an
  integer of the field's size, and is not part of barectf.
* `Prototypes`: a function is its parameters, local names, names in its statements and
  calls; the C types and the order of statements are left out. What a template
  writes is that of its operation: `size` ones only name strings and lengths.
* `ArgPar`, `Cli`: a short option is one token and so is a long option's name; `=` is a token. Usage
  and error messages are left out: what is kept of an error is that the tool exits with 1. Files
  and directories do not change between the checks of `Cli` and the execution in `Tool`.
* `Tool`: the contents of a file are "old", "empty" or "new"; `show-configuration-version` only
  loads the file. That its contents are read once or twice and in full is kept.
* Not modelled: `template.py`, schemas, standard inclusion files and the tracepoint header (text,
  data and macros without state).

## Plan

1. (done) Context, tracing functions, platform; abstract data stream; section and
   space proofs.
2. (done) Operation builder and bit array writers.
3. (done) Inclusion, aliases, trace type creation, version 2 conversion.
4. (done) Field types, log levels and normalization, enumerations, metadata, prototypes; argument
   parser, command line tool and their composition with the configuration parsers.
5. (done) Proofs of the data stream, order, losses and refinement of the tracer, of the
   operation builder, of the bit array writers, of inclusion and of the tool.
6. (done) Proofs about configurations: members, lengths, functions, identifiers, clocks, and what
   the conversion from version 2 keeps.
7. (done) Proof of the argument parser: the items say what the words say.
8. (done) Proofs of inclusion and alias expansion: members are not repeated, resolved aliases name
   nothing, only cycles are refused.
9. Left to TLC for good reasons: the two `EffectiveIsMeaning`, and liveness.
