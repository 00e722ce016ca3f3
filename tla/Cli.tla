--------------------------------- MODULE Cli ---------------------------------
(***************************************************************************)
(* From the command-line arguments to a command: _cmd_from_args of cli.py. *)
(* The arguments are parsed twice: for the general options, up to the      *)
(* first word that they do not explain, then for those of the command,     *)
(* which is "generate" when no word names one.                             *)
(***************************************************************************)
EXTENDS ArgPar

CONSTANTS
    Files,        \* texts that name existing regular files
    Dirs,         \* texts that name existing directories
    Cwd,          \* the current directory
    IndentSpaces  \* texts that are a number from 1 to 8

ASSUME CliAssumption == Cwd \in Dirs /\ << "2" >> \in IndentSpaces

VARIABLES
    args,   \* sys.argv[1:]
    stage,  \* what the tool is doing, or how it exited
    cmd     \* << >>, or the command object

cli_vars == << parse_vars, args, stage, cmd >>

Exits == {"exit_0", "exit_1"}

-----------------------------------------------------------------------------
(* Options *)

GeneralOptDescrs == {OptDescr("V", "version", FALSE), OptDescr("h", "help", FALSE)}

Help == OptDescr("h", "help", FALSE)
IncludeDir == OptDescr("I", "include-dir", TRUE)
IgnoreNotFound == OptDescr("", "ignore-include-not-found", FALSE)

CmdOptDescrs ==
    [gen |-> {Help, IncludeDir, IgnoreNotFound, OptDescr("", "dump-config", FALSE),
              OptDescr("c", "code-dir", TRUE), OptDescr("H", "headers-dir", TRUE),
              OptDescr("m", "metadata-dir", TRUE), OptDescr("p", "prefix", TRUE)},
     effective |-> {Help, IncludeDir, IgnoreNotFound, OptDescr("", "indent-spaces", TRUE)},
     version |-> {Help}]

CmdNames ==
    [gen |-> {"generate", "gen"},
     effective |-> {"show-effective-configuration", "show-effective-config",
                    "show-effective-cfg"},
     version |-> {"show-configuration-version", "show-config-version",
                  "show-cfg-version"}]

(* The commands that a text names: one or none. *)
Named(text) == {c \in DOMAIN CmdNames : \E n \in CmdNames[c] : text = << n >>}

(* _find_opt_items and _opt_item_val *)
OptTexts(found, long_name) ==
    LET opts == SelectSeq(found, LAMBDA i : i.descr.long_name = long_name)
    IN [i \in DOMAIN opts |-> opts[i].text]

Given(found, long_name) == \E i \in DOMAIN found : found[i].descr.long_name = long_name

OptVal(long_name, default) ==
    IF Given(items, long_name) THEN Last(OptTexts(items, long_name)) ELSE default

-----------------------------------------------------------------------------
(* General options *)

FirstNonOpt == SelectInSeq(items, IsNonOpt)

GeneralItems == IF FirstNonOpt = 0 THEN items ELSE SubSeq(items, 1, FirstNonOpt - 1)

Exit(code) ==
    /\ stage' = code
    /\ UNCHANGED << parse_vars, args, cmd >>

ParseGeneral == stage = "general" /\ ParseArgs /\ UNCHANGED << args, stage, cmd >>

GeneralParsed == stage = "general" /\ parsing = "done"

ArgError == stage \in {"general", "command"} /\ parsing = "error" /\ Exit("exit_1")

HelpOrVersion ==
    /\ GeneralParsed
    /\ Given(GeneralItems, "help") \/ Given(GeneralItems, "version")
    /\ Exit("exit_0")

(* Mutant of CmdFirst: the name is looked for among all the items, so that *)
(* the words before it are dropped.                                        *)
CmdFirstAnywhere ==
    LET named == SelectInSeq(items, LAMBDA i : IsNonOpt(i) /\ Named(i.text) # {})
    IN IF named = 0 THEN 1 ELSE items[named].orig_arg_index + 1

(* cmd_first_orig_arg_index *)
CmdFirst ==
    IF FirstNonOpt = 0 THEN 1
    ELSE IF Named(items[FirstNonOpt].text) = {} THEN items[FirstNonOpt].orig_arg_index
         ELSE items[FirstNonOpt].orig_arg_index + 1

CmdName ==
    IF FirstNonOpt = 0 \/ Named(items[FirstNonOpt].text) = {} THEN "gen"
    ELSE CHOOSE c \in Named(items[FirstNonOpt].text) : TRUE

CallCommand ==
    /\ GeneralParsed
    /\ ~Given(GeneralItems, "help")
    /\ ~Given(GeneralItems, "version")
    /\ CallParse(SubSeq(args, CmdFirst, Len(args)), CmdOptDescrs[CmdName], TRUE)
    /\ cmd' = << [name |-> CmdName] >>
    /\ stage' = "command"
    /\ UNCHANGED args

-----------------------------------------------------------------------------
(* Options of a command *)

ParseCommand == stage = "command" /\ ParseArgs /\ UNCHANGED << args, stage, cmd >>

CommandParsed == stage = "command" /\ parsing = "done"

CommandHelp == CommandParsed /\ Given(items, "help") /\ Exit("exit_0")

CfgFilePaths == SelectSeq(items, IsNonOpt)

OutputDirs ==
    [code |-> OptVal("code-dir", Cwd), headers |-> OptVal("headers-dir", Cwd),
     metadata |-> OptVal("metadata-dir", Cwd)]

CfgFileError ==
    Len(CfgFilePaths) # 1 \/ ~({f.text : f \in Range(CfgFilePaths)} \subseteq Files)

IncludeDirError == ~(Range(OptTexts(items, "include-dir")) \subseteq Dirs)

OutputDirError == ~(Range(OutputDirs) \subseteq Dirs)

IndentError == OptVal("indent-spaces", << "2" >>) \notin IndentSpaces

CliError == CfgFileError \/ IncludeDirError \/ OutputDirError \/ IndentError

RefuseCommand ==
    CommandParsed /\ ~Given(items, "help") /\ CliError /\ Exit("exit_1")

CreateCommand ==
    /\ CommandParsed
    /\ ~Given(items, "help")
    /\ ~CliError
    /\ cmd' = << [name |-> cmd[1].name,
                  cfg_file |-> CfgFilePaths[1].text,
                  inclusion_dirs |-> Append(OptTexts(items, "include-dir"), Cwd),
                  ignore_not_found |-> Given(items, "ignore-include-not-found"),
                  dirs |-> OutputDirs,
                  dump |-> Given(items, "dump-config"),
                  prefix |-> OptTexts(items, "prefix")] >>
    /\ stage' = "open"
    /\ UNCHANGED << parse_vars, args >>

CreateCmd ==
    \/ ParseGeneral
    \/ ArgError
    \/ HelpOrVersion
    \/ CallCommand
    \/ ParseCommand
    \/ CommandHelp
    \/ RefuseCommand
    \/ CreateCommand

-----------------------------------------------------------------------------

(* A command gets every word but the first one, and that one too unless it *)
(* names the command: the general stage, which reads on until an unknown   *)
(* option, takes no option or argument from the command's (general options *)
(* all make the tool exit, and cmd_first_orig_arg_index is about the first *)
(* non-option only).  So "barectf ARGS" is "barectf generate ARGS".        *)
OnlyNameIsTaken ==
    stage = "command" =>
        \/ orig_args = args /\ cmd[1].name = "gen"
        \/ /\ args # << >>
           /\ orig_args = Tail(args)
           /\ cmd[1].name \in Named(Head(args))

=============================================================================
