----------------------------- MODULE ToolProofs -----------------------------
(***************************************************************************)
(* The barectf tool leaves no half-made output, and generates from the     *)
(* configuration that it printed, whatever the arguments and the           *)
(* configuration.                                                          *)
(***************************************************************************)
EXTENDS Tool, ConfigProofs

CliStages == {"general", "command"}

Stages ==
    CliStages \cup {"open", "effective", "dumped", "configuration", "generate"} \cup Exits

(* What is left of the current group of files while it is written.         *)
Rest(files, group) ==
    \/ files = << >>
    \/ group = 1 /\ files = << "metadata" >>
    \/ group = 2 /\ files = << "header", "bitfield_header" >>
    \/ group = 2 /\ files = << "bitfield_header" >>
    \/ group = 3 /\ files = << "source" >>

(* The file's group was generated. *)
Reached(f) ==
    \/ f = "metadata" /\ generated >= 1
    \/ f \in {"header", "bitfield_header"} /\ generated >= 2
    \/ f = "source" /\ generated >= 3

Waiting(f) == \E i \in DOMAIN pending : pending[i] = f

(* The stages that write nothing. *)
OutputFlow ==
    /\ stage \in Stages
    /\ prefixes = << >> => stage # "generate" /\ generated = 0
    /\ prefixes # << >> => stage \in {"generate"} \cup Exits
    /\ stage = "exit_0" /\ prefixes # << >> => generated = 3 /\ pending = << >>
    /\ stage \notin Exits => cause = "none"

(* A file is open only while it is the next to write, and no failure of    *)
(* the generator happens then.                                             *)
OutputFiles ==
    /\ generated \in 0 .. 3
    /\ Rest(pending, generated)
    /\ disk \in [Outputs -> {"old", "empty", "new"}]
    /\ writing \in BOOLEAN
    /\ writing => pending # << >> /\ cause \in {"none", "disk"}
    /\ \A f \in Outputs :
        /\ ~Reached(f) => disk[f] = "old"
        /\ Reached(f) /\ ~Waiting(f) => disk[f] = "new"
        /\ disk[f] = "empty" => writing /\ f = Head(pending)

OutputInv == OutputFlow /\ OutputFiles

(* Short sequences. *)
LEMMA SingleFacts ==
    ASSUME NEW x
    PROVE  /\ << x >> # << >>
           /\ DOMAIN << x >> = {1} /\ << x >>[1] = x
           /\ Head(<< x >>) = x /\ Tail(<< x >>) = << >>
OBVIOUS

(* The two elements of a pair, its head and its tail.                      *)
LEMMA PairFacts ==
    ASSUME NEW x, NEW y
    PROVE  /\ << x, y >> # << >>
           /\ DOMAIN << x, y >> = {1, 2} /\ << x, y >>[1] = x /\ << x, y >>[2] = y
           /\ Head(<< x, y >>) = x /\ Tail(<< x, y >>) = << y >>
<1>1. DOMAIN << x, y >> = 1 .. 2
  OBVIOUS
<1>2. 1 .. 2 = {1, 2}
  OBVIOUS
<1>3. /\ << x, y >> # << >> /\ << x, y >>[1] = x /\ << x, y >>[2] = y
      /\ Head(<< x, y >>) = x
  OBVIOUS
<1>4. Tail(<< x, y >>) = << y >>
  OBVIOUS
<1> QED
  BY <1>1, <1>2, <1>3, <1>4

(* The groups of files that the generator writes, in their order.          *)
LEMMA GroupFacts ==
    /\ DOMAIN Groups = 1 .. 3 /\ Len(Groups) = 3
    /\ Groups[1] = << "metadata" >>
    /\ Groups[2] = << "header", "bitfield_header" >>
    /\ Groups[3] = << "source" >>
<1>1. DOMAIN Groups = 1 .. 3
  BY DEF Groups
<1>2. Groups[1] = << "metadata" >>
  BY DEF Groups
<1>3. Groups[2] = << "header", "bitfield_header" >>
  BY DEF Groups
<1>4. Groups[3] = << "source" >>
  BY DEF Groups
<1>5. Len(Groups) = 3
  BY DEF Groups
<1> QED
  BY <1>1, <1>2, <1>3, <1>4, <1>5

(* The names of all the files.                                             *)
LEMMA OutputNames == Outputs = {"metadata", "header", "bitfield_header", "source"}
<1>1. DOMAIN Groups = 1 .. 3
  BY GroupFacts
<1>2. Groups[1] = << "metadata" >>
  BY GroupFacts
<1>3. Groups[2] = << "header", "bitfield_header" >>
  BY GroupFacts
<1>4. Groups[3] = << "source" >>
  BY GroupFacts
<1>5. Range(Groups[1]) = {"metadata"}
  BY <1>2 DEF Range
<1>6. Range(Groups[2]) = {"header", "bitfield_header"}
  <2>1. DOMAIN Groups[2] = {1, 2} /\ Groups[2][1] = "header" /\ Groups[2][2] = "bitfield_header"
    BY <1>3, PairFacts
  <2> HIDE <1>3
  <2> QED
    BY <2>1 DEF Range
<1>7. Range(Groups[3]) = {"source"}
  BY <1>4 DEF Range
<1>8. Outputs = Range(Groups[1]) \cup Range(Groups[2]) \cup Range(Groups[3])
  <2>1. 1 .. 3 = {1, 2, 3}
    OBVIOUS
  <2> QED
    BY <1>1, <2>1 DEF Outputs
<1> QED
  BY <1>5, <1>6, <1>7, <1>8

(* Nothing is written yet.                                                 *)
LEMMA InitOutput == Init => OutputInv
<1> SUFFICES ASSUME Init PROVE OutputInv
  OBVIOUS
<1>1. OutputFlow
  BY DEF Init, OutputFlow, Stages, CliStages, Exits
<1>2. /\ generated = 0 /\ pending = << >> /\ writing = FALSE /\ cause = "none"
      /\ disk = [f \in Outputs |-> "old"]
  BY DEF Init
<1>3. \A f \in Outputs : disk[f] = "old" /\ ~Reached(f)
  BY <1>2 DEF Reached
<1>4. OutputFiles
  <2>1. /\ generated \in 0 .. 3 /\ writing \in BOOLEAN
        /\ disk \in [Outputs -> {"old", "empty", "new"}]
    <3>1. disk \in [Outputs -> {"old", "empty", "new"}]
      BY <1>2
    <3>2. generated \in 0 .. 3
      BY <1>2
    <3>3. writing \in BOOLEAN
      BY <1>2, Zenon
    <3> QED
      BY <3>1, <3>2, <3>3
  <2>2. Rest(pending, generated)
    BY <1>2 DEF Rest
  <2>3. \A f \in Outputs : disk[f] # "empty"
    BY <1>3
  <2> QED
    BY <1>2, <1>3, <2>1, <2>2, <2>3 DEF OutputFiles
<1> QED
  BY <1>1, <1>4 DEF OutputInv

(* A step that leaves the files alone. *)
LEMMA FilesAlone ==
    ASSUME OutputFiles, UNCHANGED << pending, generated, writing, disk >>,
           writing => cause' \in {"none", "disk"}
    PROVE  OutputFiles'
BY DEF OutputFiles, Reached, Waiting

(* The files that wait are of the group that was generated last.           *)
LEMMA HeadFacts ==
    ASSUME OutputFiles, pending # << >>
    PROVE  /\ Reached(Head(pending)) /\ Waiting(Head(pending))
           /\ Rest(Tail(pending), generated)
           /\ \A i \in DOMAIN Tail(pending) : Tail(pending)[i] # Head(pending)
           /\ \A f : Waiting(f) /\ f # Head(pending) =>
                  \E i \in DOMAIN Tail(pending) : Tail(pending)[i] = f
<1>1. CASE \E x \in {"metadata", "bitfield_header", "source"} :
               /\ pending = << x >>
               /\ generated = IF x = "metadata" THEN 1 ELSE IF x = "source" THEN 3 ELSE 2
  <2>1. PICK x \in {"metadata", "bitfield_header", "source"} :
               /\ pending = << x >>
               /\ generated = IF x = "metadata" THEN 1 ELSE IF x = "source" THEN 3 ELSE 2
    BY <1>1
  <2>2. Head(pending) = x /\ Tail(pending) = << >> /\ DOMAIN pending = {1} /\ pending[1] = x
    BY <2>1, SingleFacts
  <2>3. \A f : Waiting(f) <=> f = x
    BY <2>2 DEF Waiting
  <2>4. Reached(x)
    BY <2>1 DEF Reached
  <2>5. DOMAIN << >> = {}
    OBVIOUS
  <2> QED
    BY <2>2, <2>3, <2>4, <2>5 DEF Rest
<1>2. CASE pending = << "header", "bitfield_header" >> /\ generated = 2
  <2>1. /\ Head(pending) = "header" /\ Tail(pending) = << "bitfield_header" >>
        /\ DOMAIN pending = {1, 2} /\ pending[1] = "header" /\ pending[2] = "bitfield_header"
    BY <1>2, PairFacts
  <2>2. DOMAIN << "bitfield_header" >> = {1} /\ << "bitfield_header" >>[1] = "bitfield_header"
    BY SingleFacts
  <2>3. \A f : Waiting(f) <=> f \in {"header", "bitfield_header"}
    BY <2>1 DEF Waiting
  <2>4. Reached("header")
    BY <1>2 DEF Reached
  <2>5. Rest(Tail(pending), generated)
    BY <1>2, <2>1 DEF Rest
  <2> QED
    BY <2>1, <2>2, <2>3, <2>4, <2>5
<1> QED
  BY <1>1, <1>2 DEF OutputFiles, Rest

(* A stage that fails. *)
LEMMA FailKeeps ==
    ASSUME OutputInv, NEW why \in {"disk", "configuration", "generator"}, Fail(why),
           writing => why = "disk"
    PROVE  OutputInv'
<1>1. OutputFlow'
  BY DEF Fail, OutputInv, OutputFlow, Stages, Exits
<1>2. OutputFiles'
  BY FilesAlone DEF Fail, OutputInv
<1> QED
  BY <1>1, <1>2 DEF OutputInv

(* Parsing the command line touches no file and ends with a command or an  *)
(* exit.                                                                   *)
LEMMA CreateCmdStages ==
    ASSUME CreateCmd
    PROVE  stage \in CliStages /\ stage' \in CliStages \cup {"open"} \cup Exits
BY DEF CreateCmd, ParseGeneral, ArgError, HelpOrVersion, CallCommand, ParseCommand, CommandHelp,
       RefuseCommand, CreateCommand, Exit, GeneralParsed, CommandParsed, CliStages, Exits

(* The next group of files is generated before any of them is opened.      *)
LEMMA StepGenerate == OutputInv /\ Generate => OutputInv'
<1> SUFFICES ASSUME OutputInv, Generate PROVE OutputInv'
  OBVIOUS
<1>1. /\ stage = "generate" /\ pending = << >> /\ generated < 3
      /\ pending' = Groups[generated + 1] /\ generated' = generated + 1
      /\ UNCHANGED << stage, prefixes, writing, disk, cause >>
  BY DEF Generate, MustGenerate, cli_vars, Groups
<1>2. OutputFlow'
  BY <1>1 DEF OutputInv, OutputFlow, Exits
<1>3. generated \in 0 .. 2
  BY <1>1 DEF OutputInv, OutputFiles
<1>4. Rest(pending', generated')
  <2>1. CASE generated = 0
    BY <1>1, <2>1, GroupFacts DEF Rest
  <2>2. CASE generated = 1
    BY <1>1, <2>2, GroupFacts DEF Rest
  <2>3. CASE generated = 2
    BY <1>1, <2>3, GroupFacts DEF Rest
  <2> QED
    BY <1>3, <2>1, <2>2, <2>3
<1>5. ASSUME NEW f \in Outputs
      PROVE  (~Reached(f) => disk[f] = "old") /\ (Reached(f) => disk[f] = "new") /\ ~writing
  BY <1>1 DEF OutputInv, OutputFiles, Waiting
<1>6. ASSUME NEW f \in Outputs
      PROVE  Reached(f)' => Reached(f) \/ Waiting(f)'
  <2>1. CASE generated = 0
    <3>1. /\ generated' = 1 /\ DOMAIN pending' = {1} /\ pending'[1] = "metadata"
      BY <1>1, <2>1, GroupFacts, SingleFacts
    <3> QED
      BY <3>1 DEF Reached, Waiting
  <2>2. CASE generated = 1
    <3>1. /\ generated' = 2 /\ DOMAIN pending' = {1, 2}
          /\ pending'[1] = "header" /\ pending'[2] = "bitfield_header"
      BY <1>1, <2>2, GroupFacts, PairFacts
    <3> QED
      BY <2>2, <3>1 DEF Reached, Waiting
  <2>3. CASE generated = 2
    <3>1. /\ generated' = 3 /\ DOMAIN pending' = {1} /\ pending'[1] = "source"
      BY <1>1, <2>3, GroupFacts, SingleFacts
    <3> QED
      BY <2>3, <3>1 DEF Reached, Waiting
  <2> QED
    BY <1>3, <2>1, <2>2, <2>3
<1>7. \A f \in Outputs : Reached(f) => Reached(f)'
  <2>1. generated' = generated + 1
    BY <1>1
  <2> QED
    BY <1>3, <2>1 DEF Reached
<1>8. OutputFiles'
  <2>1. /\ generated' \in 0 .. 3 /\ disk' = disk /\ writing' = writing /\ cause' = cause
        /\ ~writing
    BY <1>1, <1>3 DEF OutputInv, OutputFiles
  <2> QED
    BY <1>4, <1>5, <1>6, <1>7, <2>1 DEF OutputInv, OutputFiles
<1> QED
  BY <1>2, <1>8 DEF OutputInv

(* Opening a file truncates it.                                            *)
LEMMA StepOpenOutput == OutputInv /\ OpenOutput => OutputInv'
<1> SUFFICES ASSUME OutputInv, OpenOutput PROVE OutputInv'
  OBVIOUS
<1>1. /\ stage = "generate" /\ pending # << >> /\ ~writing /\ writing' = TRUE
      /\ disk' = [disk EXCEPT ![Head(pending)] = "empty"]
      /\ UNCHANGED << stage, prefixes, pending, generated, cause >>
  BY DEF OpenOutput, cli_vars
<1>2. OutputFlow' /\ cause = "none"
  BY <1>1 DEF OutputInv, OutputFlow, Exits
<1>3. Waiting(Head(pending)) /\ Reached(Head(pending))
  BY <1>1, HeadFacts DEF OutputInv
<1>4. OutputFiles'
  <2>1. /\ OutputFiles
        /\ \A f \in Outputs : (Reached(f)' <=> Reached(f)) /\ (Waiting(f)' <=> Waiting(f))
    BY <1>1 DEF OutputInv, Reached, Waiting
  <2> QED
    BY <1>1, <1>2, <1>3, <2>1 DEF OutputFiles
<1> QED
  BY <1>2, <1>4 DEF OutputInv

(* A file that is open is written in full.                                 *)
LEMMA StepWriteOutput == OutputInv /\ WriteOutput => OutputInv'
<1> SUFFICES ASSUME OutputInv, WriteOutput PROVE OutputInv'
  OBVIOUS
<1>1. /\ stage = "generate" /\ writing /\ writing' = FALSE
      /\ disk' = [disk EXCEPT ![Head(pending)] = "new"] /\ pending' = Tail(pending)
      /\ UNCHANGED << stage, prefixes, generated, cause >>
  BY DEF WriteOutput, cli_vars
<1>2. OutputFlow'
  BY <1>1 DEF OutputInv, OutputFlow, Exits
<1>3. pending # << >> /\ OutputFiles
  BY <1>1 DEF OutputInv, OutputFiles
<1>4. /\ Rest(pending', generated') /\ Reached(Head(pending)) /\ \A f : Waiting(f)' => f # Head(pending)
      /\ \A f : Waiting(f) /\ f # Head(pending) => Waiting(f)'
  <2>1. generated' = generated /\ pending' = Tail(pending)
    BY <1>1
  <2>2. /\ Rest(Tail(pending), generated) /\ Reached(Head(pending))
        /\ \A i \in DOMAIN Tail(pending) : Tail(pending)[i] # Head(pending)
        /\ \A f : Waiting(f) /\ f # Head(pending) =>
               \E i \in DOMAIN Tail(pending) : Tail(pending)[i] = f
    BY <1>3, HeadFacts
  <2>3. \A f : Waiting(f)' <=> \E i \in DOMAIN Tail(pending) : Tail(pending)[i] = f
    BY <2>1 DEF Waiting
  <2> QED
    BY <2>1, <2>2, <2>3
<1>5. OutputFiles'
  <2>1. \A f \in Outputs : Reached(f)' <=> Reached(f)
    BY <1>1 DEF Reached
  <2> QED
    BY <1>1, <1>3, <1>4, <2>1 DEF OutputFiles
<1> QED
  BY <1>2, <1>5 DEF OutputInv

(* Every step keeps the invariant of the files.                            *)
LEMMA NextOutput == OutputInv /\ [Next]_vars => OutputInv'
<1> SUFFICES ASSUME OutputInv, [Next]_vars PROVE OutputInv'
  OBVIOUS
<1>0. OutputFlow /\ OutputFiles
  BY DEF OutputInv
<1>1. CASE CreateCmd /\ UNCHANGED << config_vars, exec_vars >>
  <2>1. stage \in CliStages /\ stage' \in CliStages \cup {"open"} \cup Exits
    BY <1>1, CreateCmdStages
  <2>2. UNCHANGED << pending, generated, writing, disk, cause, prefixes >>
    BY <1>1 DEF exec_vars
  <2>3. prefixes = << >> /\ generated = 0 /\ cause = "none"
    BY <1>0, <2>1 DEF OutputFlow, CliStages, Exits
  <2>4. OutputFlow'
    BY <2>1, <2>2, <2>3 DEF OutputFlow, CliStages, Exits, Stages
  <2>5. OutputFiles'
    BY <1>0, <2>2, <2>3, FilesAlone
  <2> QED
    BY <2>4, <2>5 DEF OutputInv
<1>2. ASSUME NEW why \in {"disk", "configuration", "generator"}, Fail(why),
             writing => why = "disk"
      PROVE  OutputInv'
  BY <1>2, FailKeeps
<1>3. ASSUME stage \notin {"generate"} \cup Exits, stage' \in Stages \ {"generate"},
             UNCHANGED << pending, generated, writing, disk, cause, prefixes >>
      PROVE  OutputInv'
  <2>1. prefixes = << >> /\ generated = 0 /\ cause = "none"
    BY <1>0, <1>3 DEF OutputFlow, Exits
  <2>2. OutputFlow'
    BY <1>3, <2>1 DEF OutputFlow, Exits, Stages, CliStages
  <2>3. OutputFiles'
    BY <1>0, <1>3, <2>1, FilesAlone
  <2> QED
    BY <2>2, <2>3 DEF OutputInv
<1>4. CASE OpenFails
  BY <1>2, <1>4 DEF OpenFails
<1>5. CASE ReadConfig \/ ShowVersion \/ ShowEffective \/ DumpConfig \/ ReadAgain
  BY <1>3, <1>5 DEF ReadConfig, ShowVersion, ShowEffective, DumpConfig, ReadAgain,
                    Stages, CliStages, Exits
<1>6. CASE Parse
  <2>1. UNCHANGED << stage, pending, generated, writing, disk, cause, prefixes >>
        /\ stage \in {"effective", "configuration"}
    BY <1>6 DEF Parse, cli_vars, exec_vars
  <2> QED
    BY <1>3, <2>1 DEF Stages, CliStages, Exits
<1>7. CASE ConfigRefused
  <2>1. stage \in {"effective", "configuration"} /\ Fail("configuration")
    BY <1>7 DEF ConfigRefused
  <2>2. ~writing
    <3>1. generated = 0
      BY <1>0, <2>1 DEF OutputFlow, Exits
    <3>2. pending = << >>
      BY <1>0, <3>1 DEF OutputFiles, Rest
    <3> QED
      BY <1>0, <3>2 DEF OutputFiles
  <2> QED
    BY <1>2, <2>1, <2>2
<1>8. CASE CreateCodeGenerator
  <2>1. /\ stage = "configuration" /\ stage' = "generate" /\ prefixes' # << >>
        /\ UNCHANGED << pending, generated, writing, disk, cause >>
    BY <1>8, SingleFacts DEF CreateCodeGenerator
  <2>2. cause = "none"
    BY <1>0, <2>1 DEF OutputFlow, Exits
  <2>3. OutputFlow'
    BY <2>1, <2>2 DEF OutputFlow, Exits, Stages, CliStages
  <2>4. OutputFiles'
    BY <1>0, <2>1, <2>2, FilesAlone
  <2> QED
    BY <2>3, <2>4 DEF OutputInv
<1>9. CASE Generate \/ OpenOutput \/ WriteOutput
  BY <1>9, StepGenerate, StepOpenOutput, StepWriteOutput
<1>10. CASE GenerateFails
  <2>1. pending = << >> /\ Fail("generator")
    BY <1>10 DEF GenerateFails, MustGenerate
  <2>2. ~writing
    BY <1>0, <2>1 DEF OutputFiles
  <2> QED
    BY <1>2, <2>1, <2>2
<1>11. CASE WriteFails
  BY <1>2, <1>11 DEF WriteFails
<1>12. CASE Finish
  <2>1. /\ stage = "generate" /\ stage' = "exit_0" /\ pending = << >> /\ generated = 3
        /\ UNCHANGED << pending, generated, writing, disk, cause, prefixes >>
    BY <1>12, GroupFacts DEF Finish, exec_vars
  <2>2. OutputFlow'
    BY <1>0, <2>1 DEF OutputFlow, Exits, Stages, CliStages
  <2>3. OutputFiles'
    BY <1>0, <2>1, FilesAlone DEF OutputFiles
  <2> QED
    BY <2>2, <2>3 DEF OutputInv
<1>13. CASE UNCHANGED vars
  <2>1. UNCHANGED << stage, pending, generated, writing, disk, cause, prefixes >>
    BY <1>13 DEF vars, cli_vars, exec_vars
  <2>2. OutputFlow'
    BY <1>0, <2>1 DEF OutputFlow
  <2>3. OutputFiles'
    BY <1>0, <2>1, FilesAlone DEF OutputFiles
  <2> QED
    BY <2>2, <2>3 DEF OutputInv
<1> QED
  BY <1>1, <1>4, <1>5, <1>6, <1>7, <1>8, <1>9, <1>10, <1>11, <1>12, <1>13 DEF Next

(* Whatever fails and whatever the arguments and the configuration, the    *)
(* tool that succeeds wrote all of its files, the one that refuses touched *)
(* none, and only a file that the disk refused is left truncated.          *)
THEOREM OutputIsWhole == Spec => []NoHalfOutput
<1>1. OutputInv => NoHalfOutput
  <2> SUFFICES ASSUME OutputInv PROVE NoHalfOutput
    OBVIOUS
  <2>0. OutputFlow /\ OutputFiles
    BY DEF OutputInv
  <2>1. stage = "exit_0" /\ prefixes # << >> => \A f \in Outputs : disk[f] = "new"
    <3> SUFFICES ASSUME stage = "exit_0", prefixes # << >>, NEW f \in Outputs
                 PROVE  disk[f] = "new"
      OBVIOUS
    <3>1. generated = 3 /\ pending = << >>
      BY <2>0 DEF OutputFlow
    <3>2. Reached(f)
      BY <3>1, OutputNames DEF Reached
    <3>3. ~Waiting(f)
      BY <3>1 DEF Waiting
    <3> QED
      BY <2>0, <3>2, <3>3 DEF OutputFiles
  <2>2. prefixes = << >> => \A f \in Outputs : disk[f] = "old"
    <3> SUFFICES ASSUME prefixes = << >>, NEW f \in Outputs PROVE disk[f] = "old"
      OBVIOUS
    <3>1. generated = 0
      BY <2>0 DEF OutputFlow
    <3>2. ~Reached(f)
      BY <3>1 DEF Reached
    <3> QED
      BY <2>0, <3>2 DEF OutputFiles
  <2>3. \A f \in Outputs :
            disk[f] = "empty" => writing /\ f = Head(pending) /\ cause \in {"none", "disk"}
    BY <2>0 DEF OutputFiles
  <2> QED
    BY <2>1, <2>2, <2>3 DEF NoHalfOutput
<1>2. Init => OutputInv
  BY InitOutput
<1>3. OutputInv /\ [Next]_vars => OutputInv'
  BY NextOutput
<1> QED
  BY <1>1, <1>2, <1>3, PTL DEF Spec


-----------------------------------------------------------------------------
(* Arguments *)

IsSomeSequence(s) == \E S : s \in Seq(S)

(* The first item of the general stage, if there is one, is from the first *)
(* word; the others do not matter, since general options all exit.         *)
GeneralInv ==
    /\ args \in ArgLists \cup {PlainArgs}
    /\ stage = "general" =>
        /\ orig_args = args
        /\ opt_descrs = GeneralOptDescrs
        /\ orig_arg_index \in Nat \ {0}
        /\ IsSomeSequence(items)
        /\ items = << >> => orig_arg_index = 1
        /\ items # << >> =>
            \/ items[1].descr \in GeneralOptDescrs
            \/ args # << >> /\ items[1] = NonOptItem(args[1], 1)

CliInv == GeneralInv /\ OnlyNameIsTaken

(* Two sequences put together. *)
LEMMA Concatenation ==
    ASSUME NEW s, NEW t, IsSomeSequence(s), IsSomeSequence(t)
    PROVE  /\ IsSomeSequence(s \o t)
           /\ s = << >> => s \o t = t
           /\ s # << >> => s \o t # << >> /\ (s \o t)[1] = s[1]
<1>1. PICK S : s \in Seq(S)
  BY DEF IsSomeSequence
<1>2. PICK T : t \in Seq(T)
  BY DEF IsSomeSequence
<1>3. s \in Seq(S \cup T) /\ t \in Seq(S \cup T)
  BY <1>1, <1>2
<1>4. s \o t \in Seq(S \cup T)
  BY <1>3
<1>5. s = << >> => s \o t = t
  BY <1>3
<1>6. s # << >> => s \o t # << >> /\ (s \o t)[1] = s[1]
  BY <1>3, <1>4
<1> QED
  BY <1>4, <1>5, <1>6 DEF IsSomeSequence

(* When no known option has an argument, as with the general options, a    *)
(* group ends at its first unknown letter only.                            *)
LEMMA GroupEnd ==
    ASSUME NEW S, NEW word \in Seq(S), word # << >>, \A d \in opt_descrs : ~d.has_arg
    PROVE  /\ Stop(word) # 0 => Short(word[Stop(word) + 1]) = {}
           /\ Stop(word) = 0 => \A i \in 2 .. Len(word) : Short(word[i]) # {}
<1> DEFINE rest == Tail(word)
           I == {i \in 1 .. Len(rest) : \A d \in Short(rest[i]) : d.has_arg}
<1>1. Len(rest) \in Nat /\ Len(rest) = Len(word) - 1
      /\ \A i \in 1 .. Len(rest) : rest[i] = word[i + 1]
  OBVIOUS
<1>2. Stop(word) = IF I # {} THEN Min(I) ELSE 0
  BY DEF Stop, SelectInSeq
<1>3. \A x : (\A d \in Short(x) : d.has_arg) <=> Short(x) = {}
  BY DEF Short
<1> HIDE DEF rest
<1>4. CASE I = {}
  <2>1. ASSUME NEW i \in 2 .. Len(word) PROVE Short(word[i]) # {}
    <3>1. i - 1 \in 1 .. Len(rest) /\ rest[i - 1] = word[(i - 1) + 1]
      BY <1>1
    <3>2. rest[i - 1] = word[i]
      BY <3>1
    <3> QED
      BY <1>3, <1>4, <3>1, <3>2
  <2>2. Stop(word) = 0
    BY <1>2, <1>4
  <2> QED
    BY <2>1, <2>2
<1>5. CASE I # {}
  <2>1. Min(I) \in I
    BY <1>1, <1>5, LeastOfInterval
  <2>2. Stop(word) = Min(I) /\ Min(I) \in 1 .. Len(rest)
    BY <1>2, <1>5, <2>1
  <2>3. Short(rest[Min(I)]) = {}
    BY <1>3, <2>1
  <2>4. rest[Min(I)] = word[Min(I) + 1] /\ Min(I) # 0
    BY <1>1, <2>2
  <2> QED
    BY <2>2, <2>3, <2>4
<1> QED
  BY <1>4, <1>5

(* General options have no argument; none of them is "no option". *)
LEMMA GeneralOptions ==
    \A d \in GeneralOptDescrs :
        ~d.has_arg /\ d.long_name \in {"help", "version"} /\ d # NoDescr
<1> SUFFICES ASSUME NEW d \in GeneralOptDescrs
             PROVE  ~d.has_arg /\ d.long_name \in {"help", "version"} /\ d # NoDescr
  OBVIOUS
<1>1. \/ d = [short_name |-> "V", long_name |-> "version", has_arg |-> FALSE]
      \/ d = [short_name |-> "h", long_name |-> "help", has_arg |-> FALSE]
  BY DEF GeneralOptDescrs, OptDescr
<1>2. NoDescr.long_name = ""
  BY DEF NoDescr, OptDescr
<1>3. d.long_name \in {"help", "version"}
  BY <1>1
<1>4. d.has_arg = FALSE
  BY <1>1
<1> QED
  BY <1>2, <1>3, <1>4

(* A word of known general options gives items for them. *)
LEMMA GeneralWord ==
    ASSUME NEW S, NEW word \in Seq(S), NEW next, opt_descrs = GeneralOptDescrs,
           IsOptWord(word), ~UnknownOpt(word)
    PROVE  /\ IsSomeSequence(OptItems(word, next)) /\ OptItems(word, next) # << >>
           /\ OptItems(word, next)[1].descr \in GeneralOptDescrs
<1>1. word # << >> /\ word[1] \in {"-", "--"} /\ word # << "-" >>
  BY DEF IsOptWord
<1>2. \E n \in Nat \ {0} :
          DOMAIN Opts(word) = 1 .. n /\ Opts(word)[1] \in GeneralOptDescrs
  <2>1. CASE IsLong(word)
    <3>1. Long(word[2]) # {}
      BY <2>1 DEF UnknownOpt
    <3>2. Opts(word) = << CHOOSE d \in Long(word[2]) : TRUE >>
      BY <2>1 DEF Opts
    <3>3. (CHOOSE d \in Long(word[2]) : TRUE) \in GeneralOptDescrs
      BY <3>1 DEF Long
    <3>4. DOMAIN Opts(word) = 1 .. 1 /\ Opts(word)[1] \in GeneralOptDescrs
      BY <3>2, <3>3
    <3> QED
      BY <3>4
  <2>2. CASE ~IsLong(word)
    <3>1. word[1] = "-" /\ Len(word) \in Nat
      BY <1>1, <2>2 DEF IsLong
    <3>2. Len(word) >= 2
      <4>1. ASSUME Len(word) = 1 PROVE FALSE
        <5>1. word = << word[1] >>
          BY <4>1
        <5> QED
          BY <1>1, <3>1, <5>1
      <4>2. Len(word) # 1 /\ Len(word) # 0
        BY <1>1, <4>1
      <4>3. Len(word) \in Nat
        OBVIOUS
      <4>4. \A n \in Nat : n # 1 /\ n # 0 => n >= 2
        OBVIOUS
      <4> QED
        BY <4>2, <4>3, <4>4, Zenon
    <3>3. \A d \in opt_descrs : ~d.has_arg
      BY GeneralOptions
    <3>4. Stop(word) = 0 /\ Short(word[2]) # {}
      <4>1. /\ Stop(word) # 0 => Short(word[Stop(word) + 1]) = {}
            /\ Stop(word) = 0 => \A i \in 2 .. Len(word) : Short(word[i]) # {}
        BY <1>1, <3>3, GroupEnd
      <4>2. ~ (Stop(word) # 0 /\ Short(word[Stop(word) + 1]) = {})
        BY <2>2 DEF UnknownOpt
      <4> QED
        BY <3>1, <3>2, <4>1, <4>2
    <3>5. Opts(word) = [i \in 1 .. (Len(word) - 1) |-> CHOOSE d \in Short(word[i + 1]) : TRUE]
      BY <2>2, <3>4 DEF Opts
    <3>6. Opts(word)[1] = CHOOSE d \in Short(word[2]) : TRUE
      BY <3>1, <3>2, <3>5
    <3>7. Opts(word)[1] \in GeneralOptDescrs
      BY <3>4, <3>6 DEF Short
    <3>8. Len(word) - 1 \in Nat \ {0} /\ DOMAIN Opts(word) = 1 .. (Len(word) - 1)
      BY <3>1, <3>2, <3>5
    <3> QED
      BY <3>7, <3>8
  <2> QED
    BY <2>1, <2>2
<1>3. PICK n \in Nat \ {0} :
          DOMAIN Opts(word) = 1 .. n /\ Opts(word)[1] \in GeneralOptDescrs
  BY <1>2
<1> DEFINE text == IF HasText(word) THEN TextOf(word) ELSE next
           item(i) == OptItem(Opts(word)[i], IF Opts(word)[i].has_arg THEN text ELSE << >>)
<1>4. OptItems(word, next) = [i \in 1 .. n |-> item(i)]
  BY <1>3 DEF OptItems
<1>5. item(1).descr = Opts(word)[1]
  BY DEF OptItem
<1> HIDE DEF item
<1>6. OptItems(word, next) \in Seq({item(i) : i \in 1 .. n})
  BY <1>3, <1>4
<1>7. OptItems(word, next)[1] = item(1) /\ OptItems(word, next) # << >>
  BY <1>3, <1>4
<1> QED
  BY <1>3, <1>5, <1>6, <1>7 DEF IsSomeSequence

(* Parsing leaves the words alone, and only adds items. *)
LEMMA ParseGeneralKeeps ==
    ASSUME GeneralInv, ParseGeneral
    PROVE  GeneralInv'
<1>1. /\ stage = "general" /\ stage' = stage /\ args' = args
      /\ orig_args = args /\ opt_descrs = GeneralOptDescrs
      /\ args \in ArgLists \cup {PlainArgs}
      /\ orig_arg_index \in Nat \ {0} /\ IsSomeSequence(items)
  BY DEF ParseGeneral, GeneralInv
<1>2. ParseArgs
  BY DEF ParseGeneral
<1>3. orig_args' = orig_args /\ opt_descrs' = opt_descrs
  BY <1>2 DEF ParseArgs, RefuseDashes, FailOnUnknownOpt, StopAtUnknownOpt, MissingOptArg,
              TakeOptsAndNext, TakeOpts, TakeNonOpt, EndOfWords, End, Take
<1>4. ASSUME UNCHANGED << items, orig_arg_index >> PROVE GeneralInv'
  BY <1>1, <1>3, <1>4 DEF GeneralInv
<1>5. ASSUME NEW new_items, NEW n \in Nat \ {0}, Take(new_items, n),
             IsSomeSequence(new_items), new_items # << >>,
             items = << >> =>
                \/ new_items[1].descr \in GeneralOptDescrs
                \/ args # << >> /\ new_items[1] = NonOptItem(args[1], 1)
      PROVE  GeneralInv'
  <2>1. items' = items \o new_items /\ orig_arg_index' = orig_arg_index + n
    BY <1>5 DEF Take
  <2>2. /\ IsSomeSequence(items')
        /\ items = << >> => items' = new_items
        /\ items # << >> => items' # << >> /\ items'[1] = items[1]
    BY <1>1, <1>5, <2>1, Concatenation
  <2>3. orig_arg_index' \in Nat \ {0}
    BY <1>1, <2>1
  <2>4. items' # << >>
    BY <1>5, <2>2
  <2>5. \/ items'[1].descr \in GeneralOptDescrs
        \/ args # << >> /\ items'[1] = NonOptItem(args[1], 1)
    BY <1>1, <1>5, <2>2 DEF GeneralInv
  <2> QED
    BY <1>1, <1>3, <2>2, <2>3, <2>4, <2>5 DEF GeneralInv
<1>6. ASSUME NEW next, OptArg, ~UnknownOpt(orig_arg), NEW n \in Nat \ {0},
             Take(OptItems(orig_arg, next), n)
      PROVE  GeneralInv'
  <2>1. args \in Seq(Range(args)) /\ \A word \in Range(args) : word \in Seq(Range(word))
    BY <1>1, ToolAssumption DEF IsWord
  <2>2. orig_arg_index <= Len(args) /\ IsOptWord(orig_arg)
    BY <1>1, <1>6 DEF OptArg, MoreWords
  <2>3. orig_arg_index \in DOMAIN args
    BY <1>1, <2>1, <2>2
  <2>4. orig_arg \in Range(args)
    BY <1>1, <2>3 DEF orig_arg, Range
  <2>5. PICK S : orig_arg \in Seq(S)
    BY <2>1, <2>4
  <2>6. /\ IsSomeSequence(OptItems(orig_arg, next)) /\ OptItems(orig_arg, next) # << >>
        /\ OptItems(orig_arg, next)[1].descr \in GeneralOptDescrs
    BY <1>1, <1>6, <2>2, <2>5, GeneralWord
  <2> QED
    BY <1>5, <1>6, <2>6
<1>7. CASE RefuseDashes \/ FailOnUnknownOpt \/ StopAtUnknownOpt \/ MissingOptArg \/ EndOfWords
  BY <1>4, <1>7 DEF RefuseDashes, FailOnUnknownOpt, StopAtUnknownOpt, MissingOptArg,
                    EndOfWords, End
<1>8. CASE TakeOptsAndNext
  BY <1>6, <1>8 DEF TakeOptsAndNext
<1>9. CASE TakeOpts
  BY <1>6, <1>9 DEF TakeOpts
<1>10. CASE TakeNonOpt
  <2> DEFINE new == << NonOptItem(orig_arg, orig_arg_index) >>
  <2>1. Take(new, 1) /\ MoreWords
    BY <1>10 DEF TakeNonOpt
  <2>2. IsSomeSequence(new) /\ new # << >> /\ new[1] = NonOptItem(orig_arg, orig_arg_index)
    <3>1. new \in Seq({NonOptItem(orig_arg, orig_arg_index)})
      OBVIOUS
    <3> QED
      BY <3>1, SingleFacts DEF IsSomeSequence
  <2>3. items = << >> => orig_arg = args[1] /\ orig_arg_index = 1
    BY <1>1 DEF GeneralInv, orig_arg
  <2>4. args # << >>
    BY <1>1, <2>1 DEF MoreWords
  <2> HIDE DEF new
  <2>5. items = << >> => new[1] = NonOptItem(args[1], 1)
    BY <2>2, <2>3
  <2> QED
    BY <1>5, <2>1, <2>2, <2>4, <2>5
<1> QED
  BY <1>2, <1>7, <1>8, <1>9, <1>10 DEF ParseArgs

(* The first item that is not an option, if there is one. *)
LEMMA FirstItem ==
    ASSUME NEW S, items \in Seq(S)
    PROVE  /\ FirstNonOpt # 0 =>
                  /\ FirstNonOpt \in 1 .. Len(items) /\ IsNonOpt(items[FirstNonOpt])
                  /\ \A i \in 1 .. Len(items) : IsNonOpt(items[i]) => FirstNonOpt <= i
           /\ FirstNonOpt = 0 => \A i \in 1 .. Len(items) : ~IsNonOpt(items[i])
<1> DEFINE I == {i \in 1 .. Len(items) : IsNonOpt(items[i])}
<1>1. Len(items) \in Nat
  OBVIOUS
<1>2. FirstNonOpt = IF I # {} THEN Min(I) ELSE 0
  BY DEF FirstNonOpt, SelectInSeq
<1>3. CASE I = {}
  BY <1>2, <1>3
<1>4. CASE I # {}
  <2>1. Min(I) \in I /\ \A i \in I : Min(I) <= i
    BY <1>1, <1>4, LeastOfInterval
  <2> QED
    BY <1>2, <1>4, <2>1
<1> QED
  BY <1>3, <1>4

(* When the general stage ends without a general option, its first item is *)
(* the first word, or there is none.                                       *)
LEMMA CallCommandTakesName ==
    ASSUME GeneralInv, CallCommand
    PROVE  OnlyNameIsTaken'
<1>1. /\ stage = "general" /\ stage' = "command" /\ args' = args
      /\ orig_args' = SubSeq(args, CmdFirst, Len(args))
      /\ cmd' = << [name |-> CmdName] >>
  BY DEF CallCommand, GeneralParsed, CallParse
<1>2. args \in Seq(Range(args))
  <2>1. args \in ArgLists \cup {PlainArgs}
    BY DEF GeneralInv
  <2> QED
    BY <2>1, ToolAssumption
<1>3. PICK S : items \in Seq(S)
  BY <1>1 DEF GeneralInv, IsSomeSequence
<1>4. Len(items) \in Nat
  BY <1>3
<1>5. cmd'[1].name = CmdName
  BY <1>1
<1>6. SubSeq(args, 1, Len(args)) = args
  BY <1>2
<1>7. /\ CmdFirst = 1 /\ CmdName = "gen" => OnlyNameIsTaken'
  BY <1>1, <1>5, <1>6 DEF OnlyNameIsTaken
<1>8. CASE items = << >>
  <2>1. FirstNonOpt = 0
    <3>1. Len(items) = 0
      BY <1>8
    <3> QED
      BY <1>3, <3>1, FirstItem
  <2> QED
    BY <1>7, <2>1 DEF CmdFirst, CmdName
<1>9. CASE items # << >> /\ items[1].descr \in GeneralOptDescrs
  <2>1. Len(items) >= 1
    BY <1>3, <1>9
  <2>2. ~IsNonOpt(items[1])
    BY <1>9, GeneralOptions DEF IsNonOpt
  <2>3. 1 \in DOMAIN GeneralItems /\ GeneralItems[1] = items[1]
    <3>1. CASE FirstNonOpt = 0
      BY <1>3, <2>1, <3>1 DEF GeneralItems
    <3>2. CASE FirstNonOpt # 0
      <4>1. FirstNonOpt \in 1 .. Len(items) /\ IsNonOpt(items[FirstNonOpt])
        BY <1>3, <3>2, FirstItem
      <4>2. FirstNonOpt # 1
        BY <2>2, <4>1
      <4>3. FirstNonOpt - 1 \in 1 .. Len(items)
        BY <1>4, <4>1, <4>2
      <4>4. GeneralItems = SubSeq(items, 1, FirstNonOpt - 1)
        BY <3>2 DEF GeneralItems
      <4> HIDE DEF GeneralItems
      <4>5. \A m \in 1 .. Len(items) :
                1 \in DOMAIN SubSeq(items, 1, m) /\ SubSeq(items, 1, m)[1] = items[1]
        BY <1>3
      <4> QED
        BY <4>3, <4>4, <4>5
    <3> QED
      BY <3>1, <3>2
  <2>4. Given(GeneralItems, items[1].descr.long_name)
    BY <2>3 DEF Given
  <2>5. items[1].descr.long_name \in {"help", "version"}
    BY <1>9, GeneralOptions
  <2>6. ~Given(GeneralItems, "help") /\ ~Given(GeneralItems, "version")
    BY DEF CallCommand
  <2> QED
    BY <2>4, <2>5, <2>6
<1>10. CASE items # << >> /\ args # << >> /\ items[1] = NonOptItem(args[1], 1)
  <2>1. IsNonOpt(items[1]) /\ items[1].text = args[1] /\ items[1].orig_arg_index = 1
    BY <1>10 DEF IsNonOpt, NonOptItem
  <2>2. FirstNonOpt = 1
    <3>1. 1 \in 1 .. Len(items)
      BY <1>3, <1>10
    <3>2. FirstNonOpt # 0
      BY <1>3, <2>1, <3>1, FirstItem
    <3>3. FirstNonOpt \in 1 .. Len(items) /\ FirstNonOpt <= 1
      BY <1>3, <2>1, <3>1, <3>2, FirstItem
    <3> QED
      BY <1>4, <3>3
  <2>3. CASE Named(args[1]) = {}
    <3>1. CmdFirst = 1 /\ CmdName = "gen"
      BY <2>1, <2>2, <2>3 DEF CmdFirst, CmdName
    <3> QED
      BY <1>7, <3>1
  <2>4. CASE Named(args[1]) # {}
    <3>1. CmdFirst = 2
      BY <2>1, <2>2, <2>4 DEF CmdFirst
    <3>2. CmdName = CHOOSE c \in Named(args[1]) : TRUE
      BY <2>1, <2>2, <2>4 DEF CmdName
    <3>3. CmdName \in Named(Head(args))
      <4>1. Head(args) = args[1]
        BY <1>2, <1>10
      <4> QED
        BY <2>4, <3>2, <4>1
    <3>4. SubSeq(args, 2, Len(args)) = Tail(args)
      BY <1>2, <1>10
    <3> QED
      BY <1>1, <1>5, <1>10, <3>1, <3>3, <3>4 DEF OnlyNameIsTaken
  <2> QED
    BY <2>3, <2>4
<1>11. \/ items = << >>
       \/ items[1].descr \in GeneralOptDescrs
       \/ args # << >> /\ items[1] = NonOptItem(args[1], 1)
  BY <1>1 DEF GeneralInv
<1> QED
  BY <1>8, <1>9, <1>10, <1>11

(* The general arguments start the command line.                           *)
LEMMA InitCli == Init => CliInv
<1> SUFFICES ASSUME Init PROVE CliInv
  OBVIOUS
<1>1. /\ args \in ArgLists \cup {PlainArgs}
      /\ stage = "general" /\ orig_args = args /\ opt_descrs = GeneralOptDescrs
      /\ orig_arg_index = 1 /\ items = << >>
  BY DEF Init
<1>2. IsSomeSequence(items)
  <2>1. items \in Seq({})
    BY <1>1
  <2> QED
    BY <2>1 DEF IsSomeSequence
<1> QED
  BY <1>1, <1>2 DEF CliInv, GeneralInv, OnlyNameIsTaken

(* Every step keeps the invariant of the command line.                     *)
LEMMA NextCli == CliInv /\ [Next]_vars => CliInv'
<1> SUFFICES ASSUME CliInv, [Next]_vars PROVE CliInv'
  OBVIOUS
<1>0. GeneralInv /\ OnlyNameIsTaken
  BY DEF CliInv
<1>1. ASSUME args' = args, stage' \notin CliStages PROVE CliInv'
  BY <1>0, <1>1 DEF CliInv, GeneralInv, OnlyNameIsTaken, CliStages
<1>2. ASSUME UNCHANGED cli_vars PROVE CliInv'
  <2>1. UNCHANGED << args, stage, cmd, orig_args, opt_descrs, orig_arg_index, items >>
    BY <1>2 DEF cli_vars, parse_vars
  <2> QED
    BY <1>0, <2>1 DEF CliInv, GeneralInv, OnlyNameIsTaken
<1>3. CASE CreateCmd
  <2>1. CASE ParseGeneral
    <3>1. GeneralInv'
      BY <1>0, <2>1, ParseGeneralKeeps
    <3>2. OnlyNameIsTaken'
      BY <2>1 DEF ParseGeneral, OnlyNameIsTaken
    <3> QED
      BY <3>1, <3>2 DEF CliInv
  <2>2. CASE CallCommand
    <3>1. OnlyNameIsTaken'
      BY <1>0, <2>2, CallCommandTakesName
    <3>2. GeneralInv'
      BY <1>0, <2>2 DEF CallCommand, GeneralInv
    <3> QED
      BY <3>1, <3>2 DEF CliInv
  <2>3. CASE ParseCommand
    <3>1. stage = "command" /\ UNCHANGED << args, stage, cmd >>
      BY <2>3 DEF ParseCommand
    <3>2. orig_args' = orig_args
      BY <2>3 DEF ParseCommand, ParseArgs, RefuseDashes, FailOnUnknownOpt, StopAtUnknownOpt,
                  MissingOptArg, TakeOptsAndNext, TakeOpts, TakeNonOpt, EndOfWords, End, Take
    <3> QED
      BY <1>0, <3>1, <3>2 DEF CliInv, GeneralInv, OnlyNameIsTaken
  <2>4. CASE ArgError \/ HelpOrVersion \/ CommandHelp \/ RefuseCommand \/ CreateCommand
    BY <1>1, <2>4 DEF ArgError, HelpOrVersion, CommandHelp, RefuseCommand, CreateCommand, Exit,
                      CliStages
  <2> QED
    BY <1>3, <2>1, <2>2, <2>3, <2>4 DEF CreateCmd
<1>4. ASSUME NEW why, Fail(why) PROVE CliInv'
  BY <1>1, <1>4 DEF Fail, CliStages
<1>5. CASE OpenFails \/ ConfigRefused \/ GenerateFails \/ WriteFails
  BY <1>4, <1>5 DEF OpenFails, ConfigRefused, GenerateFails, WriteFails
<1>6. CASE ReadConfig \/ ShowVersion \/ ShowEffective \/ DumpConfig \/ ReadAgain
           \/ CreateCodeGenerator \/ Finish
  BY <1>1, <1>6 DEF ReadConfig, ShowVersion, ShowEffective, DumpConfig, ReadAgain,
                    CreateCodeGenerator, Finish, CliStages
<1>7. CASE Parse \/ Generate \/ OpenOutput \/ WriteOutput
  BY <1>2, <1>7 DEF Parse, Generate, OpenOutput, WriteOutput
<1>8. CASE UNCHANGED vars
  BY <1>2, <1>8 DEF vars
<1> QED
  BY <1>3, <1>5, <1>6, <1>7, <1>8 DEF Next

(* Whatever the words, the general stage takes only the one that names the *)
(* command.                                                                *)
THEOREM CommandGetsItsWords == Spec => []OnlyNameIsTaken
<1>1. CliInv => OnlyNameIsTaken
  BY DEF CliInv
<1> QED
  BY <1>1, InitCli, NextCli, PTL DEF Spec

-----------------------------------------------------------------------------
(* What words say *)

(* Tokens that only separate others. *)
Dashes == {"-", "--", "="}

(* Options of one parse() have a letter each, or none, and long names that *)
(* are no letters.                                                         *)
AreOpts(D) ==
    /\ \A d \in D :
           /\ d = OptDescr(d.short_name, d.long_name, d.has_arg)
           /\ d # NoDescr /\ d.has_arg \in BOOLEAN
           /\ d.short_name \notin Dashes /\ d.long_name \notin Dashes
    /\ \A d, e \in D :
           /\ d.long_name # e.short_name
           /\ d.short_name = e.short_name /\ d.short_name # "" => d = e

(* What parse() is called with. *)
OptSets == {GeneralOptDescrs, CmdOptDescrs.gen, CmdOptDescrs.effective, CmdOptDescrs.version}

(* An option of which the letter is s, and the long name l. *)
IsOpt(d, s, l) ==
    /\ d = OptDescr(d.short_name, d.long_name, d.has_arg)
    /\ d # NoDescr /\ d.has_arg \in BOOLEAN
    /\ d.short_name = s /\ d.long_name = l

LEMMA OptFacts == \A D \in OptSets : AreOpts(D)
<1>1. \A s, l : l # "" => IsOpt(OptDescr(s, l, TRUE), s, l) /\ IsOpt(OptDescr(s, l, FALSE), s, l)
  BY DEF IsOpt, OptDescr, NoDescr
<1>2. /\ IsOpt(Help, "h", "help") /\ IsOpt(IncludeDir, "I", "include-dir")
      /\ IsOpt(IgnoreNotFound, "", "ignore-include-not-found")
  BY <1>1 DEF Help, IncludeDir, IgnoreNotFound
<1>3. AreOpts(GeneralOptDescrs)
  <2> DEFINE a == OptDescr("V", "version", FALSE)
             b == OptDescr("h", "help", FALSE)
  <2>1. IsOpt(a, "V", "version") /\ IsOpt(b, "h", "help") /\ GeneralOptDescrs = {a, b}
    BY <1>1 DEF GeneralOptDescrs
  <2> HIDE DEF a, b
  <2> QED
    BY <2>1 DEF AreOpts, IsOpt, Dashes
<1>4. AreOpts(CmdOptDescrs.gen)
  <2> DEFINE D == CmdOptDescrs.gen
             a == OptDescr("", "dump-config", FALSE)
             b == OptDescr("c", "code-dir", TRUE)
             c == OptDescr("H", "headers-dir", TRUE)
             e == OptDescr("m", "metadata-dir", TRUE)
             f == OptDescr("p", "prefix", TRUE)
  <2>1. /\ IsOpt(a, "", "dump-config") /\ IsOpt(b, "c", "code-dir")
        /\ IsOpt(c, "H", "headers-dir") /\ IsOpt(e, "m", "metadata-dir")
        /\ IsOpt(f, "p", "prefix")
    BY <1>1
  <2>2. D = {Help, IncludeDir, IgnoreNotFound, a, b, c, e, f}
    BY DEF CmdOptDescrs
  <2> HIDE DEF D, a, b, c, e, f
  <2>3. ASSUME NEW d \in D
        PROVE  /\ d = OptDescr(d.short_name, d.long_name, d.has_arg)
               /\ d # NoDescr /\ d.has_arg \in BOOLEAN
    BY <1>2, <2>1, <2>2 DEF IsOpt
  <2>4. ASSUME NEW d \in D
        PROVE  /\ d.short_name \in {"h", "I", "", "c", "H", "m", "p"}
               /\ d.long_name \in {"help", "include-dir", "ignore-include-not-found",
                      "dump-config", "code-dir", "headers-dir", "metadata-dir", "prefix"}
    BY <1>2, <2>1, <2>2 DEF IsOpt
  <2>5. \A d \in D :
            /\ d.short_name = "h" => d = Help
            /\ d.short_name = "I" => d = IncludeDir
            /\ d.short_name = "c" => d = b
            /\ d.short_name = "H" => d = c
            /\ d.short_name = "m" => d = e
            /\ d.short_name = "p" => d = f
    BY <1>2, <2>1, <2>2 DEF IsOpt
  <2>6. ASSUME NEW d \in D, NEW g \in D, d.short_name = g.short_name, d.short_name # ""
        PROVE  d = g
    BY <2>4, <2>5, <2>6
  <2>7. ASSUME NEW d \in D, NEW g \in D PROVE d.long_name # g.short_name
    BY <2>4
  <2>8. ASSUME NEW d \in D PROVE d.short_name \notin Dashes /\ d.long_name \notin Dashes
    BY <2>4 DEF Dashes
  <2>9. AreOpts(D)
    BY <2>3, <2>6, <2>7, <2>8 DEF AreOpts
  <2> QED
    BY <2>9 DEF D
<1>5. AreOpts(CmdOptDescrs.effective)
  <2> DEFINE D == CmdOptDescrs.effective
             a == OptDescr("", "indent-spaces", TRUE)
  <2>1. IsOpt(a, "", "indent-spaces") /\ D = {Help, IncludeDir, IgnoreNotFound, a}
    BY <1>1 DEF CmdOptDescrs
  <2> HIDE DEF D, a
  <2>2. AreOpts(D)
    BY <1>2, <2>1 DEF AreOpts, IsOpt, Dashes
  <2> QED
    BY <2>2 DEF D
<1>6. AreOpts(CmdOptDescrs.version)
  <2>1. CmdOptDescrs.version = {Help}
    BY DEF CmdOptDescrs
  <2> QED
    BY <1>2, <2>1 DEF AreOpts, IsOpt, Dashes
<1> QED
  BY <1>3, <1>4, <1>5, <1>6 DEF OptSets

(* Tokens T among which are the long names of options D. *)
AreTokens(T, D) == \A d \in D : d.long_name \in T

(* What a token says is one token or none. *)
LEMMA SaidFacts ==
    ASSUME NEW T, NEW D, AreTokens(T, D), AreOpts(D), NEW t \in T
    PROVE  /\ Said(D, t) \in Seq(T)
           /\ t \in Dashes => Said(D, t) = << >>
           /\ \A d \in D : d.long_name = t => Said(D, t) = << t >>
<1> DEFINE named == {d \in D : d.short_name = t}
<1>1. named # {} => (CHOOSE d \in named : TRUE) \in named
  OBVIOUS
<1>2. Said(D, t) = IF t \in Dashes THEN << >>
                   ELSE IF named = {} THEN << t >>
                   ELSE << (CHOOSE d \in named : TRUE).long_name >>
  BY DEF Said, Dashes
<1> DEFINE c == CHOOSE d \in named : TRUE
<1> HIDE DEF c
<1>3. Said(D, t) \in Seq(T)
  <2>1. named # {} => c.long_name \in T
    BY <1>1 DEF c, AreTokens
  <2> QED
    BY <1>2, <2>1 DEF c
<1>4. t \in Dashes => Said(D, t) = << >>
  BY <1>2
<1>5. ASSUME NEW d \in D, d.long_name = t PROVE Said(D, t) = << t >>
  <2>1. t \notin Dashes /\ named = {}
    BY <1>5 DEF AreOpts
  <2> QED
    BY <1>2, <2>1
<1> QED
  BY <1>3, <1>4, <1>5

(* What two texts say together is what each of them says. *)
SaysBoth(T, D) ==
    \A a, b \in Seq(T) : Canonical(D, a \o b) = Canonical(D, a) \o Canonical(D, b)

LEMMA BothSaid ==
    ASSUME NEW T, NEW D, AreTokens(T, D), AreOpts(D)
    PROVE  SaysBoth(T, D)
<1> SUFFICES ASSUME NEW a \in Seq(T), NEW b \in Seq(T)
             PROVE  Canonical(D, a \o b) = Canonical(D, a) \o Canonical(D, b)
  BY DEF SaysBoth
<1> DEFINE F(s) == [i \in DOMAIN s |-> Said(D, s[i])]
<1>1. ASSUME NEW s \in Seq(T) PROVE F(s) \in Seq(Seq(T))
  <2>1. ASSUME NEW i \in DOMAIN s PROVE Said(D, s[i]) \in Seq(T)
    <3>1. s[i] \in T
      BY <2>1
    <3> QED
      BY <3>1, SaidFacts
  <2>2. DOMAIN s = 1 .. Len(s) /\ Len(s) \in Nat
    OBVIOUS
  <2> QED
    BY <2>1, <2>2
<1>2. F(a \o b) = F(a) \o F(b)
  <2>1. /\ a \o b \in Seq(T) /\ Len(a \o b) = Len(a) + Len(b)
        /\ \A j \in 1 .. Len(a) : (a \o b)[j] = a[j]
        /\ \A j \in 1 .. Len(b) : (a \o b)[Len(a) + j] = b[j]
    BY Joined
  <2> QED
    OBVIOUS
<1>3. \A s \in Seq(T) : Canonical(D, s) = FlattenSeq(F(s))
  BY DEF Canonical
<1> HIDE DEF F
<1>4. Canonical(D, a \o b) = FlattenSeq(F(a) \o F(b))
  <2>1. a \o b \in Seq(T)
    OBVIOUS
  <2> QED
    BY <1>2, <1>3, <2>1
<1>5. F(a) \in Seq(Seq(T)) /\ F(b) \in Seq(Seq(T))
  BY <1>1
<1>6. FlattenSeq(F(a) \o F(b)) = FlattenSeq(F(a)) \o FlattenSeq(F(b))
  BY <1>5, FlattenJoined
<1> QED
  BY <1>3, <1>4, <1>6

(* A long name says itself; a letter says the long name. *)
SaysNames(T, D) == \A t \in T : \A d \in D : d.long_name = t => Said(D, t) = << t >>

LEMMA NamesSaid ==
    ASSUME NEW T, NEW D, AreTokens(T, D), AreOpts(D)
    PROVE  SaysNames(T, D)
BY SaidFacts DEF SaysNames

SaysLetters(T, D) ==
    \A t \in T : \A d \in D : d.short_name = t /\ t # "" => Said(D, t) = << d.long_name >>

LEMMA LettersSaid ==
    ASSUME NEW T, NEW D, AreTokens(T, D), AreOpts(D)
    PROVE  SaysLetters(T, D)
<1> SUFFICES ASSUME NEW t \in T, NEW d \in D, d.short_name = t, t # ""
             PROVE  Said(D, t) = << d.long_name >>
  BY DEF SaysLetters
<1> DEFINE named == {e \in D : e.short_name = t}
           c == CHOOSE e \in named : TRUE
<1>1. Said(D, t) = IF t \in Dashes THEN << >> ELSE IF named = {} THEN << t >> ELSE << c.long_name >>
  BY DEF Said, Dashes
<1>2. t \notin Dashes /\ d \in named
  BY DEF AreOpts
<1>3. c \in D /\ c.short_name = t
  BY <1>2
<1>4. c = d
  BY <1>3 DEF AreOpts
<1> QED
  BY <1>1, <1>2, <1>4

(* What one token says. *)
LEMMA CanonicalOne ==
    ASSUME NEW T, NEW D, AreTokens(T, D), AreOpts(D), NEW t \in T
    PROVE  Canonical(D, << t >>) = Said(D, t)
<1>1. Said(D, t) \in Seq(T)
  BY SaidFacts
<1>2. [i \in DOMAIN << t >> |-> Said(D, << t >>[i])] = << Said(D, t) >>
  OBVIOUS
<1> DEFINE s == Said(D, t)
<1>3. FlattenSeq(<< s >>) = s
  <2> HIDE DEF s
  <2> QED
    BY <1>1, FlattenOne DEF s
<1> QED
  BY <1>2, <1>3 DEF Canonical

(* The words of long options. *)
LEMMA LongShape ==
    ASSUME NEW T, NEW word \in Seq(T), IsWord(word), IsOptWord(word), IsLong(word),
           word # << "--" >>
    PROVE  /\ Len(word) >= 2 /\ word[1] = "--" /\ word[1] \in T /\ word[2] \in T
           /\ Len(word) > 2 => word[3] = "=" /\ word[3] \in T
<1>1. Len(word) \in Nat /\ Len(word) # 0 /\ word[1] = "--"
  BY DEF IsOptWord, IsLong
<1>2. Len(word) # 1
  BY <1>1
<1>3. Len(word) >= 2
  <2> DEFINE n == Len(word)
  <2>1. n \in Nat /\ n # 0 /\ n # 1
    BY <1>1, <1>2
  <2> HIDE DEF n
  <2>2. n >= 2
    BY <2>1
  <2> QED
    BY <2>2 DEF n
<1>4. \A i \in 1 .. Len(word) : word[i] \in T
  OBVIOUS
<1>5. word[1] \in T /\ word[2] \in T
  BY <1>1, <1>3, <1>4
<1>6. Len(word) > 2 => word[3] = "="
  BY <1>1 DEF IsWord
<1>7. Len(word) > 2 => word[3] \in T
  BY <1>1, <1>4
<1> QED
  BY <1>1, <1>3, <1>5, <1>6, <1>7

(* A word cut in two. *)
LEMMA TwoParts ==
    ASSUME NEW T, NEW word \in Seq(T), NEW k \in 0 .. Len(word)
    PROVE  /\ SubSeq(word, 1, k) \in Seq(T) /\ SubSeq(word, k + 1, Len(word)) \in Seq(T)
           /\ Len(SubSeq(word, 1, k)) = k
           /\ \A i \in 1 .. k : SubSeq(word, 1, k)[i] = word[i]
           /\ word = SubSeq(word, 1, k) \o SubSeq(word, k + 1, Len(word))
<1> DEFINE n == Len(word)
           p == SubSeq(word, 1, k)
           r == SubSeq(word, k + 1, n)
<1>1. n \in Nat /\ k \in Nat /\ k <= n /\ \A i \in 1 .. n : word[i] \in T
  OBVIOUS
<1>2. Len(p) = k /\ p \in Seq(T) /\ \A i \in 1 .. k : p[i] = word[i]
  BY <1>1
<1>3. Len(r) = n - k /\ r \in Seq(T) /\ \A i \in 1 .. n - k : r[i] = word[k + i]
  BY <1>1
<1>4. word = [i \in 1 .. n |-> word[i]]
  OBVIOUS
<1> HIDE DEF p, r
<1>5. /\ p \o r \in Seq(T) /\ Len(p \o r) = k + (n - k)
      /\ \A j \in 1 .. k : (p \o r)[j] = p[j]
      /\ \A j \in 1 .. n - k : (p \o r)[k + j] = r[j]
  BY <1>2, <1>3, Joined
<1>6. ASSUME NEW i \in 1 .. n PROVE (p \o r)[i] = word[i]
  <2>1. CASE i <= k
    BY <1>2, <1>5, <2>1
  <2>2. CASE i > k
    <3>1. i - k \in 1 .. n - k /\ k + (i - k) = i
      BY <1>1, <2>2
    <3> QED
      BY <1>3, <1>5, <3>1
  <2> QED
    <3>1. i \in Int /\ k \in Int
      BY <1>1
    <3>2. i <= k \/ i > k
      BY <3>1
    <3> QED
      BY <2>1, <2>2, <3>2
<1> DEFINE w == p \o r
<1>7. w \in Seq(T) /\ Len(w) = n /\ \A i \in 1 .. n : w[i] = word[i]
  BY <1>1, <1>5, <1>6
<1> HIDE DEF w
<1>8. w = word
  BY <1>1, <1>7
<1> QED
  BY <1>2, <1>3, <1>8 DEF w, p, r

(* What the start of a long option says. *)
LEMMA NameSaid ==
    ASSUME NEW T, NEW D, AreTokens(T, D), AreOpts(D), NEW d \in D, NEW p \in Seq(T),
           p = << "--", d.long_name >> \/ p = << "--", d.long_name, "=" >>
    PROVE  Canonical(D, p) = << d.long_name >>
<1> DEFINE name == d.long_name
           front == << "--" >> \o << name >>
<1>0. name \in T /\ Said(D, name) = << name >>
  <2>1. name \in T
    BY DEF AreTokens
  <2> QED
    BY <2>1, SaidFacts
<1>1. "--" \in T /\ (p = << "--", name, "=" >> => "=" \in T)
  <2>1. Len(p) \in Nat /\ \A i \in 1 .. Len(p) : p[i] \in T
    OBVIOUS
  <2>2. Len(p) >= 2 /\ p[1] = "--" /\ (p = << "--", name, "=" >> => Len(p) = 3 /\ p[3] = "=")
    OBVIOUS
  <2> QED
    BY <2>1, <2>2
<1>2. Said(D, "--") = << >> /\ (p = << "--", name, "=" >> => Said(D, "=") = << >>)
  BY <1>1, SaidFacts DEF Dashes
<1> HIDE DEF name
<1>3. Canonical(D, front) = << name >> /\ front \in Seq(T) /\ front = << "--", name >>
  <2>1. << "--" >> \in Seq(T) /\ << name >> \in Seq(T)
    BY <1>0, <1>1
  <2>2. Canonical(D, << "--" >>) = << >> /\ Canonical(D, << name >>) = << name >>
    BY <1>0, <1>1, <1>2, CanonicalOne
  <2>3. << >> \o << name >> = << name >>
    OBVIOUS
  <2>4. Canonical(D, front) = Canonical(D, << "--" >>) \o Canonical(D, << name >>)
    <3>1. SaysBoth(T, D)
      BY BothSaid
    <3> QED
      BY <2>1, <3>1 DEF SaysBoth
  <2>5. << "--" >> \o << name >> = << "--", name >>
    BY Two
  <2>6. front \in Seq(T)
    BY <2>1
  <2> QED
    BY <2>2, <2>3, <2>4, <2>5, <2>6
<1>4. CASE p = << "--", name >>
  BY <1>3, <1>4 DEF name
<1>5. CASE p = << "--", name, "=" >>
  <2> DEFINE e == << "=" >>
  <2>1. e \in Seq(T) /\ Canonical(D, e) = << >>
    <3>1. "=" \in T /\ Said(D, "=") = << >>
      BY <1>1, <1>2, <1>5
    <3> QED
      BY <3>1, CanonicalOne
  <2>2. p = front \o e
    BY <1>3, <1>5
  <2> HIDE DEF e, front
  <2>3. Canonical(D, front \o e) = Canonical(D, front) \o Canonical(D, e)
    <3>1. SaysBoth(T, D)
      BY BothSaid
    <3> QED
      BY <1>3, <2>1, <3>1 DEF SaysBoth
  <2>4. << name >> \o << >> = << name >>
    OBVIOUS
  <2> QED
    BY <1>3, <2>1, <2>2, <2>3, <2>4 DEF name
<1> QED
  BY <1>4, <1>5 DEF name

(* The spelling of one option and its argument. *)
LEMMA OneSpelled ==
    ASSUME NEW T, NEW D, AreTokens(T, D), AreOpts(D), NEW d \in D, NEW t \in Seq(T)
    PROVE  Spelled(<< OptItem(d, t) >>) = << d.long_name >> \o t
<1> DEFINE item == OptItem(d, t)
           v == << d.long_name >> \o t
<1>1. v \in Seq(T)
  <2>1. << d.long_name >> \in Seq(T)
    BY DEF AreTokens
  <2> QED
    BY <2>1
<1>2. Spelling(item) = v
  <2>1. item.descr = d /\ item.text = t /\ d # NoDescr
    BY DEF OptItem, AreOpts
  <2> QED
    BY <2>1 DEF Spelling, IsNonOpt
<1> HIDE DEF v, item
<1>3. [i \in DOMAIN << item >> |-> Spelling(<< item >>[i])] = << v >>
  BY <1>2
<1>4. FlattenSeq(<< v >>) = v
  BY <1>1, FlattenOne
<1>5. Spelled(<< item >>) = v
  BY <1>3, <1>4 DEF Spelled
<1> QED
  BY <1>5 DEF item, v

(* A long option: its name, and its text, or the next word, if it has an   *)
(* argument.                                                               *)
LEMMA LongSpelled ==
    ASSUME NEW T, NEW D, D = opt_descrs, AreTokens(T, D), AreOpts(D), NEW word \in Seq(T),
           IsWord(word), IsOptWord(word), word # << "--" >>, IsLong(word),
           ~UnknownOpt(word), ~DropsText(D, word),
           NEW next \in Seq(T), ~ExpectsNext(word) => next = << >>
    PROVE  Canonical(D, Spelled(OptItems(word, next))) = Canonical(D, word \o next)
<1>0. SaysBoth(T, D) /\ SaysNames(T, D)
  BY BothSaid, NamesSaid
<1> DEFINE n == Len(word)
           d == CHOOSE c \in Long(word[2]) : TRUE
           rest == SubSeq(word, 4, n)
           text == IF HasText(word) THEN TextOf(word) ELSE next
           t == IF d.has_arg THEN text ELSE << >>
           k == IF n > 2 THEN 3 ELSE 2
           p == SubSeq(word, 1, k)
           r == SubSeq(word, k + 1, n)
<1>1. /\ n \in Nat /\ n >= 2 /\ word[1] = "--"
      /\ n > 2 => word[3] = "="
  BY LongShape
<1>2. d \in Long(word[2]) /\ d \in D /\ d.long_name = word[2] /\ d.has_arg \in BOOLEAN
  <2>1. Long(word[2]) # {}
    BY DEF UnknownOpt
  <2>2. d \in Long(word[2])
    BY <2>1
  <2> QED
    BY <2>2 DEF Long, AreOpts
<1>3. Opts(word) = << d >> /\ (HasText(word) <=> n > 2) /\ TextOf(word) = rest
  BY DEF Opts, HasText, IsLong, TextOf
<1>4. ExpectsNext(word) <=> (d.has_arg /\ ~HasText(word))
  <2>1. Last(<< d >>) = d
    BY DEF Last
  <2> QED
    BY <1>3, <2>1 DEF ExpectsNext
<1>5. HasText(word) => d.has_arg
  BY <1>2, <1>3 DEF DropsText
<1> HIDE DEF d
<1>6. OptItems(word, next) = << OptItem(d, t) >>
  BY <1>3 DEF OptItems
<1>7. k \in 0 .. n /\ p \in Seq(T) /\ r \in Seq(T) /\ word = p \o r
  <2>1. k \in 0 .. n
    BY <1>1
  <2> HIDE DEF k, n
  <2> QED
    BY <2>1, TwoParts DEF n
<1>8. p = << "--", d.long_name >> \/ p = << "--", d.long_name, "=" >>
  <2>1. Len(p) = k /\ \A i \in 1 .. k : p[i] = word[i]
    <3>1. k \in 0 .. n
      BY <1>1
    <3> HIDE DEF k, n
    <3> QED
      BY <3>1, TwoParts DEF n
  <2>2. p[1] = "--" /\ p[2] = d.long_name /\ (n > 2 => p[3] = "=")
    BY <1>1, <1>2, <2>1
  <2> HIDE DEF p
  <2>3. CASE n > 2
    <3>1. Len(p) = 3
      BY <2>1, <2>3
    <3> QED
      BY <1>7, <2>2, <2>3, <3>1
  <2>4. CASE ~(n > 2)
    <3>1. Len(p) = 2
      BY <2>1, <2>4
    <3> QED
      BY <1>7, <2>2, <3>1
  <2> QED
    BY <2>3, <2>4
<1>9. r \o next = t /\ t \in Seq(T)
  <2>1. CASE HasText(word)
    <3>1. k = 3 /\ next = << >> /\ t = rest
      BY <1>3, <1>4, <1>5, <2>1
    <3>2. r = t
      BY <3>1
    <3> HIDE DEF r, t
    <3>3. r \o << >> = r
      BY <1>7
    <3> QED
      BY <1>7, <3>1, <3>2, <3>3
  <2>2. CASE ~HasText(word)
    <3>1. n = 2 /\ k = 2
      <4>1. n \in Nat /\ n >= 2 /\ ~(n > 2)
        BY <1>1, <1>3, <2>2
      <4> HIDE DEF n
      <4> QED
        BY <4>1
    <3>2. r = << >>
      BY <3>1
    <3>3. t = next
      BY <1>4, <2>2
    <3> HIDE DEF r, t
    <3>4. << >> \o next = next
      OBVIOUS
    <3> QED
      BY <3>2, <3>3, <3>4
  <2> QED
    BY <2>1, <2>2
<1> HIDE DEF p, r, t
<1>10. Spelled(OptItems(word, next)) = << d.long_name >> \o t
  BY <1>2, <1>6, <1>9, OneSpelled
<1>11. << d.long_name >> \in Seq(T) /\ Canonical(D, << d.long_name >>) = << d.long_name >>
  <2>1. d.long_name \in T
    BY <1>2 DEF AreTokens
  <2>2. Said(D, d.long_name) = << d.long_name >>
    BY <1>0, <1>2, <2>1 DEF SaysNames
  <2> QED
    BY <2>1, <2>2, CanonicalOne
<1>12. word \o next = p \o t
  <2>1. IsAssociative(T)
    BY Associated
  <2>2. (p \o r) \o next = p \o (r \o next)
    BY <1>7, <2>1 DEF IsAssociative
  <2> QED
    BY <1>7, <1>9, <2>2
<1> DEFINE l == << d.long_name >>
<1> HIDE DEF l
<1>13. Canonical(D, p) = l
  BY <1>2, <1>7, <1>8, NameSaid DEF l
<1>14. Canonical(D, p \o t) = Canonical(D, p) \o Canonical(D, t)
  BY <1>0, <1>7, <1>9 DEF SaysBoth
<1>15. Canonical(D, l \o t) = Canonical(D, l) \o Canonical(D, t)
  BY <1>0, <1>9, <1>11 DEF SaysBoth, l
<1> QED
  BY <1>10, <1>11, <1>12, <1>13, <1>14, <1>15 DEF l

(* Where a group of short options ends. *)
LEMMA StopFacts ==
    ASSUME NEW T, NEW word \in Seq(T), NEW n \in Nat, n = Len(word), n >= 2
    PROVE  /\ Stop(word) \in 0 .. n - 1
           /\ \A i \in 1 .. n - 1 :
                  Stop(word) = 0 \/ i < Stop(word) => \E d \in Short(word[i + 1]) : ~d.has_arg
           /\ Stop(word) # 0 => \A d \in Short(word[Stop(word) + 1]) : d.has_arg
<1> DEFINE s == Tail(word)
           m == n - 1
           I == {i \in 1 .. Len(s) : \A d \in Short(s[i]) : d.has_arg}
<1>1. Stop(word) = IF I # {} THEN Min(I) ELSE 0
  BY DEF Stop, SelectInSeq
<1>2. Len(s) = m /\ m \in Nat /\ \A i \in 1 .. m : s[i] = word[i + 1]
  OBVIOUS
<1> HIDE DEF s
<1>3. I = {i \in 1 .. m : \A d \in Short(word[i + 1]) : d.has_arg}
  BY <1>2
<1> HIDE DEF I, m
<1>4. CASE I = {}
  <2>1. Stop(word) = 0
    BY <1>1, <1>4
  <2>2. \A i \in 1 .. m : \E d \in Short(word[i + 1]) : ~d.has_arg
    BY <1>3, <1>4
  <2> QED
    BY <2>1, <2>2 DEF m
<1>5. CASE I # {}
  <2>1. Min(I) \in I /\ \A i \in I : Min(I) <= i
    BY <1>2, <1>3, <1>5, LeastOfInterval
  <2> DEFINE k == Stop(word)
  <2>2. k = Min(I)
    BY <1>1, <1>5
  <2> HIDE DEF k
  <2>3. k \in 1 .. m /\ \A d \in Short(word[k + 1]) : d.has_arg
    BY <1>3, <2>1, <2>2
  <2>4. ASSUME NEW i \in 1 .. m, i < k PROVE \E d \in Short(word[i + 1]) : ~d.has_arg
    <3>1. i \notin I
      BY <2>1, <2>2, <2>3, <2>4
    <3> QED
      BY <1>3, <3>1
  <2>5. k \in 0 .. m /\ k # 0
    BY <2>3
  <2> QED
    BY <2>3, <2>4, <2>5 DEF k, m
<1> QED
  BY <1>4, <1>5

(* The options o of the first K letters of a word. *)
IsGroup(word, K, o) ==
    /\ K \in 1 .. Len(word) - 1
    /\ DOMAIN o = 1 .. K
    /\ \A i \in 1 .. K :
           /\ o[i] \in opt_descrs /\ o[i].short_name = word[i + 1] /\ word[i + 1] # ""
           /\ i < K => ~o[i].has_arg

LEMMA LettersGroup ==
    ASSUME NEW T, NEW word \in Seq(T), NEW n \in Nat, n = Len(word), n >= 2,
           AreOpts(opt_descrs), IsWord(word), ~IsLong(word), ~UnknownOpt(word),
           NEW K, K = IF Stop(word) = 0 THEN n - 1 ELSE Stop(word)
    PROVE  /\ IsGroup(word, K, Opts(word))
           /\ (Opts(word)[K].has_arg <=> Stop(word) # 0)
           /\ (ExpectsNext(word) <=> (Opts(word)[K].has_arg /\ ~HasText(word)))
<1> DEFINE k == Stop(word)
           o == Opts(word)
<1>1. /\ k \in 0 .. n - 1
      /\ \A i \in 1 .. n - 1 : k = 0 \/ i < k => \E d \in Short(word[i + 1]) : ~d.has_arg
      /\ k # 0 => \A d \in Short(word[k + 1]) : d.has_arg
  BY StopFacts
<1>2. o = [i \in 1 .. K |-> CHOOSE d \in Short(word[i + 1]) : TRUE]
  BY DEF Opts
<1>3. k # 0 => Short(word[k + 1]) # {}
  BY DEF UnknownOpt
<1> HIDE DEF k, o
<1>4. K \in 1 .. n - 1 /\ K \in Nat \ {0} /\ (k = 0 \/ K = k)
  BY <1>1 DEF k
<1>5. \A i \in 1 .. K : word[i + 1] # ""
  <2> SUFFICES ASSUME NEW i \in 1 .. K PROVE word[i + 1] # ""
    OBVIOUS
  <2>1. i + 1 \in DOMAIN word
    BY <1>4
  <2> QED
    BY <2>1 DEF IsWord, Range
<1>6. ASSUME NEW i \in 1 .. K
      PROVE  /\ o[i] \in Short(word[i + 1])
             /\ k = 0 \/ i < k => ~o[i].has_arg
             /\ k # 0 /\ i = k => o[i].has_arg
  <2> DEFINE S == Short(word[i + 1])
             c == CHOOSE d \in S : TRUE
  <2>0. i \in 1 .. n - 1 /\ (k = 0 \/ i < k \/ i = k)
    BY <1>1, <1>4
  <2>1. S # {} /\ (k = 0 \/ i < k => \E d \in S : ~d.has_arg)
    BY <1>1, <1>3, <2>0
  <2>2. c \in S
    BY <2>1
  <2>3. o[i] = c
    BY <1>2
  <2> HIDE DEF c
  <2>4. \A d \in S : d = c
    <3> SUFFICES ASSUME NEW d \in S PROVE d = c
      OBVIOUS
    <3>1. d \in opt_descrs /\ c \in opt_descrs /\ d.short_name = word[i + 1] /\ c.short_name = word[i + 1]
      BY <2>2 DEF Short
    <3> QED
      BY <1>5, <3>1 DEF AreOpts
  <2>5. k = 0 \/ i < k => ~c.has_arg
    BY <2>1, <2>4
  <2>6. k # 0 /\ i = k => c.has_arg
    BY <1>1, <2>2
  <2> QED
    BY <2>2, <2>3, <2>5, <2>6
<1>7. IsGroup(word, K, o)
  <2>1. DOMAIN o = 1 .. K
    BY <1>2
  <2>2. \A i \in 1 .. K : o[i] \in opt_descrs /\ o[i].short_name = word[i + 1]
    BY <1>6 DEF Short
  <2>3. \A i \in 1 .. K : i < K => ~o[i].has_arg
    BY <1>4, <1>6
  <2> QED
    BY <1>4, <1>5, <2>1, <2>2, <2>3 DEF IsGroup
<1>8. K \in 1 .. K
  BY <1>4
<1>9. o[K].has_arg <=> k # 0
  BY <1>4, <1>6, <1>8
<1>10. Last(o) = o[K]
  <2>1. Len(o) = K
    BY <1>2, <1>4
  <2> QED
    BY <2>1 DEF Last
<1>11. ExpectsNext(word) <=> (o[K].has_arg /\ ~HasText(word))
  BY <1>10 DEF ExpectsNext, o
<1>12. k = Stop(word) /\ o = Opts(word)
  BY DEF k, o
<1> QED
  <2>1. IsGroup(word, K, Opts(word))
    BY <1>7, <1>12
  <2>2. Opts(word)[K].has_arg <=> Stop(word) # 0
    BY <1>9, <1>12
  <2>3. ExpectsNext(word) <=> (Opts(word)[K].has_arg /\ ~HasText(word))
    BY <1>11, <1>12
  <2> QED
    BY <2>1, <2>2, <2>3

(* The items of a group of options, of which only the last one has a text, *)
(* and what they say.                                                      *)
AreItems(found, K, o, t) ==
    /\ DOMAIN found = 1 .. K
    /\ \A i \in 1 .. K : found[i] = OptItem(o[i], IF i < K THEN << >> ELSE t)

IsSpelled(T, D, found, letters, t) ==
    \E l \in Seq(T) :
        Spelled(found) = l \o t /\ Canonical(D, l) = l /\ Canonical(D, letters) = l

LEMMA GroupSpelled ==
    ASSUME NEW T, NEW D, D = opt_descrs, AreTokens(T, D), AreOpts(D), NEW word \in Seq(T),
           NEW K, NEW o, IsGroup(word, K, o), NEW t \in Seq(T), NEW found,
           AreItems(found, K, o, t), NEW letters, letters = [i \in 1 .. K |-> word[i + 1]]
    PROVE  IsSpelled(T, D, found, letters, t)
<1> USE DEF AreItems
<1> DEFINE l == [i \in 1 .. K |-> o[i].long_name]
           singles == [i \in 1 .. K |-> << l[i] >>]
           f == [i \in 1 .. K |-> << l[i] >> \o (IF i < K THEN << >> ELSE t)]
<1>0. K \in Nat \ {0} /\ K \in 1 .. K /\ \A i \in 1 .. K : i + 1 \in 1 .. Len(word)
  <2>1. K \in 1 .. Len(word) - 1
    BY DEF IsGroup
  <2> DEFINE n == Len(word)
  <2>2. n \in Nat
    OBVIOUS
  <2> HIDE DEF n
  <2>3. K \in 1 .. n - 1
    BY <2>1 DEF n
  <2>4. K \in Nat \ {0} /\ K \in 1 .. K /\ \A i \in 1 .. K : i + 1 \in 1 .. n
    BY <2>2, <2>3
  <2> QED
    BY <2>4 DEF n
<1>1. ASSUME NEW i \in 1 .. K
      PROVE  /\ o[i] \in D /\ o[i].short_name = word[i + 1] /\ word[i + 1] # ""
             /\ o[i] # NoDescr /\ o[i].long_name \in T /\ word[i + 1] \in T
  <2>1. o[i] \in D /\ o[i].short_name = word[i + 1] /\ word[i + 1] # ""
    BY DEF IsGroup
  <2>2. word[i + 1] \in T
    <3>1. i + 1 \in 1 .. Len(word)
      BY <1>0
    <3> QED
      BY <3>1
  <2>3. o[i] # NoDescr /\ o[i].long_name \in T
    BY <2>1 DEF AreOpts, AreTokens
  <2> QED
    BY <2>1, <2>2, <2>3
<1>2. l \in [1 .. K -> T] /\ l \in Seq(T)
  <2>1. \A i \in 1 .. K : o[i].long_name \in T
    BY <1>1
  <2>2. l \in [1 .. K -> T]
    BY <2>1
  <2>3. K \in Nat
    BY <1>0
  <2> HIDE DEF l
  <2> QED
    BY <2>2, <2>3
<1>3. \A i \in 1 .. K : l[i] = o[i].long_name
  OBVIOUS
<1> HIDE DEF l
<1>4. FlattenSeq(singles) = l
  <2>1. K \in Nat
    BY <1>0
  <2> QED
    BY <1>2, <2>1, FlattenSingles
<1>5. Spelled(found) = l \o t
  <2>1. [i \in DOMAIN found |-> Spelling(found[i])] = f
    <3>1. ASSUME NEW i \in 1 .. K
          PROVE  Spelling(found[i]) = << l[i] >> \o (IF i < K THEN << >> ELSE t)
      <4> DEFINE x == IF i < K THEN << >> ELSE t
      <4>1. found[i].descr = o[i] /\ found[i].text = x
        BY DEF OptItem
      <4> HIDE DEF x
      <4>2. Spelling(found[i]) = << o[i].long_name >> \o x
        BY <1>1, <4>1 DEF Spelling, IsNonOpt
      <4> QED
        BY <1>3, <4>2 DEF x
    <3> QED
      BY <3>1
  <2>2. f \in [1 .. K -> Seq(T)] /\ singles \in [1 .. K -> Seq(T)]
    <3> SUFFICES ASSUME NEW i \in 1 .. K
                 PROVE  /\ << l[i] >> \o (IF i < K THEN << >> ELSE t) \in Seq(T)
                        /\ << l[i] >> \in Seq(T)
      OBVIOUS
    <3>1. << l[i] >> \in Seq(T)
      BY <1>2
    <3>2. (IF i < K THEN << >> ELSE t) \in Seq(T)
      OBVIOUS
    <3> QED
      BY <3>1, <3>2
  <2>3. f[K] = singles[K] \o t
    <3>1. K \in 1 .. K /\ ~(K < K)
      BY <1>0
    <3> QED
      BY <3>1
  <2>4. ASSUME NEW i \in 1 .. K, i < K PROVE f[i] = singles[i]
    <3>1. << l[i] >> \in Seq(T)
      BY <1>2
    <3>2. << l[i] >> \o << >> = << l[i] >>
      BY <3>1
    <3> QED
      BY <2>4, <3>2
  <2> HIDE DEF f, singles
  <2>5. FlattenSeq(f) = FlattenSeq(singles) \o t
    <3>1. \A i \in 1 .. K : i < K => f[i] = singles[i]
      BY <2>4
    <3>2. K \in Nat \ {0}
      BY <1>0
    <3>3. IsLast(f[K], singles[K], t)
      BY <2>3 DEF IsLast
    <3>4. IsLast(FlattenSeq(f), FlattenSeq(singles), t)
      BY <2>2, <3>1, <3>2, <3>3, LastLonger
    <3> QED
      BY <3>4 DEF IsLast
  <2> QED
    BY <1>4, <2>1, <2>5 DEF Spelled
<1>6. Canonical(D, l) = l
  <2>1. [i \in DOMAIN l |-> Said(D, l[i])] = singles
    <3>1. ASSUME NEW i \in 1 .. K PROVE Said(D, l[i]) = << l[i] >>
      <4>1. SaysNames(T, D)
        BY NamesSaid
      <4> QED
        BY <1>1, <1>3, <4>1 DEF SaysNames
    <3> QED
      BY <1>2, <3>1
  <2> QED
    BY <1>4, <2>1 DEF Canonical
<1>7. Canonical(D, letters) = l
  <2>1. [i \in DOMAIN letters |-> Said(D, letters[i])] = singles
    <3>1. ASSUME NEW i \in 1 .. K PROVE Said(D, letters[i]) = << l[i] >>
      <4>1. SaysLetters(T, D)
        BY LettersSaid
      <4> QED
        BY <1>1, <1>3, <4>1 DEF SaysLetters
    <3> QED
      BY <3>1
  <2> HIDE DEF singles
  <2> QED
    BY <1>4, <2>1 DEF Canonical
<1> QED
  BY <1>2, <1>5, <1>6, <1>7 DEF IsSpelled

(* The start of a word that is a group. *)
LEMMA ShortShape ==
    ASSUME NEW T, NEW word \in Seq(T), IsOptWord(word), ~IsLong(word)
    PROVE  Len(word) \in Nat /\ Len(word) >= 2 /\ word[1] = "-" /\ "-" \in T
<1>1. Len(word) \in Nat /\ Len(word) # 0 /\ word[1] = "-" /\ word # << "-" >>
  BY DEF IsOptWord, IsLong
<1>2. Len(word) # 1
  BY <1>1
<1>3. Len(word) >= 2
  <2> DEFINE n == Len(word)
  <2>1. n \in Nat /\ n # 0 /\ n # 1
    BY <1>1, <1>2
  <2> HIDE DEF n
  <2>2. n >= 2
    BY <2>1
  <2> QED
    BY <2>2 DEF n
<1>4. word[1] \in T
  BY <1>1, <1>3
<1> QED
  BY <1>1, <1>3, <1>4

(* The start of a group. *)
LEMMA DashAndLetters ==
    ASSUME NEW T, NEW K \in Nat, NEW p \in Seq(T), Len(p) = K + 1, p[1] = "-",
           NEW word, \A i \in 1 .. K + 1 : p[i] = word[i],
           NEW letters, letters = [i \in 1 .. K |-> word[i + 1]]
    PROVE  p = << "-" >> \o letters /\ letters \in Seq(T)
<1> DEFINE a == SubSeq(p, 1, 1)
           b == SubSeq(p, 1 + 1, Len(p))
<1>1. a \in Seq(T) /\ b \in Seq(T) /\ Len(a) = 1 /\ a[1] = p[1] /\ p = a \o b
  <2>1. 1 \in 0 .. Len(p)
    OBVIOUS
  <2> QED
    BY <2>1, TwoParts
<1>2. b = letters
  <2>1. Len(b) = K /\ \A i \in 1 .. K : b[i] = p[i + 1]
    OBVIOUS
  <2>2. \A i \in 1 .. K : i + 1 \in 1 .. K + 1
    OBVIOUS
  <2>3. \A i \in 1 .. K : b[i] = word[i + 1]
    BY <2>1, <2>2
  <2> HIDE DEF b
  <2>4. b = [i \in 1 .. K |-> b[i]]
    BY <1>1, <2>1
  <2> QED
    BY <2>3, <2>4
<1> HIDE DEF a, b
<1>3. a = << "-" >>
  BY <1>1
<1> QED
  BY <1>1, <1>2, <1>3

(* A group of short options: their letters, and the text after them, or    *)
(* the next word, if the last one has an argument.                         *)
LEMMA ShortSpelled ==
    ASSUME NEW T, NEW D, D = opt_descrs, AreTokens(T, D), AreOpts(D), NEW word \in Seq(T),
           IsWord(word), IsOptWord(word), ~IsLong(word), ~UnknownOpt(word),
           NEW next \in Seq(T), ~ExpectsNext(word) => next = << >>
    PROVE  Canonical(D, Spelled(OptItems(word, next))) = Canonical(D, word \o next)
<1> DEFINE n == Len(word)
           K == IF Stop(word) = 0 THEN n - 1 ELSE Stop(word)
           o == Opts(word)
           text == IF HasText(word) THEN TextOf(word) ELSE next
           t == IF o[K].has_arg THEN text ELSE << >>
           found == OptItems(word, next)
           letters == [i \in 1 .. K |-> word[i + 1]]
           p == SubSeq(word, 1, K + 1)
           r == SubSeq(word, (K + 1) + 1, n)
<1>1. n \in Nat /\ n >= 2 /\ word[1] = "-" /\ "-" \in T
  BY ShortShape
<1>2. IsGroup(word, K, o) /\ (o[K].has_arg <=> Stop(word) # 0)
      /\ (ExpectsNext(word) <=> (o[K].has_arg /\ ~HasText(word)))
  <2> HIDE DEF n, K, o
  <2>1. K = IF Stop(word) = 0 THEN n - 1 ELSE Stop(word)
    BY DEF K
  <2>2. n = Len(word)
    BY DEF n
  <2> QED
    BY <1>1, <2>1, <2>2, LettersGroup DEF o
<1>3. HasText(word) <=> Stop(word) + 1 < n
  BY DEF HasText, IsLong
<1>4. TextOf(word) = SubSeq(word, Stop(word) + 2, n)
  BY DEF TextOf, IsLong
<1> HIDE DEF o, text
<1>5. /\ DOMAIN found = 1 .. K
      /\ \A i \in 1 .. K : found[i] = OptItem(o[i], IF o[i].has_arg THEN text ELSE << >>)
  <2>1. found = [i \in DOMAIN o |-> OptItem(o[i], IF o[i].has_arg THEN text ELSE << >>)]
    BY DEF OptItems, o, text
  <2>2. DOMAIN o = 1 .. K
    <3>1. IsGroup(word, K, o)
      BY <1>2
    <3> HIDE DEF K
    <3> QED
      BY <3>1 DEF IsGroup
  <2> HIDE DEF found
  <2> QED
    BY <2>1, <2>2
<1> HIDE DEF found
<1>6. \A i \in 1 .. K : found[i] = OptItem(o[i], IF i < K THEN << >> ELSE t)
  <2> SUFFICES ASSUME NEW i \in 1 .. K PROVE found[i] = OptItem(o[i], IF i < K THEN << >> ELSE t)
    OBVIOUS
  <2>1. found[i] = OptItem(o[i], IF o[i].has_arg THEN text ELSE << >>)
    BY <1>5
  <2>2. CASE i < K
    <3>1. ~o[i].has_arg
      BY <1>2, <2>2 DEF IsGroup
    <3> QED
      BY <2>1, <2>2, <3>1
  <2>3. CASE ~(i < K)
    <3>1. i = K
      <4>1. K \in Int
        <5>1. K \in 1 .. n - 1
          BY <1>2 DEF IsGroup
        <5> HIDE DEF K, n
        <5> QED
          BY <5>1
      <4> HIDE DEF K
      <4> QED
        BY <2>3, <4>1
    <3> QED
      BY <2>1, <2>3, <3>1
  <2> QED
    BY <2>2, <2>3
<1>7. K \in 1 .. n - 1 /\ K + 1 \in 0 .. n /\ K \in Nat
  <2>1. K \in 1 .. n - 1
    BY <1>2 DEF IsGroup
  <2> HIDE DEF K, n
  <2> QED
    BY <1>1, <2>1
<1>8. /\ p \in Seq(T) /\ r \in Seq(T) /\ Len(p) = K + 1
      /\ \A i \in 1 .. K + 1 : p[i] = word[i]
      /\ word = p \o r
  <2> HIDE DEF K
  <2> QED
    BY <1>7, TwoParts
<1>9. r \o next = t /\ t \in Seq(T)
  <2>1. CASE Stop(word) = 0
    <3>1. ~o[K].has_arg /\ t = << >> /\ next = << >>
      BY <1>2, <2>1
    <3>2. r = << >>
      BY <1>1, <2>1
    <3> HIDE DEF r, t
    <3> QED
      BY <3>1, <3>2
  <2>2. CASE Stop(word) # 0 /\ HasText(word)
    <3>1. t = TextOf(word) /\ next = << >> /\ K = Stop(word)
      BY <1>2, <2>2 DEF text
    <3>2. (K + 1) + 1 = K + 2
      BY <1>7
    <3>3. r = t
      BY <1>4, <3>1, <3>2
    <3> HIDE DEF r, t, K, n
    <3>4. r \o << >> = r
      BY <1>8
    <3> QED
      BY <1>8, <3>1, <3>3, <3>4
  <2>3. CASE Stop(word) # 0 /\ ~HasText(word)
    <3>1. t = next /\ K = Stop(word)
      BY <1>2, <2>3 DEF text
    <3>2. K + 1 = n
      <4>1. ~(K + 1 < n)
        BY <1>3, <2>3, <3>1
      <4> HIDE DEF K, n
      <4> QED
        BY <1>1, <1>7, <4>1
    <3>3. r = << >>
      <4> HIDE DEF K, n
      <4> QED
        BY <1>1, <3>2
    <3> HIDE DEF r, t
    <3>4. << >> \o next = next
      OBVIOUS
    <3> QED
      BY <3>1, <3>3, <3>4
  <2> QED
    BY <2>1, <2>2, <2>3
<1> HIDE DEF n, K, r, t
<1>10. PICK l \in Seq(T) :
           Spelled(found) = l \o t /\ Canonical(D, l) = l /\ Canonical(D, letters) = l
  <2>1. AreItems(found, K, o, t)
    BY <1>5, <1>6 DEF AreItems
  <2> HIDE DEF letters
  <2>2. IsSpelled(T, D, found, letters, t)
    BY <1>2, <1>9, <2>1, GroupSpelled DEF letters
  <2> QED
    BY <2>2 DEF IsSpelled
<1> DEFINE dash == << "-" >>
<1>11. p = dash \o letters /\ dash \in Seq(T) /\ letters \in Seq(T)
  <2>1. dash \in Seq(T)
    BY <1>1
  <2>2. p[1] = "-"
    BY <1>1, <1>7, <1>8
  <2> HIDE DEF p, letters
  <2>3. p = << "-" >> \o letters /\ letters \in Seq(T)
    BY <1>7, <1>8, <2>2, DashAndLetters DEF letters
  <2> QED
    BY <2>1, <2>3
<1>12. SaysBoth(T, D) /\ IsAssociative(T)
  BY BothSaid, Associated
<1>13. Canonical(D, dash) = << >>
  <2>1. Said(D, "-") = << >>
    BY <1>1, SaidFacts DEF Dashes
  <2> QED
    BY <1>1, <2>1, CanonicalOne
<1> HIDE DEF dash, letters, p
<1>14. Canonical(D, p) = l
  <2>1. Canonical(D, dash \o letters) = Canonical(D, dash) \o Canonical(D, letters)
    BY <1>11, <1>12 DEF SaysBoth
  <2>2. << >> \o l = l
    OBVIOUS
  <2> QED
    BY <1>10, <1>11, <1>13, <2>1, <2>2
<1>15. word \o next = p \o t
  <2>1. (p \o r) \o next = p \o (r \o next)
    BY <1>8, <1>12 DEF IsAssociative
  <2> QED
    BY <1>8, <1>9, <2>1
<1>16. Canonical(D, p \o t) = Canonical(D, p) \o Canonical(D, t)
  BY <1>8, <1>9, <1>12 DEF SaysBoth
<1>17. Canonical(D, l \o t) = Canonical(D, l) \o Canonical(D, t)
  BY <1>9, <1>10, <1>12 DEF SaysBoth
<1> QED
  BY <1>10, <1>14, <1>15, <1>16, <1>17 DEF found

(* A word that is an option spells what is found of it. *)
LEMMA WordSpelled ==
    ASSUME NEW T, NEW D, D = opt_descrs, AreTokens(T, D), AreOpts(D), NEW word \in Seq(T),
           IsWord(word), IsOptWord(word), word # << "--" >>, ~UnknownOpt(word),
           NEW next \in Seq(T), ~ExpectsNext(word) => next = << >>, ~DropsText(D, word)
    PROVE  Canonical(D, Spelled(OptItems(word, next))) = Canonical(D, word \o next)
<1>1. CASE IsLong(word)
  BY <1>1, LongSpelled
<1>2. CASE ~IsLong(word)
  BY <1>2, ShortSpelled
<1> QED
  BY <1>1, <1>2

(* Tokens, words and items of any command line. *)
LongNames == {d.long_name : d \in UNION OptSets}

ArgTokens == UNION {Range(w) : w \in UNION {Range(a) : a \in ArgLists \cup {PlainArgs}}}

AllTokens == ArgTokens \cup LongNames

ArgWords == {w \in Seq(AllTokens) : IsWord(w)}

FoundItems ==
    [descr : {NoDescr} \cup UNION OptSets, text : Seq(AllTokens), orig_arg_index : Nat]

(* An item spells tokens. *)
LEMMA ItemSpells == \A i \in FoundItems : Spelling(i) \in Seq(AllTokens)
<1> SUFFICES ASSUME NEW i \in FoundItems PROVE Spelling(i) \in Seq(AllTokens)
  OBVIOUS
<1>1. i.text \in Seq(AllTokens) /\ i.descr \in {NoDescr} \cup UNION OptSets
  BY DEF FoundItems
<1>2. CASE i.descr = NoDescr
  BY <1>1, <1>2 DEF Spelling, IsNonOpt
<1>3. CASE i.descr # NoDescr
  <2> DEFINE name == i.descr.long_name
  <2>1. name \in AllTokens
    <3>1. i.descr \in UNION OptSets
      BY <1>1, <1>3
    <3>2. name \in LongNames
      BY <3>1 DEF LongNames
    <3> QED
      BY <3>2 DEF AllTokens
  <2>2. Spelling(i) = << name >> \o i.text
    BY <1>3 DEF Spelling, IsNonOpt
  <2> HIDE DEF name
  <2>3. << name >> \in Seq(AllTokens)
    BY <2>1
  <2> QED
    BY <1>1, <2>2, <2>3
<1> QED
  BY <1>2, <1>3

(* Those tokens include the names of all options. *)
LEMMA TokensFacts == \A D \in OptSets : AreOpts(D) /\ AreTokens(AllTokens, D)
<1> SUFFICES ASSUME NEW D \in OptSets, NEW d \in D PROVE AreOpts(D) /\ d.long_name \in AllTokens
  <2>1. \A E \in OptSets : AreOpts(E)
    BY OptFacts
  <2> QED
    BY <2>1 DEF AreTokens
<1>1. d \in UNION OptSets
  OBVIOUS
<1>2. d.long_name \in LongNames
  BY <1>1 DEF LongNames
<1> QED
  BY <1>2, OptFacts DEF AllTokens

(* What is found of an option word is among the items. *)
LEMMA OptItemsFound ==
    ASSUME opt_descrs \in OptSets, NEW word \in ArgWords, IsOptWord(word), word # << "--" >>,
           ~UnknownOpt(word), NEW next \in Seq(AllTokens)
    PROVE  OptItems(word, next) \in Seq(FoundItems)
<1> DEFINE T == AllTokens
           D == opt_descrs
           n == Len(word)
           text == IF HasText(word) THEN TextOf(word) ELSE next
           o == Opts(word)
<1>1. word \in Seq(T) /\ IsWord(word) /\ AreOpts(D) /\ AreTokens(T, D)
  BY TokensFacts DEF ArgWords
<1>2. text \in Seq(T)
  <2>1. CASE HasText(word) /\ IsLong(word)
    <3>1. TextOf(word) = SubSeq(word, 4, n)
      BY <2>1 DEF TextOf
    <3> HIDE DEF T
    <3>2. SubSeq(word, 4, n) \in Seq(T)
      BY <1>1
    <3> QED
      BY <2>1, <3>1, <3>2
  <2>2. CASE HasText(word) /\ ~IsLong(word)
    <3> DEFINE k == Stop(word) + 2
    <3>1. TextOf(word) = SubSeq(word, k, n)
      BY <2>2 DEF TextOf
    <3> HIDE DEF T
    <3>2. k \in Nat \ {0}
      <4>1. n \in Nat /\ n >= 2
        BY <1>1, <2>2, ShortShape
      <4> HIDE DEF n
      <4>2. Stop(word) \in 0 .. n - 1
        BY <1>1, <4>1, StopFacts DEF n
      <4> QED
        BY <4>1, <4>2
    <3> HIDE DEF k
    <3>3. SubSeq(word, k, n) \in Seq(T)
      BY <1>1, <3>2
    <3> QED
      BY <2>2, <3>1, <3>3
  <2>3. CASE ~HasText(word)
    BY <2>3
  <2> QED
    BY <2>1, <2>2, <2>3
<1>3. o \in Seq(D)
  <2>1. CASE IsLong(word)
    <3> DEFINE d == CHOOSE c \in Long(word[2]) : TRUE
    <3>1. Long(word[2]) # {}
      BY <2>1 DEF UnknownOpt
    <3>2. d \in Long(word[2])
      BY <3>1
    <3>3. d \in D /\ o = << d >>
      BY <2>1, <3>2 DEF Long, Opts
    <3> QED
      BY <3>3
  <2>2. CASE ~IsLong(word)
    <3> DEFINE K == IF Stop(word) = 0 THEN n - 1 ELSE Stop(word)
    <3>1. n \in Nat /\ n >= 2 /\ n = Len(word)
      BY <1>1, <2>2, ShortShape
    <3>2. IsGroup(word, K, o)
      <4> HIDE DEF n, K, o, T
      <4>1. K = IF Stop(word) = 0 THEN n - 1 ELSE Stop(word)
        BY DEF K
      <4> QED
        BY <1>1, <2>2, <3>1, <4>1, LettersGroup DEF o
    <3>3. o = [i \in 1 .. K |-> o[i]]
      BY <2>2 DEF Opts
    <3> HIDE DEF K, o
    <3>4. K \in 1 .. Len(word) - 1 /\ \A i \in 1 .. K : o[i] \in D
      BY <3>2 DEF IsGroup
    <3>5. K \in Nat
      <4> HIDE DEF n
      <4>1. K \in 1 .. n - 1
        BY <3>4 DEF n
      <4> QED
        BY <3>1, <4>1
    <3> QED
      BY <3>3, <3>4, <3>5
  <2> QED
    BY <2>1, <2>2
<1> HIDE DEF text, o
<1>4. OptItems(word, next) =
          [i \in DOMAIN o |-> OptItem(o[i], IF o[i].has_arg THEN text ELSE << >>)]
  BY DEF OptItems, text, o
<1>5. ASSUME NEW d \in D PROVE OptItem(d, IF d.has_arg THEN text ELSE << >>) \in FoundItems
  <2>1. d \in UNION OptSets
    OBVIOUS
  <2>2. (IF d.has_arg THEN text ELSE << >>) \in Seq(AllTokens)
    BY <1>2
  <2> QED
    BY <2>1, <2>2 DEF OptItem, FoundItems
<1>6. o = [i \in 1 .. Len(o) |-> o[i]] /\ Len(o) \in Nat /\ \A i \in 1 .. Len(o) : o[i] \in D
  BY <1>3
<1> QED
  BY <1>4, <1>5, <1>6

(* More items spell more words. *)
SpelledBoth == \A a, b \in Seq(FoundItems) : Spelled(a \o b) = Spelled(a) \o Spelled(b)

LEMMA BothSpelled == SpelledBoth
<1> SUFFICES ASSUME NEW a \in Seq(FoundItems), NEW b \in Seq(FoundItems)
             PROVE  Spelled(a \o b) = Spelled(a) \o Spelled(b)
  BY DEF SpelledBoth
<1> DEFINE F(s) == [i \in DOMAIN s |-> Spelling(s[i])]
           T == AllTokens
           S == FoundItems
<1> HIDE DEF S, T
<1>a. a \in Seq(S) /\ b \in Seq(S)
  BY DEF S
<1>0. \A i \in S : Spelling(i) \in Seq(T)
  BY ItemSpells DEF S, T
<1>1. ASSUME NEW s \in Seq(S) PROVE F(s) \in Seq(Seq(T))
  <2>1. ASSUME NEW i \in DOMAIN s PROVE Spelling(s[i]) \in Seq(T)
    <3>1. s[i] \in S
      BY <2>1
    <3> QED
      BY <1>0, <3>1
  <2>2. DOMAIN s = 1 .. Len(s) /\ Len(s) \in Nat
    OBVIOUS
  <2> QED
    BY <2>1, <2>2
<1>2. F(a \o b) = F(a) \o F(b)
  <2>1. /\ a \o b \in Seq(S) /\ Len(a \o b) = Len(a) + Len(b)
        /\ \A j \in 1 .. Len(a) : (a \o b)[j] = a[j]
        /\ \A j \in 1 .. Len(b) : (a \o b)[Len(a) + j] = b[j]
    BY <1>a, Joined
  <2> QED
    BY <1>a, <2>1
<1>3. \A s : Spelled(s) = FlattenSeq(F(s))
  BY DEF Spelled
<1> HIDE DEF F
<1>4. Spelled(a \o b) = FlattenSeq(F(a) \o F(b))
  BY <1>2, <1>3
<1>5. F(a) \in Seq(Seq(T)) /\ F(b) \in Seq(Seq(T))
  BY <1>a, <1>1
<1>6. FlattenSeq(F(a) \o F(b)) = FlattenSeq(F(a)) \o FlattenSeq(F(b))
  BY <1>5, FlattenJoined
<1> QED
  BY <1>3, <1>4, <1>6

(* What items spell is a sequence of tokens. *)
LEMMA SpelledType == \A s \in Seq(FoundItems) : Spelled(s) \in Seq(AllTokens)
<1> SUFFICES ASSUME NEW s \in Seq(FoundItems) PROVE Spelled(s) \in Seq(AllTokens)
  OBVIOUS
<1> DEFINE f == [i \in DOMAIN s |-> Spelling(s[i])]
           T == AllTokens
           S == FoundItems
<1> HIDE DEF S, T
<1>1. f \in Seq(Seq(T))
  <2>0. s \in Seq(S) /\ \A i \in S : Spelling(i) \in Seq(T)
    BY ItemSpells DEF S, T
  <2>1. ASSUME NEW i \in DOMAIN s PROVE Spelling(s[i]) \in Seq(T)
    <3>1. s[i] \in S
      BY <2>0, <2>1
    <3> QED
      BY <2>0, <3>1
  <2>2. DOMAIN s = 1 .. Len(s) /\ Len(s) \in Nat
    BY <2>0
  <2> QED
    BY <2>1, <2>2
<1> HIDE DEF f
<1>2. FlattenSeq(f) \in Seq(T)
  BY <1>1, FlattenType
<1> QED
  BY <1>2 DEF Spelled, f, T

(* Items that spell words, followed by items that spell other words, spell *)
(* the former words followed by the latter.                                *)
LEMMA SpellsMore ==
    ASSUME NEW D \in OptSets, NEW found \in Seq(FoundItems), NEW more \in Seq(FoundItems),
           NEW words \in Seq(ArgWords), NEW ws \in Seq(ArgWords),
           SpellWords(D, found, words), SpellWords(D, more, ws)
    PROVE  SpellWords(D, found \o more, words \o ws)
<1> DEFINE T == AllTokens
           A == Seq(T)
           all == words \o ws
<1>0. SaysBoth(T, D) /\ SpelledBoth /\ FlattensBoth(T)
  <2>1. AreOpts(D) /\ AreTokens(T, D)
    BY TokensFacts
  <2> QED
    BY <2>1, BothSaid, BothSpelled, BothFlattened
<1>1. SUFFICES ASSUME \A i \in DOMAIN all : ~DropsText(D, all[i])
               PROVE  Canonical(D, Spelled(found \o more)) = Canonical(D, FlattenSeq(all))
  BY DEF SpellWords
<1>2. /\ all \in Seq(ArgWords) /\ Len(all) = Len(words) + Len(ws)
      /\ \A j \in 1 .. Len(words) : all[j] = words[j]
      /\ \A j \in 1 .. Len(ws) : all[Len(words) + j] = ws[j]
  BY Joined
<1>3. Canonical(D, Spelled(found)) = Canonical(D, FlattenSeq(words))
  <2>1. ASSUME NEW i \in DOMAIN words PROVE ~DropsText(D, words[i])
    <3>1. i \in 1 .. Len(words) /\ i \in DOMAIN all
      BY <1>2
    <3> QED
      BY <1>1, <1>2, <3>1
  <2> QED
    BY <2>1 DEF SpellWords
<1>4. Canonical(D, Spelled(more)) = Canonical(D, FlattenSeq(ws))
  <2>1. ASSUME NEW i \in DOMAIN ws PROVE ~DropsText(D, ws[i])
    <3>1. i \in 1 .. Len(ws) /\ Len(words) + i \in DOMAIN all
      BY <1>2
    <3> QED
      BY <1>1, <1>2, <3>1
  <2> QED
    BY <2>1 DEF SpellWords
<1>5. words \in Seq(A) /\ ws \in Seq(A)
  BY DEF ArgWords
<1> HIDE DEF T, A, all
<1>6. FlattenSeq(words) \in Seq(T) /\ FlattenSeq(ws) \in Seq(T)
  BY <1>5, FlattenType DEF A
<1>7. FlattenSeq(words \o ws) = FlattenSeq(words) \o FlattenSeq(ws)
  BY <1>0, <1>5 DEF FlattensBoth, A
<1>8. Spelled(found) \in Seq(T) /\ Spelled(more) \in Seq(T)
  BY SpelledType DEF T
<1>9. Spelled(found \o more) = Spelled(found) \o Spelled(more)
  BY <1>0 DEF SpelledBoth
<1> DEFINE u == Spelled(found)
           v == Spelled(more)
           x == FlattenSeq(words)
           y == FlattenSeq(ws)
<1> HIDE DEF u, v, x, y
<1>10. u \in Seq(T) /\ v \in Seq(T) /\ x \in Seq(T) /\ y \in Seq(T)
  BY <1>6, <1>8 DEF u, v, x, y
<1>11. /\ Canonical(D, u \o v) = Canonical(D, u) \o Canonical(D, v)
       /\ Canonical(D, x \o y) = Canonical(D, x) \o Canonical(D, y)
  BY <1>0, <1>10 DEF SaysBoth
<1>12. Canonical(D, u) = Canonical(D, x) /\ Canonical(D, v) = Canonical(D, y)
  BY <1>3, <1>4 DEF u, v, x, y
<1>13. Spelled(found \o more) = u \o v /\ FlattenSeq(words \o ws) = x \o y
  BY <1>7, <1>9 DEF u, v, x, y
<1> QED
  BY <1>11, <1>12, <1>13 DEF all

(* What each step makes of the words that it takes: of an argument that is *)
(* no option; of options that need no other word; of options of which the  *)
(* last one takes the next word.                                           *)
LEMMA NonOptSpelled ==
    ASSUME NEW D, NEW word \in ArgWords, NEW index
    PROVE  SpellWords(D, << NonOptItem(word, index) >>, << word >>)
<1> DEFINE found == << NonOptItem(word, index) >>
<1>1. Spelling(found[1]) = word
  BY DEF Spelling, IsNonOpt, NonOptItem
<1>2. DOMAIN found = 1 .. 1
  OBVIOUS
<1>3. [i \in DOMAIN found |-> Spelling(found[i])] = << word >>
  <2> HIDE DEF found
  <2> QED
    BY <1>1, <1>2
<1> QED
  BY <1>3 DEF SpellWords, Spelled

LEMMA OptSpelled ==
    ASSUME opt_descrs \in OptSets, NEW word \in ArgWords, IsOptWord(word), word # << "--" >>,
           ~UnknownOpt(word), ~ExpectsNext(word)
    PROVE  SpellWords(opt_descrs, OptItems(word, << >>), << word >>)
<1> DEFINE T == AllTokens
           D == opt_descrs
           ws == << word >>
<1>1. SUFFICES ASSUME \A i \in DOMAIN ws : ~DropsText(D, ws[i])
               PROVE  Canonical(D, Spelled(OptItems(word, << >>))) = Canonical(D, FlattenSeq(ws))
  BY DEF SpellWords
<1>2. ~DropsText(D, word)
  <2>1. 1 \in DOMAIN ws /\ ws[1] = word
    OBVIOUS
  <2> QED
    BY <1>1, <2>1
<1>3. word \in Seq(T) /\ IsWord(word) /\ AreOpts(D) /\ AreTokens(T, D) /\ << >> \in Seq(T)
  BY TokensFacts DEF ArgWords
<1> HIDE DEF T
<1>4. FlattenSeq(<< word >>) = word
  BY <1>3, FlattenOne
<1>5. word \o << >> = word
  BY <1>3
<1>6. Canonical(D, Spelled(OptItems(word, << >>))) = Canonical(D, word \o << >>)
  BY <1>2, <1>3, WordSpelled
<1> QED
  BY <1>4, <1>5, <1>6

LEMMA OptAndNextSpelled ==
    ASSUME opt_descrs \in OptSets, NEW word \in ArgWords, IsOptWord(word), word # << "--" >>,
           ~UnknownOpt(word), ExpectsNext(word), NEW next \in ArgWords
    PROVE  SpellWords(opt_descrs, OptItems(word, next), << word, next >>)
<1> DEFINE T == AllTokens
           D == opt_descrs
           ws == << word, next >>
<1>1. SUFFICES ASSUME \A i \in DOMAIN ws : ~DropsText(D, ws[i])
               PROVE  Canonical(D, Spelled(OptItems(word, next))) = Canonical(D, FlattenSeq(ws))
  BY DEF SpellWords
<1>2. ~DropsText(D, word)
  <2>1. 1 \in DOMAIN ws /\ ws[1] = word
    OBVIOUS
  <2> QED
    BY <1>1, <2>1
<1>3. word \in Seq(T) /\ next \in Seq(T) /\ IsWord(word) /\ AreOpts(D) /\ AreTokens(T, D)
  BY TokensFacts DEF ArgWords
<1> HIDE DEF T
<1>4. FlattenSeq(<< word, next >>) = word \o next
  <2> DEFINE f == << word >>
             g == << next >>
  <2>1. f \in Seq(Seq(T)) /\ g \in Seq(Seq(T))
    BY <1>3
  <2>2. << word, next >> = f \o g
    BY Two
  <2>3. FlattenSeq(f) = word /\ FlattenSeq(g) = next
    BY <1>3, FlattenOne
  <2> HIDE DEF f, g
  <2>4. FlattenSeq(f \o g) = FlattenSeq(f) \o FlattenSeq(g)
    BY <2>1, BothFlattened DEF FlattensBoth
  <2> QED
    BY <2>2, <2>3, <2>4
<1>5. Canonical(D, Spelled(OptItems(word, next))) = Canonical(D, word \o next)
  BY <1>2, <1>3, WordSpelled
<1> QED
  BY <1>4, <1>5

-----------------------------------------------------------------------------
(* The items, and the words that they are about. *)
SpellInv ==
    /\ opt_descrs \in OptSets
    /\ orig_args \in Seq(ArgWords)
    /\ orig_arg_index \in Nat \ {0} /\ orig_arg_index <= Len(orig_args) + 1
    /\ items \in Seq(FoundItems)
    /\ ItemsSpellWords

(* The arguments are words. *)
LEMMA ArgsAreWords == \A a \in ArgLists \cup {PlainArgs} : a \in Seq(ArgWords)
<1> SUFFICES ASSUME NEW a \in ArgLists \cup {PlainArgs} PROVE a \in Seq(ArgWords)
  OBVIOUS
<1>1. a \in Seq(Range(a)) /\ \A w \in Range(a) : IsWord(w)
  BY ToolAssumption
<1>2. ASSUME NEW w \in Range(a) PROVE w \in ArgWords
  <2>1. w \in Seq(Range(w)) /\ IsWord(w)
    BY <1>1, <1>2 DEF IsWord
  <2>2. Range(w) \subseteq AllTokens
    BY <1>2 DEF AllTokens, ArgTokens
  <2>3. w \in Seq(AllTokens)
    BY <2>1, <2>2
  <2> QED
    BY <2>1, <2>3 DEF ArgWords
<1>3. Range(a) \subseteq ArgWords
  BY <1>2
<1> QED
  BY <1>1, <1>3

(* Nothing spells nothing. *)
LEMMA NothingSpells == \A D : SpellWords(D, << >>, << >>)
<1>1. [i \in DOMAIN << >> |-> Spelling(<< >>[i])] = << >>
  OBVIOUS
<1> QED
  BY <1>1 DEF SpellWords, Spelled

(* An empty list of ingested words. *)
LEMMA NothingIngested ==
    ASSUME NEW words \in Seq(ArgWords), NEW D
    PROVE  SpellWords(D, << >>, SubSeq(words, 1, 1 - 1))
<1>1. SubSeq(words, 1, 1 - 1) = << >>
  OBVIOUS
<1> QED
  BY <1>1, NothingSpells

(* One word of several, and two. *)
LEMMA SliceOfOne ==
    ASSUME NEW S, NEW s \in Seq(S), NEW k \in 1 .. Len(s)
    PROVE  SubSeq(s, k, k) = << s[k] >>
<1> DEFINE r == SubSeq(s, k, k)
<1>1. r \in Seq(S) /\ Len(r) = 1 /\ r[1] = s[k]
  OBVIOUS
<1> HIDE DEF r
<1>2. r = << s[k] >>
  BY <1>1
<1> QED
  BY <1>2 DEF r

LEMMA SliceOfTwo ==
    ASSUME NEW S, NEW s \in Seq(S), NEW k \in 1 .. Len(s), k + 1 \in 1 .. Len(s)
    PROVE  SubSeq(s, k, k + 1) = << s[k], s[k + 1] >>
<1> DEFINE r == SubSeq(s, k, k + 1)
<1>1. r \in Seq(S) /\ Len(r) = 2 /\ r[1] = s[k] /\ r[2] = s[k + 1]
  OBVIOUS
<1> HIDE DEF r
<1>2. r = << s[k], s[k + 1] >>
  BY <1>1
<1> QED
  BY <1>2 DEF r

(* What it takes to keep the invariant: the items found spell the words    *)
(* that are passed over.                                                   *)
LEMMA TakeSpells ==
    ASSUME SpellInv, NEW found \in Seq(FoundItems), NEW n \in Nat, Take(found, n),
           orig_arg_index + n <= Len(orig_args) + 1,
           SpellWords(opt_descrs, found,
                      SubSeq(orig_args, orig_arg_index, orig_arg_index + n - 1))
    PROVE  SpellInv'
<1> DEFINE k == orig_arg_index
           ws == SubSeq(orig_args, k, k + n - 1)
           A == ArgWords
<1>1. /\ opt_descrs' = opt_descrs /\ orig_args' = orig_args
      /\ items' = items \o found /\ orig_arg_index' = k + n
  BY DEF Take
<1>2. /\ opt_descrs \in OptSets /\ orig_args \in Seq(ArgWords)
      /\ k \in Nat \ {0} /\ k <= Len(orig_args) + 1 /\ items \in Seq(FoundItems)
      /\ SpellWords(opt_descrs, items, Ingested)
  BY DEF SpellInv, ItemsSpellWords
<1>3. Len(orig_args) \in Nat
  BY <1>2
<1>4. k + n \in Nat \ {0} /\ k + n <= Len(orig_args) + 1
  BY <1>2
<1> HIDE DEF k
<1>5. Ingested \in Seq(ArgWords) /\ ws \in Seq(ArgWords) /\ Ingested' = Ingested \o ws
  <2> DEFINE m == k - 1
             a == orig_args
             p == SubSeq(a, 1, m + n)
             q == SubSeq(a, m + 1, m + n)
             r == SubSeq(a, 1, m)
  <2> HIDE DEF A
  <2>1. /\ m \in Nat /\ m + 1 = k /\ k + n - 1 = m + n /\ m <= m + n
        /\ m + n <= Len(a) /\ m + n \in Nat
    BY <1>2, <1>3, <1>4
  <2>2. Ingested = r /\ Ingested' = SubSeq(orig_args', 1, k + n - 1)
    <3>1. Ingested = SubSeq(orig_args, 1, k - 1)
      BY DEF Ingested, k
    <3>2. Ingested' = SubSeq(orig_args', 1, orig_arg_index' - 1)
      BY DEF Ingested
    <3>3. orig_arg_index' - 1 = k + n - 1
      BY <1>1, <1>2, <1>4
    <3>4. Ingested' = SubSeq(orig_args', 1, k + n - 1)
      BY <3>2, <3>3
    <3>5. Ingested = r
      BY <3>1
    <3> QED
      BY <3>4, <3>5
  <2>3. Ingested' = p /\ ws = q
    BY <1>1, <2>1, <2>2
  <2> HIDE DEF m
  <2>4. a \in Seq(A)
    BY <1>2 DEF A
  <2>5. r \in Seq(A) /\ q \in Seq(A) /\ p = r \o q
    <3>1. Len(a) \in Nat
      BY <1>3
    <3> HIDE DEF a
    <3> QED
      BY <2>1, <2>4, <3>1
  <2> QED
    BY <2>2, <2>3, <2>5 DEF A
<1> HIDE DEF ws, A
<1>6. SpellWords(opt_descrs, found, ws)
  BY DEF ws, k
<1>7. SpellWords(opt_descrs, items \o found, Ingested \o ws)
  BY <1>2, <1>5, <1>6, SpellsMore
<1>8. items \o found \in Seq(FoundItems)
  BY <1>2
<1>9. ItemsSpellWords'
  BY <1>1, <1>5, <1>7 DEF ItemsSpellWords
<1> QED
  BY <1>1, <1>2, <1>4, <1>8, <1>9 DEF SpellInv

(* Every step of the parser keeps it. *)
LEMMA ParseSpells == SpellInv /\ ParseArgs => SpellInv'
<1> SUFFICES ASSUME SpellInv, ParseArgs PROVE SpellInv'
  OBVIOUS
<1> DEFINE k == orig_arg_index
<1>1. /\ opt_descrs \in OptSets /\ orig_args \in Seq(ArgWords)
      /\ k \in Nat \ {0} /\ k <= Len(orig_args) + 1 /\ Len(orig_args) \in Nat
  BY DEF SpellInv
<1>2. ASSUME UNCHANGED << orig_args, opt_descrs, orig_arg_index, items >> PROVE SpellInv'
  BY <1>2 DEF SpellInv, ItemsSpellWords, Ingested
<1>3. ASSUME MoreWords
      PROVE  /\ orig_arg \in ArgWords /\ orig_arg = orig_args[k]
             /\ k \in DOMAIN orig_args /\ k + 1 <= Len(orig_args) + 1
  <2>1. k <= Len(orig_args)
    BY <1>3 DEF MoreWords
  <2>2. k \in DOMAIN orig_args /\ k + 1 <= Len(orig_args) + 1
    BY <1>1, <2>1
  <2> QED
    BY <1>1, <2>2 DEF orig_arg
<1>4. ASSUME MoreWords
      PROVE  SubSeq(orig_args, k, k + 1 - 1) = << orig_arg >>
  <2>1. k \in DOMAIN orig_args /\ orig_arg = orig_args[k] /\ k + 1 - 1 = k
    BY <1>1, <1>3, <1>4
  <2> HIDE DEF k
  <2>2. SubSeq(orig_args, k, k) = << orig_args[k] >>
    BY <1>1, <2>1, SliceOfOne
  <2> QED
    BY <2>1, <2>2
<1>5. CASE RefuseDashes \/ FailOnUnknownOpt \/ StopAtUnknownOpt \/ MissingOptArg \/ EndOfWords
  BY <1>2, <1>5 DEF RefuseDashes, FailOnUnknownOpt, StopAtUnknownOpt, MissingOptArg,
                    EndOfWords, End
<1>6. CASE TakeOptsAndNext
  <2> DEFINE next == orig_args[k + 1]
             found == OptItems(orig_arg, next)
  <2>1. /\ OptArg /\ ~UnknownOpt(orig_arg) /\ ExpectsNext(orig_arg) /\ HasNext
        /\ Take(found, 2) /\ MoreWords /\ IsOptWord(orig_arg) /\ orig_arg # << "--" >>
    BY <1>6 DEF TakeOptsAndNext, OptArg
  <2>2. k + 1 \in DOMAIN orig_args /\ k + 2 <= Len(orig_args) + 1
    <3>1. k < Len(orig_args)
      BY <2>1 DEF HasNext
    <3> QED
      BY <1>1, <3>1
  <2>3. next \in ArgWords
    BY <1>1, <2>2
  <2>4. found \in Seq(FoundItems)
    <3>1. next \in Seq(AllTokens)
      BY <2>3 DEF ArgWords
    <3> HIDE DEF next, k
    <3> QED
      BY <1>1, <1>3, <2>1, <3>1, OptItemsFound
  <2>5. SpellWords(opt_descrs, found, << orig_arg, next >>)
    <3> HIDE DEF next, k
    <3> QED
      BY <1>1, <1>3, <2>1, <2>3, OptAndNextSpelled
  <2>6. SubSeq(orig_args, k, k + 2 - 1) = << orig_arg, next >>
    <3>1. k \in DOMAIN orig_args /\ orig_arg = orig_args[k] /\ k + 2 - 1 = k + 1
      BY <1>1, <1>3, <2>1
    <3> HIDE DEF k
    <3>2. SubSeq(orig_args, k, k + 1) = << orig_args[k], orig_args[k + 1] >>
      BY <1>1, <2>2, <3>1, SliceOfTwo
    <3> QED
      BY <3>1, <3>2
  <2> HIDE DEF found, next
  <2> QED
    BY <2>1, <2>2, <2>4, <2>5, <2>6, TakeSpells
<1>7. CASE TakeOpts
  <2> DEFINE found == OptItems(orig_arg, << >>)
  <2>1. /\ OptArg /\ ~UnknownOpt(orig_arg) /\ ~ExpectsNext(orig_arg)
        /\ Take(found, 1) /\ MoreWords /\ IsOptWord(orig_arg) /\ orig_arg # << "--" >>
    BY <1>7 DEF TakeOpts, OptArg
  <2>2. found \in Seq(FoundItems)
    <3>1. << >> \in Seq(AllTokens)
      OBVIOUS
    <3> HIDE DEF k
    <3> QED
      BY <1>1, <1>3, <2>1, <3>1, OptItemsFound
  <2>3. SpellWords(opt_descrs, found, << orig_arg >>)
    BY <1>1, <1>3, <2>1, OptSpelled
  <2> HIDE DEF found
  <2> QED
    BY <1>3, <1>4, <2>1, <2>2, <2>3, TakeSpells
<1>8. CASE TakeNonOpt
  <2> DEFINE found == << NonOptItem(orig_arg, k) >>
  <2>1. Take(found, 1) /\ MoreWords
    BY <1>8 DEF TakeNonOpt
  <2>2. NonOptItem(orig_arg, k) \in FoundItems
    BY <1>1, <1>3, <2>1 DEF NonOptItem, FoundItems, ArgWords
  <2>3. found \in Seq(FoundItems)
    BY <2>2
  <2>4. SpellWords(opt_descrs, found, << orig_arg >>)
    BY <1>3, <2>1, NonOptSpelled
  <2> HIDE DEF found
  <2> QED
    BY <1>3, <1>4, <2>1, <2>3, <2>4, TakeSpells
<1> QED
  BY <1>5, <1>6, <1>7, <1>8 DEF ParseArgs

(* At first nothing was taken. *)
LEMMA InitSpells == Init => SpellInv
<1> SUFFICES ASSUME Init PROVE SpellInv
  OBVIOUS
<1>1. /\ args \in ArgLists \cup {PlainArgs} /\ orig_args = args
      /\ opt_descrs = GeneralOptDescrs /\ orig_arg_index = 1 /\ items = << >>
  BY DEF Init
<1>2. orig_args \in Seq(ArgWords)
  BY <1>1, ArgsAreWords
<1>3. ItemsSpellWords
  <2>1. Ingested = SubSeq(orig_args, 1, 1 - 1)
    BY <1>1 DEF Ingested
  <2> QED
    BY <1>1, <1>2, <2>1, NothingIngested DEF ItemsSpellWords
<1>4. Len(orig_args) \in Nat
  BY <1>2
<1>5. opt_descrs \in OptSets
  BY <1>1 DEF OptSets
<1>6. items \in Seq(FoundItems)
  BY <1>1
<1>7. orig_arg_index \in Nat \ {0} /\ orig_arg_index <= Len(orig_args) + 1
  BY <1>1, <1>4
<1> QED
  BY <1>2, <1>3, <1>5, <1>6, <1>7 DEF SpellInv

(* The words of a command are parsed from the first one again. *)
LEMMA CallSpells == GeneralInv /\ OnlyNameIsTaken' /\ CallCommand => SpellInv'
<1> SUFFICES ASSUME GeneralInv, OnlyNameIsTaken', CallCommand PROVE SpellInv'
  OBVIOUS
<1>1. /\ stage' = "command" /\ args' = args
      /\ opt_descrs' = CmdOptDescrs[CmdName]
      /\ orig_arg_index' = 1 /\ items' = << >>
  BY DEF CallCommand, CallParse
<1>2. args \in Seq(ArgWords)
  BY ArgsAreWords DEF GeneralInv
<1>3. orig_args' \in Seq(ArgWords)
  <2>1. orig_args' = args \/ (args # << >> /\ orig_args' = Tail(args))
    BY <1>1 DEF OnlyNameIsTaken
  <2>2. args # << >> => Tail(args) \in Seq(ArgWords)
    BY <1>2
  <2> QED
    BY <1>2, <2>1, <2>2
<1>4. opt_descrs' \in OptSets
  <2>1. CmdName \in {"gen", "effective", "version"}
    <3>1. CASE FirstNonOpt = 0 \/ Named(items[FirstNonOpt].text) = {}
      BY <3>1 DEF CmdName
    <3>2. CASE ~(FirstNonOpt = 0 \/ Named(items[FirstNonOpt].text) = {})
      <4>1. CmdName \in Named(items[FirstNonOpt].text)
        BY <3>2 DEF CmdName
      <4> QED
        BY <4>1 DEF Named, CmdNames
    <3> QED
      BY <3>1, <3>2
  <2>2. CmdOptDescrs[CmdName] \in OptSets
    BY <2>1 DEF OptSets, CmdOptDescrs
  <2> QED
    BY <1>1, <2>2
<1>5. ItemsSpellWords'
  <2>1. Ingested' = SubSeq(orig_args', 1, 1 - 1)
    BY <1>1 DEF Ingested
  <2>2. SpellWords(opt_descrs', << >>, SubSeq(orig_args', 1, 1 - 1))
    BY <1>3, NothingIngested
  <2> QED
    BY <1>1, <2>1, <2>2 DEF ItemsSpellWords
<1>6. orig_arg_index' \in Nat \ {0} /\ orig_arg_index' <= Len(orig_args') + 1
  <2>1. Len(orig_args') \in Nat
    BY <1>3
  <2> QED
    BY <1>1, <2>1
<1>7. items' \in Seq(FoundItems)
  BY <1>1
<1> QED
  BY <1>3, <1>4, <1>5, <1>6, <1>7 DEF SpellInv

(* Every step of the tool keeps it. *)
LEMMA NextSpells == CliInv /\ SpellInv /\ CliInv' /\ [Next]_vars => SpellInv'
<1> SUFFICES ASSUME CliInv, SpellInv, CliInv', [Next]_vars PROVE SpellInv'
  OBVIOUS
<1>1. ASSUME UNCHANGED parse_vars PROVE SpellInv'
  <2>1. UNCHANGED << orig_args, opt_descrs, orig_arg_index, items >>
    BY <1>1 DEF parse_vars
  <2> QED
    BY <2>1 DEF SpellInv, ItemsSpellWords, Ingested
<1>2. CASE CreateCmd
  <2>1. CASE ParseGeneral \/ ParseCommand
    BY <2>1, ParseSpells DEF ParseGeneral, ParseCommand
  <2>2. CASE CallCommand
    BY <2>2, CallSpells DEF CliInv
  <2>3. CASE ArgError \/ HelpOrVersion \/ CommandHelp \/ RefuseCommand \/ CreateCommand
    BY <1>1, <2>3 DEF ArgError, HelpOrVersion, CommandHelp, RefuseCommand, CreateCommand, Exit
  <2> QED
    BY <1>2, <2>1, <2>2, <2>3 DEF CreateCmd
<1>3. ASSUME NEW why, Fail(why) PROVE SpellInv'
  BY <1>1, <1>3 DEF Fail
<1>4. CASE OpenFails \/ ConfigRefused \/ GenerateFails \/ WriteFails
  BY <1>3, <1>4 DEF OpenFails, ConfigRefused, GenerateFails, WriteFails
<1>5. CASE ReadConfig \/ ShowVersion \/ ShowEffective \/ DumpConfig \/ ReadAgain
           \/ CreateCodeGenerator \/ Finish
  BY <1>1, <1>5 DEF ReadConfig, ShowVersion, ShowEffective, DumpConfig, ReadAgain,
                    CreateCodeGenerator, Finish
<1>6. CASE Parse \/ Generate \/ OpenOutput \/ WriteOutput
  BY <1>1, <1>6 DEF Parse, Generate, OpenOutput, WriteOutput, cli_vars
<1>7. CASE UNCHANGED vars
  BY <1>1, <1>7 DEF vars, cli_vars
<1> QED
  BY <1>2, <1>4, <1>5, <1>6, <1>7 DEF Next

(* Whatever the words, at either stage, what the parser has found so far   *)
(* says what the words that it has passed over say, in their order: no     *)
(* option, letter of a group or argument is lost, repeated or moved        *)
(* (parse() of argpar.py).                                                 *)
THEOREM ItemsSayTheWords == Spec => []ItemsSpellWords
<1>1. CliInv /\ SpellInv => ItemsSpellWords
  BY DEF SpellInv
<1>2. Init => CliInv /\ SpellInv
  BY InitCli, InitSpells
<1>3. CliInv /\ SpellInv /\ [Next]_vars => (CliInv /\ SpellInv)'
  BY NextCli, NextSpells
<1> QED
  BY <1>1, <1>2, <1>3, PTL DEF Spec

-----------------------------------------------------------------------------
(* Configurations: what the parser makes of a file depends on the file     *)
(* only, so that reading it again gives the same.                          *)

(* The node that a version 2 node is converted to, from its first k data   *)
(* stream types.                                                           *)
ConvNodes(m, k) == [i \in 1 .. k |-> ConvDstNode(m.dsts[i])]

NodeOf(c) ==
    IF c.meta = << >> THEN c.node
    ELSE TraceTypeNode(c.meta[1], ConvNodes(c.meta[1], Len(c.meta[1].dsts)))

EffectiveNode(c) == NormalizeTraceType(SubTraceType(NodeOf(c)))

DstsOf(c, k) == [i \in 1 .. k |-> Dst(EffectiveNode(c).dsts[i])]

(* What is refused, at each stage. *)
MetaIsFine(m, k) == \A i \in 1 .. k : ~DifferentClocks(m.dsts[i])

Converts(c) ==
    c.meta # << >> =>
        LET m == c.meta[1] IN
        /\ MetaIsFine(m, Len(m.dsts))
        /\ ~UnknownStream(m, ConvNodes(m, Len(m.dsts)))

DstsAreFine(tt, k) == \A i \in 1 .. k : ~Refused(tt.clocks, tt.dsts[i])

Accepted(c) ==
    /\ Converts(c)
    /\ AliasesAreKnown(NodeOf(c))
    /\ ~FeaturesRefused(EffectiveNode(c))
    /\ DstsAreFine(EffectiveNode(c), Len(EffectiveNode(c).dsts))
    /\ Cardinality(Defaults(EffectiveNode(c))) <= 1

(* What the file may hold. *)
IsContent(c) ==
    \/ /\ c.status = "log_levels" /\ c.meta = << >>
       /\ IsTraceTypeNode(c.node)
    \/ /\ c.status = "convert" /\ c.node = << >>
       /\ \E m : IsMetaNode(m) /\ c.meta = << m >>

(* A node that was substituted and normalized keeps its structure. *)
LEMMA EffectiveShape ==
    ASSUME NEW tt, IsTraceTypeNode(tt)
    PROVE  LET n == NormalizeTraceType(SubTraceType(tt)) IN
           /\ Len(n.dsts) \in Nat /\ Len(n.dsts) = Len(tt.dsts)
           /\ n.dsts \in [1 .. Len(n.dsts) -> Range(n.dsts)]
           /\ DOMAIN tt.dsts = 1 .. Len(n.dsts)
           /\ \A i \in 1 .. Len(n.dsts) : n.dsts[i] = NormalizeDst(SubDst(tt.aliases, tt.dsts[i]))
<1> DEFINE s == SubTraceType(tt)
           n == NormalizeTraceType(s)
<1>1. /\ tt = [uuid |-> tt.uuid, clocks |-> tt.clocks, aliases |-> tt.aliases,
               features |-> tt.features, dsts |-> tt.dsts]
      /\ tt.dsts \in Seq(Range(tt.dsts))
  BY DEF IsTraceTypeNode
<1>2. s = [uuid |-> tt.uuid, clocks |-> tt.clocks, aliases |-> << >>,
           features |-> tt.features,
           dsts |-> [i \in DOMAIN tt.dsts |-> SubDst(tt.aliases, tt.dsts[i])]]
  <2> DEFINE d == [i \in DOMAIN tt.dsts |-> SubDst(tt.aliases, tt.dsts[i])]
  <2>1. s = [tt EXCEPT !.aliases = << >>, !.dsts = d]
    BY DEF SubTraceType
  <2> HIDE DEF d
  <2>2. s = [uuid |-> tt.uuid, clocks |-> tt.clocks, aliases |-> << >>,
             features |-> tt.features, dsts |-> d]
    BY <1>1, <2>1
  <2> QED
    BY <2>2 DEF d
<1> HIDE DEF s
<1>3. n.dsts = [i \in DOMAIN s.dsts |-> NormalizeDst(s.dsts[i])]
  BY <1>2 DEF NormalizeTraceType
<1>4. s.dsts = [i \in DOMAIN tt.dsts |-> SubDst(tt.aliases, tt.dsts[i])]
  BY <1>2
<1> HIDE DEF n
<1>5. DOMAIN tt.dsts = 1 .. Len(tt.dsts) /\ Len(tt.dsts) \in Nat
  BY <1>1
<1>6. n.dsts = [i \in 1 .. Len(tt.dsts) |-> NormalizeDst(SubDst(tt.aliases, tt.dsts[i]))]
  BY <1>3, <1>4, <1>5
<1>7. Len(n.dsts) = Len(tt.dsts)
  BY <1>5, <1>6
<1>8. n.dsts \in [1 .. Len(n.dsts) -> Range(n.dsts)]
  BY <1>6, <1>7 DEF Range
<1> QED
  BY <1>5, <1>6, <1>7, <1>8 DEF n, s

(* The trace type node of either version is one. *)
LEMMA NodeShape ==
    ASSUME NEW c, IsContent(c)
    PROVE  IsTraceTypeNode(NodeOf(c))
<1>1. CASE c.meta = << >>
  <2>1. IsTraceTypeNode(c.node)
    <3>1. ASSUME NEW m PROVE c.meta # << m >>
      BY <1>1, SingleFacts
    <3> QED
      BY <3>1 DEF IsContent
  <2> QED
    BY <1>1, <2>1 DEF NodeOf
<1>2. CASE c.meta # << >>
  <2>1. PICK m : IsMetaNode(m) /\ c.meta = << m >>
    BY <1>2 DEF IsContent
  <2> DEFINE k == Len(m.dsts)
             nodes == ConvNodes(m, k)
             t == TraceTypeNode(m, nodes)
             dst(i) == [nodes[i] EXCEPT !.is_default = @ \/ nodes[i].name = m.default_stream]
  <2>2. NodeOf(c) = t
    BY <1>2, <2>1 DEF NodeOf
  <2>3. k \in Nat /\ DOMAIN nodes = 1 .. k
    BY <2>1 DEF IsMetaNode, ConvNodes
  <2>4. ASSUME NEW i \in 1 .. k PROVE IsDstNode(dst(i)) /\ dst(i).name = m.dsts[i].name
    <3> DEFINE d == m.dsts[i]
               b == nodes[i].is_default \/ nodes[i].name = m.default_stream
    <3>1. nodes[i] = ConvDstNode(d)
      BY DEF ConvNodes
    <3>2. dst(i) = [nodes[i] EXCEPT !.is_default = b]
      OBVIOUS
    <3>3. IsDst2(d)
      BY <2>1 DEF IsMetaNode
    <3> HIDE DEF b, d, nodes
    <3>4. IsDstNode([ConvDstNode(d) EXCEPT !.is_default = b])
      BY <3>3, ConvDstShape
    <3>5. [ConvDstNode(d) EXCEPT !.is_default = b].name = d.name
      BY DEF ConvDstNode
    <3> HIDE DEF dst
    <3> QED
      BY <3>1, <3>2, <3>4, <3>5 DEF d
  <2> DEFINE features == [magic |-> Feature(m.pkt_header, "magic"),
                          uuid |-> Feature(m.pkt_header, "uuid"),
                          dst_id |-> Feature(m.pkt_header, "stream_id")]
  <2>5. t = [uuid |-> m.uuid, clocks |-> m.clocks, aliases |-> m.aliases,
             features |-> features, dsts |-> [i \in DOMAIN nodes |-> dst(i)]]
    BY DEF TraceTypeNode
  <2> HIDE DEF nodes, t, dst, features
  <2>6. t.dsts = [i \in 1 .. k |-> dst(i)]
    BY <2>3, <2>5
  <2>7. t.dsts \in Seq(Range(t.dsts))
    <3>1. DOMAIN t.dsts = 1 .. k /\ \A i \in 1 .. k : t.dsts[i] \in Range(t.dsts)
      BY <2>6 DEF Range
    <3>2. t.dsts = [i \in 1 .. k |-> t.dsts[i]]
      BY <2>6
    <3> QED
      BY <2>3, <3>1, <3>2
  <2>8. t = [uuid |-> t.uuid, clocks |-> t.clocks, aliases |-> t.aliases,
             features |-> t.features, dsts |-> t.dsts]
    BY <2>5
  <2>9. \A i \in DOMAIN t.dsts : IsDstNode(t.dsts[i]) /\ t.dsts[i].name = m.dsts[i].name
    BY <2>4, <2>6
  <2>10. AreDstNames(t.dsts)
    <3>1. AreDstNames(m.dsts) /\ DOMAIN m.dsts = DOMAIN t.dsts
      BY <2>1, <2>3, <2>6 DEF IsMetaNode
    <3> QED
      BY <2>9, <3>1 DEF AreDstNames
  <2>11. t.features \in [TraceFeatureNames -> FeatureValues]
    <3>1. /\ Feature(m.pkt_header, "magic") \in Nat
          /\ Feature(m.pkt_header, "uuid") \in Nat
          /\ Feature(m.pkt_header, "stream_id") \in Nat
      BY <2>1, HeaderFeatures
    <3>2. t.features = features
      BY <2>5
    <3> QED
      BY <3>1, <3>2 DEF features, TraceFeatureNames, FeatureValues
  <2> QED
    BY <2>2, <2>7, <2>8, <2>9, <2>10, <2>11 DEF IsTraceTypeNode
<1> QED
  BY <1>1, <1>2

Statuses ==
    {"convert", "log_levels", "normalize", "features", "dsts", "options", "done", "refused"}

(* What was found fine so far. *)
Checked ==
    LET c == content
        tt == EffectiveNode(c)
    IN  /\ status \notin {"convert", "refused"} => Converts(c)
        /\ status \notin {"convert", "log_levels", "refused"} => AliasesAreKnown(NodeOf(c))
        /\ status \in {"dsts", "options", "done"} => ~FeaturesRefused(tt)
        /\ status \in {"options", "done"} => DstsAreFine(tt, Len(tt.dsts))
        /\ status = "done" => Cardinality(Defaults(tt)) <= 1
        /\ status = "refused" => ~Accepted(c)

(* What was made of it so far. *)
Converting ==
    status = "convert" =>
        /\ content.meta # << >>
        /\ \E k \in 0 .. Len(content.meta[1].dsts) :
            dst_nodes = ConvNodes(content.meta[1], k) /\ MetaIsFine(content.meta[1], k)

Creating ==
    LET tt == EffectiveNode(content) IN
    /\ status \in {"convert", "log_levels", "normalize", "features"} => dsts = << >>
    /\ status = "dsts" =>
        \E k \in 0 .. Len(tt.dsts) : dsts = DstsOf(content, k) /\ DstsAreFine(tt, k)
    /\ status \in {"options", "done"} => dsts = DstsOf(content, Len(tt.dsts))

Made ==
    LET c == content IN
    /\ status # "refused" => meta = c.meta
    /\ status = "log_levels" => node = NodeOf(c)
    /\ status = "normalize" => node = SubTraceType(NodeOf(c))
    /\ status \in {"features", "dsts", "options", "done"} => node = EffectiveNode(c)

ConfigInv ==
    IsContent(content) /\ status \in Statuses /\ Checked /\ Converting /\ Made /\ Creating

(* One more element. *)
LEMMA AppendNext ==
    ASSUME NEW k \in Nat, NEW f, NEW s, NEW x,
           s = [i \in 1 .. k |-> f[i]], x = f[k + 1]
    PROVE  Append(s, x) = [i \in 1 .. (k + 1) |-> f[i]] /\ Len(s) = k
<1>1. s \in Seq({f[i] : i \in 1 .. k}) /\ Len(s) = k
  OBVIOUS
<1>2. Append(s, x) = [i \in 1 .. (k + 1) |-> IF i = k + 1 THEN x ELSE s[i]]
  BY <1>1
<1> QED
  BY <1>1, <1>2

(* The list of the first k + 1 nodes converted from version 2 is that of   *)
(* the first k and one more.                                               *)
LEMMA NextConvNode ==
    ASSUME NEW m, NEW k \in Nat
    PROVE  Append(ConvNodes(m, k), ConvDstNode(m.dsts[k + 1])) = ConvNodes(m, k + 1)
<1> DEFINE f == [i \in 1 .. (k + 1) |-> ConvDstNode(m.dsts[i])]
           x == ConvDstNode(m.dsts[k + 1])
<1>1. ConvNodes(m, k) = [i \in 1 .. k |-> f[i]]
  BY DEF ConvNodes
<1>2. ConvNodes(m, k + 1) = [i \in 1 .. (k + 1) |-> f[i]] /\ x = f[k + 1]
  BY DEF ConvNodes
<1> HIDE DEF f, x
<1>3. Append(ConvNodes(m, k), x) = [i \in 1 .. (k + 1) |-> f[i]]
  BY <1>1, <1>2, AppendNext
<1> QED
  BY <1>2, <1>3 DEF x

(* The list of the first k + 1 data stream types is that of the first k    *)
(* and one more.                                                           *)
LEMMA NextDstOf ==
    ASSUME NEW c, NEW k \in Nat
    PROVE  Append(DstsOf(c, k), Dst(EffectiveNode(c).dsts[k + 1])) = DstsOf(c, k + 1)
<1> DEFINE f == [i \in 1 .. (k + 1) |-> Dst(EffectiveNode(c).dsts[i])]
           x == Dst(EffectiveNode(c).dsts[k + 1])
<1>1. DstsOf(c, k) = [i \in 1 .. k |-> f[i]]
  BY DEF DstsOf
<1>2. DstsOf(c, k + 1) = [i \in 1 .. (k + 1) |-> f[i]] /\ x = f[k + 1]
  BY DEF DstsOf
<1> HIDE DEF f, x
<1>3. Append(DstsOf(c, k), x) = [i \in 1 .. (k + 1) |-> f[i]]
  BY <1>1, <1>2, AppendNext
<1> QED
  BY <1>2, <1>3 DEF x

(* How long these lists are.                                               *)
LEMMA ListLengths ==
    ASSUME NEW k \in Nat
    PROVE  /\ \A m : Len(ConvNodes(m, k)) = k /\ DOMAIN ConvNodes(m, k) = 1 .. k
           /\ \A c : Len(DstsOf(c, k)) = k
BY DEF ConvNodes, DstsOf

(* Conversion of version 2. *)
LEMMA ConversionStep ==
    ASSUME ConfigInv, content' = content,
           RefuseClocks \/ ConvDst \/ RefuseStream \/ ConvMeta
    PROVE  ConfigInv'
<1>1. status = "convert"
  BY DEF RefuseClocks, ConvDst, RefuseStream, ConvMeta, MoreDsts, Converted
<1>2. PICK m : IsMetaNode(m) /\ content.meta = << m >>
  BY <1>1 DEF ConfigInv, IsContent, Converting
<1>3. meta = content.meta /\ meta[1] = m /\ content.meta[1] = m /\ content.meta # << >>
  BY <1>1, <1>2, SingleFacts DEF ConfigInv, Made
<1>4. Len(m.dsts) \in Nat
  BY <1>2 DEF IsMetaNode
<1>5. PICK k \in 0 .. Len(m.dsts) : dst_nodes = ConvNodes(m, k) /\ MetaIsFine(m, k)
  BY <1>1, <1>3 DEF ConfigInv, Converting
<1>6. k \in Nat /\ Len(dst_nodes) = k /\ dsts = << >>
  BY <1>1, <1>4, <1>5, ListLengths DEF ConfigInv, Creating
<1>7. NextDst2 = m.dsts[k + 1]
  BY <1>3, <1>6 DEF NextDst2
<1>8. ASSUME Refuse, ~Accepted(content) PROVE ConfigInv'
  BY <1>8 DEF ConfigInv, Refuse, Statuses, Checked, Converting, Made, Creating
<1>9. CASE RefuseClocks
  <2>1. Refuse /\ DifferentClocks(m.dsts[k + 1]) /\ k < Len(m.dsts)
    BY <1>3, <1>6, <1>7, <1>9 DEF RefuseClocks, MoreDsts
  <2>2. ~MetaIsFine(m, Len(m.dsts))
    BY <1>4, <1>6, <2>1 DEF MetaIsFine
  <2>3. ~Accepted(content)
    BY <1>3, <2>2 DEF Accepted, Converts
  <2> QED
    BY <1>8, <2>1, <2>3
<1>10. CASE ConvDst
  <2>1. /\ dst_nodes' = Append(dst_nodes, ConvDstNode(m.dsts[k + 1])) /\ k < Len(m.dsts)
        /\ ~DifferentClocks(m.dsts[k + 1]) /\ UNCHANGED << node, status, dsts, trace, meta >>
    BY <1>3, <1>6, <1>7, <1>10 DEF ConvDst, MoreDsts, vars3
  <2>2. dst_nodes' = ConvNodes(m, k + 1)
    BY <1>5, <1>6, <2>1, NextConvNode
  <2>3. k + 1 \in 0 .. Len(m.dsts) /\ MetaIsFine(m, k + 1)
    BY <1>4, <1>5, <1>6, <2>1 DEF MetaIsFine
  <2>4. Converting'
    BY <1>3, <2>2, <2>3 DEF Converting
  <2> QED
    BY <2>1, <2>4 DEF ConfigInv, Checked, Made, Creating
<1>11. ASSUME Converted
       PROVE  /\ dst_nodes = ConvNodes(m, Len(m.dsts)) /\ MetaIsFine(m, Len(m.dsts))
  BY <1>3, <1>5, <1>6, <1>11 DEF Converted
<1>12. CASE RefuseStream
  <2>1. Refuse /\ Converted /\ UnknownStream(m, dst_nodes)
    BY <1>3, <1>12 DEF RefuseStream
  <2>2. ~Accepted(content)
    BY <1>3, <1>11, <2>1 DEF Accepted, Converts
  <2> QED
    BY <1>8, <2>1, <2>2
<1>13. CASE ConvMeta
  <2>1. /\ Converted /\ ~UnknownStream(m, dst_nodes) /\ node' = TraceTypeNode(m, dst_nodes)
        /\ status' = "log_levels" /\ UNCHANGED << dsts, trace, meta, dst_nodes >>
    BY <1>3, <1>13 DEF ConvMeta
  <2>2. node' = NodeOf(content) /\ Converts(content)
    BY <1>3, <1>11, <2>1 DEF NodeOf, Converts
  <2> QED
    BY <1>1, <1>3, <1>6, <2>1, <2>2 DEF ConfigInv, Statuses, Checked, Converting, Made, Creating
<1> QED
  BY <1>9, <1>10, <1>12, <1>13

(* Parsing of version 3. *)
LEMMA Parse3Step ==
    ASSUME ConfigInv, content' = content, UNCHANGED << meta, dst_nodes >>, Parse3
    PROVE  ConfigInv'
<1> DEFINE c == content
           tt == EffectiveNode(c)
<1>1. Len(tt.dsts) \in Nat /\ Cardinality(Defaults(tt)) \in Nat
  <2>1. IsTraceTypeNode(NodeOf(c))
    BY NodeShape DEF ConfigInv
  <2>2. Len(tt.dsts) \in Nat /\ tt.dsts \in [1 .. Len(tt.dsts) -> Range(tt.dsts)]
    BY <2>1, EffectiveShape DEF EffectiveNode
  <2> HIDE DEF tt
  <2>3. tt.dsts \in Surjection(1 .. Len(tt.dsts), Range(tt.dsts))
    BY <2>2 DEF Surjection, Range
  <2>4. IsFiniteSet(Range(tt.dsts))
    BY <2>2, <2>3, FS_Interval, FS_Surjection
  <2>5. Defaults(tt) \in SUBSET Range(tt.dsts)
    BY DEF Defaults
  <2> QED
    BY <2>2, <2>4, <2>5, FS_Subset, FS_CardinalityType
<1>2. ASSUME Refuse, ~Accepted(content) PROVE ConfigInv'
  BY <1>2 DEF ConfigInv, Refuse, Statuses, Checked, Converting, Made, Creating
<1> HIDE DEF tt, c
<1>3. /\ status = "log_levels" => node = NodeOf(c)
      /\ status = "normalize" => node = SubTraceType(NodeOf(c))
      /\ status \in {"features", "dsts", "options", "done"} => node = tt
  BY DEF ConfigInv, Made, tt, c
<1>4. CASE RefuseLogLevel
  <2>1. Refuse /\ ~AliasesAreKnown(NodeOf(c))
    BY <1>3, <1>4 DEF RefuseLogLevel
  <2> QED
    BY <1>2, <2>1 DEF Accepted, c
<1>5. CASE SubLogLevelAliases
  <2>1. /\ status = "log_levels" /\ status' = "normalize" /\ UNCHANGED << dsts, trace >>
        /\ node' = SubTraceType(NodeOf(c)) /\ AliasesAreKnown(NodeOf(c))
    BY <1>3, <1>5 DEF SubLogLevelAliases
  <2> QED
    BY <2>1 DEF ConfigInv, Statuses, Checked, Converting, Made, Creating, c
<1>6. CASE NormalizeProps
  <2>1. /\ status = "normalize" /\ status' = "features" /\ UNCHANGED << dsts, trace >>
        /\ node' = tt
    BY <1>3, <1>6 DEF NormalizeProps, EffectiveNode, tt
  <2> QED
    BY <2>1 DEF ConfigInv, Statuses, Checked, Converting, Made, Creating, tt, c
<1>7. CASE RefuseFeatures
  <2>1. Refuse /\ FeaturesRefused(tt)
    BY <1>3, <1>7 DEF RefuseFeatures
  <2> QED
    BY <1>2, <2>1 DEF Accepted, tt, c
<1>8. CASE CreateFeatures
  <2>1. /\ status = "features" /\ status' = "dsts" /\ UNCHANGED << node, dsts, trace >>
        /\ ~FeaturesRefused(tt) /\ dsts = << >>
    BY <1>3, <1>8 DEF CreateFeatures, ConfigInv, Creating
  <2>2. dsts = DstsOf(c, 0) /\ DstsAreFine(tt, 0) /\ 0 \in 0 .. Len(tt.dsts)
    BY <1>1, <2>1 DEF DstsOf, DstsAreFine
  <2>3. Creating'
    BY <2>1, <2>2 DEF Creating, tt, c
  <2> QED
    BY <2>1, <2>3 DEF ConfigInv, Statuses, Checked, Converting, Made, tt, c
<1>9. ASSUME status = "dsts"
      PROVE  \E k \in 0 .. Len(tt.dsts) :
                 /\ k \in Nat /\ dsts = DstsOf(c, k) /\ DstsAreFine(tt, k) /\ Len(dsts) = k
  <2>1. PICK k \in 0 .. Len(tt.dsts) : dsts = DstsOf(c, k) /\ DstsAreFine(tt, k)
    BY <1>9 DEF ConfigInv, Creating, tt, c
  <2>2. k \in Nat
    BY <1>1
  <2> QED
    BY <2>1, <2>2, ListLengths
<1>10. CASE RefuseDst
  <2>1. status = "dsts" /\ Refuse /\ node = tt
    BY <1>3, <1>10 DEF RefuseDst
  <2>2. PICK k \in 0 .. Len(tt.dsts) :
                 /\ k \in Nat /\ dsts = DstsOf(c, k) /\ DstsAreFine(tt, k) /\ Len(dsts) = k
    BY <1>9, <2>1
  <2>3. k < Len(tt.dsts) /\ Refused(tt.clocks, tt.dsts[k + 1])
    BY <1>10, <2>1, <2>2 DEF RefuseDst, NextDst
  <2>4. ~DstsAreFine(tt, Len(tt.dsts))
    BY <1>1, <2>2, <2>3 DEF DstsAreFine
  <2> QED
    BY <1>2, <2>1, <2>4 DEF Accepted, tt, c
<1>11. CASE CreateDst
  <2>1. status = "dsts" /\ node = tt /\ UNCHANGED << node, status, trace >>
    BY <1>3, <1>11 DEF CreateDst
  <2>2. PICK k \in 0 .. Len(tt.dsts) :
                 /\ k \in Nat /\ dsts = DstsOf(c, k) /\ DstsAreFine(tt, k) /\ Len(dsts) = k
    BY <1>9, <2>1
  <2>3. /\ k < Len(tt.dsts) /\ ~Refused(tt.clocks, tt.dsts[k + 1])
        /\ dsts' = Append(dsts, Dst(tt.dsts[k + 1]))
    BY <1>11, <2>1, <2>2 DEF CreateDst, NextDst
  <2>4. dsts' = DstsOf(c, k + 1)
    BY <2>2, <2>3, NextDstOf DEF tt
  <2>5. k + 1 \in 0 .. Len(tt.dsts) /\ DstsAreFine(tt, k + 1)
    BY <1>1, <2>2, <2>3 DEF DstsAreFine
  <2>6. Creating'
    BY <2>1, <2>4, <2>5 DEF Creating, tt, c
  <2> QED
    BY <2>1, <2>6 DEF ConfigInv, Statuses, Checked, Converting, Made, tt, c
<1>12. CASE CreateTraceType
  <2>1. status = "dsts" /\ node = tt /\ status' = "options" /\ UNCHANGED << node, dsts >>
    BY <1>3, <1>12 DEF CreateTraceType
  <2>2. PICK k \in 0 .. Len(tt.dsts) :
                 /\ k \in Nat /\ dsts = DstsOf(c, k) /\ DstsAreFine(tt, k) /\ Len(dsts) = k
    BY <1>9, <2>1
  <2>3. k = Len(tt.dsts)
    BY <1>12, <2>1, <2>2 DEF CreateTraceType
  <2>4. dsts = DstsOf(c, Len(tt.dsts)) /\ DstsAreFine(tt, Len(tt.dsts))
    BY <2>2, <2>3
  <2> QED
    BY <2>1, <2>4 DEF ConfigInv, Statuses, Checked, Converting, Made, Creating, tt, c
<1>13. CASE RefuseDefaults
  <2>1. Refuse /\ Cardinality(Defaults(tt)) > 1
    BY <1>3, <1>13 DEF RefuseDefaults
  <2>2. ~ (Cardinality(Defaults(tt)) <= 1)
    BY <1>1, <2>1
  <2>3. ~Accepted(c)
    BY <2>2 DEF Accepted, tt
  <2> QED
    BY <1>2, <2>1, <2>3 DEF c
<1>14. CASE CreateConfig
  <2>1. /\ status = "options" /\ status' = "done" /\ UNCHANGED << node, dsts >>
        /\ Cardinality(Defaults(tt)) <= 1
    BY <1>3, <1>14 DEF CreateConfig
  <2> QED
    BY <2>1 DEF ConfigInv, Statuses, Checked, Converting, Made, Creating, tt, c
<1> QED
  BY <1>4, <1>5, <1>6, <1>7, <1>8, <1>10, <1>11, <1>12, <1>13, <1>14 DEF Parse3

(* A configuration that was just read from a file has the invariant.       *)
LEMMA FreshConfig ==
    ASSUME IsContent(content), node = content.node, meta = content.meta,
           status = content.status, dsts = << >>, dst_nodes = << >>
    PROVE  ConfigInv
<1>1. CASE content.status = "log_levels" /\ content.meta = << >>
  <2>1. content.node = NodeOf(content) /\ Converts(content)
    BY <1>1 DEF NodeOf, Converts
  <2> QED
    BY <1>1, <2>1 DEF ConfigInv, Statuses, Checked, Converting, Made, Creating
<1>2. CASE content.status = "convert" /\ \E m : IsMetaNode(m) /\ content.meta = << m >>
  <2>1. PICK m : IsMetaNode(m) /\ content.meta = << m >>
    BY <1>2
  <2>2. content.meta # << >> /\ content.meta[1] = m
    BY <2>1, SingleFacts
  <2>3. 0 \in 0 .. Len(m.dsts)
    BY <2>1 DEF IsMetaNode
  <2>4. dst_nodes = ConvNodes(m, 0) /\ MetaIsFine(m, 0)
    BY DEF ConvNodes, MetaIsFine
  <2>5. Converting
    BY <2>2, <2>3, <2>4 DEF Converting
  <2> QED
    BY <1>2, <2>5 DEF ConfigInv, Statuses, Checked, Made, Creating
<1> QED
  BY <1>1, <1>2 DEF IsContent

(* The file is read from its start, each time. *)
ReadInv ==
    /\ stage \in CliStages \cup {"open", "dumped"} => position = "start"
    /\ dumped # << >> => Accepted(content) /\ dumped = << EffectiveNode(content) >>
    /\ cause = "configuration" => status = "refused"
    /\ prefixes # << >> => status = "done"

ToolInv == OutputInv /\ ConfigInv /\ ReadInv

(* The step that loads the configuration gives it the invariant.           *)
LEMMA LoadStep ==
    ASSUME ConfigInv, position = "start", content' = content, Load
    PROVE  ConfigInv'
<1>1. /\ node' = content'.node /\ meta' = content'.meta /\ status' = content'.status
      /\ dsts' = << >> /\ dst_nodes' = << >>
  BY DEF Load
<1>2. IsContent(content')
  BY DEF ConfigInv
<1>3. CASE content'.status = "log_levels" /\ content'.meta = << >>
  <2>1. content'.node = NodeOf(content') /\ Converts(content')
    BY <1>3 DEF NodeOf, Converts
  <2> QED
    BY <1>1, <1>2, <1>3, <2>1 DEF ConfigInv, Statuses, Checked, Converting, Made, Creating
<1>4. CASE content'.status = "convert" /\ \E m : IsMetaNode(m) /\ content'.meta = << m >>
  <2>1. PICK m : IsMetaNode(m) /\ content'.meta = << m >>
    BY <1>4
  <2>2. content'.meta # << >> /\ content'.meta[1] = m
    BY <2>1, SingleFacts
  <2>3. 0 \in 0 .. Len(m.dsts)
    BY <2>1 DEF IsMetaNode
  <2>4. dst_nodes' = ConvNodes(m, 0) /\ MetaIsFine(m, 0)
    BY <1>1 DEF ConvNodes, MetaIsFine
  <2>5. Converting'
    BY <2>2, <2>3, <2>4 DEF Converting
  <2> QED
    BY <1>1, <1>2, <1>4, <2>5 DEF ConfigInv, Statuses, Checked, Made, Creating
<1> QED
  BY <1>2, <1>3, <1>4 DEF IsContent

(* The configuration that the tool is first run on has the invariant.      *)
LEMMA InitTool == Init => ToolInv
<1> SUFFICES ASSUME Init PROVE ToolInv
  OBVIOUS
<1>1. OutputInv
  BY InitOutput
<1>2. /\ content = [node |-> node, meta |-> meta, status |-> status]
      /\ position = "start" /\ dumped = << >> /\ cause = "none" /\ prefixes = << >>
  BY DEF Init
<1>3. ReadInv
  BY <1>2 DEF ReadInv
<1>4. dsts = << >> /\ dst_nodes = << >>
  BY DEF Init, ConfigInit
<1>5. IsContent(content)
  <2>1. CASE node \in Nodes3 \cup FewNodes3 /\ meta = << >> /\ status = "log_levels"
    <3>1. IsTraceTypeNode(node)
      BY <2>1, ConversionAssumption, ToolAssumption
    <3> QED
      BY <1>2, <2>1, <3>1 DEF IsContent
  <2>2. CASE /\ node = << >> /\ status = "convert"
             /\ meta \in {<< m >> : m \in Nodes2 \cup FewNodes2}
    <3>1. PICK m \in Nodes2 \cup FewNodes2 : meta = << m >>
      BY <2>2
    <3>2. IsMetaNode(m)
      BY ConversionAssumption, ToolAssumption
    <3> QED
      BY <1>2, <2>2, <3>1, <3>2 DEF IsContent
  <2> QED
    BY <2>1, <2>2 DEF Init, ConfigInit
<1>6. ConfigInv
  BY <1>2, <1>4, <1>5, FreshConfig
<1> QED
  BY <1>1, <1>3, <1>6 DEF ToolInv

(* Every step keeps the invariants of the files, of the configuration and  *)
(* of what was dumped.                                                     *)
LEMMA NextTool == ToolInv /\ [Next]_vars => ToolInv'
<1> SUFFICES ASSUME ToolInv, [Next]_vars PROVE ToolInv'
  OBVIOUS
<1>0. OutputInv /\ ConfigInv /\ ReadInv /\ OutputInv'
  BY NextOutput DEF ToolInv
<1>1. ASSUME UNCHANGED << config_vars, content >> PROVE ConfigInv'
  <2>1. UNCHANGED << node, status, dsts, trace, meta, dst_nodes, content >>
    BY <1>1 DEF config_vars, vars3
  <2> QED
    BY <1>0, <2>1 DEF ConfigInv, Checked, Converting, Made, Creating
<1>2. ASSUME stage \notin {"generate"} \cup Exits
      PROVE  prefixes = << >>
  BY <1>0, <1>2 DEF OutputInv, OutputFlow
<1>3. CASE CreateCmd /\ UNCHANGED << config_vars, exec_vars >>
  <2>1. stage \in CliStages /\ stage' \in CliStages \cup {"open"} \cup Exits
    BY <1>3, CreateCmdStages
  <2>2. UNCHANGED << content, position, dumped, prefixes, cause, config_vars, status >>
    BY <1>3 DEF exec_vars, config_vars, vars3
  <2>3. ReadInv'
    BY <1>0, <2>1, <2>2 DEF ReadInv
  <2> QED
    BY <1>0, <1>1, <2>2, <2>3 DEF ToolInv
<1>4. ASSUME NEW why \in {"disk", "configuration", "generator"}, Fail(why),
             why = "configuration" => status = "refused"
      PROVE  ToolInv'
  <2>1. /\ UNCHANGED << content, position, dumped, prefixes, config_vars, status >>
        /\ stage' = "exit_1" /\ cause' = why
    BY <1>4 DEF Fail, config_vars, vars3
  <2>2. ReadInv'
    BY <1>0, <1>4, <2>1 DEF ReadInv, CliStages
  <2> QED
    BY <1>0, <1>1, <2>1, <2>2 DEF ToolInv
<1>5. CASE OpenFails \/ ConfigRefused \/ GenerateFails \/ WriteFails
  BY <1>4, <1>5 DEF OpenFails, ConfigRefused, GenerateFails, WriteFails
<1>6. CASE ReadConfig \/ ReadAgain
  <2>1. /\ stage \in {"open", "dumped"} /\ Load /\ UNCHANGED << content, dumped, prefixes, cause >>
        /\ stage' \in {"effective", "configuration"}
    BY <1>6 DEF ReadConfig, ReadAgain
  <2>2. position = "start" /\ cause = "none" /\ prefixes = << >>
    BY <1>0, <1>2, <2>1 DEF ReadInv, OutputInv, OutputFlow, Exits
  <2>3. ConfigInv'
    BY <1>0, <2>1, <2>2, LoadStep
  <2>4. ReadInv'
    BY <1>0, <2>1, <2>2 DEF ReadInv, CliStages
  <2> QED
    BY <1>0, <2>3, <2>4 DEF ToolInv
<1>7. CASE ShowVersion
  <2>1. /\ stage' = "exit_0"
        /\ UNCHANGED << content, dumped, prefixes, cause, config_vars, status >>
    BY <1>7 DEF ShowVersion, config_vars, vars3
  <2>2. ReadInv'
    BY <1>0, <2>1 DEF ReadInv, CliStages
  <2> QED
    BY <1>0, <1>1, <2>1, <2>2 DEF ToolInv
<1>8. CASE Parse
  <2>1. /\ stage \in {"effective", "configuration"} /\ ParseConfig
        /\ UNCHANGED << stage, content, position, dumped, prefixes, cause >>
    BY <1>8 DEF Parse, cli_vars, exec_vars
  <2>2. ConfigInv'
    BY <1>0, <2>1, ConversionStep, Parse3Step DEF ParseConfig
  <2>3. prefixes = << >> /\ cause = "none"
    BY <1>0, <1>2, <2>1 DEF OutputInv, OutputFlow, Exits
  <2>4. ReadInv'
    BY <1>0, <2>1, <2>3 DEF ReadInv
  <2> QED
    BY <1>0, <2>2, <2>4 DEF ToolInv
<1>9. CASE ShowEffective \/ DumpConfig
  <2>1. /\ stage = "effective" /\ status = "done" /\ dumped' = << node >>
        /\ stage' \in {"exit_0", "dumped"}
        /\ stage' = "dumped" => position' = "start"
        /\ UNCHANGED << content, prefixes, cause, config_vars, status >>
    BY <1>9 DEF ShowEffective, DumpConfig, Rewind, config_vars, vars3
  <2>2. node = EffectiveNode(content) /\ Accepted(content)
    BY <1>0, <2>1 DEF ConfigInv, Made, Checked, Accepted
  <2>3. ReadInv'
    BY <1>0, <2>1, <2>2 DEF ReadInv, CliStages
  <2> QED
    BY <1>0, <1>1, <2>1, <2>3 DEF ToolInv
<1>10. CASE CreateCodeGenerator
  <2>1. /\ status = "done" /\ stage' = "generate"
        /\ UNCHANGED << content, dumped, cause, config_vars, status >>
    BY <1>10 DEF CreateCodeGenerator, config_vars, vars3
  <2>2. ReadInv'
    BY <1>0, <2>1 DEF ReadInv, CliStages
  <2> QED
    BY <1>0, <1>1, <2>1, <2>2 DEF ToolInv
<1>11. ASSUME stage = "generate", stage' \in {"generate", "exit_0"},
              UNCHANGED << config_vars, content, dumped, prefixes, cause >>
       PROVE  ToolInv'
  <2>1. status' = status
    BY <1>11 DEF config_vars, vars3
  <2>2. ReadInv'
    BY <1>0, <1>11, <2>1 DEF ReadInv, CliStages
  <2> QED
    BY <1>0, <1>1, <1>11, <2>2 DEF ToolInv
<1>12. CASE Generate \/ OpenOutput \/ WriteOutput \/ Finish
  BY <1>11, <1>12 DEF Generate, MustGenerate, OpenOutput, WriteOutput, Finish, cli_vars, exec_vars
<1>13. CASE UNCHANGED vars
  <2>1. UNCHANGED << stage, content, position, dumped, prefixes, cause, config_vars, status >>
    BY <1>13 DEF vars, cli_vars, exec_vars, config_vars, vars3
  <2>2. ReadInv'
    BY <1>0, <2>1 DEF ReadInv
  <2> QED
    BY <1>0, <1>1, <2>1, <2>2 DEF ToolInv
<1> QED
  BY <1>3, <1>5, <1>6, <1>7, <1>8, <1>9, <1>10, <1>12, <1>13 DEF Next

(* In every reachable state the three invariants hold.                     *)
LEMMA ToolInvariant == Spec => []ToolInv
BY InitTool, NextTool, PTL DEF Spec

(* Whatever the configuration and its version, what --dump-config printed  *)
(* is what code is generated from, and it is not refused when it is read   *)
(* again.                                                                  *)
THEOREM GeneratesWhatItDumped == Spec => []DumpedIsGenerated
<1>1. ToolInv => DumpedIsGenerated
  <2> SUFFICES ASSUME ToolInv, dumped # << >>
               PROVE  cause # "configuration" /\ (prefixes # << >> => node = dumped[1])
    BY DEF DumpedIsGenerated
  <2>1. Accepted(content) /\ dumped = << EffectiveNode(content) >> /\ ConfigInv /\ ReadInv
    BY DEF ToolInv, ReadInv
  <2>2. cause # "configuration"
    BY <2>1 DEF ReadInv, ConfigInv, Checked
  <2>3. dumped[1] = EffectiveNode(content)
    BY <2>1, SingleFacts
  <2>4. prefixes # << >> => node = EffectiveNode(content)
    BY <2>1 DEF ReadInv, ConfigInv, Made
  <2> QED
    BY <2>2, <2>3, <2>4
<1> QED
  BY <1>1, ToolInvariant, PTL

(* The log level of an event record type, at each stage. *)
LEMMA LogLevelMade ==
    ASSUME NEW aliases, NEW d, IsDstNode(d), NEW e \in DOMAIN d.erts
    PROVE  LET n == Dst(NormalizeDst(SubDst(aliases, d))) IN
           /\ DOMAIN n.erts = DOMAIN d.erts
           /\ n.erts[e].log_level = LogLevelMeant(d.erts[e].log_level, aliases)
<1> DEFINE ert == d.erts[e]
           level == ert.log_level
           subbed == [j \in DOMAIN d.erts |-> SubErt(aliases, d.erts[j])]
           normal == [j \in DOMAIN subbed |-> NormalizeErt(subbed[j])]
           made == [j \in DOMAIN normal |-> Ert(normal[j])]
           s == SubDst(aliases, d)
           n == NormalizeDst(s)
<1>1. /\ d = [name |-> d.name, is_default |-> d.is_default, clk |-> d.clk,
              features |-> d.features, extra |-> d.extra, common |-> d.common,
              erts |-> d.erts]
      /\ ert = [log_level |-> ert.log_level, spec |-> ert.spec, payload |-> ert.payload]
  BY DEF IsDstNode, IsErtNode
<1>2. s = [d EXCEPT !.erts = subbed]
  BY DEF SubDst
<1> HIDE DEF subbed
<1>3. s = [name |-> d.name, is_default |-> d.is_default, clk |-> d.clk,
           features |-> d.features, extra |-> d.extra, common |-> d.common,
           erts |-> subbed]
  <2> HIDE DEF s
  <2> QED
    BY <1>1, <1>2
<1> HIDE DEF s
<1>4. n.erts = [j \in DOMAIN s.erts |-> NormalizeErt(s.erts[j])]
  <2> DEFINE c == IF s.clk = Null THEN NoClock ELSE s.clk
             f == NormalizeFeatures(s.features)
             x == NormalizeMembers(s.extra)
             o == NormalizeMembers(s.common)
             r == [j \in DOMAIN s.erts |-> NormalizeErt(s.erts[j])]
  <2>1. n = [s EXCEPT !.clk = c, !.features = f, !.extra = x, !.common = o, !.erts = r]
    BY DEF NormalizeDst
  <2> HIDE DEF c, f, x, o, r, n
  <2>2. n.erts = r
    BY <1>3, <2>1
  <2> QED
    BY <2>2 DEF r
<1>5. n.erts = normal
  <2>1. s.erts = subbed
    BY <1>3
  <2> QED
    BY <1>4, <2>1
<1> HIDE DEF n, normal
<1>6. Dst(n).erts = [j \in DOMAIN n.erts |-> Ert(n.erts[j])]
  BY DEF Dst
<1>7. Dst(n).erts = made
  BY <1>5, <1>6
<1>8. /\ DOMAIN made = DOMAIN d.erts /\ made[e] = Ert(normal[e])
      /\ normal[e] = NormalizeErt(subbed[e]) /\ subbed[e] = SubErt(aliases, ert)
  BY DEF normal, subbed
<1> HIDE DEF made
<1>9. SubErt(aliases, ert).log_level = SubLogLevel(aliases, level)
  <2> HIDE DEF ert
  <2>1. SubErt(aliases, ert) = [ert EXCEPT !.log_level = SubLogLevel(aliases, level)]
    BY DEF SubErt
  <2> QED
    BY <1>1, <2>1
<1>10. made[e].log_level = normal[e].log_level
  BY <1>8 DEF Ert
<1>11. normal[e].log_level =
           IF SubLogLevel(aliases, level) = << "null" >> THEN << >>
           ELSE SubLogLevel(aliases, level)
  BY <1>8, <1>9 DEF NormalizeErt
<1> HIDE DEF level
<1>12. normal[e].log_level = LogLevelMeant(level, aliases)
  <2>1. CASE IsAlias(level)
    <3> DEFINE x == aliases[1][level[2]]
    <3>1. SubLogLevel(aliases, level) = << "level", x >> /\ LogLevelMeant(level, aliases) = << "level", x >>
      BY <2>1 DEF SubLogLevel, LogLevelMeant
    <3> HIDE DEF x
    <3>2. << "level", x >> # << "null" >>
      BY PairFacts, SingleFacts
    <3> QED
      BY <1>11, <3>1, <3>2
  <2>2. CASE ~IsAlias(level)
    BY <1>11, <2>2 DEF SubLogLevel, LogLevelMeant
  <2> QED
    BY <2>1, <2>2
<1> QED
  BY <1>7, <1>8, <1>10, <1>12 DEF level, n, s

(* The levels of the source are those of the node: conversion keeps them.  *)
LEMMA LogLevelConverted ==
    ASSUME NEW c, IsContent(c), NEW i \in DOMAIN NodeOf(c).dsts
    PROVE  LET source == IF c.meta = << >> THEN c.node ELSE c.meta[1] IN
           /\ source.aliases = NodeOf(c).aliases
           /\ \A e \in DOMAIN NodeOf(c).dsts[i].erts :
                  source.dsts[i].erts[e].log_level = NodeOf(c).dsts[i].erts[e].log_level
<1>1. CASE c.meta = << >>
  BY <1>1 DEF NodeOf
<1>2. CASE c.meta # << >>
  <2> DEFINE m == c.meta[1]
             k == Len(m.dsts)
             nodes == ConvNodes(m, k)
             t == TraceTypeNode(m, nodes)
  <2>1. NodeOf(c) = t
    BY <1>2 DEF NodeOf
  <2>2. t.aliases = m.aliases
        /\ t.dsts = [j \in DOMAIN nodes |->
                 [nodes[j] EXCEPT !.is_default = @ \/ nodes[j].name = m.default_stream]]
    BY DEF TraceTypeNode
  <2>3. DOMAIN nodes = 1 .. k /\ \A j \in 1 .. k : nodes[j] = ConvDstNode(m.dsts[j])
    BY DEF ConvNodes
  <2> HIDE DEF t, nodes
  <2>4. i \in 1 .. k
    BY <2>1, <2>2, <2>3
  <2>5. t.dsts[i] = [nodes[i] EXCEPT !.is_default = @ \/ nodes[i].name = m.default_stream]
    BY <2>2, <2>3, <2>4
  <2> DEFINE b == nodes[i].is_default \/ nodes[i].name = m.default_stream
             d == m.dsts[i]
  <2>6. t.dsts[i] = [nodes[i] EXCEPT !.is_default = b]
    BY <2>5
  <2> HIDE DEF b
  <2>7. t.dsts[i].erts = nodes[i].erts
    BY <2>3, <2>4, <2>6 DEF ConvDstNode
  <2>8. nodes[i].erts = [e \in DOMAIN d.erts |-> ConvErtNode(d.erts[e])]
    <3> DEFINE x == DefaultClock(d)
               f == V3Features(d)
               v == ExtraMembers(d)
               o == ConvStructFt(d.common)
               r == [e \in DOMAIN d.erts |-> ConvErtNode(d.erts[e])]
    <3>1. ConvDstNode(d) = [name |-> d.name, is_default |-> d.is_default, clk |-> x,
                            features |-> f, extra |-> v, common |-> o, erts |-> r]
      BY DEF ConvDstNode
    <3>2. nodes[i] = ConvDstNode(d)
      BY <2>3, <2>4
    <3> HIDE DEF x, f, v, o, r
    <3>3. nodes[i].erts = r
      BY <3>1, <3>2
    <3> QED
      BY <3>3 DEF r
  <2>9. \A e \in DOMAIN d.erts : ConvErtNode(d.erts[e]).log_level = d.erts[e].log_level
    BY DEF ConvErtNode
  <2>10. DOMAIN t.dsts[i].erts = DOMAIN d.erts
         /\ \A e \in DOMAIN d.erts : t.dsts[i].erts[e].log_level = d.erts[e].log_level
    BY <2>7, <2>8, <2>9
  <2> QED
    BY <1>2, <2>1, <2>2, <2>10
<1> QED
  BY <1>1, <1>2

(* Whatever the configuration and its version, the log level that an event *)
(* record type is given, by number or by alias, is the one in the metadata *)
(* stream, but for 0.                                                      *)
THEOREM LogLevelsAreKept == Spec => []LogLevelsKept
<1>1. ToolInv => LogLevelsKept
  <2> DEFINE c == content
             source == IF c.meta = << >> THEN c.node ELSE c.meta[1]
             tt == NodeOf(c)
             n == EffectiveNode(c)
  <2> SUFFICES ASSUME ToolInv, status = "done", NEW i \in DOMAIN dsts,
                      NEW e \in DOMAIN dsts[i].erts,
                      LogLevelMeant(source.dsts[i].erts[e].log_level, source.aliases)
                          # << "level", 0 >>
               PROVE  Event(dsts[i], e).loglevel =
                          LogLevelMeant(source.dsts[i].erts[e].log_level, source.aliases)
    BY DEF LogLevelsKept
  <2>1. ConfigInv /\ IsContent(c) /\ dsts = DstsOf(c, Len(n.dsts))
    BY DEF ToolInv, ConfigInv, Creating
  <2>2. IsTraceTypeNode(tt)
    BY <2>1, NodeShape
  <2>3. /\ DOMAIN tt.dsts = 1 .. Len(n.dsts)
        /\ \A j \in 1 .. Len(n.dsts) : n.dsts[j] = NormalizeDst(SubDst(tt.aliases, tt.dsts[j]))
    BY <2>2, EffectiveShape DEF EffectiveNode
  <2>4. i \in 1 .. Len(n.dsts) /\ dsts[i] = Dst(n.dsts[i])
    BY <2>1 DEF DstsOf
  <2> DEFINE d == tt.dsts[i]
  <2>5. IsDstNode(d) /\ i \in DOMAIN tt.dsts /\ dsts[i] = Dst(NormalizeDst(SubDst(tt.aliases, d)))
    BY <2>2, <2>3, <2>4 DEF IsTraceTypeNode
  <2> HIDE DEF c, source, tt, n, d
  <2>6. e \in DOMAIN d.erts
    <3>1. DOMAIN Dst(NormalizeDst(SubDst(tt.aliases, d))).erts = DOMAIN d.erts
      <4>1. CASE DOMAIN d.erts = {}
        BY <4>1 DEF Dst, NormalizeDst, SubDst
      <4>2. CASE DOMAIN d.erts # {}
        BY <2>5, <4>2, LogLevelMade
      <4> QED
        BY <4>1, <4>2
    <3> QED
      BY <2>5, <3>1
  <2>7. dsts[i].erts[e].log_level = LogLevelMeant(d.erts[e].log_level, tt.aliases)
    BY <2>5, <2>6, LogLevelMade
  <2>8. /\ source.aliases = tt.aliases
        /\ source.dsts[i].erts[e].log_level = d.erts[e].log_level
    BY <2>1, <2>5, <2>6, LogLevelConverted DEF tt, d, source
  <2>9. Event(dsts[i], e).loglevel = LogLevel(dsts[i].erts[e].log_level)
    BY DEF Event
  <2> QED
    BY <2>7, <2>8, <2>9 DEF LogLevel
<1> QED
  BY <1>1, ToolInvariant, PTL

-----------------------------------------------------------------------------
(* Trace types *)

(* The node that a trace type is created from is one of the schema.        *)
LEMMA EffectiveIsNode ==
    ASSUME NEW c, IsContent(c)
    PROVE  LET tt == NodeOf(c)
               n == EffectiveNode(c) IN
           /\ IsTraceTypeNode(tt) /\ IsTraceTypeNode(n)
           /\ n.uuid = tt.uuid /\ n.clocks = tt.clocks
           /\ n.features = NormalizeFeatures(tt.features)
           /\ Len(n.dsts) \in Nat /\ Len(n.dsts) = Len(tt.dsts)
           /\ DOMAIN n.dsts = 1 .. Len(n.dsts) /\ DOMAIN tt.dsts = 1 .. Len(n.dsts)
           /\ \A i \in 1 .. Len(n.dsts) :
                  /\ IsDstNode(tt.dsts[i]) /\ IsDstNode(n.dsts[i])
                  /\ n.dsts[i] = NormalDst(tt.aliases, tt.dsts[i])
                  /\ n.dsts[i].name = tt.dsts[i].name
<1> DEFINE tt == NodeOf(c)
           s == SubTraceType(tt)
           n == NormalizeTraceType(s)
           sub == [i \in DOMAIN tt.dsts |-> SubDst(tt.aliases, tt.dsts[i])]
           normal == [i \in DOMAIN sub |-> NormalizeDst(sub[i])]
           f == NormalizeFeatures(tt.features)
<1>1. IsTraceTypeNode(tt)
  BY NodeShape
<1> HIDE DEF tt
<1>2. /\ tt = [uuid |-> tt.uuid, clocks |-> tt.clocks, aliases |-> tt.aliases,
               features |-> tt.features, dsts |-> tt.dsts]
      /\ tt.features \in [TraceFeatureNames -> FeatureValues]
      /\ tt.dsts \in Seq(Range(tt.dsts)) /\ AreDstNames(tt.dsts)
      /\ \A i \in DOMAIN tt.dsts : IsDstNode(tt.dsts[i])
  BY <1>1 DEF IsTraceTypeNode
<1>3. s = [tt EXCEPT !.aliases = << >>, !.dsts = sub]
  BY DEF SubTraceType
<1>4. DOMAIN tt.dsts = 1 .. Len(tt.dsts) /\ Len(tt.dsts) \in Nat
  BY <1>2
<1>5. DOMAIN normal = 1 .. Len(tt.dsts)
      /\ \A i \in 1 .. Len(tt.dsts) : normal[i] = NormalDst(tt.aliases, tt.dsts[i])
  BY <1>4 DEF NormalDst
<1>6. normal = [i \in 1 .. Len(tt.dsts) |-> normal[i]]
  BY <1>4
<1> HIDE DEF sub
<1>7. s = [uuid |-> tt.uuid, clocks |-> tt.clocks, aliases |-> << >>,
           features |-> tt.features, dsts |-> sub]
  BY <1>2, <1>3
<1> HIDE DEF s
<1>8. n = [s EXCEPT !.features = f, !.dsts = normal]
  BY <1>7 DEF NormalizeTraceType
<1> HIDE DEF n, normal, f
<1>9. n = [uuid |-> tt.uuid, clocks |-> tt.clocks, aliases |-> << >>, features |-> f,
           dsts |-> normal]
  BY <1>7, <1>8
<1>10. ASSUME NEW i \in 1 .. Len(tt.dsts)
       PROVE  /\ IsDstNode(tt.dsts[i]) /\ IsDstNode(normal[i])
              /\ normal[i] = NormalDst(tt.aliases, tt.dsts[i])
              /\ normal[i].name = tt.dsts[i].name
  BY <1>2, <1>4, <1>5, NormalDstShape
<1>11. f \in [TraceFeatureNames -> FeatureValues]
  BY <1>2, NormalFeatures DEF f
<1>12. Len(normal) = Len(tt.dsts)
  BY <1>4, <1>6
<1>13. normal \in Seq(Range(normal))
  <2>1. \A i \in 1 .. Len(tt.dsts) : normal[i] \in Range(normal)
    BY <1>5 DEF Range
  <2> QED
    BY <1>4, <1>6, <2>1
<1>14. AreDstNames(normal)
  BY <1>2, <1>4, <1>5, <1>10 DEF AreDstNames
<1>15. /\ n.uuid = tt.uuid /\ n.clocks = tt.clocks /\ n.features = f /\ n.dsts = normal
       /\ n = [uuid |-> n.uuid, clocks |-> n.clocks, aliases |-> n.aliases,
               features |-> n.features, dsts |-> n.dsts]
  BY <1>9
<1>16. IsTraceTypeNode(n)
  BY <1>5, <1>10, <1>11, <1>13, <1>14, <1>15 DEF IsTraceTypeNode
<1>17. EffectiveNode(c) = n
  BY DEF EffectiveNode, n, s, tt
<1> QED
  BY <1>1, <1>4, <1>5, <1>10, <1>12, <1>15, <1>16, <1>17 DEF tt, f

(* The file holds one of the configurations that the tool is run on.       *)
IsGiven(c) ==
    \/ c.meta = << >> /\ c.node \in Nodes3 \cup FewNodes3
    \/ \E m \in Nodes2 \cup FewNodes2 : c.meta = << m >>

(* The data stream types created so far, whether the rest was refused or   *)
(* not, and the trace type that has them.                                  *)
TraceInv ==
    LET tt == EffectiveNode(content) IN
    /\ \E k \in 0 .. Len(tt.dsts) : dsts = DstsOf(content, k) /\ DstsAreFine(tt, k)
    /\ trace = [pkt_header |-> trace.pkt_header, dst_ids |-> trace.dst_ids,
                default |-> trace.default]
    /\ status \in {"options", "done"} =>
           /\ trace.pkt_header = PktHeaderFt(tt)
           /\ trace.dst_ids = Ids({dsts[i].name : i \in DOMAIN dsts})
    /\ IsGiven(content)

(* Nothing is created yet. *)
LEMMA NothingCreated ==
    ASSUME NEW c, IsContent(c)
    PROVE  LET tt == EffectiveNode(c) IN
           \E k \in 0 .. Len(tt.dsts) : << >> = DstsOf(c, k) /\ DstsAreFine(tt, k)
<1>1. 0 \in 0 .. Len(EffectiveNode(c).dsts)
  BY EffectiveIsNode
<1>2. << >> = DstsOf(c, 0) /\ DstsAreFine(EffectiveNode(c), 0)
  BY DEF DstsOf, DstsAreFine
<1> QED
  BY <1>1, <1>2

LEMMA InitTrace == Init => TraceInv
<1> SUFFICES ASSUME Init PROVE TraceInv
  OBVIOUS
<1>1. IsContent(content)
  BY InitTool DEF ToolInv, ConfigInv
<1>2. /\ dsts = << >> /\ trace = [pkt_header |-> << >>, dst_ids |-> << >>, default |-> {}]
      /\ status \in {"log_levels", "convert"}
  BY DEF Init, ConfigInit
<1>3. IsGiven(content)
  <2>1. content.node = node /\ content.meta = meta
    BY DEF Init
  <2>2. \/ node \in Nodes3 \cup FewNodes3 /\ meta = << >>
        \/ meta \in {<< m >> : m \in Nodes2 \cup FewNodes2}
    BY DEF Init, ConfigInit
  <2> QED
    BY <2>1, <2>2 DEF IsGiven
<1> QED
  BY <1>1, <1>2, <1>3, NothingCreated DEF TraceInv

LEMMA NextTrace == ToolInv /\ ToolInv' /\ TraceInv /\ [Next]_vars => TraceInv'
<1> SUFFICES ASSUME ToolInv, ToolInv', TraceInv, [Next]_vars PROVE TraceInv'
  OBVIOUS
<1>1. ASSUME content' = content, dsts' = dsts, trace' = trace,
             status' = status \/ status' \notin {"options", "done"}
      PROVE  TraceInv'
  BY <1>1 DEF TraceInv
<1>2. ASSUME Load, content' = content PROVE TraceInv'
  <2>1. /\ dsts' = << >>
        /\ trace' = [pkt_header |-> << >>, dst_ids |-> << >>, default |-> {}]
        /\ status' \in {"log_levels", "convert", "refused"}
    BY <1>2 DEF Load, ToolInv, ConfigInv, IsContent
  <2>2. IsContent(content)
    BY DEF ToolInv, ConfigInv
  <2> QED
    BY <1>2, <2>1, <2>2, NothingCreated DEF TraceInv
<1>3. CASE Parse
  <2> DEFINE tt == EffectiveNode(content)
  <2>1. content' = content /\ ParseConfig
    BY <1>3 DEF Parse, exec_vars
  <2>2. status \in {"dsts", "options"} => node = tt
    BY DEF ToolInv, ConfigInv, Made
  <2>3. ASSUME Refuse PROVE TraceInv'
    BY <1>1, <2>1, <2>3 DEF Refuse
  <2>4. CASE RefuseClocks \/ RefuseStream \/ RefuseLogLevel \/ RefuseFeatures
             \/ RefuseDst \/ RefuseDefaults
    BY <2>3, <2>4 DEF RefuseClocks, RefuseStream, RefuseLogLevel, RefuseFeatures, RefuseDst,
                      RefuseDefaults
  <2>5. CASE ConvDst \/ ConvMeta \/ SubLogLevelAliases \/ NormalizeProps \/ CreateFeatures
    BY <1>1, <2>1, <2>5 DEF ConvDst, ConvMeta, SubLogLevelAliases, NormalizeProps,
                            CreateFeatures, vars3
  <2>6. CASE CreateDst
    <3>1. status = "dsts" /\ status' = status /\ trace' = trace
      BY <2>6 DEF CreateDst
    <3>2. Creating'
      BY DEF ToolInv, ConfigInv
    <3>3. \E k \in 0 .. Len(tt.dsts) : dsts' = DstsOf(content, k) /\ DstsAreFine(tt, k)
      BY <2>1, <3>1, <3>2 DEF Creating
    <3> QED
      BY <2>1, <3>1, <3>3 DEF TraceInv
  <2>7. CASE CreateTraceType
    <3>1. /\ status = "dsts" /\ UNCHANGED << node, dsts >>
          /\ trace' = [trace EXCEPT !.pkt_header = PktHeaderFt(tt),
                                    !.dst_ids = Ids({dsts[i].name : i \in DOMAIN dsts})]
      BY <2>2, <2>7 DEF CreateTraceType
    <3> DEFINE ph == PktHeaderFt(tt)
               ids == Ids({dsts[i].name : i \in DOMAIN dsts})
    <3>2. trace = [pkt_header |-> trace.pkt_header, dst_ids |-> trace.dst_ids,
                   default |-> trace.default]
      BY DEF TraceInv
    <3> HIDE DEF ph, ids
    <3>3. trace' = [pkt_header |-> ph, dst_ids |-> ids, default |-> trace.default]
      BY <3>1, <3>2 DEF ph, ids
    <3>4. /\ trace' = [pkt_header |-> trace'.pkt_header, dst_ids |-> trace'.dst_ids,
                       default |-> trace'.default]
          /\ trace'.pkt_header = ph /\ trace'.dst_ids = ids
      BY <3>3
    <3> QED
      BY <2>1, <3>1, <3>4 DEF TraceInv, ph, ids
  <2>8. CASE CreateConfig
    <3> DEFINE d == {m.name : m \in Defaults(node)}
    <3>1. status = "options" /\ UNCHANGED << node, dsts >>
          /\ trace' = [trace EXCEPT !.default = d]
      BY <2>8 DEF CreateConfig
    <3>2. trace = [pkt_header |-> trace.pkt_header, dst_ids |-> trace.dst_ids,
                   default |-> trace.default]
      BY DEF TraceInv
    <3> HIDE DEF d
    <3>3. trace' = [pkt_header |-> trace.pkt_header, dst_ids |-> trace.dst_ids, default |-> d]
      BY <3>1, <3>2
    <3>4. /\ trace' = [pkt_header |-> trace'.pkt_header, dst_ids |-> trace'.dst_ids,
                       default |-> trace'.default]
          /\ trace'.pkt_header = trace.pkt_header /\ trace'.dst_ids = trace.dst_ids
      BY <3>3
    <3> QED
      BY <2>1, <3>1, <3>4 DEF TraceInv
  <2> QED
    BY <2>1, <2>4, <2>5, <2>6, <2>7, <2>8 DEF ParseConfig, Parse3
<1>4. CASE ReadConfig \/ ReadAgain
  BY <1>2, <1>4 DEF ReadConfig, ReadAgain
<1>5. ASSUME UNCHANGED << config_vars, content >> PROVE TraceInv'
  BY <1>1, <1>5 DEF config_vars, vars3
<1>6. CASE CreateCmd /\ UNCHANGED << config_vars, exec_vars >>
  BY <1>5, <1>6 DEF exec_vars
<1>7. CASE OpenFails \/ ConfigRefused \/ GenerateFails \/ WriteFails
  BY <1>5, <1>7 DEF OpenFails, ConfigRefused, GenerateFails, WriteFails, Fail
<1>8. CASE ShowVersion \/ ShowEffective \/ DumpConfig \/ CreateCodeGenerator
  BY <1>5, <1>8 DEF ShowVersion, ShowEffective, DumpConfig, CreateCodeGenerator
<1>9. CASE Generate \/ OpenOutput \/ WriteOutput \/ Finish
  BY <1>5, <1>9 DEF Generate, OpenOutput, WriteOutput, Finish, exec_vars
<1>10. CASE UNCHANGED vars
  BY <1>5, <1>10 DEF vars, exec_vars
<1> QED
  BY <1>3, <1>4, <1>6, <1>7, <1>8, <1>9, <1>10 DEF Next

LEMMA TraceInvariant == Spec => [](ToolInv /\ TraceInv)
BY InitTool, NextTool, InitTrace, NextTrace, PTL DEF Spec

(* Each data stream type was created from its node, which was not refused. *)
LEMMA DstMade ==
    ASSUME ToolInv, TraceInv, NEW i \in DOMAIN dsts
    PROVE  LET n == EffectiveNode(content) IN
           /\ i \in 1 .. Len(n.dsts) /\ dsts[i] = Dst(n.dsts[i])
           /\ IsDstNode(n.dsts[i]) /\ ~Refused(n.clocks, n.dsts[i])
<1> DEFINE n == EffectiveNode(content)
<1>1. IsContent(content)
  BY DEF ToolInv, ConfigInv
<1>2. /\ Len(n.dsts) \in Nat
      /\ \A j \in 1 .. Len(n.dsts) : IsDstNode(n.dsts[j])
  BY <1>1, EffectiveIsNode
<1>3. PICK k \in 0 .. Len(n.dsts) : dsts = DstsOf(content, k) /\ DstsAreFine(n, k)
  BY DEF TraceInv
<1> HIDE DEF n
<1>4. i \in 1 .. k /\ dsts[i] = Dst(n.dsts[i])
  BY <1>3 DEF DstsOf, n
<1>5. i \in 1 .. Len(n.dsts)
  BY <1>2, <1>3, <1>4
<1>6. ~Refused(n.clocks, n.dsts[i])
  BY <1>3, <1>4 DEF DstsAreFine
<1> QED
  BY <1>2, <1>4, <1>5, <1>6 DEF n

(* Whatever the members that the user adds to a packet context, and        *)
(* whatever the features that are on, no member hides another one (reserved *)
(* names of _create_dst).                                                  *)
THEOREM NoMemberIsHidden == Spec => []MembersDistinct
<1>1. ToolInv /\ TraceInv => MembersDistinct
  <2> SUFFICES ASSUME ToolInv, TraceInv, NEW i \in DOMAIN dsts
               PROVE  \A j, k \in DOMAIN dsts[i].pkt_ctx :
                          dsts[i].pkt_ctx[j].name = dsts[i].pkt_ctx[k].name => j = k
    BY DEF MembersDistinct
  <2> DEFINE n == EffectiveNode(content)
             d == n.dsts[i]
  <2>1. dsts[i] = Dst(d) /\ IsDstNode(d) /\ ~Refused(n.clocks, d)
    BY DstMade
  <2>2. dsts[i].pkt_ctx = PktCtxFt(d)
    BY <2>1 DEF Dst
  <2>3. d.extra \in Seq(Range(d.extra))
    BY <2>1 DEF IsDstNode, IsStructNode, AreNamed
  <2> HIDE DEF n, d
  <2> QED
    BY <2>1, <2>2, <2>3, PktCtxDistinct
<1> QED
  BY <1>1, TraceInvariant, PTL

(* The data stream type nodes that a version 2 node is converted to.       *)
IsConverted(n, d) ==
    n = [name |-> d.name, is_default |-> n.is_default, clk |-> DefaultClock(d),
         features |-> V3Features(d), extra |-> ExtraMembers(d),
         common |-> ConvStructFt(d.common),
         erts |-> [e \in DOMAIN d.erts |-> ConvErtNode(d.erts[e])]]

LEMMA ConvertedDst ==
    ASSUME NEW c, NEW m, IsMetaNode(m), c.meta = << m >>
    PROVE  LET tt == NodeOf(c) IN
           /\ tt.uuid = m.uuid /\ tt.clocks = m.clocks
           /\ tt.features = [magic |-> Feature(m.pkt_header, "magic"),
                             uuid |-> Feature(m.pkt_header, "uuid"),
                             dst_id |-> Feature(m.pkt_header, "stream_id")]
           /\ Len(tt.dsts) = Len(m.dsts) /\ Len(m.dsts) \in Nat
           /\ \A i \in 1 .. Len(m.dsts) :
                  IsDst2(m.dsts[i]) /\ IsConverted(tt.dsts[i], m.dsts[i])
<1> DEFINE tt == NodeOf(c)
           k == Len(m.dsts)
           nodes == ConvNodes(m, k)
           f == [magic |-> Feature(m.pkt_header, "magic"),
                 uuid |-> Feature(m.pkt_header, "uuid"),
                 dst_id |-> Feature(m.pkt_header, "stream_id")]
           b(i) == nodes[i].is_default \/ nodes[i].name = m.default_stream
           dst(i) == [nodes[i] EXCEPT !.is_default = b(i)]
<1>1. c.meta # << >> /\ c.meta[1] = m
  BY SingleFacts
<1>2. k \in Nat /\ \A i \in 1 .. k : IsDst2(m.dsts[i])
  BY DEF IsMetaNode
<1>3. tt = TraceTypeNode(m, nodes)
  BY <1>1 DEF NodeOf
<1>4. DOMAIN nodes = 1 .. k /\ \A i \in 1 .. k : nodes[i] = ConvDstNode(m.dsts[i])
  BY DEF ConvNodes
<1> HIDE DEF nodes, tt, k
<1>5. tt = [uuid |-> m.uuid, clocks |-> m.clocks, aliases |-> m.aliases,
            features |-> f, dsts |-> [i \in 1 .. k |-> dst(i)]]
  BY <1>3, <1>4 DEF TraceTypeNode
<1> HIDE DEF f, dst
<1>6. /\ tt.uuid = m.uuid /\ tt.clocks = m.clocks /\ tt.features = f /\ Len(tt.dsts) = k
      /\ \A i \in 1 .. k : tt.dsts[i] = dst(i)
  BY <1>2, <1>5
<1>7. ASSUME NEW i \in 1 .. k
      PROVE  IsDst2(m.dsts[i]) /\ IsConverted(tt.dsts[i], m.dsts[i])
  <2> DEFINE d == m.dsts[i]
             x == DefaultClock(d)
             g == V3Features(d)
             e == ExtraMembers(d)
             o == ConvStructFt(d.common)
             r == [j \in DOMAIN d.erts |-> ConvErtNode(d.erts[j])]
             y == b(i)
  <2>1. tt.dsts[i] = [ConvDstNode(d) EXCEPT !.is_default = y]
    BY <1>4, <1>6 DEF dst
  <2>2. IsDst2(d)
    BY <1>2
  <2> HIDE DEF y, d
  <2>3. tt.dsts[i] = [name |-> d.name, is_default |-> y, clk |-> x, features |-> g,
                      extra |-> e, common |-> o, erts |-> r]
    BY <2>1, <2>2, ConvDstShape
  <2> HIDE DEF x, g, e, o, r
  <2>4. tt.dsts[i] = [name |-> d.name, is_default |-> tt.dsts[i].is_default, clk |-> x,
                      features |-> g, extra |-> e, common |-> o, erts |-> r]
    BY <2>3
  <2> QED
    BY <2>2, <2>4 DEF x, g, e, o, r, d, IsConverted
<1> QED
  BY <1>2, <1>6, <1>7 DEF k, tt, f

(* The names of lengths are free in a trace type node, of either version.  *)
DstIsFree(d) ==
    /\ LengthsAreFree(d.extra) /\ LengthsAreFree(d.common)
    /\ \A e \in DOMAIN d.erts :
           LengthsAreFree(d.erts[e].spec) /\ LengthsAreFree(d.erts[e].payload)

LEMMA NodeIsFree ==
    ASSUME LengthNamesAreFree, NEW c, IsContent(c), IsGiven(c),
           NEW i \in DOMAIN NodeOf(c).dsts
    PROVE  DstIsFree(NodeOf(c).dsts[i])
<1> DEFINE tt == NodeOf(c)
           n == tt.dsts[i]
<1>1. CASE c.meta = << >> /\ c.node \in Nodes3 \cup FewNodes3
  <2>1. tt = c.node
    BY <1>1 DEF NodeOf
  <2> HIDE DEF tt
  <2>2. n \in Range(tt.dsts)
    BY DEF Range, tt
  <2>3. \A e \in DOMAIN n.erts : n.erts[e] \in Range(n.erts)
    BY DEF Range
  <2>4. /\ LengthsAreFree(n.extra) /\ LengthsAreFree(n.common)
        /\ \A e \in Range(n.erts) : LengthsAreFree(e.spec) /\ LengthsAreFree(e.payload)
    BY <1>1, <2>1, <2>2 DEF LengthNamesAreFree
  <2> QED
    BY <2>3, <2>4 DEF DstIsFree, tt
<1>2. CASE \E m \in Nodes2 \cup FewNodes2 : c.meta = << m >>
  <2>1. PICK m \in Nodes2 \cup FewNodes2 : c.meta = << m >>
    BY <1>2
  <2>2. IsMetaNode(m)
    BY ConversionAssumption, ToolAssumption
  <2> DEFINE d == m.dsts[i]
  <2>3. i \in 1 .. Len(m.dsts) /\ DOMAIN m.dsts = 1 .. Len(m.dsts)
    <3>1. Len(tt.dsts) = Len(m.dsts)
      BY <2>1, <2>2, ConvertedDst
    <3>2. DOMAIN tt.dsts = 1 .. Len(tt.dsts)
      BY EffectiveIsNode
    <3>3. i \in 1 .. Len(m.dsts)
      BY <3>1, <3>2
    <3> QED
      BY <2>2, <3>3 DEF IsMetaNode
  <2>4. IsDst2(d) /\ IsConverted(n, d)
    BY <2>1, <2>2, <2>3, ConvertedDst
  <2>5. d \in Range(m.dsts)
    BY <2>3 DEF Range
  <2>6. \A e \in DOMAIN d.erts : d.erts[e] \in Range(d.erts)
    BY DEF Range
  <2>7. /\ LengthsAreFree(d.pkt_ctx) /\ LengthsAreFree(d.common)
        /\ \A e \in DOMAIN d.erts :
               LengthsAreFree(d.erts[e].spec) /\ LengthsAreFree(d.erts[e].payload)
    BY <2>1, <2>5, <2>6 DEF LengthNamesAreFree
  <2>8. /\ IsStruct2(d.pkt_ctx) /\ IsStruct2(d.common)
        /\ \A e \in DOMAIN d.erts :
               IsStruct2(d.erts[e].spec) /\ IsStruct2(d.erts[e].payload)
    BY <2>4 DEF IsDst2
  <2>9. LengthsAreFree(ConvStructFt(d.common)) /\ LengthsAreFree(ExtraMembers(d))
    <3>1. /\ ExtraMembers(d) = ConvStructFt(Others(d.pkt_ctx)) /\ IsStruct2(Others(d.pkt_ctx))
          /\ Range(Others(d.pkt_ctx)) \subseteq Range(d.pkt_ctx)
      BY <2>8, ExtraFacts
    <3> QED
      BY <2>7, <2>8, <3>1, ConvFree
  <2>10. ASSUME NEW e \in DOMAIN d.erts
         PROVE  /\ LengthsAreFree(ConvErtNode(d.erts[e]).spec)
                /\ LengthsAreFree(ConvErtNode(d.erts[e]).payload)
    BY <2>7, <2>8, ConvFree DEF ConvErtNode
  <2> DEFINE r == [e \in DOMAIN d.erts |-> ConvErtNode(d.erts[e])]
  <2>11. \A e \in DOMAIN r : LengthsAreFree(r[e].spec) /\ LengthsAreFree(r[e].payload)
    BY <2>10
  <2> HIDE DEF d, n, r
  <2>12. n.extra = ExtraMembers(d) /\ n.common = ConvStructFt(d.common) /\ n.erts = r
    BY <2>4 DEF r, IsConverted
  <2> QED
    BY <2>9, <2>11, <2>12 DEF DstIsFree, n
<1> QED
  BY <1>1, <1>2 DEF IsGiven

LEMMA DstMadeFree ==
    ASSUME ToolInv, TraceInv, LengthNamesAreFree, NEW i \in DOMAIN dsts
    PROVE  DstIsFree(EffectiveNode(content).dsts[i])
<1> DEFINE c == content
           tt == NodeOf(c)
           n == EffectiveNode(c)
           d == tt.dsts[i]
<1>1. IsContent(c) /\ IsGiven(c) /\ i \in 1 .. Len(n.dsts)
  BY DstMade DEF ToolInv, ConfigInv, TraceInv
<1>2. /\ i \in DOMAIN tt.dsts /\ IsDstNode(d) /\ n.dsts[i] = NormalDst(tt.aliases, d)
  BY <1>1, EffectiveIsNode
<1>3. DstIsFree(d)
  BY <1>1, <1>2, NodeIsFree
<1> HIDE DEF d, n, tt, c
<1> DEFINE x == NormalDst(tt.aliases, d)
<1>4. /\ x.extra = NormalizeMembers(d.extra) /\ x.common = NormalizeMembers(d.common)
      /\ DOMAIN x.erts = DOMAIN d.erts
      /\ \A e \in DOMAIN d.erts :
             /\ x.erts[e].spec = NormalizeMembers(d.erts[e].spec)
             /\ x.erts[e].payload = NormalizeMembers(d.erts[e].payload)
  BY <1>2, NormalDstShape
<1>5. /\ IsStructNode(d.extra) /\ IsStructNode(d.common)
      /\ \A e \in DOMAIN d.erts :
             IsStructNode(d.erts[e].spec) /\ IsStructNode(d.erts[e].payload)
  BY <1>2 DEF IsDstNode, IsErtNode
<1> HIDE DEF x
<1>6. LengthsAreFree(x.extra) /\ LengthsAreFree(x.common)
  BY <1>3, <1>4, <1>5, NormalFree DEF DstIsFree
<1>7. ASSUME NEW e \in DOMAIN x.erts
      PROVE  LengthsAreFree(x.erts[e].spec) /\ LengthsAreFree(x.erts[e].payload)
  BY <1>3, <1>4, <1>5, NormalFree DEF DstIsFree
<1>8. DstIsFree(x)
  BY <1>6, <1>7 DEF DstIsFree
<1> QED
  BY <1>2, <1>8 DEF x, n, c

(* All the structures that a data stream type has are laid.                *)
DstIsLaid(d) ==
    /\ IsLaid(d.er_header) /\ (\E S : d.er_header \in Seq(S))
    /\ IsLaid(d.pkt_ctx) /\ (\E S : d.pkt_ctx \in Seq(S))
    /\ IsLaid(d.common) /\ (\E S : d.common \in Seq(S))
    /\ \A e \in Range(d.erts) :
           /\ IsLaid(e.spec) /\ \E S : e.spec \in Seq(S)
           /\ IsLaid(e.payload) /\ \E S : e.payload \in Seq(S)

LEMMA DstMadeLaid ==
    ASSUME ToolInv, TraceInv, LengthNamesAreFree, NEW i \in DOMAIN dsts
    PROVE  DstIsLaid(dsts[i])
<1> DEFINE n == EffectiveNode(content)
           d == n.dsts[i]
           t == dsts[i]
<1>1. t = Dst(d) /\ IsDstNode(d) /\ ~Refused(n.clocks, d)
  BY DstMade
<1>2. DstIsFree(d)
  BY DstMadeFree
<1> HIDE DEF n, d, t
<1>3. /\ t.er_header = ErHeaderFt(d) /\ t.pkt_ctx = PktCtxFt(d)
      /\ t.common = CreateStructFtMembers(d.common)
      /\ t.erts = [e \in DOMAIN d.erts |-> Ert(d.erts[e])]
  BY <1>1 DEF Dst
<1>4. /\ IsStructNode(d.extra) /\ IsStructNode(d.common)
      /\ \A e \in DOMAIN d.erts :
             IsStructNode(d.erts[e].spec) /\ IsStructNode(d.erts[e].payload)
  BY <1>1 DEF IsDstNode, IsErtNode
<1>5. IsLaid(t.er_header) /\ \E S : t.er_header \in Seq(S)
  <2> DEFINE s == ErHeaderFt(d)
             a == UInt("id", GetFt(DstFeatures(d).id, 64), NoClock)
             b == UInt("timestamp", GetFt(DstFeatures(d).timestamp, 64), d.clk)
  <2>1. s \in Seq({a, b}) /\ ArePlain(s) /\ Distinct(s)
    BY ErHeaderFacts
  <2> HIDE DEF s, a, b
  <2>2. IsLaid(s)
    BY <2>1, PlainLaid DEF IsLaid
  <2> QED
    BY <1>3, <2>1, <2>2 DEF s
<1>6. IsLaid(t.pkt_ctx) /\ \E S : t.pkt_ctx \in Seq(S)
  BY <1>1, <1>2, <1>3, <1>4, PktCtxLaid DEF DstIsFree
<1>7. ~DuplicateMember(d.common)
  BY <1>1 DEF Refused, InvalidMembers
<1>8. IsLaid(t.common) /\ t.common \in Seq(Range(t.common))
  BY <1>2, <1>3, <1>4, <1>7, CreatedLaid DEF DstIsFree
<1>9. ASSUME NEW e \in Range(t.erts)
      PROVE  /\ IsLaid(e.spec) /\ e.spec \in Seq(Range(e.spec))
             /\ IsLaid(e.payload) /\ e.payload \in Seq(Range(e.payload))
  <2>1. PICK j \in DOMAIN d.erts : e = Ert(d.erts[j])
    BY <1>3 DEF Range
  <2>2. /\ e.spec = CreateStructFtMembers(d.erts[j].spec)
        /\ e.payload = CreateStructFtMembers(d.erts[j].payload)
    BY <2>1 DEF Ert
  <2>3. ~InvalidErt(d, d.erts[j])
    BY <1>1 DEF Refused, Range
  <2>4. ~DuplicateMember(d.erts[j].spec) /\ ~DuplicateMember(d.erts[j].payload)
    BY <2>3 DEF InvalidErt, InvalidMembers
  <2> QED
    BY <1>2, <1>4, <2>2, <2>4, CreatedLaid DEF DstIsFree
<1>10. DstIsLaid(t)
  BY <1>5, <1>6, <1>8, <1>9 DEF DstIsLaid
<1> QED
  BY <1>10 DEF t

(* Whatever the arrays of a structure, each dynamic one has a length of its *)
(* own before it (_create_struct_ft_members and                            *)
(* _set_dyn_array_ft_length_ft_member_names), provided that no user names a *)
(* member as the length of another is named.                               *)
THEOREM LengthsComeFirst ==
    ASSUME LengthNamesAreFree
    PROVE  Spec => []LengthsPrecedeArrays
<1>1. ToolInv /\ TraceInv => LengthsPrecedeArrays
  <2> SUFFICES ASSUME ToolInv, TraceInv, NEW s \in Structures,
                      NEW a \in {i \in DOMAIN s : IsDynamicArray(s[i])}
               PROVE  LET len == LenOf(s, s[a]) IN
                      /\ len \in 1 .. a - 1
                      /\ s[len].class = "unsigned-integer"
                      /\ \A b \in DOMAIN s : IsDynamicArray(s[b]) /\ LenOf(s, s[b]) = len
                             => b = a
    BY DEF LengthsPrecedeArrays
  <2>1. PICK i \in DOMAIN dsts :
            s \in {dsts[i].er_header, dsts[i].pkt_ctx, dsts[i].common}
                      \cup {e.spec : e \in Range(dsts[i].erts)}
                      \cup {e.payload : e \in Range(dsts[i].erts)}
    BY DEF Structures
  <2>2. DstIsLaid(dsts[i])
    BY DstMadeLaid
  <2>3. IsLaid(s) /\ \E S : s \in Seq(S)
    BY <2>1, <2>2 DEF DstIsLaid
  <2>4. PICK S : s \in Seq(S)
    BY <2>3
  <2>5. DOMAIN s = 1 .. Len(s)
    BY <2>4
  <2> DEFINE len == LenOf(s, s[a])
  <2>6. /\ len \in 1 .. a - 1 /\ s[len] = LenMember(s[a].name)
        /\ \A b \in 1 .. Len(s) : IsDynamicArray(s[b]) /\ LenOf(s, s[b]) = len => b = a
    BY <2>3, <2>4, <2>5, LengthFound
  <2> HIDE DEF len
  <2>7. s[len].class = "unsigned-integer"
    BY <2>6, LenMemberFacts
  <2> QED
    BY <2>5, <2>6, <2>7 DEF len
<1> QED
  BY <1>1, TraceInvariant, PTL

-----------------------------------------------------------------------------
(* Generated functions.  What a data stream type has for them: lists of    *)
(* members, of which those of headers are the tracer's.                    *)

IsErHeader(s) ==
    /\ IsList(s)
    /\ \A m \in Range(s) :
           /\ m.name \in {"id", "timestamp"}
           /\ ~IsDynamicArray(m) /\ m.class = "unsigned-integer"

IsPktHeader(s) ==
    /\ IsList(s)
    /\ \A m \in Range(s) : m.name \in {"magic", "stream_id", "uuid"} /\ ~IsDynamicArray(m)

HasLists(d) ==
    /\ IsErHeader(d.er_header)
    /\ IsList(d.pkt_ctx) /\ IsList(d.common)
    /\ \A e \in Range(d.erts) : IsList(e.spec) /\ IsList(e.payload)

LEMMA CreatedList ==
    ASSUME NEW nodes, IsStructNode(nodes)
    PROVE  IsList(CreateStructFtMembers(nodes))
BY CreatedDistinct, ListOf DEF IsStructNode, AreNamed

LEMMA DstHasLists ==
    ASSUME ToolInv, TraceInv, NEW d \in Range(dsts)
    PROVE  HasLists(d)
<1>1. PICK i \in DOMAIN dsts : d = dsts[i]
  BY DEF Range
<1> DEFINE n == EffectiveNode(content).dsts[i]
<1>2. d = Dst(n) /\ IsDstNode(n)
  BY <1>1, DstMade
<1> HIDE DEF n
<1>3. /\ d.er_header = ErHeaderFt(n) /\ d.pkt_ctx = PktCtxFt(n)
      /\ d.common = CreateStructFtMembers(n.common)
      /\ d.erts = [e \in DOMAIN n.erts |-> Ert(n.erts[e])]
  BY <1>2 DEF Dst
<1>4. /\ IsStructNode(n.extra) /\ IsStructNode(n.common)
      /\ \A e \in DOMAIN n.erts :
             IsStructNode(n.erts[e].spec) /\ IsStructNode(n.erts[e].payload)
  BY <1>2 DEF IsDstNode, IsErtNode
<1>5. IsErHeader(d.er_header)
  <2> DEFINE s == ErHeaderFt(n)
             a == UInt("id", GetFt(DstFeatures(n).id, 64), NoClock)
             b == UInt("timestamp", GetFt(DstFeatures(n).timestamp, 64), n.clk)
  <2>1. /\ s \in Seq({a, b})
        /\ \A m \in Range(s) : m.name \in {"id", "timestamp"}
    BY ErHeaderFacts
  <2>2. /\ a.dims = << >> /\ a.class = "unsigned-integer"
        /\ b.dims = << >> /\ b.class = "unsigned-integer"
    BY UIntFacts
  <2> HIDE DEF s, a, b
  <2>3. \A m \in Range(s) : m \in {a, b}
    BY <2>1 DEF Range
  <2>4. \A m \in Range(s) : ~IsDynamicArray(m) /\ m.class = "unsigned-integer"
    BY <2>2, <2>3 DEF IsDynamicArray
  <2>5. IsErHeader(s)
    BY <2>1, <2>4, ListOf DEF IsErHeader
  <2> QED
    BY <1>3, <2>5 DEF s
<1>6. IsList(d.pkt_ctx)
  <2> DEFINE on == FeatureMembers(CtxFeatures(DstFeatures(n), n.clk))
             R == Range(CtxFeatures(DstFeatures(n), n.clk))
             s == PktCtxFt(n)
             x == CreateStructFtMembers(n.extra)
  <2>1. s = on \o x /\ on \in Seq(R)
    BY PktCtxParts
  <2>2. IsList(x)
    BY <1>4, CreatedList
  <2> HIDE DEF on, R, s, x
  <2>3. IsList(s)
    BY <2>1, <2>2, ListOf, ListJoined
  <2> QED
    BY <1>3, <2>3 DEF s
<1>7. IsList(d.common)
  BY <1>3, <1>4, CreatedList
<1>8. ASSUME NEW e \in Range(d.erts) PROVE IsList(e.spec) /\ IsList(e.payload)
  <2>1. PICK j \in DOMAIN n.erts : e = Ert(n.erts[j])
    BY <1>3 DEF Range
  <2>2. /\ e.spec = CreateStructFtMembers(n.erts[j].spec)
        /\ e.payload = CreateStructFtMembers(n.erts[j].payload)
    BY <2>1 DEF Ert
  <2> QED
    BY <1>4, <2>2, CreatedList
<1> QED
  BY <1>5, <1>6, <1>7, <1>8 DEF HasLists

LEMMA TraceHeader ==
    ASSUME TraceInv, status = "done"
    PROVE  IsPktHeader(trace.pkt_header)
<1> DEFINE tt == EffectiveNode(content)
           s == PktHeaderFt(tt)
<1>1. trace.pkt_header = s
  BY DEF TraceInv
<1>2. IsPktHeader(s)
  <2> HIDE DEF tt
  <2> QED
    BY PktHeaderFacts DEF IsPktHeader
<1> QED
  BY <1>1, <1>2

(* What the members of the event record header ask for is nothing, so the  *)
(* parameters of a tracing function are those of the other structures.     *)
LEMMA TraceParamsFacts ==
    ASSUME NEW d, HasLists(d), NEW e \in Range(d.erts), NEW dyn \in BOOLEAN
    PROVE  LET p == TraceParams(d, e, dyn)
               common == ProtoParams(d.common, "ercc", {}, dyn)
               spec == ProtoParams(e.spec, "ersc", {}, dyn)
               payload == ProtoParams(e.payload, "erp", {}, dyn)
           IN /\ p = common \o spec \o payload
              /\ p = TraceCallParams(d, e, dyn)
              /\ Range(p) = Range(common) \cup Range(spec) \cup Range(payload)
<1> DEFINE header == ProtoParams(d.er_header, "erh", {"id", "timestamp"}, dyn)
           common == ProtoParams(d.common, "ercc", {}, dyn)
           spec == ProtoParams(e.spec, "ersc", {}, dyn)
           payload == ProtoParams(e.payload, "erp", {}, dyn)
           p == TraceParams(d, e, dyn)
<1>1. p = header \o common \o spec \o payload
  BY DEF TraceParams
<1>2. header = << >>
  BY AsksNothing DEF HasLists, IsErHeader
<1>3. IsList(common) /\ IsList(spec) /\ IsList(payload)
  BY ProtoFacts DEF HasLists
<1>4. TraceCallParams(d, e, dyn) = common \o spec \o payload
  BY CallsAsAsked DEF TraceCallParams
<1> HIDE DEF header, common, spec, payload, p
<1>5. << >> \o common = common
  BY <1>3 DEF IsList
<1>6. p = common \o spec \o payload
  BY <1>1, <1>2, <1>5
<1>7. IsList(common \o spec) /\ Range(common \o spec) = Range(common) \cup Range(spec)
  BY <1>3, ListJoined
<1> DEFINE q == common \o spec
<1> HIDE DEF q
<1>8. Range(q \o payload) = Range(q) \cup Range(payload)
  BY <1>3, <1>7, ListJoined DEF q
<1>9. Range(p) = Range(common) \cup Range(spec) \cup Range(payload)
  BY <1>6, <1>7, <1>8 DEF q
<1> QED
  BY <1>4, <1>6, <1>9 DEF common, spec, payload, p

(* What is asked for is written, unless it is the template of a member     *)
(* that does it.                                                           *)
LEMMA AskedIsWritten ==
    ASSUME NEW s, IsList(s), NEW prefix, NEW ex
    PROVE  Range(ProtoParams(s, prefix, ex, FALSE)) \subseteq Written(s, prefix, ex)
<1> DEFINE p == ProtoParams(s, prefix, ex, FALSE)
           A == {x \in Range(s) : Asks(s, x, ex, FALSE)}
<1>1. Range(p) = AskedFor(s, prefix, ex, FALSE)
  BY ProtoFacts
<1>2. A \subseteq {x \in Range(s) : x.name \notin ex}
  BY DEF Asks
<1> HIDE DEF p, A
<1>3. Range(p) \subseteq {<< prefix, m.name >> : m \in {x \in Range(s) : x.name \notin ex}}
  BY <1>1, <1>2 DEF AskedFor, A
<1> QED
  BY <1>3 DEF Written, p

(* The parameters of each function that writes are written, here or in the *)
(* functions that it calls.                                                *)
LEMMA OpenWrites ==
    ASSUME NEW d, HasLists(d), IsPktHeader(trace.pkt_header)
    PROVE  Range(OpenFunc(d).params) \subseteq Names(OpenFunc(d))
<1> DEFINE P == {"magic", "stream_id", "uuid"}
           a == ProtoParams(trace.pkt_header, "ph", P, FALSE)
           b == ProtoParams(d.pkt_ctx, "pc", OpenExcludeSet, FALSE)
<1>1. OpenFunc(d).params = a \o b
  BY DEF OpenFunc, OpenParams, Func
<1>2. /\ Written(trace.pkt_header, "ph", P) \subseteq Names(OpenFunc(d))
      /\ Written(d.pkt_ctx, "pc", OpenExcludeSet) \subseteq Names(OpenFunc(d))
  <2>1. P = {"magic", "uuid", "stream_id"} /\ OpenExcludeSet = PktCtxTemplates
    BY DEF OpenExcludeSet, PktCtxTemplates
  <2> HIDE DEF P
  <2>2. OpenFunc(d).names =
            Written(trace.pkt_header, "ph", P) \cup Written(d.pkt_ctx, "pc", OpenExcludeSet)
                \cup Timestamp(d.pkt_ctx, "timestamp_begin")
    BY <2>1 DEF OpenFunc, Func
  <2> QED
    BY <2>2 DEF Names
<1>3. IsList(trace.pkt_header) /\ IsList(d.pkt_ctx)
  BY DEF IsPktHeader, HasLists
<1>4. /\ IsList(a) /\ Range(a) \subseteq Written(trace.pkt_header, "ph", P)
      /\ IsList(b) /\ Range(b) \subseteq Written(d.pkt_ctx, "pc", OpenExcludeSet)
  BY <1>3, ProtoFacts, AskedIsWritten
<1> HIDE DEF a, b, P
<1>5. Range(a \o b) = Range(a) \cup Range(b)
  BY <1>4, ListJoined
<1> QED
  BY <1>1, <1>2, <1>4, <1>5

LEMMA SerializeWrites ==
    ASSUME NEW d, HasLists(d), NEW e \in Range(d.erts)
    PROVE  /\ Range(SerializeErFunc(d, e).params) \subseteq Names(SerializeErFunc(d, e))
           /\ Range(TraceFunc(d, e).params) \subseteq Names(TraceFunc(d, e))
           /\ Range(SerializeErCommonCtxFunc(d).params)
                  \subseteq Names(SerializeErCommonCtxFunc(d))
<1> DEFINE common == ProtoParams(d.common, "ercc", {}, FALSE)
           spec == ProtoParams(e.spec, "ersc", {}, FALSE)
           payload == ProtoParams(e.payload, "erp", {}, FALSE)
           p == TraceParams(d, e, FALSE)
           f == SerializeErFunc(d, e)
           g == TraceFunc(d, e)
           h == SerializeErCommonCtxFunc(d)
<1>1. /\ Range(p) = Range(common) \cup Range(spec) \cup Range(payload)
      /\ p = TraceCallParams(d, e, FALSE)
  BY TraceParamsFacts
<1>2. /\ Range(common) \subseteq Written(d.common, "ercc", {})
      /\ Range(spec) \subseteq Written(e.spec, "ersc", {})
      /\ Range(payload) \subseteq Written(e.payload, "erp", {})
  BY AskedIsWritten DEF HasLists
<1>3. /\ f.params = p
      /\ f.names = Written(e.spec, "ersc", {}) \cup Written(e.payload, "erp", {})
      /\ f.calls = {Call(h, CallParams(d.common, "ercc", FALSE))}
  BY DEF SerializeErFunc, Func
<1>4. CallParams(d.common, "ercc", FALSE) = common
  BY CallsAsAsked
<1>5. /\ g.params = p
      /\ \E c \in g.calls : c = Call(SerializeErFunc(d, e), TraceCallParams(d, e, FALSE))
  BY DEF TraceFunc, Func
<1>6. h.params = common /\ h.names = Written(d.common, "ercc", {})
  BY DEF SerializeErCommonCtxFunc, Func
<1>7. \A func, given : Call(func, given).args = given
  BY DEF Call
<1> HIDE DEF common, spec, payload, p, f, g, h
<1>8. Range(p) \subseteq Names(f)
  <2>1. \E c \in f.calls : c.args = common
    BY <1>3, <1>4, <1>7
  <2> QED
    BY <1>1, <1>2, <1>3, <2>1 DEF Names
<1>9. Range(p) \subseteq Names(g)
  <2>1. \E c \in g.calls : c.args = p
    BY <1>1, <1>5, <1>7
  <2> QED
    BY <2>1 DEF Names
<1>10. Range(common) \subseteq Names(h)
  BY <1>2, <1>6 DEF Names
<1> QED
  BY <1>3, <1>5, <1>6, <1>8, <1>9, <1>10 DEF f, g, h

(* Nothing that the user gives to a packet opening or tracing function is  *)
(* lost, and nothing is asked that the tracer writes itself (exclude sets  *)
(* of _open_func_params_str and _trace_func_params_str).                   *)
THEOREM ArgumentsAreWritten == Spec => []ParametersAreWritten
<1>1. ToolInv /\ TraceInv => ParametersAreWritten
  <2> SUFFICES ASSUME ToolInv, TraceInv, status = "done", NEW d \in Range(dsts),
                      NEW func \in WritingFuncs(d)
               PROVE  \A p \in Range(func.params) : p \in Names(func) \/ p = Local("ert_id")
    BY DEF ParametersAreWritten
  <2>1. HasLists(d) /\ IsPktHeader(trace.pkt_header)
    BY DstHasLists, TraceHeader
  <2>2. \/ func \in {OpenFunc(d), CloseFunc(d), SerializeErHeaderFunc(d),
                     SerializeErCommonCtxFunc(d)}
        \/ \E e \in Range(d.erts) : func \in {SerializeErFunc(d, e), TraceFunc(d, e)}
    BY DEF WritingFuncs
  <2>3. CASE func = OpenFunc(d)
    BY <2>1, <2>3, OpenWrites
  <2>4. CASE func = CloseFunc(d)
    BY <2>4 DEF CloseFunc, Func, Range
  <2>5. CASE func = SerializeErHeaderFunc(d)
    BY <2>5 DEF SerializeErHeaderFunc, Func, Range
  <2>6. CASE func = SerializeErCommonCtxFunc(d)
    <3>1. func.params = ProtoParams(d.common, "ercc", {}, FALSE)
          /\ func.names = Written(d.common, "ercc", {})
      BY <2>6 DEF SerializeErCommonCtxFunc, Func
    <3>2. IsList(d.common)
      BY <2>1 DEF HasLists
    <3>3. Range(ProtoParams(d.common, "ercc", {}, FALSE)) \subseteq Written(d.common, "ercc", {})
      BY <3>2, AskedIsWritten
    <3> QED
      BY <3>1, <3>3 DEF Names
  <2>7. CASE \E e \in Range(d.erts) : func \in {SerializeErFunc(d, e), TraceFunc(d, e)}
    BY <2>1, <2>7, SerializeWrites
  <2> QED
    BY <2>2, <2>3, <2>4, <2>5, <2>6, <2>7
<1> QED
  BY <1>1, TraceInvariant, PTL

(* The length of an array is a member of the same structure, and one that  *)
(* asks for a parameter.                                                   *)
LEMMA LengthIsMember ==
    ASSUME NEW s, IsList(s), IsLaid(s), NEW a \in Range(s), IsDynamicArray(a)
    PROVE  \E m \in Range(s) : m.len_of # NoName /\ IsLen(s, m) /\ LenName(s, a) = m.name
<1>1. s \in Seq(Range(s)) /\ DOMAIN s = 1 .. Len(s) /\ Len(s) \in Nat
  BY DEF IsList
<1>2. PICK p \in 1 .. Len(s) : a = s[p]
  BY <1>1 DEF Range
<1> DEFINE len == LenOf(s, s[p])
<1>3. len \in 1 .. Len(s) /\ s[len] = LenMember(a.name)
  BY <1>1, <1>2, LengthFound
<1>4. LenName(s, a) = s[len].name
  BY <1>1, <1>2, <1>3 DEF LenName
<1> HIDE DEF len
<1>5. a.name # NoName
  BY <1>1, <1>2 DEF IsLaid, LensFirst
<1>6. s[len].len_of = a.name /\ s[len] \in Range(s)
  BY <1>1, <1>3, LenMemberFacts DEF Range
<1>7. IsLen(s, s[len])
  BY <1>5, <1>6 DEF IsLen
<1> QED
  BY <1>4, <1>5, <1>6, <1>7

(* What the statements of a structure use is what it asks for, whether     *)
(* they write it or measure it.                                            *)
LEMMA WrittenIsAsked ==
    ASSUME NEW s, IsList(s), IsLaid(s), NEW prefix, NEW ex,
           \A m \in Range(s) : m.len_of # NoName => m.name \notin ex
    PROVE  Written(s, prefix, ex) \subseteq Range(ProtoParams(s, prefix, ex, FALSE))
<1>1. LenVars(s, prefix) \subseteq AskedFor(s, prefix, ex, FALSE)
  <2> SUFFICES ASSUME NEW a \in Range(s), IsDynamicArray(a)
               PROVE  << prefix, LenName(s, a) >> \in AskedFor(s, prefix, ex, FALSE)
    BY DEF LenVars
  <2>1. PICK m \in Range(s) : m.len_of # NoName /\ LenName(s, a) = m.name
    BY LengthIsMember
  <2>2. Asks(s, m, ex, FALSE)
    BY <2>1 DEF Asks
  <2> QED
    BY <2>1, <2>2 DEF AskedFor
<1>2. {<< prefix, m.name >> : m \in {x \in Range(s) : x.name \notin ex}}
          \subseteq AskedFor(s, prefix, ex, FALSE)
  <2>1. \A x \in Range(s) : x.name \notin ex => Asks(s, x, ex, FALSE)
    BY DEF Asks
  <2> QED
    BY <2>1 DEF AskedFor
<1>3. Range(ProtoParams(s, prefix, ex, FALSE)) = AskedFor(s, prefix, ex, FALSE)
  BY ProtoFacts
<1> QED
  BY <1>1, <1>2, <1>3 DEF Written

LEMMA MeasuredIsAsked ==
    ASSUME NEW s, IsList(s), IsLaid(s), NEW prefix
    PROVE  Measured(s, prefix) \subseteq Range(ProtoParams(s, prefix, {}, TRUE))
<1>1. LenVars(s, prefix) \subseteq AskedFor(s, prefix, {}, TRUE)
  <2> SUFFICES ASSUME NEW a \in Range(s), IsDynamicArray(a)
               PROVE  << prefix, LenName(s, a) >> \in AskedFor(s, prefix, {}, TRUE)
    BY DEF LenVars
  <2>1. PICK m \in Range(s) : IsLen(s, m) /\ LenName(s, a) = m.name
    BY LengthIsMember
  <2>2. Asks(s, m, {}, TRUE)
    BY <2>1 DEF Asks
  <2> QED
    BY <2>1, <2>2 DEF AskedFor
<1>2. {<< prefix, m.name >> : m \in {x \in Range(s) : x.class = "string"}}
          \subseteq AskedFor(s, prefix, {}, TRUE)
  <2>1. \A x \in Range(s) : x.class = "string" => Asks(s, x, {}, TRUE)
    BY DEF Asks, SizeIsDynamic
  <2> QED
    BY <2>1 DEF AskedFor
<1>3. Range(ProtoParams(s, prefix, {}, TRUE)) = AskedFor(s, prefix, {}, TRUE)
  BY ProtoFacts
<1> QED
  BY <1>1, <1>2, <1>3 DEF Measured

(* What is asked for to measure is also asked for to write.                *)
LEMMA MeasuredIsWritten ==
    ASSUME NEW s, IsList(s), NEW prefix
    PROVE  Range(ProtoParams(s, prefix, {}, TRUE))
               \subseteq Range(ProtoParams(s, prefix, {}, FALSE))
<1>1. /\ Range(ProtoParams(s, prefix, {}, TRUE)) = AskedFor(s, prefix, {}, TRUE)
      /\ Range(ProtoParams(s, prefix, {}, FALSE)) = AskedFor(s, prefix, {}, FALSE)
  BY ProtoFacts
<1>2. \A x : Asks(s, x, {}, TRUE) => Asks(s, x, {}, FALSE)
  BY DEF Asks
<1>3. AskedFor(s, prefix, {}, TRUE) \subseteq AskedFor(s, prefix, {}, FALSE)
  BY <1>2 DEF AskedFor
<1> QED
  BY <1>1, <1>3

(* A length in a packet context has none of the names of the tracer.       *)
LEMMA LengthsNotReserved ==
    ASSUME ToolInv, TraceInv, NEW d \in Range(dsts), NEW m \in Range(d.pkt_ctx),
           m.len_of # NoName
    PROVE  m.name \notin OpenExcludeSet
<1>1. PICK i \in DOMAIN dsts : d = dsts[i]
  BY DEF Range
<1> DEFINE n == EffectiveNode(content).dsts[i]
           clocks == EffectiveNode(content).clocks
           on == FeatureMembers(CtxFeatures(DstFeatures(n), n.clk))
           R == Range(CtxFeatures(DstFeatures(n), n.clk))
           x == CreateStructFtMembers(n.extra)
<1>2. d = Dst(n) /\ IsDstNode(n) /\ ~Refused(clocks, n)
  BY <1>1, DstMade
<1> HIDE DEF n, clocks
<1>3. d.pkt_ctx = on \o x /\ on \in Seq(R) /\ ArePlain(on)
  BY <1>2, PktCtxParts DEF Dst
<1>4. IsList(x)
  BY <1>2, CreatedList DEF IsDstNode
<1>5. \A y \in Range(x) : y.name \notin ReservedMemberNames
  BY <1>2 DEF Refused
<1> HIDE DEF on, R, x
<1>6. Range(d.pkt_ctx) = Range(on) \cup Range(x)
  BY <1>3, <1>4, ListOf, ListJoined
<1>7. \A y \in Range(on) : y.len_of = NoName
  BY <1>3 DEF ArePlain, Range
<1>8. m.name \notin ReservedMemberNames
  BY <1>5, <1>6, <1>7
<1> QED
  BY <1>8 DEF ReservedMemberNames, OpenExcludeSet

(* A timestamp is only used when it has a value.                           *)
LEMMA TimestampDefined ==
    ASSUME NEW d, HasLists(d), ~TimestampWithoutClock(d)
    PROVE  /\ \A name \in {"timestamp_begin", "timestamp_end"} :
                  Timestamp(d.pkt_ctx, name) \subseteq DefinedTimestamp(d, d.pkt_ctx, name)
           /\ Timestamp(d.er_header, "timestamp")
                  \subseteq DefinedTimestamp(d, d.er_header, "timestamp")
<1>1. Range(d.pkt_ctx \o d.er_header) = Range(d.pkt_ctx) \cup Range(d.er_header)
  BY ListJoined DEF HasLists, IsErHeader
<1>2. CASE d.clk = NoClock
  <2>1. \A m \in Range(d.pkt_ctx) \cup Range(d.er_header) :
            m.name \notin {"timestamp_begin", "timestamp_end", "timestamp"}
    BY <1>1, <1>2 DEF TimestampWithoutClock
  <2> QED
    BY <2>1 DEF Timestamp
<1>3. CASE d.clk # NoClock
  BY <1>3 DEF DefinedTimestamp
<1> QED
  BY <1>2, <1>3

(* The names that a function uses are those that it has.                   *)
IsBound(func) == Names(func) \subseteq Range(func.params) \cup func.locals

CallsMatch(func) == \A c \in func.calls : c.args = c.params

(* What the names of the functions of a data stream type depend on.        *)
HasLengths(d) ==
    /\ HasLists(d) /\ DstIsLaid(d)
    /\ \A m \in Range(d.pkt_ctx) : m.len_of # NoName => m.name \notin OpenExcludeSet

LEMMA OpenIsBound ==
    ASSUME NEW d, HasLengths(d), IsPktHeader(trace.pkt_header), ~TimestampWithoutClock(d)
    PROVE  IsBound(OpenFunc(d))
<1> DEFINE P == {"magic", "stream_id", "uuid"}
           h == trace.pkt_header
           a == ProtoParams(h, "ph", P, FALSE)
           b == ProtoParams(d.pkt_ctx, "pc", OpenExcludeSet, FALSE)
           f == OpenFunc(d)
           ts == Timestamp(d.pkt_ctx, "timestamp_begin")
<1>1. f.params = a \o b /\ f.locals = DefinedTimestamp(d, d.pkt_ctx, "timestamp_begin")
  BY DEF OpenFunc, OpenParams, Func
<1>2. Names(f) = Written(h, "ph", P) \cup Written(d.pkt_ctx, "pc", OpenExcludeSet) \cup ts
  <2>1. P = {"magic", "uuid", "stream_id"} /\ OpenExcludeSet = PktCtxTemplates
    BY DEF OpenExcludeSet, PktCtxTemplates
  <2> HIDE DEF P
  <2>2. /\ f.names = Written(h, "ph", P) \cup Written(d.pkt_ctx, "pc", OpenExcludeSet) \cup ts
        /\ f.calls = {}
    BY <2>1 DEF OpenFunc, Func
  <2> HIDE DEF f, h, ts
  <2> QED
    BY <2>2 DEF Names
<1>3. Written(h, "ph", P) = {}
  BY DEF Written, LenVars, IsPktHeader
<1>4. /\ IsList(h) /\ IsList(d.pkt_ctx) /\ IsLaid(d.pkt_ctx)
      /\ \A m \in Range(d.pkt_ctx) : m.len_of # NoName => m.name \notin OpenExcludeSet
  BY DEF IsPktHeader, HasLengths, HasLists, DstIsLaid
<1>5. IsList(a) /\ IsList(b)
  BY <1>4, ProtoFacts
<1>6. Written(d.pkt_ctx, "pc", OpenExcludeSet) \subseteq Range(b)
  BY <1>4, WrittenIsAsked
<1>7. ts \subseteq f.locals
  BY <1>1, TimestampDefined DEF HasLengths
<1> HIDE DEF a, b, P, h, f, ts
<1>8. Range(f.params) = Range(a) \cup Range(b)
  BY <1>1, <1>5, ListJoined
<1>9. IsBound(f)
  BY <1>2, <1>3, <1>6, <1>7, <1>8 DEF IsBound
<1> QED
  BY <1>9 DEF f

LEMMA CloseIsBound ==
    ASSUME NEW d, HasLengths(d), ~TimestampWithoutClock(d)
    PROVE  IsBound(CloseFunc(d))
<1>1. Names(CloseFunc(d)) = Timestamp(d.pkt_ctx, "timestamp_end")
  BY DEF CloseFunc, Func, Names
<1>2. CloseFunc(d).locals = DefinedTimestamp(d, d.pkt_ctx, "timestamp_end")
  BY DEF CloseFunc, Func
<1> QED
  BY <1>1, <1>2, TimestampDefined DEF HasLengths, IsBound

LEMMA ErHeaderIsBound ==
    ASSUME NEW d, HasLengths(d), ~TimestampWithoutClock(d)
    PROVE  IsBound(SerializeErHeaderFunc(d))
<1> DEFINE f == SerializeErHeaderFunc(d)
           h == d.er_header
           ts == Timestamp(h, "timestamp")
<1>1. /\ f.locals = DefinedTimestamp(d, h, "timestamp") /\ f.calls = {}
      /\ f.names = Written(h, "erh", {"id", "timestamp"}) \cup ts
  BY DEF SerializeErHeaderFunc, Func
<1>2. Written(h, "erh", {"id", "timestamp"}) = {}
  <2>1. \A m \in Range(h) : ~IsDynamicArray(m) /\ m.name \in {"id", "timestamp"}
    BY DEF HasLengths, HasLists, IsErHeader
  <2> QED
    BY <2>1 DEF Written, LenVars
<1>3. ts \subseteq f.locals
  BY <1>1, TimestampDefined DEF HasLengths
<1> HIDE DEF f, ts
<1>4. IsBound(f)
  BY <1>1, <1>2, <1>3 DEF Names, IsBound
<1> QED
  BY <1>4 DEF f

LEMMA CommonIsBound ==
    ASSUME NEW d, HasLengths(d)
    PROVE  IsBound(SerializeErCommonCtxFunc(d))
<1>1. IsList(d.common) /\ IsLaid(d.common)
  BY DEF HasLengths, HasLists, DstIsLaid
<1>2. Written(d.common, "ercc", {}) \subseteq Range(ProtoParams(d.common, "ercc", {}, FALSE))
  BY <1>1, WrittenIsAsked
<1>3. /\ Names(SerializeErCommonCtxFunc(d)) = Written(d.common, "ercc", {})
      /\ SerializeErCommonCtxFunc(d).params = ProtoParams(d.common, "ercc", {}, FALSE)
  BY DEF SerializeErCommonCtxFunc, Func, Names
<1> QED
  BY <1>2, <1>3 DEF IsBound

(* The functions of an event record type, and the calls between them.      *)
LEMMA ErtFuncsAreBound ==
    ASSUME NEW d, HasLengths(d), NEW e \in Range(d.erts)
    PROVE  /\ IsBound(SerializeErFunc(d, e)) /\ CallsMatch(SerializeErFunc(d, e))
           /\ IsBound(ErSizeFunc(d, e)) /\ CallsMatch(ErSizeFunc(d, e))
           /\ IsBound(TraceFunc(d, e)) /\ CallsMatch(TraceFunc(d, e))
<1> DEFINE Of(s, prefix, dyn) == Range(ProtoParams(s, prefix, {}, dyn))
           p == TraceParams(d, e, FALSE)
           q == TraceParams(d, e, TRUE)
           f == SerializeErFunc(d, e)
           g == ErSizeFunc(d, e)
           h == TraceFunc(d, e)
           k == SerializeErCommonCtxFunc(d)
           common == CallParams(d.common, "ercc", FALSE)
<1>1. /\ Range(p) = Of(d.common, "ercc", FALSE) \cup Of(e.spec, "ersc", FALSE)
                        \cup Of(e.payload, "erp", FALSE)
      /\ Range(q) = Of(d.common, "ercc", TRUE) \cup Of(e.spec, "ersc", TRUE)
                        \cup Of(e.payload, "erp", TRUE)
      /\ p = TraceCallParams(d, e, FALSE) /\ q = TraceCallParams(d, e, TRUE)
  BY TraceParamsFacts DEF HasLengths
<1>2. /\ IsList(d.common) /\ IsLaid(d.common) /\ IsList(e.spec) /\ IsLaid(e.spec)
      /\ IsList(e.payload) /\ IsLaid(e.payload)
  BY DEF HasLengths, HasLists, DstIsLaid
<1>3. /\ Written(e.spec, "ersc", {}) \subseteq Of(e.spec, "ersc", FALSE)
      /\ Written(e.payload, "erp", {}) \subseteq Of(e.payload, "erp", FALSE)
  BY <1>2, WrittenIsAsked
<1>4. /\ Measured(d.common, "ercc") \subseteq Of(d.common, "ercc", TRUE)
      /\ Measured(e.spec, "ersc") \subseteq Of(e.spec, "ersc", TRUE)
      /\ Measured(e.payload, "erp") \subseteq Of(e.payload, "erp", TRUE)
  BY <1>2, MeasuredIsAsked
<1>5. Measured(d.er_header, "erh") = {}
  <2>1. \A m \in Range(d.er_header) : ~IsDynamicArray(m) /\ m.class # "string"
    BY DEF HasLengths, HasLists, IsErHeader
  <2> QED
    BY <2>1 DEF Measured, LenVars
<1>6. Range(q) \subseteq Range(p)
  BY <1>1, <1>2, MeasuredIsWritten
<1>7. common = ProtoParams(d.common, "ercc", {}, FALSE) /\ Range(common) \subseteq Range(p)
  BY <1>1, CallsAsAsked
<1>8. /\ f.params = p
      /\ f.names = Written(e.spec, "ersc", {}) \cup Written(e.payload, "erp", {})
      /\ f.calls = {Call(k, common)}
  BY DEF SerializeErFunc, Func
<1>9. /\ g.params = q /\ g.calls = {}
      /\ g.names = Measured(d.er_header, "erh") \cup Measured(d.common, "ercc")
                       \cup Measured(e.spec, "ersc") \cup Measured(e.payload, "erp")
  BY DEF ErSizeFunc, Func
<1>10. h.params = p /\ h.names = {} /\ h.calls = {Call(g, q), Call(f, p)}
  BY <1>1 DEF TraceFunc, Func
<1>11. k.params = ProtoParams(d.common, "ercc", {}, FALSE)
  BY DEF SerializeErCommonCtxFunc, Func
<1>12. \A func, given : Call(func, given).args = given /\ Call(func, given).params = func.params
  BY DEF Call
<1> HIDE DEF Of, p, q, f, g, h, k, common
<1>13. IsBound(f) /\ CallsMatch(f)
  <2>1. \A c \in f.calls : c.args = common /\ c.params = k.params
    BY <1>8, <1>12
  <2>2. f.names \subseteq Range(p)
    BY <1>1, <1>3, <1>8
  <2> QED
    BY <1>7, <1>8, <1>11, <2>1, <2>2 DEF IsBound, CallsMatch, Names
<1>14. IsBound(g) /\ CallsMatch(g)
  <2>1. g.names \subseteq Range(q)
    BY <1>1, <1>4, <1>5, <1>9
  <2> QED
    BY <1>9, <2>1 DEF IsBound, CallsMatch, Names
<1>15. IsBound(h) /\ CallsMatch(h)
  <2>1. \A c \in h.calls : c.args = c.params /\ Range(c.args) \subseteq Range(p)
    BY <1>6, <1>8, <1>9, <1>10, <1>12
  <2> QED
    BY <1>10, <2>1 DEF IsBound, CallsMatch, Names
<1> QED
  BY <1>13, <1>14, <1>15 DEF f, g, h

(* Generated functions only use names that they have, and call each other  *)
(* with the arguments that prototypes name, in their order: the selections *)
(* of _proto_params_str, ft_call_params and the size templates agree,      *)
(* provided that no user names a member as the length of another is named. *)
THEOREM FunctionsAgree ==
    ASSUME LengthNamesAreFree
    PROVE  Spec => []NamesAreBound
<1>1. ToolInv /\ TraceInv => NamesAreBound
  <2> SUFFICES ASSUME ToolInv, TraceInv, status = "done", NEW d \in Range(dsts),
                      NEW func \in Funcs(d)
               PROVE  (TimestampWithoutClock(d) \/ IsBound(func)) /\ CallsMatch(func)
    BY DEF NamesAreBound, IsBound, CallsMatch
  <2>1. HasLists(d) /\ IsPktHeader(trace.pkt_header)
    BY DstHasLists, TraceHeader
  <2>2. DstIsLaid(d)
    BY DstMadeLaid DEF Range
  <2>3. HasLengths(d)
    BY <2>1, <2>2, LengthsNotReserved DEF HasLengths
  <2>4. \/ func \in {OpenFunc(d), CloseFunc(d), SerializeErHeaderFunc(d),
                     SerializeErCommonCtxFunc(d)}
        \/ \E e \in Range(d.erts) :
               func \in {SerializeErFunc(d, e), TraceFunc(d, e), ErSizeFunc(d, e)}
    BY DEF Funcs, WritingFuncs
  <2>5. CASE func \in {OpenFunc(d), CloseFunc(d), SerializeErHeaderFunc(d),
                       SerializeErCommonCtxFunc(d)}
    <3>1. func.calls = {}
      <4>1. /\ OpenFunc(d).calls = {} /\ CloseFunc(d).calls = {}
            /\ SerializeErHeaderFunc(d).calls = {}
        BY DEF OpenFunc, CloseFunc, SerializeErHeaderFunc, Func
      <4>2. SerializeErCommonCtxFunc(d).calls = {}
        BY DEF SerializeErCommonCtxFunc, Func
      <4> QED
        BY <2>5, <4>1, <4>2
    <3>2. TimestampWithoutClock(d) \/ IsBound(func)
      BY <2>1, <2>3, <2>5, OpenIsBound, CloseIsBound, ErHeaderIsBound, CommonIsBound
    <3> QED
      BY <3>1, <3>2 DEF CallsMatch
  <2>6. CASE \E e \in Range(d.erts) :
                 func \in {SerializeErFunc(d, e), TraceFunc(d, e), ErSizeFunc(d, e)}
    BY <2>3, <2>6, ErtFuncsAreBound
  <2> QED
    BY <2>4, <2>5, <2>6
<1> QED
  BY <1>1, TraceInvariant, PTL

-----------------------------------------------------------------------------
(* What a reader of the metadata stream finds.                             *)

(* Every data stream type has its identifier, and so has every event       *)
(* record type in it; both fit the headers.                                *)
LEMMA DstsDone ==
    ASSUME ToolInv, TraceInv, status = "done"
    PROVE  LET tt == EffectiveNode(content)
               names == {dsts[i].name : i \in DOMAIN dsts}
           IN /\ ~FeaturesRefused(tt) /\ IsTraceTypeNode(tt)
              /\ TraceFeatures(tt).dst_id \in Nat \cup {Default}
              /\ trace.pkt_header = PktHeaderFt(tt) /\ trace.dst_ids = Ids(names)
              /\ DOMAIN dsts = 1 .. Len(tt.dsts) /\ Len(tt.dsts) \in Nat
              /\ \A i, j \in DOMAIN dsts : dsts[i].name = dsts[j].name => i = j
              /\ names \in SUBSET Int /\ IsFiniteSet(names)
              /\ Cardinality(names) = Len(tt.dsts)
<1> DEFINE tt == EffectiveNode(content)
           n == Len(tt.dsts)
           names == {dsts[i].name : i \in DOMAIN dsts}
<1>1. ~FeaturesRefused(tt) /\ IsContent(content) /\ dsts = DstsOf(content, n)
  BY DEF ToolInv, ConfigInv, Checked, Creating
<1>2. /\ IsTraceTypeNode(tt) /\ n \in Nat
      /\ tt.features = NormalizeFeatures(NodeOf(content).features)
      /\ IsTraceTypeNode(NodeOf(content))
      /\ DOMAIN tt.dsts = 1 .. n
  BY <1>1, EffectiveIsNode
<1>3. trace.pkt_header = PktHeaderFt(tt) /\ trace.dst_ids = Ids(names)
  BY DEF TraceInv
<1>4. TraceFeatures(tt).dst_id \in Nat \cup {Default}
  <2>1. /\ tt.features \in [TraceFeatureNames -> FeatureValues]
        /\ \A f \in TraceFeatureNames : tt.features[f] # Null
    BY <1>2, NormalFeatures DEF IsTraceTypeNode
  <2> HIDE DEF tt
  <2> QED
    BY <2>1, IdFeatures
<1>5. AreDstNames(tt.dsts)
  BY <1>2 DEF IsTraceTypeNode
<1> HIDE DEF tt, names, n
<1>6. DOMAIN dsts = 1 .. n /\ \A i \in 1 .. n : dsts[i].name = tt.dsts[i].name
  <2>1. DOMAIN dsts = 1 .. n /\ \A i \in 1 .. n : dsts[i] = Dst(tt.dsts[i])
    BY <1>1 DEF DstsOf, tt
  <2>2. \A d : Dst(d).name = d.name
    BY DEF Dst
  <2> QED
    BY <2>1, <2>2
<1>7. /\ \A i, j \in DOMAIN dsts : dsts[i].name = dsts[j].name => i = j
      /\ names \in SUBSET Int
  BY <1>2, <1>5, <1>6 DEF AreDstNames, names
<1>8. IsFiniteSet(names) /\ Cardinality(names) = n
  <2> DEFINE g == [i \in 1 .. n |-> dsts[i].name]
  <2>1. g \in Bijection(1 .. n, names)
    <3>1. g \in [1 .. n -> names]
      BY <1>6 DEF names
    <3>2. \A i, j \in 1 .. n : g[i] = g[j] => i = j
      BY <1>6, <1>7
    <3>3. \A x \in names : \E i \in 1 .. n : g[i] = x
      BY <1>6 DEF names
    <3> HIDE DEF g
    <3> QED
      BY <3>1, <3>2, <3>3 DEF Bijection, Injection, Surjection, IsInjective
  <2>2. ExistsBijection(1 .. n, names)
    BY <2>1 DEF ExistsBijection
  <2> QED
    BY <1>2, <2>2, FS_CountingElements, FS_NatBijection
<1> QED
  BY <1>1, <1>2, <1>3, <1>4, <1>6, <1>7, <1>8 DEF tt, names, n

LEMMA StreamIsIdentified ==
    ASSUME ToolInv, TraceInv, status = "done", NEW d \in Range(dsts)
    PROVE  /\ IdRead(trace.pkt_header, "stream_id", trace.dst_ids[d.name]) = StreamId(d)
           /\ \A x \in Range(dsts) : StreamId(x) = StreamId(d) => x = d
<1> DEFINE tt == EffectiveNode(content)
           names == {dsts[i].name : i \in DOMAIN dsts}
           ft == TraceFeatures(tt).dst_id
           count == Len(tt.dsts)
           h == PktHeaderFt(tt)
           ids == Ids(names)
<1>1. /\ ~FeaturesRefused(tt) /\ ft \in Nat \cup {Default} /\ count \in Nat
      /\ trace.pkt_header = h /\ trace.dst_ids = ids
      /\ DOMAIN dsts = 1 .. count
      /\ \A i, j \in DOMAIN dsts : dsts[i].name = dsts[j].name => i = j
      /\ names \in SUBSET Int /\ IsFiniteSet(names) /\ Cardinality(names) = count
  BY DstsDone
<1>2. ~IdTooSmall(ft, count) /\ ~IdRequired(ft, count)
  BY <1>1 DEF FeaturesRefused
<1>3. /\ \A m \in Range(h) : m.name = "stream_id" => m.size = GetFt(ft, 64)
      /\ HasMember(h, "stream_id") <=> GetFt(ft, 64) # Off
      /\ IsList(h)
  BY DstIdMember
<1>4. \A x \in Range(dsts) : x.name \in names
  BY DEF Range
<1>5. \A x, y \in Range(dsts) : x.name = y.name => x = y
  BY <1>1 DEF Range
<1> HIDE DEF tt, names, ft, count, h, ids
<1>6. ASSUME NEW x \in Range(dsts)
      PROVE  /\ ids[x.name] \in Nat /\ ids[x.name] < count
             /\ \A y \in Range(dsts) : ids[y.name] = ids[x.name] => y = x
  <2> DEFINE n == x.name
  <2>1. n \in names
    BY <1>4
  <2> HIDE DEF n
  <2>2. /\ ids[n] \in Nat /\ ids[n] < Cardinality(names)
        /\ \A m \in names : ids[m] = ids[n] => m = n
    BY <1>1, <2>1, IdsFacts DEF ids
  <2>3. \A y \in Range(dsts) : ids[y.name] = ids[n] => y.name = n
    BY <1>4, <2>2
  <2> QED
    BY <1>1, <1>5, <2>2, <2>3 DEF n
<1>7. ASSUME NEW x \in Range(dsts)
      PROVE  /\ IdRead(h, "stream_id", ids[x.name]) = IF ft = Off THEN NoId ELSE ids[x.name]
             /\ StreamId(x) = IF ft = Off THEN NoId ELSE ids[x.name]
  <2> DEFINE id == ids[x.name]
  <2>1. id \in Nat /\ id < count
    BY <1>6
  <2> HIDE DEF id
  <2>2. /\ HasMember(h, "stream_id") <=> ft # Off
        /\ IdRead(h, "stream_id", id) = IF ft = Off THEN NoId ELSE id
    BY <1>1, <1>2, <1>3, <2>1, IdIsRead
  <2> QED
    BY <1>1, <2>2 DEF StreamId, DstIdsAreOn, id
<1>8. ASSUME NEW x \in Range(dsts), StreamId(x) = StreamId(d) PROVE x = d
  <2>1. CASE ft = Off
    <3>1. count <= 1
      BY <1>1, <1>2, <2>1 DEF IdRequired
    <3>2. ids[x.name] = 0 /\ ids[d.name] = 0
      BY <1>1, <1>6, <3>1
    <3> QED
      BY <1>6, <3>2
  <2>2. CASE ft # Off
    BY <1>6, <1>7, <1>8, <2>2
  <2> QED
    BY <2>1, <2>2
<1>9. IdRead(h, "stream_id", ids[d.name]) = StreamId(d)
  BY <1>7
<1> QED
  BY <1>1, <1>8, <1>9

LEMMA ErIsIdentified ==
    ASSUME ToolInv, TraceInv, NEW d \in Range(dsts), NEW e \in DOMAIN d.erts
    PROVE  LET r == IdRead(d.er_header, "id", d.ert_ids[e]) IN
           /\ r = NoId \/ d.ert_ids[e] = r
           /\ \A x \in DOMAIN d.erts : r = NoId \/ d.ert_ids[x] = r => x = e
<1>1. PICK i \in DOMAIN dsts : d = dsts[i]
  BY DEF Range
<1> DEFINE n == EffectiveNode(content).dsts[i]
           names == DOMAIN n.erts
           ids == Ids(names)
           ft == DstFeatures(n).id
           count == Cardinality(names)
           h == ErHeaderFt(n)
<1>2. /\ d = Dst(n) /\ IsDstNode(n) /\ ~Refused(EffectiveNode(content).clocks, n)
      /\ i \in 1 .. Len(EffectiveNode(content).dsts)
  BY <1>1, DstMade
<1>3. ft \in Nat \cup {Default}
  <2> DEFINE o == NodeOf(content).dsts[i]
             aliases == NodeOf(content).aliases
  <2>1. IsContent(content)
    BY DEF ToolInv, ConfigInv
  <2>2. IsDstNode(o) /\ n = NormalDst(aliases, o)
    BY <1>2, <2>1, EffectiveIsNode
  <2> HIDE DEF n, o, aliases
  <2>3. n.features = NormalizeFeatures(o.features)
    BY <2>2, NormalDstShape
  <2>4. o.features \in [DstFeatureNames -> FeatureValues]
    BY <2>2 DEF IsDstNode
  <2>5. /\ n.features \in [DstFeatureNames -> FeatureValues]
        /\ \A f \in DstFeatureNames : n.features[f] # Null
    BY <2>3, <2>4, NormalFeatures
  <2> QED
    BY <2>5, IdFeatures
<1> HIDE DEF n
<1>4. /\ d.er_header = h /\ d.ert_ids = ids /\ DOMAIN d.erts = names
  BY <1>2 DEF Dst
<1>5. names \in SUBSET Int /\ IsFiniteSet(names)
  BY <1>2 DEF IsDstNode, AreErtNames
<1>6. ~IdTooSmall(ft, count) /\ ~IdRequired(ft, count)
  BY <1>2 DEF Refused
<1>7. /\ \A m \in Range(h) : m.name = "id" => m.size = GetFt(ft, 64)
      /\ HasMember(h, "id") <=> GetFt(ft, 64) # Off
      /\ IsList(h)
  BY ErIdMember
<1> HIDE DEF names, ids, ft, count, h
<1>8. ASSUME NEW x \in names
      PROVE  /\ ids[x] \in Nat /\ ids[x] < count /\ count \in Nat
             /\ \A y \in names : ids[y] = ids[x] => y = x
  BY <1>5, IdsFacts DEF ids, count
<1> DEFINE r == IdRead(h, "id", ids[e])
<1>9. r = IF ft = Off THEN NoId ELSE ids[e]
  <2> DEFINE id == ids[e]
  <2>1. id \in Nat /\ id < count /\ count \in Nat
    BY <1>4, <1>8
  <2> HIDE DEF id
  <2>2. IdRead(h, "id", id) = IF ft = Off THEN NoId ELSE id
    BY <1>3, <1>6, <1>7, <2>1, IdIsRead
  <2> QED
    BY <2>2 DEF id
<1> HIDE DEF r
<1>10. ASSUME NEW x \in names, r = NoId \/ ids[x] = r PROVE x = e
  <2>1. CASE ft = Off
    <3>1. count <= 1
      BY <1>4, <1>6, <1>8, <2>1 DEF IdRequired
    <3>2. ids[x] = 0 /\ ids[e] = 0
      BY <1>4, <1>8, <3>1
    <3> QED
      BY <1>4, <1>8, <3>2
  <2>2. CASE ft # Off
    <3>1. r = ids[e] /\ ids[e] \in Nat
      BY <1>4, <1>8, <1>9, <2>2
    <3>2. ids[x] = ids[e]
      BY <1>10, <3>1 DEF NoId
    <3> QED
      BY <1>4, <1>8, <3>2
  <2> QED
    BY <2>1, <2>2
<1>11. r = NoId \/ ids[e] = r
  BY <1>9
<1> QED
  BY <1>4, <1>10, <1>11 DEF r

LEMMA ClocksAreKnown ==
    ASSUME ToolInv, TraceInv, NEW d \in Range(dsts),
           NEW f \in Range(Stream(d).packet_context \o Stream(d).event_header)
    PROVE  f.map \in ClockTypes \cup {NoClock}
<1>1. PICK i \in DOMAIN dsts : d = dsts[i]
  BY DEF Range
<1> DEFINE n == EffectiveNode(content).dsts[i]
<1>2. d = Dst(n) /\ IsDstNode(n)
  BY <1>1, DstMade
<1> HIDE DEF n
<1>3. d.er_header = ErHeaderFt(n) /\ d.pkt_ctx = PktCtxFt(n) /\ d.clk = n.clk
  BY <1>2 DEF Dst
<1>4. /\ \A m \in Range(d.er_header) : m.clk \in {d.clk, NoClock}
      /\ \A m \in Range(d.pkt_ctx) : m.clk \in {d.clk, NoClock}
      /\ IsList(d.er_header) /\ IsList(d.pkt_ctx)
  BY <1>2, <1>3, HeaderClocks DEF IsDstNode
<1>5. ASSUME NEW s, IsList(s), \A m \in Range(s) : m.clk \in {d.clk, NoClock}
      PROVE  IsList(StructFt(s)) /\ \A x \in Range(StructFt(s)) : x.map \in {d.clk, NoClock}
  <2> DEFINE t == StructFt(s)
             R == Range(t)
  <2>1. DOMAIN s = 1 .. Len(s) /\ Len(s) \in Nat
    BY <1>5 DEF IsList
  <2>2. DOMAIN t = 1 .. Len(s) /\ \A j \in 1 .. Len(s) : t[j].map = s[j].clk
    BY <2>1 DEF StructFt
  <2>3. t = [j \in 1 .. Len(s) |-> t[j]]
    BY <2>1 DEF StructFt
  <2> HIDE DEF t
  <2>4. \A j \in 1 .. Len(s) : t[j] \in R
    BY <2>2 DEF Range
  <2> HIDE DEF R
  <2>5. t \in Seq(R)
    BY <2>1, <2>3, <2>4
  <2>6. \A x \in R : \E j \in 1 .. Len(s) : x = t[j]
    BY <2>2 DEF R, Range
  <2>7. \A x \in R : x.map \in {d.clk, NoClock}
    BY <1>5, <2>1, <2>2, <2>6 DEF Range
  <2> QED
    BY <2>5, <2>7 DEF IsList, t, R
<1> DEFINE a == StructFt(d.pkt_ctx)
           b == StructFt(d.er_header)
<1>6. Stream(d).packet_context = a /\ Stream(d).event_header = b
  BY DEF Stream
<1>7. /\ IsList(a) /\ \A x \in Range(a) : x.map \in {d.clk, NoClock}
      /\ IsList(b) /\ \A x \in Range(b) : x.map \in {d.clk, NoClock}
  BY <1>4, <1>5
<1> HIDE DEF a, b
<1>8. f \in Range(a) \cup Range(b)
  BY <1>6, <1>7, ListJoined
<1>9. f.map \in {d.clk, NoClock}
  BY <1>7, <1>8
<1> QED
  BY <1>9 DEF ClockTypes

(* Whatever the number of types, their names and the features that are on, *)
(* a reader finds the one stream and the one event declaration of what was *)
(* serialized, and the clocks that they refer to (the numbering of         *)
(* config.py, the size checks of the parser and metadata.j2 agree).        *)
THEOREM TypesAreFound == Spec => []ReaderFindsTypes
<1>1. ToolInv /\ TraceInv => ReaderFindsTypes
  <2> SUFFICES ASSUME ToolInv, TraceInv, status = "done", NEW d \in Range(dsts)
               PROVE  /\ StreamsFound(d) = {Stream(d)}
                      /\ \A e \in DOMAIN d.erts : EventsFound(d, e) = {Event(d, e)}
                      /\ \A s \in StreamsFound(d) :
                             \A f \in Range(s.packet_context \o s.event_header) :
                                 f.map \in ClockTypes \cup {NoClock}
    BY DEF ReaderFindsTypes
  <2>1. \A x : Stream(x).id = StreamId(x)
    BY DEF Stream
  <2>2. /\ IdRead(trace.pkt_header, "stream_id", trace.dst_ids[d.name]) = StreamId(d)
        /\ \A x \in Range(dsts) : StreamId(x) = StreamId(d) => x = d
    BY StreamIsIdentified
  <2>3. StreamsFound(d) = {s \in Streams : s.id = StreamId(d)}
    BY <2>2 DEF StreamsFound
  <2>4. StreamsFound(d) = {Stream(d)}
    BY <2>1, <2>2, <2>3 DEF Streams
  <2>5. ASSUME NEW e \in DOMAIN d.erts PROVE EventsFound(d, e) = {Event(d, e)}
    <3> DEFINE r == IdRead(d.er_header, "id", d.ert_ids[e])
    <3>1. /\ r = NoId \/ d.ert_ids[e] = r
          /\ \A x \in DOMAIN d.erts : r = NoId \/ d.ert_ids[x] = r => x = e
      BY ErIsIdentified
    <3>2. \A x, y : Event(x, y).stream_id = StreamId(x) /\ Event(x, y).id = x.ert_ids[y]
      BY DEF Event
    <3>3. EventsFound(d, e) = {v \in Events : v.stream_id = StreamId(d) /\ (r = NoId \/ v.id = r)}
      BY <2>1, <2>4 DEF EventsFound
    <3> HIDE DEF r
    <3>4. Event(d, e) \in EventsFound(d, e)
      BY <3>1, <3>2, <3>3 DEF Events
    <3>5. ASSUME NEW v \in EventsFound(d, e) PROVE v = Event(d, e)
      <4>1. PICK x \in Range(dsts) : \E y \in DOMAIN x.erts : v = Event(x, y)
        BY <3>3 DEF Events
      <4>2. PICK y \in DOMAIN x.erts : v = Event(x, y)
        BY <4>1
      <4>3. x = d
        BY <2>2, <3>2, <3>3, <4>2
      <4>4. y = e
        BY <3>1, <3>2, <3>3, <4>2, <4>3
      <4> QED
        BY <4>2, <4>3, <4>4
    <3> QED
      BY <3>4, <3>5
  <2>6. \A f \in Range(Stream(d).packet_context \o Stream(d).event_header) :
            f.map \in ClockTypes \cup {NoClock}
    BY ClocksAreKnown
  <2> QED
    BY <2>4, <2>5, <2>6
<1> QED
  BY <1>1, TraceInvariant, PTL


-----------------------------------------------------------------------------
(* What a version 2 configuration becomes.                                 *)

LEMMA ConvertedDone ==
    ASSUME ToolInv, TraceInv, status = "done", meta # << >>, NEW i \in DOMAIN dsts
    PROVE  LET d == meta[1].dsts[i]
               o == NodeOf(content).dsts[i]
               n == EffectiveNode(content).dsts[i]
           IN /\ IsMetaNode(meta[1]) /\ content.meta = << meta[1] >>
              /\ i \in 1 .. Len(meta[1].dsts) /\ IsDst2(d) /\ IsConverted(o, d)
              /\ IsDstNode(o) /\ n = NormalDst(NodeOf(content).aliases, o) /\ IsDstNode(n)
              /\ node = EffectiveNode(content) /\ ~Refused(node.clocks, n)
              /\ dsts[i] = Dst(n)
<1> DEFINE d == meta[1].dsts[i]
           o == NodeOf(content).dsts[i]
           n == EffectiveNode(content).dsts[i]
           aliases == NodeOf(content).aliases
           count == Len(EffectiveNode(content).dsts)
<1>1. IsContent(content) /\ meta = content.meta /\ node = EffectiveNode(content)
  BY DEF ToolInv, ConfigInv, Made
<1>2. PICK m : IsMetaNode(m) /\ content.meta = << m >>
  BY <1>1 DEF IsContent
<1>3. meta[1] = m
  BY <1>1, <1>2, SingleFacts
<1>4. /\ i \in 1 .. count /\ dsts[i] = Dst(n)
      /\ IsDstNode(n) /\ ~Refused(EffectiveNode(content).clocks, n)
  BY DstMade
<1>5. count = Len(NodeOf(content).dsts) /\ IsDstNode(o) /\ n = NormalDst(aliases, o)
  BY <1>1, <1>4, EffectiveIsNode
<1>6. Len(NodeOf(content).dsts) = Len(m.dsts)
  BY <1>2, ConvertedDst
<1>7. i \in 1 .. Len(m.dsts)
  BY <1>4, <1>5, <1>6
<1>8. IsDst2(m.dsts[i]) /\ IsConverted(o, m.dsts[i])
  BY <1>2, <1>7, ConvertedDst
<1> HIDE DEF o, n, aliases, count
<1> QED
  BY <1>1, <1>2, <1>3, <1>4, <1>5, <1>7, <1>8 DEF o, n, aliases

(* Whatever the timestamps that name it, the one clock of a data stream    *)
(* type of version 2 is the clock of all its timestamps, and it exists     *)
(* (_conv_dst_node, _create_dst and _set_ft_mapped_clk_type_name agree).   *)
THEOREM ClockIsKept == Spec => []ClocksKept
<1>1. ToolInv /\ TraceInv => ClocksKept
  <2> DEFINE named(i) == {m.clk : m \in Timestamps(meta[1].dsts[i])}
  <2> SUFFICES ASSUME ToolInv, TraceInv, status = "done", meta # << >>, NEW i \in DOMAIN dsts,
                      Cardinality(named(i)) = 1,
                      NEW m \in Timestamps(dsts[i])
               PROVE  m.clk \in named(i) /\ m.clk \in node.clocks
    BY DEF ClocksKept
  <2> DEFINE d == meta[1].dsts[i]
             o == NodeOf(content).dsts[i]
             n == EffectiveNode(content).dsts[i]
             S == named(i)
  <2>1. /\ IsDst2(d) /\ IsConverted(o, d) /\ IsDstNode(o)
        /\ n = NormalDst(NodeOf(content).aliases, o) /\ IsDstNode(n)
        /\ ~Refused(node.clocks, n) /\ dsts[i] = Dst(n)
    BY ConvertedDone
  <2>2. S = {x.clk : x \in Timestamps(d)}
    OBVIOUS
  <2> HIDE DEF d, o, n, S
  <2>3. PICK c : S = {c}
    BY <2>1, <2>2, NamedClocks DEF S
  <2>4. DefaultClock(d) = c /\ c # NoClock /\ c # Null
    BY <2>1, <2>2, <2>3, ClockNamed
  <2>5. o.clk = c
    BY <2>1, <2>4 DEF IsConverted
  <2>6. n.clk = IF o.clk = Null THEN NoClock ELSE o.clk
    BY <2>1, NormalDstShape
  <2>7. n.clk = c /\ c \in node.clocks
    BY <2>1, <2>4, <2>5, <2>6 DEF Refused
  <2>8. dsts[i].er_header = ErHeaderFt(n) /\ dsts[i].pkt_ctx = PktCtxFt(n)
    BY <2>1 DEF Dst
  <2>9. /\ \A x \in Range(ErHeaderFt(n)) : x.name = "timestamp" => x.clk = n.clk
        /\ \A x \in Range(PktCtxFt(n)) :
               x.name \in {"timestamp_begin", "timestamp_end"} => x.clk = n.clk
    BY <2>1, TimestampClocks DEF IsDstNode
  <2>10. m.clk = c
    BY <2>7, <2>8, <2>9 DEF Timestamps
  <2> QED
    BY <2>3, <2>7, <2>10 DEF S
<1> QED
  BY <1>1, TraceInvariant, PTL


(* The parts of a data stream type of version 2, normalized.               *)
LEMMA ConvertedParts ==
    ASSUME NEW d, IsDst2(d), NEW o, IsDstNode(o), IsConverted(o, d), NEW aliases,
           NEW n, n = NormalDst(aliases, o), DstIsFree(n)
    PROVE  /\ n.features = NormalizeFeatures(V3Features(d))
           /\ n.extra = NormalizeMembers(ExtraMembers(d)) /\ IsStructNode(n.extra)
           /\ LengthsAreFree(n.extra)
           /\ n.common = NormalizeMembers(ConvStructFt(d.common)) /\ IsStruct2(d.common)
           /\ LengthsAreFree(n.common)
           /\ DOMAIN n.erts = DOMAIN d.erts
           /\ \A e \in DOMAIN d.erts :
                  /\ n.erts[e].spec = NormalizeMembers(ConvStructFt(d.erts[e].spec))
                  /\ n.erts[e].payload = NormalizeMembers(ConvStructFt(d.erts[e].payload))
                  /\ IsStruct2(d.erts[e].spec) /\ LengthsAreFree(n.erts[e].spec)
                  /\ IsStruct2(d.erts[e].payload) /\ LengthsAreFree(n.erts[e].payload)
<1>1. /\ o.features = V3Features(d) /\ o.extra = ExtraMembers(d)
      /\ o.common = ConvStructFt(d.common) /\ DOMAIN o.erts = DOMAIN d.erts
      /\ \A e \in DOMAIN d.erts : /\ o.erts[e].spec = ConvStructFt(d.erts[e].spec)
                                  /\ o.erts[e].payload = ConvStructFt(d.erts[e].payload)
  <2> DEFINE x == DefaultClock(d)
             g == V3Features(d)
             y == ExtraMembers(d)
             z == ConvStructFt(d.common)
             r == [j \in DOMAIN d.erts |-> ConvErtNode(d.erts[j])]
  <2>1. o = [name |-> d.name, is_default |-> o.is_default, clk |-> x, features |-> g,
             extra |-> y, common |-> z, erts |-> r]
    BY DEF IsConverted
  <2>2. DOMAIN r = DOMAIN d.erts
        /\ \A e \in DOMAIN d.erts : /\ r[e].spec = ConvStructFt(d.erts[e].spec)
                                    /\ r[e].payload = ConvStructFt(d.erts[e].payload)
    BY DEF ConvErtNode
  <2> HIDE DEF x, g, y, z, r
  <2>3. o.features = g /\ o.extra = y /\ o.common = z /\ o.erts = r
    BY <2>1
  <2> QED
    BY <2>2, <2>3 DEF g, y, z
<1>2. /\ IsDstNode(n) /\ DOMAIN n.erts = DOMAIN o.erts
      /\ n.features = NormalizeFeatures(o.features)
      /\ n.extra = NormalizeMembers(o.extra) /\ n.common = NormalizeMembers(o.common)
      /\ \A e \in DOMAIN o.erts :
             /\ n.erts[e].spec = NormalizeMembers(o.erts[e].spec)
             /\ n.erts[e].payload = NormalizeMembers(o.erts[e].payload)
  BY NormalDstShape
<1>3. /\ IsStruct2(d.common)
      /\ \A e \in DOMAIN d.erts : IsStruct2(d.erts[e].spec) /\ IsStruct2(d.erts[e].payload)
  BY DEF IsDst2
<1>4. /\ LengthsAreFree(n.extra) /\ LengthsAreFree(n.common)
      /\ \A e \in DOMAIN n.erts :
             LengthsAreFree(n.erts[e].spec) /\ LengthsAreFree(n.erts[e].payload)
  BY DEF DstIsFree
<1>5. IsStructNode(n.extra)
  BY <1>2 DEF IsDstNode
<1> QED
  BY <1>1, <1>2, <1>3, <1>4, <1>5

(* What a data stream type of version 2 has, as its reader sees it.        *)
LEMMA DstKept ==
    ASSUME NEW d, IsDst2(d), NEW o, IsDstNode(o), IsConverted(o, d), NEW aliases,
           NEW n, n = NormalDst(aliases, o), DstIsFree(n)
    PROVE  SameLayout(Seen(d), Dst(n))
<1>1. /\ n.features = NormalizeFeatures(V3Features(d))
      /\ n.extra = NormalizeMembers(ExtraMembers(d)) /\ IsStructNode(n.extra)
      /\ LengthsAreFree(n.extra)
      /\ n.common = NormalizeMembers(ConvStructFt(d.common)) /\ IsStruct2(d.common)
      /\ LengthsAreFree(n.common)
      /\ DOMAIN n.erts = DOMAIN d.erts
      /\ \A e \in DOMAIN d.erts :
             /\ n.erts[e].spec = NormalizeMembers(ConvStructFt(d.erts[e].spec))
             /\ n.erts[e].payload = NormalizeMembers(ConvStructFt(d.erts[e].payload))
             /\ IsStruct2(d.erts[e].spec) /\ LengthsAreFree(n.erts[e].spec)
             /\ IsStruct2(d.erts[e].payload) /\ LengthsAreFree(n.erts[e].payload)
  BY ConvertedParts
<1> DEFINE s == Seen(d)
           t == Dst(n)
<1>2. /\ s.pkt_ctx = Unnumbered(d.pkt_ctx) /\ s.er_header = Only(d.er_header, {"id", "timestamp"})
      /\ s.common = d.common /\ s.erts = d.erts
  <2> DEFINE p == Where(d.pkt_ctx, LAMBDA f : f.name # "packet_seq_num")
             h == Only(d.er_header, {"id", "timestamp"})
  <2>1. s = [d EXCEPT !.pkt_ctx = p, !.er_header = h]
    BY DEF Seen
  <2>2. d = [name |-> d.name, is_default |-> d.is_default, pkt_ctx |-> d.pkt_ctx,
             er_header |-> d.er_header, common |-> d.common, erts |-> d.erts]
    BY DEF IsDst2
  <2>3. p = Unnumbered(d.pkt_ctx)
    BY DEF Unnumbered
  <2> HIDE DEF p, h, s
  <2>4. s.pkt_ctx = p /\ s.er_header = h /\ s.common = d.common /\ s.erts = d.erts
    BY <2>1, <2>2
  <2> QED
    BY <2>3, <2>4 DEF h
<1>3. /\ t.pkt_ctx = PktCtxFt(n) /\ t.er_header = ErHeaderFt(n)
      /\ t.common = CreateStructFtMembers(n.common)
      /\ \A e \in DOMAIN n.erts :
             /\ t.erts[e].spec = CreateStructFtMembers(n.erts[e].spec)
             /\ t.erts[e].payload = CreateStructFtMembers(n.erts[e].payload)
  BY DEF Dst, Ert
<1> HIDE DEF s, t
<1>4. Layout2(s.pkt_ctx) = Layout3(t.pkt_ctx)
  BY <1>1, <1>2, <1>3, PktCtxKept
<1>5. Layout2(s.er_header) = Layout3(t.er_header)
  BY <1>1, <1>2, <1>3, ErHeaderKept
<1>6. Layout2(s.common) = Layout3(t.common)
  BY <1>1, <1>2, <1>3, StructKept
<1>7. ASSUME NEW e \in DOMAIN s.erts PROVE SameEr(s.erts[e], t.erts[e])
  <2> DEFINE spec == n.erts[e].spec
             payload == n.erts[e].payload
             a == d.erts[e].spec
             b == d.erts[e].payload
  <2>1. e \in DOMAIN d.erts /\ e \in DOMAIN n.erts /\ s.erts[e] = d.erts[e]
    BY <1>1, <1>2
  <2>2. spec = NormalizeMembers(ConvStructFt(a)) /\ IsStruct2(a) /\ LengthsAreFree(spec)
    BY <1>1, <2>1
  <2>3. payload = NormalizeMembers(ConvStructFt(b)) /\ IsStruct2(b) /\ LengthsAreFree(payload)
    BY <1>1, <2>1
  <2>4. /\ t.erts[e].spec = CreateStructFtMembers(spec)
        /\ t.erts[e].payload = CreateStructFtMembers(payload)
    BY <1>3, <2>1
  <2> HIDE DEF spec, payload, a, b
  <2>5. Layout3(CreateStructFtMembers(spec)) = Layout2(a)
    BY <2>2, StructKept
  <2>6. Layout3(CreateStructFtMembers(payload)) = Layout2(b)
    BY <2>3, StructKept
  <2> QED
    BY <2>1, <2>4, <2>5, <2>6 DEF SameEr, a, b
<1>8. SameLayout(s, t)
  BY <1>4, <1>5, <1>6, <1>7 DEF SameLayout
<1> QED
  BY <1>8 DEF s, t

(* Whatever the members that a version 2 configuration declares, a reader  *)
(* sees them, with the sizes, the signs and the lengths of arrays that it  *)
(* declares, and sees nothing else, where the conversion looks at them and *)
(* the names of lengths are free (config_parse_v2.py, _conv_struct_ft_node, *)
(* _conv_dst_node, _conv_tt_node and the objects created from the result). *)
THEOREM DeclaredMembersAreKept ==
    ASSUME LengthNamesAreFree
    PROVE  Spec => []MembersKept
<1>1. ToolInv /\ TraceInv => MembersKept
  <2> SUFFICES ASSUME ToolInv, TraceInv, status = "done", meta # << >>
               PROVE  /\ Layout2(Only(meta[1].pkt_header, {"magic", "uuid", "stream_id"}))
                             = Layout3(trace.pkt_header)
                      /\ \A i \in DOMAIN dsts : SameLayout(Seen(meta[1].dsts[i]), dsts[i])
    BY DEF MembersKept
  <2>1. Layout2(Only(meta[1].pkt_header, {"magic", "uuid", "stream_id"}))
            = Layout3(trace.pkt_header)
    <3> DEFINE c == content
               tt == NodeOf(c)
               n == EffectiveNode(c)
               m == meta[1]
               f == [magic |-> Feature(m.pkt_header, "magic"),
                     uuid |-> Feature(m.pkt_header, "uuid"),
                     dst_id |-> Feature(m.pkt_header, "stream_id")]
    <3>1. IsContent(c) /\ meta = c.meta
      BY DEF ToolInv, ConfigInv, Made
    <3>2. PICK m2 : IsMetaNode(m2) /\ c.meta = << m2 >>
      BY <3>1 DEF IsContent
    <3>3. m = m2
      BY <3>1, <3>2, SingleFacts
    <3>4. tt.features = f
      BY <3>2, <3>3, ConvertedDst
    <3>5. n.features = NormalizeFeatures(tt.features)
      BY <3>1, EffectiveIsNode
    <3>6. trace.pkt_header = PktHeaderFt(n)
      BY DEF TraceInv
    <3>7. IsMetaNode(m)
      BY <3>2, <3>3
    <3> HIDE DEF n, tt, c, m
    <3> QED
      BY <3>4, <3>5, <3>6, <3>7, PktHeaderKept DEF m
  <2>2. ASSUME NEW i \in DOMAIN dsts PROVE SameLayout(Seen(meta[1].dsts[i]), dsts[i])
    <3> DEFINE d == meta[1].dsts[i]
               o == NodeOf(content).dsts[i]
               n == EffectiveNode(content).dsts[i]
               aliases == NodeOf(content).aliases
    <3>1. /\ IsDst2(d) /\ IsConverted(o, d) /\ IsDstNode(o) /\ n = NormalDst(aliases, o)
          /\ dsts[i] = Dst(n)
      BY ConvertedDone
    <3>2. DstIsFree(n)
      BY DstMadeFree
    <3> HIDE DEF d, o, n, aliases
    <3>3. SameLayout(Seen(d), Dst(n))
      BY <3>1, <3>2, DstKept
    <3> QED
      BY <3>1, <3>3 DEF d
  <2> QED
    BY <2>1, <2>2
<1> QED
  BY <1>1, TraceInvariant, PTL

(* Whatever the members of an enumeration of an event record's payload, in *)
(* whatever order and with whatever labels in common, each value has the   *)
(* labels that they give it in version 2, where the names of lengths are   *)
(* free (_conv_enum_ft_node, and labels_for_value() of config.py).         *)
THEOREM ValuesKeepTheirLabels ==
    ASSUME LengthNamesAreFree
    PROVE  Spec => []LabelsKept
<1>1. ToolInv /\ TraceInv => LabelsKept
  <2> SUFFICES ASSUME ToolInv, TraceInv, status = "done", meta # << >>, NEW i \in DOMAIN dsts,
                      NEW e \in DOMAIN dsts[i].erts,
                      NEW f \in Range(meta[1].dsts[i].erts[e].payload),
                      NEW m \in Range(dsts[i].erts[e].payload), f.name = m.name,
                      NEW value \in EnumValues
               PROVE  LabelsForValue(m.mappings, value) = LabelsOf(f.members, value)
    BY DEF LabelsKept
  <2> DEFINE d == meta[1].dsts[i]
             o == NodeOf(content).dsts[i]
             n == EffectiveNode(content).dsts[i]
             aliases == NodeOf(content).aliases
             fields == d.erts[e].payload
             t == n.erts[e].payload
  <2>1. /\ IsDst2(d) /\ IsConverted(o, d) /\ IsDstNode(o) /\ n = NormalDst(aliases, o)
        /\ dsts[i] = Dst(n)
    BY ConvertedDone
  <2>2. DstIsFree(n)
    BY DstMadeFree
  <2>3. f \in Range(fields)
    OBVIOUS
  <2> HIDE DEF d, o, n, aliases
  <2>4. /\ DOMAIN n.erts = DOMAIN d.erts
        /\ \A x \in DOMAIN d.erts :
               /\ n.erts[x].payload = NormalizeMembers(ConvStructFt(d.erts[x].payload))
               /\ IsStruct2(d.erts[x].payload) /\ LengthsAreFree(n.erts[x].payload)
    BY <2>1, <2>2, ConvertedParts
  <2>5. /\ e \in DOMAIN n.erts
        /\ dsts[i].erts[e].payload = CreateStructFtMembers(n.erts[e].payload)
    <3>1. dsts[i].erts = [x \in DOMAIN n.erts |-> Ert(n.erts[x])]
      BY <2>1 DEF Dst
    <3> QED
      BY <3>1 DEF Ert
  <2>6. /\ t = NormalizeMembers(ConvStructFt(fields)) /\ IsStruct2(fields)
        /\ LengthsAreFree(t) /\ m \in Range(CreateStructFtMembers(t))
    BY <2>4, <2>5
  <2> HIDE DEF fields, t
  <2> QED
    BY <2>3, <2>6, StructLabels
<1> QED
  BY <1>1, TraceInvariant, PTL
=============================================================================
