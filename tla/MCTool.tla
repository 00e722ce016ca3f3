------------------------------- MODULE MCTool -------------------------------
(***************************************************************************)
(* Arguments and configurations for the tool.  "c" is a configuration      *)
(* file, and so is "gen"; "d" is a directory and "x" does not exist.       *)
(***************************************************************************)
EXTENDS Tool, MCConversion

ASSUME LengthNamesAreFree

SomeFiles == {<< "c" >>, << "gen" >>}

SomeDirs == {<< "d" >>, << "cwd" >>}

CurrentDir == << "cwd" >>

SomeIndents == {<< "2" >>}

(* Any three words among these *)
Words ==
    {<< >>, << "-" >>, << "--" >>, << "c" >>, << "x" >>,
     << "gen" >>, << "show-effective-cfg" >>, << "show-cfg-version" >>,
     << "-", "h" >>, << "-", "V" >>, << "-", "h", "I", "d" >>, << "-", "I" >>,
     << "--", "include-dir", "=", "d" >>, << "--", "code-dir" >>, << "--", "dump-config" >>,
     << "--", "dump-config", "=", "x" >>, << "--", "indent-spaces", "=", "9" >>,
     << "-", "p", "my", "_" >>}

(* Longer lists *)
ManyWords == {<< "c" >>, << "d" >>, << "gen" >>, << "-", "h", "I" >>, << "-", "I" >>}

SomeArgLists == SeqOf(Words, 3) \cup [1 .. 5 -> ManyWords]

PlainArgList == << << "c" >> >>

(* Refused: clock 3 does not exist. *)
OneNode3 ==
    {Node3({1}, Plain3(Missing), << Dst3(1, 3, PlainFeatures, << >>, << PlainErt3 >>, FALSE) >>)}

OneNode2 ==
    {Meta(TRUE, << >>, 0, << Dst2(1, PlainCtx, << Field("id", 8, 0) >>, << PlainErt2 >>, FALSE) >>)}

=============================================================================
