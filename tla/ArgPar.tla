------------------------------- MODULE ArgPar -------------------------------
(***************************************************************************)
(* The command line argument parser: parse() of argpar.py.                 *)
(*                                                                         *)
(* A word is a sequence of tokens: "-hIdir" is << "-", "h", "I", "dir" >>, *)
(* "--include-dir=dir" is << "--", "include-dir", "=", "dir" >>.  A token  *)
(* after "-" stands for one letter, or for a text of several letters whose *)
(* first one names no option.                                              *)
(***************************************************************************)
EXTENDS Integers, SequencesExt

VARIABLES
    orig_args,            \* words to parse
    opt_descrs,           \* descriptors of the known options
    fail_on_unknown_opt,  \* an unknown option is an error, or ends the parsing
    orig_arg_index,       \* next word, from 1
    items,                \* items found so far
    parsing               \* "words", "done" or "error"

parse_vars ==
    << orig_args, opt_descrs, fail_on_unknown_opt, orig_arg_index, items, parsing >>

OptDescr(short_name, long_name, has_arg) ==
    [short_name |-> short_name, long_name |-> long_name, has_arg |-> has_arg]

NoDescr == OptDescr("", "", FALSE)

OptItem(descr, arg_text) ==
    [descr |-> descr, text |-> arg_text, orig_arg_index |-> 0]

NonOptItem(text, index) ==
    [descr |-> NoDescr, text |-> text, orig_arg_index |-> index]

IsNonOpt(item) == item.descr = NoDescr

-----------------------------------------------------------------------------
(* One word *)

(* No token is empty, and what follows the name of a long option is its    *)
(* text.                                                                   *)
IsWord(word) ==
    /\ word \in Seq(Range(word))
    /\ "" \notin Range(word)
    /\ Len(word) > 2 /\ word[1] = "--" => word[3] = "="

IsOptWord(word) == word # << >> /\ word[1] \in {"-", "--"} /\ word # << "-" >>

IsLong(word) == word[1] = "--"

(* find_opt_descr *)
Short(letter) == {d \in opt_descrs : d.short_name = letter}

Long(name) == {d \in opt_descrs : d.long_name = name}

(* Where a group of short options ends: at the first letter that is        *)
(* unknown or has an argument.  0 if there is none.                        *)
Stop(word) == SelectInSeq(Tail(word), LAMBDA l : \A d \in Short(l) : d.has_arg)

UnknownOpt(word) ==
    IF IsLong(word) THEN Long(word[2]) = {}
    ELSE Stop(word) # 0 /\ Short(word[Stop(word) + 1]) = {}

(* The options of a word: one, or those of a group. *)
Opts(word) ==
    IF IsLong(word) THEN << CHOOSE d \in Long(word[2]) : TRUE >>
    ELSE [i \in 1 .. (IF Stop(word) = 0 THEN Len(word) - 1 ELSE Stop(word)) |->
            CHOOSE d \in Short(word[i + 1]) : TRUE]

(* The word itself holds an argument for its last option. *)
HasText(word) ==
    IF IsLong(word) THEN Len(word) > 2 ELSE Stop(word) + 1 < Len(word)

TextOf(word) ==
    SubSeq(word, IF IsLong(word) THEN 4 ELSE Stop(word) + 2, Len(word))

ExpectsNext(word) == Last(Opts(word)).has_arg /\ ~HasText(word)

OptItems(word, next) ==
    LET opts == Opts(word)
        text == IF HasText(word) THEN TextOf(word) ELSE next
    IN [i \in DOMAIN opts |-> OptItem(opts[i], IF opts[i].has_arg THEN text ELSE << >>)]

-----------------------------------------------------------------------------
(* The loop over the words *)

(* parse() is called. *)
CallParse(words, descrs, fail) ==
    /\ orig_args' = words
    /\ opt_descrs' = descrs
    /\ fail_on_unknown_opt' = fail
    /\ orig_arg_index' = 1
    /\ items' = << >>
    /\ parsing' = "words"

orig_arg == orig_args[orig_arg_index]

MoreWords == parsing = "words" /\ orig_arg_index <= Len(orig_args)

HasNext == orig_arg_index < Len(orig_args)

OptArg == MoreWords /\ IsOptWord(orig_arg) /\ orig_arg # << "--" >>

End(result) ==
    /\ parsing' = result
    /\ UNCHANGED << orig_args, opt_descrs, fail_on_unknown_opt, orig_arg_index, items >>

Take(new_items, count) ==
    /\ items' = items \o new_items
    /\ orig_arg_index' = orig_arg_index + count
    /\ UNCHANGED << orig_args, opt_descrs, fail_on_unknown_opt, parsing >>

RefuseDashes == MoreWords /\ orig_arg = << "--" >> /\ End("error")

FailOnUnknownOpt == OptArg /\ UnknownOpt(orig_arg) /\ fail_on_unknown_opt /\ End("error")

(* Mutant of StopAtUnknownOpt: the options of the group that were known    *)
(* are kept.                                                               *)
StopKeepingGroup ==
    /\ OptArg
    /\ UnknownOpt(orig_arg)
    /\ ~fail_on_unknown_opt
    /\ parsing' = "done"
    /\ items' = IF IsLong(orig_arg) THEN items
                ELSE items \o [i \in 1 .. Stop(orig_arg) - 1 |->
                                  OptItem(CHOOSE d \in Short(orig_arg[i + 1]) : TRUE, << >>)]
    /\ UNCHANGED << orig_args, opt_descrs, fail_on_unknown_opt, orig_arg_index >>

StopAtUnknownOpt ==
    OptArg /\ UnknownOpt(orig_arg) /\ ~fail_on_unknown_opt /\ End("done")

MissingOptArg ==
    /\ OptArg
    /\ ~UnknownOpt(orig_arg)
    /\ ExpectsNext(orig_arg)
    /\ ~HasNext
    /\ End("error")

TakeOptsAndNext ==
    /\ OptArg
    /\ ~UnknownOpt(orig_arg)
    /\ ExpectsNext(orig_arg)
    /\ HasNext
    /\ Take(OptItems(orig_arg, orig_args[orig_arg_index + 1]), 2)

TakeOpts ==
    /\ OptArg
    /\ ~UnknownOpt(orig_arg)
    /\ ~ExpectsNext(orig_arg)
    /\ Take(OptItems(orig_arg, << >>), 1)

(* Mutant of TakeNonOpt: the index does not move. *)
TakeNonOptAgain ==
    /\ MoreWords
    /\ ~IsOptWord(orig_arg)
    /\ UNCHANGED parse_vars

TakeNonOpt ==
    /\ MoreWords
    /\ ~IsOptWord(orig_arg)
    /\ Take(<< NonOptItem(orig_arg, orig_arg_index) >>, 1)

EndOfWords == parsing = "words" /\ ~MoreWords /\ End("done")

ParseArgs ==
    \/ RefuseDashes
    \/ FailOnUnknownOpt
    \/ StopAtUnknownOpt
    \/ MissingOptArg
    \/ TakeOptsAndNext
    \/ TakeOpts
    \/ TakeNonOpt
    \/ EndOfWords

-----------------------------------------------------------------------------
(* What a token says: nothing if it is a dash or an equal sign, the long   *)
(* name of an option if it is its letter.                                  *)
Said(descrs, token) ==
    LET named == {d \in descrs : d.short_name = token}
    IN IF token \in {"-", "--", "="} THEN << >>
       ELSE IF named = {} THEN << token >>
       ELSE << (CHOOSE d \in named : TRUE).long_name >>

Canonical(descrs, tokens) ==
    FlattenSeq([i \in DOMAIN tokens |-> Said(descrs, tokens[i])])

Spelling(item) ==
    IF IsNonOpt(item) THEN item.text ELSE << item.descr.long_name >> \o item.text

Spelled(found) == FlattenSeq([i \in DOMAIN found |-> Spelling(found[i])])

Ingested == SubSeq(orig_args, 1, orig_arg_index - 1)

(* A text given with "=" to an option that takes none is dropped. *)
DropsText(descrs, word) ==
    /\ IsOptWord(word) /\ IsLong(word) /\ Len(word) > 2
    /\ \E d \in descrs : d.long_name = word[2] /\ ~d.has_arg

SpellWords(descrs, found, words) ==
    (\A i \in DOMAIN words : ~DropsText(descrs, words[i])) =>
        Canonical(descrs, Spelled(found)) = Canonical(descrs, FlattenSeq(words))

(* Each word, and each letter of a group, is used once and in order: the   *)
(* items are another spelling of the ingested words, whether an argument   *)
(* is in the word of its option or the next one, and when an unknown       *)
(* option ends the parsing in the middle of a group (return None of        *)
(* parse_short_opts discards what the group gave).                         *)
ItemsSpellWords == SpellWords(opt_descrs, items, Ingested)

=============================================================================
