------------------------------ MODULE Include ------------------------------
(***************************************************************************)
(* Processing of the $include properties of a configuration                *)
(* (config_parse_common.py), the same in versions 2 and 3 of the parser:   *)
(* _process_node_include calls itself, through the callbacks, for the      *)
(* children of a node and for each file it includes.                       *)
(***************************************************************************)
EXTENDS NodeUpdate

CONSTANTS
    Roots,     \* trace (or metadata) nodes the parser may be given
    FileSets,  \* contents of the inclusion files: each maps files to documents
    Found,     \* the file a path leads to in each inclusion directory, in order
    NoFile,    \* it leads to none
    Empty,     \* the document of an empty file
    MaxLevel   \* levels of nested nodes that may include (4 in version 3)

(* A node which includes paths that lead to files or nowhere. *)
IsIncluder(node) == IsNode(node) /\ node.include \in Seq(DOMAIN Found)

ASSUME IncludeAssumption ==
    /\ \A node \in Roots : IsIncluder(node)
    /\ \A files \in FileSets :
        /\ \A f \in DOMAIN files : files[f] = Empty \/ IsIncluder(files[f])
        /\ \A path \in DOMAIN Found : Found[path] \in Seq(DOMAIN files \cup {NoFile})

VARIABLES
    root,           \* the node the parser was given
    docs,           \* content of the files
    ignore,         \* ignore_include_not_found
    include_stack,  \* files being included, the parser's own account
    frames,         \* nodes being processed, the innermost one last
    status,         \* "running", "done", or why the configuration is refused
    result          \* the effective node

vars == << root, docs, ignore, include_stack, frames, status, result >>

-----------------------------------------------------------------------------

(* The first inclusion directory that has the file wins. *)
Located(path) ==
    LET there == {i \in DOMAIN Found[path] : Found[path][i] # NoFile}
    IN IF there = {} THEN NoFile ELSE Found[path][Min(there)]

(* Mutant of Recursive: compare with the innermost file only. *)
IncludesItself(file) == include_stack # << >> /\ Last(include_stack) = file

Recursive(file) == file \in Range(include_stack)

(* What the processing of one node keeps: base is << >> or the current     *)
(* base node, pending the children to process and todo the paths to        *)
(* include; for says what the effective node is for.                       *)
Frame(node, level, for) ==
    [node |-> [node EXCEPT !.include = << >>], level |-> level, for |-> for,
     base |-> << >>, todo |-> node.include,
     pending |-> IF level < MaxLevel THEN DOMAIN node.children ELSE {}]

ForRoot == [what |-> "root", of |-> << >>]
ForChild(name) == [what |-> "child", of |-> << name >>]
ForFile(file) == [what |-> "file", of |-> << file >>]

Top == Last(frames)

(* Replaces the innermost frame. *)
Within(frame) == Append(Front(frames), frame)

Init ==
    /\ docs \in FileSets
    /\ ignore \in BOOLEAN
    /\ include_stack = << >>
    /\ root \in Roots
    /\ frames = << Frame(root, 1, ForRoot) >>
    /\ status = "running"
    /\ result = << >>

(* Children first (process_children_include_cb). *)
ProcessChild ==
    /\ status = "running"
    /\ \E name \in Top.pending :
            frames' = Append(Within([Top EXCEPT !.pending = @ \ {name}]),
                             Frame(Top.node.children[name], Top.level + 1, ForChild(name)))
    /\ UNCHANGED << root, docs, ignore, include_stack, status, result >>

(* The next path to include, once the children are done. *)
MayInclude ==
    /\ status = "running"
    /\ Top.pending = {}
    /\ Top.todo # << >>

NextFile == Located(Head(Top.todo))

SkipPath == [Top EXCEPT !.todo = Tail(@)]

Refuse(reason) ==
    /\ status' = reason
    /\ UNCHANGED << root, docs, ignore, include_stack, frames, result >>

NotFound ==
    /\ MayInclude
    /\ NextFile = NoFile
    /\ ~ignore
    /\ Refuse("not found")

IgnoreNotFound ==
    /\ MayInclude
    /\ NextFile = NoFile
    /\ ignore
    /\ frames' = Within(SkipPath)
    /\ UNCHANGED << root, docs, ignore, include_stack, status, result >>

RefuseRecursive ==
    /\ MayInclude
    /\ NextFile # NoFile
    /\ Recursive(NextFile)
    /\ Refuse("recursive")

(* The content of the file is a node. *)
LoadInclude ==
    /\ MayInclude
    /\ NextFile # NoFile
    /\ ~Recursive(NextFile)
    /\ docs[NextFile] # Empty
    /\ include_stack' = Append(include_stack, NextFile)
    /\ frames' = Append(Within(SkipPath), Frame(docs[NextFile], Top.level, ForFile(NextFile)))
    /\ UNCHANGED << root, docs, ignore, status, result >>

(* An empty document is None to _process_node_include, as a file that was  *)
(* not found.                                                              *)
LoadEmpty ==
    /\ MayInclude
    /\ NextFile # NoFile
    /\ ~Recursive(NextFile)
    /\ docs[NextFile] = Empty
    /\ include_stack' = Append(include_stack, NextFile)
    /\ frames' = Within(SkipPath)
    /\ UNCHANGED << root, docs, ignore, status, result >>

(* Mutant of Overlay: the file included first wins. *)
OverlayUnder(base, node) == IF base = << >> THEN node ELSE Patch(node, base[1])

Overlay(base, node) == IF base = << >> THEN node ELSE Patch(base[1], node)

(* Every child is processed and every file included. *)
Processed == status = "running" /\ Top.pending = {} /\ Top.todo = << >>

Effective == Overlay(Top.base, Top.node)

(* Hands the effective node over to the frame below. *)
Return ==
    /\ Processed
    /\ Len(frames) > 1
    /\ LET caller == frames[Len(frames) - 1]
           of == Top.for.of[1]
           below == SubSeq(frames, 1, Len(frames) - 2) IN
        \/ /\ Top.for.what = "child"
           /\ frames' = Append(below, [caller EXCEPT !.node.children[of] = Effective])
           /\ UNCHANGED include_stack
        \/ /\ Top.for.what = "file"
           /\ frames' = Append(below, [caller EXCEPT !.base = << Overlay(@, Effective) >>])
           /\ include_stack' = Front(include_stack)
    /\ UNCHANGED << root, docs, ignore, status, result >>

Finish ==
    /\ Processed
    /\ Len(frames) = 1
    /\ result' = << Effective >>
    /\ status' = "done"
    /\ UNCHANGED << root, docs, ignore, include_stack, frames >>

Next ==
    \/ ProcessChild
    \/ NotFound
    \/ IgnoreNotFound
    \/ RefuseRecursive
    \/ LoadInclude
    \/ LoadEmpty
    \/ Return
    \/ Finish

Spec == Init /\ [][Next]_vars

-----------------------------------------------------------------------------

(* The files whose content is being processed. *)
Including(i) == Range(frames[i].for.of)

(* A file is never processed inside itself, under whatever path and at     *)
(* whatever level it is included: inclusion comes to an end.               *)
NoFileInsideItself ==
    \A i, j \in DOMAIN frames :
        i < j /\ frames[i].for.what = "file" /\ frames[j].for.what = "file" =>
            Including(i) # Including(j)

(* A configuration is refused for a recursive inclusion only if the file   *)
(* is being included (the message of _load_include).                       *)
OnlyCyclesRefused ==
    status = "recursive" =>
        \E i \in DOMAIN frames :
            frames[i].for.what = "file" /\ Including(i) = {NextFile}

(* Every document is the map it is meant to be. *)
DocumentsAreMaps ==
    /\ HasUniqueMembers(root)
    /\ \A f \in DOMAIN docs : docs[f] = Empty \/ HasUniqueMembers(docs[f])

(* An ordered map stays one: no layer adds a member beside the one of the  *)
(* same name (_update_node).                                               *)
MembersStayUnique ==
    DocumentsAreMaps => \A i \in DOMAIN result : HasUniqueMembers(result[i])

=============================================================================
