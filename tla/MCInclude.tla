----------------------------- MODULE MCInclude -----------------------------
(***************************************************************************)
(* Two inclusion files, one of which has two names, a root node and child  *)
(* nodes that may include.  What each document says of a property is       *)
(* different, so that the order of the layers shows.                       *)
(***************************************************************************)
EXTENDS EffectiveNode

CONSTANTS FileA, FileB

(* In the first directory, then in the second one. *)
TwoDirs ==
    [a |-> << FileA, FileB >>, b |-> << NoFile, FileB >>, link |-> << NoFile, FileA >>,
     none |-> << NoFile, NoFile >>]

Mixed(doc) == IF doc = FileB THEN Scalar("null") ELSE List(<< doc >>)

PropsOf(doc) ==
    [scalar |-> Scalar(doc), list |-> List(<< doc >>),
     members |-> Members(<< Item("x", Map(<< Item(doc, Scalar(doc)), Item("mixed", Mixed(doc)) >>)),
                            Item(doc, Scalar(doc)) >>),
     mixed |-> Mixed(doc)]

Child(doc, include) == [c |-> Node(include, PropsOf(doc), << >>)]

(* Documents that include, and whose child includes. *)
DocsOf(doc, includes, child_includes) ==
    {Node(i, PropsOf(doc), << >>) : i \in includes}
        \cup {Node(i, PropsOf(doc), Child(doc, c)) : i \in includes, c \in child_includes}

SomeRoots ==
    DocsOf("root", {<< >>} \cup {<< p >> : p \in DOMAIN TwoDirs}
                        \cup {<< p, q >> : p, q \in DOMAIN TwoDirs},
           {<< >>, << "a" >>, << "b", "a" >>})

DocsOfFile(file) ==
    {Empty} \cup DocsOf(file, {<< >>, << "a" >>, << "b" >>, << "link" >>, << "none", "b" >>},
                        {<< >>, << "b" >>})

SomeFileSets ==
    {[f \in {FileA, FileB} |-> IF f = FileA THEN a ELSE b] :
        a \in DocsOfFile(FileA), b \in DocsOfFile(FileB)}

=============================================================================
