----------------------------- MODULE MCAliases -----------------------------
(***************************************************************************)
(* Three aliases, each of which may be another name of an alias, a leaf or *)
(* a node that inherits and has a member; two field types that use them.   *)
(***************************************************************************)
EXTENDS Inheritance

Leaf(v) == Node([size |-> v], << >>)

(* A reference, or a node that inherits and itself has a member. *)
ValuesOf(self) ==
    {Ref("a"), Ref("b"), Leaf(self),
     Node([align |-> self], [element |-> Ref("c")])}
        \cup {Node([align |-> self], Inherit :> i @@ "m" :> m) :
                i \in {Ref("a"), Ref("b"), Ref("c"), Node(<< >>, Inherit :> Ref("c"))},
                m \in {Ref("b"), Ref("c"), Leaf(self)}}

SomeAliases ==
    {"a" :> a @@ "b" :> b @@ "c" :> c :
        a \in ValuesOf("a"), b \in ValuesOf("b"), c \in ValuesOf("c") \cup {Ref("missing")}}

SomeRoots ==
    {Node(<< >>, [payload |-> Ref("a"), context |-> Node([class |-> "struct"], [m |-> v, n |-> Ref("b")])]) :
        v \in {Ref("a"), Node([size |-> "own"], Inherit :> Ref("a"))}}

=============================================================================
