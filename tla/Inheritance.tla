----------------------------- MODULE Inheritance -----------------------------
(***************************************************************************)
(* Field type inheritance, once the aliases are expanded, and the          *)
(* effective trace type compared with what the documents mean.             *)
(***************************************************************************)
EXTENDS Aliases

Inherit == "$inherit"

(* _update_node, for field types. *)
RECURSIVE Patch(_, _)
Patch(base, over) ==
    Node([k \in DOMAIN base.props \cup DOMAIN over.props |->
            IF k \in DOMAIN over.props THEN over.props[k] ELSE base.props[k]],
         [p \in DOMAIN base.parts \cup DOMAIN over.parts |->
            IF p \notin DOMAIN base.parts THEN over.parts[p]
            ELSE IF p \notin DOMAIN over.parts THEN base.parts[p]
            ELSE Patch(base.parts[p], over.parts[p])])

Without(node, part) ==
    [node EXCEPT !.parts = [p \in DOMAIN @ \ {part} |-> @[p]]]

(* Mutant of ApplyFtInheritance: parts of the inheriting node only. *)
RECURSIVE ApplyFtInheritanceOnce(_)
ApplyFtInheritanceOnce(node) ==
    LET own == [node EXCEPT !.parts =
                    [p \in DOMAIN @ |-> IF p = Inherit THEN @[p] ELSE ApplyFtInheritanceOnce(@[p])]]
    IN IF Inherit \in DOMAIN node.parts
       THEN Patch(own.parts[Inherit], Without(own, Inherit))
       ELSE own

(* _apply_ft_inheritance: the parts first, then the node itself. *)
RECURSIVE ApplyFtInheritance(_)
ApplyFtInheritance(node) ==
    LET own == [node EXCEPT !.parts = [p \in DOMAIN @ |-> ApplyFtInheritance(@[p])]]
    IN IF Inherit \in DOMAIN node.parts
       THEN Patch(own.parts[Inherit], Without(own, Inherit))
       ELSE own

-----------------------------------------------------------------------------

(* What a value means, following names and inheritance as they come. *)
RECURSIVE Meaning(_)
Meaning(value) ==
    IF value.ref THEN Meaning(aliases0[value.name])
    ELSE LET own == Node(value.props,
                         [p \in DOMAIN value.parts \ {Inherit} |-> Meaning(value.parts[p])])
         IN IF Inherit \in DOMAIN value.parts
            THEN Patch(Meaning(value.parts[Inherit]), own)
            ELSE own

(* Expanding in place, sharing resolved aliases and only then applying     *)
(* inheritance gives each field type its meaning.                          *)
EffectiveIsMeaning == status = "done" => result = << Meaning(root) >>

=============================================================================
