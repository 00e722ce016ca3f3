----------------------------- MODULE NodeUpdate -----------------------------
(***************************************************************************)
(* How an overlay node patches a base node: _update_node of                *)
(* config_parse_common.py, in place in the code.                           *)
(***************************************************************************)
EXTENDS Naturals, Sequences, SequencesExt, FiniteSetsExt

CONSTANTS
    PatchNested(_, _),  \* the same for the values in maps (see EffectiveNode)
    PatchChildren(_, _) \* the same for nested nodes (see EffectiveNode)

(* A node: what it includes, its own properties, and its child nodes that  *)
(* may include.  A value is a scalar, a list, a map or, in the property    *)
(* named members, a list of maps of one item which stands for a map.  What *)
(* a map holds are its items, each a name and a value.                     *)
Node(include, props, children) ==
    [include |-> include, props |-> props, children |-> children]

Scalar(v) == [kind |-> "scalar", items |-> << v >>]
List(items) == [kind |-> "list", items |-> items]
Members(items) == [kind |-> "members", items |-> items]
Map(items) == [kind |-> "map", items |-> items]
Item(name, value) == [name |-> name, value |-> value]

IsValue(v) ==
    /\ v = [kind |-> v.kind, items |-> v.items]
    /\ v.kind \in {"scalar", "list", "members", "map"}
    /\ v.items \in Seq(Range(v.items))

IsNode(node) ==
    /\ node = Node(node.include, node.props, node.children)
    /\ \A k \in DOMAIN node.props : IsValue(node.props[k])

(* update_members_node, and _update_node for a map: the value that an item *)
(* has is patched by that of the one of its name, which else comes last.   *)
Same(items, item) == {i \in DOMAIN items : items[i].name = item.name}

Nested(items, item) == items[Min(Same(items, item))].value

UpdateMember(items, item, patched) ==
    IF Same(items, item) = {} THEN Append(items, item)
    ELSE [items EXCEPT ![Min(Same(items, item))] = Item(item.name, patched)]

Updated(items, item) == UpdateMember(items, item, PatchNested(Nested(items, item), item.value))

(* What is not a map is replaced, but a list after a list extends it. *)
AreMaps(base, over) == base.kind = over.kind /\ over.kind \in {"members", "map"}

ReplaceOrExtend(base, over) ==
    IF base.kind = "list" /\ over.kind = "list" THEN List(base.items \o over.items) ELSE over

(* Mutant of PatchValue: members are appended like the items of a list. *)
AppendMembers(base, over) ==
    IF AreMaps(base, over) THEN [kind |-> over.kind, items |-> base.items \o over.items]
    ELSE ReplaceOrExtend(base, over)

PatchValue(base, over) ==
    IF AreMaps(base, over)
    THEN [kind |-> over.kind, items |-> FoldLeft(Updated, base.items, over.items)]
    ELSE ReplaceOrExtend(base, over)

(* Properties of both nodes patch each other; the others are copied. *)
Shared(base, over) == DOMAIN base \cap DOMAIN over

PatchProps(base, over) ==
    [k \in DOMAIN base \cup DOMAIN over |->
        IF k \in Shared(base, over) THEN PatchValue(base[k], over[k])
        ELSE IF k \in DOMAIN over THEN over[k] ELSE base[k]]

Patched(base, over, children) ==
    Node(base.include \o over.include, PatchProps(base.props, over.props), children)

Patch(base, over) == Patched(base, over, PatchChildren(base.children, over.children))

(* No two members of a node's structure have the same name. *)
HasUniqueMembers(node) ==
    \A k \in DOMAIN node.props :
        node.props[k].kind = "members" =>
            \A i, j \in DOMAIN node.props[k].items :
                node.props[k].items[i].name = node.props[k].items[j].name => i = j

=============================================================================
