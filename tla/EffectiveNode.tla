---------------------------- MODULE EffectiveNode ----------------------------
(***************************************************************************)
(* What inclusion makes of nested nodes, and the effective node compared   *)
(* with what the documents mean, which is defined without the updates.     *)
(***************************************************************************)
EXTENDS Include

(* _update_node calls itself for what two maps both have, *)
RECURSIVE PatchValues(_, _)
PatchValues(base, over) ==
    LET Update(items, item) ==
            UpdateMember(items, item, PatchValues(Nested(items, item), item.value))
    IN IF AreMaps(base, over)
       THEN [kind |-> over.kind, items |-> FoldLeft(Update, base.items, over.items)]
       ELSE ReplaceOrExtend(base, over)

(* and for the nodes that two nodes both have. *)
RECURSIVE PatchNodes(_, _)
PatchNodes(base, over) ==
    [c \in Shared(base, over) |->
        Patched(base[c], over[c], PatchNodes(base[c].children, over[c].children))]
    @@ over @@ base

-----------------------------------------------------------------------------

(* What values in layers say together: the last one, with what those just  *)
(* before it, of the same kind, say too.  Names come in the order of their *)
(* first layer, and the values of a name are layers in turn.               *)
RECURSIVE ValueOf(_)
ValueOf(values) ==
    LET kind == Last(values).kind
        layers == SubSeq(values, SelectLastInSeq(values, LAMBDA v : v.kind # kind) + 1, Len(values))
        items == FlattenSeq([i \in DOMAIN layers |-> layers[i].items])
        said(name) == SelectSeq(items, LAMBDA m : m.name = name)
        first == SetToSortSeq({i \in DOMAIN items : \A j \in 1 .. i - 1 : items[j].name # items[i].name},
                              LAMBDA i, j : i < j)
    IN IF kind = "scalar" THEN Last(values)
       ELSE IF kind = "list" THEN List(items)
       ELSE [kind |-> kind,
             items |-> [i \in DOMAIN first |->
                LET layer == said(items[first[i]].name)
                IN Item(layer[1].name, ValueOf([j \in DOMAIN layer |-> layer[j].value]))]]

(* What the layers of a node say together, name by name. *)
RECURSIVE NodeOf(_)
NodeOf(layers) ==
    LET Said(field(_), k) == SelectSeq(layers, LAMBDA l : k \in DOMAIN field(l))
        Names(field(_)) == UNION {DOMAIN field(layers[i]) : i \in DOMAIN layers}
        Each(field(_), k) == [i \in DOMAIN Said(field, k) |-> field(Said(field, k)[i])[k]]
        Props(l) == l.props
        Children(l) == l.children
    IN Node(FlattenSeq([i \in DOMAIN layers |-> layers[i].include]),
            [k \in Names(Props) |-> ValueOf(Each(Props, k))],
            [c \in Names(Children) |-> NodeOf(Each(Children, c))])

(* What a node means: its layers are the files that it includes, in their  *)
(* order, and then itself, each with what its children and inclusions mean *)
(* themselves.                                                             *)
RECURSIVE Meaning(_, _)
Meaning(node, level) ==
    LET own == [node EXCEPT
                    !.include = << >>,
                    !.children = IF level < MaxLevel
                                 THEN [c \in DOMAIN @ |-> Meaning(@[c], level + 1)]
                                 ELSE @]
        files == SelectSeq([i \in DOMAIN node.include |-> Located(node.include[i])],
                           LAMBDA f : f # NoFile /\ docs[f] # Empty)
        layers == [i \in DOMAIN files |-> Meaning(docs[files[i]], level)] \o << own >>
    IN NodeOf(layers)

(* The effective configuration is what the files mean, although nodes are  *)
(* updated in place, two at a time, while other files are being included.  *)
EffectiveIsMeaning ==
    status = "done" => result = << Meaning(root, 1) >>

=============================================================================
