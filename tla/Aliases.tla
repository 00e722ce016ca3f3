------------------------------ MODULE Aliases ------------------------------
(***************************************************************************)
(* Expansion of field type aliases and field type inheritance              *)
(* (config_parse_common.py): first _resolve_ft_alias replaces, in place    *)
(* and recursively, every alias name by a copy of what it names, then      *)
(* _apply_ft_inheritance patches each node over the one it inherits.       *)
(***************************************************************************)
EXTENDS Naturals, Sequences, SequencesExt

CONSTANTS
    Roots,     \* trace types: a node whose parts are all the field types
    AliasMaps, \* $field-type-aliases nodes: each maps names to values
    MaxDepth,  \* how deep field types are looked into: to where they end
    ApplyInheritance(_) \* _apply_ft_inheritance (see Inheritance)

(* A value is an alias name or a field type node.  A node has properties   *)
(* of its own and parts, which are values: what it inherits, its element   *)
(* field type, its members.                                                *)
Ref(alias) == [ref |-> TRUE, name |-> alias, props |-> << >>, parts |-> << >>]
Node(props, parts) == [ref |-> FALSE, name |-> "", props |-> props, parts |-> parts]

(* The values nested in a value, by depth. *)
Nested(value) ==
    LET level[n \in 0 .. MaxDepth] ==
            IF n = 0 THEN {value}
            ELSE UNION {{v.parts[p] : p \in DOMAIN v.parts} : v \in level[n - 1]}
    IN level

Within(value) == UNION Range(Nested(value))

IsValue(value) ==
    /\ value = [ref |-> value.ref, name |-> value.name, props |-> value.props, parts |-> value.parts]
    /\ value.ref \in BOOLEAN

IsTree(value) ==
    /\ \A v \in Within(value) : IsValue(v)
    /\ \A v \in Nested(value)[MaxDepth] : DOMAIN v.parts = {}

ASSUME AliasesAssumption ==
    /\ MaxDepth \in Nat
    /\ \A node \in Roots : IsTree(node) /\ ~node.ref
    /\ \A map \in AliasMaps : \A a \in DOMAIN map : IsTree(map[a])

(* The aliases a value names, directly or in its parts. *)
Names(value) == {v.name : v \in {w \in Within(value) : w.ref}}

VARIABLES
    root,       \* the trace type before expansion
    aliases0,   \* the aliases before expansion
    aliases,    \* ft_aliases_node
    resolved,   \* _resolved_ft_aliases
    alias_set,  \* aliases being expanded, the parser's own account
    frames,     \* nodes being expanded, the innermost one last
    status,     \* "expanding", "inheriting", "done", or why it is refused
    result      \* the effective trace type

vars == << root, aliases0, aliases, resolved, alias_set, frames, status, result >>

-----------------------------------------------------------------------------

(* Calls of _resolve_ft_alias for the parts of a node; for says what the   *)
(* expanded node is for: the trace type itself, of which a barectf 2       *)
(* metadata node has fewer parts than a barectf 3 trace type, or another.  *)
Frame(node, for) == [node |-> node, for |-> for, pending |-> DOMAIN node.parts]

ForRoot == [what |-> "root", name |-> ""]
ForAlias(alias) == [what |-> "alias", name |-> alias]
ForPart(part) == [what |-> "part", name |-> part]

Top == Last(frames)

Below == Front(frames)

(* The frame after one of its parts is expanded. *)
Done(frame, part, value) ==
    [frame EXCEPT !.pending = @ \ {part}, !.node.parts[part] = value]

Init ==
    /\ root \in Roots
    /\ aliases0 \in AliasMaps
    /\ aliases = aliases0
    /\ resolved = {}
    /\ alias_set = {}
    /\ frames = << Frame(root, ForRoot) >>
    /\ status = "expanding"
    /\ result = << >>

(* The set is created anew for each field type of the trace type. *)
Encountered == IF Len(frames) = 1 THEN {} ELSE alias_set

(* The parts to expand which are, and are not, alias names. *)
AliasParts == {p \in Top.pending : status = "expanding" /\ Top.node.parts[p].ref}
NodeParts == {p \in Top.pending : status = "expanding" /\ ~Top.node.parts[p].ref}

Refuse(reason) ==
    /\ status' = reason
    /\ UNCHANGED << root, aliases0, aliases, resolved, alias_set, frames, result >>

NoSuchAlias ==
    \E p \in AliasParts :
        /\ Top.node.parts[p].name \notin DOMAIN aliases
        /\ Refuse("no such alias")

(* The check for cycles: not for resolved aliases. *)
OnCycle(alias) == alias \in DOMAIN aliases \ resolved /\ alias \in Encountered

CycleDetected ==
    \E p \in AliasParts :
        /\ OnCycle(Top.node.parts[p].name)
        /\ Refuse("cycle")

(* Mutant of ResolveAlias: the alias is recorded as resolved too early. *)
ResolveAliasEarly ==
    \E p \in AliasParts :
        LET alias == Top.node.parts[p].name IN
        /\ alias \in DOMAIN aliases \ resolved
        /\ alias \notin Encountered
        /\ alias_set' = Encountered \cup {alias}
        /\ resolved' = resolved \cup {alias}
        /\ frames' = Append(frames, Frame(Node(<< >>, [value |-> aliases[alias]]), ForAlias(alias)))
        /\ UNCHANGED << root, aliases0, aliases, status, result >>

(* Resolve an alias where it is defined: its value is the only part. *)
ResolveAlias ==
    \E p \in AliasParts :
        LET alias == Top.node.parts[p].name IN
        /\ alias \in DOMAIN aliases \ resolved
        /\ alias \notin Encountered
        /\ alias_set' = Encountered \cup {alias}
        /\ frames' = Append(frames, Frame(Node(<< >>, [value |-> aliases[alias]]), ForAlias(alias)))
        /\ UNCHANGED << root, aliases0, aliases, resolved, status, result >>

(* Replace a name by a copy of the resolved node. *)
CopyAlias ==
    \E p \in AliasParts :
        /\ Top.node.parts[p].name \in resolved
        /\ frames' = Append(Below, Done(Top, p, aliases[Top.node.parts[p].name]))
        /\ UNCHANGED << root, aliases0, aliases, resolved, alias_set, status, result >>

(* Expand a nested node in place. *)
EnterNode ==
    \E p \in NodeParts :
        /\ alias_set' = Encountered
        /\ frames' = Append(frames, Frame(Top.node.parts[p], ForPart(p)))
        /\ UNCHANGED << root, aliases0, aliases, resolved, status, result >>

Expanded(what) == status = "expanding" /\ Top.pending = {} /\ Top.for.what = what

(* Mutant of AliasReturns: the alias is not recorded as resolved. *)
AliasReturnsUnrecorded ==
    /\ Expanded("alias")
    /\ aliases' = [aliases EXCEPT ![Top.for.name] = Top.node.parts["value"]]
    /\ frames' = Below
    /\ UNCHANGED << root, aliases0, resolved, alias_set, status, result >>

(* The alias is resolved; its user copies it next. *)
AliasReturns ==
    /\ Expanded("alias")
    /\ aliases' = [aliases EXCEPT ![Top.for.name] = Top.node.parts["value"]]
    /\ resolved' = resolved \cup {Top.for.name}
    /\ frames' = Below
    /\ UNCHANGED << root, aliases0, alias_set, status, result >>

NodeReturns ==
    /\ Expanded("part")
    /\ frames' = Append(Front(Below), Done(Last(Below), Top.for.name, Top.node))
    /\ UNCHANGED << root, aliases0, aliases, resolved, alias_set, status, result >>

RootReturns ==
    /\ Expanded("root")
    /\ status' = "inheriting"
    /\ UNCHANGED << root, aliases0, aliases, resolved, alias_set, frames, result >>

(* Inheritance, once no name is left. *)
ApplyFtsInheritance ==
    /\ status = "inheriting"
    /\ result' = << ApplyInheritance(Top.node) >>
    /\ status' = "done"
    /\ UNCHANGED << root, aliases0, aliases, resolved, alias_set, frames >>

Next ==
    \/ NoSuchAlias
    \/ CycleDetected
    \/ ResolveAlias
    \/ CopyAlias
    \/ EnterNode
    \/ AliasReturns
    \/ NodeReturns
    \/ RootReturns
    \/ ApplyFtsInheritance

Spec == Init /\ [][Next]_vars

-----------------------------------------------------------------------------

(* An alias that depends on itself. *)
Cyclic(a) ==
    \A S \in SUBSET DOMAIN aliases0 :
        (\A b \in S \cup {a} : Names(aliases0[b]) \cap DOMAIN aliases0 \subseteq S) => a \in S

(* A configuration is refused for a cycle only if there is one: naming an  *)
(* alias several times is no cycle, although the set of encountered        *)
(* aliases is shared by all the nodes of a field type and never shrinks.   *)
OnlyCyclesRefused ==
    \A p \in AliasParts : OnCycle(Top.node.parts[p].name) => Cyclic(Top.node.parts[p].name)

(* A resolved alias, which is copied without further processing, has no    *)
(* name left to resolve: so no copy keeps one.                             *)
ResolvedAreComplete == \A a \in resolved : Names(aliases[a]) = {}

=============================================================================
