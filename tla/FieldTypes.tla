----------------------------- MODULE FieldTypes -----------------------------
(***************************************************************************)
(* Field types of structure members: their nodes in an effective           *)
(* configuration (config_parse_v3.py) and the objects created from them    *)
(* (config.py).  A field type is described by its deepest element: dims    *)
(* holds the lengths of the arrays around it, the outermost first.         *)
(***************************************************************************)
EXTENDS Integers, FiniteSets, SequencesExt

CONSTANTS
    BadNames,  \* member names that are not valid identifiers
    NoClock    \* no clock type

Dynamic == -1

(* No member has this name: an identifier is not empty. *)
NoName == ""

(* The elements that pass a test, in their order. *)
Where(seq, Test(_)) ==
    FlattenSeq([i \in DOMAIN seq |-> IF Test(seq[i]) THEN << seq[i] >> ELSE << >>])

(* A member node; mappings: the sequence of ranges of each label. *)
MemberNode(name, class, size, dims, mappings) ==
    [name |-> name, class |-> class, size |-> size, dims |-> dims, mappings |-> mappings]

(* Normalized class names *)
ClassAliases ==
    [c \in {"uint", "unsigned-int", "sint", "signed-int", "uenum", "unsigned-enum",
            "senum", "signed-enum", "str", "struct"} |->
        CASE c \in {"uint", "unsigned-int"} -> "unsigned-integer"
          [] c \in {"sint", "signed-int"} -> "signed-integer"
          [] c \in {"uenum", "unsigned-enum"} -> "unsigned-enumeration"
          [] c \in {"senum", "signed-enum"} -> "signed-enumeration"
          [] c = "str" -> "string"
          [] c = "struct" -> "structure"]

NormalizeMembers(nodes) ==
    [i \in DOMAIN nodes |->
        IF nodes[i].class \in DOMAIN ClassAliases
        THEN [nodes[i] EXCEPT !.class = ClassAliases[@]]
        ELSE nodes[i]]

-----------------------------------------------------------------------------
(* Structure field type members: an ordered map.  Field types are objects: *)
(* len_of is the dynamic array that has this one as its length.            *)

Member(name, class, size, dims, mappings, clk, len_of) ==
    [name |-> name, class |-> class, size |-> size, dims |-> dims, mappings |-> mappings,
     clk |-> clk, len_of |-> len_of]

UInt(name, size, clk) ==
    Member(name, "unsigned-integer", size, << >>, << >>, clk, NoName)

SetMember(members, member) ==
    LET same == {i \in DOMAIN members : members[i].name = member.name} IN
    IF same = {} THEN Append(members, member)
    ELSE [i \in DOMAIN members |-> IF i \in same THEN member ELSE members[i]]

IsDynamicArray(m) == m.dims # << >> /\ m.dims[1] = Dynamic

LenMember(name) ==
    Member("__" \o name \o "_len", "unsigned-integer", 32, << >>, << >>, NoClock, name)

(* Nodes that are named, no two of them with the same length. *)
AreNamed(nodes) ==
    /\ nodes \in Seq(Range(nodes))
    /\ \A n \in Range(nodes) : n.name # NoName
    /\ \A n, o \in Range(nodes) :
           LenMember(n.name).name = LenMember(o.name).name => n.name = o.name

(* What the nodes of a structure's members have *)
IsStructNode(nodes) ==
    /\ AreNamed(nodes)
    /\ \A n \in Range(nodes) : n = MemberNode(n.name, n.class, n.size, n.dims, n.mappings)

(* No member has the name that is the one of the length of another. *)
LengthsAreFree(nodes) ==
    \A a, n \in Range(nodes) : IsDynamicArray(a) => n.name # LenMember(a.name).name

CreateFt(node) ==
    Member(node.name, node.class, node.size, node.dims,
           [label \in DOMAIN node.mappings |-> Range(node.mappings[label])], NoClock, NoName)

(* Mutant of AddMember: the length follows its array. *)
AddMemberLenLast(members, node) ==
    LET added == SetMember(members, CreateFt(node)) IN
    IF IsDynamicArray(node) THEN SetMember(added, LenMember(node.name)) ELSE added

(* A dynamic array brings a member of its own for its length. *)
AddMember(members, node) ==
    SetMember(IF IsDynamicArray(node) THEN SetMember(members, LenMember(node.name))
              ELSE members,
              CreateFt(node))

CreateStructFtMembers(nodes) == FoldLeft(AddMember, << >>, nodes)

DuplicateMember(nodes) ==
    \E i, j \in DOMAIN nodes : i < j /\ nodes[i].name = nodes[j].name

(* Structures are not nested, dynamic arrays are not elements. *)
InvalidFt(node) ==
    \/ node.class = "structure"
    \/ \E i \in 2 .. Len(node.dims) : node.dims[i] = Dynamic

InvalidMembers(nodes) ==
    \/ DuplicateMember(nodes)
    \/ \E n \in Range(nodes) : n.name \in BadNames \/ InvalidFt(n)

-----------------------------------------------------------------------------

SizeIsDynamic(m) == m.class = "string" \/ IsDynamicArray(m)

(* _set_dyn_array_ft_length_ft_member_names *)
LenOf(members, array) == SelectInSeq(members, LAMBDA m : m.len_of = array.name)

LenName(members, array) ==
    LET i == LenOf(members, array) IN IF i = 0 THEN NoName ELSE members[i].name

IsLen(members, m) ==
    m.len_of # NoName /\ \E a \in Range(members) : IsDynamicArray(a) /\ a.name = m.len_of

=============================================================================
