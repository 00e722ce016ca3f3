------------------------------ MODULE OpBuilder ------------------------------
(***************************************************************************)
(* How the C code generator lays out a root structure (_OpBuilder of       *)
(* cgen.py) and what the generated statements do when they run.            *)
(*                                                                         *)
(* The builder turns each member into "align" and "write" operations and   *)
(* follows, when it can, the offset of the next bit within its byte: a     *)
(* write operation whose offset it knows gets it as a literal instead of   *)
(* the expression ctx->at % 8.  Here every member is built, then its       *)
(* operations run at once, so that what the builder believes can be        *)
(* compared with where the generated code is.                              *)
(***************************************************************************)
EXTENDS Layout, Sequences, FiniteSetsExt

CONSTANTS
    Structures,  \* root structures: [min_align, members]
    Starts,      \* run-time offsets where a structure may start
    ByteSizes,   \* run-time sizes, in bits, of a string
    MaxLength    \* bound: elements written for one array member

(* A member: a bit array or a string (a UUID is written like a string) in  *)
(* depth nested arrays; dynamic tells which of these, from the outermost   *)
(* one, at 0, are dynamic arrays.                                          *)
Member == [kind : {"bits", "bytes"}, align : Nat \ {0}, size : Nat, depth : Nat,
           dynamic : SUBSET Nat]

Alignments(s) == {s.min_align} \cup {s.members[i].align : i \in DOMAIN s.members}

(* Alignments are powers of two, of which one that is not above another     *)
(* divides it; strings are aligned to bytes.                               *)
ASSUME OpBuilderAssumption ==
    /\ \A s \in Structures :
        /\ s.min_align \in Nat \ {0}
        /\ s.members \in Seq(Member)
        /\ \A a, b \in Alignments(s) \cup {8} : a <= b => b % a = 0
        /\ \A i \in DOMAIN s.members :
            s.members[i].kind = "bytes" => s.members[i].align % 8 = 0
    /\ Starts \subseteq Nat
    /\ \A size \in ByteSizes : size \in Nat /\ size % 8 = 0
    /\ MaxLength \in Nat

(* Mutant of Accepted: a dynamic array may be an element too. *)
AcceptedNested(member) == TRUE

(* The configuration parser rejects an array of dynamic arrays. *)
Accepted(member) == member.dynamic \subseteq {0}

(* Mutant of StructAlign: the minimum alignment only. *)
StructMinAlign(s) == s.min_align

(* StructureFieldType._set_alignment *)
StructAlign(s) == Max(Alignments(s))

VARIABLES
    struct,     \* the structure
    offset,     \* builder: offset in the current byte, or Unknown
    level,      \* builder: how many arrays deep
    op_offset,  \* offset_in_byte of the current write operation
    current,    \* index of the current member
    at,         \* run time: ctx->at
    base,       \* history: offset where the structure begins
    rel,        \* the offset of the same operations run from offset 0
    written,    \* run time: elements written for the current member
    pc

vars == << struct, offset, level, op_offset, current, at, base, rel, written, pc >>

Unknown == -1

Offsets == {Unknown} \cup 0 .. 7

member == struct.members[current]

HasMember == current <= Len(struct.members)

-----------------------------------------------------------------------------
(* The builder. *)

(* Mutant of TryAlign: array elements are treated like other fields. *)
TryAlignOnce(off, align, in_array) ==
    IF off = Unknown
    THEN IF align % 8 = 0 THEN 0 ELSE Unknown
    ELSE AlignUp(off, align) % 8

(* try_create_align_op: the offset after aligning; inside an array it is   *)
(* not the same for each element.                                          *)
TryAlign(off, align, in_array) ==
    IF off = Unknown /\ align % 8 = 0 THEN 0
    ELSE IF in_array \/ off = Unknown THEN Unknown
    ELSE AlignUp(off, align) % 8

(* create_write_op: the offset after writing. *)
AfterWrite(off, m) ==
    IF m.kind = "bits" /\ off # Unknown THEN (off + m.size) % 8 ELSE off

-----------------------------------------------------------------------------

(* The builder of a structure also built those before it (create_ds_ops    *)
(* shares it, or copies it for each event record type), so that it may     *)
(* come with any offset.                                                   *)
Init ==
    /\ struct \in {s \in Structures : \A i \in DOMAIN s.members : Accepted(s.members[i])}
    /\ at \in Starts
    /\ base = 0
    /\ rel = 0
    /\ offset \in Offsets
    /\ op_offset = Unknown
    /\ level = 0
    /\ current = 1
    /\ written = 0
    /\ pc = "struct"

(* Mutant of BeginStruct: goes on from the offset of the structure before. *)
BeginStructKeeping ==
    /\ pc = "struct"
    /\ offset' = TryAlign(offset, StructAlign(struct), FALSE)
    /\ at' = AlignUp(at, StructAlign(struct))
    /\ base' = at'
    /\ pc' = "build"
    /\ UNCHANGED << struct, level, op_offset, current, rel, written >>

(* A structure begins: build and run its align operation. *)
BeginStruct ==
    /\ pc = "struct"
    /\ offset' = TryAlign(Unknown, StructAlign(struct), FALSE)
    /\ at' = AlignUp(at, StructAlign(struct))
    /\ base' = at'
    /\ pc' = "build"
    /\ UNCHANGED << struct, level, op_offset, current, rel, written >>

(* Build one array around the current member: its align operation.  Static  *)
(* arrays, like structures, start over from an unknown offset.             *)
BuildArray ==
    /\ pc = "build"
    /\ HasMember
    /\ level < member.depth
    /\ offset' = TryAlign(IF level \in member.dynamic THEN offset ELSE Unknown,
                          member.align, level > 0)
    /\ level' = level + 1
    /\ UNCHANGED << struct, op_offset, current, at, base, rel, written, pc >>

(* Build the leaf's align and write operations, and run the outermost align *)
(* operation.                                                              *)
BuildLeaf ==
    /\ pc = "build"
    /\ HasMember
    /\ level = member.depth
    /\ op_offset' = TryAlign(offset, member.align, level > 0)
    /\ offset' = AfterWrite(op_offset', member)
    /\ level' = 0
    /\ at' = AlignUp(at, member.align)
    /\ rel' = AlignUp(rel, member.align)
    /\ pc' = "run"
    /\ UNCHANGED << struct, current, base, written >>

(* Run the align operation of one element, or of the only one. *)
AlignElement ==
    /\ pc = "run"
    /\ written < IF member.depth = 0 THEN 1 ELSE MaxLength
    /\ at' = AlignUp(at, member.align)
    /\ rel' = AlignUp(rel, member.align)
    /\ pc' = "write"
    /\ UNCHANGED << struct, offset, level, op_offset, current, base, written >>

(* Run its write operation. *)
WriteElement ==
    /\ pc = "write"
    /\ \E size \in IF member.kind = "bits" THEN {member.size} ELSE ByteSizes :
            /\ at' = at + size
            /\ rel' = rel + size
    /\ written' = written + 1
    /\ pc' = "run"
    /\ UNCHANGED << struct, offset, level, op_offset, current, base >>

EndMember ==
    /\ pc = "run"
    /\ member.depth = 0 => written = 1
    /\ current' = current + 1
    /\ written' = 0
    /\ pc' = "build"
    /\ UNCHANGED << struct, offset, level, op_offset, at, base, rel >>

Next ==
    \/ BeginStruct
    \/ BuildArray
    \/ BuildLeaf
    \/ AlignElement
    \/ WriteElement
    \/ EndMember

Spec == Init /\ [][Next]_vars

-----------------------------------------------------------------------------

(* A literal offset in the generated code is where the code is when it     *)
(* runs, in every iteration of every loop.                                 *)
LiteralOffset == pc = "write" /\ op_offset # Unknown => op_offset = at % 8

(* Between two members what the builder knows is true, whatever the        *)
(* lengths of the arrays and strings before (an array may be empty).       *)
KnownOffset == pc = "build" /\ level = 0 /\ offset # Unknown => offset = at % 8

(* A structure has the same layout wherever it begins: the size functions  *)
(* and the tracing functions may treat it as an alignment and a size.      *)
PositionIndependent == pc # "struct" => at = base + rel

=============================================================================
