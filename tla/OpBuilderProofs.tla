--------------------------- MODULE OpBuilderProofs ---------------------------
(***************************************************************************)
(* What the operation builder believes about offsets is true when the      *)
(* generated code runs, for every structure, every start and every length  *)
(* of its arrays and strings.                                              *)
(***************************************************************************)
EXTENDS OpBuilder, LayoutLemmas

(* The alignment of a structure is a multiple of that of each member.      *)
LEMMA StructAlignFacts ==
    ASSUME NEW s \in Structures
    PROVE  /\ StructAlign(s) \in Nat \ {0}
           /\ \A i \in DOMAIN s.members : StructAlign(s) % s.members[i].align = 0
           /\ StructAlign(s) \in Alignments(s)
<1> DEFINE n == Len(s.members)
           T == {s.members[i].align : i \in DOMAIN s.members}
           f == [i \in 1 .. n |-> s.members[i].align]
           A == Alignments(s)
<1>1. /\ s.min_align \in Nat \ {0}
      /\ n \in Nat
      /\ DOMAIN s.members = 1 .. n
      /\ \A i \in 1 .. n : s.members[i] \in Member
  BY OpBuilderAssumption
<1>2. \A i \in 1 .. n : s.members[i].align \in Nat \ {0}
  BY <1>1 DEF Member
<1>3. A = T \cup {s.min_align} /\ A \subseteq Nat \ {0}
  BY <1>1, <1>2 DEF Alignments
<1>4. IsFiniteSet(A)
  <2>1. f \in Surjection(1 .. n, T)
    BY <1>1 DEF Surjection
  <2>2. IsFiniteSet(1 .. n)
    BY <1>1, FS_Interval
  <2> HIDE DEF f, T
  <2>3. IsFiniteSet(T)
    BY <2>1, <2>2, FS_Surjection
  <2> QED
    BY <1>3, <2>3, FS_AddElement
<1>5. \E x \in A : \A y \in A : x >= y
  <2>1. A \in SUBSET Nat /\ A # {}
    BY <1>3
  <2> HIDE DEF A
  <2> QED
    BY <1>4, <2>1, Greatest
<1>6. StructAlign(s) \in A /\ \A y \in A : StructAlign(s) >= y
  BY <1>5 DEF StructAlign, Max
<1>7. \A a, b \in A : a <= b => b % a = 0
  BY OpBuilderAssumption
<1>8. \A i \in DOMAIN s.members : s.members[i].align \in A
  BY DEF Alignments
<1> HIDE DEF A
<1>9. \A i \in DOMAIN s.members : StructAlign(s) % s.members[i].align = 0
  BY <1>3, <1>6, <1>7, <1>8
<1> QED
  BY <1>3, <1>6, <1>9 DEF A

(* An alignment divides a byte or is a number of bytes.                    *)
LEMMA AlignmentAndByte ==
    ASSUME NEW s \in Structures, NEW a \in Alignments(s), a \in Nat \ {0}
    PROVE  8 % a = 0 \/ a % 8 = 0
<1>1. \A x, y \in Alignments(s) \cup {8} : x <= y => y % x = 0
  BY OpBuilderAssumption
<1>2. a <= 8 \/ 8 <= a
  OBVIOUS
<1> QED
  BY <1>1, <1>2

(* Every offset the builder follows is one in a byte.                      *)
LEMMA BuilderOffsets ==
    ASSUME NEW off \in Offsets, NEW a \in Nat \ {0}, NEW in_array \in BOOLEAN
    PROVE  /\ TryAlign(off, a, in_array) \in Offsets
           /\ \A m \in Member : AfterWrite(off, m) \in Offsets
<1>1. TryAlign(off, a, in_array) \in Offsets
  <2>1. CASE off = Unknown
    BY <2>1 DEF TryAlign, Offsets, Unknown
  <2>2. CASE off # Unknown
    <3>1. off \in Nat
      BY <2>2 DEF Offsets
    <3>2. AlignUp(off, a) \in Nat
      BY <3>1, AlignUpBound
    <3>3. AlignUp(off, a) % 8 \in 0 .. 7
      BY <3>2
    <3> QED
      BY <2>2, <3>3 DEF TryAlign, Offsets
  <2> QED
    BY <2>1, <2>2
<1>2. ASSUME NEW m \in Member PROVE AfterWrite(off, m) \in Offsets
  <2>1. m.size \in Nat
    BY DEF Member
  <2>2. (off + m.size) % 8 \in 0 .. 7
    BY <2>1 DEF Offsets, Unknown
  <2> QED
    BY <2>2 DEF AfterWrite, Offsets
<1> QED
  BY <1>1, <1>2

(* Outside arrays, aligning keeps the builder right.                       *)
LEMMA TryAlignOutside ==
    ASSUME NEW off \in Offsets, NEW x \in Nat, NEW a \in Nat \ {0},
           8 % a = 0 \/ a % 8 = 0,
           off # Unknown => off = x % 8,
           TryAlign(off, a, FALSE) # Unknown
    PROVE  TryAlign(off, a, FALSE) = AlignUp(x, a) % 8
<1>1. CASE off = Unknown
  <2>1. a % 8 = 0 /\ TryAlign(off, a, FALSE) = 0
    BY <1>1 DEF TryAlign
  <2>2. AlignUp(x, a) \in Nat /\ AlignUp(x, a) % a = 0
    BY AlignUpBound, AlignUpAligned
  <2>3. AlignUp(x, a) % 8 = 0
    BY <2>1, <2>2, DividesAll
  <2> QED
    BY <2>1, <2>3
<1>2. CASE off # Unknown
  <2>1. TryAlign(off, a, FALSE) = AlignUp(off, a) % 8
    BY <1>2 DEF TryAlign
  <2> QED
    BY <1>2, <2>1, AlignInByte
<1> QED
  BY <1>1, <1>2

(* Writing one field keeps it right. *)
LEMMA AfterWriteRight ==
    ASSUME NEW off \in 0 .. 7, NEW x \in Nat, off = x % 8, NEW m \in Member, NEW size \in Nat,
           IF m.kind = "bits" THEN size = m.size ELSE size % 8 = 0
    PROVE  AfterWrite(off, m) = (x + size) % 8
<1>1. ((x % 8) + size) % 8 = (x + size) % 8
  BY ModOfSum
<1>2. CASE m.kind = "bits"
  BY <1>1, <1>2 DEF AfterWrite, Unknown
<1>3. CASE m.kind # "bits"
  <2>1. (size + x) % 8 = x % 8
    BY <1>3, ModPlusMultiple
  <2> QED
    BY <1>3, <2>1 DEF AfterWrite
<1> QED
  BY <1>2, <1>3

-----------------------------------------------------------------------------

(* The types, and what the builder and the generated code share.           *)
OpType ==
    /\ struct \in Structures
    /\ \A i \in DOMAIN struct.members : Accepted(struct.members[i])
    /\ pc \in {"struct", "build", "run", "write"}
    /\ current \in Nat \ {0}
    /\ level \in Nat
    /\ written \in Nat
    /\ at \in Nat /\ base \in Nat /\ rel \in Nat
    /\ offset \in Offsets /\ op_offset \in Offsets

(* Before the members, nothing is done; then the offsets differ by the     *)
(* base, which is aligned for every member.                                *)
Placed ==
    /\ pc = "struct" => rel = 0 /\ level = 0
    /\ pc \in {"struct", "build"} => written = 0
    /\ pc # "struct" => at = base + rel /\ base % StructAlign(struct) = 0

(* What the builder knows between two members and inside arrays.  In an    *)
(* array of byte-aligned elements it knows too much to emit a literal: a   *)
(* literal would be right for the first element only.                      *)
Building ==
    pc = "build" =>
        /\ level = 0 /\ offset # Unknown => offset = at % 8
        /\ level > 0 => HasMember /\ level <= member.depth
                        /\ (member.align % 8 = 0 => offset # Unknown)

Running ==
    pc \in {"run", "write"} =>
        /\ HasMember
        /\ level = 0
        /\ member.depth > 0 => op_offset = Unknown /\ offset = Unknown
        /\ member.depth = 0 /\ written = 0 =>
            /\ at % member.align = 0
            /\ op_offset # Unknown => op_offset = at % 8
            /\ offset = AfterWrite(op_offset, member)
        /\ member.depth = 0 /\ written # 0 => pc = "run" /\ (offset # Unknown => offset = at % 8)

OpInv == OpType /\ Placed /\ Building /\ Running

(* The current member. *)
LEMMA MemberFacts ==
    ASSUME OpType, HasMember
    PROVE  /\ member \in Member
           /\ member.align \in Nat \ {0}
           /\ member.size \in Nat
           /\ member.depth \in Nat
           /\ member.kind \in {"bits", "bytes"}
           /\ member.dynamic \subseteq {0}
           /\ member.align \in Alignments(struct)
           /\ 8 % member.align = 0 \/ member.align % 8 = 0
           /\ StructAlign(struct) % member.align = 0
<1>1. /\ struct.members \in Seq(Member)
      /\ current \in DOMAIN struct.members
  BY OpBuilderAssumption DEF OpType, HasMember
<1>2. member \in Member
  BY <1>1 DEF member
<1>3. member.align \in Nat \ {0} /\ member.align \in Alignments(struct)
  BY <1>1, <1>2 DEF Alignments, member, Member
<1>4. StructAlign(struct) % member.align = 0
  BY <1>1, StructAlignFacts DEF OpType, member
<1>5. 8 % member.align = 0 \/ member.align % 8 = 0
  BY <1>3, AlignmentAndByte DEF OpType
<1>6. member.dynamic \subseteq {0}
  BY <1>1 DEF OpType, Accepted, member
<1> QED
  BY <1>2, <1>3, <1>4, <1>5, <1>6 DEF Member

(* A builder starts without an offset: it has placed nothing.              *)
LEMMA InitOp == Init => OpInv
<1> SUFFICES ASSUME Init PROVE OpInv
  OBVIOUS
<1>1. OpType
  BY OpBuilderAssumption DEF Init, OpType, Offsets, Unknown
<1> QED
  BY <1>1 DEF Init, OpInv, Placed, Building, Running

(* Running an align operation moves the code and its copy from offset 0    *)
(* alike.                                                                  *)
LEMMA AlignTogether ==
    ASSUME OpType, Placed, HasMember, pc # "struct"
    PROVE  AlignUp(at, member.align) = base + AlignUp(rel, member.align)
<1>1. base % member.align = 0
  <2>1. member.align \in Nat \ {0} /\ StructAlign(struct) % member.align = 0
    BY MemberFacts
  <2>2. StructAlign(struct) \in Nat \ {0}
    BY StructAlignFacts DEF OpType
  <2> QED
    BY <2>1, <2>2, DividesAll DEF OpType, Placed
<1>2. member.align \in Nat \ {0}
  BY MemberFacts
<1> QED
  BY <1>1, <1>2, AlignUpShift DEF OpType, Placed

(* Every step of the builder keeps the invariant.                          *)
LEMMA NextOp == OpInv /\ [Next]_vars => OpInv'
<1> SUFFICES ASSUME OpInv, [Next]_vars PROVE OpInv'
  OBVIOUS
<1>0. OpType /\ Placed /\ Building /\ Running
  BY DEF OpInv
<1>1. ASSUME BeginStruct PROVE OpInv'
  <2> DEFINE a == StructAlign(struct)
  <2>1. a \in Nat \ {0} /\ a \in Alignments(struct)
    BY <1>0, StructAlignFacts DEF OpType
  <2> HIDE DEF a
  <2>2. /\ at' = AlignUp(at, a) /\ at' \in Nat /\ at' % a = 0
        /\ offset' = TryAlign(Unknown, a, FALSE)
        /\ base' = at' /\ rel' = 0 /\ level' = 0
    BY <1>0, <1>1, <2>1, AlignUpBound, AlignUpAligned DEF BeginStruct, OpType, Placed, a
  <2>3. offset' \in Offsets /\ (offset' # Unknown => offset' = at' % 8)
    <3>1. Unknown \in Offsets
      BY DEF Offsets
    <3>2. 8 % a = 0 \/ a % 8 = 0
      BY <1>0, <2>1, AlignmentAndByte DEF OpType
    <3>3. offset' \in Offsets
      BY <2>1, <2>2, <3>1, BuilderOffsets
    <3>4. offset' # Unknown => offset' = at' % 8
      <4>1. at \in Nat /\ (Unknown # Unknown => Unknown = at % 8)
        BY <1>0 DEF OpType
      <4>2. TryAlign(Unknown, a, FALSE) # Unknown =>
                TryAlign(Unknown, a, FALSE) = AlignUp(at, a) % 8
        BY <2>1, <3>1, <3>2, <4>1, TryAlignOutside
      <4> QED
        BY <2>2, <4>2
    <3> QED
      BY <3>3, <3>4
  <2>4. OpType'
    BY <1>0, <1>1, <2>2, <2>3 DEF OpType, BeginStruct
  <2>5. Placed'
    BY <1>0, <1>1, <2>2 DEF OpType, BeginStruct, Placed, a
  <2>6. Building'
    <3>1. level' = 0 /\ ~(level' > 0)
      BY <2>2
    <3>2. offset' # Unknown => offset' = at' % 8
      BY <2>3
    <3> QED
      BY <3>1, <3>2 DEF Building
  <2>7. Running'
    BY <1>1 DEF BeginStruct, Running
  <2> QED
    BY <2>4, <2>5, <2>6, <2>7 DEF OpInv
<1>2. ASSUME BuildArray PROVE OpInv'
  <2> DEFINE off == IF level \in member.dynamic THEN offset ELSE Unknown
  <2>1. /\ HasMember /\ level < member.depth
        /\ offset' = TryAlign(off, member.align, level > 0)
        /\ level' = level + 1
        /\ pc = "build" /\ pc' = "build"
        /\ UNCHANGED << struct, op_offset, current, at, base, rel, written >>
    BY <1>2 DEF BuildArray
  <2>2. /\ member.align \in Nat \ {0} /\ member.dynamic \subseteq {0} /\ member.depth \in Nat
        /\ level \in Nat
    BY <1>0, <2>1, MemberFacts DEF OpType
  <2>3. off \in Offsets /\ (level > 0 => off = Unknown)
    BY <1>0, <2>2 DEF OpType, Offsets
  <2> HIDE DEF off
  <2>4. offset' \in Offsets
    <3>1. (level > 0) \in BOOLEAN
      OBVIOUS
    <3> QED
      BY <2>1, <2>2, <2>3, <3>1, BuilderOffsets
  <2>5. member.align % 8 = 0 => offset' # Unknown
    <3> SUFFICES ASSUME member.align % 8 = 0 PROVE offset' # Unknown
      OBVIOUS
    <3>1. CASE off = Unknown
      BY <2>1, <3>1 DEF TryAlign, Unknown
    <3>2. CASE off # Unknown
      <4>1. off \in Nat /\ ~(level > 0)
        BY <2>3, <3>2 DEF Offsets
      <4>2. AlignUp(off, member.align) % 8 \in Nat
        BY <2>2, <4>1, AlignUpBound
      <4> QED
        BY <2>1, <3>2, <4>1, <4>2 DEF TryAlign, Unknown
    <3> QED
      BY <3>1, <3>2
  <2>6. member' = member /\ (HasMember <=> HasMember')
    BY <2>1 DEF member, HasMember
  <2>7. OpType'
    BY <1>0, <2>1, <2>2, <2>4 DEF OpType
  <2>8. Placed'
    BY <1>0, <2>1 DEF Placed
  <2>9. Building'
    BY <2>1, <2>2, <2>5, <2>6 DEF Building
  <2> QED
    BY <2>1, <2>7, <2>8, <2>9 DEF OpInv, Running
<1>3. ASSUME BuildLeaf PROVE OpInv'
  <2> DEFINE a == member.align
  <2>1. /\ HasMember /\ level = member.depth
        /\ op_offset' = TryAlign(offset, a, level > 0)
        /\ offset' = AfterWrite(op_offset', member)
        /\ level' = 0
        /\ at' = AlignUp(at, a) /\ rel' = AlignUp(rel, a)
        /\ pc = "build" /\ pc' = "run"
        /\ UNCHANGED << struct, current, base, written >>
    BY <1>3 DEF BuildLeaf
  <2>2. /\ a \in Nat \ {0} /\ member \in Member /\ member.depth \in Nat
        /\ 8 % a = 0 \/ a % 8 = 0
    BY <1>0, <2>1, MemberFacts
  <2>3. /\ op_offset' \in Offsets /\ offset' \in Offsets
        /\ at' \in Nat /\ rel' \in Nat /\ at' % a = 0
    <3>1. (level > 0) \in BOOLEAN /\ offset \in Offsets /\ at \in Nat /\ rel \in Nat
      BY <1>0 DEF OpType
    <3>2. op_offset' \in Offsets
      BY <2>1, <2>2, <3>1, BuilderOffsets
    <3>3. offset' \in Offsets
      BY <2>1, <2>2, <3>2, BuilderOffsets
    <3> QED
      BY <2>1, <2>2, <3>1, <3>2, <3>3, AlignUpBound, AlignUpAligned
  <2>4. at' = base' + rel'
    BY <1>0, <2>1, AlignTogether
  <2>5. member' = member /\ HasMember'
    BY <2>1 DEF member, HasMember
  <2>6. member.depth > 0 => op_offset' = Unknown /\ offset' = Unknown
    <3> SUFFICES ASSUME member.depth > 0 PROVE op_offset' = Unknown /\ offset' = Unknown
      OBVIOUS
    <3>1. level > 0 /\ (a % 8 = 0 => offset # Unknown)
      BY <1>0, <2>1, <2>2 DEF Building
    <3>2. op_offset' = Unknown
      BY <2>1, <3>1 DEF TryAlign
    <3> QED
      BY <2>1, <3>2 DEF AfterWrite
  <2>7. member.depth = 0 => (op_offset' # Unknown => op_offset' = at' % 8)
    <3> SUFFICES ASSUME member.depth = 0, op_offset' # Unknown PROVE op_offset' = at' % 8
      OBVIOUS
    <3>1. level = 0 /\ (level > 0) = FALSE
      BY <1>0, <2>1 DEF OpType
    <3>2. op_offset' = TryAlign(offset, a, FALSE)
      BY <2>1, <3>1
    <3>3. offset \in Offsets /\ at \in Nat /\ (offset # Unknown => offset = at % 8)
      BY <1>0, <2>1, <3>1 DEF OpType, Building
    <3> QED
      BY <2>1, <2>2, <3>2, <3>3, TryAlignOutside
  <2>8. OpType'
    BY <1>0, <2>1, <2>3 DEF OpType
  <2>9. Placed'
    BY <1>0, <2>1, <2>4 DEF Placed
  <2>10. Building'
    BY <2>1 DEF Building
  <2>11. Running'
    <3>1. written' = 0
      BY <1>0, <2>1 DEF Placed
    <3> QED
      BY <2>1, <2>2, <2>3, <2>5, <2>6, <2>7, <3>1 DEF Running
  <2> QED
    BY <2>8, <2>9, <2>10, <2>11 DEF OpInv
<1>4. ASSUME AlignElement PROVE OpInv'
  <2> DEFINE a == member.align
  <2>1. /\ written < IF member.depth = 0 THEN 1 ELSE MaxLength
        /\ at' = AlignUp(at, a) /\ rel' = AlignUp(rel, a)
        /\ pc = "run" /\ pc' = "write"
        /\ UNCHANGED << struct, offset, level, op_offset, current, base, written >>
    BY <1>4 DEF AlignElement
  <2>2. HasMember /\ at \in Nat /\ rel \in Nat /\ written \in Nat /\ level = 0
    BY <1>0, <2>1 DEF OpType, Running
  <2>3. a \in Nat \ {0} /\ member.depth \in Nat
    BY <1>0, <2>2, MemberFacts
  <2>4. at' \in Nat /\ rel' \in Nat /\ at' % a = 0
    BY <2>1, <2>2, <2>3, AlignUpBound, AlignUpAligned
  <2>5. at' = base' + rel'
    BY <1>0, <2>1, <2>2, AlignTogether
  <2>6. member' = member /\ HasMember'
    BY <2>1, <2>2 DEF member, HasMember
  <2>7. ASSUME member.depth = 0
        PROVE  /\ written = 0 /\ at' = at
               /\ op_offset # Unknown => op_offset = at' % 8
               /\ offset = AfterWrite(op_offset, member)
    <3>1. written = 0
      BY <2>1, <2>2, <2>7
    <3>2. /\ at % a = 0
          /\ op_offset # Unknown => op_offset = at % 8
          /\ offset = AfterWrite(op_offset, member)
      BY <1>0, <2>1, <2>7, <3>1 DEF Running
    <3>3. at' = at
      BY <2>1, <2>2, <2>3, <3>2, AlignUpAligned
    <3> QED
      BY <3>1, <3>2, <3>3
  <2>8. member.depth > 0 => op_offset = Unknown /\ offset = Unknown
    BY <1>0, <2>1 DEF Running
  <2>9. OpType'
    BY <1>0, <2>1, <2>4 DEF OpType
  <2>10. Placed'
    BY <1>0, <2>1, <2>5 DEF Placed
  <2>11. Building'
    BY <2>1 DEF Building
  <2>12. Running'
    <3>1. /\ offset' = offset /\ op_offset' = op_offset /\ written' = written /\ level' = 0
          /\ pc' = "write"
      BY <2>1, <2>2
    <3> QED
      BY <2>3, <2>4, <2>6, <2>7, <2>8, <3>1 DEF Running
  <2> QED
    BY <2>9, <2>10, <2>11, <2>12 DEF OpInv
<1>5. ASSUME WriteElement PROVE OpInv'
  <2>1. PICK size \in IF member.kind = "bits" THEN {member.size} ELSE ByteSizes :
            at' = at + size /\ rel' = rel + size
    BY <1>5 DEF WriteElement
  <2>2. /\ written' = written + 1
        /\ pc = "write" /\ pc' = "run"
        /\ UNCHANGED << struct, offset, level, op_offset, current, base >>
    BY <1>5 DEF WriteElement
  <2>3. HasMember /\ at \in Nat /\ base \in Nat /\ rel \in Nat /\ written \in Nat /\ level = 0
    BY <1>0, <2>2 DEF OpType, Running
  <2>4. /\ member \in Member /\ member.depth \in Nat /\ member.size \in Nat
        /\ member.kind \in {"bits", "bytes"}
    BY <1>0, <2>3, MemberFacts
  <2>5. /\ size \in Nat
        /\ IF member.kind = "bits" THEN size = member.size ELSE size % 8 = 0
    BY <2>1, <2>4, OpBuilderAssumption
  <2>6. at' \in Nat /\ rel' \in Nat /\ at' = base' + rel'
    <3>1. at = base + rel
      BY <1>0, <2>2 DEF Placed
    <3>2. base' = base
      BY <2>2
    <3> QED
      BY <2>1, <2>3, <2>5, <3>1, <3>2
  <2>7. member' = member /\ HasMember'
    BY <2>2, <2>3 DEF member, HasMember
  <2>8. ASSUME member.depth = 0
        PROVE  offset # Unknown => offset = at' % 8
    <3>1. /\ op_offset # Unknown => op_offset = at % 8
          /\ offset = AfterWrite(op_offset, member)
      BY <1>0, <2>2, <2>8 DEF Running
    <3>2. CASE op_offset = Unknown
      BY <3>1, <3>2 DEF AfterWrite
    <3>3. CASE op_offset # Unknown
      <4>1. op_offset \in 0 .. 7 /\ op_offset = at % 8
        BY <1>0, <3>1, <3>3 DEF OpType, Offsets
      <4>2. AfterWrite(op_offset, member) = (at + size) % 8
        BY <2>3, <2>4, <2>5, <4>1, AfterWriteRight
      <4> QED
        BY <2>1, <3>1, <4>2
    <3> QED
      BY <3>2, <3>3
  <2>9. member.depth > 0 => op_offset = Unknown /\ offset = Unknown
    BY <1>0, <2>2 DEF Running
  <2>10. OpType'
    <3>1. written' \in Nat /\ base' \in Nat
      BY <2>2, <2>3
    <3> QED
      BY <1>0, <2>2, <2>6, <3>1 DEF OpType
  <2>11. Placed'
    BY <1>0, <2>2, <2>6 DEF Placed
  <2>12. Building'
    BY <2>2 DEF Building
  <2>13. Running'
    <3>1. /\ offset' = offset /\ op_offset' = op_offset /\ written' # 0 /\ level' = 0
          /\ pc' = "run"
      BY <2>2, <2>3
    <3> QED
      BY <2>7, <2>8, <2>9, <3>1 DEF Running
  <2> QED
    BY <2>10, <2>11, <2>12, <2>13 DEF OpInv
<1>6. ASSUME EndMember PROVE OpInv'
  <2>1. /\ member.depth = 0 => written = 1
        /\ current' = current + 1 /\ written' = 0
        /\ pc = "run" /\ pc' = "build"
        /\ UNCHANGED << struct, offset, level, op_offset, at, base, rel >>
    BY <1>6 DEF EndMember
  <2>2. HasMember /\ level = 0
    BY <1>0, <2>1 DEF Running
  <2>3. member.depth \in Nat
    BY <1>0, <2>2, MemberFacts
  <2>4. offset # Unknown => offset = at % 8
    <3>1. CASE member.depth = 0
      BY <1>0, <2>1, <3>1 DEF Running
    <3>2. CASE member.depth > 0
      BY <1>0, <2>1, <3>2 DEF Running
    <3> QED
      BY <2>3, <3>1, <3>2
  <2>5. OpType'
    BY <1>0, <2>1 DEF OpType
  <2>6. Placed'
    BY <1>0, <2>1 DEF Placed
  <2>7. Building'
    <3>1. level' = 0 /\ offset' = offset /\ at' = at
      BY <2>1, <2>2
    <3> QED
      BY <2>4, <3>1 DEF Building
  <2>8. Running'
    BY <2>1 DEF Running
  <2> QED
    BY <2>5, <2>6, <2>7, <2>8 DEF OpInv
<1>7. ASSUME UNCHANGED vars PROVE OpInv'
  <2>1. member' = member /\ (HasMember <=> HasMember')
    BY <1>7 DEF vars, member, HasMember
  <2>2. OpType' /\ Placed'
    BY <1>0, <1>7 DEF vars, OpType, Placed
  <2>3. Building' /\ Running'
    BY <1>0, <1>7, <2>1 DEF vars, Building, Running
  <2> QED
    BY <2>2, <2>3 DEF OpInv
<1> QED
  BY <1>1, <1>2, <1>3, <1>4, <1>5, <1>6, <1>7 DEF Next

-----------------------------------------------------------------------------

(* OpInv holds in every state.                                             *)
THEOREM BuilderInvariant == Spec => []OpInv
<1>1. Init => OpInv
  BY InitOp
<1>2. OpInv /\ [Next]_vars => OpInv'
  BY NextOp
<1> QED
  BY <1>1, <1>2, PTL DEF Spec

(* A literal offset emitted by create_write_op is the offset of the bit    *)
(* that the generated statement writes, in every iteration, whatever the   *)
(* lengths of the arrays and strings before.                               *)
THEOREM LiteralsAreRight == Spec => []LiteralOffset
<1>1. OpInv => LiteralOffset
  <2> SUFFICES ASSUME OpInv, pc = "write", op_offset # Unknown PROVE op_offset = at % 8
    BY DEF LiteralOffset
  <2>1. Running /\ OpType
    BY DEF OpInv
  <2>2. HasMember
    BY <2>1 DEF Running
  <2>3. member.depth = 0 /\ written = 0
    <3>1. member.depth \in Nat
      BY <2>1, <2>2, MemberFacts
    <3> QED
      BY <2>1, <3>1 DEF Running
  <2> QED
    BY <2>1, <2>3 DEF Running
<1> QED
  BY <1>1, BuilderInvariant, PTL

(* Between two members, the offset that the builder follows is that of the *)
(* generated code.                                                         *)
THEOREM BuilderKnowsOffset == Spec => []KnownOffset
<1>1. OpInv => KnownOffset
  BY DEF OpInv, Building, KnownOffset
<1> QED
  BY <1>1, BuilderInvariant, PTL

(* The layout of a structure does not depend on where it begins: what the  *)
(* size functions compute from an aligned offset is what the tracing       *)
(* functions write.                                                        *)
THEOREM LayoutIsRelative == Spec => []PositionIndependent
<1>1. OpInv => PositionIndependent
  BY DEF OpInv, Placed, PositionIndependent
<1> QED
  BY <1>1, BuilderInvariant, PTL

=============================================================================
