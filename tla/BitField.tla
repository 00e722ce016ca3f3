------------------------------ MODULE BitField ------------------------------
(***************************************************************************)
(* The macros of the generated bitfield header (bitfield.h.j2), which write *)
(* an integer of length bits from bit start of a buffer, piece by piece.   *)
(*                                                                         *)
(* An integer is the set of its 1 bits, numbered from the least            *)
(* significant one; so are the units (the macros' type, uint8_t) of the    *)
(* buffer.                                                                 *)
(***************************************************************************)
EXTENDS Integers, FiniteSets

CONSTANTS
    Ts,         \* bits of a unit (ts in the macros)
    MaxLength,  \* bound: length of a bit field
    Orders      \* byte orders to consider

ASSUME BitFieldAssumption ==
    /\ Ts \in Nat \ {0}
    /\ MaxLength \in 1 .. (8 * Ts)
    /\ Orders \subseteq {"le", "be"}

VARIABLES
    order,    \* byte order of the trace: which macro was generated
    start,    \* bit where the field begins in the first unit
    length,   \* size of the field
    signed,   \* the type of the value is a signed integer
    value,    \* the value to write, as the caller passed it
    buf0,     \* the buffer before the call
    v,        \* what is left of the value
    buf,      \* the buffer
    unit,     \* this_unit
    pc

vars == << order, start, length, signed, value, buf0, v, buf, unit, pc >>

UnitBits == 0 .. (Ts - 1)

(* Bits of the smallest C integer type that holds the field (_ft_c_type). *)
Width(len) ==
    IF len <= Ts THEN Ts ELSE IF len <= 2 * Ts THEN 2 * Ts
    ELSE IF len <= 4 * Ts THEN 4 * Ts ELSE 8 * Ts

end == start + length
EndUnit == (end + Ts - 1) \div Ts
LastUnit == EndUnit - 1

(* Shifts: of unsigned integers, and of signed ones, whose sign bit is     *)
(* copied.                                                                 *)
Left(bits, n) == {b + n : b \in bits}
Right(bits, n) ==
    {b - n : b \in {x \in bits : x >= n}}
        \cup IF signed /\ Width(length) - 1 \in bits
             THEN (Width(length) - n) .. (Width(length) - 1)
             ELSE {}

(* "Trim v high bits" *)
Trim(bits) == IF length < Width(length) THEN {b \in bits : b < length} ELSE bits

(* A unit after "&= mask" and "|= cmask", cmask having been masked too. *)
Merge(old, mask, cmask) == (old \cap mask) \cup ((cmask \cap UnitBits) \ mask)

Store(new) == buf' = [buf EXCEPT ![unit] = new]

-----------------------------------------------------------------------------

(* The caller's value has the C type of the field: the bits above those of *)
(* the field may be set (sign extension, or a value that is too large).    *)
Init ==
    /\ order \in Orders
    /\ start \in UnitBits
    /\ length \in 1 .. MaxLength
    /\ signed \in BOOLEAN
    /\ \E low \in SUBSET (0 .. (length - 1)), high \in {{}, length .. (Width(length) - 1)} :
            value = low \cup high
    /\ \E fill \in {{}, UnitBits} : buf0 = [u \in 0 .. LastUnit |-> fill]
    /\ buf = buf0
    /\ v = Trim(value)
    /\ unit = IF order = "le" THEN 0 ELSE LastUnit
    /\ pc = "start"

-----------------------------------------------------------------------------
(* Little-endian: from the first unit to the last one. *)

(* The bits below the start of the field, and those from its end in the    *)
(* last unit.                                                              *)
BelowStart == {b \in UnitBits : b < start}
FromEnd == IF end % Ts = 0 THEN {} ELSE {b \in UnitBits : b >= end % Ts}

LEOneUnit ==
    /\ order = "le" /\ pc = "start" /\ LastUnit = 0
    /\ Store(Merge(buf[unit], BelowStart \cup FromEnd, Left(v, start)))
    /\ pc' = "done"
    /\ UNCHANGED << order, start, length, signed, value, buf0, v, unit >>

LEFirst ==
    /\ order = "le" /\ pc = "start" /\ LastUnit # 0
    /\ IF start # 0
       THEN /\ Store(Merge(buf[unit], BelowStart, Left(v, start)))
            /\ v' = Right(v, Ts - start)
            /\ unit' = unit + 1
       ELSE UNCHANGED << buf, v, unit >>
    /\ pc' = "middle"
    /\ UNCHANGED << order, start, length, signed, value, buf0 >>

LEMiddle ==
    /\ order = "le" /\ pc = "middle" /\ unit < LastUnit
    /\ Store(v \cap UnitBits)
    /\ v' = Right(v, Ts)
    /\ unit' = unit + 1
    /\ UNCHANGED << order, start, length, signed, value, buf0, pc >>

(* Mutant of LELast: the last unit is stored whole. *)
LELastWhole ==
    /\ order = "le" /\ pc = "middle" /\ unit = LastUnit
    /\ Store(v \cap UnitBits)
    /\ pc' = "done"
    /\ UNCHANGED << order, start, length, signed, value, buf0, v, unit >>

LELast ==
    /\ order = "le" /\ pc = "middle" /\ unit = LastUnit
    /\ Store(Merge(buf[unit], FromEnd, v))
    /\ pc' = "done"
    /\ UNCHANGED << order, start, length, signed, value, buf0, v, unit >>

-----------------------------------------------------------------------------
(* Big-endian: from the last unit to the first one. *)

(* Bits of the last unit after the end of the field, and those of the      *)
(* first unit before its start: consecutive fields go from high to low.    *)
AfterEnd == {b \in UnitBits : b < (Ts - (end % Ts)) % Ts}
BeforeStart == IF start = 0 THEN {} ELSE {b \in UnitBits : b >= Ts - start}

BEOneUnit ==
    /\ order = "be" /\ pc = "start" /\ LastUnit = 0
    /\ Store(Merge(buf[unit], AfterEnd \cup BeforeStart, Left(v, (Ts - (end % Ts)) % Ts)))
    /\ pc' = "done"
    /\ UNCHANGED << order, start, length, signed, value, buf0, v, unit >>

(* Mutant of BELast: shifts by the bits that stay instead of those written. *)
BELastShift ==
    /\ order = "be" /\ pc = "start" /\ LastUnit # 0
    /\ IF end % Ts # 0
       THEN /\ Store(Merge(buf[unit], AfterEnd, Left(v, Ts - (end % Ts))))
            /\ v' = Right(v, Ts - (end % Ts))
            /\ unit' = unit - 1
       ELSE UNCHANGED << buf, v, unit >>
    /\ pc' = "middle"
    /\ UNCHANGED << order, start, length, signed, value, buf0 >>

BELast ==
    /\ order = "be" /\ pc = "start" /\ LastUnit # 0
    /\ IF end % Ts # 0
       THEN /\ Store(Merge(buf[unit], AfterEnd, Left(v, Ts - (end % Ts))))
            /\ v' = Right(v, end % Ts)
            /\ unit' = unit - 1
       ELSE UNCHANGED << buf, v, unit >>
    /\ pc' = "middle"
    /\ UNCHANGED << order, start, length, signed, value, buf0 >>

BEMiddle ==
    /\ order = "be" /\ pc = "middle" /\ unit > 0
    /\ Store(v \cap UnitBits)
    /\ v' = Right(v, Ts)
    /\ unit' = unit - 1
    /\ UNCHANGED << order, start, length, signed, value, buf0, pc >>

BEFirst ==
    /\ order = "be" /\ pc = "middle" /\ unit = 0
    /\ Store(Merge(buf[unit], BeforeStart, v))
    /\ pc' = "done"
    /\ UNCHANGED << order, start, length, signed, value, buf0, v, unit >>

-----------------------------------------------------------------------------

Next ==
    \/ LEOneUnit \/ LEFirst \/ LEMiddle \/ LELast
    \/ BEOneUnit \/ BELast \/ BEMiddle \/ BEFirst

Spec == Init /\ [][Next]_vars

-----------------------------------------------------------------------------
(* Reference. *)

(* Where bit k of the value belongs.  A reader numbers the bits of a        *)
(* little-endian buffer from the low bit of each unit, those of a           *)
(* big-endian one from the high bit, and there the field begins with its    *)
(* most significant bit.                                                    *)
Place(k) ==
    LET p == IF order = "le" THEN start + k ELSE start + length - 1 - k
        b == p % Ts
    IN << p \div Ts, IF order = "le" THEN b ELSE Ts - 1 - b >>

FieldPlaces == {Place(k) : k \in 0 .. (length - 1)}

(* The macros never change a bit that is not the field's, not even between *)
(* two of their statements.                                                *)
NeighborsKept ==
    \A u \in DOMAIN buf : \A b \in UnitBits :
        << u, b >> \notin FieldPlaces => (b \in buf[u] <=> b \in buf0[u])

(* In the end the field holds the value, each bit where a reader of the    *)
(* trace's byte order looks for it.                                        *)
ValueWritten ==
    pc = "done" => \A k \in 0 .. (length - 1) :
        k \in value <=> Place(k)[2] \in buf[Place(k)[1]]

=============================================================================
