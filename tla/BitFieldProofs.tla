--------------------------- MODULE BitFieldProofs ---------------------------
(***************************************************************************)
(* The macros of bitfield.h write the value where a reader looks for it     *)
(* and nothing else, for every size of the units, every place and length   *)
(* of the field, and every value.                                          *)
(***************************************************************************)
EXTENDS BitField, TLAPS

(* Bit b of unit u is bit Shift(u) + b of the value, if the value has one.  *)
(* A unit that only the end of the value reaches has a negative shift.     *)
Shift(u) == IF order = "le" THEN u * Ts - start ELSE end - (u + 1) * Ts

InField(u, b) == Shift(u) + b \in 0 .. (length - 1)

(* What the caller asks for. *)
CallType ==
    /\ order \in {"le", "be"}
    /\ start \in UnitBits
    /\ length \in 1 .. MaxLength

FieldType ==
    /\ CallType
    /\ value \in SUBSET Int
    /\ v \in SUBSET Int
    /\ buf0 \in [0 .. LastUnit -> SUBSET Int]
    /\ buf \in [0 .. LastUnit -> SUBSET Int]
    /\ unit \in 0 .. LastUnit
    /\ pc \in {"start", "middle", "done"}

(* The macro is done with unit u. *)
Behind(u) == pc = "done" \/ IF order = "le" THEN u < unit ELSE u > unit

Kept ==
    \A u \in 0 .. LastUnit : \A b \in UnitBits :
        ~InField(u, b) => (b \in buf[u] <=> b \in buf0[u])

Stored ==
    \A u \in 0 .. LastUnit : \A b \in UnitBits :
        InField(u, b) /\ Behind(u) => (b \in buf[u] <=> Shift(u) + b \in value)

(* Bits of the value that are shifted out of v already. *)
Skipped == IF Shift(unit) > 0 THEN Shift(unit) ELSE 0

(* The bits of v that the rest of the macro uses are those of the value.   *)
(* The ones above may be anything: the copies of a sign bit.               *)
Remaining ==
    pc # "done" =>
        \A j \in Nat : j + Skipped < length => (j \in v <=> j + Skipped \in value)

Position ==
    /\ pc = "start" => unit = IF order = "le" THEN 0 ELSE LastUnit
    /\ pc = "middle" => Shift(unit) >= 0

FieldInv == FieldType /\ Kept /\ Stored /\ Remaining /\ Position

-----------------------------------------------------------------------------

(* Division by a positive number, and that it is the only one.             *)
LEMMA Division ==
    ASSUME NEW n \in Nat \ {0}, NEW a \in Int
    PROVE  /\ a \div n \in Int
           /\ a % n \in 0 .. (n - 1)
           /\ a = (a \div n) * n + (a % n)
OBVIOUS

(* A quotient and a remainder in range are the ones of the division.       *)
LEMMA DivisionUnique ==
    ASSUME NEW n \in Nat \ {0}, NEW q \in Int, NEW r \in 0 .. (n - 1)
    PROVE  (q * n + r) \div n = q /\ (q * n + r) % n = r
OBVIOUS

(* Whole units are ordered like their numbers.                             *)
LEMMA TimesOrdered ==
    ASSUME NEW n \in Nat \ {0}, NEW a \in Int, NEW b \in Int, a <= b
    PROVE  a * n <= b * n
<1>1. PICK d \in Nat : b = a + d
  <2>1. b - a \in Nat /\ b = a + (b - a)
    OBVIOUS
  <2> QED
    BY <2>1
<1>2. b * n = a * n + d * n /\ d * n \in Nat
  BY <1>1
<1> QED
  BY <1>2

(* Where the field ends: bit Rest of the last unit. *)
Rest == IF end % Ts = 0 THEN Ts ELSE end % Ts

(* The number of the last unit and the bits the field has in it, which the *)
(* macro computes with a division and a remainder.                         *)
LEMMA EndOfField ==
    ASSUME CallType
    PROVE  /\ end \in Nat \ {0}
           /\ Rest \in 1 .. Ts
           /\ LastUnit \in Nat
           /\ LastUnit * Ts = end - Rest
<1>1. Ts \in Nat \ {0} /\ end \in Nat \ {0} /\ start \in Nat /\ length \in Nat
  BY BitFieldAssumption DEF CallType, UnitBits, end
<1> DEFINE e == end
           q == e \div Ts
           r == e % Ts
<1>2. q \in Int /\ r \in 0 .. (Ts - 1) /\ e = q * Ts + r
  BY <1>1, Division
<1>3. q \in Nat
  <2>1. CASE q < 0
    <3>1. q * Ts <= (-1) * Ts
      BY <1>1, <1>2, <2>1, TimesOrdered
    <3> QED
      BY <1>1, <1>2, <3>1
  <2> QED
    BY <1>2, <2>1
<1>4. EndUnit = (e + Ts - 1) \div Ts
  BY DEF EndUnit
<1>5. CASE r = 0
  <2>1. e + Ts - 1 = q * Ts + (Ts - 1) /\ Ts - 1 \in 0 .. (Ts - 1)
    BY <1>1, <1>2, <1>5
  <2>2. EndUnit = q
    BY <1>1, <1>2, <1>4, <2>1, DivisionUnique
  <2>3. (q - 1) * Ts = q * Ts - Ts
    BY <1>1, <1>2
  <2>4. q # 0
    BY <1>1, <1>2, <1>5
  <2> QED
    BY <1>1, <1>2, <1>3, <1>5, <2>2, <2>3, <2>4 DEF LastUnit, Rest
<1>6. CASE r # 0
  <2>1. (q + 1) * Ts = q * Ts + Ts
    BY <1>1, <1>2
  <2>2. e + Ts - 1 = (q + 1) * Ts + (r - 1) /\ r - 1 \in 0 .. (Ts - 1)
    BY <1>1, <1>2, <1>6, <2>1
  <2>3. EndUnit = q + 1
    <3>1. q + 1 \in Int
      BY <1>2
    <3>2. ((q + 1) * Ts + (r - 1)) \div Ts = q + 1
      BY <1>1, <2>2, <3>1, DivisionUnique
    <3> QED
      BY <1>4, <2>2, <3>2
  <2> QED
    BY <1>1, <1>2, <1>3, <1>6, <2>3 DEF LastUnit, Rest
<1> QED
  BY <1>5, <1>6

(* The bits that the shift of a unit gives to the units of the field.      *)
LEMMA Shifts ==
    ASSUME FieldType, NEW u \in 0 .. LastUnit
    PROVE  /\ Shift(u) \in Int
           /\ order = "le" => /\ Shift(u + 1) = Shift(u) + Ts
                              /\ u = 0 => Shift(u) = -start
                              /\ u > 0 => Shift(u) > 0
                              /\ u = LastUnit => Shift(u) = length - Rest
                              /\ u < LastUnit => Shift(u) + Ts < length
           /\ order = "be" => /\ Shift(u - 1) = Shift(u) + Ts
                              /\ u = LastUnit => Shift(u) = Rest - Ts
                              /\ u < LastUnit => Shift(u) > 0
                              /\ u = 0 => Shift(u) = length + start - Ts
                              /\ u > 0 => Shift(u) + Ts <= length + start - Ts
<1>1. Ts \in Nat \ {0} /\ start \in 0 .. (Ts - 1) /\ length \in Nat /\ end = start + length
  BY BitFieldAssumption DEF FieldType, CallType, UnitBits, end
<1>2. /\ Rest \in 1 .. Ts /\ LastUnit \in Nat /\ LastUnit * Ts = end - Rest
  BY EndOfField DEF FieldType
<1> DEFINE m == u * Ts
           l == LastUnit * Ts
<1>3. m \in Nat /\ (u + 1) * Ts = m + Ts /\ (u - 1) * Ts = m - Ts /\ (u - 1 + 1) * Ts = m
  BY <1>1, <1>2
<1>4. u = 0 => m = 0
  BY <1>1
<1>5. u > 0 => m >= Ts
  <2> SUFFICES ASSUME u > 0 PROVE m >= Ts
    OBVIOUS
  <2>1. 1 * Ts <= u * Ts
    BY <1>1, <1>2, TimesOrdered
  <2> QED
    BY <1>1, <2>1
<1>6. u < LastUnit => m + Ts <= l
  <2> SUFFICES ASSUME u < LastUnit PROVE m + Ts <= l
    OBVIOUS
  <2>1. (u + 1) * Ts <= LastUnit * Ts
    BY <1>1, <1>2, TimesOrdered
  <2> QED
    BY <1>3, <2>1
<1>7. l = end - Rest /\ (u = LastUnit => m = l)
  BY <1>2
<1>8. Shift(u) = IF order = "le" THEN m - start ELSE end - (m + Ts)
  BY <1>3 DEF Shift
<1>9. order = "le" => Shift(u + 1) = m + Ts - start
  <2>1. order = "le" => Shift(u + 1) = (u + 1) * Ts - start
    BY DEF Shift
  <2> HIDE DEF m
  <2> QED
    BY <1>1, <1>2, <1>3, <2>1
<1>10. order = "be" => Shift(u - 1) = end - m
  <2>1. order = "be" => Shift(u - 1) = end - (u - 1 + 1) * Ts
    BY DEF Shift
  <2>2. u - 1 + 1 = u
    BY <1>2
  <2> QED
    BY <2>1, <2>2
<1> HIDE DEF m, l
<1>11. order = "le" => /\ Shift(u + 1) = Shift(u) + Ts
                       /\ u = 0 => Shift(u) = -start
                       /\ u > 0 => Shift(u) > 0
                       /\ u = LastUnit => Shift(u) = length - Rest
                       /\ u < LastUnit => Shift(u) + Ts < length
  BY <1>1, <1>2, <1>3, <1>4, <1>5, <1>6, <1>7, <1>8, <1>9
<1>12. order = "be" => /\ Shift(u - 1) = Shift(u) + Ts
                       /\ u = LastUnit => Shift(u) = Rest - Ts
                       /\ u < LastUnit => Shift(u) > 0
                       /\ u = 0 => Shift(u) = length + start - Ts
                       /\ u > 0 => Shift(u) + Ts <= length + start - Ts
  BY <1>1, <1>2, <1>3, <1>4, <1>5, <1>6, <1>7, <1>8, <1>10
<1> QED
  BY <1>1, <1>3, <1>8, <1>11, <1>12


(* Each C type of the generated code is large enough for its fields.       *)
LEMMA WidthHolds ==
    ASSUME CallType
    PROVE  /\ Ts \in Nat \ {0}
           /\ length \in Nat
           /\ Width(length) \in Nat
           /\ length <= Width(length)
           /\ Ts <= Width(length)
BY BitFieldAssumption DEF CallType, Width

(* A shift to the right moves the bits that are left of the value, if it   *)
(* does not shift by more than a unit.                                     *)
LEMMA RightShift ==
    ASSUME FieldType, NEW n \in 0 .. Ts
    PROVE  /\ Right(v, n) \in SUBSET Int
           /\ \A j \in Nat : j + n < length => (j \in Right(v, n) <=> j + n \in v)
<1> DEFINE w == Width(length)
           moved == {b - n : b \in {x \in v : x >= n}}
           copies == IF signed /\ w - 1 \in v THEN (w - n) .. (w - 1) ELSE {}
<1>1. w \in Nat /\ length \in Nat /\ length <= w /\ n \in Nat /\ v \in SUBSET Int
  BY WidthHolds DEF FieldType
<1>2. Right(v, n) = moved \cup copies
  BY DEF Right
<1>3. moved \in SUBSET Int /\ copies \in SUBSET Int
  BY <1>1
<1>4. ASSUME NEW j \in Nat, j + n < length PROVE j \in Right(v, n) <=> j + n \in v
  <2>1. j \notin copies
    BY <1>1, <1>4
  <2>2. j \in moved <=> j + n \in v
    <3>1. ASSUME j \in moved PROVE j + n \in v
      <4>1. PICK b \in v : b >= n /\ j = b - n
        BY <3>1
      <4> QED
        BY <1>1, <4>1
    <3>2. ASSUME j + n \in v PROVE j \in moved
      <4>1. j + n >= n /\ j = (j + n) - n
        BY <1>1
      <4> QED
        BY <3>2, <4>1
    <3> QED
      BY <3>1, <3>2
  <2> HIDE DEF moved, copies
  <2> QED
    BY <1>2, <2>1, <2>2
<1> HIDE DEF moved, copies
<1> QED
  BY <1>2, <1>3, <1>4

(* A shift to the left. *)
LEMMA LeftShift ==
    ASSUME NEW S \in SUBSET Int, NEW n \in Int
    PROVE  /\ Left(S, n) \in SUBSET Int
           /\ \A b \in Int : b \in Left(S, n) <=> b - n \in S
<1>1. Left(S, n) \in SUBSET Int
  BY DEF Left
<1>2. ASSUME NEW b \in Int PROVE b \in Left(S, n) <=> b - n \in S
  <2>1. ASSUME b \in Left(S, n) PROVE b - n \in S
    <3>1. PICK c \in S : b = c + n
      BY <2>1 DEF Left
    <3> QED
      BY <3>1
  <2>2. ASSUME b - n \in S PROVE b \in Left(S, n)
    <3>1. b = (b - n) + n
      OBVIOUS
    <3> QED
      BY <2>2, <3>1 DEF Left
  <2> QED
    BY <2>1, <2>2
<1> QED
  BY <1>1, <1>2

(* Storing in the current unit bits of the value where the field has bits, *)
(* and what the unit had elsewhere, then going on to the next one.         *)
LEMMA StoreUnit ==
    ASSUME FieldType, Kept, Stored,
           NEW new \in SUBSET Int, Store(new),
           UNCHANGED << order, start, length, value, buf0 >>,
           \A b \in UnitBits :
               IF InField(unit, b) THEN b \in new <=> Shift(unit) + b \in value
               ELSE b \in new <=> b \in buf[unit],
           \A u \in 0 .. LastUnit : Behind(u)' => Behind(u) \/ u = unit
    PROVE  Kept' /\ Stored' /\ buf' \in [0 .. LastUnit -> SUBSET Int]
<1>1. buf' = [buf EXCEPT ![unit] = new]
  BY DEF Store
<1>2. buf \in [0 .. LastUnit -> SUBSET Int] /\ unit \in 0 .. LastUnit
  BY DEF FieldType
<1>3. buf' \in [0 .. LastUnit -> SUBSET Int]
  BY <1>1, <1>2
<1>4. \A u \in 0 .. LastUnit : buf'[u] = IF u = unit THEN new ELSE buf[u]
  BY <1>1, <1>2
<1>5. LastUnit' = LastUnit
  BY DEF LastUnit, EndUnit, end
<1>6. \A u : Shift(u)' = Shift(u)
  BY DEF Shift, end
<1>7. \A u, b : InField(u, b)' <=> InField(u, b)
  BY <1>6 DEF InField
<1>8. Kept'
  <2> SUFFICES ASSUME NEW u \in 0 .. LastUnit, NEW b \in UnitBits, ~InField(u, b)
               PROVE  b \in buf'[u] <=> b \in buf0[u]
    BY <1>5, <1>7 DEF Kept
  <2>1. b \in buf[u] <=> b \in buf0[u]
    BY DEF Kept
  <2> QED
    BY <1>4, <2>1
<1>9. Stored'
  <2> SUFFICES ASSUME NEW u \in 0 .. LastUnit, NEW b \in UnitBits, InField(u, b), Behind(u)'
               PROVE  b \in buf'[u] <=> Shift(u) + b \in value
    BY <1>5, <1>6, <1>7 DEF Stored
  <2>1. CASE u = unit
    BY <1>4, <2>1
  <2>2. CASE u # unit
    BY <1>4, <2>2 DEF Stored
  <2> QED
    BY <2>1, <2>2
<1> QED
  BY <1>3, <1>8, <1>9


(* Which bits of a unit each mask keeps. *)
LEMMA Masks ==
    ASSUME FieldType
    PROVE  /\ (Ts - (end % Ts)) % Ts = Ts - Rest
           /\ \A b \in UnitBits : /\ b \in BelowStart <=> b < start
                                  /\ b \in FromEnd <=> b >= Rest
                                  /\ b \in AfterEnd <=> b < Ts - Rest
                                  /\ b \in BeforeStart <=> b >= Ts - start
<1>1. /\ Ts \in Nat \ {0} /\ end \in Nat /\ start \in 0 .. (Ts - 1)
      /\ Rest \in 1 .. Ts /\ UnitBits = 0 .. (Ts - 1)
  BY WidthHolds, EndOfField DEF FieldType, CallType, UnitBits
<1> DEFINE r == end % Ts
<1>2. r \in 0 .. (Ts - 1)
  BY <1>1, Division
<1>3. (Ts - r) % Ts = Ts - Rest
  <2>1. CASE r = 0
    <3>1. (1 * Ts + 0) % Ts = 0
      <4>1. 0 \in 0 .. (Ts - 1) /\ 1 \in Int
        BY <1>1
      <4> QED
        BY <1>1, <4>1, DivisionUnique
    <3>2. 1 * Ts + 0 = Ts - r
      BY <1>1, <2>1
    <3>3. Rest = Ts
      BY <2>1 DEF Rest
    <3> HIDE DEF r
    <3> QED
      BY <1>1, <3>1, <3>2, <3>3
  <2>2. CASE r # 0
    <3>1. Ts - r \in 0 .. (Ts - 1)
      BY <1>1, <1>2, <2>2
    <3>2. (0 * Ts + (Ts - r)) % Ts = Ts - r
      <4> DEFINE t == Ts - r
      <4>1. t \in 0 .. (Ts - 1) /\ 0 \in Int
        BY <3>1
      <4> HIDE DEF t
      <4>2. (0 * Ts + t) % Ts = t
        BY <1>1, <4>1, DivisionUnique
      <4> QED
        BY <4>2 DEF t
    <3>3. 0 * Ts + (Ts - r) = Ts - r
      BY <1>1, <1>2
    <3>4. Rest = r
      BY <2>2 DEF Rest
    <3> HIDE DEF r
    <3> QED
      BY <3>2, <3>3, <3>4
  <2> QED
    BY <2>1, <2>2
<1>4. \A b \in UnitBits : b \in FromEnd <=> b >= Rest
  <2>1. CASE r = 0
    BY <1>1, <2>1 DEF FromEnd, Rest
  <2>2. CASE r # 0
    BY <1>1, <2>2 DEF FromEnd, Rest
  <2> QED
    BY <2>1, <2>2
<1>5. \A b \in UnitBits : b \in AfterEnd <=> b < Ts - Rest
  BY <1>3 DEF AfterEnd
<1>6. \A b \in UnitBits : b \in BelowStart <=> b < start
  BY DEF BelowStart
<1>7. \A b \in UnitBits : b \in BeforeStart <=> b >= Ts - start
  BY <1>1 DEF BeforeStart
<1> QED
  BY <1>3, <1>4, <1>5, <1>6, <1>7

(* "&= mask", then "|= cmask & ~mask": the masked bits stay. *)
LEMMA Merged ==
    ASSUME NEW old \in SUBSET Int, NEW mask, NEW cmask, Ts \in Nat
    PROVE  /\ Merge(old, mask, cmask) \in SUBSET Int
           /\ \A b \in UnitBits :
                b \in Merge(old, mask, cmask) <=> IF b \in mask THEN b \in old ELSE b \in cmask
<1>1. Merge(old, mask, cmask) \in SUBSET Int
  <2>1. \A b \in UnitBits : b \in Int
    BY DEF UnitBits
  <2> QED
    BY <2>1 DEF Merge
<1>2. ASSUME NEW b \in UnitBits
      PROVE  b \in Merge(old, mask, cmask) <=> IF b \in mask THEN b \in old ELSE b \in cmask
  BY DEF Merge
<1> QED
  BY <1>1, <1>2

(* A call starts with nothing written and the whole value to write.        *)
LEMMA InitField == Init => FieldInv
<1> SUFFICES ASSUME Init PROVE FieldInv
  OBVIOUS
<1>1. /\ order \in {"le", "be"} /\ start \in UnitBits /\ length \in 1 .. MaxLength
      /\ pc = "start" /\ buf = buf0 /\ v = Trim(value)
      /\ unit = IF order = "le" THEN 0 ELSE LastUnit
  BY BitFieldAssumption DEF Init
<1>2. Ts \in Nat \ {0} /\ length \in Nat /\ start \in 0 .. (Ts - 1)
  BY <1>1, BitFieldAssumption DEF UnitBits
<1>3. Width(length) \in Nat
  BY <1>2 DEF Width
<1>4. value \in SUBSET Int
  <2>1. PICK low \in SUBSET (0 .. (length - 1)),
             high \in {{}, length .. (Width(length) - 1)} : value = low \cup high
    BY DEF Init
  <2>2. low \in SUBSET Int
    BY <1>2, <2>1
  <2>3. high \in SUBSET Int
    BY <1>2, <1>3, <2>1
  <2> QED
    BY <2>1, <2>2, <2>3
<1>5. v \in SUBSET Int
  BY <1>1, <1>4 DEF Trim
<1>6. buf0 \in [0 .. LastUnit -> SUBSET Int]
  <2>1. PICK fill \in {{}, UnitBits} : buf0 = [u \in 0 .. LastUnit |-> fill]
    BY DEF Init
  <2>2. fill \in SUBSET Int
    BY <1>2, <2>1 DEF UnitBits
  <2> QED
    BY <2>1, <2>2
<1>7. LastUnit \in Nat
  BY <1>1, EndOfField DEF CallType
<1>8. FieldType
  BY <1>1, <1>4, <1>5, <1>6, <1>7 DEF FieldType, CallType
<1>9. \A u \in 0 .. LastUnit : ~Behind(u)
  BY <1>1, <1>7 DEF Behind
<1>10. Shift(unit) \in Int /\ ~(Shift(unit) > 0)
  <2>1. CASE order = "le"
    <3>1. unit = 0 /\ unit \in 0 .. LastUnit
      BY <1>1, <1>7, <2>1
    <3>2. Shift(unit) = -start
      BY <1>8, <2>1, <3>1, Shifts
    <3> QED
      BY <1>2, <3>2
  <2>2. CASE order = "be"
    <3>1. unit = LastUnit /\ unit \in 0 .. LastUnit
      BY <1>1, <1>7, <2>2
    <3>2. Shift(unit) = Rest - Ts
      BY <1>8, <2>2, <3>1, Shifts
    <3>3. Rest \in 1 .. Ts
      BY <1>8, EndOfField DEF FieldType
    <3> QED
      BY <1>2, <3>2, <3>3
  <2> QED
    BY <1>1, <2>1, <2>2
<1>11. Remaining
  <2>1. Skipped = 0
    BY <1>10 DEF Skipped
  <2>2. \A j \in Nat : j < length => (j \in v <=> j \in value)
    BY <1>1, <1>4 DEF Trim
  <2> QED
    BY <2>1, <2>2 DEF Remaining
<1>12. Kept /\ Stored
  BY <1>1, <1>9 DEF Kept, Stored
<1> QED
  BY <1>1, <1>8, <1>11, <1>12 DEF FieldInv, Position


-----------------------------------------------------------------------------

(* Every statement that writes a unit gives it the bits of the field that  *)
(* it holds, whether or not it masks and shifts.                           *)
LEMMA WriteUnit ==
    ASSUME FieldInv, pc # "done",
           NEW mask, \A b \in UnitBits : b \in mask <=> ~InField(unit, b),
           NEW cmask, \A b \in UnitBits : b \in cmask <=> b - (Skipped - Shift(unit)) \in v,
           Store(Merge(buf[unit], mask, cmask)),
           UNCHANGED << order, start, length, value, buf0 >>,
           \A u \in 0 .. LastUnit : Behind(u)' => Behind(u) \/ u = unit
    PROVE  Kept' /\ Stored' /\ buf' \in [0 .. LastUnit -> SUBSET Int]
<1> DEFINE new == Merge(buf[unit], mask, cmask)
<1>1. FieldType /\ Kept /\ Stored /\ Remaining
  BY DEF FieldInv
<1>2. /\ Ts \in Nat /\ length \in Nat /\ buf[unit] \in SUBSET Int
      /\ \A b \in UnitBits : b \in Nat
      /\ unit \in 0 .. LastUnit
  BY <1>1, WidthHolds DEF FieldType, UnitBits
<1>3. Shift(unit) \in Int
  BY <1>1, <1>2, Shifts
<1>4. Skipped \in Nat /\ (Shift(unit) > 0 => Skipped = Shift(unit))
  BY <1>3 DEF Skipped
<1>5. /\ new \in SUBSET Int
      /\ \A b \in UnitBits : b \in new <=> IF b \in mask THEN b \in buf[unit] ELSE b \in cmask
  BY <1>2, Merged
<1> HIDE DEF new
<1>6. ASSUME NEW b \in UnitBits, InField(unit, b)
      PROVE  b \in new <=> Shift(unit) + b \in value
  <2> DEFINE j == b - (Skipped - Shift(unit))
  <2>1. Shift(unit) + b \in 0 .. (length - 1) /\ b \in Nat
    BY <1>2, <1>6 DEF InField
  <2>2. j \in Nat /\ j + Skipped = Shift(unit) + b /\ j + Skipped < length
    <3>1. CASE Shift(unit) > 0
      BY <1>2, <1>3, <1>4, <2>1, <3>1
    <3>2. CASE ~(Shift(unit) > 0)
      BY <1>2, <1>3, <2>1, <3>2 DEF Skipped
    <3> QED
      BY <3>1, <3>2
  <2>3. b \in new <=> j \in v
    BY <1>5, <1>6
  <2> HIDE DEF j
  <2>4. j \in v <=> Shift(unit) + b \in value
    BY <1>1, <2>2 DEF Remaining
  <2> QED
    BY <2>3, <2>4
<1>7. ASSUME NEW b \in UnitBits, ~InField(unit, b)
      PROVE  b \in new <=> b \in buf[unit]
  BY <1>5, <1>7
<1>8. \A b \in UnitBits :
          IF InField(unit, b) THEN b \in new <=> Shift(unit) + b \in value
          ELSE b \in new <=> b \in buf[unit]
  BY <1>6, <1>7
<1>9. Store(new)
  BY DEF new
<1> QED
  BY <1>1, <1>5, <1>8, <1>9, StoreUnit

(* A whole unit is a merge that keeps no bit. *)
LEMMA WholeUnit ==
    ASSUME NEW old
    PROVE  v \cap UnitBits = Merge(old, {}, v)
BY DEF Merge

(* After the bits that were written are shifted out, the rest is there.    *)
LEMMA ShiftOn ==
    ASSUME FieldInv, pc # "done", NEW n \in 0 .. Ts, v' = Right(v, n),
           UNCHANGED << order, start, length, value >>,
           Skipped' = Skipped + n
    PROVE  Remaining' /\ v' \in SUBSET Int
<1>1. FieldType /\ Remaining
  BY DEF FieldInv
<1>2. /\ v' \in SUBSET Int
      /\ \A j \in Nat : j + n < length => (j \in v' <=> j + n \in v)
  BY <1>1, RightShift
<1>3. Skipped \in Nat /\ length \in Nat /\ n \in Nat
  BY <1>1, WidthHolds, Shifts DEF FieldType, Skipped
<1>4. ASSUME NEW j \in Nat, j + Skipped' < length
      PROVE  j \in v' <=> j + Skipped' \in value
  <2>1. j + n < length /\ j + n \in Nat
    BY <1>3, <1>4
  <2>2. (j + n) + Skipped < length /\ (j + n) + Skipped = j + Skipped'
    BY <1>3, <1>4
  <2>3. j + n \in v <=> (j + n) + Skipped \in value
    BY <1>1, <2>1, <2>2 DEF Remaining
  <2> QED
    BY <1>2, <2>1, <2>2, <2>3
<1> QED
  BY <1>2, <1>4 DEF Remaining

(* The shift of a unit does not change while the macro runs.               *)
LEMMA SameCall ==
    ASSUME UNCHANGED << order, start, length >>
    PROVE  LastUnit' = LastUnit /\ \A u : Shift(u)' = Shift(u)
BY DEF LastUnit, EndUnit, end, Shift

(* What the current unit holds of the field.                               *)
LEMMA CurrentUnit ==
    ASSUME FieldInv, pc # "done"
    PROVE  /\ FieldType
           /\ Ts \in Nat \ {0} /\ length \in Nat \ {0} /\ start \in 0 .. (Ts - 1)
           /\ Rest \in 1 .. Ts /\ LastUnit \in Nat
           /\ unit \in 0 .. LastUnit /\ Shift(unit) \in Int
           /\ Skipped = IF Shift(unit) > 0 THEN Shift(unit) ELSE 0
           /\ v \in SUBSET Int
           /\ \A b : b \in UnitBits <=> b \in 0 .. (Ts - 1)
           /\ \A b \in 0 .. (Ts - 1) :
                InField(unit, b) <=> Shift(unit) + b \in 0 .. (length - 1)
<1>1. FieldType
  BY DEF FieldInv
<1>2. /\ start \in 0 .. (Ts - 1) /\ unit \in 0 .. LastUnit /\ v \in SUBSET Int
      /\ length \in Nat \ {0} /\ Ts \in Nat \ {0}
  BY <1>1, BitFieldAssumption DEF FieldType, CallType, UnitBits
<1>3. Rest \in 1 .. Ts /\ LastUnit \in Nat
  BY <1>1, EndOfField DEF FieldType
<1>4. Shift(unit) \in Int
  BY <1>1, <1>2, Shifts
<1> QED
  BY <1>1, <1>2, <1>3, <1>4 DEF Skipped, UnitBits, InField


(* The macro ends when the unit it just wrote was its last one. *)
LEMMA Ends ==
    ASSUME FieldInv, pc # "done", pc' = "done",
           Kept', Stored', buf' \in [0 .. LastUnit -> SUBSET Int],
           UNCHANGED << order, start, length, signed, value, buf0, v, unit >>
    PROVE  FieldInv'
<1>1. FieldType /\ LastUnit' = LastUnit
  BY SameCall DEF FieldInv
<1>2. FieldType'
  BY <1>1 DEF FieldType, CallType, UnitBits
<1> QED
  BY <1>2 DEF FieldInv, Remaining, Position

(* The macro goes on to another unit, which the field covers from its      *)
(* first bit, with what is left of the value.                              *)
LEMMA GoesOn ==
    ASSUME FieldInv, pc # "done", pc' = "middle",
           Kept', Stored', buf' \in [0 .. LastUnit -> SUBSET Int],
           Remaining', v' \in SUBSET Int,
           unit' \in 0 .. LastUnit, Shift(unit)' >= 0,
           UNCHANGED << order, start, length, signed, value, buf0 >>
    PROVE  FieldInv'
<1>1. FieldType /\ LastUnit' = LastUnit
  BY SameCall DEF FieldInv
<1>2. FieldType'
  BY <1>1 DEF FieldType, CallType, UnitBits
<1> QED
  BY <1>2 DEF FieldInv, Position

(* The little endian write of a field within one unit.                     *)
LEMMA StepLEOneUnit == FieldInv /\ LEOneUnit => FieldInv'
<1> SUFFICES ASSUME FieldInv, LEOneUnit PROVE FieldInv'
  OBVIOUS
<1> DEFINE mask == BelowStart \cup FromEnd
           cmask == Left(v, start)
<1>1. /\ order = "le" /\ pc = "start" /\ LastUnit = 0 /\ pc # "done"
      /\ Store(Merge(buf[unit], mask, cmask)) /\ pc' = "done"
      /\ UNCHANGED << order, start, length, signed, value, buf0, v, unit >>
  BY DEF LEOneUnit
<1>2. unit = 0 /\ Shift(unit) = -start /\ Shift(unit) = length - Rest
  BY <1>1, CurrentUnit, Shifts DEF FieldInv, Position
<1>3. \A b \in UnitBits : b \in mask <=> ~InField(unit, b)
  BY <1>1, <1>2, CurrentUnit, Masks
<1>4. \A b \in UnitBits : b \in cmask <=> b - (Skipped - Shift(unit)) \in v
  <2>1. Skipped - Shift(unit) = start /\ start \in Int
    BY <1>1, <1>2, CurrentUnit
  <2> QED
    BY <1>1, <2>1, CurrentUnit, LeftShift
<1>5. \A u \in 0 .. LastUnit : Behind(u)' => Behind(u) \/ u = unit
  BY <1>1, <1>2
<1> HIDE DEF mask, cmask
<1>6. Kept' /\ Stored' /\ buf' \in [0 .. LastUnit -> SUBSET Int]
  BY <1>1, <1>3, <1>4, <1>5, WriteUnit
<1> QED
  BY <1>1, <1>6, Ends

(* The first unit of a little endian write: the value is shifted by what   *)
(* that unit took, a whole unit when start is 0.                           *)
LEMMA StepLEFirst == FieldInv /\ LEFirst => FieldInv'
<1> SUFFICES ASSUME FieldInv, LEFirst PROVE FieldInv'
  OBVIOUS
<1> DEFINE cmask == Left(v, start)
<1>1. /\ order = "le" /\ pc = "start" /\ LastUnit # 0 /\ pc # "done" /\ pc' = "middle"
      /\ UNCHANGED << order, start, length, signed, value, buf0 >>
  BY DEF LEFirst
<1>2. unit = 0 /\ unit < LastUnit /\ Shift(unit) = -start /\ Shift(unit) + Ts < length
  BY <1>1, CurrentUnit, Shifts DEF FieldInv, Position
<1>3. CASE start # 0
  <2>1. /\ Store(Merge(buf[unit], BelowStart, cmask))
        /\ v' = Right(v, Ts - start) /\ unit' = unit + 1
    BY <1>3 DEF LEFirst
  <2>2. \A b \in UnitBits : b \in BelowStart <=> ~InField(unit, b)
    BY <1>1, <1>2, CurrentUnit, Masks
  <2>3. \A b \in UnitBits : b \in cmask <=> b - (Skipped - Shift(unit)) \in v
    <3>1. Skipped - Shift(unit) = start /\ start \in Int
      BY <1>1, <1>2, CurrentUnit
    <3> QED
      BY <1>1, <3>1, CurrentUnit, LeftShift
  <2>4. \A u \in 0 .. LastUnit : Behind(u)' => Behind(u) \/ u = unit
    BY <1>1, <1>2, <2>1 DEF Behind
  <2> HIDE DEF cmask
  <2>5. Kept' /\ Stored' /\ buf' \in [0 .. LastUnit -> SUBSET Int]
    BY <1>1, <2>1, <2>2, <2>3, <2>4, WriteUnit
  <2>6. Shift(unit)' = Ts - start /\ unit' \in 0 .. LastUnit
    <3>1. Shift(unit)' = Shift(unit + 1)
      BY <1>1, <2>1 DEF Shift, end
    <3>2. Shift(unit + 1) = Shift(unit) + Ts
      BY <1>1, CurrentUnit, Shifts
    <3> QED
      BY <1>1, <1>2, <2>1, <3>1, <3>2, CurrentUnit
  <2>7. Skipped' = Skipped + (Ts - start) /\ Ts - start \in 0 .. Ts /\ Shift(unit)' >= 0
    BY <1>1, <1>2, <2>6, CurrentUnit DEF Skipped
  <2>8. Remaining' /\ v' \in SUBSET Int
    BY <1>1, <2>1, <2>7, ShiftOn
  <2> QED
    BY <1>1, <2>5, <2>6, <2>7, <2>8, GoesOn
<1>4. CASE start = 0
  <2>1. UNCHANGED << buf, v, unit >>
    BY <1>4 DEF LEFirst
  <2>2. Shift(unit)' = Shift(unit) /\ Shift(unit)' >= 0 /\ LastUnit' = LastUnit
    BY <1>1, <1>2, <1>4, <2>1 DEF Shift, end, LastUnit, EndUnit
  <2>3. Kept' /\ Stored' /\ Remaining'
    BY <1>1, <2>1, SameCall
       DEF FieldInv, Kept, Stored, Remaining, InField, UnitBits, Behind, Skipped
  <2> QED
    BY <1>1, <2>1, <2>2, <2>3, CurrentUnit, GoesOn DEF FieldType
<1> QED
  BY <1>3, <1>4


(* A whole unit of a little endian write.                                  *)
LEMMA StepLEMiddle == FieldInv /\ LEMiddle => FieldInv'
<1> SUFFICES ASSUME FieldInv, LEMiddle PROVE FieldInv'
  OBVIOUS
<1>1. /\ order = "le" /\ pc = "middle" /\ unit < LastUnit /\ pc # "done" /\ pc' = "middle"
      /\ Store(v \cap UnitBits) /\ v' = Right(v, Ts) /\ unit' = unit + 1
      /\ UNCHANGED << order, start, length, signed, value, buf0 >>
  BY DEF LEMiddle
<1>2. Shift(unit) >= 0 /\ Shift(unit) + Ts <= length
  BY <1>1, CurrentUnit, Shifts DEF FieldInv, Position
<1>3. \A b \in UnitBits : b \in {} <=> ~InField(unit, b)
  BY <1>1, <1>2, CurrentUnit
<1>4. \A b \in UnitBits : b \in v <=> b - (Skipped - Shift(unit)) \in v
  BY <1>1, <1>2, CurrentUnit
<1>5. \A u \in 0 .. LastUnit : Behind(u)' => Behind(u) \/ u = unit
  BY <1>1, CurrentUnit DEF Behind
<1>6. Store(Merge(buf[unit], {}, v))
  BY <1>1, WholeUnit
<1>7. Kept' /\ Stored' /\ buf' \in [0 .. LastUnit -> SUBSET Int]
  BY <1>1, <1>3, <1>4, <1>5, <1>6, WriteUnit
<1>8. Shift(unit)' = Shift(unit) + Ts /\ unit' \in 0 .. LastUnit
  <2>1. Shift(unit)' = Shift(unit + 1)
    BY <1>1 DEF Shift, end
  <2>2. Shift(unit + 1) = Shift(unit) + Ts
    BY <1>1, CurrentUnit, Shifts
  <2> QED
    BY <1>1, <2>1, <2>2, CurrentUnit
<1>9. Skipped' = Skipped + Ts /\ Ts \in 0 .. Ts /\ Shift(unit)' >= 0
  BY <1>1, <1>2, <1>8, CurrentUnit DEF Skipped
<1>10. Remaining' /\ v' \in SUBSET Int
  BY <1>1, <1>9, ShiftOn
<1> QED
  BY <1>1, <1>7, <1>8, <1>9, <1>10, GoesOn

(* The last unit of a little endian write.                                 *)
LEMMA StepLELast == FieldInv /\ LELast => FieldInv'
<1> SUFFICES ASSUME FieldInv, LELast PROVE FieldInv'
  OBVIOUS
<1>1. /\ order = "le" /\ pc = "middle" /\ unit = LastUnit /\ pc # "done" /\ pc' = "done"
      /\ Store(Merge(buf[unit], FromEnd, v))
      /\ UNCHANGED << order, start, length, signed, value, buf0, v, unit >>
  BY DEF LELast
<1>2. Shift(unit) >= 0 /\ Shift(unit) = length - Rest
  BY <1>1, CurrentUnit, Shifts DEF FieldInv, Position
<1>3. \A b \in UnitBits : b \in FromEnd <=> ~InField(unit, b)
  BY <1>1, <1>2, CurrentUnit, Masks
<1>4. \A b \in UnitBits : b \in v <=> b - (Skipped - Shift(unit)) \in v
  BY <1>1, <1>2, CurrentUnit
<1>5. \A u \in 0 .. LastUnit : Behind(u)' => Behind(u) \/ u = unit
  BY <1>1, CurrentUnit DEF Behind
<1>6. Kept' /\ Stored' /\ buf' \in [0 .. LastUnit -> SUBSET Int]
  BY <1>1, <1>3, <1>4, <1>5, WriteUnit
<1> QED
  BY <1>1, <1>6, Ends

(* The big endian write of a field within one unit.                        *)
LEMMA StepBEOneUnit == FieldInv /\ BEOneUnit => FieldInv'
<1> SUFFICES ASSUME FieldInv, BEOneUnit PROVE FieldInv'
  OBVIOUS
<1> DEFINE mask == AfterEnd \cup BeforeStart
           cmask == Left(v, (Ts - (end % Ts)) % Ts)
<1>1. /\ order = "be" /\ pc = "start" /\ LastUnit = 0 /\ pc # "done"
      /\ Store(Merge(buf[unit], mask, cmask)) /\ pc' = "done"
      /\ UNCHANGED << order, start, length, signed, value, buf0, v, unit >>
  BY DEF BEOneUnit
<1>2. unit = 0 /\ Shift(unit) = Rest - Ts /\ Shift(unit) = length + start - Ts
  BY <1>1, CurrentUnit, Shifts DEF FieldInv, Position
<1>3. \A b \in UnitBits : b \in mask <=> ~InField(unit, b)
  BY <1>1, <1>2, CurrentUnit, Masks
<1>4. \A b \in UnitBits : b \in cmask <=> b - (Skipped - Shift(unit)) \in v
  <2>1. Skipped - Shift(unit) = Ts - Rest /\ Ts - Rest \in Int
    BY <1>1, <1>2, CurrentUnit
  <2>2. cmask = Left(v, Ts - Rest)
    BY <1>1, CurrentUnit, Masks
  <2> HIDE DEF cmask
  <2> QED
    BY <1>1, <2>1, <2>2, CurrentUnit, LeftShift
<1>5. \A u \in 0 .. LastUnit : Behind(u)' => Behind(u) \/ u = unit
  BY <1>1, <1>2
<1> HIDE DEF mask, cmask
<1>6. Kept' /\ Stored' /\ buf' \in [0 .. LastUnit -> SUBSET Int]
  BY <1>1, <1>3, <1>4, <1>5, WriteUnit
<1> QED
  BY <1>1, <1>6, Ends

(* A big endian write starts with the last unit: it takes the end of the   *)
(* field.                                                                  *)
LEMMA StepBELast == FieldInv /\ BELast => FieldInv'
<1> SUFFICES ASSUME FieldInv, BELast PROVE FieldInv'
  OBVIOUS
<1> DEFINE cmask == Left(v, Ts - (end % Ts))
<1>1. /\ order = "be" /\ pc = "start" /\ LastUnit # 0 /\ pc # "done" /\ pc' = "middle"
      /\ UNCHANGED << order, start, length, signed, value, buf0 >>
  BY DEF BELast
<1>2. /\ unit = LastUnit /\ unit > 0 /\ Shift(unit) = Rest - Ts
      /\ Shift(unit) + Ts <= length + start - Ts
  BY <1>1, CurrentUnit, Shifts DEF FieldInv, Position
<1>3. CASE end % Ts # 0
  <2>1. /\ Store(Merge(buf[unit], AfterEnd, cmask))
        /\ v' = Right(v, Rest) /\ unit' = unit - 1
        /\ cmask = Left(v, Ts - Rest)
    BY <1>3 DEF BELast, Rest
  <2>2. \A b \in UnitBits : b \in AfterEnd <=> ~InField(unit, b)
    BY <1>1, <1>2, CurrentUnit, Masks
  <2> HIDE DEF cmask
  <2>3. \A b \in UnitBits : b \in cmask <=> b - (Skipped - Shift(unit)) \in v
    <3>1. Skipped - Shift(unit) = Ts - Rest /\ Ts - Rest \in Int
      BY <1>1, <1>2, CurrentUnit
    <3> QED
      BY <1>1, <2>1, <3>1, CurrentUnit, LeftShift
  <2>4. \A u \in 0 .. LastUnit : Behind(u)' => Behind(u) \/ u = unit
    BY <1>1, <1>2, <2>1, CurrentUnit DEF Behind
  <2>5. Kept' /\ Stored' /\ buf' \in [0 .. LastUnit -> SUBSET Int]
    BY <1>1, <2>1, <2>2, <2>3, <2>4, WriteUnit
  <2>6. Shift(unit)' = Rest /\ unit' \in 0 .. LastUnit
    <3>1. Shift(unit)' = Shift(unit - 1)
      BY <1>1, <2>1 DEF Shift, end
    <3>2. Shift(unit - 1) = Shift(unit) + Ts
      BY <1>1, CurrentUnit, Shifts
    <3> QED
      BY <1>1, <1>2, <2>1, <3>1, <3>2, CurrentUnit
  <2>7. Skipped' = Skipped + Rest /\ Rest \in 0 .. Ts /\ Shift(unit)' >= 0
    BY <1>1, <1>2, <2>6, CurrentUnit DEF Skipped
  <2>8. Remaining' /\ v' \in SUBSET Int
    BY <1>1, <2>1, <2>7, ShiftOn
  <2> QED
    BY <1>1, <2>5, <2>6, <2>7, <2>8, GoesOn
<1>4. CASE end % Ts = 0
  <2>1. UNCHANGED << buf, v, unit >> /\ Rest = Ts
    BY <1>4 DEF BELast, Rest
  <2>2. Shift(unit)' = Shift(unit) /\ Shift(unit)' >= 0 /\ LastUnit' = LastUnit
    <3>1. Shift(unit) >= 0
      BY <1>1, <1>2, <2>1, CurrentUnit
    <3> QED
      BY <1>1, <2>1, <3>1 DEF Shift, end, LastUnit, EndUnit
  <2>3. Kept' /\ Stored' /\ Remaining'
    BY <1>1, <2>1, SameCall
       DEF FieldInv, Kept, Stored, Remaining, InField, UnitBits, Behind, Skipped
  <2> QED
    BY <1>1, <2>1, <2>2, <2>3, CurrentUnit, GoesOn DEF FieldType
<1> QED
  BY <1>3, <1>4

(* A whole unit of a big endian write.                                     *)
LEMMA StepBEMiddle == FieldInv /\ BEMiddle => FieldInv'
<1> SUFFICES ASSUME FieldInv, BEMiddle PROVE FieldInv'
  OBVIOUS
<1>1. /\ order = "be" /\ pc = "middle" /\ unit > 0 /\ pc # "done" /\ pc' = "middle"
      /\ Store(v \cap UnitBits) /\ v' = Right(v, Ts) /\ unit' = unit - 1
      /\ UNCHANGED << order, start, length, signed, value, buf0 >>
  BY DEF BEMiddle
<1>2. Shift(unit) >= 0 /\ Shift(unit) + Ts <= length
  BY <1>1, CurrentUnit, Shifts DEF FieldInv, Position
<1>3. \A b \in UnitBits : b \in {} <=> ~InField(unit, b)
  BY <1>1, <1>2, CurrentUnit
<1>4. \A b \in UnitBits : b \in v <=> b - (Skipped - Shift(unit)) \in v
  BY <1>1, <1>2, CurrentUnit
<1>5. \A u \in 0 .. LastUnit : Behind(u)' => Behind(u) \/ u = unit
  BY <1>1, CurrentUnit DEF Behind
<1>6. Store(Merge(buf[unit], {}, v))
  BY <1>1, WholeUnit
<1>7. Kept' /\ Stored' /\ buf' \in [0 .. LastUnit -> SUBSET Int]
  BY <1>1, <1>3, <1>4, <1>5, <1>6, WriteUnit
<1>8. Shift(unit)' = Shift(unit) + Ts /\ unit' \in 0 .. LastUnit
  <2>1. Shift(unit)' = Shift(unit - 1)
    BY <1>1 DEF Shift, end
  <2>2. Shift(unit - 1) = Shift(unit) + Ts
    BY <1>1, CurrentUnit, Shifts
  <2> QED
    BY <1>1, <2>1, <2>2, CurrentUnit
<1>9. Skipped' = Skipped + Ts /\ Ts \in 0 .. Ts /\ Shift(unit)' >= 0
  BY <1>1, <1>2, <1>8, CurrentUnit DEF Skipped
<1>10. Remaining' /\ v' \in SUBSET Int
  BY <1>1, <1>9, ShiftOn
<1> QED
  BY <1>1, <1>7, <1>8, <1>9, <1>10, GoesOn

(* A big endian write finishes with the first unit.                        *)
LEMMA StepBEFirst == FieldInv /\ BEFirst => FieldInv'
<1> SUFFICES ASSUME FieldInv, BEFirst PROVE FieldInv'
  OBVIOUS
<1>1. /\ order = "be" /\ pc = "middle" /\ unit = 0 /\ pc # "done" /\ pc' = "done"
      /\ Store(Merge(buf[unit], BeforeStart, v))
      /\ UNCHANGED << order, start, length, signed, value, buf0, v, unit >>
  BY DEF BEFirst
<1>2. Shift(unit) >= 0 /\ Shift(unit) = length + start - Ts
  BY <1>1, CurrentUnit, Shifts DEF FieldInv, Position
<1>3. \A b \in UnitBits : b \in BeforeStart <=> ~InField(unit, b)
  <2>1. \A b \in 0 .. (Ts - 1) : b \in BeforeStart <=> b >= Ts - start
    BY <1>1, CurrentUnit, Masks
  <2>2. \A b \in 0 .. (Ts - 1) : b >= Ts - start <=> ~(Shift(unit) + b \in 0 .. (length - 1))
    BY <1>1, <1>2, CurrentUnit
  <2> QED
    BY <1>1, <2>1, <2>2, CurrentUnit
<1>4. \A b \in UnitBits : b \in v <=> b - (Skipped - Shift(unit)) \in v
  BY <1>1, <1>2, CurrentUnit
<1>5. \A u \in 0 .. LastUnit : Behind(u)' => Behind(u) \/ u = unit
  BY <1>1, CurrentUnit DEF Behind
<1>6. Kept' /\ Stored' /\ buf' \in [0 .. LastUnit -> SUBSET Int]
  BY <1>1, <1>3, <1>4, <1>5, WriteUnit
<1> QED
  BY <1>1, <1>6, Ends

(* Every step of a write keeps the invariant.                              *)
LEMMA NextField == FieldInv /\ [Next]_vars => FieldInv'
<1> SUFFICES ASSUME FieldInv, [Next]_vars PROVE FieldInv'
  OBVIOUS
<1>1. CASE UNCHANGED vars
  <2>1. FieldType' /\ Kept' /\ Stored'
    BY <1>1, SameCall
       DEF vars, FieldInv, FieldType, CallType, Kept, Stored, InField, UnitBits, Behind
  <2>2. Remaining' /\ Position'
    BY <1>1, SameCall DEF vars, FieldInv, Remaining, Position, Skipped
  <2> QED
    BY <2>1, <2>2 DEF FieldInv
<1> QED
  BY <1>1, StepLEOneUnit, StepLEFirst, StepLEMiddle, StepLELast,
     StepBEOneUnit, StepBELast, StepBEMiddle, StepBEFirst DEF Next

-----------------------------------------------------------------------------

(* Place and Shift number the bits alike. *)
LEMMA PlaceOfBit ==
    ASSUME CallType
    PROVE  /\ \A k \in 0 .. (length - 1) :
                /\ Place(k)[1] \in 0 .. LastUnit /\ Place(k)[2] \in UnitBits
                /\ Shift(Place(k)[1]) + Place(k)[2] = k
           /\ \A u \in 0 .. LastUnit : \A b \in UnitBits :
                InField(u, b) => Place(Shift(u) + b) = << u, b >>
<1>1. /\ Ts \in Nat \ {0} /\ start \in 0 .. (Ts - 1) /\ length \in Nat
      /\ end = start + length /\ order \in {"le", "be"} /\ UnitBits = 0 .. (Ts - 1)
  BY BitFieldAssumption DEF CallType, UnitBits, end
<1>2. Rest \in 1 .. Ts /\ LastUnit \in Nat /\ LastUnit * Ts = end - Rest
  BY EndOfField
<1>3. ASSUME NEW k \in 0 .. (length - 1)
      PROVE  /\ Place(k)[1] \in 0 .. LastUnit /\ Place(k)[2] \in UnitBits
             /\ Shift(Place(k)[1]) + Place(k)[2] = k
  <2> DEFINE p == IF order = "le" THEN start + k ELSE start + length - 1 - k
             q == p \div Ts
             r == p % Ts
  <2>1. p \in 0 .. (end - 1)
    BY <1>1
  <2>2. p = IF order = "le" THEN start + k ELSE start + length - 1 - k
    OBVIOUS
  <2>3. Place(k) = << q, IF order = "le" THEN r ELSE Ts - 1 - r >>
    BY DEF Place
  <2> HIDE DEF p
  <2>4. q \in Int /\ r \in 0 .. (Ts - 1) /\ p = q * Ts + r
    BY <1>1, <2>1, Division
  <2> HIDE DEF q, r
  <2>5. q >= 0
    <3>1. CASE q <= -1
      <4>1. q * Ts <= (-1) * Ts
        BY <1>1, <2>4, <3>1, TimesOrdered
      <4> QED
        BY <1>1, <2>1, <2>4, <4>1
    <3> QED
      BY <2>4, <3>1
  <2>6. q <= LastUnit
    <3>1. CASE LastUnit + 1 <= q
      <4>1. (LastUnit + 1) * Ts <= q * Ts
        BY <1>1, <1>2, <2>4, <3>1, TimesOrdered
      <4>2. (LastUnit + 1) * Ts = LastUnit * Ts + Ts
        BY <1>1, <1>2
      <4> QED
        BY <1>1, <1>2, <2>1, <2>4, <4>1, <4>2
    <3> QED
      BY <1>2, <2>4, <3>1
  <2>7. Shift(q) = IF order = "le" THEN q * Ts - start ELSE end - (q * Ts + Ts)
    <3>1. (q + 1) * Ts = q * Ts + Ts
      BY <1>1, <2>4
    <3> QED
      BY <3>1 DEF Shift
  <2>8. Place(k)[1] = q /\ Place(k)[2] = IF order = "le" THEN r ELSE Ts - 1 - r
    BY <2>3
  <2>9. Place(k)[1] \in 0 .. LastUnit /\ Place(k)[2] \in UnitBits
    BY <1>1, <1>2, <2>4, <2>5, <2>6, <2>8
  <2>10. Shift(q) + Place(k)[2] = k
    <3> DEFINE t == q * Ts
    <3>1. t \in Int /\ p = t + r /\ Shift(q) = IF order = "le" THEN t - start ELSE end - (t + Ts)
      BY <1>1, <2>4, <2>7
    <3> HIDE DEF t
    <3> QED
      BY <1>1, <2>2, <2>4, <2>8, <3>1
  <2> QED
    BY <2>8, <2>9, <2>10
<1>4. ASSUME NEW u \in 0 .. LastUnit, NEW b \in UnitBits, InField(u, b)
      PROVE  Place(Shift(u) + b) = << u, b >>
  <2> DEFINE t == u * Ts
             k == Shift(u) + b
             p == IF order = "le" THEN start + k ELSE start + length - 1 - k
             r == IF order = "le" THEN b ELSE Ts - 1 - b
  <2>1. t \in Int /\ (u + 1) * Ts = t + Ts /\ u \in Int /\ b \in 0 .. (Ts - 1)
    BY <1>1, <1>2
  <2>2. Shift(u) = IF order = "le" THEN t - start ELSE end - (t + Ts)
    BY <2>1 DEF Shift
  <2>3. r \in 0 .. (Ts - 1)
    BY <1>1, <2>1
  <2>4. p = t + r
    <3> HIDE DEF t
    <3> QED
      BY <1>1, <2>1, <2>2
  <2>5. (u * Ts + r) \div Ts = u /\ (u * Ts + r) % Ts = r
    <3> HIDE DEF r
    <3> QED
      BY <1>1, <2>1, <2>3, DivisionUnique
  <2>6. p \div Ts = u /\ p % Ts = r
    <3> HIDE DEF p, r
    <3> QED
      BY <2>4, <2>5 DEF t
  <2>7. b = IF order = "le" THEN r ELSE Ts - 1 - r
    BY <1>1, <2>1
  <2>8. Place(k) = << p \div Ts, IF order = "le" THEN p % Ts ELSE Ts - 1 - (p % Ts) >>
    BY DEF Place
  <2> HIDE DEF p, r, k
  <2>9. Place(k) = << u, b >>
    BY <2>6, <2>7, <2>8
  <2> QED
    BY <2>9 DEF k
<1> QED
  BY <1>3, <1>4

(* The invariant of the macros. *)
THEOREM FieldInvariant == Spec => []FieldInv
<1>1. Init => FieldInv
  BY InitField
<1>2. FieldInv /\ [Next]_vars => FieldInv'
  BY NextField
<1> QED
  BY <1>1, <1>2, PTL DEF Spec

(* No statement of bt_bitfield_write_le and bt_bitfield_write_be changes a *)
(* bit outside the field.                                                  *)
THEOREM NeighborsAreKept == Spec => []NeighborsKept
<1>1. FieldInv => NeighborsKept
  <2> SUFFICES ASSUME FieldInv, NEW u \in DOMAIN buf, NEW b \in UnitBits,
                      << u, b >> \notin FieldPlaces
               PROVE  b \in buf[u] <=> b \in buf0[u]
    BY DEF NeighborsKept
  <2>1. u \in 0 .. LastUnit /\ CallType
    BY DEF FieldInv, FieldType
  <2>2. ~InField(u, b)
    <3> SUFFICES ASSUME InField(u, b) PROVE FALSE
      OBVIOUS
    <3>1. Place(Shift(u) + b) = << u, b >>
      BY <2>1, PlaceOfBit
    <3>2. Shift(u) + b \in 0 .. (length - 1)
      BY DEF InField
    <3> QED
      BY <3>1, <3>2 DEF FieldPlaces
  <2> QED
    BY <2>1, <2>2 DEF FieldInv, Kept
<1> QED
  BY <1>1, FieldInvariant, PTL

(* When they end, the field holds the value: each bit is where a reader    *)
(* with the same byte order looks for it.                                  *)
THEOREM ValueIsWritten == Spec => []ValueWritten
<1>1. FieldInv => ValueWritten
  <2> SUFFICES ASSUME FieldInv, pc = "done", NEW k \in 0 .. (length - 1)
               PROVE  k \in value <=> Place(k)[2] \in buf[Place(k)[1]]
    BY DEF ValueWritten
  <2> DEFINE u == Place(k)[1]
             b == Place(k)[2]
  <2>1. u \in 0 .. LastUnit /\ b \in UnitBits /\ Shift(u) + b = k
    BY PlaceOfBit DEF FieldInv, FieldType
  <2> HIDE DEF u, b
  <2>2. InField(u, b) /\ Behind(u)
    BY <2>1 DEF InField, Behind
  <2>3. b \in buf[u] <=> k \in value
    BY <2>1, <2>2 DEF FieldInv, Stored
  <2> QED
    BY <2>3 DEF u, b
<1> QED
  BY <1>1, FieldInvariant, PTL

=============================================================================
