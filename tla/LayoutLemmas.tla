---------------------------- MODULE LayoutLemmas ----------------------------
(***************************************************************************)
(* Facts the other proofs rest on: least and greatest numbers, remainders, *)
(* what the operators of Layout return, sequences and folds.               *)
(***************************************************************************)
EXTENDS Layout, Sequences, FiniteSetsExt, FiniteSetTheorems, WellFoundedInduction, TLAPS

-----------------------------------------------------------------------------
(* Least and greatest. *)

(* Every set of naturals has a least element: the least interval 0 .. x is *)
(* a minimal one.                                                          *)
LEMMA Least ==
    ASSUME NEW T \in SUBSET Nat, T # {}
    PROVE  \E x \in T : \A y \in T : x <= y
<1> DEFINE S == {0 .. n : n \in T}
           R == StrictSubsetOrdering(Nat)
<1>1. S \subseteq FiniteSubsetsOf(Nat)
  <2> SUFFICES ASSUME NEW n \in T PROVE 0 .. n \in FiniteSubsetsOf(Nat)
    OBVIOUS
  <2>1. IsFiniteSet(0 .. n) /\ 0 .. n \subseteq Nat
    BY FS_Interval
  <2> QED
    BY <2>1 DEF FiniteSubsetsOf
<1>2. IsWellFoundedOn(R, FiniteSubsetsOf(Nat))
  BY FS_StrictSubsetOrderingWellFounded
<1>3. S # {}
  OBVIOUS
<1>4. PICK s \in S : \A t \in S : ~ (<< t, s >> \in R)
  <2> HIDE DEF S, R
  <2> QED
    BY <1>1, <1>2, <1>3, WFMin
<1>5. PICK x \in T : s = 0 .. x
  OBVIOUS
<1>6. ASSUME NEW y \in T, y < x PROVE FALSE
  <2>1. 0 .. y \in S /\ 0 .. y \subseteq s /\ 0 .. y # s /\ s \subseteq Nat
    BY <1>5, <1>6
  <2> QED
    BY <1>4, <2>1 DEF StrictSubsetOrdering
<1> QED
  BY <1>6

(* Every finite set of naturals has a greatest element: otherwise take a   *)
(* minimal one that has none, and remove an element.                       *)
LEMMA Greatest ==
    ASSUME NEW S \in SUBSET Nat, IsFiniteSet(S), S # {}
    PROVE  \E x \in S : \A y \in S : x >= y
<1> DEFINE Has(A) == \E x \in A : \A y \in A : x >= y
           T == {A \in FiniteSubsetsOf(Nat) : A # {} /\ ~Has(A)}
           R == StrictSubsetOrdering(Nat)
<1>1. SUFFICES ASSUME T # {} PROVE FALSE
  BY DEF FiniteSubsetsOf
<1>2. IsWellFoundedOn(R, FiniteSubsetsOf(Nat)) /\ T \subseteq FiniteSubsetsOf(Nat)
  BY FS_StrictSubsetOrderingWellFounded
<1>3. PICK A \in T : \A B \in T : ~ (<< B, A >> \in R)
  <2> HIDE DEF T, R
  <2> QED
    BY <1>1, <1>2, WFMin
<1>4. A \in SUBSET Nat /\ IsFiniteSet(A) /\ A # {} /\ ~Has(A)
  BY DEF FiniteSubsetsOf
<1>5. PICK a \in A : TRUE
  BY <1>4
<1> DEFINE B == A \ {a}
<1>6. IsFiniteSet(B) /\ B \in SUBSET Nat /\ << B, A >> \in R
  <2>1. IsFiniteSet(B)
    BY <1>4, FS_RemoveElement
  <2> QED
    BY <1>4, <1>5, <2>1 DEF StrictSubsetOrdering
<1>7. B \notin T
  BY <1>3, <1>6
<1>8. CASE B = {}
  BY <1>4, <1>5, <1>8
<1>9. CASE B # {}
  <2>1. PICK m \in B : \A y \in B : m >= y
    BY <1>6, <1>7, <1>9 DEF FiniteSubsetsOf
  <2>2. CASE a >= m
    <3>1. \A y \in A : a >= y
      BY <1>4, <1>5, <2>1, <2>2
    <3> QED
      BY <1>4, <1>5, <3>1
  <2>3. CASE m >= a
    <3>1. \A y \in A : m >= y
      BY <1>4, <1>5, <2>1, <2>3
    <3> QED
      BY <1>4, <2>1, <3>1
  <2> QED
    BY <1>4, <1>5, <2>1, <2>2, <2>3
<1> QED
  BY <1>8, <1>9

-----------------------------------------------------------------------------
(* Remainders. *)

(* The remainder of a number that is split into a multiple and a rest.     *)
LEMMA ModSplit ==
    ASSUME NEW n \in Nat \ {0}, NEW q \in Int, NEW r \in 0 .. (n - 1)
    PROVE  (n * q + r) % n = r
OBVIOUS

(* A counter that wraps at each step is the count, wrapped.                *)
LEMMA ModNext ==
    ASSUME NEW n \in Nat \ {0}, NEW a \in Nat
    PROVE  ((a % n) + 1) % n = (a + 1) % n
<1> DEFINE q == a \div n
           r == a % n
<1>1. q \in Int /\ r \in 0 .. (n - 1) /\ a = n * q + r
  OBVIOUS
<1> HIDE DEF q, r
<1>2. CASE r < n - 1
  <2>1. r + 1 \in 0 .. (n - 1) /\ a + 1 = n * q + (r + 1)
    BY <1>1, <1>2
  <2>2. (n * q + (r + 1)) % n = r + 1
    BY <1>1, <2>1, ModSplit
  <2>3. (n * 0 + (r + 1)) % n = r + 1
    BY <2>1, ModSplit
  <2> QED
    BY <1>1, <2>1, <2>2, <2>3 DEF r
<1>3. CASE r = n - 1
  <2>1. a + 1 = n * (q + 1) + 0 /\ r + 1 = n * 1 + 0
    BY <1>1, <1>3
  <2>2. (n * (q + 1) + 0) % n = 0 /\ (n * 1 + 0) % n = 0
    BY <1>1, ModSplit
  <2> QED
    BY <2>1, <2>2 DEF r
<1> QED
  BY <1>1, <1>2, <1>3

(* The wrap of a wrap is the narrower wrap, when it divides the wider.     *)
LEMMA ModOfMod ==
    ASSUME NEW n \in Nat \ {0}, NEW m \in Nat \ {0}, n % m = 0, NEW a \in Nat
    PROVE  (a % n) % m = a % m
<1> DEFINE k == n \div m
           q == a \div n
           r == a % n
           s == r \div m
           t == r % m
<1>1. k \in Int /\ n = m * k + 0
  OBVIOUS
<1>2. q \in Int /\ r \in Nat /\ a = n * q + r
  OBVIOUS
<1>3. s \in Int /\ t \in 0 .. (m - 1) /\ r = m * s + t
  BY <1>2
<1> HIDE DEF k, q, r, s, t
<1>4. a = m * (k * q + s) + t
  BY <1>1, <1>2, <1>3
<1>5. (m * (k * q + s) + t) % m = t
  <2>1. k * q + s \in Int
    BY <1>1, <1>2, <1>3
  <2> HIDE DEF k
  <2> QED
    BY <1>3, <2>1, ModSplit
<1> QED
  BY <1>4, <1>5 DEF r, t

(* Adding multiples does not change a remainder. *)
LEMMA ModShift ==
    ASSUME NEW n \in Nat \ {0}, NEW q \in Int, NEW r \in Int
    PROVE  (n * q + r) % n = r % n
<1> DEFINE p == r \div n
           t == r % n
<1>1. p \in Int /\ t \in 0 .. (n - 1) /\ r = n * p + t
  OBVIOUS
<1> HIDE DEF p, t
<1>2. n * q + r = n * (q + p) + t /\ q + p \in Int
  BY <1>1
<1>3. (n * (q + p) + t) % n = t
  BY <1>1, <1>2, ModSplit
<1> QED
  BY <1>2, <1>3 DEF t

(* A multiple, as a product. *)
LEMMA Multiple ==
    ASSUME NEW n \in Nat \ {0}, NEW a \in Int, a % n = 0
    PROVE  \E q \in Int : a = n * q
<1>1. a \div n \in Int /\ a = n * (a \div n)
  OBVIOUS
<1> QED
  BY <1>1

(* Adding a multiple does not change the remainder.                        *)
LEMMA ModPlusMultiple ==
    ASSUME NEW n \in Nat \ {0}, NEW a \in Int, a % n = 0, NEW r \in Int
    PROVE  (a + r) % n = r % n
<1>1. PICK q \in Int : a = n * q
  BY Multiple
<1> QED
  BY <1>1, ModShift

(* The remainder of a sum. *)
LEMMA ModOfSum ==
    ASSUME NEW n \in Nat \ {0}, NEW a \in Int, NEW r \in Int
    PROVE  ((a % n) + r) % n = (a + r) % n
<1> DEFINE q == a \div n
           t == a % n
<1>1. q \in Int /\ t \in Int /\ a = n * q + t
  OBVIOUS
<1> HIDE DEF q, t
<1>2. a + r = n * q + (t + r) /\ t + r \in Int
  BY <1>1
<1>3. (n * q + (t + r)) % n = (t + r) % n
  BY <1>1, <1>2, ModShift
<1> QED
  BY <1>2, <1>3 DEF t

(* Divisibility is transitive. *)
LEMMA DividesAll ==
    ASSUME NEW n \in Nat \ {0}, NEW m \in Nat \ {0}, n % m = 0, NEW a \in Nat, a % n = 0
    PROVE  a % m = 0
<1>1. (a % n) % m = a % m
  BY ModOfMod
<1>2. 0 % m = 0
  OBVIOUS
<1> QED
  BY <1>1, <1>2

-----------------------------------------------------------------------------
(* Layout. *)

(* Aligning an offset never moves it back (_ALIGN). *)
LEMMA AlignUpBound ==
    ASSUME NEW at \in Nat, NEW align \in Nat \ {0}
    PROVE  AlignUp(at, align) \in Nat /\ at <= AlignUp(at, align)
BY DEF AlignUp

(* Nor does writing a part. *)
LEMMA PutBound ==
    ASSUME NEW at \in Nat, NEW part \in Part
    PROVE  Put(at, part) \in Nat /\ at <= Put(at, part)
<1>1. part.align \in Nat \ {0} /\ part.size \in Nat
  BY DEF Part
<1>2. AlignUp(at, part.align) \in Nat /\ at <= AlignUp(at, part.align)
  BY <1>1, AlignUpBound
<1> QED
  BY <1>1, <1>2 DEF Put

(* An event record ends at or after the offset where it starts, and the    *)
(* size the size function returns is the difference.                       *)
LEMMA ErEndBound ==
    ASSUME NEW at \in Nat, NEW er \in EventRecord
    PROVE  /\ ErEnd(at, er) \in Nat
           /\ at <= ErEnd(at, er)
           /\ ErSize(at, er) \in Nat
           /\ at + ErSize(at, er) = ErEnd(at, er)
<1> DEFINE a == Put(at, er.header)
           b == Put(a, er.common_ctx)
           c == Put(b, er.specific_ctx)
           d == Put(c, er.payload)
<1>0. er.header \in Part /\ er.common_ctx \in Part /\ er.specific_ctx \in Part /\ er.payload \in Part
  BY DEF EventRecord
<1>1. a \in Nat /\ at <= a
  BY <1>0, PutBound
<1>2. b \in Nat /\ a <= b
  BY <1>0, <1>1, PutBound
<1>3. c \in Nat /\ b <= c
  BY <1>0, <1>2, PutBound
<1>4. d \in Nat /\ c <= d
  BY <1>0, <1>3, PutBound
<1>5. ErEnd(at, er) = d
  BY DEF ErEnd
<1> HIDE DEF a, b, c, d
<1> QED
  BY <1>1, <1>2, <1>3, <1>4, <1>5 DEF ErSize

(* What aligning returns: a multiple of the alignment, which is the offset *)
(* itself when it is one.                                                  *)
LEMMA AlignUpAligned ==
    ASSUME NEW at \in Nat, NEW align \in Nat \ {0}
    PROVE  /\ AlignUp(at, align) % align = 0
           /\ at % align = 0 => AlignUp(at, align) = at
<1> DEFINE b == -at
           q == b \div align
           t == b % align
<1>1. q \in Int /\ t \in 0 .. (align - 1) /\ b = align * q + t /\ b \in Int
  OBVIOUS
<1>2. AlignUp(at, align) = at + t
  BY DEF AlignUp
<1> HIDE DEF q, t
<1>3. at + t = align * (-q) + 0 /\ -q \in Int
  BY <1>1 DEF b
<1>4. (align * (-q) + 0) % align = 0
  BY <1>3, ModSplit
<1>5. ASSUME at % align = 0 PROVE t = 0
  <2>0. at \in Int /\ 0 \in 0 .. (align - 1)
    OBVIOUS
  <2>1. PICK k \in Int : at = align * k
    BY <1>5, <2>0, Multiple
  <2> DEFINE j == -k
  <2>2. b = align * j + 0 /\ j \in Int
    BY <2>1
  <2> HIDE DEF j, b
  <2>3. (align * j + 0) % align = 0
    BY <2>0, <2>2, ModSplit
  <2> QED
    BY <2>2, <2>3 DEF t
<1> QED
  BY <1>2, <1>3, <1>4, <1>5

(* Aligning after a multiple of the alignment. *)
LEMMA AlignUpShift ==
    ASSUME NEW base \in Nat, NEW at \in Nat, NEW align \in Nat \ {0}, base % align = 0
    PROVE  AlignUp(base + at, align) = base + AlignUp(at, align)
<1>1. PICK k \in Int : base = align * k
  BY Multiple
<1>2. -(base + at) = align * (-k) + (-at) /\ -k \in Int /\ -at \in Int
  BY <1>1
<1>3. (align * (-k) + (-at)) % align = (-at) % align
  BY <1>2, ModShift
<1> QED
  BY <1>2, <1>3 DEF AlignUp

(* The offset in a byte after aligning depends only on that before, when   *)
(* the alignment divides a byte or is a number of bytes.                   *)
LEMMA AlignInByte ==
    ASSUME NEW at \in Nat, NEW align \in Nat \ {0}, 8 % align = 0 \/ align % 8 = 0
    PROVE  AlignUp(at % 8, align) % 8 = AlignUp(at, align) % 8
<1> DEFINE r == at % 8
           q == at \div 8
<1>1. r \in Nat /\ q \in Nat /\ at = 8 * q + r
  OBVIOUS
<1> HIDE DEF r, q
<1>2. AlignUp(r, align) \in Nat /\ AlignUp(at, align) \in Nat
  BY <1>1, AlignUpBound
<1>3. CASE 8 % align = 0
  <2>1. (8 * q) % align = 0 /\ 8 * q \in Nat
    <3>1. (8 * q) % 8 = 0 /\ 8 * q \in Nat
      BY <1>1
    <3> QED
      BY <1>3, <3>1, DividesAll
  <2>2. AlignUp(8 * q + r, align) = 8 * q + AlignUp(r, align)
    BY <1>1, <2>1, AlignUpShift
  <2>3. (8 * q + AlignUp(r, align)) % 8 = AlignUp(r, align) % 8
    BY <1>1, <1>2
  <2> QED
    BY <1>1, <2>2, <2>3 DEF r
<1>4. CASE align % 8 = 0
  <2>1. AlignUp(r, align) % align = 0 /\ AlignUp(at, align) % align = 0
    BY <1>1, AlignUpAligned
  <2>2. AlignUp(r, align) % 8 = 0 /\ AlignUp(at, align) % 8 = 0
    BY <1>2, <1>4, <2>1, DividesAll
  <2> QED
    BY <2>2 DEF r
<1> QED
  BY <1>3, <1>4

-----------------------------------------------------------------------------
(* Steps up to a number, and folds *)

(* The least number of an interval. *)
LEMMA LeastOfInterval ==
    ASSUME NEW n \in Nat, NEW I \in SUBSET (1 .. n), I # {}
    PROVE  Min(I) \in I /\ \A i \in I : Min(I) <= i
<1>1. I \in SUBSET Nat
  OBVIOUS
<1>2. \E x \in I : \A y \in I : x <= y
  BY <1>1, Least
<1> QED
  BY <1>2 DEF Min

(* What holds of 0, and of the next number whenever it holds of a number,  *)
(* holds up to n.                                                          *)
LEMMA Induction ==
    ASSUME NEW n \in Nat, NEW G, 0 \in G,
           \A k \in 0 .. n : k < n /\ k \in G => k + 1 \in G
    PROVE  \A k \in 0 .. n : k \in G
<1> DEFINE T == {k \in 0 .. n : k \notin G}
<1>1. SUFFICES ASSUME T # {} PROVE FALSE
  OBVIOUS
<1>2. PICK x \in T : \A y \in T : x <= y
  <2>1. T \in SUBSET Nat
    OBVIOUS
  <2> HIDE DEF T
  <2> QED
    BY <1>1, <2>1, Least
<1>3. x # 0 /\ x \in 0 .. n
  OBVIOUS
<1>4. x - 1 \in 0 .. n /\ x - 1 < n /\ x - 1 \notin T
  BY <1>2, <1>3
<1>5. (x - 1) + 1 = x
  BY <1>3
<1> QED
  BY <1>4, <1>5

(* A function defined by recursion on an interval exists. *)
StepFcns(n, D) == [1 .. n -> [D -> D]]

Goes(h, n, D, base, step) ==
    /\ h \in [0 .. n -> D]
    /\ h[0] = base
    /\ \A i \in 1 .. n : h[i] = step[i][h[i - 1]]

LEMMA Recursion ==
    ASSUME NEW n \in Nat, NEW D, NEW base \in D, NEW step \in StepFcns(n, D)
    PROVE  \E h : Goes(h, n, D, base, step)
<1> USE DEF StepFcns
<1> DEFINE Reach(h, k) == h[0] = base /\ \A i \in 1 .. k : h[i] = step[i][h[i - 1]]
           G == {k \in 0 .. n : \E h \in [0 .. k -> D] : Reach(h, k)}
<1>1. 0 \in G
  <2> DEFINE h == [i \in 0 .. 0 |-> base]
  <2>1. h \in [0 .. 0 -> D] /\ Reach(h, 0)
    OBVIOUS
  <2> HIDE DEF h, Reach
  <2>2. \E f \in [0 .. 0 -> D] : Reach(f, 0)
    BY <2>1
  <2> QED
    BY <2>2
<1>2. ASSUME NEW k \in 0 .. n, k < n, k \in G PROVE k + 1 \in G
  <2>1. PICK h \in [0 .. k -> D] : Reach(h, k)
    BY <1>2
  <2> DEFINE g == [i \in 0 .. (k + 1) |-> IF i = k + 1 THEN step[k + 1][h[k]] ELSE h[i]]
  <2>2. k + 1 \in 1 .. n /\ k \in 0 .. k
    BY <1>2
  <2>3. step[k + 1][h[k]] \in D
    BY <2>2
  <2>4. g \in [0 .. (k + 1) -> D]
    BY <2>3
  <2>5. g[0] = base
    BY <2>1, <2>2
  <2>6. ASSUME NEW i \in 1 .. (k + 1) PROVE g[i] = step[i][g[i - 1]]
    <3>1. CASE i = k + 1
      BY <2>2, <3>1
    <3>2. CASE i # k + 1
      <4>1. i \in 1 .. k /\ i - 1 \in 0 .. k /\ i - 1 # k + 1 /\ i \in 0 .. (k + 1) /\ i - 1 \in 0 .. (k + 1)
        BY <3>2
      <4>2. g[i] = h[i] /\ g[i - 1] = h[i - 1]
        BY <3>2, <4>1
      <4> QED
        BY <2>1, <4>1, <4>2
    <3> QED
      BY <3>1, <3>2
  <2>7. Reach(g, k + 1)
    BY <2>5, <2>6
  <2> HIDE DEF g, Reach
  <2> QED
    BY <2>2, <2>4, <2>7
<1> HIDE DEF G
<1>3. \A k \in 0 .. n : k < n /\ k \in G => k + 1 \in G
  BY <1>2
<1>4. \A k \in 0 .. n : k \in G
  BY <1>1, <1>3, Induction
<1>5. n \in G
  BY <1>4
<1> QED
  BY <1>5 DEF G, Goes

(* The greatest element of an interval, and of a set with its greatest.    *)
LEMMA MaxOf ==
    ASSUME NEW k \in Nat, NEW t \in SUBSET (1 .. k + 1), k + 1 \in t
    PROVE  Max(t) = k + 1
<1>1. \A y \in t : k + 1 >= y
  OBVIOUS
<1>2. \E x \in t : \A y \in t : x >= y
  BY <1>1
<1> DEFINE x == Max(t)
<1>3. x \in t /\ \A y \in t : x >= y
  BY <1>2 DEF Max
<1> HIDE DEF x
<1>4. x \in 1 .. k + 1 /\ x >= k + 1
  BY <1>3
<1> QED
  BY <1>4 DEF x

LEMMA MaxIn ==
    ASSUME NEW k \in Nat, NEW t \in SUBSET (1 .. k), t # {}
    PROVE  Max(t) \in t
<1>1. t \in SUBSET Nat /\ IsFiniteSet(t)
  <2>1. IsFiniteSet(1 .. k)
    BY FS_Interval
  <2> QED
    <3>1. IsFiniteSet(t)
      BY <2>1, FS_Subset
    <3> QED
      BY <3>1
<1>2. \E x \in t : \A y \in t : x >= y
  BY <1>1, Greatest
<1> QED
  BY <1>2 DEF Max

(* The function that a fold over the elements of a sequence computes.      *)
Folds(g, n, D, base, step) ==
    /\ g \in [SUBSET (1 .. n) -> D]
    /\ \A t \in SUBSET (1 .. n) :
           g[t] = IF t = {} THEN base ELSE step[Max(t)][g[t \ {Max(t)}]]

LEMMA FoldExists ==
    ASSUME NEW n \in Nat, NEW D, NEW base \in D, NEW step \in StepFcns(n, D)
    PROVE  \E g : Folds(g, n, D, base, step)
<1> USE DEF StepFcns
<1> DEFINE Reach(g, k) == \A t \in SUBSET (1 .. k) :
               g[t] = IF t = {} THEN base ELSE step[Max(t)][g[t \ {Max(t)}]]
           Some(k) == \E g \in [SUBSET (1 .. k) -> D] : Reach(g, k)
           G == {k \in 0 .. n : Some(k)}
<1>1. 0 \in G
  <2> DEFINE g == [t \in SUBSET (1 .. 0) |-> base]
  <2>1. g \in [SUBSET (1 .. 0) -> D]
    OBVIOUS
  <2>2. 1 .. 0 = {}
    OBVIOUS
  <2>3. Reach(g, 0)
    BY <2>2
  <2> HIDE DEF g, Reach
  <2>4. Some(0)
    BY <2>1, <2>3
  <2> HIDE DEF Some
  <2> QED
    BY <2>4
<1>2. ASSUME NEW k \in 0 .. n, k < n, k \in G PROVE k + 1 \in G
  <2>1. PICK g \in [SUBSET (1 .. k) -> D] : Reach(g, k)
    BY <1>2
  <2> DEFINE h == [t \in SUBSET (1 .. k + 1) |->
                      IF k + 1 \in t THEN step[k + 1][g[t \ {k + 1}]] ELSE g[t]]
  <2>2. k + 1 \in 1 .. n /\ k \in Nat
    BY <1>2
  <2>3. ASSUME NEW t \in SUBSET (1 .. k + 1)
        PROVE  /\ t \ {k + 1} \in SUBSET (1 .. k)
               /\ k + 1 \notin t => t \in SUBSET (1 .. k)
    BY <2>2
  <2>4. h \in [SUBSET (1 .. k + 1) -> D]
    <3> SUFFICES ASSUME NEW t \in SUBSET (1 .. k + 1)
                 PROVE  (IF k + 1 \in t THEN step[k + 1][g[t \ {k + 1}]] ELSE g[t]) \in D
      OBVIOUS
    <3>1. CASE k + 1 \in t
      <4>1. g[t \ {k + 1}] \in D
        BY <2>3
      <4> QED
        BY <2>2, <3>1, <4>1
    <3>2. CASE k + 1 \notin t
      BY <2>3, <3>2
    <3> QED
      BY <3>1, <3>2
  <2>5. ASSUME NEW t \in SUBSET (1 .. k + 1)
        PROVE  h[t] = IF t = {} THEN base ELSE step[Max(t)][h[t \ {Max(t)}]]
    <3>1. CASE k + 1 \in t
      <4>1. Max(t) = k + 1
        BY <2>2, <3>1, MaxOf
      <4>2. h[t \ {k + 1}] = g[t \ {k + 1}]
        BY <2>3
      <4>3. h[t] = step[k + 1][g[t \ {k + 1}]]
        BY <3>1
      <4> QED
        BY <3>1, <4>1, <4>2, <4>3
    <3>2. CASE k + 1 \notin t
      <4>1. t \in SUBSET (1 .. k) /\ h[t] = g[t]
        BY <2>3, <3>2
      <4>2. CASE t = {}
        BY <2>1, <4>1, <4>2
      <4>3. CASE t # {}
        <5>1. Max(t) \in t
          BY <2>2, <4>1, <4>3, MaxIn
        <5>2. t \ {Max(t)} \in SUBSET (1 .. k + 1) /\ k + 1 \notin t \ {Max(t)}
          BY <3>2
        <5>3. h[t \ {Max(t)}] = g[t \ {Max(t)}]
          BY <5>2
        <5> QED
          BY <2>1, <4>1, <4>3, <5>3
      <4> QED
        BY <4>2, <4>3
    <3> QED
      BY <3>1, <3>2
  <2>6. Reach(h, k + 1)
    BY <2>5
  <2> HIDE DEF h, Reach
  <2> QED
    BY <2>2, <2>4, <2>6
<1> HIDE DEF G
<1>3. \A k \in 0 .. n : k < n /\ k \in G => k + 1 \in G
  BY <1>2
<1>4. \A k \in 0 .. n : k \in G
  BY <1>1, <1>3, Induction
<1>5. n \in G
  BY <1>4
<1> QED
  BY <1>5 DEF G, Folds

-----------------------------------------------------------------------------
(* Sequences of whatever elements *)

Elements(s) == {s[i] : i \in DOMAIN s}

IsSequence(s) == s \in Seq(Elements(s))

(* One more element. *)
LEMMA AppendFacts ==
    ASSUME NEW s, IsSequence(s), NEW x
    PROVE  /\ IsSequence(Append(s, x))
           /\ Len(s) \in Nat
           /\ DOMAIN s = 1 .. Len(s)
           /\ Len(Append(s, x)) = Len(s) + 1
           /\ DOMAIN Append(s, x) = 1 .. (Len(s) + 1)
           /\ \A i \in 1 .. Len(s) : Append(s, x)[i] = s[i]
           /\ Append(s, x)[Len(s) + 1] = x
<1> DEFINE S == Elements(s) \cup {x}
           t == Append(s, x)
<1>1. s \in Seq(S) /\ x \in S
  BY DEF IsSequence
<1> HIDE DEF S
<1>2. /\ t \in Seq(S)
      /\ Len(s) \in Nat
      /\ DOMAIN s = 1 .. Len(s)
      /\ Len(t) = Len(s) + 1
      /\ DOMAIN t = 1 .. (Len(s) + 1)
      /\ \A i \in 1 .. Len(s) : t[i] = s[i]
      /\ t[Len(s) + 1] = x
  BY <1>1
<1>3. \A i \in 1 .. Len(t) : t[i] \in Elements(t)
  BY <1>2 DEF Elements
<1> HIDE DEF t
<1>4. t = [i \in 1 .. Len(t) |-> t[i]] /\ Len(t) \in Nat
  BY <1>2
<1>5. t \in Seq(Elements(t))
  BY <1>3, <1>4
<1> QED
  BY <1>2, <1>5 DEF IsSequence, t

(* The first n elements. *)
LEMMA PrefixFacts ==
    ASSUME NEW s, IsSequence(s), NEW n \in 0 .. Len(s)
    PROVE  /\ IsSequence(SubSeq(s, 1, n))
           /\ Len(SubSeq(s, 1, n)) = n
           /\ DOMAIN SubSeq(s, 1, n) = 1 .. n
           /\ \A i \in 1 .. n : SubSeq(s, 1, n)[i] = s[i]
<1> DEFINE t == SubSeq(s, 1, n)
           S == Elements(s)
<1>1. s \in Seq(S) /\ Len(s) \in Nat /\ n \in Nat
  BY DEF IsSequence
<1> HIDE DEF S
<1>2. /\ t \in Seq(S)
      /\ Len(t) = n
      /\ DOMAIN t = 1 .. n
      /\ \A i \in 1 .. n : t[i] = s[i]
  BY <1>1
<1>3. \A i \in 1 .. Len(t) : t[i] \in Elements(t)
  BY <1>2 DEF Elements
<1> HIDE DEF t
<1>4. t = [i \in 1 .. Len(t) |-> t[i]] /\ Len(t) \in Nat
  BY <1>2
<1>5. t \in Seq(Elements(t))
  BY <1>3, <1>4
<1> QED
  BY <1>2, <1>5 DEF IsSequence, t

=============================================================================
