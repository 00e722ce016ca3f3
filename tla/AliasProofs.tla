---------------------------- MODULE AliasProofs ----------------------------
(***************************************************************************)
(* Expansion of field type aliases, for every set of aliases and every     *)
(* trace type: a resolved alias names nothing, and only a cycle is refused *)
(* as one.                                                                 *)
(***************************************************************************)
EXTENDS Aliases, LayoutLemmas

-----------------------------------------------------------------------------
(* Nested values *)

Parts(value) == {value.parts[p] : p \in DOMAIN value.parts}

PartsOf(values) == UNION {Parts(v) : v \in values}

Nests(f, value, n) ==
    f = [k \in 0 .. n |-> IF k = 0 THEN {value} ELSE PartsOf(f[k - 1])]

LEMMA NestExists ==
    ASSUME NEW value, NEW n \in Nat
    PROVE  \E f : Nests(f, value, n)
<1> DEFINE G == {k \in 0 .. n : \E f : Nests(f, value, k)}
<1>1. 0 \in G
  <2> DEFINE f == [k \in 0 .. 0 |-> {value}]
  <2>1. Nests(f, value, 0)
    BY DEF Nests
  <2> HIDE DEF f
  <2> QED
    BY <2>1
<1>2. ASSUME NEW k \in 0 .. n, k < n, k \in G PROVE k + 1 \in G
  <2>1. PICK f : Nests(f, value, k)
    BY <1>2
  <2> DEFINE g == [i \in 0 .. (k + 1) |-> IF i = k + 1 THEN PartsOf(f[k]) ELSE f[i]]
  <2>2. ASSUME NEW i \in 0 .. (k + 1)
        PROVE  g[i] = IF i = 0 THEN {value} ELSE PartsOf(g[i - 1])
    <3>1. k \in Nat /\ i \in Nat
      OBVIOUS
    <3>2. CASE i = k + 1
      <4>1. i - 1 = k /\ k \in 0 .. (k + 1) /\ k # k + 1 /\ i # 0
        BY <3>1, <3>2
      <4>2. g[k] = f[k]
        BY <4>1
      <4> QED
        BY <3>2, <4>1, <4>2
    <3>3. CASE i # k + 1
      <4>1. i \in 0 .. k /\ (i # 0 => i - 1 \in 0 .. k /\ i - 1 # k + 1 /\ i - 1 \in 0 .. (k + 1))
        BY <3>1, <3>3
      <4>2. f[i] = IF i = 0 THEN {value} ELSE PartsOf(f[i - 1])
        BY <2>1, <4>1 DEF Nests
      <4> QED
        BY <3>3, <4>1, <4>2
    <3> QED
      BY <3>2, <3>3
  <2>3. Nests(g, value, k + 1)
    BY <2>2 DEF Nests
  <2> HIDE DEF g
  <2>4. k + 1 \in 0 .. n
    BY <1>2
  <2> QED
    BY <2>3, <2>4
<1> HIDE DEF G
<1>3. \A k \in 0 .. n : k < n /\ k \in G => k + 1 \in G
  BY <1>2
<1>4. \A k \in 0 .. n : k \in G
  BY <1>1, <1>3, Induction
<1>5. n \in G
  BY <1>4
<1> QED
  BY <1>5 DEF G

LEMMA NestedFacts ==
    ASSUME NEW value
    PROVE  /\ DOMAIN Nested(value) = 0 .. MaxDepth
           /\ Nested(value)[0] = {value}
           /\ \A n \in 1 .. MaxDepth : Nested(value)[n] = PartsOf(Nested(value)[n - 1])
<1>1. MaxDepth \in Nat
  BY AliasesAssumption DEF AliasesAssumption
<1>2. PICK f : Nests(f, value, MaxDepth)
  BY <1>1, NestExists
<1>3. f = [n \in 0 .. MaxDepth |->
              IF n = 0 THEN {value}
              ELSE UNION {{v.parts[p] : p \in DOMAIN v.parts} : v \in f[n - 1]}]
  BY <1>2 DEF Nests, PartsOf, Parts
<1>4. PICK g : /\ g = [n \in 0 .. MaxDepth |->
                          IF n = 0 THEN {value}
                          ELSE UNION {{v.parts[p] : p \in DOMAIN v.parts} : v \in g[n - 1]}]
               /\ Nested(value) = g
  BY <1>3 DEF Nested
<1>5. Nests(g, value, MaxDepth)
  BY <1>4 DEF Nests, PartsOf, Parts
<1>6. /\ DOMAIN g = 0 .. MaxDepth /\ g[0] = {value}
      /\ \A n \in 1 .. MaxDepth : g[n] = PartsOf(g[n - 1])
  BY <1>1, <1>5 DEF Nests
<1> QED
  BY <1>4, <1>6

(* What is nested in a value, and how deep. *)
LEMMA WithinFacts ==
    ASSUME NEW value
    PROVE  Within(value) = UNION {Nested(value)[n] : n \in 0 .. MaxDepth}
BY NestedFacts DEF Within, Range

LEMMA ItselfWithin ==
    ASSUME NEW value
    PROVE  value \in Within(value)
<1>1. 0 \in 0 .. MaxDepth
  BY AliasesAssumption DEF AliasesAssumption
<1> QED
  BY <1>1, NestedFacts, WithinFacts

(* The parts of what is nested in a value are, too. *)
LEMMA PartsWithin ==
    ASSUME NEW value, IsTree(value), NEW v \in Within(value), NEW p \in DOMAIN v.parts
    PROVE  v.parts[p] \in Within(value)
<1>1. MaxDepth \in Nat
  BY AliasesAssumption DEF AliasesAssumption
<1>2. PICK n \in 0 .. MaxDepth : v \in Nested(value)[n]
  BY WithinFacts
<1>3. n # MaxDepth
  BY <1>2 DEF IsTree
<1>4. n + 1 \in 1 .. MaxDepth /\ (n + 1) - 1 = n /\ n + 1 \in 0 .. MaxDepth
  BY <1>1, <1>3
<1>5. v.parts[p] \in PartsOf(Nested(value)[n])
  BY <1>2 DEF PartsOf, Parts
<1>6. Nested(value)[n + 1] = PartsOf(Nested(value)[(n + 1) - 1])
  BY <1>4, NestedFacts
<1>7. v.parts[p] \in Nested(value)[n + 1]
  BY <1>4, <1>5, <1>6
<1> QED
  BY <1>4, <1>7, WithinFacts

(* What is nested in a node is nested in one of its parts. *)
LEMMA WithinPart ==
    ASSUME NEW value, NEW w \in Within(value), w # value
    PROVE  \E p \in DOMAIN value.parts : w \in Within(value.parts[p])
<1> DEFINE N(n) == UNION {Nested(q)[n] : q \in Parts(value)}
           G == {n \in 0 .. MaxDepth : n = 0 \/ Nested(value)[n] \subseteq N(n - 1)}
<1>1. MaxDepth \in Nat
  BY AliasesAssumption DEF AliasesAssumption
<1>2. 0 \in G
  BY <1>1
<1>3. ASSUME NEW n \in 0 .. MaxDepth, n < MaxDepth, n \in G
      PROVE  n + 1 \in G
  <2>1. n + 1 \in 1 .. MaxDepth /\ (n + 1) - 1 = n /\ n + 1 \in 0 .. MaxDepth
    BY <1>1, <1>3
  <2>2. Nested(value)[n + 1] = PartsOf(Nested(value)[n])
    <3>1. Nested(value)[n + 1] = PartsOf(Nested(value)[(n + 1) - 1])
      BY <2>1, NestedFacts
    <3> QED
      BY <2>1, <3>1
  <2>3. CASE n = 0
    <3>1. PartsOf(Nested(value)[n]) = Parts(value)
      <4>1. Nested(value)[n] = {value}
        BY <2>3, NestedFacts
      <4> QED
        BY <4>1 DEF PartsOf
    <3>2. \A q \in Parts(value) : q \in Nested(q)[n]
      BY <2>3, NestedFacts
    <3>3. Nested(value)[n + 1] \subseteq N((n + 1) - 1)
      BY <2>1, <2>2, <3>1, <3>2
    <3> QED
      BY <2>1, <3>3
  <2>4. CASE n # 0
    <3>1. Nested(value)[n] \subseteq N(n - 1) /\ n \in 1 .. MaxDepth
      BY <1>3, <2>4
    <3>2. ASSUME NEW x \in Nested(value)[n + 1]
          PROVE  x \in N(n)
      <4>1. PICK v \in Nested(value)[n] : x \in Parts(v)
        BY <2>2 DEF PartsOf
      <4>2. PICK q \in Parts(value) : v \in Nested(q)[n - 1]
        BY <3>1
      <4>3. Nested(q)[n] = PartsOf(Nested(q)[n - 1])
        BY <3>1, NestedFacts
      <4>4. x \in Nested(q)[n]
        BY <4>1, <4>2, <4>3 DEF PartsOf
      <4> QED
        BY <4>4
    <3>3. Nested(value)[n + 1] \subseteq N((n + 1) - 1)
      BY <2>1, <3>2
    <3> QED
      BY <2>1, <3>3
  <2> QED
    BY <2>3, <2>4
<1> HIDE DEF G
<1>4. \A n \in 0 .. MaxDepth : n < MaxDepth /\ n \in G => n + 1 \in G
  BY <1>3
<1>5. \A n \in 0 .. MaxDepth : n \in G
  BY <1>1, <1>2, <1>4, Induction
<1>6. PICK n \in 0 .. MaxDepth : w \in Nested(value)[n]
  BY WithinFacts
<1>7. n # 0
  BY <1>6, NestedFacts
<1>8. w \in N(n - 1) /\ n - 1 \in 0 .. MaxDepth
  BY <1>1, <1>5, <1>6, <1>7 DEF G
<1>9. PICK q \in Parts(value) : w \in Nested(q)[n - 1]
  BY <1>8
<1> QED
  BY <1>8, <1>9, WithinFacts DEF Parts

(* A name that occurs in a value is one of its names. *)
LEMMA NameWithin ==
    ASSUME NEW value, NEW v \in Within(value), v.ref
    PROVE  v.name \in Names(value)
BY DEF Names

(* A node whose parts have no name left has none. *)
LEMMA NoNameLeft ==
    ASSUME NEW value, value.ref = FALSE, \A p \in DOMAIN value.parts : Names(value.parts[p]) = {}
    PROVE  Names(value) = {}
<1> SUFFICES ASSUME NEW w \in Within(value), w.ref PROVE FALSE
  BY DEF Names
<1>1. PICK p \in DOMAIN value.parts : w \in Within(value.parts[p])
  BY WithinPart
<1> QED
  BY <1>1, NameWithin

-----------------------------------------------------------------------------
(* Calls under way *)

IsFrame(f, map) ==
    /\ f = [node |-> f.node, for |-> f.for, pending |-> f.pending]
    /\ IsValue(f.node) /\ f.node.ref = FALSE
    /\ f.pending \subseteq DOMAIN f.node.parts
    /\ f.for.what = "alias" => f.for.name \in DOMAIN map /\ DOMAIN f.node.parts = {"value"}

(* What the value that a frame was made from is nested in: the trace type, *)
(* or what an alias names.                                                 *)
Origin(for, map, top) == IF for.what = "alias" THEN map[for.name] ELSE top

(* A part is as it was until it is expanded, and then it has no name. *)
Expands(f, origin) ==
    \A p \in DOMAIN f.node.parts :
        \/ p \in f.pending /\ f.node.parts[p] \in Within(origin)
        \/ p \notin f.pending /\ Names(f.node.parts[p]) = {}

(* The frame of the trace type, or of the alias, that frame i is for a     *)
(* nested node of.                                                         *)
Owns(fs, k, i) ==
    /\ k <= i
    /\ fs[k].for.what # "part"
    /\ \A j \in DOMAIN fs : k < j /\ j <= i => fs[j].for.what = "part"

Shaped(fs, map) ==
    /\ fs[1].for.what = "root"
    /\ \A i \in DOMAIN fs : IsFrame(fs[i], map)
    /\ \A i \in DOMAIN fs : i # 1 => fs[i].for.what \in {"alias", "part"}

AllExpand(fs, map, top) ==
    \A i, k \in DOMAIN fs : Owns(fs, k, i) => Expands(fs[i], Origin(fs[k].for, map, top))

(* An alias is expanded for what names it. *)
AllNamed(fs, map, top) ==
    \A i, k \in DOMAIN fs :
        i + 1 \in DOMAIN fs /\ fs[i + 1].for.what = "alias" /\ Owns(fs, k, i) =>
            fs[i + 1].for.name \in Names(Origin(fs[k].for, map, top))

Calls(fs, map, top) ==
    /\ IsSequence(fs)
    /\ Len(fs) > 0
    /\ Shaped(fs, map)
    /\ AllExpand(fs, map, top)
    /\ AllNamed(fs, map, top)

LEMMA CallsDomain ==
    ASSUME NEW fs, NEW map, NEW top, Calls(fs, map, top)
    PROVE  /\ Len(fs) \in Nat /\ Len(fs) > 0 /\ DOMAIN fs = 1 .. Len(fs)
           /\ 1 \in DOMAIN fs /\ Len(fs) \in DOMAIN fs
BY DEF Calls, IsSequence

LEMMA OwnerExists ==
    ASSUME NEW fs, NEW map, NEW top, Calls(fs, map, top), NEW i \in DOMAIN fs
    PROVE  \E k \in DOMAIN fs : Owns(fs, k, i)
<1> DEFINE S == {k \in 1 .. i : fs[k].for.what # "part"}
<1>1. Len(fs) \in Nat /\ DOMAIN fs = 1 .. Len(fs) /\ 1 \in DOMAIN fs /\ i \in Nat /\ i >= 1
  BY CallsDomain
<1>2. fs[1].for.what = "root"
  BY DEF Calls, Shaped
<1>3. S \in SUBSET Nat /\ IsFiniteSet(S) /\ 1 \in S
  <2>1. IsFiniteSet(1 .. i)
    BY <1>1, FS_Interval
  <2> QED
    BY <1>1, <1>2, <2>1, FS_Subset
<1>4. PICK k \in S : \A y \in S : k >= y
  <2> HIDE DEF S
  <2> QED
    BY <1>3, Greatest
<1>5. k \in DOMAIN fs /\ k <= i /\ fs[k].for.what # "part"
  BY <1>1
<1>6. ASSUME NEW j \in DOMAIN fs, k < j, j <= i
      PROVE  fs[j].for.what = "part"
  BY <1>1, <1>4, <1>6
<1> QED
  BY <1>5, <1>6 DEF Owns

(* The same frames, further along. *)
LEMMA CallsSame ==
    ASSUME NEW fs, NEW gs, NEW map, NEW top, Calls(fs, map, top),
           IsSequence(gs), DOMAIN gs = DOMAIN fs, Len(gs) = Len(fs),
           \A i \in DOMAIN fs :
               /\ gs[i].for = fs[i].for
               /\ IsFrame(gs[i], map)
               /\ \A origin : Expands(fs[i], origin) => Expands(gs[i], origin)
    PROVE  Calls(gs, map, top)
<1>1. \A k, i \in DOMAIN fs : Owns(gs, k, i) <=> Owns(fs, k, i)
  BY DEF Owns
<1>2. 1 \in DOMAIN fs
  BY CallsDomain
<1>3. Shaped(gs, map)
  BY <1>2 DEF Calls, Shaped
<1>4. AllExpand(gs, map, top)
  BY <1>1 DEF Calls, AllExpand
<1>5. AllNamed(gs, map, top)
  BY <1>1 DEF Calls, AllNamed
<1> QED
  BY <1>3, <1>4, <1>5 DEF Calls

(* The first ones only. *)
LEMMA CallsPrefix ==
    ASSUME NEW fs, NEW map, NEW top, Calls(fs, map, top), NEW n \in 1 .. Len(fs)
    PROVE  Calls(SubSeq(fs, 1, n), map, top)
<1> DEFINE gs == SubSeq(fs, 1, n)
<1>1. Len(fs) \in Nat /\ DOMAIN fs = 1 .. Len(fs) /\ n \in 0 .. Len(fs) /\ n \in Nat /\ n >= 1
  BY CallsDomain
<1>2. /\ IsSequence(gs) /\ Len(gs) = n /\ DOMAIN gs = 1 .. n
      /\ \A i \in 1 .. n : gs[i] = fs[i]
  BY <1>1, PrefixFacts DEF Calls
<1> HIDE DEF gs
<1>3. 1 \in 1 .. n /\ \A i \in 1 .. n : i \in DOMAIN fs
  BY <1>1
<1>4. ASSUME NEW k \in 1 .. n, NEW i \in 1 .. n, Owns(gs, k, i)
      PROVE  Owns(fs, k, i)
  <2>1. \A j \in DOMAIN fs : k < j /\ j <= i => j \in 1 .. n
    BY <1>1
  <2> QED
    BY <1>2, <1>4, <2>1 DEF Owns
<1>5. Shaped(gs, map)
  BY <1>2, <1>3 DEF Calls, Shaped
<1>6. AllExpand(gs, map, top)
  BY <1>2, <1>3, <1>4 DEF Calls, AllExpand
<1>7. AllNamed(gs, map, top)
  BY <1>2, <1>3, <1>4 DEF Calls, AllNamed
<1>8. Calls(gs, map, top)
  BY <1>1, <1>2, <1>5, <1>6, <1>7 DEF Calls
<1> QED
  BY <1>8 DEF gs

(* One more call: for a nested node, or for an alias that is named. *)
Pushed(f, map, top, origin) ==
    \/ f.for.what = "part" /\ Expands(f, origin)
    \/ /\ f.for.what = "alias"
       /\ Expands(f, Origin(f.for, map, top))
       /\ f.for.name \in Names(origin)

LEMMA CallsPush ==
    ASSUME NEW fs, NEW map, NEW top, Calls(fs, map, top), NEW f, IsFrame(f, map),
           \A k \in DOMAIN fs : Owns(fs, k, Len(fs)) =>
               Pushed(f, map, top, Origin(fs[k].for, map, top))
    PROVE  Calls(Append(fs, f), map, top)
<1> DEFINE gs == Append(fs, f)
           n == Len(fs)
<1>1. n \in Nat /\ n > 0 /\ DOMAIN fs = 1 .. n /\ 1 \in DOMAIN fs /\ n \in DOMAIN fs
  BY CallsDomain
<1>2. /\ IsSequence(gs) /\ Len(gs) = n + 1 /\ DOMAIN gs = 1 .. (n + 1)
      /\ \A i \in 1 .. n : gs[i] = fs[i]
      /\ gs[n + 1] = f
  BY AppendFacts DEF Calls
<1> HIDE DEF gs, n
<1>3. PICK own \in DOMAIN fs : Owns(fs, own, n)
  BY <1>1, OwnerExists
<1>4. f.for.what \in {"alias", "part"}
  BY <1>3 DEF Pushed, n
<1>5. \A i \in 1 .. (n + 1) : i \in 1 .. n \/ i = n + 1
  BY <1>1
<1>6. Shaped(gs, map)
  <2>1. \A i \in 1 .. n : gs[i] = fs[i] /\ IsFrame(fs[i], map)
    BY <1>1, <1>2 DEF Calls, Shaped
  <2>2. \A i \in 1 .. n : i # 1 => fs[i].for.what \in {"alias", "part"}
    BY <1>1 DEF Calls, Shaped
  <2>3. gs[1].for.what = "root"
    BY <1>1, <1>2 DEF Calls, Shaped
  <2> QED
    BY <1>2, <1>4, <1>5, <2>1, <2>2, <2>3 DEF Shaped
<1>7. ASSUME NEW k \in 1 .. n, NEW i \in 1 .. n, Owns(gs, k, i)
      PROVE  Owns(fs, k, i)
  <2>1. \A j \in DOMAIN fs : j \in DOMAIN gs /\ gs[j] = fs[j]
    BY <1>1, <1>2
  <2> QED
    BY <1>1, <1>2, <1>7, <2>1 DEF Owns
<1>8. ASSUME NEW k \in 1 .. (n + 1), Owns(gs, k, n + 1)
      PROVE  \/ k = n + 1 /\ f.for.what = "alias"
             \/ k \in 1 .. n /\ f.for.what = "part" /\ Owns(fs, k, n)
  <2>1. CASE k = n + 1
    <3>1. f.for.what # "part"
      BY <1>2, <1>8, <2>1 DEF Owns
    <3> QED
      BY <1>4, <2>1, <3>1
  <2>2. CASE k \in 1 .. n
    <3>1. n + 1 \in DOMAIN gs /\ k < n + 1 /\ n + 1 <= n + 1 /\ k <= n
      BY <1>1, <1>2, <2>2
    <3>2. f.for.what = "part"
      BY <1>2, <1>8, <3>1 DEF Owns
    <3>3. \A j \in DOMAIN fs : k < j /\ j <= n => j \in DOMAIN gs /\ gs[j] = fs[j] /\ j <= n + 1
      BY <1>1, <1>2
    <3>4. Owns(fs, k, n)
      BY <1>2, <1>8, <2>2, <3>1, <3>3 DEF Owns
    <3> QED
      BY <2>2, <3>2, <3>4
  <2> QED
    BY <1>5, <2>1, <2>2
<1>9. ASSUME NEW i \in 1 .. (n + 1), NEW k \in 1 .. (n + 1), Owns(gs, k, i)
      PROVE  Expands(gs[i], Origin(gs[k].for, map, top))
  <2>1. CASE i \in 1 .. n
    <3>1. k \in 1 .. n
      <4>1. k <= i
        BY <1>9 DEF Owns
      <4> QED
        BY <1>1, <2>1, <4>1
    <3>2. Owns(fs, k, i)
      BY <1>7, <1>9, <2>1, <3>1
    <3> QED
      BY <1>1, <1>2, <2>1, <3>1, <3>2 DEF Calls, AllExpand
  <2>2. CASE i = n + 1
    <3>1. CASE k = n + 1 /\ f.for.what = "alias"
      <4>1. Expands(f, Origin(f.for, map, top))
        BY <1>3, <3>1 DEF Pushed, n
      <4> QED
        BY <1>2, <2>2, <3>1, <4>1
    <3>2. CASE k \in 1 .. n /\ f.for.what = "part" /\ Owns(fs, k, n)
      <4>1. Pushed(f, map, top, Origin(fs[k].for, map, top))
        BY <1>1, <3>2 DEF n
      <4>2. Expands(f, Origin(fs[k].for, map, top))
        BY <3>2, <4>1 DEF Pushed
      <4> QED
        BY <1>2, <2>2, <3>2, <4>2
    <3> QED
      BY <1>8, <1>9, <2>2, <3>1, <3>2
  <2> QED
    BY <1>5, <2>1, <2>2
<1>10. ASSUME NEW i \in 1 .. (n + 1), NEW k \in 1 .. (n + 1), i + 1 \in 1 .. (n + 1),
              gs[i + 1].for.what = "alias", Owns(gs, k, i)
       PROVE  gs[i + 1].for.name \in Names(Origin(gs[k].for, map, top))
  <2>1. i \in 1 .. n /\ k \in 1 .. n
    <3>1. k <= i
      BY <1>10 DEF Owns
    <3> QED
      BY <1>1, <1>10, <3>1
  <2>2. Owns(fs, k, i) /\ gs[k] = fs[k]
    BY <1>2, <1>7, <1>10, <2>1
  <2>3. CASE i + 1 \in 1 .. n
    <3>1. gs[i + 1] = fs[i + 1]
      BY <1>2, <2>3
    <3> QED
      BY <1>1, <1>10, <2>1, <2>2, <2>3, <3>1 DEF Calls, AllNamed
  <2>4. CASE i + 1 = n + 1
    <3>1. i = n
      BY <1>1, <2>1, <2>4
    <3>2. Pushed(f, map, top, Origin(fs[k].for, map, top))
      BY <1>1, <2>1, <2>2, <3>1 DEF n
    <3>3. f.for.what = "alias"
      BY <1>2, <1>10, <2>4
    <3>4. f.for.name \in Names(Origin(fs[k].for, map, top))
      BY <3>2, <3>3 DEF Pushed
    <3> QED
      BY <1>2, <2>2, <2>4, <3>4
  <2> QED
    BY <1>5, <1>10, <2>3, <2>4
<1>11. AllExpand(gs, map, top)
  BY <1>2, <1>9 DEF AllExpand
<1>12. AllNamed(gs, map, top)
  BY <1>2, <1>10 DEF AllNamed
<1>13. Calls(gs, map, top)
  BY <1>1, <1>2, <1>6, <1>11, <1>12 DEF Calls
<1> QED
  BY <1>13 DEF gs

(* The innermost call goes on. *)
LEMMA CallsTop ==
    ASSUME NEW fs, NEW map, NEW top, Calls(fs, map, top), NEW g, IsFrame(g, map),
           g.for = Last(fs).for,
           \A origin : Expands(Last(fs), origin) => Expands(g, origin)
    PROVE  Calls(Append(Front(fs), g), map, top) /\ Len(Append(Front(fs), g)) = Len(fs)
<1> DEFINE n == Len(fs)
           b == Front(fs)
           gs == Append(b, g)
<1>1. /\ n \in Nat /\ n > 0 /\ DOMAIN fs = 1 .. n /\ IsSequence(fs) /\ n - 1 \in 0 .. n
      /\ \A i \in DOMAIN fs : IsFrame(fs[i], map)
  BY CallsDomain DEF Calls, Shaped
<1>2. /\ IsSequence(b) /\ Len(b) = n - 1
      /\ \A i \in 1 .. (n - 1) : b[i] = fs[i]
  BY <1>1, PrefixFacts DEF Front
<1>3. Last(fs) = fs[n]
  BY DEF Last
<1> HIDE DEF n, b
<1>4. /\ IsSequence(gs) /\ Len(gs) = n /\ DOMAIN gs = 1 .. n
      /\ \A i \in 1 .. (n - 1) : gs[i] = fs[i]
      /\ gs[n] = g
  BY <1>1, <1>2, AppendFacts
<1> HIDE DEF gs
<1>5. ASSUME NEW i \in DOMAIN fs
      PROVE  /\ gs[i].for = fs[i].for
             /\ IsFrame(gs[i], map)
             /\ \A origin : Expands(fs[i], origin) => Expands(gs[i], origin)
  <2>1. CASE i = n
    BY <1>3, <1>4, <2>1
  <2>2. CASE i \in 1 .. (n - 1)
    BY <1>1, <1>4, <2>2
  <2> QED
    BY <1>1, <2>1, <2>2
<1>6. Len(fs) = n
  BY DEF n
<1>7. Calls(gs, map, top)
  BY <1>1, <1>4, <1>5, <1>6, CallsSame
<1> QED
  BY <1>4, <1>6, <1>7 DEF gs, b

(* What a new frame holds. *)
LEMMA NewFrame ==
    ASSUME NEW node, IsValue(node), node.ref = FALSE, NEW for, NEW map,
           for.what = "alias" => for.name \in DOMAIN map /\ DOMAIN node.parts = {"value"},
           NEW origin, \A p \in DOMAIN node.parts : node.parts[p] \in Within(origin)
    PROVE  /\ IsFrame(Frame(node, for), map) /\ Frame(node, for).for = for
           /\ Expands(Frame(node, for), origin)
BY DEF Frame, IsFrame, Expands

(* A part is expanded: no name is left in it. *)
LEMMA DoneFacts ==
    ASSUME NEW f, NEW map, IsFrame(f, map), NEW part, NEW value, Names(value) = {}
    PROVE  /\ IsFrame(Done(f, part, value), map) /\ Done(f, part, value).for = f.for
           /\ \A origin : Expands(f, origin) => Expands(Done(f, part, value), origin)
<1> DEFINE parts == [f.node.parts EXCEPT ![part] = value]
           node == [f.node EXCEPT !.parts = parts]
           pending == f.pending \ {part}
           g == [node |-> node, for |-> f.for, pending |-> pending]
<1>0. ASSUME NEW x, NEW y, NEW z, NEW u, NEW v
      PROVE  LET r == [node |-> x, for |-> y, pending |-> z]
             IN [[r EXCEPT !.pending = u] EXCEPT !.node = v]
                    = [node |-> v, for |-> y, pending |-> u]
  <2> DEFINE r == [node |-> x, for |-> y, pending |-> z]
             s == [node |-> x, for |-> y, pending |-> u]
  <2>1. [r EXCEPT !.pending = u] = s
    OBVIOUS
  <2>2. [s EXCEPT !.node = v] = [node |-> v, for |-> y, pending |-> u]
    OBVIOUS
  <2> QED
    BY <2>1, <2>2
<1>1. Done(f, part, value) = g
  <2>1. Done(f, part, value) = [f EXCEPT !.pending = f.pending \ {part},
                                         !.node.parts[part] = value]
    BY DEF Done
  <2>2. f = [node |-> f.node, for |-> f.for, pending |-> f.pending]
    BY DEF IsFrame
  <2>3. \A u : [f EXCEPT !.pending = u].node = f.node
    BY <2>2
  <2>4. Done(f, part, value) = [[f EXCEPT !.pending = pending] EXCEPT !.node = node]
    BY <2>1, <2>3
  <2> HIDE DEF node, pending
  <2> QED
    BY <1>0, <2>2, <2>4
<1>2. /\ DOMAIN parts = DOMAIN f.node.parts
      /\ \A p \in DOMAIN parts : parts[p] = IF p = part THEN value ELSE f.node.parts[p]
  OBVIOUS
<1> HIDE DEF parts
<1>3. /\ f.node = [ref |-> f.node.ref, name |-> f.node.name, props |-> f.node.props,
                   parts |-> f.node.parts]
      /\ f.node.ref = FALSE
  BY DEF IsFrame, IsValue
<1>4. node = [ref |-> FALSE, name |-> f.node.name, props |-> f.node.props, parts |-> parts]
  <2> DEFINE m == f.node
  <2>1. /\ m = [ref |-> m.ref, name |-> m.name, props |-> m.props, parts |-> m.parts]
        /\ m.ref = FALSE
    BY <1>3
  <2> HIDE DEF m
  <2>2. [m EXCEPT !.parts = parts] =
            [ref |-> m.ref, name |-> m.name, props |-> m.props, parts |-> parts]
    <3>1. m = [ref |-> m.ref, name |-> m.name, props |-> m.props, parts |-> m.parts]
      BY <2>1
    <3> QED
      BY <3>1
  <2>3. [m EXCEPT !.parts = parts] =
            [ref |-> FALSE, name |-> m.name, props |-> m.props, parts |-> parts]
    BY <2>1, <2>2
  <2> QED
    BY <2>3 DEF m
<1> HIDE DEF node
<1>5. IsValue(node) /\ node.ref = FALSE /\ node.parts = parts
  BY <1>4 DEF IsValue
<1>6. IsFrame(g, map) /\ g.for = f.for
  BY <1>2, <1>5 DEF IsFrame
<1>7. ASSUME NEW origin, Expands(f, origin)
      PROVE  Expands(g, origin)
  BY <1>2, <1>5, <1>7 DEF Expands
<1> QED
  BY <1>1, <1>6, <1>7

-----------------------------------------------------------------------------
(* The inductive invariant *)

UnderWay(fs) == {fs[i].for.name : i \in {j \in DOMAIN fs : fs[j].for.what = "alias"}}

(* Of the aliases that were encountered for a field type, those that are   *)
(* not resolved are those under way.                                       *)
AliasInv ==
    /\ root \in Roots
    /\ aliases0 \in AliasMaps
    /\ DOMAIN aliases = DOMAIN aliases0
    /\ resolved \subseteq DOMAIN aliases0
    /\ \A a \in DOMAIN aliases0 :
        \/ a \in resolved /\ Names(aliases[a]) = {}
        \/ a \notin resolved /\ aliases[a] = aliases0[a]
    /\ Calls(frames, aliases0, root)
    /\ Len(frames) > 1 => alias_set \ resolved \subseteq UnderWay(frames)

(* The trace type and the aliases are trees. *)
LEMMA OriginsAreTrees ==
    ASSUME AliasInv, NEW k \in DOMAIN frames
    PROVE  IsTree(Origin(frames[k].for, aliases0, root))
<1>1. IsFrame(frames[k], aliases0)
  BY DEF AliasInv, Calls, Shaped
<1> QED
  BY <1>1, AliasesAssumption DEF AliasInv, AliasesAssumption, Origin, IsFrame

LEMMA InitAlias == Init => AliasInv
<1> SUFFICES ASSUME Init PROVE AliasInv
  OBVIOUS
<1> DEFINE f == Frame(root, ForRoot)
<1>1. /\ frames = << f >> /\ root \in Roots /\ aliases0 \in AliasMaps /\ aliases = aliases0
      /\ resolved = {} /\ alias_set = {}
  BY DEF Init
<1>2. IsTree(root) /\ ~root.ref
  BY <1>1, AliasesAssumption DEF AliasesAssumption
<1>3. root \in Within(root)
  BY ItselfWithin
<1>4. IsValue(root) /\ root.ref = FALSE
  BY <1>2, <1>3 DEF IsTree, IsValue
<1>5. \A p \in DOMAIN root.parts : root.parts[p] \in Within(root)
  BY <1>2, <1>3, PartsWithin
<1>6. ForRoot.what = "root"
  BY DEF ForRoot
<1>7. IsFrame(f, aliases0) /\ f.for = ForRoot /\ Expands(f, root)
  BY <1>4, <1>5, <1>6, NewFrame
<1> HIDE DEF f
<1>8. /\ Len(frames) = 1 /\ DOMAIN frames = 1 .. 1 /\ frames[1] = f /\ IsSequence(frames)
  BY <1>1 DEF IsSequence, Elements
<1>9. Origin(f.for, aliases0, root) = root
  BY <1>6, <1>7 DEF Origin
<1>10. Calls(frames, aliases0, root)
  BY <1>6, <1>7, <1>8, <1>9 DEF Calls, Shaped, AllExpand, AllNamed
<1> QED
  BY <1>1, <1>8, <1>10 DEF AliasInv

(* A part that is to be expanded. *)
LEMMA PendingFacts ==
    ASSUME AliasInv, NEW p \in Top.pending, NEW k \in DOMAIN frames, Owns(frames, k, Len(frames))
    PROVE  /\ IsFrame(Top, aliases0)
           /\ p \in DOMAIN Top.node.parts
           /\ Top.node.parts[p] \in Within(Origin(frames[k].for, aliases0, root))
<1>1. Len(frames) \in DOMAIN frames /\ Top = frames[Len(frames)]
  BY CallsDomain DEF AliasInv, Top, Last
<1>2. IsFrame(Top, aliases0)
  BY <1>1 DEF AliasInv, Calls, Shaped
<1>3. Expands(Top, Origin(frames[k].for, aliases0, root))
  BY <1>1 DEF AliasInv, Calls, AllExpand
<1> QED
  BY <1>2, <1>3 DEF IsFrame, Expands

(* Every step keeps the account of the aliases and of their names. *)
LEMMA NextAlias == AliasInv /\ [Next]_vars => AliasInv'
<1> SUFFICES ASSUME AliasInv, [Next]_vars PROVE AliasInv'
  OBVIOUS
<1> DEFINE n == Len(frames)
<1>0. /\ Calls(frames, aliases0, root) /\ IsSequence(frames)
      /\ n \in Nat /\ n > 0 /\ DOMAIN frames = 1 .. n /\ n \in DOMAIN frames
      /\ Top = frames[n] /\ Last(frames) = Top
      /\ IsFrame(Top, aliases0)
      /\ \A i \in DOMAIN frames : i # 1 => frames[i].for.what \in {"alias", "part"}
      /\ frames[1].for.what = "root"
  BY CallsDomain DEF AliasInv, Calls, Shaped, Top, Last
<1>1. root' = root /\ aliases0' = aliases0
  BY DEF Next, vars, NoSuchAlias, CycleDetected, ResolveAlias, CopyAlias, EnterNode,
         AliasReturns, NodeReturns, RootReturns, ApplyFtsInheritance, Refuse
<1>2. ASSUME Calls(frames', aliases0, root), UNCHANGED << aliases, resolved >>,
             Len(frames') > 1 => alias_set' \ resolved \subseteq UnderWay(frames')
      PROVE  AliasInv'
  BY <1>1, <1>2 DEF AliasInv
<1>3. Encountered = IF n = 1 THEN {} ELSE alias_set
  BY DEF Encountered
<1>4. Encountered \ resolved \subseteq UnderWay(frames)
  BY <1>0, <1>3 DEF AliasInv
<1>5. PICK own \in DOMAIN frames : Owns(frames, own, n)
  BY <1>0, OwnerExists
<1>6. CASE ResolveAlias
  <2>1. PICK p \in AliasParts :
            LET alias == Top.node.parts[p].name IN
            /\ alias \in DOMAIN aliases \ resolved
            /\ alias_set' = Encountered \cup {alias}
            /\ frames' = Append(frames, Frame(Node(<< >>, [value |-> aliases[alias]]),
                                              ForAlias(alias)))
            /\ UNCHANGED << aliases, resolved >>
    BY <1>6 DEF ResolveAlias
  <2> DEFINE alias == Top.node.parts[p].name
             node == Node(<< >>, [value |-> aliases[alias]])
             f == Frame(node, ForAlias(alias))
  <2>2. p \in Top.pending /\ Top.node.parts[p].ref
    BY DEF AliasParts
  <2>3. aliases[alias] = aliases0[alias] /\ alias \in DOMAIN aliases0
    BY <2>1 DEF AliasInv
  <2>4. IsValue(node) /\ node.ref = FALSE /\ node.parts = [value |-> aliases0[alias]]
    BY <2>3 DEF Node, IsValue
  <2>5. ForAlias(alias).what = "alias" /\ ForAlias(alias).name = alias
    BY DEF ForAlias
  <2>6. frames' = Append(frames, f) /\ alias_set' = Encountered \cup {alias}
    BY <2>1
  <2> HIDE DEF node
  <2>7. \A q \in DOMAIN node.parts : node.parts[q] \in Within(aliases0[alias])
    BY <2>4, ItselfWithin
  <2>8. /\ IsFrame(f, aliases0) /\ f.for = ForAlias(alias)
        /\ Expands(f, aliases0[alias])
    BY <2>3, <2>4, <2>5, <2>7, NewFrame
  <2> HIDE DEF f
  <2>9. ASSUME NEW k \in DOMAIN frames, Owns(frames, k, Len(frames))
        PROVE  Pushed(f, aliases0, root, Origin(frames[k].for, aliases0, root))
    <3>1. Top.node.parts[p] \in Within(Origin(frames[k].for, aliases0, root))
      BY <2>2, <2>9, PendingFacts
    <3>2. alias \in Names(Origin(frames[k].for, aliases0, root))
      BY <2>2, <3>1, NameWithin
    <3>3. Origin(f.for, aliases0, root) = aliases0[alias]
      BY <2>5, <2>8 DEF Origin
    <3> QED
      BY <2>5, <2>8, <3>2, <3>3 DEF Pushed
  <2>10. Calls(frames', aliases0, root)
    BY <1>0, <2>6, <2>8, <2>9, CallsPush
  <2>11. UnderWay(frames) \cup {alias} \subseteq UnderWay(frames')
    <3>1. /\ DOMAIN frames' = 1 .. (n + 1)
          /\ \A i \in 1 .. n : frames'[i] = frames[i]
          /\ frames'[n + 1] = f
      BY <1>0, <2>6, AppendFacts
    <3>2. n + 1 \in 1 .. (n + 1) /\ \A i \in 1 .. n : i \in 1 .. (n + 1)
      BY <1>0
    <3>3. alias \in UnderWay(frames')
      BY <2>5, <2>8, <3>1, <3>2 DEF UnderWay
    <3>4. UnderWay(frames) \subseteq UnderWay(frames')
      BY <1>0, <3>1, <3>2 DEF UnderWay
    <3> QED
      BY <3>3, <3>4
  <2> QED
    BY <1>2, <1>4, <2>1, <2>6, <2>10, <2>11
<1>7. CASE CopyAlias
  <2>1. PICK p \in AliasParts :
            /\ Top.node.parts[p].name \in resolved
            /\ frames' = Append(Below, Done(Top, p, aliases[Top.node.parts[p].name]))
            /\ UNCHANGED << aliases, resolved, alias_set >>
    BY <1>7 DEF CopyAlias
  <2> DEFINE value == aliases[Top.node.parts[p].name]
             g == Done(Top, p, value)
  <2>2. Names(value) = {}
    BY <2>1 DEF AliasInv
  <2>3. frames' = Append(Front(frames), g)
    BY <2>1 DEF Below
  <2> HIDE DEF value
  <2>4. /\ IsFrame(g, aliases0) /\ g.for = Top.for
        /\ \A origin : Expands(Top, origin) => Expands(g, origin)
    BY <1>0, <2>2, DoneFacts
  <2> HIDE DEF g
  <2>5. Calls(frames', aliases0, root) /\ Len(frames') = n
    BY <1>0, <2>3, <2>4, CallsTop
  <2>6. UnderWay(frames) \subseteq UnderWay(frames')
    <3>1. n - 1 \in 0 .. n
      BY <1>0
    <3>2. /\ IsSequence(Front(frames)) /\ Len(Front(frames)) = n - 1
          /\ \A i \in 1 .. (n - 1) : Front(frames)[i] = frames[i]
      BY <1>0, <3>1, PrefixFacts DEF Front
    <3>3. /\ \A i \in 1 .. (n - 1) : frames'[i] = frames[i]
          /\ frames'[n] = g /\ DOMAIN frames' = 1 .. n
      <4>1. n - 1 + 1 = n
        BY <1>0
      <4> QED
        BY <2>3, <3>2, <4>1, AppendFacts
    <3>4. \A i \in 1 .. n : i = n \/ i \in 1 .. (n - 1)
      <4>1. n \in Nat
        BY <1>0
      <4> HIDE DEF n
      <4> QED
        BY <4>1
    <3>5. \A i \in 1 .. n : frames'[i].for = frames[i].for
      BY <1>0, <2>4, <3>3, <3>4
    <3> QED
      BY <1>0, <3>3, <3>5 DEF UnderWay
  <2> QED
    BY <1>2, <2>1, <2>5, <2>6 DEF AliasInv
<1>8. CASE EnterNode
  <2>1. PICK p \in NodeParts :
            /\ alias_set' = Encountered
            /\ frames' = Append(frames, Frame(Top.node.parts[p], ForPart(p)))
            /\ UNCHANGED << aliases, resolved >>
    BY <1>8 DEF EnterNode
  <2> DEFINE node == Top.node.parts[p]
             f == Frame(node, ForPart(p))
  <2>2. p \in Top.pending /\ ~node.ref
    BY DEF NodeParts
  <2>3. ASSUME NEW k \in DOMAIN frames, Owns(frames, k, n)
        PROVE  /\ IsFrame(f, aliases0) /\ f.for = ForPart(p)
               /\ Expands(f, Origin(frames[k].for, aliases0, root))
    <3> DEFINE origin == Origin(frames[k].for, aliases0, root)
    <3>1. IsTree(origin) /\ node \in Within(origin)
      BY <2>2, <2>3, OriginsAreTrees, PendingFacts
    <3> HIDE DEF origin, node
    <3>2. IsValue(node) /\ node.ref = FALSE
      BY <2>2, <3>1 DEF IsTree, IsValue
    <3>3. \A q \in DOMAIN node.parts : node.parts[q] \in Within(origin)
      BY <3>1, PartsWithin
    <3>4. ForPart(p).what # "alias"
      BY DEF ForPart
    <3>5. /\ IsFrame(f, aliases0) /\ f.for = ForPart(p) /\ Expands(f, origin)
      BY <3>2, <3>3, <3>4, NewFrame
    <3> QED
      BY <3>5 DEF origin
  <2>4. frames' = Append(frames, f)
    BY <2>1
  <2>5. IsFrame(f, aliases0) /\ f.for.what = "part"
    BY <1>5, <2>3 DEF ForPart
  <2>6. \A k \in DOMAIN frames : Owns(frames, k, Len(frames)) =>
            Pushed(f, aliases0, root, Origin(frames[k].for, aliases0, root))
    BY <2>3, <2>5 DEF Pushed
  <2> HIDE DEF f
  <2>7. Calls(frames', aliases0, root)
    BY <1>0, <2>4, <2>5, <2>6, CallsPush
  <2>8. UnderWay(frames) \subseteq UnderWay(frames')
    <3>1. DOMAIN frames' = 1 .. (n + 1) /\ \A i \in 1 .. n : frames'[i] = frames[i]
      BY <1>0, <2>4, AppendFacts
    <3>2. \A i \in 1 .. n : i \in 1 .. (n + 1)
      BY <1>0
    <3> QED
      BY <1>0, <3>1, <3>2 DEF UnderWay
  <2> QED
    BY <1>2, <1>4, <2>1, <2>7, <2>8
<1>9. ASSUME Top.for.what # "root"
      PROVE  /\ n > 1 /\ n - 1 \in 1 .. n /\ n - 1 \in Nat
             /\ Calls(Below, aliases0, root)
             /\ Len(Below) = n - 1 /\ DOMAIN Below = 1 .. (n - 1)
             /\ IsSequence(Below)
             /\ \A i \in 1 .. (n - 1) : Below[i] = frames[i]
  <2>1. n > 1 /\ n - 1 \in 1 .. n /\ n - 1 \in 0 .. n /\ n - 1 \in Nat
    BY <1>0, <1>9
  <2>2. Below = SubSeq(frames, 1, n - 1)
    BY DEF Below, Front
  <2>3. Calls(SubSeq(frames, 1, n - 1), aliases0, root)
    BY <1>0, <2>1, CallsPrefix
  <2>4. LET b == SubSeq(frames, 1, n - 1) IN
        /\ Len(b) = n - 1 /\ DOMAIN b = 1 .. (n - 1) /\ IsSequence(b)
        /\ \A i \in 1 .. (n - 1) : b[i] = frames[i]
    BY <1>0, <2>1, PrefixFacts
  <2> QED
    BY <2>1, <2>2, <2>3, <2>4
<1>10. CASE AliasReturns
  <2> DEFINE name == Top.for.name
             value == Top.node.parts["value"]
  <2>1. /\ Top.pending = {} /\ Top.for.what = "alias"
        /\ aliases' = [aliases EXCEPT ![name] = value]
        /\ resolved' = resolved \cup {name}
        /\ frames' = Below
        /\ alias_set' = alias_set
    BY <1>10 DEF AliasReturns, Expanded
  <2>2. name \in DOMAIN aliases0 /\ "value" \in DOMAIN Top.node.parts
    BY <1>0, <2>1 DEF IsFrame
  <2>3. Names(value) = {}
    <3>1. Expands(Top, Origin(frames[own].for, aliases0, root))
      BY <1>0, <1>5 DEF Calls, AllExpand
    <3> QED
      BY <2>1, <2>2, <3>1 DEF Expands
  <2> HIDE DEF name, value
  <2>4. \A a \in DOMAIN aliases0' :
            \/ a \in resolved' /\ Names(aliases'[a]) = {}
            \/ a \notin resolved' /\ aliases'[a] = aliases0'[a]
    <3>1. DOMAIN aliases = DOMAIN aliases0 /\ aliases0' = aliases0
      BY <1>1 DEF AliasInv
    <3>2. \A a \in DOMAIN aliases0 : aliases'[a] = IF a = name THEN value ELSE aliases[a]
      BY <2>1, <3>1
    <3>3. \A a \in DOMAIN aliases0 : a # name =>
              \/ a \in resolved /\ Names(aliases[a]) = {}
              \/ a \notin resolved /\ aliases[a] = aliases0[a]
      BY DEF AliasInv
    <3> QED
      BY <2>1, <2>3, <3>1, <3>2, <3>3
  <2>5. DOMAIN aliases' = DOMAIN aliases0' /\ resolved' \subseteq DOMAIN aliases0'
    BY <1>1, <2>1, <2>2 DEF AliasInv
  <2>6. Calls(frames', aliases0, root) /\ Len(frames') = n - 1 /\ DOMAIN frames' = 1 .. (n - 1)
        /\ \A i \in 1 .. (n - 1) : frames'[i] = frames[i]
    BY <1>9, <2>1
  <2>7. UnderWay(frames) \subseteq UnderWay(frames') \cup {name}
    <3> SUFFICES ASSUME NEW i \in DOMAIN frames, frames[i].for.what = "alias"
                 PROVE  frames[i].for.name \in UnderWay(frames') \cup {name}
      BY DEF UnderWay
    <3>1. i = n \/ i \in 1 .. (n - 1)
      BY <1>0
    <3>2. CASE i = n
      BY <1>0, <3>2 DEF name
    <3>3. CASE i \in 1 .. (n - 1)
      BY <2>6, <3>3 DEF UnderWay
    <3> QED
      BY <3>1, <3>2, <3>3
  <2>8. n > 1
    BY <1>9, <2>1
  <2>9. alias_set' \ resolved' \subseteq UnderWay(frames')
    BY <2>1, <2>7, <2>8 DEF AliasInv
  <2> QED
    BY <1>1, <2>4, <2>5, <2>6, <2>9 DEF AliasInv
<1>11. CASE NodeReturns
  <2> DEFINE g == Done(Last(Below), Top.for.name, Top.node)
  <2>1. /\ Top.pending = {} /\ Top.for.what = "part"
        /\ frames' = Append(Front(Below), g)
        /\ UNCHANGED << aliases, resolved, alias_set >>
    BY <1>11 DEF NodeReturns, Expanded
  <2>2. Names(Top.node) = {}
    <3>1. Expands(Top, Origin(frames[own].for, aliases0, root))
      BY <1>0, <1>5 DEF Calls, AllExpand
    <3>2. \A p \in DOMAIN Top.node.parts : Names(Top.node.parts[p]) = {}
      BY <2>1, <3>1 DEF Expands
    <3>3. Top.node.ref = FALSE
      BY <1>0 DEF IsFrame
    <3> QED
      BY <3>2, <3>3, NoNameLeft
  <2>3. /\ n > 1 /\ n - 1 \in 1 .. (n - 1)
        /\ Calls(Below, aliases0, root) /\ Len(Below) = n - 1 /\ DOMAIN Below = 1 .. (n - 1)
        /\ IsSequence(Below)
        /\ \A i \in 1 .. (n - 1) : Below[i] = frames[i]
    <3>1. n \in Nat /\ n > 1 /\ Top.for.what # "root"
      BY <1>0, <1>9, <2>1
    <3>2. n - 1 \in 1 .. (n - 1)
      <4> HIDE DEF n
      <4> QED
        BY <3>1
    <3> QED
      BY <1>9, <3>1, <3>2
  <2>4. Last(Below) = Below[n - 1] /\ IsFrame(Last(Below), aliases0)
    BY <2>3 DEF Last, Calls, Shaped
  <2>5. /\ IsFrame(g, aliases0) /\ g.for = Last(Below).for
        /\ \A origin : Expands(Last(Below), origin) => Expands(g, origin)
    BY <2>2, <2>4, DoneFacts
  <2> HIDE DEF g
  <2>6. Calls(frames', aliases0, root) /\ Len(frames') = n - 1
    BY <2>1, <2>3, <2>5, CallsTop
  <2>7. UnderWay(frames) \subseteq UnderWay(frames')
    <3> SUFFICES ASSUME NEW i \in DOMAIN frames, frames[i].for.what = "alias"
                 PROVE  frames[i].for.name \in UnderWay(frames')
      BY DEF UnderWay
    <3>1. i \in 1 .. (n - 1)
      <4>1. i # n
        BY <1>0, <2>1
      <4> QED
        BY <1>0, <4>1
    <3>2. n - 2 \in 0 .. (n - 1) /\ (n - 1) - 1 = n - 2 /\ n - 2 + 1 = n - 1
      BY <1>0, <2>3
    <3>3. /\ IsSequence(Front(Below)) /\ Len(Front(Below)) = n - 2
          /\ \A j \in 1 .. (n - 2) : Front(Below)[j] = Below[j]
      BY <2>3, <3>2, PrefixFacts DEF Front
    <3>4. /\ \A j \in 1 .. (n - 2) : frames'[j] = frames[j]
          /\ frames'[n - 1] = g /\ DOMAIN frames' = 1 .. (n - 1)
      <4>1. /\ \A j \in 1 .. (n - 2) : frames'[j] = Front(Below)[j]
            /\ frames'[n - 1] = g /\ DOMAIN frames' = 1 .. (n - 1)
        <5> DEFINE b == Front(Below)
                   m == Len(b)
        <5>1. frames' = Append(b, g) /\ IsSequence(b) /\ m = n - 2
          BY <2>1, <3>3
        <5> HIDE DEF b
        <5>2. /\ \A j \in 1 .. m : frames'[j] = b[j]
              /\ frames'[m + 1] = g /\ DOMAIN frames' = 1 .. (m + 1)
          BY <5>1, AppendFacts
        <5> HIDE DEF m
        <5> QED
          BY <3>2, <5>1, <5>2 DEF b
      <4>2. \A j \in 1 .. (n - 2) : j \in 1 .. (n - 1)
        BY <1>0
      <4> QED
        BY <2>3, <3>3, <4>1, <4>2
    <3>5. frames'[i].for = frames[i].for
      <4>1. CASE i = n - 1
        BY <2>3, <2>4, <2>5, <3>4, <4>1
      <4>2. CASE i \in 1 .. (n - 2)
        BY <3>4, <4>2
      <4>3. i \in Nat /\ n \in Nat /\ 1 <= i /\ i <= n - 1
        BY <1>0, <3>1
      <4>4. i = n - 1 \/ i \in 1 .. (n - 2)
        BY <4>3
      <4> QED
        BY <4>1, <4>2, <4>4
    <3> QED
      BY <3>1, <3>4, <3>5 DEF UnderWay
  <2> QED
    BY <1>2, <2>1, <2>3, <2>6, <2>7 DEF AliasInv
<1>12. CASE UNCHANGED << aliases, resolved, alias_set, frames >>
  BY <1>0, <1>1, <1>12 DEF AliasInv
<1> QED
  BY <1>6, <1>7, <1>8, <1>10, <1>11, <1>12
     DEF Next, vars, NoSuchAlias, CycleDetected, RootReturns, ApplyFtsInheritance, Refuse

(* A resolved alias has no name left: a copy of it needs no more expansion *)
(* (_resolve_ft_alias copies it without looking into it).                  *)
THEOREM ResolvedNameNothing == Spec => []ResolvedAreComplete
<1>1. AliasInv => ResolvedAreComplete
  BY DEF AliasInv, ResolvedAreComplete
<1> QED
  BY <1>1, InitAlias, NextAlias, PTL DEF Spec

(* The calls between that for an alias and a later one are for aliases     *)
(* that the first one depends on.                                          *)
LEMMA UnderWayDepend ==
    ASSUME AliasInv, NEW S \in SUBSET DOMAIN aliases0, NEW b,
           \A a \in S \cup {b} : Names(aliases0[a]) \cap DOMAIN aliases0 \subseteq S,
           NEW first \in DOMAIN frames, frames[first].for.what = "alias",
           frames[first].for.name = b
    PROVE  \A i \in DOMAIN frames : first < i /\ frames[i].for.what = "alias" =>
               frames[i].for.name \in S
<1> DEFINE Bad == {i \in DOMAIN frames : /\ first < i /\ frames[i].for.what = "alias"
                                         /\ frames[i].for.name \notin S}
<1>1. /\ Calls(frames, aliases0, root)
      /\ Len(frames) \in Nat /\ DOMAIN frames = 1 .. Len(frames)
  BY CallsDomain DEF AliasInv
<1>2. SUFFICES ASSUME Bad # {} PROVE FALSE
  OBVIOUS
<1>3. PICK i \in Bad : \A j \in Bad : i <= j
  <2>1. Bad \in SUBSET Nat
    BY <1>1
  <2> HIDE DEF Bad
  <2> QED
    BY <1>2, <2>1, Least
<1>4. /\ i \in DOMAIN frames /\ first < i /\ frames[i].for.what = "alias"
      /\ frames[i].for.name \notin S
  OBVIOUS
<1>5. i - 1 \in DOMAIN frames /\ (i - 1) + 1 = i /\ first <= i - 1 /\ i - 1 < i
      /\ i \in Nat /\ first \in Nat
  BY <1>1, <1>4
<1>6. PICK k \in DOMAIN frames : Owns(frames, k, i - 1)
  BY <1>1, <1>5, OwnerExists
<1>7. frames[i].for.name \in Names(Origin(frames[k].for, aliases0, root))
  <2> DEFINE m == i - 1
  <2>1. m + 1 = i /\ m \in DOMAIN frames /\ Owns(frames, k, m)
    BY <1>5, <1>6
  <2> HIDE DEF m
  <2> QED
    BY <1>1, <1>4, <2>1 DEF Calls, AllNamed
<1>8. first <= k /\ k <= i - 1
  <2>1. first > k => frames[first].for.what = "part"
    BY <1>5, <1>6 DEF Owns
  <2>2. k <= i - 1 /\ k \in Nat
    BY <1>1, <1>6 DEF Owns
  <2> QED
    BY <1>5, <2>1, <2>2
<1>9. frames[k].for.what = "alias"
  <2>1. frames[k].for.what # "part"
    BY <1>6 DEF Owns
  <2>2. k # 1 \/ first = 1
    BY <1>1, <1>8
  <2>3. k = 1 => k = first
    BY <1>1, <1>8, <2>2
  <2>4. k # 1 => frames[k].for.what \in {"alias", "part"}
    BY <1>1 DEF Calls, Shaped
  <2> QED
    BY <2>1, <2>3, <2>4
<1>10. frames[k].for.name \in S \cup {b}
  <2>1. CASE k = first
    BY <2>1
  <2>2. CASE k # first
    <3>1. first < k /\ k < i /\ k \in Nat
      BY <1>1, <1>5, <1>8, <2>2
    <3>2. k \notin Bad
      BY <1>3, <1>5, <3>1
    <3> QED
      BY <1>9, <3>1, <3>2
  <2> QED
    BY <2>1, <2>2
<1>11. frames[i].for.name \in DOMAIN aliases0
  BY <1>1, <1>4 DEF Calls, Shaped, IsFrame
<1>12. frames[i].for.name \in S
  BY <1>7, <1>9, <1>10, <1>11 DEF Origin
<1> QED
  BY <1>4, <1>12

(* Only a cycle is refused as one, although the set of the encountered     *)
(* aliases is shared by all the nodes of a field type and never shrinks    *)
(* (_resolve_ft_alias).                                                    *)
THEOREM OnlyCyclesAreRefused == Spec => []OnlyCyclesRefused
<1>1. AliasInv => OnlyCyclesRefused
  <2> SUFFICES ASSUME AliasInv, NEW p \in AliasParts, OnCycle(Top.node.parts[p].name),
                      NEW S \in SUBSET DOMAIN aliases0,
                      \A a \in S \cup {Top.node.parts[p].name} :
                          Names(aliases0[a]) \cap DOMAIN aliases0 \subseteq S
               PROVE  Top.node.parts[p].name \in S
    BY DEF OnlyCyclesRefused, Cyclic
  <2> DEFINE b == Top.node.parts[p].name
             n == Len(frames)
  <2>1. /\ Calls(frames, aliases0, root)
        /\ n \in Nat /\ n > 0 /\ DOMAIN frames = 1 .. n /\ n \in DOMAIN frames
    BY CallsDomain DEF AliasInv
  <2>2. p \in Top.pending /\ Top.node.parts[p].ref
    BY DEF AliasParts
  <2>3. b \in DOMAIN aliases0 /\ b \notin resolved /\ n # 1 /\ b \in alias_set
    BY DEF OnCycle, Encountered, AliasInv
  <2>4. b \in UnderWay(frames)
    BY <2>1, <2>3 DEF AliasInv
  <2> HIDE DEF n
  <2>5. PICK first \in DOMAIN frames : frames[first].for.what = "alias" /\ frames[first].for.name = b
    BY <2>4 DEF UnderWay
  <2>6. PICK k \in DOMAIN frames : Owns(frames, k, n)
    BY <2>1, OwnerExists
  <2>7. b \in Names(Origin(frames[k].for, aliases0, root))
    BY <2>2, <2>6, PendingFacts, NameWithin DEF n
  <2>8. first <= k /\ k \in Nat /\ first \in Nat
    <3>1. first > k => frames[first].for.what = "part"
      BY <2>1, <2>6 DEF Owns
    <3> QED
      BY <2>1, <2>5, <3>1
  <2>9. frames[k].for.what = "alias"
    <3>1. frames[k].for.what # "part"
      BY <2>6 DEF Owns
    <3>2. k = 1 => k = first
      BY <2>1, <2>8
    <3>3. k # 1 => frames[k].for.what \in {"alias", "part"}
      BY <2>1 DEF Calls, Shaped
    <3> QED
      BY <2>5, <3>1, <3>2, <3>3
  <2>10. frames[k].for.name \in S \cup {b}
    <3>1. CASE k = first
      BY <2>5, <3>1
    <3>2. CASE k # first
      <4>1. first < k
        BY <2>8, <3>2
      <4> QED
        BY <2>5, <2>9, <4>1, UnderWayDepend
    <3> QED
      BY <3>1, <3>2
  <2> QED
    BY <2>3, <2>7, <2>9, <2>10 DEF Origin
<1> QED
  BY <1>1, InitAlias, NextAlias, PTL DEF Spec

=============================================================================
