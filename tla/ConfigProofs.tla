----------------------------- MODULE ConfigProofs -----------------------------
(***************************************************************************)
(* What the operators of a configuration's stages return, for every        *)
(* configuration: the shape of nodes, the members of structures, the       *)
(* numbers of types, the converted nodes and the prototypes.               *)
(***************************************************************************)
EXTENDS Metadata, Prototypes, Conversion, LayoutLemmas

-----------------------------------------------------------------------------
(* Sequences, made one element at a time *)

(* The elements of two sequences put together. *)
LEMMA Joined ==
    ASSUME NEW S, NEW s \in Seq(S), NEW t \in Seq(S)
    PROVE  /\ s \o t \in Seq(S) /\ Len(s \o t) = Len(s) + Len(t)
           /\ \A j \in 1 .. Len(s) : (s \o t)[j] = s[j]
           /\ \A j \in 1 .. Len(t) : (s \o t)[Len(s) + j] = t[j]
OBVIOUS

(* One more element at the end of a sequence. *)
IsLonger(t, s, one) ==
    /\ Len(s) \in Nat /\ Len(t) = Len(s) + 1
    /\ \A j \in 1 .. Len(s) : t[j] = s[j]
    /\ t[Len(s) + 1] = one[1]

LEMMA OneMore ==
    ASSUME NEW S, NEW s \in Seq(S), NEW one \in Seq(S), Len(one) = 1
    PROVE  \A t : t = s \o one => t \in Seq(S) /\ IsLonger(t, s, one)
<1> DEFINE u == s \o one
<1>1. /\ u \in Seq(S) /\ Len(u) = Len(s) + Len(one)
      /\ \A j \in 1 .. Len(s) : u[j] = s[j]
      /\ \A j \in 1 .. Len(one) : u[Len(s) + j] = one[j]
  BY Joined
<1>2. Len(s) \in Nat
  OBVIOUS
<1> HIDE DEF u
<1>3. u[Len(s) + 1] = one[1]
  BY <1>1
<1>4. u \in Seq(S) /\ IsLonger(u, s, one)
  BY <1>1, <1>2, <1>3 DEF IsLonger
<1> QED
  BY <1>4 DEF u

(* FlattenSeq appends one sequence after the other. *)
Flattens(h, n, S, f) ==
    /\ h \in [0 .. n -> Seq(S)]
    /\ h[0] = << >>
    /\ \A i \in 1 .. n : h[i] = h[i - 1] \o f[i]
    /\ FlattenSeq(f) = h[n]

LEMMA FlattenSteps ==
    ASSUME NEW n \in Nat, NEW S, NEW f \in [1 .. n -> Seq(S)]
    PROVE  \E h : Flattens(h, n, S, f)
<1> DEFINE seqs == Seq(S)
           empty == << >>
           extend == [i \in 1 .. n |-> [s \in seqs |-> s \o f[i]]]
<1>1. empty \in seqs /\ extend \in StepFcns(n, seqs)
  BY DEF StepFcns
<1>2. \A i \in 1 .. n : \A s \in seqs : extend[i][s] = s \o f[i]
  OBVIOUS
<1> HIDE DEF extend, empty, seqs
<1>3. PICK h : Goes(h, n, seqs, empty, extend)
  BY <1>1, Recursion
<1> USE DEF empty, seqs, Goes
<1>4. \A i \in 1 .. n : h[i] = h[i - 1] \o f[i]
  <2> SUFFICES ASSUME NEW i \in 1 .. n PROVE h[i] = h[i - 1] \o f[i]
    OBVIOUS
  <2>1. i - 1 \in 0 .. n
    OBVIOUS
  <2>2. h[i - 1] \in Seq(S)
    BY <1>3, <2>1
  <2> QED
    BY <1>2, <1>3, <2>2 DEF seqs
<1>5. Len(f) = n
  OBVIOUS
<1>6. CASE n = 0
  <2>1. FlattenSeq(f) = f
    BY <1>5, <1>6 DEF FlattenSeq
  <2>2. f = << >>
    BY <1>6
  <2> QED
    BY <1>3, <1>4, <1>6, <2>1, <2>2 DEF Flattens
<1>7. CASE n # 0
  <2> DEFINE w == [i \in 1 .. n |-> h[i]]
  <2>1. w = [i \in 1 .. n |-> IF i = 1 THEN f[i] ELSE w[i - 1] \o f[i]]
    <3>1. ASSUME NEW i \in 1 .. n PROVE h[i] = IF i = 1 THEN f[i] ELSE w[i - 1] \o f[i]
      <4>1. CASE i = 1
        <5>1. i - 1 = 0 /\ h[i] = h[i - 1] \o f[i] /\ f[i] \in Seq(S)
          BY <1>4, <4>1
        <5>2. h[i] = << >> \o f[i]
          BY <1>3, <5>1
        <5> QED
          BY <4>1, <5>1, <5>2
      <4>2. CASE i # 1
        <5>1. i - 1 \in 1 .. n
          BY <4>2
        <5>2. w[i - 1] = h[i - 1]
          BY <5>1
        <5> QED
          BY <1>4, <4>2, <5>2
      <4> QED
        BY <4>1, <4>2
    <3> QED
      BY <3>1
  <2> HIDE DEF w
  <2>2. PICK g : /\ g = [i \in 1 .. n |-> IF i = 1 THEN f[i] ELSE g[i - 1] \o f[i]]
                 /\ FlattenSeq(f) = g[n]
    BY <1>5, <1>7, <2>1 DEF FlattenSeq
  <2> DEFINE G == {k \in 0 .. n : k = 0 \/ g[k] = h[k]}
  <2>3. 0 \in G
    OBVIOUS
  <2> HIDE DEF G
  <2>4. ASSUME NEW k \in 0 .. n, k < n, k \in G PROVE k + 1 \in G
    <3>1. k + 1 \in 1 .. n /\ (k + 1) - 1 = k
      BY <2>4
    <3>2. g[k + 1] = IF k + 1 = 1 THEN f[k + 1] ELSE g[k] \o f[k + 1]
      BY <2>2, <3>1
    <3>3. h[k + 1] = h[k] \o f[k + 1]
      BY <1>4, <3>1
    <3>4. CASE k = 0
      <4>1. h[k + 1] = << >> \o f[k + 1] /\ f[k + 1] \in Seq(S)
        BY <1>3, <3>1, <3>3, <3>4
      <4>2. h[k + 1] = f[k + 1]
        BY <4>1
      <4>3. g[k + 1] = f[k + 1]
        BY <3>2, <3>4
      <4> QED
        BY <3>1, <4>2, <4>3 DEF G
    <3>5. CASE k # 0
      <4>1. g[k + 1] = g[k] \o f[k + 1] /\ g[k] = h[k]
        <5>1. k + 1 # 1
          BY <3>5
        <5>2. g[k] = h[k]
          BY <2>4, <3>5 DEF G
        <5> QED
          BY <3>2, <5>1, <5>2
      <4>2. g[k + 1] = h[k + 1]
        BY <3>3, <4>1
      <4> QED
        BY <3>1, <4>2 DEF G
    <3> QED
      BY <3>4, <3>5
  <2>5. \A k \in 0 .. n : k < n /\ k \in G => k + 1 \in G
    BY <2>4
  <2>6. \A k \in 0 .. n : k \in G
    BY <2>3, <2>5, Induction
  <2>7. n \in G
    BY <2>6
  <2>8. g[n] = h[n]
    BY <1>7, <2>7 DEF G
  <2> QED
    BY <1>3, <1>4, <2>2, <2>8 DEF Flattens
<1> QED
  BY <1>6, <1>7

(* Appending sequences is associative. *)
IsAssociative(S) == \A r, s, t \in Seq(S) : (r \o s) \o t = r \o (s \o t)

LEMMA Associated == \A S : IsAssociative(S)
<1> SUFFICES ASSUME NEW S, NEW r \in Seq(S), NEW s \in Seq(S), NEW t \in Seq(S)
             PROVE  (r \o s) \o t = r \o (s \o t)
  BY DEF IsAssociative
<1>1. /\ r \o s \in Seq(S) /\ Len(r \o s) = Len(r) + Len(s)
      /\ s \o t \in Seq(S) /\ Len(s \o t) = Len(s) + Len(t)
  BY Joined
<1>2. /\ (r \o s) \o t \in Seq(S) /\ Len((r \o s) \o t) = (Len(r) + Len(s)) + Len(t)
      /\ r \o (s \o t) \in Seq(S) /\ Len(r \o (s \o t)) = Len(r) + (Len(s) + Len(t))
  BY <1>1, Joined
<1>3. ASSUME NEW i \in 1 .. (Len(r) + Len(s)) + Len(t)
      PROVE  ((r \o s) \o t)[i] = (r \o (s \o t))[i]
  OBVIOUS
<1> QED
  BY <1>2, <1>3

(* FlattenSeq gives a sequence; that of two sequences of sequences put     *)
(* together is the two results put together; and that of one sequence is   *)
(* this sequence.                                                          *)
LEMMA FlattenType ==
    ASSUME NEW S, NEW f \in Seq(Seq(S))
    PROVE  FlattenSeq(f) \in Seq(S)
<1>1. PICK n \in Nat : f \in [1 .. n -> Seq(S)] /\ n = Len(f)
  OBVIOUS
<1>2. PICK h : Flattens(h, n, S, f)
  BY <1>1, FlattenSteps
<1> QED
  BY <1>2 DEF Flattens

LEMMA FlattenJoined ==
    ASSUME NEW S, NEW f \in Seq(Seq(S)), NEW g \in Seq(Seq(S))
    PROVE  FlattenSeq(f \o g) = FlattenSeq(f) \o FlattenSeq(g)
<1> DEFINE n == Len(f)
           m == Len(g)
           b == f \o g
<1>1. /\ n \in Nat /\ m \in Nat
      /\ f \in [1 .. n -> Seq(S)] /\ g \in [1 .. m -> Seq(S)]
  OBVIOUS
<1>2. /\ b \in Seq(Seq(S)) /\ Len(b) = n + m
      /\ \A j \in 1 .. n : b[j] = f[j]
      /\ \A j \in 1 .. m : b[n + j] = g[j]
  BY Joined
<1> HIDE DEF b, n, m
<1>3. n + m \in Nat /\ b \in [1 .. n + m -> Seq(S)]
  BY <1>1, <1>2
<1>4. PICK hf : Flattens(hf, n, S, f)
  BY <1>1, FlattenSteps
<1>5. PICK hg : Flattens(hg, m, S, g)
  BY <1>1, FlattenSteps
<1>6. PICK h : Flattens(h, n + m, S, b)
  BY <1>3, FlattenSteps
<1> DEFINE G == {k \in 0 .. n : h[k] = hf[k]}
           H == {k \in 0 .. m : h[n + k] = hf[n] \o hg[k]}
<1>7. h[n] = hf[n]
  <2>1. 0 \in G
    BY <1>1, <1>4, <1>6 DEF Flattens
  <2>2. ASSUME NEW k \in 0 .. n, k < n, k \in G PROVE k + 1 \in G
    <3>1. k + 1 \in 1 .. n /\ k + 1 \in 1 .. n + m /\ (k + 1) - 1 = k
      BY <1>1, <2>2
    <3>2. h[k + 1] = h[k] \o b[k + 1] /\ hf[k + 1] = hf[k] \o f[k + 1] /\ b[k + 1] = f[k + 1]
      BY <1>2, <1>4, <1>6, <3>1 DEF Flattens
    <3>3. h[k] = hf[k]
      BY <2>2
    <3>4. h[k + 1] = hf[k + 1] /\ k + 1 \in 0 .. n
      BY <1>1, <3>1, <3>2, <3>3
    <3> QED
      BY <3>4
  <2> HIDE DEF G
  <2>3. \A k \in 0 .. n : k < n /\ k \in G => k + 1 \in G
    BY <2>2
  <2>4. \A k \in 0 .. n : k \in G
    BY <1>1, <2>1, <2>3, Induction
  <2>5. n \in G
    BY <1>1, <2>4
  <2> QED
    BY <2>5 DEF G
<1>8. h[n + m] = hf[n] \o hg[m]
  <2>0. hf[n] \in Seq(S) /\ \A k \in 0 .. m : hg[k] \in Seq(S)
    BY <1>1, <1>4, <1>5 DEF Flattens
  <2>1. 0 \in H
    <3>1. hg[0] = << >> /\ n + 0 = n
      BY <1>1, <1>5 DEF Flattens
    <3>2. hf[n] \o << >> = hf[n]
      BY <2>0
    <3>3. h[n + 0] = hf[n] \o hg[0] /\ 0 \in 0 .. m
      BY <1>1, <1>7, <3>1, <3>2
    <3> QED
      BY <3>3
  <2>2. ASSUME NEW k \in 0 .. m, k < m, k \in H PROVE k + 1 \in H
    <3>1. /\ k + 1 \in 1 .. m /\ n + (k + 1) \in 1 .. n + m
          /\ (k + 1) - 1 = k /\ (n + (k + 1)) - 1 = n + k
      BY <1>1, <2>2
    <3>2. /\ h[n + (k + 1)] = h[n + k] \o b[n + (k + 1)]
          /\ hg[k + 1] = hg[k] \o g[k + 1] /\ b[n + (k + 1)] = g[k + 1]
      BY <1>2, <1>5, <1>6, <3>1 DEF Flattens
    <3>3. h[n + k] = hf[n] \o hg[k]
      BY <2>2
    <3>4. g[k + 1] \in Seq(S) /\ hg[k] \in Seq(S)
      BY <1>1, <2>0, <3>1
    <3>5. (hf[n] \o hg[k]) \o g[k + 1] = hf[n] \o (hg[k] \o g[k + 1])
      <4>1. IsAssociative(S)
        BY Associated
      <4> QED
        BY <2>0, <3>4, <4>1 DEF IsAssociative
    <3>6. h[n + (k + 1)] = hf[n] \o hg[k + 1] /\ k + 1 \in 0 .. m
      BY <1>1, <3>1, <3>2, <3>3, <3>5
    <3> QED
      BY <3>6
  <2> HIDE DEF H
  <2>3. \A k \in 0 .. m : k < m /\ k \in H => k + 1 \in H
    BY <2>2
  <2>4. \A k \in 0 .. m : k \in H
    BY <1>1, <2>1, <2>3, Induction
  <2>5. m \in H
    BY <1>1, <2>4
  <2> QED
    BY <2>5 DEF H
<1>9. /\ FlattenSeq(f) = hf[n] /\ FlattenSeq(g) = hg[m]
      /\ FlattenSeq(b) = h[n + m]
  BY <1>4, <1>5, <1>6 DEF Flattens
<1> QED
  BY <1>8, <1>9 DEF b

LEMMA FlattenOne ==
    ASSUME NEW S, NEW x \in Seq(S)
    PROVE  FlattenSeq(<< x >>) = x
<1> DEFINE f == << x >>
<1>1. f \in [1 .. 1 -> Seq(S)] /\ f[1] = x
  OBVIOUS
<1> HIDE DEF f
<1>2. PICK h : Flattens(h, 1, S, f)
  BY <1>1, FlattenSteps
<1>3. h[0] = << >> /\ h[1] = h[1 - 1] \o f[1] /\ FlattenSeq(f) = h[1]
  BY <1>2 DEF Flattens
<1>4. h[1] = << >> \o x
  BY <1>1, <1>3
<1>5. << >> \o x = x
  OBVIOUS
<1> QED
  BY <1>3, <1>4, <1>5 DEF f

(* A sequence of sequences of one element. *)
LEMMA FlattenSingles ==
    ASSUME NEW S, NEW n \in Nat, NEW s \in [1 .. n -> S],
           NEW f, f = [i \in 1 .. n |-> << s[i] >>]
    PROVE  FlattenSeq(f) = s
<1>1. f \in [1 .. n -> Seq(S)] /\ \A i \in 1 .. n : f[i] = << s[i] >>
  OBVIOUS
<1>2. PICK h : Flattens(h, n, S, f)
  BY <1>1, FlattenSteps
<1> DEFINE IsStart(w, k) == w \in Seq(S) /\ Len(w) = k /\ \A i \in 1 .. k : w[i] = s[i]
           G == {k \in 0 .. n : IsStart(h[k], k)}
<1>3. 0 \in G
  BY <1>2 DEF Flattens
<1>4. ASSUME NEW k \in 0 .. n, k < n, k \in G PROVE k + 1 \in G
  <2>1. k + 1 \in 1 .. n /\ (k + 1) - 1 = k
    BY <1>4
  <2>2. h[k + 1] = h[k] \o << s[k + 1] >>
    BY <1>1, <1>2, <2>1 DEF Flattens
  <2>3. h[k] \in Seq(S) /\ Len(h[k]) = k /\ \A i \in 1 .. k : h[k][i] = s[i]
    BY <1>4
  <2>4. s[k + 1] \in S
    BY <2>1
  <2> DEFINE w == h[k]
             e == s[k + 1]
  <2>5. ASSUME NEW v, v = w \o << e >> PROVE IsStart(v, k + 1)
    <3> HIDE DEF w, e
    <3>1. w \in Seq(S) /\ Len(w) = k /\ e \in S /\ k \in Nat
      BY <2>3, <2>4 DEF w, e
    <3>2. v \in Seq(S) /\ Len(v) = k + 1 /\ v[k + 1] = e /\ \A i \in 1 .. k : v[i] = w[i]
      <4>1. << e >> \in Seq(S) /\ Len(<< e >>) = 1 /\ << e >>[1] = e
        BY <3>1
      <4>2. v \in Seq(S) /\ IsLonger(v, w, << e >>)
        BY <2>5, <3>1, <4>1, OneMore
      <4> QED
        BY <3>1, <4>1, <4>2 DEF IsLonger
    <3>3. ASSUME NEW i \in 1 .. k + 1 PROVE v[i] = s[i]
      <4>1. CASE i = k + 1
        BY <3>2, <4>1 DEF e
      <4>2. CASE i # k + 1
        <5>1. i \in 1 .. k
          BY <3>1, <4>2
        <5> QED
          BY <2>3, <3>2, <5>1 DEF w
      <4> QED
        BY <4>1, <4>2
    <3> QED
      BY <3>2, <3>3
  <2> HIDE DEF IsStart
  <2>6. IsStart(h[k + 1], k + 1)
    BY <2>2, <2>5
  <2> QED
    BY <2>1, <2>6
<1> HIDE DEF G
<1>5. \A k \in 0 .. n : k < n /\ k \in G => k + 1 \in G
  BY <1>4
<1>6. \A k \in 0 .. n : k \in G
  BY <1>3, <1>5, Induction
<1>7. n \in G
  BY <1>6
<1>8. h[n] \in Seq(S) /\ Len(h[n]) = n /\ \A i \in 1 .. n : h[n][i] = s[i]
  BY <1>7 DEF G
<1>9. h[n] = s
  BY <1>8
<1> QED
  BY <1>2, <1>9 DEF Flattens

(* Two sequences of sequences, of which only the last ones differ: one has *)
(* t at its end.                                                           *)
IsLast(s, front, t) == s = front \o t

LEMMA LastLonger ==
    ASSUME NEW S, NEW n \in Nat \ {0}, NEW f \in [1 .. n -> Seq(S)], NEW g \in [1 .. n -> Seq(S)],
           NEW t \in Seq(S), IsLast(f[n], g[n], t), \A i \in 1 .. n : i < n => f[i] = g[i]
    PROVE  IsLast(FlattenSeq(f), FlattenSeq(g), t)
<1> USE DEF IsLast
<1>1. PICK hf : Flattens(hf, n, S, f)
  BY FlattenSteps
<1>2. PICK hg : Flattens(hg, n, S, g)
  BY FlattenSteps
<1> DEFINE G == {k \in 0 .. n : k < n => hf[k] = hg[k]}
<1>3. 0 \in G
  BY <1>1, <1>2 DEF Flattens
<1>4. ASSUME NEW k \in 0 .. n, k < n, k \in G PROVE k + 1 \in G
  <2>1. k + 1 \in 1 .. n /\ (k + 1) - 1 = k
    BY <1>4
  <2>2. hf[k + 1] = hf[k] \o f[k + 1] /\ hg[k + 1] = hg[k] \o g[k + 1] /\ hf[k] = hg[k]
    BY <1>1, <1>2, <1>4, <2>1 DEF Flattens
  <2>3. k + 1 < n => hf[k + 1] = hg[k + 1]
    BY <2>1, <2>2
  <2> QED
    BY <2>1, <2>3
<1> HIDE DEF G
<1>5. \A k \in 0 .. n : k < n /\ k \in G => k + 1 \in G
  BY <1>4
<1>6. \A k \in 0 .. n : k \in G
  BY <1>3, <1>5, Induction
<1>7. n - 1 \in 0 .. n /\ n - 1 < n /\ n \in 1 .. n
  OBVIOUS
<1>8. hf[n - 1] = hg[n - 1]
  BY <1>6, <1>7 DEF G
<1>9. /\ FlattenSeq(f) = hf[n - 1] \o f[n] /\ FlattenSeq(g) = hg[n - 1] \o g[n]
      /\ hg[n - 1] \in Seq(S) /\ g[n] \in Seq(S)
  BY <1>1, <1>2, <1>7 DEF Flattens
<1>10. IsAssociative(S)
  BY Associated
<1>11. (hg[n - 1] \o g[n]) \o t = hg[n - 1] \o (g[n] \o t)
  BY <1>9, <1>10 DEF IsAssociative
<1> QED
  BY <1>8, <1>9, <1>11

(* Two elements. *)
LEMMA Two == \A x, y : << x >> \o << y >> = << x, y >>
<1> SUFFICES ASSUME NEW x, NEW y PROVE << x >> \o << y >> = << x, y >>
  OBVIOUS
<1> DEFINE w == << x >> \o << y >>
<1>1. << x >> \in Seq({x, y}) /\ << y >> \in Seq({x, y})
  OBVIOUS
<1>2. w \in Seq({x, y}) /\ Len(w) = 2 /\ w[1] = x /\ w[2] = y
  OBVIOUS
<1> HIDE DEF w
<1>3. w = << x, y >>
  BY <1>2
<1> QED
  BY <1>3 DEF w

(* FlattenJoined, as one fact. *)
FlattensBoth(S) ==
    \A f, g \in Seq(Seq(S)) : FlattenSeq(f \o g) = FlattenSeq(f) \o FlattenSeq(g)

LEMMA BothFlattened == \A S : FlattensBoth(S)
BY FlattenJoined DEF FlattensBoth

(* The elements that are kept of a sequence, where each one came from, in  *)
(* the same order.                                                         *)
Keeps(w, n, f, at) ==
    /\ at \in [1 .. Len(w) -> 1 .. n]
    /\ \A j \in 1 .. Len(w) : f[at[j]] = << w[j] >>
    /\ \A j, k \in 1 .. Len(w) : j < k => at[j] < at[k]
    /\ \A i \in 1 .. n : f[i] # << >> => \E j \in 1 .. Len(w) : at[j] = i

LEMMA FlattenKeeps ==
    ASSUME NEW n \in Nat, NEW S, NEW f \in [1 .. n -> Seq(S)],
           \A i \in 1 .. n : f[i] = << >> \/ \E x \in S : f[i] = << x >>
    PROVE  FlattenSeq(f) \in Seq(S) /\ \E at : Keeps(FlattenSeq(f), n, f, at)
<1>1. PICK h : Flattens(h, n, S, f)
  BY FlattenSteps
<1> USE DEF Flattens
<1> DEFINE Done(k) == \E at : Keeps(h[k], k, f, at)
           G == {k \in 0 .. n : Done(k)}
<1>2. 0 \in G
  <2> DEFINE at == [j \in 1 .. 0 |-> j]
  <2>1. Len(h[0]) = 0 /\ 1 .. 0 = {}
    BY <1>1
  <2>2. Keeps(h[0], 0, f, at)
    BY <2>1 DEF Keeps
  <2> HIDE DEF at
  <2>3. Done(0)
    BY <2>2
  <2> HIDE DEF Done
  <2> QED
    BY <2>3
<1>3. ASSUME NEW k \in 0 .. n, k < n, k \in G PROVE k + 1 \in G
  <2>1. PICK at : Keeps(h[k], k, f, at)
    BY <1>3
  <2>2. k + 1 \in 1 .. n /\ (k + 1) - 1 = k
    BY <1>3
  <2>3. h[k + 1] = h[k] \o f[k + 1] /\ h[k] \in Seq(S)
    BY <1>1, <2>2
  <2> DEFINE m == Len(h[k])
  <2>4. m \in Nat
    BY <2>3
  <2>5. CASE f[k + 1] = << >>
    <3>1. h[k + 1] = h[k]
      BY <2>3, <2>5
    <3>2. Keeps(h[k], k + 1, f, at)
      <4>1. at \in [1 .. Len(h[k]) -> 1 .. (k + 1)]
        BY <2>1, <2>2 DEF Keeps
      <4>2. ASSUME NEW i \in 1 .. (k + 1), f[i] # << >>
            PROVE  \E j \in 1 .. Len(h[k]) : at[j] = i
        <5>1. i \in 1 .. k
          BY <2>5, <4>2
        <5> QED
          BY <2>1, <4>2, <5>1 DEF Keeps
      <4> HIDE DEF m
      <4> QED
        BY <2>1, <4>1, <4>2 DEF Keeps
    <3>3. Done(k + 1)
      BY <3>1, <3>2
    <3> HIDE DEF Done
    <3> QED
      BY <2>2, <3>3
  <2>6. CASE f[k + 1] # << >>
    <3>1. PICK x \in S : f[k + 1] = << x >>
      BY <2>2, <2>6
    <3>a. h[k + 1] = h[k] \o << x >> /\ h[k] \in Seq(S)
      BY <2>3, <3>1
    <3> HIDE DEF Flattens
    <3>2. /\ Len(h[k + 1]) = m + 1
          /\ \A j \in 1 .. m : h[k + 1][j] = h[k][j]
          /\ h[k + 1][m + 1] = x
      <4>1. Len(f[k + 1]) = 1 /\ f[k + 1][1] = x
        BY <3>1
      <4>2. h[k] \in Seq(S) /\ f[k + 1] \in Seq(S)
        BY <2>2, <2>3
      <4>3. IsLonger(h[k + 1], h[k], f[k + 1])
        BY <2>3, <4>1, <4>2, OneMore
      <4> QED
        BY <4>1, <4>3 DEF IsLonger
    <3> DEFINE to == [j \in 1 .. (m + 1) |-> IF j = m + 1 THEN k + 1 ELSE at[j]]
    <3> HIDE DEF m
    <3>3. /\ at \in [1 .. m -> 1 .. k]
          /\ \A j \in 1 .. m : f[at[j]] = << h[k][j] >>
          /\ \A i, j \in 1 .. m : i < j => at[i] < at[j]
          /\ \A i \in 1 .. k : f[i] # << >> => \E j \in 1 .. m : at[j] = i
      BY <2>1 DEF Keeps, m
    <3>4. to \in [1 .. (m + 1) -> 1 .. (k + 1)]
      BY <2>2, <2>4, <3>3
    <3>5. /\ to[m + 1] = k + 1
          /\ \A j \in 1 .. m : to[j] = at[j] /\ j \in 1 .. (m + 1)
          /\ m + 1 \in 1 .. (m + 1)
      BY <2>4
    <3> HIDE DEF to
    <3>6. \A j \in 1 .. (m + 1) : j = m + 1 \/ j \in 1 .. m
      BY <2>4
    <3>7. \A j \in 1 .. (m + 1) : f[to[j]] = << h[k + 1][j] >>
      BY <3>1, <3>2, <3>3, <3>5, <3>6
    <3>8. ASSUME NEW i \in 1 .. (m + 1), NEW j \in 1 .. (m + 1), i < j
          PROVE  to[i] < to[j]
      <4>1. i \in 1 .. m
        BY <2>4, <3>8
      <4>2. to[i] \in 1 .. k /\ to[i] = at[i]
        BY <3>3, <3>5, <4>1
      <4>3. CASE j = m + 1
        BY <2>2, <3>5, <4>2, <4>3
      <4>4. CASE j \in 1 .. m
        BY <3>3, <3>5, <3>8, <4>1, <4>4
      <4> QED
        BY <3>6, <4>3, <4>4
    <3>9. ASSUME NEW i \in 1 .. (k + 1), f[i] # << >>
          PROVE  \E j \in 1 .. (m + 1) : to[j] = i
      <4>1. i = k + 1 \/ i \in 1 .. k
        BY <2>2
      <4> QED
        BY <3>3, <3>5, <3>9, <4>1
    <3>10. Keeps(h[k + 1], k + 1, f, to)
      BY <3>2, <3>4, <3>7, <3>8, <3>9 DEF Keeps
    <3>11. Done(k + 1)
      BY <3>10
    <3> HIDE DEF Done
    <3> QED
      BY <2>2, <3>11
  <2> QED
    BY <2>5, <2>6
<1> HIDE DEF G
<1>4. \A k \in 0 .. n : k < n /\ k \in G => k + 1 \in G
  BY <1>3
<1>5. \A k \in 0 .. n : k \in G
  BY <1>2, <1>4, Induction
<1>6. n \in G
  BY <1>5
<1>7. Done(n)
  BY <1>6 DEF G
<1> QED
  BY <1>1, <1>7

(* The elements of s that are at the positions in T, in their order.       *)
Selects(w, at, s, T) ==
    /\ at \in [1 .. Len(w) -> T]
    /\ \A j \in 1 .. Len(w) : w[j] = s[at[j]]
    /\ \A j, k \in 1 .. Len(w) : j < k => at[j] < at[k]
    /\ \A i \in T : \E j \in 1 .. Len(w) : at[j] = i

LEMMA WhereSelects ==
    ASSUME NEW n \in Nat, NEW S, NEW s \in [1 .. n -> S], NEW T \in SUBSET (1 .. n),
           NEW f, f = [i \in 1 .. n |-> IF i \in T THEN << s[i] >> ELSE << >>]
    PROVE  FlattenSeq(f) \in Seq(S) /\ \E at : Selects(FlattenSeq(f), at, s, T)
<1>1. \A i \in 1 .. n : i \in T => f[i] = << s[i] >> /\ f[i] # << >>
  OBVIOUS
<1>2. \A i \in 1 .. n : i \notin T => f[i] = << >>
  OBVIOUS
<1>3. f \in [1 .. n -> Seq(S)]
  OBVIOUS
<1>4. \A i \in 1 .. n : f[i] = << >> \/ \E x \in S : f[i] = << x >>
  BY <1>1, <1>2
<1> DEFINE w == FlattenSeq(f)
<1>5. w \in Seq(S) /\ \E at : Keeps(w, n, f, at)
  BY <1>3, <1>4, FlattenKeeps
<1> HIDE DEF w
<1>6. PICK at : Keeps(w, n, f, at)
  BY <1>5
<1>7. ASSUME NEW j \in 1 .. Len(w) PROVE at[j] \in T /\ w[j] = s[at[j]]
  <2>1. at[j] \in 1 .. n /\ f[at[j]] = << w[j] >>
    BY <1>6 DEF Keeps
  <2>2. at[j] \in T
    BY <1>2, <2>1
  <2>3. << w[j] >> = << s[at[j]] >>
    BY <1>1, <2>1, <2>2
  <2> QED
    BY <2>2, <2>3
<1>8. at \in [1 .. Len(w) -> T]
  BY <1>6, <1>7 DEF Keeps
<1>9. Selects(w, at, s, T)
  BY <1>1, <1>6, <1>7, <1>8 DEF Selects, Keeps
<1> QED
  BY <1>5, <1>9 DEF w

(* No two of the elements selected were at the same position.              *)
LEMMA SelectsOnce ==
    ASSUME NEW w, Len(w) \in Nat, NEW at, NEW s, NEW T \in SUBSET Int, Selects(w, at, s, T)
    PROVE  \A j, k \in 1 .. Len(w) : at[j] = at[k] => j = k
<1> SUFFICES ASSUME NEW j \in 1 .. Len(w), NEW k \in 1 .. Len(w), at[j] = at[k]
             PROVE  j = k
  OBVIOUS
<1>1. at[j] \in T /\ at[k] \in T
  BY DEF Selects
<1>2. j < k => at[j] < at[k]
  BY DEF Selects
<1>3. k < j => at[k] < at[j]
  BY DEF Selects
<1>4. j \in Int /\ k \in Int
  OBVIOUS
<1>5. \A x \in T : x \in Int
  OBVIOUS
<1>6. at[j] \in Int /\ at[k] \in Int
  BY <1>1, <1>5
<1> QED
  BY <1>2, <1>3, <1>4, <1>6

(* Those that have a test, and no other. *)
LEMMA SelectsRange ==
    ASSUME NEW S, NEW w \in Seq(S), NEW at, NEW s, NEW T, Selects(w, at, s, T)
    PROVE  Range(w) = {s[i] : i \in T}
<1>1. DOMAIN w = 1 .. Len(w)
  OBVIOUS
<1>2. \A j \in 1 .. Len(w) : at[j] \in T /\ w[j] = s[at[j]]
  BY DEF Selects
<1>3. ASSUME NEW i \in T PROVE \E j \in 1 .. Len(w) : w[j] = s[i]
  <2>1. PICK j \in 1 .. Len(w) : at[j] = i
    BY DEF Selects
  <2> QED
    BY <1>2, <2>1
<1> QED
  BY <1>1, <1>2, <1>3 DEF Range

Selected(w, s, T) == \E at : Selects(w, at, s, T)

(* The members of the features that are on. *)
LEMMA FeaturesOn ==
    ASSUME NEW n \in Nat, NEW S, NEW s \in [1 .. n -> S],
           NEW T, T = {i \in 1 .. n : s[i].size # Off}
    PROVE  FeatureMembers(s) \in Seq(S) /\ Selected(FeatureMembers(s), s, T)
<1> DEFINE f == [i \in 1 .. n |-> IF i \in T THEN << s[i] >> ELSE << >>]
<1>1. FeatureMembers(s) = FlattenSeq(f)
  <2>1. DOMAIN s = 1 .. n
    OBVIOUS
  <2>2. f = [i \in DOMAIN s |-> IF s[i].size # Off THEN << s[i] >> ELSE << >>]
    BY <2>1
  <2> HIDE DEF f
  <2> QED
    BY <2>2 DEF FeatureMembers, Where
<1>2. T \in SUBSET (1 .. n)
  OBVIOUS
<1> QED
  BY <1>1, <1>2, WhereSelects DEF Selected

-----------------------------------------------------------------------------
(* Members of structures *)

(* The members are created from one node after the other. *)
Creates(h, nodes, n, D) ==
    /\ h \in [0 .. n -> D]
    /\ h[0] = << >>
    /\ \A i \in 1 .. n : h[i] = AddMember(h[i - 1], nodes[i])
    /\ CreateStructFtMembers(nodes) = h[n]

LEMMA CreateSteps ==
    ASSUME NEW n \in Nat, NEW nodes, DOMAIN nodes = 1 .. n, NEW D, << >> \in D,
           \A i \in 1 .. n : \A m \in D : AddMember(m, nodes[i]) \in D
    PROVE  \E h : Creates(h, nodes, n, D)
<1> DEFINE base == << >>
           add == [i \in 1 .. n |-> [m \in D |-> AddMember(m, nodes[i])]]
<1>1. base \in D /\ add \in StepFcns(n, D)
  BY DEF StepFcns
<1>2. \A i \in 1 .. n : \A m \in D : add[i][m] = AddMember(m, nodes[i])
  OBVIOUS
<1> HIDE DEF add, base
<1>3. PICK g : Folds(g, n, D, base, add)
  BY <1>1, FoldExists
<1>4. g = [t \in SUBSET (1 .. n) |-> IF t = {} THEN << >>
                                   ELSE AddMember(g[t \ {Max(t)}], nodes[Max(t)])]
  <2>1. ASSUME NEW t \in SUBSET (1 .. n), t # {}
        PROVE  g[t] = AddMember(g[t \ {Max(t)}], nodes[Max(t)])
    <3>1. Max(t) \in t
      BY <2>1, MaxIn
    <3>2. g[t] = add[Max(t)][g[t \ {Max(t)}]] /\ g[t \ {Max(t)}] \in D
      BY <1>3, <2>1 DEF Folds
    <3> QED
      BY <1>2, <3>1, <3>2
  <2>2. g[{}] = << >> /\ g \in [SUBSET (1 .. n) -> D]
    BY <1>3 DEF Folds, base
  <2> QED
    BY <2>1, <2>2
<1>5. PICK f : /\ f = [t \in SUBSET (1 .. n) |-> IF t = {} THEN << >>
                                   ELSE AddMember(f[t \ {Max(t)}], nodes[Max(t)])]
               /\ CreateStructFtMembers(nodes) = f[1 .. n]
  BY <1>4 DEF CreateStructFtMembers, FoldLeft, MapThenFoldSet
<1> DEFINE h == [k \in 0 .. n |-> f[1 .. k]]
<1>6. ASSUME NEW k \in 0 .. n, k < n
      PROVE  h[k + 1] = AddMember(h[k], nodes[k + 1])
  <2>1. k + 1 \in 0 .. n /\ 1 .. k + 1 \in SUBSET (1 .. n) /\ k + 1 \in 1 .. k + 1
    BY <1>6
  <2>2. Max(1 .. k + 1) = k + 1
    BY <2>1, MaxOf
  <2>3. (1 .. k + 1) \ {k + 1} = 1 .. k
    BY <2>1
  <2>4. f[1 .. k + 1] = AddMember(f[1 .. k], nodes[k + 1])
    BY <1>5, <2>1, <2>2, <2>3
  <2> QED
    BY <2>1, <2>4
<1>7. h[0] = << >> /\ h[n] = f[1 .. n]
  <2>1. 1 .. 0 = {} /\ {} \in SUBSET (1 .. n)
    OBVIOUS
  <2>2. f[{}] = << >>
    BY <1>5, <2>1
  <2> QED
    BY <2>1, <2>2
<1> DEFINE G == {k \in 0 .. n : h[k] \in D}
<1>8. 0 \in G
  BY <1>7
<1>9. DOMAIN h = 0 .. n /\ h = [k \in 0 .. n |-> h[k]]
  OBVIOUS
<1> HIDE DEF h
<1>10. \A k \in 0 .. n : k < n /\ k \in G => k + 1 \in G
  BY <1>6
<1> HIDE DEF G
<1>11. \A k \in 0 .. n : k \in G
  BY <1>8, <1>10, Induction
<1>12. h \in [0 .. n -> D]
  BY <1>9, <1>11 DEF G
<1>13. \A i \in 1 .. n : h[i] = AddMember(h[i - 1], nodes[i])
  <2> SUFFICES ASSUME NEW i \in 1 .. n PROVE h[i] = AddMember(h[i - 1], nodes[i])
    OBVIOUS
  <2>1. i - 1 \in 0 .. n /\ i - 1 < n /\ (i - 1) + 1 = i
    OBVIOUS
  <2> QED
    BY <1>6, <2>1
<1> QED
  BY <1>5, <1>7, <1>12, <1>13 DEF Creates

(* A member is put where the one of its name was, or after all the others. *)
Replaces(t, s, m) ==
    /\ \E i \in 1 .. Len(s) : s[i].name = m.name
    /\ Len(t) = Len(s)
    /\ \A i \in 1 .. Len(s) : t[i] = IF s[i].name = m.name THEN m ELSE s[i]

LEMMA SetFacts ==
    ASSUME NEW M, NEW s \in Seq(M), NEW m \in M
    PROVE  /\ SetMember(s, m) \in Seq(M)
           /\ \/ Replaces(SetMember(s, m), s, m)
              \/ /\ \A i \in 1 .. Len(s) : s[i].name # m.name
                 /\ SetMember(s, m) = Append(s, m)
<1> DEFINE same == {i \in DOMAIN s : s[i].name = m.name}
<1>1. DOMAIN s = 1 .. Len(s) /\ Len(s) \in Nat
  OBVIOUS
<1>2. (\A i \in 1 .. Len(s) : s[i].name # m.name) => SetMember(s, m) = Append(s, m)
  BY <1>1 DEF SetMember
<1>3. (\E i \in 1 .. Len(s) : s[i].name = m.name) =>
         SetMember(s, m) = [i \in 1 .. Len(s) |-> IF s[i].name = m.name THEN m ELSE s[i]]
  <2> SUFFICES ASSUME same # {}
               PROVE  SetMember(s, m) = [i \in 1 .. Len(s) |->
                                            IF s[i].name = m.name THEN m ELSE s[i]]
    BY <1>1
  <2>1. SetMember(s, m) = [i \in DOMAIN s |-> IF i \in same THEN m ELSE s[i]]
    BY DEF SetMember
  <2> QED
    BY <1>1, <2>1
<1>4. SetMember(s, m) \in Seq(M)
  <2>1. CASE \A i \in 1 .. Len(s) : s[i].name # m.name
    BY <1>2, <2>1
  <2>2. CASE \E i \in 1 .. Len(s) : s[i].name = m.name
    <3>1. [i \in 1 .. Len(s) |-> IF s[i].name = m.name THEN m ELSE s[i]] \in Seq(M)
      BY <1>1
    <3> QED
      BY <1>3, <2>2, <3>1
  <2> QED
    BY <2>1, <2>2
<1>5. (\E i \in 1 .. Len(s) : s[i].name = m.name) => Replaces(SetMember(s, m), s, m)
  BY <1>1, <1>3 DEF Replaces
<1> QED
  BY <1>2, <1>4, <1>5

(* The members of a structure have different names.                        *)
Distinct(s) == \A i, j \in 1 .. Len(s) : s[i].name = s[j].name => i = j

LEMMA SetDistinct ==
    ASSUME NEW M, NEW s \in Seq(M), NEW m \in M, Distinct(s)
    PROVE  Distinct(SetMember(s, m))
<1> DEFINE t == SetMember(s, m)
<1>3. \/ Replaces(t, s, m)
      \/ (\A i \in 1 .. Len(s) : s[i].name # m.name) /\ t = Append(s, m)
  BY SetFacts
<1>1. CASE (\A i \in 1 .. Len(s) : s[i].name # m.name) /\ t = Append(s, m)
  <2>1. t = Append(s, m)
    BY <1>1
  <2> HIDE DEF t
  <2>2. Len(t) = Len(s) + 1 /\ Len(s) \in Nat
    BY <2>1
  <2>3. t[Len(s) + 1] = m /\ \A i \in 1 .. Len(s) : t[i] = s[i]
    BY <2>1
  <2>4. \A i \in 1 .. (Len(s) + 1) : i = Len(s) + 1 \/ i \in 1 .. Len(s)
    BY <2>2
  <2>5. Distinct(t)
    BY <1>1, <2>2, <2>3, <2>4 DEF Distinct
  <2> QED
    BY <2>5 DEF t
<1>2. CASE Replaces(t, s, m)
  <2>1. /\ Len(t) = Len(s)
        /\ \A i \in 1 .. Len(s) : t[i] = IF s[i].name = m.name THEN m ELSE s[i]
    BY <1>2 DEF Replaces
  <2> HIDE DEF t
  <2>2. Len(t) = Len(s) /\ Len(s) \in Nat
    BY <2>1
  <2>3. \A i \in 1 .. Len(s) : t[i].name = s[i].name
    BY <2>1
  <2>4. Distinct(t)
    BY <2>2, <2>3 DEF Distinct
  <2> QED
    BY <2>4 DEF t
<1> QED
  BY <1>1, <1>2, <1>3

(* What a node brings. *)
Brought(nodes) ==
    {CreateFt(n) : n \in Range(nodes)} \cup {LenMember(n.name) : n \in Range(nodes)}

LEMMA AddFacts ==
    ASSUME NEW nodes, NEW s \in Seq(Brought(nodes)), NEW node3 \in Range(nodes)
    PROVE  /\ AddMember(s, node3) \in Seq(Brought(nodes))
           /\ Distinct(s) => Distinct(AddMember(s, node3))
<1> DEFINE B == Brought(nodes)
           t == IF IsDynamicArray(node3) THEN SetMember(s, LenMember(node3.name)) ELSE s
<1>1. CreateFt(node3) \in B /\ LenMember(node3.name) \in B
  BY DEF Brought
<1> HIDE DEF B
<1>2. t \in Seq(B) /\ (Distinct(s) => Distinct(t))
  <2>1. s \in Seq(B)
    BY DEF B
  <2> QED
    BY <1>1, <2>1, SetFacts, SetDistinct
<1>3. AddMember(s, node3) = SetMember(t, CreateFt(node3))
  BY DEF AddMember
<1> HIDE DEF t
<1> QED
  BY <1>1, <1>2, <1>3, SetFacts, SetDistinct DEF B

LEMMA CreatedDistinct ==
    ASSUME NEW nodes, nodes \in Seq(Range(nodes))
    PROVE  /\ CreateStructFtMembers(nodes) \in Seq(Brought(nodes))
           /\ Distinct(CreateStructFtMembers(nodes))
<1> DEFINE n == Len(nodes)
           D == {s \in Seq(Brought(nodes)) : Distinct(s)}
<1>1. n \in Nat /\ DOMAIN nodes = 1 .. n /\ \A i \in 1 .. n : nodes[i] \in Range(nodes)
  BY DEF Range
<1>2. << >> \in D
  BY DEF Distinct
<1>3. \A i \in 1 .. n : \A m \in D : AddMember(m, nodes[i]) \in D
  BY <1>1, AddFacts
<1> HIDE DEF D, n
<1>4. PICK h : Creates(h, nodes, n, D)
  BY <1>1, <1>2, <1>3, CreateSteps
<1>5. CreateStructFtMembers(nodes) \in D
  BY <1>1, <1>4 DEF Creates
<1> QED
  BY <1>5 DEF D

(* The six features of a packet context, of whatever sizes. *)
CtxFeatures(f, clk) ==
    << UInt("packet_size", GetFt(f.total, 64), NoClock),
       UInt("content_size", GetFt(f.content, 64), NoClock),
       UInt("timestamp_begin", GetFt(f.beginning, 64), clk),
       UInt("timestamp_end", GetFt(f.end, 64), clk),
       UInt("events_discarded", GetFt(f.discarded, 64), NoClock),
       UInt("packet_seq_num", GetFt(f.seq_num, 64), NoClock) >>

CtxNames ==
    << "packet_size", "content_size", "timestamp_begin", "timestamp_end",
       "events_discarded", "packet_seq_num" >>

LEMMA UIntFacts ==
    ASSUME NEW name, NEW size, NEW clk
    PROVE  LET u == UInt(name, size, clk) IN
           /\ u.name = name /\ u.class = "unsigned-integer" /\ u.size = size
           /\ u.dims = << >> /\ u.mappings = << >> /\ u.clk = clk /\ u.len_of = NoName
BY DEF UInt, Member

LEMMA CtxFeatureNames ==
    ASSUME NEW f, NEW clk
    PROVE  LET s == CtxFeatures(f, clk) IN
           /\ s \in [1 .. 6 -> Range(s)]
           /\ \A i \in 1 .. 6 : s[i].name = CtxNames[i] /\ CtxNames[i] \in ReservedMemberNames
           /\ \A i, j \in 1 .. 6 : CtxNames[i] = CtxNames[j] => i = j
<1> DEFINE a == UInt("packet_size", GetFt(f.total, 64), NoClock)
           b == UInt("content_size", GetFt(f.content, 64), NoClock)
           c == UInt("timestamp_begin", GetFt(f.beginning, 64), clk)
           d == UInt("timestamp_end", GetFt(f.end, 64), clk)
           e == UInt("events_discarded", GetFt(f.discarded, 64), NoClock)
           g == UInt("packet_seq_num", GetFt(f.seq_num, 64), NoClock)
           s == << a, b, c, d, e, g >>
<1>1. /\ a.name = "packet_size" /\ b.name = "content_size" /\ c.name = "timestamp_begin"
      /\ d.name = "timestamp_end" /\ e.name = "events_discarded"
      /\ g.name = "packet_seq_num"
  BY UIntFacts
<1>2. CtxFeatures(f, clk) = s
  BY DEF CtxFeatures
<1> HIDE DEF a, b, c, d, e, g
<1>3. DOMAIN s = 1 .. 6 /\ s = [i \in 1 .. 6 |-> s[i]]
  OBVIOUS
<1>4. \A i \in 1 .. 6 : i \in {1, 2, 3, 4, 5, 6}
  OBVIOUS
<1>5. \A i \in {1, 2, 3, 4, 5, 6} : s[i].name = CtxNames[i]
  BY <1>1 DEF CtxNames
<1>6. \A i \in {1, 2, 3, 4, 5, 6} : CtxNames[i] \in ReservedMemberNames
  BY DEF CtxNames, ReservedMemberNames
<1>7. \A i, j \in {1, 2, 3, 4, 5, 6} : CtxNames[i] = CtxNames[j] => i = j
  BY DEF CtxNames
<1> HIDE DEF s
<1>8. s \in [1 .. 6 -> Range(s)]
  BY <1>3 DEF Range
<1> QED
  BY <1>2, <1>4, <1>5, <1>6, <1>7, <1>8

(* The features of a packet context that are on have different names, none *)
(* of them that of a member that the user adds.                            *)
LEMMA PktCtxDistinct ==
    ASSUME NEW clocks, NEW dst, dst.extra \in Seq(Range(dst.extra)), ~Refused(clocks, dst)
    PROVE  \A j, k \in DOMAIN PktCtxFt(dst) :
               PktCtxFt(dst)[j].name = PktCtxFt(dst)[k].name => j = k
<1> DEFINE f == DstFeatures(dst)
           s == CtxFeatures(f, dst.clk)
           on == FeatureMembers(s)
           extra == CreateStructFtMembers(dst.extra)
           T == {i \in 1 .. 6 : s[i].size # Off}
           S == Range(s) \cup Brought(dst.extra)
<1>1. PktCtxFt(dst) = on \o extra
  BY DEF PktCtxFt, CtxFeatures
<1>2. /\ s \in [1 .. 6 -> Range(s)]
      /\ \A i \in 1 .. 6 : s[i].name = CtxNames[i] /\ CtxNames[i] \in ReservedMemberNames
      /\ \A i, j \in 1 .. 6 : CtxNames[i] = CtxNames[j] => i = j
  BY CtxFeatureNames
<1>3. extra \in Seq(Brought(dst.extra)) /\ Distinct(extra)
  BY CreatedDistinct
<1>4. \A m \in Range(extra) : m.name \notin ReservedMemberNames
  BY DEF Refused
<1> HIDE DEF s, extra, f
<1>7. T = {i \in 1 .. 6 : s[i].size # Off}
  OBVIOUS
<1> HIDE DEF T
<1>5. on \in Seq(Range(s)) /\ Selected(on, s, T)
  BY <1>2, <1>7, FeaturesOn
<1> HIDE DEF on
<1>6. PICK at : Selects(on, at, s, T)
  BY <1>5 DEF Selected
<1>8. \A j \in 1 .. Len(on) : at[j] \in 1 .. 6 /\ on[j].name = CtxNames[at[j]]
  BY <1>2, <1>6, <1>7 DEF Selects
<1>9. ASSUME NEW j \in 1 .. Len(on), NEW k \in 1 .. Len(on), on[j].name = on[k].name
      PROVE  j = k
  <2>3. /\ at[j] \in 1 .. 6 /\ on[j].name = CtxNames[at[j]]
        /\ at[k] \in 1 .. 6 /\ on[k].name = CtxNames[at[k]]
    BY <1>8
  <2>1. at[j] = at[k]
    BY <1>2, <1>9, <2>3
  <2>2. T \in SUBSET Int /\ Len(on) \in Nat
    BY <1>5, <1>7
  <2>4. \A i, l \in 1 .. Len(on) : at[i] = at[l] => i = l
    BY <1>6, <2>2, SelectsOnce
  <2> QED
    BY <2>1, <2>4
<1>10. on \in Seq(S) /\ extra \in Seq(S)
  BY <1>3, <1>5
<1> HIDE DEF S
<1> DEFINE t == on \o extra
           p == Len(on)
           q == Len(extra)
<1>11. /\ Len(t) = p + q /\ DOMAIN t = 1 .. Len(t) /\ p \in Nat /\ q \in Nat
       /\ \A j \in 1 .. p : t[j] = on[j]
       /\ \A j \in 1 .. q : t[p + j] = extra[j]
  BY <1>10, Joined
<1> HIDE DEF t
<1>12. \A j \in 1 .. q : extra[j] \in Range(extra)
  BY <1>10 DEF Range
<1>13. \A j \in 1 .. q : t[p + j].name \notin ReservedMemberNames
  BY <1>4, <1>11, <1>12
<1>14. ASSUME NEW j \in 1 .. p PROVE t[j].name \in ReservedMemberNames
  <2>1. t[j] = on[j] /\ at[j] \in 1 .. 6 /\ on[j].name = CtxNames[at[j]]
    BY <1>8, <1>11
  <2> QED
    BY <1>2, <2>1
<1> HIDE DEF p, q
<1>15. \A j \in 1 .. Len(t) : j \in 1 .. p \/ \E i \in 1 .. q : j = p + i
  <2> SUFFICES ASSUME NEW j \in 1 .. Len(t), j \notin 1 .. p PROVE \E i \in 1 .. q : j = p + i
    OBVIOUS
  <2>1. j - p \in 1 .. q /\ j = p + (j - p)
    BY <1>11
  <2> QED
    BY <2>1
<1>16. ASSUME NEW j \in 1 .. Len(t), NEW k \in 1 .. Len(t), t[j].name = t[k].name
       PROVE  j = k
  <2>1. CASE j \in 1 .. p /\ k \in 1 .. p
    BY <1>9, <1>11, <1>16, <2>1 DEF p
  <2>2. CASE j \notin 1 .. p /\ k \notin 1 .. p
    <3>1. PICK x \in 1 .. q : j = p + x
      BY <1>15, <2>2
    <3>2. PICK y \in 1 .. q : k = p + y
      BY <1>15, <2>2
    <3>3. extra[x].name = extra[y].name
      BY <1>11, <1>16, <3>1, <3>2
    <3>4. x = y
      BY <1>3, <3>3 DEF Distinct, q
    <3> QED
      BY <3>1, <3>2, <3>4
  <2>3. CASE j \in 1 .. p /\ k \notin 1 .. p
    BY <1>13, <1>14, <1>15, <1>16, <2>3
  <2>4. CASE j \notin 1 .. p /\ k \in 1 .. p
    BY <1>13, <1>14, <1>15, <1>16, <2>4
  <2> QED
    BY <2>1, <2>2, <2>3, <2>4
<1> QED
  BY <1>1, <1>11, <1>16 DEF t

-----------------------------------------------------------------------------
(* Converted nodes *)

(* What the conversion finds of a member, by its name. *)
Found(fields, name, size, clk) ==
    \/ /\ \A f \in Range(fields) : f.name # name
       /\ size = Missing /\ clk = NoClock
    \/ \E f \in Range(fields) : f.name = name /\ size = ConvFt(f).size /\ clk = f.clk

LEMMA FieldFound ==
    ASSUME NEW fields, fields \in Seq(Range(fields)), NEW name
    PROVE  Found(fields, name, ConvFtIfExists(fields, name), ClkTypeName(fields, name))
<1> DEFINE I == {i \in 1 .. Len(fields) : fields[i].name = name}
           k == IF I # {} THEN Min(I) ELSE 0
<1>1. /\ ConvFtIfExists(fields, name) = IF k = 0 THEN Missing ELSE ConvFt(fields[k]).size
      /\ ClkTypeName(fields, name) = IF k = 0 THEN NoClock ELSE fields[k].clk
  BY DEF ConvFtIfExists, ClkTypeName, SelectInSeq
<1>2. Len(fields) \in Nat /\ DOMAIN fields = 1 .. Len(fields)
  OBVIOUS
<1>3. CASE I = {}
  <2>1. k = 0
    BY <1>3
  <2>2. \A f \in Range(fields) : f.name # name
    BY <1>2, <1>3 DEF Range
  <2> HIDE DEF k, I
  <2> QED
    BY <1>1, <2>1, <2>2 DEF Found
<1>4. CASE I # {}
  <2>1. Min(I) \in I
    BY <1>2, <1>4, LeastOfInterval
  <2>2. k \in I /\ k # 0
    BY <1>4, <2>1
  <2>3. fields[k] \in Range(fields) /\ fields[k].name = name
    BY <1>2, <2>2 DEF Range
  <2> HIDE DEF k, I
  <2> QED
    BY <1>1, <2>2, <2>3 DEF Found
<1> QED
  BY <1>3, <1>4

LEMMA ConvFtFacts ==
    ASSUME NEW f, IsField(f)
    PROVE  LET c == ConvFt(f) IN
           /\ c = MemberNode(c.name, c.class, c.size, c.dims, c.mappings)
           /\ c.name = f.name /\ c.dims = f.dims
           /\ c.mappings = ConvEnumMembers(f.members)
           /\ c.size = IF f.class = "real" THEN f.size.exp + f.size.mant ELSE f.size
           /\ c.class = ConvClass(f)
BY DEF ConvFt, MemberNode

(* A structure converted is one of version 3, with the same names.         *)
LEMMA ConvStructFacts ==
    ASSUME NEW fields, IsStruct2(fields)
    PROVE  /\ IsStructNode(ConvStructFt(fields))
           /\ Range(ConvStructFt(fields)) = {ConvFt(f) : f \in Range(fields)}
           /\ \A i, j \in DOMAIN ConvStructFt(fields) :
                  ConvStructFt(fields)[i].name = ConvStructFt(fields)[j].name => i = j
<1> DEFINE t == ConvStructFt(fields)
<1>1. /\ fields \in Seq(Range(fields)) /\ AreNamed(fields)
      /\ \A f \in Range(fields) : IsField(f)
      /\ \A i, j \in DOMAIN fields : fields[i].name = fields[j].name => i = j
  BY DEF IsStruct2, AreNamed
<1>2. DOMAIN t = DOMAIN fields /\ \A i \in DOMAIN fields : t[i] = ConvFt(fields[i])
  BY DEF ConvStructFt
<1>3. DOMAIN fields = 1 .. Len(fields) /\ Len(fields) \in Nat
  BY <1>1
<1>4. Range(t) = {ConvFt(f) : f \in Range(fields)}
  BY <1>2 DEF Range
<1>5. t = [i \in 1 .. Len(fields) |-> t[i]]
  BY <1>3 DEF ConvStructFt
<1> HIDE DEF t
<1>6. t \in Seq(Range(t))
  <2>1. \A i \in 1 .. Len(fields) : t[i] \in Range(t)
    BY <1>2, <1>3 DEF Range
  <2> QED
    BY <1>3, <1>5, <2>1
<1>7. \A f \in Range(fields) : ConvFt(f).name = f.name
  BY <1>1, ConvFtFacts
<1>8. AreNamed(t)
  BY <1>1, <1>4, <1>6, <1>7 DEF AreNamed
<1>9. \A n \in Range(t) : n = MemberNode(n.name, n.class, n.size, n.dims, n.mappings)
  BY <1>1, <1>4, ConvFtFacts
<1>10. ASSUME NEW i \in DOMAIN t, NEW j \in DOMAIN t, t[i].name = t[j].name PROVE i = j
  <2>1. fields[i] \in Range(fields) /\ fields[j] \in Range(fields)
    BY <1>2 DEF Range
  <2> QED
    BY <1>1, <1>2, <1>7, <1>10, <2>1
<1> QED
  BY <1>4, <1>8, <1>9, <1>10 DEF IsStructNode, t

(* Some of the members of a structure are one. *)
LEMMA SomeFields ==
    ASSUME NEW fields, IsStruct2(fields), NEW w, w \in Seq(Range(fields)),
           NEW T \in SUBSET (1 .. Len(fields)), Selected(w, fields, T)
    PROVE  IsStruct2(w) /\ Range(w) = {fields[i] : i \in T}
<1>1. /\ fields \in Seq(Range(fields)) /\ AreNamed(fields)
      /\ \A f \in Range(fields) : IsField(f)
      /\ \A i, j \in DOMAIN fields : fields[i].name = fields[j].name => i = j
  BY DEF IsStruct2, AreNamed
<1>2. DOMAIN fields = 1 .. Len(fields) /\ Len(fields) \in Nat
  BY <1>1
<1>3. PICK at : Selects(w, at, fields, T)
  BY DEF Selected
<1>4. Range(w) = {fields[i] : i \in T}
  BY <1>3, SelectsRange
<1>5. Range(w) \subseteq Range(fields)
  BY <1>2, <1>4 DEF Range
<1>6. w \in Seq(Range(w)) /\ DOMAIN w = 1 .. Len(w) /\ Len(w) \in Nat
  <2>1. DOMAIN w = 1 .. Len(w) /\ Len(w) \in Nat /\ w = [i \in 1 .. Len(w) |-> w[i]]
    OBVIOUS
  <2>2. \A i \in 1 .. Len(w) : w[i] \in Range(w)
    BY <2>1 DEF Range
  <2> QED
    BY <2>1, <2>2
<1>7. AreNamed(w)
  BY <1>1, <1>5, <1>6 DEF AreNamed
<1>8. ASSUME NEW i \in DOMAIN w, NEW j \in DOMAIN w, w[i].name = w[j].name PROVE i = j
  <2>1. /\ at[i] \in T /\ w[i] = fields[at[i]] /\ at[j] \in T /\ w[j] = fields[at[j]]
    BY <1>3, <1>6 DEF Selects
  <2>2. at[i] \in DOMAIN fields /\ at[j] \in DOMAIN fields
    BY <1>2, <2>1
  <2>3. at[i] = at[j]
    BY <1>1, <1>8, <2>1, <2>2
  <2>4. T \in SUBSET Int
    BY <1>2
  <2> QED
    BY <1>3, <1>6, <2>3, <2>4, SelectsOnce
<1> QED
  BY <1>1, <1>4, <1>5, <1>7, <1>8 DEF IsStruct2

(* Those that the user adds to a packet context. *)
Others(fields) == Where(fields, LAMBDA f : f.name \notin CtfMemberNames)

LEMMA OthersSelected ==
    ASSUME NEW fields, fields \in Seq(Range(fields)),
           NEW T, T = {i \in 1 .. Len(fields) : fields[i].name \notin CtfMemberNames}
    PROVE  Others(fields) \in Seq(Range(fields)) /\ Selected(Others(fields), fields, T)
<1> DEFINE n == Len(fields)
           f == [i \in 1 .. n |-> IF i \in T THEN << fields[i] >> ELSE << >>]
<1>1. n \in Nat /\ DOMAIN fields = 1 .. n /\ fields \in [1 .. n -> Range(fields)]
  OBVIOUS
<1>2. Others(fields) = FlattenSeq(f)
  <2>1. f = [i \in DOMAIN fields |->
                 IF fields[i].name \notin CtfMemberNames THEN << fields[i] >> ELSE << >>]
    BY <1>1
  <2> HIDE DEF f
  <2> QED
    BY <2>1 DEF Others, Where
<1>3. T \in SUBSET (1 .. n)
  OBVIOUS
<1> HIDE DEF n
<1> QED
  BY <1>1, <1>2, <1>3, WhereSelects DEF Selected

LEMMA ExtraFacts ==
    ASSUME NEW dst, IsStruct2(dst.pkt_ctx)
    PROVE  /\ ExtraMembers(dst) = ConvStructFt(Others(dst.pkt_ctx))
           /\ IsStruct2(Others(dst.pkt_ctx))
           /\ Range(Others(dst.pkt_ctx)) =
                  {f \in Range(dst.pkt_ctx) : f.name \notin CtfMemberNames}
           /\ IsStructNode(ExtraMembers(dst))
<1> DEFINE fields == dst.pkt_ctx
           T == {i \in 1 .. Len(fields) : fields[i].name \notin CtfMemberNames}
<1>1. fields \in Seq(Range(fields))
  BY DEF IsStruct2, AreNamed
<1>2. ExtraMembers(dst) = ConvStructFt(Others(fields))
  BY DEF ExtraMembers, Others, Where
<1>3. DOMAIN fields = 1 .. Len(fields)
  BY <1>1
<1>4. T \in SUBSET (1 .. Len(fields))
  OBVIOUS
<1>5. {fields[i] : i \in T} = {f \in Range(fields) : f.name \notin CtfMemberNames}
  BY <1>3 DEF Range
<1>6. T = {i \in 1 .. Len(fields) : fields[i].name \notin CtfMemberNames}
  OBVIOUS
<1> HIDE DEF T
<1>7. Others(fields) \in Seq(Range(fields)) /\ Selected(Others(fields), fields, T)
  BY <1>1, <1>6, OthersSelected
<1>8. IsStruct2(Others(fields)) /\ Range(Others(fields)) = {fields[i] : i \in T}
  BY <1>4, <1>7, SomeFields
<1> QED
  BY <1>2, <1>5, <1>8, ConvStructFacts

(* A feature has the size of the member, or is off without it.             *)
LEMMA FeatureOn ==
    ASSUME NEW fields, IsStruct2(fields), NEW name,
           \A f \in Range(fields) : f.name = name => IsUIntField(f)
    PROVE  /\ Feature(fields, name) \in Nat /\ ConvFtIfExists(fields, name) \in FeatureValues
           /\ (\A f \in Range(fields) : f.name # name) => Feature(fields, name) = Off
           /\ \A f \in Range(fields) : f.name = name =>
                  /\ Feature(fields, name) = f.size /\ f.size # Off
                  /\ ConvFtIfExists(fields, name) = f.size
<1> DEFINE size == ConvFtIfExists(fields, name)
           clk == ClkTypeName(fields, name)
<1>1. /\ fields \in Seq(Range(fields))
      /\ \A f \in Range(fields) : IsField(f)
      /\ \A f, g \in Range(fields) : f.name = g.name => f = g
  <2>1. /\ fields \in Seq(Range(fields))
        /\ \A f \in Range(fields) : IsField(f)
        /\ \A i, j \in DOMAIN fields : fields[i].name = fields[j].name => i = j
    BY DEF IsStruct2, AreNamed
  <2>2. \A f, g \in Range(fields) : f.name = g.name => f = g
    BY <2>1 DEF Range
  <2> QED
    BY <2>1, <2>2
<1>2. Found(fields, name, size, clk)
  BY <1>1, FieldFound
<1>3. Feature(fields, name) = IF size = Missing THEN Off ELSE size
  BY DEF Feature, SetV3Feature
<1>4. ASSUME NEW f \in Range(fields), f.name = name
      PROVE  ConvFt(f).size = f.size /\ f.size \in Nat /\ f.size # Off /\ f.size # Missing
  <2>1. IsUIntField(f)
    BY <1>4
  <2>2. ConvFt(f).size = f.size
    BY <1>1, <2>1, ConvFtFacts DEF IsUIntField
  <2>3. f.size \in Nat /\ f.size # Off
    BY <2>1 DEF IsUIntField
  <2>4. f.size # Missing
    BY <2>3 DEF Missing
  <2> QED
    BY <2>2, <2>3, <2>4
<1> HIDE DEF size, clk
<1>5. CASE \A f \in Range(fields) : f.name # name
  <2>1. size = Missing
    BY <1>2, <1>5 DEF Found
  <2> QED
    BY <1>3, <1>5, <2>1 DEF size, Off, FeatureValues
<1>6. ASSUME NEW f \in Range(fields), f.name = name
      PROVE  size = f.size /\ size # Missing /\ size \in Nat /\ size # Off
  <2>1. PICK g \in Range(fields) : g.name = name /\ size = ConvFt(g).size
    BY <1>2, <1>6 DEF Found
  <2>2. g = f
    BY <1>1, <1>6, <2>1
  <2> QED
    BY <1>4, <1>6, <2>1, <2>2
<1>7. CASE \E f \in Range(fields) : f.name = name
  <2>1. PICK f \in Range(fields) : f.name = name
    BY <1>7
  <2> QED
    BY <1>3, <1>6, <2>1 DEF size, FeatureValues
<1> QED
  BY <1>5, <1>7

LEMMA AreUIntsFacts ==
    ASSUME NEW fields, NEW names, AreUInts(fields, names), NEW name \in names
    PROVE  \A f \in Range(fields) : f.name = name => IsUIntField(f)
BY DEF AreUInts

LEMMA V3FeaturesFacts ==
    ASSUME NEW dst, IsDst2(dst)
    PROVE  V3Features(dst) \in [DstFeatureNames -> FeatureValues]
<1> DEFINE a == ConvFtIfExists(dst.pkt_ctx, "packet_size")
           b == ConvFtIfExists(dst.pkt_ctx, "content_size")
           c == Feature(dst.pkt_ctx, "timestamp_begin")
           d == Feature(dst.pkt_ctx, "timestamp_end")
           e == Feature(dst.pkt_ctx, "events_discarded")
           f == Feature(dst.er_header, "id")
           g == Feature(dst.er_header, "timestamp")
<1>1. /\ IsStruct2(dst.pkt_ctx) /\ AreUInts(dst.pkt_ctx, CtfMemberNames)
      /\ IsStruct2(dst.er_header) /\ AreUInts(dst.er_header, {"id", "timestamp"})
  BY DEF IsDst2
<1>2. a \in FeatureValues /\ b \in FeatureValues /\ c \in Nat /\ d \in Nat /\ e \in Nat
  <2>1. \A name \in CtfMemberNames : \A h \in Range(dst.pkt_ctx) :
            h.name = name => IsUIntField(h)
    BY <1>1, AreUIntsFacts
  <2>2. /\ "packet_size" \in CtfMemberNames /\ "content_size" \in CtfMemberNames
        /\ "timestamp_begin" \in CtfMemberNames /\ "timestamp_end" \in CtfMemberNames
        /\ "events_discarded" \in CtfMemberNames
    BY DEF CtfMemberNames
  <2>3. ASSUME NEW name \in CtfMemberNames
        PROVE  /\ Feature(dst.pkt_ctx, name) \in Nat
               /\ ConvFtIfExists(dst.pkt_ctx, name) \in FeatureValues
    BY <1>1, <2>1, FeatureOn
  <2> QED
    BY <2>2, <2>3
<1>3. f \in Nat /\ g \in Nat
  <2>1. \A name \in {"id", "timestamp"} : \A h \in Range(dst.er_header) :
            h.name = name => IsUIntField(h)
    BY <1>1, AreUIntsFacts
  <2>2. ASSUME NEW name \in {"id", "timestamp"} PROVE Feature(dst.er_header, name) \in Nat
    BY <1>1, <2>1, FeatureOn
  <2> QED
    BY <2>2
<1>4. V3Features(dst) = [total |-> a, content |-> b, beginning |-> c, end |-> d,
                         discarded |-> e, seq_num |-> Missing, id |-> f, timestamp |-> g]
  BY DEF V3Features
<1> HIDE DEF a, b, c, d, e, f, g
<1>5. Missing \in FeatureValues /\ Nat \subseteq FeatureValues
  BY DEF FeatureValues
<1> QED
  BY <1>2, <1>3, <1>4, <1>5 DEF DstFeatureNames

(* The node of a converted data stream type is one of version 3.           *)
LEMMA ConvDstShape ==
    ASSUME NEW dst, IsDst2(dst), NEW b
    PROVE  LET n == [ConvDstNode(dst) EXCEPT !.is_default = b] IN
           /\ IsDstNode(n)
           /\ n = [name |-> dst.name, is_default |-> b, clk |-> DefaultClock(dst),
                   features |-> V3Features(dst), extra |-> ExtraMembers(dst),
                   common |-> ConvStructFt(dst.common),
                   erts |-> [e \in DOMAIN dst.erts |-> ConvErtNode(dst.erts[e])]]
<1> DEFINE x == DefaultClock(dst)
           f == V3Features(dst)
           e == ExtraMembers(dst)
           o == ConvStructFt(dst.common)
           r == [j \in DOMAIN dst.erts |-> ConvErtNode(dst.erts[j])]
           c == ConvDstNode(dst)
           n == [c EXCEPT !.is_default = b]
<1>1. c = [name |-> dst.name, is_default |-> dst.is_default, clk |-> x, features |-> f,
           extra |-> e, common |-> o, erts |-> r]
  BY DEF ConvDstNode
<1>2. f \in [DstFeatureNames -> FeatureValues]
  BY V3FeaturesFacts
<1>3. IsStructNode(e) /\ IsStructNode(o)
  BY ExtraFacts, ConvStructFacts DEF IsDst2
<1>4. AreErtNames(DOMAIN r) /\ DOMAIN r = DOMAIN dst.erts
  BY DEF IsDst2
<1>5. \A j \in DOMAIN r : IsErtNode(r[j])
  <2> SUFFICES ASSUME NEW j \in DOMAIN r PROVE IsErtNode(r[j])
    OBVIOUS
  <2> DEFINE spec == ConvStructFt(dst.erts[j].spec)
             payload == ConvStructFt(dst.erts[j].payload)
  <2>1. IsStruct2(dst.erts[j].spec) /\ IsStruct2(dst.erts[j].payload)
    BY <1>4 DEF IsDst2
  <2>2. IsStructNode(spec) /\ IsStructNode(payload)
    BY <2>1, ConvStructFacts
  <2>3. r[j] = [log_level |-> dst.erts[j].log_level, spec |-> spec, payload |-> payload]
    BY <1>4 DEF ConvErtNode
  <2> HIDE DEF spec, payload, r
  <2> QED
    BY <2>2, <2>3 DEF IsErtNode
<1> HIDE DEF c, x, f, e, o, r
<1>6. n = [name |-> dst.name, is_default |-> b, clk |-> x, features |-> f, extra |-> e,
           common |-> o, erts |-> r]
  BY <1>1
<1> HIDE DEF n
<1>7. IsDstNode(n)
  BY <1>2, <1>3, <1>4, <1>5, <1>6 DEF IsDstNode
<1> QED
  BY <1>6, <1>7 DEF n, c, x, f, e, o, r

(* The features of the packet header are those members that it declares.   *)
LEMMA HeaderFeatures ==
    ASSUME NEW m, IsMetaNode(m)
    PROVE  /\ Feature(m.pkt_header, "magic") \in Nat
           /\ Feature(m.pkt_header, "uuid") \in Nat
           /\ Feature(m.pkt_header, "stream_id") \in Nat
<1>1. /\ IsStruct2(m.pkt_header)
      /\ AreUInts(m.pkt_header, {"magic", "stream_id", "stream_instance_id"})
      /\ \A f \in Range(m.pkt_header) : f.name = "uuid" => IsUIntField(f)
  BY DEF IsMetaNode, IsPktHeader2
<1>2. \A name \in {"magic", "stream_id", "stream_instance_id"} :
          \A f \in Range(m.pkt_header) : f.name = name => IsUIntField(f)
  BY <1>1, AreUIntsFacts
<1>3. ASSUME NEW name \in {"magic", "stream_id", "uuid"} PROVE Feature(m.pkt_header, name) \in Nat
  BY <1>1, <1>2, FeatureOn
<1> QED
  BY <1>3

-----------------------------------------------------------------------------
(* Normalized nodes *)

(* Nothing but a class name changes. *)
Normalized(class) == IF class \in DOMAIN ClassAliases THEN ClassAliases[class] ELSE class

LEMMA NormalMembers ==
    ASSUME NEW nodes, IsStructNode(nodes)
    PROVE  LET t == NormalizeMembers(nodes) IN
           /\ IsStructNode(t) /\ DOMAIN t = DOMAIN nodes
           /\ \A i \in DOMAIN nodes :
                  /\ t[i].name = nodes[i].name /\ t[i].dims = nodes[i].dims
                  /\ t[i].size = nodes[i].size /\ t[i].mappings = nodes[i].mappings
                  /\ t[i].class = Normalized(nodes[i].class)
<1> DEFINE t == NormalizeMembers(nodes)
<1>1. /\ nodes \in Seq(Range(nodes)) /\ AreNamed(nodes)
      /\ \A n \in Range(nodes) : n = MemberNode(n.name, n.class, n.size, n.dims, n.mappings)
  BY DEF IsStructNode, AreNamed
<1>2. DOMAIN nodes = 1 .. Len(nodes) /\ Len(nodes) \in Nat
      /\ \A i \in DOMAIN nodes : nodes[i] \in Range(nodes)
  BY <1>1 DEF Range
<1>3. t = [i \in 1 .. Len(nodes) |-> t[i]]
      /\ \A i \in DOMAIN nodes :
             t[i] = IF nodes[i].class \in DOMAIN ClassAliases
                    THEN [nodes[i] EXCEPT !.class = ClassAliases[nodes[i].class]]
                    ELSE nodes[i]
  BY <1>2 DEF NormalizeMembers
<1> HIDE DEF t
<1>4. ASSUME NEW i \in DOMAIN nodes
      PROVE  t[i] = MemberNode(nodes[i].name, Normalized(nodes[i].class), nodes[i].size,
                               nodes[i].dims, nodes[i].mappings)
  <2>1. nodes[i] = MemberNode(nodes[i].name, nodes[i].class, nodes[i].size, nodes[i].dims,
                              nodes[i].mappings)
    BY <1>1, <1>2
  <2> DEFINE class == ClassAliases[nodes[i].class]
  <2>2. [nodes[i] EXCEPT !.class = class] =
            MemberNode(nodes[i].name, class, nodes[i].size, nodes[i].dims, nodes[i].mappings)
    <3> HIDE DEF class
    <3> QED
      BY <2>1 DEF MemberNode
  <2>3. CASE nodes[i].class \in DOMAIN ClassAliases
    BY <1>3, <2>2, <2>3 DEF Normalized
  <2>4. CASE nodes[i].class \notin DOMAIN ClassAliases
    BY <1>3, <2>1, <2>4 DEF Normalized
  <2> QED
    BY <2>3, <2>4
<1>5. ASSUME NEW i \in DOMAIN nodes
      PROVE  /\ t[i] = MemberNode(t[i].name, t[i].class, t[i].size, t[i].dims, t[i].mappings)
             /\ t[i].name = nodes[i].name /\ t[i].dims = nodes[i].dims
             /\ t[i].size = nodes[i].size /\ t[i].mappings = nodes[i].mappings
             /\ t[i].class = Normalized(nodes[i].class)
  <2> DEFINE u == t[i]
             c == Normalized(nodes[i].class)
  <2>1. u = MemberNode(nodes[i].name, c, nodes[i].size, nodes[i].dims, nodes[i].mappings)
    BY <1>4
  <2> HIDE DEF u, c
  <2>2. /\ u = MemberNode(u.name, u.class, u.size, u.dims, u.mappings)
        /\ u.name = nodes[i].name /\ u.dims = nodes[i].dims
        /\ u.size = nodes[i].size /\ u.mappings = nodes[i].mappings
        /\ u.class = c
    BY <2>1 DEF MemberNode
  <2> QED
    BY <2>2 DEF u, c
<1>6. t \in Seq(Range(t)) /\ DOMAIN t = DOMAIN nodes
  <2>1. \A i \in 1 .. Len(nodes) : t[i] \in Range(t)
    BY <1>3 DEF Range
  <2> QED
    BY <1>2, <1>3, <2>1
<1>7. \A n \in Range(t) : \E i \in DOMAIN nodes : n = t[i] /\ n.name = nodes[i].name
  BY <1>5, <1>6 DEF Range
<1>8. AreNamed(t)
  BY <1>1, <1>2, <1>6, <1>7 DEF AreNamed
<1>9. IsStructNode(t)
  BY <1>5, <1>7, <1>8 DEF IsStructNode
<1> QED
  BY <1>5, <1>6, <1>9 DEF t

LEMMA NormalFeatures ==
    ASSUME NEW names, NEW features \in [names -> FeatureValues]
    PROVE  /\ NormalizeFeatures(features) \in [names -> FeatureValues]
           /\ \A f \in names : NormalizeFeatures(features)[f] # Null
<1>1. Missing \in FeatureValues /\ Missing # Null
  BY DEF FeatureValues, Missing, Null
<1>2. \A f \in names : NormalizeFeatures(features)[f] =
          IF features[f] = Null THEN Missing ELSE features[f]
  BY DEF NormalizeFeatures
<1>3. NormalizeFeatures(features) \in [names -> FeatureValues]
  BY <1>1 DEF NormalizeFeatures
<1> QED
  BY <1>1, <1>2, <1>3

(* A data stream type node with its log levels substituted and normalized. *)
NormalDst(aliases, dst) == NormalizeDst(SubDst(aliases, dst))

LEMMA NormalDstShape ==
    ASSUME NEW aliases, NEW dst, IsDstNode(dst)
    PROVE  LET n == NormalDst(aliases, dst) IN
           /\ IsDstNode(n) /\ DOMAIN n.erts = DOMAIN dst.erts
           /\ n.name = dst.name /\ n.is_default = dst.is_default
           /\ n.clk = IF dst.clk = Null THEN NoClock ELSE dst.clk
           /\ n.features = NormalizeFeatures(dst.features)
           /\ n.extra = NormalizeMembers(dst.extra) /\ n.common = NormalizeMembers(dst.common)
           /\ \A e \in DOMAIN dst.erts :
                  /\ n.erts[e].spec = NormalizeMembers(dst.erts[e].spec)
                  /\ n.erts[e].payload = NormalizeMembers(dst.erts[e].payload)
<1> DEFINE s == SubDst(aliases, dst)
           n == NormalizeDst(s)
           subbed == [j \in DOMAIN dst.erts |-> SubErt(aliases, dst.erts[j])]
           normal == [j \in DOMAIN subbed |-> NormalizeErt(subbed[j])]
           x == IF dst.clk = Null THEN NoClock ELSE dst.clk
           f == NormalizeFeatures(dst.features)
           e == NormalizeMembers(dst.extra)
           o == NormalizeMembers(dst.common)
<1>1. /\ dst = [name |-> dst.name, is_default |-> dst.is_default, clk |-> dst.clk,
                features |-> dst.features, extra |-> dst.extra, common |-> dst.common,
                erts |-> dst.erts]
      /\ dst.features \in [DstFeatureNames -> FeatureValues]
      /\ IsStructNode(dst.extra) /\ IsStructNode(dst.common)
      /\ AreErtNames(DOMAIN dst.erts)
      /\ \A j \in DOMAIN dst.erts : IsErtNode(dst.erts[j])
  BY DEF IsDstNode
<1>2. ASSUME NEW j \in DOMAIN dst.erts
      PROVE  /\ normal[j] = [log_level |-> normal[j].log_level,
                             spec |-> NormalizeMembers(dst.erts[j].spec),
                             payload |-> NormalizeMembers(dst.erts[j].payload)]
             /\ IsErtNode(normal[j])
  <2> DEFINE ert == dst.erts[j]
             level == SubLogLevel(aliases, ert.log_level)
             spec == NormalizeMembers(ert.spec)
             payload == NormalizeMembers(ert.payload)
             low == IF level = << "null" >> THEN << >> ELSE level
  <2>1. /\ ert = [log_level |-> ert.log_level, spec |-> ert.spec, payload |-> ert.payload]
        /\ IsStructNode(ert.spec) /\ IsStructNode(ert.payload)
    BY <1>1 DEF IsErtNode
  <2>2. SubErt(aliases, ert) = [ert EXCEPT !.log_level = level]
    BY DEF SubErt
  <2>3. SubErt(aliases, ert) = [log_level |-> level, spec |-> ert.spec, payload |-> ert.payload]
    <3> HIDE DEF level, ert
    <3> QED
      BY <2>1, <2>2
  <2>4. NormalizeErt(SubErt(aliases, ert)) = [log_level |-> low, spec |-> spec,
                                              payload |-> payload]
    <3> HIDE DEF level, ert
    <3> QED
      BY <2>3 DEF NormalizeErt
  <2>5. normal[j] = NormalizeErt(SubErt(aliases, ert))
    OBVIOUS
  <2>6. IsStructNode(spec) /\ IsStructNode(payload)
    BY <2>1, NormalMembers
  <2> HIDE DEF normal, low, spec, payload
  <2>7. normal[j] = [log_level |-> low, spec |-> spec, payload |-> payload]
    BY <2>4, <2>5
  <2>8. normal[j] = [log_level |-> normal[j].log_level, spec |-> spec, payload |-> payload]
    BY <2>7
  <2> QED
    BY <2>6, <2>7, <2>8 DEF IsErtNode, spec, payload
<1>3. s = [dst EXCEPT !.erts = subbed]
  BY DEF SubDst
<1>4. DOMAIN subbed = DOMAIN dst.erts /\ DOMAIN normal = DOMAIN dst.erts
  OBVIOUS
<1> HIDE DEF subbed
<1>5. s = [name |-> dst.name, is_default |-> dst.is_default, clk |-> dst.clk,
           features |-> dst.features, extra |-> dst.extra, common |-> dst.common,
           erts |-> subbed]
  BY <1>1, <1>3
<1> HIDE DEF s
<1>6. n = [s EXCEPT !.clk = x, !.features = f, !.extra = e, !.common = o, !.erts = normal]
  BY <1>5 DEF NormalizeDst
<1> HIDE DEF n, normal, x, f, e, o
<1>7. n = [name |-> dst.name, is_default |-> dst.is_default, clk |-> x, features |-> f,
           extra |-> e, common |-> o, erts |-> normal]
  BY <1>5, <1>6
<1>8. f \in [DstFeatureNames -> FeatureValues] /\ IsStructNode(e) /\ IsStructNode(o)
  BY <1>1, NormalFeatures, NormalMembers DEF f, e, o
<1>9. IsDstNode(n)
  BY <1>1, <1>2, <1>4, <1>7, <1>8 DEF IsDstNode
<1>10. /\ n.name = dst.name /\ n.is_default = dst.is_default /\ n.clk = x /\ n.features = f
       /\ n.extra = e /\ n.common = o /\ n.erts = normal
  BY <1>7
<1>11. ASSUME NEW j \in DOMAIN dst.erts
       PROVE  /\ normal[j].spec = NormalizeMembers(dst.erts[j].spec)
              /\ normal[j].payload = NormalizeMembers(dst.erts[j].payload)
  <2> DEFINE spec == NormalizeMembers(dst.erts[j].spec)
             payload == NormalizeMembers(dst.erts[j].payload)
  <2>1. normal[j] = [log_level |-> normal[j].log_level, spec |-> spec, payload |-> payload]
    BY <1>2
  <2> HIDE DEF spec, payload
  <2>2. normal[j].spec = spec /\ normal[j].payload = payload
    BY <2>1
  <2> QED
    BY <2>2 DEF spec, payload
<1> QED
  BY <1>4, <1>9, <1>10, <1>11 DEF NormalDst, n, s, x, f, e, o

-----------------------------------------------------------------------------
(* Lengths *)

LEMMA LenMemberFacts ==
    ASSUME NEW x
    PROVE  LET l == LenMember(x) IN
           /\ l.class = "unsigned-integer" /\ l.size = 32 /\ l.dims = << >>
           /\ l.mappings = << >> /\ l.clk = NoClock /\ l.len_of = x /\ ~IsDynamicArray(l)
BY DEF LenMember, Member, IsDynamicArray

LEMMA CreateFtFacts ==
    ASSUME NEW n
    PROVE  LET m == CreateFt(n) IN
           /\ m.name = n.name /\ m.class = n.class /\ m.size = n.size /\ m.dims = n.dims
           /\ m.mappings = [label \in DOMAIN n.mappings |-> Range(n.mappings[label])]
           /\ m.clk = NoClock /\ m.len_of = NoName
           /\ IsDynamicArray(m) <=> IsDynamicArray(n)
<1> DEFINE mappings == [label \in DOMAIN n.mappings |-> Range(n.mappings[label])]
           m == CreateFt(n)
<1>1. m = Member(n.name, n.class, n.size, n.dims, mappings, NoClock, NoName)
  BY DEF CreateFt
<1> HIDE DEF mappings, m
<1>2. /\ m.name = n.name /\ m.class = n.class /\ m.size = n.size /\ m.dims = n.dims
      /\ m.mappings = mappings /\ m.clk = NoClock /\ m.len_of = NoName
  BY <1>1 DEF Member
<1>3. IsDynamicArray(m) <=> IsDynamicArray(n)
  BY <1>2 DEF IsDynamicArray
<1> QED
  BY <1>2, <1>3 DEF m, mappings

(* A structure where a dynamic array has its length before it, and nothing *)
(* else is a length.                                                       *)
LensFirst(s) ==
    \A p \in 1 .. Len(s) : IsDynamicArray(s[p]) =>
        s[p].name # NoName /\ \E q \in 1 .. p - 1 : s[q] = LenMember(s[p].name)

LensAreLens(s) ==
    \A p \in 1 .. Len(s) : s[p].len_of # NoName => s[p] = LenMember(s[p].len_of)

IsLaid(s) == Distinct(s) /\ LensFirst(s) /\ LensAreLens(s)

(* What the first k nodes made. *)
Made3(s, nodes, k) ==
    /\ \A p \in 1 .. Len(s) : \E i \in 1 .. k :
           \/ s[p] = CreateFt(nodes[i])
           \/ IsDynamicArray(nodes[i]) /\ s[p] = LenMember(nodes[i].name)
    /\ \A i \in 1 .. k : \E p \in 1 .. Len(s) : s[p] = CreateFt(nodes[i])
    /\ LensFirst(s)

LEMMA CreatedMembers ==
    ASSUME NEW nodes, IsStructNode(nodes), ~DuplicateMember(nodes), LengthsAreFree(nodes)
    PROVE  Made3(CreateStructFtMembers(nodes), nodes, Len(nodes))
<1> DEFINE n == Len(nodes)
           D == Seq(Brought(nodes))
<1>1. /\ nodes \in Seq(Range(nodes))
      /\ \A x \in Range(nodes) : x.name # NoName
      /\ \A x, y \in Range(nodes) :
             LenMember(x.name).name = LenMember(y.name).name => x.name = y.name
  BY DEF IsStructNode, AreNamed
<1>2. n \in Nat /\ DOMAIN nodes = 1 .. n /\ \A i \in 1 .. n : nodes[i] \in Range(nodes)
  BY <1>1 DEF Range
<1>3. \A i, j \in 1 .. n : i < j => nodes[i].name # nodes[j].name
  BY <1>2 DEF DuplicateMember
<1>4. << >> \in D /\ \A i \in 1 .. n : \A m \in D : AddMember(m, nodes[i]) \in D
  BY <1>2, AddFacts
<1>5. \A x, y \in Range(nodes) : IsDynamicArray(x) => y.name # LenMember(x.name).name
  BY DEF LengthsAreFree
<1> HIDE DEF n
<1>6. PICK h : Creates(h, nodes, n, D)
  BY <1>2, <1>4, CreateSteps
<1> DEFINE G == {k \in 0 .. n : Made3(h[k], nodes, k)}
<1>7. 0 \in G
  <2>1. h[0] = << >> /\ Len(h[0]) = 0
    BY <1>6 DEF Creates
  <2>2. Made3(h[0], nodes, 0)
    BY <2>1 DEF Made3, LensFirst
  <2> QED
    BY <1>2, <2>2
<1>8. ASSUME NEW k \in 0 .. n, k < n, k \in G PROVE k + 1 \in G
  <2> DEFINE s == h[k]
             t == h[k + 1]
             x == nodes[k + 1]
             ft == CreateFt(x)
             l == LenMember(x.name)
             u == IF IsDynamicArray(x) THEN SetMember(s, l) ELSE s
             B == Brought(nodes)
  <2>1. k + 1 \in 1 .. n /\ (k + 1) - 1 = k /\ x \in Range(nodes)
    BY <1>2, <1>8
  <2>2. t = AddMember(s, x) /\ s \in Seq(B)
    BY <1>6, <2>1 DEF Creates
  <2>3. t = SetMember(u, ft)
    BY <2>2 DEF AddMember
  <2>4. ft \in B /\ l \in B
    BY <2>1 DEF Brought
  <2>5. /\ ft.name = x.name /\ (IsDynamicArray(ft) <=> IsDynamicArray(x)) /\ x.name # NoName
        /\ ~IsDynamicArray(l)
    BY <1>1, <2>1, CreateFtFacts, LenMemberFacts
  <2>6. Made3(s, nodes, k)
    BY <1>8
  <2> HIDE DEF s, t, x, ft, l, u, B, G
  <2>7. ASSUME NEW p \in 1 .. Len(s)
        PROVE  s[p].name # x.name /\ (IsDynamicArray(x) => s[p].name # l.name)
    <3>1. PICK i \in 1 .. k : \/ s[p] = CreateFt(nodes[i])
                              \/ IsDynamicArray(nodes[i]) /\ s[p] = LenMember(nodes[i].name)
      BY <2>6 DEF Made3
    <3>2. i \in 1 .. n /\ i < k + 1 /\ nodes[i] \in Range(nodes)
      BY <1>2, <2>1
    <3>3. nodes[i].name # x.name
      BY <1>3, <2>1, <3>2 DEF x
    <3>4. CreateFt(nodes[i]).name = nodes[i].name
      BY CreateFtFacts
    <3>5. CASE s[p] = CreateFt(nodes[i])
      BY <1>5, <2>1, <3>2, <3>3, <3>4, <3>5 DEF l
    <3>6. CASE IsDynamicArray(nodes[i]) /\ s[p] = LenMember(nodes[i].name)
      BY <1>1, <1>5, <2>1, <3>2, <3>3, <3>6 DEF l
    <3> QED
      BY <3>1, <3>5, <3>6
  <2>8. Len(s) \in Nat
    BY <2>2
  <2>9. /\ u \in Seq(B) /\ Len(u) >= Len(s)
        /\ \A p \in 1 .. Len(s) : u[p] = s[p]
        /\ \A p \in 1 .. Len(u) : p \in 1 .. Len(s) \/ (IsDynamicArray(x) /\ u[p] = l)
        /\ IsDynamicArray(x) => \E q \in 1 .. Len(u) : u[q] = l
        /\ \A p \in 1 .. Len(u) : u[p].name # x.name
    <3>1. CASE ~IsDynamicArray(x)
      <4>1. u = s
        BY <3>1 DEF u
      <4> QED
        BY <2>2, <2>7, <2>8, <3>1, <4>1
    <3>2. CASE IsDynamicArray(x)
      <4>1. u = SetMember(s, l)
        BY <3>2 DEF u
      <4>2. u = Append(s, l)
        BY <2>2, <2>4, <2>7, <3>2, <4>1, SetFacts DEF Replaces
      <4>3. /\ u \in Seq(B) /\ Len(u) = Len(s) + 1
            /\ \A p \in 1 .. Len(s) : u[p] = s[p]
            /\ u[Len(s) + 1] = l
        BY <2>2, <2>4, <4>2
      <4>4. \A p \in 1 .. Len(u) : p \in 1 .. Len(s) \/ p = Len(s) + 1
        BY <2>8, <4>3
      <4>5. l.name # x.name
        BY <1>5, <2>1, <3>2 DEF l
      <4>6. Len(s) + 1 \in 1 .. Len(u)
        BY <2>8, <4>3
      <4> QED
        BY <2>7, <2>8, <3>2, <4>3, <4>4, <4>5, <4>6
    <3> QED
      BY <3>1, <3>2
  <2>10. t = Append(u, ft)
    <3>1. \A p \in 1 .. Len(u) : u[p].name # ft.name
      BY <2>5, <2>9
    <3>2. \/ Replaces(SetMember(u, ft), u, ft)
          \/ SetMember(u, ft) = Append(u, ft)
      BY <2>4, <2>9, SetFacts
    <3>3. ~Replaces(SetMember(u, ft), u, ft)
      BY <3>1 DEF Replaces
    <3> QED
      BY <2>3, <3>2, <3>3
  <2>11. /\ Len(t) = Len(u) + 1 /\ Len(u) \in Nat
         /\ \A p \in 1 .. Len(u) : t[p] = u[p]
         /\ t[Len(u) + 1] = ft
    BY <2>4, <2>9, <2>10
  <2>12. \A p \in 1 .. Len(t) : p \in 1 .. Len(u) \/ p = Len(u) + 1
    BY <2>11
  <2>13. \A p \in 1 .. Len(s) : t[p] = s[p] /\ p \in 1 .. Len(t)
    BY <2>8, <2>9, <2>11
  <2>14. ASSUME NEW p \in 1 .. Len(t)
         PROVE  \E i \in 1 .. (k + 1) :
                    \/ t[p] = CreateFt(nodes[i])
                    \/ IsDynamicArray(nodes[i]) /\ t[p] = LenMember(nodes[i].name)
    <3>1. CASE p = Len(u) + 1
      BY <2>1, <2>11, <3>1 DEF x, ft
    <3>2. CASE p \in 1 .. Len(s)
      <4>1. PICK i \in 1 .. k : \/ s[p] = CreateFt(nodes[i])
                                \/ IsDynamicArray(nodes[i]) /\ s[p] = LenMember(nodes[i].name)
        BY <2>6, <3>2 DEF Made3
      <4>2. i \in 1 .. (k + 1)
        BY <2>1
      <4> QED
        BY <2>13, <3>2, <4>1, <4>2
    <3>3. CASE p \in 1 .. Len(u) /\ IsDynamicArray(x) /\ u[p] = l
      BY <2>1, <2>11, <3>3 DEF x, l
    <3> QED
      BY <2>9, <2>12, <3>1, <3>2, <3>3
  <2>15. ASSUME NEW i \in 1 .. (k + 1) PROVE \E p \in 1 .. Len(t) : t[p] = CreateFt(nodes[i])
    <3>1. CASE i = k + 1
      <4>1. Len(u) + 1 \in 1 .. Len(t)
        BY <2>11
      <4> QED
        BY <2>11, <3>1, <4>1 DEF ft, x
    <3>2. CASE i \in 1 .. k
      BY <2>6, <2>13, <3>2 DEF Made3
    <3> QED
      BY <2>1, <3>1, <3>2
  <2>16. ASSUME NEW p \in 1 .. Len(t), IsDynamicArray(t[p])
         PROVE  t[p].name # NoName /\ \E q \in 1 .. p - 1 : t[q] = LenMember(t[p].name)
    <3>1. CASE p = Len(u) + 1
      <4>1. t[p] = ft /\ IsDynamicArray(x) /\ t[p].name = x.name
        BY <2>5, <2>11, <2>16, <3>1
      <4>2. PICK q \in 1 .. Len(u) : u[q] = l
        BY <2>9, <4>1
      <4>3. q \in 1 .. p - 1 /\ t[q] = l
        BY <2>11, <3>1, <4>2
      <4> QED
        BY <2>5, <4>1, <4>3 DEF l
    <3>2. CASE p \in 1 .. Len(s)
      <4>1. t[p] = s[p]
        BY <2>13, <3>2
      <4>2. s[p].name # NoName /\ \E q \in 1 .. p - 1 : s[q] = LenMember(s[p].name)
        BY <2>6, <2>16, <3>2, <4>1 DEF Made3, LensFirst
      <4>3. PICK q \in 1 .. p - 1 : s[q] = LenMember(s[p].name)
        BY <4>2
      <4>4. q \in 1 .. Len(s)
        BY <2>8, <3>2
      <4>5. t[q] = s[q]
        BY <2>13, <4>4
      <4> QED
        BY <4>1, <4>2, <4>3, <4>5
    <3>3. CASE p \in 1 .. Len(u) /\ u[p] = l
      BY <2>5, <2>11, <2>16, <3>3
    <3> QED
      BY <2>9, <2>12, <3>1, <3>2, <3>3
  <2>17. Made3(t, nodes, k + 1)
    BY <2>14, <2>15, <2>16 DEF Made3, LensFirst
  <2> QED
    BY <2>1, <2>17 DEF G, t
<1> HIDE DEF G
<1>9. \A k \in 0 .. n : k < n /\ k \in G => k + 1 \in G
  BY <1>8
<1>10. \A k \in 0 .. n : k \in G
  BY <1>2, <1>7, <1>9, Induction
<1>11. n \in G
  BY <1>2, <1>10
<1>12. Made3(h[n], nodes, n)
  BY <1>11 DEF G
<1> QED
  BY <1>6, <1>12 DEF Creates, n

(* What a created structure has, and in which order.                       *)
CreatedOf(nodes) ==
    {CreateFt(n) : n \in Range(nodes)}
        \cup {LenMember(n.name) : n \in {m \in Range(nodes) : IsDynamicArray(m)}}

LEMMA CreatedLaid ==
    ASSUME NEW nodes, IsStructNode(nodes), ~DuplicateMember(nodes), LengthsAreFree(nodes)
    PROVE  LET s == CreateStructFtMembers(nodes) IN
           s \in Seq(Range(s)) /\ IsLaid(s) /\ Range(s) = CreatedOf(nodes)
<1> DEFINE s == CreateStructFtMembers(nodes)
           n == Len(nodes)
<1>1. /\ nodes \in Seq(Range(nodes))
      /\ \A x \in Range(nodes) : x.name # NoName
  BY DEF IsStructNode, AreNamed
<1>2. n \in Nat /\ DOMAIN nodes = 1 .. n /\ \A i \in 1 .. n : nodes[i] \in Range(nodes)
  BY <1>1 DEF Range
<1>3. s \in Seq(Brought(nodes)) /\ Distinct(s)
  BY <1>1, CreatedDistinct
<1>4. Made3(s, nodes, n)
  BY CreatedMembers
<1> HIDE DEF s, n
<1>5. /\ DOMAIN s = 1 .. Len(s) /\ Len(s) \in Nat
      /\ s = [p \in 1 .. Len(s) |-> s[p]]
  BY <1>3
<1>6. s \in Seq(Range(s))
  <2>1. \A p \in 1 .. Len(s) : s[p] \in Range(s)
    BY <1>5 DEF Range
  <2> QED
    BY <1>5, <2>1
<1>7. LensFirst(s)
  BY <1>4 DEF Made3
<1>8. ASSUME NEW p \in 1 .. Len(s), s[p].len_of # NoName PROVE s[p] = LenMember(s[p].len_of)
  <2>1. PICK i \in 1 .. n : \/ s[p] = CreateFt(nodes[i])
                            \/ IsDynamicArray(nodes[i]) /\ s[p] = LenMember(nodes[i].name)
    BY <1>4 DEF Made3
  <2>2. s[p] # CreateFt(nodes[i])
    BY <1>8, CreateFtFacts
  <2> QED
    BY <2>1, <2>2, LenMemberFacts
<1>9. LensAreLens(s)
  BY <1>8 DEF LensAreLens
<1>10. ASSUME NEW m \in Range(s) PROVE m \in CreatedOf(nodes)
  <2>1. PICK p \in 1 .. Len(s) : m = s[p]
    BY <1>5 DEF Range
  <2>2. PICK i \in 1 .. n : \/ s[p] = CreateFt(nodes[i])
                            \/ IsDynamicArray(nodes[i]) /\ s[p] = LenMember(nodes[i].name)
    BY <1>4 DEF Made3
  <2> QED
    BY <1>2, <2>1, <2>2 DEF CreatedOf
<1>11. ASSUME NEW x \in Range(nodes) PROVE CreateFt(x) \in Range(s)
  <2>1. PICK i \in 1 .. n : x = nodes[i]
    BY <1>2 DEF Range
  <2>2. PICK p \in 1 .. Len(s) : s[p] = CreateFt(nodes[i])
    BY <1>4 DEF Made3
  <2> QED
    BY <1>5, <2>1, <2>2 DEF Range
<1>12. ASSUME NEW x \in Range(nodes), IsDynamicArray(x) PROVE LenMember(x.name) \in Range(s)
  <2>1. PICK p \in 1 .. Len(s) : s[p] = CreateFt(x)
    BY <1>5, <1>11 DEF Range
  <2>2. IsDynamicArray(s[p]) /\ s[p].name = x.name
    BY <1>12, <2>1, CreateFtFacts
  <2>3. PICK q \in 1 .. p - 1 : s[q] = LenMember(x.name)
    BY <1>7, <2>2 DEF LensFirst
  <2>4. q \in DOMAIN s
    BY <1>5
  <2> QED
    BY <2>3, <2>4 DEF Range
<1>13. Range(s) = CreatedOf(nodes)
  BY <1>10, <1>11, <1>12 DEF CreatedOf
<1> QED
  BY <1>3, <1>6, <1>7, <1>9, <1>13 DEF IsLaid, s

(* Unsigned integers of the tracer's own, before what is laid. *)
ArePlain(s) == \A p \in 1 .. Len(s) : s[p].dims = << >> /\ s[p].len_of = NoName

LEMMA PlainLaid ==
    ASSUME NEW S, NEW s \in Seq(S), ArePlain(s)
    PROVE  LensFirst(s) /\ LensAreLens(s)
BY DEF ArePlain, LensFirst, LensAreLens, IsDynamicArray

LEMMA JoinedLaid ==
    ASSUME NEW S, NEW s \in Seq(S), NEW t \in Seq(S), ArePlain(s),
           LensFirst(t), LensAreLens(t)
    PROVE  LensFirst(s \o t) /\ LensAreLens(s \o t)
<1> DEFINE u == s \o t
           k == Len(s)
           n == Len(t)
<1>1. /\ Len(u) = k + n /\ k \in Nat /\ n \in Nat
      /\ \A j \in 1 .. k : u[j] = s[j]
      /\ \A j \in 1 .. n : u[k + j] = t[j]
  BY Joined
<1> HIDE DEF u, k, n
<1>2. ASSUME NEW p \in 1 .. Len(u), p \notin 1 .. k
      PROVE  \E j \in 1 .. n : p = k + j
  <2>1. p - k \in 1 .. n /\ p = k + (p - k)
    BY <1>1, <1>2
  <2> QED
    BY <2>1
<1>3. \A j \in 1 .. k : u[j].dims = << >> /\ u[j].len_of = NoName
  BY <1>1 DEF ArePlain, k
<1>4. ASSUME NEW p \in 1 .. Len(u), IsDynamicArray(u[p])
      PROVE  u[p].name # NoName /\ \E q \in 1 .. p - 1 : u[q] = LenMember(u[p].name)
  <2>1. p \notin 1 .. k
    BY <1>3, <1>4 DEF IsDynamicArray
  <2>2. PICK j \in 1 .. n : p = k + j
    BY <1>2, <2>1
  <2>3. u[p] = t[j]
    BY <1>1, <2>2
  <2>4. t[j].name # NoName /\ \E q \in 1 .. j - 1 : t[q] = LenMember(t[j].name)
    BY <1>4, <2>3 DEF LensFirst, n
  <2>5. PICK q \in 1 .. j - 1 : t[q] = LenMember(t[j].name)
    BY <2>4
  <2>6. q \in 1 .. n /\ k + q \in 1 .. p - 1
    BY <1>1, <2>2
  <2>7. u[k + q] = t[q]
    BY <1>1, <2>6
  <2> QED
    BY <2>3, <2>4, <2>5, <2>6, <2>7
<1>5. ASSUME NEW p \in 1 .. Len(u), u[p].len_of # NoName
      PROVE  u[p] = LenMember(u[p].len_of)
  <2>1. p \notin 1 .. k
    BY <1>3, <1>5
  <2>2. PICK j \in 1 .. n : p = k + j
    BY <1>2, <2>1
  <2>3. u[p] = t[j]
    BY <1>1, <2>2
  <2> QED
    BY <1>5, <2>3 DEF LensAreLens, n
<1> QED
  BY <1>4, <1>5 DEF LensFirst, LensAreLens, u

(* The length of an array of such a structure. *)
LEMMA LengthFound ==
    ASSUME NEW S, NEW s \in Seq(S), IsLaid(s), NEW a \in 1 .. Len(s), IsDynamicArray(s[a])
    PROVE  LET len == LenOf(s, s[a]) IN
           /\ len \in 1 .. a - 1 /\ len \in 1 .. Len(s)
           /\ s[len] = LenMember(s[a].name)
           /\ \A b \in 1 .. Len(s) : IsDynamicArray(s[b]) /\ LenOf(s, s[b]) = len => b = a
<1>1. /\ \A i, j \in 1 .. Len(s) : s[i].name = s[j].name => i = j
      /\ LensFirst(s) /\ LensAreLens(s)
  BY DEF IsLaid, Distinct
<1>2. Len(s) \in Nat
  OBVIOUS
<1>3. ASSUME NEW b \in 1 .. Len(s), IsDynamicArray(s[b])
      PROVE  LET len == LenOf(s, s[b]) IN
             len \in 1 .. b - 1 /\ len \in 1 .. Len(s) /\ s[len] = LenMember(s[b].name)
  <2> DEFINE I == {i \in 1 .. Len(s) : s[i].len_of = s[b].name}
             len == LenOf(s, s[b])
  <2>1. len = IF I # {} THEN Min(I) ELSE 0
    BY DEF LenOf, SelectInSeq
  <2>2. s[b].name # NoName
    BY <1>1, <1>3 DEF LensFirst
  <2>3. PICK q \in 1 .. b - 1 : s[q] = LenMember(s[b].name)
    BY <1>1, <1>3 DEF LensFirst
  <2>4. q \in I
    <3>1. q \in 1 .. Len(s)
      BY <1>2
    <3>2. s[q].len_of = s[b].name
      BY <2>3, LenMemberFacts
    <3> QED
      BY <3>1, <3>2
  <2>5. Min(I) \in I /\ \A i \in I : Min(I) <= i
    BY <1>2, <2>4, LeastOfInterval
  <2>6. len \in I /\ len <= q
    BY <2>1, <2>4, <2>5
  <2> HIDE DEF len
  <2>7. len \in 1 .. Len(s) /\ s[len].len_of = s[b].name
    BY <2>6
  <2>8. len \in 1 .. b - 1
    BY <1>2, <2>6, <2>7
  <2>9. s[len] = LenMember(s[b].name)
    BY <1>1, <2>2, <2>7 DEF LensAreLens
  <2> QED
    BY <2>7, <2>8, <2>9 DEF len
<1>4. ASSUME NEW b \in 1 .. Len(s), IsDynamicArray(s[b]), LenOf(s, s[b]) = LenOf(s, s[a])
      PROVE  b = a
  <2> DEFINE len == LenOf(s, s[a])
  <2>1. s[len] = LenMember(s[a].name) /\ s[len] = LenMember(s[b].name)
    BY <1>3, <1>4
  <2> HIDE DEF len
  <2>3. /\ LenMember(s[a].name).len_of = s[a].name
        /\ LenMember(s[b].name).len_of = s[b].name
    BY LenMemberFacts
  <2>2. s[a].name = s[b].name
    BY <2>1, <2>3
  <2> QED
    BY <1>1, <2>2
<1> QED
  BY <1>3, <1>4

(* The header of an event record, of whatever features.                    *)
LEMMA ErHeaderFacts ==
    ASSUME NEW dst
    PROVE  LET s == ErHeaderFt(dst)
               f == DstFeatures(dst)
               id == UInt("id", GetFt(f.id, 64), NoClock)
               ts == UInt("timestamp", GetFt(f.timestamp, 64), dst.clk)
           IN /\ s \in Seq({id, ts}) /\ ArePlain(s) /\ Distinct(s)
              /\ \A m \in Range(s) : m.name \in {"id", "timestamp"}
              /\ Range(s) = {m \in {id, ts} : m.size # Off}
<1> DEFINE f == DstFeatures(dst)
           id == UInt("id", GetFt(f.id, 64), NoClock)
           ts == UInt("timestamp", GetFt(f.timestamp, 64), dst.clk)
           l == << id, ts >>
           s == FeatureMembers(l)
           T == {i \in 1 .. 2 : l[i].size # Off}
<1>1. ErHeaderFt(dst) = s
  BY DEF ErHeaderFt
<1>2. /\ id.name = "id" /\ id.dims = << >> /\ id.len_of = NoName
      /\ ts.name = "timestamp" /\ ts.dims = << >> /\ ts.len_of = NoName
  BY UIntFacts
<1> HIDE DEF id, ts, f
<1>3. l \in [1 .. 2 -> {id, ts}] /\ l[1] = id /\ l[2] = ts /\ \A i \in 1 .. 2 : i \in {1, 2}
  OBVIOUS
<1>4. T = {i \in 1 .. 2 : l[i].size # Off} /\ T \in SUBSET Int
  OBVIOUS
<1>5. {l[i] : i \in T} = {m \in {id, ts} : m.size # Off}
  BY <1>3
<1> HIDE DEF l, T
<1>6. s \in Seq({id, ts}) /\ Selected(s, l, T)
  BY <1>3, <1>4, FeaturesOn
<1> HIDE DEF s
<1>7. PICK at : Selects(s, at, l, T)
  BY <1>6 DEF Selected
<1>8. DOMAIN s = 1 .. Len(s) /\ Len(s) \in Nat /\ \A p \in 1 .. Len(s) : s[p] \in {id, ts}
  BY <1>6
<1>9. ArePlain(s)
  BY <1>2, <1>8 DEF ArePlain
<1>10. \A m \in Range(s) : m.name \in {"id", "timestamp"}
  BY <1>2, <1>8 DEF Range
<1>11. Range(s) = {m \in {id, ts} : m.size # Off}
  BY <1>5, <1>6, <1>7, SelectsRange
<1>12. ASSUME NEW i \in 1 .. Len(s), NEW j \in 1 .. Len(s), s[i].name = s[j].name
       PROVE  i = j
  <2>1. at[i] \in T /\ s[i] = l[at[i]] /\ at[j] \in T /\ s[j] = l[at[j]]
    BY <1>7 DEF Selects
  <2>2. \A x \in T : x \in {1, 2}
    BY <1>3, <1>4
  <2>3. at[i] = at[j]
    BY <1>2, <1>3, <1>12, <2>1, <2>2
  <2>4. \A x, y \in 1 .. Len(s) : at[x] = at[y] => x = y
    BY <1>4, <1>7, <1>8, SelectsOnce
  <2> QED
    BY <2>3, <2>4
<1>13. Distinct(s)
  BY <1>12 DEF Distinct
<1> QED
  BY <1>1, <1>6, <1>9, <1>10, <1>11, <1>13 DEF f, id, ts

(* A packet context: its own members, then those of the user.              *)
LEMMA PktCtxParts ==
    ASSUME NEW dst
    PROVE  LET s == CtxFeatures(DstFeatures(dst), dst.clk)
               on == FeatureMembers(s)
           IN /\ PktCtxFt(dst) = on \o CreateStructFtMembers(dst.extra)
              /\ on \in Seq(Range(s)) /\ ArePlain(on)
              /\ Range(on) = {s[i] : i \in {j \in 1 .. 6 : s[j].size # Off}}
<1> DEFINE f == DstFeatures(dst)
           s == CtxFeatures(f, dst.clk)
           on == FeatureMembers(s)
           T == {i \in 1 .. 6 : s[i].size # Off}
<1>1. PktCtxFt(dst) = on \o CreateStructFtMembers(dst.extra)
  BY DEF PktCtxFt, CtxFeatures
<1>2. s \in [1 .. 6 -> Range(s)]
  BY CtxFeatureNames
<1>3. \A i \in 1 .. 6 : s[i].dims = << >> /\ s[i].len_of = NoName
  <2>1. \A i \in 1 .. 6 : i \in {1, 2, 3, 4, 5, 6}
    OBVIOUS
  <2>2. \A i \in {1, 2, 3, 4, 5, 6} : \E name, size, clk : s[i] = UInt(name, size, clk)
    <3> HIDE DEF f
    <3> QED
      BY DEF CtxFeatures
  <2> HIDE DEF s
  <2> QED
    BY <2>1, <2>2, UIntFacts
<1>4. T = {i \in 1 .. 6 : s[i].size # Off}
  OBVIOUS
<1> HIDE DEF s, T
<1>5. on \in Seq(Range(s)) /\ Selected(on, s, T)
  BY <1>2, <1>4, FeaturesOn
<1> HIDE DEF on
<1>6. PICK at : Selects(on, at, s, T)
  BY <1>5 DEF Selected
<1>7. Range(on) = {s[i] : i \in T}
  BY <1>5, <1>6, SelectsRange
<1>8. \A p \in 1 .. Len(on) : at[p] \in 1 .. 6 /\ on[p] = s[at[p]]
  BY <1>4, <1>6 DEF Selects
<1>9. ArePlain(on)
  BY <1>3, <1>8 DEF ArePlain
<1> QED
  BY <1>1, <1>4, <1>5, <1>7, <1>9 DEF on, s, f

LEMMA PktCtxLaid ==
    ASSUME NEW clocks, NEW dst, IsStructNode(dst.extra), ~Refused(clocks, dst),
           LengthsAreFree(dst.extra)
    PROVE  IsLaid(PktCtxFt(dst)) /\ \E S : PktCtxFt(dst) \in Seq(S)
<1> DEFINE on == FeatureMembers(CtxFeatures(DstFeatures(dst), dst.clk))
           extra == CreateStructFtMembers(dst.extra)
           R == Range(CtxFeatures(DstFeatures(dst), dst.clk))
           t == PktCtxFt(dst)
<1>1. t = on \o extra /\ on \in Seq(R) /\ ArePlain(on)
  BY PktCtxParts
<1>2. ~DuplicateMember(dst.extra)
  BY DEF Refused, InvalidMembers
<1>3. extra \in Seq(Range(extra)) /\ LensFirst(extra) /\ LensAreLens(extra)
  BY <1>2, CreatedLaid DEF IsLaid
<1>4. \A j, k \in DOMAIN t : t[j].name = t[k].name => j = k
  BY PktCtxDistinct DEF IsStructNode, AreNamed
<1> HIDE DEF on, extra, R, t
<1> DEFINE S == R \cup Range(extra)
<1>5. on \in Seq(S) /\ extra \in Seq(S)
  BY <1>1, <1>3
<1> HIDE DEF S
<1>6. LensFirst(t) /\ LensAreLens(t) /\ t \in Seq(S)
  BY <1>1, <1>3, <1>5, JoinedLaid
<1>7. DOMAIN t = 1 .. Len(t)
  BY <1>6
<1>8. Distinct(t)
  BY <1>4, <1>7 DEF Distinct
<1> QED
  BY <1>6, <1>8 DEF IsLaid, t

(* Whether the names of lengths are free only depends on names and arrays. *)
LEMMA FreeKept ==
    ASSUME NEW nodes, LengthsAreFree(nodes), NEW t,
           \A x \in Range(t) : \E y \in Range(nodes) : x.name = y.name /\ x.dims = y.dims
    PROVE  LengthsAreFree(t)
<1> SUFFICES ASSUME NEW x \in Range(t), NEW z \in Range(t), IsDynamicArray(x)
             PROVE  z.name # LenMember(x.name).name
  BY DEF LengthsAreFree
<1>1. PICK a \in Range(nodes) : x.name = a.name /\ x.dims = a.dims
  OBVIOUS
<1>2. PICK b \in Range(nodes) : z.name = b.name
  OBVIOUS
<1>3. IsDynamicArray(a)
  BY <1>1 DEF IsDynamicArray
<1>4. b.name # LenMember(a.name).name
  BY <1>3 DEF LengthsAreFree
<1> QED
  BY <1>1, <1>2, <1>4

LEMMA NormalFree ==
    ASSUME NEW nodes, IsStructNode(nodes), LengthsAreFree(nodes)
    PROVE  LengthsAreFree(NormalizeMembers(nodes))
<1> DEFINE t == NormalizeMembers(nodes)
<1>1. /\ DOMAIN t = DOMAIN nodes
      /\ \A i \in DOMAIN nodes : t[i].name = nodes[i].name /\ t[i].dims = nodes[i].dims
  BY NormalMembers
<1> HIDE DEF t
<1>2. \A x \in Range(t) : \E y \in Range(nodes) : x.name = y.name /\ x.dims = y.dims
  BY <1>1 DEF Range
<1>3. LengthsAreFree(t)
  BY <1>2, FreeKept
<1> QED
  BY <1>3 DEF t

LEMMA ConvFree ==
    ASSUME NEW fields, IsStruct2(fields), NEW all, LengthsAreFree(all),
           Range(fields) \subseteq Range(all)
    PROVE  LengthsAreFree(ConvStructFt(fields))
<1> DEFINE t == ConvStructFt(fields)
<1>1. Range(t) = {ConvFt(f) : f \in Range(fields)}
  BY ConvStructFacts
<1>2. \A f \in Range(fields) : ConvFt(f).name = f.name /\ ConvFt(f).dims = f.dims
  BY ConvFtFacts DEF IsStruct2
<1> HIDE DEF t
<1>3. \A x \in Range(t) : \E y \in Range(all) : x.name = y.name /\ x.dims = y.dims
  BY <1>1, <1>2
<1>4. LengthsAreFree(t)
  BY <1>3, FreeKept
<1> QED
  BY <1>4 DEF t

-----------------------------------------------------------------------------
(* Parameters and arguments of the generated functions *)

IsList(s) == s \in Seq(Range(s))

LEMMA ListOf ==
    ASSUME NEW S, NEW s \in Seq(S)
    PROVE  IsList(s)
BY DEF IsList, Range

LEMMA ListJoined ==
    ASSUME NEW s, IsList(s), NEW t, IsList(t)
    PROVE  IsList(s \o t) /\ Range(s \o t) = Range(s) \cup Range(t)
<1> DEFINE S == Range(s) \cup Range(t)
           u == s \o t
           k == Len(s)
           n == Len(t)
<1>1. s \in Seq(S) /\ t \in Seq(S)
  BY DEF IsList
<1>2. /\ \A i \in 1 .. k : s[i] \in Range(s)
      /\ \A i \in 1 .. n : t[i] \in Range(t)
  BY <1>1 DEF Range
<1>3. /\ \A x \in Range(s) : \E i \in 1 .. k : x = s[i]
      /\ \A x \in Range(t) : \E i \in 1 .. n : x = t[i]
  BY <1>1 DEF Range
<1> HIDE DEF S
<1>4. /\ u \in Seq(S) /\ Len(u) = k + n /\ k \in Nat /\ n \in Nat
      /\ \A j \in 1 .. k : u[j] = s[j]
      /\ \A j \in 1 .. n : u[k + j] = t[j]
  BY <1>1, Joined
<1> HIDE DEF u, k, n
<1>5. DOMAIN u = 1 .. k + n
  BY <1>4
<1>6. ASSUME NEW j \in 1 .. k + n
      PROVE  u[j] \in Range(s) \cup Range(t)
  <2>1. CASE j \in 1 .. k
    BY <1>2, <1>4, <2>1
  <2>2. CASE j \notin 1 .. k
    <3>1. j - k \in 1 .. n /\ j = k + (j - k)
      BY <1>4, <2>2
    <3>2. u[j] = t[j - k]
      BY <1>4, <3>1
    <3> QED
      BY <1>2, <3>1, <3>2
  <2> QED
    BY <2>1, <2>2
<1>7. ASSUME NEW x \in Range(s) PROVE x \in Range(u)
  <2>1. PICK i \in 1 .. k : x = s[i]
    BY <1>3
  <2>2. i \in 1 .. k + n /\ u[i] = x
    BY <1>4, <2>1
  <2> QED
    BY <1>5, <2>2 DEF Range
<1>8. ASSUME NEW x \in Range(t) PROVE x \in Range(u)
  <2>1. PICK i \in 1 .. n : x = t[i]
    BY <1>3
  <2>2. k + i \in 1 .. k + n /\ u[k + i] = x
    BY <1>4, <2>1
  <2> QED
    BY <1>5, <2>2 DEF Range
<1>9. Range(u) = Range(s) \cup Range(t)
  BY <1>5, <1>6, <1>7, <1>8 DEF Range
<1>10. IsList(u)
  BY <1>4, ListOf
<1> QED
  BY <1>9, <1>10 DEF u

(* The members that ask for a parameter.                                   *)
Asks(s, m, ex, dyn) ==
    m.name \notin ex /\ (dyn => SizeIsDynamic(m) \/ IsLen(s, m))

AskedFor(s, prefix, ex, dyn) ==
    {<< prefix, m.name >> : m \in {x \in Range(s) : Asks(s, x, ex, dyn)}}

LEMMA ProtoFacts ==
    ASSUME NEW s, IsList(s), NEW prefix, NEW ex, NEW dyn
    PROVE  LET p == ProtoParams(s, prefix, ex, dyn) IN
           IsList(p) /\ Range(p) = AskedFor(s, prefix, ex, dyn)
<1> DEFINE n == Len(s)
           S == Range(s)
           T == {i \in 1 .. n : Asks(s, s[i], ex, dyn)}
           f == [i \in 1 .. n |-> IF i \in T THEN << s[i] >> ELSE << >>]
           w == FlattenSeq(f)
           p == [i \in DOMAIN w |-> << prefix, w[i].name >>]
<1>1. s \in Seq(S) /\ n \in Nat /\ DOMAIN s = 1 .. n
  BY DEF IsList
<1>2. ProtoParams(s, prefix, ex, dyn) = p
  <2>1. f = [i \in DOMAIN s |->
               IF /\ s[i].name \notin ex
                  /\ dyn => SizeIsDynamic(s[i]) \/ IsLen(s, s[i])
               THEN << s[i] >> ELSE << >>]
    BY <1>1 DEF Asks
  <2> HIDE DEF f
  <2> QED
    BY <2>1 DEF ProtoParams, Where
<1>3. s \in [1 .. n -> S] /\ T \in SUBSET (1 .. n)
  BY <1>1 DEF Range
<1>4. \A x \in S : \E i \in 1 .. n : x = s[i]
  BY <1>1 DEF Range
<1>5. T = {i \in 1 .. n : Asks(s, s[i], ex, dyn)}
  OBVIOUS
<1> HIDE DEF T, n, S
<1>6. w \in Seq(S) /\ Selected(w, s, T)
  BY <1>1, <1>3, WhereSelects DEF Selected
<1> HIDE DEF w, f
<1>7. PICK at : Selects(w, at, s, T)
  BY <1>6 DEF Selected
<1>8. Range(w) = {s[i] : i \in T}
  BY <1>6, <1>7, SelectsRange
<1>9. Range(w) = {x \in S : Asks(s, x, ex, dyn)}
  BY <1>3, <1>4, <1>5, <1>8
<1>10. Range(p) = {<< prefix, m.name >> : m \in Range(w)}
  BY <1>6 DEF Range
<1>11. p \in Seq(Range(p))
  <2>1. DOMAIN w = 1 .. Len(w) /\ Len(w) \in Nat
    BY <1>6
  <2>2. \A i \in 1 .. Len(w) : p[i] \in Range(p)
    BY <2>1 DEF Range
  <2>3. p = [i \in 1 .. Len(w) |-> p[i]]
    BY <2>1
  <2> HIDE DEF p
  <2> QED
    BY <2>1, <2>2, <2>3
<1> HIDE DEF p
<1> QED
  BY <1>2, <1>9, <1>10, <1>11 DEF IsList, AskedFor, S

(* Nothing is asked for members that are all excluded.                     *)
LEMMA AsksNothing ==
    ASSUME NEW s, IsList(s), NEW prefix, NEW ex, NEW dyn, \A m \in Range(s) : m.name \in ex
    PROVE  ProtoParams(s, prefix, ex, dyn) = << >>
<1> DEFINE p == ProtoParams(s, prefix, ex, dyn)
<1>1. IsList(p) /\ Range(p) = AskedFor(s, prefix, ex, dyn)
  BY ProtoFacts
<1>2. {x \in Range(s) : Asks(s, x, ex, dyn)} = {}
  BY DEF Asks
<1> HIDE DEF p
<1>3. p \in Seq({})
  BY <1>1, <1>2 DEF IsList, AskedFor
<1> QED
  BY <1>3 DEF p

(* The two selections of members are the same.                             *)
LEMMA CallsAsAsked ==
    ASSUME NEW s, NEW prefix, NEW dyn \in BOOLEAN
    PROVE  CallParams(s, prefix, dyn) = ProtoParams(s, prefix, {}, dyn)
<1> DEFINE f == [i \in DOMAIN s |-> IF ~dyn \/ SizeIsDynamic(s[i]) \/ IsLen(s, s[i])
                                    THEN << s[i] >> ELSE << >>]
           g == [i \in DOMAIN s |-> IF /\ s[i].name \notin {}
                                       /\ dyn => SizeIsDynamic(s[i]) \/ IsLen(s, s[i])
                                    THEN << s[i] >> ELSE << >>]
           Params(w) == [i \in DOMAIN w |-> << prefix, w[i].name >>]
<1>1. f = g
  OBVIOUS
<1>2. CallParams(s, prefix, dyn) = Params(FlattenSeq(f))
  BY DEF CallParams, Where
<1>3. ProtoParams(s, prefix, {}, dyn) = Params(FlattenSeq(g))
  BY DEF ProtoParams, Where
<1> HIDE DEF f, g, Params
<1> QED
  BY <1>1, <1>2, <1>3

(* The header of a packet, of whatever features.                           *)
LEMMA PktHeaderFacts ==
    ASSUME NEW tt
    PROVE  LET s == PktHeaderFt(tt)
               f == TraceFeatures(tt)
               magic == UInt("magic", GetFt(f.magic, 32), NoClock)
               uuid == [UInt("uuid", GetFt(f.uuid, 8), NoClock) EXCEPT !.dims = << 16 >>]
               id == UInt("stream_id", GetFt(f.dst_id, 64), NoClock)
           IN /\ IsList(s) /\ Distinct(s)
              /\ \A m \in Range(s) :
                     /\ m.name \in {"magic", "stream_id", "uuid"}
                     /\ ~IsDynamicArray(m)
              /\ Range(s) = {m \in {magic, uuid, id} : m.size # Off}
<1> DEFINE f == TraceFeatures(tt)
           magic == UInt("magic", GetFt(f.magic, 32), NoClock)
           bytes == UInt("uuid", GetFt(f.uuid, 8), NoClock)
           uuid == [bytes EXCEPT !.dims = << 16 >>]
           id == UInt("stream_id", GetFt(f.dst_id, 64), NoClock)
           l == << magic, uuid, id >>
           s == FeatureMembers(l)
           T == {i \in 1 .. 3 : l[i].size # Off}
           A == {magic, uuid, id}
<1>1. PktHeaderFt(tt) = s
  BY DEF PktHeaderFt
<1>2. /\ magic.name = "magic" /\ magic.dims = << >>
      /\ id.name = "stream_id" /\ id.dims = << >>
  BY UIntFacts
<1>3. uuid.name = "uuid" /\ uuid.dims = << 16 >>
  BY DEF UInt, Member
<1>4. ~IsDynamicArray(magic) /\ ~IsDynamicArray(id) /\ ~IsDynamicArray(uuid)
  BY <1>2, <1>3 DEF IsDynamicArray, Dynamic
<1> HIDE DEF magic, bytes, uuid, id, f
<1>5. l \in [1 .. 3 -> A] /\ l[1] = magic /\ l[2] = uuid /\ l[3] = id
      /\ \A i \in 1 .. 3 : i \in {1, 2, 3}
  OBVIOUS
<1>6. T = {i \in 1 .. 3 : l[i].size # Off} /\ T \in SUBSET Int
  OBVIOUS
<1>7. {l[i] : i \in T} = {m \in A : m.size # Off}
  BY <1>5
<1>8. A = {magic, uuid, id}
  OBVIOUS
<1> HIDE DEF l, T, A
<1>9. s \in Seq(A) /\ Selected(s, l, T)
  BY <1>5, <1>6, FeaturesOn
<1> HIDE DEF s
<1>10. PICK at : Selects(s, at, l, T)
  BY <1>9 DEF Selected
<1>11. DOMAIN s = 1 .. Len(s) /\ Len(s) \in Nat /\ \A p \in 1 .. Len(s) : s[p] \in A
  BY <1>9
<1>12. \A m \in Range(s) : m.name \in {"magic", "stream_id", "uuid"} /\ ~IsDynamicArray(m)
  BY <1>2, <1>3, <1>4, <1>8, <1>11 DEF Range
<1>13. Range(s) = {m \in A : m.size # Off}
  BY <1>7, <1>9, <1>10, SelectsRange
<1>14. ASSUME NEW i \in 1 .. Len(s), NEW j \in 1 .. Len(s), s[i].name = s[j].name
       PROVE  i = j
  <2>1. at[i] \in T /\ s[i] = l[at[i]] /\ at[j] \in T /\ s[j] = l[at[j]]
    BY <1>10 DEF Selects
  <2>2. \A x \in T : x \in {1, 2, 3}
    BY <1>5, <1>6
  <2>3. at[i] = at[j]
    BY <1>2, <1>3, <1>5, <1>14, <2>1, <2>2
  <2>4. \A x, y \in 1 .. Len(s) : at[x] = at[y] => x = y
    BY <1>6, <1>10, <1>11, SelectsOnce
  <2> QED
    BY <2>3, <2>4
<1>15. Distinct(s)
  BY <1>14 DEF Distinct
<1>16. IsList(s)
  BY <1>9, ListOf
<1> QED
  BY <1>1, <1>12, <1>13, <1>15, <1>16, <1>8 DEF f, magic, bytes, uuid, id

-----------------------------------------------------------------------------
(* Identifiers: they differ and there are as many as names.                *)

LEMMA IdsFacts ==
    ASSUME NEW names \in SUBSET Int, IsFiniteSet(names), NEW n \in names
    PROVE  /\ Ids(names)[n] \in Nat /\ Ids(names)[n] < Cardinality(names)
           /\ Cardinality(names) \in Nat
           /\ \A m \in names : Ids(names)[m] = Ids(names)[n] => m = n
<1> DEFINE Below(x) == {y \in names : y < x}
           id(x) == Cardinality(Below(x))
<1>1. \A x \in names : Ids(names)[x] = id(x)
  BY DEF Ids
<1>2. ASSUME NEW x \in names
      PROVE  IsFiniteSet(Below(x)) /\ id(x) \in Nat
  <2>1. Below(x) \in SUBSET names
    OBVIOUS
  <2> HIDE DEF Below
  <2> QED
    BY <2>1, FS_Subset, FS_CardinalityType
<1>3. ASSUME NEW x \in names, NEW T, IsFiniteSet(T), Below(x) \subseteq T, x \in T
      PROVE  id(x) < Cardinality(T)
  <2>1. x \notin Below(x)
    OBVIOUS
  <2> DEFINE B == Below(x)
             C == B \cup {x}
  <2>2. C \in SUBSET T
    BY <1>3
  <2> HIDE DEF B
  <2>3. IsFiniteSet(B) /\ Cardinality(B) \in Nat
    BY <1>2 DEF B
  <2>4. Cardinality(C) = Cardinality(B) + 1
    BY <2>1, <2>3, FS_AddElement DEF B
  <2> HIDE DEF C
  <2>5. Cardinality(C) <= Cardinality(T) /\ Cardinality(T) \in Nat
    BY <1>3, <2>2, FS_Subset, FS_CardinalityType
  <2> QED
    BY <2>3, <2>4, <2>5 DEF B
<1>4. ASSUME NEW x \in names, NEW y \in names, x < y
      PROVE  id(x) < id(y)
  <2>1. Below(x) \subseteq Below(y) /\ x \in Below(y)
    <3>1. x \in Int /\ y \in Int /\ \A z \in names : z \in Int
      OBVIOUS
    <3>2. \A z \in names : z < x => z < y
      BY <1>4, <3>1
    <3> QED
      BY <1>4, <3>2
  <2>2. IsFiniteSet(Below(y))
    BY <1>2
  <2> HIDE DEF Below
  <2> QED
    BY <1>3, <2>1, <2>2
<1>5. id(n) < Cardinality(names)
  <2>1. Below(n) \subseteq names
    OBVIOUS
  <2> HIDE DEF Below
  <2> QED
    BY <1>3, <2>1
<1>6. ASSUME NEW m \in names, id(m) = id(n) PROVE m = n
  <2>1. id(m) \in Nat /\ id(n) \in Nat
    BY <1>2
  <2>2. ~(m < n) /\ ~(n < m)
    <3> HIDE DEF id
    <3> QED
      BY <1>4, <1>6, <2>1
  <2> QED
    BY <2>2
<1> HIDE DEF id
<1> QED
  BY <1>1, <1>2, <1>5, <1>6, FS_CardinalityType

(* A reader finds an identifier that fits its member, or none.             *)
LEMMA IdIsRead ==
    ASSUME NEW s, IsList(s), NEW name, NEW ft \in Nat \cup {Default},
           \A m \in Range(s) : m.name = name => m.size = GetFt(ft, 64),
           HasMember(s, name) <=> GetFt(ft, 64) # Off,
           NEW count \in Nat, ~IdTooSmall(ft, count), NEW id \in Nat, id < count
    PROVE  /\ HasMember(s, name) <=> ft # Off
           /\ IdRead(s, name, id) = IF ft = Off THEN NoId ELSE id
<1> DEFINE I == {i \in 1 .. Len(s) : s[i].name = name}
           f == SelectInSeq(s, LAMBDA m : m.name = name)
<1>1. DOMAIN s = 1 .. Len(s) /\ Len(s) \in Nat
  BY DEF IsList
<1>2. HasMember(s, name) <=> I # {}
  BY <1>1 DEF HasMember, Range
<1>3. f = IF I # {} THEN Min(I) ELSE 0
  BY DEF SelectInSeq
<1>4. HasMember(s, name) <=> ft # Off
  BY DEF GetFt, Off, Default
<1>5. CASE ft = Off
  <2>1. f = 0
    BY <1>2, <1>3, <1>4, <1>5
  <2> QED
    BY <1>4, <1>5, <2>1 DEF IdRead
<1>6. CASE ft # Off
  <2>1. I # {} /\ I \in SUBSET (1 .. Len(s))
    BY <1>2, <1>4, <1>6
  <2>2. Min(I) \in I
    BY <1>1, <2>1, LeastOfInterval
  <2>3. f \in 1 .. Len(s) /\ s[f].name = name
    BY <1>3, <2>1, <2>2
  <2>4. s[f].size = GetFt(ft, 64)
    BY <1>1, <2>3 DEF Range
  <2>5. f # 0
    BY <2>3
  <2> DEFINE size == s[f].size
             r == IdRead(s, name, id)
  <2>6. r = IF size >= 31 THEN id ELSE id % 2^size
    BY <2>5 DEF IdRead
  <2> HIDE DEF f, r
  <2>7. CASE ft = Default
    <3>1. size = 64
      BY <2>4, <2>7 DEF GetFt
    <3>2. r = id
      BY <2>6, <3>1
    <3> QED
      BY <1>4, <1>6, <3>2 DEF r
  <2>8. CASE ft # Default
    <3>1. size = ft /\ ft \in Nat
      BY <2>4, <2>8 DEF GetFt
    <3>2. ~(count > 2^ft)
      BY <1>6, <2>8 DEF IdTooSmall
    <3>3. id % 2^ft = id
      BY <3>1, <3>2
    <3>4. r = id
      BY <2>6, <3>1, <3>3
    <3> QED
      BY <1>4, <1>6, <3>4 DEF r
  <2> QED
    BY <2>7, <2>8
<1> QED
  BY <1>5, <1>6

(* The members of identifiers, in either header.                           *)
LEMMA ErIdMember ==
    ASSUME NEW dst
    PROVE  LET s == ErHeaderFt(dst)
               size == GetFt(DstFeatures(dst).id, 64)
           IN /\ \A m \in Range(s) : m.name = "id" => m.size = size
              /\ HasMember(s, "id") <=> size # Off
              /\ IsList(s)
<1> DEFINE f == DstFeatures(dst)
           size == GetFt(f.id, 64)
           id == UInt("id", size, NoClock)
           ts == UInt("timestamp", GetFt(f.timestamp, 64), dst.clk)
           s == ErHeaderFt(dst)
<1>1. Range(s) = {m \in {id, ts} : m.size # Off} /\ s \in Seq({id, ts})
  BY ErHeaderFacts
<1>2. id.name = "id" /\ id.size = size /\ ts.name = "timestamp"
  BY UIntFacts
<1> HIDE DEF id, ts, s, size
<1>3. \A m \in Range(s) : m.name = "id" => m.size = size
  BY <1>1, <1>2
<1>4. HasMember(s, "id") <=> size # Off
  BY <1>1, <1>2 DEF HasMember
<1>5. IsList(s)
  BY <1>1, ListOf
<1> QED
  BY <1>3, <1>4, <1>5 DEF s, size, f

LEMMA DstIdMember ==
    ASSUME NEW tt
    PROVE  LET s == PktHeaderFt(tt)
               size == GetFt(TraceFeatures(tt).dst_id, 64)
           IN /\ \A m \in Range(s) : m.name = "stream_id" => m.size = size
              /\ HasMember(s, "stream_id") <=> size # Off
              /\ IsList(s)
<1> DEFINE f == TraceFeatures(tt)
           size == GetFt(f.dst_id, 64)
           id == UInt("stream_id", size, NoClock)
           magic == UInt("magic", GetFt(f.magic, 32), NoClock)
           bytes == UInt("uuid", GetFt(f.uuid, 8), NoClock)
           uuid == [bytes EXCEPT !.dims = << 16 >>]
           s == PktHeaderFt(tt)
<1>1. Range(s) = {m \in {magic, uuid, id} : m.size # Off} /\ IsList(s)
  BY PktHeaderFacts
<1>2. id.name = "stream_id" /\ id.size = size /\ magic.name = "magic"
  BY UIntFacts
<1>3. uuid.name = "uuid"
  BY DEF UInt, Member
<1> HIDE DEF id, uuid, magic, s, size
<1>4. \A m \in Range(s) : m.name = "stream_id" => m.size = size
  BY <1>1, <1>2, <1>3
<1>5. HasMember(s, "stream_id") <=> size # Off
  BY <1>1, <1>2, <1>3 DEF HasMember
<1> QED
  BY <1>1, <1>4, <1>5 DEF s, size, f

(* The value of the features of identifiers, once normalized.              *)
LEMMA IdFeatures ==
    ASSUME NEW features, \A f \in DOMAIN features : features[f] # Null
    PROVE  /\ \A dst : dst.features = features /\ features \in [DstFeatureNames -> FeatureValues]
                  => DstFeatures(dst).id \in Nat \cup {Default}
           /\ \A tt : tt.features = features /\ features \in [TraceFeatureNames -> FeatureValues]
                  => TraceFeatures(tt).dst_id \in Nat \cup {Default}
<1>1. ASSUME NEW dst, dst.features = features, features \in [DstFeatureNames -> FeatureValues]
      PROVE  DstFeatures(dst).id \in Nat \cup {Default}
  <2>1. DstFeatures(dst).id = FeatureFt(features.id, Default)
    BY <1>1 DEF DstFeatures
  <2>2. features.id \in FeatureValues /\ features.id # Null
    BY <1>1 DEF DstFeatureNames
  <2> QED
    BY <2>1, <2>2 DEF FeatureFt, FeatureValues
<1>2. ASSUME NEW tt, tt.features = features, features \in [TraceFeatureNames -> FeatureValues]
      PROVE  TraceFeatures(tt).dst_id \in Nat \cup {Default}
  <2>1. TraceFeatures(tt).dst_id = FeatureFt(features.dst_id, Default)
    BY <1>2 DEF TraceFeatures
  <2>2. features.dst_id \in FeatureValues /\ features.dst_id # Null
    BY <1>2 DEF TraceFeatureNames
  <2> QED
    BY <2>1, <2>2 DEF FeatureFt, FeatureValues
<1> QED
  BY <1>1, <1>2

(* The clocks of members: that of the data stream type, or none.           *)
LEMMA CreatedClocks ==
    ASSUME NEW nodes, IsStructNode(nodes)
    PROVE  \A m \in Range(CreateStructFtMembers(nodes)) : m.clk = NoClock
<1> DEFINE s == CreateStructFtMembers(nodes)
<1>1. s \in Seq(Brought(nodes))
  BY CreatedDistinct DEF IsStructNode, AreNamed
<1>2. \A m \in Brought(nodes) : m.clk = NoClock
  <2>1. \A name : LenMember(name).clk = NoClock
    BY DEF LenMember, Member
  <2>2. \A n \in Range(nodes) : CreateFt(n).clk = NoClock
    BY DEF CreateFt, Member
  <2> QED
    BY <2>1, <2>2 DEF Brought
<1> HIDE DEF s
<1>3. \A m \in Range(s) : m \in Brought(nodes)
  BY <1>1 DEF Range
<1> QED
  BY <1>2, <1>3 DEF s

LEMMA HeaderClocks ==
    ASSUME NEW dst, IsStructNode(dst.extra)
    PROVE  /\ \A m \in Range(ErHeaderFt(dst)) : m.clk \in {dst.clk, NoClock}
           /\ \A m \in Range(PktCtxFt(dst)) : m.clk \in {dst.clk, NoClock}
           /\ IsList(ErHeaderFt(dst)) /\ IsList(PktCtxFt(dst))
<1>1. \A m \in Range(ErHeaderFt(dst)) : m.clk \in {dst.clk, NoClock}
  <2> DEFINE id == UInt("id", GetFt(DstFeatures(dst).id, 64), NoClock)
             ts == UInt("timestamp", GetFt(DstFeatures(dst).timestamp, 64), dst.clk)
  <2>1. Range(ErHeaderFt(dst)) = {m \in {id, ts} : m.size # Off}
    BY ErHeaderFacts
  <2>2. id.clk = NoClock /\ ts.clk = dst.clk
    BY UIntFacts
  <2> HIDE DEF id, ts
  <2> QED
    BY <2>1, <2>2
<1>2. IsList(ErHeaderFt(dst))
  BY ErIdMember
<1> DEFINE f == DstFeatures(dst)
           c == CtxFeatures(f, dst.clk)
           on == FeatureMembers(c)
           x == CreateStructFtMembers(dst.extra)
           s == PktCtxFt(dst)
<1>3. /\ s = on \o x /\ on \in Seq(Range(c))
      /\ Range(on) = {c[i] : i \in {j \in 1 .. 6 : c[j].size # Off}}
  BY PktCtxParts
<1>4. \A i \in 1 .. 6 : c[i].clk \in {dst.clk, NoClock}
  <2>1. \A i \in 1 .. 6 : i \in {1, 2, 3, 4, 5, 6}
    OBVIOUS
  <2>2. \A i \in {1, 2, 3, 4, 5, 6} :
            \E name, size : \E clk \in {dst.clk, NoClock} : c[i] = UInt(name, size, clk)
    <3> HIDE DEF f
    <3> QED
      BY DEF CtxFeatures
  <2> HIDE DEF c
  <2> QED
    BY <2>1, <2>2, UIntFacts
<1>5. \A m \in Range(x) : m.clk = NoClock
  BY CreatedClocks
<1>6. IsList(x)
  BY CreatedDistinct, ListOf DEF IsStructNode, AreNamed
<1> HIDE DEF on, x, s, c, f
<1>7. IsList(s) /\ Range(s) = Range(on) \cup Range(x)
  BY <1>3, <1>6, ListOf, ListJoined
<1>8. \A m \in Range(s) : m.clk \in {dst.clk, NoClock}
  BY <1>3, <1>4, <1>5, <1>7
<1> QED
  BY <1>1, <1>2, <1>7, <1>8 DEF s

(* A timestamp is mapped to the clock of the data stream type.             *)
LEMMA TimestampClocks ==
    ASSUME NEW clocks, NEW dst, IsStructNode(dst.extra), ~Refused(clocks, dst)
    PROVE  /\ \A m \in Range(ErHeaderFt(dst)) : m.name = "timestamp" => m.clk = dst.clk
           /\ \A m \in Range(PktCtxFt(dst)) :
                  m.name \in {"timestamp_begin", "timestamp_end"} => m.clk = dst.clk
<1>1. \A m \in Range(ErHeaderFt(dst)) : m.name = "timestamp" => m.clk = dst.clk
  <2> DEFINE id == UInt("id", GetFt(DstFeatures(dst).id, 64), NoClock)
             ts == UInt("timestamp", GetFt(DstFeatures(dst).timestamp, 64), dst.clk)
  <2>1. Range(ErHeaderFt(dst)) = {m \in {id, ts} : m.size # Off}
    BY ErHeaderFacts
  <2>2. id.name = "id" /\ ts.clk = dst.clk
    BY UIntFacts
  <2> HIDE DEF id, ts
  <2> QED
    BY <2>1, <2>2
<1> DEFINE f == DstFeatures(dst)
           c == CtxFeatures(f, dst.clk)
           on == FeatureMembers(c)
           x == CreateStructFtMembers(dst.extra)
           s == PktCtxFt(dst)
<1>2. /\ s = on \o x /\ on \in Seq(Range(c))
      /\ Range(on) = {c[i] : i \in {j \in 1 .. 6 : c[j].size # Off}}
  BY PktCtxParts
<1>3. \A i \in 1 .. 6 :
          c[i].name \in {"timestamp_begin", "timestamp_end"} => c[i].clk = dst.clk
  <2> DEFINE a == UInt("packet_size", GetFt(f.total, 64), NoClock)
             b == UInt("content_size", GetFt(f.content, 64), NoClock)
             g == UInt("timestamp_begin", GetFt(f.beginning, 64), dst.clk)
             h == UInt("timestamp_end", GetFt(f.end, 64), dst.clk)
             o == UInt("events_discarded", GetFt(f.discarded, 64), NoClock)
             p == UInt("packet_seq_num", GetFt(f.seq_num, 64), NoClock)
  <2>1. \A i \in 1 .. 6 : i \in {1, 2, 3, 4, 5, 6}
    OBVIOUS
  <2>2. /\ a.name = "packet_size" /\ b.name = "content_size" /\ g.clk = dst.clk
        /\ h.clk = dst.clk /\ o.name = "events_discarded" /\ p.name = "packet_seq_num"
    BY UIntFacts
  <2>3. c = << a, b, g, h, o, p >>
    BY DEF CtxFeatures
  <2> HIDE DEF a, b, g, h, o, p, c
  <2> QED
    BY <2>1, <2>2, <2>3
<1>4. \A m \in Range(x) : m.name \notin ReservedMemberNames
  BY DEF Refused
<1>5. IsList(x)
  BY CreatedDistinct, ListOf DEF IsStructNode, AreNamed
<1> HIDE DEF on, x, s, c, f
<1>6. Range(s) = Range(on) \cup Range(x)
  BY <1>2, <1>5, ListOf, ListJoined
<1>7. \A m \in Range(s) : m.name \in {"timestamp_begin", "timestamp_end"} => m.clk = dst.clk
  BY <1>2, <1>3, <1>4, <1>6 DEF ReservedMemberNames
<1> QED
  BY <1>1, <1>7 DEF s

(* One clock, wherever it is named, becomes that of the data stream type.  *)
LEMMA ClockNamed ==
    ASSUME NEW d, IsDst2(d), NEW c, {m.clk : m \in Timestamps(d)} = {c}
    PROVE  DefaultClock(d) = c /\ c # NoClock /\ c # Null
<1> DEFINE er == ClkTypeName(d.er_header, "timestamp")
           begin == ClkTypeName(d.pkt_ctx, "timestamp_begin")
           end == ClkTypeName(d.pkt_ctx, "timestamp_end")
           T == Timestamps(d)
<1>1. /\ d.er_header \in Seq(Range(d.er_header)) /\ d.pkt_ctx \in Seq(Range(d.pkt_ctx))
      /\ \A f \in Range(d.er_header) \cup Range(d.pkt_ctx) : f.clk # Null
  BY DEF IsDst2, IsStruct2, AreNamed, IsField
<1>2. /\ \A f \in Range(d.er_header) : f.name = "timestamp" => f.clk # NoClock
      /\ \A f \in Range(d.pkt_ctx) :
             f.name \in {"timestamp_begin", "timestamp_end"} => f.clk # NoClock
  BY DEF IsDst2, AreMapped
<1>3. \A m : m \in T <=>
          \/ m \in Range(d.pkt_ctx) /\ m.name \in {"timestamp_begin", "timestamp_end"}
          \/ m \in Range(d.er_header) /\ m.name = "timestamp"
  BY DEF Timestamps
<1>4. \A m \in T : m.clk = c
  OBVIOUS
<1>5. \E m \in T : m.clk = c
  OBVIOUS
<1>6. /\ Found(d.er_header, "timestamp", ConvFtIfExists(d.er_header, "timestamp"), er)
      /\ Found(d.pkt_ctx, "timestamp_begin", ConvFtIfExists(d.pkt_ctx, "timestamp_begin"), begin)
      /\ Found(d.pkt_ctx, "timestamp_end", ConvFtIfExists(d.pkt_ctx, "timestamp_end"), end)
  BY <1>1, FieldFound
<1> HIDE DEF er, begin, end, T
<1>7. \/ er = NoClock /\ \A f \in Range(d.er_header) : f.name # "timestamp"
      \/ er = c
  BY <1>3, <1>4, <1>6 DEF Found
<1>8. \/ begin = NoClock /\ \A f \in Range(d.pkt_ctx) : f.name # "timestamp_begin"
      \/ begin = c
  BY <1>3, <1>4, <1>6 DEF Found
<1>9. \/ end = NoClock /\ \A f \in Range(d.pkt_ctx) : f.name # "timestamp_end"
      \/ end = c
  BY <1>3, <1>4, <1>6 DEF Found
<1>10. c # NoClock /\ c # Null
  BY <1>1, <1>2, <1>3, <1>5
<1>11. er = c \/ begin = c \/ end = c
  BY <1>3, <1>5, <1>7, <1>8, <1>9
<1>12. DefaultClock(d) = IF er # NoClock THEN er
                         ELSE IF begin # NoClock THEN begin ELSE end
  BY DEF DefaultClock, er, begin, end
<1> QED
  BY <1>7, <1>8, <1>9, <1>10, <1>11, <1>12

LEMMA NamedClocks ==
    ASSUME NEW d, IsDst2(d), NEW S, S = {m.clk : m \in Timestamps(d)}, Cardinality(S) = 1
    PROVE  \E c : S = {c}
<1> DEFINE p == d.pkt_ctx
           h == d.er_header
           n == Len(p)
           k == Len(h)
           at(i) == IF i <= n THEN p[i].clk ELSE h[i - n].clk
           A == {at(i) : i \in 1 .. (n + k)}
<1>1. /\ n \in Nat /\ DOMAIN p = 1 .. n
      /\ k \in Nat /\ DOMAIN h = 1 .. k
  BY DEF IsDst2, IsStruct2, AreNamed
<1> HIDE DEF n, k
<1>2. \A m \in Timestamps(d) :
          (\E i \in 1 .. n : m = p[i]) \/ (\E i \in 1 .. k : m = h[i])
  BY <1>1 DEF Timestamps, Range
<1>3. \A i \in 1 .. n : p[i].clk \in A
  <2> TAKE i \in 1 .. n
  <2>1. i \in 1 .. (n + k) /\ at(i) = p[i].clk
    BY <1>1
  <2> QED
    BY <2>1
<1>4. \A i \in 1 .. k : h[i].clk \in A
  <2> TAKE i \in 1 .. k
  <2>1. i + n \in 1 .. (n + k) /\ ~(i + n <= n) /\ (i + n) - n = i
    BY <1>1
  <2>2. at(i + n) = h[i].clk
    BY <2>1
  <2> QED
    BY <2>1, <2>2
<1>5. S \in SUBSET A
  BY <1>2, <1>3, <1>4
<1>6. IsFiniteSet(A)
  <2>1. IsFiniteSet(1 .. (n + k))
    BY <1>1, FS_Interval
  <2> DEFINE g == [i \in 1 .. (n + k) |-> at(i)]
  <2>2. g \in Surjection(1 .. (n + k), A)
    BY DEF Surjection
  <2> HIDE DEF g, A
  <2> QED
    BY <2>1, <2>2, FS_Surjection
<1>7. IsFiniteSet(S)
  BY <1>5, <1>6, FS_Subset
<1> QED
  BY <1>7, FS_Singleton

-----------------------------------------------------------------------------
(* What a reader sees of the members, before and after a conversion.       *)

Field2(f) == << f.name, Bits2(f), f.signed, f.dims >>

Field3(m) == << m.name, m.size, Signed(m.class), m.dims >>

Length2(name) == << "__" \o name \o "_len", 32, FALSE, << >> >>

LEMMA LayoutFacts ==
    /\ \A fields : Layout2(fields) =
           {Field2(f) : f \in Range(fields)}
               \cup {Length2(f.name) : f \in {g \in Range(fields) : IsDynamicArray(g)}}
    /\ \A members : Layout3(members) = {Field3(m) : m \in Range(members)}
BY DEF Layout2, Layout3, Field2, Field3, Length2, IsDynamicArray

(* The class of a field, converted and normalized.                         *)
LEMMA ClassKept ==
    ASSUME NEW f, IsField(f)
    PROVE  Signed(Normalized(ConvClass(f))) = f.signed
<1> DEFINE c == ConvClass(f)
<1>1. /\ f.class \in {"int", "enum", "real", "string", "structure"} /\ f.signed \in BOOLEAN
      /\ f.signed => f.class \in {"int", "enum"}
  BY DEF IsField
<1>2. /\ f.class = "int" => c = IF f.signed THEN "sint" ELSE "uint"
      /\ f.class = "enum" => c = IF f.signed THEN "senum" ELSE "uenum"
      /\ f.class \in {"real", "string", "structure"} => c = f.class
  BY DEF ConvClass
<1> HIDE DEF c
<1>3. /\ Normalized("sint") = "signed-integer" /\ Normalized("uint") = "unsigned-integer"
      /\ Normalized("senum") = "signed-enumeration"
      /\ Normalized("uenum") = "unsigned-enumeration"
      /\ Normalized("real") = "real" /\ Normalized("string") = "string"
      /\ Normalized("structure") = "structure"
  <2> DEFINE a == ClassAliases
  <2>1. /\ DOMAIN a = {"uint", "unsigned-int", "sint", "signed-int", "uenum",
                       "unsigned-enum", "senum", "signed-enum", "str", "struct"}
        /\ a["sint"] = "signed-integer" /\ a["uint"] = "unsigned-integer"
        /\ a["senum"] = "signed-enumeration" /\ a["uenum"] = "unsigned-enumeration"
    BY DEF ClassAliases
  <2> HIDE DEF a
  <2>2. \A c1 : Normalized(c1) = IF c1 \in DOMAIN a THEN a[c1] ELSE c1
    BY DEF Normalized, a
  <2> QED
    BY <2>1, <2>2
<1> QED
  BY <1>1, <1>2, <1>3 DEF Signed, c

(* What becomes of a field.                                                *)
Becomes(n, f) ==
    /\ n.name = f.name /\ n.dims = f.dims /\ n.size = Bits2(f)
    /\ Signed(n.class) = f.signed

LEMMA FieldKept ==
    ASSUME NEW f, NEW n, Becomes(n, f)
    PROVE  /\ Field3(CreateFt(n)) = Field2(f)
           /\ Field3(LenMember(n.name)) = Length2(f.name)
           /\ IsDynamicArray(n) <=> IsDynamicArray(f)
<1> DEFINE m == CreateFt(n)
           l == LenMember(n.name)
<1>1. m.name = n.name /\ m.class = n.class /\ m.size = n.size /\ m.dims = n.dims
  BY CreateFtFacts
<1>2. l.class = "unsigned-integer" /\ l.size = 32 /\ l.dims = << >>
  BY LenMemberFacts
<1>3. l.name = "__" \o n.name \o "_len"
  BY DEF LenMember, Member
<1> HIDE DEF m, l
<1>4. Field3(m) = Field2(f)
  BY <1>1 DEF Field3, Field2, Becomes
<1>5. Field3(l) = Length2(f.name)
  <2>1. Signed(l.class) = FALSE
    BY <1>2 DEF Signed
  <2>2. l.name = "__" \o f.name \o "_len"
    BY <1>3 DEF Becomes
  <2> QED
    BY <1>2, <2>1, <2>2 DEF Field3, Length2
<1>6. IsDynamicArray(n) <=> IsDynamicArray(f)
  BY DEF IsDynamicArray, Becomes
<1> QED
  BY <1>4, <1>5, <1>6 DEF m, l

LEMMA FieldsBecome ==
    ASSUME NEW fields, IsStruct2(fields), NEW t, t = NormalizeMembers(ConvStructFt(fields))
    PROVE  /\ IsStructNode(t) /\ DOMAIN t = DOMAIN fields
           /\ \A i \in DOMAIN fields : Becomes(t[i], fields[i])
           /\ \A i, j \in DOMAIN t : t[i].name = t[j].name => i = j
<1> DEFINE c == ConvStructFt(fields)
<1>1. IsStructNode(c) /\ \A i, j \in DOMAIN c : c[i].name = c[j].name => i = j
  BY ConvStructFacts
<1>2. DOMAIN c = DOMAIN fields /\ \A i \in DOMAIN fields : c[i] = ConvFt(fields[i])
  BY DEF ConvStructFt
<1>3. \A f \in Range(fields) : IsField(f)
  BY DEF IsStruct2
<1> HIDE DEF c
<1>4. /\ IsStructNode(t) /\ DOMAIN t = DOMAIN c
      /\ \A i \in DOMAIN c :
             /\ t[i].name = c[i].name /\ t[i].dims = c[i].dims /\ t[i].size = c[i].size
             /\ t[i].class = Normalized(c[i].class)
  BY <1>1, NormalMembers DEF c
<1>5. ASSUME NEW i \in DOMAIN fields PROVE Becomes(t[i], fields[i])
  <2> DEFINE f == fields[i]
             n == ConvFt(f)
  <2>1. IsField(f) /\ c[i] = n
    BY <1>2, <1>3, <1>5 DEF Range
  <2> HIDE DEF f, n
  <2>2. /\ n.name = f.name /\ n.dims = f.dims /\ n.class = ConvClass(f)
        /\ n.size = IF f.class = "real" THEN f.size.exp + f.size.mant ELSE f.size
    BY <2>1, ConvFtFacts DEF n
  <2>3. Signed(Normalized(n.class)) = f.signed
    BY <2>1, <2>2, ClassKept
  <2>4. n.size = Bits2(f)
    BY <2>1, <2>2 DEF Bits2, IsField
  <2>5. /\ t[i].name = n.name /\ t[i].dims = n.dims /\ t[i].size = n.size
        /\ t[i].class = Normalized(n.class)
    BY <1>2, <1>4, <1>5, <2>1
  <2>6. Becomes(t[i], f)
    BY <2>2, <2>3, <2>4, <2>5 DEF Becomes
  <2> QED
    BY <2>6 DEF f
<1> QED
  BY <1>1, <1>2, <1>4, <1>5

(* A structure has the members that were declared, and lengths.            *)
LEMMA StructKept ==
    ASSUME NEW fields, IsStruct2(fields), NEW t, t = NormalizeMembers(ConvStructFt(fields)),
           LengthsAreFree(t)
    PROVE  Layout3(CreateStructFtMembers(t)) = Layout2(fields)
<1>1. /\ IsStructNode(t) /\ DOMAIN t = DOMAIN fields
      /\ \A i \in DOMAIN fields : Becomes(t[i], fields[i])
      /\ \A i, j \in DOMAIN t : t[i].name = t[j].name => i = j
  BY FieldsBecome
<1>2. ~DuplicateMember(t)
  <2>1. DOMAIN t = 1 .. Len(t) /\ Len(t) \in Nat
    BY <1>1 DEF IsStructNode, AreNamed
  <2> QED
    BY <1>1, <2>1 DEF DuplicateMember
<1> DEFINE s == CreateStructFtMembers(t)
<1>3. Range(s) = CreatedOf(t)
  BY <1>1, <1>2, CreatedLaid
<1> HIDE DEF s
<1>4. \A i \in DOMAIN fields :
          /\ Field3(CreateFt(t[i])) = Field2(fields[i])
          /\ Field3(LenMember(t[i].name)) = Length2(fields[i].name)
          /\ IsDynamicArray(t[i]) <=> IsDynamicArray(fields[i])
  BY <1>1, FieldKept
<1>5. Layout3(s) = {Field3(m) : m \in CreatedOf(t)}
  BY <1>3, LayoutFacts
<1>6. ASSUME NEW x \in Layout3(s) PROVE x \in Layout2(fields)
  <2>1. PICK m \in CreatedOf(t) : x = Field3(m)
    BY <1>5
  <2>2. PICK n \in Range(t) : \/ m = CreateFt(n)
                              \/ m = LenMember(n.name) /\ IsDynamicArray(n)
    BY <2>1 DEF CreatedOf
  <2>3. PICK i \in DOMAIN fields : n = t[i]
    BY <1>1, <2>2 DEF Range
  <2>4. fields[i] \in Range(fields)
    BY DEF Range
  <2>5. \/ x = Field2(fields[i])
        \/ x = Length2(fields[i].name) /\ IsDynamicArray(fields[i])
    BY <1>4, <2>1, <2>2, <2>3
  <2> QED
    BY <2>4, <2>5, LayoutFacts
<1>7. ASSUME NEW x \in Layout2(fields) PROVE x \in Layout3(s)
  <2>1. PICK f \in Range(fields) : \/ x = Field2(f)
                                   \/ x = Length2(f.name) /\ IsDynamicArray(f)
    BY LayoutFacts
  <2>2. PICK i \in DOMAIN fields : f = fields[i]
    BY <2>1 DEF Range
  <2>3. t[i] \in Range(t)
    BY <1>1 DEF Range
  <2>4. \/ x = Field3(CreateFt(t[i]))
        \/ x = Field3(LenMember(t[i].name)) /\ IsDynamicArray(t[i])
    BY <1>4, <2>1, <2>2
  <2> DEFINE a == CreateFt(t[i])
             b == LenMember(t[i].name)
  <2>5. a \in CreatedOf(t) /\ (IsDynamicArray(t[i]) => b \in CreatedOf(t))
    BY <2>3 DEF CreatedOf
  <2>6. x = Field3(a) \/ (x = Field3(b) /\ IsDynamicArray(t[i]))
    BY <2>4
  <2> HIDE DEF a, b
  <2> QED
    BY <1>5, <2>5, <2>6
<1> QED
  BY <1>6, <1>7 DEF s


(* Those members that have some name, and those that have another.         *)
LEMMA OnlyRange ==
    ASSUME NEW fields, fields \in Seq(Range(fields)), NEW names
    PROVE  Range(Only(fields, names)) = {f \in Range(fields) : f.name \in names}
<1> DEFINE n == Len(fields)
           T == {i \in 1 .. n : fields[i].name \in names}
           f == [i \in 1 .. n |-> IF i \in T THEN << fields[i] >> ELSE << >>]
           w == FlattenSeq(f)
<1>1. n \in Nat /\ DOMAIN fields = 1 .. n /\ fields \in [1 .. n -> Range(fields)]
  OBVIOUS
<1>2. Only(fields, names) = w
  <2>1. f = [i \in DOMAIN fields |->
                 IF fields[i].name \in names THEN << fields[i] >> ELSE << >>]
    BY <1>1
  <2> HIDE DEF f
  <2> QED
    BY <2>1 DEF Only, Where
<1>3. T \in SUBSET (1 .. n)
  OBVIOUS
<1>4. {fields[i] : i \in T} = {g \in Range(fields) : g.name \in names}
  BY <1>1 DEF Range
<1> HIDE DEF n, T
<1>5. w \in Seq(Range(fields)) /\ \E at : Selects(w, at, fields, T)
  BY <1>1, <1>3, WhereSelects
<1> HIDE DEF w
<1>6. PICK at : Selects(w, at, fields, T)
  BY <1>5
<1>7. Range(w) = {fields[i] : i \in T}
  BY <1>5, <1>6, SelectsRange
<1> QED
  BY <1>2, <1>4, <1>7

Unnumbered(fields) == Where(fields, LAMBDA f : f.name # "packet_seq_num")

LEMMA UnnumberedRange ==
    ASSUME NEW fields, fields \in Seq(Range(fields))
    PROVE  Range(Unnumbered(fields)) = {f \in Range(fields) : f.name # "packet_seq_num"}
<1> DEFINE n == Len(fields)
           T == {i \in 1 .. n : fields[i].name # "packet_seq_num"}
           f == [i \in 1 .. n |-> IF i \in T THEN << fields[i] >> ELSE << >>]
           w == FlattenSeq(f)
<1>1. n \in Nat /\ DOMAIN fields = 1 .. n /\ fields \in [1 .. n -> Range(fields)]
  OBVIOUS
<1>2. Unnumbered(fields) = w
  <2>1. f = [i \in DOMAIN fields |->
                 IF fields[i].name # "packet_seq_num" THEN << fields[i] >> ELSE << >>]
    BY <1>1
  <2> HIDE DEF f
  <2> QED
    BY <2>1 DEF Unnumbered, Where
<1>3. T \in SUBSET (1 .. n)
  OBVIOUS
<1>4. {fields[i] : i \in T} = {g \in Range(fields) : g.name # "packet_seq_num"}
  BY <1>1 DEF Range
<1> HIDE DEF n, T
<1>5. w \in Seq(Range(fields)) /\ \E at : Selects(w, at, fields, T)
  BY <1>1, <1>3, WhereSelects
<1> HIDE DEF w
<1>6. PICK at : Selects(w, at, fields, T)
  BY <1>5
<1>7. Range(w) = {fields[i] : i \in T}
  BY <1>5, <1>6, SelectsRange
<1> QED
  BY <1>2, <1>4, <1>7

(* A member that a feature has when it is on, as its field declares it.    *)
IsFeatureOf(m, fields) ==
    /\ m.size = Feature(fields, m.name) /\ m.class = "unsigned-integer"
    /\ \A f \in Range(fields) : f.name = m.name => IsUIntField(f) /\ f.dims = m.dims

LEMMA FeatureKept ==
    ASSUME NEW fields, IsStruct2(fields), NEW m, IsFeatureOf(m, fields)
    PROVE  /\ m.size # Off =>
                  \E f \in Range(fields) : f.name = m.name /\ Field2(f) = Field3(m)
           /\ \A f \in Range(fields) : f.name = m.name =>
                  m.size # Off /\ Field2(f) = Field3(m)
<1> DEFINE name == m.name
<1>1. m.size = Feature(fields, name) /\ m.class = "unsigned-integer"
      /\ \A f \in Range(fields) : f.name = name => IsUIntField(f) /\ f.dims = m.dims
  BY DEF IsFeatureOf
<1> HIDE DEF name
<1>2. /\ (\A f \in Range(fields) : f.name # name) => Feature(fields, name) = Off
      /\ \A f \in Range(fields) : f.name = name => Feature(fields, name) = f.size /\ f.size # Off
  BY <1>1, FeatureOn
<1>3. Signed(m.class) = FALSE
  BY <1>1 DEF Signed
<1>4. ASSUME NEW f \in Range(fields), f.name = name
      PROVE  m.size # Off /\ Field2(f) = Field3(m)
  <2>1. f.class = "int" /\ f.signed = FALSE /\ f.dims = m.dims
    BY <1>1, <1>4 DEF IsUIntField, IsStruct2, IsField
  <2>2. Bits2(f) = f.size
    BY <2>1 DEF Bits2
  <2>3. m.size = f.size /\ m.size # Off
    BY <1>1, <1>2, <1>4
  <2> QED
    BY <1>3, <1>4, <2>1, <2>2, <2>3 DEF Field2, Field3, name
<1>5. ASSUME m.size # Off PROVE \E f \in Range(fields) : f.name = name
  BY <1>1, <1>2, <1>5
<1> QED
  BY <1>4, <1>5 DEF name

LEMMA FeaturesKept ==
    ASSUME NEW fields, IsStruct2(fields), NEW names, NEW A,
           \A m \in A : m.name \in names /\ IsFeatureOf(m, fields),
           \A x \in names : \E m \in A : m.name = x,
           NEW on, on = {m \in A : m.size # Off},
           NEW some, some = {f \in Range(fields) : f.name \in names}
    PROVE  {Field3(m) : m \in on} = {Field2(f) : f \in some}
<1>1. ASSUME NEW m \in on PROVE \E f \in some : Field2(f) = Field3(m)
  <2>1. m \in A /\ m.size # Off /\ m.name \in names /\ IsFeatureOf(m, fields)
    OBVIOUS
  <2> QED
    BY <2>1, FeatureKept
<1>2. ASSUME NEW f \in some PROVE \E m \in on : Field2(f) = Field3(m)
  <2>1. PICK m \in A : m.name = f.name /\ IsFeatureOf(m, fields)
    OBVIOUS
  <2>2. m.size # Off /\ Field2(f) = Field3(m)
    BY <2>1, FeatureKept
  <2> QED
    BY <2>1, <2>2
<1> QED
  BY <1>1, <1>2

(* Members that are declared without lengths, and the others.              *)
LEMMA LayoutParts ==
    ASSUME NEW fields, NEW some, NEW others, Range(fields) = some \cup Range(others),
           \A f \in some : ~IsDynamicArray(f)
    PROVE  Layout2(fields) = {Field2(f) : f \in some} \cup Layout2(others)
<1>1. {f \in Range(fields) : IsDynamicArray(f)} = {f \in Range(others) : IsDynamicArray(f)}
  OBVIOUS
<1>2. {Field2(f) : f \in Range(fields)} =
          {Field2(f) : f \in some} \cup {Field2(f) : f \in Range(others)}
  OBVIOUS
<1> QED
  BY <1>1, <1>2, LayoutFacts

LEMMA PlainLayout ==
    ASSUME NEW fields, \A f \in Range(fields) : ~IsDynamicArray(f)
    PROVE  Layout2(fields) = {Field2(f) : f \in Range(fields)}
<1>1. {f \in Range(fields) : IsDynamicArray(f)} = {}
  OBVIOUS
<1> QED
  BY <1>1, LayoutFacts

(* A converted feature has the size that is declared.                      *)
LEMMA SizeKept ==
    ASSUME NEW v \in Nat, NEW none, NEW size, NEW x, x = IF v = Null THEN Missing ELSE v
    PROVE  FeatureFt(x, none) = v /\ GetFt(v, size) = v
<1>1. v # Null /\ v # Missing /\ v # Default
  BY DEF Null, Missing, Default
<1> QED
  BY <1>1 DEF FeatureFt, GetFt

(* The features of a converted data stream type are those that it has.     *)
LEMMA ConvFeatures ==
    ASSUME NEW d, IsDst2(d), NEW n, n.features = NormalizeFeatures(V3Features(d)), NEW size
    PROVE  LET f == DstFeatures(n)
               p == d.pkt_ctx
               h == d.er_header
           IN /\ GetFt(f.total, size) = Feature(p, "packet_size")
              /\ GetFt(f.content, size) = Feature(p, "content_size")
              /\ GetFt(f.beginning, size) = Feature(p, "timestamp_begin")
              /\ GetFt(f.end, size) = Feature(p, "timestamp_end")
              /\ GetFt(f.discarded, size) = Feature(p, "events_discarded")
              /\ GetFt(f.seq_num, size) = Off
              /\ GetFt(f.id, size) = Feature(h, "id")
              /\ GetFt(f.timestamp, size) = Feature(h, "timestamp")
<1> DEFINE p == d.pkt_ctx
           h == d.er_header
           v == V3Features(d)
           f == DstFeatures(n)
           ts == IF n.clk = NoClock THEN Off ELSE Default
           Given(x) == IF v[x] = Null THEN Missing ELSE v[x]
<1>1. /\ IsStruct2(p) /\ AreUInts(p, CtfMemberNames)
      /\ {"packet_size", "content_size"} \subseteq {g.name : g \in Range(p)}
      /\ IsStruct2(h) /\ AreUInts(h, {"id", "timestamp"})
  BY DEF IsDst2
<1>2. ASSUME NEW name \in CtfMemberNames
      PROVE  /\ Feature(p, name) \in Nat
             /\ \A g \in Range(p) : g.name = name =>
                    ConvFtIfExists(p, name) = Feature(p, name)
  <2>1. \A g \in Range(p) : g.name = name => IsUIntField(g)
    BY <1>1, AreUIntsFacts
  <2> HIDE DEF p
  <2> QED
    BY <1>1, <2>1, FeatureOn
<1>3. ASSUME NEW name \in {"id", "timestamp"} PROVE Feature(h, name) \in Nat
  <2>1. \A g \in Range(h) : g.name = name => IsUIntField(g)
    BY <1>1, AreUIntsFacts
  <2> HIDE DEF h
  <2> QED
    BY <1>1, <2>1, FeatureOn
<1> DEFINE total == Feature(p, "packet_size")
           content == Feature(p, "content_size")
           beginning == Feature(p, "timestamp_begin")
           end == Feature(p, "timestamp_end")
           discarded == Feature(p, "events_discarded")
           id == Feature(h, "id")
           timestamp == Feature(h, "timestamp")
<1>4. /\ total \in Nat /\ content \in Nat /\ beginning \in Nat /\ end \in Nat
      /\ discarded \in Nat /\ id \in Nat /\ timestamp \in Nat
  BY <1>2, <1>3 DEF CtfMemberNames
<1>5. ConvFtIfExists(p, "packet_size") = total /\ ConvFtIfExists(p, "content_size") = content
  <2>1. PICK g \in Range(p) : g.name = "packet_size"
    BY <1>1
  <2>2. PICK g1 \in Range(p) : g1.name = "content_size"
    BY <1>1
  <2>3. "packet_size" \in CtfMemberNames /\ "content_size" \in CtfMemberNames
    BY DEF CtfMemberNames
  <2> QED
    BY <1>2, <2>1, <2>2, <2>3
<1>6. v = [total |-> ConvFtIfExists(p, "packet_size"),
           content |-> ConvFtIfExists(p, "content_size"), beginning |-> beginning,
           end |-> end, discarded |-> discarded, seq_num |-> Missing, id |-> id,
           timestamp |-> timestamp]
  BY DEF V3Features
<1> HIDE DEF total, content, beginning, end, discarded, id, timestamp, p, h
<1>7. v = [total |-> total, content |-> content, beginning |-> beginning, end |-> end,
           discarded |-> discarded, seq_num |-> Missing, id |-> id, timestamp |-> timestamp]
  BY <1>5, <1>6
<1> HIDE DEF v
<1>8. /\ n.features = NormalizeFeatures(v)
      /\ DOMAIN v = {"total", "content", "beginning", "end", "discarded", "seq_num", "id",
                     "timestamp"}
  BY <1>7 DEF v
<1>9. \A x \in DOMAIN v : n.features[x] = Given(x)
  BY <1>8 DEF NormalizeFeatures
<1> DEFINE none == [total |-> Default, content |-> Default, beginning |-> ts, end |-> ts,
                    discarded |-> Default, seq_num |-> Off, id |-> Default,
                    timestamp |-> ts]
<1>10. f = [x \in DOMAIN none |-> FeatureFt(n.features[x], none[x])]
  BY DEF DstFeatures
<1>11. DOMAIN none = DOMAIN v
  BY <1>8
<1>12. none.seq_num = Off
  OBVIOUS
<1> HIDE DEF none, ts, f
<1>13. \A x \in DOMAIN v : f[x] = FeatureFt(Given(x), none[x])
  BY <1>9, <1>10, <1>11
<1>14. ASSUME NEW x \in DOMAIN v, v[x] \in Nat PROVE GetFt(f[x], size) = v[x]
  <2> DEFINE g == Given(x)
             o == none[x]
             y == v[x]
  <2>1. f[x] = FeatureFt(g, o) /\ y \in Nat /\ g = IF y = Null THEN Missing ELSE y
    BY <1>13, <1>14
  <2> HIDE DEF g, o, y
  <2>2. FeatureFt(g, o) = y /\ GetFt(y, size) = y
    BY <2>1, SizeKept
  <2> QED
    BY <2>1, <2>2 DEF y
<1>15. GetFt(f.seq_num, size) = Off
  <2>1. v["seq_num"] = Missing /\ Missing # Null /\ Off # Default
    BY <1>7 DEF Missing, Null, Off, Default
  <2>2. f["seq_num"] = FeatureFt(Missing, Off)
    BY <1>8, <1>12, <1>13, <2>1
  <2> QED
    BY <2>1, <2>2 DEF FeatureFt, GetFt
<1>16. /\ v.total = total /\ v.content = content /\ v.beginning = beginning /\ v.end = end
       /\ v.discarded = discarded /\ v.id = id /\ v.timestamp = timestamp
  BY <1>7
<1>17. /\ GetFt(f.total, size) = total /\ GetFt(f.content, size) = content
       /\ GetFt(f.beginning, size) = beginning /\ GetFt(f.end, size) = end
       /\ GetFt(f.discarded, size) = discarded
  BY <1>4, <1>8, <1>14, <1>16
<1>18. GetFt(f.id, size) = id /\ GetFt(f.timestamp, size) = timestamp
  BY <1>4, <1>8, <1>14, <1>16
<1> QED
  BY <1>15, <1>17, <1>18
  DEF f, p, h, total, content, beginning, end, discarded, id, timestamp

(* The headers and the context of a packet of a converted data stream type. *)
LEMMA ErHeaderKept ==
    ASSUME NEW d, IsDst2(d), NEW n, n.features = NormalizeFeatures(V3Features(d))
    PROVE  Layout2(Only(d.er_header, {"id", "timestamp"})) = Layout3(ErHeaderFt(n))
<1> DEFINE f == DstFeatures(n)
           id == UInt("id", GetFt(f.id, 64), NoClock)
           ts == UInt("timestamp", GetFt(f.timestamp, 64), n.clk)
           h == d.er_header
           names == {"id", "timestamp"}
           A == {id, ts}
           on == {m \in A : m.size # Off}
           s == ErHeaderFt(n)
           o == Only(h, names)
           some == {g \in Range(h) : g.name \in names}
<1>1. Range(s) = on
  BY ErHeaderFacts
<1>2. IsStruct2(h) /\ AreUInts(h, names) /\ h \in Seq(Range(h))
  BY DEF IsDst2, IsStruct2, AreNamed
<1>3. /\ GetFt(f.id, 64) = Feature(h, "id")
      /\ GetFt(f.timestamp, 64) = Feature(h, "timestamp")
  BY ConvFeatures
<1>4. /\ id.name = "id" /\ id.class = "unsigned-integer" /\ id.dims = << >>
      /\ id.size = GetFt(f.id, 64)
      /\ ts.name = "timestamp" /\ ts.class = "unsigned-integer" /\ ts.dims = << >>
      /\ ts.size = GetFt(f.timestamp, 64)
  BY UIntFacts
<1> HIDE DEF id, ts, f, h, s
<1>5. \A m \in A : m.name \in names /\ IsFeatureOf(m, h)
  BY <1>2, <1>3, <1>4 DEF IsFeatureOf, AreUInts
<1>6. \A x \in names : \E m \in A : m.name = x
  BY <1>4
<1>7. \A g \in Range(h) : g.name \in names => g.dims = << >>
  BY <1>2 DEF AreUInts
<1> HIDE DEF A, names
<1>8. on = {m \in A : m.size # Off} /\ some = {g \in Range(h) : g.name \in names}
  OBVIOUS
<1>9. Range(o) = some
  BY <1>2, OnlyRange
<1> HIDE DEF on, some, o
<1>10. {Field3(m) : m \in on} = {Field2(g) : g \in some}
  BY <1>2, <1>5, <1>6, <1>8, FeaturesKept
<1>11. \A g \in Range(o) : ~IsDynamicArray(g)
  BY <1>7, <1>8, <1>9 DEF IsDynamicArray
<1>12. Layout2(o) = {Field2(g) : g \in Range(o)}
  BY <1>11, PlainLayout
<1>13. Layout3(s) = {Field3(m) : m \in Range(s)}
  BY LayoutFacts
<1>14. Layout2(o) = Layout3(s)
  BY <1>1, <1>9, <1>10, <1>12, <1>13
<1> QED
  BY <1>14 DEF o, s, h, names

LEMMA PktCtxKept ==
    ASSUME NEW d, IsDst2(d), NEW n, n.features = NormalizeFeatures(V3Features(d)),
           n.extra = NormalizeMembers(ExtraMembers(d)), IsStructNode(n.extra),
           LengthsAreFree(n.extra)
    PROVE  Layout2(Unnumbered(d.pkt_ctx)) = Layout3(PktCtxFt(n))
<1> DEFINE f == DstFeatures(n)
           p == d.pkt_ctx
           c == CtxFeatures(f, n.clk)
           on == FeatureMembers(c)
           x == CreateStructFtMembers(n.extra)
           s == PktCtxFt(n)
           o == Unnumbered(p)
           others == Others(p)
           names == CtfMemberNames \ {"packet_seq_num"}
           A == {c[i] : i \in 1 .. 5}
           some == {g \in Range(p) : g.name \in names}
<1>1. /\ s = on \o x /\ on \in Seq(Range(c))
      /\ Range(on) = {c[i] : i \in {j \in 1 .. 6 : c[j].size # Off}}
  BY PktCtxParts
<1>2. IsStruct2(p) /\ AreUInts(p, CtfMemberNames) /\ p \in Seq(Range(p))
  BY DEF IsDst2, IsStruct2, AreNamed
<1>3. /\ \A i \in 1 .. 5 : /\ c[i].class = "unsigned-integer" /\ c[i].dims = << >>
                           /\ c[i].name \in names /\ c[i].size = Feature(p, c[i].name)
      /\ c[6].size = Off
      /\ \A name \in names : \E i \in 1 .. 5 : c[i].name = name
  <2> DEFINE u1 == UInt("packet_size", GetFt(f.total, 64), NoClock)
             u2 == UInt("content_size", GetFt(f.content, 64), NoClock)
             u3 == UInt("timestamp_begin", GetFt(f.beginning, 64), n.clk)
             u4 == UInt("timestamp_end", GetFt(f.end, 64), n.clk)
             u5 == UInt("events_discarded", GetFt(f.discarded, 64), NoClock)
             u6 == UInt("packet_seq_num", GetFt(f.seq_num, 64), NoClock)
             Fine(u) == u.class = "unsigned-integer" /\ u.dims = << >>
                        /\ u.name \in names /\ u.size = Feature(p, u.name)
  <2>1. c = << u1, u2, u3, u4, u5, u6 >>
    BY DEF CtxFeatures
  <2>2. names = {"packet_size", "content_size", "timestamp_begin", "timestamp_end",
                 "events_discarded"}
    BY DEF CtfMemberNames
  <2>3. /\ u1.name = "packet_size" /\ u2.name = "content_size" /\ u3.name = "timestamp_begin"
        /\ u4.name = "timestamp_end" /\ u5.name = "events_discarded"
    BY UIntFacts
  <2>4. /\ u1.size = Feature(p, "packet_size") /\ u2.size = Feature(p, "content_size")
        /\ u3.size = Feature(p, "timestamp_begin") /\ u4.size = Feature(p, "timestamp_end")
        /\ u5.size = Feature(p, "events_discarded") /\ u6.size = Off
    BY UIntFacts, ConvFeatures
  <2>5. /\ u1.class = "unsigned-integer" /\ u1.dims = << >>
        /\ u2.class = "unsigned-integer" /\ u2.dims = << >>
        /\ u3.class = "unsigned-integer" /\ u3.dims = << >>
        /\ u4.class = "unsigned-integer" /\ u4.dims = << >>
        /\ u5.class = "unsigned-integer" /\ u5.dims = << >>
    BY UIntFacts
  <2> HIDE DEF u1, u2, u3, u4, u5, u6, c, names, p
  <2>6. Fine(u1) /\ Fine(u2) /\ Fine(u3) /\ Fine(u4) /\ Fine(u5)
    BY <2>2, <2>3, <2>4, <2>5
  <2>7. /\ c[1] = u1 /\ c[2] = u2 /\ c[3] = u3 /\ c[4] = u4 /\ c[5] = u5 /\ c[6] = u6
        /\ \A i \in 1 .. 5 : i \in {1, 2, 3, 4, 5}
        /\ 1 \in 1 .. 5 /\ 2 \in 1 .. 5 /\ 3 \in 1 .. 5 /\ 4 \in 1 .. 5 /\ 5 \in 1 .. 5
    BY <2>1
  <2>8. \A i \in 1 .. 5 : Fine(c[i])
    BY <2>6, <2>7
  <2>9. \A name \in names : \E i \in 1 .. 5 : c[i].name = name
    BY <2>2, <2>3, <2>7
  <2> QED
    BY <2>4, <2>7, <2>8, <2>9
<1>4. /\ n.extra = NormalizeMembers(ConvStructFt(others)) /\ IsStruct2(others)
      /\ Range(others) = {g \in Range(p) : g.name \notin CtfMemberNames}
  BY <1>2, ExtraFacts
<1>5. Layout3(x) = Layout2(others)
  <2> HIDE DEF others
  <2> QED
    BY <1>4, StructKept
<1>6. IsList(x)
  BY CreatedDistinct, ListOf DEF IsStructNode, AreNamed
<1>7. Range(o) = {g \in Range(p) : g.name # "packet_seq_num"}
  BY <1>2, UnnumberedRange
<1> HIDE DEF f, c, on, x, s, o, others, p
<1>8. \A m \in A : m.name \in names /\ IsFeatureOf(m, p)
  BY <1>2, <1>3 DEF IsFeatureOf, AreUInts
<1>9. \A y \in names : \E m \in A : m.name = y
  BY <1>3
<1>10. Range(on) = {m \in A : m.size # Off}
  <2>1. {j \in 1 .. 6 : c[j].size # Off} = {j \in 1 .. 5 : c[j].size # Off}
    BY <1>3
  <2> QED
    BY <1>1, <2>1
<1>11. \A g \in some : ~IsDynamicArray(g)
  BY <1>2 DEF AreUInts, IsDynamicArray
<1>12. Range(o) = some \cup Range(others)
  BY <1>4, <1>7 DEF CtfMemberNames
<1> HIDE DEF A, names
<1>13. some = {g \in Range(p) : g.name \in names}
  OBVIOUS
<1> HIDE DEF some
<1>14. {Field3(m) : m \in Range(on)} = {Field2(g) : g \in some}
  <2> DEFINE r == Range(on)
  <2>1. r = {m \in A : m.size # Off}
    BY <1>10
  <2> HIDE DEF r
  <2>2. {Field3(m) : m \in r} = {Field2(g) : g \in some}
    BY <1>2, <1>8, <1>9, <1>13, <2>1, FeaturesKept
  <2> QED
    BY <2>2 DEF r
<1>15. Layout2(o) = {Field2(g) : g \in some} \cup Layout2(others)
  BY <1>11, <1>12, LayoutParts
<1>16. Range(s) = Range(on) \cup Range(x)
  BY <1>1, <1>6, ListOf, ListJoined
<1>17. Layout3(s) = {Field3(m) : m \in Range(on)} \cup Layout3(x)
  BY <1>16, LayoutFacts
<1>18. Layout2(o) = Layout3(s)
  BY <1>5, <1>14, <1>15, <1>17
<1> QED
  BY <1>18 DEF o, s, p

LEMMA PktHeaderKept ==
    ASSUME NEW m, IsMetaNode(m), NEW tt,
           tt.features = NormalizeFeatures([magic |-> Feature(m.pkt_header, "magic"),
                                            uuid |-> Feature(m.pkt_header, "uuid"),
                                            dst_id |-> Feature(m.pkt_header, "stream_id")])
    PROVE  Layout2(Only(m.pkt_header, {"magic", "uuid", "stream_id"}))
               = Layout3(PktHeaderFt(tt))
<1> DEFINE f == TraceFeatures(tt)
           h == m.pkt_header
           names == {"magic", "uuid", "stream_id"}
           magic == UInt("magic", GetFt(f.magic, 32), NoClock)
           bytes == UInt("uuid", GetFt(f.uuid, 8), NoClock)
           uuid == [bytes EXCEPT !.dims = << 16 >>]
           id == UInt("stream_id", GetFt(f.dst_id, 64), NoClock)
           A == {magic, uuid, id}
           on == {x \in A : x.size # Off}
           s == PktHeaderFt(tt)
           o == Only(h, names)
           some == {g \in Range(h) : g.name \in names}
<1>1. Range(s) = on
  BY PktHeaderFacts
<1>2. /\ IsStruct2(h) /\ h \in Seq(Range(h))
      /\ AreUInts(h, {"magic", "stream_id", "stream_instance_id"})
      /\ \A g \in Range(h) : g.name = "uuid" => IsUIntField(g) /\ g.dims = << 16 >>
  BY DEF IsMetaNode, IsPktHeader2, IsStruct2, AreNamed
<1>3. /\ GetFt(f.magic, 32) = Feature(h, "magic") /\ GetFt(f.uuid, 8) = Feature(h, "uuid")
      /\ GetFt(f.dst_id, 64) = Feature(h, "stream_id")
  <2> DEFINE a == Feature(h, "magic")
             b == Feature(h, "uuid")
             c == Feature(h, "stream_id")
             x == IF tt.uuid THEN Default ELSE Off
             Given(v) == IF v = Null THEN Missing ELSE v
  <2>1. a \in Nat /\ b \in Nat /\ c \in Nat
    BY HeaderFeatures
  <2>2. tt.features = NormalizeFeatures([magic |-> a, uuid |-> b, dst_id |-> c])
    OBVIOUS
  <2> HIDE DEF a, b, c, h
  <2>3. /\ tt.features["magic"] = Given(a) /\ tt.features["uuid"] = Given(b)
        /\ tt.features["dst_id"] = Given(c)
    BY <2>2 DEF NormalizeFeatures
  <2> HIDE DEF x
  <2>4. /\ f["magic"] = FeatureFt(tt.features["magic"], Default)
        /\ f["uuid"] = FeatureFt(tt.features["uuid"], x)
        /\ f["dst_id"] = FeatureFt(tt.features["dst_id"], Default)
    BY DEF TraceFeatures, x
  <2> DEFINE ga == Given(a)
             gb == Given(b)
             gc == Given(c)
  <2>5. /\ ga = IF a = Null THEN Missing ELSE a
        /\ gb = IF b = Null THEN Missing ELSE b
        /\ gc = IF c = Null THEN Missing ELSE c
    OBVIOUS
  <2> HIDE DEF f, ga, gb, gc
  <2>6. /\ FeatureFt(ga, Default) = a /\ GetFt(a, 32) = a
        /\ FeatureFt(gb, x) = b /\ GetFt(b, 8) = b
        /\ FeatureFt(gc, Default) = c /\ GetFt(c, 64) = c
    BY <2>1, <2>5, SizeKept
  <2>7. f["magic"] = a /\ f["uuid"] = b /\ f["dst_id"] = c
    BY <2>3, <2>4, <2>6 DEF ga, gb, gc
  <2> QED
    BY <2>6, <2>7 DEF a, b, c
<1>4. /\ magic.name = "magic" /\ magic.class = "unsigned-integer" /\ magic.dims = << >>
      /\ magic.size = GetFt(f.magic, 32)
      /\ id.name = "stream_id" /\ id.class = "unsigned-integer" /\ id.dims = << >>
      /\ id.size = GetFt(f.dst_id, 64)
  BY UIntFacts
<1>5. /\ uuid.name = "uuid" /\ uuid.class = "unsigned-integer" /\ uuid.dims = << 16 >>
      /\ uuid.size = GetFt(f.uuid, 8)
  BY DEF UInt, Member
<1> HIDE DEF magic, bytes, uuid, id, f, h, s
<1>6. \A x \in A : x.name \in names /\ IsFeatureOf(x, h)
  <2>1. IsFeatureOf(magic, h)
    BY <1>2, <1>3, <1>4 DEF IsFeatureOf, AreUInts
  <2>2. IsFeatureOf(id, h)
    BY <1>2, <1>3, <1>4 DEF IsFeatureOf, AreUInts
  <2>3. IsFeatureOf(uuid, h)
    BY <1>2, <1>3, <1>5 DEF IsFeatureOf
  <2> QED
    BY <1>4, <1>5, <2>1, <2>2, <2>3
<1>7. \A y \in names : \E x \in A : x.name = y
  BY <1>4, <1>5
<1>8. \A g \in some : ~IsDynamicArray(g)
  BY <1>2 DEF AreUInts, IsDynamicArray, Dynamic
<1> HIDE DEF A, names
<1>9. on = {x \in A : x.size # Off} /\ some = {g \in Range(h) : g.name \in names}
  OBVIOUS
<1>10. Range(o) = some
  BY <1>2, OnlyRange
<1> HIDE DEF on, some, o
<1>11. {Field3(x) : x \in on} = {Field2(g) : g \in some}
  BY <1>2, <1>6, <1>7, <1>9, FeaturesKept
<1>12. Layout2(o) = {Field2(g) : g \in Range(o)}
  BY <1>8, <1>10, PlainLayout
<1>13. Layout3(s) = {Field3(x) : x \in Range(s)}
  BY LayoutFacts
<1>14. Layout2(o) = Layout3(s)
  BY <1>1, <1>10, <1>11, <1>12, <1>13
<1> QED
  BY <1>14 DEF o, s, h, names

-----------------------------------------------------------------------------
(* The labels of the values of an enumeration, before and after a           *)
(* conversion.                                                             *)

Pairs == Int \X Int

Maps(L) == UNION {[T -> Seq(Pairs)] : T \in SUBSET L}

(* A label has a range. *)
Has(mappings, label, range) == label \in DOMAIN mappings /\ range \in Range(mappings[label])

LEMMA MappedFacts ==
    ASSUME NEW L, NEW x \in Maps(L), NEW label \in L, NEW range \in Pairs,
           NEW t, t = Mapped(x, label, range)
    PROVE  /\ t \in Maps(L)
           /\ \A l, r : Has(t, l, r) <=> Has(x, l, r) \/ (l = label /\ r = range)
<1>1. PICK T \in SUBSET L : x \in [T -> Seq(Pairs)]
  BY DEF Maps
<1> DEFINE known == IF label \in DOMAIN x THEN x[label] ELSE << >>
           longer == Append(known, range)
<1>2. known \in Seq(Pairs) /\ Range(known) = IF label \in T THEN Range(x[label]) ELSE {}
  <2>1. CASE label \in T
    BY <1>1, <2>1
  <2>2. CASE label \notin T
    <3>1. known = << >>
      BY <1>1, <2>2
    <3>2. Range(<< >>) = {}
      BY DEF Range
    <3>3. << >> \in Seq(Pairs)
      OBVIOUS
    <3> HIDE DEF known
    <3> QED
      BY <2>2, <3>1, <3>2, <3>3
  <2> QED
    BY <2>1, <2>2
<1> HIDE DEF known
<1>3. longer \in Seq(Pairs) /\ Range(longer) = Range(known) \cup {range}
  <2>1. /\ longer \in Seq(Pairs) /\ Len(longer) = Len(known) + 1 /\ Len(known) \in Nat
        /\ \A i \in 1 .. Len(known) : longer[i] = known[i]
        /\ longer[Len(known) + 1] = range
    BY <1>2
  <2>2. DOMAIN longer = 1 .. Len(known) + 1 /\ DOMAIN known = 1 .. Len(known)
    BY <1>2, <2>1
  <2> HIDE DEF longer
  <2>3. \A i \in DOMAIN longer : longer[i] \in Range(known) \cup {range}
    BY <2>1, <2>2 DEF Range
  <2>4. \A i \in DOMAIN known : i \in DOMAIN longer /\ longer[i] = known[i]
    BY <2>1, <2>2
  <2>5. Len(known) + 1 \in DOMAIN longer
    BY <2>1, <2>2
  <2> QED
    BY <2>1, <2>3, <2>4, <2>5 DEF Range
<1> HIDE DEF longer
<1>4. t = [l \in {label} \cup T |-> IF l = label THEN longer ELSE x[l]]
  BY <1>1 DEF Mapped, known, longer
<1>5. t \in [{label} \cup T -> Seq(Pairs)]
  BY <1>1, <1>3, <1>4
<1>6. t \in Maps(L)
  <2>1. {label} \cup T \in SUBSET L
    OBVIOUS
  <2> QED
    BY <1>5, <2>1 DEF Maps
<1>7. ASSUME NEW l, NEW r
      PROVE  Has(t, l, r) <=> Has(x, l, r) \/ (l = label /\ r = range)
  <2>1. DOMAIN t = {label} \cup T /\ DOMAIN x = T
    BY <1>1, <1>4
  <2>2. CASE l = label
    <3>1. t[l] = longer
      BY <1>4, <2>2
    <3> QED
      BY <1>2, <1>3, <2>1, <2>2, <3>1 DEF Has
  <2>3. CASE l # label
    <3>1. l \in T => t[l] = x[l]
      BY <1>4, <2>3
    <3> QED
      BY <2>1, <2>3, <3>1 DEF Has
  <2> QED
    BY <2>2, <2>3
<1> QED
  BY <1>6, <1>7

(* The members of an enumeration are converted one after the other.        *)
AreMembers(members) ==
    /\ members \in Seq(Range(members))
    /\ \A m \in Range(members) : Len(m) = 1 \/ (Len(m) = 3 /\ m[2] \in Int /\ m[3] \in Int)

LEMMA LastFacts ==
    ASSUME NEW members, AreMembers(members), NEW n, n = Len(members)
    PROVE  LET last == LastValues(members) IN
           /\ n \in Nat /\ last \in [0 .. n -> Int] /\ last[0] = -1
           /\ \A i \in 1 .. n :
                  /\ Len(members[i]) = 1 => last[i] = last[i - 1] + 1
                  /\ Len(members[i]) # 1 => /\ last[i] = members[i][3]
                                            /\ members[i][2] \in Int
<1> DEFINE one(i) == Len(members[i]) = 1
           step == [i \in 1 .. n |-> [x \in Int |-> IF one(i) THEN x + 1 ELSE members[i][3]]]
           last == LastValues(members)
<1>1. n \in Nat /\ DOMAIN members = 1 .. n
  BY DEF AreMembers
<1>2. \A i \in 1 .. n : one(i) \/ (members[i][2] \in Int /\ members[i][3] \in Int)
  BY <1>1 DEF AreMembers, Range
<1> HIDE DEF one
<1>3. /\ step \in StepFcns(n, Int)
      /\ \A i \in 1 .. n : \A x \in Int : step[i][x] = IF one(i) THEN x + 1 ELSE members[i][3]
  BY <1>2 DEF StepFcns
<1> HIDE DEF step
<1>4. PICK h : Goes(h, n, Int, -1, step)
  <2>1. -1 \in Int
    OBVIOUS
  <2> QED
    BY <1>1, <1>3, <2>1, Recursion
<1>5. h \in [0 .. n -> Int] /\ h[0] = -1
  BY <1>4 DEF Goes
<1>6. \A i \in 1 .. n : h[i] = IF one(i) THEN h[i - 1] + 1 ELSE members[i][3]
  <2> SUFFICES ASSUME NEW i \in 1 .. n
               PROVE  h[i] = IF one(i) THEN h[i - 1] + 1 ELSE members[i][3]
    OBVIOUS
  <2>1. i - 1 \in 0 .. n
    BY <1>1
  <2>2. h[i] = step[i][h[i - 1]] /\ h[i - 1] \in Int
    BY <1>4, <1>5, <2>1 DEF Goes
  <2> QED
    BY <1>3, <2>2
<1>7. h = [i \in 0 .. n |-> IF i = 0 THEN -1
                            ELSE IF one(i) THEN h[i - 1] + 1 ELSE members[i][3]]
  <2>1. ASSUME NEW i \in 0 .. n
        PROVE  h[i] = IF i = 0 THEN -1
                      ELSE IF one(i) THEN h[i - 1] + 1 ELSE members[i][3]
    <3>1. i = 0 \/ i \in 1 .. n
      BY <1>1
    <3> QED
      BY <1>5, <1>6, <3>1
  <2> QED
    BY <1>5, <2>1
<1>8. last = [i \in 0 .. n |-> IF i = 0 THEN -1
                               ELSE IF one(i) THEN last[i - 1] + 1 ELSE members[i][3]]
  BY <1>7 DEF LastValues, one
<1> HIDE DEF last
<1>9. last[0] = -1 /\ \A i \in 1 .. n :
          last[i] = IF one(i) THEN last[i - 1] + 1 ELSE members[i][3]
  <2>1. 0 \in 0 .. n /\ \A i \in 1 .. n : i \in 0 .. n /\ i # 0
    BY <1>1
  <2> QED
    BY <1>8, <2>1
<1> DEFINE G == {k \in 0 .. n : last[k] \in Int}
<1>10. 0 \in G
  BY <1>1, <1>9
<1>11. ASSUME NEW k \in 0 .. n, k < n, k \in G PROVE k + 1 \in G
  <2>1. k + 1 \in 1 .. n /\ (k + 1) - 1 = k /\ k + 1 \in 0 .. n
    BY <1>1, <1>11
  <2>2. last[k + 1] = IF one(k + 1) THEN last[k] + 1 ELSE members[k + 1][3]
    BY <1>9, <2>1
  <2>3. last[k + 1] \in Int
    BY <1>2, <1>11, <2>1, <2>2
  <2> QED
    BY <2>1, <2>3
<1> HIDE DEF G
<1>12. \A k \in 0 .. n : k \in G
  BY <1>1, <1>10, <1>11, Induction
<1>13. last \in [0 .. n -> Int]
  <2>1. \A k \in 0 .. n : last[k] \in Int
    BY <1>12 DEF G
  <2>2. DOMAIN last = 0 .. n /\ last = [k \in 0 .. n |-> last[k]]
    BY <1>8
  <2> QED
    BY <2>1, <2>2
<1> QED
  BY <1>1, <1>2, <1>9, <1>13 DEF one, last

Counts(h, members, n, D) ==
    /\ h \in [0 .. n -> D]
    /\ h[0] = NoMappings
    /\ \A i \in 1 .. n : h[i] = AddMapping(h[i - 1], members[i])
    /\ ConvEnumMembers(members) = h[n].mappings

LEMMA MappingSteps ==
    ASSUME NEW n \in Nat, NEW members, DOMAIN members = 1 .. n, NEW D, NoMappings \in D,
           \A i \in 1 .. n : \A s \in D : AddMapping(s, members[i]) \in D
    PROVE  \E h : Counts(h, members, n, D)
<1> DEFINE base == NoMappings
           add == [i \in 1 .. n |-> [s \in D |-> AddMapping(s, members[i])]]
<1>1. base \in D /\ add \in StepFcns(n, D)
  BY DEF StepFcns
<1>2. \A i \in 1 .. n : \A s \in D : add[i][s] = AddMapping(s, members[i])
  OBVIOUS
<1> HIDE DEF add, base
<1>3. PICK g : Folds(g, n, D, base, add)
  BY <1>1, FoldExists
<1>4. g = [t \in SUBSET (1 .. n) |-> IF t = {} THEN NoMappings
                                   ELSE AddMapping(g[t \ {Max(t)}], members[Max(t)])]
  <2>1. ASSUME NEW t \in SUBSET (1 .. n), t # {}
        PROVE  g[t] = AddMapping(g[t \ {Max(t)}], members[Max(t)])
    <3>1. Max(t) \in t
      BY <2>1, MaxIn
    <3>2. g[t] = add[Max(t)][g[t \ {Max(t)}]] /\ g[t \ {Max(t)}] \in D
      BY <1>3, <2>1 DEF Folds
    <3> QED
      BY <1>2, <3>1, <3>2
  <2>2. g[{}] = NoMappings /\ g \in [SUBSET (1 .. n) -> D]
    BY <1>3 DEF Folds, base
  <2> QED
    BY <2>1, <2>2
<1>5. PICK f : /\ f = [t \in SUBSET (1 .. n) |-> IF t = {} THEN NoMappings
                                   ELSE AddMapping(f[t \ {Max(t)}], members[Max(t)])]
               /\ ConvEnumMembers(members) = f[1 .. n].mappings
  BY <1>4 DEF ConvEnumMembers, FoldLeft, MapThenFoldSet
<1> DEFINE h == [k \in 0 .. n |-> f[1 .. k]]
<1>6. ASSUME NEW k \in 0 .. n, k < n
      PROVE  h[k + 1] = AddMapping(h[k], members[k + 1])
  <2>1. k + 1 \in 0 .. n /\ 1 .. k + 1 \in SUBSET (1 .. n) /\ k + 1 \in 1 .. k + 1
    BY <1>6
  <2>2. Max(1 .. k + 1) = k + 1
    BY <2>1, MaxOf
  <2>3. (1 .. k + 1) \ {k + 1} = 1 .. k
    BY <2>1
  <2>4. f[1 .. k + 1] = AddMapping(f[1 .. k], members[k + 1])
    BY <1>5, <2>1, <2>2, <2>3
  <2> QED
    BY <2>1, <2>4
<1>7. h[0] = NoMappings /\ h[n] = f[1 .. n]
  <2>1. 1 .. 0 = {} /\ {} \in SUBSET (1 .. n)
    OBVIOUS
  <2>2. f[{}] = NoMappings
    BY <1>5, <2>1
  <2> QED
    BY <2>1, <2>2
<1> DEFINE G == {k \in 0 .. n : h[k] \in D}
<1>8. 0 \in G
  BY <1>7
<1>9. DOMAIN h = 0 .. n /\ h = [k \in 0 .. n |-> h[k]]
  OBVIOUS
<1> HIDE DEF h
<1>10. \A k \in 0 .. n : k < n /\ k \in G => k + 1 \in G
  BY <1>6
<1> HIDE DEF G
<1>11. \A k \in 0 .. n : k \in G
  BY <1>8, <1>10, Induction
<1>12. h \in [0 .. n -> D]
  BY <1>9, <1>11 DEF G
<1>13. \A i \in 1 .. n : h[i] = AddMapping(h[i - 1], members[i])
  <2> SUFFICES ASSUME NEW i \in 1 .. n PROVE h[i] = AddMapping(h[i - 1], members[i])
    OBVIOUS
  <2>1. i - 1 \in 0 .. n /\ i - 1 < n /\ (i - 1) + 1 = i
    OBVIOUS
  <2> QED
    BY <1>6, <2>1
<1> QED
  BY <1>5, <1>7, <1>12, <1>13 DEF Counts

(* One more member. *)
LowerOf(state, m) == IF Len(m) = 1 THEN state.cur ELSE m[2]
UpperOf(state, m) == IF Len(m) = 1 THEN state.cur ELSE m[3]

States(L) == [cur : Int, mappings : Maps(L)]

IsLabelled(m, L) == m[1] \in L /\ (Len(m) = 1 \/ (m[2] \in Int /\ m[3] \in Int))

Adds(t, s, m) ==
    /\ t.cur = UpperOf(s, m) + 1
    /\ \A l, r : Has(t.mappings, l, r) <=>
           \/ Has(s.mappings, l, r)
           \/ l = m[1] /\ r = << LowerOf(s, m), UpperOf(s, m) >>

LEMMA AddMappingFacts ==
    ASSUME NEW L, NEW s \in States(L), NEW m, IsLabelled(m, L), NEW t, t = AddMapping(s, m)
    PROVE  t \in States(L) /\ Adds(t, s, m)
<1> DEFINE lower == LowerOf(s, m)
           upper == UpperOf(s, m)
           range == << lower, upper >>
           x == s.mappings
           y == Mapped(x, m[1], range)
<1>1. s.cur \in Int /\ x \in Maps(L)
  BY DEF States
<1>2. lower \in Int /\ upper \in Int
  BY <1>1 DEF LowerOf, UpperOf, IsLabelled
<1>3. t = [cur |-> upper + 1, mappings |-> y]
  BY DEF AddMapping, LowerOf, UpperOf
<1> HIDE DEF lower, upper
<1>4. range \in Pairs
  BY <1>2 DEF Pairs
<1>5. y = Mapped(x, m[1], range)
  OBVIOUS
<1> HIDE DEF range, x, y
<1>6. /\ y \in Maps(L)
      /\ \A l, r : Has(y, l, r) <=> Has(x, l, r) \/ (l = m[1] /\ r = range)
  <2>1. m[1] \in L
    BY DEF IsLabelled
  <2> QED
    BY <1>1, <1>4, <1>5, <2>1, MappedFacts
<1>7. t \in States(L)
  BY <1>2, <1>3, <1>6 DEF States
<1>8. t.cur = upper + 1 /\ t.mappings = y
  BY <1>3
<1> QED
  BY <1>6, <1>7, <1>8 DEF lower, upper, range, x, Adds

FirstValue(members, i) ==
    IF Len(members[i]) = 1 THEN LastValues(members)[i] ELSE members[i][2]

(* After k members: the next value, and the ranges of each label.          *)
Counted(state, members, k) ==
    /\ state.cur = LastValues(members)[k] + 1
    /\ \A l, r : Has(state.mappings, l, r) <=>
           \E i \in 1 .. k : /\ l = members[i][1]
                             /\ r = << FirstValue(members, i), LastValues(members)[i] >>

LEMMA RangesCounted ==
    ASSUME NEW members, AreMembers(members)
    PROVE  \A l, r : Has(ConvEnumMembers(members), l, r) <=>
               \E i \in 1 .. Len(members) :
                   /\ l = members[i][1]
                   /\ r = << FirstValue(members, i), LastValues(members)[i] >>
<1> DEFINE n == Len(members)
           L == {members[i][1] : i \in 1 .. n}
           D == States(L)
           last == LastValues(members)
           F(i) == FirstValue(members, i)
<1>1. /\ n \in Nat /\ last \in [0 .. n -> Int] /\ last[0] = -1
      /\ \A i \in 1 .. n :
             /\ Len(members[i]) = 1 => last[i] = last[i - 1] + 1
             /\ Len(members[i]) # 1 => last[i] = members[i][3] /\ members[i][2] \in Int
  BY LastFacts
<1>2. DOMAIN members = 1 .. n
  BY DEF AreMembers
<1>3. \A i \in 1 .. n : Len(members[i]) = 1 \/ (members[i][2] \in Int /\ members[i][3] \in Int)
  BY <1>2 DEF AreMembers, Range
<1>4. \A i \in 1 .. n : members[i][1] \in L
  OBVIOUS
<1> HIDE DEF L, n, last
<1>5. NoMappings \in D /\ NoMappings.cur = 0 /\ \A l, r : ~Has(NoMappings.mappings, l, r)
  <2> DEFINE none == [l \in {} |-> << >>]
  <2>1. none \in [{} -> Seq(Pairs)] /\ DOMAIN none = {}
    OBVIOUS
  <2>2. NoMappings = [cur |-> 0, mappings |-> none]
    BY DEF NoMappings
  <2> HIDE DEF none
  <2>3. {} \in SUBSET L
    OBVIOUS
  <2>4. none \in Maps(L)
    BY <2>1, <2>3 DEF Maps
  <2>5. NoMappings \in States(L)
    BY <2>2, <2>4 DEF States
  <2>6. NoMappings.cur = 0 /\ NoMappings.mappings = none
    BY <2>2
  <2> QED
    BY <2>1, <2>5, <2>6 DEF Has
<1>6. ASSUME NEW i \in 1 .. n, NEW s \in D PROVE AddMapping(s, members[i]) \in D
  <2> DEFINE t == AddMapping(s, members[i])
             m == members[i]
  <2>1. t = AddMapping(s, m) /\ IsLabelled(m, L)
    BY <1>3, <1>4 DEF IsLabelled
  <2> HIDE DEF t, m
  <2> QED
    BY <2>1, AddMappingFacts DEF t
<1> HIDE DEF D
<1>7. PICK h : Counts(h, members, n, D)
  BY <1>1, <1>2, <1>5, <1>6, MappingSteps
<1> DEFINE G == {k \in 0 .. n : Counted(h[k], members, k)}
<1>8. 0 \in G
  <2>1. h[0] = NoMappings
    BY <1>7 DEF Counts
  <2>2. Counted(h[0], members, 0)
    BY <1>1, <1>5, <2>1 DEF Counted, last
  <2> QED
    BY <1>1, <2>2
<1>9. ASSUME NEW k \in 0 .. n, k < n, k \in G PROVE k + 1 \in G
  <2> DEFINE j == k + 1
             s == h[k]
             t == h[j]
             m == members[j]
  <2>1. j \in 1 .. n /\ j - 1 = k /\ j \in 0 .. n /\ k \in Int
    BY <1>1, <1>9
  <2>2. s \in D /\ t = AddMapping(s, m)
    BY <1>7, <2>1 DEF Counts
  <2>3. Counted(s, members, k)
    BY <1>9
  <2>4. m[1] \in L /\ (Len(m) = 1 \/ (m[2] \in Int /\ m[3] \in Int))
    BY <1>3, <1>4, <2>1
  <2>5. last[k] \in Int /\ last[j] \in Int
    BY <1>1, <2>1
  <2>6. /\ Len(m) = 1 => last[j] = last[k] + 1
        /\ Len(m) # 1 => last[j] = m[3]
    BY <1>1, <2>1
  <2>7. F(j) = IF Len(m) = 1 THEN last[j] ELSE m[2]
    BY DEF FirstValue, last
  <2>8. \A i \in 1 .. j : i \in 1 .. k \/ i = j
    BY <2>1
  <2>9. \A i \in 1 .. k : i \in 1 .. j
    BY <2>1
  <2>10. j \in 1 .. j
    BY <2>1
  <2> HIDE DEF F, s, t
  <2>11. m = members[j]
    OBVIOUS
  <2> HIDE DEF m, j, G
  <2>12. /\ t.cur = UpperOf(s, m) + 1
         /\ \A l, r : Has(t.mappings, l, r) <=>
                \/ Has(s.mappings, l, r)
                \/ l = m[1] /\ r = << LowerOf(s, m), UpperOf(s, m) >>
    <3>1. s \in States(L)
      BY <2>2 DEF D
    <3>2. t = AddMapping(s, m)
      BY <2>2
    <3>3. IsLabelled(m, L)
      BY <2>4 DEF IsLabelled
    <3>4. Adds(t, s, m)
      BY <3>1, <3>2, <3>3, AddMappingFacts
    <3> QED
      BY <3>4 DEF Adds
  <2>13. /\ s.cur = last[k] + 1
         /\ \A l, r : Has(s.mappings, l, r) <=>
                \E i \in 1 .. k : l = members[i][1] /\ r = << F(i), last[i] >>
    BY <2>3 DEF Counted, F, last
  <2>14. UpperOf(s, m) = last[j] /\ LowerOf(s, m) = F(j)
    BY <2>6, <2>7, <2>13 DEF UpperOf, LowerOf
  <2>15. \A l, r : Has(t.mappings, l, r) <=>
             \E i \in 1 .. j : l = members[i][1] /\ r = << F(i), last[i] >>
    BY <2>8, <2>9, <2>10, <2>11, <2>12, <2>13, <2>14
  <2>16. t.cur = last[j] + 1
    BY <2>12, <2>14
  <2>17. Counted(t, members, j)
    BY <2>15, <2>16 DEF Counted, F, last
  <2> QED
    BY <2>1, <2>17 DEF G, t, j
<1> HIDE DEF G
<1>10. \A k \in 0 .. n : k \in G
  BY <1>1, <1>8, <1>9, Induction
<1>11. Counted(h[n], members, n)
  BY <1>1, <1>10 DEF G
<1>12. ConvEnumMembers(members) = h[n].mappings
  BY <1>7 DEF Counts
<1> QED
  BY <1>11, <1>12 DEF Counted, n

(* A value has the labels that the declared members give it.               *)
LEMMA LabelsConverted ==
    ASSUME NEW members, AreMembers(members), NEW value,
           NEW x, x = ConvEnumMembers(members),
           NEW y, y = [label \in DOMAIN x |-> Range(x[label])]
    PROVE  LabelsForValue(y, value) = LabelsOf(members, value)
<1> DEFINE n == Len(members)
           last == LastValues(members)
           F(i) == FirstValue(members, i)
<1>1. DOMAIN members = 1 .. n
  BY DEF AreMembers
<1>2. \A l, r : Has(x, l, r) <=>
          \E i \in 1 .. n : l = members[i][1] /\ r = << F(i), last[i] >>
  BY RangesCounted
<1>3. LabelsOf(members, value) =
          {members[i][1] : i \in {j \in 1 .. n : value \in F(j) .. last[j]}}
  BY <1>1 DEF LabelsOf, FirstValue
<1>4. DOMAIN y = DOMAIN x /\ \A l \in DOMAIN x : y[l] = Range(x[l])
  OBVIOUS
<1>5. LabelsForValue(y, value) =
          {l \in DOMAIN y : \E r \in y[l] : value \in r[1] .. r[2]}
  BY DEF LabelsForValue
<1> HIDE DEF n, last, F
<1>6. ASSUME NEW l \in LabelsForValue(y, value) PROVE l \in LabelsOf(members, value)
  <2>1. PICK r \in Range(x[l]) : value \in r[1] .. r[2] /\ l \in DOMAIN x
    BY <1>4, <1>5
  <2>2. Has(x, l, r)
    BY <2>1 DEF Has
  <2>3. PICK i \in 1 .. n : l = members[i][1] /\ r = << F(i), last[i] >>
    BY <1>2, <2>2
  <2>4. value \in F(i) .. last[i]
    BY <2>1, <2>3
  <2> QED
    BY <1>3, <2>3, <2>4
<1>7. ASSUME NEW l \in LabelsOf(members, value) PROVE l \in LabelsForValue(y, value)
  <2>1. PICK i \in 1 .. n : l = members[i][1] /\ value \in F(i) .. last[i]
    BY <1>3
  <2> DEFINE r == << F(i), last[i] >>
  <2>2. Has(x, l, r)
    BY <1>2, <2>1
  <2>3. r[1] = F(i) /\ r[2] = last[i]
    OBVIOUS
  <2> HIDE DEF r
  <2>4. l \in DOMAIN x /\ r \in Range(x[l])
    BY <2>2 DEF Has
  <2> QED
    BY <1>4, <1>5, <2>1, <2>3, <2>4
<1> QED
  BY <1>6, <1>7

LEMMA StructLabels ==
    ASSUME NEW fields, IsStruct2(fields), NEW t, t = NormalizeMembers(ConvStructFt(fields)),
           LengthsAreFree(t),
           NEW f \in Range(fields), NEW m \in Range(CreateStructFtMembers(t)),
           f.name = m.name, NEW value
    PROVE  LabelsForValue(m.mappings, value) = LabelsOf(f.members, value)
<1>1. /\ IsStructNode(t) /\ DOMAIN t = DOMAIN fields
      /\ \A i \in DOMAIN fields : Becomes(t[i], fields[i])
      /\ \A i, j \in DOMAIN t : t[i].name = t[j].name => i = j
  BY FieldsBecome
<1>2. ~DuplicateMember(t)
  <2>1. DOMAIN t = 1 .. Len(t) /\ Len(t) \in Nat
    BY <1>1 DEF IsStructNode, AreNamed
  <2> QED
    BY <1>1, <2>1 DEF DuplicateMember
<1>3. m \in CreatedOf(t)
  BY <1>1, <1>2, CreatedLaid
<1>4. PICK j \in DOMAIN fields : f = fields[j]
  BY DEF Range
<1>5. t[j] \in Range(t) /\ t[j].name = f.name
  BY <1>1, <1>4 DEF Range, Becomes
<1>6. PICK n \in Range(t) : \/ m = CreateFt(n)
                            \/ m = LenMember(n.name) /\ IsDynamicArray(n)
  BY <1>3 DEF CreatedOf
<1>7. m = CreateFt(n)
  BY <1>5, <1>6 DEF LengthsAreFree
<1>8. n = t[j]
  <2>1. n.name = m.name
    BY <1>7, CreateFtFacts
  <2>2. PICK i \in DOMAIN t : n = t[i]
    BY <1>6 DEF Range
  <2> QED
    BY <1>1, <1>4, <1>5, <2>1, <2>2
<1> DEFINE x == ConvEnumMembers(f.members)
<1>9. n.mappings = x
  <2> DEFINE c == ConvStructFt(fields)
             d == ConvFt(f)
  <2>1. IsStructNode(c)
    BY ConvStructFacts
  <2>2. DOMAIN c = DOMAIN fields /\ c[j] = d
    BY <1>4 DEF ConvStructFt
  <2>3. IsField(f)
    BY DEF IsStruct2
  <2>4. d.mappings = x
    BY <2>3, ConvFtFacts
  <2> HIDE DEF c, d, x
  <2>5. t[j].mappings = c[j].mappings
    BY <1>4, <2>1, <2>2, NormalMembers DEF c
  <2> QED
    BY <1>8, <2>2, <2>4, <2>5
<1> DEFINE y == m.mappings
<1>10. y = [label \in DOMAIN n.mappings |-> Range(n.mappings[label])]
  BY <1>7, CreateFtFacts
<1>11. AreMembers(f.members)
  BY DEF IsStruct2, IsField, AreMembers
<1> HIDE DEF x, y
<1>12. y = [label \in DOMAIN x |-> Range(x[label])]
  BY <1>9, <1>10
<1>13. LabelsForValue(y, value) = LabelsOf(f.members, value)
  BY <1>11, <1>12, LabelsConverted DEF x
<1> QED
  BY <1>13 DEF y
===============================================================================
