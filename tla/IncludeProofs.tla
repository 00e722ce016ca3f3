---------------------------- MODULE IncludeProofs ----------------------------
(***************************************************************************)
(* Inclusion comes to an end: a file is never processed inside itself,     *)
(* whatever the files, their names, the nodes and the way in which nested  *)
(* nodes patch each other; and ordered maps stay maps.                     *)
(***************************************************************************)
EXTENDS Include, LayoutLemmas

-----------------------------------------------------------------------------
(* The inductive invariant *)

IsFrame(f) ==
    f = [node |-> f.node, level |-> f.level, for |-> f.for, base |-> f.base,
         todo |-> f.todo, pending |-> f.pending]

IsFile(f) == f.for.what = "file"

FileOf(f) == f.for.of[1]

(* The files under way are on the stack, in the order in which they        *)
(* include each other, and nothing is on it twice.  The stack may hold     *)
(* more: an empty file stays on it.                                        *)
Accounted(stack, fs) ==
    /\ \A p, q \in DOMAIN stack : stack[p] = stack[q] => p = q
    /\ \A i \in DOMAIN fs : IsFile(fs[i]) =>
        /\ fs[i].for.of = << FileOf(fs[i]) >>
        /\ \E p \in DOMAIN stack : stack[p] = FileOf(fs[i])
    /\ \A i, j \in DOMAIN fs : i < j /\ IsFile(fs[i]) /\ IsFile(fs[j]) =>
        \A p, q \in DOMAIN stack :
            stack[p] = FileOf(fs[i]) /\ stack[q] = FileOf(fs[j]) => p < q

IncludeInv ==
    /\ IsSequence(frames)
    /\ Len(frames) > 0
    /\ \A i \in DOMAIN frames : IsFrame(frames[i])
    /\ IsSequence(include_stack)
    /\ Accounted(include_stack, frames)

(* A new frame is one. *)
LEMMA NewFrame ==
    ASSUME NEW n, NEW level, NEW for
    PROVE  IsFrame(Frame(n, level, for)) /\ Frame(n, level, for).for = for
BY DEF Frame, IsFrame

(* Frames that are for the same things, at least for the first ones, are   *)
(* accounted for by the same stack.                                        *)
LEMMA SameFor ==
    ASSUME NEW stack, NEW fs, NEW gs, Accounted(stack, fs),
           DOMAIN gs \subseteq DOMAIN fs, DOMAIN gs \subseteq Nat,
           \A i \in DOMAIN gs : gs[i].for = fs[i].for
    PROVE  Accounted(stack, gs)
BY DEF Accounted, IsFile, FileOf

(* Replacing the innermost frame by one for the same thing. *)
LEMMA WithinFacts ==
    ASSUME IncludeInv, NEW f, IsFrame(f), f.for = Top.for
    PROVE  /\ IsSequence(Within(f))
           /\ Len(Within(f)) = Len(frames)
           /\ DOMAIN Within(f) = DOMAIN frames
           /\ \A i \in DOMAIN frames : IsFrame(Within(f)[i]) /\ Within(f)[i].for = frames[i].for
           /\ Accounted(include_stack, Within(f))
<1> DEFINE n == Len(frames)
           b == Front(frames)
<1>1. IsSequence(frames) /\ n \in Nat /\ n > 0 /\ DOMAIN frames = 1 .. n /\ n - 1 \in 0 .. n
  BY DEF IncludeInv, IsSequence
<1>2. /\ IsSequence(b) /\ Len(b) = n - 1
      /\ \A i \in 1 .. (n - 1) : b[i] = frames[i]
  BY <1>1, PrefixFacts DEF Front
<1>3. Within(f) = Append(b, f)
  BY DEF Within
<1> HIDE DEF n, b
<1>4. /\ IsSequence(Within(f)) /\ Len(Within(f)) = n /\ DOMAIN Within(f) = 1 .. n
      /\ \A i \in 1 .. (n - 1) : Within(f)[i] = frames[i]
      /\ Within(f)[n] = f
  BY <1>1, <1>2, <1>3, AppendFacts
<1>5. ASSUME NEW i \in DOMAIN frames
      PROVE  IsFrame(Within(f)[i]) /\ Within(f)[i].for = frames[i].for
  <2>1. CASE i = n
    BY <1>4, <2>1 DEF Top, Last, n
  <2>2. CASE i \in 1 .. (n - 1)
    BY <1>4, <1>5, <2>2 DEF IncludeInv
  <2> QED
    BY <1>1, <2>1, <2>2
<1>6. Accounted(include_stack, Within(f))
  BY <1>1, <1>4, <1>5, SameFor DEF IncludeInv
<1> QED
  BY <1>1, <1>4, <1>5, <1>6 DEF n

(* The top frame, changed in one of its parts. *)
LEMMA ChangedTop ==
    ASSUME IncludeInv
    PROVE  /\ IsFrame(SkipPath) /\ SkipPath.for = Top.for
           /\ \A name : /\ IsFrame([Top EXCEPT !.pending = @ \ {name}])
                        /\ [Top EXCEPT !.pending = @ \ {name}].for = Top.for
<1>1. IsFrame(Top)
  BY DEF IncludeInv, Top, Last, IsSequence
<1>2. SkipPath = [Top EXCEPT !.todo = Tail(Top.todo)]
  BY DEF SkipPath
<1> DEFINE t == Top
<1> HIDE DEF t
<1>3. ASSUME NEW x
      PROVE  /\ IsFrame([t EXCEPT !.todo = x]) /\ [t EXCEPT !.todo = x].for = t.for
             /\ IsFrame([t EXCEPT !.pending = x]) /\ [t EXCEPT !.pending = x].for = t.for
  BY <1>1 DEF IsFrame, t
<1> QED
  BY <1>2, <1>3 DEF t

(* One more file: it was not on the stack. *)
LEMMA PushFile ==
    ASSUME NEW stack, NEW fs, NEW file, IsSequence(stack), IsSequence(fs),
           Accounted(stack, fs), file \notin Range(stack)
    PROVE  /\ Accounted(Append(stack, file), fs)
           /\ \A f : f.for = ForFile(file) => Accounted(Append(stack, file), Append(fs, f))
<1> DEFINE n == Len(stack)
           m == Len(fs)
           t == Append(stack, file)
<1>1. /\ n \in Nat /\ DOMAIN stack = 1 .. n /\ DOMAIN t = 1 .. (n + 1)
      /\ \A p \in 1 .. n : t[p] = stack[p] /\ stack[p] # file
      /\ t[n + 1] = file
  BY AppendFacts DEF Range
<1>2. m \in Nat /\ DOMAIN fs = 1 .. m
  BY DEF IsSequence
<1> HIDE DEF n, m, t
<1>3. \A p, q \in DOMAIN t : t[p] = t[q] => p = q
  BY <1>1 DEF Accounted
<1>4. \A i \in DOMAIN fs : IsFile(fs[i]) =>
          /\ fs[i].for.of = << FileOf(fs[i]) >>
          /\ FileOf(fs[i]) # file
          /\ \E p \in DOMAIN t : t[p] = FileOf(fs[i])
  BY <1>1 DEF Accounted
<1>5. \A i, j \in DOMAIN fs : i < j /\ IsFile(fs[i]) /\ IsFile(fs[j]) =>
          \A p, q \in DOMAIN t : t[p] = FileOf(fs[i]) /\ t[q] = FileOf(fs[j]) => p < q
  BY <1>1, <1>4 DEF Accounted
<1>6. Accounted(t, fs)
  BY <1>3, <1>4, <1>5 DEF Accounted
<1>7. ASSUME NEW f, f.for = ForFile(file)
      PROVE  Accounted(t, Append(fs, f))
  <2> DEFINE gs == Append(fs, f)
  <2>1. /\ DOMAIN gs = 1 .. (m + 1)
        /\ \A i \in 1 .. m : gs[i] = fs[i]
        /\ gs[m + 1] = f
    BY AppendFacts DEF m
  <2>2. f.for.of = << FileOf(f) >> /\ FileOf(f) = file /\ IsFile(f)
    BY <1>7 DEF FileOf, ForFile, IsFile
  <2> HIDE DEF gs
  <2>3. \A i \in DOMAIN gs : IsFile(gs[i]) =>
            gs[i].for.of = << FileOf(gs[i]) >> /\ \E p \in DOMAIN t : t[p] = FileOf(gs[i])
    BY <1>1, <1>2, <1>4, <2>1, <2>2
  <2>4. ASSUME NEW i \in DOMAIN gs, NEW j \in DOMAIN gs, i < j, IsFile(gs[i]), IsFile(gs[j]),
               NEW p \in DOMAIN t, NEW q \in DOMAIN t,
               t[p] = FileOf(gs[i]), t[q] = FileOf(gs[j])
        PROVE  p < q
    <3>1. i \in DOMAIN fs /\ gs[i] = fs[i] /\ p \in 1 .. n
      BY <1>1, <1>2, <1>4, <2>1, <2>4
    <3>2. CASE j = m + 1
      <4>1. q = n + 1
        BY <1>1, <1>3, <2>1, <2>2, <2>4, <3>2
      <4> QED
        BY <1>1, <3>1, <4>1
    <3>3. CASE j \in 1 .. m
      BY <1>2, <1>5, <2>1, <2>4, <3>1, <3>3
    <3> QED
      BY <1>2, <2>1, <3>2, <3>3
  <2> QED
    BY <1>3, <2>3, <2>4 DEF Accounted, gs
<1> QED
  BY <1>6, <1>7 DEF t

(* When the innermost file is done the last entry of the stack leaves it.  *)
(* That entry may be the one of an empty file: those of the other files    *)
(* come before that of the innermost one, so that they stay anyway.        *)
LEMMA PopFile ==
    ASSUME NEW stack, NEW fs, IsSequence(stack), IsSequence(fs),
           Accounted(stack, fs), Len(fs) > 0, IsFile(fs[Len(fs)])
    PROVE  /\ IsSequence(Front(stack))
           /\ Accounted(Front(stack), SubSeq(fs, 1, Len(fs) - 1))
<1> DEFINE n == Len(stack)
           m == Len(fs)
           t == Front(stack)
           gs == SubSeq(fs, 1, m - 1)
<1>1. n \in Nat /\ DOMAIN stack = 1 .. n /\ m \in Nat /\ DOMAIN fs = 1 .. m /\ m - 1 \in 0 .. m
  BY DEF IsSequence
<1>2. PICK last \in 1 .. n : stack[last] = FileOf(fs[m])
  BY <1>1 DEF Accounted
<1>3. /\ IsSequence(t) /\ DOMAIN t = 1 .. (n - 1)
      /\ \A p \in 1 .. (n - 1) : t[p] = stack[p]
  <2>1. n - 1 \in 0 .. n
    BY <1>1, <1>2
  <2> QED
    BY <2>1, PrefixFacts DEF Front
<1>4. DOMAIN gs = 1 .. (m - 1) /\ \A i \in 1 .. (m - 1) : gs[i] = fs[i]
  BY <1>1, PrefixFacts
<1> HIDE DEF n, m, t, gs
<1>5. \A p, q \in DOMAIN t : t[p] = t[q] => p = q
  BY <1>1, <1>3 DEF Accounted
<1>6. ASSUME NEW i \in 1 .. (m - 1), IsFile(gs[i])
      PROVE  /\ gs[i].for.of = << FileOf(gs[i]) >>
             /\ \E p \in DOMAIN t : t[p] = FileOf(gs[i])
  <2>1. i \in DOMAIN fs /\ m \in DOMAIN fs /\ i < m /\ IsFile(fs[i]) /\ IsFile(fs[m])
    BY <1>1, <1>4, <1>6 DEF m
  <2>2. fs[i].for.of = << FileOf(fs[i]) >> /\ \E p \in DOMAIN stack : stack[p] = FileOf(fs[i])
    BY <2>1 DEF Accounted
  <2>3. PICK p \in DOMAIN stack : stack[p] = FileOf(fs[i])
    BY <2>2
  <2>4. p < last
    BY <1>1, <1>2, <2>1, <2>3 DEF Accounted
  <2>5. p \in 1 .. (n - 1)
    BY <1>1, <1>2, <2>3, <2>4
  <2> QED
    BY <1>3, <1>4, <2>2, <2>3, <2>5
<1>7. \A i, j \in DOMAIN gs : i < j /\ IsFile(gs[i]) /\ IsFile(gs[j]) =>
          \A p, q \in DOMAIN t : t[p] = FileOf(gs[i]) /\ t[q] = FileOf(gs[j]) => p < q
  BY <1>1, <1>3, <1>4 DEF Accounted
<1> QED
  BY <1>3, <1>4, <1>5, <1>6, <1>7 DEF Accounted, t, gs, m

(* One more frame that is not for a file. *)
LEMMA PushOther ==
    ASSUME NEW stack, NEW fs, NEW f, IsSequence(fs), Accounted(stack, fs), ~IsFile(f)
    PROVE  Accounted(stack, Append(fs, f))
<1> DEFINE gs == Append(fs, f)
           m == Len(fs)
<1>1. /\ m \in Nat /\ DOMAIN fs = 1 .. m /\ DOMAIN gs = 1 .. (m + 1)
      /\ \A i \in 1 .. m : gs[i] = fs[i]
      /\ gs[m + 1] = f
  BY AppendFacts
<1> HIDE DEF gs, m
<1>2. \A i \in DOMAIN gs : IsFile(gs[i]) => i \in DOMAIN fs /\ gs[i] = fs[i]
  BY <1>1
<1> QED
  BY <1>2 DEF Accounted, gs

-----------------------------------------------------------------------------

(* The node that the parser is given includes nothing yet. *)
LEMMA InitInclude == Init => IncludeInv
<1> SUFFICES ASSUME Init PROVE IncludeInv
  OBVIOUS
<1> DEFINE f == Frame(root, 1, ForRoot)
<1>1. frames = << f >> /\ include_stack = << >>
  BY DEF Init
<1>2. IsFrame(f) /\ f.for = ForRoot
  BY NewFrame
<1> HIDE DEF f
<1>3. /\ Len(frames) = 1 /\ DOMAIN frames = 1 .. 1 /\ frames[1] = f
      /\ Len(include_stack) = 0 /\ DOMAIN include_stack = {}
  BY <1>1
<1>4. IsSequence(frames) /\ IsSequence(include_stack)
  BY <1>1, <1>3 DEF IsSequence, Elements
<1>5. ~IsFile(frames[1])
  BY <1>2, <1>3 DEF IsFile, ForRoot
<1>6. Accounted(include_stack, frames)
  BY <1>3, <1>5 DEF Accounted
<1> QED
  BY <1>2, <1>3, <1>4, <1>6 DEF IncludeInv

(* Every step keeps the account of the files. *)
LEMMA NextInclude == IncludeInv /\ [Next]_vars => IncludeInv'
<1> SUFFICES ASSUME IncludeInv, [Next]_vars PROVE IncludeInv'
  OBVIOUS
<1> DEFINE n == Len(frames)
<1>0. /\ IsSequence(frames) /\ IsSequence(include_stack)
      /\ n \in Nat /\ n > 0 /\ DOMAIN frames = 1 .. n
      /\ Accounted(include_stack, frames)
  BY DEF IncludeInv, IsSequence
<1>1. CASE ProcessChild
  <2>1. PICK name : frames' = Append(Within([Top EXCEPT !.pending = @ \ {name}]),
                                     Frame(Top.node.children[name], Top.level + 1,
                                           ForChild(name)))
    BY <1>1 DEF ProcessChild
  <2> DEFINE t == [Top EXCEPT !.pending = @ \ {name}]
             f == Frame(Top.node.children[name], Top.level + 1, ForChild(name))
             w == Within(t)
  <2>2. IsFrame(f) /\ ~IsFile(f)
    BY NewFrame DEF ForChild, IsFile
  <2>3. IsFrame(t) /\ t.for = Top.for
    BY ChangedTop
  <2>4. frames' = Append(w, f)
    BY <2>1
  <2> HIDE DEF t, f
  <2>5. /\ IsSequence(w) /\ Len(w) = n /\ Accounted(include_stack, w)
        /\ \A i \in 1 .. n : IsFrame(w[i])
    BY <1>0, <2>3, WithinFacts
  <2> HIDE DEF w
  <2>6. IsSequence(frames') /\ Len(frames') > 0 /\ \A i \in DOMAIN frames' : IsFrame(frames'[i])
    BY <1>0, <2>2, <2>4, <2>5, AppendFacts
  <2>7. Accounted(include_stack, frames')
    BY <2>2, <2>4, <2>5, PushOther
  <2>8. include_stack' = include_stack
    BY <1>1 DEF ProcessChild
  <2> QED
    BY <1>0, <2>6, <2>7, <2>8 DEF IncludeInv
<1>2. CASE IgnoreNotFound
  <2>1. frames' = Within(SkipPath) /\ include_stack' = include_stack
    BY <1>2 DEF IgnoreNotFound
  <2> QED
    BY <1>0, <2>1, ChangedTop, WithinFacts DEF IncludeInv
<1>3. CASE LoadInclude
  <2> DEFINE w == Within(SkipPath)
             f == Frame(docs[NextFile], Top.level, ForFile(NextFile))
             file == NextFile
  <2>1. /\ include_stack' = Append(include_stack, file)
        /\ frames' = Append(w, f)
        /\ file \notin Range(include_stack)
    BY <1>3 DEF LoadInclude, Recursive
  <2>2. IsFrame(f) /\ f.for = ForFile(file)
    BY NewFrame
  <2>3. /\ IsSequence(w) /\ Len(w) = n /\ Accounted(include_stack, w)
        /\ \A i \in 1 .. n : IsFrame(w[i])
    BY <1>0, ChangedTop, WithinFacts
  <2> HIDE DEF w, f, file
  <2>4. IsSequence(frames') /\ Len(frames') > 0 /\ \A i \in DOMAIN frames' : IsFrame(frames'[i])
    BY <1>0, <2>1, <2>2, <2>3, AppendFacts
  <2>5. Accounted(include_stack', frames')
    BY <1>0, <2>1, <2>2, <2>3, PushFile
  <2>6. IsSequence(include_stack')
    BY <1>0, <2>1, AppendFacts
  <2> QED
    BY <2>4, <2>5, <2>6 DEF IncludeInv
<1>4. CASE LoadEmpty
  <2> DEFINE w == Within(SkipPath)
             file == NextFile
  <2>1. /\ include_stack' = Append(include_stack, file)
        /\ frames' = w
        /\ file \notin Range(include_stack)
    BY <1>4 DEF LoadEmpty, Recursive
  <2>2. /\ IsSequence(w) /\ Len(w) = n /\ DOMAIN w = 1 .. n /\ Accounted(include_stack, w)
        /\ \A i \in 1 .. n : IsFrame(w[i])
    BY <1>0, ChangedTop, WithinFacts
  <2> HIDE DEF w, file
  <2>3. Accounted(include_stack', frames')
    BY <1>0, <2>1, <2>2, PushFile
  <2>4. IsSequence(include_stack')
    BY <1>0, <2>1, AppendFacts
  <2> QED
    BY <1>0, <2>1, <2>2, <2>3, <2>4 DEF IncludeInv
<1>5. CASE Return
  <2> DEFINE caller == frames[n - 1]
             of == Top.for.of[1]
             below == SubSeq(frames, 1, n - 2)
  <2>0. n > 1 /\ IsFrame(caller)
    BY <1>0, <1>5 DEF Return, IncludeInv
  <2>1. ASSUME NEW g, IsFrame(g), g.for = caller.for, frames' = Append(below, g)
        PROVE  /\ IsSequence(frames') /\ Len(frames') > 0
               /\ \A i \in DOMAIN frames' : IsFrame(frames'[i])
               /\ DOMAIN frames' = 1 .. (n - 1)
               /\ \A i \in 1 .. (n - 1) : frames'[i].for = frames[i].for
    <3>1. n - 2 \in 0 .. n
      BY <1>0, <2>0
    <3>2. /\ IsSequence(below) /\ Len(below) = n - 2
          /\ \A i \in 1 .. (n - 2) : below[i] = frames[i]
      BY <1>0, <3>1, PrefixFacts
    <3> HIDE DEF below
    <3>3. /\ IsSequence(frames') /\ Len(frames') = n - 1 /\ DOMAIN frames' = 1 .. (n - 1)
          /\ \A i \in 1 .. (n - 2) : frames'[i] = frames[i]
          /\ frames'[n - 1] = g
      <4>1. n - 2 + 1 = n - 1
        BY <1>0
      <4> QED
        BY <2>1, <3>2, <4>1, AppendFacts
    <3>4. ASSUME NEW i \in 1 .. (n - 1)
          PROVE  IsFrame(frames'[i]) /\ frames'[i].for = frames[i].for
      <4>1. CASE i = n - 1
        BY <2>1, <3>3, <4>1
      <4>2. CASE i \in 1 .. (n - 2)
        BY <1>0, <3>3, <4>2 DEF IncludeInv
      <4>3. i \in Nat /\ n \in Nat /\ 1 <= i /\ i <= n - 1
        BY <1>0, <2>0
      <4>4. i = n - 1 \/ i \in 1 .. (n - 2)
        BY <4>3
      <4> QED
        BY <4>1, <4>2, <4>4
    <3> QED
      BY <1>0, <2>0, <3>3, <3>4
  <2>2. CASE Top.for.what = "child" /\ UNCHANGED include_stack
             /\ frames' = Append(below, [caller EXCEPT !.node.children[of] = Effective])
    <3> DEFINE g == [caller EXCEPT !.node.children[of] = Effective]
    <3>1. IsFrame(g) /\ g.for = caller.for
      BY <2>0 DEF IsFrame
    <3>2. frames' = Append(below, g)
      BY <2>2
    <3> HIDE DEF g
    <3>3. Accounted(include_stack, frames')
      <4>1. /\ Accounted(include_stack, frames)
            /\ DOMAIN frames' = 1 .. (n - 1) /\ DOMAIN frames = 1 .. n
            /\ \A i \in 1 .. (n - 1) : frames'[i].for = frames[i].for
        BY <1>0, <2>1, <3>1, <3>2 DEF IncludeInv
      <4>2. 1 .. (n - 1) \subseteq 1 .. n /\ 1 .. (n - 1) \subseteq Nat
        BY <1>0
      <4> QED
        BY <4>1, <4>2, SameFor
    <3> QED
      BY <1>0, <2>1, <2>2, <3>1, <3>2, <3>3 DEF IncludeInv
  <2>3. CASE Top.for.what = "file" /\ include_stack' = Front(include_stack)
             /\ frames' = Append(below, [caller EXCEPT !.base = << Overlay(@, Effective) >>])
    <3> DEFINE g == [caller EXCEPT !.base = << Overlay(@, Effective) >>]
               others == SubSeq(frames, 1, n - 1)
    <3>1. IsFrame(g) /\ g.for = caller.for
      BY <2>0 DEF IsFrame
    <3>2. frames' = Append(below, g)
      BY <2>3
    <3> HIDE DEF g
    <3>3. IsFile(frames[n])
      BY <2>3 DEF Top, Last, IsFile
    <3>4. IsSequence(Front(include_stack)) /\ Accounted(Front(include_stack), others)
      BY <1>0, <3>3, PopFile
    <3>5. DOMAIN others = 1 .. (n - 1) /\ \A i \in 1 .. (n - 1) : others[i] = frames[i]
      BY <1>0, PrefixFacts
    <3> HIDE DEF others
    <3>6. Accounted(include_stack', frames')
      <4>1. /\ include_stack' = Front(include_stack)
            /\ DOMAIN frames' = 1 .. (n - 1) /\ DOMAIN others = 1 .. (n - 1)
            /\ \A i \in 1 .. (n - 1) : frames'[i].for = others[i].for
        BY <2>1, <2>3, <3>1, <3>2, <3>5
      <4>2. 1 .. (n - 1) \subseteq Nat
        BY <1>0
      <4> QED
        BY <3>4, <4>1, <4>2, SameFor
    <3> QED
      BY <2>1, <2>3, <3>1, <3>2, <3>4, <3>6 DEF IncludeInv
  <2> QED
    BY <1>5, <2>2, <2>3 DEF Return
<1>6. CASE UNCHANGED << frames, include_stack >>
  BY <1>6 DEF IncludeInv
<1> QED
  BY <1>1, <1>2, <1>3, <1>4, <1>5, <1>6
     DEF Next, vars, NotFound, RefuseRecursive, Finish, Refuse

(* A file is never processed inside itself, so that inclusion ends.        *)
THEOREM FilesAreNotNested == Spec => []NoFileInsideItself
<1>1. IncludeInv => NoFileInsideItself
  <2> SUFFICES ASSUME IncludeInv, NEW i \in DOMAIN frames, NEW j \in DOMAIN frames, i < j,
                      frames[i].for.what = "file", frames[j].for.what = "file"
               PROVE  Including(i) # Including(j)
    BY DEF NoFileInsideItself
  <2>1. IsFile(frames[i]) /\ IsFile(frames[j]) /\ Accounted(include_stack, frames)
    BY DEF IsFile, IncludeInv
  <2>2. PICK p \in DOMAIN include_stack : include_stack[p] = FileOf(frames[i])
    BY <2>1 DEF Accounted
  <2>3. p \in Nat /\ ~(p < p)
    BY DEF IncludeInv, IsSequence
  <2>4. FileOf(frames[i]) # FileOf(frames[j])
    BY <2>1, <2>2, <2>3 DEF Accounted
  <2>5. Including(i) = {FileOf(frames[i])} /\ Including(j) = {FileOf(frames[j])}
    <3>1. \A x : Range(<< x >>) = {x}
      BY DEF Range
    <3> QED
      BY <2>1, <3>1 DEF Including, Accounted
  <2> QED
    BY <2>4, <2>5
<1>2. Init => IncludeInv
  BY InitInclude
<1>3. IncludeInv /\ [Next]_vars => IncludeInv'
  BY NextInclude
<1> QED
  BY <1>1, <1>2, <1>3, PTL DEF Spec

-----------------------------------------------------------------------------
(* Maps stay maps *)

Distinct(s) == \A i, j \in DOMAIN s : s[i].name = s[j].name => i = j

(* What FoldLeft computes on the way, for the first members and others. *)
UpdateFolds(g, base, over, n) ==
    g = [t \in SUBSET (1 .. n) |-> IF t = {} THEN base
                                   ELSE Updated(g[t \ {Max(t)}], over[Max(t)])]

LEMMA UpdateFoldExists ==
    ASSUME NEW n \in Nat, NEW base, NEW over
    PROVE  \E g : UpdateFolds(g, base, over, n)
<1> DEFINE G == {k \in 0 .. n : \E g : UpdateFolds(g, base, over, k)}
<1>1. 0 \in G
  <2> DEFINE g == [t \in SUBSET (1 .. 0) |-> base]
  <2>1. \A t \in SUBSET (1 .. 0) : t = {}
    OBVIOUS
  <2>2. UpdateFolds(g, base, over, 0)
    BY <2>1 DEF UpdateFolds
  <2> HIDE DEF g
  <2> QED
    BY <2>2
<1>2. ASSUME NEW k \in 0 .. n, k < n, k \in G PROVE k + 1 \in G
  <2>1. PICK f : UpdateFolds(f, base, over, k)
    BY <1>2
  <2> DEFINE g == [t \in SUBSET (1 .. (k + 1)) |->
                      IF k + 1 \in t THEN Updated(f[t \ {k + 1}], over[k + 1]) ELSE f[t]]
  <2>2. ASSUME NEW t \in SUBSET (1 .. (k + 1))
        PROVE  g[t] = IF t = {} THEN base ELSE Updated(g[t \ {Max(t)}], over[Max(t)])
    <3>1. CASE k + 1 \in t
      <4>1. Max(t) = k + 1
        <5>1. \A i \in t : i \in 1 .. (k + 1) /\ k + 1 >= i
          OBVIOUS
        <5>2. Max(t) \in t /\ \A i \in t : Max(t) >= i
          BY <3>1, <5>1 DEF Max
        <5>3. Max(t) \in 1 .. (k + 1) /\ Max(t) >= k + 1
          BY <3>1, <5>1, <5>2
        <5> QED
          BY <5>3
      <4>2. t \ {k + 1} \in SUBSET (1 .. k)
        OBVIOUS
      <4>3. t \ {k + 1} \in SUBSET (1 .. (k + 1)) /\ k + 1 \notin t \ {k + 1}
        OBVIOUS
      <4>4. g[t] = Updated(f[t \ {k + 1}], over[k + 1]) /\ g[t \ {k + 1}] = f[t \ {k + 1}]
        BY <3>1, <4>3
      <4> QED
        BY <3>1, <4>1, <4>4
    <3>2. CASE k + 1 \notin t
      <4>1. t \in SUBSET (1 .. k) /\ g[t] = f[t]
        BY <3>2
      <4>2. f[t] = IF t = {} THEN base ELSE Updated(f[t \ {Max(t)}], over[Max(t)])
        BY <2>1, <4>1 DEF UpdateFolds
      <4>3. g[t \ {Max(t)}] = f[t \ {Max(t)}]
        <5>1. \A x : t \ {x} \in SUBSET (1 .. (k + 1)) /\ k + 1 \notin t \ {x}
          BY <3>2
        <5> QED
          BY <5>1
      <4> QED
        BY <4>1, <4>2, <4>3
    <3> QED
      BY <3>1, <3>2
  <2>3. UpdateFolds(g, base, over, k + 1)
    BY <2>2 DEF UpdateFolds
  <2> HIDE DEF g
  <2>4. k + 1 \in 0 .. n
    BY <1>2
  <2> QED
    BY <2>3, <2>4
<1> HIDE DEF G
<1>3. \A k \in 0 .. n : k < n /\ k \in G => k + 1 \in G
  BY <1>2
<1>4. n \in G
  BY <1>1, <1>3, Induction
<1> QED
  BY <1>4 DEF G

(* The members are updated one after the other. *)
Updates(h, base, over, n) ==
    /\ h[0] = base
    /\ \A k \in 0 .. n : k < n => h[k + 1] = Updated(h[k], over[k + 1])
    /\ FoldLeft(Updated, base, over) = h[n]

LEMMA UpdateSteps ==
    ASSUME NEW n \in Nat, NEW over, DOMAIN over = 1 .. n, NEW base
    PROVE  \E h : Updates(h, base, over, n)
<1>0. PICK g : UpdateFolds(g, base, over, n)
  BY UpdateFoldExists
<1>1. g = [t \in SUBSET (1 .. n) |-> IF t = {} THEN base
                                   ELSE Updated(g[t \ {Max(t)}], over[Max(t)])]
  BY <1>0 DEF UpdateFolds
<1>2. PICK f : /\ f = [t \in SUBSET (1 .. n) |-> IF t = {} THEN base
                                   ELSE Updated(f[t \ {Max(t)}], over[Max(t)])]
               /\ FoldLeft(Updated, base, over) = f[1 .. n]
  BY <1>1 DEF FoldLeft, MapThenFoldSet
<1> DEFINE h == [k \in 0 .. n |-> f[1 .. k]]
<1>3. ASSUME NEW k \in 0 .. n, k < n
      PROVE  h[k + 1] = Updated(h[k], over[k + 1])
  <2>1. k + 1 \in 0 .. n /\ 1 .. k + 1 \in SUBSET (1 .. n) /\ k + 1 \in 1 .. k + 1
    BY <1>3
  <2>2. Max(1 .. k + 1) = k + 1
    BY <2>1, MaxOf
  <2>3. (1 .. k + 1) \ {k + 1} = 1 .. k
    BY <2>1
  <2>4. f[1 .. k + 1] = Updated(f[1 .. k], over[k + 1])
    BY <1>2, <2>1, <2>2, <2>3
  <2> QED
    BY <2>1, <2>4
<1>4. h[0] = base /\ h[n] = f[1 .. n]
  <2>1. 1 .. 0 = {} /\ {} \in SUBSET (1 .. n)
    OBVIOUS
  <2>2. f[{}] = base
    BY <1>2, <2>1
  <2> QED
    BY <2>1, <2>2
<1> HIDE DEF h
<1>5. Updates(h, base, over, n)
  BY <1>2, <1>3, <1>4 DEF Updates
<1> QED
  BY <1>5

(* A member takes the place of the one of its name, or comes last. *)
LEMMA UpdateFacts ==
    ASSUME NEW s, IsSequence(s), NEW m
    PROVE  /\ IsSequence(Updated(s, m))
           /\ Distinct(s) => Distinct(Updated(s, m))
<1> DEFINE same == Same(s, m)
           t == Updated(s, m)
<1>1. DOMAIN s = 1 .. Len(s) /\ Len(s) \in Nat /\ same \in SUBSET (1 .. Len(s))
  BY AppendFacts DEF Same
<1>2. CASE same = {}
  <2>1. t = Append(s, m)
    BY <1>2 DEF Updated, UpdateMember
  <2>2. \A i \in DOMAIN s : s[i].name # m.name
    BY <1>2 DEF Same
  <2> HIDE DEF t, same
  <2>3. /\ IsSequence(t) /\ DOMAIN t = 1 .. (Len(s) + 1)
        /\ t[Len(s) + 1] = m /\ \A i \in 1 .. Len(s) : t[i] = s[i]
    BY <2>1, AppendFacts
  <2>4. Distinct(s) => Distinct(t)
    BY <1>1, <2>2, <2>3 DEF Distinct
  <2> QED
    BY <2>3, <2>4 DEF t
<1>3. CASE same # {}
  <2> DEFINE k == Min(same)
             x == Item(m.name, PatchNested(Nested(s, m), m.value))
  <2>1. t = [s EXCEPT ![k] = x]
    BY <1>3 DEF Updated, UpdateMember
  <2>2. k \in same
    <3>1. Len(s) \in Nat /\ same \in SUBSET (1 .. Len(s))
      BY <1>1
    <3> HIDE DEF same
    <3> QED
      BY <1>3, <3>1, LeastOfInterval
  <2>3. k \in DOMAIN s /\ s[k].name = m.name /\ x.name = m.name
    BY <2>2 DEF Item, Same
  <2> HIDE DEF t, same, k, x
  <2>4. DOMAIN t = DOMAIN s /\ \A i \in DOMAIN s : t[i].name = s[i].name
    BY <2>1, <2>3
  <2>5. t = [i \in 1 .. Len(s) |-> t[i]]
    BY <1>1, <2>1
  <2>6. IsSequence(t)
    <3>1. \A i \in 1 .. Len(s) : t[i] \in Elements(t)
      BY <1>1, <2>4 DEF Elements
    <3> QED
      BY <1>1, <2>5, <3>1 DEF IsSequence
  <2>7. Distinct(s) => Distinct(t)
    BY <2>4 DEF Distinct
  <2> QED
    BY <2>6, <2>7 DEF t
<1> QED
  BY <1>2, <1>3

LEMMA MembersUpdated ==
    ASSUME NEW base, IsSequence(base), NEW over, IsSequence(over)
    PROVE  /\ IsSequence(FoldLeft(Updated, base, over))
           /\ Distinct(base) => Distinct(FoldLeft(Updated, base, over))
<1> DEFINE n == Len(over)
<1>1. n \in Nat /\ DOMAIN over = 1 .. n
  BY AppendFacts
<1> HIDE DEF n
<1>2. PICK h : Updates(h, base, over, n)
  BY <1>1, UpdateSteps
<1> DEFINE G == {k \in 0 .. n : IsSequence(h[k]) /\ (Distinct(base) => Distinct(h[k]))}
<1>3. 0 \in G
  BY <1>1, <1>2 DEF Updates
<1>4. ASSUME NEW k \in 0 .. n, k < n, k \in G PROVE k + 1 \in G
  <2>1. h[k + 1] = Updated(h[k], over[k + 1]) /\ k + 1 \in 0 .. n
    BY <1>1, <1>2, <1>4 DEF Updates
  <2> QED
    BY <1>4, <2>1, UpdateFacts
<1> HIDE DEF G
<1>5. n \in G
  <2>1. \A k \in 0 .. n : k < n /\ k \in G => k + 1 \in G
    BY <1>4
  <2>2. \A k \in 0 .. n : k \in G
    BY <1>1, <1>3, <2>1, Induction
  <2> QED
    BY <1>1, <2>2
<1> QED
  BY <1>2, <1>5 DEF G, Updates

(* A value of a property is a map if it is meant to be one. *)
IsMap(value) == value.kind = "members" => Distinct(value.items)

LEMMA ValuePatched ==
    ASSUME NEW base, NEW over, IsValue(base), IsValue(over)
    PROVE  /\ IsValue(PatchValue(base, over))
           /\ IsMap(base) /\ IsMap(over) => IsMap(PatchValue(base, over))
<1> DEFINE v == PatchValue(base, over)
           joined == base.items \o over.items
           updated == FoldLeft(Updated, base.items, over.items)
<1>1. IsSequence(base.items) /\ IsSequence(over.items)
  BY DEF IsValue, IsSequence, Elements, Range
<1>2. IsSequence(joined)
  <2> DEFINE M == Elements(base.items) \cup Elements(over.items)
  <2>1. base.items \in Seq(M) /\ over.items \in Seq(M)
    BY <1>1 DEF IsSequence
  <2> HIDE DEF M
  <2>2. joined \in Seq(M)
    BY <2>1
  <2> HIDE DEF joined
  <2>3. joined = [i \in 1 .. Len(joined) |-> joined[i]] /\ Len(joined) \in Nat
    BY <2>2
  <2>4. \A i \in 1 .. Len(joined) : joined[i] \in Elements(joined)
    BY <2>3 DEF Elements
  <2> QED
    BY <2>3, <2>4 DEF IsSequence
<1>3. IsSequence(updated) /\ (Distinct(base.items) => Distinct(updated))
  BY <1>1, MembersUpdated
<1>4. \/ v = over
      \/ v = List(joined)
      \/ v = [kind |-> over.kind, items |-> updated] /\ base.kind = over.kind
  BY DEF PatchValue, AreMaps, ReplaceOrExtend, IsValue
<1>5. over.kind \in {"scalar", "list", "members", "map"}
  BY DEF IsValue
<1> HIDE DEF v, joined, updated
<1>6. \A s : IsSequence(s) => s \in Seq(Range(s))
  BY DEF IsSequence, Elements, Range
<1>7. CASE v = over
  BY <1>7 DEF v
<1>8. CASE v = List(joined)
  <2>1. v = [kind |-> "list", items |-> joined]
    BY <1>8 DEF List
  <2>2. IsValue(v) /\ IsMap(v)
    BY <1>2, <1>6, <2>1 DEF IsValue, IsMap
  <2> QED
    BY <2>2 DEF v
<1>9. CASE v = [kind |-> over.kind, items |-> updated] /\ base.kind = over.kind
  <2>1. IsValue(v) /\ (IsMap(base) => IsMap(v))
    BY <1>3, <1>5, <1>6, <1>9 DEF IsValue, IsMap
  <2> QED
    BY <2>1 DEF v
<1> QED
  BY <1>4, <1>7, <1>8, <1>9

(* A node whose maps are maps if they are meant to be. *)
IsGood(node, maps) == IsNode(node) /\ (maps => HasUniqueMembers(node))

LEMMA MapsOfNode ==
    ASSUME NEW node
    PROVE  HasUniqueMembers(node) <=> \A k \in DOMAIN node.props : IsMap(node.props[k])
BY DEF HasUniqueMembers, IsMap, Distinct

LEMMA NodePatched ==
    ASSUME NEW base, NEW over, NEW maps, IsGood(base, maps), IsGood(over, maps)
    PROVE  IsGood(Patch(base, over), maps)
<1> DEFINE b == base.props
           o == over.props
           p == PatchProps(b, o)
           node == Patch(base, over)
<1>1. /\ \A k \in DOMAIN b : IsValue(b[k]) /\ (maps => IsMap(b[k]))
      /\ \A k \in DOMAIN o : IsValue(o[k]) /\ (maps => IsMap(o[k]))
  BY MapsOfNode DEF IsGood, IsNode
<1>2. node = Node(node.include, p, node.children) /\ node.props = p
  BY DEF Patch, Patched, Node
<1> HIDE DEF b, o, node
<1>3. /\ DOMAIN p = DOMAIN b \cup DOMAIN o
      /\ \A k \in DOMAIN p :
            p[k] = IF k \in Shared(b, o) THEN PatchValue(b[k], o[k])
                   ELSE IF k \in DOMAIN o THEN o[k] ELSE b[k]
  BY DEF PatchProps
<1> HIDE DEF p
<1>4. ASSUME NEW k \in DOMAIN p
      PROVE  IsValue(p[k]) /\ (maps => IsMap(p[k]))
  <2>1. CASE k \in Shared(b, o)
    <3>1. k \in DOMAIN b /\ k \in DOMAIN o /\ p[k] = PatchValue(b[k], o[k])
      BY <1>3, <2>1 DEF Shared
    <3> QED
      BY <1>1, <3>1, ValuePatched
  <2>2. CASE k \notin Shared(b, o) /\ k \in DOMAIN o
    <3>1. p[k] = o[k] /\ k \in DOMAIN o
      BY <1>3, <2>2
    <3> QED
      BY <1>1, <3>1
  <2>3. CASE k \notin Shared(b, o) /\ k \notin DOMAIN o
    <3>1. p[k] = b[k] /\ k \in DOMAIN b
      BY <1>3, <2>3
    <3> QED
      BY <1>1, <3>1
  <2> QED
    BY <2>1, <2>2, <2>3
<1>5. IsNode(node) /\ (maps => HasUniqueMembers(node))
  BY <1>2, <1>4, MapsOfNode DEF IsNode
<1> QED
  BY <1>5 DEF IsGood, node

(* A node with other children, or without what it includes. *)
LEMMA NodeChanged ==
    ASSUME NEW node, NEW maps, IsGood(node, maps), NEW x
    PROVE  /\ IsGood([node EXCEPT !.children = x], maps)
           /\ IsGood([node EXCEPT !.include = x], maps)
<1>1. node = [include |-> node.include, props |-> node.props, children |-> node.children]
  BY DEF IsGood, IsNode, Node
<1> DEFINE c == [node EXCEPT !.children = x]
           i == [node EXCEPT !.include = x]
<1>2. /\ c = [include |-> node.include, props |-> node.props, children |-> x]
      /\ i = [include |-> x, props |-> node.props, children |-> node.children]
  BY <1>1
<1> HIDE DEF c, i
<1>3. /\ c = [include |-> c.include, props |-> c.props, children |-> c.children]
      /\ i = [include |-> i.include, props |-> i.props, children |-> i.children]
      /\ c.props = node.props /\ i.props = node.props
  BY <1>2
<1>4. IsGood(c, maps) /\ IsGood(i, maps)
  BY <1>3 DEF IsGood, IsNode, Node, HasUniqueMembers
<1> QED
  BY <1>4 DEF c, i

(* A path leads to a file of the set, or nowhere. *)
LEMMA PathLocated ==
    ASSUME NEW files \in FileSets, NEW path \in DOMAIN Found
    PROVE  Located(path) = NoFile \/ Located(path) \in DOMAIN files
<1> DEFINE s == Found[path]
           there == {i \in DOMAIN s : s[i] # NoFile}
<1>1. s \in Seq(DOMAIN files \cup {NoFile})
  BY IncludeAssumption DEF IncludeAssumption
<1> HIDE DEF s
<1>2. /\ DOMAIN s = 1 .. Len(s) /\ Len(s) \in Nat /\ there \in SUBSET (1 .. Len(s))
      /\ \A i \in DOMAIN s : s[i] \in DOMAIN files \cup {NoFile}
  BY <1>1
<1>3. there # {} => Min(there) \in there
  <2> HIDE DEF there
  <2> QED
    BY <1>2, LeastOfInterval
<1>4. Located(path) = IF there = {} THEN NoFile ELSE s[Min(there)]
  BY DEF Located, s
<1>5. CASE there # {}
  BY <1>2, <1>3, <1>4, <1>5
<1> QED
  BY <1>4, <1>5

(* The layers of the node the parser is given: its own frame, and those of *)
(* the files it includes, directly or not, but for their nested nodes.     *)
Own(fs, i) == \A j \in 1 .. i : fs[j].for.what # "child"

Layered(f, maps) ==
    /\ IsGood(f.node, maps)
    /\ f.todo \in Seq(DOMAIN Found)
    /\ f.base # << >> => IsGood(f.base[1], maps)

Layers(fs, maps) == \A i \in DOMAIN fs : Own(fs, i) => Layered(fs[i], maps)

LEMMA LayersPrefix ==
    ASSUME NEW fs, IsSequence(fs), NEW n \in 0 .. Len(fs), NEW maps, Layers(fs, maps)
    PROVE  Layers(SubSeq(fs, 1, n), maps)
<1> DEFINE gs == SubSeq(fs, 1, n)
<1>1. Len(fs) \in Nat /\ DOMAIN fs = 1 .. Len(fs)
  BY DEF IsSequence
<1>2. DOMAIN gs = 1 .. n /\ \A i \in 1 .. n : gs[i] = fs[i]
  BY PrefixFacts
<1> HIDE DEF gs
<1>3. ASSUME NEW i \in 1 .. n, Own(gs, i)
      PROVE  Layered(gs[i], maps)
  <2>1. i \in DOMAIN fs /\ \A j \in 1 .. i : j \in 1 .. n
    BY <1>1
  <2>2. Own(fs, i)
    BY <1>2, <1>3, <2>1 DEF Own
  <2> QED
    BY <1>2, <2>1, <2>2 DEF Layers
<1>4. Layers(gs, maps)
  BY <1>2, <1>3 DEF Layers
<1> QED
  BY <1>4 DEF gs

LEMMA LayersAppend ==
    ASSUME NEW fs, IsSequence(fs), NEW maps, Layers(fs, maps), NEW f,
           Own(fs, Len(fs)) /\ f.for.what # "child" => Layered(f, maps)
    PROVE  Layers(Append(fs, f), maps)
<1> DEFINE gs == Append(fs, f)
           n == Len(fs)
<1>1. /\ n \in Nat /\ DOMAIN fs = 1 .. n /\ DOMAIN gs = 1 .. (n + 1)
      /\ \A i \in 1 .. n : gs[i] = fs[i]
      /\ gs[n + 1] = f
  BY AppendFacts
<1> HIDE DEF gs
<1>2. ASSUME NEW i \in 1 .. n, Own(gs, i)
      PROVE  Layered(gs[i], maps)
  <2>1. i \in DOMAIN fs /\ \A j \in 1 .. i : j \in 1 .. n
    BY <1>1
  <2>2. Own(fs, i)
    BY <1>1, <1>2, <2>1 DEF Own
  <2> QED
    BY <1>1, <2>1, <2>2 DEF Layers
<1>3. ASSUME Own(gs, n + 1)
      PROVE  Layered(gs[n + 1], maps)
  <2>1. \A j \in 1 .. n : j \in 1 .. (n + 1)
    BY <1>1
  <2>2. n + 1 \in 1 .. (n + 1)
    BY <1>1
  <2>3. Own(fs, n) /\ f.for.what # "child"
    BY <1>1, <1>3, <2>1, <2>2 DEF Own
  <2> QED
    BY <1>1, <2>3
<1>4. \A i \in 1 .. (n + 1) : i \in 1 .. n \/ i = n + 1
  BY <1>1
<1>5. Layers(gs, maps)
  BY <1>1, <1>2, <1>3, <1>4 DEF Layers
<1> QED
  BY <1>5 DEF gs

(* Replacing the innermost frame by one for the same thing. *)
LEMMA LayersWithin ==
    ASSUME IncludeInv, NEW maps, Layers(frames, maps), NEW f, f.for = Top.for,
           Layered(Top, maps) => Layered(f, maps)
    PROVE  Layers(Within(f), maps)
<1> DEFINE n == Len(frames)
           b == Front(frames)
<1>1. IsSequence(frames) /\ n \in Nat /\ n > 0 /\ DOMAIN frames = 1 .. n /\ n - 1 \in 0 .. n
  BY DEF IncludeInv, IsSequence
<1>2. /\ IsSequence(b) /\ Len(b) = n - 1 /\ Layers(b, maps)
      /\ \A i \in 1 .. (n - 1) : b[i] = frames[i]
  BY <1>1, PrefixFacts, LayersPrefix DEF Front
<1>3. Within(f) = Append(b, f) /\ Top = frames[n]
  BY DEF Within, Top, Last
<1> HIDE DEF n, b
<1>4. ASSUME Own(b, Len(b)), f.for.what # "child"
      PROVE  Layered(f, maps)
  <2>1. ASSUME NEW j \in 1 .. n PROVE frames[j].for.what # "child"
    <3>1. j = n \/ j \in 1 .. (n - 1)
      BY <1>1
    <3> QED
      BY <1>2, <1>3, <1>4, <3>1 DEF Own
  <2>2. Own(frames, n) /\ n \in DOMAIN frames
    BY <1>1, <2>1 DEF Own
  <2> QED
    BY <1>3, <2>2 DEF Layers
<1> QED
  BY <1>2, <1>3, <1>4, LayersAppend

(* The effective node of the innermost frame. *)
LEMMA EffectiveGood ==
    ASSUME NEW maps, Layered(Top, maps)
    PROVE  IsGood(Effective, maps)
BY NodePatched DEF Layered, Effective, Overlay

(* The frame of a document. *)
LEMMA FrameLayered ==
    ASSUME NEW node, NEW maps, IsGood(node, maps), node.include \in Seq(DOMAIN Found),
           NEW level, NEW for
    PROVE  Layered(Frame(node, level, for), maps)
<1> DEFINE f == Frame(node, level, for)
           own == [node EXCEPT !.include = << >>]
<1>1. IsGood(own, maps)
  BY NodeChanged
<1>2. f.node = own /\ f.todo = node.include /\ f.base = << >>
  BY DEF Frame
<1> QED
  BY <1>1, <1>2 DEF Layered

MapsInv ==
    /\ IncludeInv
    /\ docs \in FileSets
    /\ frames[1].for.what # "child"
    /\ Layers(frames, DocumentsAreMaps)
    /\ \A i \in DOMAIN result : IsGood(result[i], DocumentsAreMaps)

LEMMA InitMaps == Init => MapsInv
<1> SUFFICES ASSUME Init PROVE MapsInv
  OBVIOUS
<1> DEFINE f == Frame(root, 1, ForRoot)
           maps == DocumentsAreMaps
<1>1. frames = << f >> /\ docs \in FileSets /\ result = << >> /\ root \in Roots
  BY DEF Init
<1>2. IsIncluder(root)
  BY <1>1, IncludeAssumption DEF IncludeAssumption
<1>3. IsGood(root, maps) /\ root.include \in Seq(DOMAIN Found)
  BY <1>2 DEF IsIncluder, IsGood, DocumentsAreMaps
<1> HIDE DEF maps
<1>4. Layered(f, maps)
  BY <1>3, FrameLayered
<1>7. f.for.what # "child"
  BY NewFrame DEF ForRoot
<1> HIDE DEF f
<1>5. DOMAIN frames = {1} /\ frames[1] = f /\ DOMAIN result = {}
  BY <1>1
<1>6. Layers(frames, maps)
  BY <1>4, <1>5 DEF Layers
<1> QED
  BY <1>1, <1>5, <1>6, <1>7, InitInclude DEF MapsInv, maps

(* The next path of a frame. *)
LEMMA TodoFacts ==
    ASSUME MapsInv, MayInclude, NEW maps, Layered(Top, maps)
    PROVE  /\ Layered(SkipPath, maps)
           /\ NextFile = NoFile \/ NextFile \in DOMAIN docs
<1> DEFINE t == Top
           todo == t.todo
<1>1. IsFrame(t)
  BY DEF MapsInv, IncludeInv, Top, Last, IsSequence
<1>2. todo \in Seq(DOMAIN Found) /\ todo # << >>
  BY DEF Layered, MayInclude
<1>3. SkipPath = [t EXCEPT !.todo = Tail(todo)]
  BY DEF SkipPath
<1>4. NextFile = Located(Head(todo)) /\ docs \in FileSets /\ Layered(t, maps)
  BY DEF NextFile, MapsInv
<1> HIDE DEF t, todo
<1>5. Head(todo) \in DOMAIN Found /\ Tail(todo) \in Seq(DOMAIN Found)
  BY <1>2
<1>6. \A x : [t EXCEPT !.todo = x].node = t.node /\ [t EXCEPT !.todo = x].base = t.base
             /\ [t EXCEPT !.todo = x].todo = x
  BY <1>1 DEF IsFrame
<1>7. Layered(SkipPath, maps)
  BY <1>3, <1>4, <1>5, <1>6 DEF Layered
<1> QED
  BY <1>4, <1>5, <1>7, PathLocated

(* Every layer is a map, and so is what becomes of them. *)
LEMMA NextMaps == MapsInv /\ [Next]_vars => MapsInv'
<1> SUFFICES ASSUME MapsInv, [Next]_vars PROVE MapsInv'
  OBVIOUS
<1> DEFINE n == Len(frames)
           maps == DocumentsAreMaps
<1>0. /\ IncludeInv /\ IncludeInv' /\ docs \in FileSets
      /\ IsSequence(frames)
      /\ n \in Nat /\ n > 0 /\ DOMAIN frames = 1 .. n
      /\ frames[1].for.what # "child"
      /\ Layers(frames, maps)
      /\ \A i \in DOMAIN result : IsGood(result[i], maps)
  BY NextInclude DEF MapsInv, IncludeInv, IsSequence
<1>1. docs' = docs /\ root' = root
  BY DEF Next, vars, ProcessChild, NotFound, IgnoreNotFound, RefuseRecursive, LoadInclude,
         LoadEmpty, Return, Finish, Refuse
<1>2. DocumentsAreMaps' = maps
  BY <1>1 DEF DocumentsAreMaps
<1> HIDE DEF maps
<1>3. ASSUME Layers(frames', maps), frames'[1].for = frames[1].for, UNCHANGED result
      PROVE  MapsInv'
  <2>1. \A i \in DOMAIN result' : IsGood(result'[i], maps)
    BY <1>0, <1>3
  <2> QED
    BY <1>0, <1>1, <1>2, <1>3, <2>1 DEF MapsInv
<1>4. Own(frames, n) => Layered(Top, maps)
  BY <1>0 DEF Layers, Top, Last
<1>5. CASE ProcessChild
  <2>1. PICK name : frames' = Append(Within([Top EXCEPT !.pending = @ \ {name}]),
                                     Frame(Top.node.children[name], Top.level + 1,
                                           ForChild(name)))
    BY <1>5 DEF ProcessChild
  <2> DEFINE t == [Top EXCEPT !.pending = @ \ {name}]
             f == Frame(Top.node.children[name], Top.level + 1, ForChild(name))
             w == Within(t)
  <2>2. f.for.what = "child"
    BY NewFrame DEF ForChild
  <2>3. IsFrame(t) /\ t.for = Top.for
    BY <1>0, ChangedTop
  <2>4. t.node = Top.node /\ t.base = Top.base /\ t.todo = Top.todo
    <3>1. IsFrame(Top)
      BY <1>0 DEF IncludeInv, Top, Last
    <3> QED
      BY <3>1 DEF IsFrame
  <2>5. frames' = Append(w, f) /\ UNCHANGED result
    BY <1>5, <2>1 DEF ProcessChild
  <2> HIDE DEF t, f
  <2>6. Layered(Top, maps) => Layered(t, maps)
    BY <2>4 DEF Layered
  <2>7. IsSequence(w) /\ Layers(w, maps) /\ Len(w) = n /\ w[1].for = frames[1].for
    BY <1>0, <2>3, <2>6, WithinFacts, LayersWithin
  <2> HIDE DEF w
  <2>8. Layers(frames', maps) /\ frames'[1].for = frames[1].for
    BY <1>0, <2>2, <2>5, <2>7, LayersAppend, AppendFacts
  <2> QED
    BY <1>3, <2>5, <2>8
<1>6. ASSUME MayInclude
      PROVE  /\ IsSequence(Within(SkipPath))
             /\ Layers(Within(SkipPath), maps)
             /\ Within(SkipPath)[1].for = frames[1].for
  <2>1. IsFrame(SkipPath) /\ SkipPath.for = Top.for
    BY <1>0, ChangedTop
  <2>2. Layered(Top, maps) => Layered(SkipPath, maps)
    BY <1>6, TodoFacts
  <2> QED
    BY <1>0, <2>1, <2>2, WithinFacts, LayersWithin
<1>7. CASE IgnoreNotFound
  <2>1. MayInclude /\ frames' = Within(SkipPath) /\ UNCHANGED result
    BY <1>7 DEF IgnoreNotFound
  <2> QED
    BY <1>3, <1>6, <2>1
<1>8. CASE LoadEmpty
  <2>1. MayInclude /\ frames' = Within(SkipPath) /\ UNCHANGED result
    BY <1>8 DEF LoadEmpty
  <2> QED
    BY <1>3, <1>6, <2>1
<1>9. CASE LoadInclude
  <2> DEFINE w == Within(SkipPath)
             d == docs[NextFile]
             f == Frame(d, Top.level, ForFile(NextFile))
  <2>1. /\ MayInclude /\ frames' = Append(w, f) /\ UNCHANGED result
        /\ NextFile # NoFile /\ d # Empty
    BY <1>9 DEF LoadInclude
  <2>2. ASSUME Layered(Top, maps)
        PROVE  Layered(f, maps)
    <3>1. NextFile \in DOMAIN docs
      BY <2>1, <2>2, TodoFacts
    <3>2. IsIncluder(d)
      BY <1>0, <2>1, <3>1, IncludeAssumption DEF IncludeAssumption
    <3>3. IsGood(d, maps) /\ d.include \in Seq(DOMAIN Found)
      BY <2>1, <3>1, <3>2 DEF IsIncluder, IsGood, DocumentsAreMaps, maps
    <3> HIDE DEF d
    <3> QED
      BY <3>3, FrameLayered
  <2> HIDE DEF f
  <2>3. ASSUME Own(w, Len(w))
        PROVE  Own(frames, n)
    <3>1. /\ Len(w) = n /\ DOMAIN w = DOMAIN frames
          /\ \A i \in DOMAIN frames : w[i].for = frames[i].for
      BY <1>0, ChangedTop, WithinFacts
    <3> HIDE DEF w
    <3> QED
      BY <1>0, <2>3, <3>1 DEF Own
  <2>4. /\ IsSequence(w) /\ Layers(w, maps) /\ Len(w) = n
        /\ w[1].for = frames[1].for
    BY <1>0, <1>6, <2>1, ChangedTop, WithinFacts
  <2> HIDE DEF w
  <2>5. Layers(frames', maps) /\ frames'[1].for = frames[1].for
    BY <1>0, <1>4, <2>1, <2>2, <2>3, <2>4, LayersAppend, AppendFacts
  <2> QED
    BY <1>3, <2>1, <2>5
<1>10. CASE Return
  <2> DEFINE caller == frames[n - 1]
             of == Top.for.of[1]
             below == SubSeq(frames, 1, n - 2)
  <2>0. n > 1 /\ IsFrame(caller) /\ UNCHANGED result
    BY <1>0, <1>10 DEF Return, IncludeInv
  <2>1. n - 2 \in 0 .. n /\ n - 1 \in 1 .. n
    BY <1>0, <2>0
  <2>2. /\ IsSequence(below) /\ Len(below) = n - 2 /\ Layers(below, maps)
        /\ \A i \in 1 .. (n - 2) : below[i] = frames[i]
    BY <1>0, <2>1, PrefixFacts, LayersPrefix
  <2> HIDE DEF below
  <2>3. ASSUME NEW g, g.for = caller.for, Own(below, Len(below)) /\ g.for.what # "child"
        PROVE  Own(frames, n - 1) /\ Layered(caller, maps)
    <3>1. ASSUME NEW j \in 1 .. (n - 1) PROVE frames[j].for.what # "child"
      <4>1. j \in Nat /\ n \in Nat /\ 1 <= j /\ j <= n - 1
        BY <1>0, <2>0
      <4>2. j = n - 1 \/ j \in 1 .. (n - 2)
        BY <4>1
      <4> QED
        BY <2>2, <2>3, <4>2 DEF Own
    <3>2. Own(frames, n - 1) /\ n - 1 \in DOMAIN frames
      BY <1>0, <2>1, <3>1 DEF Own
    <3> QED
      BY <1>0, <3>2 DEF Layers
  <2>6. ASSUME NEW g, g.for = caller.for
        PROVE  Append(below, g)[1].for = frames[1].for
    <3>1. CASE n = 2
      BY <2>2, <2>6, <3>1, AppendFacts
    <3>2. CASE n # 2
      <4>1. 1 \in 1 .. (n - 2)
        BY <1>0, <2>0, <3>2
      <4> QED
        BY <2>2, <4>1, AppendFacts
    <3> QED
      BY <3>1, <3>2
  <2>4. CASE /\ Top.for.what = "child"
             /\ frames' = Append(below, [caller EXCEPT !.node.children[of] = Effective])
    <3> DEFINE x == [caller.node.children EXCEPT ![of] = Effective]
               node == [caller.node EXCEPT !.children = x]
               g == [caller EXCEPT !.node = node]
    <3>1. frames' = Append(below, g)
      BY <2>4
    <3> HIDE DEF x
    <3>2. g.for = caller.for /\ g.node = node /\ g.base = caller.base /\ g.todo = caller.todo
      BY <2>0 DEF IsFrame
    <3>3. \A m : IsGood(caller.node, m) => IsGood(node, m)
      BY NodeChanged
    <3> HIDE DEF g, node
    <3>4. Layered(caller, maps) => Layered(g, maps)
      BY <3>2, <3>3 DEF Layered
    <3>5. Layers(frames', maps) /\ frames'[1].for = frames[1].for
      BY <2>2, <2>3, <2>6, <3>1, <3>2, <3>4, LayersAppend
    <3> QED
      BY <1>3, <2>0, <3>5
  <2>5. CASE /\ Top.for.what = "file"
             /\ frames' = Append(below, [caller EXCEPT !.base = << Overlay(@, Effective) >>])
    <3> DEFINE base == << Overlay(caller.base, Effective) >>
               g == [caller EXCEPT !.base = base]
    <3>1. frames' = Append(below, g)
      BY <2>5
    <3>2. g.for = caller.for /\ g.node = caller.node /\ g.base = base /\ g.todo = caller.todo
      BY <2>0 DEF IsFrame
    <3>3. base[1] = Overlay(caller.base, Effective)
      OBVIOUS
    <3> HIDE DEF g, base
    <3>4. ASSUME Own(frames, n - 1), Layered(caller, maps)
          PROVE  Layered(g, maps)
      <4>1. ASSUME NEW j \in 1 .. n PROVE frames[j].for.what # "child"
        <5>1. j \in Nat /\ n \in Nat /\ 1 <= j /\ j <= n
          BY <1>0, <2>0
        <5>2. j = n \/ j \in 1 .. (n - 1)
          BY <5>1
        <5> QED
          BY <2>5, <3>4, <5>2 DEF Own, Top, Last
      <4>2. Own(frames, n)
        BY <4>1 DEF Own
      <4>3. IsGood(Effective, maps)
        BY <1>4, <4>2, EffectiveGood
      <4>4. IsGood(Overlay(caller.base, Effective), maps)
        BY <3>4, <4>3, NodePatched DEF Overlay, Layered
      <4> QED
        BY <3>2, <3>3, <3>4, <4>4 DEF Layered
    <3>5. Layers(frames', maps) /\ frames'[1].for = frames[1].for
      BY <2>2, <2>3, <2>6, <3>1, <3>2, <3>4, LayersAppend
    <3> QED
      BY <1>3, <2>0, <3>5
  <2> QED
    BY <1>10, <2>4, <2>5 DEF Return, below
<1>11. CASE Finish
  <2>1. n = 1 /\ result' = << Effective >> /\ UNCHANGED frames
    BY <1>11 DEF Finish
  <2>2. Own(frames, n)
    BY <1>0, <2>1 DEF Own
  <2>3. IsGood(Effective, maps)
    BY <1>4, <2>2, EffectiveGood
  <2>4. \A i \in DOMAIN result' : IsGood(result'[i], maps)
    BY <2>1, <2>3
  <2> QED
    BY <1>0, <1>1, <1>2, <2>1, <2>4 DEF MapsInv
<1>12. CASE UNCHANGED << frames, result >>
  BY <1>0, <1>3, <1>12
<1> QED
  BY <1>5, <1>7, <1>8, <1>9, <1>10, <1>11, <1>12 DEF Next, vars, NotFound, RefuseRecursive, Refuse

(* An ordered map stays one, however many layers make it: no layer adds a  *)
(* member beside the one of the same name.                                 *)
THEOREM MembersAreNotRepeated == Spec => []MembersStayUnique
<1>1. MapsInv => MembersStayUnique
  BY DEF MapsInv, MembersStayUnique, IsGood
<1>2. Init => MapsInv
  BY InitMaps
<1>3. MapsInv /\ [Next]_vars => MapsInv'
  BY NextMaps
<1> QED
  BY <1>1, <1>2, <1>3, PTL DEF Spec

=============================================================================
