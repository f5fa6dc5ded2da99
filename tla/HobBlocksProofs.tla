--------------------------- MODULE HobBlocksProofs ---------------------------
(***************************************************************************)
(* Proof that HobBodies implements HobBlocks.                              *)
(***************************************************************************)
EXTENDS HobBodiesRefines, HobBodiesProofs

(***************************************************************************)
(* Lists                                                                   *)
(***************************************************************************)
LEMMA TopReplaced ==
    ASSUME NEW S, NEW s \in Seq(S), NEW a \in S, NEW b \in S
    PROVE  /\ Append(s, a) # <<>> /\ Len(Append(s, a)) = Len(s) + 1
           /\ Append(s, a)[Len(Append(s, a))] = a
           /\ [Append(s, a) EXCEPT ![Len(Append(s, a))] = b] = Append(s, b)
           /\ Front(Append(s, a)) = s
<1> DEFINE x == Append(s, a)
           y == Append(s, b)
<1>1. /\ x \in Seq(S) /\ Len(x) = Len(s) + 1 /\ x[Len(s) + 1] = a /\ x # <<>>
      /\ \A i \in 1..Len(s) : x[i] = s[i]
  BY AppendFacts
<1>2. /\ y \in Seq(S) /\ Len(y) = Len(s) + 1 /\ y[Len(s) + 1] = b
      /\ \A i \in 1..Len(s) : y[i] = s[i]
  BY AppendFacts
<1>3. Front(x) \in Seq(S) /\ Len(Front(x)) = Len(s) /\ \A i \in 1..Len(s) : Front(x)[i] = s[i]
  <2> HIDE DEF x
  <2>1. /\ Front(x) \in Seq(S) /\ Len(Front(x)) = Len(x) - 1
        /\ \A i \in 1..Len(x) - 1 : Front(x)[i] = x[i]
    BY <1>1, FrontFacts
  <2>2. Len(s) \in Nat /\ Len(x) - 1 = Len(s)
    BY <1>1, LenProperties
  <2> QED
    BY <1>1, <2>1, <2>2
<1>4. Len(s) \in Nat /\ DOMAIN x = 1..Len(s) + 1 /\ DOMAIN y = 1..Len(s) + 1
  BY <1>1, <1>2, LenProperties
<1> HIDE DEF x, y
<1>5. Front(x) = s
  BY <1>3, <1>4, SeqEqual
<1>6. [x EXCEPT ![Len(s) + 1] = b] = y
  <2> DEFINE z == [x EXCEPT ![Len(s) + 1] = b]
  <2>1. z = [i \in 1..Len(s) + 1 |-> IF i = Len(s) + 1 THEN b ELSE x[i]]
    BY <1>4
  <2>2. y = [i \in 1..Len(s) + 1 |-> y[i]]
    BY <1>2, <1>4
  <2>3. \A i \in 1..Len(s) + 1 : y[i] = IF i = Len(s) + 1 THEN b ELSE x[i]
    BY <1>1, <1>2, <1>4
  <2> QED
    BY <2>1, <2>2, <2>3
<1> QED
  BY <1>1, <1>5, <1>6 DEF x, y

LEMMA ReverseConcat ==
    ASSUME NEW S, NEW c \in Seq(S), NEW d \in Seq(S)
    PROVE  Reverse(c \o d) = Reverse(d) \o Reverse(c)
<1> DEFINE m == Len(c)
           n == Len(d)
           e == c \o d
           u == Reverse(d)
           v == Reverse(c)
           w == u \o v
           r == Reverse(e)
<1>1. /\ m \in Nat /\ n \in Nat /\ e \in Seq(S) /\ Len(e) = m + n
      /\ \A i \in 1..m + n : e[i] = IF i <= m THEN c[i] ELSE d[i - m]
  BY LenProperties, ConcatProperties
<1>2. u \in Seq(S) /\ v \in Seq(S) /\ r \in Seq(S)
  BY <1>1, ReverseFacts
<1>3. u = [i \in 1..n |-> d[(n - i) + 1]]
  BY DEF Reverse
<1>4. v = [i \in 1..m |-> c[(m - i) + 1]]
  BY DEF Reverse
<1>5. r = [i \in 1..Len(e) |-> e[(Len(e) - i) + 1]]
  BY DEF Reverse
<1> HIDE DEF m, n, e, u, v, r
<1>6. Len(u) = n /\ Len(v) = m
  BY <1>1, <1>2, <1>3, <1>4, LenProperties
<1>7. Len(r) = m + n
  BY <1>1, <1>2, <1>5, LenProperties
<1>8. /\ w \in Seq(S) /\ Len(w) = n + m
      /\ \A i \in 1..n + m : w[i] = IF i <= n THEN u[i] ELSE v[i - n]
  BY <1>2, <1>6, ConcatProperties
<1> HIDE DEF w
<1>9. ASSUME NEW i \in 1..m + n PROVE r[i] = w[i]
  <2>1. r[i] = e[((m + n) - i) + 1] /\ ((m + n) - i) + 1 \in 1..m + n /\ i \in 1..n + m
    BY <1>1, <1>5
  <2>2. CASE i <= n
    <3>1. ~(((m + n) - i) + 1 <= m) /\ (((m + n) - i) + 1) - m = (n - i) + 1 /\ i \in 1..n
      BY <1>1, <2>2
    <3> QED
      BY <1>1, <1>3, <1>8, <2>1, <2>2, <3>1
  <2>3. CASE ~(i <= n)
    <3>1. ((m + n) - i) + 1 <= m /\ i - n \in 1..m /\ (m - (i - n)) + 1 = ((m + n) - i) + 1
      BY <1>1, <2>3
    <3>2. w[i] = v[i - n] /\ v[i - n] = c[(m - (i - n)) + 1]
      BY <1>4, <1>8, <2>1, <2>3, <3>1
    <3> QED
      BY <1>1, <2>1, <3>1, <3>2
  <2> QED
    BY <2>2, <2>3
<1>10. m + n = n + m
  BY <1>1
<1>11. Len(r) = Len(w)
  BY <1>7, <1>8, <1>10
<1>12. r = w
  BY <1>2, <1>7, <1>8, <1>9, <1>11, SeqEqual
<1> QED
  BY <1>12 DEF r, w, e, u, v

(***************************************************************************)
(* Blocks                                                                  *)
(***************************************************************************)
BlockType == [loop : LoopNames \cup {NoName, NoLoop}, pending : Seq(Nat)]

\* A function as in PendingFrom, from block j of n on.
RunsBack(f, j, n, blocks) ==
    f = [k \in j..n + 1 |-> IF k > n THEN <<>> ELSE blocks[k].pending \o f[k + 1]]

LEMMA RunsBackExists ==
    ASSUME NEW n \in Nat, NEW blocks
    PROVE  \E f : RunsBack(f, 1, n, blocks)
<1> DEFINE T == {d \in 0..n : ~\E f : RunsBack(f, (n + 1) - d, n, blocks)}
<1>1. T = {}
  <2>1. SUFFICES ASSUME T # {} PROVE FALSE
    OBVIOUS
  <2>2. PICK d \in T : \A e \in T : d <= e
    <3>1. T \subseteq Nat
      OBVIOUS
    <3> HIDE DEF T
    <3> QED
      BY <2>1, <3>1, LeastElement
  <2> DEFINE j == (n + 1) - d
  <2>3. j \in 1..n + 1 /\ d \in 0..n /\ j \in Nat /\ (d = 0 <=> j > n)
    OBVIOUS
  <2>4. \E g : d = 0 \/ RunsBack(g, j + 1, n, blocks)
    <3>1. CASE d = 0
      BY <3>1
    <3>2. CASE d # 0
      <4>1. d - 1 \in 0..n /\ ~(d <= d - 1) /\ (n + 1) - (d - 1) = j + 1
        BY <2>3, <3>2
      <4>2. d - 1 \notin T
        BY <2>2, <4>1
      <4> QED
        BY <4>1, <4>2
    <3> QED
      BY <3>1, <3>2
  <2>5. PICK g : d = 0 \/ RunsBack(g, j + 1, n, blocks)
    BY <2>4
  <2> DEFINE h == [k \in j..n + 1 |-> IF k = j THEN IF j > n THEN <<>> ELSE blocks[j].pending \o g[j + 1]
                                      ELSE g[k]]
  <2>6. ASSUME NEW k \in j..n + 1
        PROVE  h[k] = IF k > n THEN <<>> ELSE blocks[k].pending \o h[k + 1]
    <3>1. k > n \/ (k + 1 \in j..n + 1 /\ k + 1 # j)
      BY <2>3
    <3>2. CASE k = j
      BY <3>1, <3>2
    <3>3. CASE k # j
      <4>1. k \in j + 1..n + 1 /\ d # 0
        BY <3>3, <2>3
      <4>2. g[k] = IF k > n THEN <<>> ELSE blocks[k].pending \o g[k + 1]
        BY <4>1, <2>5 DEF RunsBack
      <4> QED
        BY <3>1, <3>3, <4>2
    <3> QED
      BY <3>2, <3>3
  <2>7. RunsBack(h, j, n, blocks)
    BY <2>6 DEF RunsBack
  <2> QED
    BY <2>2, <2>7
<1>2. n \in 0..n /\ (n + 1) - n = 1
  OBVIOUS
<1> QED
  BY <1>1, <1>2

LEMMA PendingUnfolds ==
    ASSUME NEW blocks \in Seq(BlockType), NEW p \in 1..Len(blocks) + 1
    PROVE  Blocks!PendingFrom(blocks, p) =
               IF p > Len(blocks) THEN <<>>
               ELSE blocks[p].pending \o Blocks!PendingFrom(blocks, p + 1)
<1> DEFINE n == Len(blocks)
           Body(f) == [k \in 1..n + 1 |-> IF k > n THEN <<>> ELSE blocks[k].pending \o f[k + 1]]
           from == CHOOSE f : f = Body(f)
<1>1. n \in Nat
  BY LenProperties
<1>2. \A i : Blocks!PendingFrom(blocks, i) = from[i]
  BY Zenon DEF Blocks!PendingFrom
<1>3. \A f : RunsBack(f, 1, n, blocks) <=> f = Body(f)
  BY DEF RunsBack
<1>4. p \in 1..n + 1 /\ (p > n \/ p + 1 \in 1..n + 1)
  BY <1>1
<1> HIDE DEF n, Body
<1>5. \E f : RunsBack(f, 1, n, blocks)
  BY <1>1, RunsBackExists
<1>6. from = Body(from)
  BY <1>3, <1>5, Zenon
<1> HIDE DEF from
<1>7. from[p] = IF p > n THEN <<>> ELSE blocks[p].pending \o from[p + 1]
  BY <1>4, <1>6 DEF Body
<1> QED
  BY <1>2, <1>7 DEF n

LEMMA PendingType ==
    ASSUME NEW blocks \in Seq(BlockType), NEW p \in 1..Len(blocks) + 1
    PROVE  Blocks!PendingFrom(blocks, p) \in Seq(Nat)
<1> DEFINE n == Len(blocks)
           P(q) == Blocks!PendingFrom(blocks, q)
           T == {d \in 0..n : P((n + 1) - d) \notin Seq(Nat)}
<1>1. n \in Nat /\ \A k \in 1..n : blocks[k].pending \in Seq(Nat)
  <2>1. n \in Nat /\ \A k \in 1..n : blocks[k] \in BlockType
    BY LenProperties, ElementOfSeq
  <2> HIDE DEF n
  <2> QED
    BY <2>1 DEF BlockType
<1>2. \A q \in 1..n + 1 : P(q) = IF q > n THEN <<>> ELSE blocks[q].pending \o P(q + 1)
  BY PendingUnfolds
<1> HIDE DEF P, n
<1>3. T = {}
  <2>1. SUFFICES ASSUME T # {} PROVE FALSE
    OBVIOUS
  <2>2. PICK d \in T : \A e \in T : d <= e
    <3>1. T \subseteq Nat
      BY <1>1
    <3> HIDE DEF T
    <3> QED
      BY <2>1, <3>1, LeastElement
  <2> DEFINE j == (n + 1) - d
  <2>3. j \in 1..n + 1 /\ d \in 0..n /\ (d = 0 <=> j > n) /\ P(j) \notin Seq(Nat)
    BY <1>1
  <2>4. CASE d = 0
    <3>1. P(j) = <<>>
      BY <1>2, <2>3, <2>4
    <3> QED
      BY <2>3, <3>1, EmptySeq
  <2>5. CASE d # 0
    <3>1. d - 1 \in 0..n /\ ~(d <= d - 1) /\ (n + 1) - (d - 1) = j + 1 /\ j \in 1..n
      BY <1>1, <2>3, <2>5
    <3>2. P(j + 1) \in Seq(Nat)
      BY <2>2, <3>1
    <3>3. P(j) = blocks[j].pending \o P(j + 1)
      BY <1>2, <2>3, <2>5
    <3> HIDE DEF j
    <3>4. P(j) \in Seq(Nat)
      BY <1>1, <3>1, <3>2, <3>3, ConcatFacts
    <3> QED
      BY <2>3, <3>4 DEF j
  <2> QED
    BY <2>4, <2>5
<1>4. (n + 1) - p \in 0..n /\ (n + 1) - ((n + 1) - p) = p
  BY <1>1 DEF n
<1> QED
  BY <1>3, <1>4 DEF P


(***************************************************************************)
(* The loop vector and the loops of the blocks                             *)
(***************************************************************************)
\* No body is that of two loops.
BodiesApart(st) ==
    \A i, j \in 1..Len(st.loops) : st.loops[i].body = st.loops[j].body => i = j

LEMMA StackApart ==
    ASSUME NEW st, NEW cs, NEW tr, NEW e, NEW root, StackOK(st, cs, tr, e), CallsOK(cs, tr, root),
           cs \in Seq(Nat)
    PROVE  BodiesApart(st)
<1>1. PICK at \in [1..Len(st.loops) -> 1..Len(cs)] :
          /\ \A i \in 1..Len(st.loops) : st.loops[i].body = cs[at[i]]
          /\ \A i, j \in 1..Len(st.loops) : i < j => at[i] < at[j]
  BY DEF StackOK, LoopsNested
<1>2. \A i, j \in 1..Len(cs) : i < j => cs[i] < cs[j]
  BY DEF CallsOK
<1>3. \A i \in 1..Len(cs) : cs[i] \in Nat
  BY ElementOfSeq
<1>4. SUFFICES ASSUME NEW i \in 1..Len(st.loops), NEW j \in 1..Len(st.loops), i < j
               PROVE  st.loops[i].body # st.loops[j].body
  BY DEF BodiesApart
<1>5. at[i] < at[j] /\ at[i] \in 1..Len(cs) /\ at[j] \in 1..Len(cs)
  BY <1>1, <1>4
<1>6. cs[at[i]] < cs[at[j]] /\ cs[at[i]] \in Nat /\ cs[at[j]] \in Nat
  BY <1>2, <1>3, <1>5
<1>7. cs[at[i]] # cs[at[j]]
  BY <1>6
<1> QED
  BY <1>1, <1>7

LEMMA LoopOfIs ==
    ASSUME NEW st \in Stack, NEW b
    PROVE  \/ \E i \in 1..Len(st.loops) : st.loops[i].body = b /\ LoopOf(st, b) = st.loops[i].name
           \/ (\A i \in 1..Len(st.loops) : st.loops[i].body # b) /\ LoopOf(st, b) = NoLoop
<1> DEFINE I == {i \in 1..Len(st.loops) : st.loops[i].body = b}
           at == IF I # {} THEN Min(I) ELSE 0
<1>1. LoopOf(st, b) = IF at = 0 THEN NoLoop ELSE st.loops[at].name
  BY DEF LoopOf, SelectInSeq
<1>2. I \subseteq 1..Len(st.loops) /\ st.loops \in Seq(Loop)
  BY DEF Stack
<1>3. CASE I = {}
  BY <1>1, <1>3
<1>4. CASE I # {}
  <2>1. at \in I /\ at # 0
    <3>1. I \subseteq Nat
      BY <1>2
    <3>2. Min(I) \in I
      BY <1>4, <3>1, MinIsElement
    <3> QED
      BY <1>4, <3>2
  <2> QED
    BY <1>1, <2>1
<1> QED
  BY <1>3, <1>4

LEMMA LoopNameType ==
    ASSUME NEW st \in Stack, NEW i \in 1..Len(st.loops)
    PROVE  /\ st.loops[i] \in Loop /\ st.loops[i].name \in LoopNames \cup {NoName}
           /\ st.loops[i].name # NoLoop /\ st.loops[i].body \in Nat
<1>1. st.loops \in Seq(Loop)
  BY DEF Stack
<1>2. st.loops[i] \in Loop
  BY <1>1, ElementOfSeq
<1> QED
  BY <1>2, NoLoopAssumption DEF Loop

LEMMA LoopOfType ==
    ASSUME NEW st \in Stack, NEW b
    PROVE  LoopOf(st, b) \in LoopNames \cup {NoName, NoLoop}
BY LoopOfIs, LoopNameType

LEMMA LoopOfLoop ==
    ASSUME NEW st \in Stack, BodiesApart(st), NEW i \in 1..Len(st.loops)
    PROVE  LoopOf(st, st.loops[i].body) = st.loops[i].name
BY LoopOfIs DEF BodiesApart

LEMMA LoopOfKept ==
    ASSUME NEW st \in Stack, NEW st2 \in Stack, BodiesApart(st), BodiesApart(st2), NEW b,
           \A i \in 1..Len(st.loops) : st.loops[i].body = b =>
               \E j \in 1..Len(st2.loops) : st2.loops[j] = st.loops[i],
           \A i \in 1..Len(st2.loops) : st2.loops[i].body = b =>
               \E j \in 1..Len(st.loops) : st.loops[j] = st2.loops[i]
    PROVE  LoopOf(st2, b) = LoopOf(st, b)
<1>1. CASE \E i \in 1..Len(st.loops) : st.loops[i].body = b
  <2>1. PICK i \in 1..Len(st.loops) : st.loops[i].body = b
    BY <1>1
  <2>2. PICK j \in 1..Len(st2.loops) : st2.loops[j] = st.loops[i]
    BY <2>1
  <2> QED
    BY <2>1, <2>2, LoopOfLoop
<1>2. CASE ~\E i \in 1..Len(st.loops) : st.loops[i].body = b
  <2>1. ~\E i \in 1..Len(st2.loops) : st2.loops[i].body = b
    BY <1>2
  <2> QED
    BY <1>2, <2>1, LoopOfIs
<1> QED
  BY <1>1, <1>2

LEMMA LoopOfSame ==
    ASSUME NEW st, NEW st2, st2.loops = st.loops, NEW b
    PROVE  LoopOf(st2, b) = LoopOf(st, b)
BY DEF LoopOf

(***************************************************************************)
(* The blocks of the functions                                             *)
(***************************************************************************)
Going == calls # <<>> /\ ~failed /\ ~crashed

Within(cs, ds) == \A k \in 1..Len(cs) : cs[k] \in 1..Len(ds)

LEMMA BlocksType ==
    ASSUME NEW st \in Stack, NEW cs \in Seq(Nat), NEW ds \in Seq(Seq(Nat)), Within(cs, ds)
    PROVE  /\ BlocksOf(st, cs, ds) \in Seq(BlockType)
           /\ Len(BlocksOf(st, cs, ds)) = Len(cs)
           /\ \A k \in 1..Len(cs) :
                 BlocksOf(st, cs, ds)[k] = [loop |-> LoopOf(st, cs[k]), pending |-> ds[cs[k]]]
<1>1. \A k \in 1..Len(cs) : [loop |-> LoopOf(st, cs[k]), pending |-> ds[cs[k]]] \in BlockType
  <2>1. \A k \in 1..Len(cs) : ds[cs[k]] \in Seq(Nat)
    BY ElementOfSeq DEF Within
  <2>2. \A k \in 1..Len(cs) : LoopOf(st, cs[k]) \in LoopNames \cup {NoName, NoLoop}
    BY LoopOfType
  <2> QED
    BY <2>1, <2>2 DEF BlockType
<1>2. Len(cs) \in Nat
  BY LenProperties
<1>3. BlocksOf(st, cs, ds) \in [1..Len(cs) -> BlockType]
  BY <1>1 DEF BlocksOf
<1>4. BlocksOf(st, cs, ds) \in Seq(BlockType) /\ Len(BlocksOf(st, cs, ds)) = Len(cs)
  <2> DEFINE f == BlocksOf(st, cs, ds)
             n == Len(cs)
  <2>1. f \in [1..n -> BlockType] /\ n \in Nat
    BY <1>2, <1>3
  <2> HIDE DEF f, n
  <2>2. f \in Seq(BlockType)
    BY <2>1, SeqDef
  <2>3. Len(f) = n
    BY <2>1, <2>2, LenProperties
  <2> QED
    BY <2>2, <2>3 DEF f, n
<1> QED
  BY <1>4 DEF BlocksOf

\* What the functions on the stack agree on with the tree.
FramesOK ==
    /\ defers \in Seq(Seq(Nat)) /\ Len(defers) = Len(tree) /\ Len(tree) \in Nat
    /\ text \in Seq(Seq(Stmt)) /\ Len(text) = Len(tree) /\ ss \in Stack
    /\ Len(saved) \in Nat /\ calls \in Seq(Nat)
    /\ \A i \in 1..Len(saved) :
          /\ saved[i].ss \in Stack /\ saved[i].calls \in Seq(Nat)
          /\ saved[i].calls # <<>>
          /\ CallsOK(saved[i].calls, tree, RootOf(i - 1))
          /\ BodiesApart(saved[i].ss)
          /\ Within(saved[i].calls, defers)
    /\ calls # <<>> => /\ BodiesApart(ss)
                       /\ Within(calls, defers)

LEMMA Frames == IInv => FramesOK
<1> SUFFICES ASSUME IInv PROVE FramesOK
  OBVIOUS
<1>1. /\ defers \in Seq(Seq(Nat)) /\ Len(defers) = Len(tree) /\ Len(tree) \in Nat
      /\ text \in Seq(Seq(Stmt)) /\ Len(text) = Len(tree) /\ ss \in Stack
      /\ Len(saved) \in Nat /\ calls \in Seq(Nat)
  BY LenProperties DEF IInv, TypeOK, CallsInv
<1>2. ASSUME NEW i \in 1..Len(saved)
      PROVE  /\ saved[i].ss \in Stack /\ saved[i].calls \in Seq(Nat)
             /\ saved[i].calls # <<>>
             /\ CallsOK(saved[i].calls, tree, RootOf(i - 1))
             /\ BodiesApart(saved[i].ss)
             /\ Within(saved[i].calls, defers)
  <2>1. saved[i] \in [ss : Stack, calls : Seq(Nat)]
    BY <1>2, ElementOfSeq DEF IInv, TypeOK
  <2>2. CallsOK(saved[i].calls, tree, RootOf(i - 1)) /\ StackOK(saved[i].ss, saved[i].calls, tree, failed)
    BY <1>2 DEF IInv, CallsInv, LoopsEnclose
  <2>3. saved[i].calls # <<>> /\ \A k \in 1..Len(saved[i].calls) : saved[i].calls[k] \in 1..Len(tree)
    BY <2>2 DEF CallsOK
  <2> QED
    BY <1>1, <2>1, <2>2, <2>3, StackApart DEF Within
<1>3. ASSUME calls # <<>>
      PROVE  BodiesApart(ss) /\ Within(calls, defers)
  <2>1. CallsOK(calls, tree, RootOf(Len(saved))) /\ StackOK(ss, calls, tree, failed)
    BY <1>3 DEF IInv, CallsInv, LoopsEnclose
  <2>2. \A k \in 1..Len(calls) : calls[k] \in 1..Len(tree)
    BY <2>1 DEF CallsOK
  <2> QED
    BY <1>1, <2>1, <2>2, StackApart DEF Within
<1> QED
  BY <1>1, <1>2, <1>3 DEF FramesOK

LEMMA FramesNext == IInv' => FramesOK'
BY Frames, PTL

OpenShape ==
    /\ Outer \in Seq(Seq(BlockType)) /\ Len(Outer) = Len(saved)
    /\ \A i \in 1..Len(saved) : Outer[i] = BlocksOf(saved[i].ss, saved[i].calls, defers)
    /\ BlocksOf(ss, calls, defers) \in Seq(BlockType)
    /\ openBar = Append(Outer, BlocksOf(ss, calls, defers))
    /\ openBar # <<>> /\ Len(openBar) = Len(saved) + 1
    /\ Blocks!Here = BlocksOf(ss, calls, defers)
    /\ Len(Blocks!Here) = Len(calls) /\ Len(calls) \in Nat \ {0}

LEMMA OpenFacts == IInv /\ Going => OpenShape
<1> SUFFICES ASSUME IInv, Going PROVE OpenShape
  OBVIOUS
<1>1. Len(saved) \in Nat /\ defers \in Seq(Seq(Nat)) /\ ss \in Stack /\ calls \in Seq(Nat)
  BY Frames DEF FramesOK
<1>2. /\ BlocksOf(ss, calls, defers) \in Seq(BlockType)
      /\ Len(BlocksOf(ss, calls, defers)) = Len(calls)
  BY <1>1, Frames, BlocksType DEF Going, FramesOK
<1>3. \A i \in 1..Len(saved) : BlocksOf(saved[i].ss, saved[i].calls, defers) \in Seq(BlockType)
  BY <1>1, Frames, BlocksType DEF FramesOK
<1>4. Outer \in [1..Len(saved) -> Seq(BlockType)]
  BY <1>3 DEF Outer
<1>5. Outer \in Seq(Seq(BlockType)) /\ Len(Outer) = Len(saved)
  BY <1>1, <1>4, SeqDef, LenProperties
<1>6. openBar = Append(Outer, BlocksOf(ss, calls, defers))
  BY DEF openBar, Going
<1>7. openBar # <<>> /\ Len(openBar) = Len(saved) + 1 /\ openBar[Len(openBar)] = BlocksOf(ss, calls, defers)
  BY <1>2, <1>5, <1>6, TopReplaced
<1>8. Len(calls) \in Nat \ {0}
  BY <1>1, LenProperties, EmptySeq DEF Going
<1> QED
  BY <1>2, <1>5, <1>6, <1>7, <1>8 DEF Blocks!Here, Outer, OpenShape

LEMMA OpenFactsNext == IInv' /\ Going' => OpenShape'
BY OpenFacts, PTL


(***************************************************************************)
(* Steps                                                                   *)
(***************************************************************************)
LEMMA CallsBelow ==
    ASSUME IInv, calls # <<>>
    PROVE  /\ Len(calls) \in Nat \ {0} /\ Head(calls) = calls[1] /\ Cur = calls[Len(calls)]
           /\ Cur \in 1..Len(tree) /\ Fresh = Len(tree) + 1
           /\ \A k \in 1..Len(calls) : /\ calls[k] \in Nat /\ calls[k] \in 1..Len(tree)
                                        /\ calls[1] <= calls[k] /\ calls[k] < Fresh
           /\ \A i, j \in 1..Len(calls) : i < j => calls[i] < calls[j]
           /\ \A k \in 1..Len(calls) - 1 : calls[k] \in 1..Len(tree) /\ calls[k] # Cur
           /\ \A b \in 1..Len(tree) : b < Head(calls) => b # Cur
<1>1. /\ CallsOK(calls, tree, RootOf(Len(saved))) /\ Cur = calls[Len(calls)]
      /\ Len(calls) \in Nat \ {0} /\ Cur \in 1..Len(tree) /\ Len(tree) \in Nat
  BY AtBody
<1>2. Head(calls) = calls[1]
  BY <1>1, HeadTailProperties DEF IInv, TypeOK
<1>3. ASSUME NEW k \in 1..Len(calls)
      PROVE  calls[k] \in Nat /\ calls[k] \in 1..Len(tree) /\ calls[1] <= calls[k] /\ calls[k] < Fresh
  <2>1. calls[k] \in 1..Len(tree) /\ calls[1] \in 1..Len(tree) /\ (1 < k => calls[1] < calls[k])
    BY <1>1 DEF CallsOK
  <2>2. 1 < k \/ k = 1
    BY <1>1
  <2> QED
    BY <1>1, <2>1, <2>2 DEF Fresh
<1>4. \A i, j \in 1..Len(calls) : i < j => calls[i] < calls[j]
  BY <1>1 DEF CallsOK
<1>5. ASSUME NEW k \in 1..Len(calls) - 1 PROVE calls[k] \in 1..Len(tree) /\ calls[k] # Cur
  <2>1. k \in 1..Len(calls) /\ k < Len(calls) /\ Len(calls) \in 1..Len(calls)
    BY <1>1
  <2>2. calls[k] < calls[Len(calls)] /\ calls[k] \in Nat /\ calls[Len(calls)] \in Nat
    BY <1>3, <1>4, <2>1
  <2> QED
    BY <1>1, <1>3, <2>1, <2>2
<1>6. ASSUME NEW b \in 1..Len(tree), b < Head(calls) PROVE b # Cur
  <2>1. calls[1] <= calls[Len(calls)] /\ calls[1] \in Nat /\ calls[Len(calls)] \in Nat
    BY <1>1, <1>3
  <2> QED
    BY <1>1, <1>2, <1>6, <2>1
<1> QED
  BY <1>1, <1>2, <1>3, <1>4, <1>5, <1>6 DEF Fresh

LEMMA AppendedIs ==
    ASSUME NEW S, NEW s \in Seq(S), NEW e \in S
    PROVE  /\ Append(s, e) \in Seq(S) /\ Append(s, e) # <<>>
           /\ Len(Append(s, e)) = Len(s) + 1 /\ Len(s) \in Nat
           /\ Append(s, e)[Len(s) + 1] = e /\ Last(Append(s, e)) = e
           /\ \A i \in 1..Len(s) : Append(s, e)[i] = s[i]
           /\ s # <<>> => Head(Append(s, e)) = Head(s)
<1> DEFINE t == Append(s, e)
<1>1. /\ t \in Seq(S) /\ t # <<>> /\ Len(t) = Len(s) + 1 /\ t[Len(s) + 1] = e
      /\ \A i \in 1..Len(s) : t[i] = s[i]
  BY AppendFacts
<1> HIDE DEF t
<1>2. Last(t) = e
  BY <1>1, FrontFacts
<1>3. Len(s) \in Nat /\ (s # <<>> => Len(s) # 0)
  BY LenProperties, EmptySeq
<1>4. s # <<>> => Head(t) = Head(s)
  <2>1. SUFFICES ASSUME s # <<>> PROVE Head(t) = Head(s)
    OBVIOUS
  <2>2. Head(t) = t[1] /\ Head(s) = s[1]
    BY <1>1, <2>1, HeadTailProperties
  <2> QED
    BY <1>1, <1>3, <2>1, <2>2
<1> QED
  BY <1>1, <1>2, <1>3, <1>4 DEF t

LEMMA BlocksGrow ==
    ASSUME NEW st \in Stack, NEW st2 \in Stack, NEW cs \in Seq(Nat), NEW ds \in Seq(Seq(Nat)),
           \A k \in 1..Len(cs) : cs[k] \in 1..Len(ds),
           \A b \in 1..Len(ds) : LoopOf(st2, b) = LoopOf(st, b)
    PROVE  BlocksOf(st2, Append(cs, Len(ds) + 1), Append(ds, <<>>))
               = Append(BlocksOf(st, cs, ds), Blocks!Block(LoopOf(st2, Len(ds) + 1)))
<1> DEFINE f == Len(ds) + 1
           n == Len(cs)
           cs2 == Append(cs, f)
           ds2 == Append(ds, <<>>)
           B == BlocksOf(st2, cs2, ds2)
           H == BlocksOf(st, cs, ds)
           e == Blocks!Block(LoopOf(st2, f))
<1>1. <<>> \in Seq(Nat) /\ f \in Nat /\ n \in Nat /\ Len(ds) \in Nat
  BY EmptySeq, LenProperties
<1>2. /\ cs2 \in Seq(Nat) /\ Len(cs2) = n + 1 /\ cs2[n + 1] = f
      /\ \A k \in 1..n : cs2[k] = cs[k]
  <2> HIDE DEF f
  <2> QED
    BY <1>1, AppendedIs
<1>3. /\ ds2 \in Seq(Seq(Nat)) /\ Len(ds2) = f /\ ds2[f] = <<>>
      /\ \A b \in 1..Len(ds) : ds2[b] = ds[b]
  BY <1>1, AppendedIs
<1>4. Within(cs2, ds2)
  <2> HIDE DEF cs2, ds2
  <2>1. ASSUME NEW k \in 1..Len(cs2) PROVE cs2[k] \in 1..Len(ds2)
    <3>1. k \in 1..n \/ k = n + 1
      BY <1>1, <1>2
    <3>2. \A b \in 1..Len(ds) : b \in 1..f
      BY <1>1
    <3>3. f \in 1..f
      BY <1>1
    <3> QED
      BY <1>2, <1>3, <3>1, <3>2, <3>3
  <2> QED
    BY <2>1 DEF Within
<1>5. e \in BlockType /\ e = [loop |-> LoopOf(st2, f), pending |-> <<>>]
  <2>1. LoopOf(st2, f) \in LoopNames \cup {NoName, NoLoop}
    BY LoopOfType
  <2> QED
    BY <1>1, <2>1 DEF Blocks!Block, BlockType
<1> HIDE DEF cs2, ds2
<1>6. /\ B \in Seq(BlockType) /\ Len(B) = n + 1
      /\ \A k \in 1..n + 1 : B[k] = [loop |-> LoopOf(st2, cs2[k]), pending |-> ds2[cs2[k]]]
  <2>1. /\ B \in Seq(BlockType) /\ Len(B) = Len(cs2)
        /\ \A k \in 1..Len(cs2) : B[k] = [loop |-> LoopOf(st2, cs2[k]), pending |-> ds2[cs2[k]]]
    BY ONLY <1>2, <1>3, <1>4, BlocksType, st2 \in Stack
  <2> HIDE DEF B
  <2> QED
    BY <1>2, <2>1
<1>7. /\ H \in Seq(BlockType) /\ Len(H) = n
      /\ \A k \in 1..n : H[k] = [loop |-> LoopOf(st, cs[k]), pending |-> ds[cs[k]]]
  BY BlocksType DEF Within
<1> HIDE DEF B, H, e, f, n
<1>8. /\ Append(H, e) \in Seq(BlockType) /\ Len(Append(H, e)) = n + 1
      /\ Append(H, e)[n + 1] = e /\ \A k \in 1..n : Append(H, e)[k] = H[k]
  BY <1>5, <1>7, AppendedIs
<1>9. ASSUME NEW k \in 1..n + 1 PROVE B[k] = Append(H, e)[k]
  <2>1. B[k] = [loop |-> LoopOf(st2, cs2[k]), pending |-> ds2[cs2[k]]]
    BY <1>6
  <2>2. CASE k = n + 1
    BY <1>2, <1>3, <1>5, <1>8, <2>1, <2>2
  <2>3. CASE k # n + 1
    <3>1. k \in 1..n
      BY <1>1, <2>3
    <3>2. cs2[k] = cs[k] /\ cs[k] \in 1..Len(ds)
      BY <1>2, <3>1 DEF n
    <3>3. LoopOf(st2, cs[k]) = LoopOf(st, cs[k]) /\ ds2[cs[k]] = ds[cs[k]]
      BY <1>3, <3>2
    <3> QED
      BY <1>7, <1>8, <2>1, <3>1, <3>2, <3>3
  <2> QED
    BY <2>2, <2>3
<1>10. B = Append(H, e)
  BY ONLY <1>6, <1>8, <1>9, SeqEqual
<1> QED
  BY <1>10 DEF B, H, e, f, cs2, ds2

LEMMA SuspendedKept ==
    ASSUME BlocksInv, Going, saved' = saved, Head(calls') = Head(calls),
           \A b \in 1..Len(tree) : b < Head(calls) => text'[b] = text[b]
    PROVE  SuspendedOK'
<1>1. SuspendedOK /\ FramesOK
  BY Frames DEF BlocksInv, Going
<1>2. ASSUME NEW i \in 1..Len(saved), NEW k \in 1..Len(saved[i].calls)
      PROVE  Quiet(saved[i].calls[k])'
  <2>1. saved[i].calls[k] \in 1..Len(tree) /\ saved[i].calls[k] < Head(calls)
    BY <1>1 DEF SuspendedOK, FramesOK, Within
  <2>2. text'[saved[i].calls[k]] = text[saved[i].calls[k]] /\ Quiet(saved[i].calls[k])
    BY <1>1, <2>1 DEF SuspendedOK
  <2> QED
    BY <2>2 DEF Quiet
<1> QED
  BY <1>1, <1>2 DEF SuspendedOK, NamesApart, Quiet

LEMMA OuterKept ==
    ASSUME BlocksInv, Going, saved' = saved,
           \A b \in 1..Len(tree) : b < Head(calls) => defers'[b] = defers[b]
    PROVE  Outer' = Outer
<1>1. SuspendedOK /\ FramesOK
  BY Frames DEF BlocksInv, Going
<1>2. ASSUME NEW i \in 1..Len(saved)
      PROVE  BlocksOf(saved[i].ss, saved[i].calls, defers') = BlocksOf(saved[i].ss, saved[i].calls, defers)
  <2>1. \A k \in 1..Len(saved[i].calls) : defers'[saved[i].calls[k]] = defers[saved[i].calls[k]]
    BY <1>1 DEF SuspendedOK, FramesOK, Within
  <2> QED
    BY <2>1 DEF BlocksOf
<1> QED
  BY <1>2 DEF Outer

\* A statement that enters no block.
LEMMA PlainMaps ==
    ASSUME BlocksInv, IInv', Going, Going', walk' = Idle,
           ss'.loops = ss.loops, NEW s \in Stmt, s.kind \notin Exits, text' = Read(s),
           UNCHANGED <<tree, defers, calls, saved>>
    PROVE  BlocksInv' /\ Blocks!Plain
<1>1. IInv /\ FramesOK /\ ~failed' /\ ~crashed' /\ calls # <<>>
  BY Frames DEF BlocksInv, Going
<1> USE <1>1
<1>2. Last(Read(s)[Cur]) = s /\ Read(s) \in Seq(Seq(Stmt)) /\ Len(Read(s)) = Len(text)
  BY ReadType
<1>3. \A b \in 1..Len(tree) : b # Cur => text'[b] = text[b]
  BY DEF Read
<1>4. SuspendedOK'
  BY <1>3, CallsBelow, SuspendedKept
<1>5. ASSUME NEW k \in 1..Len(calls) - 1 PROVE Quiet(calls[k])'
  <2>1. calls[k] \in 1..Len(tree) /\ calls[k] # Cur
    BY CallsBelow
  <2>2. text'[calls[k]] = text[calls[k]] /\ Quiet(calls[k])
    BY <1>3, <2>1 DEF BlocksInv, Going
  <2> QED
    BY <2>2 DEF Quiet
<1>6. BlocksInv'
  BY <1>4, <1>5 DEF BlocksInv, NamesApart, WalkExact, Going
<1>7. openBar' = openBar
  <2>1. Outer' = Outer
    BY OuterKept
  <2>2. BlocksOf(ss', calls, defers) = BlocksOf(ss, calls, defers)
    BY LoopOfSame DEF BlocksOf
  <2> QED
    BY <2>1, <2>2 DEF openBar, Going
<1>8. releasedBar' = <<>>
  BY <1>2 DEF releasedBar, Cur
<1>9. openBar # <<>>
  BY OpenFacts DEF OpenShape
<1> QED
  BY <1>6, <1>7, <1>8, <1>9 DEF Blocks!Plain

\* A block in the function opens.
LEMMA EnterMaps ==
    ASSUME BlocksInv, IInv', Going, Going', walk' = Idle,
           NEW read, Len(read) = Len(text), read \in Seq(Seq(Stmt)),
           \A b \in 1..Len(tree) : b # Cur => read[b] = text[b],
           read[Cur] # <<>>, Last(read[Cur]).kind \notin Exits,
           text' = Append(read, <<>>), defers' = Append(defers, <<>>), calls' = Append(calls, Fresh),
           \A b \in 1..Len(tree) : LoopOf(ss', b) = LoopOf(ss, b),
           NamesApart(ss'), Len(tree') <= MaxBodies, saved' = saved
    PROVE  /\ BlocksInv' /\ openBar # <<>>
           /\ openBar' = [openBar EXCEPT ![Len(openBar)] =
                              Append(Blocks!Here, Blocks!Block(LoopOf(ss', Fresh)))]
           /\ releasedBar' = <<>>
<1>1. /\ IInv /\ FramesOK /\ FramesOK' /\ ~failed' /\ ~crashed' /\ calls # <<>> /\ OpenShape /\ OpenShape'
      /\ ss \in Stack /\ ss' \in Stack /\ calls \in Seq(Nat) /\ calls' \in Seq(Nat)
      /\ defers \in Seq(Seq(Nat)) /\ defers' \in Seq(Seq(Nat)) /\ text \in Seq(Seq(Stmt))
      /\ \A k \in 1..Len(calls) : calls[k] \in 1..Len(defers)
      /\ \A k \in 1..Len(calls') : calls'[k] \in 1..Len(defers')
  BY Frames, FramesNext, OpenFacts, OpenFactsNext DEF BlocksInv, Going, FramesOK, Within
<1> USE <1>1
<1>2. /\ Len(tree) \in Nat /\ Len(text) = Len(tree) /\ Len(defers) = Len(tree) /\ Fresh = Len(tree) + 1
      /\ Len(calls) \in Nat \ {0} /\ calls \in Seq(Nat) /\ Fresh \in Nat
  BY CallsBelow DEF FramesOK
<1>3. /\ Len(calls') = Len(calls) + 1 /\ calls'[Len(calls) + 1] = Fresh
      /\ \A i \in 1..Len(calls) : calls'[i] = calls[i]
      /\ Cur' = Fresh /\ Head(calls') = Head(calls)
  <2>1. /\ Len(Append(calls, Fresh)) = Len(calls) + 1 /\ Append(calls, Fresh)[Len(calls) + 1] = Fresh
        /\ \A i \in 1..Len(calls) : Append(calls, Fresh)[i] = calls[i]
        /\ Last(Append(calls, Fresh)) = Fresh /\ Head(Append(calls, Fresh)) = Head(calls)
    <3>1. calls # <<>> /\ calls \in Seq(Nat) /\ Fresh \in Nat
      BY <1>2, EmptySeq
    <3> QED
      BY ONLY <3>1, AppendedIs
  <2> QED
    BY <2>1 DEF Cur
<1>4. /\ Len(text') = Len(text) + 1 /\ text'[Fresh] = <<>>
      /\ \A b \in 1..Len(tree) : text'[b] = read[b]
  <2>1. <<>> \in Seq(Stmt)
    BY EmptySeq
  <2>2. /\ Len(Append(read, <<>>)) = Len(read) + 1 /\ Append(read, <<>>)[Len(read) + 1] = <<>>
        /\ \A i \in 1..Len(read) : Append(read, <<>>)[i] = read[i]
    BY ONLY <2>1, AppendedIs, read \in Seq(Seq(Stmt))
  <2> QED
    BY <1>2, <2>2
<1>5. /\ defers'[Fresh] = <<>> /\ \A b \in 1..Len(tree) : defers'[b] = defers[b]
  <2>1. <<>> \in Seq(Nat)
    BY EmptySeq
  <2>2. /\ Append(defers, <<>>)[Len(defers) + 1] = <<>>
        /\ \A i \in 1..Len(defers) : Append(defers, <<>>)[i] = defers[i]
    BY ONLY <1>1, <2>1, AppendedIs
  <2> QED
    BY <1>2, <2>2
<1>6. SuspendedOK'
  <2>1. \A b \in 1..Len(tree) : b < Head(calls) => text'[b] = text[b]
    BY <1>4, CallsBelow
  <2> QED
    BY <1>3, <2>1, SuspendedKept
<1>7. ASSUME NEW k \in 1..Len(calls') - 1
      PROVE  text'[calls'[k]] # <<>> /\ Last(text'[calls'[k]]).kind \notin Exits
  <2>1. k \in 1..Len(calls) /\ calls'[k] = calls[k] /\ calls[k] \in 1..Len(tree)
    BY <1>2, <1>3, CallsBelow
  <2>2. text'[calls'[k]] = read[calls[k]]
    BY <1>4, <2>1
  <2>3. CASE k = Len(calls)
    <3>1. calls[k] = Cur
      BY <2>3, CallsBelow
    <3> QED
      BY <2>2, <3>1
  <2>4. CASE k # Len(calls)
    <3>1. k \in 1..Len(calls) - 1
      BY <1>2, <2>1, <2>4
    <3>2. Quiet(calls[k])
      BY <3>1 DEF BlocksInv, Going
    <3>3. calls[k] # Cur
      BY <3>1, CallsBelow
    <3> QED
      BY <2>1, <2>2, <3>2, <3>3 DEF Quiet
  <2> QED
    BY <2>3, <2>4
<1>8. BlocksInv'
  <2>1. NamesApart(ss)'
    BY DEF NamesApart
  <2>2. WalkExact'
    BY DEF WalkExact
  <2>3. (\A k \in 1..Len(calls) - 1 : Quiet(calls[k]))'
    BY <1>7 DEF Quiet
  <2> QED
    BY <1>6, <2>1, <2>2, <2>3 DEF BlocksInv
<1>9. BlocksOf(ss', calls', defers') = Append(Blocks!Here, Blocks!Block(LoopOf(ss', Fresh)))
  <2>1. Fresh = Len(defers) + 1 /\ \A b \in 1..Len(defers) : LoopOf(ss', b) = LoopOf(ss, b)
    BY <1>2
  <2>2. BlocksOf(ss', Append(calls, Fresh), Append(defers, <<>>))
            = Append(BlocksOf(ss, calls, defers), Blocks!Block(LoopOf(ss', Fresh)))
    BY ONLY <1>1, <2>1, BlocksGrow
  <2>3. Blocks!Here = BlocksOf(ss, calls, defers)
    BY DEF OpenShape
  <2> QED
    BY <2>2, <2>3
<1>10. Outer' = Outer
  <2>1. \A b \in 1..Len(tree) : b < Head(calls) => defers'[b] = defers[b]
    BY <1>5
  <2> QED
    BY <2>1, OuterKept
<1>12. Outer \in Seq(Seq(BlockType))
  BY DEF OpenShape
<1>11. openBar' = [openBar EXCEPT ![Len(openBar)] = BlocksOf(ss', calls', defers')]
  <2>1. openBar = Append(Outer, BlocksOf(ss, calls, defers)) /\ openBar' = Append(Outer, BlocksOf(ss', calls', defers'))
    BY <1>10 DEF OpenShape
  <2>2. BlocksOf(ss', calls', defers') \in Seq(BlockType) /\ BlocksOf(ss, calls, defers) \in Seq(BlockType)
    BY DEF OpenShape
  <2> QED
    BY <1>12, <2>1, <2>2, TopReplaced
<1>13. releasedBar' = <<>>
  BY <1>3, <1>4 DEF releasedBar
<1> QED
  BY <1>8, <1>9, <1>11, <1>13 DEF OpenShape

LEMMA PendingReplaced ==
    ASSUME NEW r, NEW l, NEW p, r = [loop |-> l, pending |-> p], NEW d
    PROVE  [r EXCEPT !.pending = Append(@, d)] = [loop |-> l, pending |-> Append(p, d)]
OBVIOUS

\* The first n bodies have the loops, and the defers, that they had.
KeepsLoops(cs, n, st, st2) == \A k \in 1..n : LoopOf(st2, cs[k]) = LoopOf(st, cs[k])
KeepsDefers(cs, n, ds, ds2) == \A k \in 1..n : ds2[cs[k]] = ds[cs[k]]
AddsDefer(cs, n, ds, ds2, d) ==
    (\A k \in 1..n - 1 : ds2[cs[k]] = ds[cs[k]]) /\ ds2[cs[n]] = Append(ds[cs[n]], d)

WithDefer(blocks, n, d) == [blocks EXCEPT ![n].pending = Append(@, d)]

LEMMA BlocksShrink ==
    ASSUME NEW st \in Stack, NEW st2 \in Stack, NEW n \in Nat \ {0}, NEW cs \in Seq(Nat), Len(cs) = n + 1,
           NEW ds \in Seq(Seq(Nat)), NEW ds2 \in Seq(Seq(Nat)), Len(ds2) = Len(ds),
           Within(cs, ds), KeepsLoops(cs, n, st, st2)
    PROVE  LET H == BlocksOf(st, cs, ds)
               B == BlocksOf(st2, Front(cs), ds2)
           IN  /\ KeepsDefers(cs, n, ds, ds2) => B = Front(H)
               /\ \A d : AddsDefer(cs, n, ds, ds2, d) => B = WithDefer(Front(H), n, d)
<1>0. (\A k \in 1..n + 1 : cs[k] \in 1..Len(ds)) /\ \A k \in 1..n : LoopOf(st2, cs[k]) = LoopOf(st, cs[k])
  BY DEF Within, KeepsLoops
<1> DEFINE cs2 == Front(cs)
           H == BlocksOf(st, cs, ds)
           B == BlocksOf(st2, cs2, ds2)
           F == Front(H)
<1>1. cs # <<>> /\ (n + 1) - 1 = n
  BY EmptySeq
<1>2. cs2 \in Seq(Nat) /\ Len(cs2) = n /\ \A k \in 1..n : cs2[k] = cs[k]
  BY <1>1, FrontFacts
<1> HIDE DEF cs2
<1>3. Within(cs2, ds2)
  <2>1. \A k \in 1..n : k \in 1..n + 1
    OBVIOUS
  <2>2. \A k \in 1..n : cs[k] \in 1..Len(ds2)
    BY <1>0, <2>1, Zenon
  <2> QED
    BY ONLY <2>2, <1>2 DEF Within
<1>4. /\ B \in Seq(BlockType) /\ Len(B) = Len(cs2)
      /\ \A k \in 1..Len(cs2) : B[k] = [loop |-> LoopOf(st2, cs2[k]), pending |-> ds2[cs2[k]]]
  BY ONLY <1>2, <1>3, BlocksType, st2 \in Stack, ds2 \in Seq(Seq(Nat))
<1>5. /\ H \in Seq(BlockType) /\ Len(H) = Len(cs)
      /\ \A k \in 1..Len(cs) : H[k] = [loop |-> LoopOf(st, cs[k]), pending |-> ds[cs[k]]]
  BY BlocksType
<1> HIDE DEF H, B
<1>6. /\ F \in Seq(BlockType) /\ Len(F) = n /\ \A k \in 1..n : F[k] = H[k]
  <2>1. H # <<>>
    BY <1>1, <1>5, EmptySeq
  <2>2. /\ F \in Seq(BlockType) /\ Len(F) = Len(H) - 1 /\ \A k \in 1..Len(H) - 1 : F[k] = H[k]
    BY ONLY <1>5, <2>1, FrontFacts DEF F
  <2> QED
    BY <1>1, <1>5, <2>2
<1> HIDE DEF F
<1>7. ASSUME NEW k \in 1..n
      PROVE  /\ B[k] = [loop |-> LoopOf(st, cs[k]), pending |-> ds2[cs[k]]]
             /\ F[k] = [loop |-> LoopOf(st, cs[k]), pending |-> ds[cs[k]]]
  <2>1. k \in 1..Len(cs) /\ cs2[k] = cs[k] /\ k \in 1..Len(cs2)
    BY <1>1, <1>2
  <2>2. B[k] = [loop |-> LoopOf(st2, cs[k]), pending |-> ds2[cs[k]]] /\ LoopOf(st2, cs[k]) = LoopOf(st, cs[k])
    BY <1>0, <1>4, <2>1
  <2> QED
    BY <1>5, <1>6, <2>1, <2>2
<1>8. ASSUME \A k \in 1..n : ds2[cs[k]] = ds[cs[k]] PROVE B = F
  <2>1. \A k \in 1..n : B[k] = F[k]
    BY <1>7, <1>8
  <2>2. Len(B) = n
    BY <1>2, <1>4
  <2> QED
    BY ONLY <1>4, <1>6, <2>1, <2>2, SeqEqual
<1>9. ASSUME NEW d, \A k \in 1..n - 1 : ds2[cs[k]] = ds[cs[k]],
             ds2[cs[n]] = Append(ds[cs[n]], d)
      PROVE  B = [F EXCEPT ![n].pending = Append(@, d)]
  <2> DEFINE G == [F EXCEPT ![n].pending = Append(@, d)]
  <2>1. DOMAIN F = 1..n /\ DOMAIN B = 1..n /\ n \in 1..n
    BY <1>1, <1>2, <1>4, <1>6, LenProperties
  <2>2. G = [k \in 1..n |-> IF k = n THEN [F[n] EXCEPT !.pending = Append(@, d)] ELSE F[k]]
    BY <2>1
  <2>3. B = [k \in 1..n |-> B[k]]
    BY <2>1, <1>4
  <2>4. ASSUME NEW k \in 1..n
        PROVE  B[k] = IF k = n THEN [F[n] EXCEPT !.pending = Append(@, d)] ELSE F[k]
    <3>1. CASE k = n
      <4>1. /\ B[n] = [loop |-> LoopOf(st, cs[n]), pending |-> Append(ds[cs[n]], d)]
            /\ F[n] = [loop |-> LoopOf(st, cs[n]), pending |-> ds[cs[n]]]
        BY <1>7, <1>9, <2>1
      <4> DEFINE r == F[n]
                 l == LoopOf(st, cs[n])
                 p == ds[cs[n]]
      <4>2. [r EXCEPT !.pending = Append(@, d)] = [loop |-> l, pending |-> Append(p, d)]
        <5>1. r = [loop |-> l, pending |-> p]
          BY <4>1
        <5> HIDE DEF r, l, p
        <5> QED
          BY ONLY <5>1, PendingReplaced
      <4> QED
        BY <3>1, <4>1, <4>2
    <3>2. CASE k # n
      <4>1. k \in 1..n - 1
        BY <1>1, <3>2
      <4> QED
        BY <1>7, <1>9, <3>2, <4>1
    <3> QED
      BY <3>1, <3>2
  <2> HIDE DEF G
  <2> QED
    BY <2>2, <2>3, <2>4 DEF G
<1> QED
  BY <1>8, <1>9 DEF B, H, F, cs2, KeepsDefers, AddsDefer, WithDefer

LEMMA DeferAdded ==
    ASSUME NEW st \in Stack, NEW st2 \in Stack, NEW n \in Nat \ {0}, NEW cs \in Seq(Nat), Len(cs) = n + 1,
           NEW ds \in Seq(Seq(Nat)), NEW ds2 \in Seq(Seq(Nat)), Len(ds2) = Len(ds),
           Within(cs, ds), KeepsLoops(cs, n, st, st2), NEW d, AddsDefer(cs, n, ds, ds2, d)
    PROVE  BlocksOf(st2, Front(cs), ds2) = WithDefer(Front(BlocksOf(st, cs, ds)), n, d)
BY BlocksShrink

\* The innermost block closes; only the list of the block around it may grow.
LEMMA LeaveKeeps ==
    ASSUME BlocksInv, IInv', Going, Going', walk' = Idle, Len(calls) > 1,
           calls' = Front(calls), NamesApart(ss'),
           \A b \in 1..Len(tree) : b < Head(calls) => defers'[b] = defers[b],
           UNCHANGED <<tree, text, saved>>
    PROVE  /\ BlocksInv' /\ openBar # <<>> /\ Len(Blocks!Here) > 1
           /\ openBar' = [openBar EXCEPT ![Len(openBar)] = BlocksOf(ss', Front(calls), defers')]
           /\ releasedBar' = <<>>
<1>1. /\ IInv /\ FramesOK /\ FramesOK' /\ ~failed' /\ ~crashed' /\ calls # <<>>
      /\ calls \in Seq(Nat) /\ Len(calls) \in Nat
  BY Frames, FramesNext, LenProperties DEF BlocksInv, Going, FramesOK, Within
<1>2. /\ Front(calls) \in Seq(Nat) /\ Len(Front(calls)) = Len(calls) - 1
      /\ \A i \in 1..Len(calls) - 1 : Front(calls)[i] = calls[i]
  BY ONLY <1>1, FrontFacts
<1>3. /\ calls' # <<>> /\ Head(calls') = calls'[1] /\ Cur' = calls'[Len(calls')] /\ Head(calls) = calls[1]
  <2>1. calls' # <<>>
    BY DEF Going
  <2>2. Last(Front(calls)) = Front(calls)[Len(Front(calls))]
    BY <1>2, <2>1, FrontFacts
  <2> QED
    BY <1>1, <1>2, <2>1, <2>2, HeadTailProperties DEF Cur
<1>4. Head(calls') = Head(calls) /\ Cur' = calls[Len(calls) - 1] /\ Len(calls) - 1 \in 1..Len(calls) - 1
  <2>1. 1 \in 1..Len(calls) - 1 /\ Len(calls) - 1 \in 1..Len(calls) - 1
    BY <1>1
  <2>2. calls'[1] = calls[1] /\ calls'[Len(calls')] = calls[Len(calls) - 1]
    BY <1>2, <2>1
  <2> QED
    BY ONLY <1>3, <2>1, <2>2
<1>5. SuspendedOK'
  BY <1>4, SuspendedKept
<1>6. ASSUME NEW k \in 1..Len(calls) - 1
      PROVE  text[calls[k]] # <<>> /\ Last(text[calls[k]]).kind \notin Exits
  BY DEF BlocksInv, Going, Quiet
<1>7. BlocksInv'
  <2>1. NamesApart(ss)'
    BY DEF NamesApart
  <2>2. WalkExact'
    BY DEF WalkExact
  <2>3. (\A k \in 1..Len(calls) - 1 : Quiet(calls[k]))'
    <3>1. ASSUME NEW k \in 1..Len(calls') - 1 PROVE text[calls'[k]] # <<>> /\ Last(text[calls'[k]]).kind \notin Exits
      <4>1. k \in 1..Len(calls) - 1 /\ calls'[k] = calls[k]
        BY <1>1, <1>2
      <4> QED
        BY <1>6, <4>1
    <3> QED
      BY <3>1 DEF Quiet
  <2> QED
    BY <1>5, <2>1, <2>2, <2>3 DEF BlocksInv
<1>8. /\ OpenShape /\ OpenShape'
  BY <1>1, OpenFacts, OpenFactsNext
<1>9. Outer' = Outer
  BY OuterKept
<1>10. openBar' = [openBar EXCEPT ![Len(openBar)] = BlocksOf(ss', Front(calls), defers')]
  <2>1. openBar = Append(Outer, BlocksOf(ss, calls, defers)) /\ openBar' = Append(Outer, BlocksOf(ss', Front(calls), defers'))
    BY <1>8, <1>9 DEF OpenShape
  <2>2. /\ BlocksOf(ss', Front(calls), defers') \in Seq(BlockType) /\ BlocksOf(ss, calls, defers) \in Seq(BlockType)
        /\ Outer \in Seq(Seq(BlockType))
    BY <1>8 DEF OpenShape
  <2> QED
    BY ONLY <2>1, <2>2, TopReplaced
<1>11. releasedBar' = <<>>
  <2>1. text[Cur'] # <<>> /\ Last(text[Cur']).kind \notin Exits
    BY <1>4, <1>6
  <2> QED
    BY <2>1 DEF releasedBar
<1> QED
  BY <1>7, <1>8, <1>10, <1>11 DEF OpenShape


\* The innermost body has been read one statement further, and it is no exit.
NewlyRead(read) ==
    /\ read \in Seq(Seq(Stmt)) /\ Len(read) = Len(text)
    /\ \A b \in 1..Len(tree) : b # Cur => read[b] = text[b]
    /\ read[Cur] # <<>> /\ Last(read[Cur]).kind \notin Exits

LEMMA ReadNew ==
    ASSUME IInv, calls # <<>>, NEW s \in Stmt, s.kind \notin Exits
    PROVE  NewlyRead(Read(s))
<1>1. Read(s) \in Seq(Seq(Stmt)) /\ Len(Read(s)) = Len(text) /\ Last(Read(s)[Cur]) = s /\ Cur \in 1..Len(text)
  BY ReadType
<1>2. text \in Seq(Seq(Stmt))
  BY DEF IInv, TypeOK
<1>3. Read(s)[Cur] = Append(text[Cur], s) /\ \A b \in 1..Len(text) : b # Cur => Read(s)[b] = text[b]
  BY <1>1, <1>2 DEF Read
<1>4. Append(text[Cur], s) # <<>>
  <2>1. text[Cur] \in Seq(Stmt)
    BY <1>1, <1>2, ElementOfSeq
  <2> QED
    BY <2>1, AppendFacts
<1> QED
  BY <1>1, <1>3, <1>4, Frames DEF NewlyRead, FramesOK

LEMMA ReadBranchNew ==
    ASSUME IInv, calls # <<>>, IsLastIf, NEW b \in Nat, NEW d \in Decl, NEW c \in BOOLEAN
    PROVE  NewlyRead(ReadBranch(b, d, c))
<1>1. text \in Seq(Seq(Stmt)) /\ Cur \in 1..Len(text) /\ Len(text) = Len(tree)
  BY ReadType, StmtTypes DEF IInv, TypeOK, CallsInv
<1>2. text[Cur] \in Seq(Stmt) /\ text[Cur] # <<>>
  BY <1>1, ElementOfSeq DEF IsLastIf
<1> DEFINE n == Len(text[Cur])
           s == text[Cur][n]
           s2 == WithBranch(s, b, d, c)
           stmts == [text[Cur] EXCEPT ![n] = s2]
<1>3. n \in 1..n /\ s \in Stmt /\ s.kind = "if"
  <2>1. n \in Nat \ {0}
    BY <1>2, EmptySeq
  <2>2. n \in 1..n
    BY ONLY <2>1
  <2> QED
    BY <1>2, <2>2, ElementOfSeq DEF IsLastIf, Last
<1>4. s2 \in Stmt /\ s2.kind = "if"
  <2>1. s \in IfStmt
    BY <1>3, IfTypes
  <2> HIDE DEF s
  <2>2. s2 \in Stmt
    BY <2>1, IfTypes
  <2>3. s2.kind = "if"
    BY <2>1 DEF WithBranch, IfStmt
  <2> QED
    BY <2>2, <2>3
<1>5. ReadBranch(b, d, c) = [text EXCEPT ![Cur] = stmts]
  BY DEF ReadBranch
<1> HIDE DEF s2
<1>6. stmts \in Seq(Stmt) /\ Len(stmts) = n /\ stmts[n] = s2
  BY <1>2, <1>3, <1>4, ExceptSeq
<1> HIDE DEF stmts
<1>7. stmts # <<>> /\ Last(stmts) = s2
  <2>1. n \in Nat \ {0}
    BY <1>2, EmptySeq
  <2> HIDE DEF n
  <2> QED
    BY <1>6, <2>1, EmptySeq DEF Last
<1>8. ReadBranch(b, d, c)[Cur] = stmts /\ \A k \in 1..Len(text) : k # Cur => ReadBranch(b, d, c)[k] = text[k]
  BY <1>1, <1>5
<1>9. s2.kind \notin Exits
  BY <1>4 DEF Exits
<1>10. ReadBranch(b, d, c) \in Seq(Seq(Stmt)) /\ Len(ReadBranch(b, d, c)) = Len(text)
  BY ReadBranchType
<1> QED
  BY <1>1, <1>7, <1>8, <1>9, <1>10 DEF NewlyRead

(***************************************************************************)
(* The steps without an error                                              *)
(***************************************************************************)
LEMMA StillGoing ==
    ASSUME IInv', ~failed', calls' # <<>>
    PROVE  Going'
BY DEF IInv, CrashOnlyAfterError, Going

LEMMA ValDeclMaps ==
    ASSUME BlocksInv, IInv', ~failed', NEW n \in DeclNames, NEW h \in Holds, ValDecl(n, h)
    PROVE  BlocksInv' /\ Blocks!Plain
<1> DEFINE d == NewDecl(ss, Function, n, h)
           s == [kind |-> "decl", decl |-> d]
<1>1. /\ calls # <<>> /\ ~failed /\ ~crashed /\ walk = Idle /\ IInv
      /\ text' = Read(s) /\ ss' = PushDecl(ss, d)
      /\ UNCHANGED <<tree, defers, calls, saved, walk, failed, crashed>>
  BY DEF ValDecl, Reads, Reading, BlocksInv
<1>2. ss \in Stack /\ ss.scopes # <<>> /\ Function \in Nat
  BY <1>1, AtBody
<1>3. d \in Decl
  BY <1>2, NewDeclType
<1>4. s \in Stmt /\ s.kind \notin Exits
  BY <1>3, StmtTypes DEF Exits
<1> HIDE DEF d, s
<1>5. ss'.loops = ss.loops
  BY <1>1, <1>2, <1>3, PushDeclFacts
<1>6. Going /\ Going'
  BY <1>1, StillGoing DEF Going
<1> QED
  BY <1>1, <1>4, <1>5, <1>6, PlainMaps

LEMMA UseMaps ==
    ASSUME BlocksInv, IInv', ~failed', NEW n \in DeclNames \cup Globals, Use(n)
    PROVE  BlocksInv' /\ Blocks!Plain
<1> DEFINE d == ResolveDecl(ss, n)
           s == [kind |-> "use", decl |-> d]
<1>1. /\ calls # <<>> /\ ~crashed /\ walk = Idle /\ IInv
      /\ IF d = NoDecl THEN Reject
           ELSE text' = Read(s) /\ UNCHANGED <<tree, defers, ss, calls, saved, walk, failed, crashed>>
  BY DEF Use, Reads, Reading, BlocksInv
<1>2. ss \in Stack
  BY <1>1, AtBody
<1>3. d \in Decl
  BY <1>2, ResolveDeclType
<1>4. s \in Stmt /\ s.kind \notin Exits
  BY <1>3, StmtTypes DEF Exits
<1> HIDE DEF d, s
<1>5. text' = Read(s) /\ UNCHANGED <<tree, defers, ss, calls, saved, walk, failed, crashed>>
  BY <1>1 DEF Reject
<1>6. Going /\ Going'
  BY <1>1, <1>5, StillGoing DEF Going
<1> QED
  BY <1>1, <1>4, <1>5, <1>6, PlainMaps

LEMMA RetOnNullMaps ==
    ASSUME BlocksInv, IInv', ~failed', RetOnNull
    PROVE  BlocksInv' /\ Blocks!Plain
<1> DEFINE s == [kind |-> "try"]
<1>1. /\ calls # <<>> /\ ~crashed /\ walk = Idle /\ IInv
      /\ text' = Read(s) /\ UNCHANGED <<tree, defers, ss, calls, saved, walk, failed, crashed>>
  BY DEF RetOnNull, Reads, Reading, BlocksInv, Reject
<1>2. s \in Stmt /\ s.kind \notin Exits
  BY StmtTypes DEF Exits
<1> HIDE DEF s
<1>3. Going /\ Going'
  BY <1>1, StillGoing DEF Going
<1> QED
  BY <1>1, <1>2, <1>3, PlainMaps

\* The loops of the stack belong to bodies that are open.
LEMMA LoopsOpen ==
    ASSUME IInv, calls # <<>>, NEW i \in 1..Len(ss.loops)
    PROVE  /\ \E k \in 1..Len(calls) : ss.loops[i].body = calls[k]
           /\ ss.loops[i].body \in 1..Len(tree) /\ ss.loops[i].body # Fresh
<1>1. PICK at \in [1..Len(ss.loops) -> 1..Len(calls)] :
          \A j \in 1..Len(ss.loops) : ss.loops[j].body = calls[at[j]]
  BY AtBody DEF StackOK, LoopsNested
<1>2. at[i] \in 1..Len(calls)
  BY <1>1
<1>3. calls[at[i]] \in 1..Len(tree) /\ calls[at[i]] < Fresh /\ calls[at[i]] \in Nat
  BY <1>2, CallsBelow
<1>4. Fresh \in Nat /\ ss.loops[i].body = calls[at[i]]
  BY <1>1, AtBody
<1>5. \A b : b \in Nat /\ b < Fresh => b # Fresh
  BY ONLY <1>4
<1> QED
  BY ONLY <1>2, <1>3, <1>4, <1>5

\* Entering a body that is no loop's.
LEMMA OpenMaps ==
    ASSUME BlocksInv, IInv', ~failed', Reading, NEW read, NewlyRead(read), NEW st \in Stack,
           st.loops = ss.loops, NEW owner, OpenBody(read, st, owner, <<>>),
           calls' = Append(calls, Fresh), failed' \/ ~failed, UNCHANGED <<saved, walk, crashed>>
    PROVE  BlocksInv' /\ Blocks!EnterPlain
<1>1. /\ calls # <<>> /\ ~failed /\ ~crashed /\ walk = Idle /\ IInv
      /\ text' = Append(read, <<>>) /\ defers' = Append(defers, <<>>) /\ ss' = PushScope(st, Fresh)
  BY DEF Reading, BlocksInv, OpenBody
<1>2. calls' # <<>>
  <2>1. calls \in Seq(Nat) /\ Fresh \in Nat
    BY <1>1, AtBody
  <2> QED
    BY <2>1, AppendFacts
<1>3. Going /\ Going'
  BY <1>1, <1>2, StillGoing DEF Going
<1>4. ss'.loops = ss.loops
  BY <1>1, AtBody, PushScopeFacts
<1>5. \A b \in 1..Len(tree) : LoopOf(ss', b) = LoopOf(ss, b)
  BY <1>4, LoopOfSame
<1>6. LoopOf(ss', Fresh) = NoLoop
  <2>1. \A i \in 1..Len(ss'.loops) : ss'.loops[i].body # Fresh
    BY <1>1, <1>4, LoopsOpen
  <2>2. ss' \in Stack
    BY DEF IInv, TypeOK
  <2> QED
    BY <2>1, <2>2, LoopOfIs
<1>7. NamesApart(ss')
  BY <1>1, <1>4 DEF BlocksInv, NamesApart
<1>8. Len(tree') <= MaxBodies
  <2>1. Len(tree) \in Nat /\ Len(tree) < MaxBodies /\ Len(tree') = Len(tree) + 1
    <3>1. Len(tree') = Len(text') /\ Len(text') = Len(read) + 1 /\ Len(read) = Len(tree)
      <4>1. <<>> \in Seq(Stmt) /\ read \in Seq(Seq(Stmt))
        BY EmptySeq DEF NewlyRead
      <4>2. Len(Append(read, <<>>)) = Len(read) + 1
        BY ONLY <4>1, AppendFacts
      <4>3. Len(tree') = Len(text')
        BY FramesNext DEF FramesOK
      <4>4. Len(read) = Len(tree)
        BY <1>1 DEF NewlyRead, IInv, CallsInv
      <4> QED
        BY <1>1, <4>2, <4>3, <4>4
    <3> QED
      BY <1>1, <3>1, AtBody DEF OpenBody
  <2> QED
    BY <2>1, BoundsAssumption
<1>9. /\ BlocksInv' /\ openBar # <<>>
      /\ openBar' = [openBar EXCEPT ![Len(openBar)] =
                         Append(Blocks!Here, Blocks!Block(LoopOf(ss', Fresh)))]
      /\ releasedBar' = <<>>
  BY <1>1, <1>3, <1>5, <1>7, <1>8, EnterMaps DEF NewlyRead
<1> QED
  BY <1>6, <1>9 DEF Blocks!EnterPlain, Blocks!Becomes

LEMMA BeginIfMaps ==
    ASSUME BlocksInv, IInv', ~failed', NEW x \in Binds, NEW ok \in BOOLEAN, BeginIf(x, ok)
    PROVE  BlocksInv' /\ Blocks!EnterPlain
<1> DEFINE s == [kind |-> "if", closed |-> FALSE,
                 branches |-> <<[body |-> Fresh, binds |-> Bind(x)]>>]
<1>1. /\ calls # <<>> /\ IInv /\ Reading
      /\ OpenBody(Read(s), Bound(x), "if", <<>>) /\ ~failed
      /\ calls' = Append(calls, Fresh) /\ UNCHANGED <<saved, walk, crashed>>
  BY DEF BeginIf, Reads, Reading, BlocksInv
<1>2. Bind(x) \in Decl /\ Bound(x) \in Stack /\ Bound(x).loops = ss.loops
  BY <1>1, BoundFacts DEF Binds
<1>3. s \in Stmt /\ s.kind \notin Exits
  BY <1>1, <1>2, AtBody, IfTypes DEF Exits
<1> HIDE DEF s
<1>4. NewlyRead(Read(s))
  BY <1>1, <1>3, ReadNew
<1> QED
  BY <1>1, <1>2, <1>4, OpenMaps

LEMMA ElseIfMaps ==
    ASSUME BlocksInv, IInv', ~failed', NEW x \in Binds, NEW ok \in BOOLEAN, ElseIf(x, ok)
    PROVE  BlocksInv' /\ Blocks!EnterPlain
<1>1. /\ calls # <<>> /\ IInv /\ Reading /\ IsLastIf
      /\ OpenBody(ReadBranch(Fresh, Bind(x), FALSE), Bound(x), "if", <<>>) /\ ~failed
      /\ calls' = Append(calls, Fresh) /\ UNCHANGED <<saved, walk, crashed>>
  BY DEF ElseIf, Reading, BlocksInv
<1>2. Bind(x) \in Decl /\ Bound(x) \in Stack /\ Bound(x).loops = ss.loops
  BY <1>1, BoundFacts DEF Binds
<1>3. NewlyRead(ReadBranch(Fresh, Bind(x), FALSE))
  <2>1. Fresh \in Nat
    BY <1>1, AtBody
  <2> QED
    BY <1>1, <1>2, <2>1, ReadBranchNew
<1> QED
  BY <1>1, <1>2, <1>3, OpenMaps

LEMMA ElseMaps ==
    ASSUME BlocksInv, IInv', ~failed', Else
    PROVE  BlocksInv' /\ Blocks!EnterPlain
<1>1. /\ calls # <<>> /\ IInv /\ Reading /\ IsLastIf
      /\ OpenBody(ReadBranch(Fresh, NoDecl, TRUE), ss, "if", <<>>) /\ ~failed
      /\ calls' = Append(calls, Fresh) /\ UNCHANGED <<saved, walk, crashed>>
  BY DEF Else, Reading, BlocksInv
<1>2. NoDecl \in Decl /\ ss \in Stack /\ Fresh \in Nat
  BY <1>1, AtBody DEF NoDecl, Decl, NoBody, Holds
<1>3. NewlyRead(ReadBranch(Fresh, NoDecl, TRUE))
  BY <1>1, <1>2, ReadBranchNew
<1> QED
  BY <1>1, <1>2, <1>3, OpenMaps

LEMMA BeginDeferMaps ==
    ASSUME BlocksInv, IInv', ~failed', BeginDefer
    PROVE  BlocksInv' /\ Blocks!EnterPlain
<1> DEFINE s == [kind |-> "defer", body |-> Fresh]
<1>1. /\ calls # <<>> /\ IInv /\ Reading
      /\ OpenBody(Read(s), ss, "defer", <<>>) /\ ~failed
      /\ calls' = Append(calls, Fresh) /\ UNCHANGED <<saved, walk, crashed>>
  BY DEF BeginDefer, Reads, Reading, BlocksInv
<1>2. ss \in Stack /\ Fresh \in Nat
  BY <1>1, AtBody
<1>3. s \in Stmt /\ s.kind \notin Exits
  BY <1>2, StmtTypes DEF Exits
<1> HIDE DEF s
<1>4. NewlyRead(Read(s))
  BY <1>1, <1>3, ReadNew
<1> QED
  BY <1>1, <1>2, <1>4, OpenMaps


\* A name that the loop vector does not know is no loop's.
LEMMA NamedLoopIs ==
    ASSUME NEW st \in Stack, NEW n
    PROVE  /\ NamedLoop(st, n) = 0 => \A i \in 1..Len(st.loops) : st.loops[i].name # n
           /\ NamedLoop(st, n) # 0 => /\ NamedLoop(st, n) \in 1..Len(st.loops)
                                      /\ st.loops[NamedLoop(st, n)].name = n
<1> DEFINE I == {i \in 1..Len(st.loops) : st.loops[i].name = n}
<1>1. NamedLoop(st, n) = IF I # {} THEN Min(I) ELSE 0
  BY DEF NamedLoop, SelectInSeq
<1>2. I \subseteq Nat /\ \A i \in I : i # 0 /\ i \in 1..Len(st.loops) /\ st.loops[i].name = n
  OBVIOUS
<1>3. I # {} => Min(I) \in I
  <2> HIDE DEF I
  <2> QED
    BY <1>2, MinIsElement
<1>4. CASE I = {}
  <2>1. \A i \in 1..Len(st.loops) : st.loops[i].name # n
    BY <1>4
  <2> QED
    BY <1>1, <1>4, <2>1
<1>5. CASE I # {}
  <2> HIDE DEF I
  <2> QED
    BY <1>1, <1>2, <1>3, <1>5
<1> QED
  BY <1>4, <1>5

LEMMA BodiesApartNow == IInv /\ calls # <<>> => BodiesApart(ss)
BY Frames DEF FramesOK

LEMMA BodiesApartNext == IInv' /\ calls' # <<>> => BodiesApart(ss')
<1>1. IInv' /\ calls' # <<>> => BodiesApart(ss)'
  <2>1. FramesOK' => (calls' # <<>> => BodiesApart(ss)')
    BY DEF FramesOK
  <2> QED
    BY <2>1, FramesNext
<1> QED
  BY <1>1 DEF BodiesApart

\* Entering the body of a loop whose name no loop around it has.
LEMMA BeginWhileMaps ==
    ASSUME BlocksInv, IInv', ~failed', NEW n \in Labels, NEW x \in Binds, NEW ok \in BOOLEAN,
           BeginWhile(n, x, ok)
    PROVE  BlocksInv' /\ Blocks!EnterLoop(n)
<1> DEFINE loop == [name |-> n, body |-> Fresh]
           s == [kind |-> "while", loop |-> loop, binds |-> Bind(x)]
           b == Bound(x)
           st == [b EXCEPT !.loops = Append(@, loop)]
<1>1. /\ calls # <<>> /\ IInv /\ Reading /\ ~failed /\ ~crashed /\ walk = Idle /\ ~Redefines(b, n)
      /\ OpenBody(Read(s), st, "while", <<>>)
      /\ calls' = Append(calls, Fresh) /\ UNCHANGED <<saved, walk, crashed>>
  BY DEF BeginWhile, Reads, Reading, BlocksInv
<1>2. Bind(x) \in Decl /\ b \in Stack /\ b.loops = ss.loops /\ ss \in Stack
  BY <1>1, BoundFacts, AtBody DEF Binds
<1>3. loop \in Loop /\ loop.body = Fresh /\ loop.name = n /\ Fresh \in Nat \ {0} /\ n # NoLoop
  BY <1>1, AtBody, NoLoopAssumption DEF Loop, Labels
<1> HIDE DEF loop, b
<1>4. s \in Stmt /\ s.kind \notin Exits
  BY <1>2, <1>3, StmtTypes DEF Exits
<1> HIDE DEF s
<1>5. NewlyRead(Read(s))
  BY <1>1, <1>4, ReadNew
<1>6. /\ text' = Append(Read(s), <<>>) /\ defers' = Append(defers, <<>>) /\ ss' = PushScope(st, Fresh)
      /\ Len(tree) < MaxBodies
  BY <1>1 DEF OpenBody
<1>7. st \in Stack /\ st.loops = Append(ss.loops, loop)
  <2> DEFINE loops == Append(b.loops, loop)
  <2>1. loops \in Seq(Loop)
    BY <1>2, <1>3, AppendFacts DEF Stack
  <2>2. st = [b EXCEPT !.loops = loops]
    OBVIOUS
  <2> HIDE DEF st, loops
  <2>3. st \in Stack /\ st.loops = loops
    BY <1>2, <2>1, <2>2 DEF Stack
  <2> QED
    BY <1>2, <2>3 DEF loops
<1> HIDE DEF st
<1>8. ss' \in Stack /\ ss'.loops = Append(ss.loops, loop)
  BY <1>3, <1>6, <1>7, PushScopeFacts
<1> DEFINE m == Len(ss.loops)
<1>9. /\ m \in Nat /\ Len(ss'.loops) = m + 1 /\ ss'.loops[m + 1] = loop
      /\ \A i \in 1..m : ss'.loops[i] = ss.loops[i]
  <2>1. ss.loops \in Seq(Loop)
    BY <1>2 DEF Stack
  <2>2. /\ Len(ss.loops) \in Nat /\ Len(Append(ss.loops, loop)) = Len(ss.loops) + 1
        /\ Append(ss.loops, loop)[Len(ss.loops) + 1] = loop
        /\ \A i \in 1..Len(ss.loops) : Append(ss.loops, loop)[i] = ss.loops[i]
    BY ONLY <1>3, <2>1, AppendedIs
  <2> QED
    BY <1>8, <2>2
<1> HIDE DEF m
<1>10. calls' # <<>>
  <2>1. calls \in Seq(Nat) /\ Fresh \in Nat
    BY <1>1, AtBody
  <2> QED
    BY <1>1, <2>1, AppendFacts
<1>11. Going /\ Going'
  BY <1>1, <1>10, StillGoing DEF Going
<1>12. BodiesApart(ss) /\ BodiesApart(ss')
  BY <1>1, <1>10, BodiesApartNow, BodiesApartNext
<1>13. LoopOf(ss', Fresh) = n
  <2>1. m + 1 \in 1..Len(ss'.loops)
    BY <1>9
  <2> QED
    BY <1>3, <1>8, <1>9, <1>12, <2>1, LoopOfLoop
<1>14. ASSUME NEW c \in 1..Len(tree) PROVE LoopOf(ss', c) = LoopOf(ss, c)
  <2>1. c # Fresh
    BY <1>1, AtBody DEF Fresh
  <2>2. \A i \in 1..Len(ss.loops) : ss.loops[i].body = c => \E j \in 1..Len(ss'.loops) : ss'.loops[j] = ss.loops[i]
    <3>1. \A i \in 1..m : i \in 1..Len(ss'.loops)
      BY <1>9
    <3> QED
      BY <1>9, <3>1 DEF m
  <2>3. \A i \in 1..Len(ss'.loops) : ss'.loops[i].body = c => \E j \in 1..Len(ss.loops) : ss.loops[j] = ss'.loops[i]
    <3>1. \A i \in 1..Len(ss'.loops) : i \in 1..m \/ i = m + 1
      BY <1>9
    <3> QED
      BY <1>3, <1>9, <2>1, <3>1 DEF m
  <2> QED
    BY <1>2, <1>8, <1>12, <2>2, <2>3, LoopOfKept
<1>15. n # NoName => \A i \in 1..Len(ss.loops) : ss.loops[i].name # n
  <2>1. NamedLoop(b, n) = NamedLoop(ss, n)
    BY <1>2 DEF NamedLoop
  <2> QED
    BY <1>1, <1>2, <2>1, NamedLoopIs DEF Redefines
<1>16. NamesApart(ss')
  <2>1. NamesApart(ss)
    BY <1>1 DEF BlocksInv
  <2>2. SUFFICES ASSUME NEW i \in 1..Len(ss'.loops), NEW j \in 1..Len(ss'.loops),
                        ss'.loops[i].name = ss'.loops[j].name, i # j
                 PROVE  ss'.loops[i].name = NoName
    BY DEF NamesApart
  <2>3. (i \in 1..m \/ i = m + 1) /\ (j \in 1..m \/ j = m + 1)
    BY <1>9
  <2>4. CASE i \in 1..m /\ j \in 1..m
    BY <1>9, <2>1, <2>2, <2>4 DEF NamesApart, m
  <2>5. CASE i = m + 1 \/ j = m + 1
    BY <1>3, <1>9, <1>15, <2>2, <2>3, <2>5 DEF m
  <2> QED
    BY <2>3, <2>4, <2>5
<1>17. Len(tree') <= MaxBodies
  <2>1. <<>> \in Seq(Stmt)
    BY EmptySeq
  <2>2. Len(Append(Read(s), <<>>)) = Len(Read(s)) + 1
    BY <1>5, <2>1, AppendFacts DEF NewlyRead
  <2>3. Len(tree') = Len(text')
    BY FramesNext DEF FramesOK
  <2>4. Len(Read(s)) = Len(tree) /\ Len(tree) \in Nat
    BY <1>1, <1>5, AtBody DEF NewlyRead, IInv, CallsInv
  <2> QED
    BY <1>6, <2>2, <2>3, <2>4, BoundsAssumption
<1>18. /\ BlocksInv' /\ openBar # <<>>
       /\ openBar' = [openBar EXCEPT ![Len(openBar)] =
                          Append(Blocks!Here, Blocks!Block(n))]
       /\ releasedBar' = <<>>
  BY <1>1, <1>5, <1>6, <1>11, <1>13, <1>14, <1>16, <1>17, EnterMaps DEF NewlyRead
<1>19. n # NoName => Blocks!Target(n) = 0
  <2>1. SUFFICES ASSUME n # NoName PROVE Blocks!Target(n) = 0
    OBVIOUS
  <2>2. ASSUME NEW i \in 1..Len(Blocks!Here) PROVE Blocks!Here[i].loop # n
    <3>1. i \in 1..Len(calls) /\ Blocks!Here = BlocksOf(ss, calls, defers)
      BY <1>1, <1>11, OpenFacts DEF OpenShape
    <3>2. Blocks!Here[i].loop = LoopOf(ss, calls[i])
      BY <3>1 DEF BlocksOf
    <3> QED
      BY <1>2, <1>3, <1>15, <2>1, <3>2, LoopOfIs
  <2> QED
    BY <2>1, <2>2 DEF Blocks!Target
<1> QED
  BY <1>18, <1>19 DEF Blocks!EnterLoop, Blocks!Becomes

(***************************************************************************)
(* Bodies that close                                                       *)
(***************************************************************************)
\* An open body of a statement has another one around it.
LEMMA InnerBody ==
    ASSUME IInv, calls # <<>>, tree[Cur].owner \notin {"func", "anon"}
    PROVE  /\ Len(calls) \in Nat /\ Len(calls) > 1 /\ Front(calls) # <<>>
           /\ Len(calls) - 1 \in Nat \ {0} /\ Len(calls) = (Len(calls) - 1) + 1
<1>1. Len(calls) # 1 /\ Len(calls) \in Nat \ {0} /\ calls \in Seq(Nat)
  <2>1. CallsOK(calls, tree, RootOf(Len(saved))) /\ Cur = calls[Len(calls)] /\ Len(calls) \in Nat \ {0}
    BY AtBody
  <2> QED
    BY <2>1, AtBody DEF CallsOK, RootOf
<1>2. Len(calls) > 1
  <2>1. \A x \in Nat \ {0} : x # 1 => x > 1
    OBVIOUS
  <2> QED
    BY ONLY <1>1, <2>1, Zenon
<1>3. Len(Front(calls)) = Len(calls) - 1 /\ Front(calls) \in Seq(Nat)
  BY <1>1, FrontFacts
<1> QED
  BY <1>1, <1>2, <1>3, EmptySeq

LEMMA EndIfMaps ==
    ASSUME BlocksInv, IInv', ~failed', EndIf
    PROVE  BlocksInv' /\ Blocks!Leave
<1>1. /\ calls # <<>> /\ IInv /\ ~failed /\ ~crashed /\ walk = Idle /\ tree[Cur].owner = "if"
      /\ ss' = PopScope(ss) /\ calls' = Front(calls)
      /\ UNCHANGED <<tree, text, defers, saved, walk, failed, crashed>>
  BY DEF EndIf, Reading, BlocksInv
<1>2. Len(calls) > 1 /\ calls' # <<>> /\ Len(calls) - 1 \in Nat \ {0} /\ Len(calls) = (Len(calls) - 1) + 1
  BY <1>1, InnerBody
<1>3. Going /\ Going'
  BY <1>1, <1>2, StillGoing DEF Going
<1>4. ss'.loops = ss.loops /\ ss' \in Stack /\ ss \in Stack
  BY <1>1, PoppedFacts, AtBody
<1>5. NamesApart(ss')
  BY <1>1, <1>4 DEF BlocksInv, NamesApart
<1>6. /\ BlocksInv' /\ openBar # <<>> /\ Len(Blocks!Here) > 1
      /\ openBar' = [openBar EXCEPT ![Len(openBar)] = BlocksOf(ss', Front(calls), defers)]
      /\ releasedBar' = <<>>
  BY <1>1, <1>2, <1>3, <1>5, LeaveKeeps
<1>7. BlocksOf(ss', Front(calls), defers) = Front(Blocks!Here)
  <2> DEFINE n == Len(calls) - 1
  <2>1. n \in Nat \ {0} /\ Len(calls) = n + 1 /\ calls \in Seq(Nat) /\ defers \in Seq(Seq(Nat)) /\ Within(calls, defers)
    BY <1>1, <1>2, Frames DEF FramesOK
  <2>2. KeepsLoops(calls, n, ss, ss') /\ KeepsDefers(calls, n, defers, defers)
    BY <1>4, LoopOfSame DEF KeepsLoops, KeepsDefers
  <2> HIDE DEF n
  <2>3. BlocksOf(ss', Front(calls), defers) = Front(BlocksOf(ss, calls, defers))
    BY ONLY <1>4, <2>1, <2>2, BlocksShrink
  <2> QED
    BY <1>1, <1>3, <2>3, OpenFacts DEF OpenShape
<1> QED
  BY <1>6, <1>7 DEF Blocks!Leave, Blocks!Becomes, Blocks!Front, Front

\* The innermost loop of a loop body that closes is its own.
LEMMA OwnLoopIsLast ==
    ASSUME IInv, calls # <<>>, ~failed, tree[Cur].owner = "while"
    PROVE  /\ Len(ss.loops) \in Nat \ {0} /\ ss.loops # <<>>
           /\ ss.loops[Len(ss.loops)].body = Cur
<1> DEFINE m == Len(ss.loops)
           n == Len(calls)
<1>1. /\ StackOK(ss, calls, tree, failed) /\ Cur = calls[n] /\ n \in Nat \ {0} /\ n \in 1..n
      /\ ss.loops \in Seq(Loop) /\ m \in Nat
  BY AtBody, LenProperties DEF Stack
<1>2. PICK i \in 1..m : ss.loops[i].body = calls[n]
  BY <1>1 DEF StackOK, LoopsComplete
<1>3. PICK at \in [1..m -> 1..n] :
          /\ \A j \in 1..m : ss.loops[j].body = calls[at[j]]
          /\ \A j, k \in 1..m : j < k => at[j] < at[k]
  BY <1>1 DEF StackOK, LoopsNested
<1>4. \A j, k \in 1..n : calls[j] = calls[k] => j = k
  <2>1. \A j, k \in 1..n : j < k => calls[j] < calls[k]
    BY CallsBelow
  <2>2. \A j \in 1..n : calls[j] \in Nat
    BY CallsBelow
  <2> HIDE DEF n
  <2>3. SUFFICES ASSUME NEW j \in 1..n, NEW k \in 1..n, calls[j] = calls[k], j < k PROVE FALSE
    <3>1. \A j, k \in 1..n : j = k \/ j < k \/ k < j
      BY <1>1
    <3> QED
      BY <3>1
  <2> QED
    BY <2>1, <2>2, <2>3
<1> HIDE DEF m, n
<1>5. at[i] \in 1..n /\ calls[at[i]] = calls[n]
  BY <1>2, <1>3
<1>6. at[i] = n
  BY <1>1, <1>4, <1>5
<1>7. i = m
  <2>1. SUFFICES ASSUME i < m PROVE FALSE
    BY <1>1, <1>2
  <2>2. at[i] < at[m] /\ at[m] \in 1..n
    BY <1>1, <1>2, <1>3, <2>1
  <2> QED
    BY <1>1, <1>6, <2>2
<1> QED
  BY <1>1, <1>2, <1>7, EmptySeq DEF m, n

LEMMA EndWhileMaps ==
    ASSUME BlocksInv, IInv', ~failed', EndWhile
    PROVE  BlocksInv' /\ Blocks!Leave
<1>1. /\ calls # <<>> /\ IInv /\ ~crashed /\ walk = Idle /\ tree[Cur].owner = "while"
  BY DEF EndWhile, Reading, BlocksInv
<1>2. ~failed
  BY DEF EndWhile, Abort
<1>3. Len(ss.loops) \in Nat \ {0} /\ ss.loops # <<>> /\ ss.loops[Len(ss.loops)].body = Cur
  BY <1>1, <1>2, OwnLoopIsLast
<1>4. /\ ss' = [PopScope(ss) EXCEPT !.loops = Front(@)] /\ calls' = Front(calls)
      /\ UNCHANGED <<tree, text, defers, saved, walk, failed, crashed>>
  BY <1>3 DEF EndWhile
<1>5. Len(calls) > 1 /\ calls' # <<>> /\ Len(calls) - 1 \in Nat \ {0} /\ Len(calls) = (Len(calls) - 1) + 1
  BY <1>1, <1>4, InnerBody
<1>6. Going /\ Going'
  BY <1>1, <1>2, <1>5, StillGoing DEF Going
<1>7. ss'.loops = Front(ss.loops) /\ ss' \in Stack /\ ss \in Stack /\ ss.loops \in Seq(Loop)
  <2>1. PopScope(ss) \in Stack /\ PopScope(ss).loops = ss.loops /\ ss.loops \in Seq(Loop) /\ ss \in Stack
    BY <1>1, PoppedFacts, AtBody DEF Stack
  <2>2. ss' \in Stack
    BY DEF IInv, TypeOK
  <2> DEFINE loops == Front(ss.loops)
             p == PopScope(ss)
  <2>3. ss' = [p EXCEPT !.loops = loops]
    BY <1>4, <2>1
  <2> HIDE DEF loops, p
  <2>4. ss'.loops = loops
    BY <2>1, <2>3 DEF Stack, p
  <2> QED
    BY <2>1, <2>2, <2>4 DEF loops
<1> DEFINE m == Len(ss.loops) - 1
<1>8. m \in Nat /\ Len(ss'.loops) = m /\ (\A i \in 1..m : ss'.loops[i] = ss.loops[i]) /\ Len(ss.loops) = m + 1
  BY <1>3, <1>7, FrontFacts
<1> HIDE DEF m
<1>9. NamesApart(ss')
  <2>1. NamesApart(ss)
    BY <1>2 DEF BlocksInv
  <2>2. \A i \in 1..m : i \in 1..Len(ss.loops)
    BY <1>8
  <2> QED
    BY <1>8, <2>1, <2>2 DEF NamesApart
<1>10. /\ BlocksInv' /\ openBar # <<>> /\ Len(Blocks!Here) > 1
       /\ openBar' = [openBar EXCEPT ![Len(openBar)] = BlocksOf(ss', Front(calls), defers)]
       /\ releasedBar' = <<>>
  BY <1>1, <1>4, <1>5, <1>6, <1>9, LeaveKeeps
<1>11. BodiesApart(ss) /\ BodiesApart(ss')
  BY <1>1, <1>5, BodiesApartNow, BodiesApartNext
<1>12. BlocksOf(ss', Front(calls), defers) = Front(Blocks!Here)
  <2> DEFINE n == Len(calls) - 1
  <2>1. n \in Nat \ {0} /\ Len(calls) = n + 1 /\ calls \in Seq(Nat) /\ defers \in Seq(Seq(Nat)) /\ Within(calls, defers)
    BY <1>1, <1>5, Frames DEF FramesOK
  <2>2. ASSUME NEW k \in 1..n PROVE LoopOf(ss', calls[k]) = LoopOf(ss, calls[k])
    <3>1. calls[k] # Cur
      BY <1>1, CallsBelow
    <3>2. \A i \in 1..Len(ss.loops) : ss.loops[i].body = calls[k] =>
              \E j \in 1..Len(ss'.loops) : ss'.loops[j] = ss.loops[i]
      <4>1. \A i \in 1..Len(ss.loops) : i \in 1..m \/ i = Len(ss.loops)
        BY <1>8
      <4> QED
        BY <1>3, <1>8, <3>1, <4>1
    <3>3. \A i \in 1..Len(ss'.loops) : ss'.loops[i].body = calls[k] =>
              \E j \in 1..Len(ss.loops) : ss.loops[j] = ss'.loops[i]
      <4>1. \A i \in 1..m : i \in 1..Len(ss.loops)
        BY <1>8
      <4> QED
        BY <1>8, <4>1
    <3> QED
      BY <1>7, <1>11, <3>2, <3>3, LoopOfKept
  <2> HIDE DEF n
  <2>4. KeepsLoops(calls, n, ss, ss') /\ KeepsDefers(calls, n, defers, defers)
    BY <2>2 DEF KeepsLoops, KeepsDefers
  <2>3. BlocksOf(ss', Front(calls), defers) = Front(BlocksOf(ss, calls, defers))
    BY ONLY <1>7, <2>1, <2>4, BlocksShrink
  <2> QED
    BY <1>1, <1>6, <2>3, OpenFacts DEF OpenShape
<1> QED
  BY <1>10, <1>12 DEF Blocks!Leave, Blocks!Becomes, Blocks!Front, Front

LEMMA EndDeferMaps ==
    ASSUME BlocksInv, IInv', ~failed', EndDefer
    PROVE  BlocksInv' /\ \E d \in 1..MaxBodies : Blocks!LeaveDefer(d)
<1> DEFINE st == PopScope(ss)
           n == Len(calls) - 1
<1>1. /\ calls # <<>> /\ IInv /\ ~crashed /\ walk = Idle /\ tree[Cur].owner = "defer"
  BY DEF EndDefer, Reading, BlocksInv
<1>2. /\ ~failed /\ defers' = [defers EXCEPT ![CurrentBody(st)] = Append(@, Cur)]
      /\ ss' = st /\ calls' = Front(calls)
      /\ UNCHANGED <<tree, text, saved, walk, failed, crashed>>
  <2>1. CurrentBody(st) # NoBody
    BY DEF EndDefer, Abort, IInv, CrashOnlyAfterError, BlocksInv
  <2> QED
    BY <2>1 DEF EndDefer
<1>3. Len(calls) > 1 /\ calls' # <<>> /\ n \in Nat \ {0} /\ Len(calls) = n + 1
  BY <1>1, <1>2, InnerBody
<1>4. Going /\ Going'
  BY <1>1, <1>2, <1>3, StillGoing DEF Going
<1>5. ss'.loops = ss.loops /\ ss' \in Stack /\ ss \in Stack
  BY <1>1, <1>2, PoppedFacts, AtBody
<1>6. CurrentBody(st) = calls[n]
  <2>1. Leaves(ss, calls, st, Front(calls)) /\ Mirrors(ss, calls, tree) /\ st \in Stack
    BY <1>1, PoppedFacts, AtBody DEF StackOK
  <2>2. Len(st.scopes) = n + 1 /\ st.scopes[n + 1].body = ss.scopes[n + 1].body /\ ss.scopes[n + 1].body = calls[n]
    <3>1. n \in 1..Len(calls) /\ Len(ss.scopes) = n + 2 /\ \A k \in 1..Len(calls) : ss.scopes[k + 1].body = calls[k]
      BY <1>3, <2>1 DEF Mirrors
    <3>2. Len(st.scopes) = Len(ss.scopes) - 1 /\ \A k \in 1..Len(st.scopes) : st.scopes[k].body = ss.scopes[k].body
      BY <2>1 DEF Leaves
    <3> HIDE DEF st, n
    <3>3. Len(st.scopes) = n + 1 /\ n + 1 \in 1..Len(st.scopes)
      BY <1>3, <3>1, <3>2
    <3> QED
      BY <3>1, <3>2, <3>3
  <2> HIDE DEF st, n
  <2>3. st.scopes # <<>>
    BY <1>3, <2>2
  <2> QED
    BY <2>1, <2>2, <2>3, LastScope
<1> HIDE DEF st, n
<1>7. /\ calls \in Seq(Nat) /\ defers \in Seq(Seq(Nat)) /\ defers' \in Seq(Seq(Nat))
      /\ Len(defers) = Len(tree) /\ Len(defers') = Len(defers) /\ Cur \in 1..Len(tree) /\ Len(tree) \in Nat
      /\ \A k \in 1..n + 1 : calls[k] \in 1..Len(defers)
  BY <1>1, <1>2, <1>3, Frames, FramesNext, AtBody DEF FramesOK, Within
<1>8. n \in 1..n + 1 /\ calls[n] \in 1..Len(defers)
  BY <1>3, <1>7
<1>9. defers'[calls[n]] = Append(defers[calls[n]], Cur) /\ \A b \in 1..Len(defers) : b # calls[n] => defers'[b] = defers[b]
  <2> DEFINE p == calls[n]
  <2>1. defers' = [defers EXCEPT ![p] = Append(@, Cur)]
    BY ONLY <1>2, <1>6
  <2>2. p \in 1..Len(defers) /\ defers \in Seq(Seq(Nat))
    BY <1>7, <1>8
  <2> HIDE DEF p
  <2> QED
    BY ONLY <2>1, <2>2 DEF p
<1>10. NamesApart(ss')
  BY <1>2, <1>5 DEF BlocksInv, NamesApart
<1>11. /\ BlocksInv' /\ openBar # <<>> /\ Len(Blocks!Here) > 1
       /\ openBar' = [openBar EXCEPT ![Len(openBar)] = BlocksOf(ss', Front(calls), defers')]
       /\ releasedBar' = <<>>
  <2>1. ASSUME NEW b \in 1..Len(tree), b < Head(calls) PROVE defers'[b] = defers[b]
    <3>1. Head(calls) <= calls[n] /\ Head(calls) \in Nat /\ calls[n] \in Nat
      BY <1>1, <1>3, <1>8, CallsBelow
    <3>2. b # calls[n]
      BY <2>1, <3>1
    <3> QED
      BY <1>7, <1>9, <3>2
  <2> QED
    BY <1>1, <1>2, <1>3, <1>4, <1>10, <2>1, LeaveKeeps
<1>12. BlocksOf(ss', Front(calls), defers') = [Front(Blocks!Here) EXCEPT ![n].pending = Append(@, Cur)]
  <2>1. \A k \in 1..n : LoopOf(ss', calls[k]) = LoopOf(ss, calls[k])
    BY <1>5, LoopOfSame
  <2>2. ASSUME NEW k \in 1..n - 1 PROVE defers'[calls[k]] = defers[calls[k]]
    <3>1. k \in 1..Len(calls) /\ n \in 1..Len(calls) /\ k < n
      BY <1>3
    <3>2. calls[k] < calls[n] /\ calls[k] \in Nat /\ calls[n] \in Nat /\ calls[k] \in 1..Len(defers)
      BY <1>1, <1>7, <3>1, CallsBelow
    <3>3. calls[k] # calls[n]
      BY <3>2
    <3> QED
      BY <1>9, <3>2, <3>3
  <2>3. BlocksOf(ss', Front(calls), defers') = WithDefer(Front(BlocksOf(ss, calls, defers)), n, Cur)
    <3>1. KeepsLoops(calls, n, ss, ss') /\ AddsDefer(calls, n, defers, defers', Cur) /\ Within(calls, defers)
      BY <1>3, <1>7, <1>9, <2>1, <2>2 DEF KeepsLoops, AddsDefer, Within
    <3>2. n \in Nat \ {0} /\ Len(calls) = n + 1
      BY <1>3
    <3>3. /\ ss \in Stack /\ ss' \in Stack /\ calls \in Seq(Nat) /\ Len(defers') = Len(defers)
          /\ defers \in Seq(Seq(Nat)) /\ defers' \in Seq(Seq(Nat))
      BY <1>5, <1>7
    <3> QED
      BY ONLY <3>1, <3>2, <3>3, DeferAdded
  <2> QED
    BY <1>1, <1>4, <2>3, OpenFacts DEF OpenShape, WithDefer
<1>13. Cur \in 1..MaxBodies
  BY <1>7, BoundsAssumption DEF BlocksInv
<1>14. Len(Blocks!Here) - 1 = n
  BY <1>1, <1>3, <1>4, OpenFacts DEF OpenShape
<1>15. Blocks!LeaveDefer(Cur)
  BY <1>11, <1>12, <1>14 DEF Blocks!LeaveDefer, Blocks!Becomes, Blocks!Front, Front
<1> QED
  BY <1>11, <1>13, <1>15


(***************************************************************************)
(* Functions that open and close                                           *)
(***************************************************************************)
LEMMA FirstBlock ==
    ASSUME NEW st \in Stack, st.loops = <<>>, NEW ds \in Seq(Seq(Nat))
    PROVE  BlocksOf(st, <<Len(ds) + 1>>, Append(ds, <<>>)) = <<Blocks!Block(NoLoop)>>
<1> DEFINE f == Len(ds) + 1
           ds2 == Append(ds, <<>>)
<1>1. ds2[f] = <<>>
  <2>1. <<>> \in Seq(Nat)
    BY EmptySeq
  <2> QED
    BY <2>1, AppendedIs
<1>2. LoopOf(st, f) = NoLoop
  <2>1. ~\E i \in 1..Len(st.loops) : st.loops[i].body = f
    OBVIOUS
  <2> QED
    BY <2>1, LoopOfIs
<1> HIDE DEF f, ds2
<1>3. BlocksOf(st, <<f>>, ds2) = [k \in 1..1 |-> [loop |-> LoopOf(st, <<f>>[k]), pending |-> ds2[<<f>>[k]]]]
  BY DEF BlocksOf
<1>4. BlocksOf(st, <<f>>, ds2) = [k \in 1..1 |-> Blocks!Block(NoLoop)]
  <2>1. \A k \in 1..1 : [loop |-> LoopOf(st, <<f>>[k]), pending |-> ds2[<<f>>[k]]] = Blocks!Block(NoLoop)
    BY <1>1, <1>2 DEF Blocks!Block
  <2> QED
    BY <1>3, <2>1
<1> DEFINE b == Blocks!Block(NoLoop)
<1>5. [k \in 1..1 |-> b] = <<b>>
  <2> HIDE DEF b
  <2> QED
    OBVIOUS
<1> QED
  BY <1>4, <1>5 DEF f, ds2

LEMMA FunctionEnters ==
    ASSUME BlocksInv, IInv', ~failed', walk' = Idle, NEW read \in Seq(Seq(Stmt)), Len(read) = Len(text),
           NEW r \in Returns, NEW args \in Seq(DeclNames), NEW owner,
           OpenBody(read, ArgStack(r, args), owner, args), calls' = <<Fresh>>,
           SuspendedOK', Outer' = openBar
    PROVE  BlocksInv' /\ Blocks!EnterFunc
<1> DEFINE st == ArgStack(r, args)
<1>1. /\ tree \in Seq(Header) /\ defers \in Seq(Seq(Nat)) /\ Len(defers) = Len(tree) /\ Len(tree) \in Nat
      /\ Len(text) = Len(tree) /\ Fresh = Len(tree) + 1 /\ Fresh \in Nat \ {0} /\ IInv
  BY Frames DEF BlocksInv, IInv, TypeOK, FramesOK, Fresh
<1>2. st \in Stack /\ st.loops = <<>>
  BY <1>1, ArgStackFacts
<1>3. /\ text' = Append(read, <<>>) /\ defers' = Append(defers, <<>>) /\ ss' = PushScope(st, Fresh)
      /\ Len(tree) < MaxBodies
  BY DEF OpenBody
<1> HIDE DEF st
<1>4. ss' \in Stack /\ ss'.loops = <<>>
  BY <1>1, <1>2, <1>3, PushScopeFacts
<1>5. calls' # <<>> /\ Len(calls') = 1 /\ Cur' = Fresh
  BY DEF Cur, Last
<1>6. Going'
  BY <1>5, StillGoing
<1>7. Len(text') = Len(tree) + 1 /\ text'[Fresh] = <<>>
  <2>1. <<>> \in Seq(Stmt)
    BY EmptySeq
  <2> QED
    BY <1>1, <1>3, <2>1, AppendedIs
<1>8. Len(tree') <= MaxBodies
  <2>1. Len(tree') = Len(text')
    BY FramesNext DEF FramesOK
  <2> QED
    BY <1>1, <1>3, <1>7, <2>1, BoundsAssumption
<1>9. BlocksInv'
  <2>1. NamesApart(ss)'
    BY <1>4 DEF NamesApart
  <2>2. WalkExact'
    BY DEF WalkExact
  <2>3. (\A k \in 1..Len(calls) - 1 : Quiet(calls[k]))'
    BY <1>5
  <2> QED
    BY <1>8, <2>1, <2>2, <2>3 DEF BlocksInv
<1>10. openBar' = Append(openBar, <<Blocks!Block(NoLoop)>>)
  <2>1. openBar' = Append(Outer', BlocksOf(ss', calls', defers'))
    BY <1>6, OpenFactsNext DEF OpenShape
  <2>2. BlocksOf(ss', <<Len(defers) + 1>>, Append(defers, <<>>)) = <<Blocks!Block(NoLoop)>>
    BY <1>1, <1>4, FirstBlock
  <2> QED
    BY <1>1, <1>3, <2>1, <2>2
<1>11. releasedBar' = <<>>
  BY <1>5, <1>7 DEF releasedBar
<1> QED
  BY <1>9, <1>10, <1>11 DEF Blocks!EnterFunc

LEMMA BeginFuncMaps ==
    ASSUME BlocksInv, IInv', ~failed', NEW r \in FuncReturns, NEW args \in ArgLists, BeginFunc(r, args)
    PROVE  BlocksInv' /\ Blocks!EnterFunc
<1>1. /\ r \in Returns /\ args \in Seq(DeclNames) /\ text \in Seq(Seq(Stmt)) /\ IInv
  BY ArgListType, BoundsAssumption DEF Returns, BlocksInv, IInv, TypeOK
<1>2. /\ calls = <<>> /\ saved = <<>> /\ calls' = <<Fresh>>
      /\ OpenBody(text, ArgStack(r, args), "func", args)
      /\ UNCHANGED <<saved, walk, failed, crashed>>
  BY <1>1 DEF BeginFunc, IInv, CallsInv
<1>3. walk' = Idle
  BY <1>1, <1>2 DEF IInv, WalkInv
<1>4. SuspendedOK'
  BY <1>2 DEF SuspendedOK
<1>5. Outer' = <<>> /\ openBar = <<>>
  <2>1. Outer' = [i \in 1..0 |-> BlocksOf(saved[i].ss, saved[i].calls, defers')]
    BY <1>2 DEF Outer
  <2>2. 1..0 = {} /\ <<>> = [i \in 1..0 |-> BlocksOf(saved[i].ss, saved[i].calls, defers')]
    OBVIOUS
  <2> QED
    BY <1>2, <2>1, <2>2 DEF openBar
<1> QED
  BY <1>1, <1>2, <1>3, <1>4, <1>5, FunctionEnters

\* A new body's defer list does not show in the blocks of the others.
LEMMA BlocksOfGrown ==
    ASSUME NEW st, NEW cs, NEW ds \in Seq(Seq(Nat)), Within(cs, ds)
    PROVE  BlocksOf(st, cs, Append(ds, <<>>)) = BlocksOf(st, cs, ds)
<1>1. \A b \in 1..Len(ds) : Append(ds, <<>>)[b] = ds[b]
  <2>1. <<>> \in Seq(Nat)
    BY EmptySeq
  <2> QED
    BY <2>1, AppendedIs
<1> QED
  BY <1>1 DEF BlocksOf, Within

\* An anonymous function: the one it stands in is suspended.
LEMMA BeginAnonMaps ==
    ASSUME BlocksInv, IInv', ~failed', NEW r \in FuncReturns, NEW args \in ArgLists, BeginAnon(r, args)
    PROVE  BlocksInv' /\ Blocks!EnterFunc
<1> DEFINE s == [kind |-> "anon", body |-> Fresh]
           frame == [ss |-> ss, calls |-> calls]
           m == Len(saved)
<1>1. /\ r \in Returns /\ args \in Seq(DeclNames) /\ IInv /\ calls # <<>> /\ walk = Idle /\ ~failed /\ ~crashed
      /\ calls' = <<Fresh>> /\ saved' = Append(saved, frame)
      /\ OpenBody(Read(s), ArgStack(r, args), "anon", args)
      /\ UNCHANGED <<walk, failed, crashed>>
  BY ArgListType, BoundsAssumption DEF Returns, BlocksInv, BeginAnon, Reads, Reading
<1>2. /\ ss \in Stack /\ calls \in Seq(Nat) /\ Fresh = Len(tree) + 1 /\ Fresh \in Nat /\ Len(tree) \in Nat
  BY <1>1, AtBody DEF Fresh
<1>3. s \in Stmt /\ s.kind \notin Exits
  BY <1>2, StmtTypes DEF Exits
<1> HIDE DEF s
<1>4. NewlyRead(Read(s))
  BY <1>1, <1>3, ReadNew
<1>5. FramesOK /\ SuspendedOK /\ NamesApart(ss) /\ Going /\ OpenShape
  BY <1>1, Frames, OpenFacts DEF BlocksInv, Going
<1>6. /\ Len(saved') = m + 1 /\ saved'[m + 1].ss = ss /\ saved'[m + 1].calls = calls /\ m \in Nat
      /\ \A i \in 1..m : saved'[i] = saved[i]
  <2> DEFINE F == [ss : Stack, calls : Seq(Nat)]
  <2>1. saved \in Seq(F) /\ frame \in F /\ frame.ss = ss /\ frame.calls = calls
    BY <1>1, <1>2 DEF IInv, TypeOK
  <2> HIDE DEF F, frame
  <2>2. /\ Len(Append(saved, frame)) = m + 1 /\ m \in Nat /\ Append(saved, frame)[m + 1] = frame
        /\ \A i \in 1..m : Append(saved, frame)[i] = saved[i]
    BY ONLY <2>1, AppendedIs DEF m
  <2> HIDE DEF m
  <2> QED
    BY <1>1, <2>1, <2>2
<1> HIDE DEF m, frame
<1>7. /\ Len(calls) \in Nat \ {0}
      /\ \A k \in 1..Len(calls) : /\ calls[k] \in 1..Len(tree) /\ calls[k] < Fresh
                                   /\ (k = Len(calls) => calls[k] = Cur) /\ (k \in 1..Len(calls) - 1 => calls[k] # Cur)
      /\ \A b \in 1..Len(tree) : b < Head(calls) => b # Cur
  <2>1. /\ Len(calls) \in Nat \ {0} /\ Cur = calls[Len(calls)]
        /\ \A k \in 1..Len(calls) : calls[k] \in 1..Len(tree) /\ calls[k] < Fresh
        /\ \A k \in 1..Len(calls) - 1 : calls[k] # Cur
        /\ \A b \in 1..Len(tree) : b < Head(calls) => b # Cur
    BY <1>1, CallsBelow
  <2> QED
    BY ONLY <2>1
<1>8. \A b \in 1..Len(tree) : text'[b] = Read(s)[b]
  <2>1. <<>> \in Seq(Stmt) /\ Read(s) \in Seq(Seq(Stmt)) /\ Len(Read(s)) = Len(tree)
    BY <1>4, <1>5, EmptySeq DEF NewlyRead, FramesOK
  <2>2. \A b \in 1..Len(Read(s)) : Append(Read(s), <<>>)[b] = Read(s)[b]
    BY ONLY <2>1, AppendedIs
  <2> QED
    BY <1>1, <2>1, <2>2 DEF OpenBody
<1>9. ASSUME NEW k \in 1..Len(calls)
      PROVE  text'[calls[k]] # <<>> /\ Last(text'[calls[k]]).kind \notin Exits
  <2>1. CASE k = Len(calls)
    BY <1>4, <1>7, <1>8, <2>1 DEF NewlyRead
  <2>2. CASE k # Len(calls)
    <3>1. k \in 1..Len(calls) - 1
      BY <1>7, <2>2
    <3>2. text[calls[k]] # <<>> /\ Last(text[calls[k]]).kind \notin Exits
      BY <1>1, <3>1 DEF BlocksInv, Quiet
    <3> QED
      BY <1>4, <1>7, <1>8, <3>1, <3>2 DEF NewlyRead
  <2> QED
    BY <2>1, <2>2
<1>10. ASSUME NEW i \in 1..m, NEW k \in 1..Len(saved[i].calls)
       PROVE  /\ text'[saved[i].calls[k]] # <<>> /\ Last(text'[saved[i].calls[k]]).kind \notin Exits
              /\ saved[i].calls[k] < Head(calls) /\ saved[i].calls[k] < Fresh
  <2> DEFINE b == saved[i].calls[k]
  <2>1. b \in 1..Len(tree) /\ b < Head(calls) /\ text[b] # <<>> /\ Last(text[b]).kind \notin Exits
    BY <1>5 DEF SuspendedOK, FramesOK, Within, Quiet, m
  <2> HIDE DEF b
  <2>2. text'[b] = text[b]
    BY <1>4, <1>7, <1>8, <2>1 DEF NewlyRead
  <2>3. b < Fresh
    BY <1>2, <2>1
  <2> QED
    BY <2>1, <2>2, <2>3 DEF b
<1>11. Head(calls') = Fresh
  BY <1>1
<1>12. SuspendedOK'
  <2>1. SUFFICES ASSUME NEW i \in 1..Len(saved')
                 PROVE  /\ NamesApart(saved'[i].ss)
                        /\ \A k \in 1..Len(saved'[i].calls) :
                              /\ text'[saved'[i].calls[k]] # <<>> /\ Last(text'[saved'[i].calls[k]]).kind \notin Exits
                              /\ saved'[i].calls[k] < Head(calls')
                        /\ \A j \in i + 1..Len(saved') : \A k \in 1..Len(saved'[i].calls) :
                              saved'[i].calls[k] < Head(saved'[j].calls)
    BY DEF SuspendedOK, Quiet, NamesApart
  <2>2. CASE i \in 1..m
    <3>1. saved'[i] = saved[i] /\ NamesApart(saved[i].ss)
      BY <1>5, <1>6, <2>2 DEF SuspendedOK, m
    <3>2. ASSUME NEW j \in i + 1..m + 1, NEW k \in 1..Len(saved[i].calls)
          PROVE  saved[i].calls[k] < Head(saved'[j].calls)
      <4>1. CASE j = m + 1
        BY <1>6, <1>10, <2>2, <4>1
      <4>2. CASE j # m + 1
        <5>1. j \in i + 1..m /\ j \in 1..m
          BY <1>6, <2>2, <4>2
        <5>2. saved'[j] = saved[j]
          BY <1>6, <5>1
        <5>3. saved[i].calls[k] < Head(saved[j].calls)
          BY <1>5, <2>2, <5>1 DEF SuspendedOK, m
        <5> QED
          BY <5>2, <5>3
      <4> QED
        BY <4>1, <4>2
    <3> QED
      BY <1>6, <1>10, <1>11, <2>2, <3>1, <3>2
  <2>3. CASE i = m + 1
    <3>1. i + 1..Len(saved') = {}
      BY <1>6, <2>3
    <3> QED
      BY <1>5, <1>6, <1>7, <1>9, <1>11, <2>3, <3>1
  <2> QED
    BY <1>6, <2>2, <2>3
<1>13. Outer' = openBar
  <2> DEFINE B == BlocksOf(ss, calls, defers)
  <2>1. /\ Outer \in Seq(Seq(BlockType)) /\ Len(Outer) = m /\ openBar = Append(Outer, B) /\ B \in Seq(BlockType)
        /\ \A i \in 1..m : Outer[i] = BlocksOf(saved[i].ss, saved[i].calls, defers)
    BY <1>5 DEF OpenShape, m
  <2>2. Going'
    BY <1>1, StillGoing
  <2>3. Outer' \in Seq(Seq(BlockType)) /\ Len(Outer') = m + 1
    BY <1>6, <2>2, OpenFactsNext DEF OpenShape
  <2>4. ASSUME NEW i \in 1..m + 1
        PROVE  Outer'[i] = BlocksOf(saved'[i].ss, saved'[i].calls, Append(defers, <<>>))
    BY <1>1, <1>6 DEF Outer, OpenBody
  <2>5. ASSUME NEW i \in 1..m PROVE Outer'[i] = Outer[i]
    <3>1. i \in 1..m + 1 /\ saved'[i] = saved[i]
      BY <1>6
    <3>2. Within(saved[i].calls, defers) /\ defers \in Seq(Seq(Nat))
      BY <1>5 DEF FramesOK, m
    <3>3. BlocksOf(saved[i].ss, saved[i].calls, Append(defers, <<>>)) = BlocksOf(saved[i].ss, saved[i].calls, defers)
      BY ONLY <3>2, BlocksOfGrown
    <3>4. Outer'[i] = BlocksOf(saved[i].ss, saved[i].calls, Append(defers, <<>>))
      BY <2>4, <3>1
    <3>5. Outer[i] = BlocksOf(saved[i].ss, saved[i].calls, defers)
      BY <2>1
    <3> QED
      BY ONLY <3>3, <3>4, <3>5
  <2>6. Outer'[m + 1] = B
    <3>1. m + 1 \in 1..m + 1
      BY <1>6
    <3>2. Within(calls, defers) /\ defers \in Seq(Seq(Nat))
      BY <1>1, <1>5 DEF FramesOK
    <3> QED
      BY <1>6, <2>4, <3>1, <3>2, BlocksOfGrown
  <2> HIDE DEF B
  <2>7. /\ openBar \in Seq(Seq(BlockType)) /\ Len(openBar) = m + 1 /\ openBar[m + 1] = B
        /\ \A i \in 1..m : openBar[i] = Outer[i]
    BY <2>1, AppendedIs
  <2>8. \A i \in 1..m + 1 : Outer'[i] = openBar[i]
    <3>1. \A i \in 1..m + 1 : i \in 1..m \/ i = m + 1
      BY <1>6
    <3> QED
      BY <2>5, <2>6, <2>7, <3>1
  <2> DEFINE x == Outer'
             y == openBar
  <2>9. x \in Seq(Seq(BlockType)) /\ y \in Seq(Seq(BlockType)) /\ Len(x) = m + 1 /\ Len(y) = m + 1 /\ \A i \in 1..m + 1 : x[i] = y[i]
    BY <2>3, <2>7, <2>8
  <2> HIDE DEF x, y
  <2>10. x = y
    BY ONLY <2>9, SeqEqual
  <2> QED
    BY <2>10 DEF x, y
<1> QED
  BY <1>1, <1>4, <1>12, <1>13, FunctionEnters DEF NewlyRead

\* A function's body is the only one open when it ends.
LEMMA RootAlone ==
    ASSUME IInv, calls # <<>>, tree[Cur].owner \in {"func", "anon"}
    PROVE  /\ Len(calls) = 1
           /\ tree[Cur].owner = "func" => Len(saved) = 0
           /\ tree[Cur].owner = "anon" => Len(saved) # 0
<1>1. /\ CallsOK(calls, tree, RootOf(Len(saved))) /\ Cur = calls[Len(calls)]
      /\ Len(calls) \in Nat \ {0}
  BY AtBody
<1>2. Len(calls) \notin 2..Len(calls)
  BY <1>1 DEF CallsOK
<1>3. \A n \in Nat \ {0} : n \notin 2..n => n = 1
  OBVIOUS
<1>4. Len(calls) = 1
  BY <1>1, <1>2, <1>3
<1>5. RootOf(Len(saved)) = tree[Cur].owner
  BY <1>1, <1>4 DEF CallsOK
<1> QED
  BY <1>4, <1>5 DEF RootOf

LEMMA EndFuncMaps ==
    ASSUME BlocksInv, IInv', ~failed', EndFunc
    PROVE  BlocksInv' /\ Blocks!LeaveFunc
<1>1. /\ calls # <<>> /\ tree[Cur].owner = "func" /\ walk = Idle /\ ~crashed /\ IInv
      /\ ss' = NoStack /\ calls' = <<>> /\ ~failed
      /\ UNCHANGED <<tree, text, defers, saved, walk, failed, crashed>>
  BY DEF EndFunc, Reading, BlocksInv
<1>2. Len(calls) = 1 /\ Len(saved) = 0
  BY <1>1, RootAlone
<1>3. OpenShape
  BY <1>1, OpenFacts DEF Going
<1>4. Outer = <<>>
  BY <1>2, <1>3, EmptySeq DEF OpenShape
<1>5. BlocksInv'
  <2>1. NamesApart(ss)'
    BY <1>1 DEF NamesApart, NoStack
  <2>2. WalkExact'
    BY <1>1 DEF WalkExact
  <2>3. SuspendedOK'
    BY <1>1, <1>2 DEF SuspendedOK
  <2>4. (\A k \in 1..Len(calls) - 1 : Quiet(calls[k]))'
    BY <1>1
  <2> QED
    BY <1>1, <2>1, <2>2, <2>3, <2>4 DEF BlocksInv
<1>6. openBar' = <<>> /\ releasedBar' = <<>>
  BY <1>1 DEF openBar, releasedBar
<1>7. Front(openBar) = <<>>
  <2>1. openBar = Append(Outer, BlocksOf(ss, calls, defers)) /\ Outer \in Seq(Seq(BlockType)) /\ BlocksOf(ss, calls, defers) \in Seq(BlockType)
    BY <1>3 DEF OpenShape
  <2>2. Front(openBar) = Outer
    BY ONLY <2>1, TopReplaced
  <2> QED
    BY <1>4, <2>2
<1> QED
  BY <1>2, <1>3, <1>5, <1>6, <1>7 DEF OpenShape, Blocks!LeaveFunc, Blocks!Front, Front

LEMMA EndAnonMaps ==
    ASSUME BlocksInv, IInv', ~failed', EndAnon
    PROVE  BlocksInv' /\ Blocks!LeaveFunc
<1> DEFINE m == Len(saved) - 1
<1>1. /\ calls # <<>> /\ tree[Cur].owner = "anon" /\ walk = Idle /\ ~crashed /\ IInv /\ ~failed
      /\ ss' = Last(saved).ss /\ calls' = Last(saved).calls /\ saved' = Front(saved)
      /\ UNCHANGED <<tree, text, defers, walk, failed, crashed>>
  BY DEF EndAnon, Reading, BlocksInv
<1>2. Len(calls) = 1 /\ Len(saved) # 0
  BY <1>1, RootAlone
<1>3. /\ Len(saved') = m /\ Last(saved) = saved[m + 1] /\ Len(saved) = m + 1 /\ m \in Nat
      /\ \A i \in 1..m : saved'[i] = saved[i]
  <2> DEFINE F == [ss : Stack, calls : Seq(Nat)]
  <2>1. saved \in Seq(F) /\ saved # <<>>
    BY <1>1, <1>2 DEF IInv, TypeOK
  <2> HIDE DEF F
  <2>2. /\ Len(Front(saved)) = m /\ Last(saved) = saved[Len(saved)] /\ Len(saved) \in Nat \ {0}
        /\ \A i \in 1..m : Front(saved)[i] = saved[i]
    BY ONLY <2>1, FrontFacts DEF m
  <2>3. Len(saved) = m + 1 /\ m \in Nat
    BY <2>2
  <2> QED
    BY <1>1, <2>2, <2>3
<1> HIDE DEF m
<1>4. m + 1 \in 1..m + 1 /\ \A i \in 1..m : i \in 1..m + 1
  BY <1>3
<1>5. ss' = saved[m + 1].ss /\ calls' = saved[m + 1].calls
  BY <1>1, <1>3
<1>6. FramesOK /\ SuspendedOK /\ Going /\ OpenShape
  BY <1>1, Frames, OpenFacts DEF BlocksInv, Going
<1>7. calls' # <<>> /\ calls' \in Seq(Nat) /\ NamesApart(ss')
  BY <1>3, <1>4, <1>5, <1>6 DEF FramesOK, SuspendedOK
<1>8. Going' /\ OpenShape'
  BY <1>7, StillGoing, OpenFactsNext
<1>9. \A k \in 1..Len(calls') : text[calls'[k]] # <<>> /\ Last(text[calls'[k]]).kind \notin Exits
  BY <1>3, <1>4, <1>5, <1>6 DEF SuspendedOK, Quiet
<1>10. SuspendedOK'
  <2>1. SUFFICES ASSUME NEW i \in 1..m
                 PROVE  /\ NamesApart(saved[i].ss)
                        /\ \A k \in 1..Len(saved[i].calls) :
                              /\ text[saved[i].calls[k]] # <<>> /\ Last(text[saved[i].calls[k]]).kind \notin Exits
                              /\ saved[i].calls[k] < Head(saved[m + 1].calls)
                        /\ \A j \in i + 1..m : \A k \in 1..Len(saved[i].calls) :
                              saved[i].calls[k] < Head(saved[j].calls)
    <3>1. \A i \in 1..m : \A j \in i + 1..m : j \in 1..m
      BY <1>3
    <3>2. /\ Len(saved') = m /\ \A i \in 1..m : saved'[i] = saved[i]
          /\ Head(calls') = Head(saved[m + 1].calls) /\ text' = text
      BY <1>1, <1>3, <1>5
    <3>3. \A i \in 1..m : \A k \in 1..Len(saved[i].calls) :
             Quiet(saved[i].calls[k])' /\ saved'[i].calls[k] < Head(calls')
      BY ONLY <2>1, <3>2 DEF Quiet
    <3>4. \A i \in 1..m : /\ NamesApart(saved'[i].ss)
                          /\ \A j \in i + 1..m : \A k \in 1..Len(saved'[i].calls) :
                                saved'[i].calls[k] < Head(saved'[j].calls)
      BY ONLY <2>1, <3>1, <3>2
    <3> QED
      BY ONLY <3>2, <3>3, <3>4 DEF SuspendedOK, Quiet, NamesApart
  <2>2. i \in 1..m + 1 /\ m + 1 \in i + 1..m + 1 /\ \A j \in i + 1..m : j \in i + 1..m + 1
    BY <1>3
  <2> QED
    BY <1>3, <1>6, <2>2 DEF SuspendedOK, Quiet
<1>11. BlocksInv'
  <2>1. NamesApart(ss)'
    BY <1>7 DEF NamesApart
  <2>2. WalkExact'
    BY <1>1 DEF WalkExact
  <2>3. (\A k \in 1..Len(calls) - 1 : Quiet(calls[k]))'
    <3>1. \A k \in 1..Len(calls') - 1 : k \in 1..Len(calls')
      BY <1>7, LenProperties
    <3> QED
      BY <1>1, <1>9, <3>1 DEF Quiet
  <2> QED
    BY <1>1, <1>10, <2>1, <2>2, <2>3 DEF BlocksInv
<1>12. releasedBar' = <<>>
  <2>1. Len(calls') \in 1..Len(calls') /\ Cur' = calls'[Len(calls')]
    <3>1. Len(calls') \in Nat \ {0}
      BY <1>7, LenProperties, EmptySeq
    <3> QED
      BY <3>1 DEF Cur, Last
  <2>2. text[Cur'] # <<>> /\ Last(text[Cur']).kind \notin Exits
    BY <1>9, <2>1
  <2> QED
    BY <1>1, <2>2 DEF releasedBar
<1>13. openBar' = Outer
  <2> DEFINE B == BlocksOf(ss', calls', defers')
  <2>1. /\ Outer' \in Seq(Seq(BlockType)) /\ Len(Outer') = m /\ openBar' = Append(Outer', B) /\ B \in Seq(BlockType)
        /\ \A i \in 1..m : Outer'[i] = BlocksOf(saved'[i].ss, saved'[i].calls, defers')
    BY <1>3, <1>8 DEF OpenShape
  <2>2. /\ Outer \in Seq(Seq(BlockType)) /\ Len(Outer) = m + 1
        /\ \A i \in 1..m + 1 : Outer[i] = BlocksOf(saved[i].ss, saved[i].calls, defers)
    BY <1>3, <1>6 DEF OpenShape
  <2>3. B = Outer[m + 1]
    BY <1>1, <1>4, <1>5, <2>2
  <2>4. \A i \in 1..m : Outer'[i] = Outer[i]
    BY <1>1, <1>3, <1>4, <2>1, <2>2
  <2> HIDE DEF B
  <2> DEFINE x == openBar'
             y == Outer
  <2>5. /\ x \in Seq(Seq(BlockType)) /\ Len(x) = m + 1 /\ x[m + 1] = B
        /\ \A i \in 1..m : x[i] = Outer'[i]
    BY <2>1, AppendedIs
  <2>6. y \in Seq(Seq(BlockType)) /\ Len(y) = m + 1 /\ y[m + 1] = B /\ \A i \in 1..m : y[i] = Outer'[i]
    BY <2>2, <2>3, <2>4
  <2> HIDE DEF x, y
  <2>7. \A i \in 1..m + 1 : i \in 1..m \/ i = m + 1
    BY <1>3
  <2>8. \A i \in 1..m + 1 : x[i] = y[i]
    BY <2>5, <2>6, <2>7
  <2>9. x = y
    BY ONLY <2>5, <2>6, <2>8, SeqEqual
  <2> QED
    BY <2>9 DEF x, y
<1>14. Front(openBar) = Outer
  <2>1. openBar = Append(Outer, BlocksOf(ss, calls, defers)) /\ Outer \in Seq(Seq(BlockType)) /\ BlocksOf(ss, calls, defers) \in Seq(BlockType)
    BY <1>6 DEF OpenShape
  <2> QED
    BY ONLY <2>1, TopReplaced
<1> QED
  BY <1>2, <1>6, <1>11, <1>12, <1>13, <1>14 DEF OpenShape, Blocks!LeaveFunc, Blocks!Front, Front


(***************************************************************************)
(* Exits                                                                   *)
(***************************************************************************)
LEMMA LargestIs ==
    ASSUME NEW S, NEW m \in S, \A x \in S : x <= m, S \subseteq Nat
    PROVE  Max(S) = m
<1>1. \A x \in S : x >= m => x = m
  OBVIOUS
<1>2. \A y \in S : m >= y
  OBVIOUS
<1> DEFINE T(x) == \A y \in S : x >= y
<1>3. m \in S /\ T(m) /\ \A x \in S : T(x) => x = m
  BY <1>1, <1>2
<1>4. Max(S) = CHOOSE x \in S : T(x)
  BY DEF Max
<1> HIDE DEF T
<1> QED
  BY ONLY <1>3, <1>4

\* What the innermost function's lists are, from a body on.
LEMMA WaitingFacts ==
    ASSUME BlocksInv, Going
    PROVE  /\ Waiting(Len(calls) + 1) = <<>>
           /\ \A p \in 1..Len(calls) + 1 : Waiting(p) \in Seq(Nat)
           /\ \A p \in 1..Len(calls) : /\ Waiting(p) = defers[calls[p]] \o Waiting(p + 1)
                                        /\ defers[calls[p]] \in Seq(Nat)
<1> DEFINE B == BlocksOf(ss, calls, defers)
           n == Len(calls)
<1>1. /\ FramesOK /\ OpenShape /\ n \in Nat
  BY Frames, OpenFacts DEF BlocksInv, OpenShape
<1>2. /\ B \in Seq(BlockType) /\ Len(B) = n
      /\ \A k \in 1..n : B[k] = [loop |-> LoopOf(ss, calls[k]), pending |-> defers[calls[k]]]
  BY <1>1, BlocksType DEF FramesOK, Going
<1>3. \A k \in 1..n : defers[calls[k]] \in Seq(Nat)
  BY <1>1, ElementOfSeq DEF FramesOK, Going, Within
<1>4. \A p : Waiting(p) = Blocks!PendingFrom(B, p)
  BY DEF Waiting
<1> HIDE DEF B, n
<1>5. \A p \in 1..n + 1 : /\ Blocks!PendingFrom(B, p) = IF p > n THEN <<>>
                                ELSE B[p].pending \o Blocks!PendingFrom(B, p + 1)
                          /\ Blocks!PendingFrom(B, p) \in Seq(Nat)
  BY <1>2, PendingUnfolds, PendingType
<1>6. n + 1 \in 1..n + 1 /\ n + 1 > n /\ \A p \in 1..n : p \in 1..n + 1 /\ ~(p > n)
  BY <1>1
<1>7. Waiting(n + 1) = <<>>
  BY <1>4, <1>5, <1>6
<1>8. \A p \in 1..n + 1 : Waiting(p) \in Seq(Nat)
  BY <1>4, <1>5
<1>9. ASSUME NEW p \in 1..n PROVE Waiting(p) = defers[calls[p]] \o Waiting(p + 1)
  <2>1. Waiting(p) = B[p].pending \o Waiting(p + 1)
    BY <1>4, <1>5, <1>6
  <2>2. B[p].pending = defers[calls[p]]
    BY <1>2
  <2> QED
    BY <2>1, <2>2
<1> QED
  BY <1>3, <1>7, <1>8, <1>9 DEF n

\* Steps that the blocks do not show.
LEMMA BarsKept ==
    ASSUME UNCHANGED <<text, defers, ss, calls, saved, failed, crashed>>
    PROVE  UNCHANGED Blocks!vars
<1>1. openBar' = openBar
  BY DEF openBar, Outer
<1>2. releasedBar' = releasedBar
  BY DEF releasedBar, Cur
<1> QED
  BY <1>1, <1>2 DEF Blocks!vars

LEMMA WalkKeeps ==
    ASSUME BlocksInv, IInv', UNCHANGED <<tree, text, defers, ss, calls, saved, failed, crashed>>,
           ~failed => WalkExact'
    PROVE  BlocksInv'
<1>1. ~failed => NamesApart(ss)' /\ SuspendedOK' /\ (\A k \in 1..Len(calls) - 1 : Quiet(calls[k]))'
  <2>1. NamesApart(ss)' = NamesApart(ss)
    BY DEF NamesApart
  <2>2. SuspendedOK' = SuspendedOK
    BY DEF SuspendedOK, NamesApart, Quiet
  <2>3. (\A k \in 1..Len(calls) - 1 : Quiet(calls[k]))' = \A k \in 1..Len(calls) - 1 : Quiet(calls[k])
    BY DEF Quiet
  <2> QED
    BY ONLY <2>1, <2>2, <2>3, BlocksInv, UNCHANGED failed DEF BlocksInv
<1> QED
  BY <1>1 DEF BlocksInv

LEMMA StartWalkMaps ==
    ASSUME BlocksInv, IInv', ~failed', Reading, NEW kind \in Exits, NEW loop, StartWalk(kind, loop),
           IF kind = "return" THEN loop = NoLoopAt
           ELSE \E i \in 1..Len(ss.loops) :
                    loop = ss.loops[i] /\ (loop.name = NoName => i = Len(ss.loops))
    PROVE  BlocksInv' /\ UNCHANGED Blocks!vars
<1>1. /\ calls # <<>> /\ IInv /\ CurrentBody(ss) = Cur /\ Cur = calls[Len(calls)] /\ Cur # NoBody
      /\ Len(calls) \in 1..Len(calls) /\ Len(calls) \in Nat
  BY AtBody DEF Reading, BlocksInv, NoBody
<1>2. /\ walk' = [kind |-> kind, loop |-> loop, at |-> Cur, result |-> <<>>]
      /\ UNCHANGED <<tree, text, defers, ss, calls, saved, failed, crashed>>
  BY <1>1 DEF StartWalk
<1>3. Going
  BY <1>1, <1>2 DEF Reading, Going
<1>4. Waiting(Len(calls) + 1) = <<>>
  BY <1>3, WaitingFacts
<1>6. Reverse(<<>>) = <<>>
  <2>1. Reverse(<<>>) = [i \in 1..0 |-> <<>>[(0 - i) + 1]]
    BY DEF Reverse
  <2>2. 1..0 = {} /\ <<>> = [i \in 1..0 |-> <<>>[(0 - i) + 1]]
    OBVIOUS
  <2> QED
    BY <2>1, <2>2
<1>7. WalkExact'
  <2>1. PICK p \in 1..Len(calls) : p = Len(calls)
    BY <1>1
  <2>2. Waiting(p + 1)' = <<>> /\ \A q : q \notin p + 1..Len(calls)
    <3>1. Waiting(p + 1)' = Waiting(p + 1)
      BY <1>2 DEF Waiting
    <3> QED
      BY <1>1, <1>4, <2>1, <3>1
  <2>5. /\ walk'.at = calls[p] /\ walk'.at # NoBody /\ walk'.result = Reverse(Waiting(p + 1)')
        /\ walk'.kind = kind /\ walk'.loop = loop
    BY <1>1, <1>2, <1>6, <2>1, <2>2
  <2>3. \E r \in 1..Len(calls) :
           /\ IF walk'.at = NoBody THEN EndsAt(walk, r)' /\ walk'.result = Reverse(Waiting(r)')
              ELSE walk'.at = calls[r] /\ walk'.result = Reverse(Waiting(r + 1)')
           /\ \A q \in r + 1..Len(calls) : ~EndsAt(walk, q)'
    <3>1. \A q \in p + 1..Len(calls) : ~EndsAt(walk, q)'
      BY <2>2
    <3> WITNESS p \in 1..Len(calls)
    <3> QED
      BY <2>5, <3>1
  <2>4. IF walk'.kind = "return" THEN walk'.loop = NoLoopAt
        ELSE \E i \in 1..Len(ss.loops) :
                walk'.loop = ss.loops[i] /\ (walk'.loop.name = NoName => i = Len(ss.loops))
    BY <2>5
  <2> QED
    BY <1>2, <2>3, <2>4 DEF WalkExact, Waiting, EndsAt
<1> QED
  BY <1>2, <1>7, WalkKeeps, BarsKept

LEMMA LoopControlMaps ==
    ASSUME BlocksInv, IInv', ~failed', NEW kind \in {"break", "continue"}, NEW n \in Labels,
           LoopControl(kind, n)
    PROVE  BlocksInv' /\ UNCHANGED Blocks!vars
<1> DEFINE at == LoopFor(ss, n)
<1>1. Reading /\ calls # <<>> /\ IInv
  BY DEF LoopControl, Reads, Reading, BlocksInv
<1>2. at # 0 /\ StartWalk(kind, ss.loops[at])
  BY DEF LoopControl, Reject
<1>3. ss \in Stack /\ Len(ss.loops) \in Nat
  BY <1>1, AtBody, LenProperties DEF Stack
<1>4. at \in 0..Len(ss.loops)
  BY <1>3, LoopForInRange
<1>5. ss.loops[at].name = NoName => at = Len(ss.loops)
  BY <1>2, <1>3, NamedLoopIs DEF LoopFor
<1> HIDE DEF at
<1>6. at \in 1..Len(ss.loops)
  BY ONLY <1>2, <1>3, <1>4
<1>7. kind \in Exits /\ kind # "return"
  BY DEF Exits
<1> DEFINE loop == ss.loops[at]
<1>8. \E i \in 1..Len(ss.loops) : loop = ss.loops[i] /\ (loop.name = NoName => i = Len(ss.loops))
  BY <1>5, <1>6
<1>9. StartWalk(kind, loop)
  BY <1>2
<1> HIDE DEF loop
<1> QED
  BY <1>1, <1>7, <1>8, <1>9, StartWalkMaps

LEMMA ReturnMaps ==
    ASSUME BlocksInv, IInv', ~failed', NEW v \in BOOLEAN, Return(v)
    PROVE  BlocksInv' /\ UNCHANGED Blocks!vars
<1>1. Reading /\ StartWalk("return", NoLoopAt) /\ "return" \in Exits
  BY DEF Return, Reads, Reject, Exits
<1> QED
  BY <1>1, StartWalkMaps

\* One more body of the walk.
LEMMA WalkOutMaps ==
    ASSUME BlocksInv, IInv', ~failed', WalkOut
    PROVE  BlocksInv' /\ UNCHANGED Blocks!vars
<1> DEFINE n == Len(calls)
           next == IF walk.at = walk.loop.body THEN NoBody ELSE tree[walk.at].parent
           gained == walk.result \o Reverse(defers[walk.at])
<1>1. /\ walk.at # NoBody /\ ~crashed /\ walk' = [walk EXCEPT !.result = gained, !.at = next]
      /\ UNCHANGED <<tree, text, defers, ss, calls, saved, failed, crashed>>
  BY DEF WalkOut, WithDefers, NextOut
<1>2. /\ walk # Idle /\ ~failed /\ IInv
  BY <1>1 DEF Idle, BlocksInv
<1>3. /\ calls # <<>>
      /\ (walk.kind # "return" => \E k \in 1..n : calls[k] = walk.loop.body)
      /\ WalkExact /\ walk \in Walk
  BY <1>2 DEF IInv, WalkInv, BlocksInv, TypeOK
<1>4. PICK p \in 1..n : /\ walk.at = calls[p] /\ walk.result = Reverse(Waiting(p + 1))
                        /\ \A q \in p + 1..n : ~EndsAt(walk, q)
  BY <1>1, <1>2, <1>3 DEF WalkExact
<1>5. /\ n \in Nat \ {0} /\ Mirrors(ss, calls, tree)
  BY <1>2, <1>3, AtBody DEF StackOK
<1>6. Going
  BY <1>1, <1>2, <1>3 DEF Going
<1> HIDE DEF n
<1>7. gained = Reverse(Waiting(p))
  <2> DEFINE d == defers[calls[p]]
             w == Waiting(p + 1)
  <2>1. Waiting(p) = d \o w /\ d \in Seq(Nat) /\ w \in Seq(Nat)
    <3>1. p + 1 \in 1..n + 1
      BY <1>5
    <3> QED
      BY <1>6, <3>1, WaitingFacts DEF n
  <2>2. gained = Reverse(w) \o Reverse(d)
    BY <1>4
  <2> HIDE DEF d, w, gained
  <2>3. Reverse(d \o w) = Reverse(w) \o Reverse(d)
    BY <2>1, ReverseConcat
  <2> QED
    BY <2>1, <2>2, <2>3
<1>8. \/ next # NoBody /\ p - 1 \in 1..n /\ next = calls[p - 1] /\ ~EndsAt(walk, p)
      \/ next = NoBody /\ EndsAt(walk, p)
  <2>1. tree[calls[p]].parent = ss.scopes[p].body
    BY <1>4, <1>5 DEF Mirrors, n
  <2>2. IF walk.kind = "return" THEN walk.loop = NoLoopAt ELSE TRUE
    BY <1>2, <1>3 DEF WalkExact
  <2>3. CASE walk.at = walk.loop.body
    <3>1. walk.kind # "return"
      BY <1>1, <2>2, <2>3 DEF NoLoopAt
    <3> QED
      BY <1>4, <2>3, <3>1 DEF EndsAt
  <2>4. CASE walk.at # walk.loop.body /\ p = 1
    <3>1. next = NoBody
      BY <1>4, <1>5, <2>1, <2>4 DEF Mirrors
    <3>2. walk.kind = "return"
      <4>1. SUFFICES ASSUME walk.kind # "return" PROVE FALSE
        OBVIOUS
      <4>2. PICK k \in 1..n : calls[k] = walk.loop.body
        BY <1>3, <4>1 DEF n
      <4>3. k = 1 \/ k \in p + 1..n
        BY <1>5, <2>4
      <4> QED
        BY <1>4, <2>4, <4>1, <4>2, <4>3 DEF EndsAt
    <3> QED
      BY <2>4, <3>1, <3>2 DEF EndsAt
  <2>5. CASE walk.at # walk.loop.body /\ p # 1
    <3>1. p - 1 \in 1..n /\ (p - 1) + 1 = p
      BY ONLY <1>5, <2>5, p \in 1..n
    <3>2. ss.scopes[p].body = calls[p - 1] /\ calls[p - 1] \in 1..Len(tree)
      BY <1>5, <3>1 DEF Mirrors, n
    <3>3. calls[p - 1] # NoBody
      BY <3>2 DEF NoBody
    <3>4. ~EndsAt(walk, p)
      BY <1>4, <2>5 DEF EndsAt
    <3>5. next = calls[p - 1]
      BY <1>4, <2>1, <2>5, <3>2
    <3> QED
      BY <3>1, <3>3, <3>4, <3>5
  <2> QED
    BY <2>3, <2>4, <2>5
<1> HIDE DEF next, gained
<1>9. walk'.kind = walk.kind /\ walk'.loop = walk.loop /\ walk'.result = gained /\ walk'.at = next
  BY <1>1, <1>3 DEF Walk
<1>10. \A q : EndsAt(walk, q)' <=> EndsAt(walk, q)
  BY <1>1, <1>9 DEF EndsAt
<1>11. \A q : Waiting(q)' = Waiting(q)
  BY <1>1 DEF Waiting
<1>12. \E r \in 1..n :
          /\ IF next = NoBody THEN EndsAt(walk, r) /\ gained = Reverse(Waiting(r))
             ELSE next = calls[r] /\ gained = Reverse(Waiting(r + 1))
          /\ \A q \in r + 1..n : ~EndsAt(walk, q)
  <2>1. CASE next = NoBody
    BY <1>4, <1>7, <1>8, <2>1
  <2>2. CASE next # NoBody
    <3>1. p - 1 \in 1..n /\ next = calls[p - 1] /\ ~EndsAt(walk, p)
      BY <1>8, <2>2
    <3>2. (p - 1) + 1 = p /\ \A q \in (p - 1) + 1..n : q = p \/ q \in p + 1..n
      BY ONLY <1>5, p \in 1..n
    <3>3. gained = Reverse(Waiting((p - 1) + 1)) /\ \A q \in (p - 1) + 1..n : ~EndsAt(walk, q)
      BY <1>4, <1>7, <3>1, <3>2
    <3> QED
      BY <2>2, <3>1, <3>3
  <2> QED
    BY <2>1, <2>2
<1>13. IF walk.kind = "return" THEN walk.loop = NoLoopAt
       ELSE \E i \in 1..Len(ss.loops) :
               walk.loop = ss.loops[i] /\ (walk.loop.name = NoName => i = Len(ss.loops))
  BY <1>2, <1>3 DEF WalkExact
<1>14. WalkExact'
  BY <1>1, <1>9, <1>10, <1>11, <1>12, <1>13 DEF WalkExact, n
<1> QED
  BY <1>1, <1>14, WalkKeeps, BarsKept

\* The block that a break or continue reaches by its loop's name.
LEMMA TargetIs ==
    ASSUME BlocksInv, Going, NEW i \in 1..Len(ss.loops), NEW p \in 1..Len(calls),
           calls[p] = ss.loops[i].body, ss.loops[i].name = NoName => i = Len(ss.loops)
    PROVE  Blocks!Target(ss.loops[i].name) = p
<1> DEFINE m == Len(ss.loops)
           n == Len(calls)
           name == ss.loops[i].name
<1>1. /\ IInv /\ FramesOK /\ OpenShape /\ ss \in Stack /\ BodiesApart(ss) /\ NamesApart(ss)
      /\ calls # <<>> /\ n \in Nat
  BY Frames, OpenFacts DEF BlocksInv, Going, FramesOK, OpenShape
<1>2. /\ Blocks!Here = BlocksOf(ss, calls, defers) /\ Len(Blocks!Here) = n
      /\ \A k \in 1..n : Blocks!Here[k].loop = LoopOf(ss, calls[k])
  BY <1>1, BlocksType DEF OpenShape, BlocksOf
<1>3. PICK at \in [1..m -> 1..n] :
          /\ \A j \in 1..m : ss.loops[j].body = calls[at[j]]
          /\ \A j, k \in 1..m : j < k => at[j] < at[k]
  BY <1>1, AtBody DEF StackOK, LoopsNested
<1>4. \A j, k \in 1..n : calls[j] = calls[k] => j = k
  <2>1. (\A j, k \in 1..n : j < k => calls[j] < calls[k]) /\ \A j \in 1..n : calls[j] \in Nat
    BY <1>1, CallsBelow
  <2> HIDE DEF n
  <2>2. SUFFICES ASSUME NEW j \in 1..n, NEW k \in 1..n, calls[j] = calls[k], j < k PROVE FALSE
    <3>1. \A j, k \in 1..n : j = k \/ j < k \/ k < j
      BY <1>1
    <3> QED
      BY <3>1
  <2> QED
    BY <2>1, <2>2
<1>5. m \in Nat /\ name # NoLoop
  <2>1. name # NoLoop
    BY <1>1, LoopNameType
  <2>2. ss.loops \in Seq(Loop)
    BY <1>1 DEF Stack
  <2> QED
    BY <2>1, <2>2, LenProperties
<1>6. LoopOf(ss, calls[p]) = name
  BY <1>1, LoopOfLoop
<1> DEFINE reach == {k \in 1..n : Blocks!Here[k].loop # NoLoop /\ (name # NoName => Blocks!Here[k].loop = name)}
<1>7. p \in reach
  BY <1>2, <1>5, <1>6
<1>8. ASSUME NEW q \in reach PROVE q <= p
  <2>1. q \in 1..n /\ LoopOf(ss, calls[q]) # NoLoop /\ (name # NoName => LoopOf(ss, calls[q]) = name)
    BY <1>2
  <2>2. PICK j \in 1..m : ss.loops[j].body = calls[q] /\ LoopOf(ss, calls[q]) = ss.loops[j].name
    BY <1>1, <2>1, LoopOfIs
  <2>3. CASE name # NoName
    <3>1. ss.loops[j].name = ss.loops[i].name
      BY <2>1, <2>2, <2>3
    <3>2. i = j
      BY <1>1, <2>3, <3>1 DEF NamesApart
    <3>3. calls[q] = calls[p] /\ p \in 1..n
      BY <2>2, <3>2
    <3>4. q = p
      BY <1>4, <2>1, <3>3
    <3> QED
      BY <1>1, <3>3, <3>4
  <2>4. CASE name = NoName
    <3>1. i = m /\ i \in 1..m /\ j \in 1..m /\ p \in 1..n
      BY <2>4
    <3>2. at[i] \in 1..n /\ at[j] \in 1..n /\ calls[at[i]] = calls[p] /\ calls[at[j]] = calls[q]
      BY <1>3, <2>2, <3>1
    <3>3. at[i] = p /\ at[j] = q
      BY <1>4, <2>1, <3>1, <3>2
    <3> HIDE DEF m, n
    <3>4. j = i \/ j < i
      BY <1>5, <3>1
    <3>5. at[j] = at[i] \/ at[j] < at[i]
      BY <1>3, <3>1, <3>4
    <3> QED
      BY <1>1, <2>1, <3>1, <3>3, <3>5
  <2> QED
    BY <2>3, <2>4
<1>9. Blocks!Target(name) = IF reach = {} THEN 0 ELSE Max(reach)
  BY <1>2 DEF Blocks!Target, Blocks!Max, Max
<1>10. reach \subseteq Nat
  OBVIOUS
<1> HIDE DEF reach
<1>11. Max(reach) = p
  BY ONLY <1>7, <1>8, <1>10, LargestIs
<1> QED
  BY <1>7, <1>9, <1>11

LEMMA EndWalkMaps ==
    ASSUME BlocksInv, IInv', ~failed', EndWalk
    PROVE  /\ BlocksInv'
           /\ Blocks!ExitFunc \/ \E name \in LoopNames \cup {NoName} : Blocks!ExitLoop(name)
<1> DEFINE s == [kind |-> walk.kind, loop |-> walk.loop, defers |-> walk.result]
           n == Len(calls)
<1>1. /\ walk # Idle /\ ~crashed /\ text' = Read(s) /\ walk' = Idle /\ walk.at = NoBody
      /\ UNCHANGED <<tree, defers, ss, calls, saved, failed, crashed>>
  BY DEF EndWalk
<1>2. calls # <<>> /\ s \in Stmt /\ IInv /\ ~failed /\ walk.kind \in Exits
  <2>1. walk \in Walk /\ walk.kind \in Exits /\ calls # <<>> /\ IInv /\ ~failed
    BY <1>1 DEF BlocksInv, IInv, TypeOK, WalkInv
  <2>2. walk.loop \in Loop /\ walk.result \in Seq(Nat)
    BY <2>1 DEF Walk
  <2> QED
    BY <2>1, <2>2, StmtTypes
<1>3. s.kind = walk.kind /\ s.defers = walk.result
  OBVIOUS
<1> HIDE DEF s
<1>4. Going /\ WalkExact /\ OpenShape /\ FramesOK
  BY <1>1, <1>2, Frames, OpenFacts DEF Going, BlocksInv
<1>5. PICK p \in 1..n : /\ EndsAt(walk, p) /\ walk.result = Reverse(Waiting(p))
  BY <1>1, <1>4 DEF WalkExact
<1>6. /\ Read(s) \in Seq(Seq(Stmt)) /\ Len(Read(s)) = Len(text) /\ Last(Read(s)[Cur]) = s
      /\ Cur \in 1..Len(text)
  BY <1>2, ReadType
<1>7. /\ Read(s)[Cur] # <<>>
      /\ \A b \in 1..Len(tree) : b # Cur => Read(s)[b] = text[b]
  <2>1. text \in Seq(Seq(Stmt)) /\ Len(text) = Len(tree)
    BY <1>4 DEF FramesOK
  <2>2. Read(s)[Cur] = Append(text[Cur], s) /\ \A b \in 1..Len(text) : b # Cur => Read(s)[b] = text[b]
    BY <1>6, <2>1 DEF Read
  <2>3. Append(text[Cur], s) # <<>>
    <3>1. text[Cur] \in Seq(Stmt)
      BY <1>6, <2>1, ElementOfSeq
    <3> QED
      BY <1>2, <3>1, AppendFacts
  <2> QED
    BY <2>1, <2>2, <2>3
<1>8. BlocksInv'
  <2>1. NamesApart(ss)'
    BY <1>1, <1>2 DEF BlocksInv, NamesApart
  <2>2. WalkExact'
    BY <1>1 DEF WalkExact
  <2>3. SuspendedOK'
    <3>1. \A b \in 1..Len(tree) : b < Head(calls) => text'[b] = text[b]
      BY <1>1, <1>2, <1>7, CallsBelow
    <3> QED
      BY <1>1, <1>4, <3>1, SuspendedKept
  <2>4. (\A k \in 1..Len(calls) - 1 : Quiet(calls[k]))'
    <3>1. ASSUME NEW k \in 1..Len(calls) - 1
          PROVE  text'[calls[k]] # <<>> /\ Last(text'[calls[k]]).kind \notin Exits
      <4>1. calls[k] \in 1..Len(tree) /\ calls[k] # Cur
        BY <1>2, CallsBelow
      <4>2. text'[calls[k]] = text[calls[k]]
        BY <1>1, <1>7, <4>1
      <4>3. text[calls[k]] # <<>> /\ Last(text[calls[k]]).kind \notin Exits
        BY <1>2 DEF BlocksInv, Quiet
      <4> QED
        BY <4>2, <4>3
    <3> QED
      BY <1>1, <3>1 DEF Quiet
  <2> QED
    BY <1>1, <2>1, <2>2, <2>3, <2>4 DEF BlocksInv
<1>9. openBar' = openBar
  BY <1>1 DEF openBar, Outer
<1>10. releasedBar' = walk.result
  BY <1>1, <1>2, <1>3, <1>6, <1>7 DEF releasedBar, Cur
<1>11. Blocks!Here = BlocksOf(ss, calls, defers)
  BY <1>4 DEF OpenShape
<1>12. releasedBar' = Blocks!Release(p) /\ openBar # <<>>
  BY <1>4, <1>5, <1>10, <1>11 DEF Blocks!Release, Waiting, OpenShape, Blocks!Reverse, Reverse
<1>13. CASE walk.kind = "return"
  <2>1. p = 1
    BY <1>5, <1>13 DEF EndsAt
  <2> QED
    BY <1>8, <1>9, <1>12, <2>1 DEF Blocks!ExitFunc
<1>14. CASE walk.kind # "return"
  <2>1. calls[p] = walk.loop.body
    BY <1>5, <1>14 DEF EndsAt
  <2>2. PICK i \in 1..Len(ss.loops) : walk.loop = ss.loops[i] /\ (walk.loop.name = NoName => i = Len(ss.loops))
    BY <1>1, <1>4, <1>14 DEF WalkExact
  <2> DEFINE name == ss.loops[i].name
  <2>3. Blocks!Target(name) = p
    BY <1>4, <2>1, <2>2, TargetIs
  <2>4. name \in LoopNames \cup {NoName}
    BY <1>4, LoopNameType DEF FramesOK
  <2>5. p # 0
    OBVIOUS
  <2> HIDE DEF name
  <2>6. Blocks!ExitLoop(name)
    BY <1>9, <1>12, <2>3, <2>5 DEF Blocks!ExitLoop
  <2> QED
    BY <1>8, <2>4, <2>6
<1> QED
  BY <1>13, <1>14


(***************************************************************************)
(* Every step                                                              *)
(***************************************************************************)
LEMMA TreeBounded ==
    ASSUME BlocksInv, IInv', [Next]_vars
    PROVE  Len(tree') <= MaxBodies
<1>1. tree' = tree \/ (Len(tree) < MaxBodies /\ defers' = Append(defers, <<>>))
  BY DEF Next, vars, BeginFunc, EndFunc, BeginAnon, EndAnon, ValDecl, Use, TypeError, BeginWhile, EndWhile,
       BeginIf, ElseIf, UntypedIf, UntypedElseIf, SkipBranch, Else, EndIf, BeginDefer, EndDefer, LoopControl,
       Return, StartWalk, WalkOut, EndWalk, RetOnNull, Reject, Abort, OpenBody
<1>2. FramesOK /\ FramesOK'
  BY Frames, FramesNext DEF BlocksInv
<1>3. CASE tree' = tree
  BY <1>3 DEF BlocksInv
<1>4. CASE Len(tree) < MaxBodies /\ defers' = Append(defers, <<>>)
  <2>1. <<>> \in Seq(Nat) /\ defers \in Seq(Seq(Nat)) /\ Len(defers) = Len(tree) /\ Len(tree) \in Nat
    BY <1>2, EmptySeq DEF FramesOK
  <2>2. Len(Append(defers, <<>>)) = Len(defers) + 1
    BY ONLY <2>1, AppendedIs
  <2>3. Len(tree') = Len(defers')
    BY <1>2 DEF FramesOK
  <2> QED
    BY <1>4, <2>1, <2>2, <2>3, BoundsAssumption
<1> QED
  BY <1>1, <1>3, <1>4

\* An error report is the abstract refusal.
LEMMA Refusing ==
    ASSUME BlocksInv, IInv', [Next]_vars, failed'
    PROVE  BlocksInv' /\ Blocks!Refuse
<1>1. BlocksInv'
  BY TreeBounded DEF BlocksInv
<1>2. openBar' = <<>> /\ releasedBar' = <<>>
  BY DEF openBar, releasedBar
<1> QED
  BY <1>1, <1>2 DEF Blocks!Refuse

LEMMA InitMaps == Init => BlocksInv /\ Blocks!Init
<1> SUFFICES ASSUME Init PROVE BlocksInv /\ Blocks!Init
  OBVIOUS
<1>1. IInv
  BY InitIInv
<1>2. tree = <<>> /\ calls = <<>> /\ saved = <<>> /\ ss = NoStack /\ walk = Idle /\ failed = FALSE /\ crashed = FALSE
  BY DEF Init
<1>3. NamesApart(ss) /\ SuspendedOK /\ WalkExact /\ \A k \in 1..Len(calls) - 1 : Quiet(calls[k])
  BY <1>2 DEF NamesApart, NoStack, SuspendedOK, WalkExact
<1>4. Len(tree) <= MaxBodies
  BY <1>2, BoundsAssumption
<1>5. openBar = <<>> /\ releasedBar = <<>> /\ (failed \/ crashed) = FALSE
  BY <1>2 DEF openBar, releasedBar
<1> QED
  BY <1>1, <1>3, <1>4, <1>5 DEF BlocksInv, Blocks!Init

LEMMA StutterMaps ==
    ASSUME BlocksInv, IInv', UNCHANGED vars
    PROVE  BlocksInv' /\ UNCHANGED Blocks!vars
<1>1. UNCHANGED <<tree, text, defers, ss, calls, saved, walk, failed, crashed>>
  BY DEF vars
<1>2. ~failed => WalkExact'
  BY <1>1 DEF BlocksInv, WalkExact, EndsAt, Waiting
<1> QED
  BY <1>1, <1>2, WalkKeeps, BarsKept

\* A step of the abstract specification that refuses nothing.
Mapped ==
    /\ BlocksInv'
    /\ \/ Blocks!EnterFunc
       \/ Blocks!LeaveFunc
       \/ \E n \in LoopNames \cup {NoName} : Blocks!EnterLoop(n) \/ Blocks!ExitLoop(n)
       \/ Blocks!EnterPlain
       \/ Blocks!Leave
       \/ \E d \in 1..MaxBodies : Blocks!LeaveDefer(d)
       \/ Blocks!ExitFunc
       \/ Blocks!Plain
       \/ UNCHANGED Blocks!vars

LEMMA StepMaps ==
    ASSUME BlocksInv, IInv', ~failed', [Next]_vars
    PROVE  Mapped
<1>i. /\ BlocksInv' /\ Blocks!EnterFunc => Mapped
      /\ BlocksInv' /\ Blocks!LeaveFunc => Mapped
      /\ BlocksInv' /\ Blocks!EnterPlain => Mapped
      /\ BlocksInv' /\ Blocks!Leave => Mapped
      /\ BlocksInv' /\ Blocks!Plain => Mapped
      /\ BlocksInv' /\ UNCHANGED Blocks!vars => Mapped
  BY DEF Mapped
<1>l. \A n \in Labels : BlocksInv' /\ Blocks!EnterLoop(n) => Mapped
  BY Zenon DEF Labels, Mapped
<1>d. BlocksInv' /\ (\E d \in 1..MaxBodies : Blocks!LeaveDefer(d)) => Mapped
  BY DEF Mapped
<1>x. BlocksInv' /\ (Blocks!ExitFunc \/ \E n \in LoopNames \cup {NoName} : Blocks!ExitLoop(n)) => Mapped
  BY Zenon DEF Mapped
<1>1. ASSUME NEW r \in FuncReturns, NEW args \in ArgLists, BeginFunc(r, args) \/ BeginAnon(r, args)
      PROVE  Mapped
  BY <1>1, <1>i, BeginFuncMaps, BeginAnonMaps
<1>2. CASE EndFunc
  BY <1>2, <1>i, EndFuncMaps
<1>3. CASE EndAnon
  BY <1>3, <1>i, EndAnonMaps
<1>4. ASSUME NEW n \in DeclNames, NEW h \in Holds, ValDecl(n, h)
      PROVE  Mapped
  BY <1>4, <1>i, ValDeclMaps
<1>5. ASSUME NEW n \in DeclNames \cup Globals, Use(n)
      PROVE  Mapped
  BY <1>5, <1>i, UseMaps
<1>6. CASE TypeError
  BY <1>6 DEF TypeError, Reject
<1>7. ASSUME NEW n \in Labels, NEW x \in Binds, NEW ok \in CondTypes, BeginWhile(n, x, ok)
      PROVE  Mapped
  BY <1>7, <1>l, BeginWhileMaps DEF CondTypes
<1>8. CASE EndWhile
  BY <1>8, <1>i, EndWhileMaps
<1>9. ASSUME NEW x \in Binds, NEW ok \in CondTypes, BeginIf(x, ok) \/ ElseIf(x, ok)
      PROVE  Mapped
  BY <1>9, <1>i, BeginIfMaps, ElseIfMaps DEF CondTypes
<1>9a. ASSUME NEW x \in Binds, UntypedIf(x) \/ UntypedElseIf(x)
       PROVE  Mapped
  BY <1>9a DEF UntypedIf, UntypedElseIf, SkipBranch
<1>10. CASE Else
  BY <1>10, <1>i, ElseMaps
<1>11. CASE EndIf
  BY <1>11, <1>i, EndIfMaps
<1>12. CASE BeginDefer
  BY <1>12, <1>i, BeginDeferMaps
<1>13. CASE EndDefer
  BY <1>13, <1>d, EndDeferMaps
<1>14. ASSUME NEW kind \in {"break", "continue"}, NEW n \in Labels, LoopControl(kind, n)
       PROVE  Mapped
  BY <1>14, <1>i, LoopControlMaps
<1>15. ASSUME NEW v \in BOOLEAN, Return(v)
       PROVE  Mapped
  BY <1>15, <1>i, ReturnMaps
<1>16. CASE WalkOut
  BY <1>16, <1>i, WalkOutMaps
<1>17. CASE EndWalk
  BY <1>17, <1>x, EndWalkMaps
<1>18. CASE RetOnNull
  BY <1>18, <1>i, RetOnNullMaps
<1>19. CASE UNCHANGED vars
  BY <1>19, <1>i, StutterMaps
<1> QED
  BY <1>1, <1>2, <1>3, <1>4, <1>5, <1>6, <1>7, <1>8, <1>9, <1>9a, <1>10, <1>11, <1>12, <1>13,
     <1>14, <1>15, <1>16, <1>17, <1>18, <1>19 DEF Next

LEMMA NextBlocks == BlocksInv /\ [Next]_vars => BlocksInv' /\ [Blocks!Next]_(Blocks!vars)
<1> SUFFICES ASSUME BlocksInv, [Next]_vars PROVE BlocksInv' /\ [Blocks!Next]_(Blocks!vars)
  OBVIOUS
<1>1. IInv'
  BY NextIInv DEF BlocksInv
<1>2. CASE failed'
  <2>1. BlocksInv' /\ Blocks!Refuse
    BY <1>1, <1>2, Refusing
  <2> QED
    BY <2>1 DEF Blocks!Next
<1>3. CASE ~failed'
  <2>1. ~failed /\ ~crashed /\ ~failed' /\ ~crashed'
    BY <1>1, <1>3, FailureLasts DEF BlocksInv, IInv, CrashOnlyAfterError
  <2>2. ~(failed \/ crashed) /\ UNCHANGED (failed \/ crashed)
    BY <2>1
  <2> QED
    BY <1>1, <1>3, <2>2, StepMaps DEF Mapped, Blocks!Next
<1> QED
  BY <1>2, <1>3

\* What the refinement rests on, at every point of the analysis: without an
\* error the names of the loops on a stack differ, what has been read of a
\* suspended function stays, and a walk for an exit has collected exactly the
\* defers of the bodies it has left, latest first.
THEOREM WalksCollectInOrder == Spec => []BlocksInv
<1>1. Init => BlocksInv
  BY InitMaps
<1> QED
  BY <1>1, NextBlocks, PTL DEF Spec

\* The scope stack, the parent links, the defer lists and the loop vector of
\* sema_ast_body and its statement handlers implement stacks of blocks: each
\* break, continue and return is annotated with the defers of the blocks it
\* leaves, latest first, and leaves no block of another function.
THEOREM BodiesImplementBlocks == Spec => ImplementsBlocks
<1>1. Init => BlocksInv /\ Blocks!Init
  BY InitMaps
<1>2. BlocksInv /\ [Next]_vars => BlocksInv' /\ [Blocks!Next]_(Blocks!vars)
  BY NextBlocks
<1> QED
  BY <1>1, <1>2, PTL DEF Spec, ImplementsBlocks, Blocks!Spec
=============================================================================
