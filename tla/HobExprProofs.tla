---------------------------- MODULE HobExprProofs ----------------------------
(***************************************************************************)
(* Proofs about HobExpr, for texts of any length: types, the errors that   *)
(* stand before every use of NULL, and the order in which expr_push_down   *)
(* leaves the operators of an expression.                                  *)
(***************************************************************************)
EXTENDS HobExpr, HobSeqLemmas

(***************************************************************************)
(* Tokens, expressions and calls                                           *)
(***************************************************************************)
LEMMA RangeFacts ==
    ASSUME NEW T, NEW s \in Seq(T)
    PROVE  /\ \A i \in 1..Len(s) : s[i] \in Range(s)
           /\ \A x \in Range(s) : \E i \in 1..Len(s) : x = s[i]
           /\ Range(s) \subseteq T
BY LenProperties, ElementOfSeq DEF Range

LEMMA AppendRange ==
    ASSUME NEW s \in Seq(Nat), NEW e \in Nat
    PROVE  /\ Append(s, e) \in Seq(Nat)
           /\ Range(Append(s, e)) \subseteq Range(s) \cup {e}
<1>1. /\ Append(s, e) \in Seq(Nat) /\ Len(Append(s, e)) = Len(s) + 1 /\ Len(s) \in Nat
      /\ Append(s, e)[Len(s) + 1] = e /\ \A i \in 1..Len(s) : Append(s, e)[i] = s[i]
  BY AppendFacts, LenProperties
<1>2. PICK a : a = Append(s, e)
  OBVIOUS
<1>3. \A k \in Range(a) : \E i \in 1..Len(s) + 1 : k = a[i]
  BY <1>1, <1>2 DEF Range
<1>4. \A i \in 1..Len(s) : s[i] \in Range(s)
  BY DEF Range
<1>5. \A i \in 1..Len(s) + 1 : a[i] \in Range(s) \cup {e}
  <2> TAKE i \in 1..Len(s) + 1
  <2>1. CASE i = Len(s) + 1
    BY <1>1, <1>2, <2>1
  <2>2. CASE i # Len(s) + 1
    <3>1. i \in 1..Len(s)
      BY <1>1, <2>2
    <3> QED
      BY <1>1, <1>2, <1>4, <3>1
  <2> QED
    BY <2>1, <2>2
<1> QED
  BY <1>1, <1>2, <1>3, <1>5

LEMMA RankType == \A op : priority(op) \in Int
BY DEF priority

LEMMA EmptyFacts == \A T : <<>> \in Seq(T) /\ Len(<<>>) = 0 /\ Range(<<>>) = {}
BY EmptySeq DEF Range

LEMMA NewFrameFacts ==
    ASSUME NEW stop \in SUBSET Tokens, NEW post \in BOOLEAN, NEW use \in Uses,
           NEW at \in Nat, NEW args \in Seq(Nat)
    PROVE  LET f == NewFrame(stop, post, use, at, args)
           IN  /\ f \in Frame
               /\ f.stop = stop /\ f.post = post /\ f.first = TRUE /\ f.expr = 0
               /\ f.pc = "main" /\ f.use = use /\ f.at = at /\ f.args = args
BY DEF NewFrame, Frame

LEMMA FieldTypes ==
    ASSUME NEW f \in Frame
    PROVE  /\ f.stop \subseteq Tokens /\ f.post \in BOOLEAN /\ f.first \in BOOLEAN
           /\ f.expr \in Nat /\ f.use \in Uses /\ f.at \in Nat /\ f.args \in Seq(Nat)
           /\ f.pc \in {"main", "post", "args", "push", ")", "]", "done"}
BY DEF Frame

LEMMA ExprFields ==
    ASSUME NEW e \in Expr
    PROVE  /\ e.type \in {"leaf", "binop", "pre", "post", "idx", "call", "array"}
           /\ e.at \in Nat /\ e.kids \in Seq(Nat) /\ e.scoped \in BOOLEAN
BY DEF Expr

LEMMA NodeFacts ==
    ASSUME TypeOK, NEW e \in 1..Len(nodes)
    PROVE  nodes[e] \in Expr /\ nodes[e].kids \in Seq(Nat)
<1>1. nodes[e] \in Expr
  BY ElementOfSeq DEF TypeOK
<1> QED
  BY <1>1, ExprFields

LEMMA OperandFacts ==
    ASSUME TypeOK, Shape, NEW e \in Binops
    PROVE  /\ e \in 1..Len(nodes) /\ nodes[e] \in Expr /\ nodes[e].type = "binop"
           /\ nodes[e].kids \in Seq(Nat) /\ Len(nodes[e].kids) = 2
           /\ \A s \in 1..2 : /\ nodes[e].kids[s] \in Range(nodes[e].kids)
                              /\ nodes[e].kids[s] \in 0..Len(nodes)
<1>1. e \in 1..Len(nodes) /\ nodes[e].type = "binop" /\ Len(nodes[e].kids) = 2
  BY DEF Shape, Binops
<1>2. nodes[e] \in Expr /\ nodes[e].kids \in Seq(Nat) /\ Len(nodes) \in Nat
  BY <1>1, NodeFacts, LenProperties DEF TypeOK
<1>3. \A s \in 1..2 : nodes[e].kids[s] \in Range(nodes[e].kids) /\ nodes[e].kids[s] \in Nat
  BY <1>1, <1>2, RangeFacts
<1> QED
  BY <1>1, <1>2, <1>3 DEF Shape

\* What stays of a call while it runs.
SameCall(f, g) ==
    /\ f \in Frame
    /\ f.stop = g.stop /\ f.post = g.post /\ f.use = g.use /\ f.at = g.at /\ f.args = g.args

LEMMA SameCallFacts ==
    ASSUME NEW g \in Frame, NEW expr \in Nat, NEW first \in BOOLEAN,
           NEW pc \in {"main", "post", "args", "push", ")", "]", "done"}
    PROVE  LET f == [g EXCEPT !.expr = expr, !.pc = pc]
               h == [g EXCEPT !.pc = pc, !.first = first]
           IN  /\ SameCall(f, g) /\ f.expr = expr /\ f.pc = pc /\ f.first = g.first
               /\ SameCall(h, g) /\ h.expr = g.expr /\ h.pc = pc /\ h.first = first
BY DEF SameCall, Frame

(***************************************************************************)
(* The calls                                                               *)
(***************************************************************************)
LEMMA TopFacts ==
    ASSUME TypeOK, Calls
    PROVE  /\ Depth \in Nat \ {0} /\ frames \in Seq(Frame)
           /\ Top \in Frame /\ Fits(Top) /\ Top.expr <= Len(nodes)
           /\ Len(nodes) \in Nat /\ Len(text) \in Nat
<1>1. frames \in Seq(Frame) /\ frames # <<>> /\ nodes \in Seq(Expr) /\ text \in Seq(Tokens)
  BY DEF TypeOK
<1>2. Depth \in Nat \ {0} /\ Len(nodes) \in Nat /\ Len(text) \in Nat
  BY <1>1, EmptySeq, LenProperties DEF Depth
<1>3. Depth \in 1..Depth
  BY <1>2
<1> QED
  BY <1>1, <1>2, <1>3, ElementOfSeq DEF TypeOK, Calls, Top, Depth

LEMMA CallerFacts ==
    ASSUME TypeOK, Calls, Depth > 1
    PROVE  /\ Depth - 1 \in 1..Depth /\ Caller = frames[Depth - 1]
           /\ Caller \in Frame /\ Fits(Caller) /\ Caller.expr <= Len(nodes)
           /\ Waits(Caller, Top)
<1>1. Depth \in Nat \ {0} /\ frames \in Seq(Frame)
  BY TopFacts
<1>2. Depth - 1 \in 1..Depth /\ Depth - 1 \in 1..Depth - 1 /\ Depth - 1 + 1 = Depth
  BY <1>1
<1> QED
  BY <1>1, <1>2, ElementOfSeq DEF TypeOK, Calls, Caller, Top, Depth

\* The running calls become L, of which f is the innermost.
Become(L, f) ==
    /\ L \in 1..Depth + 1
    /\ frames' \in Seq(Frame) /\ Len(frames') = L /\ frames'[L] = f
    /\ \A i \in 1..L - 1 : frames'[i] = frames[i]

LEMMA SetBecomes ==
    ASSUME TypeOK, Calls, NEW f \in Frame, Set(f)
    PROVE  Become(Depth, f)
<1>1. frames \in Seq(Frame) /\ Depth \in Nat \ {0} /\ Depth \in 1..Len(frames)
  BY TopFacts DEF Depth
<1>2. frames' = [frames EXCEPT ![Depth] = f]
  BY DEF Set
<1>3. /\ frames' \in Seq(Frame) /\ Len(frames') = Len(frames)
      /\ \A j \in 1..Len(frames) : frames'[j] = IF j = Depth THEN f ELSE frames[j]
  BY <1>1, <1>2, ExceptSeq
<1> DEFINE N == Depth
<1>4. N \in Nat \ {0} /\ N = Len(frames)
  BY <1>1 DEF Depth
<1> HIDE DEF N
<1>5. N \in 1..N + 1 /\ N \in 1..N /\ \A j \in 1..N - 1 : j \in 1..N /\ j # N
  BY ONLY <1>4
<1> QED
  BY <1>3, <1>4, <1>5 DEF Become, N

LEMMA CallingBecomes ==
    ASSUME TypeOK, Calls, NEW stop \in SUBSET Tokens, NEW post \in BOOLEAN, NEW use \in Uses,
           NEW at \in Nat, NEW args \in Seq(Nat), Calling(Top, stop, post, use, at, args)
    PROVE  Become(Depth + 1, NewFrame(stop, post, use, at, args))
<1> DEFINE f == NewFrame(stop, post, use, at, args)
           old == [frames EXCEPT ![Depth] = Top]
<1>1. frames \in Seq(Frame) /\ Depth \in Nat \ {0} /\ Depth \in 1..Len(frames) /\ Top \in Frame
  BY TopFacts DEF Depth
<1>2. f \in Frame
  BY NewFrameFacts
<1>3. frames' = Append(old, f)
  BY DEF Calling
<1>4. /\ old \in Seq(Frame) /\ Len(old) = Len(frames)
      /\ \A j \in 1..Len(frames) : old[j] = IF j = Depth THEN Top ELSE frames[j]
  BY <1>1, ExceptSeq
<1>5. \A j \in 1..Len(frames) : old[j] = frames[j]
  BY <1>4 DEF Top
<1> HIDE DEF old, f
<1>6. /\ frames' \in Seq(Frame) /\ Len(frames') = Len(old) + 1
      /\ frames'[Len(old) + 1] = f /\ \A j \in 1..Len(old) : frames'[j] = old[j]
  BY <1>2, <1>3, <1>4, AppendFacts
<1> DEFINE N == Depth
<1>7. N \in Nat \ {0} /\ N = Len(frames)
  BY <1>1 DEF Depth
<1>8. /\ frames' \in Seq(Frame) /\ Len(frames') = N + 1
      /\ frames'[N + 1] = f /\ \A j \in 1..N : frames'[j] = frames[j]
  BY <1>4, <1>5, <1>6, <1>7
<1> HIDE DEF N
<1>9. N + 1 \in 1..N + 1 /\ 1..(N + 1) - 1 = 1..N
  BY ONLY <1>7
<1>10. \A j \in 1..(N + 1) - 1 : frames'[j] = frames[j]
  BY ONLY <1>8, <1>9
<1> QED
  BY <1>8, <1>9, <1>10 DEF Become, N, f

LEMMA BackBecomes ==
    ASSUME TypeOK, Calls, Depth > 1, NEW f \in Frame, Back(f)
    PROVE  Become(Depth - 1, f)
<1> DEFINE N == Depth
           old == SubSeq(frames, 1, N - 2)
<1>1. frames \in Seq(Frame) /\ N \in Nat \ {0} /\ N = Len(frames) /\ N > 1
  BY TopFacts DEF Depth
<1>2. frames' = Append(old, f)
  BY DEF Back
<1>3. \A i \in 1..N : frames[i] \in Frame
  BY <1>1, ElementOfSeq
<1> HIDE DEF N
<1>4. N - 2 \in Nat /\ 1 \in Int /\ N - 2 \in Int /\ \A i \in 1..N - 2 : frames[i] \in Frame
  BY <1>1, <1>3
<1>5. /\ old \in Seq(Frame)
      /\ Len(old) = IF 1 <= N - 2 THEN N - 2 - 1 + 1 ELSE 0
      /\ \A i \in 1..N - 2 - 1 + 1 : old[i] = frames[1 + i - 1]
  BY ONLY <1>4, SubSeqProperties
<1> HIDE DEF old
<1>6. Len(old) = N - 2
  BY ONLY <1>4, <1>5
<1>7. \A i \in 1..N - 2 : old[i] = frames[i]
  <2> TAKE i \in 1..N - 2
  <2>1. i \in 1..N - 2 - 1 + 1 /\ 1 + i - 1 = i
    BY <1>4
  <2> QED
    BY <1>5, <2>1
<1>8. /\ frames' \in Seq(Frame) /\ Len(frames') = Len(old) + 1
      /\ frames'[Len(old) + 1] = f /\ \A j \in 1..Len(old) : frames'[j] = old[j]
  BY <1>2, <1>5, AppendFacts
<1>9. N - 2 + 1 = N - 1 /\ N - 1 \in 1..N + 1 /\ N - 1 - 1 = N - 2
  BY ONLY <1>1
<1>10. /\ frames' \in Seq(Frame) /\ Len(frames') = N - 1 /\ frames'[N - 1] = f
       /\ \A i \in 1..N - 1 - 1 : frames'[i] = frames[i]
  BY <1>6, <1>7, <1>8, <1>9
<1> QED
  BY <1>9, <1>10 DEF Become, N

(***************************************************************************)
(* Steps that add to the text and to the expressions                       *)
(***************************************************************************)
TextGrows ==
    /\ text' \in Seq(Tokens) /\ Len(text) <= Len(text')
    /\ \A i \in 1..Len(text) : text'[i] = text[i]

LEMMA CutStays ==
    ASSUME TypeOK, TextGrows, CutShort
    PROVE  CutShort'
<1>1. Len(text) \in Nat /\ Len(text') \in Nat /\ Len(text) <= Len(text')
  BY LenProperties DEF TypeOK, TextGrows
<1>2. PICK i \in 1..Len(text) - 1 : text[i] = "struct"
  BY DEF CutShort
<1>3. i \in 1..Len(text) /\ i \in 1..Len(text') - 1
  BY <1>1, <1>2
<1> QED
  BY <1>2, <1>3 DEF CutShort, TextGrows

LEMMA ReadFacts ==
    ASSUME TypeOK, Shape, NEW t \in NextTokens, Read(t)
    PROVE  /\ t \in Tokens /\ TextGrows /\ text' # <<>> /\ token' = t
           /\ Len(text') \in Nat \ {0}
           /\ StructRead => CutShort'
<1>1. text \in Seq(Tokens) /\ given \in BOOLEAN /\ Len(text) \in Nat
  BY LenProperties DEF TypeOK
<1>2. CASE Rereads /\ text # <<>>
  <2>1. t = token /\ text' = text
    BY <1>2 DEF NextTokens, Read
  <2>2. Len(text) \in Nat \ {0} /\ Len(text) \in 1..Len(text)
    BY <1>1, <1>2, EmptySeq
  <2>3. token \in Tokens
    BY <1>1, <2>2, ElementOfSeq DEF token
  <2>4. ~StructRead
    BY <1>2 DEF StructRead, Rereads
  <2> QED
    BY <1>1, <1>2, <2>1, <2>2, <2>3, <2>4 DEF TextGrows, token
<1>3. CASE ~Rereads
  <2>1. t \in Tokens
    <3>1. t \in TopStop \cup {"EOI"} \cup Core \cup Forms
      BY <1>3 DEF NextTokens
    <3> QED
      BY <3>1 DEF Tokens
  <2>2. text' = Append(text, t)
    BY <1>3 DEF Read
  <2>3. /\ text' \in Seq(Tokens) /\ text' # <<>> /\ Len(text') = Len(text) + 1
        /\ text'[Len(text) + 1] = t
        /\ \A i \in 1..Len(text) : text'[i] = text[i]
    BY <1>1, <2>1, <2>2, AppendFacts
  <2>4. TextGrows /\ token' = t /\ Len(text') \in Nat \ {0}
    BY <1>1, <2>3 DEF TextGrows, token
  <2>5. ASSUME StructRead PROVE CutShort'
    <3>1. Len(text) \in Nat \ {0} /\ text[Len(text)] = "struct"
      BY <1>1, <2>5, EmptySeq DEF StructRead, token
    <3>2. Len(text) \in 1..Len(text) /\ Len(text) \in 1..Len(text') - 1
      BY <2>3, <3>1
    <3>3. text'[Len(text)] = "struct"
      BY <2>3, <3>1, <3>2
    <3> QED
      BY <3>2, <3>3 DEF CutShort
  <2> QED
    BY <2>1, <2>3, <2>4, <2>5
<1> QED
  BY <1>2, <1>3 DEF Rereads, Shape

\* A new expression that is no operator with two operands.
Added ==
    \E e \in Expr :
        /\ nodes' = Append(nodes, e)
        /\ e.type # "binop"
        /\ \A k \in Range(e.kids) : k <= Len(nodes)
        /\ ~failed' => 0 \notin Range(e.kids)
NodesGrow == nodes' = nodes \/ Added

LEMMA NodesFacts ==
    ASSUME TypeOK, Shape, TextGrows, NodesGrow
    PROVE  /\ nodes' \in Seq(Expr) /\ Len(nodes) \in Nat /\ Len(nodes') \in Nat
           /\ Len(nodes) <= Len(nodes') /\ (Added => Len(nodes') = Len(nodes) + 1)
           /\ \A k \in 1..Len(nodes) : nodes'[k] = nodes[k]
           /\ Binops' = Binops
           /\ \A k : Loose(k)' <=> Loose(k)
           /\ \A e \in Binops : rank(e)' = rank(e)
<1>1. nodes \in Seq(Expr) /\ Len(nodes) \in Nat
  BY LenProperties DEF TypeOK
<1>2. CASE nodes' = nodes
  <2>1. Binops' = Binops /\ \A k : Loose(k)' <=> Loose(k)
    BY <1>2 DEF Binops, Loose
  <2>2. \A e \in Binops : rank(e)' = rank(e)
    BY <1>2 DEF Binops, Shape, TextGrows, rank
  <2>3. ~Added
    <3>1. ASSUME NEW e \in Expr, nodes' = Append(nodes, e) PROVE FALSE
      <4>1. Len(Append(nodes, e)) = Len(nodes) + 1
        BY <1>1, AppendFacts
      <4> QED
        BY <1>1, <1>2, <3>1, <4>1
    <3> QED
      BY <3>1 DEF Added
  <2> QED
    BY <1>1, <1>2, <2>1, <2>2, <2>3
<1>3. CASE Added
  <2>1. PICK e \in Expr : nodes' = Append(nodes, e) /\ e.type # "binop"
    BY <1>3 DEF Added
  <2>2. /\ nodes' \in Seq(Expr) /\ Len(nodes') = Len(nodes) + 1
        /\ nodes'[Len(nodes) + 1] = e /\ \A k \in 1..Len(nodes) : nodes'[k] = nodes[k]
    BY <1>1, <2>1, AppendFacts
  <2>3. \A k \in 1..Len(nodes') : k \in 1..Len(nodes) \/ k = Len(nodes) + 1
    BY <1>1, <2>2
  <2>4. \A k \in 1..Len(nodes) : k \in 1..Len(nodes')
    BY <1>1, <2>2
  <2>5. Binops' = Binops
    BY <2>1, <2>2, <2>3, <2>4 DEF Binops
  <2>6. \A k : Loose(k)' <=> Loose(k)
    BY <2>2, <2>5 DEF Binops, Loose
  <2>7. \A k \in Binops : rank(k)' = rank(k)
    BY <2>2 DEF Binops, Shape, TextGrows, rank
  <2> QED
    BY <1>1, <2>2, <2>5, <2>6, <2>7
<1> QED
  BY <1>2, <1>3 DEF NodesGrow

\* What the caller of f, of which there is one when L > 1, needs.
Awaited(L, f) == \A c : L > 1 /\ c = frames[L - 1] => Waits(c, f)'

LEMMA CallsKept ==
    ASSUME TypeOK, Shape, Calls, TextGrows, failed => failed',
           Len(nodes) <= Len(nodes'), Len(nodes') \in Nat,
           \A k \in 1..Len(nodes) : Loose(k)' => Loose(k),
           NEW L, NEW f, Become(L, f), Fits(f)', Awaited(L, f),
           L = Depth + 1 => Top.pc \in {"main", "args"}
    PROVE  Calls'
<1>1. /\ Len(frames') = L /\ frames'[L] = f /\ \A i \in 1..L - 1 : frames'[i] = frames[i]
      /\ L \in 1..Depth + 1 /\ Depth \in Nat \ {0} /\ Len(nodes) \in Nat
      /\ L - 1 \in Int
  BY TopFacts DEF Become
<1>2. ASSUME NEW i \in 1..L - 1
      PROVE  /\ i \in 1..Depth /\ frames[i].pc \in {"main", "args"}
             /\ Fits(frames[i]) /\ frames[i].expr \in 0..Len(nodes)
             /\ frames[i] \in Frame
  <2>1. i \in 1..Depth
    BY <1>1
  <2>2. frames[i].pc \in {"main", "args"}
    <3>1. CASE i \in 1..Depth - 1
      BY <3>1 DEF Calls, Waits
    <3>2. CASE i = Depth
      <4>1. L = Depth + 1
        BY <1>1, <3>2
      <4> QED
        BY <3>2, <4>1 DEF Top
    <3> QED
      BY <1>1, <2>1, <3>1, <3>2
  <2>3. frames[i] \in Frame
    BY <2>1, ElementOfSeq DEF TypeOK, Depth
  <2>4. frames[i].expr \in Nat /\ frames[i].expr <= Len(nodes)
    BY <2>1, <2>3, FieldTypes DEF TypeOK
  <2> QED
    BY <1>1, <2>1, <2>2, <2>3, <2>4 DEF Calls
<1>3. ASSUME NEW g \in Frame, Fits(g), g.pc \in {"main", "args"}, g.expr \in 0..Len(nodes)
      PROVE  Fits(g)'
  <2>1. g.at <= Len(text') /\ (g.use = "binop" => g.at # 0)
    <3>1. Len(text) \in Nat /\ Len(text') \in Nat /\ g.at \in Nat
      BY FieldTypes, LenProperties DEF TypeOK, TextGrows
    <3> QED
      BY <1>3, <3>1 DEF Fits, TextGrows
  <2>2. \A k \in Range(g.args) : k <= Len(nodes')
    <3>1. Range(g.args) \subseteq Nat
      BY RangeFacts, FieldTypes
    <3>2. \A k \in Range(g.args) : k <= Len(nodes)
      BY <1>3 DEF Fits
    <3> QED
      BY <1>1, <3>1, <3>2
  <2>3. Loose(g.expr)' => Loose(g.expr)
    <3>1. CASE g.expr = 0
      BY <3>1 DEF Loose, Binops
    <3>2. CASE g.expr # 0
      <4>1. g.expr \in 1..Len(nodes)
        BY <1>1, <1>3, <3>2
      <4> QED
        BY <4>1
    <3> QED
      BY <3>1, <3>2
  <2>4. CutShort => CutShort'
    BY CutStays
  <2> QED
    BY <1>3, <2>1, <2>2, <2>3, <2>4 DEF Fits
<1>4. ASSUME NEW g, NEW i \in 1..L, g = frames'[i]
      PROVE  Fits(g)'
  <2>1. CASE i = L
    BY <1>1, <1>4, <2>1
  <2>2. CASE i # L
    <3>1. i \in 1..L - 1
      BY <1>1, <2>2
    <3> QED
      BY <1>1, <1>2, <1>3, <1>4, <3>1
  <2> QED
    BY <2>1, <2>2
<1>5. ASSUME NEW c, NEW g, NEW i \in 1..L - 1, c = frames'[i], g = frames'[i + 1]
      PROVE  Waits(c, g)'
  <2>1. c = frames[i]
    BY <1>1, <1>5
  <2>2. CASE i = L - 1
    <3>1. g = f /\ L > 1
      BY <1>1, <1>5, <2>2
    <3> QED
      BY <2>1, <2>2, <3>1 DEF Awaited
  <2>3. CASE i # L - 1
    <3>1. i \in 1..Depth - 1 /\ i + 1 \in 1..L - 1
      BY <1>1, <2>3
    <3>2. g = frames[i + 1]
      BY <1>1, <1>5, <3>1
    <3>3. Waits(c, g)
      BY <2>1, <3>1, <3>2 DEF Calls
    <3> QED
      BY <3>3 DEF Waits
  <2> QED
    BY <2>2, <2>3
<1>6. (\A i \in 1..Depth : Fits(frames[i]))'
  BY <1>1, <1>4 DEF Depth
<1>7. (\A i \in 1..Depth - 1 : Waits(frames[i], frames[i + 1]))'
  BY <1>1, <1>5 DEF Depth
<1> QED
  BY <1>6, <1>7 DEF Calls

\* The operators keep their operands, and no more of them are loose.
OperandsStay ==
    /\ Binops' = Binops
    /\ \A e \in Binops :
         nodes'[e].kids = nodes[e].kids /\ rank(e)' = rank(e) /\ (Loose(e)' => Loose(e))

\* The expressions that calls hold stay apart from each other and from the
\* operands of operators.
LEMMA ApartKept ==
    ASSUME TypeOK, Shape, Calls, Apart, OperandsStay,
           NEW L, NEW f, Become(L, f),
           \/ f.expr = 0
           \/ f.expr = Len(nodes) + 1
           \/ \E j \in L..Depth : f.expr = frames[j].expr
    PROVE  Apart'
<1>1. /\ Len(frames') = L /\ frames'[L] = f /\ \A i \in 1..L - 1 : frames'[i] = frames[i]
      /\ L \in 1..Depth + 1 /\ Depth \in Nat \ {0} /\ Len(nodes) \in Nat
  BY TopFacts DEF Become
<1>2. Binops' = Binops
  BY DEF OperandsStay
<1>3. \A i \in 1..L - 1 : i \in 1..Depth /\ frames[i].expr \in 0..Len(nodes)
  <2> TAKE i \in 1..L - 1
  <2>1. i \in 1..Depth
    BY <1>1
  <2>2. frames[i] \in Frame
    BY <2>1, ElementOfSeq DEF TypeOK, Depth
  <2> QED
    BY <1>1, <2>1, <2>2, FieldTypes DEF TypeOK
<1>4. \A e \in Binops : e \in 1..Len(nodes) /\ \A s \in 1..2 : nodes[e].kids[s] \in 0..Len(nodes)
  BY OperandFacts
<1>5. \A i \in 1..L - 1 : frames[i].expr # 0 => frames[i].expr # f.expr
  <2> TAKE i \in 1..L - 1
  <2> HAVE frames[i].expr # 0
  <2>1. CASE f.expr = 0
    BY <2>1
  <2>2. CASE f.expr = Len(nodes) + 1
    BY <1>1, <1>2, <1>3, <2>2
  <2>3. ASSUME NEW j \in L..Depth, f.expr = frames[j].expr PROVE frames[i].expr # f.expr
    <3>1. i # j /\ j \in 1..Depth
      BY <1>1
    <3> QED
      BY <1>3, <2>3, <3>1 DEF Apart
  <2> QED
    BY <2>1, <2>2, <2>3
<1>6. \A e \in Binops : \A s \in 1..2 : nodes[e].kids[s] # 0 => nodes[e].kids[s] # f.expr
  <2> TAKE e \in Binops
  <2> TAKE s \in 1..2
  <2> HAVE nodes[e].kids[s] # 0
  <2>1. CASE f.expr = 0
    BY <2>1
  <2>2. CASE f.expr = Len(nodes) + 1
    BY <1>1, <1>2, <1>4, <2>2
  <2>3. ASSUME NEW j \in L..Depth, f.expr = frames[j].expr PROVE nodes[e].kids[s] # f.expr
    <3>1. j \in 1..Depth
      BY <1>1
    <3> QED
      BY <2>3, <3>1 DEF Apart
  <2> QED
    BY <2>1, <2>2, <2>3
<1>7. ASSUME NEW i \in 1..L, NEW j \in 1..L, i # j, frames'[i].expr # 0
      PROVE  frames'[i].expr # frames'[j].expr
  <2>1. /\ i \in 1..L - 1 \/ i = L
        /\ j \in 1..L - 1 \/ j = L
    BY <1>1
  <2>2. CASE i \in 1..L - 1 /\ j \in 1..L - 1
    BY <1>1, <1>3, <1>7, <2>2 DEF Apart
  <2>3. CASE i \in 1..L - 1 /\ j = L
    BY <1>1, <1>5, <1>7, <2>3
  <2>4. CASE i = L /\ j \in 1..L - 1
    BY <1>1, <1>5, <1>7, <2>4
  <2> QED
    BY <1>7, <2>1, <2>2, <2>3, <2>4
<1>8. ASSUME NEW e \in Binops, NEW s \in 1..2, nodes[e].kids[s] # 0, NEW i \in 1..L
      PROVE  frames'[i].expr # nodes[e].kids[s]
  <2>1. CASE i = L
    BY <1>1, <1>6, <1>8, <2>1
  <2>2. CASE i # L
    <3>1. i \in 1..L - 1
      BY <1>1, <2>2
    <3> QED
      BY <1>1, <1>3, <1>8, <3>1 DEF Apart
  <2> QED
    BY <2>1, <2>2
<1>9. \A e \in Binops : nodes'[e].kids = nodes[e].kids
  BY DEF OperandsStay
<1>10. (\A i, j \in 1..Depth : i # j /\ frames[i].expr # 0 => frames[i].expr # frames[j].expr)'
  BY <1>1, <1>7 DEF Depth
<1>11. ASSUME NEW e \in Binops, NEW s \in 1..2, nodes[e].kids[s] # 0
       PROVE  /\ \A i \in 1..L : frames'[i].expr # nodes'[e].kids[s]
              /\ \A g \in Binops : \A t \in 1..2 :
                    nodes'[g].kids[t] = nodes'[e].kids[s] => e = g /\ s = t
  <2>1. \A i \in 1..L : frames'[i].expr # nodes'[e].kids[s]
    BY <1>8, <1>9, <1>11
  <2>2. \A g \in Binops : \A t \in 1..2 : nodes[g].kids[t] = nodes[e].kids[s] => e = g /\ s = t
    BY <1>11 DEF Apart
  <2> QED
    BY <1>9, <2>1, <2>2
<1>12. (\A e \in Binops : \A s \in 1..2 :
          nodes[e].kids[s] # 0 =>
            /\ \A i \in 1..Depth : frames[i].expr # nodes[e].kids[s]
            /\ \A g \in Binops : \A t \in 1..2 : nodes[g].kids[t] = nodes[e].kids[s] => e = g /\ s = t)'
  BY <1>1, <1>2, <1>9, <1>11 DEF Depth
<1> QED
  BY <1>10, <1>12 DEF Apart

LEMMA ShapeKept ==
    ASSUME TypeOK, Shape, TextGrows, NodesGrow, cursor = 0, cursor' = 0, given' => text' # <<>>,
           stuck' => failed' /\ text' # <<>>
    PROVE  Shape'
<1>1. /\ nodes' \in Seq(Expr) /\ Len(nodes) \in Nat /\ Len(nodes') \in Nat
      /\ Len(nodes) <= Len(nodes') /\ Binops' = Binops
      /\ \A k \in 1..Len(nodes) : nodes'[k] = nodes[k]
  BY NodesFacts
<1>2. Len(text) \in Nat /\ Len(text') \in Nat /\ Len(text) <= Len(text')
  BY LenProperties DEF TypeOK, TextGrows
<1>3. ASSUME NEW e \in 1..Len(nodes'), NEW k \in Range(nodes'[e].kids) PROVE k <= Len(nodes')
  <2>1. CASE e \in 1..Len(nodes)
    <3>1. nodes'[e] = nodes[e] /\ nodes[e].kids \in Seq(Nat)
      BY <1>1, <2>1, NodeFacts
    <3>2. k \in Nat
      BY <1>3, <3>1, RangeFacts
    <3>3. k <= Len(nodes)
      BY <1>3, <2>1, <3>1 DEF Shape
    <3> QED
      BY <1>1, <3>2, <3>3
  <2>2. CASE e \notin 1..Len(nodes)
    <3>1. Added
      BY <1>3, <2>2 DEF NodesGrow
    <3>2. PICK new \in Expr : /\ nodes' = Append(nodes, new)
                              /\ \A x \in Range(new.kids) : x <= Len(nodes)
      BY <3>1 DEF Added
    <3>3. nodes \in Seq(Expr)
      BY DEF TypeOK
    <3>4. Len(nodes') = Len(nodes) + 1 /\ nodes'[Len(nodes) + 1] = new
      BY <3>2, <3>3, AppendFacts
    <3>5. e = Len(nodes) + 1
      BY <1>1, <2>2, <3>4
    <3>6. k \in Nat
      BY <1>3, <3>2, <3>4, <3>5, ExprFields, RangeFacts
    <3> QED
      BY <1>1, <1>3, <3>2, <3>4, <3>5, <3>6
  <2> QED
    BY <2>1, <2>2
<1>4. ASSUME NEW e \in Binops PROVE Len(nodes'[e].kids) = 2 /\ nodes'[e].at \in 1..Len(text')
  <2>1. nodes'[e] = nodes[e] /\ nodes[e].at \in 1..Len(text) /\ Len(nodes[e].kids) = 2
    BY <1>1 DEF Binops, Shape
  <2> QED
    BY <1>2, <2>1
<1> QED
  BY <1>1, <1>3, <1>4 DEF Shape

LEMMA InOrderKept ==
    ASSUME TypeOK, Shape, InOrder, TextGrows, OperandsStay,
           cursor = 0, cursor' = 0, failed => failed'
    PROVE  InOrder'
<1>1. SUFFICES ASSUME ~failed', ~CutShort' PROVE InOrder'
  BY DEF InOrder
<1>2. ~failed /\ ~CutShort /\ 0 \notin Binops
  BY <1>1, CutStays DEF Binops
<1>3. ASSUME NEW e \in Binops PROVE LeftInOrder(e)' /\ RightInOrder(e)'
  <2>1. LeftInOrder(e) /\ RightInOrder(e) /\ nodes'[e].kids = nodes[e].kids /\ rank(e)' = rank(e)
    BY <1>2 DEF InOrder, OperandsStay
  <2>2. ASSUME NEW k, Loose(k)' PROVE Loose(k) /\ rank(k)' = rank(k)
    <3>1. k \in Binops
      BY <2>2 DEF Loose, OperandsStay
    <3> QED
      BY <2>2, <3>1 DEF OperandsStay
  <2>3. PICK k, l : k = nodes[e].kids[1] /\ l = nodes[e].kids[2]
    OBVIOUS
  <2>4. k = nodes'[e].kids[1] /\ l = nodes'[e].kids[2]
    BY <2>1, <2>3
  <2>5. (Loose(k)' => rank(k)' >= rank(e)') /\ (Loose(l)' => rank(l)' > rank(e)')
    BY <2>1, <2>2, <2>3 DEF LeftInOrder, RightInOrder
  <2> QED
    BY <2>4, <2>5 DEF LeftInOrder, RightInOrder
<1> QED
  BY <1>3 DEF InOrder, OperandsStay

LEMMA NullKept ==
    ASSUME TypeOK, NullOnlyAfterError, ~crashed, crashed' = crashed, NodesGrow, failed => failed', Calls'
    PROVE  NullOnlyAfterError'
<1>1. nodes \in Seq(Expr)
  BY DEF TypeOK
<1>2. ASSUME ~failed', NEW e \in 1..Len(nodes') PROVE 0 \notin Range(nodes'[e].kids)
  <2>1. CASE nodes' = nodes
    BY <1>2, <2>1 DEF NullOnlyAfterError
  <2>2. CASE Added
    <3>1. PICK new \in Expr : nodes' = Append(nodes, new) /\ 0 \notin Range(new.kids)
      BY <1>2, <2>2 DEF Added
    <3>2. /\ Len(nodes') = Len(nodes) + 1 /\ nodes'[Len(nodes) + 1] = new
          /\ \A k \in 1..Len(nodes) : nodes'[k] = nodes[k]
      BY <1>1, <3>1, AppendFacts
    <3>3. e \in 1..Len(nodes) \/ e = Len(nodes) + 1
      BY <1>1, <3>2, LenProperties
    <3> QED
      BY <1>2, <3>1, <3>2, <3>3 DEF NullOnlyAfterError
  <2> QED
    BY <2>1, <2>2 DEF NodesGrow
<1>3. (\A i \in 1..Depth : frames[i].pc = "done" /\ frames[i].expr = 0 => failed)'
  BY DEF Calls, Fits
<1> QED
  BY <1>2, <1>3 DEF NullOnlyAfterError

\* A step of _parse_expr that makes no operator: what of it has to be shown.
LEMMA ParseStep ==
    ASSUME IInv, Running, cursor' = cursor, crashed' = crashed, failed => failed',
           failed' \in BOOLEAN, given' \in BOOLEAN, given' => text' # <<>>,
           stuck' \in BOOLEAN, stuck' => failed' /\ text' # <<>>,
           TextGrows, NodesGrow,
           NEW L, NEW f, Become(L, f), Fits(f)', Awaited(L, f),
           L = Depth + 1 => Top.pc \in {"main", "args"},
           \/ f.expr = 0
           \/ (Added /\ f.expr = Len(nodes'))
           \/ \E j \in L..Depth : f.expr = frames[j].expr
    PROVE  IInv'
<1>1. /\ TypeOK /\ Shape /\ Calls /\ Apart /\ InOrder /\ NullOnlyAfterError
      /\ cursor = 0 /\ cursor' = 0 /\ ~crashed
  BY DEF IInv, Running
<1>2. /\ nodes' \in Seq(Expr) /\ Len(nodes) \in Nat /\ Len(nodes') \in Nat
      /\ Len(nodes) <= Len(nodes') /\ (Added => Len(nodes') = Len(nodes) + 1)
      /\ \A k : Loose(k)' <=> Loose(k)
  BY <1>1, NodesFacts
<1> OperandsStay
  <2>1. /\ Binops' = Binops /\ \A k \in 1..Len(nodes) : nodes'[k] = nodes[k]
        /\ \A e \in Binops : rank(e)' = rank(e)
    BY <1>1, NodesFacts
  <2> QED
    BY <1>2, <2>1 DEF OperandsStay, Binops
<1>3. /\ Len(frames') = L /\ frames'[L] = f /\ \A i \in 1..L - 1 : frames'[i] = frames[i]
      /\ L \in 1..Depth + 1 /\ Depth \in Nat \ {0} /\ frames' \in Seq(Frame)
  BY <1>1, TopFacts DEF Become
<1>4. Calls'
  BY <1>1, <1>2, CallsKept
<1>5. \A i \in 1..Depth : frames[i].expr \in 0..Len(nodes)
  <2> TAKE i \in 1..Depth
  <2>1. frames[i] \in Frame
    BY <1>1, ElementOfSeq DEF TypeOK, Depth
  <2> QED
    BY <1>1, <1>2, <2>1, FieldTypes DEF TypeOK
<1>6. f.expr <= Len(nodes')
  <2>1. ASSUME NEW j \in L..Depth, f.expr = frames[j].expr PROVE f.expr <= Len(nodes')
    <3>1. j \in 1..Depth
      BY <1>3
    <3> QED
      BY <1>2, <1>5, <2>1, <3>1
  <2> QED
    BY <1>2, <2>1
<1>7. \A i \in 1..L : frames'[i].expr <= Len(nodes')
  <2> TAKE i \in 1..L
  <2>1. CASE i = L
    BY <1>3, <1>6, <2>1
  <2>2. CASE i # L
    <3>1. i \in 1..L - 1 /\ i \in 1..Depth
      BY <1>3, <2>2
    <3> QED
      BY <1>2, <1>3, <1>5, <3>1
  <2> QED
    BY <2>1, <2>2
<1>8. TypeOK'
  <2>1. frames' # <<>>
    BY <1>3
  <2>2. cursor' \in 0..Len(nodes')
    BY <1>1, <1>2
  <2> QED
    BY <1>1, <1>2, <1>3, <1>7, <2>1, <2>2 DEF TypeOK, TextGrows, Depth
<1>9. Shape'
  BY <1>1, ShapeKept
<1>10. Apart'
  BY <1>1, <1>2, ApartKept
<1>11. Acyclic'
  BY <1>1 DEF Acyclic
<1>12. InOrder'
  BY <1>1, InOrderKept
<1>13. NullOnlyAfterError'
  BY <1>1, <1>4, NullKept
<1> QED
  BY <1>4, <1>8, <1>9, <1>10, <1>11, <1>12, <1>13 DEF IInv

\* What every such step does.
Onwards ==
    /\ cursor' = cursor /\ crashed' = crashed
    /\ failed' \in BOOLEAN /\ (failed => failed')
    /\ given' \in BOOLEAN /\ (given' => text' # <<>>)
    /\ stuck' \in BOOLEAN /\ (stuck' => failed' /\ text' # <<>>)
    /\ TextGrows /\ NodesGrow

\* What changes in a call: Fits, without what stays.
Settled(f) ==
    /\ ~failed /\ f.expr = 0 => f.first /\ f.pc = "main"
    /\ ~failed /\ ~CutShort =>
         /\ f.pc \notin {"push", "done"} /\ Loose(f.expr) => f.pc = "post" /\ StructRead
         /\ f.pc = "done" => token \in f.stop \/ (~f.post /\ token = "as") \/ StructRead
         /\ f.pc = "push" => token \in f.stop \/ StructRead

\* A running call goes on, and those in it have ended.
LEMMA ReplaceKeeps ==
    ASSUME IInv, Running, Onwards, NEW L \in 1..Depth, NEW f, NEW g, g = frames[L],
           Become(L, f), SameCall(f, g), Settled(f)',
           f.expr \in {0, Top.expr, g.expr} \/ (Added /\ f.expr = Len(nodes'))
    PROVE  IInv'
<1>1. TypeOK /\ Shape /\ Calls
  BY DEF IInv
<1>2. /\ Depth \in Nat \ {0} /\ frames \in Seq(Frame) /\ L \in L..Depth /\ Depth \in L..Depth
      /\ Len(nodes) \in Nat /\ Len(text) \in Nat /\ Top = frames[Depth]
  BY <1>1, TopFacts DEF Top
<1>3. g \in Frame /\ Fits(g)
  BY <1>1, <1>2, ElementOfSeq DEF Calls, Depth
<1>4. f \in Frame /\ f.at \in Nat /\ Range(f.args) \subseteq Nat
  BY FieldTypes, RangeFacts DEF SameCall
<1>5. Len(text') \in Nat /\ Len(text) <= Len(text')
  BY LenProperties DEF Onwards, TextGrows
<1>6. Len(nodes') \in Nat /\ Len(nodes) <= Len(nodes')
  BY <1>1, NodesFacts DEF Onwards
<1>7. Fits(f)'
  <2>1. f.at <= Len(text') /\ (f.use = "binop" => f.at # 0)
    BY <1>2, <1>3, <1>4, <1>5 DEF Fits, SameCall
  <2>2. \A k \in Range(f.args) : k <= Len(nodes')
    <3>1. \A k \in Range(f.args) : k \in Nat /\ k <= Len(nodes)
      BY <1>3, <1>4 DEF Fits, SameCall
    <3> QED
      BY <1>2, <1>6, <3>1
  <2>3. ~failed' => 0 \notin Range(f.args)
    BY <1>3 DEF Fits, SameCall, Onwards
  <2> QED
    BY <2>1, <2>2, <2>3 DEF Fits, Settled
<1>8. Awaited(L, f)
  <2> SUFFICES ASSUME L > 1, NEW c, c = frames[L - 1] PROVE Waits(c, f)'
    BY DEF Awaited
  <2>1. L - 1 \in 1..Depth - 1 /\ L - 1 + 1 = L
    BY <1>2
  <2>2. Waits(c, g)
    BY <1>1, <2>1 DEF Calls
  <2> QED
    BY <2>2 DEF Waits, SameCall, Onwards
<1>9. L # Depth + 1
  BY <1>2
<1> QED
  BY <1>2, <1>7, <1>8, <1>9, ParseStep DEF Onwards

LEMMA SetKeeps ==
    ASSUME IInv, Running, Onwards, NEW f, SameCall(f, Top), Set(f), Settled(f)',
           f.expr \in {0, Top.expr} \/ (Added /\ f.expr = Len(nodes'))
    PROVE  IInv'
<1>1. TypeOK /\ Calls
  BY DEF IInv
<1>2. Depth \in 1..Depth /\ Top = frames[Depth]
  BY <1>1, TopFacts DEF Top
<1>3. Become(Depth, f)
  BY <1>1, SetBecomes DEF SameCall
<1> QED
  BY <1>2, <1>3, ReplaceKeeps

LEMMA BackKeeps ==
    ASSUME IInv, Running, Onwards, Depth > 1, NEW f, SameCall(f, Caller), Back(f), Settled(f)',
           f.expr \in {0, Top.expr} \/ (Added /\ f.expr = Len(nodes'))
    PROVE  IInv'
<1>1. TypeOK /\ Calls
  BY DEF IInv
<1>2. Depth - 1 \in 1..Depth /\ Caller = frames[Depth - 1]
  BY <1>1, CallerFacts
<1>3. Become(Depth - 1, f)
  BY <1>1, BackBecomes DEF SameCall
<1> QED
  BY <1>2, <1>3, ReplaceKeeps

LEMMA CallingKeeps ==
    ASSUME IInv, Running, Onwards, Top.pc \in {"main", "args"},
           NEW stop \in SUBSET Tokens, NEW post \in BOOLEAN, NEW use \in Uses,
           NEW at, at = Len(text'), text' # <<>>, Calling(Top, stop, post, use, at, <<>>),
           use \in {"binop", "-"} => stop = Top.stop /\ post,
           ~failed' /\ use \in {"binop", "[", "arg"} => Top.expr # 0
    PROVE  IInv'
<1>1. TypeOK /\ Shape /\ Calls
  BY DEF IInv
<1>2. at \in Nat \ {0} /\ <<>> \in Seq(Nat)
  BY EmptySeq DEF Onwards, TextGrows
<1>3. PICK f, none : f = NewFrame(stop, post, use, at, none) /\ none = <<>>
  OBVIOUS
<1>4. /\ f \in Frame /\ f.stop = stop /\ f.post = post /\ f.first = TRUE /\ f.expr = 0
      /\ f.pc = "main" /\ f.use = use /\ f.at = at /\ f.args = <<>>
  <2>1. at \in Nat /\ none \in Seq(Nat)
    BY <1>2, <1>3
  <2>2. /\ f \in Frame /\ f.stop = stop /\ f.post = post /\ f.first = TRUE /\ f.expr = 0
        /\ f.pc = "main" /\ f.use = use /\ f.at = at /\ f.args = none
    BY <1>3, <2>1 DEF NewFrame, Frame
  <2> QED
    BY <1>3, <2>2
<1>5. Become(Depth + 1, f)
  BY <1>1, <1>2, <1>3, CallingBecomes
<1>6. ~Loose(0)'
  BY DEF Loose, Binops
<1>7. Fits(f)'
  BY <1>2, <1>4, <1>6, EmptyFacts DEF Fits
<1>8. Awaited(Depth + 1, f)
  <2>1. Depth + 1 - 1 = Depth /\ (Depth + 1) - 1 = Depth
    BY <1>1, TopFacts
  <2> QED
    BY <1>4, <2>1 DEF Awaited, Waits, Top
<1> QED
  BY <1>4, <1>5, <1>7, <1>8, ParseStep DEF Onwards

(***************************************************************************)
(* The cases of _parse_expr                                                *)
(***************************************************************************)
\* Every step that reads a token.
LEMMA ReadOn ==
    ASSUME TypeOK, Shape, NEW t \in NextTokens, Read(t), given' \in BOOLEAN, NodesGrow,
           cursor' = cursor, crashed' = crashed, failed' \in BOOLEAN, failed => failed'
    PROVE  Onwards
BY ReadFacts DEF Onwards, Read, TypeOK, Shape

LEMMA AddFacts ==
    ASSUME TypeOK, NEW type \in {"leaf", "pre", "post", "idx", "call", "array"},
           NEW at \in Nat, NEW kids \in Seq(Nat), Make(NewExpr(type, at, kids)),
           \A k \in Range(kids) : k <= Len(nodes),
           ~failed' => 0 \notin Range(kids)
    PROVE  /\ Added /\ NodesGrow /\ Made = Len(nodes') /\ Made \in Nat \ {0}
           /\ \A m : m = Made => ~Loose(m)'
<1>1. PICK e : e = NewExpr(type, at, kids)
  OBVIOUS
<1>2. e \in Expr /\ e.type = type /\ e.kids = kids
  BY <1>1 DEF NewExpr, Expr
<1>3. nodes \in Seq(Expr) /\ Len(nodes) \in Nat /\ nodes' = Append(nodes, e)
  BY <1>1, LenProperties DEF TypeOK, Make
<1>4. Len(nodes') = Len(nodes) + 1 /\ nodes'[Len(nodes) + 1] = e
  BY <1>2, <1>3, AppendFacts
<1>5. Added
  BY <1>2, <1>3 DEF Added
<1>6. ASSUME NEW m, m = Made PROVE ~Loose(m)'
  BY <1>2, <1>4, <1>6 DEF Loose, Binops, Made
<1> QED
  BY <1>3, <1>4, <1>5, <1>6 DEF NodesGrow, Made

\* Every step that reads none.
LEMMA StillOn ==
    ASSUME TypeOK, Shape, text' = text, given' = given, stuck' = stuck, NodesGrow,
           cursor' = cursor, crashed' = crashed, failed' \in BOOLEAN, failed => failed'
    PROVE  Onwards
BY LenProperties DEF Onwards, TextGrows, TypeOK, Shape

\* A struct expression is the only way to an operator that is not in order
\* with the one after it, and reading on shows it.
LEMMA StaysTight ==
    ASSUME TypeOK, Shape, Calls, NEW t \in NextTokens, Read(t), nodes' = nodes, failed' = failed,
           Top.pc \notin {"push", "done"}, NEW e, e = Top.expr, ~failed', ~CutShort'
    PROVE  ~Loose(e)'
<1>1. Fits(Top) /\ ~CutShort /\ ~StructRead
  BY TopFacts, ReadFacts, CutStays
<1> QED
  BY <1>1 DEF Fits, Loose, Binops

LEMMA StopKeeps == ASSUME IInv, NEW t \in NextTokens, Stop(t) PROVE IInv'
<1>1. TypeOK /\ Shape /\ Calls /\ Running
  BY DEF IInv, Stop, Main
<1>2. Onwards /\ token' = t
  BY <1>1, ReadOn, ReadFacts DEF Stop, GiveBack, TypeOK, NodesGrow
<1>3. PICK f : f = [Top EXCEPT !.pc = "done", !.expr = Top.expr]
  OBVIOUS
<1>4. Top \in Frame /\ Fits(Top) /\ Set(f) /\ t \in Top.stop
  BY <1>1, <1>3, TopFacts DEF Stop, Return
<1>5. SameCall(f, Top) /\ f.expr = Top.expr /\ f.pc = "done"
  BY <1>3, <1>4 DEF SameCall, Frame
<1>6. Settled(f)'
  BY <1>2, <1>4, <1>5 DEF Settled, Stop, SameCall
<1> QED
  BY <1>1, <1>2, <1>4, <1>5, <1>6, SetKeeps

LEMMA OperandKeeps == ASSUME IInv, NEW t \in NextTokens, Operand(t) \/ Struct(t) PROVE IInv'
<1>1. TypeOK /\ Shape /\ Calls /\ Running /\ Read(t) /\ given' = FALSE
  BY DEF IInv, Operand, Struct, Main, MainToken, Take
<1>2. Len(text') \in Nat /\ text' # <<>> /\ token' = t
  BY <1>1, ReadFacts
<1>3. /\ Added /\ NodesGrow /\ Made = Len(nodes') /\ Made \in Nat \ {0}
      /\ \A m : m = Made => ~Loose(m)'
  <2>1. Make(NewExpr("leaf", Len(text'), <<>>))
    BY DEF Operand, Struct
  <2> QED
    BY <1>1, <1>2, <2>1, AddFacts, EmptyFacts
<1>4. Onwards /\ failed' = failed
  BY <1>1, <1>3, ReadOn DEF Operand, Struct, TypeOK
<1>5. Top \in Frame /\ Fits(Top)
  BY <1>1, TopFacts
<1>6. CASE Operand(t)
  <2>1. PICK f : f = Becomes(Made)
    OBVIOUS
  <2>2. SameCall(f, Top) /\ f.expr = Made /\ f.pc = "post" /\ Set(f)
    BY <1>3, <1>5, <1>6, <2>1 DEF SameCall, Frame, Becomes, Operand
  <2>3. Settled(f)'
    BY <1>3, <2>2 DEF Settled
  <2> QED
    BY <1>1, <1>3, <1>4, <2>2, <2>3, SetKeeps
<1>7. CASE Struct(t)
  <2>1. PICK f : f = [Top EXCEPT !.pc = "done", !.expr = Made]
    OBVIOUS
  <2>2. SameCall(f, Top) /\ f.expr = Made /\ f.pc = "done" /\ Set(f)
    BY <1>3, <1>5, <1>7, <2>1 DEF SameCall, Frame, Return, Struct
  <2>3. ~failed' => ~stuck'
    BY <1>1, <1>7 DEF Struct, Shape, Read
  <2>4. Settled(f)'
    BY <1>1, <1>2, <1>3, <1>7, <2>2, <2>3 DEF Settled, Struct, StructRead
  <2> QED
    BY <1>1, <1>3, <1>4, <2>2, <2>4, SetKeeps
<1> QED
  BY <1>6, <1>7

LEMMA FailKeeps ==
    ASSUME IInv, Running, Onwards, Fail
    PROVE  IInv'
<1>1. TypeOK /\ Calls
  BY DEF IInv
<1>2. PICK f : f = [Top EXCEPT !.pc = "done", !.expr = 0]
  OBVIOUS
<1>3. Top \in Frame /\ Set(f) /\ failed'
  BY <1>1, <1>2, TopFacts DEF Fail, Return
<1>4. SameCall(f, Top) /\ f.expr = 0
  BY <1>2, <1>3 DEF SameCall, Frame
<1>5. Settled(f)'
  BY <1>3 DEF Settled
<1> QED
  BY <1>3, <1>4, <1>5, SetKeeps

\* A step that makes an expression of one operand, which goes on from there.
LEMMA WrapKeeps ==
    ASSUME IInv, Running, NEW t \in NextTokens, Read(t), Take,
           NEW type \in {"post", "call"}, Top.expr # 0 \/ failed,
           Make(NewExpr(type, Len(text'), <<Top.expr>>)),
           NEW first \in BOOLEAN, Set([Becomes(Made) EXCEPT !.first = first]),
           UNCHANGED <<cursor, failed, crashed>>
    PROVE  IInv'
<1>1. TypeOK /\ Shape /\ Calls
  BY DEF IInv
<1>2. Len(text') \in Nat
  BY <1>1, ReadFacts
<1>3. Top \in Frame /\ Top.expr \in Nat /\ Top.expr <= Len(nodes)
  BY <1>1, TopFacts, FieldTypes
<1>4. PICK kids : kids = <<Top.expr>>
  OBVIOUS
<1>5. kids \in Seq(Nat) /\ \A k \in Range(kids) : k = Top.expr
  BY <1>3, <1>4 DEF Range
<1>6. /\ Added /\ NodesGrow /\ Made = Len(nodes') /\ Made \in Nat \ {0}
      /\ \A m : m = Made => ~Loose(m)'
  BY <1>1, <1>2, <1>3, <1>4, <1>5, AddFacts
<1>7. Onwards
  BY <1>1, <1>6, ReadOn DEF TypeOK, Take
<1>8. PICK f : f = [Becomes(Made) EXCEPT !.first = first]
  OBVIOUS
<1>9. SameCall(f, Top) /\ f.expr = Made /\ f.pc = "post"
  BY <1>3, <1>6, <1>8 DEF SameCall, Frame, Becomes
<1>10. Settled(f)'
  BY <1>6, <1>9 DEF Settled
<1> QED
  BY <1>6, <1>7, <1>8, <1>9, <1>10, SetKeeps

\* A call that has an expression may go on with it, or not.
LEMMA BecomesSame ==
    ASSUME Top \in Frame, NEW e
    PROVE  Becomes(e) = [Becomes(e) EXCEPT !.first = Top.first]
BY DEF Becomes, Frame

LEMMA PostfixKeeps == ASSUME IInv, NEW t \in NextTokens, Postfix(t) PROVE IInv'
<1>1. TypeOK /\ Shape /\ Calls /\ Running /\ Read(t) /\ Take
  BY DEF IInv, Postfix, Main, MainToken
<1>2. CASE Top.expr = 0
  <2>1. Onwards
    BY <1>1, <1>2, ReadOn DEF Postfix, Fail, Take, TypeOK, NodesGrow
  <2> QED
    BY <1>1, <1>2, <2>1, FailKeeps DEF Postfix
<1>3. CASE Top.expr # 0
  <2>1. Top \in Frame /\ Top.first \in BOOLEAN
    BY <1>1, TopFacts, FieldTypes
  <2>2. Set([Becomes(Made) EXCEPT !.first = Top.first])
    BY <1>3, <2>1, BecomesSame DEF Postfix
  <2> QED
    BY <1>1, <1>3, <2>1, <2>2, WrapKeeps DEF Postfix
<1> QED
  BY <1>2, <1>3

LEMMA SuffixKeeps == ASSUME IInv, NEW t \in NextTokens, Suffix(t) PROVE IInv'
<1>1. TypeOK /\ Calls /\ Running
  BY DEF IInv, Suffix, Post
<1>2. Top.expr # 0 \/ failed
  BY <1>1, TopFacts DEF Suffix, Post, Fits
<1> QED
  BY <1>1, <1>2, WrapKeeps DEF Suffix

LEMMA ArgsKeeps == ASSUME IInv, NEW t \in NextTokens, Args(t) PROVE IInv'
<1>1. TypeOK /\ Shape /\ Calls /\ Running /\ Read(t) /\ Top.pc = "args"
  BY DEF IInv, Args
<1>2. Top \in Frame /\ Top.first \in BOOLEAN /\ (Top.expr # 0 \/ failed)
  BY <1>1, TopFacts, FieldTypes DEF Fits
<1>3. CASE t = ")"
  <2>1. Set([Becomes(Made) EXCEPT !.first = Top.first])
    BY <1>2, <1>3, BecomesSame DEF Args
  <2> QED
    BY <1>1, <1>2, <1>3, <2>1, WrapKeeps DEF Args
<1>4. CASE t # ")"
  <2>1. Onwards /\ text' # <<>> /\ failed' = failed
    BY <1>1, <1>4, ReadOn, ReadFacts DEF Args, GiveBack, TypeOK, NodesGrow
  <2>2. {",", ")"} \in SUBSET Tokens /\ "arg" \in Uses
    BY BracketsAssumption DEF Tokens, Uses
  <2>3. Calling(Top, {",", ")"}, TRUE, "arg", Len(text'), <<>>)
    BY <1>4 DEF Args
  <2> QED
    BY <1>1, <1>2, <2>1, <2>2, <2>3, CallingKeeps
<1> QED
  BY <1>3, <1>4

\* The cases that call _parse_expr for an operand or what is in brackets.
LEMMA NestedKeeps ==
    ASSUME IInv, NEW t \in NextTokens,
           \/ Index(t) \/ Prefix(t) \/ Ref(t) \/ Array(t)
           \/ Binop(t) /\ ~Top.first
           \/ Paren(t) /\ Top.expr = 0
    PROVE  IInv'
<1>1. TypeOK /\ Shape /\ Calls /\ Running /\ Read(t) /\ Take /\ Top.pc = "main"
  BY DEF IInv, Index, Prefix, Ref, Array, Binop, Paren, Main, MainToken
<1>2. /\ nodes' = nodes /\ cursor' = cursor /\ crashed' = crashed
      /\ failed' \in BOOLEAN /\ (failed => failed')
  BY <1>1 DEF Index, Prefix, Ref, Array, Binop, Paren, TypeOK
<1>3. Onwards /\ text' # <<>>
  BY <1>1, <1>2, ReadOn, ReadFacts DEF Take, NodesGrow
<1>4. Top.stop \in SUBSET Tokens /\ (Top.first \/ Top.expr # 0 \/ failed)
  BY <1>1, TopFacts, FieldTypes DEF Fits
<1>5. {"]"} \in SUBSET Tokens /\ {")"} \in SUBSET Tokens /\ {",", "}"} \in SUBSET Tokens
  BY BracketsAssumption DEF Tokens
<1>6. CASE Index(t)
  BY <1>1, <1>3, <1>5, <1>6, CallingKeeps DEF Index, Uses
<1>7. CASE Prefix(t)
  <2>1. t \in Uses /\ t \notin {"binop", "[", "arg"}
    BY <1>7 DEF Prefix, Unaries, Uses
  <2> QED
    BY <1>1, <1>3, <1>4, <1>7, <2>1, CallingKeeps DEF Prefix
<1>8. CASE Ref(t)
  BY <1>1, <1>3, <1>4, <1>8, CallingKeeps DEF Ref, Uses
<1>9. CASE Array(t)
  BY <1>1, <1>3, <1>5, <1>9, CallingKeeps DEF Array, Uses
<1>10. CASE Binop(t) /\ ~Top.first
  BY <1>1, <1>3, <1>4, <1>10, CallingKeeps DEF Binop, Uses
<1>11. CASE Paren(t) /\ Top.expr = 0
  BY <1>1, <1>3, <1>5, <1>11, CallingKeeps DEF Paren, Uses
<1> QED
  BY <1>6, <1>7, <1>8, <1>9, <1>10, <1>11

LEMMA MainKeeps ==
    ASSUME IInv, NEW t \in NextTokens, Binop(t) \/ Paren(t) \/ Unexpected(t)
    PROVE  IInv'
<1>1. TypeOK /\ Shape /\ Calls /\ Running /\ Read(t) /\ Take /\ Top.pc = "main"
  BY DEF IInv, Binop, Paren, Unexpected, Main, MainToken
<1>2. CASE (Binop(t) /\ Top.first) \/ Unexpected(t)
  <2>1. Onwards /\ Fail
    BY <1>1, <1>2, ReadOn DEF Binop, Unexpected, Fail, Take, TypeOK, NodesGrow
  <2> QED
    BY <1>1, <2>1, FailKeeps
<1>3. CASE Paren(t) /\ Top.expr # 0
  <2>1. Onwards /\ failed' = failed /\ nodes' = nodes
    BY <1>1, <1>3, ReadOn DEF Paren, Take, TypeOK, NodesGrow
  <2>2. PICK f : f = [Top EXCEPT !.pc = "args"]
    OBVIOUS
  <2>3. Top \in Frame /\ Set(f)
    BY <1>1, <1>3, <2>2, TopFacts DEF Paren
  <2>4. SameCall(f, Top) /\ f.expr = Top.expr /\ f.pc = "args"
    BY <2>2, <2>3 DEF SameCall, Frame
  <2>5. ~failed' /\ ~CutShort' => ~Loose(f.expr)'
    BY <1>1, <2>1, <2>4, StaysTight
  <2>6. Settled(f)'
    BY <1>3, <2>4, <2>5 DEF Settled
  <2> QED
    BY <1>1, <2>1, <2>3, <2>4, <2>6, SetKeeps
<1> QED
  BY <1>2, <1>3, NestedKeeps

(***************************************************************************)
(* After an operand                                                        *)
(***************************************************************************)
LEMMA LeaveAsKeeps == ASSUME IInv, NEW t \in NextTokens, LeaveAs(t) PROVE IInv'
<1>1. TypeOK /\ Shape /\ Calls /\ Running /\ Read(t) /\ Top.pc = "post"
  BY DEF IInv, LeaveAs, Post
<1>2. Onwards /\ token' = t /\ failed' = failed
  BY <1>1, ReadOn, ReadFacts DEF LeaveAs, GiveBack, TypeOK, NodesGrow
<1>3. PICK f : f = [Top EXCEPT !.pc = "done", !.expr = Top.expr]
  OBVIOUS
<1>4. Top \in Frame /\ Fits(Top) /\ Set(f)
  BY <1>1, <1>3, TopFacts DEF LeaveAs, Return
<1>5. SameCall(f, Top) /\ f.expr = Top.expr /\ f.pc = "done"
  BY <1>3, <1>4 DEF SameCall, Frame
<1>6. ~failed' => f.expr # 0
  BY <1>1, <1>2, <1>4, <1>5 DEF Fits
<1>7. Settled(f)'
  BY <1>2, <1>5, <1>6 DEF Settled, LeaveAs, SameCall
<1> QED
  BY <1>1, <1>2, <1>4, <1>5, <1>7, SetKeeps

LEMMA NoSuffixKeeps == ASSUME IInv, NEW t \in NextTokens, NoSuffix(t) PROVE IInv'
<1>1. TypeOK /\ Shape /\ Calls /\ Running /\ Read(t) /\ Top.pc = "post"
  BY DEF IInv, NoSuffix, Post
<1>2. Onwards /\ failed' = failed /\ nodes' = nodes
  BY <1>1, ReadOn DEF NoSuffix, GiveBack, TypeOK, NodesGrow
<1>3. PICK f : f = [Top EXCEPT !.pc = "main", !.first = Top.first /\ t \in Top.stop]
  OBVIOUS
<1>4. Top \in Frame /\ Fits(Top)
  BY <1>1, TopFacts
<1>5. Set(f)
  BY <1>3, <1>4 DEF NoSuffix, Frame
<1>6. SameCall(f, Top) /\ f.expr = Top.expr /\ f.pc = "main"
  BY <1>3, <1>4 DEF SameCall, Frame
<1>7. ~failed' => f.expr # 0
  BY <1>1, <1>2, <1>4, <1>6 DEF Fits
<1>8. ~failed' /\ ~CutShort' => ~Loose(f.expr)'
  BY <1>1, <1>2, <1>6, StaysTight
<1>9. Settled(f)'
  BY <1>6, <1>7, <1>8 DEF Settled
<1> QED
  BY <1>1, <1>2, <1>5, <1>6, <1>9, SetKeeps

LEMMA CloseKeeps == ASSUME IInv, NEW t \in NextTokens, Close(t) PROVE IInv'
<1>1. TypeOK /\ Shape /\ Calls /\ Running /\ Read(t) /\ Top.pc \in {")", "]"}
  BY DEF IInv, Close
<1>2. CASE t = Top.pc
  <2>1. Onwards /\ failed' = failed /\ nodes' = nodes
    BY <1>1, <1>2, ReadOn DEF Close, Take, TypeOK, NodesGrow
  <2>2. PICK f : f = [Top EXCEPT !.pc = "post"]
    OBVIOUS
  <2>3. Top \in Frame /\ Fits(Top) /\ Set(f)
    BY <1>1, <1>2, <2>2, TopFacts DEF Close
  <2>4. SameCall(f, Top) /\ f.expr = Top.expr /\ f.pc = "post"
    BY <2>2, <2>3 DEF SameCall, Frame
  <2>5. ~failed' => f.expr # 0
    BY <1>1, <2>1, <2>3, <2>4 DEF Fits
  <2>6. ~failed' /\ ~CutShort' => ~Loose(f.expr)'
    BY <1>1, <2>1, <2>4, StaysTight
  <2>7. Settled(f)'
    BY <2>4, <2>5, <2>6 DEF Settled
  <2> QED
    BY <1>1, <2>1, <2>3, <2>4, <2>7, SetKeeps
<1>3. CASE t # Top.pc
  <2>1. Onwards /\ Fail
    BY <1>1, <1>3, ReadOn DEF Close, Fail, GiveBack, TypeOK, NodesGrow
  <2> QED
    BY <1>1, <2>1, FailKeeps
<1> QED
  BY <1>2, <1>3

LEMMA AfterBinopKeeps == ASSUME IInv, AfterBinop PROVE IInv'
<1>1. TypeOK /\ Shape /\ Calls /\ Running /\ Top.pc = "push"
  BY DEF IInv, AfterBinop
<1>2. Onwards /\ failed' = failed /\ nodes' = nodes /\ text' = text /\ given' = given /\ stuck' = stuck
  BY <1>1, StillOn DEF AfterBinop, TypeOK, NodesGrow
<1>3. Top \in Frame /\ Fits(Top)
  BY <1>1, TopFacts
<1>4. token' = token /\ (StructRead => StructRead') /\ (CutShort => CutShort')
  BY <1>2 DEF token, StructRead, CutShort
<1>5. PICK f : f = IF current \in Top.stop THEN [Top EXCEPT !.pc = "done", !.expr = Top.expr]
                                           ELSE [Top EXCEPT !.pc = "post"]
  OBVIOUS
<1>6. Set(f)
  BY <1>5 DEF AfterBinop, Return
<1>7. /\ SameCall(f, Top) /\ f.expr = Top.expr
      /\ f.pc = IF current \in Top.stop THEN "done" ELSE "post"
  BY <1>3, <1>5 DEF SameCall, Frame
<1>8. ~failed' => f.expr # 0
  BY <1>1, <1>2, <1>3, <1>7 DEF Fits
<1>9. ~failed' /\ ~CutShort' => token \in Top.stop \/ StructRead'
  BY <1>1, <1>2, <1>3, <1>4 DEF Fits
<1>10. current \notin Top.stop /\ ~failed' /\ ~CutShort' => StructRead'
  BY <1>4, <1>9 DEF current
<1>11. Settled(f)'
  BY <1>4, <1>7, <1>8, <1>9, <1>10 DEF Settled, SameCall
<1> QED
  BY <1>1, <1>2, <1>6, <1>7, <1>11, SetKeeps

(***************************************************************************)
(* After a nested call                                                     *)
(***************************************************************************)
LEMMA AnsweredFacts ==
    ASSUME IInv, NEW use, Answered(use)
    PROVE  /\ TypeOK /\ Shape /\ Calls /\ Running /\ Depth > 1 /\ Top.pc = "done" /\ Top.use = use
           /\ Top \in Frame /\ Fits(Top) /\ Top.expr \in 0..Len(nodes)
           /\ Caller \in Frame /\ Fits(Caller) /\ Caller.expr \in 0..Len(nodes)
           /\ Waits(Caller, Top)
           /\ Top.expr = 0 => failed
           /\ Top.at \in Nat /\ Range(Top.args) \subseteq Nat /\ Top.args \in Seq(Nat)
<1>1. TypeOK /\ Shape /\ Calls /\ Running /\ Depth > 1 /\ Top.pc = "done" /\ Top.use = use
  BY DEF IInv, Answered
<1>2. /\ Top \in Frame /\ Fits(Top) /\ Top.expr <= Len(nodes) /\ Len(nodes) \in Nat
      /\ Caller \in Frame /\ Fits(Caller) /\ Caller.expr <= Len(nodes)
      /\ Waits(Caller, Top)
  BY <1>1, TopFacts, CallerFacts
<1>3. Top.expr \in Nat /\ Caller.expr \in Nat /\ Top.at \in Nat /\ Top.args \in Seq(Nat)
  BY <1>2, FieldTypes
<1>4. Range(Top.args) \subseteq Nat
  BY <1>3, RangeFacts
<1>5. Top.expr = 0 => failed
  BY <1>1, <1>2 DEF Fits
<1> QED
  BY <1>1, <1>2, <1>3, <1>4, <1>5

\* The caller goes on with a new expression, or is refused.
LEMMA BackMadeKeeps ==
    ASSUME IInv, Depth > 1, Running, Onwards, Added,
           NEW e, e = Len(nodes'), ~Loose(e)', NEW pc \in {"post", "]"},
           Back([Caller EXCEPT !.expr = e, !.pc = pc])
    PROVE  IInv'
<1>1. TypeOK /\ Shape /\ Calls
  BY DEF IInv
<1>2. Caller \in Frame
  BY <1>1, CallerFacts
<1>3. e \in Nat \ {0}
  BY <1>1, NodesFacts DEF Onwards
<1>4. PICK f : f = [Caller EXCEPT !.expr = e, !.pc = pc]
  OBVIOUS
<1>5. SameCall(f, Caller) /\ f.expr = e /\ f.pc = pc
  BY <1>2, <1>3, <1>4 DEF SameCall, Frame
<1>6. Settled(f)'
  BY <1>3, <1>5 DEF Settled
<1> QED
  BY <1>4, <1>5, <1>6, BackKeeps

LEMMA BackFailedKeeps ==
    ASSUME IInv, Depth > 1, Running, Onwards, failed', BackWith(0) \/ BackDone(0)
    PROVE  IInv'
<1>1. TypeOK /\ Calls
  BY DEF IInv
<1>2. Caller \in Frame
  BY <1>1, CallerFacts
<1>3. PICK pc \in {"post", "done"} : Back([Caller EXCEPT !.expr = 0, !.pc = pc])
  BY DEF BackWith, BackDone
<1>4. PICK f : f = [Caller EXCEPT !.expr = 0, !.pc = pc]
  OBVIOUS
<1>5. SameCall(f, Caller) /\ f.expr = 0
  BY <1>2, <1>4 DEF SameCall, Frame
<1>6. Settled(f)'
  BY DEF Settled
<1> QED
  BY <1>3, <1>4, <1>5, <1>6, BackKeeps

LEMMA NoOperandKeeps == ASSUME IInv, NoOperand PROVE IInv'
<1>1. PICK use : Answered(use)
  BY DEF NoOperand
<1>2. failed' /\ Depth > 1 /\ Running /\ TypeOK /\ Shape
  BY <1>1, AnsweredFacts DEF NoOperand
<1>3. Onwards
  BY <1>2, StillOn DEF NoOperand, TypeOK, NodesGrow
<1> QED
  BY <1>2, <1>3, BackFailedKeeps DEF NoOperand

LEMMA MakePrefixKeeps == ASSUME IInv, MakePrefix PROVE IInv'
<1>1. PICK use \in {"-", "&", "!", "~"} : Answered(use)
  BY DEF MakePrefix
<1>2. /\ TypeOK /\ Shape /\ Running /\ Depth > 1 /\ Top.pc = "done" /\ Top.use = use
      /\ Fits(Top) /\ Top.expr \in 0..Len(nodes) /\ Top.at \in Nat
      /\ Caller \in Frame /\ Waits(Caller, Top) /\ Top.expr # 0
  BY <1>1, AnsweredFacts DEF MakePrefix
<1>3. PICK kids : kids = <<Top.expr>>
  OBVIOUS
<1>4. kids \in Seq(Nat) /\ \A k \in Range(kids) : k = Top.expr
  BY <1>2, <1>3 DEF Range
<1>5. /\ Added /\ NodesGrow /\ Made = Len(nodes') /\ Made \in Nat \ {0}
      /\ \A m : m = Made => ~Loose(m)'
  <2>1. Make(NewExpr("pre", Top.at, kids))
    BY <1>3 DEF MakePrefix
  <2>2. \A k \in Range(kids) : k <= Len(nodes)
    BY <1>2, <1>4
  <2>3. 0 \notin Range(kids)
    BY <1>2, <1>4
  <2> QED
    BY <1>2, <1>4, <2>1, <2>2, <2>3, AddFacts
<1>6. Onwards /\ failed' = failed /\ text' = text /\ given' = given /\ stuck' = stuck
  BY <1>2, <1>5, StillOn DEF MakePrefix, TypeOK
<1>7. PICK e : e = Made
  OBVIOUS
<1>8. CASE use # "-"
  <2>1. Back([Caller EXCEPT !.expr = e, !.pc = "post"])
    BY <1>2, <1>7, <1>8 DEF MakePrefix, BackWith
  <2> QED
    BY <1>2, <1>5, <1>6, <1>7, <2>1, BackMadeKeeps
<1>9. CASE use = "-"
  <2>1. PICK f : f = [Caller EXCEPT !.expr = e, !.pc = "done"]
    OBVIOUS
  <2>2. Back(f)
    BY <1>2, <1>7, <1>9, <2>1 DEF MakePrefix, BackDone
  <2>3. SameCall(f, Caller) /\ f.expr = e /\ f.pc = "done"
    BY <1>2, <1>5, <1>7, <2>1 DEF SameCall, Frame
  <2>4. f.stop = Top.stop /\ Top.post
    BY <1>2, <1>9, <2>3 DEF SameCall, Waits
  <2>5. token' = token /\ (StructRead => StructRead') /\ (CutShort => CutShort')
    BY <1>6 DEF token, StructRead, CutShort
  <2>6. ~failed' /\ ~CutShort' => token' \in f.stop \/ StructRead'
    BY <1>2, <1>6, <2>4, <2>5 DEF Fits
  <2>7. Settled(f)'
    BY <1>5, <1>7, <2>3, <2>6 DEF Settled
  <2> QED
    BY <1>2, <1>5, <1>6, <1>7, <2>2, <2>3, <2>7, BackKeeps
<1> QED
  BY <1>8, <1>9

LEMMA MakeIdxKeeps == ASSUME IInv, MakeIdx PROVE IInv'
<1>1. /\ TypeOK /\ Shape /\ Running /\ Depth > 1 /\ Top.expr \in 0..Len(nodes) /\ Top.at \in Nat
      /\ Caller.expr \in 0..Len(nodes) /\ Waits(Caller, Top) /\ (Top.expr = 0 => failed)
      /\ Top.use = "["
  <2>1. Answered("[")
    BY DEF MakeIdx
  <2> QED
    BY <2>1, AnsweredFacts
<1>2. PICK kids : kids = <<Caller.expr, Top.expr>>
  OBVIOUS
<1>3. kids \in Seq(Nat) /\ \A k \in Range(kids) : k \in {Caller.expr, Top.expr}
  BY <1>1, <1>2 DEF Range
<1>4. failed' = failed
  BY DEF MakeIdx
<1>5. ~failed' => 0 \notin Range(kids)
  BY <1>1, <1>3, <1>4 DEF Waits
<1>6. /\ Added /\ NodesGrow /\ Made = Len(nodes') /\ Made \in Nat \ {0}
      /\ \A m : m = Made => ~Loose(m)'
  <2>1. Make(NewExpr("idx", Top.at, kids))
    BY <1>2 DEF MakeIdx
  <2>2. \A k \in Range(kids) : k <= Len(nodes)
    BY <1>1, <1>3
  <2> QED
    BY <1>1, <1>3, <1>5, <2>1, <2>2, AddFacts
<1>7. Onwards
  BY <1>1, <1>6, StillOn DEF MakeIdx, TypeOK
<1>8. PICK e : e = Made /\ Back([Caller EXCEPT !.expr = e, !.pc = "]"])
  BY DEF MakeIdx
<1> QED
  BY <1>1, <1>6, <1>7, <1>8, BackMadeKeeps

\* The next argument or element: the call starts again, with one operand more.
LEMMA AgainKeeps ==
    ASSUME IInv, NEW use \in {"arg", "elem"}, Answered(use), Onwards, nodes' = nodes, failed' = failed,
           NEW stop \in SUBSET Tokens, Top.expr # 0,
           NEW args, args = Append(Top.args, Top.expr),
           Set(NewFrame(stop, TRUE, use, Top.at, args))
    PROVE  IInv'
<1>1. /\ TypeOK /\ Shape /\ Calls /\ Running /\ Depth > 1 /\ Top.use = use /\ Fits(Top)
      /\ Top.expr \in 0..Len(nodes) /\ Waits(Caller, Top) /\ Top.at \in Nat
      /\ Range(Top.args) \subseteq Nat /\ Top.args \in Seq(Nat) /\ Depth \in Nat
  BY AnsweredFacts, TopFacts
<1>2. args \in Seq(Nat) /\ \A k \in Range(args) : k \in Range(Top.args) \/ k = Top.expr
  BY <1>1, AppendRange
<1>3. PICK f : f = NewFrame(stop, TRUE, use, Top.at, args)
  OBVIOUS
<1>4. /\ f \in Frame /\ f.stop = stop /\ f.post = TRUE /\ f.first = TRUE /\ f.expr = 0
      /\ f.pc = "main" /\ f.use = use /\ f.at = Top.at /\ f.args = args
  BY <1>1, <1>2, <1>3 DEF NewFrame, Frame, Uses
<1>5. Become(Depth, f)
  BY <1>1, <1>3, <1>4, SetBecomes
<1>6. ~Loose(0)'
  BY DEF Loose, Binops
<1>7. Len(text) \in Nat /\ Len(text') \in Nat /\ Len(text) <= Len(text')
  BY <1>1, LenProperties DEF Onwards, TextGrows, TypeOK
<1>8. /\ f.at <= Len(text') /\ \A k \in Range(f.args) : k <= Len(nodes')
      /\ ~failed' => 0 \notin Range(f.args)
  BY <1>1, <1>2, <1>4, <1>7 DEF Fits
<1>9. Fits(f)'
  BY <1>4, <1>6, <1>8 DEF Fits
<1>10. Awaited(Depth, f)
  BY <1>1, <1>4 DEF Awaited, Waits, Caller
<1>11. Depth # Depth + 1
  BY <1>1
<1> QED
  BY <1>1, <1>4, <1>5, <1>9, <1>10, <1>11, ParseStep DEF Onwards

LEMMA NextArgKeeps == ASSUME IInv, NEW t \in NextTokens, NextArg(t) PROVE IInv'
<1>1. PICK args : args = Append(Top.args, Top.expr)
  OBVIOUS
<1>2. Answered("arg") /\ Top.expr # 0 /\ Read(t) /\ Take
  BY DEF NextArg
<1>3. /\ TypeOK /\ Shape /\ Calls /\ Running /\ Depth > 1 /\ Fits(Top) /\ Top.use = "arg"
      /\ Top.expr \in 0..Len(nodes) /\ Top.at \in Nat /\ Caller.expr \in 0..Len(nodes)
      /\ Waits(Caller, Top) /\ Range(Top.args) \subseteq Nat /\ Top.args \in Seq(Nat)
  BY <1>2, AnsweredFacts
<1>4. CASE t = ","
  <2>1. nodes' = nodes /\ failed' = failed /\ Set(NewFrame({",", ")"}, TRUE, "arg", Top.at, args))
    BY <1>1, <1>4 DEF NextArg
  <2>2. Onwards
    BY <1>2, <1>3, <2>1, ReadOn DEF NextArg, Take, TypeOK, NodesGrow
  <2>3. {",", ")"} \in SUBSET Tokens
    BY BracketsAssumption DEF Tokens
  <2> QED
    BY <1>1, <1>2, <2>1, <2>2, <2>3, AgainKeeps
<1>5. CASE t = ")"
  <2>1. Make(NewExpr("call", Top.at, <<Caller.expr>> \o args)) /\ failed' = failed /\ BackWith(Made)
    BY <1>1, <1>5 DEF NextArg
  <2>2. PICK kids : kids = <<Caller.expr>> \o args
    OBVIOUS
  <2>3. /\ kids \in Seq(Nat)
        /\ \A k \in Range(kids) : k \in Range(Top.args) \cup {Top.expr, Caller.expr}
    <3>1. <<Caller.expr>> \in Seq(Nat) /\ args \in Seq(Nat)
      BY <1>1, <1>3
    <3>2. /\ kids \in Seq(Nat)
      BY <2>2, <3>1
    <3>3. ASSUME NEW k \in Range(kids) PROVE k \in Range(Top.args) \cup {Top.expr, Caller.expr}
      <4>1. PICK i \in 1..Len(kids) : k = kids[i]
        BY <3>2, <3>3, RangeFacts
      <4>2. kids[i] = IF i = 1 THEN Caller.expr ELSE args[i - 1]
        BY <2>2, <3>1, <4>1
      <4>3. i = 1 \/ i - 1 \in 1..Len(args)
        BY <2>2, <3>1, <4>1
      <4>4. Range(args) \subseteq Range(Top.args) \cup {Top.expr}
        BY <1>1, <1>3, AppendRange
      <4>5. \A j \in 1..Len(args) : args[j] \in Range(args)
        BY <3>1, RangeFacts
      <4> QED
        BY <4>1, <4>2, <4>3, <4>4, <4>5
    <3> QED
      BY <3>2, <3>3
  <2>4. \A k \in Range(kids) : k <= Len(nodes)
    BY <1>3, <2>3 DEF Fits
  <2>5. ~failed' => 0 \notin Range(kids)
    BY <1>2, <1>3, <2>1, <2>3 DEF Fits, Waits
  <2>6. /\ Added /\ NodesGrow /\ Made = Len(nodes')
        /\ \A m : m = Made => ~Loose(m)'
    BY <1>3, <2>1, <2>2, <2>3, <2>4, <2>5, AddFacts
  <2>7. Onwards
    BY <1>2, <1>3, <2>1, <2>6, ReadOn DEF NextArg, Take, TypeOK
  <2>8. PICK e : e = Made /\ Back([Caller EXCEPT !.expr = e, !.pc = "post"])
    BY <2>1 DEF BackWith
  <2> QED
    BY <1>3, <2>6, <2>7, <2>8, BackMadeKeeps
<1>6. CASE t \notin {",", ")"}
  <2>1. failed' = TRUE /\ BackDone(0) /\ nodes' = nodes
    BY <1>6 DEF NextArg
  <2>2. Onwards
    BY <1>2, <1>3, <2>1, ReadOn DEF NextArg, Take, TypeOK, NodesGrow
  <2> QED
    BY <1>3, <2>1, <2>2, BackFailedKeeps
<1> QED
  BY <1>4, <1>5, <1>6

LEMMA NextElemKeeps == ASSUME IInv, NEW t \in NextTokens, NextElem(t) PROVE IInv'
<1>1. PICK args : args = Append(Top.args, Top.expr)
  OBVIOUS
<1>2. /\ Answered("elem") /\ Top.expr # 0 /\ Read(t) /\ given' = FALSE
      /\ cursor' = cursor /\ crashed' = crashed /\ failed' = failed
  BY DEF NextElem, Take
<1>3. /\ TypeOK /\ Shape /\ Calls /\ Running /\ Depth > 1 /\ Fits(Top)
      /\ Top.expr \in 0..Len(nodes) /\ Top.at \in Nat
      /\ Range(Top.args) \subseteq Nat /\ Top.args \in Seq(Nat)
      /\ failed \in BOOLEAN
  BY <1>2, AnsweredFacts DEF TypeOK
<1>4. CASE t # "}"
  <2>1. nodes' = nodes /\ Set(NewFrame({",", "}"}, TRUE, "elem", Top.at, args))
    BY <1>1, <1>4 DEF NextElem
  <2>2. Onwards
    BY <1>2, <1>3, <2>1, ReadOn DEF NodesGrow
  <2>3. {",", "}"} \in SUBSET Tokens
    BY BracketsAssumption DEF Tokens
  <2> QED
    BY <1>1, <1>2, <2>1, <2>2, <2>3, AgainKeeps
<1>5. CASE t = "}"
  <2>1. Make(NewExpr("array", Top.at, args)) /\ BackWith(Made)
    BY <1>1, <1>5 DEF NextElem
  <2>2. args \in Seq(Nat) /\ \A k \in Range(args) : k \in Range(Top.args) \cup {Top.expr}
    BY <1>1, <1>3, AppendRange
  <2>3. \A k \in Range(args) : k <= Len(nodes)
    BY <1>3, <2>2 DEF Fits
  <2>4. ~failed' => 0 \notin Range(args)
    BY <1>2, <1>3, <2>2 DEF Fits
  <2>5. /\ Added /\ NodesGrow /\ Made = Len(nodes')
        /\ \A m : m = Made => ~Loose(m)'
    BY <1>3, <2>1, <2>2, <2>3, <2>4, AddFacts
  <2>6. Onwards
    BY <1>2, <1>3, <2>5, ReadOn
  <2>7. PICK e : e = Made /\ Back([Caller EXCEPT !.expr = e, !.pc = "post"])
    BY <2>1 DEF BackWith
  <2> QED
    BY <1>3, <2>5, <2>6, <2>7, BackMadeKeeps
<1> QED
  BY <1>4, <1>5

(***************************************************************************)
(* A new operator                                                          *)
(***************************************************************************)
LEMMA MakeBinopKeeps == ASSUME IInv, MakeBinop PROVE IInv'
<1>1. /\ TypeOK /\ Shape /\ Calls /\ Running /\ Depth > 1 /\ Top.pc = "done" /\ Top.use = "binop"
      /\ Top \in Frame /\ Fits(Top) /\ Top.expr \in 0..Len(nodes)
      /\ Caller \in Frame /\ Fits(Caller) /\ Caller.expr \in 0..Len(nodes)
      /\ Waits(Caller, Top) /\ Top.at \in Nat
  <2>1. Answered("binop")
    BY DEF MakeBinop
  <2> QED
    BY <2>1, AnsweredFacts
<1>2. /\ Top.expr # 0 /\ text' = text /\ given' = given /\ stuck' = stuck /\ failed' = failed /\ crashed' = crashed
      /\ cursor = 0 /\ cursor' = Made /\ ~crashed
      /\ Apart /\ InOrder /\ NullOnlyAfterError
  BY <1>1 DEF MakeBinop, Running, IInv
<1>3. PICK l, r, m : l = Caller.expr /\ r = Top.expr /\ m = Made
  OBVIOUS
<1>4. PICK e : e = NewExpr("binop", Top.at, <<l, r>>)
  OBVIOUS
<1>5. /\ e \in Expr /\ e.type = "binop" /\ e.at = Top.at /\ e.kids = <<l, r>>
      /\ e.kids[1] = l /\ e.kids[2] = r /\ Len(e.kids) = 2 /\ e.scoped = FALSE
  BY <1>1, <1>3, <1>4 DEF NewExpr, Expr
<1>6. nodes \in Seq(Expr) /\ Len(nodes) \in Nat /\ m = Len(nodes) + 1
  BY <1>1, <1>3, LenProperties DEF TypeOK, Made
<1>7. /\ nodes' \in Seq(Expr) /\ Len(nodes') = m /\ nodes'[m] = e
      /\ \A k \in 1..Len(nodes) : nodes'[k] = nodes[k]
  <2>1. nodes' = Append(nodes, e)
    BY <1>3, <1>4 DEF MakeBinop, Make
  <2> QED
    BY <1>5, <1>6, <2>1, AppendFacts
<1>8. /\ m \in Nat \ {0} /\ m \notin 0..Len(nodes) /\ m \in 1..Len(nodes')
      /\ l \in 0..Len(nodes) /\ r \in 0..Len(nodes) /\ r # 0
      /\ \A k \in 1..Len(nodes') : k \in 1..Len(nodes) \/ k = m
      /\ \A k \in 1..Len(nodes) : k \in 1..Len(nodes')
  BY <1>1, <1>2, <1>3, <1>6, <1>7
<1>9. m \notin Binops /\ Binops' = Binops \cup {m}
  BY <1>5, <1>7, <1>8 DEF Binops
<1>10. \A k \in Binops : /\ k \in 1..Len(nodes) /\ nodes'[k] = nodes[k]
                          /\ \A s \in 1..2 : nodes[k].kids[s] \in 0..Len(nodes)
  BY <1>1, <1>7, OperandFacts
<1>11. PICK f : f = [Caller EXCEPT !.expr = m, !.pc = "push"]
  OBVIOUS
<1>12. SameCall(f, Caller) /\ f.expr = m /\ f.pc = "push"
  BY <1>1, <1>8, <1>11 DEF SameCall, Frame
<1>13. Become(Depth - 1, f)
  <2>1. Back(f)
    BY <1>3, <1>11 DEF MakeBinop
  <2> QED
    BY <1>1, <1>12, <2>1, BackBecomes DEF SameCall
<1>14. PICK L : L = Depth - 1
  OBVIOUS
<1>15. /\ L \in 1..Depth /\ Len(frames') = L /\ frames'[L] = f /\ frames[L] = Caller
       /\ \A i \in 1..L - 1 : frames'[i] = frames[i]
       /\ frames' \in Seq(Frame) /\ Depth \in Nat \ {0} /\ frames[Depth] = Top
       /\ L # Depth /\ Depth \in 1..Depth
  BY <1>1, <1>13, <1>14, TopFacts, CallerFacts DEF Become, Top
<1>16. \A i \in 1..Depth : frames[i].expr \in 0..Len(nodes)
  <2> TAKE i \in 1..Depth
  <2>1. frames[i] \in Frame
    BY <1>1, ElementOfSeq DEF TypeOK, Depth
  <2> QED
    BY <1>1, <1>6, <2>1, FieldTypes DEF TypeOK
<1>17. \A i \in 1..L : i = L \/ (i \in 1..L - 1 /\ i \in 1..Depth /\ i # L /\ i # Depth)
  BY <1>1, <1>14, <1>15
<1>18. TypeOK'
  <2>1. frames' # <<>>
    BY <1>15
  <2>2. \A i \in 1..L : frames'[i].expr <= Len(nodes')
    BY <1>6, <1>7, <1>12, <1>15, <1>16, <1>17
  <2>3. cursor' \in 0..Len(nodes')
    BY <1>2, <1>3, <1>7, <1>8
  <2> QED
    BY <1>1, <1>2, <1>7, <1>15, <2>1, <2>2, <2>3 DEF TypeOK, Depth
<1>19. Shape'
  <2>1. (given' => text' # <<>>) /\ (stuck' => failed' /\ text' # <<>>)
    BY <1>1, <1>2 DEF Shape
  <2>2. ASSUME NEW n \in 1..Len(nodes'), NEW k \in Range(nodes'[n].kids) PROVE k <= Len(nodes')
    <3>1. CASE n = m
      <4>1. Range(nodes'[n].kids) = {l, r}
        BY <1>5, <1>7, <3>1 DEF Range
      <4> QED
        BY <1>6, <1>7, <1>8, <2>2, <4>1
    <3>2. CASE n \in 1..Len(nodes)
      <4>1. nodes'[n] = nodes[n] /\ nodes[n].kids \in Seq(Nat)
        BY <1>1, <1>7, <3>2, NodeFacts
      <4>2. k \in Nat
        BY <2>2, <4>1, RangeFacts
      <4>3. k <= Len(nodes)
        BY <1>1, <2>2, <3>2, <4>1 DEF Shape
      <4> QED
        BY <1>6, <1>7, <4>2, <4>3
    <3> QED
      BY <1>8, <3>1, <3>2
  <2>3. Top.at \in 1..Len(text)
    BY <1>1, TopFacts DEF Fits
  <2>4. \A n \in Binops' : Len(nodes'[n].kids) = 2 /\ nodes'[n].at \in 1..Len(text')
    <3>1. \A n \in Binops : Len(nodes[n].kids) = 2 /\ nodes[n].at \in 1..Len(text)
      BY <1>1 DEF Shape
    <3>2. Len(nodes'[m].kids) = 2 /\ nodes'[m].at \in 1..Len(text)
      BY <1>5, <1>7, <2>3
    <3> QED
      BY <1>2, <1>9, <1>10, <3>1, <3>2
  <2>5. cursor' \in Binops' /\ frames'[Len(frames')].pc = "push"
    BY <1>2, <1>3, <1>9, <1>12, <1>15
  <2> QED
    BY <2>1, <2>2, <2>4, <2>5 DEF Shape, Top, Depth
<1>20. Calls'
  <2>1. TextGrows
    BY <1>1, <1>2, LenProperties DEF TextGrows, TypeOK
  <2>2. \A k \in 1..Len(nodes) : Loose(k)' => Loose(k)
    BY <1>7, <1>8, <1>9 DEF Loose, Binops
  <2>3. Fits(f)'
    <3>1. /\ f.at <= Len(text') /\ (f.use = "binop" => f.at # 0)
          /\ ~failed' => 0 \notin Range(f.args)
      BY <1>1, <1>2, <1>12 DEF Fits, SameCall
    <3>2. Range(f.args) \subseteq Nat
      BY <1>12, FieldTypes, RangeFacts DEF SameCall
    <3>3. \A k \in Range(f.args) : k <= Len(nodes')
      BY <1>1, <1>6, <1>7, <1>12, <3>2 DEF Fits, SameCall
    <3>4. token' = token /\ (StructRead => StructRead') /\ (CutShort => CutShort')
      BY <1>2 DEF token, StructRead, CutShort
    <3>5. Top.stop = f.stop /\ Top.post
      BY <1>1, <1>12 DEF Waits, SameCall
    <3>6. ~failed' /\ ~CutShort' => token' \in f.stop \/ StructRead'
      BY <1>1, <1>2, <3>4, <3>5 DEF Fits
    <3> QED
      BY <1>8, <1>12, <3>1, <3>3, <3>6 DEF Fits
  <2>4. Awaited(L, f)
    <3> SUFFICES ASSUME L > 1, NEW c, c = frames[L - 1] PROVE Waits(c, f)'
      BY DEF Awaited
    <3>1. L - 1 \in 1..Depth - 1 /\ L - 1 + 1 = L
      BY <1>14, <1>15
    <3>2. Waits(c, Caller)
      BY <1>1, <1>15, <3>1 DEF Calls
    <3> QED
      BY <1>2, <1>12, <3>2 DEF Waits, SameCall
  <2>5. L # Depth + 1
    BY <1>15
  <2>6. Len(nodes) <= Len(nodes') /\ Len(nodes') \in Nat
    BY <1>6, <1>7
  <2> QED
    BY <1>1, <1>2, <1>13, <1>14, <2>1, <2>2, <2>3, <2>4, <2>5, <2>6, CallsKept
<1>21. Apart'
  <2>1. ASSUME NEW i \in 1..L, NEW j \in 1..L, i # j, frames'[i].expr # 0
        PROVE  frames'[i].expr # frames'[j].expr
    <3>1. \A k \in 1..L - 1 : k \in 1..Depth /\ frames'[k].expr = frames[k].expr /\ frames[k].expr # m
      BY <1>8, <1>15, <1>16, <1>17
    <3>2. CASE i = L \/ j = L
      BY <1>12, <1>15, <1>17, <2>1, <3>1, <3>2
    <3>3. CASE i # L /\ j # L
      <4>1. i \in 1..L - 1 /\ j \in 1..L - 1
        BY <1>17, <3>3
      <4> QED
        BY <1>2, <2>1, <3>1, <4>1 DEF Apart
    <3> QED
      BY <3>2, <3>3
  <2>2. ASSUME NEW n \in Binops, NEW s \in 1..2, nodes[n].kids[s] # 0
        PROVE  /\ \A i \in 1..L : frames'[i].expr # nodes[n].kids[s]
               /\ nodes[n].kids[s] # l /\ nodes[n].kids[s] # r
               /\ \A g \in Binops : \A t \in 1..2 : nodes[g].kids[t] = nodes[n].kids[s] => n = g /\ s = t
    <3>1. \A i \in 1..Depth : frames[i].expr # nodes[n].kids[s]
      BY <1>2, <2>2 DEF Apart
    <3>2. nodes[n].kids[s] # m
      BY <1>8, <1>10, <2>2
    <3> QED
      BY <1>2, <1>3, <1>12, <1>15, <1>17, <2>2, <3>1, <3>2 DEF Apart
  <2>3. ASSUME NEW k \in {l, r}, k # 0
        PROVE  \A i \in 1..L : frames'[i].expr # k
    <3>1. PICK held \in {L, Depth} : k = frames[held].expr
      BY <1>3, <1>15
    <3>2. held \in 1..Depth /\ k # m
      BY <1>8, <1>15
    <3>3. ASSUME NEW i \in 1..L - 1, i \in 1..Depth, i # L, i # Depth
          PROVE  frames[i].expr # k
      BY <1>2, <2>3, <3>1, <3>2, <3>3 DEF Apart
    <3> QED
      BY <1>12, <1>15, <1>17, <3>2, <3>3
  <2>4. l # r
    BY <1>2, <1>3, <1>8, <1>15 DEF Apart
  <2>5. \A s \in 1..2 : nodes'[m].kids[s] \in {l, r}
    BY <1>5, <1>7
  <2>6. ASSUME NEW n \in Binops', NEW s \in 1..2, nodes'[n].kids[s] # 0
        PROVE  /\ \A i \in 1..L : frames'[i].expr # nodes'[n].kids[s]
               /\ \A g \in Binops' : \A t \in 1..2 : nodes'[g].kids[t] = nodes'[n].kids[s] => n = g /\ s = t
    <3>1. CASE n \in Binops
      <4>1. nodes'[n] = nodes[n]
        BY <1>10, <3>1
      <4>2. ASSUME NEW g \in Binops', NEW t \in 1..2, nodes'[g].kids[t] = nodes'[n].kids[s]
            PROVE  n = g /\ s = t
        <5>1. g # m
          BY <2>2, <2>5, <2>6, <3>1, <4>1, <4>2
        <5>2. g \in Binops /\ nodes'[g] = nodes[g]
          BY <1>9, <1>10, <5>1
        <5> QED
          BY <2>2, <2>6, <3>1, <4>1, <4>2, <5>2
      <4> QED
        BY <2>2, <2>6, <3>1, <4>1, <4>2
    <3>2. CASE n = m
      <4>1. nodes'[n].kids[s] \in {l, r}
        BY <2>5, <3>2
      <4>2. ASSUME NEW g \in Binops', NEW t \in 1..2, nodes'[g].kids[t] = nodes'[n].kids[s]
            PROVE  n = g /\ s = t
        <5>1. g = m
          <6>1. ASSUME g \in Binops PROVE FALSE
            <7>1. nodes[g].kids[t] = nodes'[n].kids[s]
              BY <1>10, <4>2, <6>1
            <7> QED
              BY <2>2, <2>6, <4>1, <6>1, <7>1
          <6> QED
            BY <1>9, <6>1
        <5>2. nodes'[m].kids[1] = l /\ nodes'[m].kids[2] = r /\ s \in {1, 2} /\ t \in {1, 2}
          BY <1>5, <1>7
        <5> QED
          BY <2>4, <3>2, <4>2, <5>1, <5>2
      <4> QED
        BY <2>3, <2>6, <4>1, <4>2
    <3> QED
      BY <1>9, <3>1, <3>2
  <2> QED
    BY <1>15, <2>1, <2>6 DEF Apart, Depth
<1>22. Acyclic'
  <2>1. \A n \in Binops' : \A s \in 1..2 : nodes'[n].kids[s] # m
    BY <1>5, <1>7, <1>8, <1>9, <1>10
  <2>2. /\ {m} \in SUBSET (1..Len(nodes')) /\ cursor' \in {m}
        /\ nodes'[cursor'].kids[1] \notin {m} /\ nodes'[cursor'].kids[2] \notin {m}
    BY <1>2, <1>3, <1>8, <1>9, <2>1
  <2> QED
    BY <2>1, <2>2 DEF Acyclic
<1>23. InOrder'
  <2>1. SUFFICES ASSUME ~failed, ~CutShort PROVE InOrder'
    BY <1>2 DEF InOrder, CutShort
  <2>2. /\ \A n \in Binops : (Loose(n)' <=> Loose(n)) /\ rank(n)' = rank(n)
        /\ \A k \in 0..Len(nodes) : Loose(k)' => Loose(k) /\ rank(k)' = rank(k)
    BY <1>2, <1>7, <1>8, <1>9, <1>10 DEF Loose, rank, Binops
  <2>3. ASSUME NEW n \in Binops PROVE LeftInOrder(n)' /\ RightInOrder(n)'
    <3>1. LeftInOrder(n) /\ RightInOrder(n) /\ nodes'[n] = nodes[n]
      BY <1>2, <1>8, <1>10, <2>1 DEF InOrder
    <3>2. PICK a, b : a = nodes[n].kids[1] /\ b = nodes[n].kids[2]
      OBVIOUS
    <3>3. a = nodes'[n].kids[1] /\ b = nodes'[n].kids[2] /\ a \in 0..Len(nodes) /\ b \in 0..Len(nodes)
      BY <1>10, <3>1, <3>2
    <3>4. (Loose(a)' => rank(a)' >= rank(n)') /\ (Loose(b)' => rank(b)' > rank(n)')
      BY <2>2, <3>1, <3>2, <3>3 DEF LeftInOrder, RightInOrder
    <3> QED
      BY <3>3, <3>4 DEF LeftInOrder, RightInOrder
  <2>4. LeftInOrder(m)'
    <3>1. ~Loose(l)
      BY <1>1, <1>3, <2>1 DEF Fits, Waits
    <3>2. ~Loose(l)'
      BY <1>8, <2>2, <3>1
    <3>3. nodes'[m].kids[1] = l
      BY <1>5, <1>7
    <3> QED
      BY <3>2, <3>3 DEF LeftInOrder
  <2>5. \A n \in Binops' : \A s \in 1..2 : nodes'[n].kids[s] # m
    BY <1>5, <1>7, <1>8, <1>9, <1>10
  <2> QED
    BY <1>2, <1>3, <1>9, <2>3, <2>4, <2>5 DEF InOrder
<1>24. NullOnlyAfterError'
  <2>1. ~failed => 0 \notin {l, r}
    BY <1>1, <1>2, <1>3 DEF Waits
  <2>2. Range(nodes'[m].kids) = {l, r}
    BY <1>5, <1>7 DEF Range
  <2>3. ASSUME ~failed', NEW n \in 1..Len(nodes') PROVE 0 \notin Range(nodes'[n].kids)
    BY <1>2, <1>7, <1>8, <2>1, <2>2, <2>3 DEF NullOnlyAfterError
  <2>4. (\A i \in 1..Depth : frames[i].pc = "done" /\ frames[i].expr = 0 => failed)'
    BY <1>20 DEF Calls, Fits
  <2> QED
    BY <1>2, <2>3, <2>4 DEF NullOnlyAfterError
<1> QED
  BY <1>18, <1>19, <1>20, <1>21, <1>22, <1>23, <1>24 DEF IInv

(***************************************************************************)
(* A group                                                                 *)
(***************************************************************************)
LEMMA MarkGroupKeeps == ASSUME IInv, MarkGroup PROVE IInv'
<1>1. /\ TypeOK /\ Shape /\ Calls /\ Running /\ Depth > 1 /\ Top.expr \in 0..Len(nodes)
      /\ Caller \in Frame /\ Fits(Caller) /\ (Top.expr = 0 => failed)
  <2>1. Answered("(")
    BY DEF MarkGroup
  <2> QED
    BY <2>1, AnsweredFacts
<1>2. /\ text' = text /\ given' = given /\ stuck' = stuck /\ failed' = failed /\ cursor = 0 /\ cursor' = 0 /\ ~crashed
      /\ Apart /\ Acyclic /\ InOrder /\ NullOnlyAfterError
  BY <1>1 DEF MarkGroup, Running, IInv
<1>3. CASE Top.expr = 0
  <2>1. crashed' = TRUE /\ nodes' = nodes /\ frames' = frames /\ cursor' = cursor /\ failed
    BY <1>1, <1>2, <1>3 DEF MarkGroup
  <2>2. TypeOK' /\ Shape' /\ Calls'
    BY <1>1, <1>2, <2>1 DEF TypeOK, Shape, Calls, Depth, Top, Fits, Waits, Binops, Loose, CutShort,
       StructRead, token
  <2>3. Apart' /\ Acyclic' /\ InOrder' /\ NullOnlyAfterError'
    BY <1>2, <2>1 DEF Apart, Acyclic, InOrder, NullOnlyAfterError, Depth, Binops
  <2> QED
    BY <2>2, <2>3 DEF IInv
<1>4. CASE Top.expr # 0
  <2>1. PICK r \in 1..Len(nodes) : r = Top.expr
    BY <1>1, <1>4
  <2>2. PICK e : e = [nodes[r] EXCEPT !.scoped = TRUE]
    OBVIOUS
  <2>3. nodes \in Seq(Expr) /\ Len(nodes) \in Nat /\ nodes[r] \in Expr
    BY <1>1, <2>1, NodeFacts, LenProperties DEF TypeOK
  <2>4. /\ e \in Expr /\ e.type = nodes[r].type /\ e.at = nodes[r].at /\ e.kids = nodes[r].kids
        /\ e.scoped = TRUE
    BY <2>2, <2>3 DEF Expr
  <2>5. /\ nodes' \in Seq(Expr) /\ Len(nodes') = Len(nodes)
        /\ \A k \in 1..Len(nodes) : nodes'[k] = IF k = r THEN e ELSE nodes[k]
    <3>1. nodes' = [nodes EXCEPT ![r] = e]
      BY <1>4, <2>1, <2>2 DEF MarkGroup
    <3> QED
      BY <2>1, <2>3, <2>4, <3>1, ExceptSeq
  <2>6. \A k \in 1..Len(nodes) : /\ nodes'[k].type = nodes[k].type /\ nodes'[k].at = nodes[k].at
                                 /\ nodes'[k].kids = nodes[k].kids
                                 /\ nodes'[k].scoped <=> nodes[k].scoped \/ k = r
    BY <2>4, <2>5, <2>3
  <2>7. Binops' = Binops
    BY <2>5, <2>6 DEF Binops
  <2>8. (\A k : Loose(k)' => Loose(k)) /\ ~Loose(r)' /\ \A k \in Binops : rank(k)' = rank(k)
    BY <1>2, <2>1, <2>6, <2>7 DEF Loose, Binops, rank
  <2>9. OperandsStay /\ TextGrows
    BY <1>1, <1>2, <2>6, <2>7, <2>8, LenProperties DEF OperandsStay, Binops, TextGrows, TypeOK
  <2>10. PICK f, L : f = [Caller EXCEPT !.expr = r, !.pc = ")"] /\ L = Depth - 1
    OBVIOUS
  <2>11. SameCall(f, Caller) /\ f.expr = r /\ f.pc = ")"
    <3>1. Caller \in Frame /\ r \in Nat
      BY <1>1, <2>1, <2>3
    <3> QED
      BY <2>10, <3>1 DEF SameCall, Frame
  <2>12. Become(L, f)
    <3>1. Back(f)
      BY <1>4, <2>1, <2>10 DEF MarkGroup
    <3> QED
      BY <1>1, <2>10, <2>11, <3>1, BackBecomes DEF SameCall
  <2>13. /\ L \in 1..Depth /\ Len(frames') = L /\ frames'[L] = f /\ frames[L] = Caller
         /\ \A i \in 1..L - 1 : frames'[i] = frames[i]
         /\ frames' \in Seq(Frame) /\ Depth \in Nat \ {0} /\ Depth \in L..Depth
    BY <1>1, <2>10, <2>12, TopFacts, CallerFacts DEF Become
  <2>14. Calls'
    <3>1. Fits(f)'
      <4>1. Range(f.args) = Range(Caller.args) /\ f.at = Caller.at /\ f.use = Caller.use
        BY <2>11 DEF SameCall
      <4> QED
        BY <1>1, <1>2, <2>1, <2>5, <2>8, <2>11, <4>1 DEF Fits
    <3>2. Awaited(L, f)
      <4> SUFFICES ASSUME L > 1, NEW c, c = frames[L - 1] PROVE Waits(c, f)'
        BY DEF Awaited
      <4>1. L - 1 \in 1..Depth - 1 /\ L - 1 + 1 = L
        BY <2>10, <2>13
      <4>2. Waits(c, Caller)
        BY <1>1, <2>13, <4>1 DEF Calls
      <4> QED
        BY <1>2, <2>11, <4>2 DEF Waits, SameCall
    <3>3. L # Depth + 1
      BY <2>13
    <3> QED
      BY <1>1, <1>2, <2>3, <2>5, <2>8, <2>9, <2>12, <3>1, <3>2, <3>3, CallsKept
  <2>15. TypeOK'
    <3>1. \A i \in 1..L : frames'[i].expr <= Len(nodes')
      <4> TAKE i \in 1..L
      <4>1. CASE i = L
        BY <2>1, <2>3, <2>5, <2>11, <2>13, <4>1
      <4>2. CASE i # L
        <5>1. i \in 1..L - 1 /\ i \in 1..Depth
          BY <2>13, <4>2
        <5> QED
          BY <1>1, <2>5, <2>13, <5>1 DEF TypeOK
      <4> QED
        BY <4>1, <4>2
    <3>2. frames' # <<>>
      BY <2>13
    <3>3. cursor' \in 0..Len(nodes') /\ crashed' = crashed
      BY <1>2, <1>4, <2>3, <2>5 DEF MarkGroup
    <3> QED
      BY <1>1, <1>2, <2>5, <2>13, <3>1, <3>2, <3>3 DEF TypeOK, Depth
  <2>16. Shape'
    <3>1. \A n \in 1..Len(nodes') : \A k \in Range(nodes'[n].kids) : k <= Len(nodes')
      BY <1>1, <2>5, <2>6 DEF Shape
    <3>2. \A n \in Binops : n \in 1..Len(nodes) /\ Len(nodes[n].kids) = 2 /\ nodes[n].at \in 1..Len(text)
      BY <1>1 DEF Shape, Binops
    <3>3. \A n \in Binops' : Len(nodes'[n].kids) = 2 /\ nodes'[n].at \in 1..Len(text')
      BY <1>2, <2>6, <2>7, <3>2
    <3>4. (given' => text' # <<>>) /\ (stuck' => failed' /\ text' # <<>>)
      BY <1>1, <1>2 DEF Shape
    <3> QED
      BY <1>2, <3>1, <3>3, <3>4 DEF Shape
  <2>17. Apart'
    <3>1. \E j \in L..Depth : f.expr = frames[j].expr
      BY <2>1, <2>11, <2>13 DEF Top
    <3> QED
      BY <1>1, <1>2, <2>9, <2>12, <3>1, ApartKept
  <2>18. InOrder'
    BY <1>1, <1>2, <2>9, InOrderKept
  <2>19. NullOnlyAfterError'
    <3>1. ~failed' => \A n \in 1..Len(nodes') : 0 \notin Range(nodes'[n].kids)
      BY <1>2, <2>5, <2>6 DEF NullOnlyAfterError
    <3>2. (\A i \in 1..Depth : frames[i].pc = "done" /\ frames[i].expr = 0 => failed)'
      BY <2>14 DEF Calls, Fits
    <3>3. ~crashed'
      BY <1>2, <1>4 DEF MarkGroup
    <3> QED
      BY <3>1, <3>2, <3>3 DEF NullOnlyAfterError
  <2>20. Acyclic'
    BY <1>2 DEF Acyclic
  <2> QED
    BY <2>14, <2>15, <2>16, <2>17, <2>18, <2>19, <2>20 DEF IInv
<1> QED
  BY <1>3, <1>4

(***************************************************************************)
(* expr_push_down                                                          *)
(***************************************************************************)
\* What a turn does: the operands a, p, q of the operators e and r, which is
\* the right operand of e.
Turns(e, r, a, p, q) ==
    /\ nodes[e].kids[1] = a /\ nodes[e].kids[2] = r
    /\ nodes[r].kids[1] = p /\ nodes[r].kids[2] = q
    /\ nodes'[e].kids[1] = r /\ nodes'[e].kids[2] = q
    /\ nodes'[r].kids[1] = a /\ nodes'[r].kids[2] = p
    /\ \A g \in Binops \ {e, r} : nodes'[g].kids = nodes[g].kids

\* The slot in which an operand was before the turn.
Before(e, r, g, s) ==
    IF g = e THEN IF s = 1 THEN <<e, 2>> ELSE <<r, 2>>
    ELSE IF g = r THEN IF s = 1 THEN <<e, 1>> ELSE <<r, 1>>
    ELSE <<g, s>>

LEMMA BeforeOnce ==
    ASSUME NEW e \in Binops, NEW r \in Binops, e # r,
           NEW g \in Binops, NEW s \in 1..2, NEW h \in Binops, NEW t \in 1..2,
           Before(e, r, g, s) = Before(e, r, h, t)
    PROVE  g = h /\ s = t
<1>1. (s = 1 \/ s = 2) /\ (t = 1 \/ t = 2)
  OBVIOUS
<1> QED
  BY <1>1 DEF Before

LEMMA TurnedApart ==
    ASSUME TypeOK, Shape, Apart, frames' = frames, Binops' = Binops,
           NEW e \in Binops, NEW r \in Binops, e # r, NEW a, NEW p, NEW q, Turns(e, r, a, p, q)
    PROVE  Apart'
<1>0. ASSUME NEW g \in Binops, NEW s \in 1..2
      PROVE  \E n \in Binops, k \in 1..2 :
               Before(e, r, g, s) = <<n, k>> /\ nodes'[g].kids[s] = nodes[n].kids[k]
  <2>1. s = 1 \/ s = 2
    OBVIOUS
  <2>2. CASE g = e
    BY <2>1, <2>2 DEF Before, Turns
  <2>3. CASE g = r
    BY <2>1, <2>3 DEF Before, Turns
  <2>4. CASE g \notin {e, r}
    BY <2>4 DEF Before, Turns
  <2> QED
    BY <2>2, <2>3, <2>4
<1>1. ASSUME NEW g \in Binops, NEW s \in 1..2, nodes'[g].kids[s] # 0
      PROVE  /\ \A i \in 1..Depth : frames[i].expr # nodes'[g].kids[s]
             /\ \A h \in Binops : \A t \in 1..2 : nodes'[h].kids[t] = nodes'[g].kids[s] => g = h /\ s = t
  <2>1. PICK n \in Binops, k \in 1..2 :
          Before(e, r, g, s) = <<n, k>> /\ nodes'[g].kids[s] = nodes[n].kids[k]
    BY <1>0
  <2>2. nodes[n].kids[k] # 0
    BY <1>1, <2>1
  <2>3. ASSUME NEW h \in Binops, NEW t \in 1..2, nodes'[h].kids[t] = nodes'[g].kids[s]
        PROVE  g = h /\ s = t
    <3>1. PICK m \in Binops, l \in 1..2 :
            Before(e, r, h, t) = <<m, l>> /\ nodes'[h].kids[t] = nodes[m].kids[l]
      BY <1>0
    <3>2. nodes[m].kids[l] = nodes[n].kids[k]
      BY <2>1, <2>3, <3>1
    <3>3. n = m /\ k = l
      BY <2>2, <3>2 DEF Apart
    <3>4. Before(e, r, g, s) = Before(e, r, h, t)
      BY <2>1, <3>1, <3>3
    <3> QED
      BY <3>4, BeforeOnce
  <2> QED
    BY <2>1, <2>2, <2>3 DEF Apart
<1> QED
  BY <1>1 DEF Apart, Depth

\* No operand of e or r is e or r but the one that is turned.
LEMMA OperandsDiffer ==
    ASSUME Shape, Apart, Acyclic, NEW e \in Binops, e = cursor, NEW r \in Binops,
           nodes[e].kids[2] = r
    PROVE  /\ r # e
           /\ nodes[e].kids[1] \notin {e, r}
           /\ nodes[r].kids[1] \notin {e, r} /\ nodes[r].kids[2] \notin {e, r}
<1>1. e # 0 /\ r # 0
  BY DEF Binops
<1>2. PICK above \in SUBSET (1..Len(nodes)) :
        /\ e \in above /\ nodes[e].kids[1] \notin above /\ r \notin above
        /\ \A g \in Binops : \A s \in 1..2 : nodes[g].kids[s] \in above => g \in above
  BY <1>1 DEF Acyclic
<1>3. nodes[r].kids[1] \notin above /\ nodes[r].kids[2] \notin above
  BY <1>2
<1>4. \A g \in Binops : \A s \in 1..2 : nodes[g].kids[s] = r => g = e /\ s = 2
  BY <1>1 DEF Apart
<1> QED
  BY <1>2, <1>3, <1>4

LEMMA TurnedAcyclic ==
    ASSUME Shape, Apart, Acyclic, NEW e \in Binops, e = cursor, NEW r \in Binops, r # e,
           NEW a, NEW p, NEW q, Turns(e, r, a, p, q),
           Binops' = Binops, Len(nodes') = Len(nodes), cursor' = r
    PROVE  Acyclic'
<1>1. e # 0 /\ r # 0 /\ r \in 1..Len(nodes) /\ nodes[e].kids[2] = r
  BY DEF Binops, Turns
<1>2. PICK above \in SUBSET (1..Len(nodes)) :
        /\ e \in above /\ a \notin above /\ r \notin above
        /\ \A g \in Binops : \A s \in 1..2 : nodes[g].kids[s] \in above => g \in above
  BY <1>1 DEF Acyclic, Turns
<1>3. a \notin {e, r} /\ p \notin {e, r}
  BY <1>1, OperandsDiffer DEF Turns
<1>4. p \notin above
  <2>1. nodes[r].kids[1] = p /\ 1 \in 1..2
    BY DEF Turns
  <2> QED
    BY <1>2, <2>1
<1>5. \A g \in Binops : \A s \in 1..2 : nodes[g].kids[s] = r => g = e /\ s = 2
  BY <1>1 DEF Apart
<1>6. PICK up : up = above \cup {r}
  OBVIOUS
<1>7. up \in SUBSET (1..Len(nodes)) /\ r \in up /\ e \in up /\ a \notin up /\ p \notin up
  BY <1>1, <1>2, <1>3, <1>4, <1>6
<1>8. ASSUME NEW g \in Binops, NEW s \in 1..2, nodes'[g].kids[s] \in up PROVE g \in up
  <2>1. CASE g \in {e, r}
    BY <1>7, <2>1
  <2>2. CASE g \notin {e, r}
    <3>1. nodes[g].kids[s] \in up
      BY <1>8, <2>2 DEF Turns
    <3>2. nodes[g].kids[s] # r
      BY <1>5, <2>2
    <3> QED
      BY <1>2, <1>6, <3>1, <3>2
  <2> QED
    BY <2>1, <2>2
<1>9. nodes'[r].kids[1] = a /\ nodes'[r].kids[2] = p
  BY DEF Turns
<1> QED
  BY <1>7, <1>8, <1>9 DEF Acyclic

LEMMA TurnedInOrder ==
    ASSUME TypeOK, Shape, Apart, Acyclic, InOrder,
           NEW e \in Binops, e = cursor, NEW r \in Binops, r # e,
           NEW a, NEW p, NEW q, Turns(e, r, a, p, q),
           Binops' = Binops, cursor' = r, text' = text, failed' = failed,
           \A k : Loose(k)' <=> Loose(k),
           Loose(r), ~(rank(r) > rank(e)),
           rank(e)' = rank(r), rank(r)' = rank(e),
           \A g \in Binops \ {e, r} : rank(g)' = rank(g)
    PROVE  InOrder'
<1>1. SUFFICES ASSUME ~failed, ~CutShort PROVE InOrder'
  BY DEF InOrder, CutShort
<1>2. e # 0 /\ r # 0 /\ nodes[e].kids[2] = r
  BY DEF Binops, Turns
<1>3. \A g \in Binops : rank(g) \in Int
  BY RankType DEF rank
<1>4. rank(e) >= rank(r) /\ rank(e) \in Int /\ rank(r) \in Int
  BY <1>3
<1>5. \A g \in Binops : LeftInOrder(g) /\ (g # e => RightInOrder(g))
  BY <1>1 DEF InOrder
<1>6. \A g \in Binops : \A s \in 1..2 : nodes[g].kids[s] = e => s = 1 /\ rank(r) >= rank(g)
  BY <1>1, <1>2 DEF InOrder
<1>7. \A g \in Binops : \A s \in 1..2 : nodes[g].kids[s] = r => g = e /\ s = 2
  BY <1>2 DEF Apart
<1>8. a \notin {e, r} /\ p \notin {e, r} /\ q \notin {e, r}
  BY <1>2, OperandsDiffer DEF Turns
<1>9. /\ Loose(a) => rank(a) >= rank(e) /\ a \in Binops
      /\ Loose(p) => rank(p) >= rank(r) /\ p \in Binops
      /\ Loose(q) => rank(q) > rank(r) /\ q \in Binops
  BY <1>5 DEF LeftInOrder, RightInOrder, Turns, Loose
<1>10. LeftInOrder(e)' /\ RightInOrder(e)'
  <2>1. nodes'[e].kids[1] = r /\ nodes'[e].kids[2] = q
    BY DEF Turns
  <2>2. rank(r)' >= rank(e)'
    BY <1>4
  <2>3. Loose(q)' => rank(q)' > rank(e)'
    BY <1>8, <1>9
  <2> QED
    BY <2>1, <2>2, <2>3 DEF LeftInOrder, RightInOrder
<1>11. LeftInOrder(r)'
  <2>1. nodes'[r].kids[1] = a
    BY DEF Turns
  <2>2. Loose(a)' => rank(a)' >= rank(r)'
    BY <1>8, <1>9
  <2> QED
    BY <2>1, <2>2 DEF LeftInOrder
<1>12. ASSUME NEW g \in Binops \ {e, r} PROVE LeftInOrder(g)' /\ RightInOrder(g)'
  <2>1. PICK k, l : k = nodes[g].kids[1] /\ l = nodes[g].kids[2]
    OBVIOUS
  <2>2. k = nodes'[g].kids[1] /\ l = nodes'[g].kids[2]
    BY <2>1 DEF Turns
  <2>3. k # r /\ l # r /\ l # e /\ (k = e => rank(r) >= rank(g))
    BY <1>6, <1>7, <2>1
  <2>4. /\ Loose(k) => rank(k) >= rank(g) /\ k \in Binops
        /\ Loose(l) => rank(l) > rank(g) /\ l \in Binops
    BY <1>5, <2>1 DEF LeftInOrder, RightInOrder, Loose
  <2>5. rank(g)' = rank(g)
    OBVIOUS
  <2>6. Loose(k)' => rank(k)' >= rank(g)'
    <3>1. CASE k = e
      BY <2>3, <2>5, <3>1
    <3>2. CASE k # e
      BY <2>3, <2>4, <2>5, <3>2
    <3> QED
      BY <3>1, <3>2
  <2>7. Loose(l)' => rank(l)' > rank(g)'
    BY <2>3, <2>4, <2>5
  <2> QED
    BY <2>2, <2>6, <2>7 DEF LeftInOrder, RightInOrder
<1>13. ASSUME Loose(p)', NEW g \in Binops, NEW s \in 1..2, nodes'[g].kids[s] = r
       PROVE  s = 1 /\ rank(p)' >= rank(g)'
  <2>1. g = e /\ s = 1
    <3>1. s = 1 \/ s = 2
      OBVIOUS
    <3>2. CASE g = e
      BY <1>8, <1>13, <3>1, <3>2 DEF Turns
    <3>3. CASE g = r
      BY <1>8, <1>13, <3>1, <3>3 DEF Turns
    <3>4. CASE g \notin {e, r}
      BY <1>7, <1>13, <3>4 DEF Turns
    <3> QED
      BY <3>2, <3>3, <3>4
  <2>2. rank(p)' = rank(p) /\ rank(p) >= rank(r)
    BY <1>8, <1>9, <1>13
  <2> QED
    BY <2>1, <2>2
<1>14. nodes'[r].kids[2] = p
  BY DEF Turns
<1> QED
  BY <1>10, <1>11, <1>12, <1>13, <1>14 DEF InOrder

LEMMA PushDownKeeps == ASSUME IInv, PushDown PROVE IInv'
<1>1. /\ TypeOK /\ Shape /\ Calls /\ Apart /\ Acyclic /\ InOrder /\ NullOnlyAfterError
      /\ ~crashed /\ cursor # 0
      /\ text' = text /\ given' = given /\ stuck' = stuck /\ frames' = frames /\ failed' = failed
  BY DEF IInv, PushDown
<1>2. PICK e : e = cursor
  OBVIOUS
<1>3. e \in Binops /\ Top.pc = "push"
  BY <1>1, <1>2 DEF Shape
<1>4. PICK r : r = nodes[e].kids[2]
  OBVIOUS
<1>5. /\ e \in 1..Len(nodes) /\ nodes[e] \in Expr /\ nodes[e].kids \in Seq(Nat)
      /\ Len(nodes[e].kids) = 2 /\ r \in Range(nodes[e].kids) /\ r \in 0..Len(nodes)
      /\ Len(nodes) \in Nat
  BY <1>1, <1>3, <1>4, OperandFacts, TopFacts
<1>6. CASE r = 0
  <2>1. crashed' = TRUE /\ nodes' = nodes /\ cursor' = cursor
    BY <1>2, <1>4, <1>6 DEF PushDown
  <2>2. failed
    BY <1>1, <1>5, <1>6 DEF NullOnlyAfterError
  <2>3. TypeOK' /\ Shape' /\ Calls'
    BY <1>1, <2>1 DEF TypeOK, Shape, Calls, Depth, Top, Fits, Waits, Binops, Loose, CutShort,
       StructRead, token
  <2>4. Apart' /\ Acyclic' /\ InOrder' /\ NullOnlyAfterError'
    BY <1>1, <2>1, <2>2 DEF Apart, Acyclic, InOrder, NullOnlyAfterError, Depth, Binops
  <2> QED
    BY <2>3, <2>4 DEF IInv
<1>7. CASE r # 0 /\ Binds(e, r)
  <2>1. crashed' = crashed /\ nodes' = nodes /\ cursor' = 0
    BY <1>2, <1>4, <1>7 DEF PushDown
  <2>2. TypeOK'
    BY <1>1, <1>5, <2>1 DEF TypeOK, Depth
  <2>3. Shape'
    BY <1>1, <2>1 DEF Shape, Binops
  <2>4. Calls'
    BY <1>1, <2>1 DEF Calls, Depth, Fits, Waits, Binops, Loose, CutShort, StructRead, token
  <2>5. Apart' /\ Acyclic' /\ NullOnlyAfterError'
    BY <1>1, <2>1 DEF Apart, Acyclic, NullOnlyAfterError, Depth, Binops
  <2>6. InOrder'
    <3>1. RightInOrder(e)
      BY <1>4, <1>7 DEF RightInOrder, Binds, Loose, Binops, rank
    <3>2. ~failed /\ ~CutShort => \A g \in Binops : LeftInOrder(g) /\ RightInOrder(g)
      BY <1>1, <1>2, <3>1 DEF InOrder
    <3>3. \A g : (LeftInOrder(g)' <=> LeftInOrder(g)) /\ (RightInOrder(g)' <=> RightInOrder(g))
      BY <1>1, <2>1 DEF LeftInOrder, RightInOrder, Loose, Binops, rank
    <3>4. Binops' = Binops /\ (CutShort => CutShort')
      BY <1>1, <2>1 DEF Binops, CutShort
    <3> QED
      BY <1>1, <2>1, <3>2, <3>3, <3>4 DEF InOrder
  <2> QED
    BY <2>2, <2>3, <2>4, <2>5, <2>6 DEF IInv
<1>8. CASE r # 0 /\ ~Binds(e, r)
  <2>1. crashed' = crashed /\ nodes' = Turned(e, r) /\ cursor' = r
    BY <1>2, <1>4, <1>8 DEF PushDown
  <2>2. Loose(r) /\ r \in Binops /\ ~(rank(r) > rank(e))
    BY <1>5, <1>8 DEF Binds, Loose, Binops, rank
  <2>3. r # e
    BY <1>1, <1>2, <1>3, <1>4, <2>2, OperandsDiffer
  <2>4. /\ r \in 1..Len(nodes) /\ nodes[r] \in Expr /\ nodes[r].kids \in Seq(Nat)
        /\ Len(nodes[r].kids) = 2
    BY <1>1, <2>2, OperandFacts
  <2>5. PICK a, p, q : a = nodes[e].kids[1] /\ p = nodes[r].kids[1] /\ q = nodes[r].kids[2]
    OBVIOUS
  <2>6. a \in 0..Len(nodes) /\ p \in 0..Len(nodes) /\ q \in 0..Len(nodes)
    BY <1>1, <1>3, <2>2, <2>5, OperandFacts
  <2>7. PICK x, y : /\ x = [nodes[e] EXCEPT !.at = nodes[r].at, !.kids = <<r, q>>]
                    /\ y = [nodes[r] EXCEPT !.at = nodes[e].at, !.kids = <<a, p>>]
    OBVIOUS
  <2>8. /\ x \in Expr /\ x.type = nodes[e].type /\ x.at = nodes[r].at /\ x.scoped = nodes[e].scoped
        /\ x.kids = <<r, q>>
        /\ y \in Expr /\ y.type = nodes[r].type /\ y.at = nodes[e].at /\ y.scoped = nodes[r].scoped
        /\ y.kids = <<a, p>>
    <3>1. <<r, q>> \in Seq(Nat) /\ <<a, p>> \in Seq(Nat)
      BY <1>5, <2>6
    <3>2. PICK o, i, k, l : o = nodes[e] /\ i = nodes[r] /\ k = <<r, q>> /\ l = <<a, p>>
      OBVIOUS
    <3>3. x \in Expr /\ x.type = o.type /\ x.at = i.at /\ x.scoped = o.scoped /\ x.kids = k
      <4>1. x = [o EXCEPT !.at = i.at, !.kids = k] /\ k \in Seq(Nat) /\ o \in Expr /\ i \in Expr
        BY <1>5, <2>4, <2>7, <3>1, <3>2
      <4> QED
        BY <4>1 DEF Expr
    <3>4. y \in Expr /\ y.type = i.type /\ y.at = o.at /\ y.scoped = i.scoped /\ y.kids = l
      <4>1. y = [i EXCEPT !.at = o.at, !.kids = l] /\ l \in Seq(Nat) /\ o \in Expr /\ i \in Expr
        BY <1>5, <2>4, <2>7, <3>1, <3>2
      <4> QED
        BY <4>1 DEF Expr
    <3> QED
      BY <3>2, <3>3, <3>4
  <2>9. /\ nodes' \in Seq(Expr) /\ Len(nodes') = Len(nodes)
        /\ nodes'[e] = x /\ nodes'[r] = y
        /\ \A k \in 1..Len(nodes) : k \notin {e, r} => nodes'[k] = nodes[k]
    <3>1. PICK turn : turn = [nodes EXCEPT ![e] = x]
      OBVIOUS
    <3>2. nodes \in Seq(Expr)
      BY <1>1 DEF TypeOK
    <3>3. /\ turn \in Seq(Expr) /\ Len(turn) = Len(nodes)
          /\ \A j \in 1..Len(nodes) : turn[j] = IF j = e THEN x ELSE nodes[j]
      BY <1>5, <2>8, <3>1, <3>2, ExceptSeq
    <3>4. nodes' = [turn EXCEPT ![r] = y]
      BY <1>4, <2>1, <2>3, <2>4, <2>5, <2>7, <3>1, <3>2 DEF Turned
    <3>5. /\ nodes' \in Seq(Expr) /\ Len(nodes') = Len(turn)
          /\ \A j \in 1..Len(turn) : nodes'[j] = IF j = r THEN y ELSE turn[j]
      BY <2>4, <2>8, <3>3, <3>4, ExceptSeq
    <3> QED
      BY <1>5, <2>3, <2>4, <3>3, <3>5
  <2>10. \A k \in 1..Len(nodes) :
            nodes'[k].type = nodes[k].type /\ nodes'[k].scoped = nodes[k].scoped
    BY <2>8, <2>9
  <2>11. Binops' = Binops /\ \A k : Loose(k)' <=> Loose(k)
    BY <2>9, <2>10 DEF Binops, Loose
  <2>12. Turns(e, r, a, p, q)
    BY <1>4, <2>5, <2>8, <2>9 DEF Turns, Binops
  <2>13. /\ rank(e)' = rank(r) /\ rank(r)' = rank(e)
         /\ \A g \in Binops \ {e, r} : rank(g)' = rank(g)
    BY <1>1, <2>8, <2>9 DEF rank, Binops
  <2>14. TypeOK'
    BY <1>1, <2>1, <2>4, <2>9 DEF TypeOK, Depth
  <2>15. \A k \in 1..Len(nodes) : \A n \in Range(nodes'[k].kids) :
            (k \in {e, r} /\ n \in {r, q, a, p}) \/ (k \notin {e, r} /\ n \in Range(nodes[k].kids))
    <3>1. Range(x.kids) = {r, q} /\ Range(y.kids) = {a, p}
      BY <2>8 DEF Range
    <3> QED
      BY <2>9, <3>1
  <2>16. Shape'
    <3>1. \A k \in 1..Len(nodes') : \A n \in Range(nodes'[k].kids) : n <= Len(nodes')
      BY <1>1, <1>5, <2>6, <2>9, <2>15 DEF Shape
    <3>2. \A g \in Binops : g \in 1..Len(nodes) /\ Len(nodes[g].kids) = 2 /\ nodes[g].at \in 1..Len(text)
      BY <1>1 DEF Shape, Binops
    <3>3. Len(x.kids) = 2 /\ Len(y.kids) = 2
      BY <2>8
    <3>4. \A g \in Binops' : Len(nodes'[g].kids) = 2 /\ nodes'[g].at \in 1..Len(text')
      BY <1>1, <1>3, <2>2, <2>8, <2>9, <2>11, <3>2, <3>3
    <3>5. /\ given' => text' # <<>>
          /\ stuck' => failed' /\ text' # <<>>
          /\ frames'[Len(frames')].pc = "push"
      BY <1>1, <1>3 DEF Shape, Top, Depth
    <3> QED
      BY <2>1, <2>2, <2>11, <3>1, <3>4, <3>5 DEF Shape, Top, Depth
  <2>17. Calls'
    <3>1. token' = token /\ (StructRead' <=> StructRead) /\ (CutShort' <=> CutShort)
      BY <1>1 DEF token, StructRead, CutShort
    <3>2. \A f : Fits(f) => Fits(f)'
      BY <1>1, <2>9, <2>11, <3>1 DEF Fits
    <3>3. \A c, f : Waits(c, f) => Waits(c, f)'
      BY <1>1 DEF Waits
    <3> QED
      BY <1>1, <3>2, <3>3 DEF Calls, Depth
  <2>18. Apart'
    BY <1>1, <1>3, <2>2, <2>3, <2>11, <2>12, TurnedApart
  <2>19. Acyclic'
    BY <1>1, <1>2, <1>3, <2>1, <2>2, <2>3, <2>9, <2>11, <2>12, TurnedAcyclic
  <2>20. InOrder'
    BY <1>1, <1>2, <1>3, <2>1, <2>2, <2>3, <2>11, <2>12, <2>13, TurnedInOrder
  <2>21. NullOnlyAfterError'
    <3>1. ~failed => {r, q, a, p} \cap {0} = {}
      <4>1. a \in Range(nodes[e].kids) /\ p \in Range(nodes[r].kids) /\ q \in Range(nodes[r].kids)
        BY <1>1, <1>3, <2>2, <2>5, OperandFacts
      <4> QED
        BY <1>1, <1>5, <1>8, <2>4, <4>1 DEF NullOnlyAfterError
    <3>2. ~failed => \A k \in 1..Len(nodes) : 0 \notin Range(nodes'[k].kids)
      BY <1>1, <2>15, <3>1 DEF NullOnlyAfterError
    <3> QED
      BY <1>1, <2>1, <2>9, <3>2 DEF NullOnlyAfterError, Depth
  <2> QED
    BY <2>14, <2>16, <2>17, <2>18, <2>19, <2>20, <2>21 DEF IInv
<1> QED
  BY <1>6, <1>7, <1>8

(***************************************************************************)
(* The theorems                                                            *)
(***************************************************************************)
LEMMA InitInvariant == ASSUME Init PROVE IInv
<1>1. PICK f, none : f = NewFrame(TopStop, TRUE, "top", 0, none) /\ none = <<>>
  OBVIOUS
<1>2. /\ text = <<>> /\ given = FALSE /\ stuck = FALSE /\ nodes = <<>> /\ cursor = 0
      /\ frames = <<f>> /\ failed = FALSE /\ crashed = FALSE
  BY <1>1 DEF Init
<1>3. none \in Seq(Nat) /\ Range(none) = {} /\ text \in Seq(Tokens) /\ nodes \in Seq(Expr)
      /\ Len(text) = 0 /\ Len(nodes) = 0
  BY <1>1, <1>2, EmptyFacts
<1>4. /\ f \in Frame /\ f.first = TRUE /\ f.expr = 0 /\ f.pc = "main" /\ f.use = "top"
      /\ f.at = 0 /\ f.args = none
  <2>1. TopStop \in SUBSET Tokens
    BY DEF Tokens
  <2> QED
    BY <1>1, <1>3, <2>1 DEF NewFrame, Frame, Uses
<1>5. frames \in Seq(Frame) /\ Depth = 1 /\ frames[1] = f /\ Top = f /\ frames # <<>>
  BY <1>2, <1>4 DEF Depth, Top
<1>6. Binops = {}
  BY <1>3 DEF Binops
<1>7. TypeOK
  <2>1. \A i \in 1..Depth : i = 1
    BY <1>5
  <2>2. \A i \in 1..Depth : frames[i].expr <= Len(nodes)
    BY <1>3, <1>4, <1>5, <2>1
  <2>3. cursor \in 0..Len(nodes)
    BY <1>2, <1>3
  <2>4. given \in BOOLEAN /\ stuck \in BOOLEAN /\ failed \in BOOLEAN /\ crashed \in BOOLEAN
    BY <1>2
  <2> QED
    BY <1>3, <1>5, <2>2, <2>3, <2>4 DEF TypeOK
<1>8. Shape /\ Apart /\ Acyclic /\ InOrder
  BY <1>2, <1>3, <1>5, <1>6 DEF Shape, Apart, Acyclic, InOrder
<1>9. Fits(f)
  <2>1. ~Loose(0)
    BY DEF Loose, Binops
  <2> QED
    BY <1>3, <1>4, <2>1 DEF Fits
<1>10. Calls
  <2>1. \A i \in 1..Depth : i = 1
    BY <1>5
  <2>2. 1..Depth - 1 = {}
    BY <1>5
  <2> QED
    BY <1>5, <1>9, <2>1, <2>2 DEF Calls
<1>11. NullOnlyAfterError
  BY <1>2, <1>3, <1>4, <1>5 DEF NullOnlyAfterError
<1> QED
  BY <1>7, <1>8, <1>10, <1>11 DEF IInv

\* A rejected literal is an error, and nothing has been done with it yet.
LEMMA SticksKeeps == ASSUME IInv, NEW t \in Tokens, Sticks(t) PROVE IInv'
<1>1. TypeOK /\ Shape /\ Calls /\ Running
  BY DEF IInv, Sticks, ReadDue, Answered
<1>2. /\ text' = Append(text, t) /\ stuck' = TRUE /\ failed' = TRUE /\ given' = given
      /\ nodes' = nodes /\ frames' = frames /\ cursor' = cursor /\ crashed' = crashed
  BY DEF Sticks
<1>3. TextGrows /\ text' # <<>> /\ NodesGrow
  <2>1. text \in Seq(Tokens) /\ Len(text) \in Nat
    BY <1>1, LenProperties DEF TypeOK
  <2>2. /\ text' \in Seq(Tokens) /\ Len(text') = Len(text) + 1 /\ text' # <<>>
        /\ \A i \in 1..Len(text) : text'[i] = text[i]
    BY <1>2, <2>1, AppendFacts
  <2> QED
    BY <1>2, <2>1, <2>2 DEF TextGrows, NodesGrow
<1>4. /\ Depth \in Nat \ {0} /\ frames \in Seq(Frame) /\ Top \in Frame /\ Fits(Top)
      /\ Len(text) \in Nat /\ Len(frames) = Depth /\ frames[Depth] = Top
  BY <1>1, TopFacts DEF Depth, Top
<1>5. Become(Depth, Top)
  BY <1>2, <1>4 DEF Become
<1>6. PICK f : f = Top
  OBVIOUS
<1>7. Fits(f)'
  <2>1. f.at \in Nat /\ Len(text') \in Nat /\ Len(text) <= Len(text')
    BY <1>3, <1>4, <1>6, FieldTypes, LenProperties DEF TextGrows
  <2> QED
    BY <1>2, <1>4, <1>6, <2>1 DEF Fits
<1>8. Awaited(Depth, f)
  <2> SUFFICES ASSUME Depth > 1, NEW c, c = frames[Depth - 1] PROVE Waits(c, f)'
    BY DEF Awaited
  <2>1. Waits(c, f)
    BY <1>1, <1>6, CallerFacts
  <2> QED
    BY <1>2, <2>1 DEF Waits
<1>9. given' \in BOOLEAN
  BY <1>1, <1>2 DEF TypeOK
<1>10. Depth \in Depth..Depth /\ Depth # Depth + 1
  BY <1>4
<1> QED
  BY <1>1, <1>2, <1>3, <1>4, <1>5, <1>6, <1>7, <1>8, <1>9, <1>10, ParseStep

LEMMA StepKeeps == ASSUME IInv, [Next]_vars PROVE IInv'
<1>1. ASSUME NEW t \in NextTokens, Step(t) PROVE IInv'
  BY <1>1, StopKeeps, OperandKeeps, PostfixKeeps, NestedKeeps, MainKeeps, ArgsKeeps,
     LeaveAsKeeps, SuffixKeeps, NoSuffixKeeps, CloseKeeps, NextArgKeeps, NextElemKeeps DEF Step
<1>2. CASE UNCHANGED vars
  <2>1. /\ text' = text /\ given' = given /\ stuck' = stuck /\ nodes' = nodes /\ frames' = frames
        /\ cursor' = cursor /\ failed' = failed /\ crashed' = crashed
    BY <1>2 DEF vars
  <2>2. TypeOK /\ Shape /\ Calls /\ Apart /\ Acyclic /\ InOrder /\ NullOnlyAfterError
    BY DEF IInv
  <2>3. TypeOK' /\ Shape' /\ Calls'
    BY <2>1, <2>2 DEF TypeOK, Shape, Calls, Depth, Top, Fits, Waits, Binops, Loose, CutShort,
       StructRead, token
  <2>4. Apart' /\ Acyclic' /\ NullOnlyAfterError'
    BY <2>1, <2>2 DEF Apart, Acyclic, NullOnlyAfterError, Depth, Binops
  <2>5. InOrder'
    BY <2>1, <2>2 DEF InOrder, LeftInOrder, RightInOrder, rank, Loose, Binops, CutShort
  <2> QED
    BY <2>3, <2>4, <2>5 DEF IInv
<1> QED
  BY <1>1, <1>2, NoOperandKeeps, MakeBinopKeeps, PushDownKeeps, AfterBinopKeeps,
     MakePrefixKeeps, MarkGroupKeeps, MakeIdxKeeps, SticksKeeps DEF Next

(* What the calls, the expressions and expr_push_down keep to at every     *)
(* step, whatever the text and its length.                                 *)
THEOREM ExprInvariant == Spec => []IInv
<1>1. Init => IInv
  BY InitInvariant
<1>2. IInv /\ [Next]_vars => IInv'
  BY StepKeeps
<1> QED
  BY <1>1, <1>2, PTL DEF Spec

(* NULL is dereferenced by expr_push_down and by the case of a group only  *)
(* after an error was reported, and no expression that was not refused has *)
(* a NULL in it.                                                           *)
THEOREM NullIsReported == Spec => []NullOnlyAfterError
<1>1. IInv => NullOnlyAfterError
  BY DEF IInv
<1> QED
  BY <1>1, ExprInvariant, PTL

(* expr_push_down leaves the operators of an accepted expression of any    *)
(* length and depth in the order of their priorities, equal ones leaning   *)
(* to the left.                                                            *)
THEOREM PushDownOrders == Spec => []PrioritiesHold
<1>1. IInv => PrioritiesHold
  <2> SUFFICES ASSUME IInv, Accepted, ~CutShort, NEW e \in 1..Len(nodes), nodes[e].type = "binop"
               PROVE  /\ Loose(nodes[e].kids[1]) => rank(nodes[e].kids[1]) >= rank(e)
                      /\ Loose(nodes[e].kids[2]) => rank(nodes[e].kids[2]) > rank(e)
                      /\ nodes[e].kids[1] \in 1..Len(nodes) /\ nodes[e].kids[2] \in 1..Len(nodes)
    BY DEF PrioritiesHold, Loose, Binops, rank
  <2>1. TypeOK /\ Shape /\ InOrder /\ NullOnlyAfterError /\ ~failed /\ Top.pc = "done"
    BY DEF IInv, Accepted, Done
  <2>2. cursor = 0 /\ e # cursor /\ e \in Binops
    BY <2>1 DEF Shape, Binops
  <2>3. LeftInOrder(e) /\ RightInOrder(e)
    BY <2>1, <2>2 DEF InOrder
  <2>4. \A s \in 1..2 : nodes[e].kids[s] \in 1..Len(nodes)
    <3>1. \A s \in 1..2 : nodes[e].kids[s] \in 0..Len(nodes) /\ nodes[e].kids[s] # 0
      BY <2>1, <2>2, OperandFacts DEF NullOnlyAfterError
    <3> QED
      BY <3>1
  <2> QED
    BY <2>3, <2>4 DEF LeftInOrder, RightInOrder
<1> QED
  BY <1>1, ExprInvariant, PTL
=============================================================================
