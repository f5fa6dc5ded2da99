---------------------------- MODULE HobEmitProofs ----------------------------
(***************************************************************************)
(* Proof that every basic block of an accepted, disciplined program gets   *)
(* one terminator, at its end, for any program, names and bounds.          *)
(*                                                                         *)
(* First, what the analysis leaves behind leads the emitter to bodies only,*)
(* and functions end as they must.  Then the emitter: each of its steps    *)
(* keeps the ledger of the blocks that have no terminator yet.  A step     *)
(* replaces the first item of `work` by others (OpenStep) or ends it       *)
(* (EndStep), and writes to blocks that are its own (Turns).               *)
(***************************************************************************)
EXTENDS HobEmit, HobBodiesProofs

(***************************************************************************)
(* The annotations that the emitter follows                                *)
(***************************************************************************)
LEMMA SeqsGrow ==
    ASSUME NEW Vals, NEW T, Vals \subseteq T
    PROVE  Seq(Vals) \subseteq Seq(T) /\ Seq(Seq(Vals)) \subseteq Seq(Seq(T))
<1>1. \A A, B : A \subseteq B => Seq(A) \subseteq Seq(B)
  <2> SUFFICES ASSUME NEW A, NEW B, A \subseteq B, NEW s \in Seq(A) PROVE s \in Seq(B)
    OBVIOUS
  <2>1. s \in [1..Len(s) -> A] /\ Len(s) \in Nat
    BY LenProperties
  <2>2. s \in [1..Len(s) -> B]
    BY <2>1
  <2> QED
    BY <2>1, <2>2, SeqDef
<1> QED
  BY <1>1, Zenon

LEMMA LinksGrow ==
    ASSUME NEW tr \in Seq(Header), NEW h \in Header
    PROVE  /\ DefersIn(tr) \subseteq DefersIn(Append(tr, h))
           /\ Linked(tr) \subseteq Linked(Append(tr, h))
<1> DEFINE tr2 == Append(tr, h)
<1>1. Len(tr) \in Nat /\ Len(tr2) = Len(tr) + 1 /\ \A b \in 1..Len(tr) : tr2[b] = tr[b]
  BY AppendFacts, LenProperties
<1> HIDE DEF tr2
<1>2. 1..Len(tr) \subseteq 1..Len(tr2)
  BY <1>1
<1>3. DefersIn(tr) \subseteq DefersIn(tr2)
  BY <1>1, <1>2 DEF DefersIn
<1>4. Seq(DefersIn(tr)) \subseteq Seq(DefersIn(tr2))
  BY <1>3, SeqsGrow
<1>5. Seq([body : 1..Len(tr), binds : Decl]) \subseteq Seq([body : 1..Len(tr2), binds : Decl])
  <2> DEFINE A == [body : 1..Len(tr), binds : Decl]
             B == [body : 1..Len(tr2), binds : Decl]
  <2>1. A \subseteq B
    BY <1>2
  <2> HIDE DEF A, B
  <2>2. Seq(A) \subseteq Seq(B)
    BY ONLY <2>1, SeqsGrow
  <2> QED
    BY <2>2 DEF A, B
<1>6. ASSUME NEW s \in Linked(tr) PROVE s \in Linked(tr2)
  <2>1. s \in Stmt
    BY DEF Linked
  <2>2. s.kind = "anon" => s.body \in 1..Len(tr2) /\ tr2[s.body].owner = "anon"
    BY <1>1, <1>2 DEF Linked
  <2>3. s.kind = "while" => s.loop.body \in 1..Len(tr2)
    BY <1>2 DEF Linked
  <2>4. s.kind = "if" => s.branches \in Seq([body : 1..Len(tr2), binds : Decl]) /\ s.branches # <<>>
    BY <1>5 DEF Linked
  <2>5. s.kind \in Exits => s.defers \in Seq(DefersIn(tr2))
    BY <1>4 DEF Linked
  <2> QED
    BY <2>1, <2>2, <2>3, <2>4, <2>5 DEF Linked
<1> QED
  BY <1>3, <1>6 DEF tr2

LEMMA PutInSeq ==
    ASSUME NEW R, NEW t \in Seq(Seq(R)), NEW c \in 1..Len(t), NEW e \in R
    PROVE  [t EXCEPT ![c] = Append(@, e)] \in Seq(Seq(R))
<1>1. t[c] \in Seq(R)
  BY ElementOfSeq
<1>2. Append(t[c], e) \in Seq(R)
  BY <1>1, AppendFacts
<1> QED
  BY <1>2, ExceptSeq

\* Statements without a reference.
LEMMA PlainLinked ==
    ASSUME NEW tr, NEW s \in Stmt, s.kind \notin {"anon", "while", "if"} \cup Exits
    PROVE  s \in Linked(tr)
BY DEF Linked

LEMMA BranchLinked ==
    ASSUME NEW n \in Nat, text \in Seq(Seq(Stmt)), Cur \in 1..Len(text), IsLastIf,
           NEW tr, Len(tr) = n, text \in Seq(Seq(Linked(tr))),
           NEW b \in 1..n, NEW d \in Decl, NEW c \in BOOLEAN
    PROVE  ReadBranch(b, d, c) \in Seq(Seq(Linked(tr)))
<1> DEFINE stmts == text[Cur]
           m == Len(stmts)
           s == stmts[m]
           x == [body |-> b, binds |-> d]
           s2 == WithBranch(s, b, d, c)
<1>1. stmts \in Seq(Linked(tr)) /\ stmts # <<>>
  BY ElementOfSeq DEF IsLastIf
<1>2. m \in 1..m /\ s \in Linked(tr) /\ s.kind = "if"
  <2>1. m \in Nat \ {0}
    BY <1>1, EmptySeq
  <2>2. m \in 1..m
    BY ONLY <2>1
  <2> QED
    BY <1>1, <2>2, ElementOfSeq DEF IsLastIf, Last
<1> HIDE DEF m
<1>3. s \in IfStmt /\ s.branches \in Seq([body : 1..n, binds : Decl])
  BY <1>2, IfTypes DEF Linked
<1> HIDE DEF s
<1>4. s2 \in Stmt /\ s2.kind = "if" /\ s2.branches = Append(s.branches, x)
  <2>1. s2 \in Stmt
    BY <1>3, IfTypes
  <2>2. s2.kind = "if" /\ s2.branches = Append(s.branches, x)
    BY <1>3 DEF WithBranch, IfStmt
  <2> QED
    BY <2>1, <2>2
<1>5. s2.branches \in Seq([body : 1..n, binds : Decl]) /\ s2.branches # <<>>
  <2>1. x \in [body : 1..n, binds : Decl]
    OBVIOUS
  <2> HIDE DEF x
  <2>2. Append(s.branches, x) \in Seq([body : 1..n, binds : Decl]) /\ Append(s.branches, x) # <<>>
    <3> DEFINE bs == s.branches
               B == [body : 1..n, binds : Decl]
    <3>1. bs \in Seq(B) /\ x \in B
      BY <1>3, <2>1
    <3> HIDE DEF bs, B
    <3>2. Append(bs, x) \in Seq(B) /\ Append(bs, x) # <<>>
      BY ONLY <3>1, AppendProperties
    <3> QED
      BY <3>2 DEF bs, B
  <2> HIDE DEF s2
  <2> QED
    BY <1>4, <2>2
<1>6. s2 \in Linked(tr)
  BY <1>4, <1>5 DEF Linked, Exits
<1>7. ReadBranch(b, d, c) = [text EXCEPT ![Cur] = [stmts EXCEPT ![m] = s2]]
  BY DEF ReadBranch, m, s
<1> HIDE DEF s2
<1>8. [stmts EXCEPT ![m] = s2] \in Seq(Linked(tr))
  BY <1>1, <1>2, <1>6, ExceptSeq DEF m
<1> QED
  BY <1>7, <1>8, ExceptSeq

(***************************************************************************)
(* The analysis keeps them                                                 *)
(***************************************************************************)
LinkedTo(read) == read \in Seq(Seq(Stmt)) /\ Len(read) = Len(text) /\ read \in Seq(Seq(Linked(tree')))

LEMMA AnnotFacts ==
    ASSUME IInv, Annotated, ~failed
    PROVE  /\ defers \in Seq(Seq(DefersIn(tree))) /\ walk.result \in Seq(DefersIn(tree))
           /\ text \in Seq(Seq(Linked(tree))) /\ text \in Seq(Seq(Stmt)) /\ tree \in Seq(Header)
           /\ Len(text) = Len(tree) /\ Len(defers) = Len(tree) /\ Len(tree) \in Nat
           /\ \A b \in 1..Len(tree) : tree[b].owner \in {"func", "anon"} \/ tree[b].parent \in 1..b - 1
BY LenProperties DEF Annotated, IInv, TypeOK, CallsInv

\* A statement is read, and nothing opened.
LEMMA ReadKeeps ==
    ASSUME IInv, Annotated, ~failed, calls # <<>>,
           NEW s \in Stmt, s \in Linked(tree), text' = Read(s), UNCHANGED <<tree, defers>>,
           walk' = walk \/ walk' = Idle
    PROVE  Annotated'
<1>1. Cur \in 1..Len(text)
  BY ReadType
<1>2. text' \in Seq(Seq(Linked(tree)))
  BY <1>1, AnnotFacts, PutInSeq DEF Read
<1>3. walk'.result \in Seq(DefersIn(tree))
  <2>1. walk.result \in Seq(DefersIn(tree))
    BY AnnotFacts
  <2>2. Idle.result \in Seq(DefersIn(tree))
    BY EmptySeq DEF Idle
  <2> QED
    BY <2>1, <2>2
<1> QED
  BY <1>2, <1>3, AnnotFacts DEF Annotated

\* A body opens.
LEMMA OpenKeeps ==
    ASSUME IInv, Annotated, ~failed, NEW st, NEW owner \in Owners, NEW args, NEW read,
           OpenBody(read, st, owner, args), HeaderOf(st, owner, args) \in Header,
           read \in Seq(Seq(Linked(Append(tree, HeaderOf(st, owner, args))))),
           owner \in {"func", "anon"} \/ CurrentBody(st) \in 1..Len(tree),
           walk' = walk
    PROVE  Annotated'
<1> DEFINE h == HeaderOf(st, owner, args)
           tr == Append(tree, h)
<1>1. tree' = tr /\ text' = Append(read, <<>>) /\ defers' = Append(defers, <<>>)
  BY DEF OpenBody, HeaderOf
<1>2. h.owner = owner /\ h.parent = CurrentBody(st)
  BY DEF HeaderOf
<1> HIDE DEF h
<1>3. tree \in Seq(Header) /\ h \in Header /\ Len(tree) \in Nat
  BY AnnotFacts DEF h
<1>4. Len(tr) = Len(tree) + 1 /\ tr[Len(tree) + 1] = h /\ \A b \in 1..Len(tree) : tr[b] = tree[b]
  BY <1>3, AppendFacts
<1> HIDE DEF tr
<1>5. DefersIn(tree) \subseteq DefersIn(tr) /\ Linked(tree) \subseteq Linked(tr)
  BY <1>3, LinksGrow DEF tr
<1>6. defers \in Seq(Seq(DefersIn(tr))) /\ walk.result \in Seq(DefersIn(tr))
  BY <1>5, AnnotFacts, SeqsGrow
<1>7. read \in Seq(Seq(Linked(tr)))
  BY DEF tr, h
<1>8. defers' \in Seq(Seq(DefersIn(tr)))
  <2>1. <<>> \in Seq(DefersIn(tr))
    BY EmptySeq
  <2> QED
    BY <1>1, <1>6, <2>1, AppendFacts
<1>9. text' \in Seq(Seq(Linked(tr)))
  <2>1. <<>> \in Seq(Linked(tr))
    BY EmptySeq
  <2> QED
    BY <1>1, <1>7, <2>1, AppendFacts
<1>10. ASSUME NEW b \in 1..Len(tr)
       PROVE  tr[b].owner \in {"func", "anon"} \/ tr[b].parent \in 1..b - 1
  <2>1. CASE b = Len(tree) + 1
    <3>1. tr[b] = h /\ b - 1 = Len(tree)
      BY <1>3, <1>4, <2>1
    <3> QED
      BY <1>2, <3>1
  <2>2. CASE b # Len(tree) + 1
    <3>1. b \in 1..Len(tree)
      BY <1>3, <1>4, <2>2
    <3> QED
      BY <1>4, <3>1, AnnotFacts
  <2> QED
    BY <2>1, <2>2
<1> QED
  BY <1>1, <1>6, <1>8, <1>9, <1>10 DEF Annotated

\* The body of a statement opens in the one that is being read.
LEMMA EnterKeeps ==
    ASSUME IInv, Annotated, ~failed, calls # <<>>, NEW read \in Seq(Seq(Stmt)), NEW st \in Stack,
           Len(read) = Len(text), Len(st.scopes) = Len(ss.scopes),
           \A k \in 1..Len(ss.scopes) : st.scopes[k].body = ss.scopes[k].body,
           NEW owner \in Owners, OpenBody(read, st, owner, <<>>), walk' = walk,
           \A h \in Header : h.owner = owner => read \in Seq(Seq(Linked(Append(tree, h))))
    PROVE  Annotated'
<1>1. ss \in Stack /\ ss.scopes # <<>> /\ CurrentBody(ss) = Cur /\ Cur \in 1..Len(tree)
  BY AtBody
<1>2. /\ CurrentBody(ss) = ss.scopes[Len(ss.scopes)].body /\ Len(ss.scopes) \in Nat \ {0}
  BY <1>1, LastScope
<1>3. st.scopes # <<>>
  <2>1. st.scopes = <<>> => Len(st.scopes) = 0
    BY EmptySeq
  <2> QED
    BY <1>2, <2>1
<1>4. CurrentBody(st) = st.scopes[Len(st.scopes)].body
  BY <1>3, LastScope
<1>5. CurrentBody(st) = Cur
  <2>1. Len(ss.scopes) \in 1..Len(ss.scopes)
    BY <1>2
  <2> QED
    BY <1>1, <1>2, <1>4, <2>1
<1>6. HeaderOf(st, owner, <<>>) \in Header
  <2>1. <<>> \in Seq(DeclNames)
    BY EmptySeq
  <2> QED
    BY <1>3, <2>1, OpenBodyFacts
<1>7. HeaderOf(st, owner, <<>>).owner = owner
  BY DEF HeaderOf
<1> QED
  BY <1>1, <1>5, <1>6, <1>7, OpenKeeps

\* A statement that refers to the body that it opens.
LEMMA ReadLinked ==
    ASSUME IInv, Annotated, ~failed, calls # <<>>, NEW h \in Header,
           NEW s \in Stmt, s \in Linked(Append(tree, h))
    PROVE  Read(s) \in Seq(Seq(Linked(Append(tree, h))))
<1>1. tree \in Seq(Header) /\ text \in Seq(Seq(Linked(tree)))
  BY AnnotFacts
<1>2. text \in Seq(Seq(Linked(Append(tree, h))))
  BY <1>1, LinksGrow, SeqsGrow
<1>3. Cur \in 1..Len(text)
  BY ReadType
<1> QED
  BY <1>2, <1>3, PutInSeq DEF Read

LEMMA FreshBody ==
    ASSUME IInv, NEW h \in Header
    PROVE  /\ Fresh \in 1..Len(Append(tree, h)) /\ Append(tree, h)[Fresh] = h
           /\ Len(Append(tree, h)) \in Nat
<1>1. tree \in Seq(Header) /\ Len(tree) \in Nat
  BY LenProperties DEF IInv, TypeOK
<1>2. Len(Append(tree, h)) = Len(tree) + 1 /\ Append(tree, h)[Len(tree) + 1] = h
  BY <1>1, AppendFacts
<1> QED
  BY <1>1, <1>2 DEF Fresh

LEMMA BeginWhileKeeps ==
    ASSUME IInv, Annotated, ~failed, NEW n \in Labels, NEW x \in Binds, NEW ok \in BOOLEAN,
           BeginWhile(n, x, ok)
    PROVE  Annotated'
<1> DEFINE loop == [name |-> n, body |-> Fresh]
           s == [kind |-> "while", loop |-> loop, binds |-> Bind(x)]
           b == Bound(x)
           st == IF Redefines(b, n) THEN b ELSE [b EXCEPT !.loops = Append(@, loop)]
<1>1. Reading /\ calls # <<>>
  BY DEF BeginWhile, Reads, Reading
<1>2. /\ Bind(x) \in Decl /\ b \in Stack /\ Len(b.scopes) = Len(ss.scopes)
      /\ \A k \in 1..Len(ss.scopes) : b.scopes[k].body = ss.scopes[k].body
  BY <1>1, BoundFacts DEF Binds
<1>3. loop \in Loop /\ loop.body = Fresh
  BY <1>1, AtBody DEF Loop, Labels
<1>4. /\ OpenBody(Read(s), st, "while", <<>>) /\ walk' = walk
      /\ failed' = (failed \/ ~ok \/ Redefines(b, n))
  BY DEF BeginWhile
<1> HIDE DEF b, loop
<1>5. s \in Stmt /\ s.kind = "while" /\ s.loop = loop
  BY <1>2, <1>3, StmtTypes
<1> HIDE DEF s
<1>6. Read(s) \in Seq(Seq(Stmt)) /\ Len(Read(s)) = Len(text)
  BY <1>1, <1>5, ReadType
<1>7. ASSUME NEW h \in Header PROVE Read(s) \in Seq(Seq(Linked(Append(tree, h))))
  <2>1. s.loop.body \in 1..Len(Append(tree, h))
    BY <1>3, <1>5, FreshBody
  <2>2. s \in Linked(Append(tree, h))
    BY <1>5, <2>1 DEF Linked, Exits
  <2> QED
    BY <1>1, <1>5, <2>2, ReadLinked
<1>8. "while" \in Owners
  BY DEF Owners
<1>9. CASE Redefines(b, n)
  BY <1>4, <1>9 DEF Annotated
<1>10. CASE ~Redefines(b, n)
  <2> DEFINE loops == Append(b.loops, loop)
  <2>1. loops \in Seq(Loop)
    BY <1>2, <1>3, AppendFacts DEF Stack
  <2>2. st = [b EXCEPT !.loops = loops]
    BY <1>10
  <2> HIDE DEF st, loops
  <2>3. st \in Stack /\ st.scopes = b.scopes
    BY <1>2, <2>1, <2>2 DEF Stack
  <2> QED
    BY <1>1, <1>2, <1>4, <1>6, <1>7, <1>8, <2>3, EnterKeeps
<1> QED
  BY <1>9, <1>10

LEMMA BeginIfKeeps ==
    ASSUME IInv, Annotated, ~failed, NEW x \in Binds, NEW ok \in BOOLEAN, BeginIf(x, ok)
    PROVE  Annotated'
<1> DEFINE br == [body |-> Fresh, binds |-> Bind(x)]
           s == [kind |-> "if", closed |-> FALSE, branches |-> <<br>>]
<1>1. Reading /\ calls # <<>>
  BY DEF BeginIf, Reads, Reading
<1>2. /\ Bind(x) \in Decl /\ Bound(x) \in Stack /\ Len(Bound(x).scopes) = Len(ss.scopes)
      /\ \A k \in 1..Len(ss.scopes) : Bound(x).scopes[k].body = ss.scopes[k].body
  BY <1>1, BoundFacts DEF Binds
<1>3. s \in Stmt /\ s.kind = "if" /\ s.branches = <<br>>
  BY <1>1, <1>2, AtBody, IfTypes
<1>4. OpenBody(Read(s), Bound(x), "if", <<>>) /\ walk' = walk
  BY DEF BeginIf
<1> HIDE DEF s
<1>5. Read(s) \in Seq(Seq(Stmt)) /\ Len(Read(s)) = Len(text)
  BY <1>1, <1>3, ReadType
<1>6. ASSUME NEW h \in Header PROVE Read(s) \in Seq(Seq(Linked(Append(tree, h))))
  <2>1. br \in [body : 1..Len(Append(tree, h)), binds : Decl]
    BY <1>2, FreshBody
  <2> HIDE DEF br
  <2>2. \A Vals : \A e \in Vals : <<e>> \in Seq(Vals)
    OBVIOUS
  <2>3. <<br>> \in Seq([body : 1..Len(Append(tree, h)), binds : Decl]) /\ <<br>> # <<>>
    BY <2>1, <2>2
  <2>4. s \in Linked(Append(tree, h))
    BY <1>3, <2>3 DEF Linked, Exits
  <2> QED
    BY <1>1, <1>3, <2>4, ReadLinked
<1>7. "if" \in Owners
  BY DEF Owners
<1> QED
  BY <1>1, <1>2, <1>4, <1>5, <1>6, <1>7, EnterKeeps

\* Another branch of the last statement, with a condition or without one.
LEMMA BranchKeeps ==
    ASSUME IInv, Annotated, ~failed, Reading, IsLastIf, NEW d \in Decl, NEW c \in BOOLEAN, NEW st \in Stack,
           Len(st.scopes) = Len(ss.scopes), \A k \in 1..Len(ss.scopes) : st.scopes[k].body = ss.scopes[k].body,
           OpenBody(ReadBranch(Fresh, d, c), st, "if", <<>>), walk' = walk
    PROVE  Annotated'
<1> DEFINE read == ReadBranch(Fresh, d, c)
<1>1. calls # <<>>
  BY DEF Reading
<1>2. read \in Seq(Seq(Stmt)) /\ Len(read) = Len(text)
  BY <1>1, AtBody, ReadBranchType
<1>3. ASSUME NEW h \in Header PROVE read \in Seq(Seq(Linked(Append(tree, h))))
  <2> DEFINE tr == Append(tree, h)
  <2>1. text \in Seq(Seq(Stmt)) /\ tree \in Seq(Header) /\ text \in Seq(Seq(Linked(tree)))
    BY AnnotFacts
  <2>2. text \in Seq(Seq(Linked(tr)))
    BY <2>1, LinksGrow, SeqsGrow
  <2>3. Cur \in 1..Len(text)
    BY <1>1, ReadType, StmtTypes
  <2>4. Fresh \in 1..Len(tr) /\ Len(tr) \in Nat
    BY FreshBody
  <2> HIDE DEF tr
  <2>5. \A n \in Nat : n = Len(tr) => ReadBranch(Fresh, d, c) \in Seq(Seq(Linked(tr)))
    BY <2>1, <2>2, <2>3, <2>4, BranchLinked
  <2> QED
    BY <2>4, <2>5 DEF tr
<1>4. "if" \in Owners
  BY DEF Owners
<1> HIDE DEF read
<1>5. OpenBody(read, st, "if", <<>>)
  BY DEF read
<1> QED
  BY <1>1, <1>2, <1>3, <1>4, <1>5, EnterKeeps

LEMMA BeginDeferKeeps ==
    ASSUME IInv, Annotated, ~failed, BeginDefer
    PROVE  Annotated'
<1> DEFINE s == [kind |-> "defer", body |-> Fresh]
<1>1. Reading /\ calls # <<>>
  BY DEF BeginDefer, Reads, Reading
<1>2. s \in Stmt /\ s.kind = "defer"
  BY <1>1, AtBody, StmtTypes
<1>3. OpenBody(Read(s), ss, "defer", <<>>) /\ walk' = walk
  BY DEF BeginDefer
<1> HIDE DEF s
<1>4. Read(s) \in Seq(Seq(Stmt)) /\ Len(Read(s)) = Len(text)
  BY <1>1, <1>2, ReadType
<1>5. ASSUME NEW h \in Header PROVE Read(s) \in Seq(Seq(Linked(Append(tree, h))))
  <2>1. s \in Linked(Append(tree, h))
    BY <1>2 DEF Linked, Exits
  <2> QED
    BY <1>1, <1>2, <2>1, ReadLinked
<1>6. "defer" \in Owners /\ ss \in Stack
  BY DEF Owners, IInv, TypeOK
<1> QED
  BY <1>1, <1>3, <1>4, <1>5, <1>6, EnterKeeps

LEMMA BeginFunctionKeeps ==
    ASSUME IInv, Annotated, ~failed, NEW r \in FuncReturns, NEW args \in ArgLists,
           BeginFunc(r, args) \/ BeginAnon(r, args)
    PROVE  Annotated'
<1>1. r \in Returns /\ args \in Seq(DeclNames)
  BY ArgListType, BoundsAssumption DEF Returns
<1>2. ArgStack(r, args) \in Stack /\ ArgStack(r, args).scopes # <<>>
  <2>1. tree \in Seq(Header)
    BY DEF IInv, TypeOK
  <2>2. ArgStack(r, args) \in Stack /\ Len(ArgStack(r, args).scopes) = 1
    BY <1>1, <2>1, ArgStackFacts
  <2>3. ArgStack(r, args).scopes = <<>> => Len(ArgStack(r, args).scopes) = 0
    BY EmptySeq
  <2> QED
    BY <2>2, <2>3
<1> DEFINE h(owner) == HeaderOf(ArgStack(r, args), owner, args)
<1>3. ASSUME NEW owner \in {"func", "anon"} PROVE h(owner) \in Header /\ h(owner).owner = owner
  <2>1. ArgStack(r, args).returns \in Returns \cup {NoName} /\ CurrentBody(ArgStack(r, args)) \in Nat
    BY <1>2, LastScope DEF Stack
  <2>2. owner \in Owners
    BY DEF Owners
  <2> QED
    BY <1>1, <2>1, <2>2 DEF HeaderOf, Header
<1>4. CASE BeginFunc(r, args)
  <2>1. OpenBody(text, ArgStack(r, args), "func", args) /\ walk' = walk
    BY <1>4 DEF BeginFunc
  <2>2. text \in Seq(Seq(Linked(Append(tree, h("func")))))
    <3>1. tree \in Seq(Header) /\ text \in Seq(Seq(Linked(tree)))
      BY AnnotFacts
    <3> QED
      BY <1>3, <3>1, LinksGrow, SeqsGrow
  <2>3. "func" \in Owners
    BY DEF Owners
  <2> QED
    BY <1>3, <2>1, <2>2, <2>3, OpenKeeps
<1>5. CASE BeginAnon(r, args)
  <2> DEFINE s == [kind |-> "anon", body |-> Fresh]
  <2>1. Reading /\ calls # <<>>
    BY <1>5 DEF BeginAnon, Reads, Reading
  <2>2. s \in Stmt /\ s.kind = "anon" /\ s.body = Fresh
    BY <2>1, AtBody, StmtTypes
  <2>3. OpenBody(Read(s), ArgStack(r, args), "anon", args) /\ walk' = walk
    BY <1>5 DEF BeginAnon
  <2> HIDE DEF s
  <2>4. s \in Linked(Append(tree, h("anon")))
    BY <1>3, <2>2, FreshBody DEF Linked, Exits
  <2>5. Read(s) \in Seq(Seq(Linked(Append(tree, h("anon")))))
    BY <1>3, <2>1, <2>2, <2>4, ReadLinked
  <2>6. "anon" \in Owners
    BY DEF Owners
  <2> QED
    BY <1>3, <2>3, <2>5, <2>6, OpenKeeps
<1> QED
  BY <1>4, <1>5

\* A defer is registered, with the body that it stands in.
LEMMA EndDeferKeeps ==
    ASSUME IInv, Annotated, ~failed, EndDefer
    PROVE  Annotated'
<1>1. calls # <<>> /\ tree[Cur].owner = "defer"
  BY DEF EndDefer, Reading
<1> DEFINE b == CurrentBody(PopScope(ss))
<1>2. CASE b = NoBody
  <2>1. UNCHANGED <<tree, text, defers, walk, failed>>
    BY <1>2 DEF EndDefer, Abort
  <2> QED
    BY <2>1 DEF Annotated
<1>3. CASE b # NoBody
  <2>1. /\ defers' = [defers EXCEPT ![b] = Append(@, Cur)]
        /\ UNCHANGED <<tree, text, walk, failed>>
    BY <1>3 DEF EndDefer
  <2>2. Cur \in DefersIn(tree)
    BY <1>1, AtBody DEF DefersIn
  <2>3. defers \in Seq(Seq(DefersIn(tree))) /\ Len(defers) = Len(tree)
    BY AnnotFacts
  <2>4. b \in 1..Len(defers) \/ defers' = defers
    <3> HIDE DEF b
    <3>1. DOMAIN defers = 1..Len(defers)
      BY <2>3, LenProperties
    <3>2. CASE b \notin DOMAIN defers
      BY <2>1, <2>3, <3>2
    <3> QED
      BY <3>1, <3>2
  <2>5. defers' \in Seq(Seq(DefersIn(tree)))
    BY <2>1, <2>2, <2>3, <2>4, PutInSeq
  <2> QED
    BY <2>1, <2>5, AnnotFacts DEF Annotated
<1> QED
  BY <1>2, <1>3

\* A walk for an exit gathers the defers of one body more.
LEMMA WalkOutKeeps ==
    ASSUME IInv, Annotated, ~failed, WalkOut
    PROVE  Annotated'
<1> DEFINE gained == WithDefers(walk)
<1>1. /\ walk.at # NoBody /\ walk' = [walk EXCEPT !.result = gained, !.at = NextOut(walk)]
      /\ UNCHANGED <<tree, text, defers, ss, calls, saved, failed, crashed>>
  BY DEF WalkOut
<1>2. walk # Idle
  BY <1>1 DEF Idle
<1>3. PICK p \in LeftBy(walk.loop) : walk.at = calls[p]
  BY <1>1, <1>2 DEF IInv, WalkInv
<1>4. CallsOK(calls, tree, RootOf(Len(saved)))
  BY <1>2 DEF IInv, CallsInv, WalkInv
<1>5. walk.at \in 1..Len(tree)
  BY <1>3, <1>4 DEF LeftBy, CallsOK
<1>6. defers[walk.at] \in Seq(DefersIn(tree)) /\ walk.result \in Seq(DefersIn(tree))
  BY <1>5, AnnotFacts, ElementOfSeq
<1>7. gained \in Seq(DefersIn(tree))
  BY <1>6, ConcatFacts, ReverseFacts DEF WithDefers
<1> HIDE DEF gained
<1>8. walk'.result = gained
  <2>1. walk \in Walk
    BY DEF IInv, TypeOK
  <2> QED
    BY <1>1, <2>1 DEF Walk
<1> QED
  BY <1>1, <1>7, <1>8, AnnotFacts DEF Annotated

LEMMA EndWalkKeeps ==
    ASSUME IInv, Annotated, ~failed, EndWalk
    PROVE  Annotated'
<1> DEFINE s == [kind |-> walk.kind, loop |-> walk.loop, defers |-> walk.result]
<1>1. walk # Idle /\ text' = Read(s) /\ walk' = Idle /\ UNCHANGED <<tree, defers>>
  BY DEF EndWalk
<1>2. walk \in Walk /\ walk.kind \in Exits /\ calls # <<>>
  BY <1>1 DEF IInv, TypeOK, WalkInv
<1>3. s \in Stmt /\ s.kind = walk.kind /\ s.defers = walk.result
  BY <1>2, StmtTypes DEF Walk
<1> HIDE DEF s
<1>4. s \in Linked(tree)
  BY <1>2, <1>3, AnnotFacts DEF Linked, Exits
<1> QED
  BY <1>1, <1>2, <1>3, <1>4, ReadKeeps

LEMMA StartWalkKeeps ==
    ASSUME IInv, Annotated, ~failed, NEW kind, NEW loop, StartWalk(kind, loop)
    PROVE  Annotated'
<1>1. UNCHANGED <<tree, text, defers, failed>> /\ (walk' = walk \/ walk'.result = <<>>)
  BY DEF StartWalk, Abort
<1>2. walk'.result \in Seq(DefersIn(tree))
  <2>1. <<>> \in Seq(DefersIn(tree)) /\ walk.result \in Seq(DefersIn(tree))
    BY EmptySeq, AnnotFacts
  <2> QED
    BY <1>1, <2>1
<1> QED
  BY <1>1, <1>2, AnnotFacts DEF Annotated

\* Statements that open no body.
LEMMA PlainKeeps ==
    ASSUME IInv, Annotated, ~failed,
           \/ \E n \in DeclNames, h \in Holds : ValDecl(n, h)
           \/ \E n \in DeclNames \cup Globals : Use(n)
           \/ RetOnNull
    PROVE  Annotated'
<1>1. CASE Reject
  BY <1>1 DEF Reject, Annotated
<1>2. ASSUME NEW n \in DeclNames, NEW h \in Holds, ValDecl(n, h) PROVE Annotated'
  <2> DEFINE d == NewDecl(ss, Function, n, h)
             s == [kind |-> "decl", decl |-> d]
  <2>1. calls # <<>>
    BY <1>2 DEF ValDecl, Reads, Reading
  <2>2. d \in Decl
    BY <2>1, AtBody, NewDeclType
  <2>3. text' = Read(s) /\ UNCHANGED <<tree, defers, walk>>
    BY <1>2 DEF ValDecl
  <2> HIDE DEF d
  <2>4. s \in Stmt /\ s.kind = "decl"
    BY <2>2, StmtTypes
  <2> HIDE DEF s
  <2>5. s \in Linked(tree)
    BY <2>4, PlainLinked DEF Exits
  <2> QED
    BY <2>1, <2>3, <2>4, <2>5, ReadKeeps
<1>3. ASSUME NEW n \in DeclNames \cup Globals, Use(n), ~Reject PROVE Annotated'
  <2> DEFINE d == ResolveDecl(ss, n)
             s == [kind |-> "use", decl |-> d]
  <2>1. calls # <<>> /\ ss \in Stack
    BY <1>3 DEF Use, Reads, Reading, IInv, TypeOK
  <2>2. d \in Decl
    BY <2>1, ResolveDeclType
  <2>3. text' = Read(s) /\ UNCHANGED <<tree, defers, walk>>
    BY <1>3 DEF Use
  <2> HIDE DEF d
  <2>4. s \in Stmt /\ s.kind = "use"
    BY <2>2, StmtTypes
  <2> HIDE DEF s
  <2>5. s \in Linked(tree)
    BY <2>4, PlainLinked DEF Exits
  <2> QED
    BY <2>1, <2>3, <2>4, <2>5, ReadKeeps
<1>4. CASE RetOnNull /\ ~Reject
  <2> DEFINE s == [kind |-> "try"]
  <2>1. calls # <<>> /\ text' = Read(s) /\ UNCHANGED <<tree, defers, walk>>
    BY <1>4 DEF RetOnNull, Reads, Reading
  <2>2. s \in Stmt /\ s.kind = "try"
    BY StmtTypes
  <2> HIDE DEF s
  <2>3. s \in Linked(tree)
    BY <2>2, PlainLinked DEF Exits
  <2> QED
    BY <2>1, <2>2, <2>3, ReadKeeps
<1> QED
  BY <1>1, <1>2, <1>3, <1>4

LEMMA NextAnnotated ==
    ASSUME IInv, Annotated, [Next]_vars
    PROVE  Annotated'
<1> SUFFICES ASSUME ~failed PROVE Annotated'
  BY FailureLasts DEF Annotated
<1>1. ASSUME NEW r \in FuncReturns, NEW args \in ArgLists, BeginFunc(r, args) \/ BeginAnon(r, args)
      PROVE  Annotated'
  BY <1>1, BeginFunctionKeeps
<1>2. CASE \/ \E n \in DeclNames, h \in Holds : ValDecl(n, h)
           \/ \E n \in DeclNames \cup Globals : Use(n)
           \/ RetOnNull
  BY <1>2, PlainKeeps
<1>3. CASE UNCHANGED <<tree, text, defers, walk, failed>>
  BY <1>3 DEF Annotated
<1>4. CASE failed'
  BY <1>4 DEF Annotated
<1>5. ASSUME NEW n \in Labels, NEW x \in Binds, NEW ok \in CondTypes, BeginWhile(n, x, ok)
      PROVE  Annotated'
  BY <1>5, BeginWhileKeeps DEF CondTypes
<1>6. ASSUME NEW x \in Binds, NEW ok \in CondTypes, BeginIf(x, ok)
      PROVE  Annotated'
  BY <1>6, BeginIfKeeps DEF CondTypes
<1>7. ASSUME NEW x \in Binds, NEW ok \in CondTypes, ElseIf(x, ok)
      PROVE  Annotated'
  <2>1. Reading /\ IsLastIf /\ calls # <<>>
    BY <1>7 DEF ElseIf, Reading
  <2>2. OpenBody(ReadBranch(Fresh, Bind(x), FALSE), Bound(x), "if", <<>>) /\ walk' = walk
    BY <1>7 DEF ElseIf
  <2>3. /\ Bind(x) \in Decl /\ Bound(x) \in Stack /\ Len(Bound(x).scopes) = Len(ss.scopes)
        /\ \A k \in 1..Len(ss.scopes) : Bound(x).scopes[k].body = ss.scopes[k].body
    BY <2>1, BoundFacts DEF Binds
  <2> QED
    BY <2>1, <2>2, <2>3, BranchKeeps
<1>8. CASE Else
  <2>1. Reading /\ IsLastIf /\ OpenBody(ReadBranch(Fresh, NoDecl, TRUE), ss, "if", <<>>) /\ walk' = walk
    BY <1>8 DEF Else
  <2>2. NoDecl \in Decl /\ ss \in Stack
    BY DEF NoDecl, Decl, NoBody, Holds, IInv, TypeOK
  <2> QED
    BY <2>1, <2>2, BranchKeeps
<1>9. CASE BeginDefer
  BY <1>9, BeginDeferKeeps
<1>10. CASE EndDefer
  BY <1>10, EndDeferKeeps
<1>12. CASE WalkOut
  BY <1>12, WalkOutKeeps
<1>13. CASE EndWalk
  BY <1>13, EndWalkKeeps
<1>14. ASSUME NEW kind \in {"break", "continue"}, NEW n \in Labels, LoopControl(kind, n)
       PROVE  Annotated'
  <2>1. CASE Reject
    BY <2>1 DEF Reject, Annotated
  <2>2. CASE StartWalk(kind, ss.loops[LoopFor(ss, n)])
    BY <2>2, StartWalkKeeps
  <2> QED
    BY <1>14, <2>1, <2>2 DEF LoopControl
<1>15. ASSUME NEW v \in BOOLEAN, Return(v)
       PROVE  Annotated'
  <2>1. CASE Reject
    BY <2>1 DEF Reject, Annotated
  <2> QED
    BY <1>15, <2>1, StartWalkKeeps DEF Return
<1>16. CASE EndFunc \/ EndAnon \/ EndIf \/ EndWhile
  <2>1. UNCHANGED <<tree, text, defers, walk, failed>>
    BY <1>16 DEF EndFunc, EndAnon, EndIf, EndWhile, Abort
  <2> QED
    BY <1>3, <2>1
<1>17. CASE TypeError \/ \E x \in Binds : UntypedIf(x) \/ UntypedElseIf(x)
  <2>1. failed'
    BY <1>17 DEF TypeError, Reject, UntypedIf, UntypedElseIf, SkipBranch
  <2> QED
    BY <1>4, <2>1
<1>18. CASE UNCHANGED vars
  <2>1. UNCHANGED <<tree, text, defers, walk, failed>>
    BY <1>18 DEF vars
  <2> QED
    BY <1>3, <2>1
<1> QED
  BY <1>1, <1>2, <1>5, <1>6, <1>7, <1>8, <1>9, <1>10, <1>12, <1>13, <1>14, <1>15, <1>16, <1>17, <1>18
     DEF Next

(***************************************************************************)
(* Disciplined programs                                                    *)
(***************************************************************************)
\* What EscapesDefer's function says of a body, from what it says of the one around it.
Up(f, c, loop) ==
    IF tree[c].owner = "defer" THEN TRUE
    ELSE IF tree[c].owner \in {"func", "anon"} \/ c = loop THEN FALSE
    ELSE f[tree[c].parent]
Rises(f, m, loop) == f = [c \in 1..m |-> Up(f, c, loop)]

ParentsBefore == \A b \in 1..Len(tree) : tree[b].owner \in {"func", "anon"} \/ tree[b].parent \in 1..b - 1

LEMMA UpExists ==
    ASSUME ParentsBefore, NEW n \in Nat, n = Len(tree), NEW loop
    PROVE  \E f : Rises(f, n, loop)
<1> DEFINE T == {m \in 0..n : ~\E f : Rises(f, m, loop)}
<1> SUFFICES ASSUME T # {} PROVE FALSE
  OBVIOUS
<1>1. PICK m \in T : \A k \in T : m <= k
  <2>1. T \subseteq Nat
    OBVIOUS
  <2> HIDE DEF T
  <2> QED
    BY <2>1, LeastElement
<1>2. CASE m = 0
  <2> DEFINE f == [c \in {} |-> TRUE]
  <2>1. 1..0 = {}
    OBVIOUS
  <2>2. Rises(f, 0, loop)
    BY <2>1 DEF Rises
  <2> QED
    BY <1>2, <2>2
<1>3. CASE m # 0
  <2>1. m \in 1..n /\ m - 1 \in 0..n /\ ~(m <= m - 1)
    BY <1>3
  <2>2. PICK g : Rises(g, m - 1, loop)
    BY <1>1, <2>1
  <2> DEFINE h == [c \in 1..m |-> IF c = m THEN Up(g, m, loop) ELSE g[c]]
  <2>3. ASSUME NEW c \in 1..m PROVE h[c] = Up(h, c, loop)
    <3>1. c \in 1..n
      BY <2>1
    <3>2. tree[c].owner \notin {"func", "anon"} => tree[c].parent \in 1..m /\ tree[c].parent # m
      <4>1. tree[c].owner \notin {"func", "anon"} => tree[c].parent \in 1..c - 1
        BY <3>1 DEF ParentsBefore
      <4> QED
        BY <2>1, <4>1
    <3>3. h[c] = Up(g, c, loop)
      <4>1. CASE c = m
        BY <4>1
      <4>2. CASE c # m
        <5>1. c \in 1..m - 1
          BY <2>1, <4>2
        <5>2. h[c] = g[c]
          BY <4>2
        <5>3. g[c] = Up(g, c, loop)
          <6> HIDE DEF h
          <6> QED
            BY <2>2, <5>1 DEF Rises
        <5> QED
          BY <5>2, <5>3
      <4> QED
        BY <4>1, <4>2
    <3>4. tree[c].owner \notin {"func", "anon"} => h[tree[c].parent] = g[tree[c].parent]
      BY <3>2
    <3> HIDE DEF h
    <3> QED
      BY <3>3, <3>4 DEF Up
  <2>4. Rises(h, m, loop)
    BY <2>3 DEF Rises
  <2> QED
    BY <2>4
<1> QED
  BY <1>2, <1>3

LEMMA ExitOfDefer ==
    ASSUME ParentsBefore, Len(tree) \in Nat, NEW b \in 1..Len(tree), tree[b].owner = "defer", NEW exit
    PROVE  EscapesDefer(b, exit)
<1> DEFINE n == Len(tree)
           l == exit.loop.body
           up == CHOOSE f : Rises(f, n, l)
<1>1. EscapesDefer(b, exit) = up[b]
  BY DEF EscapesDefer, Rises, Up
<1>2. Rises(up, n, l)
  <2>1. \E f : Rises(f, n, l)
    BY UpExists
  <2> HIDE DEF n, l
  <2> QED
    BY <2>1
<1> HIDE DEF up
<1>3. up[b] = Up(up, b, l)
  BY <1>2 DEF Rises
<1> QED
  BY <1>1, <1>3 DEF Up

LEMMA DisciplinedEndsWell ==
    ASSUME IInv, Annotated, ~failed, Disciplined
    PROVE  EndsWell
<1>1. ParentsBefore /\ Len(tree) \in Nat
  BY AnnotFacts DEF ParentsBefore
<1> SUFFICES ASSUME NEW b \in 1..Len(tree)
             PROVE  /\ tree[b].owner \in {"func", "anon"} => (ExitsFrom(b, 1) <=> tree[b].returns # "void")
                    /\ tree[b].owner = "defer" => ~ExitsFrom(b, 1)
  BY DEF EndsWell
<1>2. ExitsFrom(b, 1) <=> Exiting(b)
  BY DEF ExitsFrom, Exiting
<1>3. tree[b].owner \in {"func", "anon"} => (Exiting(b) <=> tree[b].returns # "void")
  BY DEF Disciplined
<1>4. ASSUME tree[b].owner = "defer", Exiting(b) PROVE FALSE
  <2>1. PICK i \in 1..Len(text[b]) : text[b][i].kind \in Exits
    BY <1>4 DEF Exiting
  <2>2. ~EscapesDefer(b, text[b][i])
    BY <2>1 DEF Disciplined
  <2> QED
    BY <1>1, <1>4, <2>2, ExitOfDefer
<1> QED
  BY <1>2, <1>3, <1>4

(***************************************************************************)
(* Sequences                                                               *)
(***************************************************************************)
LEMMA SeqIsSeq ==
    ASSUME NEW Vals, NEW s \in Seq(Vals)
    PROVE  IsSeq(s) /\ Len(s) \in Nat /\ DOMAIN s = 1..Len(s)
<1>1. Len(s) \in Nat /\ DOMAIN s = 1..Len(s) /\ s \in [1..Len(s) -> Vals]
  BY LenProperties
<1>2. \A i \in 1..Len(s) : s[i] \in ToSet(s)
  BY <1>1 DEF ToSet
<1>3. s \in [1..Len(s) -> ToSet(s)]
  BY <1>1, <1>2
<1> QED
  BY <1>1, <1>3, SeqDef DEF IsSeq

LEMMA ShortSeqs ==
    /\ IsSeq(<<>>) /\ Len(<<>>) = 0
    /\ \A x : IsSeq(<<x>>) /\ Len(<<x>>) = 1 /\ <<x>>[1] = x /\ <<x>> # <<>>
    /\ \A x, y : IsSeq(<<x, y>>) /\ Len(<<x, y>>) = 2 /\ <<x, y>>[1] = x /\ <<x, y>>[2] = y
<1>1. <<>> \in Seq({})
  BY EmptySeq
<1>2. \A x : <<x>> \in Seq({x})
  OBVIOUS
<1>3. \A x, y : <<x, y>> \in Seq({x, y})
  OBVIOUS
<1> QED
  BY <1>1, <1>2, <1>3, SeqIsSeq

LEMMA JoinFacts ==
    ASSUME NEW s, IsSeq(s), NEW t, IsSeq(t)
    PROVE  /\ IsSeq(s \o t) /\ Len(s) \in Nat /\ Len(t) \in Nat /\ Len(s \o t) = Len(s) + Len(t)
           /\ \A i \in 1..Len(s) : (s \o t)[i] = s[i]
           /\ \A i \in 1..Len(t) : (s \o t)[Len(s) + i] = t[i]
           /\ t = <<>> => s \o t = s
           /\ s = <<>> => s \o t = t
<1> DEFINE Vals == ToSet(s) \cup ToSet(t)
<1>1. s \in Seq(Vals) /\ t \in Seq(Vals)
  BY SeqsGrow DEF IsSeq
<1> HIDE DEF Vals
<1>2. /\ s \o t \in Seq(Vals) /\ Len(s) \in Nat /\ Len(t) \in Nat /\ Len(s \o t) = Len(s) + Len(t)
      /\ \A i \in 1..Len(s) + Len(t) : (s \o t)[i] = IF i <= Len(s) THEN s[i] ELSE t[i - Len(s)]
  BY <1>1, LenProperties, ConcatProperties
<1>3. IsSeq(s \o t)
  BY <1>2, SeqIsSeq
<1>4. (t = <<>> => s \o t = s) /\ (s = <<>> => s \o t = t)
  BY <1>1, ConcatEmptySeq
<1>5. \A m, n \in Nat : \A u : (\A i \in 1..m + n : u[i] = IF i <= m THEN s[i] ELSE t[i - m])
                         => (\A i \in 1..m : u[i] = s[i]) /\ (\A i \in 1..n : u[m + i] = t[i])
  <2> SUFFICES ASSUME NEW m \in Nat, NEW n \in Nat, NEW u,
                      \A i \in 1..m + n : u[i] = IF i <= m THEN s[i] ELSE t[i - m]
               PROVE  (\A i \in 1..m : u[i] = s[i]) /\ (\A i \in 1..n : u[m + i] = t[i])
    OBVIOUS
  <2>1. \A i \in 1..m : u[i] = s[i]
    OBVIOUS
  <2>2. ASSUME NEW i \in 1..n PROVE u[m + i] = t[i]
    <3>1. m + i \in 1..m + n /\ ~(m + i <= m) /\ (m + i) - m = i
      OBVIOUS
    <3> QED
      BY <3>1
  <2> QED
    BY <2>1, <2>2
<1>6. /\ \A i \in 1..Len(s) : (s \o t)[i] = s[i]
      /\ \A i \in 1..Len(t) : (s \o t)[Len(s) + i] = t[i]
  BY <1>2, <1>5
<1> QED
  BY <1>2, <1>3, <1>4, <1>6

LEMMA RestFacts ==
    ASSUME NEW s, IsSeq(s), s # <<>>
    PROVE  /\ IsSeq(Tail(s)) /\ Len(s) \in Nat \ {0} /\ Len(Tail(s)) = Len(s) - 1
           /\ Head(s) = s[1]
           /\ \A i \in 1..Len(s) - 1 : Tail(s)[i] = s[i + 1]
           /\ Tail(s) = <<>> <=> Len(s) = 1
<1>1. s \in Seq(ToSet(s))
  BY DEF IsSeq
<1>2. /\ Tail(s) \in Seq(ToSet(s)) /\ Len(Tail(s)) = Len(s) - 1
      /\ \A i \in 1..Len(Tail(s)) : Tail(s)[i] = s[i + 1]
      /\ Head(s) = s[1] /\ Len(s) \in Nat \ {0}
  BY <1>1, EmptySeq, HeadTailProperties
<1>3. IsSeq(Tail(s)) /\ (Tail(s) = <<>> <=> Len(Tail(s)) = 0)
  BY <1>2, SeqIsSeq, EmptySeq
<1> QED
  BY <1>2, <1>3

(***************************************************************************)
(* What is left to do                                                      *)
(***************************************************************************)
LEMMA TodoJoined ==
    ASSUME NEW a, TodoOK(a), NEW b, TodoOK(b), a # <<>> /\ b # <<>> => Fits(a[Len(a)], b[1]),
           Pending(a) \cap Pending(b) = {}
    PROVE  TodoOK(a \o b) /\ Pending(a \o b) = Pending(a) \cup Pending(b)
<1> DEFINE m == Len(a)
           n == Len(b)
           c == a \o b
<1>1. /\ IsSeq(c) /\ m \in Nat /\ n \in Nat /\ Len(c) = m + n
      /\ \A i \in 1..m : c[i] = a[i]
      /\ \A i \in 1..n : c[m + i] = b[i]
  BY JoinFacts DEF TodoOK
<1>2. (m > 0 => a # <<>>) /\ (n > 0 => b # <<>>)
  BY ShortSeqs
<1> HIDE DEF m, n, c
<1>3. \A i \in 1..m + n : i \in 1..m \/ (i - m \in 1..n /\ i = m + (i - m))
  BY <1>1
<1>4. /\ \A i \in 1..m : ItemOK(a[i]) /\ Claims(a[i]) \subseteq Pending(a)
      /\ \A i \in 1..n : ItemOK(b[i]) /\ Claims(b[i]) \subseteq Pending(b)
  BY DEF TodoOK, Pending, m, n
<1>5. \A i \in 1..m + n : ItemOK(c[i])
  BY <1>1, <1>3, <1>4
<1>6. ASSUME NEW i \in 1..m + n - 1 PROVE Fits(c[i], c[i + 1])
  <2>1. CASE i < m
    <3>1. i \in 1..m - 1 /\ i \in 1..m /\ i + 1 \in 1..m
      BY <1>1, <2>1
    <3>2. Fits(a[i], a[i + 1])
      BY <3>1 DEF TodoOK, Chained, m
    <3> QED
      BY <1>1, <3>1, <3>2
  <2>2. CASE i = m
    <3>1. m \in 1..m /\ m > 0 /\ n > 0 /\ 1 \in 1..n
      BY <1>1, <2>2
    <3>2. c[m] = a[m] /\ c[m + 1] = b[1]
      BY <1>1, <3>1
    <3> QED
      BY <1>2, <2>2, <3>1, <3>2 DEF m
  <2>3. CASE i > m
    <3> DEFINE k == i - m
    <3>1. k \in 1..n - 1 /\ k \in 1..n /\ k + 1 \in 1..n /\ i = m + k /\ i + 1 = m + (k + 1)
      BY <1>1, <2>3
    <3>2. Fits(b[k], b[k + 1])
      BY <3>1 DEF TodoOK, Chained, n
    <3> HIDE DEF k
    <3> QED
      BY <1>1, <3>1, <3>2
  <2> QED
    BY <1>1, <2>1, <2>2, <2>3
<1>7. \A i \in 1..m + n : IF i \in 1..m THEN c[i] = a[i] ELSE i - m \in 1..n /\ c[i] = b[i - m]
  <2> TAKE i \in 1..m + n
  <2>1. i \in 1..m \/ (i \notin 1..m /\ i - m \in 1..n /\ c[m + (i - m)] = c[i])
    BY <1>1
  <2> QED
    BY <1>1, <2>1
<1>8. ASSUME NEW i \in 1..m + n, NEW j \in 1..m + n, i # j
      PROVE  Claims(c[i]) \cap Claims(c[j]) = {}
  <2>1. CASE i \in 1..m /\ j \in 1..m
    <3>1. Claims(a[i]) \cap Claims(a[j]) = {}
      BY <1>8, <2>1 DEF TodoOK, Apart, m
    <3> QED
      BY <1>1, <2>1, <3>1
  <2>2. CASE i \notin 1..m /\ j \notin 1..m
    <3>1. /\ i - m \in 1..n /\ j - m \in 1..n
          /\ c[i] = b[i - m] /\ c[j] = b[j - m]
      BY <1>7, <2>2
    <3>2. i - m # j - m
      BY <1>1, <1>8
    <3>3. Claims(b[i - m]) \cap Claims(b[j - m]) = {}
      BY <3>1, <3>2 DEF TodoOK, Apart, n
    <3> QED
      BY <3>1, <3>3
  <2>3. CASE i \in 1..m /\ j \notin 1..m
    <3>1. c[i] = a[i] /\ j - m \in 1..n /\ c[j] = b[j - m]
      BY <1>7, <2>3
    <3> QED
      BY <1>4, <2>3, <3>1
  <2>4. CASE i \notin 1..m /\ j \in 1..m
    <3>1. c[j] = a[j] /\ i - m \in 1..n /\ c[i] = b[i - m]
      BY <1>7, <2>4
    <3> QED
      BY <1>4, <2>4, <3>1
  <2> QED
    BY <2>1, <2>2, <2>3, <2>4
<1>9. TodoOK(c)
  BY <1>1, <1>5, <1>6, <1>8 DEF TodoOK, Chained, Apart
<1>10. Pending(c) = Pending(a) \cup Pending(b)
  <2>1. Pending(c) \subseteq Pending(a) \cup Pending(b)
    <3> SUFFICES ASSUME NEW i \in 1..m + n PROVE Claims(c[i]) \subseteq Pending(a) \cup Pending(b)
      BY <1>1 DEF Pending
    <3> QED
      BY <1>4, <1>7
  <2>2. \A i \in 1..m : Claims(a[i]) \subseteq Pending(c)
    <3> TAKE i \in 1..m
    <3>1. i \in 1..Len(c) /\ c[i] = a[i]
      BY <1>1
    <3> QED
      BY <3>1 DEF Pending
  <2>3. \A i \in 1..n : Claims(b[i]) \subseteq Pending(c)
    <3> TAKE i \in 1..n
    <3>1. m + i \in 1..Len(c) /\ c[m + i] = b[i]
      BY <1>1
    <3> QED
      BY <3>1 DEF Pending
  <2>4. Pending(a) \subseteq Pending(c)
    BY <2>2 DEF Pending, m
  <2>5. Pending(b) \subseteq Pending(c)
    BY <2>3 DEF Pending, n
  <2> QED
    BY <2>1, <2>4, <2>5
<1> QED
  BY <1>9, <1>10 DEF c

LEMMA TodoRest ==
    ASSUME NEW w, TodoOK(w), w # <<>>
    PROVE  /\ TodoOK(Tail(w)) /\ ItemOK(Head(w))
           /\ Tail(w) # <<>> => Fits(Head(w), Tail(w)[1])
           /\ Claims(Head(w)) \cap Pending(Tail(w)) = {}
           /\ Pending(w) = Claims(Head(w)) \cup Pending(Tail(w))
<1> DEFINE n == Len(w)
           t == Tail(w)
<1>1. /\ IsSeq(t) /\ n \in Nat \ {0} /\ Len(t) = n - 1 /\ Head(w) = w[1]
      /\ \A i \in 1..n - 1 : t[i] = w[i + 1]
      /\ t = <<>> <=> n = 1
  BY RestFacts DEF TodoOK
<1> HIDE DEF n, t
<1>2. \A i \in 1..n - 1 : i \in 1..n /\ i + 1 \in 1..n /\ i + 1 # 1
  BY <1>1
<1>3. 1 \in 1..n
  BY <1>1
<1>4. \A i \in 1..n : ItemOK(w[i]) /\ Claims(w[i]) \subseteq Pending(w)
  BY DEF TodoOK, Pending, n
<1>5. \A i \in 1..n - 1 : ItemOK(t[i])
  BY <1>1, <1>2, <1>4
<1>6. \A i \in 1..n - 1 : Fits(w[i], w[i + 1])
  BY DEF TodoOK, Chained, n
<1>7. ASSUME NEW i \in 1..n - 1 - 1 PROVE Fits(t[i], t[i + 1])
  <2>1. i \in 1..n - 1 /\ i + 1 \in 1..n - 1
    BY <1>1
  <2> QED
    BY <1>1, <1>6, <2>1
<1>8. \A i, j \in 1..n : i # j => Claims(w[i]) \cap Claims(w[j]) = {}
  BY DEF TodoOK, Apart, n
<1>9. ASSUME NEW i \in 1..n - 1, NEW j \in 1..n - 1, i # j PROVE Claims(t[i]) \cap Claims(t[j]) = {}
  <2>1. i + 1 # j + 1
    BY <1>1, <1>9
  <2> QED
    BY <1>1, <1>2, <1>8, <2>1
<1>10. TodoOK(t)
  BY <1>1, <1>5, <1>7, <1>9 DEF TodoOK, Chained, Apart
<1>11. t # <<>> => Fits(w[1], t[1])
  <2> SUFFICES ASSUME t # <<>> PROVE Fits(w[1], t[1])
    OBVIOUS
  <2>1. 1 \in 1..n - 1 /\ 1 + 1 = 2
    BY <1>1
  <2> QED
    BY <1>1, <1>6, <2>1
<1>12. Pending(t) = UNION {Claims(w[i + 1]) : i \in 1..n - 1}
  BY <1>1 DEF Pending
<1>13. Claims(w[1]) \cap Pending(t) = {}
  BY <1>2, <1>3, <1>8, <1>12
<1>14. Pending(w) = Claims(w[1]) \cup Pending(t)
  <2>1. Pending(w) = UNION {Claims(w[i]) : i \in 1..n}
    BY DEF Pending, n
  <2>2. \A i \in 1..n : i = 1 \/ (i - 1 \in 1..n - 1 /\ w[(i - 1) + 1] = w[i])
    BY <1>1
  <2>3. Pending(w) \subseteq Claims(w[1]) \cup Pending(t)
    BY <1>12, <2>1, <2>2
  <2>4. Claims(w[1]) \cup Pending(t) \subseteq Pending(w)
    BY <1>2, <1>3, <1>12, <2>1
  <2> QED
    BY <2>3, <2>4
<1> QED
  BY <1>1, <1>3, <1>4, <1>10, <1>11, <1>13, <1>14 DEF t

\* A single item; two in a row.
LEMMA TodoOne ==
    ASSUME NEW x, ItemOK(x)
    PROVE  TodoOK(<<x>>) /\ Pending(<<x>>) = Claims(x) /\ Len(<<x>>) = 1 /\ <<x>>[1] = x /\ <<x>> # <<>>
<1>1. IsSeq(<<x>>) /\ Len(<<x>>) = 1 /\ <<x>>[1] = x /\ <<x>> # <<>>
  BY ShortSeqs
<1> DEFINE s == <<x>>
<1> HIDE DEF s
<1>2. IsSeq(s) /\ Len(s) = 1 /\ s[1] = x
  BY <1>1 DEF s
<1>3. 1..1 = {1} /\ 1..1 - 1 = {}
  OBVIOUS
<1>4. TodoOK(s)
  BY <1>2, <1>3 DEF TodoOK, Chained, Apart
<1>5. Pending(s) = Claims(x)
  BY <1>2, <1>3 DEF Pending
<1> QED
  BY <1>1, <1>4, <1>5 DEF s

LEMMA TodoNone == TodoOK(<<>>) /\ Pending(<<>>) = {}
<1> DEFINE s == <<>>
<1>1. IsSeq(s) /\ Len(s) = 0
  BY ShortSeqs
<1> HIDE DEF s
<1>2. 1..0 = {} /\ 1..0 - 1 = {}
  OBVIOUS
<1>3. TodoOK(s)
  BY <1>1, <1>2 DEF TodoOK, Chained, Apart
<1>4. Pending(s) = {}
  BY <1>1, <1>2 DEF Pending
<1> QED
  BY <1>3, <1>4 DEF s

Inners(t) == \A i \in 1..Len(t) : Inner(t[i])

\* A part of what is left to do: its first item and its last, and the blocks left to it.
Piece(t, first, last, left) ==
    /\ TodoOK(t) /\ Inners(t) /\ Pending(t) = left
    /\ t # <<>> /\ t[1] = first /\ t[Len(t)] = last

LEMMA PieceOne ==
    ASSUME NEW x, ItemOK(x), Inner(x)
    PROVE  Piece(<<x>>, x, x, Claims(x))
<1> DEFINE s == <<x>>
<1>1. TodoOK(s) /\ Pending(s) = Claims(x) /\ Len(s) = 1 /\ s[1] = x /\ s # <<>>
  BY TodoOne
<1> HIDE DEF s
<1>2. 1..1 = {1}
  OBVIOUS
<1>3. Inners(s)
  BY <1>1, <1>2 DEF Inners
<1>4. Piece(s, x, x, Claims(x))
  BY <1>1, <1>3 DEF Piece
<1> QED
  BY <1>4 DEF s

LEMMA InnersJoined ==
    ASSUME NEW a, IsSeq(a), Inners(a), NEW b, IsSeq(b), Inners(b)
    PROVE  Inners(a \o b)
<1> DEFINE m == Len(a)
           n == Len(b)
           c == a \o b
<1>1. /\ m \in Nat /\ n \in Nat /\ Len(c) = m + n
      /\ \A i \in 1..m : c[i] = a[i]
      /\ \A i \in 1..n : c[m + i] = b[i]
  BY JoinFacts
<1>2. (\A i \in 1..m : Inner(a[i])) /\ (\A i \in 1..n : Inner(b[i]))
  BY DEF Inners
<1> HIDE DEF m, n, c
<1>3. ASSUME NEW i \in 1..m + n PROVE Inner(c[i])
  <2>1. i \in 1..m \/ (i - m \in 1..n /\ m + (i - m) = i)
    BY <1>1
  <2> QED
    BY <1>1, <1>2, <2>1
<1>4. Inners(c)
  BY <1>1, <1>3 DEF Inners
<1> QED
  BY <1>4 DEF c

LEMMA PieceJoined ==
    ASSUME NEW a, NEW fa, NEW la, NEW pa, Piece(a, fa, la, pa),
           NEW b, NEW fb, NEW lb, NEW pb, Piece(b, fb, lb, pb),
           Fits(la, fb), pa \cap pb = {}
    PROVE  Piece(a \o b, fa, lb, pa \cup pb)
<1> DEFINE m == Len(a)
           n == Len(b)
           c == a \o b
<1>1. /\ IsSeq(c) /\ m \in Nat /\ n \in Nat /\ Len(c) = m + n
      /\ \A i \in 1..m : c[i] = a[i]
      /\ \A i \in 1..n : c[m + i] = b[i]
  BY JoinFacts DEF Piece, TodoOK
<1>2. m > 0 /\ n > 0
  <2>1. Len(a) \in Nat \ {0} /\ Len(b) \in Nat \ {0}
    BY RestFacts DEF Piece, TodoOK
  <2> QED
    BY <2>1
<1>3. TodoOK(c) /\ Pending(c) = pa \cup pb
  BY TodoJoined DEF Piece
<1>4. Inners(c)
  BY InnersJoined DEF Piece, TodoOK
<1> HIDE DEF c, m, n
<1>5. c # <<>>
  BY <1>1, <1>2, ShortSeqs
<1>6. 1 \in 1..m /\ n \in 1..n
  BY <1>1, <1>2
<1>7. c[1] = a[1] /\ c[m + n] = b[n]
  BY <1>1, <1>6
<1>8. a[1] = fa /\ b[n] = lb
  BY DEF Piece, n
<1> QED
  BY <1>1, <1>3, <1>4, <1>5, <1>7, <1>8 DEF Piece, c

\* The bodies of defers, one after the other, before what the emitter does itself.
LEMMA PieceCalls ==
    ASSUME EndsWell, NEW bodies \in Seq(DefersIn(tree)), NEW t, NEW f, NEW z, Piece(t, f, z, {}),
           f.do \in {"fall", "leave", "ask"}
    PROVE  \E first : /\ Piece(Calls(bodies) \o t, first, z, {})
                      /\ first.do \in {"body", "fall", "leave", "ask"}
<1> DEFINE n == Len(bodies)
           cs == Calls(bodies)
           call(i) == [do |-> "body", body |-> bodies[i]]
<1>1. n \in Nat /\ \A i \in 1..n : bodies[i] \in DefersIn(tree)
  BY ElementOfSeq, LenProperties
<1>2. cs = [i \in 1..n |-> call(i)]
  BY DEF Calls
<1>3. IsSeq(cs) /\ Len(cs) = n
  <2> DEFINE R == {call(i) : i \in 1..n}
  <2>0. cs \in [1..n -> R]
    BY <1>2
  <2> HIDE DEF R, cs, n
  <2>1. cs \in Seq(R) /\ DOMAIN cs = 1..n
    BY <1>1, <2>0, SeqDef
  <2>2. IsSeq(cs) /\ DOMAIN cs = 1..Len(cs) /\ Len(cs) \in Nat
    BY <2>1, SeqIsSeq
  <2>3. Len(cs) = n
    BY <1>1, <2>1, LenProperties
  <2> QED
    BY <2>2, <2>3
<1>4. ASSUME NEW i \in 1..n
      PROVE  /\ cs[i] = call(i) /\ ItemOK(cs[i]) /\ Inner(cs[i]) /\ Claims(cs[i]) = {}
             /\ Falls(cs[i]) /\ cs[i].do = "body"
  <2>1. cs[i] = call(i) /\ cs[i].do = "body" /\ cs[i].body = bodies[i]
    BY <1>2
  <2>2. bodies[i] \in 1..Len(tree) /\ tree[bodies[i]].owner = "defer"
    BY <1>1 DEF DefersIn
  <2>3. ~ExitsFrom(bodies[i], 1)
    BY <2>2 DEF EndsWell
  <2> HIDE DEF cs
  <2> QED
    BY <2>1, <2>2, <2>3 DEF ItemOK, Inner, Claims, GoesBack, Falls
<1> HIDE DEF cs, n, call
<1>5. IsSeq(t)
  BY DEF Piece, TodoOK
<1>6. ASSUME n = 0 PROVE Piece(cs \o t, f, z, {})
  <2>1. cs = <<>>
    BY <1>3, <1>6, EmptySeq DEF IsSeq
  <2>2. cs \o t = t
    BY <1>3, <1>5, <2>1, JoinFacts
  <2> QED
    BY <2>2
<1>7. ASSUME n # 0 PROVE Piece(cs \o t, cs[1], z, {}) /\ cs[1].do = "body"
  <2>1. n > 0 /\ 1 \in 1..n /\ n \in 1..n
    BY <1>1, <1>7
  <2>2. ASSUME NEW i \in 1..n, NEW j \in 1..n PROVE Fits(cs[i], cs[j])
    BY <1>4 DEF Fits, Begins
  <2>3. TodoOK(cs)
    <3>1. Chained(cs)
      <4>1. \A i \in 1..n - 1 : i \in 1..n /\ i + 1 \in 1..n
        BY <1>1
      <4> QED
        BY <1>3, <2>2, <4>1 DEF Chained
    <3>2. Apart(cs)
      BY <1>3, <1>4 DEF Apart
    <3> QED
      BY <1>3, <1>4, <3>1, <3>2 DEF TodoOK
  <2>4. Pending(cs) = {}
    BY <1>3, <1>4 DEF Pending
  <2>5. Inners(cs)
    BY <1>3, <1>4 DEF Inners
  <2>6. cs # <<>>
    BY <1>3, <2>1, ShortSeqs
  <2>7. Piece(cs, cs[1], cs[n], {})
    BY <1>3, <2>3, <2>4, <2>5, <2>6 DEF Piece
  <2>8. Fits(cs[n], f)
    BY <1>4, <2>1 DEF Fits, Begins
  <2>9. Piece(cs \o t, cs[1], z, {} \cup {})
    BY <2>7, <2>8, PieceJoined
  <2> QED
    BY <1>4, <2>1, <2>9
<1> QED
  BY <1>6, <1>7 DEF cs

LEMMA FramedKeeps ==
    ASSUME NEW w, IsSeq(w), w # <<>>, Framed(w), Inner(Head(w)),
           NEW todo, IsSeq(todo), Inners(todo)
    PROVE  Framed(todo \o Tail(w)) /\ Tail(w) # <<>> /\ Head(Tail(w)).do # "func"
<1> DEFINE n == Len(w)
           m == Len(todo)
           t == Tail(w)
           c == todo \o t
<1>1. /\ IsSeq(t) /\ n \in Nat \ {0} /\ Len(t) = n - 1 /\ Head(w) = w[1]
      /\ \A i \in 1..n - 1 : t[i] = w[i + 1]
      /\ t = <<>> <=> n = 1
  BY RestFacts
<1>2. /\ m \in Nat /\ Len(c) = m + (n - 1)
      /\ \A i \in 1..m : c[i] = todo[i]
      /\ \A i \in 1..n - 1 : c[m + i] = t[i]
  <2> HIDE DEF n, t
  <2>0. IsSeq(t)
    BY <1>1
  <2>1. /\ m \in Nat /\ Len(c) = m + Len(t)
        /\ \A i \in 1..m : c[i] = todo[i]
        /\ \A i \in 1..Len(t) : c[m + i] = t[i]
    BY ONLY <2>0, IsSeq(todo), JoinFacts
  <2> HIDE DEF c, m
  <2> QED
    BY <1>1, <2>1
<1>3. \A i \in 1..m : Inner(todo[i])
  BY DEF Inners
<1>4. PICK p \in 0..n : /\ p > 0 => w[p].do = "end" /\ ~GoesBack(w[p])
                        /\ \A i \in 1..n : (i < p => Inner(w[i])) /\ (i > p => w[i].do = "func")
  BY DEF Framed
<1>5. t # <<>> => Head(t) = t[1]
  BY <1>1, RestFacts
<1> HIDE DEF n, m, t, c
<1>6. Inner(w[1])
  BY <1>1
<1>7. p \notin {0, 1}
  <2>1. 1 \in 1..n
    BY <1>1
  <2>2. ASSUME p = 0 PROVE FALSE
    <3>1. w[1].do = "func"
      BY <1>4, <2>1, <2>2
    <3> QED
      BY <1>6, <3>1 DEF Inner
  <2>3. ASSUME p = 1 PROVE FALSE
    BY <1>4, <1>6, <2>3 DEF Inner
  <2> QED
    BY <2>2, <2>3
<1>8. p - 1 \in 1..n - 1 /\ n - 1 > 0 /\ m + (p - 1) \in 0..m + (n - 1) /\ m + (p - 1) > 0
  BY <1>1, <1>2, <1>4, <1>7
<1>9. c[m + (p - 1)] = w[p]
  <2>1. c[m + (p - 1)] = t[p - 1] /\ t[p - 1] = w[(p - 1) + 1] /\ (p - 1) + 1 = p
    BY <1>1, <1>2, <1>8
  <2> QED
    BY <2>1
<1>10. ASSUME NEW i \in 1..m + (n - 1)
       PROVE  (i < m + (p - 1) => Inner(c[i])) /\ (i > m + (p - 1) => c[i].do = "func")
  <2>1. CASE i \in 1..m
    <3>1. ~(i > m + (p - 1))
      BY <1>2, <1>8, <2>1
    <3> QED
      BY <1>2, <1>3, <2>1, <3>1
  <2>2. CASE i \notin 1..m
    <3> DEFINE k == i - m
    <3>1. k \in 1..n - 1 /\ m + k = i /\ k + 1 \in 1..n
      BY <1>1, <1>2, <2>2
    <3>2. (i < m + (p - 1) => k + 1 < p) /\ (i > m + (p - 1) => k + 1 > p)
      BY <1>1, <1>2, <1>4
    <3> HIDE DEF k
    <3>3. c[i] = w[k + 1]
      BY <1>1, <1>2, <3>1
    <3> QED
      BY <1>4, <3>1, <3>2, <3>3
  <2> QED
    BY <2>1, <2>2
<1>11. Framed(c)
  BY <1>2, <1>4, <1>8, <1>9, <1>10 DEF Framed
<1>12. t # <<>> /\ t[1].do # "func"
  <2>1. 1 \in 1..n - 1 /\ 1 + 1 \in 1..n /\ (1 + 1 < p \/ 1 + 1 = p)
    BY <1>1, <1>4, <1>8
  <2>2. t[1] = w[1 + 1]
    BY <1>1, <2>1
  <2>3. w[1 + 1].do # "func"
    <3>1. CASE 1 + 1 < p
      <4>1. Inner(w[1 + 1])
        BY <1>4, <2>1, <3>1
      <4> QED
        BY <4>1 DEF Inner
    <3>2. CASE 1 + 1 = p
      <4>1. w[p].do = "end"
        BY <1>4, <1>8, <3>2
      <4> QED
        BY <3>2, <4>1
    <3> QED
      BY <2>1, <3>1, <3>2
  <2> QED
    BY <1>1, <1>8, <2>2, <2>3
<1> QED
  BY <1>5, <1>11, <1>12 DEF c, t

(***************************************************************************)
(* Basic blocks                                                            *)
(***************************************************************************)
\* Instructions appended to block b.
Appended(c, c2, b, ins) ==
    /\ IsCode(c2) /\ Len(c2) = Len(c)
    /\ c2[b].ins = c[b].ins \o ins /\ IsSeq(c[b].ins)
    /\ \A x \in 1..Len(c) : x # b => c2[x] = c[x]

LEMMA PutFacts ==
    ASSUME NEW c, IsCode(c), NEW b \in 1..Len(c), NEW ins, IsSeq(ins)
    PROVE  Appended(c, Put(c, b, ins), b, ins)
<1> DEFINE all == c[b].ins \o ins
           e == [fn |-> c[b].fn, ins |-> all]
           c2 == [c EXCEPT ![b] = e]
           Vals == ToSet(c) \cup {e}
<1>1. c \in Seq(ToSet(c)) /\ IsSeq(c[b].ins) /\ c[b] \in [fn : {c[b].fn}, ins : Seq(ToSet(c[b].ins))]
  BY DEF IsCode, IsSeq
<1>2. IsSeq(all)
  BY <1>1, JoinFacts
<1>3. Put(c, b, ins) = c2
  <2>1. [c[b] EXCEPT !.ins = all] = e
    <3> HIDE DEF all
    <3> QED
      BY <1>1
  <2> QED
    BY <2>1 DEF Put
<1> HIDE DEF e, Vals
<1>4. c \in Seq(Vals) /\ e \in Vals
  BY <1>1, SeqsGrow DEF Vals
<1>5. c2 \in Seq(Vals) /\ Len(c2) = Len(c) /\ \A x \in 1..Len(c) : c2[x] = IF x = b THEN e ELSE c[x]
  BY <1>4, ExceptSeq
<1> HIDE DEF c2
<1>6. IsSeq(c2)
  BY <1>5, SeqIsSeq
<1>7. e.ins = all /\ e \in [fn : {e.fn}, ins : Seq(ToSet(e.ins))]
  <2>1. all \in Seq(ToSet(all))
    BY <1>2 DEF IsSeq
  <2> HIDE DEF all
  <2>2. e.ins = all /\ e.fn = c[b].fn
    BY DEF e
  <2>3. e \in [fn : {c[b].fn}, ins : Seq(ToSet(all))]
    BY <2>1 DEF e
  <2> QED
    BY <2>2, <2>3
<1>8. ASSUME NEW x \in 1..Len(c) PROVE c2[x] \in [fn : {c2[x].fn}, ins : Seq(ToSet(c2[x].ins))]
  <2>1. c[x] \in [fn : {c[x].fn}, ins : Seq(ToSet(c[x].ins))]
    BY DEF IsCode
  <2>2. c2[x] = e \/ c2[x] = c[x]
    BY <1>5
  <2> QED
    BY <1>7, <2>1, <2>2
<1>9. IsCode(c2)
  BY <1>5, <1>6, <1>8 DEF IsCode
<1> HIDE DEF all
<1>10. c2[b].ins = all
  BY <1>5, <1>7
<1>11. Appended(c, c2, b, ins)
  BY <1>1, <1>5, <1>9, <1>10 DEF Appended, all
<1> QED
  BY <1>3, <1>11

LEMMA AddedFacts ==
    ASSUME IsCode(code), NEW f, NEW n \in Nat
    PROVE  /\ IsCode(Added(f, n)) /\ Len(Added(f, n)) = Len(code) + n /\ Len(code) \in Nat
           /\ \A x \in 1..Len(code) : Added(f, n)[x] = code[x]
           /\ \A x \in Len(code) + 1..Len(code) + n : Unended(Added(f, n)[x])
<1> DEFINE e == [fn |-> f, ins |-> <<>>]
           new == [i \in 1..n |-> e]
           m == Len(code)
           c == code \o new
<1>1. new \in Seq({e}) /\ Len(new) = n /\ \A i \in 1..n : new[i] = e
  <2>1. new \in [1..n -> {e}]
    OBVIOUS
  <2>2. new \in Seq({e}) /\ DOMAIN new = 1..n
    BY <2>1, SeqDef
  <2> HIDE DEF e
  <2>3. \A i \in 1..n : new[i] = e
    OBVIOUS
  <2> HIDE DEF new
  <2> QED
    BY <2>2, <2>3, LenProperties
<1>2. e \in [fn : {e.fn}, ins : Seq(ToSet(e.ins))] /\ Unended(e)
  <2>1. <<>> \in Seq(ToSet(<<>>))
    BY EmptySeq
  <2>2. Len(<<>>) = 0
    BY EmptySeq
  <2>3. Unended(e)
    BY <2>2 DEF Unended
  <2> QED
    BY <2>1, <2>3
<1> HIDE DEF e, new
<1>3. IsSeq(code) /\ IsSeq(new)
  BY <1>1, SeqIsSeq DEF IsCode
<1>4. /\ IsSeq(c) /\ m \in Nat /\ Len(c) = m + Len(new)
      /\ \A i \in 1..m : c[i] = code[i]
      /\ \A i \in 1..Len(new) : c[m + i] = new[i]
  BY ONLY <1>3, JoinFacts
<1>5. \A i \in 1..m : code[i] \in [fn : {code[i].fn}, ins : Seq(ToSet(code[i].ins))]
  BY DEF IsCode
<1> HIDE DEF c, m
<1>6. Len(c) = m + n /\ \A i \in 1..n : c[m + i] = e
  BY <1>1, <1>4
<1>7. ASSUME NEW x \in m + 1..m + n PROVE c[x] = e
  <2>1. x - m \in 1..n /\ m + (x - m) = x
    BY <1>4
  <2> QED
    BY <1>6, <2>1
<1>8. ASSUME NEW x \in 1..m + n PROVE c[x] \in [fn : {c[x].fn}, ins : Seq(ToSet(c[x].ins))]
  <2>1. x \in 1..m \/ x \in m + 1..m + n
    BY <1>4
  <2>2. c[x] = e \/ (x \in 1..m /\ c[x] = code[x])
    BY <1>4, <1>7, <2>1
  <2> QED
    BY <1>2, <1>5, <2>2
<1>9. IsCode(c)
  BY <1>4, <1>6, <1>8 DEF IsCode
<1>10. Added(f, n) = c
  BY DEF Added, c, new, e
<1> QED
  BY <1>2, <1>4, <1>6, <1>7, <1>9, <1>10 DEF m

\* Instructions appended to one open block, the last one a terminator or not.
Wrote(c, c2, b, ended) ==
    /\ IsCode(c2) /\ Len(c2) = Len(c)
    /\ \A x \in 1..Len(c) : x # b => c2[x] = c[x]
    /\ Unended(c[b]) => IF ended THEN Terminated(c2[b]) ELSE Unended(c2[b])

PlainIns(ins) == IsSeq(ins) /\ \A i \in 1..Len(ins) : ~IsEnd(ins[i])
EndingIns(ins) == IsSeq(ins) /\ ins # <<>> /\ \A i \in 1..Len(ins) : IsEnd(ins[i]) <=> i = Len(ins)

LEMMA Writes ==
    ASSUME NEW c, IsCode(c), NEW b \in 1..Len(c), NEW ins
    PROVE  /\ PlainIns(ins) => Wrote(c, Put(c, b, ins), b, FALSE)
           /\ EndingIns(ins) => Wrote(c, Put(c, b, ins), b, TRUE)
<1> SUFFICES ASSUME IsSeq(ins)
             PROVE  /\ PlainIns(ins) => Wrote(c, Put(c, b, ins), b, FALSE)
                    /\ EndingIns(ins) => Wrote(c, Put(c, b, ins), b, TRUE)
  BY DEF PlainIns, EndingIns
<1> DEFINE old == c[b].ins
           all == old \o ins
           m == Len(old)
           n == Len(ins)
           c2 == Put(c, b, ins)
<1>0. Appended(c, c2, b, ins)
  BY PutFacts
<1> HIDE DEF c2
<1>1. /\ IsCode(c2) /\ Len(c2) = Len(c) /\ c2[b].ins = all /\ IsSeq(old)
      /\ \A x \in 1..Len(c) : x # b => c2[x] = c[x]
  BY <1>0 DEF Appended
<1> HIDE DEF old
<1>1a. IsSeq(old)
  BY <1>1
<1>2. /\ m \in Nat /\ n \in Nat /\ Len(all) = m + n /\ IsSeq(all)
      /\ \A i \in 1..m : all[i] = old[i]
      /\ \A i \in 1..n : all[m + i] = ins[i]
  BY ONLY <1>1a, IsSeq(ins), JoinFacts
<1> HIDE DEF all, m, n
<1>3. \A i \in 1..m + n : i \in 1..m \/ (i \notin 1..m /\ i - m \in 1..n /\ m + (i - m) = i)
  BY <1>2
<1>4. Unended(c[b]) <=> \A i \in 1..m : ~IsEnd(old[i])
  BY DEF Unended, m, old
<1>5. ASSUME PlainIns(ins), Unended(c[b]) PROVE Unended(c2[b])
  <2>1. \A i \in 1..n : ~IsEnd(ins[i])
    BY <1>5 DEF PlainIns, n
  <2>2. \A i \in 1..m + n : ~IsEnd(all[i])
    BY <1>2, <1>3, <1>4, <1>5, <2>1
  <2> QED
    BY <1>1, <1>2, <2>2 DEF Unended
<1>6. ASSUME EndingIns(ins), Unended(c[b]) PROVE Terminated(c2[b])
  <2>1. n > 0 /\ \A i \in 1..n : IsEnd(ins[i]) <=> i = n
    <3>1. n # 0 /\ \A i \in 1..n : IsEnd(ins[i]) <=> i = n
      BY <1>6, EmptySeq DEF EndingIns, IsSeq, n
    <3> QED
      BY <1>2, <3>1
  <2>2. ASSUME NEW i \in 1..m + n PROVE IsEnd(all[i]) <=> i = m + n
    <3>1. CASE i \in 1..m
      <4>1. ~IsEnd(all[i]) /\ i # m + n
        BY <1>2, <1>4, <1>6, <2>1, <3>1
      <4> QED
        BY <4>1
    <3>2. CASE i \notin 1..m
      <4>1. i - m \in 1..n /\ m + (i - m) = i /\ (i - m = n <=> i = m + n)
        BY <1>2, <1>3, <3>2
      <4>2. all[i] = ins[i - m]
        BY <1>2, <4>1
      <4> QED
        BY <2>1, <4>1, <4>2
    <3> QED
      BY <3>1, <3>2
  <2>3. all # <<>>
    BY <1>2, <2>1, ShortSeqs
  <2> QED
    BY <1>1, <1>2, <2>2, <2>3 DEF Terminated
<1>7. (PlainIns(ins) => Wrote(c, c2, b, FALSE)) /\ (EndingIns(ins) => Wrote(c, c2, b, TRUE))
  BY <1>1, <1>5, <1>6 DEF Wrote
<1> QED
  BY <1>7 DEF c2

\* What the emitter appends.
LEMMA InsFacts ==
    /\ PlainIns(<<>>)
    /\ \A x : ~IsEnd(x) => PlainIns(<<x>>)
    /\ \A x : IsEnd(x) => EndingIns(<<x>>)
    /\ \A s, x : PlainIns(s) /\ IsEnd(x) => EndingIns(s \o <<x>>)
    /\ \A op, d : op # "br" => PlainIns(Local(op, d)) /\ PlainIns(<<Ins(op, d)>>)
    /\ IsEnd(Ret) /\ (\A b : IsEnd(Br(b)) /\ ~IsEnd(Mark(b))) /\ \A b, c : IsEnd(CondBr(b, c))
<1>1. PlainIns(<<>>)
  <2>1. IsSeq(<<>>) /\ Len(<<>>) = 0 /\ 1..0 = {}
    BY ShortSeqs
  <2> QED
    BY <2>1 DEF PlainIns
<1>2. ASSUME NEW x PROVE (~IsEnd(x) => PlainIns(<<x>>)) /\ (IsEnd(x) => EndingIns(<<x>>))
  <2> DEFINE s == <<x>>
  <2>1. IsSeq(s) /\ Len(s) = 1 /\ s[1] = x /\ s # <<>> /\ 1..1 = {1}
    BY ShortSeqs
  <2> HIDE DEF s
  <2>2. (~IsEnd(x) => PlainIns(s)) /\ (IsEnd(x) => EndingIns(s))
    BY <2>1 DEF PlainIns, EndingIns
  <2> QED
    BY <2>2 DEF s
<1>3. ASSUME NEW s, NEW x, PlainIns(s), IsEnd(x) PROVE EndingIns(s \o <<x>>)
  <2> DEFINE e == <<x>>
             u == s \o e
             m == Len(s)
  <2>1. Len(e) = 1 /\ e[1] = x
    BY ShortSeqs
  <2>1a. IsSeq(e)
    BY ShortSeqs
  <2> HIDE DEF e
  <2>2a. IsSeq(s)
    BY <1>3 DEF PlainIns
  <2>2. \A i \in 1..m : ~IsEnd(s[i])
    BY <1>3 DEF PlainIns
  <2>3. /\ IsSeq(u) /\ m \in Nat /\ Len(u) = m + Len(e)
        /\ \A i \in 1..m : u[i] = s[i]
        /\ \A i \in 1..Len(e) : u[m + i] = e[i]
    BY ONLY <2>1a, <2>2a, JoinFacts
  <2> HIDE DEF u, m
  <2>4. Len(u) = m + 1 /\ u[m + 1] = x
    BY <2>1, <2>3
  <2>5. \A i \in 1..m + 1 : IsEnd(u[i]) <=> i = m + 1
    <3> TAKE i \in 1..m + 1
    <3>1. i \in 1..m \/ i = m + 1
      BY <2>3
    <3>2. i \in 1..m => i # m + 1
      BY <2>3
    <3> QED
      BY <1>3, <2>2, <2>3, <2>4, <3>1, <3>2
  <2>6. u # <<>>
    BY <2>3, <2>4, ShortSeqs
  <2>7. EndingIns(u)
    BY <2>3, <2>4, <2>5, <2>6 DEF EndingIns
  <2> QED
    BY <2>7 DEF u, e
<1>4. ASSUME NEW op, NEW d, op # "br" PROVE PlainIns(Local(op, d)) /\ PlainIns(<<Ins(op, d)>>)
  <2>1. ~IsEnd(Ins(op, d))
    BY <1>4 DEF IsEnd, Ins
  <2> QED
    BY <1>1, <1>2, <2>1 DEF Local
<1>5. IsEnd(Ret) /\ (\A b : IsEnd(Br(b)) /\ ~IsEnd(Mark(b))) /\ \A b, c : IsEnd(CondBr(b, c))
  BY DEF IsEnd, Ret, Br, Mark, CondBr
<1> QED
  BY <1>1, <1>2, <1>3, <1>4, <1>5

(***************************************************************************)
(* One step of the emitter                                                 *)
(***************************************************************************)
LEMMA ItemPrimed ==
    ASSUME NEW x, UNCHANGED <<tree, text>>, ItemOK(x)
    PROVE  ItemOK(x)'
BY DEF ItemOK, StmtsOK, ElseOK

LEMMA FallsPrimed ==
    ASSUME NEW x, UNCHANGED <<tree, text>>
    PROVE  Falls(x)' <=> Falls(x)
<1>1. \A b, n : (\E i \in n..Len(text'[b]) : text'[b][i].kind \in Exits)
                <=> (\E i \in n..Len(text[b]) : text[b][i].kind \in Exits)
  OBVIOUS
<1> QED
  BY <1>1 DEF Falls, GoesBack, ExitsFrom

LEMMA FitsPrimed ==
    ASSUME NEW x, NEW y, UNCHANGED <<tree, text>>, Fits(x, y)
    PROVE  Fits(x, y)'
BY FallsPrimed DEF Fits, Begins, Answers, GoesBack

LEMMA TodoPrimed ==
    ASSUME NEW w, work' = w, UNCHANGED <<tree, text>>, TodoOK(w), Framed(w)
    PROVE  TodoOK(work)' /\ Framed(work)'
<1>1. \A i \in 1..Len(w) : ItemOK(w[i])'
  BY ItemPrimed DEF TodoOK
<1>2. (\A i \in 1..Len(work) : ItemOK(work[i]))'
  BY <1>1
<1>3. \A i \in 1..Len(w) - 1 : Fits(w[i], w[i + 1])'
  BY FitsPrimed DEF TodoOK, Chained
<1>4. Chained(work)'
  BY <1>3 DEF Chained
<1>5. IsSeq(work)' /\ Apart(work)'
  <2>1. IsSeq(work)'
    BY DEF TodoOK, IsSeq
  <2>2. Apart(work)'
    BY DEF TodoOK, Apart
  <2> QED
    BY <2>1, <2>2
<1>6. TodoOK(work)'
  BY <1>2, <1>4, <1>5 DEF TodoOK
<1>7. Framed(work)'
  BY DEF Framed
<1> QED
  BY <1>6, <1>7

\* The blocks that have to be closed when the step is done.
NextHeld(open, inside) == (IF open THEN {builder'} ELSE {}) \cup (IF inside THEN {func'} ELSE {})

LEMMA AfterStep ==
    ASSUME NEW w, work' = w, UNCHANGED <<tree, text>>, TodoOK(w), Framed(w),
           NEW open \in BOOLEAN, open <=> w # <<>> /\ Opens(Head(w), fell'),
           NEW inside \in BOOLEAN, inside <=> InFunc(w),
           Ledger(code', NextHeld(open, inside), Pending(w)),
           inside => code_block' = builder' /\ (open => builder' # func')
    PROVE  EmitterOK'
<1>1. TodoOK(work)' /\ Framed(work)'
  BY TodoPrimed
<1>2. IsOpen(work, fell)' <=> open
  BY DEF IsOpen, Opens
<1>3. InFunc(work)' <=> inside
  BY DEF InFunc
<1>4. Held' = NextHeld(open, inside)
  BY <1>2, <1>3 DEF Held, HeldIf, NextHeld
<1>5. Pending(work)' = Pending(w)
  BY DEF Pending
<1>6. Ledger(code, Held, Pending(work))'
  BY <1>4, <1>5 DEF Ledger, IsCode, IsSeq, Unended, Terminated, IsEnd
<1>7. Placed(IsOpen(work, fell), InFunc(work))'
  BY <1>2, <1>3 DEF Placed
<1> QED
  BY <1>1, <1>6, <1>7 DEF EmitterOK, BlocksLeft

\* The blocks among `mine` and the new ones are those that the step deals with.
Rewrites(c, c2, mine, mine2) ==
    /\ IsCode(c2) /\ Len(c) <= Len(c2)
    /\ mine2 \subseteq mine \cup (Len(c) + 1..Len(c2))
    /\ \A b \in mine \cup (Len(c) + 1..Len(c2)) :
          IF b \in mine2 THEN Unended(c2[b]) ELSE Terminated(c2[b])
    /\ \A b \in 1..Len(c) : b \notin mine => c2[b] = c[b]

\* The blocks of a module before a step, and those that the step leaves.
Owed(c, held, claims, rest) == Ledger(c, held, claims \cup rest) /\ claims \cap rest = {}
Moves(c, c2, held, claims, held2, left) ==
    Rewrites(c, c2, held \cup claims, held2 \cup left) /\ held2 \cap left = {}
Moved(c2, held2, left, rest) == Ledger(c2, held2, left \cup rest) /\ left \cap rest = {}

LEMMA LedgerMoves ==
    ASSUME NEW c, NEW c2, NEW held, NEW claims, NEW rest, NEW held2, NEW left,
           Owed(c, held, claims, rest), Moves(c, c2, held, claims, held2, left)
    PROVE  Moved(c2, held2, left, rest)
<1>0. /\ Ledger(c, held, claims \cup rest) /\ claims \cap rest = {}
      /\ Rewrites(c, c2, held \cup claims, held2 \cup left) /\ held2 \cap left = {}
  BY DEF Owed, Moves
<1> DEFINE m == Len(c)
           n == Len(c2)
           mine == held \cup claims
           mine2 == held2 \cup left
<1>1. m \in Nat /\ n \in Nat /\ m <= n
  <2>1. m \in Nat
    BY <1>0, JoinFacts DEF Ledger, IsCode
  <2>2. n \in Nat /\ m <= n
    BY <1>0, JoinFacts DEF Rewrites, IsCode
  <2> QED
    BY <2>1, <2>2
<1>2. mine \cup rest \subseteq 1..m /\ mine \cap rest = {}
  BY <1>0 DEF Ledger
<1>3. /\ mine2 \subseteq mine \cup (m + 1..n)
      /\ \A b \in mine \cup (m + 1..n) : IF b \in mine2 THEN Unended(c2[b]) ELSE Terminated(c2[b])
      /\ \A b \in 1..m : b \notin mine => c2[b] = c[b]
  BY <1>0 DEF Rewrites
<1>4. \A b \in 1..m : IF b \in mine \cup rest THEN Unended(c[b]) ELSE Terminated(c[b])
  BY <1>0 DEF Ledger
<1> HIDE DEF m, n, mine
<1>5. 1..m \subseteq 1..n /\ (m + 1..n) \subseteq 1..n /\ (1..m) \cap (m + 1..n) = {}
      /\ \A b \in 1..n : b \in 1..m \/ b \in m + 1..n
  BY <1>1
<1>6. mine2 \cap rest = {} /\ mine2 \cup rest \subseteq 1..n
  BY <1>0, <1>2, <1>3, <1>5
<1>7. ASSUME NEW b \in 1..n PROVE IF b \in mine2 \cup rest THEN Unended(c2[b]) ELSE Terminated(c2[b])
  <2>1. CASE b \in mine \cup (m + 1..n)
    <3>1. b \notin rest
      BY <1>2, <1>5, <2>1
    <3> QED
      BY <1>3, <2>1, <3>1
  <2>2. CASE b \notin mine \cup (m + 1..n)
    <3>1. b \in 1..m /\ c2[b] = c[b] /\ b \notin mine2
      BY <1>3, <1>5, <2>2
    <3> QED
      BY <1>4, <2>2, <3>1
  <2> QED
    BY <2>1, <2>2
<1>8. IsCode(c2)
  BY <1>0 DEF Rewrites
<1> QED
  BY <1>0, <1>6, <1>7, <1>8 DEF Ledger, n, Moved

\* What the last of the new items must answer for the one that they replace.
Replaces(last, top) == (Falls(last) <=> Falls(top)) /\ (Answers(top) => Answers(last))

LEMMA ReplacesFits ==
    ASSUME NEW last, NEW top, Replaces(last, top), NEW next, Fits(top, next)
    PROVE  Fits(last, next)
BY DEF Replaces, Fits, Begins

\* What is known before a step inside a function.
LEMMA Before ==
    ASSUME EmitterOK, work # <<>>
    PROVE  /\ TodoOK(work) /\ Framed(work) /\ IsSeq(work) /\ ItemOK(Top)
           /\ TodoOK(Tail(work)) /\ IsSeq(Tail(work))
           /\ Tail(work) # <<>> => Fits(Top, Tail(work)[1]) /\ Head(Tail(work)) = Tail(work)[1]
           /\ Claims(Top) \cap Pending(Tail(work)) = {}
           /\ Pending(work) = Claims(Top) \cup Pending(Tail(work))
           /\ Ledger(code, Held, Claims(Top) \cup Pending(Tail(work)))
           /\ IsCode(code) /\ Len(code) \in Nat
<1>1. TodoOK(work) /\ Framed(work) /\ IsSeq(work) /\ Ledger(code, Held, Pending(work))
  BY DEF EmitterOK, BlocksLeft, TodoOK
<1>2. /\ TodoOK(Tail(work)) /\ ItemOK(Head(work))
      /\ Tail(work) # <<>> => Fits(Head(work), Tail(work)[1])
      /\ Claims(Head(work)) \cap Pending(Tail(work)) = {}
      /\ Pending(work) = Claims(Head(work)) \cup Pending(Tail(work))
  BY <1>1, TodoRest
<1>3. IsSeq(Tail(work)) /\ (Tail(work) # <<>> => Head(Tail(work)) = Tail(work)[1])
  BY <1>2, RestFacts DEF TodoOK
<1>4. IsCode(code) /\ IsSeq(code)
  BY <1>1 DEF Ledger, IsCode
<1>5. Len(code) \in Nat
  BY <1>4, JoinFacts
<1> QED
  BY <1>1, <1>2, <1>3, <1>4, <1>5 DEF Top

\* A step that puts other items in the place of the first one.
LEMMA ReplaceStep ==
    ASSUME EmitterOK, work # <<>>, Inner(Top), UNCHANGED <<tree, text>>,
           NEW todo, NEW first, NEW last, NEW left, Piece(todo, first, last, left), Replaces(last, Top),
           work' = todo \o Tail(work), code_block' = builder',
           NEW open \in BOOLEAN, open <=> Opens(first, fell'), open => builder' # func',
           NextHeld(open, TRUE) \cap left = {},
           Rewrites(code, code', Held \cup Claims(Top), NextHeld(open, TRUE) \cup left)
    PROVE  EmitterOK'
<1> DEFINE rest == Tail(work)
           w == todo \o rest
<1>1. TodoOK(todo) /\ Inners(todo) /\ Pending(todo) = left /\ todo # <<>> /\ todo[1] = first
      /\ todo[Len(todo)] = last /\ IsSeq(todo)
  BY DEF Piece, TodoOK
<1>2. /\ TodoOK(rest) /\ IsSeq(rest) /\ (rest # <<>> => Fits(last, rest[1]))
      /\ Ledger(code, Held, Claims(Top) \cup Pending(rest)) /\ Claims(Top) \cap Pending(rest) = {}
  BY Before, ReplacesFits
<1>3. Ledger(code', NextHeld(open, TRUE), left \cup Pending(rest)) /\ left \cap Pending(rest) = {}
  <2> HIDE DEF rest
  <2>1. Owed(code, Held, Claims(Top), Pending(rest))
    BY <1>2 DEF Owed
  <2>2. Moves(code, code', Held, Claims(Top), NextHeld(open, TRUE), left)
    BY DEF Moves
  <2>3. Moved(code', NextHeld(open, TRUE), left, Pending(rest))
    BY ONLY <2>1, <2>2, LedgerMoves
  <2> QED
    BY <2>3 DEF Moved
<1>4. TodoOK(w) /\ Pending(w) = left \cup Pending(rest)
  BY <1>1, <1>2, <1>3, TodoJoined
<1>5. Framed(w)
  <2>1. IsSeq(work) /\ Framed(work) /\ Inner(Head(work))
    BY Before DEF Top
  <2> QED
    BY <1>1, <2>1, FramedKeeps
<1>6. w # <<>> /\ Head(w) = first
  <2> HIDE DEF rest
  <2>1. /\ IsSeq(w) /\ Len(todo) \in Nat \ {0} /\ Len(rest) \in Nat /\ Len(w) = Len(todo) + Len(rest)
        /\ \A i \in 1..Len(todo) : w[i] = todo[i]
    BY <1>1, <1>2, JoinFacts, RestFacts
  <2>2. w # <<>> /\ 1 \in 1..Len(todo)
    <3>1. Len(w) # 0 /\ 1 \in 1..Len(todo)
      BY <2>1
    <3> QED
      BY <3>1, ShortSeqs
  <2>3. Head(w) = w[1] /\ w[1] = todo[1]
    BY <2>1, <2>2, RestFacts
  <2> QED
    BY <1>1, <2>2, <2>3
<1>7. first.do # "func"
  <2>1. Len(todo) \in Nat \ {0}
    BY <1>1, RestFacts
  <2>2. 1 \in 1..Len(todo)
    BY <2>1
  <2> QED
    BY <1>1, <2>2 DEF Inners, Inner
<1> HIDE DEF rest, w
<1>8. work' = w
  BY DEF w, rest
<1>9. InFunc(w)
  BY <1>6, <1>7 DEF InFunc
<1> QED
  BY <1>3, <1>4, <1>5, <1>6, <1>8, <1>9, AfterStep

\* A step that ends the first item.
LEMMA DropStep ==
    ASSUME EmitterOK, work # <<>>, Inner(Top), UNCHANGED <<tree, text>>,
           work' = Tail(work), code_block' = builder', Answers(Top) => (fell' <=> Falls(Top)),
           NEW open \in BOOLEAN, open <=> Falls(Top), open => builder' # func',
           Rewrites(code, code', Held \cup Claims(Top), NextHeld(open, TRUE))
    PROVE  EmitterOK'
<1> DEFINE w == Tail(work)
           next == w[1]
<1>1. /\ TodoOK(w) /\ IsSeq(w)
      /\ Ledger(code, Held, Claims(Top) \cup Pending(w)) /\ Claims(Top) \cap Pending(w) = {}
  BY Before
<1>2. Framed(w) /\ w # <<>> /\ Head(w).do # "func"
  <2>1. IsSeq(work) /\ Framed(work) /\ Inner(Head(work)) /\ IsSeq(<<>>) /\ Len(<<>>) = 0
    BY Before, ShortSeqs DEF Top
  <2>2. Inners(<<>>)
    <3>1. 1..0 = {}
      OBVIOUS
    <3> QED
      BY <2>1, <3>1 DEF Inners
  <2>3. <<>> \o w = w
    BY <1>1, <2>1, JoinFacts
  <2>4. Framed(<<>> \o w) /\ w # <<>> /\ Head(w).do # "func"
    BY <2>1, <2>2, FramedKeeps
  <2> QED
    BY <2>3, <2>4
<1>3. Ledger(code', NextHeld(open, TRUE), Pending(w))
  <2> HIDE DEF w
  <2>1. Owed(code, Held, Claims(Top), Pending(w))
    BY <1>1 DEF Owed
  <2>2. Moves(code, code', Held, Claims(Top), NextHeld(open, TRUE), {})
    BY DEF Moves
  <2>3. Moved(code', NextHeld(open, TRUE), {}, Pending(w))
    BY ONLY <2>1, <2>2, LedgerMoves
  <2>4. {} \cup Pending(w) = Pending(w)
    OBVIOUS
  <2> QED
    BY <2>3, <2>4 DEF Moved
<1>4. Head(w) = next /\ Fits(Top, next) /\ next.do # "func" /\ ItemOK(next)
  <2>1. Head(w) = next /\ Fits(Top, next)
    BY <1>2, Before
  <2>2. ItemOK(Head(w))
    BY <1>1, <1>2, TodoRest
  <2> QED
    BY <1>2, <2>1, <2>2
<1> HIDE DEF w, next
<1>5. open <=> Opens(next, fell')
  <2>1. Begins(next, Falls(Top)) /\ (next.do = "join" => Answers(Top))
    BY <1>4 DEF Fits
  <2>2. next.do \in {"body", "stmts", "fall", "join", "at", "leave", "else", "end", "ask", "test"}
    BY <1>4 DEF ItemOK, StmtsOK, ElseOK
  <2> QED
    BY <2>1, <2>2 DEF Begins, Opens
<1>6. work' = w /\ InFunc(w)
  BY <1>2 DEF w, InFunc
<1> QED
  BY <1>1, <1>2, <1>3, <1>4, <1>5, <1>6, AfterStep

(***************************************************************************)
(* What a step writes, put together                                        *)
(***************************************************************************)
Opened(c, mine) == IsCode(c) /\ mine \subseteq 1..Len(c) /\ \A b \in mine : Unended(c[b])

\* The open blocks that a step deals with, before it and after.
Turns(c, c2, mine, mine2) == Opened(c, mine) /\ Opened(c2, mine2) /\ Rewrites(c, c2, mine, mine2)

LEMMA TurnsSame ==
    ASSUME NEW c, NEW mine, Opened(c, mine)
    PROVE  Turns(c, c, mine, mine)
<1>1. Len(c) \in Nat
  BY JoinFacts DEF Opened, IsCode
<1>2. Len(c) + 1..Len(c) = {} /\ Len(c) <= Len(c)
  BY <1>1
<1> QED
  BY <1>2 DEF Turns, Opened, Rewrites

\* The new blocks.
News(n) == Len(code) + 1..Len(code) + n

LEMMA TurnsAdded ==
    ASSUME NEW mine, Opened(code, mine), NEW f, NEW n \in Nat
    PROVE  Turns(code, Added(f, n), mine, mine \cup News(n))
<1> DEFINE c == Added(f, n)
           m == Len(code)
<1>1. /\ IsCode(c) /\ Len(c) = m + n /\ m \in Nat
      /\ \A x \in 1..m : c[x] = code[x]
      /\ \A x \in m + 1..m + n : Unended(c[x])
  BY AddedFacts DEF Opened
<1> HIDE DEF c
<1>2. mine \subseteq 1..m /\ \A b \in mine : Unended(code[b])
  BY DEF Opened
<1> HIDE DEF m
<1>3. 1..m \subseteq 1..m + n /\ m + 1..m + n \subseteq 1..m + n /\ m <= m + n
  BY <1>1
<1>4. \A b \in mine \cup (m + 1..m + n) : Unended(c[b])
  BY <1>1, <1>2
<1>5. Opened(c, mine \cup (m + 1..m + n))
  BY <1>1, <1>2, <1>3, <1>4 DEF Opened
<1>6. Rewrites(code, c, mine, mine \cup (m + 1..m + n))
  BY <1>1, <1>3, <1>4 DEF Rewrites, m
<1> QED
  BY <1>5, <1>6 DEF Turns, News, c, m

LEMMA TurnsPut ==
    ASSUME NEW c, NEW c1, NEW mine, NEW mine1, Turns(c, c1, mine, mine1), NEW b \in mine1, NEW ins
    PROVE  /\ PlainIns(ins) => Turns(c, Put(c1, b, ins), mine, mine1)
           /\ EndingIns(ins) => Turns(c, Put(c1, b, ins), mine, mine1 \ {b})
<1>1. /\ IsCode(c1) /\ mine1 \subseteq 1..Len(c1) /\ \A x \in mine1 : Unended(c1[x])
      /\ IsCode(c) /\ mine \subseteq 1..Len(c)
      /\ Opened(c, mine)
  BY DEF Turns, Opened
<1>2. /\ Len(c) <= Len(c1)
      /\ mine1 \subseteq mine \cup (Len(c) + 1..Len(c1))
      /\ \A x \in mine \cup (Len(c) + 1..Len(c1)) : IF x \in mine1 THEN Unended(c1[x]) ELSE Terminated(c1[x])
      /\ \A x \in 1..Len(c) : x \notin mine => c1[x] = c[x]
  BY DEF Turns, Rewrites
<1>3. Len(c) \in Nat /\ Len(c1) \in Nat
  BY <1>1, JoinFacts DEF IsCode
<1>4. b \in 1..Len(c1)
  BY <1>1
<1> DEFINE m == Len(c)
           n == Len(c1)
<1> HIDE DEF m, n
<1>5. 1..m \subseteq 1..n /\ (m + 1..n) \subseteq 1..n /\ (1..m) \cap (m + 1..n) = {}
  BY <1>2, <1>3 DEF m, n
<1>6. ASSUME NEW c2, NEW ended \in BOOLEAN, Wrote(c1, c2, b, ended)
      PROVE  Turns(c, c2, mine, IF ended THEN mine1 \ {b} ELSE mine1)
  <2> DEFINE mine2 == IF ended THEN mine1 \ {b} ELSE mine1
  <2>1. /\ IsCode(c2) /\ Len(c2) = n
        /\ \A x \in 1..n : x # b => c2[x] = c1[x]
        /\ IF ended THEN Terminated(c2[b]) ELSE Unended(c2[b])
    BY <1>1, <1>6 DEF Wrote, n
  <2>2. mine2 \subseteq mine1 /\ (ended <=> b \notin mine2) /\ \A x : x # b => (x \in mine2 <=> x \in mine1)
    OBVIOUS
  <2> HIDE DEF mine2
  <2>3. ASSUME NEW x \in mine \cup (m + 1..n)
        PROVE  x \in 1..n /\ IF x \in mine2 THEN Unended(c2[x]) ELSE Terminated(c2[x])
    <3>1. x \in 1..n /\ IF x \in mine1 THEN Unended(c1[x]) ELSE Terminated(c1[x])
      BY <1>1, <1>2, <1>5 DEF m, n
    <3>2. CASE x = b
      BY <2>1, <2>2, <3>1, <3>2
    <3>3. CASE x # b
      BY <2>1, <2>2, <3>1, <3>3
    <3> QED
      BY <3>2, <3>3
  <2>4. mine2 \subseteq mine \cup (m + 1..n)
    BY <1>2, <2>2 DEF m, n
  <2>5. \A x \in 1..m : x \notin mine => c2[x] = c[x]
    <3> TAKE x \in 1..m
    <3> HAVE x \notin mine
    <3>1. x \notin mine1 /\ x \in 1..n /\ c1[x] = c[x]
      BY <1>2, <1>5 DEF m, n
    <3> QED
      BY <2>1, <3>1
  <2>6. Opened(c2, mine2)
    BY <2>1, <2>3, <2>4 DEF Opened
  <2>7. Rewrites(c, c2, mine, mine2)
    <3>1. /\ Len(c) <= Len(c2)
          /\ \A x \in mine \cup (m + 1..n) : IF x \in mine2 THEN Unended(c2[x]) ELSE Terminated(c2[x])
      BY <1>2, <2>1, <2>3 DEF n
    <3> QED
      BY <2>1, <2>4, <2>5, <3>1 DEF Rewrites, m
  <2>8. Turns(c, c2, mine, mine2)
    BY <1>1, <2>6, <2>7 DEF Turns
  <2> QED
    BY <2>8 DEF mine2
<1>7. /\ PlainIns(ins) => Wrote(c1, Put(c1, b, ins), b, FALSE)
      /\ EndingIns(ins) => Wrote(c1, Put(c1, b, ins), b, TRUE)
  BY <1>1, <1>4, Writes
<1>8. ASSUME PlainIns(ins) PROVE Turns(c, Put(c1, b, ins), mine, mine1)
  <2> DEFINE c2 == Put(c1, b, ins)
  <2>1. Wrote(c1, c2, b, FALSE)
    BY <1>7, <1>8
  <2> HIDE DEF c2
  <2>2. Turns(c, c2, mine, IF FALSE THEN mine1 \ {b} ELSE mine1)
    BY <1>6, <2>1
  <2> QED
    BY <2>2 DEF c2
<1>9. ASSUME EndingIns(ins) PROVE Turns(c, Put(c1, b, ins), mine, mine1 \ {b})
  <2> DEFINE c2 == Put(c1, b, ins)
  <2>1. Wrote(c1, c2, b, TRUE)
    BY <1>7, <1>9
  <2> HIDE DEF c2
  <2>2. Turns(c, c2, mine, IF TRUE THEN mine1 \ {b} ELSE mine1)
    BY <1>6, <2>1
  <2> QED
    BY <2>2 DEF c2
<1> QED
  BY <1>8, <1>9

\* What an item inside a function finds.
LEMMA Running ==
    ASSUME EmitterOK, work # <<>>, Top.do # "func"
    PROVE  /\ Opened(code, Held \cup Claims(Top)) /\ code_block = builder
           /\ Top.do \in {"body", "stmts", "fall", "leave", "ask", "test"} => Held = {builder, func} /\ builder # func
           /\ Top.do \in {"at", "else"} => Held = {func}
           /\ Top.do = "join" => IF fell THEN Held = {builder, func} /\ builder # func ELSE Held = {func}
           /\ Top.do = "end" => IF tree[Top.body].returns = "void"
                                THEN Held = {builder, func} /\ builder # func ELSE Held = {func}
<1>1. Ledger(code, Held, Claims(Top) \cup Pending(Tail(work)))
  BY Before
<1>2. Opened(code, Held \cup Claims(Top))
  BY <1>1 DEF Ledger, Opened
<1>3. InFunc(work) /\ (IsOpen(work, fell) <=> Opens(Top, fell))
  BY DEF InFunc, IsOpen, Top
<1>4. Held = (IF Opens(Top, fell) THEN {builder} ELSE {}) \cup {func}
  BY <1>3 DEF Held, HeldIf
<1>5. code_block = builder /\ (Opens(Top, fell) => builder # func)
  BY <1>3 DEF EmitterOK, BlocksLeft, Placed
<1>6. /\ Top.do \in {"body", "stmts", "fall", "leave", "ask", "test"} => Opens(Top, fell)
      /\ Top.do \in {"at", "else"} => ~Opens(Top, fell)
      /\ Top.do = "join" => (Opens(Top, fell) <=> fell)
      /\ Top.do = "end" => (Opens(Top, fell) <=> tree[Top.body].returns = "void")
  BY DEF Opens
<1> QED
  BY <1>2, <1>4, <1>5, <1>6

\* Other items in the place of the first one, and an open block.
LEMMA OpenStep ==
    ASSUME EmitterOK, work # <<>>, Inner(Top), UNCHANGED vars,
           NEW todo, NEW first, NEW last, NEW left, Piece(todo, first, last, left), Replaces(last, Top),
           work' = todo \o Tail(work), code_block' = builder',
           Opens(first, fell'), builder' # func', {builder', func'} \cap left = {},
           NEW mine2, mine2 = {builder', func'} \cup left,
           Turns(code, code', Held \cup Claims(Top), mine2)
    PROVE  EmitterOK'
<1>1. NextHeld(TRUE, TRUE) = {builder', func'}
  BY DEF NextHeld
<1>2. Rewrites(code, code', Held \cup Claims(Top), NextHeld(TRUE, TRUE) \cup left)
  BY <1>1 DEF Turns
<1>3. UNCHANGED <<tree, text>>
  BY DEF vars
<1> QED
  BY <1>1, <1>2, <1>3, ReplaceStep

LEMMA StmtsPiece ==
    ASSUME NEW b \in 1..Len(tree), NEW n \in Nat \ {0}
    PROVE  LET x == [do |-> "stmts", body |-> b, n |-> n]
           IN  /\ Piece(<<x>>, x, x, {}) /\ StmtsOK(x) /\ Opens(x, fell')
               /\ (Falls(x) <=> ~ExitsFrom(b, n)) /\ Answers(x)
<1> DEFINE x == [do |-> "stmts", body |-> b, n |-> n]
<1>1. x.do = "stmts" /\ x.body = b /\ x.n = n /\ StmtsOK(x)
  BY DEF StmtsOK
<1> HIDE DEF x
<1>2. ItemOK(x) /\ Inner(x) /\ Claims(x) = {} /\ Opens(x, fell')
  <2>1. ItemOK(x)
    BY <1>1 DEF ItemOK
  <2>2. Inner(x) /\ Claims(x) = {} /\ Opens(x, fell')
    BY <1>1 DEF Inner, Claims, GoesBack, Opens
  <2> QED
    BY <2>1, <2>2
<1>3. (Falls(x) <=> ~ExitsFrom(b, n)) /\ Answers(x)
  BY <1>1 DEF Falls, Answers, GoesBack
<1>4. Piece(<<x>>, x, x, {})
  BY <1>2, PieceOne
<1> QED
  BY <1>1, <1>2, <1>3, <1>4 DEF x

LEMMA EmitBodyKeeps ==
    ASSUME EmitterOK, UNCHANGED vars, EmitBody
    PROVE  EmitterOK'
<1> DEFINE b == Top.body
           x == [do |-> "stmts", body |-> b, n |-> 1]
           ins == <<Mark(b)>>
<1>1. /\ work # <<>> /\ Top.do = "body" /\ code' = Put(code, builder, ins)
      /\ work' = <<x>> \o Tail(work)
      /\ builder' = builder /\ code_block' = code_block /\ func' = func /\ fell' = fell
  BY DEF EmitBody, Doing, Then
<1>2. b \in 1..Len(tree)
  BY <1>1, Before DEF ItemOK, StmtsOK, ElseOK
<1>3. Inner(Top) /\ Claims(Top) = {} /\ (Falls(Top) <=> ~ExitsFrom(b, 1))
  BY <1>1 DEF Inner, Claims, GoesBack, Falls
<1>4. Piece(<<x>>, x, x, {}) /\ Replaces(x, Top) /\ Opens(x, fell')
  BY <1>2, <1>3, StmtsPiece DEF Replaces
<1>5. /\ Held = {builder, func} /\ builder # func /\ code_block = builder
      /\ Opened(code, Held \cup Claims(Top))
  BY <1>1, Running
<1>6. PlainIns(ins)
  BY InsFacts
<1> HIDE DEF ins, x, b
<1>7. Turns(code, code', Held \cup Claims(Top), {builder', func'} \cup {})
  <2>1. Held \cup Claims(Top) = {builder, func} /\ {builder', func'} \cup {} = {builder, func}
    BY <1>1, <1>3, <1>5
  <2>2. Turns(code, code, {builder, func}, {builder, func})
    BY <1>5, <2>1, TurnsSame
  <2>3. Turns(code, Put(code, builder, ins), {builder, func}, {builder, func})
    BY <1>6, <2>2, TurnsPut
  <2> QED
    BY <1>1, <2>1, <2>3
<1> QED
  BY <1>1, <1>3, <1>4, <1>5, <1>7, OpenStep
\* The statement that llvm_body is at.
LEMMA StmtFound ==
    ASSUME IInv, Annotated, ~failed, ItemOK(Top), Top.do = "stmts"
    PROVE  /\ Top.body \in 1..Len(tree) /\ Top.n \in Nat \ {0} /\ StmtsOK(Top)
           /\ defers[Top.body] \in Seq(DefersIn(tree))
           /\ Len(text[Top.body]) \in Nat
           /\ Top.n <= Len(text[Top.body]) => Top.n \in 1..Len(text[Top.body]) /\ S \in Linked(tree)
<1> DEFINE b == Top.body
           n == Top.n
           stmts == text[b]
<1>1. StmtsOK(Top)
  BY DEF ItemOK, ElseOK
<1>2. b \in 1..Len(tree) /\ n \in Nat \ {0}
  BY <1>1 DEF StmtsOK
<1>3. Len(text) = Len(tree) /\ Len(defers) = Len(tree)
  BY DEF IInv, CallsInv
<1>4. defers \in Seq(Seq(DefersIn(tree))) /\ text \in Seq(Seq(Linked(tree)))
  BY DEF Annotated
<1> HIDE DEF b, n
<1>5. defers[b] \in Seq(DefersIn(tree)) /\ stmts \in Seq(Linked(tree))
  BY <1>2, <1>3, <1>4, ElementOfSeq
<1> HIDE DEF stmts
<1>6. Len(stmts) \in Nat
  BY <1>5, LenProperties
<1>7. ASSUME n <= Len(stmts) PROVE n \in 1..Len(stmts) /\ stmts[n] \in Linked(tree)
  <2>1. n \in 1..Len(stmts)
    BY <1>2, <1>6, <1>7
  <2> QED
    BY <1>5, <2>1, ElementOfSeq
<1> QED
  BY <1>1, <1>2, <1>5, <1>6, <1>7 DEF S, b, n, stmts

LEMMA ExitsNext ==
    ASSUME NEW b, Len(text[b]) \in Nat, NEW n \in Nat \ {0}
    PROVE  /\ n > Len(text[b]) => ~ExitsFrom(b, n)
           /\ n <= Len(text[b]) => (ExitsFrom(b, n) <=> text[b][n].kind \in Exits \/ ExitsFrom(b, n + 1))
<1> DEFINE m == Len(text[b])
<1> HIDE DEF m
<1>0. m \in Nat
  BY DEF m
<1>1. n > m => n..m = {}
  BY <1>0
<1>2. n <= m => n \in n..m /\ \A i \in n..m : i = n \/ i \in n + 1..m
  BY <1>0
<1>3. n + 1..m \subseteq n..m
  BY <1>0
<1> QED
  BY <1>1, <1>2, <1>3 DEF ExitsFrom, m

\* A statement that is no exit is followed by the next one.
LEMMA OnwardPiece ==
    ASSUME StmtsOK(Top), Top.n \in Nat \ {0}
    PROVE  LET x == [do |-> "stmts", body |-> Top.body, n |-> Top.n + 1]
           IN  /\ Onward = <<x>> /\ Piece(Onward, x, x, {}) /\ StmtsOK(x) /\ Answers(x)
               /\ Opens(x, fell') /\ (Falls(x) <=> ~ExitsFrom(Top.body, Top.n + 1))
<1> DEFINE x == [do |-> "stmts", body |-> Top.body, n |-> Top.n + 1]
<1>1. Top \in [do : {"stmts"}, body : 1..Len(tree), n : Nat \ {0}] /\ Top.n + 1 \in Nat \ {0}
  BY DEF StmtsOK
<1>2. [Top EXCEPT !.n = @ + 1] = x
  <2> DEFINE t == Top
  <2> HIDE DEF t
  <2>1. t \in [do : {"stmts"}, body : 1..Len(tree), n : Nat \ {0}] => 
        [t EXCEPT !.n = @ + 1] = [do |-> "stmts", body |-> t.body, n |-> t.n + 1]
    OBVIOUS
  <2> QED
    BY <1>1, <2>1 DEF t
<1>3. /\ Piece(<<x>>, x, x, {}) /\ StmtsOK(x) /\ Opens(x, fell')
      /\ (Falls(x) <=> ~ExitsFrom(Top.body, Top.n + 1)) /\ Answers(x)
  <2>1. Top.body \in 1..Len(tree)
    BY <1>1
  <2> QED
    BY <1>1, <2>1, StmtsPiece
<1>4. Onward = <<x>>
  BY <1>2 DEF Onward
<1> HIDE DEF x
<1>5. Piece(Onward, x, x, {})
  BY <1>3, <1>4
<1> QED
  BY <1>3, <1>4, <1>5 DEF x

\* What holds at a statement that is no exit.
LEMMA AtStmt ==
    ASSUME IInv, Annotated, ~failed, EmitterOK, NEW kinds, Emitting(kinds), kinds \cap Exits = {}
    PROVE  \E x : /\ Onward = <<x>> /\ Piece(Onward, x, x, {}) /\ Replaces(x, Top) /\ StmtsOK(x)
                  /\ Opens(x, fell') /\ x.body = Top.body /\ x.n = Top.n + 1
                  /\ (Falls(Top) <=> ~ExitsFrom(x.body, x.n))
                  /\ work # <<>> /\ Top.do = "stmts" /\ Inner(Top) /\ Claims(Top) = {}
                  /\ S \in Linked(tree) /\ S.kind \in kinds
                  /\ Held = {builder, func} /\ builder # func /\ code_block = builder
                  /\ Opened(code, {builder, func}) /\ Held \cup Claims(Top) = {builder, func}
<1> DEFINE x == [do |-> "stmts", body |-> Top.body, n |-> Top.n + 1]
<1>1. work # <<>> /\ Top.do = "stmts" /\ Top.n <= Len(text[Top.body]) /\ S.kind \in kinds
  BY DEF Emitting, Doing
<1>2. ItemOK(Top)
  BY <1>1, Before
<1>3. /\ Top.body \in 1..Len(tree) /\ Top.n \in Nat \ {0} /\ StmtsOK(Top)
      /\ Len(text[Top.body]) \in Nat /\ S \in Linked(tree)
  BY <1>1, <1>2, StmtFound
<1>4. Inner(Top) /\ Claims(Top) = {} /\ (Falls(Top) <=> ~ExitsFrom(Top.body, Top.n))
  BY <1>1 DEF Inner, Claims, GoesBack, Falls
<1>5. /\ Onward = <<x>> /\ Piece(Onward, x, x, {}) /\ StmtsOK(x) /\ Answers(x)
      /\ Opens(x, fell') /\ (Falls(x) <=> ~ExitsFrom(Top.body, Top.n + 1))
  BY <1>3, OnwardPiece
<1>6. ExitsFrom(Top.body, Top.n) <=> ExitsFrom(Top.body, Top.n + 1)
  BY <1>1, <1>3, ExitsNext DEF S
<1>7. /\ Held = {builder, func} /\ builder # func /\ code_block = builder
      /\ Opened(code, Held \cup Claims(Top))
  BY <1>1, Running
<1>8. Held \cup Claims(Top) = {builder, func}
  BY <1>4, <1>7
<1>9. x.body = Top.body /\ x.n = Top.n + 1
  OBVIOUS
<1> HIDE DEF x
<1>10. Replaces(x, Top)
  BY <1>4, <1>5, <1>6 DEF Replaces
<1> WITNESS x
<1> QED
  BY <1>1, <1>3, <1>4, <1>5, <1>6, <1>7, <1>8, <1>9, <1>10

LEMMA EmitPlainKeeps ==
    ASSUME IInv, Annotated, ~failed, EmitterOK, UNCHANGED vars, EmitPlain
    PROVE  EmitterOK'
<1> DEFINE ins == Local("use", S.decl)
<1>1. /\ Emitting({"use", "defer"}) /\ {"use", "defer"} \cap Exits = {}
      /\ code' = Put(code, builder, ins) \/ code' = code
      /\ work' = Onward \o Tail(work)
      /\ builder' = builder /\ code_block' = code_block /\ func' = func /\ fell' = fell
  BY DEF EmitPlain, Exits, Then
<1>2. PICK x : /\ Piece(Onward, x, x, {}) /\ Replaces(x, Top) /\ Opens(x, fell')
               /\ work # <<>> /\ Inner(Top) /\ builder # func /\ code_block = builder
               /\ Opened(code, {builder, func}) /\ Held \cup Claims(Top) = {builder, func}
  BY <1>1, AtStmt
<1>3. PlainIns(ins)
  BY InsFacts
<1> HIDE DEF ins
<1>4. Turns(code, code', Held \cup Claims(Top), {builder, func})
  <2>1. Turns(code, code, {builder, func}, {builder, func})
    BY <1>2, TurnsSame
  <2>2. Turns(code, Put(code, builder, ins), {builder, func}, {builder, func})
    BY <1>3, <2>1, TurnsPut
  <2> QED
    BY <1>1, <1>2, <2>1, <2>2
<1>5. {builder, func} = {builder', func'} \cup {} /\ {builder', func'} \cap {} = {}
  BY <1>1
<1> QED
  BY <1>1, <1>2, <1>4, <1>5, OpenStep

LEMMA EmitDeclKeeps ==
    ASSUME IInv, Annotated, ~failed, EmitterOK, UNCHANGED vars, EmitDecl
    PROVE  EmitterOK'
<1> DEFINE ins == <<Ins("def", S.decl)>>
<1>1. /\ Emitting({"decl"}) /\ {"decl"} \cap Exits = {}
      /\ \/ code' = Put(code, builder, ins) /\ builder' = builder
         \/ code' = Put(code, func, ins) /\ builder' = code_block
      /\ work' = Onward \o Tail(work)
      /\ code_block' = code_block /\ func' = func /\ fell' = fell
  BY DEF EmitDecl, Exits, Then
<1>2. PICK x : /\ Piece(Onward, x, x, {}) /\ Replaces(x, Top) /\ Opens(x, fell')
               /\ work # <<>> /\ Inner(Top) /\ builder # func /\ code_block = builder
               /\ Opened(code, {builder, func}) /\ Held \cup Claims(Top) = {builder, func}
  BY <1>1, AtStmt
<1>3. PlainIns(ins)
  BY InsFacts
<1> HIDE DEF ins
<1>4. Turns(code, code', Held \cup Claims(Top), {builder, func})
  <2>1. Turns(code, code, {builder, func}, {builder, func})
    BY <1>2, TurnsSame
  <2>2. \A b \in {builder, func} : Turns(code, Put(code, b, ins), {builder, func}, {builder, func})
    BY <1>3, <2>1, TurnsPut
  <2> QED
    BY <1>1, <1>2, <2>2
<1>5. {builder, func} = {builder', func'} \cup {} /\ {builder', func'} \cap {} = {} /\ builder' = builder
  BY <1>1, <1>2
<1> QED
  BY <1>1, <1>2, <1>4, <1>5, OpenStep

\* The way out on null is closed at once, and the builder's block with it.
LEMMA OnNullTurns ==
    ASSUME Opened(code, {builder, func}), builder # func, ReturnOnNull, func' = func
    PROVE  /\ Turns(code, code', {builder, func}, {builder', func'})
           /\ builder' # func' /\ code_block' = builder'
<1> DEFINE n == Len(code)
           new == Added(func, 2)
           cond == <<CondBr(n + 1, n + 1 + 1)>>
           ret == <<Ret>>
<1>1. /\ code' = Put(Put(new, builder, cond), n + 1, ret)
      /\ builder' = n + 1 + 1 /\ code_block' = n + 1 + 1
  BY DEF ReturnOnNull, PositionAt, NewBlock
<1>3. EndingIns(cond) /\ EndingIns(ret)
  BY InsFacts
<1>4. n \in Nat /\ builder \in 1..n /\ func \in 1..n
  BY JoinFacts DEF Opened, IsCode
<1>5. Turns(code, new, {builder, func}, {builder, func} \cup News(2)) /\ News(2) = {n + 1, n + 1 + 1}
  <2>1. News(2) = {n + 1, n + 1 + 1}
    BY <1>4 DEF News
  <2> QED
    BY <2>1, TurnsAdded
<1> HIDE DEF cond, ret, new, n
<1>6. Turns(code, Put(new, builder, cond), {builder, func}, ({builder, func} \cup News(2)) \ {builder})
  BY <1>3, <1>5, TurnsPut
<1>7. Turns(code, code', {builder, func}, (({builder, func} \cup News(2)) \ {builder}) \ {n + 1})
  <2>1. n + 1 \in ({builder, func} \cup News(2)) \ {builder}
    BY <1>4, <1>5
  <2> QED
    BY <1>1, <1>3, <1>6, <2>1, TurnsPut
<1>8. /\ (({builder, func} \cup News(2)) \ {builder}) \ {n + 1} = {builder', func'}
      /\ builder' # func'
  BY <1>1, <1>4, <1>5
<1> QED
  BY <1>1, <1>7, <1>8

LEMMA EmitTryKeeps ==
    ASSUME IInv, Annotated, ~failed, EmitterOK, UNCHANGED vars, EmitTry
    PROVE  EmitterOK'
<1>1. /\ Emitting({"try"}) /\ {"try"} \cap Exits = {}
      /\ ReturnOnNull /\ work' = Onward \o Tail(work) /\ func' = func /\ fell' = fell
  BY DEF EmitTry, Exits, Then
<1>2. PICK x : /\ Piece(Onward, x, x, {}) /\ Replaces(x, Top) /\ Opens(x, fell')
               /\ work # <<>> /\ Inner(Top) /\ builder # func
               /\ Opened(code, {builder, func}) /\ Held \cup Claims(Top) = {builder, func}
  BY <1>1, AtStmt
<1>3. /\ Turns(code, code', {builder, func}, {builder', func'})
      /\ builder' # func' /\ code_block' = builder'
  BY <1>1, <1>2, OnNullTurns
<1>4. Turns(code, code', Held \cup Claims(Top), {builder', func'} \cup {}) /\ {builder', func'} \cap {} = {}
  BY <1>2, <1>3
<1> QED
  BY <1>1, <1>2, <1>3, <1>4, OpenStep

LEMMA EndBodyKeeps ==
    ASSUME IInv, Annotated, ~failed, EndsWell, EmitterOK, UNCHANGED vars, EndBody
    PROVE  EmitterOK'
<1> DEFINE z == [do |-> "fall"]
           bodies == defers[Top.body]
           todo == Calls(bodies) \o <<z>>
<1>1. /\ work # <<>> /\ Top.do = "stmts" /\ Top.n > Len(text[Top.body])
      /\ work' = todo \o Tail(work)
      /\ code' = code /\ builder' = builder /\ code_block' = code_block /\ func' = func /\ fell' = fell
  BY DEF EndBody, Doing, Then
<1>2. ItemOK(Top)
  BY <1>1, Before
<1>3. bodies \in Seq(DefersIn(tree)) /\ Top.n \in Nat \ {0} /\ Len(text[Top.body]) \in Nat
  BY <1>1, <1>2, StmtFound
<1>4. z.do = "fall" /\ ItemOK(z) /\ Inner(z) /\ Claims(z) = {} /\ Falls(z) /\ Answers(z)
  BY DEF ItemOK, Inner, Claims, GoesBack, Falls, Answers
<1> HIDE DEF z, bodies
<1>5. PICK first : Piece(todo, first, z, {}) /\ first.do \in {"body", "fall", "leave", "ask"}
  <2>1. Piece(<<z>>, z, z, {})
    BY <1>4, PieceOne
  <2> QED
    BY <1>3, <1>4, <2>1, PieceCalls
<1> HIDE DEF todo
<1>6. Inner(Top) /\ Claims(Top) = {} /\ (Falls(Top) <=> ~ExitsFrom(Top.body, Top.n)) /\ Opens(first, fell')
  BY <1>1, <1>5 DEF Inner, Claims, GoesBack, Falls, Opens
<1>7. Replaces(z, Top)
  BY <1>1, <1>3, <1>4, <1>6, ExitsNext DEF Replaces
<1>8. /\ Held = {builder, func} /\ builder # func /\ code_block = builder
      /\ Opened(code, Held \cup Claims(Top))
  BY <1>1, Running
<1>9. Turns(code, code', Held \cup Claims(Top), {builder', func'} \cup {})
  <2>1. Held \cup Claims(Top) = {builder', func'} \cup {}
    BY <1>1, <1>6, <1>8
  <2> QED
    BY <1>1, <1>8, <2>1, TurnsSame
<1>10. {builder', func'} \cap {} = {} /\ builder' # func' /\ code_block' = builder'
  BY <1>1, <1>8
<1> QED
  BY <1>1, <1>5, <1>6, <1>7, <1>9, <1>10, OpenStep

\* An `expr?` before what is done with the value.
LEMMA AskingPiece ==
    ASSUME NEW what, NEW b, NEW todo, NEW first, NEW last, NEW left, Piece(todo, first, last, left),
           first.do \in {"leave", "test"}
    PROVE  \E f : Piece(Asking(what, b, todo), f, last, left) /\ f.do \in {first.do, "ask"}
<1> DEFINE x == [do |-> "ask"]
<1>1. x.do = "ask"
  OBVIOUS
<1>2. Asking(what, b, todo) = todo \/ Asking(what, b, todo) = <<x>> \o todo
  BY DEF Asking
<1> HIDE DEF x
<1>3. ItemOK(x) /\ Inner(x) /\ Claims(x) = {} /\ Falls(x)
  BY <1>1 DEF ItemOK, Inner, Claims, GoesBack, Falls
<1>4. Piece(<<x>>, x, x, {})
  BY <1>3, PieceOne
<1>5. Fits(x, first)
  BY <1>3 DEF Fits, Begins
<1>6. Piece(<<x>> \o todo, x, last, {} \cup left)
  BY <1>4, <1>5, PieceJoined
<1>7. Piece(<<x>> \o todo, x, last, left)
  BY <1>6
<1> QED
  BY <1>1, <1>2, <1>7

LEMMA EmitExitKeeps ==
    ASSUME IInv, Annotated, ~failed, EndsWell, EmitterOK, UNCHANGED vars, EmitExit
    PROVE  EmitterOK'
<1> DEFINE z == [do |-> "leave", exit |-> S]
           bodies == S.defers
           value == Asking(S.kind, Top.body, <<z>>)
           todo == Calls(bodies) \o value
<1>1. /\ work # <<>> /\ Top.do = "stmts" /\ Top.n <= Len(text[Top.body]) /\ S.kind \in Exits
      /\ work' = todo \o Tail(work)
      /\ code' = code /\ builder' = builder /\ code_block' = code_block /\ func' = func /\ fell' = fell
  BY DEF EmitExit, Emitting, Doing, Then
<1>2. ItemOK(Top)
  BY <1>1, Before
<1>3. S \in Linked(tree) /\ Top.n \in Nat \ {0} /\ Len(text[Top.body]) \in Nat
  BY <1>1, <1>2, StmtFound
<1>4. bodies \in Seq(DefersIn(tree))
  BY <1>1, <1>3 DEF Linked
<1>5. z.do = "leave" /\ ItemOK(z) /\ Inner(z) /\ Claims(z) = {} /\ ~Falls(z) /\ Answers(z)
  BY DEF ItemOK, Inner, Claims, GoesBack, Falls, Answers
<1> HIDE DEF z, bodies
<1>6. PICK first : Piece(todo, first, z, {}) /\ first.do \in {"body", "fall", "leave", "ask"}
  <2>1. Piece(<<z>>, z, z, {})
    BY <1>5, PieceOne
  <2>2. PICK f : Piece(value, f, z, {}) /\ f.do \in {"leave", "ask"}
    BY <1>5, <2>1, AskingPiece
  <2> HIDE DEF value
  <2> QED
    BY <1>4, <2>2, PieceCalls
<1> HIDE DEF todo
<1>7. Inner(Top) /\ Claims(Top) = {} /\ (Falls(Top) <=> ~ExitsFrom(Top.body, Top.n)) /\ Opens(first, fell')
  BY <1>1, <1>6 DEF Inner, Claims, GoesBack, Falls, Opens
<1>8. ExitsFrom(Top.body, Top.n)
  BY <1>1, <1>3, ExitsNext DEF S
<1>9. Replaces(z, Top)
  BY <1>5, <1>7, <1>8 DEF Replaces
<1>10. /\ Held = {builder, func} /\ builder # func /\ code_block = builder
       /\ Opened(code, Held \cup Claims(Top))
  BY <1>1, Running
<1>11. Turns(code, code', Held \cup Claims(Top), {builder', func'} \cup {})
  <2>1. Held \cup Claims(Top) = {builder', func'} \cup {}
    BY <1>1, <1>7, <1>10
  <2> QED
    BY <1>1, <1>10, <2>1, TurnsSame
<1>12. {builder', func'} \cap {} = {} /\ builder' # func' /\ code_block' = builder'
  BY <1>1, <1>10
<1> QED
  BY <1>1, <1>6, <1>7, <1>9, <1>11, <1>12, OpenStep

\* The first item is done.
LEMMA EndStep ==
    ASSUME EmitterOK, work # <<>>, Inner(Top), UNCHANGED vars,
           work' = <<>> \o Tail(work), code_block' = builder', Answers(Top) => (fell' <=> Falls(Top)),
           NEW open \in BOOLEAN, open <=> Falls(Top), open => builder' # func',
           NEW mine, mine = Held \cup Claims(Top),
           NEW mine2, mine2 = NextHeld(open, TRUE), Turns(code, code', mine, mine2)
    PROVE  EmitterOK'
<1>1. work' = Tail(work)
  <2>1. IsSeq(Tail(work)) /\ IsSeq(<<>>)
    BY Before, ShortSeqs
  <2> QED
    BY <2>1, JoinFacts
<1>2. Rewrites(code, code', Held \cup Claims(Top), NextHeld(open, TRUE))
  BY DEF Turns
<1>3. UNCHANGED <<tree, text>>
  BY DEF vars
<1> QED
  BY <1>1, <1>2, <1>3, DropStep

LEMMA FallKeeps ==
    ASSUME EmitterOK, UNCHANGED vars, Fall
    PROVE  EmitterOK'
<1>1. /\ work # <<>> /\ Top.do = "fall" /\ work' = <<>> \o Tail(work) /\ fell' = TRUE
      /\ code' = code /\ builder' = builder /\ code_block' = code_block /\ func' = func
  BY DEF Fall, Doing, Then
<1>2. Inner(Top) /\ Claims(Top) = {} /\ Falls(Top)
  BY <1>1 DEF Inner, Claims, GoesBack, Falls
<1>3. /\ Held = {builder, func} /\ builder # func /\ code_block = builder
      /\ Opened(code, Held \cup Claims(Top))
  BY <1>1, Running
<1>4. NextHeld(TRUE, TRUE) = Held \cup Claims(Top)
  BY <1>1, <1>2, <1>3 DEF NextHeld
<1>5. Turns(code, code', Held \cup Claims(Top), Held \cup Claims(Top))
  BY <1>1, <1>3, TurnsSame
<1>6. builder' # func' /\ code_block' = builder'
  BY <1>1, <1>3
<1> QED
  BY <1>1, <1>2, <1>4, <1>5, <1>6, EndStep

LEMMA LeaveKeeps ==
    ASSUME EmitterOK, UNCHANGED vars, Leave
    PROVE  EmitterOK'
<1> DEFINE out == IF Top.exit.kind = "return" THEN Ret ELSE Br(targets[Top.exit.loop.body][Top.exit.kind])
           ins == <<out>>
<1>1. /\ work # <<>> /\ Top.do = "leave" /\ work' = <<>> \o Tail(work) /\ fell' = FALSE
      /\ code' = Put(code, builder, ins)
      /\ builder' = builder /\ code_block' = code_block /\ func' = func
  BY DEF Leave, Doing, Then
<1>2. Inner(Top) /\ Claims(Top) = {} /\ ~Falls(Top)
  BY <1>1 DEF Inner, Claims, GoesBack, Falls
<1>3. /\ Held = {builder, func} /\ builder # func /\ code_block = builder
      /\ Opened(code, Held \cup Claims(Top))
  BY <1>1, Running
<1>4. EndingIns(ins)
  BY InsFacts
<1> HIDE DEF ins
<1>5. Turns(code, code', {builder, func}, {builder, func} \ {builder})
  <2>1. Held \cup Claims(Top) = {builder, func}
    BY <1>2, <1>3
  <2>2. Turns(code, code, {builder, func}, {builder, func})
    BY <1>3, <2>1, TurnsSame
  <2> QED
    BY <1>1, <1>4, <2>2, TurnsPut
<1>6. NextHeld(FALSE, TRUE) = {builder, func} \ {builder} /\ {builder, func} = Held \cup Claims(Top)
  BY <1>1, <1>2, <1>3 DEF NextHeld
<1> QED
  BY <1>1, <1>2, <1>3, <1>5, <1>6, EndStep

LEMMA JoinKeeps ==
    ASSUME EmitterOK, UNCHANGED vars, Join
    PROVE  EmitterOK'
<1> DEFINE ins == <<Br(Top.to)>>
<1>1. /\ work # <<>> /\ Top.do = "join" /\ work' = <<>> \o Tail(work) /\ fell' = fell
      /\ code' = IF fell THEN Put(code, builder, ins) ELSE code
      /\ builder' = builder /\ code_block' = code_block /\ func' = func
  BY DEF Join, Doing, Then
<1>2. Inner(Top) /\ Claims(Top) = {} /\ ~Falls(Top) /\ ~Answers(Top)
  BY <1>1 DEF Inner, Claims, GoesBack, Falls, Answers
<1>3. /\ IF fell THEN Held = {builder, func} /\ builder # func ELSE Held = {func}
      /\ code_block = builder /\ Opened(code, Held \cup Claims(Top))
  BY <1>1, Running
<1>4. EndingIns(ins)
  BY InsFacts
<1> HIDE DEF ins
<1>5. Turns(code, code', Held \cup Claims(Top), {func})
  <2>1. Turns(code, code, Held \cup Claims(Top), Held \cup Claims(Top))
    BY <1>3, TurnsSame
  <2>2. CASE fell
    <3>1. Held \cup Claims(Top) = {builder, func} /\ {func} = {builder, func} \ {builder}
      BY <1>2, <1>3, <2>2
    <3>2. Turns(code, Put(code, builder, ins), {builder, func}, {builder, func} \ {builder})
      BY <1>4, <2>1, <3>1, TurnsPut
    <3> QED
      BY <1>1, <2>2, <3>1, <3>2
  <2>3. CASE ~fell
    <3>1. Held \cup Claims(Top) = {func}
      BY <1>2, <1>3, <2>3
    <3> QED
      BY <1>1, <2>1, <2>3, <3>1
  <2> QED
    BY <2>2, <2>3
<1>6. NextHeld(FALSE, TRUE) = {func}
  BY <1>1 DEF NextHeld
<1> QED
  BY <1>1, <1>2, <1>3, <1>5, <1>6, EndStep

LEMMA AtKeeps ==
    ASSUME EmitterOK, UNCHANGED vars, At
    PROVE  EmitterOK'
<1>1. /\ work # <<>> /\ Top.do = "at" /\ work' = <<>> \o Tail(work) /\ fell' = fell
      /\ code' = code /\ builder' = Top.to /\ code_block' = Top.to /\ func' = func
  BY DEF At, Doing, Then, PositionAt
<1>2. Inner(Top) /\ Claims(Top) = {Top.to} /\ Falls(Top) /\ ~Answers(Top)
  BY <1>1 DEF Inner, Claims, GoesBack, Falls, Answers
<1>3. Held = {func} /\ Opened(code, Held \cup Claims(Top)) /\ Held \cap Claims(Top) = {}
  <2>1. Ledger(code, Held, Claims(Top) \cup Pending(Tail(work)))
    BY <1>1, Before
  <2>2. Held \cap Claims(Top) = {}
    BY <2>1 DEF Ledger
  <2> QED
    BY <1>1, <2>2, Running
<1>4. NextHeld(TRUE, TRUE) = Held \cup Claims(Top) /\ builder' # func'
  BY <1>1, <1>2, <1>3 DEF NextHeld
<1>5. Turns(code, code', Held \cup Claims(Top), Held \cup Claims(Top))
  BY <1>1, <1>3, TurnsSame
<1>6. code_block' = builder'
  BY <1>1
<1> QED
  BY <1>1, <1>2, <1>4, <1>5, <1>6, EndStep

LEMMA EmitAskKeeps ==
    ASSUME EmitterOK, UNCHANGED vars, EmitAsk
    PROVE  EmitterOK'
<1>1. /\ work # <<>> /\ Top.do = "ask" /\ work' = <<>> \o Tail(work)
      /\ ReturnOnNull /\ func' = func
  BY DEF EmitAsk, Doing, Then
<1>2. Inner(Top) /\ Claims(Top) = {} /\ Falls(Top) /\ ~Answers(Top)
  BY <1>1 DEF Inner, Claims, GoesBack, Falls, Answers
<1>3. /\ Held = {builder, func} /\ builder # func
      /\ Opened(code, Held \cup Claims(Top)) /\ Held \cup Claims(Top) = {builder, func}
  BY <1>1, <1>2, Running
<1>4. /\ Turns(code, code', {builder, func}, {builder', func'})
      /\ builder' # func' /\ code_block' = builder'
  BY <1>1, <1>3, OnNullTurns
<1>5. NextHeld(TRUE, TRUE) = {builder', func'} /\ {builder, func} = Held \cup Claims(Top)
  BY <1>3 DEF NextHeld
<1> QED
  BY <1>1, <1>2, <1>4, <1>5, EndStep

\* The branch on a condition: the builder goes to the block for true.
LEMMA EmitTestKeeps ==
    ASSUME EmitterOK, UNCHANGED vars, EmitTest
    PROVE  EmitterOK'
<1> DEFINE test == Local("def", Top.binds) \o <<CondBr(Top.yes, Top.no)>>
           yes == Top.yes
<1>1. /\ work # <<>> /\ Top.do = "test" /\ work' = <<>> \o Tail(work)
      /\ code' = Put(code, builder, test) /\ builder' = yes /\ code_block' = yes /\ func' = func
  BY DEF EmitTest, Doing, Then, PositionAt
<1>2. Inner(Top) /\ Claims(Top) = {yes} /\ Falls(Top) /\ ~Answers(Top)
  BY <1>1 DEF Inner, Claims, GoesBack, Falls, Answers
<1>3. EndingIns(test)
  BY InsFacts
<1> HIDE DEF test, yes
<1>4. Held = {builder, func} /\ builder # func /\ Opened(code, Held \cup Claims(Top))
  BY <1>1, Running
<1>5. Held \cap Claims(Top) = {}
  <2>1. Ledger(code, Held, Claims(Top) \cup Pending(Tail(work)))
    BY <1>1, Before
  <2> QED
    BY <2>1 DEF Ledger
<1>6. Held \cup Claims(Top) = {builder, func, yes} /\ yes # builder /\ yes # func
  BY <1>2, <1>4, <1>5
<1>7. Turns(code, code', {builder, func, yes}, {builder, func, yes} \ {builder})
  <2>1. Turns(code, code, {builder, func, yes}, {builder, func, yes})
    BY <1>4, <1>6, TurnsSame
  <2> QED
    BY <1>1, <1>3, <2>1, TurnsPut
<1>8. NextHeld(TRUE, TRUE) = {builder, func, yes} \ {builder}
  BY <1>1, <1>4, <1>6 DEF NextHeld
<1>9. builder' # func' /\ code_block' = builder'
  BY <1>1, <1>6
<1> QED
  BY <1>1, <1>2, <1>6, <1>7, <1>8, <1>9, EndStep

LEMMA PairFacts == \A x, y : <<x>> \o <<y>> = <<x, y>>
<1> TAKE x, y
<1> DEFINE X == {x, y}
           a == <<x>>
           b == <<y>>
           c == <<x, y>>
           d == a \o b
<1>1. a \in Seq(X) /\ b \in Seq(X) /\ c \in Seq(X)
  OBVIOUS
<1>2. Len(a) = 1 /\ Len(b) = 1 /\ Len(c) = 2 /\ a[1] = x /\ b[1] = y /\ c[1] = x /\ c[2] = y
  OBVIOUS
<1> HIDE DEF X, a, b, c
<1>3. /\ d \in Seq(X) /\ Len(d) = Len(a) + Len(b)
      /\ \A i \in 1..Len(a) + Len(b) : d[i] = IF i <= Len(a) THEN a[i] ELSE b[i - Len(a)]
  BY ONLY <1>1, ConcatProperties
<1> HIDE DEF d
<1>4. Len(d) = Len(c) /\ \A i \in 1..2 : d[i] = c[i]
  BY <1>2, <1>3
<1>5. d = c
  BY <1>1, <1>2, <1>3, <1>4, SeqEqual
<1> QED
  BY <1>5 DEF a, b, c, d

\* A body, then what follows it: the branch out of it, and the item that
\* takes the emitter to the next block.
JoinItem(b) == [do |-> "join", to |-> b]
CallItem(b) == [do |-> "body", body |-> b]

LEMMA ItemFacts ==
    /\ \A b : /\ ItemOK(JoinItem(b)) /\ Inner(JoinItem(b)) /\ Claims(JoinItem(b)) = {} /\ ~Falls(JoinItem(b))
              /\ JoinItem(b).do = "join"
    /\ \A b \in 1..Len(tree) :
              /\ ItemOK(CallItem(b)) /\ Inner(CallItem(b)) /\ Claims(CallItem(b)) = {}
              /\ (Falls(CallItem(b)) <=> ~ExitsFrom(b, 1)) /\ Answers(CallItem(b))
              /\ CallItem(b).do = "body"
              /\ Piece(Call(b), CallItem(b), CallItem(b), {})
    /\ \A b : LET y == [do |-> "at", to |-> b]
              IN  /\ ItemOK(y) /\ Inner(y) /\ Claims(y) = {b} /\ Falls(y) /\ ~Answers(y) /\ y.do = "at"
<1>1. ASSUME NEW b
      PROVE  /\ ItemOK(JoinItem(b)) /\ Inner(JoinItem(b)) /\ Claims(JoinItem(b)) = {} /\ ~Falls(JoinItem(b))
             /\ JoinItem(b).do = "join"
  <2> DEFINE y == JoinItem(b)
  <2>1. y.do = "join"
    BY DEF JoinItem
  <2> HIDE DEF y
  <2>2. ItemOK(y) /\ Inner(y) /\ Claims(y) = {} /\ ~Falls(y)
    BY <2>1 DEF ItemOK, Inner, Claims, GoesBack, Falls
  <2> QED
    BY <2>1, <2>2 DEF y
<1>2. ASSUME NEW b \in 1..Len(tree)
      PROVE  /\ ItemOK(CallItem(b)) /\ Inner(CallItem(b)) /\ Claims(CallItem(b)) = {}
             /\ (Falls(CallItem(b)) <=> ~ExitsFrom(b, 1)) /\ Answers(CallItem(b))
             /\ CallItem(b).do = "body"
             /\ Piece(Call(b), CallItem(b), CallItem(b), {})
  <2> DEFINE y == CallItem(b)
  <2>1. y.do = "body" /\ y.body = b /\ Call(b) = <<y>>
    BY DEF CallItem, Call, Calls
  <2> HIDE DEF y
  <2>2. ItemOK(y) /\ Inner(y) /\ Claims(y) = {}
    BY <2>1 DEF ItemOK, Inner, Claims, GoesBack
  <2>3. (Falls(y) <=> ~ExitsFrom(b, 1)) /\ Answers(y)
    BY <2>1 DEF GoesBack, Falls, Answers
  <2>4. Piece(Call(b), y, y, {})
    BY <2>1, <2>2, PieceOne
  <2> QED
    BY <2>1, <2>2, <2>3, <2>4 DEF y
<1>3. ASSUME NEW b
      PROVE  LET y == [do |-> "at", to |-> b]
             IN  /\ ItemOK(y) /\ Inner(y) /\ Claims(y) = {b} /\ Falls(y) /\ ~Answers(y) /\ y.do = "at"
  <2> DEFINE y == [do |-> "at", to |-> b]
  <2>1. y.do = "at" /\ y.to = b
    OBVIOUS
  <2> HIDE DEF y
  <2>2. ItemOK(y) /\ Inner(y) /\ Claims(y) = {b} /\ Falls(y) /\ ~Answers(y)
    BY <2>1 DEF ItemOK, Inner, Claims, GoesBack, Falls, Answers
  <2> QED
    BY <2>1, <2>2 DEF y
<1> QED
  BY <1>1, <1>2, <1>3

LEMMA JoinPiece ==
    ASSUME NEW j, NEW y, ItemOK(y), Inner(y), y.do \in {"at", "else"}
    PROVE  Piece(<<JoinItem(j), y>>, JoinItem(j), y, Claims(y))
<1> DEFINE x == JoinItem(j)
<1>1. ItemOK(x) /\ Inner(x) /\ Claims(x) = {} /\ ~Falls(x)
  BY ItemFacts
<1> HIDE DEF x
<1>2. Piece(<<x>>, x, x, {}) /\ Piece(<<y>>, y, y, Claims(y))
  BY <1>1, PieceOne
<1>3. Fits(x, y)
  BY <1>1 DEF Fits, Begins
<1>4. Piece(<<x>> \o <<y>>, x, y, {} \cup Claims(y))
  BY <1>2, <1>3, PieceJoined
<1>5. Piece(<<x, y>>, x, y, Claims(y))
  BY <1>4, PairFacts
<1> QED
  BY <1>5 DEF x

LEMMA BranchPiece ==
    ASSUME NEW b \in 1..Len(tree), NEW j, NEW y, ItemOK(y), Inner(y), y.do \in {"at", "else"}
    PROVE  Piece(Call(b) \o <<JoinItem(j), y>>, CallItem(b), y, Claims(y))
<1> DEFINE x == JoinItem(j)
           c == CallItem(b)
<1>1. Piece(<<x, y>>, x, y, Claims(y))
  BY JoinPiece
<1>2. x.do = "join" /\ Answers(c) /\ Piece(Call(b), c, c, {})
  BY ItemFacts
<1> HIDE DEF x, c
<1>3. Fits(c, x)
  BY <1>2 DEF Fits, Begins
<1> DEFINE two == <<x, y>>
<1> HIDE DEF two
<1>4. Piece(Call(b) \o two, c, y, {} \cup Claims(y))
  BY <1>1, <1>2, <1>3, PieceJoined DEF two
<1>5. Piece(Call(b) \o two, c, y, Claims(y))
  BY <1>4
<1> QED
  BY <1>5 DEF two, x, c

\* ... and back to the statements.
LEMMA BranchOnward ==
    ASSUME NEW b \in 1..Len(tree), NEW j, NEW y, ItemOK(y), Inner(y), y.do \in {"at", "else"},
           NEW x, Piece(Onward, x, x, {}), StmtsOK(x)
    PROVE  Piece(Call(b) \o <<JoinItem(j), y>> \o Onward, CallItem(b), x, Claims(y))
<1> DEFINE p == Call(b) \o <<JoinItem(j), y>>
<1>1. Piece(p, CallItem(b), y, Claims(y))
  BY BranchPiece
<1>2. Fits(y, x)
  BY DEF Fits, Begins, StmtsOK, Falls
<1> HIDE DEF p
<1>3. Piece(p \o Onward, CallItem(b), x, Claims(y) \cup {})
  BY <1>1, <1>2, PieceJoined
<1>4. Piece(p \o Onward, CallItem(b), x, Claims(y))
  BY <1>3
<1> QED
  BY <1>4 DEF p

\* The blocks are numbered from 1 on, and a function's are its own.
LEMMA BlockNumbers ==
    ASSUME Opened(code, {builder, func})
    PROVE  Len(code) \in Nat /\ builder \in 1..Len(code) /\ func \in 1..Len(code)
BY JoinFacts DEF Opened, IsCode

LEMMA NewsAre ==
    ASSUME Len(code) \in Nat
    PROVE  /\ News(2) = {NewBlock, NewBlock + 1} /\ News(3) = {NewBlock, NewBlock + 1, NewBlock + 2}
           /\ NewBlock \notin 1..Len(code) /\ NewBlock + 1 \notin 1..Len(code) /\ NewBlock + 2 \notin 1..Len(code)
           /\ NewBlock # NewBlock + 1 /\ NewBlock # NewBlock + 2 /\ NewBlock + 1 # NewBlock + 2
BY DEF News, NewBlock

\* A condition, then the body for which it is true.
LEMMA TestingPiece ==
    ASSUME NEW branch, NEW yes, NEW no, NEW todo, NEW first, NEW last, NEW left,
           Piece(todo, first, last, left), first.do = "body", yes \notin left
    PROVE  \E f : Piece(Testing(branch, yes, no, todo), f, last, {yes} \cup left) /\ Opens(f, fell')
<1> DEFINE x == [do |-> "test", binds |-> branch.binds, yes |-> yes, no |-> no]
           t == <<x>> \o todo
<1>1. x.do = "test" /\ x.yes = yes
  OBVIOUS
<1>2. Testing(branch, yes, no, todo) = Asking("condition", branch.body, t)
  BY DEF Testing
<1> HIDE DEF x
<1>3. ItemOK(x) /\ Inner(x) /\ Claims(x) = {yes} /\ Falls(x)
  BY <1>1 DEF ItemOK, Inner, Claims, GoesBack, Falls
<1>4. Piece(<<x>>, x, x, {yes})
  BY <1>3, PieceOne
<1>5. Fits(x, first)
  BY <1>3 DEF Fits, Begins
<1>6. Piece(t, x, last, {yes} \cup left)
  BY <1>4, <1>5, PieceJoined
<1> HIDE DEF t
<1>7. PICK f : Piece(Asking("condition", branch.body, t), f, last, {yes} \cup left) /\ f.do \in {"test", "ask"}
  BY <1>1, <1>6, AskingPiece
<1>8. Opens(f, fell')
  BY <1>7 DEF Opens
<1> QED
  BY <1>2, <1>7, <1>8

LEMMA EmitWhileKeeps ==
    ASSUME IInv, Annotated, ~failed, EmitterOK, UNCHANGED vars, EmitWhile
    PROVE  EmitterOK'
<1> DEFINE b == S.loop.body
           cond == NewBlock
           body == NewBlock + 1
           end == NewBlock + 2
           y == [do |-> "at", to |-> end]
           inside == Call(b) \o <<JoinItem(cond), y>> \o Onward
           branch == [body |-> b, binds |-> S.binds]
           todo == Testing(branch, body, end, inside)
           br == <<Br(cond)>>
           new == Added(func, 3)
<1>1. /\ Emitting({"while"}) /\ {"while"} \cap Exits = {}
      /\ code' = Put(new, builder, br)
      /\ builder' = cond /\ code_block' = cond /\ func' = func /\ fell' = fell
      /\ work' = todo \o Tail(work)
  BY DEF EmitWhile, Exits, Then, PositionAt, JoinItem
<1>2. PICK x : /\ Piece(Onward, x, x, {}) /\ Replaces(x, Top) /\ StmtsOK(x)
               /\ work # <<>> /\ Inner(Top) /\ S \in Linked(tree) /\ S.kind \in {"while"}
               /\ builder # func /\ Opened(code, {builder, func}) /\ Held \cup Claims(Top) = {builder, func}
  BY <1>1, AtStmt
<1>3. b \in 1..Len(tree)
  BY <1>2 DEF Linked
<1>4. ItemOK(y) /\ Inner(y) /\ Claims(y) = {end} /\ y.do = "at"
  BY ItemFacts
<1>5. EndingIns(br)
  BY InsFacts
<1>7. /\ Len(code) \in Nat /\ builder \in 1..Len(code) /\ func \in 1..Len(code)
      /\ News(3) = {cond, body, end}
      /\ cond \notin 1..Len(code) /\ body \notin 1..Len(code) /\ end \notin 1..Len(code)
      /\ cond # body /\ cond # end /\ body # end
  BY <1>2, BlockNumbers, NewsAre
<1> HIDE DEF b, y, br, branch, new, cond, body, end
<1>6. PICK first : Piece(todo, first, x, {body, end}) /\ Opens(first, fell')
  <2>1. Piece(inside, CallItem(b), x, Claims(y))
    BY <1>2, <1>3, <1>4, BranchOnward
  <2>2. CallItem(b).do = "body"
    BY <1>3, ItemFacts
  <2>3. Piece(inside, CallItem(b), x, {end}) /\ body \notin {end}
    BY <1>4, <1>7, <2>1
  <2> HIDE DEF inside
  <2>4. PICK first : Piece(todo, first, x, {body} \cup {end}) /\ Opens(first, fell')
    BY <2>2, <2>3, TestingPiece
  <2>5. {body} \cup {end} = {body, end}
    OBVIOUS
  <2> HIDE DEF todo
  <2> QED
    BY <2>4, <2>5
<1>8. Turns(code, new, {builder, func}, {builder, func} \cup News(3))
  BY <1>2, TurnsAdded DEF new
<1> HIDE DEF todo
<1>9. Turns(code, code', {builder, func}, ({builder, func} \cup News(3)) \ {builder})
  BY <1>1, <1>5, <1>8, TurnsPut
<1>11. /\ ({builder, func} \cup News(3)) \ {builder} = {builder', func'} \cup {body, end}
       /\ builder' # func' /\ {builder', func'} \cap {body, end} = {} /\ code_block' = builder'
  BY <1>1, <1>2, <1>7
<1>12. Turns(code, code', Held \cup Claims(Top), {builder', func'} \cup {body, end})
  BY <1>2, <1>9, <1>11
<1> QED
  BY <1>1, <1>2, <1>6, <1>11, <1>12, OpenStep

ElseItem(if, n, to, end) == [do |-> "else", if |-> if, n |-> n, to |-> to, end |-> end]
ElseFine(y, to, end) ==
    ItemOK(y) /\ Inner(y) /\ Claims(y) = {to, end} /\ y.do = "else" /\ Falls(y)

LEMMA ElseFacts ==
    ASSUME NEW s, s.branches \in Seq([body : 1..Len(tree), binds : Decl]),
           NEW n \in Nat \ {0}, NEW to, NEW end, to # end
    PROVE  ElseFine(ElseItem(s, n, to, end), to, end)
<1> DEFINE y == ElseItem(s, n, to, end)
<1>1. /\ y.do = "else" /\ y.if = s /\ y.to = to /\ y.end = end
      /\ y \in [do : {"else"}, if : {s}, n : Nat \ {0}, to : {to}, end : {end}]
  BY DEF ElseItem
<1> HIDE DEF y
<1>2. ItemOK(y)
  BY <1>1 DEF ItemOK, ElseOK
<1>3. Inner(y) /\ Claims(y) = {to, end} /\ Falls(y)
  BY <1>1 DEF Inner, Claims, GoesBack, Falls
<1> QED
  BY <1>1, <1>2, <1>3 DEF y, ElseFine

LEMMA EmitIfKeeps ==
    ASSUME IInv, Annotated, ~failed, EmitterOK, UNCHANGED vars, EmitIf
    PROVE  EmitterOK'
<1> DEFINE b == S.branches[1].body
           start == NewBlock
           else == NewBlock + 1
           end == NewBlock + 2
           y == ElseItem(S, 2, else, end)
           inside == Call(b) \o <<JoinItem(end), y>> \o Onward
           todo == Testing(S.branches[1], start, else, inside)
<1>1. /\ Emitting({"if"}) /\ {"if"} \cap Exits = {}
      /\ code' = Added(func, 3)
      /\ builder' = builder /\ code_block' = code_block /\ func' = func /\ fell' = fell
      /\ work' = todo \o Tail(work)
  BY DEF EmitIf, Exits, Then, JoinItem, ElseItem
<1>2. PICK x : /\ Piece(Onward, x, x, {}) /\ Replaces(x, Top) /\ StmtsOK(x)
               /\ work # <<>> /\ Inner(Top) /\ S \in Linked(tree) /\ S.kind \in {"if"}
               /\ builder # func /\ code_block = builder /\ Opened(code, {builder, func}) /\ Held \cup Claims(Top) = {builder, func}
  BY <1>1, AtStmt
<1>3. S.branches \in Seq([body : 1..Len(tree), binds : Decl]) /\ S.branches # <<>>
  BY <1>2 DEF Linked
<1>4. b \in 1..Len(tree)
  <2> DEFINE bs == S.branches
             B == [body : 1..Len(tree), binds : Decl]
  <2>1. bs \in Seq(B) /\ bs # <<>>
    BY <1>3
  <2> HIDE DEF bs, B
  <2>2. 1 \in 1..Len(bs)
    BY <2>1, EmptySeq, LenProperties
  <2>3. bs[1] \in B
    BY <2>1, <2>2, ElementOfSeq
  <2> QED
    BY <2>3 DEF bs, B
<1>7. /\ Len(code) \in Nat /\ builder \in 1..Len(code) /\ func \in 1..Len(code)
      /\ News(3) = {start, else, end}
      /\ start \notin 1..Len(code) /\ else \notin 1..Len(code) /\ end \notin 1..Len(code)
      /\ start # else /\ start # end /\ else # end
  BY <1>2, BlockNumbers, NewsAre
<1> HIDE DEF b, start, else, end
<1>8. ItemOK(y) /\ Inner(y) /\ Claims(y) = {else, end} /\ y.do = "else"
  <2> DEFINE s == S
             two == 2
  <2>1. s.branches \in Seq([body : 1..Len(tree), binds : Decl])
    BY <1>3
  <2>1a. two \in Nat \ {0}
    OBVIOUS
  <2>1b. else # end
    BY <1>7
  <2> HIDE DEF s, two
  <2>2. ElseFine(ElseItem(s, two, else, end), else, end)
    BY ONLY <2>1, <2>1a, <2>1b, ElseFacts
  <2> QED
    BY <2>2 DEF s, two, ElseFine
<1> HIDE DEF y
<1>6. PICK first : Piece(todo, first, x, {start, else, end}) /\ Opens(first, fell')
  <2>1. Piece(inside, CallItem(b), x, Claims(y))
    BY <1>2, <1>4, <1>8, BranchOnward
  <2>2. CallItem(b).do = "body"
    BY <1>4, ItemFacts
  <2>3. Piece(inside, CallItem(b), x, {else, end}) /\ start \notin {else, end}
    BY <1>7, <1>8, <2>1
  <2> HIDE DEF inside
  <2>4. PICK first : Piece(todo, first, x, {start} \cup {else, end}) /\ Opens(first, fell')
    BY <2>2, <2>3, TestingPiece
  <2>5. {start} \cup {else, end} = {start, else, end}
    OBVIOUS
  <2> HIDE DEF todo
  <2> QED
    BY <2>4, <2>5
<1> HIDE DEF todo
<1>9. Turns(code, code', {builder, func}, {builder, func} \cup News(3))
  BY <1>1, <1>2, TurnsAdded
<1>11. /\ {builder, func} \cup News(3) = {builder', func'} \cup {start, else, end}
       /\ builder' # func' /\ {builder', func'} \cap {start, else, end} = {} /\ code_block' = builder'
  BY <1>1, <1>2, <1>7
<1>12. Turns(code, code', Held \cup Claims(Top), {builder', func'} \cup {start, else, end})
  BY <1>2, <1>9, <1>11
<1> QED
  BY <1>1, <1>2, <1>6, <1>11, <1>12, OpenStep

\* What holds at the else of an if.
LEMMA AtElse ==
    ASSUME EmitterOK, Doing("else")
    PROVE  /\ work # <<>> /\ Top.do = "else" /\ ElseOK(Top) /\ Inner(Top)
           /\ Top.n \in Nat \ {0} /\ Top.to # Top.end
           /\ Top.if.branches \in Seq([body : 1..Len(tree), binds : Decl])
           /\ Top.n <= Len(Top.if.branches) => Top.if.branches[Top.n].body \in 1..Len(tree)
           /\ Falls(Top) /\ ~Answers(Top)
           /\ Claims(Top) = {Top.to, Top.end} /\ Held = {func}
           /\ func \notin {Top.to, Top.end}
           /\ Opened(code, {func, Top.to, Top.end}) /\ Held \cup Claims(Top) = {func, Top.to, Top.end}
           /\ Len(code) \in Nat /\ {func, Top.to, Top.end} \subseteq 1..Len(code)
<1>1. work # <<>> /\ Top.do = "else"
  BY DEF Doing
<1>2. ElseOK(Top)
  BY <1>1, Before DEF ItemOK, StmtsOK
<1>3. /\ Top.n \in Nat \ {0} /\ Top.to # Top.end
      /\ Top.if.branches \in Seq([body : 1..Len(tree), binds : Decl])
  BY <1>2 DEF ElseOK
<1>4. ASSUME Top.n <= Len(Top.if.branches) PROVE Top.if.branches[Top.n].body \in 1..Len(tree)
  <2> DEFINE bs == Top.if.branches
             B == [body : 1..Len(tree), binds : Decl]
             n == Top.n
  <2>1. bs \in Seq(B) /\ n \in Nat \ {0} /\ n <= Len(bs)
    BY <1>3, <1>4
  <2> HIDE DEF bs, B, n
  <2>2. n \in 1..Len(bs)
    BY <2>1, LenProperties
  <2>3. bs[n] \in B
    BY <2>1, <2>2, ElementOfSeq
  <2> QED
    BY <2>3 DEF bs, B, n
<1>5. Inner(Top) /\ Claims(Top) = {Top.to, Top.end} /\ Falls(Top) /\ ~Answers(Top)
  BY <1>1 DEF Inner, Claims, GoesBack, Falls, Answers
<1>6. Held = {func} /\ Opened(code, Held \cup Claims(Top))
  BY <1>1, Running
<1>7. Held \cap Claims(Top) = {}
  <2>1. Ledger(code, Held, Claims(Top) \cup Pending(Tail(work)))
    BY <1>1, Before
  <2> QED
    BY <2>1 DEF Ledger
<1>8. Held \cup Claims(Top) = {func, Top.to, Top.end} /\ func \notin {Top.to, Top.end}
  BY <1>5, <1>6, <1>7
<1>9. Len(code) \in Nat /\ {func, Top.to, Top.end} \subseteq 1..Len(code)
  BY <1>6, <1>8, JoinFacts DEF Opened, IsCode
<1> QED
  BY <1>1, <1>2, <1>3, <1>4, <1>5, <1>6, <1>8, <1>9

LEMMA EmitElseIfKeeps ==
    ASSUME EmitterOK, UNCHANGED vars, EmitElseIf
    PROVE  EmitterOK'
<1> DEFINE branch == Top.if.branches[Top.n]
           b == branch.body
           next == NewBlock
           body == NewBlock + 1
           at == Top.to
           end == Top.end
           y == ElseItem(Top.if, Top.n + 1, next, end)
           inside == Call(b) \o <<JoinItem(end), y>>
           todo == Testing(branch, body, next, inside)
           more == [Top EXCEPT !.n = @ + 1, !.to = next]
<1>1. /\ Doing("else") /\ Top.n <= Len(Top.if.branches)
      /\ code' = Added(func, 2)
      /\ builder' = at /\ code_block' = at /\ func' = func /\ fell' = fell
      /\ work' = Testing(branch, body, next, Call(b) \o <<JoinItem(end), more>>) \o Tail(work)
  BY DEF EmitElseIf, Then, PositionAt, JoinItem
<1>2. /\ work # <<>> /\ Top.do = "else" /\ ElseOK(Top) /\ Inner(Top)
      /\ Top.n \in Nat \ {0}
      /\ Top.if.branches \in Seq([body : 1..Len(tree), binds : Decl])
      /\ b \in 1..Len(tree)
      /\ Falls(Top) /\ ~Answers(Top)
      /\ func \notin {at, end} /\ at # end
      /\ Opened(code, {func, at, end}) /\ Held \cup Claims(Top) = {func, at, end}
      /\ Len(code) \in Nat /\ {func, at, end} \subseteq 1..Len(code)
  BY <1>1, AtElse
<1>3. more = y
  <2> DEFINE t == Top
  <2>1. t \in [do : {"else"}, if : {t.if}, n : Nat \ {0}, to : {t.to}, end : {t.end}]
    BY <1>2 DEF ElseOK
  <2> HIDE DEF t, next
  <2>2. /\ t = [do |-> "else", if |-> t.if, n |-> t.n, to |-> t.to, end |-> t.end]
    BY <2>1
  <2>3. \A s, n, to, end2, m : [[do |-> "else", if |-> s, n |-> n, to |-> to, end |-> end2] EXCEPT !.n = m]
                               = [do |-> "else", if |-> s, n |-> m, to |-> to, end |-> end2]
    OBVIOUS
  <2>4. \A s, n, to, end2, m : [[do |-> "else", if |-> s, n |-> n, to |-> to, end |-> end2] EXCEPT !.to = m]
                               = [do |-> "else", if |-> s, n |-> n, to |-> m, end |-> end2]
    OBVIOUS
  <2>5. [t EXCEPT !.n = t.n + 1] = [do |-> "else", if |-> t.if, n |-> t.n + 1, to |-> t.to, end |-> t.end]
    BY <2>2, <2>3
  <2>6. [[t EXCEPT !.n = t.n + 1] EXCEPT !.to = next] = ElseItem(t.if, t.n + 1, next, t.end)
    <3> DEFINE t2 == [t EXCEPT !.n = t.n + 1]
               m == t.n + 1
               r(x) == [do |-> "else", if |-> t.if, n |-> m, to |-> x, end |-> t.end]
    <3>1. t2 = r(t.to) /\ [r(t.to) EXCEPT !.to = next] = r(next)
      BY <2>4, <2>5
    <3>2. ElseItem(t.if, m, next, t.end) = r(next)
      BY DEF ElseItem
    <3> HIDE DEF t2, r, m
    <3>3. [t2 EXCEPT !.to = next] = ElseItem(t.if, m, next, t.end)
      BY <3>1, <3>2
    <3> QED
      BY <3>3 DEF t2, m
  <2> QED
    BY <2>6 DEF t
<1>4. /\ News(2) = {next, body}
      /\ next \notin 1..Len(code) /\ body \notin 1..Len(code) /\ next # body
  BY <1>2, NewsAre
<1>6. Top.n + 1 \in Nat \ {0} /\ next # end
  <2>1. Top.n \in Nat \ {0} /\ end \in 1..Len(code) /\ next \notin 1..Len(code)
    BY <1>2, <1>4
  <2>2. \A n \in Nat \ {0} : n + 1 \in Nat \ {0}
    OBVIOUS
  <2>3. Top.n + 1 \in Nat \ {0}
    BY <2>1, <2>2
  <2>4. next # end
    BY <2>1
  <2> QED
    BY <2>3, <2>4
<1> HIDE DEF next, body
<1>7. ItemOK(y) /\ Inner(y) /\ Claims(y) = {next, end} /\ y.do = "else" /\ Falls(y)
  <2>1. ElseFine(y, next, end)
    BY <1>2, <1>6, ElseFacts
  <2> HIDE DEF y
  <2> QED
    BY <2>1 DEF ElseFine
<1> HIDE DEF y
<1>8. PICK first : Piece(todo, first, y, {body, next, end}) /\ Opens(first, fell')
  <2>1. Piece(inside, CallItem(b), y, Claims(y))
    BY <1>2, <1>7, BranchPiece
  <2>2. CallItem(b).do = "body"
    BY <1>2, ItemFacts
  <2>3. Piece(inside, CallItem(b), y, {next, end}) /\ body \notin {next, end}
    BY <1>2, <1>4, <1>7, <2>1
  <2> HIDE DEF inside
  <2>4. PICK first : Piece(todo, first, y, {body} \cup {next, end}) /\ Opens(first, fell')
    BY <2>2, <2>3, TestingPiece
  <2>5. {body} \cup {next, end} = {body, next, end}
    OBVIOUS
  <2> HIDE DEF todo
  <2> QED
    BY <2>4, <2>5
<1>9. work' = todo \o Tail(work) /\ Replaces(y, Top)
  <2>1. work' = todo \o Tail(work)
    BY <1>1, <1>3
  <2> HIDE DEF todo
  <2> QED
    BY <1>2, <1>7, <2>1 DEF Replaces
<1> HIDE DEF todo
<1>10. Turns(code, code', {func, at, end}, {func, at, end} \cup News(2))
  BY <1>1, <1>2, TurnsAdded
<1>12. /\ {func, at, end} \cup News(2) = {builder', func'} \cup {body, next, end}
       /\ builder' # func' /\ {builder', func'} \cap {body, next, end} = {} /\ code_block' = builder'
  BY <1>1, <1>2, <1>4
<1>13. Turns(code, code', Held \cup Claims(Top), {builder', func'} \cup {body, next, end})
  BY <1>2, <1>10, <1>12
<1> QED
  BY <1>1, <1>2, <1>8, <1>9, <1>12, <1>13, OpenStep

LEMMA EmitElseKeeps ==
    ASSUME EmitterOK, UNCHANGED vars, EmitElse
    PROVE  EmitterOK'
<1> DEFINE b == Top.if.branches[Top.n].body
           end == Top.end
           y == [do |-> "at", to |-> end]
           pair == <<JoinItem(end), y>>
<1>1. /\ Doing("else") /\ code' = code
      /\ builder' = Top.to /\ code_block' = Top.to /\ func' = func
      /\ IF Top.n <= Len(Top.if.branches)
         THEN fell' = fell /\ work' = Call(b) \o pair \o Tail(work)
         ELSE fell' = TRUE /\ work' = pair \o Tail(work)
  BY DEF EmitElse, Then, PositionAt, JoinItem
<1>2. /\ work # <<>> /\ Inner(Top)
      /\ Top.n <= Len(Top.if.branches) => b \in 1..Len(tree)
      /\ Falls(Top) /\ ~Answers(Top)
      /\ func \notin {Top.to, end} /\ Top.to # end
      /\ Opened(code, {func, Top.to, end}) /\ Held \cup Claims(Top) = {func, Top.to, end}
  BY <1>1, AtElse
<1>3. ItemOK(y) /\ Inner(y) /\ Claims(y) = {end} /\ Falls(y) /\ ~Answers(y) /\ y.do = "at"
  BY ItemFacts
<1> HIDE DEF y
<1>4. Replaces(y, Top)
  BY <1>2, <1>3 DEF Replaces
<1>5. Turns(code, code', Held \cup Claims(Top), {builder', func'} \cup {end})
  <2>1. {func, Top.to, end} = {builder', func'} \cup {end}
    BY <1>1
  <2>2. Turns(code, code, {func, Top.to, end}, {func, Top.to, end})
    BY <1>2, TurnsSame
  <2> QED
    BY <1>1, <1>2, <2>1, <2>2
<1>6. builder' # func' /\ {builder', func'} \cap {end} = {} /\ code_block' = builder'
  BY <1>1, <1>2
<1>7. CASE Top.n <= Len(Top.if.branches)
  <2> DEFINE todo == Call(b) \o pair
  <2>1. Piece(todo, CallItem(b), y, Claims(y)) /\ CallItem(b).do = "body"
    BY <1>2, <1>3, <1>7, BranchPiece, ItemFacts
  <2>2. Piece(todo, CallItem(b), y, {end}) /\ Opens(CallItem(b), fell')
    BY <1>3, <2>1 DEF Opens
  <2>3. work' = todo \o Tail(work)
    BY <1>1, <1>7
  <2> HIDE DEF todo
  <2> QED
    BY <1>2, <1>4, <1>5, <1>6, <2>2, <2>3, OpenStep
<1>8. CASE ~(Top.n <= Len(Top.if.branches))
  <2> DEFINE x == JoinItem(end)
  <2>1. Piece(pair, x, y, Claims(y)) /\ x.do = "join"
    BY <1>3, JoinPiece, ItemFacts
  <2>2. Piece(pair, x, y, {end}) /\ Opens(x, fell')
    BY <1>1, <1>3, <1>8, <2>1 DEF Opens
  <2>3. work' = pair \o Tail(work)
    BY <1>1, <1>8
  <2> HIDE DEF x, pair
  <2> QED
    BY <1>2, <1>4, <1>5, <1>6, <2>2, <2>3, OpenStep
<1> QED
  BY <1>7, <1>8

(***************************************************************************)
(* Functions                                                               *)
(***************************************************************************)
FuncItem(b) == [do |-> "func", body |-> b]
FuncItems == {FuncItem(b) : b \in {c \in 1..Len(tree) : tree[c].owner = "func"}}

NextFuncs(f, b) ==
    IF b = 0 THEN <<>>
    ELSE IF tree[b].owner = "func" THEN Append(f[b - 1], [do |-> "func", body |-> b]) ELSE f[b - 1]
Gathers(f, n) == f = [b \in 0..n |-> NextFuncs(f, b)]

LEMMA GathersExists ==
    ASSUME NEW n \in Nat
    PROVE  \E f : Gathers(f, n)
<1> DEFINE T == {m \in 0..n : ~\E f : Gathers(f, m)}
<1> SUFFICES ASSUME T # {} PROVE FALSE
  OBVIOUS
<1>1. PICK m \in T : \A k \in T : m <= k
  <2>1. T \subseteq Nat
    OBVIOUS
  <2> HIDE DEF T
  <2> QED
    BY <2>1, LeastElement
<1>2. CASE m = 0
  <2> DEFINE f == [b \in 0..0 |-> <<>>]
  <2>1. \A b \in 0..0 : b = 0
    OBVIOUS
  <2>2. [b \in 0..0 |-> NextFuncs(f, b)] = f
    BY <2>1 DEF NextFuncs
  <2> HIDE DEF f
  <2>3. Gathers(f, 0)
    BY <2>2 DEF Gathers
  <2> QED
    BY <1>2, <2>3
<1>3. CASE m # 0
  <2>1. m \in 1..n /\ m - 1 \in 0..n /\ ~(m <= m - 1)
    BY <1>3
  <2>2. PICK g : Gathers(g, m - 1)
    BY <1>1, <2>1
  <2> DEFINE h == [b \in 0..m |-> IF b = m THEN NextFuncs(g, m) ELSE g[b]]
  <2>3. ASSUME NEW b \in 0..m PROVE h[b] = NextFuncs(h, b)
    <3>1. b # 0 => b - 1 \in 0..m /\ b - 1 # m
      BY <2>1
    <3>2. b # 0 => h[b - 1] = g[b - 1]
      BY <3>1
    <3>3. h[b] = NextFuncs(g, b)
      <4>1. CASE b = m
        BY <4>1
      <4>2. CASE b # m
        <5>1. b \in 0..m - 1
          BY <2>1, <4>2
        <5>2. h[b] = g[b]
          BY <4>2
        <5>3. g[b] = NextFuncs(g, b)
          <6> HIDE DEF h
          <6> QED
            BY <2>2, <5>1 DEF Gathers
        <5> QED
          BY <5>2, <5>3
      <4> QED
        BY <4>1, <4>2
    <3> HIDE DEF h
    <3> QED
      BY <3>2, <3>3 DEF NextFuncs
  <2>4. DOMAIN h = 0..m /\ h = [b \in 0..m |-> h[b]]
    OBVIOUS
  <2> HIDE DEF h
  <2>5. h = [b \in 0..m |-> NextFuncs(h, b)]
    BY <2>3, <2>4
  <2>6. Gathers(h, m)
    BY <2>5 DEF Gathers
  <2> QED
    BY <2>6
<1> QED
  BY <1>2, <1>3

LEMMA GathersFuncs ==
    ASSUME NEW n \in Nat, n = Len(tree), NEW f, Gathers(f, n)
    PROVE  f[n] \in Seq(FuncItems)
<1> DEFINE T == {m \in 0..n : f[m] \notin Seq(FuncItems)}
<1> SUFFICES ASSUME T # {} PROVE FALSE
  <2>1. n \in 0..n
    OBVIOUS
  <2> QED
    BY <2>1
<1>1. PICK m \in T : \A k \in T : m <= k
  <2>1. T \subseteq Nat
    OBVIOUS
  <2> HIDE DEF T
  <2> QED
    BY <2>1, LeastElement
<1>2. f[m] = NextFuncs(f, m)
  <2>1. m \in 0..n
    BY <1>1
  <2> HIDE DEF T
  <2> QED
    BY <2>1 DEF Gathers
<1>3. m # 0
  <2>1. <<>> \in Seq(FuncItems)
    BY EmptySeq
  <2> QED
    BY <1>1, <1>2, <2>1 DEF NextFuncs
<1>4. m \in 1..n /\ m - 1 \in 0..n /\ ~(m <= m - 1)
  BY <1>3
<1>5. f[m - 1] \in Seq(FuncItems)
  BY <1>1, <1>4
<1>6. tree[m].owner = "func" => FuncItem(m) \in FuncItems
  BY <1>4 DEF FuncItems
<1>7. tree[m].owner = "func" => Append(f[m - 1], FuncItem(m)) \in Seq(FuncItems)
  <2> DEFINE g == f[m - 1]
             F == FuncItems
             x == FuncItem(m)
  <2> HIDE DEF F, x, g
  <2>1. g \in Seq(F) /\ (tree[m].owner = "func" => x \in F)
    BY <1>5, <1>6 DEF F, x, g
  <2>2. tree[m].owner = "func" => Append(g, x) \in Seq(F)
    BY <2>1, AppendProperties
  <2> QED
    BY <2>2 DEF F, x, g
<1>8. NextFuncs(f, m) \in Seq(FuncItems)
  BY <1>3, <1>5, <1>7 DEF NextFuncs, FuncItem
<1> QED
  BY <1>1, <1>2, <1>8

AllFuncs(w) == \A i \in 1..Len(w) : w[i].do = "func"

LEMMA FuncsTodo ==
    ASSUME NEW w \in Seq(FuncItems)
    PROVE  TodoOK(w) /\ AllFuncs(w)
<1> DEFINE n == Len(w)
<1>1. n \in Nat /\ IsSeq(w)
  BY SeqIsSeq
<1>2. ASSUME NEW i \in 1..n
      PROVE  w[i].do = "func" /\ ItemOK(w[i]) /\ Claims(w[i]) = {} /\ ~Falls(w[i])
  <2> DEFINE x == w[i]
  <2>1. x \in FuncItems
    BY ElementOfSeq
  <2>2. PICK b \in 1..Len(tree) : tree[b].owner = "func" /\ x = FuncItem(b)
    BY <2>1 DEF FuncItems
  <2> HIDE DEF x
  <2>3. x.do = "func" /\ x.body = b
    BY <2>2 DEF FuncItem
  <2>4. ItemOK(x)
    BY <2>2, <2>3 DEF ItemOK
  <2>5. Claims(x) = {} /\ ~Falls(x)
    BY <2>3 DEF Claims, GoesBack, Falls
  <2> QED
    BY <2>3, <2>4, <2>5 DEF x
<1> HIDE DEF n
<1>3. ASSUME NEW i \in 1..n - 1 PROVE Fits(w[i], w[i + 1])
  <2>1. i \in 1..n /\ i + 1 \in 1..n
    BY <1>1
  <2> QED
    BY <1>2, <2>1 DEF Fits, Begins
<1>4. Chained(w) /\ Apart(w) /\ AllFuncs(w)
  BY <1>2, <1>3 DEF Chained, Apart, AllFuncs, n
<1> QED
  BY <1>1, <1>2, <1>4 DEF TodoOK, n

\* Between two functions nothing is open.
LEMMA FuncsNext ==
    ASSUME NEW w, IsSeq(w), AllFuncs(w), NEW end
    PROVE  /\ Pending(w) = {} /\ Framed(w) /\ ~InFunc(w) /\ ~IsOpen(w, end)
<1> DEFINE n == Len(w)
<1>0. n \in Nat
  BY JoinFacts
<1>1. \A i \in 1..n : w[i].do = "func"
  BY DEF AllFuncs
<1>2. \A i \in 1..n : Claims(w[i]) = {}
  BY <1>1 DEF Claims, GoesBack
<1>3. Pending(w) = {}
  BY <1>2 DEF Pending
<1>4. Framed(w)
  <2>1. 0 \in 0..n /\ ~(0 > 0) /\ \A i \in 1..n : ~(i < 0)
    BY <1>0
  <2> QED
    BY <1>1, <2>1 DEF Framed
<1>5. w # <<>> => Head(w).do = "func"
  <2>1. w # <<>> => 1 \in 1..n /\ Head(w) = w[1]
    BY <1>0, RestFacts
  <2> QED
    BY <1>1, <2>1
<1> QED
  BY <1>3, <1>4, <1>5 DEF InFunc, IsOpen, Opens

\* A step after which nothing is open.
LEMMA ClosedStep ==
    ASSUME UNCHANGED vars, NEW w, work' = w, TodoOK(w), AllFuncs(w), Ledger(code', {}, {})
    PROVE  EmitterOK'
<1>1. IsSeq(w)
  BY DEF TodoOK
<1>2. Pending(w) = {} /\ Framed(w) /\ ~InFunc(w)
  BY <1>1, FuncsNext
<1>3. ~(w # <<>> /\ Opens(Head(w), fell'))
  <2>1. w # <<>> => Head(w).do = "func"
    BY <1>2 DEF InFunc
  <2> QED
    BY <2>1 DEF Opens
<1>4. NextHeld(FALSE, FALSE) = {}
  BY DEF NextHeld
<1>5. UNCHANGED <<tree, text>>
  BY DEF vars
<1> QED
  BY <1>2, <1>3, <1>4, <1>5, AfterStep

LEMMA EmitProjectKeeps ==
    ASSUME IInv, EmitInv, UNCHANGED vars, EmitProject
    PROVE  EmitterOK'
<1> DEFINE n == Len(tree)
           funcs == CHOOSE f : Gathers(f, n)
           w == funcs[n]
<1>1. work' = w /\ code' = <<>>
  BY DEF EmitProject, Gathers, NextFuncs, EmitInv
<1>2. n \in Nat
  BY LenProperties DEF IInv, TypeOK
<1>3. Gathers(funcs, n)
  <2>1. \E f : Gathers(f, n)
    BY <1>2, GathersExists
  <2> HIDE DEF n
  <2> QED
    BY <2>1
<1> HIDE DEF funcs
<1>4. w \in Seq(FuncItems)
  BY <1>2, <1>3, GathersFuncs
<1> HIDE DEF w
<1>5. TodoOK(w) /\ AllFuncs(w)
  BY <1>4, FuncsTodo
<1>6. Ledger(code', {}, {})
  <2> DEFINE c == <<>>
  <2>1. IsSeq(c) /\ Len(c) = 0 /\ 1..0 = {}
    BY ShortSeqs
  <2> HIDE DEF c
  <2>2. Ledger(c, {}, {})
    BY <2>1 DEF Ledger, IsCode
  <2> QED
    BY <1>1, <2>2 DEF c
<1> QED
  BY <1>1, <1>5, <1>6, ClosedStep

EndItem(b, after) == [do |-> "end", body |-> b, back |-> after]

LEMMA StoredPlain ==
    ASSUME IInv, NEW b \in 1..Len(tree)
    PROVE  PlainIns(StoredArgs(b))
<1> DEFINE args == tree[b].args
           m == Len(args)
           s == [i \in 1..m |-> StoredArg(b, i)]
           R == {StoredArg(b, i) : i \in 1..m}
<1>1. tree \in Seq(Header)
  BY DEF IInv, TypeOK
<1>2. tree[b] \in Header
  BY <1>1, ElementOfSeq
<1>3. args \in Seq(DeclNames)
  BY <1>2 DEF Header
<1> HIDE DEF args
<1>4. m \in Nat
  BY <1>3, LenProperties
<1> HIDE DEF m
<1>5. s \in [1..m -> R]
  OBVIOUS
<1>6. \A i \in 1..m : s[i] = StoredArg(b, i)
  OBVIOUS
<1> HIDE DEF s, R
<1>7. s \in Seq(R) /\ DOMAIN s = 1..m
  BY <1>4, <1>5, SeqDef
<1>8. IsSeq(s) /\ Len(s) = m
  <2>1. IsSeq(s)
    BY <1>7, SeqIsSeq
  <2>2. Len(s) = m
    BY <1>4, <1>7, LenProperties
  <2> QED
    BY <2>1, <2>2
<1>9. \A i \in 1..m : ~IsEnd(s[i])
  <2> TAKE i \in 1..m
  <2>1. ~IsEnd(StoredArg(b, i))
    BY DEF StoredArg, Ins, IsEnd
  <2> QED
    BY <1>6, <2>1
<1>10. PlainIns(s)
  BY <1>8, <1>9 DEF PlainIns
<1>11. StoredArgs(b) = s
  BY DEF StoredArgs, s, m, args
<1> QED
  BY <1>10, <1>11

\* A function begins: two blocks, both open.
LEMMA EnterTurns ==
    ASSUME IInv, NEW b \in 1..Len(tree), NEW mine, Opened(code, mine),
           code' = Put(Added(NewBlock, 2), NewBlock, StoredArgs(b))
    PROVE  Turns(code, code', mine, mine \cup {NewBlock, NewBlock + 1})
<1> DEFINE new == Added(NewBlock, 2)
           ins == StoredArgs(b)
<1>1. Len(code) \in Nat
  BY JoinFacts DEF Opened, IsCode
<1>2. News(2) = {NewBlock, NewBlock + 1}
  BY <1>1, NewsAre
<1>3. PlainIns(ins)
  BY StoredPlain
<1>4. Turns(code, new, mine, mine \cup {NewBlock, NewBlock + 1})
  BY <1>2, TurnsAdded
<1> HIDE DEF new, ins
<1>5. NewBlock \in mine \cup {NewBlock, NewBlock + 1}
  OBVIOUS
<1>6. Turns(code, Put(new, NewBlock, ins), mine, mine \cup {NewBlock, NewBlock + 1})
  BY <1>3, <1>4, <1>5, TurnsPut
<1> QED
  BY <1>6 DEF new, ins

LEMMA EmitAnonKeeps ==
    ASSUME IInv, Annotated, ~failed, EndsWell, EmitterOK, UNCHANGED vars, EmitAnon
    PROVE  EmitterOK'
<1> DEFINE b == S.body
           after == [func |-> func, code_block |-> code_block, on |-> Onward]
           y == EndItem(b, after)
           todo == Call(b) \o <<y>>
<1>1. /\ Emitting({"anon"}) /\ {"anon"} \cap Exits = {}
      /\ code' = Put(Added(NewBlock, 2), NewBlock, StoredArgs(b))
      /\ builder' = NewBlock + 1 /\ code_block' = NewBlock + 1 /\ func' = NewBlock /\ fell' = fell
      /\ work' = todo \o Tail(work)
  BY DEF EmitAnon, Enter, Exits, Then, PositionAt, EndItem
<1>2. PICK x : /\ Onward = <<x>> /\ StmtsOK(x) /\ (Falls(Top) <=> ~ExitsFrom(x.body, x.n))
               /\ work # <<>> /\ Inner(Top) /\ S \in Linked(tree) /\ S.kind \in {"anon"}
               /\ builder # func /\ code_block = builder
               /\ Opened(code, {builder, func}) /\ Held \cup Claims(Top) = {builder, func}
  BY <1>1, AtStmt
<1>3. b \in 1..Len(tree) /\ tree[b].owner = "anon"
  BY <1>2 DEF Linked
<1>4. /\ Len(code) \in Nat /\ builder \in 1..Len(code) /\ func \in 1..Len(code)
      /\ NewBlock \notin 1..Len(code) /\ NewBlock + 1 \notin 1..Len(code)
      /\ NewBlock # NewBlock + 1
  BY <1>2, BlockNumbers, NewsAre
<1>5. /\ after.func = func /\ after.code_block = builder /\ after.on = <<x>>
      /\ Len(after.on) = 1 /\ after.on[1] = x
  <2>1. Len(<<x>>) = 1 /\ <<x>>[1] = x
    BY ShortSeqs
  <2> QED
    BY <1>2, <2>1
<1>6. after # NoBack
  <2>1. NoBack.func = 0 /\ func # 0
    BY <1>4 DEF NoBack
  <2> HIDE DEF after
  <2> QED
    BY <1>5, <2>1
<1>7. y.do = "end" /\ y.body = b /\ y.back = after
  BY DEF EndItem
<1> HIDE DEF y, after, b
<1>8. GoesBack(y) /\ Claims(y) = {builder, func} /\ Inner(y) /\ Answers(y)
      /\ (Falls(y) <=> ~ExitsFrom(x.body, x.n))
  <2>1. GoesBack(y)
    BY <1>6, <1>7 DEF GoesBack
  <2> QED
    BY <1>5, <1>7, <2>1 DEF Claims, Inner, Answers, Falls
<1>9. ItemOK(y)
  <2>1. after.func # after.code_block /\ after.on = <<after.on[1]>> /\ StmtsOK(after.on[1])
    BY <1>2, <1>5
  <2> QED
    BY <1>3, <1>5, <1>7, <2>1 DEF ItemOK
<1>10. /\ Piece(Call(b), CallItem(b), CallItem(b), {}) /\ CallItem(b).do = "body"
       /\ (Falls(CallItem(b)) <=> ~ExitsFrom(b, 1))
  BY <1>3, ItemFacts
<1>11. Fits(CallItem(b), y)
  <2>1. ExitsFrom(b, 1) <=> tree[b].returns # "void"
    BY <1>3 DEF EndsWell
  <2> QED
    BY <1>7, <1>10, <2>1 DEF Fits, Begins
<1>12. Piece(todo, CallItem(b), y, {builder, func}) /\ Opens(CallItem(b), fell')
  <2>1. Piece(<<y>>, y, y, {builder, func})
    BY <1>8, <1>9, PieceOne
  <2>2. Piece(todo, CallItem(b), y, {} \cup {builder, func})
    BY <1>10, <1>11, <2>1, PieceJoined
  <2>3. {} \cup {builder, func} = {builder, func}
    OBVIOUS
  <2> QED
    BY <1>10, <2>2, <2>3 DEF Opens
<1>13. Replaces(y, Top)
  BY <1>2, <1>8 DEF Replaces
<1>14. Turns(code, code', {builder, func}, {builder, func} \cup {NewBlock, NewBlock + 1})
  BY <1>1, <1>2, <1>3, EnterTurns DEF b
<1> HIDE DEF todo
<1>15. /\ {builder, func} \cup {NewBlock, NewBlock + 1} = {builder', func'} \cup {builder, func}
       /\ builder' # func' /\ {builder', func'} \cap {builder, func} = {} /\ code_block' = builder'
  BY <1>1, <1>4
<1>16. Turns(code, code', Held \cup Claims(Top), {builder', func'} \cup {builder, func})
  BY <1>2, <1>14, <1>15
<1> QED
  BY <1>1, <1>2, <1>12, <1>13, <1>15, <1>16, OpenStep

\* What is left of a function of the module, when its end comes next; and
\* before the first.
LEMMA OnlyFuncs ==
    ASSUME EmitterOK, work # <<>>, ~Inner(Top)
    PROVE  AllFuncs(Tail(work)) /\ IsSeq(Tail(work)) /\ TodoOK(Tail(work))
<1> DEFINE n == Len(work)
           t == Tail(work)
<1>1. IsSeq(work) /\ Framed(work) /\ TodoOK(t) /\ IsSeq(t)
  BY Before
<1>2. n \in Nat \ {0} /\ Len(t) = n - 1 /\ Top = work[1] /\ \A i \in 1..n - 1 : t[i] = work[i + 1]
  BY <1>1, RestFacts DEF Top
<1>3. PICK p \in 0..n : \A i \in 1..n : (i < p => Inner(work[i])) /\ (i > p => work[i].do = "func")
  BY <1>1 DEF Framed
<1> HIDE DEF n, t
<1>4. p <= 1
  <2>1. 1 \in 1..n
    BY <1>2
  <2>2. ASSUME p > 1 PROVE FALSE
    BY <1>2, <1>3, <2>1, <2>2
  <2> QED
    BY <1>2, <1>3, <2>2
<1>5. ASSUME NEW i \in 1..n - 1 PROVE t[i].do = "func"
  <2>1. i + 1 \in 1..n /\ i + 1 > p
    BY <1>2, <1>3, <1>4
  <2> QED
    BY <1>2, <1>3, <2>1
<1> QED
  BY <1>1, <1>2, <1>5 DEF AllFuncs, t

LEMMA EmitFuncKeeps ==
    ASSUME IInv, EndsWell, EmitterOK, UNCHANGED vars, EmitFunc
    PROVE  EmitterOK'
<1> DEFINE b == Top.body
           y == EndItem(b, NoBack)
           todo == Call(b) \o <<y>>
           rest == Tail(work)
           w == todo \o rest
           c == CallItem(b)
<1>1. /\ work # <<>> /\ Top.do = "func"
      /\ code' = Put(Added(NewBlock, 2), NewBlock, StoredArgs(b))
      /\ builder' = NewBlock + 1 /\ code_block' = NewBlock + 1 /\ func' = NewBlock /\ fell' = fell
      /\ work' = w
  BY DEF EmitFunc, Enter, Doing, Then, PositionAt, EndItem
<1>2. b \in 1..Len(tree) /\ tree[b].owner = "func"
  BY <1>1, Before DEF ItemOK, StmtsOK, ElseOK
<1>3. ~Inner(Top) /\ Claims(Top) = {}
  BY <1>1 DEF Inner, Claims, GoesBack
<1>4. AllFuncs(rest) /\ IsSeq(rest) /\ TodoOK(rest) /\ Pending(rest) = {}
  BY <1>1, <1>3, OnlyFuncs, FuncsNext
<1>5. Ledger(code, {}, {})
  <2>1. Held = {}
    BY <1>1 DEF Held, HeldIf, IsOpen, InFunc, Opens, Top
  <2>2. Ledger(code, Held, Claims(Top) \cup Pending(rest))
    BY <1>1, Before
  <2>3. Claims(Top) \cup Pending(rest) = {}
    BY <1>3, <1>4
  <2> QED
    BY <2>1, <2>2, <2>3
<1>6. Opened(code, {})
  BY <1>5 DEF Ledger, Opened
<1>7. Turns(code, code', {}, {} \cup {NewBlock, NewBlock + 1})
  BY <1>1, <1>2, <1>6, EnterTurns
<1>8. Len(code) \in Nat /\ NewBlock # NewBlock + 1
  <2>1. Len(code) \in Nat
    BY <1>6, JoinFacts DEF Opened, IsCode
  <2> QED
    BY <2>1, NewsAre
<1>9. y.do = "end" /\ y.body = b /\ y.back = NoBack
  BY DEF EndItem
<1> HIDE DEF y
<1>10. ~GoesBack(y) /\ Claims(y) = {} /\ ~Inner(y) /\ ~Falls(y) /\ ItemOK(y)
  <2>1. ~GoesBack(y)
    BY <1>9 DEF GoesBack
  <2>2. Claims(y) = {} /\ ~Inner(y) /\ ~Falls(y)
    BY <1>9, <2>1 DEF Claims, Inner, Falls
  <2>3. ItemOK(y)
    BY <1>2, <1>9 DEF ItemOK
  <2> QED
    BY <2>1, <2>2, <2>3
<1>11. /\ Piece(Call(b), c, c, {}) /\ c.do = "body" /\ (Falls(c) <=> ~ExitsFrom(b, 1)) /\ Inner(c)
       /\ Call(b) = <<c>> /\ ItemOK(c) /\ Claims(c) = {}
  BY <1>2, ItemFacts DEF Call, Calls, CallItem
<1>12. Fits(c, y)
  <2>1. ExitsFrom(b, 1) <=> tree[b].returns # "void"
    BY <1>2 DEF EndsWell
  <2> HIDE DEF c
  <2> QED
    BY <1>9, <1>11, <2>1 DEF Fits, Begins
<1> HIDE DEF c, rest
<1>13. todo = <<c, y>> /\ IsSeq(todo) /\ Len(todo) = 2 /\ todo[1] = c /\ todo[2] = y
  <2>1. todo = <<c, y>>
    BY <1>11, PairFacts
  <2>2. IsSeq(<<c, y>>) /\ Len(<<c, y>>) = 2 /\ <<c, y>>[1] = c /\ <<c, y>>[2] = y
    BY ShortSeqs
  <2> HIDE DEF todo
  <2> QED
    BY <2>1, <2>2
<1>14. TodoOK(todo) /\ Pending(todo) = {}
  <2>1. TodoOK(<<c>>) /\ Pending(<<c>>) = {} /\ Len(<<c>>) = 1 /\ <<c>>[1] = c
    BY <1>11, TodoOne
  <2>2. TodoOK(<<y>>) /\ Pending(<<y>>) = {} /\ <<y>>[1] = y
    BY <1>10, TodoOne
  <2> DEFINE u == <<c>>
             v == <<y>>
  <2>3. TodoOK(u) /\ Pending(u) = {} /\ Len(u) = 1 /\ u[1] = c /\ TodoOK(v) /\ Pending(v) = {} /\ v[1] = y
    BY <2>1, <2>2
  <2> HIDE DEF u, v
  <2>4. TodoOK(u \o v) /\ Pending(u \o v) = Pending(u) \cup Pending(v)
    BY <1>12, <2>3, TodoJoined
  <2>5. todo = u \o v
    BY <1>11 DEF u, v
  <2> HIDE DEF todo
  <2> QED
    BY <2>3, <2>4, <2>5
<1> HIDE DEF todo
<1>15. TodoOK(w) /\ Pending(w) = {}
  <2>1. rest # <<>> => Fits(y, rest[1])
    <3>1. rest # <<>> => 1 \in 1..Len(rest)
      BY <1>4, RestFacts
    <3> QED
      BY <1>4, <1>10, <3>1 DEF AllFuncs, Fits, Begins
  <2>2. TodoOK(w) /\ Pending(w) = Pending(todo) \cup Pending(rest)
    BY <1>4, <1>13, <1>14, <2>1, TodoJoined
  <2> QED
    BY <1>4, <1>14, <2>2
<1>16. /\ IsSeq(w) /\ Len(w) = 2 + Len(rest) /\ Len(rest) \in Nat
       /\ w[1] = c /\ w[2] = y /\ \A i \in 1..Len(rest) : w[2 + i] = rest[i]
  <2>1. /\ IsSeq(w) /\ Len(w) = Len(todo) + Len(rest) /\ Len(rest) \in Nat
        /\ \A i \in 1..Len(todo) : w[i] = todo[i]
        /\ \A i \in 1..Len(rest) : w[Len(todo) + i] = rest[i]
    <3>1. IsSeq(todo)
      BY <1>13
    <3>2. IsSeq(rest)
      BY <1>4
    <3> QED
      BY ONLY <3>1, <3>2, JoinFacts
  <2>2. 1 \in 1..2 /\ 2 \in 1..2
    OBVIOUS
  <2> HIDE DEF w
  <2> QED
    BY <1>13, <2>1, <2>2
<1> HIDE DEF w
<1>17. Framed(w)
  <2> DEFINE m == Len(rest)
  <2>1. \A i \in 1..m : rest[i].do = "func"
    BY <1>4 DEF AllFuncs
  <2>2. m \in Nat /\ Len(w) = 2 + m /\ \A i \in 1..m : w[2 + i] = rest[i]
    BY <1>16
  <2> HIDE DEF m
  <2>3. 2 \in 0..2 + m /\ 2 > 0
    BY <2>2
  <2>4. ASSUME NEW i \in 1..2 + m
        PROVE  (i < 2 => Inner(w[i])) /\ (i > 2 => w[i].do = "func")
    <3>1. CASE i < 2
      <4>1. i = 1
        BY <3>1
      <4> QED
        BY <1>11, <1>16, <4>1
    <3>2. CASE i > 2
      <4>1. i - 2 \in 1..m /\ 2 + (i - 2) = i
        BY <2>2, <3>2
      <4> QED
        BY <2>1, <2>2, <3>2, <4>1
    <3> QED
      BY <3>1, <3>2
  <2> QED
    BY <1>9, <1>10, <1>16, <2>2, <2>3, <2>4 DEF Framed
<1>18. w # <<>> /\ Head(w) = c
  <2>1. w # <<>>
    BY <1>16, ShortSeqs
  <2> QED
    BY <1>16, <2>1, RestFacts
<1>19. Ledger(code', NextHeld(TRUE, TRUE), Pending(w))
  <2>1. NextHeld(TRUE, TRUE) = {NewBlock, NewBlock + 1}
    BY <1>1 DEF NextHeld
  <2>2. Moves(code, code', {}, {}, NextHeld(TRUE, TRUE), {}) /\ Owed(code, {}, {}, {})
    <3>1. Rewrites(code, code', {}, {NewBlock, NewBlock + 1})
      <4>1. {} \cup {NewBlock, NewBlock + 1} = {NewBlock, NewBlock + 1}
        OBVIOUS
      <4> QED
        BY <1>7, <4>1 DEF Turns
    <3>2. {} \cup {} = {} /\ NextHeld(TRUE, TRUE) \cup {} = {NewBlock, NewBlock + 1}
          /\ NextHeld(TRUE, TRUE) \cap {} = {} /\ {} \cap {} = {}
      BY <2>1
    <3> QED
      BY <1>5, <3>1, <3>2 DEF Moves, Owed
  <2>3. Moved(code', NextHeld(TRUE, TRUE), {}, {})
    BY <2>2, LedgerMoves
  <2>4. {} \cup {} = {}
    OBVIOUS
  <2> QED
    BY <1>15, <2>3, <2>4 DEF Moved
<1>20. InFunc(w) /\ Opens(Head(w), fell')
  BY <1>11, <1>18 DEF InFunc, Opens
<1>21. code_block' = builder' /\ builder' # func' /\ UNCHANGED <<tree, text>>
  BY <1>1, <1>8 DEF vars
<1> QED
  BY <1>1, <1>15, <1>17, <1>18, <1>19, <1>20, <1>21, AfterStep

\* Appending nothing changes nothing, whether the block exists or not.
LEMMA PutNothing ==
    ASSUME NEW c, IsCode(c), NEW b
    PROVE  Put(c, b, <<>>) = c
<1> DEFINE e == [c[b] EXCEPT !.ins = c[b].ins \o <<>>]
           c2 == [c EXCEPT ![b] = e]
<1>1. DOMAIN c = 1..Len(c) /\ c = [x \in DOMAIN c |-> c[x]]
  <2>1. c \in Seq(ToSet(c))
    BY DEF IsCode, IsSeq
  <2> QED
    BY <2>1, LenProperties
<1>2. ASSUME b \in 1..Len(c) PROVE e = c[b]
  <2> DEFINE r == c[b]
             f == r.fn
             s == r.ins
  <2>1. r \in [fn : {f}, ins : Seq(ToSet(s))]
    BY <1>2 DEF IsCode
  <2>2. IsSeq(s)
    BY <2>1 DEF IsSeq
  <2>3. s \o <<>> = s
    BY <2>2, ShortSeqs, JoinFacts
  <2> HIDE DEF s, f
  <2>4. [r EXCEPT !.ins = s] = r
    <3>1. r.ins = s
      BY DEF s
    <3> HIDE DEF r
    <3> QED
      BY <2>1, <3>1
  <2> QED
    BY <2>3, <2>4 DEF s
<1> HIDE DEF e
<1>3. c2 = c
  BY <1>1, <1>2
<1> QED
  BY <1>3 DEF Put, e, c2

LEMMA EndTurns ==
    ASSUME EmitterOK, work # <<>>, Top.do = "end",
           NEW returns, returns = IF tree[Top.body].returns = "void" THEN <<Ret>> ELSE <<>>,
           code' = Put(Put(code, builder, returns), func, <<Br(func + 1)>>)
    PROVE  Turns(code, code', Held \cup Claims(Top), Claims(Top))
<1> DEFINE br == <<Br(func + 1)>>
           mine == Held \cup Claims(Top)
<1>1. /\ Opened(code, mine)
      /\ IF tree[Top.body].returns = "void"
         THEN Held = {builder, func} /\ builder # func ELSE Held = {func}
  BY Running
<1>2. Held \cap Claims(Top) = {} /\ IsCode(code)
  BY Before DEF Ledger
<1>3. EndingIns(br) /\ EndingIns(<<Ret>>)
  BY InsFacts
<1> HIDE DEF br, mine
<1>4. Turns(code, code, mine, mine)
  BY <1>1, TurnsSame
<1>5. CASE tree[Top.body].returns = "void"
  <2>1. returns = <<Ret>> /\ builder \in mine /\ func \in mine \ {builder} /\ (mine \ {builder}) \ {func} = Claims(Top)
    BY <1>1, <1>2, <1>5 DEF mine
  <2>2. Turns(code, Put(code, builder, returns), mine, mine \ {builder})
    BY <1>3, <1>4, <2>1, TurnsPut
  <2>3. Turns(code, Put(Put(code, builder, returns), func, br), mine, (mine \ {builder}) \ {func})
    BY <1>3, <2>1, <2>2, TurnsPut
  <2> QED
    BY <2>1, <2>3 DEF br, mine
<1>6. CASE tree[Top.body].returns # "void"
  <2>1. returns = <<>> /\ func \in mine /\ mine \ {func} = Claims(Top)
    BY <1>1, <1>2, <1>6 DEF mine
  <2>2. Put(code, builder, returns) = code
    BY <1>2, <2>1, PutNothing
  <2>3. Turns(code, Put(code, func, br), mine, mine \ {func})
    BY <1>3, <1>4, <2>1, TurnsPut
  <2> QED
    BY <2>1, <2>2, <2>3 DEF br, mine
<1> QED
  BY <1>5, <1>6

LEMMA EndEmitKeeps ==
    ASSUME EmitterOK, UNCHANGED vars, EndEmit
    PROVE  EmitterOK'
<1> DEFINE returns == IF tree[Top.body].returns = "void" THEN <<Ret>> ELSE <<>>
<1>1. /\ work # <<>> /\ Top.do = "end"
      /\ code' = Put(Put(code, builder, returns), func, <<Br(func + 1)>>)
      /\ work' = Top.back.on \o Tail(work) /\ fell' = fell
      /\ Top.back # NoBack => /\ func' = Top.back.func
                              /\ builder' = Top.back.code_block /\ code_block' = Top.back.code_block
  BY DEF EndEmit, Doing, Then, PositionAt
<1> HIDE DEF returns
<1>2. Turns(code, code', Held \cup Claims(Top), Claims(Top))
  BY <1>1, EndTurns DEF returns
<1>3. CASE Top.back = NoBack
  <2>1. ~GoesBack(Top) /\ ~Inner(Top) /\ Claims(Top) = {}
    BY <1>1, <1>3 DEF GoesBack, Inner, Claims
  <2>2. AllFuncs(Tail(work)) /\ IsSeq(Tail(work)) /\ TodoOK(Tail(work)) /\ Pending(Tail(work)) = {}
    BY <1>1, <2>1, OnlyFuncs, FuncsNext
  <2>3. work' = Tail(work)
    <3>1. Top.back.on = <<>>
      BY <1>3 DEF NoBack
    <3>2. IsSeq(<<>>)
      BY ShortSeqs
    <3> QED
      BY <1>1, <2>2, <3>1, <3>2, JoinFacts
  <2>4. Ledger(code', {}, {})
    <3>1. Ledger(code, Held, {} \cup {})
      <4>1. Ledger(code, Held, Claims(Top) \cup Pending(Tail(work)))
        BY <1>1, Before
      <4> QED
        BY <2>1, <2>2, <4>1
    <3>2. Owed(code, Held, {}, {})
      BY <3>1 DEF Owed
    <3>3. Rewrites(code, code', Held \cup {}, {} \cup {}) 
      <4>1. {} \cup {} = {}
        OBVIOUS
      <4> QED
        BY <1>2, <2>1, <4>1 DEF Turns
    <3>4. Moves(code, code', Held, {}, {}, {})
      <4>1. {} \cap {} = {}
        OBVIOUS
      <4> QED
        BY <3>3, <4>1 DEF Moves
    <3>5. Moved(code', {}, {}, {})
      BY <3>2, <3>4, LedgerMoves
    <3>6. {} \cup {} = {}
      OBVIOUS
    <3> QED
      BY <3>5, <3>6 DEF Moved
  <2> QED
    BY <2>2, <2>3, <2>4, ClosedStep
<1>4. CASE Top.back # NoBack
  <2> DEFINE x == Top.back.on[1]
             on == Top.back.on
  <2>1. GoesBack(Top) /\ Inner(Top) /\ Claims(Top) = {Top.back.func, Top.back.code_block}
    BY <1>1, <1>4 DEF GoesBack, Inner, Claims
  <2>2. Top.back.func # Top.back.code_block /\ on = <<x>> /\ StmtsOK(x)
    BY <1>1, <1>4, Before DEF ItemOK, ElseOK, StmtsOK
  <2>3. x.do = "stmts" /\ ItemOK(x)
    BY <2>2 DEF StmtsOK, ItemOK
  <2>4. (Falls(Top) <=> ~ExitsFrom(x.body, x.n)) /\ Answers(Top)
    BY <1>1, <2>1 DEF Falls, Answers
  <2> HIDE DEF x, on
  <2>5. Inner(x) /\ Claims(x) = {} /\ Answers(x) /\ (Falls(x) <=> ~ExitsFrom(x.body, x.n)) /\ Opens(x, fell')
    BY <2>3 DEF Inner, Claims, GoesBack, Answers, Falls, Opens
  <2>6. Piece(on, x, x, {}) /\ Replaces(x, Top)
    <3>1. Piece(<<x>>, x, x, {})
      BY <2>3, <2>5, PieceOne
    <3> QED
      BY <2>2, <2>4, <2>5, <3>1 DEF Replaces
  <2>7. /\ Claims(Top) = {builder', func'} \cup {} /\ builder' # func' /\ {builder', func'} \cap {} = {}
        /\ code_block' = builder' /\ work' = on \o Tail(work)
    BY <1>1, <1>4, <2>1, <2>2 DEF on
  <2> QED
    BY <1>1, <1>2, <2>1, <2>5, <2>6, <2>7, OpenStep
<1> QED
  BY <1>3, <1>4

(***************************************************************************)
(* The invariant                                                           *)
(***************************************************************************)
LEMMA EmitterStays ==
    ASSUME EmitterOK, UNCHANGED vars, UNCHANGED <<work, fell, code, builder, code_block, func>>
    PROVE  EmitterOK'
<1> DEFINE w == work
           open == IsOpen(work, fell)
           inside == InFunc(work)
<1>1. TodoOK(w) /\ Framed(w) /\ Ledger(code, Held, Pending(w)) /\ Placed(open, inside)
  BY DEF EmitterOK, BlocksLeft
<1>2. open \in BOOLEAN /\ inside \in BOOLEAN
  BY DEF IsOpen, InFunc, Opens
<1>3. open <=> w # <<>> /\ Opens(Head(w), fell')
  BY DEF IsOpen, Opens
<1>4. Held = NextHeld(open, inside)
  BY DEF Held, HeldIf, NextHeld
<1>5. inside => code_block' = builder' /\ (open => builder' # func')
  BY <1>1 DEF Placed
<1>6. work' = w /\ UNCHANGED <<tree, text>> /\ code' = code
  BY DEF vars
<1>7. inside <=> InFunc(w)
  OBVIOUS
<1> HIDE DEF open, inside
<1>8. Ledger(code', NextHeld(open, inside), Pending(w))
  BY <1>1, <1>4, <1>6
<1> HIDE DEF w
<1> QED
  BY <1>1, <1>2, <1>3, <1>5, <1>6, <1>7, <1>8, AfterStep

\* The steps of the emitter inside the functions.
Writing ==
    \/ EmitFunc \/ EmitAnon \/ EndEmit \/ EmitBody \/ EndBody \/ Fall \/ EmitDecl \/ EmitPlain \/ EmitTry
    \/ EmitAsk \/ EmitTest \/ EmitWhile \/ EmitIf \/ EmitElseIf \/ EmitElse \/ Join \/ At \/ EmitExit \/ Leave

LEMMA WritingKeeps ==
    ASSUME IInv, Annotated, ~failed, EndsWell, EmitterOK, UNCHANGED vars, Writing
    PROVE  EmitterOK'
BY EmitFuncKeeps, EmitAnonKeeps, EndEmitKeeps, EmitBodyKeeps, EndBodyKeeps, FallKeeps, EmitDeclKeeps,
   EmitPlainKeeps, EmitTryKeeps, EmitAskKeeps, EmitTestKeeps, EmitWhileKeeps, EmitIfKeeps, EmitElseIfKeeps, EmitElseKeeps, JoinKeeps,
   AtKeeps, EmitExitKeeps, LeaveKeeps DEF Writing

LEMMA WritingStage == Writing => stage = "emit" /\ stage' = "emit"
<1>1. (\E kinds : Emitting(kinds)) \/ (\E what : Doing(what)) => stage = "emit"
  BY DEF Emitting, Doing
<1>2. Writing => (\E kinds : Emitting(kinds)) \/ (\E what : Doing(what))
  BY DEF Writing, EmitFunc, EmitAnon, EndEmit, EmitBody, EndBody, Fall, EmitDecl, EmitPlain, EmitTry,
         EmitAsk, EmitTest, EmitWhile, EmitIf, EmitElseIf, EmitElse, Join, At, EmitExit, Leave
<1>3. Writing => stage' = stage
  BY DEF Writing, EmitFunc, EmitAnon, Enter, EndEmit, EmitBody, EndBody, Fall, EmitDecl, EmitPlain, EmitTry,
         EmitAsk, EmitTest, EmitWhile, EmitIf, EmitElseIf, EmitElse, Join, At, EmitExit, Leave
<1> QED
  BY <1>1, <1>2, <1>3

LEMMA EmissionKeeps ==
    ASSUME IInv, Annotated, EmitInv, UNCHANGED vars, Emission
    PROVE  EmitInv'
<1>1. EndsWell' <=> EndsWell
  BY DEF EndsWell, ExitsFrom, vars
<1>2. failed' = failed
  BY DEF vars
<1>3. CASE EmitProject
  <2>1. stage' = "emit" /\ ~failed /\ EmitterOK'
    BY <1>3, EmitProjectKeeps DEF EmitProject
  <2> QED
    BY <1>2, <2>1 DEF EmitInv
<1>4. CASE Writing
  <2>1. stage = "emit" /\ stage' = "emit" /\ ~failed
    BY <1>4, WritingStage DEF EmitInv
  <2>2. EndsWell => EmitterOK
    BY <2>1 DEF EmitInv
  <2>3. EndsWell => EmitterOK'
    BY <1>4, <2>1, <2>2, WritingKeeps
  <2> QED
    BY <1>1, <1>2, <2>1, <2>3 DEF EmitInv
<1>5. CASE Verify \/ RunBlock
  <2>1. /\ stage \in {"emit", "run"} /\ work = <<>> /\ stage' \in {"run", "refused"}
        /\ UNCHANGED <<work, fell, code, builder, code_block, func>>
    BY <1>5 DEF Verify, RunBlock, EmitInv
  <2>2. ~failed /\ (EndsWell => EmitterOK)
    BY <2>1 DEF EmitInv
  <2>3. EndsWell => EmitterOK'
    BY <2>1, <2>2, EmitterStays
  <2> QED
    BY <1>1, <1>2, <2>1, <2>2, <2>3 DEF EmitInv
<1> QED
  BY <1>3, <1>4, <1>5 DEF Emission, Writing

LEMMA EmitNextKeeps ==
    ASSUME IInv, Annotated, EmitInv, [EmitNext]_<<vars, emitVars>>
    PROVE  (IInv /\ Annotated /\ EmitInv)'
<1>1. CASE stage = "analyse" /\ Next /\ UNCHANGED emitVars
  <2>1. IInv' /\ Annotated'
    BY <1>1, NextIInv, NextAnnotated
  <2>2. stage' = "analyse" /\ work' = <<>> /\ code' = <<>>
    BY <1>1 DEF emitVars, EmitInv
  <2> QED
    BY <2>1, <2>2 DEF EmitInv
<1>2. CASE UNCHANGED vars /\ (Emission \/ UNCHANGED emitVars)
  <2>1. IInv' /\ Annotated'
    BY <1>2, NextIInv, NextAnnotated
  <2>2. CASE Emission
    BY <1>2, <2>1, <2>2, EmissionKeeps
  <2>3. CASE UNCHANGED emitVars
    <3>1. UNCHANGED <<work, fell, code, builder, code_block, func>> /\ stage' = stage
      BY <2>3 DEF emitVars
    <3>2. (EndsWell' <=> EndsWell) /\ failed' = failed
      BY <1>2 DEF EndsWell, ExitsFrom, vars
    <3>3. EmitterOK => EmitterOK'
      BY <1>2, <3>1, EmitterStays
    <3>4. EmitInv'
      BY <3>1, <3>2, <3>3 DEF EmitInv
    <3> QED
      BY <2>1, <3>4
  <2> QED
    BY <1>2, <2>2, <2>3
<1> QED
  BY <1>1, <1>2 DEF EmitNext

LEMMA EmitInitKeeps == EmitInit => IInv /\ Annotated /\ EmitInv
<1> SUFFICES ASSUME EmitInit PROVE IInv /\ Annotated /\ EmitInv
  OBVIOUS
<1>1. Init /\ stage = "analyse" /\ work = <<>> /\ code = <<>>
  BY DEF EmitInit
<1>2. IInv
  BY <1>1, InitIInv
<1>3. Annotated
  <2>1. tree = <<>> /\ text = <<>> /\ defers = <<>> /\ walk.result = <<>>
    BY <1>1 DEF Init, Idle
  <2>2. /\ <<>> \in Seq(Seq(DefersIn(tree))) /\ <<>> \in Seq(DefersIn(tree))
        /\ <<>> \in Seq(Seq(Linked(tree))) /\ 1..Len(tree) = {}
    BY <2>1, EmptySeq
  <2> QED
    BY <2>1, <2>2 DEF Annotated
<1>4. EmitInv
  BY <1>1 DEF EmitInv
<1> QED
  BY <1>2, <1>3, <1>4

\* The annotations of the analysis stay sound, and in every state of the
\* emission the blocks without a terminator are exactly the ones that the
\* running emitters and those waiting on the C stack still have to close.
THEOREM EmitInvariant == EmitSpec => [](IInv /\ Annotated /\ EmitInv)
<1>1. EmitInit => IInv /\ Annotated /\ EmitInv
  BY EmitInitKeeps
<1>2. (IInv /\ Annotated /\ EmitInv) /\ [EmitNext]_<<vars, emitVars>> => (IInv /\ Annotated /\ EmitInv)'
  BY EmitNextKeeps
<1> QED
  BY <1>1, <1>2, PTL DEF EmitSpec

\* llvm_write_module never aborts on an accepted module whose void functions
\* fall off their end, whose others end in a return, and whose defers are left
\* by their end: each block has one terminator, its last instruction.
THEOREM DisciplinedModulesVerify == EmitSpec => []DisciplinedVerified
<1>1. IInv /\ Annotated /\ EmitInv => DisciplinedVerified
  <2> SUFFICES ASSUME IInv, Annotated, EmitInv, Disciplined, Written, NEW b \in 1..Len(code)
               PROVE  Terminated(code[b])
    BY DEF DisciplinedVerified, Verified, Verifies
  <2>1. stage # "analyse" /\ work = <<>> /\ ~failed
    BY DEF Written, EmitInv
  <2>2. EmitterOK
    BY <2>1, DisciplinedEndsWell DEF EmitInv
  <2>3. Held = {}
    BY <2>1 DEF Held, HeldIf, IsOpen, InFunc
  <2>4. Pending(work) = {}
    BY <2>1, TodoNone
  <2> QED
    BY <2>2, <2>3, <2>4 DEF EmitterOK, BlocksLeft, Ledger
<1> QED
  BY <1>1, EmitInvariant, PTL
=============================================================================
