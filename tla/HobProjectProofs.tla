-------------------------- MODULE HobProjectProofs --------------------------
(***************************************************************************)
(* Proofs about HobProject, for any files, directories, links, paths and   *)
(* names, any number of declarations and any size of the C stack.  First,  *)
(* types, where paths are looked up from, and the order of                 *)
(* project->modules.  Then the two passes of llvm_emit_project: which LLVM *)
(* values can be read before they are set.  Then the files: outside import *)
(* cycles each is listed at most once, although it is listed only when all *)
(* it imports has been read, and inside them unless a link leads to it or  *)
(* the file descriptors run out; and when the C stack can be full.         *)
(***************************************************************************)
EXTENDS HobProject, HobSeqLemmas, FiniteSetTheorems

(***************************************************************************)
(* Declarations and tables                                                 *)
(***************************************************************************)
LEMMA NodeFacts ==
    ASSUME NEW n \in Nodes
    PROVE  /\ n.kind \in {"import", "all", "item", "use", "ext", "bare", "func", "bad"} \cup Vals
           /\ n.kind = "import" => n.path \in Paths
           /\ n.kind \in {"import", "item", "ext", "bare", "func"} \cup Vals => n.name \in Names
           /\ n.kind # "bad" => n.public \in BOOLEAN
BY SizesAssumption DEF Nodes, Vals

LEMMA NoDeclType == NoDecl \in Decl
BY SizesAssumption DEF NoDecl, Decl

LEMMA DeclaredFacts ==
    ASSUME NEW decls, NEW ext, NEW name
    PROVE  Declared(decls, ext, name) \in decls \cup {NoDecl}
BY DEF Declared

\* What module m can declare or mention once the modules of known are listed.
Fit(d, m, known) ==
    /\ d.of \in known \cup {m}
    /\ d.target \in IF d.value = "module" THEN known ELSE {0}

\* s has become t: some declarations more, and maybe an error.
Filled(s, t) ==
    /\ t \in Sema
    /\ t.file = s.file /\ t.dir = s.dir /\ t.ast = s.ast

LEMMA PushFacts ==
    ASSUME NEW s \in Sema, NEW d \in Decl, NEW public \in BOOLEAN, NEW m, NEW known,
           LeadsTo(s, m, known), Fit(d, m, known)
    PROVE  /\ Filled(s, Push(s, d, public))
           /\ LeadsTo(Push(s, d, public), m, known)
<1> DEFINE t == Push(s, d, public)
<1>1. /\ t \in Sema
      /\ t.file = s.file /\ t.dir = s.dir /\ t.ast = s.ast
      /\ t.priv \subseteq s.priv \cup {d}
      /\ t.pub \subseteq t.priv
  BY DEF Push, Sema, LeadsTo
<1> QED
  BY <1>1 DEF Filled, LeadsTo, Fit

LEMMA PushAllFacts ==
    ASSUME NEW s \in Sema, NEW ext \in BOOLEAN, NEW j, NEW public \in BOOLEAN,
           NEW m, NEW known,
           semas[j] \in Sema, j \in known,
           LeadsTo(s, m, known), LeadsTo(semas[j], j, known)
    PROVE  /\ Filled(s, PushAll(s, ext, j, public))
           /\ LeadsTo(PushAll(s, ext, j, public), m, known)
<1> DEFINE t == PushAll(s, ext, j, public)
           new == {d \in {e \in semas[j].pub : e.ext = ext} : Declared(s.priv, ext, d.name) = NoDecl}
<1>1. new \subseteq semas[j].priv /\ new \subseteq Decl
  BY DEF LeadsTo, Sema
<1>2. t = [s EXCEPT !.priv = @ \cup new, !.pub = IF public THEN @ \cup new ELSE @,
                    !.failed = @ \/ new # {e \in semas[j].pub : e.ext = ext}]
  BY DEF PushAll
<1> HIDE DEF new, t
<1>3. /\ t \in Sema
      /\ t.file = s.file /\ t.dir = s.dir /\ t.ast = s.ast
      /\ t.priv = s.priv \cup new
      /\ t.pub \subseteq s.pub \cup new
  BY <1>1, <1>2 DEF Sema
<1>4. \A d \in new : Fit(d, m, known)
  BY <1>1 DEF LeadsTo, Fit
<1> QED
  BY <1>3, <1>4 DEF Filled, LeadsTo, Fit, t

LEMMA PushHolds ==
    ASSUME NEW s \in Sema, NEW e, NEW public
    PROVE  \A d \in Push(s, e, public).priv \cup Push(s, e, public).pub :
              d \in s.priv \cup s.pub \cup {e}
<1> DEFINE t == Push(s, e, public)
<1>1. t.priv \subseteq s.priv \cup {e} /\ t.pub \subseteq s.pub \cup {e}
  BY DEF Push, Sema
<1> HIDE DEF t
<1>2. \A d \in t.priv \cup t.pub : d \in s.priv \cup s.pub \cup {e}
  BY <1>1
<1> QED
  BY <1>2 DEF t

LEMMA PushAllHolds ==
    ASSUME NEW s \in Sema, NEW ext, NEW m, NEW public
    PROVE  \A d \in PushAll(s, ext, m, public).priv \cup PushAll(s, ext, m, public).pub :
              d \in s.priv \cup s.pub \cup semas[m].pub
<1> DEFINE t == PushAll(s, ext, m, public)
           new == {d \in {e \in semas[m].pub : e.ext = ext} : Declared(s.priv, ext, d.name) = NoDecl}
<1>1. t = [s EXCEPT !.priv = @ \cup new, !.pub = IF public THEN @ \cup new ELSE @,
                    !.failed = @ \/ new # {e \in semas[m].pub : e.ext = ext}]
  BY DEF PushAll
<1>2. new \subseteq semas[m].pub
  OBVIOUS
<1> HIDE DEF new, t
<1>3. t.priv \subseteq s.priv \cup new /\ t.pub \subseteq s.pub \cup new
  BY <1>1 DEF Sema
<1>4. \A d \in t.priv \cup t.pub : d \in s.priv \cup s.pub \cup semas[m].pub
  BY <1>2, <1>3
<1> QED
  BY <1>4 DEF t

LEMMA TableFacts ==
    ASSUME NEW s \in Sema, NEW m, NEW known, LeadsTo(s, m, known),
           NEW decls \in {s.priv, s.pub}, NEW ext, NEW name
    PROVE  LET d == Declared(decls, ext, name)
           IN  d \in Decl /\ (d = NoDecl \/ Fit(d, m, known))
<1> DEFINE d == Declared(decls, ext, name)
<1>1. d \in decls \cup {NoDecl}
  BY DeclaredFacts
<1>2. \A e \in decls : e \in s.priv /\ e \in Decl
  BY DEF LeadsTo, Sema
<1> HIDE DEF d
<1>3. d = NoDecl \/ (d \in s.priv /\ d \in Decl)
  BY <1>1, <1>2
<1>4. d \in s.priv => Fit(d, m, known)
  BY DEF LeadsTo, Fit
<1> QED
  BY <1>3, <1>4, NoDeclType DEF d

LEMMA ResolveFacts ==
    ASSUME NEW s \in Sema, NEW ref, NEW m, NEW known,
           LeadsTo(s, m, known),
           \A j \in known : semas[j] \in Sema /\ LeadsTo(semas[j], j, known)
    PROVE  /\ Resolve(s, ref) \in Decl
           /\ Resolve(s, ref) = NoDecl \/ Fit(Resolve(s, ref), m, known)
           /\ Resolve(s, ref).of \in {0, m} \cup known
<1> DEFINE r == Resolve(s, ref)
           a == Declared(s.priv, FALSE, ref.module)
<1>1. r \in Decl /\ (r = NoDecl \/ Fit(r, m, known))
  <2>1. CASE ref.module = NoName
    <3>1. r = Declared(s.priv, FALSE, ref.name)
      BY <2>1 DEF Resolve
    <3> QED
      BY <3>1, TableFacts
  <2>2. CASE ref.module # NoName /\ a.value # "module"
    BY <2>2, NoDeclType DEF Resolve
  <2>3. CASE ref.module # NoName /\ a.value = "module"
    <3> DEFINE j == a.target
    <3>1. r = Declared(semas[j].pub, FALSE, ref.name)
      BY <2>3 DEF Resolve
    <3>2. a = NoDecl \/ Fit(a, m, known)
      BY TableFacts
    <3>3. a # NoDecl
      <4>1. NoDecl.value # "module"
        BY DEF NoDecl
      <4> QED
        BY <2>3, <4>1
    <3>4. j \in known
      BY <2>3, <3>2, <3>3 DEF Fit
    <3>5. semas[j] \in Sema /\ LeadsTo(semas[j], j, known)
      BY <3>4
    <3> HIDE DEF j
    <3>6. r \in Decl /\ (r = NoDecl \/ Fit(r, j, known))
      BY <3>1, <3>5, TableFacts
    <3> QED
      BY <3>4, <3>6 DEF Fit
  <2> QED
    BY <2>1, <2>2, <2>3
<1>2. r.of \in {0, m} \cup known
  BY <1>1 DEF Fit, NoDecl
<1> QED
  BY <1>1, <1>2
(***************************************************************************)
(* The modules and files at hand                                           *)
(***************************************************************************)
LEMMA LeadsToMore ==
    ASSUME NEW s, NEW m, NEW known, NEW more, known \subseteq more, LeadsTo(s, m, known)
    PROVE  LeadsTo(s, m, more)
<1>1. \A d \in s.priv : d.target \in IF d.value = "module" THEN more ELSE {0}
  BY DEF LeadsTo
<1> QED
  BY <1>1 DEF LeadsTo

LEMMA KnownFacts ==
    ASSUME OrderInv, NEW j \in Known(Len(modules))
    PROVE  /\ j \in 1..Len(semas)
           /\ semas[j] \in Sema
           /\ LeadsTo(semas[j], j, Known(Len(modules)))
<1>1. modules \in Seq(1..Len(semas)) /\ semas \in Seq(Sema) /\ Len(modules) \in Nat
  BY LenProperties DEF OrderInv, TypeOK
<1>2. PICK i \in 1..Len(modules) : j = modules[i]
  BY DEF Known
<1>3. j \in 1..Len(semas) /\ semas[j] \in Sema
  BY <1>1, <1>2
<1>4. LeadsTo(semas[j], j, Known(i - 1))
  BY <1>2 DEF OrderInv, LeadsBack
<1>5. Known(i - 1) \subseteq Known(Len(modules))
  BY <1>1, <1>2 DEF Known
<1> QED
  BY <1>3, <1>4, <1>5, LeadsToMore

LEMMA FrameFacts ==
    ASSUME TypeOK
    PROVE  /\ Len(frames) \in Nat
           /\ \A k \in 1..Len(frames) : frames[k].sema \in 1..Len(semas) /\ frames[k].back \in Dirs
<1> DEFINE Frame == [sema : 1..Len(semas), back : Dirs]
<1>1. frames \in Seq(Frame)
  BY DEF TypeOK
<1>2. \A f \in Frame : f.sema \in 1..Len(semas) /\ f.back \in Dirs
  OBVIOUS
<1> HIDE DEF Frame
<1>3. \A k \in 1..Len(frames) : frames[k] \in Frame
  BY <1>1, ElementOfSeq
<1> QED
  BY <1>1, <1>2, <1>3, LenProperties

LEMMA ReadingFacts ==
    ASSUME OrderInv, Reading
    PROVE  /\ frames \in Seq([sema : 1..Len(semas), back : Dirs])
           /\ semas \in Seq(Sema) /\ Len(semas) \in Nat
           /\ Len(frames) \in Nat \ {0}
           /\ Last(frames) = frames[Len(frames)]
           /\ I = frames[Len(frames)].sema
           /\ I \in 1..Len(semas)
           /\ S \in Sema /\ S = semas[I]
           /\ cwd = S.dir /\ cwd \in Dirs
           /\ K = Len(S.ast) + 1 /\ K \in Nat \ {0}
           /\ LeadsTo(S, I, Known(Len(modules)))
           /\ I \notin Known(Len(modules))
<1>1. frames \in Seq([sema : 1..Len(semas), back : Dirs]) /\ frames # <<>> /\ semas \in Seq(Sema)
  BY DEF OrderInv, TypeOK, Reading
<1>2. Len(frames) \in Nat \ {0} /\ Last(frames) = frames[Len(frames)]
  BY <1>1, FrontFacts
<1>3. I = frames[Len(frames)].sema /\ I \in 1..Len(semas)
  BY <1>2, FrameFacts DEF I, OrderInv
<1>4. S = semas[I] /\ S \in Sema
  BY <1>1, <1>3 DEF S
<1>5. S.ast \in Seq([decl : Decl, reads : Decl])
  BY <1>4 DEF Sema
<1>6. K = Len(S.ast) + 1 /\ K \in Nat \ {0}
  BY <1>5, LenProperties DEF K
<1>7. cwd = S.dir /\ cwd \in Dirs
  BY <1>1 DEF OrderInv, TypeOK, CwdFollows
<1>8. LeadsTo(S, I, Known(Len(modules)))
  BY <1>2, <1>3, <1>4 DEF OrderInv, LeadsBack
<1>9. I \notin Known(Len(modules))
  BY <1>2, <1>3 DEF OrderInv, EachOnce, Known
<1>10. Len(semas) \in Nat
  BY <1>1, LenProperties
<1> QED
  BY <1>1, <1>2, <1>3, <1>4, <1>6, <1>7, <1>8, <1>9, <1>10

\* Files are only ever written to the end.
Grown(t, u) ==
    \A f \in Files :
        /\ Len(t[f].nodes) <= Len(u[f].nodes)
        /\ \A j \in 1..Len(t[f].nodes) : u[f].nodes[j] = t[f].nodes[j]

LEMMA TextFacts ==
    ASSUME OrderInv, NEW n \in Upcoming
    PROVE  /\ Reading
           /\ n \in Nodes
           /\ TextAt(n) \in Texts
           /\ Grown(text, TextAt(n))
           /\ K <= Len(TextAt(n)[S.file].nodes)
           /\ TextAt(n)[S.file].nodes[K] = n
<1>1. Reading
  BY DEF Upcoming
<1> DEFINE f == S.file
           t == text[f].nodes
<1>2. text \in Texts /\ f \in Files /\ t \in Seq(Nodes) /\ Len(t) \in Nat /\ K \in Nat \ {0}
  <2>1. text \in Texts /\ f \in Files /\ K \in Nat \ {0}
    BY <1>1, ReadingFacts DEF OrderInv, TypeOK, Sema
  <2>2. t \in Seq(Nodes)
    BY <2>1 DEF Texts
  <2> QED
    BY <2>1, <2>2, LenProperties
<1>3. n \in Nodes
  <2>1. CASE K <= Len(t)
    <3>1. n = t[K]
      BY <1>1, <2>1 DEF Upcoming
    <3> HIDE DEF t
    <3> QED
      BY <1>2, <2>1, <3>1
  <2>2. CASE ~(K <= Len(t))
    BY <1>1, <2>2 DEF Upcoming, Written
  <2> QED
    BY <2>1, <2>2
<1>4. K <= Len(t) + 1
  <2>1. Len(frames) \in 1..Len(frames) /\ S = semas[frames[Len(frames)].sema] /\ K = Len(S.ast) + 1
    BY <1>1, ReadingFacts
  <2>2. Len(S.ast) <= Len(t)
    BY <2>1 DEF OrderInv, WaitsForImports
  <2>3. Len(S.ast) \in Nat
    BY <1>1, ReadingFacts, LenProperties DEF Sema
  <2> HIDE DEF t
  <2> QED
    BY <1>2, <2>1, <2>2, <2>3
<1> DEFINE u == IF K <= Len(t) THEN t ELSE Append(t, n)
<1>5. /\ u \in Seq(Nodes)
      /\ Len(t) <= Len(u)
      /\ \A j \in 1..Len(t) : u[j] = t[j]
      /\ K <= Len(u)
  <2> HIDE DEF t
  <2> QED
    BY <1>2, <1>3, <1>4, AppendFacts
<1>6. u[K] = n
  <2>1. CASE K <= Len(t)
    <3>1. n = t[K]
      BY <1>1, <2>1 DEF Upcoming
    <3> QED
      BY <2>1, <3>1
  <2>2. CASE ~(K <= Len(t))
    <3> HIDE DEF t
    <3>1. K = Len(t) + 1
      BY <1>2, <1>4, <2>2
    <3> QED
      BY <1>2, <1>3, <2>2, <3>1, AppendFacts
  <2> QED
    BY <2>1, <2>2
<1>7. TextAt(n) = [text EXCEPT ![f].nodes = u]
  BY DEF TextAt
<1> HIDE DEF f, u
<1>8. /\ TextAt(n) \in Texts
      /\ TextAt(n)[f].nodes = u
      /\ \A g \in Files \ {f} : TextAt(n)[g] = text[g]
  <2> DEFINE e == [text[f] EXCEPT !.nodes = u]
  <2>1. TextAt(n) = [text EXCEPT ![f] = e]
    BY <1>7
  <2>2. e \in [state : {"unread", "broken", "open", "whole"}, nodes : Seq(Nodes)] /\ e.nodes = u
    BY <1>2, <1>5 DEF Texts
  <2> HIDE DEF e
  <2> QED
    BY <1>2, <2>1, <2>2 DEF Texts
<1>9. Grown(text, TextAt(n))
  <2> SUFFICES ASSUME NEW g \in Files
               PROVE  /\ Len(text[g].nodes) <= Len(TextAt(n)[g].nodes)
                      /\ \A j \in 1..Len(text[g].nodes) : TextAt(n)[g].nodes[j] = text[g].nodes[j]
    BY DEF Grown
  <2>1. CASE g = f
    BY <1>5, <1>8, <2>1
  <2>2. CASE g # f
    <3>1. text[g].nodes \in Seq(Nodes)
      BY <1>2 DEF Texts
    <3>2. Len(text[g].nodes) \in Nat
      BY <3>1, LenProperties
    <3> QED
      BY <1>8, <2>2, <3>2
  <2> QED
    BY <2>1, <2>2
<1> QED
  BY <1>1, <1>3, <1>5, <1>6, <1>8, <1>9 DEF f
LEMMA WaitGrows ==
    ASSUME NEW s \in Sema, NEW t \in Texts, NEW u \in Texts, Grown(t, u),
           Len(s.ast) <= Len(t[s.file].nodes)
    PROVE  /\ Len(s.ast) <= Len(u[s.file].nodes)
           /\ Len(s.ast) < Len(t[s.file].nodes) =>
                 /\ Len(s.ast) < Len(u[s.file].nodes)
                 /\ u[s.file].nodes[Len(s.ast) + 1] = t[s.file].nodes[Len(s.ast) + 1]
<1> DEFINE old == t[s.file].nodes
           new == u[s.file].nodes
           p == Len(s.ast)
<1>1. s.file \in Files /\ p \in Nat
  BY LenProperties DEF Sema
<1>2. old \in Seq(Nodes) /\ new \in Seq(Nodes)
  BY <1>1 DEF Texts
<1>3. Len(old) \in Nat /\ Len(new) \in Nat
  BY <1>2, LenProperties
<1>4. Len(old) <= Len(new) /\ \A j \in 1..Len(old) : new[j] = old[j]
  BY <1>1 DEF Grown
<1>5. p <= Len(old)
  OBVIOUS
<1> HIDE DEF old, new, p
<1>6. p <= Len(new) /\ (p < Len(old) => p < Len(new) /\ new[p + 1] = old[p + 1])
  BY <1>1, <1>3, <1>4, <1>5
<1> QED
  BY <1>6 DEF old, new, p

\* Module i goes past a declaration.
LEMMA WithFacts ==
    ASSUME semas \in Seq(Sema), NEW i \in 1..Len(semas), NEW s, Filled(semas[i], s),
           NEW decl \in Decl, NEW reads \in Decl, NEW known,
           LeadsTo(s, i, known), reads.of \in {0, i} \cup known
    PROVE  LET w == With(i, s, decl, reads)
           IN  /\ w \in Seq(Sema) /\ Len(w) = Len(semas)
               /\ \A j \in 1..Len(semas) : /\ w[j].file = semas[j].file
                                           /\ w[j].dir = semas[j].dir
                                           /\ j # i => w[j] = semas[j]
               /\ Len(w[i].ast) = Len(semas[i].ast) + 1
               /\ LeadsTo(w[i], i, known)
<1> DEFINE Entry == [decl : Decl, reads : Decl]
           e == [decl |-> decl, reads |-> reads]
           a == Append(s.ast, e)
           t == [s EXCEPT !.ast = a]
           w == With(i, s, decl, reads)
<1>1. e \in Entry /\ e.reads = reads
  OBVIOUS
<1>2. s \in Sema /\ s.ast = semas[i].ast /\ s.ast \in Seq(Entry)
  BY DEF Filled, Sema
<1> HIDE DEF Entry, e
<1>3. /\ a \in Seq(Entry)
      /\ Len(a) = Len(s.ast) + 1 /\ Len(s.ast) \in Nat
      /\ a[Len(s.ast) + 1] = e
      /\ \A k \in 1..Len(s.ast) : a[k] = s.ast[k]
  BY <1>1, <1>2, AppendFacts, LenProperties
<1> HIDE DEF a
<1>4. /\ t \in Sema /\ t.file = s.file /\ t.dir = s.dir /\ t.priv = s.priv /\ t.pub = s.pub
      /\ t.ast = a
  BY <1>2, <1>3 DEF Sema, Entry
<1>5. w = [semas EXCEPT ![i] = t]
  BY DEF With, a, e
<1> HIDE DEF t, w
<1>6. /\ w \in Seq(Sema) /\ Len(w) = Len(semas)
      /\ w[i] = t
      /\ \A j \in 1..Len(semas) : j # i => w[j] = semas[j]
  BY <1>4, <1>5, ExceptSeq
<1>7. \A k \in 1..Len(a) : a[k].reads.of \in {0, i} \cup known
  <2> SUFFICES ASSUME NEW k \in 1..Len(a)
               PROVE  a[k].reads.of \in {0, i} \cup known
    OBVIOUS
  <2>1. CASE k \in 1..Len(s.ast)
    BY <1>3, <2>1 DEF LeadsTo
  <2>2. CASE k = Len(s.ast) + 1
    BY <1>1, <1>3, <2>2
  <2> QED
    BY <1>3, <2>1, <2>2
<1>8. LeadsTo(t, i, known)
  BY <1>4, <1>7 DEF LeadsTo
<1>9. \A j \in 1..Len(semas) : w[j].file = semas[j].file /\ w[j].dir = semas[j].dir
  BY <1>4, <1>6 DEF Filled
<1>10. Len(w[i].ast) = Len(semas[i].ast) + 1
  BY <1>2, <1>3, <1>4, <1>6
<1> QED
  BY <1>6, <1>8, <1>9, <1>10 DEF w
(***************************************************************************)
(* Reading a declaration                                                   *)
(***************************************************************************)
\* What goes on while nothing is opened and nothing is closed.
LEMMA DescriptorFacts ==
    ASSUME TypeOK, NEW path, NEW files, Opens(path, files) \/ Fails(path, files)
    PROVE  opened' \in 0..MaxOpen /\ (Exhausted => Exhausted')
<1>1. opened \in 0..MaxOpen /\ MaxOpen \in Nat
  BY SizesAssumption DEF TypeOK
<1>2. opened' = opened \/ (opened # MaxOpen /\ opened' = opened + 1)
  BY DEF Opens, Fails, Exhausted
<1> QED
  BY <1>1, <1>2 DEF Exhausted, Opens, Fails

LEMMA ModuleReads ==
    ASSUME OrderInv, Reading,
           NEW s, Filled(S, s), LeadsTo(s, I, Known(Len(modules))),
           NEW decl \in Decl, NEW reads \in Decl, reads.of \in {0, I} \cup Known(Len(modules)),
           semas' = With(I, s, decl, reads),
           text' \in Texts, Grown(text, text'), K <= Len(text'[S.file].nodes),
           opened' \in 0..MaxOpen, UNCHANGED <<cwd, frames, modules, stage, Later>>
    PROVE  OrderInv'
<1> DEFINE known == Known(Len(modules))
           N == Len(frames)
<1>1. /\ frames \in Seq([sema : 1..Len(semas), back : Dirs])
      /\ semas \in Seq(Sema) /\ Len(semas) \in Nat
      /\ N \in Nat \ {0}
      /\ I = frames[N].sema /\ I \in 1..Len(semas) /\ S = semas[I]
      /\ cwd = S.dir
      /\ K = Len(S.ast) + 1
      /\ I \notin known
  BY ReadingFacts
<1>2. /\ semas' \in Seq(Sema) /\ Len(semas') = Len(semas)
      /\ \A j \in 1..Len(semas) : /\ semas'[j].file = semas[j].file
                                  /\ semas'[j].dir = semas[j].dir
                                  /\ j # I => semas'[j] = semas[j]
      /\ Len(semas'[I].ast) = K
      /\ LeadsTo(semas'[I], I, known)
  <2>1. /\ semas \in Seq(Sema) /\ I \in 1..Len(semas) /\ Filled(semas[I], s)
        /\ LeadsTo(s, I, known) /\ reads.of \in {0, I} \cup known
    BY <1>1
  <2>2. Len(semas[I].ast) + 1 = K
    BY <1>1
  <2> HIDE DEF known
  <2>3. LET w == With(I, s, decl, reads)
        IN  /\ w \in Seq(Sema) /\ Len(w) = Len(semas)
            /\ \A j \in 1..Len(semas) : /\ w[j].file = semas[j].file
                                        /\ w[j].dir = semas[j].dir
                                        /\ j # I => w[j] = semas[j]
            /\ Len(w[I].ast) = Len(semas[I].ast) + 1
            /\ LeadsTo(w[I], I, known)
    BY <2>1, WithFacts
  <2> QED
    BY <2>2, <2>3
<1>3. /\ \A k \in 1..N : frames[k].sema \in 1..Len(semas)
      /\ \A k \in 1..N : k # N => frames[k].sema # I
  <2>1. \A k \in 1..N : frames[k].sema \in 1..Len(semas)
    BY FrameFacts DEF OrderInv
  <2>2. \A k \in 1..N : k # N => k < N /\ N \in 1..N
    <3> HIDE DEF N
    <3> QED
      BY <1>1
  <2>3. \A k \in 1..N : k # N => frames[k].sema < frames[N].sema
    BY <2>2 DEF OrderInv, EachOnce
  <2> HIDE DEF N
  <2> QED
    BY <1>1, <2>1, <2>3
<1>4. modules \in Seq(1..Len(semas)) /\ Len(modules) \in Nat /\ Known(Len(modules))' = known
  BY LenProperties DEF OrderInv, TypeOK, Known
<1>5. \A i \in 1..Len(modules) : modules[i] \in 1..Len(semas) /\ modules[i] # I
  BY <1>1, <1>4, ElementOfSeq DEF Known
<1>6. TypeOK'
  BY <1>2 DEF OrderInv, TypeOK, Later
<1>7. CwdFollows'
  <2>1. frames # <<>> /\ Last(frames) = frames[N]
    BY ReadingFacts DEF Reading
  <2> QED
    BY <1>1, <1>2, <2>1 DEF CwdFollows, S, I
<1>8. ReturnsWhereOpened'
  <2> SUFFICES ASSUME NEW k \in 1..N
               PROVE  frames[k].back = IF k = 1 THEN StartDir ELSE semas'[frames[k - 1].sema].dir
    BY DEF ReturnsWhereOpened
  <2>1. frames[k].back = IF k = 1 THEN StartDir ELSE semas[frames[k - 1].sema].dir
    BY DEF OrderInv, ReturnsWhereOpened
  <2>2. k # 1 => frames[k - 1].sema \in 1..Len(semas)
    <3>1. k # 1 => k - 1 \in 1..N
      BY <1>1
    <3> QED
      BY <1>3, <3>1
  <2> QED
    BY <1>2, <2>1, <2>2
<1>9. WaitsForImports'
  <2> SUFFICES ASSUME NEW k \in 1..N
               PROVE  LET t == semas'[frames[k].sema]
                          nodes == text'[t.file].nodes
                      IN  /\ Len(t.ast) <= Len(nodes)
                          /\ k < N => /\ Len(t.ast) < Len(nodes)
                                      /\ nodes[Len(t.ast) + 1].kind = "import"
    BY DEF WaitsForImports
  <2>1. CASE k = N
    <3>1. /\ semas'[frames[k].sema].file = S.file
          /\ Len(semas'[frames[k].sema].ast) = K
          /\ ~(k < N)
      <4>1. ~(k < N)
        <5> HIDE DEF N
        <5> QED
          BY <1>1, <2>1
      <4>2. semas'[frames[k].sema] = semas'[I] /\ semas'[I].file = S.file
        BY <1>1, <1>2, <2>1
      <4> QED
        BY <1>2, <4>1, <4>2
    <3> QED
      BY <3>1
  <2>2. CASE k # N
    <3> DEFINE t == semas[frames[k].sema]
    <3>1. frames[k].sema \in 1..Len(semas) /\ semas'[frames[k].sema] = t /\ k < N
      <4>1. k < N
        <5> HIDE DEF N
        <5> QED
          BY <1>1, <2>2
      <4>2. frames[k].sema \in 1..Len(semas) /\ frames[k].sema # I
        BY <1>3, <2>2
      <4> QED
        BY <1>2, <4>1, <4>2
    <3>2. t \in Sema
      BY <1>1, <3>1, ElementOfSeq
    <3>3. /\ Len(t.ast) <= Len(text[t.file].nodes)
          /\ Len(t.ast) < Len(text[t.file].nodes)
          /\ text[t.file].nodes[Len(t.ast) + 1].kind = "import"
      BY <3>1 DEF OrderInv, WaitsForImports
    <3>4. text \in Texts
      BY DEF OrderInv, TypeOK
    <3> HIDE DEF t
    <3>5. /\ Len(t.ast) <= Len(text'[t.file].nodes)
          /\ Len(t.ast) < Len(text'[t.file].nodes)
          /\ text'[t.file].nodes[Len(t.ast) + 1].kind = "import"
      BY <3>2, <3>3, <3>4, WaitGrows
    <3> QED
      BY <3>1, <3>5
  <2> QED
    BY <2>1, <2>2
<1>10. EachOnce'
  BY DEF OrderInv, EachOnce
<1>11. LeadsBack'
  <2>1. ASSUME NEW i \in 1..Len(modules)
        PROVE  LeadsTo(semas'[modules[i]], modules[i], Known(i - 1)')
    <3>1. semas'[modules[i]] = semas[modules[i]]
      BY <1>2, <1>5
    <3>2. Known(i - 1)' = Known(i - 1)
      BY DEF Known
    <3> QED
      BY <3>1, <3>2 DEF OrderInv, LeadsBack
  <2>2. ASSUME NEW k \in 1..N
        PROVE  LeadsTo(semas'[frames[k].sema], frames[k].sema, known)
    BY <1>1, <1>2, <1>3 DEF OrderInv, LeadsBack
  <2> QED
    BY <1>4, <2>1, <2>2 DEF LeadsBack
<1> QED
  BY <1>6, <1>7, <1>8, <1>9, <1>10, <1>11 DEF OrderInv

\* A declaration is read: what the module holds then still leads to its own or
\* to listed modules.
TakesFit(n) ==
    \E s : \E decl \in Decl, reads \in Decl :
        /\ Filled(S, s) /\ LeadsTo(s, I, Known(Len(modules)))
        /\ reads.of \in {0, I} \cup Known(Len(modules))
        /\ Take(n, s, decl, reads)

LEMMA TakeFits ==
    ASSUME NEW n, NEW s, Filled(S, s), LeadsTo(s, I, Known(Len(modules))),
           NEW decl \in Decl, NEW reads \in Decl, reads.of \in {0, I} \cup Known(Len(modules)),
           Take(n, s, decl, reads)
    PROVE  TakesFit(n)
BY DEF TakesFit

LEMMA TakesFitKeeps ==
    ASSUME OrderInv, NEW n \in Upcoming, TakesFit(n)
    PROVE  OrderInv'
<1>1. /\ Reading
      /\ TextAt(n) \in Texts /\ Grown(text, TextAt(n)) /\ K <= Len(TextAt(n)[S.file].nodes)
  BY TextFacts
<1>2. PICK s : \E decl \in Decl, reads \in Decl :
          /\ Filled(S, s) /\ LeadsTo(s, I, Known(Len(modules)))
          /\ reads.of \in {0, I} \cup Known(Len(modules))
          /\ Take(n, s, decl, reads)
  BY DEF TakesFit
<1>3. PICK decl \in Decl, reads \in Decl :
          /\ Filled(S, s) /\ LeadsTo(s, I, Known(Len(modules)))
          /\ reads.of \in {0, I} \cup Known(Len(modules))
          /\ Take(n, s, decl, reads)
  BY <1>2
<1>4. /\ text' = TextAt(n) /\ semas' = With(I, s, decl, reads)
      /\ UNCHANGED <<cwd, opened, frames, modules, stage, Later>>
  BY <1>3 DEF Take
<1>5. opened' \in 0..MaxOpen
  BY <1>4 DEF OrderInv, TypeOK
<1> QED
  BY <1>1, <1>3, <1>4, <1>5, ModuleReads

LEMMA RefuseFits ==
    ASSUME OrderInv, NEW n \in Upcoming, Refuse(n)
    PROVE  TakesFit(n)
<1>1. Reading /\ S \in Sema /\ LeadsTo(S, I, Known(Len(modules)))
  BY TextFacts, ReadingFacts
<1> DEFINE s == [S EXCEPT !.failed = TRUE]
<1>2. Filled(S, s) /\ LeadsTo(s, I, Known(Len(modules)))
  BY <1>1 DEF Filled, LeadsTo, Sema
<1>3. Take(n, s, NoDecl, NoDecl)
  BY DEF Refuse
<1>4. NoDecl \in Decl /\ NoDecl.of = 0
  BY NoDeclType DEF NoDecl
<1> QED
  BY <1>2, <1>3, <1>4, TakeFits

\* What a module declares itself.
LEMMA NewDeclFacts ==
    ASSUME OrderInv, Reading, NEW name \in Names, NEW ext \in BOOLEAN,
           NEW value \in {"constant", "final", "var", "none"}, NEW known
    PROVE  /\ NewDecl(name, ext, value) \in Decl
           /\ Fit(NewDecl(name, ext, value), I, known)
<1>1. I \in Nat /\ K \in Nat
  BY ReadingFacts
<1>2. NewDecl(name, ext, value) \in Decl
  BY <1>1, NoDeclType DEF NewDecl, Decl
<1>3. NewDecl(name, ext, value).of = I /\ NewDecl(name, ext, value).target = 0
      /\ NewDecl(name, ext, value).value = value
  BY DEF NewDecl, NoDecl
<1> HIDE DEF NewDecl
<1> QED
  BY <1>2, <1>3 DEF Fit

LEMMA ReadPlainFits ==
    ASSUME OrderInv, NEW n \in Upcoming, ReadPlain(n)
    PROVE  TakesFit(n)
<1> DEFINE known == Known(Len(modules))
           d == NewDecl(n.name, n.kind = "ext", "final")
<1>1. Reading /\ n \in Nodes /\ S \in Sema /\ LeadsTo(S, I, known)
  BY TextFacts, ReadingFacts
<1>2. n.name \in Names /\ n.public \in BOOLEAN
  BY <1>1, NodeFacts DEF ReadPlain, At
<1>3. d \in Decl /\ Fit(d, I, known)
  BY <1>1, <1>2, NewDeclFacts
<1>4. Take(n, Push(S, d, n.public), d, NoDecl)
  BY DEF ReadPlain
<1>5. NoDecl \in Decl /\ NoDecl.of = 0
  BY NoDeclType DEF NoDecl
<1> HIDE DEF d, known
<1>6. Filled(S, Push(S, d, n.public)) /\ LeadsTo(Push(S, d, n.public), I, known)
  BY <1>1, <1>2, <1>3, PushFacts
<1> QED
  BY <1>3, <1>4, <1>5, <1>6, TakeFits DEF known

\* What the module of the innermost call resolves.
LEMMA ResolvesHere ==
    ASSUME OrderInv, Reading, NEW ref
    PROVE  LET r == Resolve(S, ref)
               known == Known(Len(modules))
           IN  /\ r \in Decl
               /\ r = NoDecl \/ Fit(r, I, known)
               /\ r.of \in {0, I} \cup known
               /\ r.value = "module" => /\ r.target \in known
                                        /\ semas[r.target] \in Sema
                                        /\ LeadsTo(semas[r.target], r.target, known)
<1> DEFINE r == Resolve(S, ref)
           known == Known(Len(modules))
<1>1. S \in Sema /\ LeadsTo(S, I, known)
  BY ReadingFacts
<1>2. \A j \in known : semas[j] \in Sema /\ LeadsTo(semas[j], j, known)
  BY KnownFacts
<1> HIDE DEF known
<1>3. r \in Decl /\ (r = NoDecl \/ Fit(r, I, known)) /\ r.of \in {0, I} \cup known
  BY <1>1, <1>2, ResolveFacts
<1> HIDE DEF r
<1>4. r.value = "module" => r.target \in known
  <2>1. NoDecl.value # "module"
    BY DEF NoDecl
  <2> QED
    BY <1>3, <2>1 DEF Fit
<1> QED
  BY <1>2, <1>3, <1>4 DEF r, known

LEMMA ReadValFits ==
    ASSUME OrderInv, NEW n \in Upcoming, ReadVal(n)
    PROVE  TakesFit(n)
<1> DEFINE known == Known(Len(modules))
           init == Resolve(S, n.ref)
           value == IF n.kind # "const" THEN n.kind
                    ELSE IF n.ref = NoRef THEN "constant" ELSE init.value
           d == NewDecl(n.name, FALSE, value)
<1>1. Reading /\ n \in Nodes /\ S \in Sema /\ LeadsTo(S, I, known)
  BY TextFacts, ReadingFacts
<1>2. n.kind \in Vals /\ n.name \in Names /\ n.public \in BOOLEAN
  BY <1>1, NodeFacts DEF ReadVal, At, Vals
<1>3. init \in Decl /\ init.of \in {0, I} \cup known
  BY <1>1, ResolvesHere
<1>4. CASE n.ref = NoRef \/ init.value \in {"constant", "final"}
  <2>1. Take(n, Push(S, d, n.public), d, init)
    BY <1>4 DEF ReadVal
  <2>2. value \in {"constant", "final", "var", "none"}
    BY <1>2, <1>4 DEF Vals
  <2> HIDE DEF value, known, init
  <2>3. d \in Decl /\ Fit(d, I, known)
    BY <1>1, <1>2, <2>2, NewDeclFacts
  <2> HIDE DEF d
  <2>4. Filled(S, Push(S, d, n.public)) /\ LeadsTo(Push(S, d, n.public), I, known)
    BY <1>1, <1>2, <2>3, PushFacts
  <2> QED
    BY <1>3, <2>1, <2>3, <2>4, TakeFits DEF known
<1>5. CASE ~(n.ref = NoRef \/ init.value \in {"constant", "final"})
  BY <1>5, RefuseFits DEF ReadVal
<1> QED
  BY <1>4, <1>5
LEMMA ReadFromAllFits ==
    ASSUME OrderInv, NEW n \in Upcoming, ReadFromAll(n)
    PROVE  TakesFit(n)
<1> DEFINE known == Known(Len(modules))
           m == Resolve(S, n.ref)
           s == PushAll(S, FALSE, m.target, n.public)
<1>1. Reading /\ n \in Nodes /\ S \in Sema /\ LeadsTo(S, I, known)
  BY TextFacts, ReadingFacts
<1>2. n.public \in BOOLEAN
  BY <1>1, NodeFacts DEF ReadFromAll, At
<1>3. CASE m.value = "module"
  <2>1. /\ m.target \in known
        /\ semas[m.target] \in Sema /\ LeadsTo(semas[m.target], m.target, known)
    BY <1>1, <1>3, ResolvesHere
  <2>2. Take(n, s, NoDecl, NoDecl)
    BY <1>3 DEF ReadFromAll
  <2> HIDE DEF m, known
  <2>3. Filled(S, s) /\ LeadsTo(s, I, known)
    BY <1>1, <1>2, <2>1, PushAllFacts
  <2>4. NoDecl \in Decl /\ NoDecl.of = 0
    BY NoDeclType DEF NoDecl
  <2> HIDE DEF s
  <2> QED
    BY <2>2, <2>3, <2>4, TakeFits DEF known
<1>4. CASE m.value # "module"
  BY <1>4, RefuseFits DEF ReadFromAll
<1> QED
  BY <1>3, <1>4

LEMMA ReadFromItemFits ==
    ASSUME OrderInv, NEW n \in Upcoming, ReadFromItem(n)
    PROVE  TakesFit(n)
<1> DEFINE known == Known(Len(modules))
           m == Resolve(S, n.ref)
           j == m.target
           d == IF m.value # "module" THEN NoDecl ELSE Declared(semas[j].pub, FALSE, n.name)
<1>1. Reading /\ n \in Nodes /\ S \in Sema /\ LeadsTo(S, I, known)
  BY TextFacts, ReadingFacts
<1>2. n.public \in BOOLEAN
  BY <1>1, NodeFacts DEF ReadFromItem, At
<1>3. CASE d # NoDecl
  <2>1. j \in known /\ semas[j] \in Sema /\ LeadsTo(semas[j], j, known)
    BY <1>1, <1>3, ResolvesHere
  <2>2. d = Declared(semas[j].pub, FALSE, n.name)
    BY <1>3
  <2>3. Take(n, Push(S, d, n.public), NoDecl, NoDecl)
    BY <1>3 DEF ReadFromItem
  <2> HIDE DEF m, known, d, j
  <2>4. d \in Decl /\ Fit(d, j, known)
    BY <1>3, <2>1, <2>2, TableFacts
  <2>5. Fit(d, I, known)
    BY <2>1, <2>4 DEF Fit
  <2>6. Filled(S, Push(S, d, n.public)) /\ LeadsTo(Push(S, d, n.public), I, known)
    BY <1>1, <1>2, <2>4, <2>5, PushFacts
  <2>7. NoDecl \in Decl /\ NoDecl.of = 0
    BY NoDeclType DEF NoDecl
  <2> QED
    BY <2>3, <2>6, <2>7, TakeFits DEF known
<1>4. CASE d = NoDecl
  <2>1. Refuse(n)
    BY <1>4 DEF ReadFromItem
  <2> QED
    BY <2>1, RefuseFits
<1> QED
  BY <1>3, <1>4

LEMMA ReadUseFits ==
    ASSUME OrderInv, NEW n \in Upcoming, ReadUse(n)
    PROVE  TakesFit(n)
<1> DEFINE known == Known(Len(modules))
           d == Resolve(S, n.ref)
           s == Push(S, d, n.public)
           t == IF d.value = "module" THEN PushAll(s, TRUE, d.target, FALSE) ELSE s
<1>1. Reading /\ n \in Nodes /\ S \in Sema /\ LeadsTo(S, I, known)
  BY TextFacts, ReadingFacts
<1>2. n.public \in BOOLEAN
  BY <1>1, NodeFacts DEF ReadUse, At
<1>3. /\ d \in Decl /\ (d = NoDecl \/ Fit(d, I, known))
      /\ d.value = "module" => /\ d.target \in known
                               /\ semas[d.target] \in Sema
                               /\ LeadsTo(semas[d.target], d.target, known)
  BY <1>1, ResolvesHere
<1>4. CASE d # NoDecl
  <2>1. Take(n, t, NoDecl, NoDecl)
    BY <1>4 DEF ReadUse
  <2> HIDE DEF d, known
  <2>2. Filled(S, s) /\ LeadsTo(s, I, known)
    BY <1>1, <1>2, <1>3, <1>4, PushFacts
  <2> HIDE DEF s
  <2>3. Filled(S, t) /\ LeadsTo(t, I, known)
    <3>1. CASE d.value = "module"
      <4>1. s \in Sema
        BY <2>2 DEF Filled
      <4>2. Filled(s, PushAll(s, TRUE, d.target, FALSE)) /\ LeadsTo(PushAll(s, TRUE, d.target, FALSE), I, known)
        BY <1>3, <2>2, <3>1, <4>1, PushAllFacts
      <4> QED
        BY <2>2, <3>1, <4>2 DEF Filled
    <3>2. CASE d.value # "module"
      BY <2>2, <3>2
    <3> QED
      BY <3>1, <3>2
  <2>4. NoDecl \in Decl /\ NoDecl.of = 0
    BY NoDeclType DEF NoDecl
  <2> HIDE DEF t
  <2> QED
    BY <2>1, <2>3, <2>4, TakeFits DEF known
<1>5. CASE d = NoDecl
  BY <1>5, RefuseFits DEF ReadUse
<1> QED
  BY <1>4, <1>5

\* After an import of m, module i holds what it held, the import's name, and
\* what m makes public.
HeldAfter(s, i, n, m) ==
    \A d \in s.priv \cup s.pub :
        \/ d \in semas[i].priv \cup semas[i].pub
        \/ m # 0 /\ d \in semas[m].pub
        \/ /\ d.name = n.name /\ d.value = "module"
           /\ d.of = i /\ d.node = Len(semas[i].ast) + 1

\* What an import makes of its answer m, in a module i, once m is listed.
LEMMA ImportedFacts ==
    ASSUME NEW i \in Nat, semas[i] \in Sema,
           NEW n \in Nodes, n.kind = "import", NEW known, NEW m \in Nat,
           LeadsTo(semas[i], i, known),
           m # 0 => m \in known /\ semas[m] \in Sema /\ LeadsTo(semas[m], m, known)
    PROVE  \E s : \E decl \in Decl :
               /\ Filled(semas[i], s) /\ LeadsTo(s, i, known)
               /\ Imported(i, n, m) = With(i, s, decl, NoDecl)
               /\ HeldAfter(s, i, n, m)
<1>1. CASE m = 0
  <2>1. Imported(i, n, m) = With(i, semas[i], NoDecl, NoDecl)
    BY <1>1 DEF Imported
  <2>2. Filled(semas[i], semas[i]) /\ HeldAfter(semas[i], i, n, m)
    BY DEF Filled, HeldAfter
  <2> QED
    BY <2>1, <2>2, NoDeclType
<1>2. CASE m # 0
  <2> DEFINE s == semas[i]
             alias == [NoDecl EXCEPT !.name = n.name, !.value = "module", !.of = i,
                                     !.node = Len(s.ast) + 1, !.target = m]
             t == Push(s, alias, n.public)
             u == PushAll(t, TRUE, m, FALSE)
  <2>1. Imported(i, n, m) = With(i, u, alias, NoDecl)
    BY <1>2 DEF Imported, WithAlias
  <2>2. n.name \in Names /\ n.public \in BOOLEAN
    BY NodeFacts
  <2>3. Len(s.ast) \in Nat
    BY LenProperties DEF Sema
  <2>4. alias \in Decl /\ Fit(alias, i, known)
    <3>1. alias \in Decl
      <4> DEFINE k == Len(s.ast) + 1
      <4>1. k \in Nat
        BY <2>3
      <4> HIDE DEF k
      <4>2. [NoDecl EXCEPT !.name = n.name, !.value = "module", !.of = i, !.node = k, !.target = m]
                \in Decl
        BY <2>2, <4>1, NoDeclType DEF Decl
      <4> QED
        BY <4>2 DEF k
    <3>2. alias.of = i /\ alias.value = "module" /\ alias.target = m
      BY DEF NoDecl
    <3> QED
      BY <1>2, <3>1, <3>2 DEF Fit
  <2>5. /\ alias.name = n.name /\ alias.value = "module"
        /\ alias.of = i /\ alias.node = Len(s.ast) + 1
    BY DEF NoDecl
  <2> HIDE DEF alias
  <2>6. \A d \in t.priv \cup t.pub : d \in s.priv \cup s.pub \cup {alias}
    BY PushHolds
  <2>7. Filled(s, t) /\ LeadsTo(t, i, known)
    BY <2>2, <2>4, PushFacts
  <2>8. t \in Sema
    BY <2>7 DEF Filled
  <2> HIDE DEF t
  <2>9. Filled(t, u) /\ LeadsTo(u, i, known)
    BY <1>2, <2>7, <2>8, PushAllFacts
  <2>10. Filled(s, u)
    BY <2>7, <2>9 DEF Filled
  <2>11. \A d \in u.priv \cup u.pub : d \in t.priv \cup t.pub \cup semas[m].pub
    BY <2>8, PushAllHolds
  <2> HIDE DEF u
  <2>12. HeldAfter(u, i, n, m)
    BY <1>2, <2>5, <2>6, <2>11 DEF HeldAfter
  <2> QED
    BY <2>1, <2>4, <2>9, <2>10, <2>12
<1> QED
  BY <1>1, <1>2

\* An import that opens nothing.
LEMMA ImportAnswered ==
    ASSUME OrderInv, Reading, NEW n \in Nodes, n.kind = "import",
           NEW m \in {0} \cup Known(Len(modules)), semas' = Imported(I, n, m),
           text' \in Texts, Grown(text, text'), K <= Len(text'[S.file].nodes),
           opened' \in 0..MaxOpen, UNCHANGED <<cwd, frames, modules, stage, Later>>
    PROVE  OrderInv'
<1> DEFINE known == Known(Len(modules))
<1>1. I \in Nat /\ S = semas[I] /\ S \in Sema /\ LeadsTo(S, I, known)
  BY ReadingFacts
<1>2. m # 0 => m \in known /\ semas[m] \in Sema /\ LeadsTo(semas[m], m, known)
  BY KnownFacts
<1>3. m \in Nat
  BY KnownFacts
<1> HIDE DEF known
<1>4. PICK s : \E decl \in Decl :
          /\ Filled(S, s) /\ LeadsTo(s, I, known)
          /\ Imported(I, n, m) = With(I, s, decl, NoDecl)
  <2>1. semas[I] \in Sema /\ LeadsTo(semas[I], I, known)
    BY <1>1
  <2>2. \E s : \E decl \in Decl :
            /\ Filled(semas[I], s) /\ LeadsTo(s, I, known)
            /\ Imported(I, n, m) = With(I, s, decl, NoDecl)
    BY ONLY <1>1, <1>2, <1>3, <2>1, n \in Nodes, n.kind = "import", ImportedFacts
  <2> QED
    BY <1>1, <2>2
<1>5. PICK decl \in Decl :
          /\ Filled(S, s) /\ LeadsTo(s, I, known)
          /\ Imported(I, n, m) = With(I, s, decl, NoDecl)
  BY <1>4
<1>6. NoDecl \in Decl /\ NoDecl.of = 0
  BY NoDeclType DEF NoDecl
<1> QED
  BY <1>5, <1>6, ModuleReads DEF known
\* A file's nodes are what counts, not how far it is known.
Marked(files, f, st) == [files EXCEPT ![f].state = st]

LEMMA MarkedFacts ==
    ASSUME NEW files \in Texts, Grown(text, files), NEW f \in Files,
           NEW st \in {"unread", "broken", "open", "whole"}
    PROVE  /\ Marked(files, f, st) \in Texts
           /\ Grown(text, Marked(files, f, st))
           /\ \A g \in Files : Marked(files, f, st)[g].nodes = files[g].nodes
<1> DEFINE t == Marked(files, f, st)
<1>1. t \in Texts /\ \A g \in Files : t[g].nodes = files[g].nodes
  BY DEF Texts, Marked
<1> HIDE DEF t
<1>2. Grown(text, t)
  BY <1>1 DEF Grown
<1> QED
  BY <1>1, <1>2 DEF t

\* The files after an attempt to open one: a little further known.
LEMMA OpensText ==
    ASSUME OrderInv, NEW path \in Paths, NEW files \in Texts, Grown(text, files),
           Opens(path, files)
    PROVE  /\ text' \in Texts /\ Grown(text, text')
           /\ \A g \in Files : text'[g].nodes = files[g].nodes
<1> DEFINE f == Finds[<<cwd, path>>]
           st == IF files[f].state = "unread" THEN "open" ELSE files[f].state
<1>1. f # NoFile /\ text' = Marked(files, f, st)
  BY DEF Opens, Marked
<1>2. f \in Files
  BY <1>1, FileSystemAssumption DEF OrderInv, TypeOK
<1>3. st \in {"unread", "broken", "open", "whole"}
  BY <1>2 DEF Texts
<1> HIDE DEF f, st
<1>4. /\ Marked(files, f, st) \in Texts /\ Grown(text, Marked(files, f, st))
      /\ \A g \in Files : Marked(files, f, st)[g].nodes = files[g].nodes
  BY <1>2, <1>3, MarkedFacts
<1> QED
  BY <1>1, <1>4

LEMMA FailsText ==
    ASSUME OrderInv, NEW path \in Paths, NEW files \in Texts, Grown(text, files),
           Fails(path, files)
    PROVE  /\ text' \in Texts /\ Grown(text, text')
           /\ \A g \in Files : text'[g].nodes = files[g].nodes
<1> DEFINE f == Finds[<<cwd, path>>]
<1>1. f \in Files \cup {NoFile}
  BY FileSystemAssumption DEF OrderInv, TypeOK
<1>2. text' = files \/ (f \in Files /\ text' = Marked(files, f, "broken"))
  BY <1>1 DEF Fails, Marked, Exhausted
<1> HIDE DEF f
<1>3. CASE text' = files
  BY <1>3
<1>4. CASE f \in Files /\ text' = Marked(files, f, "broken")
  <2>1. /\ Marked(files, f, "broken") \in Texts /\ Grown(text, Marked(files, f, "broken"))
        /\ \A g \in Files : Marked(files, f, "broken")[g].nodes = files[g].nodes
    BY <1>4, MarkedFacts
  <2> QED
    BY <1>4, <2>1
<1> QED
  BY <1>2, <1>3, <1>4

\* The search of project->modules for a file.
LEMMA ListedFacts ==
    ASSUME TypeOK, NEW file
    PROVE  /\ Listed(file) \in {0} \cup Known(Len(modules))
           /\ Listed(file) # 0 => semas[Listed(file)].file = file
           /\ Listed(file) = 0 => \A q \in 1..Len(modules) : semas[modules[q]].file # file
<1> DEFINE T == {i \in 1..Len(modules) : semas[modules[i]].file = file}
           i == SelectInSeq(modules, LAMBDA m : semas[m].file = file)
<1>1. modules \in Seq(1..Len(semas))
  BY DEF TypeOK
<1>2. i = IF T # {} THEN Min(T) ELSE 0
  BY DEF SelectInSeq
<1>3. T \subseteq 1..Len(modules)
  OBVIOUS
<1>4. /\ \A q \in T : semas[modules[q]].file = file
      /\ \A q \in 1..Len(modules) : semas[modules[q]].file = file => q \in T
  OBVIOUS
<1>5. \A q \in T : q # 0 /\ modules[q] # 0
  <2>1. \A q \in 1..Len(modules) : modules[q] \in 1..Len(semas)
    BY <1>1, ElementOfSeq
  <2>2. Len(modules) \in Nat /\ Len(semas) \in Nat
    BY LenProperties DEF TypeOK
  <2> QED
    BY <1>3, <2>1, <2>2
<1> HIDE DEF T
<1>6. i \in {0} \cup T /\ (T # {} => i \in T)
  BY <1>1, <1>2, <1>3, FirstInRange
<1>7. Listed(file) = IF i = 0 THEN 0 ELSE modules[i]
  BY DEF Listed
<1> HIDE DEF i
<1>8. Listed(file) # 0 => i \in T /\ Listed(file) = modules[i]
  BY <1>6, <1>7
<1>9. Listed(file) = 0 => T = {}
  BY <1>5, <1>6, <1>7
<1>10. Listed(file) \in {0} \cup Known(Len(modules))
  BY <1>3, <1>8 DEF Known
<1> QED
  BY <1>4, <1>8, <1>9, <1>10

LEMMA ImportKnownKeeps ==
    ASSUME OrderInv, NEW n \in Upcoming, ImportKnown(n)
    PROVE  OrderInv'
<1> DEFINE m == Listed(Finds[<<cwd, n.path>>])
<1>1. /\ Reading /\ n \in Nodes
      /\ text' \in Texts /\ Grown(text, text') /\ K <= Len(text'[S.file].nodes)
  BY TextFacts DEF ImportKnown
<1>2. m \in {0} \cup Known(Len(modules))
  BY ListedFacts DEF OrderInv
<1>3. /\ n.kind = "import" /\ semas' = Imported(I, n, m)
      /\ UNCHANGED <<cwd, opened, frames, modules, stage, Later>>
  BY DEF ImportKnown, At
<1>4. opened' \in 0..MaxOpen
  BY <1>3 DEF OrderInv, TypeOK
<1> HIDE DEF m
<1> QED
  BY <1>1, <1>2, <1>3, <1>4, ImportAnswered

LEMMA ImportFailsKeeps ==
    ASSUME OrderInv, NEW n \in Upcoming, ImportFails(n)
    PROVE  OrderInv'
<1>1. /\ Reading /\ n \in Nodes
      /\ TextAt(n) \in Texts /\ Grown(text, TextAt(n)) /\ K <= Len(TextAt(n)[S.file].nodes)
  BY TextFacts
<1>2. n.kind = "import" /\ n.path \in Paths /\ Fails(n.path, TextAt(n))
  BY <1>1, NodeFacts DEF ImportFails, At
<1>3. /\ text' \in Texts /\ Grown(text, text')
      /\ \A g \in Files : text'[g].nodes = TextAt(n)[g].nodes
  BY <1>1, <1>2, FailsText
<1>4. K <= Len(text'[S.file].nodes)
  BY <1>1, <1>3, ReadingFacts DEF Sema
<1>5. semas' = Imported(I, n, 0) /\ UNCHANGED <<cwd, frames, modules, stage, Later>>
  BY DEF ImportFails
<1>6. opened' \in 0..MaxOpen
  BY <1>2, DescriptorFacts DEF OrderInv
<1> QED
  BY <1>1, <1>2, <1>3, <1>4, <1>5, <1>6, ImportAnswered
(***************************************************************************)
(* Opening a file                                                          *)
(***************************************************************************)
\* The innermost call, if there is one, has come to an import.
AtImport(files) ==
    \/ frames = <<>>
    \/ /\ Reading
       /\ K <= Len(files[S.file].nodes)
       /\ files[S.file].nodes[K].kind = "import"

LEMMA NewSemaFacts ==
    ASSUME OrderInv, NEW path \in Paths, Finds[<<cwd, path>>] # NoFile
    PROVE  /\ NewSema(path) \in Sema
           /\ NewSema(path).dir = Enters[<<cwd, path>>]
           /\ Enters[<<cwd, path>>] \in Dirs
           /\ Len(NewSema(path).ast) = 0
           /\ \A m, known : LeadsTo(NewSema(path), m, known)
<1>1. cwd \in Dirs
  BY DEF OrderInv, TypeOK
<1>2. Finds[<<cwd, path>>] \in Files /\ Enters[<<cwd, path>>] \in Dirs
  BY <1>1, FileSystemAssumption
<1> QED
  BY <1>2 DEF NewSema, Sema, LeadsTo

LEMMA EnterKeeps ==
    ASSUME OrderInv, stage = "read",
           NEW path \in Paths, Finds[<<cwd, path>>] # NoFile,
           text' \in Texts, Grown(text, text'), AtImport(text'),
           Enter(path), opened' \in 0..MaxOpen, UNCHANGED <<stage, Later>>
    PROVE  OrderInv'
<1> DEFINE N == Len(frames)
           L == Len(semas)
           new == NewSema(path)
           top == NewFrame
           Frame == [sema : 1..L + 1, back : Dirs]
<1>1. /\ new \in Sema /\ new.dir = cwd' /\ cwd' \in Dirs /\ Len(new.ast) = 0
      /\ \A m, known : LeadsTo(new, m, known)
  BY NewSemaFacts DEF Enter
<1>2. top.sema = L + 1 /\ top.back = cwd
  BY DEF NewFrame
<1>3. /\ semas \in Seq(Sema) /\ L \in Nat /\ N \in Nat /\ cwd \in Dirs
      /\ modules \in Seq(1..L) /\ Len(modules) \in Nat
  BY LenProperties DEF OrderInv, TypeOK
<1>4. frames \in Seq(Frame) /\ top \in Frame
  <2>1. frames \in Seq([sema : 1..L, back : Dirs])
    BY DEF OrderInv, TypeOK
  <2>2. [sema : 1..L, back : Dirs] \subseteq Frame
    BY <1>3
  <2>3. top \in Frame
    BY <1>3 DEF NewFrame
  <2> QED
    BY <2>1, <2>2, <2>3, SeqMonotonic
<1>5. semas' = Append(semas, new) /\ frames' = Append(frames, top) /\ modules' = modules
  BY DEF Enter
<1> HIDE DEF new, top
<1>6. /\ semas' \in Seq(Sema) /\ Len(semas') = L + 1
      /\ semas'[L + 1] = new
      /\ \A j \in 1..L : semas'[j] = semas[j]
  BY <1>1, <1>3, <1>5, AppendFacts
<1>7. /\ frames' \in Seq(Frame) /\ frames' # <<>> /\ Len(frames') = N + 1
      /\ frames'[N + 1] = top
      /\ \A k \in 1..N : frames'[k] = frames[k]
  <2> HIDE DEF Frame
  <2> QED
    BY <1>4, <1>5, AppendFacts
<1>8. \A k \in 1..N : frames[k].sema \in 1..L
  BY FrameFacts DEF OrderInv
<1>9. \A i \in 1..Len(modules) : modules[i] \in 1..L
  BY <1>3, ElementOfSeq
<1>10. Known(Len(modules))' = Known(Len(modules)) /\ \A i : Known(i)' = Known(i)
  BY <1>5 DEF Known
<1>11. TypeOK'
  <2>1. modules' \in Seq(1..Len(semas'))
    <3>1. 1..L \subseteq 1..L + 1
      BY <1>3
    <3> QED
      BY <1>3, <1>5, <1>6, <3>1, SeqMonotonic
  <2> QED
    BY <1>1, <1>6, <1>7, <2>1 DEF OrderInv, TypeOK, Later
<1>12. CwdFollows'
  <2>1. Last(frames') = top
    BY <1>7 DEF Last
  <2> QED
    BY <1>1, <1>2, <1>6, <1>7, <2>1 DEF CwdFollows, S, I
<1>13. ReturnsWhereOpened'
  <2> SUFFICES ASSUME NEW k \in 1..N + 1
               PROVE  frames'[k].back = IF k = 1 THEN StartDir ELSE semas'[frames'[k - 1].sema].dir
    BY <1>7 DEF ReturnsWhereOpened
  <2>1. CASE k = N + 1 /\ frames = <<>>
    BY <1>2, <1>7, <2>1 DEF OrderInv, CwdFollows
  <2>2. CASE k = N + 1 /\ frames # <<>>
    <3>1. Reading
      BY <2>2 DEF Reading
    <3>2. N \in 1..N /\ N # 0 /\ cwd = semas[frames[N].sema].dir
      BY <3>1, ReadingFacts
    <3> HIDE DEF N
    <3>3. k # 1 /\ k - 1 = N
      <4>1. N \in Nat /\ N # 0 /\ k = N + 1
        BY <1>3, <2>2, <3>2
      <4> QED
        BY ONLY <4>1
    <3>4. semas'[frames'[N].sema] = semas[frames[N].sema]
      BY <1>6, <1>7, <1>8, <3>2
    <3> QED
      BY <1>2, <1>7, <2>2, <3>2, <3>3, <3>4
  <2>3. CASE k \in 1..N
    <3>1. frames[k].back = IF k = 1 THEN StartDir ELSE semas[frames[k - 1].sema].dir
      BY <2>3 DEF OrderInv, ReturnsWhereOpened
    <3>2. k = 1 \/ k - 1 \in 1..N
      BY <1>3, <2>3
    <3> QED
      BY <1>6, <1>7, <1>8, <2>3, <3>1, <3>2
  <2> QED
    BY <1>3, <2>1, <2>2, <2>3
<1>14. WaitsForImports'
  <2> SUFFICES ASSUME NEW k \in 1..N + 1
               PROVE  LET t == semas'[frames'[k].sema]
                          nodes == text'[t.file].nodes
                      IN  /\ Len(t.ast) <= Len(nodes)
                          /\ k < N + 1 => /\ Len(t.ast) < Len(nodes)
                                          /\ nodes[Len(t.ast) + 1].kind = "import"
    BY <1>7 DEF WaitsForImports
  <2>1. CASE k = N + 1
    <3>1. semas'[frames'[k].sema] = new /\ ~(k < N + 1)
      BY <1>2, <1>3, <1>6, <1>7, <2>1
    <3>2. text'[new.file].nodes \in Seq(Nodes)
      BY <1>1 DEF Sema, Texts
    <3>3. Len(new.ast) <= Len(text'[new.file].nodes)
      BY <1>1, <3>2, LenProperties
    <3> QED
      BY <3>1, <3>3
  <2>2. CASE k \in 1..N
    <3> DEFINE t == semas[frames[k].sema]
    <3>1. semas'[frames'[k].sema] = t /\ t \in Sema
      BY <1>3, <1>6, <1>7, <1>8, <2>2, ElementOfSeq
    <3>2. /\ Len(t.ast) <= Len(text[t.file].nodes)
          /\ k < N => /\ Len(t.ast) < Len(text[t.file].nodes)
                      /\ text[t.file].nodes[Len(t.ast) + 1].kind = "import"
      BY <2>2 DEF OrderInv, WaitsForImports
    <3>3. text \in Texts
      BY DEF OrderInv, TypeOK
    <3>4. k = N => /\ Len(t.ast) < Len(text'[t.file].nodes)
                   /\ text'[t.file].nodes[Len(t.ast) + 1].kind = "import"
      <4> SUFFICES ASSUME k = N
                   PROVE  /\ Len(t.ast) < Len(text'[t.file].nodes)
                          /\ text'[t.file].nodes[Len(t.ast) + 1].kind = "import"
        OBVIOUS
      <4>1. frames # <<>>
        BY <2>2
      <4>2. /\ K <= Len(text'[S.file].nodes) /\ text'[S.file].nodes[K].kind = "import"
            /\ t = S /\ K = Len(S.ast) + 1
        BY <4>1, ReadingFacts DEF AtImport
      <4>3. text'[t.file].nodes \in Seq(Nodes) /\ Len(t.ast) \in Nat
        BY <3>1, LenProperties DEF Sema, Texts
      <4>4. Len(text'[t.file].nodes) \in Nat
        BY <4>3, LenProperties
      <4> HIDE DEF t
      <4> QED
        BY <4>2, <4>3, <4>4
    <3> HIDE DEF t
    <3>5. Len(t.ast) <= Len(text'[t.file].nodes)
      BY <3>1, <3>2, <3>3, WaitGrows
    <3>6. k < N => /\ Len(t.ast) < Len(text'[t.file].nodes)
                   /\ text'[t.file].nodes[Len(t.ast) + 1].kind = "import"
      BY <3>1, <3>2, <3>3, WaitGrows
    <3>7. k = N \/ k < N
      BY <1>3, <2>2
    <3> QED
      BY <3>1, <3>4, <3>5, <3>6, <3>7
  <2>3. k = N + 1 \/ k \in 1..N
    BY <1>3
  <2> QED
    BY ONLY <2>1, <2>2, <2>3
<1>15. EachOnce'
  <2>1. \A k, l \in 1..N + 1 : k < l => frames'[k].sema < frames'[l].sema
    <3> SUFFICES ASSUME NEW k \in 1..N + 1, NEW l \in 1..N + 1, k < l
                 PROVE  frames'[k].sema < frames'[l].sema
      OBVIOUS
    <3>1. k \in 1..N /\ (l \in 1..N \/ l = N + 1)
      <4> HIDE DEF N
      <4> QED
        BY <1>3
    <3>2. CASE l \in 1..N
      <4>1. frames[k].sema < frames[l].sema
        BY <3>1, <3>2 DEF OrderInv, EachOnce
      <4> QED
        BY <1>7, <3>1, <3>2, <4>1
    <3>3. CASE l = N + 1
      <4>1. frames'[l].sema = L + 1 /\ frames'[k].sema \in 1..L
        BY <1>2, <1>7, <1>8, <3>1, <3>3
      <4> QED
        BY <1>3, <4>1
    <3> QED
      BY <3>1, <3>2, <3>3
  <2>2. \A k \in 1..N + 1, i \in 1..Len(modules) : frames'[k].sema # modules[i]
    <3> SUFFICES ASSUME NEW k \in 1..N + 1, NEW i \in 1..Len(modules)
                 PROVE  frames'[k].sema # modules[i]
      OBVIOUS
    <3>1. k \in 1..N \/ k = N + 1
      BY <1>3
    <3>2. L + 1 # modules[i]
      BY <1>3, <1>9
    <3> QED
      BY <1>2, <1>7, <3>1, <3>2 DEF OrderInv, EachOnce
  <2> QED
    BY <1>5, <1>7, <2>1, <2>2 DEF OrderInv, EachOnce
<1>16. LeadsBack'
  <2>1. \A i \in 1..Len(modules) : LeadsTo(semas'[modules[i]], modules[i], Known(i - 1))
    BY <1>6, <1>9 DEF OrderInv, LeadsBack
  <2>2. \A k \in 1..N + 1 : LeadsTo(semas'[frames'[k].sema], frames'[k].sema, Known(Len(modules)))
    <3> SUFFICES ASSUME NEW k \in 1..N + 1
                 PROVE  LeadsTo(semas'[frames'[k].sema], frames'[k].sema, Known(Len(modules)))
      OBVIOUS
    <3>1. CASE k \in 1..N
      BY <1>6, <1>7, <1>8, <3>1 DEF OrderInv, LeadsBack
    <3>2. CASE k = N + 1
      BY <1>1, <1>2, <1>6, <1>7, <3>2
    <3> QED
      BY <1>3, <3>1, <3>2
  <2> QED
    BY <1>5, <1>7, <1>10, <2>1, <2>2 DEF LeadsBack
<1> QED
  BY <1>11, <1>12, <1>13, <1>14, <1>15, <1>16 DEF OrderInv
\* The files become known a bit further, while nothing else changes but where
\* the compiler is: also when it ends.
LEMMA TextGrows ==
    ASSUME OrderInv, text' \in Texts, Grown(text, text'),
           stage' \in {"read", "analyse", "init", "emit"} \cup Ended,
           opened' \in 0..MaxOpen, UNCHANGED <<cwd, semas, frames, modules, Later>>
    PROVE  OrderInv'
<1>1. TypeOK' /\ CwdFollows' /\ ReturnsWhereOpened' /\ EachOnce'
  BY DEF OrderInv, TypeOK, CwdFollows, S, I, ReturnsWhereOpened, EachOnce, Later
<1>2. LeadsBack'
  BY DEF OrderInv, LeadsBack, Known
<1>3. WaitsForImports'
  <2> SUFFICES ASSUME NEW k \in 1..Len(frames)
               PROVE  LET t == semas[frames[k].sema]
                          nodes == text'[t.file].nodes
                      IN  /\ Len(t.ast) <= Len(nodes)
                          /\ k < Len(frames) => /\ Len(t.ast) < Len(nodes)
                                                /\ nodes[Len(t.ast) + 1].kind = "import"
    BY DEF WaitsForImports
  <2> DEFINE t == semas[frames[k].sema]
  <2>1. t \in Sema /\ text \in Texts
    BY FrameFacts, ElementOfSeq DEF OrderInv, TypeOK
  <2>2. /\ Len(t.ast) <= Len(text[t.file].nodes)
        /\ k < Len(frames) => /\ Len(t.ast) < Len(text[t.file].nodes)
                              /\ text[t.file].nodes[Len(t.ast) + 1].kind = "import"
    BY DEF OrderInv, WaitsForImports
  <2> HIDE DEF t
  <2>3. /\ Len(t.ast) <= Len(text'[t.file].nodes)
        /\ k < Len(frames) => /\ Len(t.ast) < Len(text'[t.file].nodes)
                              /\ text'[t.file].nodes[Len(t.ast) + 1].kind = "import"
    BY <2>1, <2>2, WaitGrows
  <2> QED
    BY <2>3 DEF t
<1> QED
  BY <1>1, <1>2, <1>3 DEF OrderInv

LEMMA OpensKeeps ==
    ASSUME OrderInv, stage = "read",
           NEW path \in Paths, NEW files \in Texts, Grown(text, files), AtImport(files),
           Opens(path, files)
    PROVE  OrderInv'
<1>1. /\ Finds[<<cwd, path>>] # NoFile /\ UNCHANGED Later
      /\ IF Len(frames) < MaxDepth THEN Enter(path) /\ UNCHANGED stage
         ELSE stage' = "overflow" /\ UNCHANGED <<cwd, semas, frames, modules>>
  BY DEF Opens
<1>2. text' \in Texts /\ Grown(text, text') /\ \A g \in Files : text'[g].nodes = files[g].nodes
  BY OpensText
<1>3. AtImport(text')
  <2>1. Reading => S.file \in Files
    BY ReadingFacts DEF Sema
  <2> QED
    BY <1>2, <2>1 DEF AtImport
<1>4. opened' \in 0..MaxOpen
  BY DescriptorFacts DEF OrderInv
<1>5. CASE Len(frames) < MaxDepth
  BY <1>1, <1>2, <1>3, <1>4, <1>5, EnterKeeps
<1>6. CASE ~(Len(frames) < MaxDepth)
  BY <1>1, <1>2, <1>4, <1>6, TextGrows DEF Ended
<1> QED
  BY <1>5, <1>6

LEMMA GrownItself == ASSUME TypeOK PROVE text \in Texts /\ Grown(text, text)
<1>1. text \in Texts
  BY DEF TypeOK
<1>2. \A f \in Files : Len(text[f].nodes) \in Nat
  <2> SUFFICES ASSUME NEW f \in Files
               PROVE  Len(text[f].nodes) \in Nat
    OBVIOUS
  <2>1. text[f].nodes \in Seq(Nodes)
    BY <1>1 DEF Texts
  <2> QED
    BY <2>1, LenProperties
<1> QED
  BY <1>1, <1>2 DEF Grown

LEMMA StartKeeps ==
    ASSUME OrderInv, Start
    PROVE  OrderInv'
<1>1. stage = "read" /\ semas = <<>> /\ MainPath \in Paths
  BY FileSystemAssumption DEF Start
<1>2. text \in Texts /\ Grown(text, text)
  BY GrownItself DEF OrderInv
<1>3. frames = <<>>
  <2>1. Len(frames) \in Nat /\ \A k \in 1..Len(frames) : frames[k].sema \in 1..Len(semas)
    BY FrameFacts DEF OrderInv
  <2>2. Len(semas) = 0
    BY <1>1
  <2>3. Len(frames) = 0
    BY <2>1, <2>2
  <2>4. frames \in Seq([sema : 1..Len(semas), back : Dirs])
    BY DEF OrderInv, TypeOK
  <2> HIDE <1>1
  <2> QED
    BY ONLY <2>3, <2>4, EmptySeq
<1>4. CASE Opens(MainPath, text)
  BY <1>1, <1>2, <1>3, <1>4, OpensKeeps DEF AtImport
<1>5. CASE Fails(MainPath, text) /\ stage' = "exit" /\ UNCHANGED <<cwd, semas, frames, modules, Later>>
  <2>1. text' \in Texts /\ Grown(text, text')
    BY <1>1, <1>2, <1>5, FailsText
  <2>2. opened' \in 0..MaxOpen
    BY <1>5, DescriptorFacts DEF OrderInv
  <2> QED
    BY <1>5, <2>1, <2>2, TextGrows DEF Ended
<1> QED
  BY <1>4, <1>5 DEF Start

LEMMA ImportOpensKeeps ==
    ASSUME OrderInv, NEW n \in Upcoming, ImportOpens(n)
    PROVE  OrderInv'
<1> DEFINE files == TextAt(n)
<1>1. /\ Reading /\ n \in Nodes
      /\ files \in Texts /\ Grown(text, files)
      /\ K <= Len(files[S.file].nodes) /\ files[S.file].nodes[K] = n
  BY TextFacts
<1>2. n.kind = "import" /\ n.path \in Paths /\ Opens(n.path, files)
  BY <1>1, NodeFacts DEF ImportOpens, At
<1> HIDE DEF files
<1>3. AtImport(files) /\ stage = "read"
  BY <1>1, <1>2 DEF AtImport, Reading
<1> QED
  BY <1>1, <1>2, <1>3, OpensKeeps
(***************************************************************************)
(* Closing a file                                                          *)
(***************************************************************************)
\* The module that is left is listed, unless it has errors.
ListingFacts ==
    /\ modules' \in Seq(1..Len(semas))
    /\ \A i \in 1..Len(modules) : modules'[i] = modules[i]
    /\ \/ S.failed /\ Len(modules') = Len(modules)
       \/ ~S.failed /\ Len(modules') = Len(modules) + 1 /\ modules'[Len(modules) + 1] = I

LEMMA CloseLists ==
    ASSUME OrderInv, Close
    PROVE  ListingFacts
<1>1. I \in 1..Len(semas) /\ S.failed \in BOOLEAN
  BY ReadingFacts DEF Close, Sema
<1>2. modules \in Seq(1..Len(semas)) /\ modules' = IF S.failed THEN modules ELSE Append(modules, I)
  BY DEF OrderInv, TypeOK, Close, Listing
<1>3. CASE S.failed
  BY <1>2, <1>3 DEF ListingFacts
<1>4. CASE ~S.failed
  <2>1. /\ modules' \in Seq(1..Len(semas))
        /\ Len(modules') = Len(modules) + 1
        /\ modules'[Len(modules) + 1] = I
        /\ \A i \in 1..Len(modules) : modules'[i] = modules[i]
    BY <1>1, <1>2, <1>4, AppendFacts
  <2> QED
    BY <1>4, <2>1 DEF ListingFacts
<1> QED
  BY <1>3, <1>4

LEMMA ListedInOrder ==
    ASSUME OrderInv, Close
    PROVE  /\ \A i, j \in 1..Len(modules') : modules'[i] = modules'[j] => i = j
           /\ \A i \in 1..Len(modules') : Known(i - 1)' = Known(i - 1)
<1>1. Len(modules) \in Nat
  BY LenProperties DEF OrderInv, TypeOK
<1>2. ListingFacts
  BY CloseLists
<1>3. \A i \in 1..Len(modules) : modules[i] # I
  BY ReadingFacts DEF Close, Known
<1>4. ASSUME NEW i \in 1..Len(modules'), NEW j \in 1..Len(modules'), modules'[i] = modules'[j]
      PROVE  i = j
  <2>1. /\ i \in 1..Len(modules) \/ (i = Len(modules) + 1 /\ modules'[i] = I)
        /\ j \in 1..Len(modules) \/ (j = Len(modules) + 1 /\ modules'[j] = I)
    BY <1>1, <1>2 DEF ListingFacts
  <2>2. \A k \in 1..Len(modules) : modules'[k] = modules[k] /\ modules'[k] # I
    BY <1>2, <1>3 DEF ListingFacts
  <2> QED
    BY <1>4, <2>1, <2>2 DEF OrderInv, EachOnce
<1>5. ASSUME NEW i \in 1..Len(modules')
      PROVE  Known(i - 1)' = Known(i - 1)
  <2>1. \A j \in 1..i - 1 : j \in 1..Len(modules)
    BY <1>1, <1>2 DEF ListingFacts
  <2> QED
    BY <1>2, <2>1 DEF Known, ListingFacts
<1> QED
  BY <1>4, <1>5

\* The text after a Close.
LEMMA CloseText ==
    ASSUME OrderInv, Close
    PROVE  text' \in Texts /\ Grown(text, text')
<1> DEFINE f == S.file
<1>1. f \in Files /\ text' = Marked(text, f, "whole")
  BY ReadingFacts DEF Close, Sema, Marked
<1>2. text \in Texts /\ Grown(text, text)
  BY GrownItself DEF OrderInv
<1> HIDE DEF f
<1> QED
  BY <1>1, <1>2, MarkedFacts

\* After the outermost file: analysis, or the exit of main.
LEMMA CloseOutermost ==
    ASSUME OrderInv, Close, Len(frames) = 1
    PROVE  OrderInv'
<1>1. /\ Reading /\ frames \in Seq([sema : 1..Len(semas), back : Dirs]) /\ frames # <<>>
      /\ I = frames[1].sema /\ I \in 1..Len(semas) /\ S = semas[I] /\ Last(frames) = frames[1]
      /\ LeadsTo(S, I, Known(Len(modules)))
      /\ I \notin Known(Len(modules))
  BY ReadingFacts DEF Close, Reading
<1>2. /\ frames' = Front(frames) /\ cwd' = frames[1].back /\ semas' = semas
      /\ stage' \in {"exit", "analyse"} /\ UNCHANGED <<opened, Later>>
  BY <1>1 DEF Close, Back
<1>3. frames' = <<>>
  <2> DEFINE Frame == [sema : 1..Len(semas), back : Dirs]
  <2>1. frames \in Seq(Frame) /\ frames # <<>>
    BY <1>1
  <2> HIDE DEF Frame
  <2>2. Front(frames) \in Seq(Frame) /\ Len(Front(frames)) = 0
    BY <2>1, FrontFacts
  <2> QED
    BY <1>2, <2>2, EmptySeq
<1>4. cwd' = StartDir
  BY <1>2 DEF OrderInv, ReturnsWhereOpened
<1>5. ListingFacts
  BY CloseLists
<1>6. modules \in Seq(1..Len(semas)) /\ Len(modules) \in Nat
  BY LenProperties DEF OrderInv, TypeOK
<1>7. TypeOK'
  BY <1>2, <1>3, <1>4, <1>5, CloseText, FileSystemAssumption
     DEF OrderInv, TypeOK, Ended, Later, ListingFacts
<1>8. CwdFollows' /\ ReturnsWhereOpened' /\ WaitsForImports'
  BY <1>3, <1>4 DEF CwdFollows, ReturnsWhereOpened, WaitsForImports
<1>10. EachOnce'
  BY <1>3, ListedInOrder DEF EachOnce
<1>11. LeadsBack'
  <2>1. ASSUME NEW i \in 1..Len(modules')
        PROVE  LeadsTo(semas[modules'[i]], modules'[i], Known(i - 1)')
    <3>1. Known(i - 1)' = Known(i - 1)
      BY ListedInOrder
    <3>2. CASE i \in 1..Len(modules)
      BY <1>5, <3>1, <3>2 DEF OrderInv, LeadsBack, ListingFacts
    <3>3. CASE i = Len(modules) + 1
      <4>1. modules'[i] = I /\ i - 1 = Len(modules)
        BY <1>5, <1>6, <3>3 DEF ListingFacts
      <4> QED
        BY <1>1, <3>1, <4>1
    <3> QED
      BY <1>5, <1>6, <3>2, <3>3 DEF ListingFacts
  <2> QED
    BY <1>2, <1>3, <2>1 DEF LeadsBack
<1> QED
  BY <1>7, <1>8, <1>10, <1>11 DEF OrderInv

\* The call around the one that ends, the import it stands at, and what the
\* import gets.
Caller == frames[Len(frames) - 1].sema
ImportDue == text[semas[Caller].file].nodes[Len(semas[Caller].ast) + 1]
Answer == IF S.failed THEN 0 ELSE I

LEMMA CallerFacts ==
    ASSUME OrderInv, Close, Len(frames) # 1
    PROVE  /\ Len(frames) \in Nat /\ Len(frames) > 1
           /\ \A k \in 1..Len(frames) - 1 : k \in 1..Len(frames) /\ frames[k].sema < I
           /\ Len(frames) - 1 \in 1..Len(frames) - 1
           /\ Caller \in 1..Len(semas) /\ Caller < I /\ semas[Caller] \in Sema
           /\ Len(semas[Caller].ast) \in Nat
           /\ Len(semas[Caller].ast) + 1 <= Len(text[semas[Caller].file].nodes)
           /\ ImportDue \in Nodes /\ ImportDue.kind = "import"
           /\ semas' = Imported(Caller, ImportDue, Answer)
<1> DEFINE N == Len(frames)
           before == Known(Len(modules))
           Frame == [sema : 1..Len(semas), back : Dirs]
<1>1. /\ frames \in Seq(Frame) /\ frames # <<>>
      /\ semas \in Seq(Sema) /\ Len(semas) \in Nat
      /\ N \in Nat /\ N > 1
      /\ I = frames[N].sema /\ I \in 1..Len(semas) /\ S = semas[I] /\ Last(frames) = frames[N]
      /\ S \in Sema /\ LeadsTo(S, I, before) /\ I \notin before
  <2>1. Reading /\ N # 1
    BY DEF Close
  <2>2. /\ frames \in Seq(Frame) /\ frames # <<>>
        /\ semas \in Seq(Sema) /\ Len(semas) \in Nat
        /\ N \in Nat \ {0}
    BY <2>1, ReadingFacts DEF Reading
  <2>3. N > 1
    <3> HIDE DEF N
    <3> QED
      BY <2>1, <2>2
  <2> QED
    BY <2>1, <2>2, <2>3, ReadingFacts
<1>2. \A k \in 1..N : frames[k].sema \in 1..Len(semas)
  BY FrameFacts DEF OrderInv
<1>3. \A k \in 1..N - 1 : k \in 1..N /\ frames[k].sema < I
  <2>1. \A k \in 1..N - 1 : k \in 1..N /\ N \in 1..N /\ k < N
    BY <1>1
  <2> QED
    BY <1>1, <2>1 DEF OrderInv, EachOnce
<1>4. N - 1 \in 1..N - 1 /\ Caller \in 1..Len(semas) /\ Caller < I /\ semas[Caller] \in Sema
  <2>1. N - 1 \in 1..N - 1
    BY <1>1
  <2>2. frames[N - 1].sema \in 1..Len(semas) /\ frames[N - 1].sema < I
    BY <1>2, <1>3, <2>1
  <2> HIDE DEF N
  <2> QED
    BY <1>1, <2>1, <2>2 DEF Caller, N
<1>5. /\ Len(semas[Caller].ast) \in Nat
       /\ Len(semas[Caller].ast) + 1 <= Len(text[semas[Caller].file].nodes)
       /\ ImportDue \in Nodes /\ ImportDue.kind = "import"
  <2> DEFINE s == semas[Caller]
             nodes == text[s.file].nodes
  <2>1. N - 1 \in 1..N /\ N - 1 < N
    BY <1>1
  <2>2. Len(s.ast) < Len(nodes) /\ nodes[Len(s.ast) + 1].kind = "import"
    BY <2>1 DEF OrderInv, WaitsForImports, Caller
  <2>3. s.file \in Files /\ Len(s.ast) \in Nat
    BY <1>4, LenProperties DEF Sema
  <2>4. nodes \in Seq(Nodes)
    BY <2>3 DEF OrderInv, TypeOK, Texts
  <2>5. Len(nodes) \in Nat
    BY <2>4, LenProperties
  <2>6. Len(s.ast) + 1 \in 1..Len(nodes)
    <3> DEFINE p == Len(s.ast)
               q == Len(nodes)
    <3>1. p \in Nat /\ q \in Nat /\ p < q
      BY <2>2, <2>3, <2>5
    <3> HIDE DEF p, q
    <3>2. p + 1 \in 1..q
      BY <3>1
    <3> QED
      BY <3>2 DEF p, q
  <2>7. nodes[Len(s.ast) + 1] \in Nodes
    <3> HIDE DEF nodes, s
    <3> QED
      BY <2>4, <2>6
  <2>8. Len(s.ast) + 1 <= Len(nodes)
    BY <2>5, <2>6
  <2> QED
    BY <2>2, <2>3, <2>7, <2>8 DEF ImportDue
<1>6. semas' = Imported(Caller, ImportDue, Answer)
  BY DEF Close, Caller, ImportDue, Answer
<1> QED
  BY <1>1, <1>3, <1>4, <1>5, <1>6

LEMMA AnswerFacts ==
    ASSUME OrderInv, Close, Len(frames) # 1
    PROVE  /\ Known(Len(modules)) \subseteq Known(Len(modules))'
           /\ Answer \in Nat
           /\ Answer # 0 => /\ Answer \in Known(Len(modules))'
                           /\ Answer \in 1..Len(semas) /\ semas[Answer] \in Sema
                           /\ LeadsTo(semas[Answer], Answer, Known(Len(modules))')
           /\ LeadsTo(semas[Caller], Caller, Known(Len(modules))')
<1> DEFINE before == Known(Len(modules))
           known == Known(Len(modules))'
<1>1. I \in 1..Len(semas) /\ Len(semas) \in Nat /\ S = semas[I] /\ S \in Sema /\ LeadsTo(S, I, before)
  BY ReadingFacts DEF Close
<1>2. ListingFacts
  BY CloseLists
<1>3. Len(modules) \in Nat
  BY LenProperties DEF OrderInv, TypeOK
<1>4. before \subseteq known /\ (Answer # 0 => Answer \in known) /\ Answer \in Nat
  <2>1. before \subseteq known
    <3>1. \A i \in 1..Len(modules) : i \in 1..Len(modules') /\ modules'[i] = modules[i]
      BY <1>2, <1>3 DEF ListingFacts
    <3> QED
      BY <3>1 DEF Known
  <2>2. Answer # 0 => Answer \in known
    <3>1. ~S.failed => Len(modules) + 1 \in 1..Len(modules') /\ modules'[Len(modules) + 1] = I
      BY <1>2, <1>3 DEF ListingFacts
    <3> QED
      BY <3>1 DEF Known, Answer
  <2> QED
    BY <1>1, <2>1, <2>2 DEF Answer
<1>5. LeadsTo(S, I, known)
  <2> HIDE DEF known, before
  <2> QED
    BY <1>1, <1>4, LeadsToMore
<1>6. LeadsTo(semas[Caller], Caller, known)
  <2>1. LeadsTo(semas[Caller], Caller, before)
    BY CallerFacts DEF OrderInv, LeadsBack, Caller
  <2> HIDE DEF known, before
  <2> QED
    BY <1>4, <2>1, LeadsToMore
<1> QED
  BY <1>1, <1>4, <1>5, <1>6 DEF Answer

\* After an imported file: the import, with what it has opened or nothing.
LEMMA CloseInner ==
    ASSUME OrderInv, Close, Len(frames) # 1
    PROVE  OrderInv'
<1> DEFINE N == Len(frames)
           before == Known(Len(modules))
           known == Known(Len(modules))'
           Frame == [sema : 1..Len(semas), back : Dirs]
<1>1. /\ frames \in Seq(Frame) /\ frames # <<>>
      /\ semas \in Seq(Sema) /\ Len(semas) \in Nat
      /\ N \in Nat /\ N > 1
      /\ I = frames[N].sema /\ I \in 1..Len(semas) /\ S = semas[I] /\ Last(frames) = frames[N]
      /\ S \in Sema /\ LeadsTo(S, I, before) /\ I \notin before
  BY CallerFacts, ReadingFacts DEF Close, Reading
<1>2. \A k \in 1..N : frames[k].sema \in 1..Len(semas)
  BY FrameFacts DEF OrderInv
<1>3. /\ \A k \in 1..N - 1 : k \in 1..N /\ frames[k].sema < I
      /\ N - 1 \in 1..N - 1 /\ Caller \in 1..Len(semas) /\ Caller < I /\ semas[Caller] \in Sema
      /\ Caller = frames[N - 1].sema
  BY CallerFacts DEF Caller
<1>4. /\ Len(semas[Caller].ast) \in Nat
      /\ Len(semas[Caller].ast) + 1 <= Len(text[semas[Caller].file].nodes)
      /\ ImportDue \in Nodes /\ ImportDue.kind = "import"
  BY CallerFacts
<1>5. \A k \in 1..N - 1 : k # N - 1 => k < N - 1 /\ frames[k].sema # Caller
  <2>1. \A k \in 1..N - 1 : k # N - 1 => k < N - 1
    BY <1>1
  <2>2. \A k \in 1..N - 1 : k # N - 1 => frames[k].sema < Caller
    BY <1>3, <2>1 DEF OrderInv, EachOnce
  <2> QED
    BY <1>2, <1>3, <2>1, <2>2
<1>6. ListingFacts
  BY CloseLists
<1>7. /\ modules \in Seq(1..Len(semas)) /\ Len(modules) \in Nat
      /\ \A i \in 1..Len(modules) : modules[i] \in 1..Len(semas) /\ modules[i] # Caller
  <2>1. modules \in Seq(1..Len(semas))
    BY DEF OrderInv, TypeOK
  <2>2. Len(modules) \in Nat /\ \A i \in 1..Len(modules) : modules[i] \in 1..Len(semas)
    BY <2>1, LenProperties, ElementOfSeq
  <2>3. \A i \in 1..Len(modules) : modules[i] # Caller
    BY <1>3 DEF OrderInv, EachOnce
  <2> QED
    BY <2>1, <2>2, <2>3
<1>8. /\ before \subseteq known /\ Answer \in Nat
      /\ Answer # 0 => Answer \in known /\ semas[Answer] \in Sema /\ LeadsTo(semas[Answer], Answer, known)
      /\ LeadsTo(semas[Caller], Caller, known)
  BY AnswerFacts
<1>9. PICK s : \E decl \in Decl :
          /\ Filled(semas[Caller], s) /\ LeadsTo(s, Caller, known)
          /\ Imported(Caller, ImportDue, Answer) = With(Caller, s, decl, NoDecl)
  <2> HIDE DEF known
  <2>1. Caller \in Nat /\ Answer \in Nat /\ ImportDue \in Nodes /\ ImportDue.kind = "import" /\ semas[Caller] \in Sema
    <3> HIDE DEF N
    <3>1. Caller \in Nat
      BY <1>1, <1>3
    <3> QED
      BY <1>3, <1>4, <1>8, <3>1
  <2>2. \E s : \E decl \in Decl :
            /\ Filled(semas[Caller], s) /\ LeadsTo(s, Caller, known)
            /\ Imported(Caller, ImportDue, Answer) = With(Caller, s, decl, NoDecl)
            /\ HeldAfter(s, Caller, ImportDue, Answer)
    BY ONLY <1>8, <2>1, ImportedFacts
  <2> QED
    BY ONLY <2>2
<1>10. PICK decl \in Decl :
          /\ Filled(semas[Caller], s) /\ LeadsTo(s, Caller, known)
          /\ Imported(Caller, ImportDue, Answer) = With(Caller, s, decl, NoDecl)
  BY <1>9
<1>11. /\ semas' = Imported(Caller, ImportDue, Answer) /\ stage' = stage
       /\ frames' = Front(frames) /\ cwd' = frames[N].back /\ UNCHANGED <<opened, Later>>
  BY <1>1, CallerFacts DEF Close, Back
<1>12. /\ semas' \in Seq(Sema) /\ Len(semas') = Len(semas)
       /\ \A j \in 1..Len(semas) : /\ semas'[j].file = semas[j].file
                                   /\ semas'[j].dir = semas[j].dir
                                   /\ j # Caller => semas'[j] = semas[j]
       /\ Len(semas'[Caller].ast) = Len(semas[Caller].ast) + 1
       /\ LeadsTo(semas'[Caller], Caller, known)
  <2>1. NoDecl \in Decl /\ NoDecl.of = 0
    BY NoDeclType DEF NoDecl
  <2>2. semas' = With(Caller, s, decl, NoDecl)
    BY <1>10, <1>11
  <2> HIDE DEF known
  <2>3. LET w == With(Caller, s, decl, NoDecl)
        IN  /\ w \in Seq(Sema) /\ Len(w) = Len(semas)
            /\ \A j \in 1..Len(semas) : /\ w[j].file = semas[j].file
                                        /\ w[j].dir = semas[j].dir
                                        /\ j # Caller => w[j] = semas[j]
            /\ Len(w[Caller].ast) = Len(semas[Caller].ast) + 1
            /\ LeadsTo(w[Caller], Caller, known)
    <3>1. semas \in Seq(Sema) /\ Caller \in 1..Len(semas)
      BY <1>1, <1>3
    <3> QED
      BY ONLY <1>10, <2>1, <3>1, WithFacts
  <2> QED
    BY <2>2, <2>3
<1>13. /\ frames' \in Seq(Frame) /\ Len(frames') = N - 1 /\ frames' # <<>>
       /\ \A k \in 1..N - 1 : frames'[k] = frames[k]
       /\ Last(frames') = frames'[N - 1]
  <2> HIDE DEF Frame
  <2>1. /\ frames' \in Seq(Frame) /\ Len(frames') = N - 1
        /\ \A k \in 1..N - 1 : frames'[k] = frames[k]
    BY <1>1, <1>11, FrontFacts
  <2>2. frames' # <<>>
    BY <1>1, <2>1
  <2>3. Last(frames') = frames'[Len(frames')]
    BY <2>1, <2>2, FrontFacts
  <2> QED
    BY <2>1, <2>2, <2>3
<1>14. text' \in Texts /\ Grown(text, text')
  BY CloseText
<1>15. frames[N].back = semas[Caller].dir /\ frames[N].back \in Dirs
  <2>1. N \in 1..N /\ N # 1
    BY <1>1
  <2> QED
    BY <2>1, FrameFacts DEF OrderInv, ReturnsWhereOpened, Caller
<1>16. TypeOK'
  <2>1. modules' \in Seq(1..Len(semas'))
    BY <1>6, <1>12 DEF ListingFacts
  <2>2. frames' \in Seq([sema : 1..Len(semas'), back : Dirs])
    BY <1>12, <1>13
  <2>3. semas' \in Seq(Sema) /\ text' \in Texts /\ cwd' \in Dirs
    BY <1>11, <1>12, <1>14, <1>15
  <2> QED
    BY <1>11, <2>1, <2>2, <2>3 DEF OrderInv, TypeOK, Later
<1>17. CwdFollows'
  <2>1. I' = Caller
    BY <1>3, <1>13 DEF I
  <2>2. S'.dir = semas[Caller].dir
    BY <1>3, <1>12, <2>1 DEF S
  <2> QED
    BY <1>11, <1>13, <1>15, <2>2 DEF CwdFollows
<1>18. ReturnsWhereOpened'
  <2> SUFFICES ASSUME NEW k \in 1..N - 1
               PROVE  frames'[k].back = IF k = 1 THEN StartDir ELSE semas'[frames'[k - 1].sema].dir
    BY <1>13 DEF ReturnsWhereOpened
  <2>1. frames[k].back = IF k = 1 THEN StartDir ELSE semas[frames[k - 1].sema].dir
    BY <1>3 DEF OrderInv, ReturnsWhereOpened
  <2>2. k = 1 \/ (k - 1 \in 1..N - 1 /\ k - 1 \in 1..N)
    BY <1>1
  <2> QED
    BY <1>2, <1>12, <1>13, <2>1, <2>2
<1>19. WaitsForImports'
  <2> SUFFICES ASSUME NEW k \in 1..N - 1
               PROVE  LET t == semas'[frames[k].sema]
                          nodes == text'[t.file].nodes
                      IN  /\ Len(t.ast) <= Len(nodes)
                          /\ k < N - 1 => /\ Len(t.ast) < Len(nodes)
                                          /\ nodes[Len(t.ast) + 1].kind = "import"
    BY <1>13 DEF WaitsForImports
  <2> DEFINE t == semas[frames[k].sema]
  <2>1. t \in Sema /\ text \in Texts
    BY <1>1, <1>2, <1>3, ElementOfSeq DEF OrderInv, TypeOK
  <2>2. /\ Len(t.ast) < Len(text[t.file].nodes)
        /\ text[t.file].nodes[Len(t.ast) + 1].kind = "import"
    <3>1. k \in 1..N /\ k < N
      BY <1>1
    <3> QED
      BY <3>1 DEF OrderInv, WaitsForImports
  <2>3. Len(t.ast) \in Nat /\ Len(text[t.file].nodes) \in Nat /\ Len(text'[t.file].nodes) \in Nat
    <3>1. t.file \in Files /\ Len(t.ast) \in Nat
      BY <2>1, LenProperties DEF Sema
    <3>2. text[t.file].nodes \in Seq(Nodes) /\ text'[t.file].nodes \in Seq(Nodes)
      BY <1>14, <2>1, <3>1 DEF Texts
    <3> QED
      BY <3>1, <3>2, LenProperties
  <2>4. /\ Len(t.ast) < Len(text'[t.file].nodes)
        /\ text'[t.file].nodes[Len(t.ast) + 1].kind = "import"
    <3> HIDE DEF t
    <3>1. Len(t.ast) <= Len(text[t.file].nodes)
      BY <2>2, <2>3
    <3> QED
      BY <1>14, <2>1, <2>2, <3>1, WaitGrows
  <2>5. CASE k = N - 1
    <3>1. /\ semas'[frames[k].sema].file = t.file
          /\ Len(semas'[frames[k].sema].ast) = Len(t.ast) + 1
          /\ ~(k < N - 1)
      <4>1. ~(k < N - 1)
        <5> HIDE DEF N
        <5> QED
          BY <1>1, <2>5
      <4> HIDE DEF known
      <4> QED
        BY <1>3, <1>12, <2>5, <4>1
    <3> HIDE DEF t
    <3> QED
      BY <2>3, <2>4, <3>1
  <2>6. CASE k # N - 1
    <3>1. semas'[frames[k].sema] = t
      BY <1>2, <1>3, <1>5, <1>12, <2>6
    <3> HIDE DEF t
    <3> QED
      BY <2>3, <2>4, <3>1
  <2> QED
    BY <2>5, <2>6
<1>20. EachOnce'
  <2>1. \A k, l \in 1..N - 1 : k < l => frames'[k].sema < frames'[l].sema
    BY <1>3, <1>13 DEF OrderInv, EachOnce
  <2>2. \A k \in 1..N - 1, i \in 1..Len(modules') : frames'[k].sema # modules'[i]
    <3> SUFFICES ASSUME NEW k \in 1..N - 1, NEW i \in 1..Len(modules')
                 PROVE  frames[k].sema # modules'[i]
      BY <1>13
    <3>1. CASE i \in 1..Len(modules)
      BY <1>3, <1>6, <3>1 DEF OrderInv, EachOnce, ListingFacts
    <3>2. CASE i = Len(modules) + 1
      <4>1. modules'[i] = I
        BY <1>6, <1>7, <3>2 DEF ListingFacts
      <4>2. frames[k].sema < I /\ frames[k].sema \in 1..Len(semas)
        BY <1>2, <1>3
      <4> QED
        BY <1>1, <4>1, <4>2
    <3> QED
      BY <1>6, <1>7, <3>1, <3>2 DEF ListingFacts
  <2> QED
    BY <1>13, <2>1, <2>2, ListedInOrder DEF EachOnce
<1>21. LeadsBack'
  <2>1. ASSUME NEW i \in 1..Len(modules')
        PROVE  LeadsTo(semas'[modules'[i]], modules'[i], Known(i - 1)')
    <3>1. Known(i - 1)' = Known(i - 1)
      BY ListedInOrder
    <3>2. CASE i \in 1..Len(modules)
      <4>1. modules'[i] = modules[i] /\ semas'[modules[i]] = semas[modules[i]]
        BY <1>6, <1>7, <1>12, <3>2 DEF ListingFacts
      <4>2. LeadsTo(semas[modules[i]], modules[i], Known(i - 1))
        BY <3>2 DEF OrderInv, LeadsBack
      <4> QED
        BY <3>1, <4>1, <4>2
    <3>3. CASE i = Len(modules) + 1
      <4>1. modules'[i] = I /\ i - 1 = Len(modules)
        BY <1>6, <1>7, <3>3 DEF ListingFacts
      <4>2. semas'[I] = S
        <5> HIDE DEF known
        <5>1. Caller # I
          BY <1>1, <1>3
        <5> QED
          BY <1>1, <1>12, <5>1
      <4> QED
        BY <1>1, <3>1, <4>1, <4>2
    <3> QED
      BY <1>6, <1>7, <3>2, <3>3 DEF ListingFacts
  <2>2. ASSUME NEW k \in 1..N - 1
        PROVE  LeadsTo(semas'[frames[k].sema], frames[k].sema, known)
    <3>1. CASE k = N - 1
      <4>1. frames[k].sema = Caller
        BY <1>3, <3>1
      <4> HIDE DEF known
      <4> QED
        BY <1>12, <4>1
    <3>2. CASE k # N - 1
      <4>1. semas'[frames[k].sema] = semas[frames[k].sema]
        BY <1>2, <1>3, <1>5, <1>12, <3>2
      <4>2. LeadsTo(semas[frames[k].sema], frames[k].sema, before)
        BY <1>3 DEF OrderInv, LeadsBack
      <4> HIDE DEF known, before
      <4> QED
        BY <1>8, <4>1, <4>2, LeadsToMore
    <3> QED
      BY <3>1, <3>2
  <2> QED
    BY <1>13, <2>1, <2>2 DEF LeadsBack
<1> QED
  BY <1>16, <1>17, <1>18, <1>19, <1>20, <1>21 DEF OrderInv

LEMMA CloseKeeps ==
    ASSUME OrderInv, Close
    PROVE  OrderInv'
BY CloseOutermost, CloseInner
(***************************************************************************)
(* The loops over the modules                                              *)
(***************************************************************************)
\* What is due in a loop.
LEMMA DueFacts ==
    ASSUME OrderInv, at.module <= Len(modules), at.node <= Len(semas[M].ast)
    PROVE  /\ at.module \in 1..Len(modules) /\ at.node \in Nat
           /\ M = modules[at.module] /\ M \in Known(Len(modules))
           /\ M \in 1..Len(semas) /\ semas[M] \in Sema
           /\ at.node \in 1..Len(semas[M].ast)
           /\ Due = semas[M].ast[at.node]
           /\ Due \in [decl : Decl, reads : Decl]
<1>1. at.module \in 1..Len(modules) /\ at.node \in Nat \ {0} /\ M = modules[at.module]
  <2>1. Len(modules) \in Nat
    BY LenProperties DEF OrderInv, TypeOK
  <2> QED
    BY <2>1 DEF OrderInv, TypeOK, M
<1>2. M \in Known(Len(modules))
  BY <1>1 DEF Known
<1>3. M \in 1..Len(semas) /\ semas[M] \in Sema
  BY <1>2, KnownFacts
<1>4. semas[M].ast \in Seq([decl : Decl, reads : Decl])
  BY <1>3 DEF Sema
<1>5. Len(semas[M].ast) \in Nat
  BY <1>4, LenProperties
<1>6. at.node \in 1..Len(semas[M].ast)
  BY <1>1, <1>5
<1>7. Due \in [decl : Decl, reads : Decl]
  BY <1>4, <1>6, ElementOfSeq DEF Due
<1> QED
  BY <1>1, <1>2, <1>3, <1>6, <1>7 DEF Due

\* The loops leave what the invariant is about as it is.
LEMMA LoopKeeps ==
    ASSUME OrderInv, UNCHANGED <<Fixed, semas>>,
           stage' \in {"read", "analyse", "init", "emit"} \cup Ended,
           at' \in [module : Nat \ {0}, node : Nat \ {0}],
           set' \subseteq Nat \X Nat,
           unset' \subseteq [by : [kind : {"func"} \cup Vals, of : Nat, node : Nat], decl : Decl]
    PROVE  OrderInv'
<1>1. TypeOK'
  BY DEF OrderInv, TypeOK, Fixed
<1>2. CwdFollows' /\ ReturnsWhereOpened' /\ WaitsForImports' /\ EachOnce'
  BY DEF OrderInv, CwdFollows, S, I, ReturnsWhereOpened, WaitsForImports, EachOnce, Fixed
<1>3. LeadsBack'
  BY DEF OrderInv, LeadsBack, Known, Fixed
<1> QED
  BY <1>1, <1>2, <1>3 DEF OrderInv

LEMMA NextModuleKeeps ==
    ASSUME OrderInv, NextModule
    PROVE  OrderInv'
<1>1. at' \in [module : Nat \ {0}, node : Nat \ {0}]
  BY DEF OrderInv, TypeOK, NextModule
<1> QED
  BY <1>1, LoopKeeps DEF OrderInv, TypeOK, NextModule

LEMMA EndLoopKeeps ==
    ASSUME OrderInv, EndLoop
    PROVE  OrderInv'
<1>1. /\ at' \in [module : Nat \ {0}, node : Nat \ {0}]
      /\ stage' \in {"read", "analyse", "init", "emit"} \cup Ended
  BY DEF EndLoop, Ended
<1> QED
  BY <1>1, LoopKeeps DEF OrderInv, TypeOK, EndLoop

\* What a node of the two passes adds.
LEMMA NextNodeType ==
    ASSUME OrderInv, NextNode
    PROVE  at' \in [module : Nat \ {0}, node : Nat \ {0}]
<1>1. at \in [module : Nat \ {0}, node : Nat \ {0}]
  BY DEF OrderInv, TypeOK
<1>2. at.node + 1 \in Nat \ {0}
  BY <1>1
<1> QED
  BY <1>1, <1>2 DEF NextNode

LEMMA SetsType ==
    ASSUME OrderInv, at.module <= Len(modules), at.node <= Len(semas[M].ast), Sets
    PROVE  set' \subseteq Nat \X Nat
<1>1. M \in Nat /\ at.node \in Nat
  BY DueFacts
<1> QED
  BY <1>1 DEF Sets, OrderInv, TypeOK

LEMMA ReadsType ==
    ASSUME OrderInv, at.module <= Len(modules), at.node <= Len(semas[M].ast),
           DueNode.kind \in {"func"} \cup Vals, Reads
    PROVE  unset' \subseteq [by : [kind : {"func"} \cup Vals, of : Nat, node : Nat], decl : Decl]
<1> DEFINE by == [kind |-> DueNode.kind, of |-> M, node |-> at.node]
           r == [by |-> by, decl |-> Due.reads]
           Read == [by : [kind : {"func"} \cup Vals, of : Nat, node : Nat], decl : Decl]
<1>1. r \in Read
  BY DueFacts
<1>2. unset' = unset \/ unset' = unset \cup {r}
  BY DEF Reads
<1>3. unset \subseteq Read
  BY DEF OrderInv, TypeOK
<1> HIDE DEF r, Read
<1>4. unset' \subseteq Read
  BY <1>1, <1>2, <1>3
<1> QED
  BY <1>4 DEF Read

LEMMA InitNodeKeeps ==
    ASSUME OrderInv, InitNode
    PROVE  OrderInv'
<1>1. at.module <= Len(modules) /\ at.node <= Len(semas[M].ast) /\ NextNode
  BY DEF InitNode, InLoop
<1>2. set' \subseteq Nat \X Nat
  BY <1>1, SetsType DEF InitNode, OrderInv, TypeOK
<1>3. unset' \subseteq [by : [kind : {"func"} \cup Vals, of : Nat, node : Nat], decl : Decl]
  <2>1. CASE DueNode.kind = "const"
    BY <1>1, <2>1, ReadsType DEF InitNode, Vals
  <2>2. CASE DueNode.kind # "const"
    BY <2>2 DEF InitNode, OrderInv, TypeOK
  <2> QED
    BY <2>1, <2>2
<1>4. at' \in [module : Nat \ {0}, node : Nat \ {0}]
  BY <1>1, NextNodeType
<1> QED
  BY <1>2, <1>3, <1>4, LoopKeeps DEF InitNode, OrderInv, TypeOK

LEMMA EmitNodeKeeps ==
    ASSUME OrderInv, EmitNode
    PROVE  OrderInv'
<1>1. at.module <= Len(modules) /\ at.node <= Len(semas[M].ast) /\ NextNode
  BY DEF EmitNode, InLoop
<1>2. set' \subseteq Nat \X Nat
  BY <1>1, SetsType DEF EmitNode, OrderInv, TypeOK
<1>3. unset' \subseteq [by : [kind : {"func"} \cup Vals, of : Nat, node : Nat], decl : Decl]
  <2>1. CASE DueNode.kind \in {"func", "final", "var"}
    BY <1>1, <2>1, ReadsType DEF EmitNode, Vals
  <2>2. CASE DueNode.kind \notin {"func", "final", "var"}
    BY <2>2 DEF EmitNode, OrderInv, TypeOK
  <2> QED
    BY <2>1, <2>2
<1>4. at' \in [module : Nat \ {0}, node : Nat \ {0}]
  BY <1>1, NextNodeType
<1> QED
  BY <1>2, <1>3, <1>4, LoopKeeps DEF EmitNode, OrderInv, TypeOK

\* The modules before a listed one lead to nothing but each other.
LEMMA KnownBefore ==
    ASSUME OrderInv, NEW p \in 1..Len(modules)
    PROVE  /\ modules[p] \notin Known(p - 1)
           /\ \A j \in Known(p - 1) : semas[j] \in Sema /\ LeadsTo(semas[j], j, Known(p - 1))
<1>1. Len(modules) \in Nat
  BY LenProperties DEF OrderInv, TypeOK
<1>2. \A q \in 1..p - 1 : q \in 1..Len(modules) /\ q # p
  BY <1>1
<1>3. modules[p] \notin Known(p - 1)
  BY <1>2 DEF OrderInv, EachOnce, Known
<1>4. ASSUME NEW j \in Known(p - 1)
      PROVE  semas[j] \in Sema /\ LeadsTo(semas[j], j, Known(p - 1))
  <2>1. PICK q \in 1..p - 1 : j = modules[q]
    BY <1>4 DEF Known
  <2>2. LeadsTo(semas[j], j, Known(q - 1))
    BY <1>2, <2>1 DEF OrderInv, LeadsBack
  <2>3. Known(q - 1) \subseteq Known(p - 1)
    <3>1. \A k \in 1..q - 1 : k \in 1..p - 1
      BY <1>1, <2>1
    <3> QED
      BY <3>1 DEF Known
  <2>4. j \in Known(Len(modules))
    BY <1>2, <2>1 DEF Known
  <2> QED
    BY <2>2, <2>3, <2>4, KnownFacts, LeadsToMore
<1> QED
  BY <1>3, <1>4

\* The analysis of a declaration changes nothing of a module but what the
\* declaration reads, and whether the module has errors.
LEMMA AnnotateKeeps ==
    ASSUME OrderInv, at.module <= Len(modules), at.node <= Len(semas[M].ast), NextNode,
           NEW t \in Sema, semas' = [semas EXCEPT ![M] = t],
           t.file = semas[M].file, t.dir = semas[M].dir, Len(t.ast) = Len(semas[M].ast),
           LeadsTo(t, M, Known(at.module - 1)),
           UNCHANGED <<Fixed, stage, set, unset>>
    PROVE  OrderInv'
<1> DEFINE p == at.module
<1>1. /\ p \in 1..Len(modules) /\ M = modules[p] /\ M \in 1..Len(semas)
      /\ semas \in Seq(Sema)
  BY DueFacts DEF OrderInv, TypeOK
<1>2. /\ semas' \in Seq(Sema) /\ Len(semas') = Len(semas)
      /\ semas'[M] = t
      /\ \A j \in 1..Len(semas) : j # M => semas'[j] = semas[j]
  BY <1>1, ExceptSeq
<1>3. \A k \in 1..Len(frames) : frames[k].sema \in 1..Len(semas) /\ frames[k].sema # M
  BY <1>1, FrameFacts DEF OrderInv, EachOnce
<1>4. \A i \in 1..Len(modules) : modules[i] \in 1..Len(semas) /\ (i # p => modules[i] # M)
  <2>1. modules \in Seq(1..Len(semas))
    BY DEF OrderInv, TypeOK
  <2> QED
    BY <1>1, <2>1, ElementOfSeq DEF OrderInv, EachOnce
<1>5. \A k \in 1..Len(frames) : semas'[frames[k].sema] = semas[frames[k].sema]
  BY <1>2, <1>3
<1>6. TypeOK'
  <2>1. at' \in [module : Nat \ {0}, node : Nat \ {0}]
    BY NextNodeType
  <2> QED
    BY <1>2, <2>1 DEF OrderInv, TypeOK, Fixed
<1>7. CwdFollows'
  <2>1. CASE frames = <<>>
    BY <2>1 DEF OrderInv, CwdFollows, Fixed
  <2>2. CASE frames # <<>>
    <3> DEFINE Frame == [sema : 1..Len(semas), back : Dirs]
    <3>1. frames \in Seq(Frame)
      BY DEF OrderInv, TypeOK
    <3> HIDE DEF Frame
    <3>2. Last(frames) = frames[Len(frames)] /\ Len(frames) \in Nat \ {0}
      BY ONLY <2>2, <3>1, FrontFacts
    <3>3. I' = I /\ S' = S
      BY <1>5, <3>2 DEF I, S, Fixed
    <3> QED
      BY <2>2, <3>3 DEF OrderInv, CwdFollows, Fixed
  <2> QED
    BY <2>1, <2>2
<1>8. ReturnsWhereOpened'
  <2> SUFFICES ASSUME NEW k \in 1..Len(frames)
               PROVE  frames[k].back = IF k = 1 THEN StartDir ELSE semas'[frames[k - 1].sema].dir
    BY DEF ReturnsWhereOpened, Fixed
  <2>1. frames[k].back = IF k = 1 THEN StartDir ELSE semas[frames[k - 1].sema].dir
    BY DEF OrderInv, ReturnsWhereOpened
  <2>2. k = 1 \/ k - 1 \in 1..Len(frames)
    BY FrameFacts DEF OrderInv
  <2> QED
    BY <1>5, <2>1, <2>2
<1>9. WaitsForImports' /\ EachOnce'
  <2>1. EachOnce'
    BY DEF OrderInv, EachOnce, Fixed
  <2>2. ASSUME NEW k \in 1..Len(frames)
        PROVE  LET w == semas'[frames[k].sema]
                   nodes == text[w.file].nodes
               IN  /\ Len(w.ast) <= Len(nodes)
                   /\ k < Len(frames) => /\ Len(w.ast) < Len(nodes)
                                         /\ nodes[Len(w.ast) + 1].kind = "import"
    <3>1. semas'[frames[k].sema] = semas[frames[k].sema]
      BY <1>5
    <3> QED
      BY <3>1 DEF OrderInv, WaitsForImports
  <2> QED
    BY <2>1, <2>2 DEF WaitsForImports, Fixed
<1>10. LeadsBack'
  <2>1. ASSUME NEW i \in 1..Len(modules)
        PROVE  LeadsTo(semas'[modules[i]], modules[i], Known(i - 1))
    <3>1. CASE i = p
      BY <1>1, <1>2, <3>1
    <3>2. CASE i # p
      BY <1>2, <1>4, <3>2 DEF OrderInv, LeadsBack
    <3> QED
      BY <3>1, <3>2
  <2>2. ASSUME NEW k \in 1..Len(frames)
        PROVE  LeadsTo(semas'[frames[k].sema], frames[k].sema, Known(Len(modules)))
    BY <1>5 DEF OrderInv, LeadsBack
  <2>3. modules' = modules /\ frames' = frames /\ \A i : Known(i)' = Known(i)
    BY DEF Fixed, Known
  <2> QED
    BY <2>1, <2>2, <2>3 DEF LeadsBack
<1> QED
  BY <1>6, <1>7, <1>8, <1>9, <1>10 DEF OrderInv

\* What becomes of the module whose declaration is analysed: all but what
\* that reads, when it is a function, is as it was.
Analysed(t) ==
    /\ t \in Sema /\ t.file = semas[M].file /\ t.dir = semas[M].dir
    /\ t.priv = semas[M].priv /\ t.pub = semas[M].pub
    /\ Len(t.ast) = Len(semas[M].ast)
    /\ LeadsTo(t, M, Known(at.module - 1))
    /\ \A j \in 1..Len(semas[M].ast) :
          \/ t.ast[j].reads = semas[M].ast[j].reads
          \/ /\ j = at.node /\ DueNode.kind = "func"
             /\ t.ast[j].reads = Resolve(semas[M], DueNode.ref)
             /\ t.ast[j].reads.value \notin {"none", "module"}

LEMMA AnalyseFacts ==
    ASSUME OrderInv, Analyse
    PROVE  \/ semas' = semas
           \/ \E t : Analysed(t) /\ semas' = [semas EXCEPT ![M] = t]
<1> DEFINE s == semas[M]
           k == at.node
           known == Known(at.module - 1)
           d == Resolve(s, DueNode.ref)
           Entry == [decl : Decl, reads : Decl]
<1>1. /\ at.module <= Len(modules) /\ k <= Len(s.ast)
      /\ \/ semas' = semas
         \/ semas' = [semas EXCEPT ![M].failed = TRUE]
         \/ /\ semas' = [semas EXCEPT ![M].ast[k].reads = d]
            /\ DueNode.kind = "func" /\ d.value \notin {"none", "module"}
  BY DEF Analyse, InLoop
<1>2. /\ at.module \in 1..Len(modules) /\ M = modules[at.module]
      /\ s \in Sema /\ M \in 1..Len(semas) /\ k \in 1..Len(s.ast)
  BY <1>1, DueFacts
<1>3. LeadsTo(s, M, known)
  BY <1>2 DEF OrderInv, LeadsBack
<1>4. CASE semas' = [semas EXCEPT ![M].failed = TRUE]
  <2> DEFINE t == [s EXCEPT !.failed = TRUE]
  <2>1. semas' = [semas EXCEPT ![M] = t]
    BY <1>4
  <2>2. /\ t \in Sema /\ t.file = s.file /\ t.dir = s.dir /\ t.ast = s.ast
        /\ t.priv = s.priv /\ t.pub = s.pub
        /\ LeadsTo(t, M, known)
    BY <1>2, <1>3 DEF Sema, LeadsTo
  <2> HIDE DEF t, known
  <2>3. Analysed(t)
    BY <2>2 DEF Analysed, known
  <2> QED
    BY <2>1, <2>3
<1>5. CASE /\ semas' = [semas EXCEPT ![M].ast[k].reads = d]
           /\ DueNode.kind = "func" /\ d.value \notin {"none", "module"}
  <2> DEFINE e == [s.ast[k] EXCEPT !.reads = d]
             a == [s.ast EXCEPT ![k] = e]
             t == [s EXCEPT !.ast = a]
  <2>1. semas' = [semas EXCEPT ![M] = t]
    BY <1>5
  <2>2. d \in Decl /\ d.of \in {0, M} \cup known
    <3>1. \A j \in known : semas[j] \in Sema /\ LeadsTo(semas[j], j, known)
      BY <1>2, KnownBefore
    <3> HIDE DEF known
    <3> QED
      BY <1>2, <1>3, <3>1, ResolveFacts
  <2>3. s.ast \in Seq(Entry) /\ s.ast[k] \in Entry
    BY <1>2, ElementOfSeq DEF Sema
  <2>4. DueNode.kind = "func" /\ d.value \notin {"none", "module"}
    BY <1>5
  <2> HIDE DEF d
  <2>5. e \in Entry /\ e.reads = d
    BY <2>2, <2>3
  <2> HIDE DEF e, Entry
  <2>6. /\ a \in Seq(Entry) /\ Len(a) = Len(s.ast) /\ a[k] = e
        /\ \A j \in 1..Len(s.ast) : j # k => a[j] = s.ast[j]
    BY <1>2, <2>3, <2>5, ExceptSeq
  <2> HIDE DEF a
  <2>7. /\ t \in Sema /\ t.file = s.file /\ t.dir = s.dir /\ t.priv = s.priv /\ t.pub = s.pub
        /\ t.ast = a
    BY <1>2, <2>6 DEF Sema, Entry
  <2>8. \A j \in 1..Len(a) : a[j].reads.of \in {0, M} \cup known
    BY <1>3, <2>2, <2>5, <2>6 DEF LeadsTo
  <2> HIDE DEF t
  <2>9. LeadsTo(t, M, known)
    BY <1>3, <2>7, <2>8 DEF LeadsTo
  <2>10. \A j \in 1..Len(s.ast) : a[j].reads = s.ast[j].reads \/ (j = k /\ a[j].reads = d)
    BY <2>5, <2>6
  <2>11. Analysed(t)
    <3> HIDE DEF known
    <3> QED
      BY <2>4, <2>6, <2>7, <2>9, <2>10 DEF Analysed, known, d
  <2> QED
    BY <2>1, <2>11 DEF t, a, e, d
<1> QED
  BY <1>1, <1>4, <1>5

LEMMA AnalyseKeeps ==
    ASSUME OrderInv, Analyse
    PROVE  OrderInv'
<1>1. /\ at.module <= Len(modules) /\ at.node <= Len(semas[M].ast)
      /\ NextNode /\ UNCHANGED <<Fixed, stage, set, unset>>
  BY DEF Analyse, InLoop
<1>2. CASE semas' = semas
  BY <1>1, <1>2, NextNodeType, LoopKeeps DEF OrderInv, TypeOK
<1>3. CASE \E t : Analysed(t) /\ semas' = [semas EXCEPT ![M] = t]
  BY <1>1, <1>3, AnnotateKeeps DEF Analysed
<1> QED
  BY <1>2, <1>3, AnalyseFacts
(***************************************************************************)
(* The invariant and what follows from it                                  *)
(***************************************************************************)
LEMMA InitOrderInv == Init => OrderInv
<1> SUFFICES ASSUME Init PROVE OrderInv
  OBVIOUS
<1>1. text \in Texts
  BY DEF Init, Texts
<1>2. TypeOK
  <2>1. 0 \in 0..MaxOpen
    BY SizesAssumption
  <2> QED
    BY <1>1, <2>1, FileSystemAssumption DEF Init, TypeOK
<1>3. CwdFollows /\ ReturnsWhereOpened /\ WaitsForImports /\ EachOnce /\ LeadsBack
  BY DEF Init, CwdFollows, ReturnsWhereOpened, WaitsForImports, EachOnce, LeadsBack
<1> QED
  BY <1>2, <1>3 DEF OrderInv

LEMMA ReadBadFits ==
    ASSUME OrderInv, NEW n \in Upcoming, ReadBad(n)
    PROVE  TakesFit(n)
BY RefuseFits DEF ReadBad

LEMMA NextOrderInv ==
    ASSUME OrderInv, [Next]_vars
    PROVE  OrderInv'
<1>1. CASE Start
  BY <1>1, StartKeeps
<1>2. ASSUME NEW n \in Upcoming,
             \/ ImportOpens(n) \/ ImportKnown(n) \/ ImportFails(n)
             \/ ReadPlain(n) \/ ReadVal(n)
             \/ ReadFromAll(n) \/ ReadFromItem(n) \/ ReadUse(n)
             \/ ReadBad(n)
      PROVE  OrderInv'
  BY <1>2, ImportOpensKeeps, ImportKnownKeeps, ImportFailsKeeps, TakesFitKeeps, ReadPlainFits,
     ReadValFits, ReadFromAllFits, ReadFromItemFits, ReadUseFits, ReadBadFits
<1>3. CASE Close
  BY <1>3, CloseKeeps
<1>4. CASE NextModule
  BY <1>4, NextModuleKeeps
<1>5. CASE Analyse
  BY <1>5, AnalyseKeeps
<1>6. CASE EndLoop
  BY <1>6, EndLoopKeeps
<1>7. CASE InitNode
  BY <1>7, InitNodeKeeps
<1>8. CASE EmitNode
  BY <1>8, EmitNodeKeeps
<1>9. CASE UNCHANGED vars
  <2>1. text' \in Texts /\ Grown(text, text') /\ opened' \in 0..MaxOpen
    BY <1>9, GrownItself DEF OrderInv, TypeOK, vars
  <2> QED
    BY <1>9, <2>1, TextGrows DEF OrderInv, TypeOK, vars, Later
<1> QED
  BY <1>1, <1>2, <1>3, <1>4, <1>5, <1>6, <1>7, <1>8, <1>9 DEF Next

\* sema_project_add_module_at and the loops of the compiler keep the invariant
\* whatever the files hold: running calls are of later and later modules, none
\* of them listed, each waits at an import, and every table leads to its own
\* module or to modules listed before.
THEOREM OrderIsKept == Spec => []OrderInv
<1>1. Init => OrderInv
  BY InitOrderInv
<1>2. OrderInv /\ [Next]_vars => OrderInv'
  BY NextOrderInv
<1> QED
  BY <1>1, <1>2, PTL DEF Spec

\* The state keeps its types: a frame and project->modules hold modules that
\* have been made, a table holds declarations.
THEOREM TypesAreKept == Spec => []TypeOK
<1>1. OrderInv => TypeOK
  BY DEF OrderInv
<1> QED
  BY <1>1, OrderIsKept, PTL

\* The chdir at the start and at the end of sema_project_add_module_at: a path
\* is looked up from the directory its file was opened in, and the process
\* ends up in the one it was started in, whichever files fail on the way.
THEOREM PathsFollowFiles == Spec => []CwdFollows
<1>1. OrderInv => CwdFollows
  BY DEF OrderInv
<1> QED
  BY <1>1, OrderIsKept, PTL

LEMMA InOrder == OrderInv => DependenciesFirst
<1> SUFFICES ASSUME OrderInv, NEW i \in 1..Len(modules)
             PROVE  LET known == ToSet(SubSeq(modules, 1, i))
                        s == semas[modules[i]]
                    IN  /\ \A d \in s.priv : d.of \in known /\ d.target \in {0} \cup (known \ {modules[i]})
                        /\ \A e \in ToSet(s.ast) : e.reads.of \in {0} \cup known
  BY DEF DependenciesFirst
<1> DEFINE s == semas[modules[i]]
           before == Known(i - 1)
<1>1. modules \in Seq(1..Len(semas)) /\ Len(modules) \in Nat
  BY LenProperties DEF OrderInv, TypeOK
<1>2. ToSet(SubSeq(modules, 1, i)) = before \cup {modules[i]}
  <2> DEFINE t == SubSeq(modules, 1, i)
  <2>1. /\ Len(t) = i /\ t \in Seq(1..Len(semas))
        /\ \A j \in 1..i : t[j] = modules[j]
    <3>1. \A j \in 1..i : modules[j] \in 1..Len(semas)
      BY <1>1, ElementOfSeq
    <3>2. i \in Int /\ 1 \in Int /\ 1 <= i
      BY <1>1
    <3> QED
      BY <3>1, <3>2, SubSeqProperties
  <2>2. ToSet(t) = {modules[j] : j \in 1..i}
    <3> HIDE DEF t
    <3> QED
      BY <2>1 DEF ToSet
  <2>3. 1..i = (1..i - 1) \cup {i}
    BY <1>1
  <2> QED
    BY <2>2, <2>3 DEF Known
<1>3. modules[i] \notin before
  BY KnownBefore
<1>4. LeadsTo(s, modules[i], before)
  BY DEF OrderInv, LeadsBack
<1>5. \A e \in ToSet(s.ast) : e.reads.of \in {0, modules[i]} \cup before
  <2>1. modules[i] \in Known(Len(modules))
    BY DEF Known
  <2>2. s.ast \in Seq([decl : Decl, reads : Decl])
    BY <2>1, KnownFacts DEF Sema
  <2>3. \A e \in ToSet(s.ast) : \E k \in 1..Len(s.ast) : e = s.ast[k]
    <3> HIDE DEF s
    <3> QED
      BY <2>2 DEF ToSet
  <2> QED
    BY <1>4, <2>3 DEF LeadsTo
<1>6. \A d \in s.priv : /\ d.of \in before \cup {modules[i]}
                         /\ d.target \in {0} \cup before
  BY <1>4 DEF LeadsTo
<1> HIDE DEF s, before
<1>7. /\ \A d \in s.priv : /\ d.of \in before \cup {modules[i]}
                           /\ d.target \in {0} \cup ((before \cup {modules[i]}) \ {modules[i]})
      /\ \A e \in ToSet(s.ast) : e.reads.of \in {0} \cup (before \cup {modules[i]})
  BY <1>3, <1>5, <1>6
<1> QED
  BY <1>2, <1>7 DEF s

\* The order of project->modules is one in which analysis and both passes of
\* llvm_emit_project can go: a module uses only modules that come before it.
THEOREM ModulesInOrder == Spec => []DependenciesFirst
BY InOrder, OrderIsKept, PTL

(***************************************************************************)
(* Tables and annotations                                                  *)
(***************************************************************************)
\* A path leads to nothing or to what a module holds.
LEMMA PathSound ==
    ASSUME Annotated, NEW m \in 1..Len(semas), NEW ref, NEW known,
           \A j \in known : j \in 1..Len(semas),
           LeadsTo(semas[m], m, known)
    PROVE  Resolve(semas[m], ref) = NoDecl \/ Sound(Resolve(semas[m], ref))
<1> DEFINE s == semas[m]
           a == Declared(s.priv, FALSE, ref.module)
<1>1. CASE ref.module = NoName
  <2>1. Resolve(s, ref) \in s.priv \cup {NoDecl}
    BY <1>1, DeclaredFacts DEF Resolve
  <2> QED
    BY <2>1 DEF Annotated
<1>2. CASE ref.module # NoName /\ a.value # "module"
  BY <1>2 DEF Resolve
<1>3. CASE ref.module # NoName /\ a.value = "module"
  <2>1. NoDecl.value # "module"
    BY DEF NoDecl
  <2>2. a \in s.priv
    BY <1>3, <2>1, DeclaredFacts
  <2>3. a.target \in 1..Len(semas)
    BY <1>3, <2>2 DEF LeadsTo
  <2>4. Resolve(s, ref) \in semas[a.target].pub \cup {NoDecl}
    BY <1>3, DeclaredFacts DEF Resolve
  <2> QED
    BY <2>3, <2>4 DEF Annotated
<1> QED
  BY <1>1, <1>2, <1>3

LEMMA ResolveSound ==
    ASSUME OrderInv, Annotated, Reading, NEW ref
    PROVE  Resolve(S, ref) = NoDecl \/ Sound(Resolve(S, ref))
<1> DEFINE known == Known(Len(modules))
<1>1. I \in 1..Len(semas) /\ S = semas[I] /\ LeadsTo(S, I, known)
  BY ReadingFacts
<1>2. \A j \in known : j \in 1..Len(semas)
  BY KnownFacts
<1> HIDE DEF known
<1> QED
  BY <1>1, <1>2, PathSound

LEMMA AstLengths ==
    ASSUME OrderInv
    PROVE  \A j \in 1..Len(semas) : Len(semas[j].ast) \in Nat
<1>1. \A j \in 1..Len(semas) : semas[j] \in Sema
  BY ElementOfSeq DEF OrderInv, TypeOK
<1> QED
  BY <1>1, LenProperties DEF Sema

(***************************************************************************)
(* What is so stays so while files and modules grow                        *)
(***************************************************************************)
Onward ==
    /\ semas' \in Seq(Sema) /\ Len(semas) <= Len(semas')
    /\ \A j \in 1..Len(semas) : /\ semas'[j].file = semas[j].file
                                /\ Len(semas[j].ast) <= Len(semas'[j].ast)
    /\ text' \in Texts /\ Grown(text, text')

\* A module's declarations in its file, before and after.
LEMMA NodesKept ==
    ASSUME OrderInv, Annotated, Onward, NEW j \in 1..Len(semas)
    PROVE  /\ j \in 1..Len(semas')
           /\ Len(semas[j].ast) \in Nat
           /\ \A k \in 1..Len(semas[j].ast) :
                 /\ k \in 1..Len(semas'[j].ast)
                 /\ text'[semas'[j].file].nodes[k] = text[semas[j].file].nodes[k]
<1>1. semas \in Seq(Sema) /\ text \in Texts
  BY DEF OrderInv, TypeOK
<1>2. Len(semas) \in Nat /\ Len(semas') \in Nat /\ semas[j] \in Sema
  BY <1>1, LenProperties, ElementOfSeq DEF Onward
<1>3. j \in 1..Len(semas') /\ semas'[j] \in Sema
  <2>1. j \in 1..Len(semas')
    BY <1>2 DEF Onward
  <2> QED
    BY <2>1, ElementOfSeq DEF Onward
<1>4. semas[j].file \in Files /\ Len(semas[j].ast) \in Nat /\ Len(semas'[j].ast) \in Nat
  BY <1>2, <1>3, LenProperties DEF Sema
<1>5. Len(text[semas[j].file].nodes) \in Nat
  <2>1. text[semas[j].file].nodes \in Seq(Nodes)
    BY <1>1, <1>4 DEF Texts
  <2> QED
    BY <2>1, LenProperties
<1>6. /\ semas'[j].file = semas[j].file
      /\ Len(semas[j].ast) <= Len(semas'[j].ast)
      /\ Len(semas[j].ast) <= Len(text[semas[j].file].nodes)
      /\ \A k \in 1..Len(text[semas[j].file].nodes) :
            text'[semas[j].file].nodes[k] = text[semas[j].file].nodes[k]
  BY <1>4 DEF Onward, Annotated, Grown
<1>7. \A k \in 1..Len(semas[j].ast) :
         k \in 1..Len(semas'[j].ast) /\ k \in 1..Len(text[semas[j].file].nodes)
  BY <1>4, <1>5, <1>6
<1> QED
  BY <1>3, <1>4, <1>6, <1>7

LEMMA SoundKept ==
    ASSUME OrderInv, Annotated, Onward, NEW d, Sound(d)
    PROVE  Sound(d)'
<1>1. /\ d.name \in Names
      /\ d.of \in 1..Len(semas) /\ d.node \in 1..Len(semas[d.of].ast)
  BY DEF Sound
<1>2. /\ d.of \in 1..Len(semas') /\ d.node \in 1..Len(semas'[d.of].ast)
      /\ text'[semas'[d.of].file].nodes[d.node] = text[semas[d.of].file].nodes[d.node]
  BY <1>1, NodesKept
<1> QED
  BY <1>1, <1>2 DEF Sound

LEMMA ReadsKept ==
    ASSUME OrderInv, Annotated, Onward, NEW i \in 1..Len(semas), NEW k \in 1..Len(semas[i].ast),
           semas'[i].ast[k].reads = semas[i].ast[k].reads
    PROVE  ReadsFit(i, k)'
<1>1. PICK d : d = semas[i].ast[k].reads
  OBVIOUS
<1>2. ReadsFit(i, k)
  BY DEF Annotated
<1>3. text'[semas'[i].file].nodes[k] = text[semas[i].file].nodes[k]
  BY NodesKept
<1>4. ASSUME Sound(d) PROVE Sound(d)'
  BY <1>4, SoundKept
<1>5. semas'[i].ast[k].reads = d
  BY <1>1
<1>6. d = NoDecl \/ Sound(d)
  BY <1>1, <1>2 DEF ReadsFit
<1>7. d # NoDecl =>
         \/ /\ text[semas[i].file].nodes[k].kind \in Vals
            /\ d.value \in {"constant", "final"}
            /\ d.of = i => d.node < k
         \/ /\ text[semas[i].file].nodes[k].kind = "func"
            /\ d.value \in {"constant", "final", "var"}
  BY <1>1, <1>2 DEF ReadsFit
<1>8. d = NoDecl \/ Sound(d)'
  BY <1>4, <1>6
<1> QED
  BY <1>3, <1>5, <1>7, <1>8 DEF ReadsFit

\* A module goes past a declaration, with what it pushes and what that reads.
LEMMA WithAnnotates ==
    ASSUME OrderInv, Annotated, NEW i \in 1..Len(semas), NEW s, Filled(semas[i], s),
           NEW decl \in Decl, NEW reads \in Decl,
           semas' = With(i, s, decl, reads), Onward,
           Len(semas[i].ast) + 1 <= Len(text'[semas[i].file].nodes),
           \A d \in s.priv \cup s.pub : Sound(d) \/ Sound(d)',
           \/ reads = NoDecl
           \/ /\ Sound(reads)
              /\ text'[semas[i].file].nodes[Len(semas[i].ast) + 1].kind \in Vals
              /\ reads.value \in {"constant", "final"}
    PROVE  Annotated'
<1> DEFINE Entry == [decl : Decl, reads : Decl]
           e == [decl |-> decl, reads |-> reads]
           a == Append(semas[i].ast, e)
           t == [s EXCEPT !.ast = a]
           p == Len(semas[i].ast)
<1>1. semas \in Seq(Sema) /\ Len(semas) \in Nat /\ semas[i] \in Sema
  <2>1. semas \in Seq(Sema)
    BY DEF OrderInv, TypeOK
  <2> QED
    BY <2>1, LenProperties, ElementOfSeq
<1>2. semas[i].ast \in Seq(Entry) /\ p \in Nat
  BY <1>1, LenProperties DEF Sema
<1>3. e \in Entry /\ e.reads = reads
  OBVIOUS
<1> HIDE DEF Entry, e
<1>4. /\ a \in Seq(Entry) /\ Len(a) = p + 1 /\ a[p + 1] = e
      /\ \A k \in 1..p : a[k] = semas[i].ast[k]
  BY <1>2, <1>3, AppendFacts
<1>5. s \in Sema /\ s.file = semas[i].file /\ s.ast = semas[i].ast
  BY DEF Filled
<1>6. semas' = [semas EXCEPT ![i] = t]
  BY <1>5 DEF With, e
<1> HIDE DEF a
<1>7. t \in Sema /\ t.file = semas[i].file /\ t.priv = s.priv /\ t.pub = s.pub /\ t.ast = a
  BY <1>4, <1>5 DEF Sema, Entry
<1> HIDE DEF t
<1>8. /\ Len(semas') = Len(semas) /\ semas'[i] = t
      /\ \A j \in 1..Len(semas) : j # i => semas'[j] = semas[j]
  BY <1>1, <1>6, <1>7, ExceptSeq
<1>9. ASSUME NEW j \in 1..Len(semas'), NEW d \in semas'[j].priv \cup semas'[j].pub
      PROVE  Sound(d)'
  <2>1. CASE j = i
    <3>1. Sound(d) \/ Sound(d)'
      BY <1>7, <1>8, <2>1
    <3> QED
      BY <3>1, SoundKept
  <2>2. CASE j # i
    <3>1. Sound(d)
      BY <1>8, <2>2 DEF Annotated
    <3> QED
      BY <3>1, SoundKept
  <2> QED
    BY <2>1, <2>2
<1>10. ASSUME NEW j \in 1..Len(semas')
       PROVE  Len(semas'[j].ast) <= Len(text'[semas'[j].file].nodes)
  <2>1. CASE j = i
    BY <1>4, <1>7, <1>8, <2>1
  <2>2. CASE j # i
    <3>1. j \in 1..Len(semas) /\ semas'[j] = semas[j] /\ semas[j] \in Sema
      BY <1>1, <1>8, <2>2, ElementOfSeq
    <3>2. Len(semas[j].ast) <= Len(text[semas[j].file].nodes)
      BY <3>1 DEF Annotated
    <3>3. text \in Texts /\ text' \in Texts /\ Grown(text, text')
      BY DEF OrderInv, TypeOK, Onward
    <3>4. Len(semas[j].ast) <= Len(text'[semas[j].file].nodes)
      BY <3>1, <3>2, <3>3, WaitGrows
    <3> QED
      BY <3>1, <3>4
  <2> QED
    BY <2>1, <2>2
<1>11. ASSUME NEW j \in 1..Len(semas'), NEW k \in 1..Len(semas'[j].ast)
       PROVE  ReadsFit(j, k)'
  <2>1. CASE j # i
    BY <1>8, <2>1, ReadsKept
  <2>2. CASE j = i /\ k \in 1..p
    BY <1>4, <1>7, <1>8, <2>2, ReadsKept
  <2>3. CASE j = i /\ k = p + 1
    <3>1. semas'[i].ast[p + 1].reads = reads /\ semas'[i].file = semas[i].file
      BY <1>3, <1>4, <1>7, <1>8
    <3>2. CASE reads = NoDecl
      BY <2>3, <3>1, <3>2 DEF ReadsFit
    <3>3. CASE reads # NoDecl
      <4>1. Sound(reads)'
        BY <3>3, SoundKept
      <4>2. reads.of = i => reads.node < p + 1
        <5> SUFFICES ASSUME reads.of = i PROVE reads.node < p + 1
          OBVIOUS
        <5>1. reads.node \in 1..p
          BY <3>3 DEF Sound
        <5> HIDE DEF p
        <5> QED
          BY <1>2, <5>1
      <4> HIDE DEF p
      <4>3. text'[semas'[i].file].nodes[p + 1].kind \in Vals
        BY <3>1, <3>3 DEF p
      <4> QED
        BY <2>3, <3>1, <3>3, <4>1, <4>2, <4>3 DEF ReadsFit
    <3> QED
      BY <3>2, <3>3
  <2>4. k \in 1..p \/ k = p + 1 \/ j # i
    BY <1>2, <1>4, <1>7, <1>8
  <2> QED
    BY <2>1, <2>2, <2>3, <2>4
<1> QED
  BY <1>9, <1>10, <1>11 DEF Annotated

(***************************************************************************)
(* Reading a declaration                                                   *)
(***************************************************************************)
\* Module i has gone past a declaration; nothing else has.
MovesOn(i) ==
    /\ semas' \in Seq(Sema) /\ Len(semas') = Len(semas)
    /\ Len(semas'[i].ast) = Len(semas[i].ast) + 1
    /\ \A j \in 1..Len(semas) : /\ semas'[j].file = semas[j].file
                                /\ semas'[j].dir = semas[j].dir
                                /\ j # i => semas'[j] = semas[j]

LEMMA WithGoesOn ==
    ASSUME OrderInv, NEW i \in 1..Len(semas), NEW s, Filled(semas[i], s),
           NEW decl \in Decl, NEW reads \in Decl,
           semas' = With(i, s, decl, reads), text' \in Texts, Grown(text, text')
    PROVE  Onward /\ MovesOn(i)
<1> DEFINE Entry == [decl : Decl, reads : Decl]
           e == [decl |-> decl, reads |-> reads]
           a == Append(semas[i].ast, e)
           t == [s EXCEPT !.ast = a]
<1>1. semas \in Seq(Sema) /\ Len(semas) \in Nat /\ \A j \in 1..Len(semas) : semas[j] \in Sema
  <2>1. semas \in Seq(Sema)
    BY DEF OrderInv, TypeOK
  <2> QED
    BY <2>1, LenProperties, ElementOfSeq
<1>2. \A j \in 1..Len(semas) : Len(semas[j].ast) \in Nat
  BY <1>1, LenProperties DEF Sema
<1>3. e \in Entry /\ semas[i].ast \in Seq(Entry)
  BY <1>1 DEF Sema
<1> HIDE DEF Entry, e
<1>4. a \in Seq(Entry) /\ Len(a) = Len(semas[i].ast) + 1
  BY <1>3, AppendFacts
<1>5. semas' = [semas EXCEPT ![i] = t]
  BY DEF With, Filled, e
<1> HIDE DEF a
<1>6. t \in Sema /\ t.file = semas[i].file /\ t.dir = semas[i].dir /\ t.ast = a
  BY <1>4 DEF Sema, Entry, Filled
<1> HIDE DEF t
<1>7. /\ semas' \in Seq(Sema) /\ Len(semas') = Len(semas) /\ semas'[i] = t
      /\ \A j \in 1..Len(semas) : j # i => semas'[j] = semas[j]
  BY <1>1, <1>5, <1>6, ExceptSeq
<1>8. ASSUME NEW j \in 1..Len(semas)
      PROVE  /\ semas'[j].file = semas[j].file /\ semas'[j].dir = semas[j].dir
             /\ Len(semas[j].ast) <= Len(semas'[j].ast)
  <2>1. CASE j = i
    BY <1>2, <1>4, <1>6, <1>7, <2>1
  <2>2. CASE j # i
    BY <1>2, <1>7, <2>2
  <2> QED
    BY <2>1, <2>2
<1>9. Len(semas) <= Len(semas')
  BY <1>1, <1>7
<1> QED
  BY <1>2, <1>4, <1>6, <1>7, <1>8, <1>9 DEF Onward, MovesOn

\* What a declaration of its own becomes once it is read.
LEMMA NewIsSound ==
    ASSUME OrderInv, NEW i \in 1..Len(semas), Len(semas'[i].ast) = Len(semas[i].ast) + 1,
           Len(semas') = Len(semas), Len(semas[i].ast) \in Nat,
           semas'[i].file = semas[i].file,
           NEW d, d.name \in Names, d.of = i, d.node = Len(semas[i].ast) + 1,
           LET kind == text'[semas[i].file].nodes[Len(semas[i].ast) + 1].kind
           IN  \/ d.value = "constant" /\ kind = "const"
               \/ d.value = "final" /\ kind \in {"func", "ext", "bare", "final", "const"}
               \/ d.value = "var" /\ kind = "var"
               \/ d.value = "module" /\ kind = "import"
    PROVE  Sound(d)'
<1>1. d.node \in 1..Len(semas'[i].ast)
  <2> DEFINE p == Len(semas[i].ast)
  <2>1. p \in Nat /\ Len(semas'[i].ast) = p + 1 /\ d.node = p + 1
    OBVIOUS
  <2> HIDE DEF p
  <2>2. p + 1 \in 1..p + 1
    BY <2>1
  <2> QED
    BY <2>1, <2>2
<1> QED
  BY <1>1 DEF Sound

LEMMA TakeAnnotates ==
    ASSUME OrderInv, Annotated, NEW n \in Upcoming,
           NEW s, Filled(S, s), NEW decl \in Decl, NEW reads \in Decl,
           Take(n, s, decl, reads),
           \A d \in s.priv \cup s.pub :
              \/ Sound(d)
              \/ /\ d.name \in Names /\ d.of = I /\ d.node = K
                 /\ \/ d.value = "constant" /\ n.kind = "const"
                    \/ d.value = "final" /\ n.kind \in {"func", "ext", "bare", "final", "const"}
                    \/ d.value = "var" /\ n.kind = "var",
           \/ reads = NoDecl
           \/ Sound(reads) /\ n.kind \in Vals /\ reads.value \in {"constant", "final"}
    PROVE  Annotated'
<1>1. /\ text' \in Texts /\ Grown(text, text')
      /\ K <= Len(text'[S.file].nodes)
      /\ text'[S.file].nodes[K] = n
      /\ Reading
  BY TextFacts DEF Take
<1>2. /\ I \in 1..Len(semas) /\ S = semas[I] /\ K = Len(semas[I].ast) + 1
  BY <1>1, ReadingFacts
<1>3. semas' = With(I, s, decl, reads)
  BY DEF Take
<1>4. /\ Onward /\ Len(semas') = Len(semas)
      /\ Len(semas'[I].ast) = Len(semas[I].ast) + 1
      /\ Len(semas[I].ast) \in Nat /\ semas'[I].file = semas[I].file
  BY <1>1, <1>2, <1>3, WithGoesOn, AstLengths DEF MovesOn
<1>5. ASSUME NEW d \in s.priv \cup s.pub, ~Sound(d)
      PROVE  Sound(d)'
  <2>1. /\ d.name \in Names /\ d.of = I /\ d.node = Len(semas[I].ast) + 1
        /\ LET kind == text'[semas[I].file].nodes[Len(semas[I].ast) + 1].kind
           IN  \/ d.value = "constant" /\ kind = "const"
               \/ d.value = "final" /\ kind \in {"func", "ext", "bare", "final", "const"}
               \/ d.value = "var" /\ kind = "var"
               \/ d.value = "module" /\ kind = "import"
    BY <1>1, <1>2, <1>5
  <2> QED
    BY <1>2, <1>4, <2>1, NewIsSound
<1>6. /\ Len(semas[I].ast) + 1 <= Len(text'[semas[I].file].nodes)
      /\ Filled(semas[I], s)
      /\ \/ reads = NoDecl
         \/ /\ Sound(reads)
            /\ text'[semas[I].file].nodes[Len(semas[I].ast) + 1].kind \in Vals
            /\ reads.value \in {"constant", "final"}
  BY <1>1, <1>2
<1> QED
  BY <1>2, <1>3, <1>4, <1>5, <1>6, WithAnnotates

LEMMA HeldIsSound ==
    ASSUME OrderInv, Annotated, Reading
    PROVE  \A d \in S.priv \cup S.pub : Sound(d)
BY ReadingFacts DEF Annotated

LEMMA RefuseAnnotates ==
    ASSUME OrderInv, Annotated, NEW n \in Upcoming, Refuse(n)
    PROVE  Annotated'
<1> DEFINE s == [S EXCEPT !.failed = TRUE]
<1>1. Reading /\ S \in Sema
  BY TextFacts, ReadingFacts
<1>2. Filled(S, s) /\ s.priv = S.priv /\ s.pub = S.pub
  BY <1>1 DEF Filled, Sema
<1>3. Take(n, s, NoDecl, NoDecl)
  BY DEF Refuse
<1> HIDE DEF s
<1> QED
  BY <1>1, <1>2, <1>3, HeldIsSound, NoDeclType, TakeAnnotates

LEMMA ReadPlainAnnotates ==
    ASSUME OrderInv, Annotated, NEW n \in Upcoming, ReadPlain(n)
    PROVE  Annotated'
<1> DEFINE d == NewDecl(n.name, n.kind = "ext", "final")
           s == Push(S, d, n.public)
<1>1. Reading /\ n \in Nodes /\ S \in Sema /\ LeadsTo(S, I, Known(Len(modules)))
  BY TextFacts, ReadingFacts
<1>2. n.kind \in {"func", "ext", "bare"} /\ n.name \in Names /\ n.public \in BOOLEAN
  BY <1>1, NodeFacts DEF ReadPlain, At
<1>3. Take(n, s, d, NoDecl)
  BY DEF ReadPlain
<1>4. d \in Decl /\ Fit(d, I, Known(Len(modules)))
  BY <1>1, <1>2, NewDeclFacts
<1>5. d.name = n.name /\ d.of = I /\ d.node = K /\ d.value = "final"
  BY DEF NewDecl, NoDecl
<1> HIDE DEF d
<1>6. Filled(S, s)
  BY <1>1, <1>2, <1>4, PushFacts
<1>7. \A e \in s.priv \cup s.pub : Sound(e) \/ e = d
  BY <1>1, PushHolds, HeldIsSound
<1> HIDE DEF s
<1> QED
  BY <1>2, <1>3, <1>4, <1>5, <1>6, <1>7, NoDeclType, TakeAnnotates

LEMMA ReadValAnnotates ==
    ASSUME OrderInv, Annotated, NEW n \in Upcoming, ReadVal(n)
    PROVE  Annotated'
<1> DEFINE init == Resolve(S, n.ref)
           value == IF n.kind # "const" THEN n.kind
                    ELSE IF n.ref = NoRef THEN "constant" ELSE init.value
           d == NewDecl(n.name, FALSE, value)
           s == Push(S, d, n.public)
<1>1. Reading /\ n \in Nodes /\ S \in Sema /\ LeadsTo(S, I, Known(Len(modules)))
  BY TextFacts, ReadingFacts
<1>2. n.kind \in Vals /\ n.name \in Names /\ n.public \in BOOLEAN
  BY <1>1, NodeFacts DEF ReadVal, At, Vals
<1>3. init \in Decl /\ (init = NoDecl \/ Sound(init))
  BY <1>1, ResolvesHere, ResolveSound
<1>4. CASE n.ref = NoRef \/ init.value \in {"constant", "final"}
  <2>1. Take(n, s, d, init)
    BY <1>4 DEF ReadVal
  <2>2. init = NoDecl \/ init.value \in {"constant", "final"}
    <3> SUFFICES ASSUME n.ref = NoRef PROVE init = NoDecl
      BY <1>4
    <3>1. init = Declared(S.priv, FALSE, NoName)
      BY DEF Resolve, NoRef
    <3>2. \A e \in S.priv : e.name \in Names
      BY <1>1, HeldIsSound DEF Sound
    <3>3. \A e \in S.priv : e.name # NoName
      BY <3>2, SizesAssumption
    <3> QED
      BY <3>1, <3>3 DEF Declared
  <2>3. \/ value = "constant" /\ n.kind = "const"
        \/ value = "final" /\ n.kind \in {"final", "const"}
        \/ value = "var" /\ n.kind = "var"
    BY <1>2, <1>4 DEF Vals
  <2>4. init.value \in {"constant", "final"} => init # NoDecl
    BY DEF NoDecl
  <2> HIDE DEF value, init
  <2>5. d.name = n.name /\ d.of = I /\ d.node = K /\ d.value = value
    BY DEF NewDecl, NoDecl
  <2>6. d \in Decl /\ Fit(d, I, Known(Len(modules)))
    BY <1>1, <1>2, <2>3, NewDeclFacts
  <2> HIDE DEF d
  <2>7. Filled(S, s)
    BY <1>1, <1>2, <2>6, PushFacts
  <2>8. \A e \in s.priv \cup s.pub : Sound(e) \/ e = d
    BY <1>1, PushHolds, HeldIsSound
  <2> HIDE DEF s
  <2> QED
    BY <1>2, <1>3, <2>1, <2>2, <2>3, <2>5, <2>6, <2>7, <2>8, TakeAnnotates
<1>5. CASE ~(n.ref = NoRef \/ init.value \in {"constant", "final"})
  BY <1>5, RefuseAnnotates DEF ReadVal
<1> QED
  BY <1>4, <1>5

\* What a listed module holds is sound.
LEMMA ListedIsSound ==
    ASSUME OrderInv, Annotated, NEW j \in Known(Len(modules))
    PROVE  \A d \in semas[j].pub : Sound(d)
BY KnownFacts DEF Annotated

LEMMA ReadFromAllAnnotates ==
    ASSUME OrderInv, Annotated, NEW n \in Upcoming, ReadFromAll(n)
    PROVE  Annotated'
<1> DEFINE known == Known(Len(modules))
           m == Resolve(S, n.ref)
           s == PushAll(S, FALSE, m.target, n.public)
<1>1. Reading /\ n \in Nodes /\ S \in Sema /\ LeadsTo(S, I, known)
  BY TextFacts, ReadingFacts
<1>2. n.public \in BOOLEAN
  BY <1>1, NodeFacts DEF ReadFromAll, At
<1>3. CASE m.value = "module"
  <2>1. /\ m.target \in known
        /\ semas[m.target] \in Sema /\ LeadsTo(semas[m.target], m.target, known)
    BY <1>1, <1>3, ResolvesHere
  <2>2. Take(n, s, NoDecl, NoDecl)
    BY <1>3 DEF ReadFromAll
  <2>3. \A d \in semas[m.target].pub : Sound(d)
    BY <2>1, ListedIsSound
  <2> HIDE DEF m, known
  <2>4. Filled(S, s)
    BY <1>1, <1>2, <2>1, PushAllFacts
  <2>5. \A d \in s.priv \cup s.pub : Sound(d)
    <3>1. \A d \in s.priv \cup s.pub : d \in S.priv \cup S.pub \cup semas[m.target].pub
      BY <1>1, PushAllHolds
    <3> HIDE DEF s
    <3> QED
      BY <1>1, <2>3, <3>1, HeldIsSound
  <2> HIDE DEF s
  <2> QED
    BY <2>2, <2>4, <2>5, NoDeclType, TakeAnnotates
<1>4. CASE m.value # "module"
  BY <1>4, RefuseAnnotates DEF ReadFromAll
<1> QED
  BY <1>3, <1>4

LEMMA ReadFromItemAnnotates ==
    ASSUME OrderInv, Annotated, NEW n \in Upcoming, ReadFromItem(n)
    PROVE  Annotated'
<1> DEFINE known == Known(Len(modules))
           m == Resolve(S, n.ref)
           j == m.target
           d == IF m.value # "module" THEN NoDecl ELSE Declared(semas[j].pub, FALSE, n.name)
           s == Push(S, d, n.public)
<1>1. Reading /\ n \in Nodes /\ S \in Sema /\ LeadsTo(S, I, known)
  BY TextFacts, ReadingFacts
<1>2. n.public \in BOOLEAN
  BY <1>1, NodeFacts DEF ReadFromItem, At
<1>3. CASE d # NoDecl
  <2>1. j \in known /\ semas[j] \in Sema /\ LeadsTo(semas[j], j, known)
    BY <1>1, <1>3, ResolvesHere
  <2>2. d = Declared(semas[j].pub, FALSE, n.name)
    BY <1>3
  <2>3. Take(n, s, NoDecl, NoDecl)
    BY <1>3 DEF ReadFromItem
  <2>4. Sound(d)
    <3>1. d \in semas[j].pub
      BY <1>3, <2>2, DeclaredFacts
    <3> QED
      BY <2>1, <3>1, ListedIsSound
  <2> HIDE DEF m, known, d, j
  <2>5. d \in Decl /\ Fit(d, j, known)
    BY <1>3, <2>1, <2>2, TableFacts
  <2>6. Fit(d, I, known)
    BY <2>1, <2>5 DEF Fit
  <2>7. Filled(S, s)
    BY <1>1, <1>2, <2>5, <2>6, PushFacts
  <2>8. \A e \in s.priv \cup s.pub : Sound(e)
    BY <1>1, <2>4, PushHolds, HeldIsSound
  <2> HIDE DEF s
  <2> QED
    BY <2>3, <2>7, <2>8, NoDeclType, TakeAnnotates
<1>4. CASE d = NoDecl
  <2>1. Refuse(n)
    BY <1>4 DEF ReadFromItem
  <2> QED
    BY <2>1, RefuseAnnotates
<1> QED
  BY <1>3, <1>4

LEMMA ReadUseAnnotates ==
    ASSUME OrderInv, Annotated, NEW n \in Upcoming, ReadUse(n)
    PROVE  Annotated'
<1> DEFINE known == Known(Len(modules))
           d == Resolve(S, n.ref)
           s == Push(S, d, n.public)
           t == IF d.value = "module" THEN PushAll(s, TRUE, d.target, FALSE) ELSE s
<1>1. Reading /\ n \in Nodes /\ S \in Sema /\ LeadsTo(S, I, known)
  BY TextFacts, ReadingFacts
<1>2. n.public \in BOOLEAN
  BY <1>1, NodeFacts DEF ReadUse, At
<1>3. /\ d \in Decl /\ (d = NoDecl \/ Fit(d, I, known))
      /\ d.value = "module" => /\ d.target \in known
                               /\ semas[d.target] \in Sema
                               /\ LeadsTo(semas[d.target], d.target, known)
  BY <1>1, ResolvesHere
<1>4. CASE d # NoDecl
  <2>1. Take(n, t, NoDecl, NoDecl)
    BY <1>4 DEF ReadUse
  <2>2. Sound(d)
    BY <1>1, <1>4, ResolveSound
  <2>3. d.value = "module" => \A e \in semas[d.target].pub : Sound(e)
    BY <1>3, ListedIsSound
  <2> HIDE DEF d, known
  <2>4. Filled(S, s) /\ LeadsTo(s, I, known)
    BY <1>1, <1>2, <1>3, <1>4, PushFacts
  <2>5. \A e \in s.priv \cup s.pub : Sound(e)
    BY <1>1, <2>2, PushHolds, HeldIsSound
  <2> HIDE DEF s
  <2>6. Filled(S, t) /\ \A e \in t.priv \cup t.pub : Sound(e)
    <3>1. CASE d.value = "module"
      <4> DEFINE u == PushAll(s, TRUE, d.target, FALSE)
      <4>1. s \in Sema
        BY <2>4 DEF Filled
      <4>2. Filled(s, u)
        BY <1>3, <2>4, <3>1, <4>1, PushAllFacts
      <4>3. \A e \in u.priv \cup u.pub : e \in s.priv \cup s.pub \cup semas[d.target].pub
        BY <4>1, PushAllHolds
      <4>4. t = u
        BY <3>1
      <4> HIDE DEF u, t
      <4>5. \A e \in u.priv \cup u.pub : Sound(e)
        BY <2>3, <2>5, <3>1, <4>3
      <4> QED
        BY <2>4, <4>2, <4>4, <4>5 DEF Filled
    <3>2. CASE d.value # "module"
      BY <2>4, <2>5, <3>2
    <3> QED
      BY <3>1, <3>2
  <2> HIDE DEF t
  <2> QED
    BY <2>1, <2>6, NoDeclType, TakeAnnotates
<1>5. CASE d = NoDecl
  BY <1>5, RefuseAnnotates DEF ReadUse
<1> QED
  BY <1>4, <1>5

(***************************************************************************)
(* Imports                                                                 *)
(***************************************************************************)
\* Module i goes past an import, with module m as the answer to it or none.
LEMMA ImportGoesOn ==
    ASSUME OrderInv, NEW i \in 1..Len(semas), NEW n \in Nodes, n.kind = "import",
           NEW known, NEW m \in Nat, LeadsTo(semas[i], i, known),
           m # 0 => m \in known /\ semas[m] \in Sema /\ LeadsTo(semas[m], m, known),
           semas' = Imported(i, n, m), text' \in Texts, Grown(text, text')
    PROVE  \E s : \E decl \in Decl :
               /\ Filled(semas[i], s) /\ semas' = With(i, s, decl, NoDecl)
               /\ HeldAfter(s, i, n, m)
               /\ Onward /\ MovesOn(i)
<1>1. semas \in Seq(Sema) /\ Len(semas) \in Nat
  BY LenProperties DEF OrderInv, TypeOK
<1>2. semas[i] \in Sema /\ i \in Nat
  BY <1>1, ElementOfSeq
<1>3. \E s : \E decl \in Decl :
          /\ Filled(semas[i], s) /\ LeadsTo(s, i, known)
          /\ Imported(i, n, m) = With(i, s, decl, NoDecl)
          /\ HeldAfter(s, i, n, m)
  BY <1>2, ImportedFacts
<1>4. PICK s : \E decl \in Decl :
          Filled(semas[i], s) /\ semas' = With(i, s, decl, NoDecl) /\ HeldAfter(s, i, n, m)
  BY <1>3
<1>5. PICK decl \in Decl :
          Filled(semas[i], s) /\ semas' = With(i, s, decl, NoDecl) /\ HeldAfter(s, i, n, m)
  BY <1>4
<1>6. Onward /\ MovesOn(i)
  BY <1>5, NoDeclType, WithGoesOn
<1> QED
  BY <1>5, <1>6

LEMMA ImportAnnotates ==
    ASSUME OrderInv, Annotated, NEW i \in 1..Len(semas), NEW n \in Nodes, n.kind = "import",
           NEW known, NEW m \in Nat, LeadsTo(semas[i], i, known),
           m # 0 => /\ m \in known /\ m \in 1..Len(semas)
                    /\ semas[m] \in Sema /\ LeadsTo(semas[m], m, known),
           semas' = Imported(i, n, m), text' \in Texts, Grown(text, text'),
           Len(semas[i].ast) + 1 <= Len(text'[semas[i].file].nodes),
           text'[semas[i].file].nodes[Len(semas[i].ast) + 1] = n
    PROVE  Annotated'
<1>1. \E s : \E decl \in Decl :
          /\ Filled(semas[i], s) /\ semas' = With(i, s, decl, NoDecl)
          /\ HeldAfter(s, i, n, m)
          /\ Onward /\ MovesOn(i)
  BY ImportGoesOn
<1>2. PICK s : \E decl \in Decl :
          /\ Filled(semas[i], s) /\ semas' = With(i, s, decl, NoDecl) /\ HeldAfter(s, i, n, m)
          /\ Onward /\ MovesOn(i)
  BY <1>1
<1>3. PICK decl \in Decl :
          /\ Filled(semas[i], s) /\ semas' = With(i, s, decl, NoDecl) /\ HeldAfter(s, i, n, m)
          /\ Onward /\ MovesOn(i)
  BY <1>2
<1>4. /\ Onward /\ Len(semas') = Len(semas)
      /\ Len(semas'[i].ast) = Len(semas[i].ast) + 1
      /\ Len(semas[i].ast) \in Nat /\ semas'[i].file = semas[i].file
  BY <1>3, AstLengths DEF MovesOn
<1>5. ASSUME NEW d \in s.priv \cup s.pub
      PROVE  Sound(d) \/ Sound(d)'
  <2>1. CASE d \in semas[i].priv \cup semas[i].pub
    BY <2>1 DEF Annotated
  <2>2. CASE m # 0 /\ d \in semas[m].pub
    BY <2>2 DEF Annotated
  <2>3. CASE /\ d.name = n.name /\ d.value = "module"
             /\ d.of = i /\ d.node = Len(semas[i].ast) + 1
    <3>1. n.name \in Names
      BY NodeFacts
    <3> QED
      BY <1>4, <2>3, <3>1, NewIsSound
  <2> QED
    BY <1>3, <2>1, <2>2, <2>3 DEF HeldAfter
<1> QED
  BY <1>3, <1>4, <1>5, NoDeclType, WithAnnotates

LEMMA ImportKnownAnnotates ==
    ASSUME OrderInv, Annotated, NEW n \in Upcoming, ImportKnown(n)
    PROVE  Annotated'
<1> DEFINE m == Listed(Finds[<<cwd, n.path>>])
           known == Known(Len(modules))
<1>1. /\ Reading /\ n \in Nodes
      /\ text' \in Texts /\ Grown(text, text') /\ K <= Len(text'[S.file].nodes)
      /\ text'[S.file].nodes[K] = n
  BY TextFacts DEF ImportKnown
<1>2. I \in 1..Len(semas) /\ S = semas[I] /\ K = Len(S.ast) + 1 /\ LeadsTo(S, I, known)
  BY <1>1, ReadingFacts
<1>3. m \in {0} \cup known
  BY ListedFacts DEF OrderInv
<1>4. m # 0 => m \in known /\ m \in 1..Len(semas) /\ semas[m] \in Sema /\ LeadsTo(semas[m], m, known)
  BY <1>3, KnownFacts
<1>5. m \in Nat
  <2> HIDE DEF known
  <2> QED
    BY <1>3, <1>4
<1>6. n.kind = "import" /\ semas' = Imported(I, n, m)
  BY DEF ImportKnown, At
<1> HIDE DEF m, known
<1> QED
  BY <1>1, <1>2, <1>4, <1>5, <1>6, ImportAnnotates

LEMMA ImportFailsAnnotates ==
    ASSUME OrderInv, Annotated, NEW n \in Upcoming, ImportFails(n)
    PROVE  Annotated'
<1> DEFINE known == Known(Len(modules))
<1>1. /\ Reading /\ n \in Nodes
      /\ TextAt(n) \in Texts /\ Grown(text, TextAt(n)) /\ K <= Len(TextAt(n)[S.file].nodes)
      /\ TextAt(n)[S.file].nodes[K] = n
  BY TextFacts
<1>2. n.kind = "import" /\ n.path \in Paths /\ Fails(n.path, TextAt(n))
  BY <1>1, NodeFacts DEF ImportFails, At
<1>3. /\ text' \in Texts /\ Grown(text, text')
      /\ \A g \in Files : text'[g].nodes = TextAt(n)[g].nodes
  BY <1>1, <1>2, FailsText
<1>4. /\ I \in 1..Len(semas) /\ S = semas[I] /\ K = Len(S.ast) + 1 /\ LeadsTo(S, I, known)
      /\ S.file \in Files
  BY <1>1, ReadingFacts DEF Sema
<1>5. K <= Len(text'[S.file].nodes) /\ text'[S.file].nodes[K] = n
  BY <1>1, <1>3, <1>4
<1>6. semas' = Imported(I, n, 0)
  BY DEF ImportFails
<1> HIDE DEF known
<1> QED
  BY <1>1, <1>2, <1>3, <1>4, <1>5, <1>6, ImportAnnotates

LEMMA CloseInnerAnnotates ==
    ASSUME OrderInv, Annotated, Close, Len(frames) # 1
    PROVE  Annotated'
<1> DEFINE known == Known(Len(modules))'
<1>1. /\ Caller \in 1..Len(semas) /\ semas[Caller] \in Sema
      /\ Len(semas[Caller].ast) + 1 <= Len(text[semas[Caller].file].nodes)
      /\ Len(semas[Caller].ast) \in Nat
      /\ ImportDue \in Nodes /\ ImportDue.kind = "import"
      /\ semas' = Imported(Caller, ImportDue, Answer)
  BY CallerFacts
<1>2. /\ Answer \in Nat
      /\ Answer # 0 => /\ Answer \in known
                       /\ Answer \in 1..Len(semas) /\ semas[Answer] \in Sema
                       /\ LeadsTo(semas[Answer], Answer, known)
      /\ LeadsTo(semas[Caller], Caller, known)
  BY AnswerFacts
<1>3. text' \in Texts /\ Grown(text, text')
  BY CloseText
<1>4. /\ Len(semas[Caller].ast) + 1 <= Len(text'[semas[Caller].file].nodes)
      /\ text'[semas[Caller].file].nodes[Len(semas[Caller].ast) + 1] = ImportDue
  <2> DEFINE p == Len(semas[Caller].ast)
             old == text[semas[Caller].file].nodes
             now == text'[semas[Caller].file].nodes
  <2>1. text \in Texts /\ semas[Caller].file \in Files
    BY <1>1 DEF OrderInv, TypeOK, Sema
  <2>2. Len(old) \in Nat /\ Len(now) \in Nat
    BY <1>3, <2>1, LenProperties DEF Texts
  <2>3. Len(old) <= Len(now) /\ \A j \in 1..Len(old) : now[j] = old[j]
    BY <1>3, <2>1 DEF Grown
  <2>4. p \in Nat /\ p + 1 <= Len(old)
    BY <1>1
  <2>5. ImportDue = old[p + 1]
    BY DEF ImportDue
  <2> HIDE DEF p, old, now
  <2>6. p + 1 <= Len(now) /\ now[p + 1] = ImportDue
    BY <2>2, <2>3, <2>4, <2>5
  <2> QED
    BY <2>6 DEF p, now
<1> HIDE DEF known
<1> QED
  BY <1>1, <1>2, <1>3, <1>4, ImportAnnotates

(***************************************************************************)
(* The other steps of reading                                              *)
(***************************************************************************)
\* Files become known a bit further, and a module may be added, still empty.
LEMMA GrowthAnnotates ==
    ASSUME OrderInv, Annotated, Onward,
           \A j \in 1..Len(semas) : semas'[j] = semas[j],
           \A j \in 1..Len(semas') :
              \/ j \in 1..Len(semas)
              \/ /\ semas'[j].priv = {} /\ semas'[j].pub = {} /\ Len(semas'[j].ast) = 0
                 /\ Len(text'[semas'[j].file].nodes) \in Nat
    PROVE  Annotated'
<1>1. ASSUME NEW j \in 1..Len(semas)
      PROVE  /\ \A d \in semas'[j].priv \cup semas'[j].pub : Sound(d)'
             /\ Len(semas'[j].ast) <= Len(text'[semas'[j].file].nodes)
             /\ \A k \in 1..Len(semas'[j].ast) : ReadsFit(j, k)'
  <2>1. \A d \in semas[j].priv \cup semas[j].pub : Sound(d)
    BY DEF Annotated
  <2>2. \A d \in semas[j].priv \cup semas[j].pub : Sound(d)'
    BY <2>1, SoundKept
  <2>3. \A k \in 1..Len(semas[j].ast) : ReadsFit(j, k)'
    BY ReadsKept
  <2>4. Len(semas[j].ast) <= Len(text'[semas[j].file].nodes)
    <3>1. semas[j] \in Sema /\ text \in Texts
      BY ElementOfSeq DEF OrderInv, TypeOK
    <3>2. text' \in Texts /\ Grown(text, text')
      BY DEF Onward
    <3>3. Len(semas[j].ast) <= Len(text[semas[j].file].nodes)
      BY DEF Annotated
    <3> QED
      BY <3>1, <3>2, <3>3, WaitGrows
  <2> QED
    BY <2>2, <2>3, <2>4
<1>2. ASSUME NEW j \in 1..Len(semas'), j \notin 1..Len(semas)
      PROVE  /\ \A d \in semas'[j].priv \cup semas'[j].pub : Sound(d)'
             /\ Len(semas'[j].ast) <= Len(text'[semas'[j].file].nodes)
             /\ \A k \in 1..Len(semas'[j].ast) : ReadsFit(j, k)'
  BY <1>2
<1> QED
  BY <1>1, <1>2 DEF Annotated

LEMMA SameAnnotates ==
    ASSUME OrderInv, Annotated, UNCHANGED semas, text' \in Texts, Grown(text, text')
    PROVE  Annotated'
<1>1. semas \in Seq(Sema) /\ Len(semas) \in Nat
  BY LenProperties DEF OrderInv, TypeOK
<1>2. \A j \in 1..Len(semas) : Len(semas[j].ast) \in Nat
  BY AstLengths
<1>3. Onward
  BY <1>1, <1>2 DEF Onward
<1> QED
  BY <1>3, GrowthAnnotates

LEMMA EnterAnnotates ==
    ASSUME OrderInv, Annotated, NEW path \in Paths, Finds[<<cwd, path>>] # NoFile,
           text' \in Texts, Grown(text, text'), Enter(path)
    PROVE  Annotated'
<1> DEFINE L == Len(semas)
           new == NewSema(path)
<1>1. new \in Sema /\ Len(new.ast) = 0
  BY NewSemaFacts
<1>2. new.priv = {} /\ new.pub = {}
  BY DEF NewSema
<1>3. semas \in Seq(Sema) /\ L \in Nat /\ semas' = Append(semas, new)
  BY LenProperties DEF OrderInv, TypeOK, Enter
<1>4. Len(text'[new.file].nodes) \in Nat
  <2>1. text'[new.file].nodes \in Seq(Nodes)
    BY <1>1 DEF Texts, Sema
  <2> QED
    BY <2>1, LenProperties
<1> HIDE DEF new
<1>5. /\ semas' \in Seq(Sema) /\ Len(semas') = L + 1 /\ semas'[L + 1] = new
      /\ \A j \in 1..L : semas'[j] = semas[j]
  BY <1>1, <1>3, AppendFacts
<1>6. \A j \in 1..Len(semas) : Len(semas[j].ast) \in Nat
  BY AstLengths
<1>7. Onward
  BY <1>3, <1>5, <1>6 DEF Onward
<1>8. \A j \in 1..Len(semas') : j \in 1..L \/ j = L + 1
  BY <1>3, <1>5
<1> QED
  BY <1>1, <1>2, <1>4, <1>5, <1>7, <1>8, GrowthAnnotates

LEMMA OpensAnnotates ==
    ASSUME OrderInv, Annotated, NEW path \in Paths, NEW files \in Texts, Grown(text, files),
           Opens(path, files)
    PROVE  Annotated'
<1>1. /\ Finds[<<cwd, path>>] # NoFile
      /\ Enter(path) \/ UNCHANGED semas
  BY DEF Opens
<1>2. text' \in Texts /\ Grown(text, text')
  BY OpensText
<1> QED
  BY <1>1, <1>2, EnterAnnotates, SameAnnotates

LEMMA ReadingAnnotates ==
    ASSUME OrderInv, Annotated, NEW n \in Upcoming,
           \/ ImportOpens(n) \/ ImportKnown(n) \/ ImportFails(n)
           \/ ReadPlain(n) \/ ReadVal(n)
           \/ ReadFromAll(n) \/ ReadFromItem(n) \/ ReadUse(n)
           \/ ReadBad(n)
    PROVE  Annotated'
<1>1. CASE ImportOpens(n)
  <2>1. n.path \in Paths /\ Opens(n.path, TextAt(n))
    BY <1>1, TextFacts, NodeFacts DEF ImportOpens, At
  <2> QED
    BY <2>1, TextFacts, OpensAnnotates
<1>2. CASE ReadBad(n)
  BY <1>2, RefuseAnnotates DEF ReadBad
<1> QED
  BY <1>1, <1>2, ImportKnownAnnotates, ImportFailsAnnotates, ReadPlainAnnotates,
     ReadValAnnotates, ReadFromAllAnnotates, ReadFromItemAnnotates, ReadUseAnnotates

LEMMA StartAnnotates ==
    ASSUME OrderInv, Annotated, Start
    PROVE  Annotated'
<1>1. text \in Texts /\ Grown(text, text) /\ MainPath \in Paths
  BY GrownItself, FileSystemAssumption DEF OrderInv
<1>2. CASE Opens(MainPath, text)
  BY <1>1, <1>2, OpensAnnotates
<1>3. CASE Fails(MainPath, text) /\ UNCHANGED semas
  BY <1>1, <1>3, FailsText, SameAnnotates
<1> QED
  BY <1>2, <1>3 DEF Start

LEMMA CloseAnnotates ==
    ASSUME OrderInv, Annotated, Close
    PROVE  Annotated'
<1>1. CASE Len(frames) = 1
  <2>1. UNCHANGED semas
    BY <1>1 DEF Close
  <2> QED
    BY <2>1, CloseText, SameAnnotates
<1> QED
  BY <1>1, CloseInnerAnnotates

(***************************************************************************)
(* Analysis                                                                *)
(***************************************************************************)
LEMMA AnalyseAnnotates ==
    ASSUME OrderInv, Annotated, Analyse
    PROVE  Annotated'
<1> DEFINE k == at.node
           known == Known(at.module - 1)
<1>1. text' = text /\ text' \in Texts /\ Grown(text, text')
  BY GrownItself DEF OrderInv, Analyse, Fixed
<1>2. CASE semas' = semas
  BY <1>1, <1>2, SameAnnotates
<1>3. CASE \E t : Analysed(t) /\ semas' = [semas EXCEPT ![M] = t]
  <2>1. /\ at.module \in 1..Len(modules) /\ M = modules[at.module]
        /\ M \in 1..Len(semas) /\ k \in 1..Len(semas[M].ast)
    BY DueFacts DEF Analyse, InLoop
  <2>2. PICK t : Analysed(t) /\ semas' = [semas EXCEPT ![M] = t]
    BY <1>3
  <2>3. /\ t \in Sema /\ t.file = semas[M].file
        /\ t.priv = semas[M].priv /\ t.pub = semas[M].pub
        /\ Len(t.ast) = Len(semas[M].ast)
        /\ \A j \in 1..Len(semas[M].ast) :
              \/ t.ast[j].reads = semas[M].ast[j].reads
              \/ /\ j = k /\ DueNode.kind = "func"
                 /\ t.ast[j].reads = Resolve(semas[M], DueNode.ref)
                 /\ t.ast[j].reads.value \notin {"none", "module"}
    BY <2>2 DEF Analysed
  <2>4. semas \in Seq(Sema) /\ Len(semas) \in Nat
    BY LenProperties DEF OrderInv, TypeOK
  <2>5. /\ semas' \in Seq(Sema) /\ Len(semas') = Len(semas) /\ semas'[M] = t
        /\ \A j \in 1..Len(semas) : j # M => semas'[j] = semas[j]
    BY <2>1, <2>2, <2>3, <2>4, ExceptSeq
  <2>6. \A j \in 1..Len(semas) :
           /\ semas'[j].file = semas[j].file /\ Len(semas'[j].ast) = Len(semas[j].ast)
           /\ semas'[j].priv = semas[j].priv /\ semas'[j].pub = semas[j].pub
    BY <2>3, <2>5
  <2>7. Onward
    BY <1>1, <2>4, <2>5, <2>6, AstLengths DEF Onward
  <2>8. ASSUME NEW j \in 1..Len(semas)
        PROVE  /\ \A d \in semas'[j].priv \cup semas'[j].pub : Sound(d)'
               /\ Len(semas'[j].ast) <= Len(text'[semas'[j].file].nodes)
    <3>1. \A d \in semas[j].priv \cup semas[j].pub : Sound(d)'
      BY <2>7, SoundKept DEF Annotated
    <3> QED
      BY <1>1, <2>6, <3>1 DEF Annotated
  <2>9. ASSUME NEW j \in 1..Len(semas), NEW i \in 1..Len(semas[j].ast)
        PROVE  ReadsFit(j, i)'
    <3>1. CASE semas'[j].ast[i].reads = semas[j].ast[i].reads
      BY <2>7, <3>1, ReadsKept
    <3>2. CASE semas'[j].ast[i].reads # semas[j].ast[i].reads
      <4>1. j = M /\ i = k /\ DueNode.kind = "func"
        BY <2>3, <2>5, <3>2
      <4>2. PICK d : d = Resolve(semas[M], DueNode.ref)
        OBVIOUS
      <4>3. semas'[j].ast[i].reads = d /\ d.value \notin {"none", "module"}
        BY <2>3, <2>5, <3>2, <4>1, <4>2
      <4>4. d = NoDecl \/ Sound(d)
        <5>1. LeadsTo(semas[M], M, known)
          BY <2>1 DEF OrderInv, LeadsBack
        <5>2. \A m \in known : m \in 1..Len(semas)
          <6>1. \A q \in 1..at.module - 1 : q \in 1..Len(modules)
            <7>1. Len(modules) \in Nat
              BY LenProperties DEF OrderInv, TypeOK
            <7> QED
              BY <2>1, <7>1
          <6>2. \A m \in known : m \in Known(Len(modules))
            BY <6>1 DEF Known
          <6> QED
            BY <6>2, KnownFacts
        <5> HIDE DEF known
        <5> QED
          BY <2>1, <4>2, <5>1, <5>2, PathSound
      <4>5. Sound(d)
        BY <4>3, <4>4 DEF NoDecl
      <4>6. Sound(d)'
        BY <2>7, <4>5, SoundKept
      <4>7. d.value \in {"constant", "final", "var"}
        BY <4>3, <4>5 DEF Sound
      <4>8. text'[semas'[j].file].nodes[i].kind = "func"
        BY <1>1, <2>6, <4>1 DEF DueNode
      <4> QED
        BY <4>3, <4>6, <4>7, <4>8 DEF ReadsFit
    <3> QED
      BY <3>1, <3>2
  <2> QED
    BY <2>5, <2>6, <2>8, <2>9 DEF Annotated
<1> QED
  BY <1>2, <1>3, AnalyseFacts

LEMMA NextAnnotated ==
    ASSUME OrderInv, Annotated, [Next]_vars
    PROVE  Annotated'
<1>1. CASE UNCHANGED <<text, semas>>
  <2>1. text' \in Texts /\ Grown(text, text')
    BY <1>1, GrownItself DEF OrderInv
  <2> QED
    BY <1>1, <2>1, SameAnnotates
<1>2. NextModule \/ EndLoop \/ InitNode \/ EmitNode \/ UNCHANGED vars => UNCHANGED <<text, semas>>
  BY DEF NextModule, EndLoop, InitNode, EmitNode, vars, Fixed
<1>3. ASSUME NEW n \in Upcoming,
             \/ ImportOpens(n) \/ ImportKnown(n) \/ ImportFails(n)
             \/ ReadPlain(n) \/ ReadVal(n)
             \/ ReadFromAll(n) \/ ReadFromItem(n) \/ ReadUse(n)
             \/ ReadBad(n)
      PROVE  Annotated'
  BY <1>3, ReadingAnnotates
<1> QED
  BY <1>1, <1>2, <1>3, StartAnnotates, CloseAnnotates, AnalyseAnnotates DEF Next

(***************************************************************************)
(* The passes                                                              *)
(***************************************************************************)
\* Before the first pass, nothing is due to be set.
LEMMA NothingDue == stage \notin {"init", "emit", "done"} => SetSoFar
BY DEF SetSoFar

\* Up to the end of the analysis no LLVM value is read.
LEMMA ReadingReadsNone ==
    ASSUME PassInv, stage \notin {"init", "emit", "done"},
           stage' \notin {"init", "emit", "done"}, UNCHANGED unset, Annotated'
    PROVE  PassInv'
<1>1. unset' = {}
  BY DEF PassInv
<1>2. UnsetOnlyFinals'
  BY <1>1 DEF UnsetOnlyFinals
<1>3. SetSoFar'
  BY NothingDue DEF SetSoFar
<1> QED
  BY <1>1, <1>2, <1>3 DEF PassInv

\* What the passes do not touch.
LEMMA UnsetKept ==
    ASSUME UnsetOnlyFinals, UNCHANGED <<text, semas>>,
           \A r \in unset' :
              \/ r \in unset
              \/ LET n == text[semas[r.decl.of].file].nodes[r.decl.node]
                 IN  \/ n.kind = "bare"
                     \/ n.kind = "final" /\ r.by.kind = "const"
                     \/ n.kind = "final" /\ r.by.kind = "func" /\ r.by.of = r.decl.of
                        /\ r.by.node < r.decl.node
    PROVE  UnsetOnlyFinals'
BY DEF UnsetOnlyFinals

\* The numbers that the loops go by.
LEMMA PassNumbers ==
    ASSUME OrderInv
    PROVE  /\ at \in [module : Nat \ {0}, node : Nat \ {0}]
           /\ Len(modules) \in Nat
           /\ \A i \in 1..Len(modules) : /\ modules[i] \in 1..Len(semas)
                                         /\ Len(semas[modules[i]].ast) \in Nat
<1>1. modules \in Seq(1..Len(semas)) /\ at \in [module : Nat \ {0}, node : Nat \ {0}]
  BY DEF OrderInv, TypeOK
<1>2. Len(modules) \in Nat /\ \A i \in 1..Len(modules) : modules[i] \in 1..Len(semas)
  BY <1>1, LenProperties, ElementOfSeq
<1> QED
  BY <1>1, <1>2, AstLengths

\* The turns do not begin again when a loop goes on.
LEMMA NextModulePasses ==
    ASSUME OrderInv, PassInv, NextModule, Annotated'
    PROVE  PassInv'
<1>1. /\ stage' = stage /\ UNCHANGED <<text, semas, modules, set, unset>>
      /\ at.node > Len(semas[M].ast) /\ at.module <= Len(modules)
      /\ at' = [module |-> at.module + 1, node |-> 1]
  BY DEF NextModule, Fixed
<1>2. ASSUME NEW i \in 1..Len(modules), NEW k \in 1..Len(semas[modules[i]].ast), Passed(i, k)'
      PROVE  Passed(i, k)
  <2>1. i \in Nat /\ k \in Nat \ {0} /\ at.module \in Nat /\ at.node \in Nat
    BY PassNumbers
  <2>2. i <= at.module
    BY <1>1, <1>2, <2>1 DEF Passed
  <2>3. CASE i = at.module
    <3>1. k < at.node
      BY <1>1, <2>1, <2>3, PassNumbers DEF M
    <3> QED
      BY <2>1, <2>3, <3>1 DEF Passed
  <2>4. CASE i # at.module
    BY <2>1, <2>2, <2>4 DEF Passed
  <2> QED
    BY <2>3, <2>4
<1>3. SetSoFar'
  BY <1>1, <1>2 DEF PassInv, SetSoFar
<1>4. UnsetOnlyFinals'
  BY <1>1, UnsetKept DEF PassInv
<1> QED
  BY <1>1, <1>3, <1>4 DEF PassInv

\* A loop that ends has given each declaration its turn.
LEMMA EndLoopPasses ==
    ASSUME OrderInv, PassInv, EndLoop, Annotated'
    PROVE  PassInv'
<1>1. /\ UNCHANGED <<text, semas, modules, set, unset>>
      /\ at.module > Len(modules)
      /\ at' = [module |-> 1, node |-> 1]
      /\ \/ stage = "analyse" /\ stage' \in {"init", "exit"}
         \/ stage = "init" /\ stage' = "emit"
         \/ stage = "emit" /\ stage' = "done"
  BY DEF EndLoop, Fixed
<1>2. \A i \in 1..Len(modules) : \A k \in 1..Len(semas[modules[i]].ast) :
         Passed(i, k) /\ ~Passed(i, k)'
  BY <1>1, PassNumbers DEF Passed
<1>3. SetSoFar'
  <2> SUFFICES ASSUME NEW i \in 1..Len(modules), NEW k \in 1..Len(semas[modules[i]].ast),
                      <<modules[i], k>> \notin set
               PROVE  LET kind == text[semas[modules[i]].file].nodes[k].kind
                      IN  /\ kind \in InitSets => stage' \notin {"emit", "done"}
                                                  /\ ~(stage' = "init" /\ Passed(i, k)')
                          /\ kind = "final" => ~(stage' = "emit" /\ Passed(i, k)')
    BY <1>1 DEF SetSoFar
  <2> DEFINE kind == text[semas[modules[i]].file].nodes[k].kind
  <2>1. kind \in InitSets => stage \notin {"emit", "done"} /\ ~(stage = "init" /\ Passed(i, k))
    BY DEF PassInv, SetSoFar
  <2> QED
    BY <1>1, <1>2, <2>1
<1>4. UnsetOnlyFinals'
  BY <1>1, UnsetKept DEF PassInv
<1> QED
  BY <1>1, <1>3, <1>4 DEF PassInv

\* A declaration that is due, and the one whose LLVM value it reads: of its own
\* module, or of one that has had its turn.
LEMMA DueReads ==
    ASSUME OrderInv, PassInv, at.module <= Len(modules), at.node <= Len(semas[M].ast),
           NEW d, d = Due.reads, d.value \notin {"none", "constant"}
    PROVE  /\ Sound(d) /\ d.node \in Nat
           /\ \E q \in 1..Len(modules) :
                 /\ d.of = modules[q] /\ d.node \in 1..Len(semas[modules[q]].ast)
                 /\ q < at.module \/ (q = at.module /\ d.of = M)
           /\ \/ DueNode.kind \in Vals /\ d.value = "final" /\ (d.of = M => d.node < at.node)
              \/ DueNode.kind = "func" /\ d.value \in {"final", "var"}
<1>1. /\ at.module \in 1..Len(modules) /\ M = modules[at.module]
      /\ M \in 1..Len(semas) /\ at.node \in 1..Len(semas[M].ast)
      /\ d = semas[M].ast[at.node].reads
  BY DueFacts
<1>2. ReadsFit(M, at.node) /\ d # NoDecl
  BY <1>1 DEF PassInv, Annotated, NoDecl
<1>3. /\ Sound(d)
      /\ \/ DueNode.kind \in Vals /\ d.value = "final" /\ (d.of = M => d.node < at.node)
         \/ DueNode.kind = "func" /\ d.value \in {"final", "var"}
  BY <1>1, <1>2 DEF ReadsFit, DueNode
<1>4. d.of \in 1..Len(semas) /\ d.node \in 1..Len(semas[d.of].ast)
  BY <1>3 DEF Sound
<1>5. d.of \in {0, M} \cup Known(at.module - 1)
  BY <1>1 DEF OrderInv, LeadsBack, LeadsTo
<1>6. Len(modules) \in Nat /\ Len(semas[d.of].ast) \in Nat /\ Len(semas) \in Nat
  BY <1>4, PassNumbers, AstLengths, LenProperties DEF OrderInv, TypeOK
<1>7. \E q \in 1..Len(modules) : d.of = modules[q] /\ (q < at.module \/ (q = at.module /\ d.of = M))
  <2>1. CASE d.of = M
    BY <1>1, <2>1
  <2>2. CASE d.of \in Known(at.module - 1)
    <3>1. PICK q \in 1..at.module - 1 : d.of = modules[q]
      BY <2>2 DEF Known
    <3>2. q \in 1..Len(modules) /\ q < at.module
      <4> DEFINE p == at.module
      <4>1. p \in 1..Len(modules) /\ Len(modules) \in Nat /\ q \in 1..p - 1
        BY <1>1, <1>6
      <4> HIDE DEF p
      <4>2. q \in 1..Len(modules) /\ q < p
        BY <4>1
      <4> QED
        BY <4>2 DEF p
    <3> QED
      BY <3>1, <3>2
  <2>3. d.of # 0
    BY <1>4, <1>6
  <2> QED
    BY <1>5, <2>1, <2>2, <2>3
<1> QED
  BY <1>3, <1>4, <1>6, <1>7

\* What a pass adds to the unset values comes from the declaration that is due.
LEMMA ReadsAdd ==
    ASSUME Reads, NEW r \in unset', r \notin unset
    PROVE  /\ Due.reads.value \notin {"none", "constant"} /\ Id(Due.reads) \notin set
           /\ r.decl = Due.reads
           /\ r.by.kind = DueNode.kind /\ r.by.of = M /\ r.by.node = at.node
BY DEF Reads

\* In a pass, the declaration that is due has its turn and no other.
LEMMA NodePasses ==
    ASSUME OrderInv, NextNode, at.module <= Len(modules), at.node <= Len(semas[M].ast),
           NEW i \in 1..Len(modules), NEW k \in 1..Len(semas[modules[i]].ast), Passed(i, k)'
    PROVE  Passed(i, k) \/ (modules[i] = M /\ k = at.node)
<1>1. at' = [at EXCEPT !.node = @ + 1]
  BY DEF NextNode
<1>2. /\ i \in Nat /\ k \in Nat /\ at.module \in Nat /\ at.node \in Nat
      /\ at'.module = at.module /\ at'.node = at.node + 1
  BY <1>1, PassNumbers
<1> QED
  BY <1>2 DEF Passed, M

\* llvm_module_init, for a declaration.
LEMMA InitNodePasses ==
    ASSUME OrderInv, PassInv, InitNode, Annotated'
    PROVE  PassInv'
<1>1. /\ stage = "init" /\ stage' = "init" /\ UNCHANGED <<text, semas, modules>>
      /\ at.module <= Len(modules) /\ at.node <= Len(semas[M].ast) /\ NextNode
      /\ IF DueNode.kind \in InitSets THEN Sets ELSE UNCHANGED set
      /\ IF DueNode.kind = "const" THEN Reads ELSE UNCHANGED unset
  BY DEF InitNode, InLoop, Fixed
<1>2. set \subseteq set' /\ (DueNode.kind \in InitSets => <<M, at.node>> \in set')
  BY <1>1 DEF Sets
<1>3. SetSoFar'
  <2> SUFFICES ASSUME NEW i \in 1..Len(modules), NEW k \in 1..Len(semas[modules[i]].ast),
                      <<modules[i], k>> \notin set', Passed(i, k)'
               PROVE  text[semas[modules[i]].file].nodes[k].kind \notin InitSets
    BY <1>1 DEF SetSoFar
  <2>1. CASE Passed(i, k)
    BY <1>1, <1>2, <2>1 DEF PassInv, SetSoFar
  <2>2. CASE modules[i] = M /\ k = at.node
    BY <1>2, <2>2 DEF DueNode
  <2> QED
    BY <1>1, <2>1, <2>2, NodePasses
<1>4. UnsetOnlyFinals'
  <2>1. ASSUME NEW r \in unset', r \notin unset
        PROVE  LET n == text[semas[r.decl.of].file].nodes[r.decl.node]
               IN  n.kind = "bare" \/ (n.kind = "final" /\ r.by.kind = "const")
    <3>1. DueNode.kind = "const" /\ Reads
      BY <1>1, <2>1
    <3>2. PICK d : d = Due.reads
      OBVIOUS
    <3>3. /\ d.value \notin {"none", "constant"} /\ <<d.of, d.node>> \notin set
          /\ r.decl = d /\ r.by.kind = "const"
      BY <2>1, <3>1, <3>2, ReadsAdd DEF Id
    <3>4. /\ Sound(d) /\ d.node \in Nat
          /\ \E q \in 1..Len(modules) :
                /\ d.of = modules[q] /\ d.node \in 1..Len(semas[modules[q]].ast)
                /\ q < at.module \/ (q = at.module /\ d.of = M)
          /\ d.value = "final" /\ (d.of = M => d.node < at.node)
      BY <1>1, <3>1, <3>2, <3>3, DueReads
    <3>5. PICK q \in 1..Len(modules) :
             /\ d.of = modules[q] /\ d.node \in 1..Len(semas[modules[q]].ast)
             /\ q < at.module \/ (q = at.module /\ d.of = M)
      BY <3>4
    <3>6. Passed(q, d.node)
      BY <3>4, <3>5, PassNumbers DEF Passed
    <3>7. text[semas[d.of].file].nodes[d.node].kind \notin InitSets
      BY <1>1, <3>3, <3>5, <3>6 DEF PassInv, SetSoFar
    <3>8. text[semas[d.of].file].nodes[d.node].kind \in {"bare", "final"}
      BY <3>4, <3>7 DEF Sound, InitSets
    <3> QED
      BY <3>3, <3>8
  <2> QED
    BY <1>1, <2>1, UnsetKept DEF PassInv
<1> QED
  BY <1>1, <1>3, <1>4 DEF PassInv

\* The second pass, for a declaration.
LEMMA EmitNodePasses ==
    ASSUME OrderInv, PassInv, EmitNode, Annotated'
    PROVE  PassInv'
<1>1. /\ stage = "emit" /\ stage' = "emit" /\ UNCHANGED <<text, semas, modules>>
      /\ at.module <= Len(modules) /\ at.node <= Len(semas[M].ast) /\ NextNode
      /\ IF DueNode.kind \in {"func", "final"} THEN Sets ELSE UNCHANGED set
      /\ IF DueNode.kind \in {"func", "final", "var"} THEN Reads ELSE UNCHANGED unset
  BY DEF EmitNode, InLoop, Fixed
<1>2. set \subseteq set' /\ (DueNode.kind = "final" => <<M, at.node>> \in set')
  BY <1>1 DEF Sets
<1>3. SetSoFar'
  <2> SUFFICES ASSUME NEW i \in 1..Len(modules), NEW k \in 1..Len(semas[modules[i]].ast),
                      <<modules[i], k>> \notin set'
               PROVE  LET kind == text[semas[modules[i]].file].nodes[k].kind
                      IN  kind \notin InitSets /\ (kind = "final" => ~Passed(i, k)')
    BY <1>1 DEF SetSoFar
  <2> DEFINE kind == text[semas[modules[i]].file].nodes[k].kind
  <2>1. kind \notin InitSets /\ (kind = "final" => ~Passed(i, k))
    BY <1>1, <1>2 DEF PassInv, SetSoFar
  <2>2. ASSUME kind = "final", Passed(i, k)'
        PROVE  FALSE
    <3>1. modules[i] = M /\ k = at.node
      BY <1>1, <2>1, <2>2, NodePasses
    <3> QED
      BY <1>2, <2>2, <3>1 DEF DueNode
  <2> QED
    BY <2>1, <2>2
<1>4. UnsetOnlyFinals'
  <2>1. ASSUME NEW r \in unset', r \notin unset
        PROVE  LET n == text[semas[r.decl.of].file].nodes[r.decl.node]
               IN  \/ n.kind = "bare"
                   \/ n.kind = "final" /\ r.by.kind = "func" /\ r.by.of = r.decl.of
                      /\ r.by.node < r.decl.node
    <3>1. DueNode.kind \in {"func", "final", "var"} /\ Reads
      BY <1>1, <2>1
    <3>2. PICK d : d = Due.reads
      OBVIOUS
    <3>3. /\ d.value \notin {"none", "constant"} /\ <<d.of, d.node>> \notin set
          /\ r.decl = d /\ r.by.kind = DueNode.kind /\ r.by.of = M /\ r.by.node = at.node
      BY <2>1, <3>1, <3>2, ReadsAdd DEF Id
    <3>4. /\ Sound(d) /\ d.node \in Nat
          /\ \E q \in 1..Len(modules) :
                /\ d.of = modules[q] /\ d.node \in 1..Len(semas[modules[q]].ast)
                /\ q < at.module \/ (q = at.module /\ d.of = M)
          /\ DueNode.kind = "func" \/ (d.of = M => d.node < at.node)
          /\ d.value \in {"final", "var"}
      BY <1>1, <3>2, <3>3, DueReads
    <3>5. PICK q \in 1..Len(modules) :
             /\ d.of = modules[q] /\ d.node \in 1..Len(semas[modules[q]].ast)
             /\ q < at.module \/ (q = at.module /\ d.of = M)
      BY <3>4
    <3> DEFINE kind == text[semas[d.of].file].nodes[d.node].kind
    <3>6. kind \notin InitSets /\ (kind = "final" => ~Passed(q, d.node))
      BY <1>1, <3>3, <3>5 DEF PassInv, SetSoFar
    <3>7. kind \in {"bare", "final"}
      BY <3>4, <3>6 DEF Sound, InitSets
    <3>8. ASSUME kind = "final"
          PROVE  DueNode.kind = "func" /\ d.of = M /\ at.node < d.node
      <4>1. ~Passed(q, d.node) /\ q \in Nat /\ at.module \in Nat /\ at.node \in Nat /\ d.node \in Nat
        BY <3>4, <3>6, <3>8, PassNumbers
      <4>2. q = at.module /\ d.of = M /\ ~(d.node < at.node)
        BY <3>5, <4>1 DEF Passed
      <4>3. DueNode.kind = "func"
        BY <3>4, <4>2
      <4>4. d.node # at.node
        BY <3>8, <4>2, <4>3 DEF DueNode
      <4> QED
        BY <4>1, <4>2, <4>3, <4>4
    <3> HIDE DEF kind
    <3>9. kind = "bare" \/ (kind = "final" /\ DueNode.kind = "func" /\ d.of = M /\ at.node < d.node)
      BY <3>7, <3>8
    <3> QED
      BY <3>3, <3>9 DEF kind
  <2> QED
    BY <1>1, <2>1, UnsetKept DEF PassInv
<1> QED
  BY <1>1, <1>3, <1>4 DEF PassInv

(***************************************************************************)
(* The invariant and what follows from it                                  *)
(***************************************************************************)
LEMMA InitPassInv == Init => PassInv
<1> SUFFICES ASSUME Init PROVE PassInv
  OBVIOUS
<1>1. Len(semas) = 0 /\ unset = {} /\ stage = "read"
  BY DEF Init
<1>2. Annotated
  BY <1>1 DEF Annotated
<1>3. SetSoFar
  BY <1>1, NothingDue
<1>4. UnsetOnlyFinals
  BY <1>1 DEF UnsetOnlyFinals
<1> QED
  BY <1>1, <1>2, <1>3, <1>4 DEF PassInv

\* Where the compiler is before and after it has read or analysed something.
LEMMA EarlyStages ==
    ASSUME \/ Start \/ Close \/ Analyse
           \/ \E n \in Upcoming :
                 \/ ImportOpens(n) \/ ImportKnown(n) \/ ImportFails(n)
                 \/ ReadPlain(n) \/ ReadVal(n)
                 \/ ReadFromAll(n) \/ ReadFromItem(n) \/ ReadUse(n)
                 \/ ReadBad(n)
    PROVE  /\ stage \notin {"init", "emit", "done"} /\ stage' \notin {"init", "emit", "done"}
           /\ UNCHANGED unset
<1>1. CASE Start
  BY <1>1 DEF Start, Opens, Enter, Later
<1>2. CASE Close
  BY <1>2 DEF Close, Reading, Later
<1>3. CASE Analyse
  BY <1>3 DEF Analyse, InLoop
<1>4. ASSUME NEW n \in Upcoming,
             \/ ImportOpens(n) \/ ImportKnown(n) \/ ImportFails(n)
             \/ ReadPlain(n) \/ ReadVal(n)
             \/ ReadFromAll(n) \/ ReadFromItem(n) \/ ReadUse(n)
             \/ ReadBad(n)
      PROVE  /\ stage = "read" /\ stage' \in {"read", "overflow"}
             /\ UNCHANGED unset
  <2>1. stage = "read"
    BY <1>4 DEF Upcoming, Reading
  <2>2. CASE ImportOpens(n)
    BY <2>1, <2>2 DEF ImportOpens, Opens, Later
  <2>3. CASE ImportKnown(n) \/ ImportFails(n)
    BY <2>1, <2>3 DEF ImportKnown, ImportFails, Later
  <2>4. CASE ReadPlain(n) \/ ReadVal(n) \/ ReadFromAll(n) \/ ReadFromItem(n) \/ ReadUse(n) \/ ReadBad(n)
    <3>1. \A s, decl, reads : Take(n, s, decl, reads) => stage' = stage /\ UNCHANGED unset
      BY DEF Take, Later
    <3> QED
      BY <2>1, <2>4, <3>1 DEF ReadPlain, ReadVal, ReadFromAll, ReadFromItem, ReadUse, ReadBad, Refuse
  <2> QED
    BY <1>4, <2>1, <2>2, <2>3, <2>4
<1> QED
  BY <1>1, <1>2, <1>3, <1>4

LEMMA NextPassInv ==
    ASSUME OrderInv, PassInv, [Next]_vars
    PROVE  PassInv'
<1>1. Annotated'
  BY NextAnnotated DEF PassInv
<1>2. CASE \/ Start \/ Close \/ Analyse
           \/ \E n \in Upcoming :
                 \/ ImportOpens(n) \/ ImportKnown(n) \/ ImportFails(n)
                 \/ ReadPlain(n) \/ ReadVal(n)
                 \/ ReadFromAll(n) \/ ReadFromItem(n) \/ ReadUse(n)
                 \/ ReadBad(n)
  BY <1>1, <1>2, EarlyStages, ReadingReadsNone
<1>3. CASE NextModule
  BY <1>1, <1>3, NextModulePasses
<1>4. CASE EndLoop
  BY <1>1, <1>4, EndLoopPasses
<1>5. CASE InitNode
  BY <1>1, <1>5, InitNodePasses
<1>6. CASE EmitNode
  BY <1>1, <1>6, EmitNodePasses
<1>7. CASE UNCHANGED vars
  <2>1. UNCHANGED <<text, semas, modules, stage, at, set, unset>>
    BY <1>7 DEF vars
  <2>2. \A i, k : Passed(i, k)' = Passed(i, k)
    BY <2>1 DEF Passed
  <2>3. SetSoFar'
    BY <2>1, <2>2 DEF PassInv, SetSoFar
  <2>4. UnsetOnlyFinals'
    BY <2>1, UnsetKept DEF PassInv
  <2> QED
    BY <1>1, <2>1, <2>3, <2>4 DEF PassInv
<1> QED
  BY <1>2, <1>3, <1>4, <1>5, <1>6, <1>7 DEF Next

\* Reading, analysis and the two passes keep this, for any files and links: each
\* entry of a table and each annotation is of a declaration that has been read,
\* and is of its kind, and the passes have set what has had its turn.
THEOREM PassesAreKept == Spec => []PassInv
<1>1. Init => PassInv
  BY InitPassInv
<1>2. OrderInv /\ PassInv /\ [Next]_vars => PassInv'
  BY NextPassInv
<1> QED
  BY <1>1, <1>2, OrderIsKept, PTL DEF Spec

\* The declarations whose LLVM value is read before llvm_emit_project has set
\* it are finals, in the three ways the property names: functions, extension
\* functions, variables and constants are always there when another
\* declaration, of their module or of another, needs them.
THEOREM OnlyFinalsUnset == Spec => []UnsetOnlyFinals
<1>1. PassInv => UnsetOnlyFinals
  BY DEF PassInv
<1> QED
  BY <1>1, PassesAreKept, PTL

(***************************************************************************)
(* Files that are opened                                                   *)
(***************************************************************************)
Parsed == {"open", "whole"}

\* Descriptors that are used up stay so.
StaysExhausted == Exhausted => Exhausted'

\* A file that parses does so for good.
StaysParsed == \A f \in Files : text[f].state \in Parsed => text'[f].state \in Parsed

LEMMA TextAtStates ==
    ASSUME OrderInv, NEW n \in Upcoming
    PROVE  \A f \in Files : TextAt(n)[f].state = text[f].state
<1>1. Reading /\ text \in Texts
  BY TextFacts DEF OrderInv, TypeOK
<1>2. S.file \in Files
  BY <1>1, ReadingFacts DEF Sema
<1> QED
  BY <1>1, <1>2 DEF TextAt, Texts

LEMMA OpensStates ==
    ASSUME OrderInv, NEW path \in Paths, NEW files \in Texts,
           \A f \in Files : files[f].state = text[f].state,
           Opens(path, files)
    PROVE  StaysParsed /\ text'[Finds[<<cwd, path>>]].state \in Parsed
<1> DEFINE file == Finds[<<cwd, path>>]
           st == IF files[file].state = "unread" THEN "open" ELSE files[file].state
<1>1. file # NoFile /\ text' = [files EXCEPT ![file].state = st] /\ files[file].state # "broken"
  BY DEF Opens
<1>2. file \in Files
  BY <1>1, FileSystemAssumption DEF OrderInv, TypeOK
<1>3. st \in Parsed
  BY <1>1, <1>2 DEF Parsed, Texts
<1> HIDE DEF file, st
<1>4. text'[file].state = st /\ \A f \in Files : f # file => text'[f] = files[f]
  BY <1>1, <1>2 DEF Texts
<1> QED
  BY <1>3, <1>4 DEF StaysParsed, file

LEMMA FailsStates ==
    ASSUME OrderInv, NEW path \in Paths, NEW files \in Texts,
           \A f \in Files : files[f].state = text[f].state,
           Fails(path, files)
    PROVE  /\ StaysParsed
           /\ ~Exhausted =>
                 \A f \in Files : f = Finds[<<cwd, path>>] => text[f].state \notin Parsed
<1> DEFINE file == Finds[<<cwd, path>>]
<1>1. file \in Files \cup {NoFile}
  BY FileSystemAssumption DEF OrderInv, TypeOK
<1>2. CASE text' = files /\ (file = NoFile \/ Exhausted)
  BY <1>2, FileSystemAssumption DEF StaysParsed
<1>3. CASE file # NoFile /\ ~(text' = files /\ (file = NoFile \/ Exhausted))
  <2>1. text' = [files EXCEPT ![file].state = "broken"] /\ files[file].state \in {"broken", "unread"}
    BY <1>3 DEF Fails
  <2> HIDE DEF file
  <2>2. \A f \in Files : f # file => text'[f] = files[f]
    BY <1>1, <1>3, <2>1 DEF Texts
  <2>3. text[file].state \notin Parsed
    BY <1>1, <1>3, <2>1 DEF Parsed
  <2> QED
    BY <2>2, <2>3 DEF StaysParsed, file
<1>4. file = NoFile => text' = files
  BY DEF Fails
<1> QED
  BY <1>2, <1>3, <1>4

LEMMA CloseStates == ASSUME OrderInv, Close PROVE StaysParsed
<1> DEFINE file == S.file
<1>1. text \in Texts /\ file \in Files /\ text' = [text EXCEPT ![file].state = "whole"]
  BY ReadingFacts DEF Close, Sema, OrderInv, TypeOK
<1> HIDE DEF file
<1>2. text'[file].state = "whole" /\ \A f \in Files : f # file => text'[f] = text[f]
  BY <1>1 DEF Texts
<1> QED
  BY <1>2 DEF StaysParsed, Parsed

\* A module's file, and its directory.
LEMMA OneDirectory ==
    ASSUME OrderInv, OpenedByPath, Linkless,
           NEW i \in 1..Len(semas), NEW j \in 1..Len(semas), semas[i].file = semas[j].file
    PROVE  semas[i].dir = semas[j].dir
<1>1. semas[i].file \in Files /\ semas[i].file # NoFile
  <2>1. semas[i] \in Sema
    BY ElementOfSeq DEF OrderInv, TypeOK
  <2> QED
    BY <2>1, FileSystemAssumption DEF Sema
<1> QED
  BY <1>1 DEF OpenedByPath, Linkless

(***************************************************************************)
(* Calls for the same file                                                 *)
(***************************************************************************)
\* What the running calls are at.
FrameSema(k) == semas[frames[k].sema]

LEMMA FrameSemaFacts ==
    ASSUME OrderInv, NEW k \in 1..Len(frames)
    PROVE  /\ frames[k].sema \in 1..Len(semas) /\ FrameSema(k) \in Sema
           /\ FrameSema(k).file \in Files /\ Len(FrameSema(k).ast) \in Nat
           /\ Len(frames) \in Nat
<1>1. frames[k].sema \in 1..Len(semas) /\ Len(frames) \in Nat
  BY FrameFacts DEF OrderInv
<1>2. FrameSema(k) \in Sema
  BY <1>1, ElementOfSeq DEF OrderInv, TypeOK, FrameSema
<1> QED
  BY <1>1, <1>2, LenProperties DEF Sema

\* One that has come as far as another for the same file is at its import.
LEMMA TwinsImport ==
    ASSUME OrderInv, OnceInv, Linkless, ~Exhausted,
           NEW k \in 1..Len(frames), NEW l \in 1..Len(frames), k < l,
           FrameSema(k).file = FrameSema(l).file,
           Len(FrameSema(k).ast) = Len(FrameSema(l).ast)
    PROVE  LET s == FrameSema(l)
               nodes == text[s.file].nodes
           IN  /\ k + 1 \in 1..Len(frames)
               /\ Len(s.ast) < Len(nodes)
               /\ nodes[Len(s.ast) + 1].kind = "import"
               /\ Finds[<<s.dir, nodes[Len(s.ast) + 1].path>>] = FrameSema(k + 1).file
<1>1. Len(frames) \in Nat /\ k < Len(frames) /\ k \in 1..Len(frames) - 1 /\ k + 1 \in 1..Len(frames)
  BY FrameSemaFacts
<1>2. /\ Len(FrameSema(k).ast) < Len(text[FrameSema(k).file].nodes)
      /\ text[FrameSema(k).file].nodes[Len(FrameSema(k).ast) + 1].kind = "import"
  BY <1>1 DEF OrderInv, WaitsForImports, FrameSema
<1>3. FrameSema(k + 1).file =
         Finds[<<FrameSema(k).dir, text[FrameSema(k).file].nodes[Len(FrameSema(k).ast) + 1].path>>]
  BY <1>1 DEF OnceInv, CalledByImport, FrameSema
<1>4. FrameSema(k).dir = FrameSema(l).dir
  <2>1. frames[k].sema \in 1..Len(semas) /\ frames[l].sema \in 1..Len(semas)
    BY FrameSemaFacts
  <2> QED
    BY <2>1, OneDirectory DEF OnceInv, FrameSema
<1> QED
  BY <1>1, <1>2, <1>3, <1>4

\* A call for a file that is being read further out does not come to its end.
LEMMA TwinsDoNotClose ==
    ASSUME OrderInv, OnceInv, Linkless, ~Exhausted, Close, NEW k \in 1..Len(frames) - 1
    PROVE  FrameSema(k).file # S.file
<1> DEFINE N == Len(frames)
<1>1. N \in Nat /\ k \in 1..N /\ N \in 1..N /\ k < N /\ S = FrameSema(N)
  <2>1. Reading
    BY DEF Close
  <2>2. N \in Nat \ {0} /\ S = FrameSema(N)
    BY <2>1, ReadingFacts DEF FrameSema
  <2> HIDE DEF N
  <2>3. k \in 1..N - 1
    BY DEF N
  <2> QED
    BY ONLY <2>2, <2>3
<1>2. SUFFICES ASSUME FrameSema(k).file = S.file PROVE FALSE
  OBVIOUS
<1>3. Len(S.ast) <= Len(FrameSema(k).ast)
  BY <1>1, <1>2 DEF OnceInv, NoFurther, FrameSema
<1>4. Len(FrameSema(k).ast) < Len(text[S.file].nodes)
  BY <1>1, <1>2 DEF OrderInv, WaitsForImports, FrameSema
<1>5. Len(S.ast) + 1 > Len(text[S.file].nodes)
  BY DEF Close, K
<1>6. /\ Len(S.ast) \in Nat /\ Len(FrameSema(k).ast) \in Nat /\ Len(text[S.file].nodes) \in Nat
  <2>1. text[S.file].nodes \in Seq(Nodes)
    BY ReadingFacts DEF Close, OrderInv, TypeOK, Texts, Sema
  <2> QED
    BY <1>1, <2>1, FrameSemaFacts, LenProperties
<1> DEFINE a == Len(S.ast)
           b == Len(FrameSema(k).ast)
           c == Len(text[S.file].nodes)
<1>7. a <= b /\ b < c /\ a + 1 > c /\ a \in Nat /\ b \in Nat /\ c \in Nat
  BY <1>3, <1>4, <1>5, <1>6
<1> HIDE DEF a, b, c
<1> QED
  BY ONLY <1>7

(***************************************************************************)
(* Calls that go on                                                        *)
(***************************************************************************)
\* The first calls still run, all but the last of them where they were.
FramesGoOn(L) ==
    /\ L \in Nat /\ L <= Len(frames) /\ Len(frames') = L
    /\ \A k \in 1..L : frames'[k].sema = frames[k].sema
    /\ \A k \in 1..L - 1 : semas'[frames[k].sema] = FrameSema(k)
    /\ Len(semas') = Len(semas)
    /\ \A j \in 1..Len(semas) : semas'[j].file = semas[j].file /\ semas'[j].dir = semas[j].dir
    /\ text' \in Texts /\ Grown(text, text') /\ StaysParsed /\ StaysExhausted

LEMMA StillByPath ==
    ASSUME OrderInv, OnceInv, NEW L, FramesGoOn(L)
    PROVE  OpenedByPath'
<1> SUFFICES ASSUME NEW i \in 1..Len(semas)
             PROVE  /\ text'[semas'[i].file].state \in {"open", "whole"}
                    /\ \E p \in Dirs \X Paths :
                          semas'[i].file = Finds[p] /\ semas'[i].dir = Enters[p]
  BY DEF FramesGoOn, OpenedByPath
<1>1. semas[i].file \in Files
  <2>1. semas[i] \in Sema
    BY ElementOfSeq DEF OrderInv, TypeOK
  <2> QED
    BY <2>1 DEF Sema
<1> QED
  BY <1>1 DEF OnceInv, OpenedByPath, FramesGoOn, StaysParsed, Parsed

\* A call that waits at an import, in files that have grown.
LEMMA WaitsOn ==
    ASSUME OrderInv, text' \in Texts, Grown(text, text'),
           NEW k \in 1..Len(frames), k < Len(frames)
    PROVE  LET s == FrameSema(k)
           IN  text'[s.file].nodes[Len(s.ast) + 1] = text[s.file].nodes[Len(s.ast) + 1]
<1>1. FrameSema(k) \in Sema /\ Len(FrameSema(k).ast) \in Nat /\ FrameSema(k).file \in Files
  BY FrameSemaFacts
<1>2. Len(FrameSema(k).ast) < Len(text[FrameSema(k).file].nodes)
  BY DEF OrderInv, WaitsForImports, FrameSema
<1>3. text \in Texts /\ Len(text[FrameSema(k).file].nodes) \in Nat
  <2>1. text \in Texts
    BY DEF OrderInv, TypeOK
  <2> QED
    BY <1>1, <2>1, LenProperties DEF Texts
<1>4. Len(FrameSema(k).ast) <= Len(text[FrameSema(k).file].nodes)
  BY <1>1, <1>2, <1>3
<1> QED
  BY <1>1, <1>2, <1>3, <1>4, WaitGrows

\* A call's file imports that of the call that runs in it.
LEMMA CallsImport ==
    ASSUME OrderInv, OnceInv, text' \in Texts, Grown(text, text'),
           NEW k \in 1..Len(frames), k < Len(frames),
           NEW f, f = FrameSema(k).file, NEW g, g = FrameSema(k + 1).file
    PROVE  Imports(f, g)'
<1> DEFINE s == FrameSema(k)
           i == Len(s.ast) + 1
           n == text'[f].nodes[i]
<1>1. k \in 1..Len(frames) - 1 /\ frames[k].sema \in 1..Len(semas) /\ s \in Sema /\ f \in Files
  BY FrameSemaFacts
<1>2. Len(s.ast) \in Nat /\ Len(text[f].nodes) \in Nat /\ Len(text'[f].nodes) \in Nat
  <2>1. text[f].nodes \in Seq(Nodes) /\ text'[f].nodes \in Seq(Nodes)
    BY <1>1 DEF Texts, OrderInv, TypeOK
  <2> QED
    BY <2>1, FrameSemaFacts, LenProperties
<1>3. n = text[f].nodes[i]
  BY WaitsOn
<1>4. Len(s.ast) < Len(text[f].nodes) /\ text[f].nodes[i].kind = "import"
  BY <1>1 DEF OrderInv, WaitsForImports, FrameSema
<1>5. Len(text[f].nodes) <= Len(text'[f].nodes)
  BY <1>1 DEF Grown
<1>6. PICK p \in Dirs \X Paths : f = Finds[p] /\ s.dir = Enters[p]
  BY <1>1 DEF OnceInv, OpenedByPath, FrameSema
<1>7. g = Finds[<<s.dir, n.path>>]
  BY <1>1, <1>3 DEF OnceInv, CalledByImport, FrameSema
<1> HIDE DEF s
<1>8. i \in 1..Len(text'[f].nodes)
  <2> DEFINE a == Len(s.ast)
             b == Len(text[f].nodes)
             c == Len(text'[f].nodes)
  <2>1. a \in Nat /\ b \in Nat /\ c \in Nat /\ a < b /\ b <= c
    BY <1>2, <1>4, <1>5
  <2> HIDE DEF a, b, c
  <2>2. a + 1 \in 1..c
    BY ONLY <2>1
  <2> QED
    BY <2>2 DEF a, c
<1>9. \E q \in Dirs \X Paths : Finds[q] = f /\ Finds[<<Enters[q], n.path>>] = g
  BY <1>6, <1>7
<1> QED
  BY <1>3, <1>4, <1>8, <1>9 DEF Imports

LEMMA CycleStays ==
    ASSUME OrderInv, text' \in Texts, Grown(text, text'), ImportCycle
    PROVE  ImportCycle'
<1>1. PICK circle \in (SUBSET Files) \ {{}} : \A f \in circle : \E g \in circle : Imports(f, g)
  BY DEF ImportCycle
<1>2. ASSUME NEW f \in Files, NEW g \in Files, Imports(f, g) PROVE Imports(f, g)'
  <2>1. PICK i \in 1..Len(text[f].nodes) :
            LET n == text[f].nodes[i]
            IN  /\ n.kind = "import"
                /\ \E p \in Dirs \X Paths : Finds[p] = f /\ Finds[<<Enters[p], n.path>>] = g
    BY <1>2 DEF Imports
  <2>2. text'[f].nodes[i] = text[f].nodes[i] /\ Len(text[f].nodes) <= Len(text'[f].nodes)
    BY DEF Grown
  <2>3. Len(text[f].nodes) \in Nat /\ Len(text'[f].nodes) \in Nat
    <3>1. text[f].nodes \in Seq(Nodes) /\ text'[f].nodes \in Seq(Nodes)
      BY DEF Texts, OrderInv, TypeOK
    <3> QED
      BY <3>1, LenProperties
  <2>4. i \in 1..Len(text'[f].nodes)
    BY <2>2, <2>3
  <2> QED
    BY <2>1, <2>2, <2>4 DEF Imports
<1> QED
  BY <1>1, <1>2 DEF ImportCycle

\* Files in a row, each of which imports the next, and one of them twice.
LEMMA RowIsCircle ==
    ASSUME NEW N \in Nat, NEW file \in [1..N -> Files],
           \A m \in 1..N - 1 : Imports(file[m], file[m + 1])',
           NEW k \in 1..N, NEW l \in 1..N, k < l, file[k] = file[l]
    PROVE  ImportCycle'
<1>1. PICK circle : circle = {file[m] : m \in k..l - 1}
  OBVIOUS
<1>2. /\ k \in k..l - 1
      /\ \A m \in k..l - 1 : m \in 1..N /\ m \in 1..N - 1
      /\ \A m \in k..l - 1 : m + 1 \in k..l - 1 \/ m + 1 = l
  OBVIOUS
<1>3. circle \in (SUBSET Files) \ {{}}
  BY <1>1, <1>2
<1>4. \A m \in k..l - 1 : file[m + 1] \in circle
  BY <1>1, <1>2
<1>5. \A m \in k..l - 1 : Imports(file[m], file[m + 1])'
  BY <1>2
<1>6. \A a \in circle : \E b \in circle : Imports(a, b)'
  BY <1>1, <1>4, <1>5
<1> QED
  BY <1>3, <1>6 DEF ImportCycle

\* Two running calls for one file.
LEMMA TwinsCircle ==
    ASSUME OrderInv, OnceInv, text' \in Texts, Grown(text, text'),
           NEW k \in 1..Len(frames), NEW l \in 1..Len(frames), k < l,
           FrameSema(k).file = FrameSema(l).file
    PROVE  ImportCycle'
<1>1. PICK N : N = Len(frames)
  OBVIOUS
<1>2. PICK file : file = [m \in 1..N |-> FrameSema(m).file]
  OBVIOUS
<1>3. /\ N \in Nat /\ file \in [1..N -> Files]
      /\ \A m \in 1..N : file[m] = FrameSema(m).file
  <2>1. \A m \in 1..N : FrameSema(m).file \in Files
    BY <1>1, FrameSemaFacts
  <2>2. N \in Nat
    BY <1>1, FrameFacts DEF OrderInv
  <2> QED
    BY <1>2, <2>1, <2>2
<1>4. ASSUME NEW m \in 1..N - 1 PROVE Imports(file[m], file[m + 1])'
  <2>1. m \in 1..N /\ m + 1 \in 1..N /\ m < N
    BY <1>3
  <2> QED
    BY <1>1, <1>3, <2>1, CallsImport
<1> QED
  BY <1>1, <1>3, <1>4, RowIsCircle

LEMMA StillCalled ==
    ASSUME OrderInv, OnceInv, NEW L, FramesGoOn(L)
    PROVE  CalledByImport'
<1> SUFFICES ASSUME NEW k \in 1..L - 1
             PROVE  LET s == semas'[frames'[k].sema]
                        n == text'[s.file].nodes[Len(s.ast) + 1]
                    IN  semas'[frames'[k + 1].sema].file = Finds[<<s.dir, n.path>>]
  BY DEF FramesGoOn, CalledByImport
<1>1. Len(frames) \in Nat /\ L \in Nat /\ L <= Len(frames)
  BY FrameFacts DEF OrderInv, FramesGoOn
<1>2. /\ k \in 1..L /\ k + 1 \in 1..L
      /\ k \in 1..Len(frames) /\ k + 1 \in 1..Len(frames) /\ k < Len(frames)
      /\ k \in 1..Len(frames) - 1
  BY <1>1
<1>3. semas'[frames'[k].sema] = FrameSema(k)
  BY <1>2 DEF FramesGoOn
<1>4. semas'[frames'[k + 1].sema].file = FrameSema(k + 1).file
  <2>1. frames[k + 1].sema \in 1..Len(semas)
    BY <1>2, FrameSemaFacts
  <2> QED
    BY <1>2, <2>1 DEF FramesGoOn, FrameSema
<1>5. FrameSema(k + 1).file =
         Finds[<<FrameSema(k).dir, text[FrameSema(k).file].nodes[Len(FrameSema(k).ast) + 1].path>>]
  BY <1>2 DEF OnceInv, CalledByImport, FrameSema
<1>6. text'[FrameSema(k).file].nodes[Len(FrameSema(k).ast) + 1] =
         text[FrameSema(k).file].nodes[Len(FrameSema(k).ast) + 1]
  BY <1>2, WaitsOn DEF FramesGoOn
<1> QED
  BY <1>3, <1>4, <1>5, <1>6

LEMMA StillNoFurther ==
    ASSUME OrderInv, OnceInv, Linkless, ~Exhausted, NEW L, FramesGoOn(L),
           \A k \in 1..L - 1 :
              FrameSema(k).file = FrameSema(L).file =>
                 Len(semas'[frames[L].sema].ast) <= Len(FrameSema(k).ast)
    PROVE  NoFurther'
<1>1. Len(frames) \in Nat /\ L \in Nat /\ L <= Len(frames)
  BY FrameFacts DEF OrderInv, FramesGoOn
<1> SUFFICES ASSUME NEW k \in 1..L, NEW l \in 1..L, k < l,
                    semas'[frames'[k].sema].file = semas'[frames'[l].sema].file
             PROVE  Len(semas'[frames'[l].sema].ast) <= Len(semas'[frames'[k].sema].ast)
  BY DEF FramesGoOn, NoFurther
<1>2. k \in 1..L - 1 /\ k \in 1..Len(frames) /\ l \in 1..Len(frames) /\ (l \in 1..L - 1 \/ l = L)
  BY <1>1
<1>3. semas'[frames'[k].sema] = FrameSema(k) /\ frames'[l].sema = frames[l].sema
  BY <1>2 DEF FramesGoOn
<1>4. semas'[frames'[l].sema].file = FrameSema(l).file
  <2>1. frames[l].sema \in 1..Len(semas)
    BY <1>2, FrameSemaFacts
  <2> QED
    BY <1>3, <2>1 DEF FramesGoOn, FrameSema
<1>5. CASE l \in 1..L - 1
  <2>1. semas'[frames'[l].sema] = FrameSema(l)
    BY <1>3, <1>5 DEF FramesGoOn
  <2>2. Len(FrameSema(l).ast) <= Len(FrameSema(k).ast)
    BY <1>2, <1>3, <1>4 DEF OnceInv, NoFurther, FrameSema
  <2> QED
    BY <1>3, <2>1, <2>2
<1>6. CASE l = L
  BY <1>2, <1>3, <1>4, <1>6
<1> QED
  BY <1>2, <1>5, <1>6

LEMMA StillApart ==
    ASSUME OrderInv, FilesApart, NEW L, FramesGoOn(L), modules' = modules
    PROVE  FilesApart'
<1>1. Len(frames) \in Nat /\ L \in Nat /\ L <= Len(frames)
  BY FrameFacts DEF OrderInv, FramesGoOn
<1>2. \A i \in 1..Len(modules) : semas'[modules[i]].file = semas[modules[i]].file
  BY PassNumbers DEF FramesGoOn
<1>3. ASSUME NEW k \in 1..L
      PROVE  k \in 1..Len(frames) /\ semas'[frames'[k].sema].file = FrameSema(k).file
  <2>1. k \in 1..Len(frames)
    BY <1>1
  <2>2. frames[k].sema \in 1..Len(semas)
    BY <2>1, FrameSemaFacts
  <2> QED
    BY <2>1, <2>2 DEF FramesGoOn, FrameSema
<1>4. \A k \in 1..L, i \in 1..Len(modules) : semas'[frames'[k].sema].file # semas'[modules[i]].file
  BY <1>2, <1>3 DEF FilesApart, FrameSema
<1>5. Len(frames') = L
  BY DEF FramesGoOn
<1> QED
  BY <1>2, <1>4, <1>5 DEF FilesApart

\* Nothing is read, opened or closed.
LEMMA StillOnce ==
    ASSUME OrderInv, OnceInv, FramesGoOn(Len(frames)), modules' = modules,
           frames # <<>> => Len(semas'[frames[Len(frames)].sema].ast) = Len(FrameSema(Len(frames)).ast)
    PROVE  OnceInv'
<1> DEFINE N == Len(frames)
<1>1. N \in Nat
  BY FrameFacts DEF OrderInv
<1>2. ASSUME Linkless, ~Exhausted PROVE NoFurther'
  <2>1. ASSUME NEW k \in 1..N - 1, FrameSema(k).file = FrameSema(N).file
        PROVE  Len(semas'[frames[N].sema].ast) <= Len(FrameSema(k).ast)
    <3>1. k \in 1..N /\ N \in 1..N /\ k < N
      BY <1>1
    <3>2. frames # <<>>
      BY <3>1
    <3>3. Len(FrameSema(N).ast) <= Len(FrameSema(k).ast)
      BY <1>2, <2>1, <3>1 DEF OnceInv, NoFurther, FrameSema
    <3> QED
      BY <3>2, <3>3
  <2> QED
    BY <1>2, <2>1, StillNoFurther
<1>3. (Exhausted => Exhausted') /\ (ImportCycle => ImportCycle')
  BY CycleStays DEF FramesGoOn, StaysExhausted
<1> QED
  BY <1>2, <1>3, StillByPath, StillCalled, StillApart DEF OnceInv

(***************************************************************************)
(* Reading a declaration                                                   *)
(***************************************************************************)
LEMMA TopGoesOn ==
    ASSUME OrderInv, Reading, MovesOn(I), frames' = frames,
           text' \in Texts, Grown(text, text'), StaysParsed, StaysExhausted
    PROVE  FramesGoOn(Len(frames))
<1> DEFINE N == Len(frames)
<1>1. N \in Nat /\ I = frames[N].sema
  BY ReadingFacts
<1>2. ASSUME NEW k \in 1..N - 1 PROVE semas'[frames[k].sema] = FrameSema(k)
  <2>1. k \in 1..N /\ N \in 1..N /\ k < N
    BY <1>1
  <2>2. frames[k].sema \in 1..Len(semas) /\ frames[N].sema \in 1..Len(semas)
    BY <2>1, FrameSemaFacts
  <2>3. frames[k].sema < frames[N].sema
    BY <2>1 DEF OrderInv, EachOnce
  <2>4. frames[k].sema # I
    BY <1>1, <2>2, <2>3
  <2> QED
    BY <2>2, <2>4 DEF MovesOn, FrameSema
<1>3. Len(semas') = Len(semas)
  BY DEF MovesOn
<1>4. \A j \in 1..Len(semas) : semas'[j].file = semas[j].file /\ semas'[j].dir = semas[j].dir
  BY DEF MovesOn
<1>5. N <= N
  BY <1>1
<1> QED
  BY <1>1, <1>2, <1>3, <1>4, <1>5 DEF FramesGoOn

\* The innermost call goes past a declaration, which no other call for the
\* same file stands at.
LEMMA TopMovesOn ==
    ASSUME OrderInv, OnceInv, NEW n \in Upcoming, MovesOn(I), UNCHANGED <<frames, modules>>,
           text' \in Texts, Grown(text, text'), StaysParsed, StaysExhausted,
           Linkless /\ ~Exhausted /\ n.kind = "import" =>
              \A k \in 1..Len(frames) : FrameSema(k).file # Finds[<<cwd, n.path>>]
    PROVE  OnceInv'
<1> DEFINE N == Len(frames)
<1>1. /\ Reading /\ N \in Nat \ {0} /\ I = frames[N].sema /\ S = semas[I] /\ cwd = S.dir
      /\ K = Len(S.ast) + 1
  BY TextFacts, ReadingFacts
<1>2. N \in 1..N /\ S = FrameSema(N)
  BY <1>1 DEF FrameSema
<1>3. FramesGoOn(N)
  BY <1>1, TopGoesOn
<1>4. ASSUME Linkless, ~Exhausted, NEW k \in 1..N - 1, FrameSema(k).file = FrameSema(N).file
      PROVE  Len(semas'[I].ast) <= Len(FrameSema(k).ast)
  <2>1. k \in 1..N /\ k < N
    BY <1>1
  <2>2. Len(FrameSema(N).ast) <= Len(FrameSema(k).ast)
    BY <1>2, <1>4, <2>1 DEF OnceInv, NoFurther, FrameSema
  <2>3. SUFFICES ASSUME Len(FrameSema(k).ast) = Len(FrameSema(N).ast) PROVE FALSE
    <3>1. Len(FrameSema(N).ast) \in Nat /\ Len(FrameSema(k).ast) \in Nat
      BY <1>2, <2>1, FrameSemaFacts
    <3>2. Len(semas'[I].ast) = Len(FrameSema(N).ast) + 1
      BY <1>1, <1>2 DEF MovesOn
    <3> QED
      BY <2>2, <3>1, <3>2
  <2> DEFINE nodes == text[S.file].nodes
  <2>4. /\ k + 1 \in 1..N
        /\ Len(S.ast) < Len(nodes)
        /\ nodes[K].kind = "import"
        /\ Finds[<<cwd, nodes[K].path>>] = FrameSema(k + 1).file
    <3>1. LET s == FrameSema(N)
              own == text[s.file].nodes
          IN  /\ k + 1 \in 1..Len(frames)
              /\ Len(s.ast) < Len(own)
              /\ own[Len(s.ast) + 1].kind = "import"
              /\ Finds[<<s.dir, own[Len(s.ast) + 1].path>>] = FrameSema(k + 1).file
      BY <1>2, <1>4, <2>1, <2>3, TwinsImport
    <3> QED
      BY ONLY <1>1, <1>2, <3>1
  <2>5. K <= Len(nodes)
    <3>1. Len(S.ast) \in Nat
      BY <1>2, FrameSemaFacts
    <3>2. Len(nodes) \in Nat
      BY <1>2, FrameSemaFacts, LenProperties DEF OrderInv, TypeOK, Texts
    <3> HIDE DEF nodes
    <3> QED
      BY <1>1, <2>4, <3>1, <3>2
  <2>6. n = nodes[K]
    BY <1>1, <2>5 DEF Upcoming
  <2> QED
    BY <1>4, <2>4, <2>6
<1>5. ASSUME Linkless, ~Exhausted PROVE NoFurther'
  <2>1. \A k \in 1..N - 1 :
           FrameSema(k).file = FrameSema(N).file =>
              Len(semas'[frames[N].sema].ast) <= Len(FrameSema(k).ast)
    BY <1>1, <1>4, <1>5
  <2> QED
    BY <1>3, <1>5, <2>1, StillNoFurther
<1>6. (Exhausted => Exhausted') /\ (ImportCycle => ImportCycle')
  BY CycleStays DEF StaysExhausted
<1> QED
  BY <1>3, <1>5, <1>6, StillByPath, StillCalled, StillApart DEF OnceInv

LEMMA DeclarationOnce ==
    ASSUME OrderInv, OnceInv, NEW n \in Upcoming, n.kind # "import", TakesFit(n)
    PROVE  OnceInv'
<1>1. /\ Reading /\ TextAt(n) \in Texts /\ Grown(text, TextAt(n))
      /\ I \in 1..Len(semas) /\ S = semas[I]
  BY TextFacts, ReadingFacts
<1>2. PICK s : \E decl \in Decl, reads \in Decl :
          /\ Filled(S, s) /\ LeadsTo(s, I, Known(Len(modules)))
          /\ reads.of \in {0, I} \cup Known(Len(modules))
          /\ Take(n, s, decl, reads)
  BY DEF TakesFit
<1>3. PICK decl \in Decl, reads \in Decl :
          /\ Filled(S, s) /\ LeadsTo(s, I, Known(Len(modules)))
          /\ reads.of \in {0, I} \cup Known(Len(modules))
          /\ Take(n, s, decl, reads)
  BY <1>2
<1>4. /\ text' = TextAt(n) /\ semas' = With(I, s, decl, reads)
      /\ UNCHANGED <<opened, frames, modules>>
  BY <1>3 DEF Take
<1>5. MovesOn(I)
  BY <1>1, <1>3, <1>4, WithGoesOn
<1>6. StaysParsed /\ StaysExhausted
  BY <1>4, TextAtStates DEF StaysParsed, StaysExhausted, Exhausted
<1> QED
  BY <1>1, <1>4, <1>5, <1>6, TopMovesOn

\* The declarations other than imports.
LEMMA ReadsOnce ==
    ASSUME OrderInv, OnceInv, NEW n \in Upcoming,
           \/ ReadPlain(n) \/ ReadVal(n)
           \/ ReadFromAll(n) \/ ReadFromItem(n) \/ ReadUse(n)
           \/ ReadBad(n)
    PROVE  OnceInv'
<1>1. n.kind # "import"
  BY DEF ReadPlain, ReadVal, ReadFromAll, ReadFromItem, ReadUse, ReadBad, At, Vals
<1>2. TakesFit(n)
  BY ReadPlainFits, ReadValFits, ReadFromAllFits, ReadFromItemFits, ReadUseFits, ReadBadFits
<1> QED
  BY <1>1, <1>2, DeclarationOnce

\* An import of a listed file, which is not being read.
LEMMA ImportKnownOnce ==
    ASSUME OrderInv, OnceInv, NEW n \in Upcoming, ImportKnown(n)
    PROVE  OnceInv'
<1> DEFINE file == Finds[<<cwd, n.path>>]
           m == Listed(file)
           known == Known(Len(modules))
<1>1. /\ Reading /\ n \in Nodes /\ TextAt(n) \in Texts /\ Grown(text, TextAt(n))
      /\ I \in 1..Len(semas) /\ S = semas[I] /\ LeadsTo(S, I, known)
  BY TextFacts, ReadingFacts
<1>2. m \in known /\ semas[m].file = file
  BY ListedFacts DEF OrderInv, ImportKnown
<1>3. m \in 1..Len(semas) /\ semas[m] \in Sema /\ LeadsTo(semas[m], m, known)
  BY <1>2, KnownFacts
<1>4. /\ n.kind = "import" /\ semas' = Imported(I, n, m) /\ text' = TextAt(n)
      /\ UNCHANGED <<opened, frames, modules>>
  BY DEF ImportKnown, At
<1>5. m \in Nat
  BY <1>3
<1> HIDE DEF m, known
<1>6. MovesOn(I)
  <2>1. \E s : \E decl \in Decl :
            /\ Filled(semas[I], s) /\ semas' = With(I, s, decl, NoDecl)
            /\ HeldAfter(s, I, n, m)
            /\ Onward /\ MovesOn(I)
    BY <1>1, <1>2, <1>3, <1>4, <1>5, ImportGoesOn
  <2> QED
    BY <2>1
<1>7. StaysParsed /\ StaysExhausted
  BY <1>4, TextAtStates DEF StaysParsed, StaysExhausted, Exhausted
<1>8. ASSUME Linkless, ~Exhausted PROVE \A k \in 1..Len(frames) : FrameSema(k).file # file
  BY <1>2, <1>8 DEF known, Known, OnceInv, FilesApart, FrameSema
<1> QED
  BY <1>1, <1>4, <1>6, <1>7, <1>8, TopMovesOn

\* An import that finds nothing, a file with a syntax error, or no descriptor.
LEMMA ImportFailsOnce ==
    ASSUME OrderInv, OnceInv, NEW n \in Upcoming, ImportFails(n)
    PROVE  OnceInv'
<1> DEFINE file == Finds[<<cwd, n.path>>]
           known == Known(Len(modules))
<1>1. /\ Reading /\ n \in Nodes /\ TextAt(n) \in Texts /\ Grown(text, TextAt(n))
      /\ I \in 1..Len(semas) /\ S = semas[I] /\ LeadsTo(S, I, known)
  BY TextFacts, ReadingFacts
<1>2. /\ n.kind = "import" /\ n.path \in Paths /\ Fails(n.path, TextAt(n))
      /\ semas' = Imported(I, n, 0) /\ UNCHANGED <<frames, modules>>
  BY <1>1, NodeFacts DEF ImportFails, At
<1>3. text' \in Texts /\ Grown(text, text')
  BY <1>1, <1>2, FailsText
<1>4. /\ StaysParsed
      /\ ~Exhausted => \A f \in Files : f = file => text[f].state \notin Parsed
  <2>1. \A f \in Files : TextAt(n)[f].state = text[f].state
    BY TextAtStates
  <2> QED
    BY <1>1, <1>2, <2>1, FailsStates
<1> HIDE DEF known
<1>5. MovesOn(I)
  <2>1. \E s : \E decl \in Decl :
            /\ Filled(semas[I], s) /\ semas' = With(I, s, decl, NoDecl)
            /\ HeldAfter(s, I, n, 0)
            /\ Onward /\ MovesOn(I)
    BY <1>1, <1>2, <1>3, ImportGoesOn
  <2> QED
    BY <2>1
<1>6. ASSUME ~Exhausted, NEW k \in 1..Len(frames) PROVE FrameSema(k).file # file
  <2>1. FrameSema(k).file \in Files /\ frames[k].sema \in 1..Len(semas)
    BY FrameSemaFacts
  <2>2. text[FrameSema(k).file].state \in Parsed
    BY <2>1 DEF OnceInv, OpenedByPath, FrameSema, Parsed
  <2> QED
    BY <1>4, <1>6, <2>1, <2>2
<1>7. StaysExhausted
  BY <1>2, DescriptorFacts DEF StaysExhausted, OrderInv
<1> QED
  BY <1>2, <1>3, <1>4, <1>5, <1>6, <1>7, TopMovesOn

(***************************************************************************)
(* Opening a file                                                          *)
(***************************************************************************)
LEMMA EnterOnce ==
    ASSUME OrderInv, OnceInv, NEW path \in Paths, Finds[<<cwd, path>>] # NoFile,
           Listed(Finds[<<cwd, path>>]) = 0, Enter(path),
           text' \in Texts, Grown(text, text'), StaysParsed, StaysExhausted,
           text'[Finds[<<cwd, path>>]].state \in Parsed,
           \/ frames = <<>>
           \/ /\ Reading
              /\ text'[S.file].nodes[K].path = path
    PROVE  OnceInv'
<1> DEFINE N == Len(frames)
           L == Len(semas)
           new == NewSema(path)
           top == NewFrame
<1>1. /\ new \in Sema /\ Len(new.ast) = 0 /\ cwd \in Dirs
      /\ new.file = Finds[<<cwd, path>>] /\ new.dir = Enters[<<cwd, path>>]
  BY NewSemaFacts DEF NewSema, OrderInv, TypeOK
<1>2. top.sema = L + 1
  BY DEF NewFrame
<1>3. /\ semas \in Seq(Sema) /\ L \in Nat /\ N \in Nat
      /\ frames \in Seq([sema : 1..Len(semas), back : Dirs])
  BY LenProperties DEF OrderInv, TypeOK
<1>4. semas' = Append(semas, new) /\ frames' = Append(frames, top) /\ modules' = modules
  BY DEF Enter
<1> HIDE DEF new, top
<1>5. /\ Len(semas') = L + 1 /\ semas'[L + 1] = new
      /\ \A j \in 1..L : semas'[j] = semas[j]
  BY <1>1, <1>3, <1>4, AppendFacts
<1>6. /\ Len(frames') = N + 1 /\ frames'[N + 1] = top
      /\ \A k \in 1..N : frames'[k] = frames[k]
  <2> DEFINE Frame == [sema : 1..L + 1, back : Dirs]
  <2>1. [sema : 1..L, back : Dirs] \subseteq Frame
    BY <1>3
  <2>2. top \in Frame
    BY <1>1, <1>3 DEF top, NewFrame
  <2> HIDE DEF Frame
  <2>3. frames \in Seq(Frame)
    BY <1>3, <2>1, SeqMonotonic
  <2> QED
    BY <1>4, <2>2, <2>3, AppendFacts
<1>7. ASSUME NEW k \in 1..N
      PROVE  semas'[frames'[k].sema] = FrameSema(k)
  BY <1>5, <1>6, FrameSemaFacts DEF FrameSema
<1>8. semas'[frames'[N + 1].sema] = new
  BY <1>2, <1>5, <1>6
<1>9. OpenedByPath'
  <2> SUFFICES ASSUME NEW i \in 1..L + 1
               PROVE  /\ text'[semas'[i].file].state \in {"open", "whole"}
                      /\ \E p \in Dirs \X Paths :
                            semas'[i].file = Finds[p] /\ semas'[i].dir = Enters[p]
    BY <1>5 DEF OpenedByPath
  <2>1. CASE i \in 1..L
    <3>1. semas[i].file \in Files
      <4>1. semas[i] \in Sema
        BY <1>3, <2>1, ElementOfSeq
      <4> QED
        BY <4>1 DEF Sema
    <3> QED
      BY <1>5, <2>1, <3>1 DEF OnceInv, OpenedByPath, StaysParsed, Parsed
  <2>2. CASE i = L + 1
    <3>1. <<cwd, path>> \in Dirs \X Paths
      BY <1>1
    <3> QED
      BY <1>1, <1>5, <2>2, <3>1 DEF Parsed
  <2> QED
    BY <1>3, <2>1, <2>2
<1>10. CalledByImport'
  <2> SUFFICES ASSUME NEW k \in 1..N
               PROVE  LET s == semas'[frames'[k].sema]
                          n == text'[s.file].nodes[Len(s.ast) + 1]
                      IN  semas'[frames'[k + 1].sema].file = Finds[<<s.dir, n.path>>]
    <3>1. N \in Nat /\ Len(frames') = N + 1
      BY <1>3, <1>6
    <3>2. Len(frames') - 1 = N
      BY ONLY <3>1
    <3> QED
      BY <3>2 DEF CalledByImport
  <2>1. CASE k # N
    <3>1. k + 1 \in 1..N /\ k \in 1..N - 1 /\ k < N
      BY <1>3, <2>1
    <3>2. FrameSema(k + 1).file =
             Finds[<<FrameSema(k).dir, text[FrameSema(k).file].nodes[Len(FrameSema(k).ast) + 1].path>>]
      BY <3>1 DEF OnceInv, CalledByImport, FrameSema
    <3>3. text'[FrameSema(k).file].nodes[Len(FrameSema(k).ast) + 1] =
             text[FrameSema(k).file].nodes[Len(FrameSema(k).ast) + 1]
      BY <3>1, WaitsOn
    <3>4. semas'[frames'[k].sema] = FrameSema(k) /\ semas'[frames'[k + 1].sema] = FrameSema(k + 1)
      BY <1>7, <3>1
    <3> QED
      BY <3>2, <3>3, <3>4
  <2>2. CASE k = N
    <3>1. frames # <<>>
      BY <1>3, <2>2
    <3>2. /\ I = frames[N].sema /\ S = semas[I] /\ K = Len(S.ast) + 1 /\ cwd = S.dir
          /\ text'[S.file].nodes[K].path = path
      BY <3>1, ReadingFacts
    <3>3. semas'[frames'[k].sema] = S
      BY <1>7, <2>2, <3>2 DEF FrameSema
    <3> QED
      BY <1>1, <1>8, <2>2, <3>2, <3>3
  <2> QED
    BY <2>1, <2>2
<1>11. ASSUME FilesApart PROVE FilesApart'
  <2>1. \A i \in 1..Len(modules) : semas'[modules'[i]] = semas[modules[i]]
    BY <1>4, <1>5, PassNumbers
  <2>2. \A i \in 1..Len(modules) : semas[modules[i]].file # new.file
    BY <1>1, ListedFacts DEF OrderInv
  <2>3. ASSUME NEW k \in 1..N + 1, NEW i \in 1..Len(modules)
        PROVE  semas'[frames'[k].sema].file # semas'[modules'[i]].file
    <3>1. CASE k \in 1..N
      BY <1>7, <1>11, <2>1, <3>1 DEF FilesApart, FrameSema
    <3>2. CASE k = N + 1
      BY <1>8, <2>1, <2>2, <3>2
    <3> QED
      BY <1>3, <3>1, <3>2
  <2>4. Len(frames') = N + 1 /\ Len(modules') = Len(modules)
    BY <1>4, <1>6
  <2>5. \A k \in 1..Len(frames'), i \in 1..Len(modules') :
           semas'[frames'[k].sema].file # semas'[modules'[i]].file
    BY ONLY <2>3, <2>4
  <2>6. \A i, j \in 1..Len(modules) : i # j => semas[modules[i]].file # semas[modules[j]].file
    BY <1>11 DEF FilesApart
  <2>7. \A i, j \in 1..Len(modules') : i # j => semas'[modules'[i]].file # semas'[modules'[j]].file
    BY ONLY <2>1, <2>4, <2>6
  <2> QED
    BY <2>5, <2>7 DEF FilesApart
<1>12. ASSUME Linkless, ~Exhausted PROVE NoFurther'
  <2> SUFFICES ASSUME NEW k \in 1..N + 1, NEW l \in 1..N + 1, k < l,
                      semas'[frames'[k].sema].file = semas'[frames'[l].sema].file
               PROVE  Len(semas'[frames'[l].sema].ast) <= Len(semas'[frames'[k].sema].ast)
    BY <1>6 DEF NoFurther
  <2>1. k \in 1..N /\ (l \in 1..N \/ l = N + 1)
    BY <1>3
  <2>2. semas'[frames'[k].sema] = FrameSema(k) /\ Len(FrameSema(k).ast) \in Nat
    BY <1>7, <2>1, FrameSemaFacts
  <2>3. CASE l \in 1..N
    <3>1. semas'[frames'[l].sema] = FrameSema(l)
      BY <1>7, <2>3
    <3> QED
      BY <1>12, <2>1, <2>2, <2>3, <3>1 DEF OnceInv, NoFurther, FrameSema
  <2>4. CASE l = N + 1
    BY <1>1, <1>8, <2>2, <2>4
  <2> QED
    BY <2>1, <2>3, <2>4
<1>13. (Exhausted => Exhausted') /\ (ImportCycle => ImportCycle')
  BY CycleStays DEF StaysExhausted
<1> QED
  BY <1>9, <1>10, <1>11, <1>12, <1>13 DEF OnceInv

\* Nothing changes but what is known of the files.
LEMMA SameOnce ==
    ASSUME OrderInv, OnceInv, UNCHANGED <<semas, frames, modules>>,
           text' \in Texts, Grown(text, text'), StaysParsed, StaysExhausted
    PROVE  OnceInv'
<1>1. Len(frames) \in Nat /\ Len(frames) <= Len(frames)
  BY FrameFacts DEF OrderInv
<1>2. FramesGoOn(Len(frames))
  BY <1>1 DEF FramesGoOn, FrameSema
<1>3. semas'[frames[Len(frames)].sema] = FrameSema(Len(frames))
  BY DEF FrameSema
<1> QED
  BY <1>2, <1>3, StillOnce

LEMMA OpensOnce ==
    ASSUME OrderInv, OnceInv, NEW path \in Paths, NEW files \in Texts, Grown(text, files),
           \A f \in Files : files[f].state = text[f].state,
           \/ frames = <<>>
           \/ /\ Reading
              /\ files[S.file].nodes[K].path = path,
           Opens(path, files)
    PROVE  OnceInv'
<1>1. /\ Finds[<<cwd, path>>] # NoFile /\ Listed(Finds[<<cwd, path>>]) = 0
      /\ IF Len(frames) < MaxDepth THEN Enter(path) /\ UNCHANGED stage
         ELSE stage' = "overflow" /\ UNCHANGED <<cwd, semas, frames, modules>>
  BY DEF Opens
<1>2. text' \in Texts /\ Grown(text, text') /\ \A g \in Files : text'[g].nodes = files[g].nodes
  BY OpensText
<1>3. StaysParsed /\ text'[Finds[<<cwd, path>>]].state \in Parsed /\ StaysExhausted
  BY OpensStates, DescriptorFacts DEF StaysExhausted, OrderInv
<1>4. CASE Len(frames) < MaxDepth
  <2>1. Reading => S.file \in Files
    BY ReadingFacts DEF Sema
  <2>2. \/ frames = <<>>
        \/ /\ Reading
           /\ text'[S.file].nodes[K].path = path
    BY <1>2, <2>1
  <2> QED
    BY <1>1, <1>2, <1>3, <1>4, <2>2, EnterOnce
<1>5. CASE ~(Len(frames) < MaxDepth)
  BY <1>1, <1>2, <1>3, <1>5, SameOnce
<1> QED
  BY <1>4, <1>5

LEMMA ImportOpensOnce ==
    ASSUME OrderInv, OnceInv, NEW n \in Upcoming, ImportOpens(n)
    PROVE  OnceInv'
<1> DEFINE files == TextAt(n)
<1>1. /\ Reading /\ n \in Nodes /\ files \in Texts /\ Grown(text, files)
      /\ files[S.file].nodes[K] = n
  BY TextFacts
<1>2. n.path \in Paths /\ Opens(n.path, files)
  BY <1>1, NodeFacts DEF ImportOpens, At
<1>3. \A f \in Files : files[f].state = text[f].state
  BY TextAtStates
<1> HIDE DEF files
<1> QED
  BY <1>1, <1>2, <1>3, OpensOnce

LEMMA StartOnce ==
    ASSUME OrderInv, OnceInv, Start
    PROVE  OnceInv'
<1>1. semas = <<>> /\ MainPath \in Paths /\ text \in Texts /\ Grown(text, text)
  BY FileSystemAssumption, GrownItself DEF Start, OrderInv
<1>2. frames = <<>>
  <2>1. Len(frames) \in Nat /\ \A k \in 1..Len(frames) : frames[k].sema \in 1..Len(semas)
    BY FrameFacts DEF OrderInv
  <2>2. Len(semas) = 0
    BY <1>1
  <2>3. Len(frames) = 0
    BY <2>1, <2>2
  <2>4. frames \in Seq([sema : 1..Len(semas), back : Dirs])
    BY DEF OrderInv, TypeOK
  <2> QED
    BY ONLY <2>3, <2>4, EmptySeq
<1>3. CASE Opens(MainPath, text)
  BY <1>1, <1>2, <1>3, OpensOnce
<1>4. CASE Fails(MainPath, text) /\ UNCHANGED <<cwd, semas, frames, modules, Later>>
  <2>1. StaysExhausted
    BY <1>4, DescriptorFacts DEF StaysExhausted, OrderInv
  <2> QED
    BY <1>1, <1>4, <2>1, FailsText, FailsStates, SameOnce
<1> QED
  BY <1>3, <1>4 DEF Start

(***************************************************************************)
(* Closing a file                                                          *)
(***************************************************************************)
\* The calls that go on are for other files than the one that may be listed,
\* for either of two reasons.
LEMMA OthersGoOn ==
    ASSUME OrderInv, OnceInv, Close,
           (Linkless /\ ~Exhausted)' \/ ~ImportCycle',
           text' \in Texts, Grown(text, text'), StaysExhausted
    PROVE  /\ FilesApart
           /\ \A k \in 1..Len(frames) - 1 : FrameSema(k).file # S.file
<1>1. (Exhausted => Exhausted') /\ (ImportCycle => ImportCycle')
  BY CycleStays DEF StaysExhausted
<1>2. FilesApart
  BY <1>1 DEF OnceInv
<1>3. CASE Linkless /\ ~Exhausted
  BY <1>2, <1>3, TwinsDoNotClose
<1>4. CASE ~ImportCycle'
  <2> SUFFICES ASSUME NEW k \in 1..Len(frames) - 1, FrameSema(k).file = S.file PROVE FALSE
    BY <1>2
  <2>1. Len(frames) \in Nat /\ S = FrameSema(Len(frames))
    BY ReadingFacts DEF Close, FrameSema
  <2>2. k \in 1..Len(frames) /\ Len(frames) \in 1..Len(frames) /\ k < Len(frames)
    BY <2>1
  <2> QED
    BY <1>4, <2>1, <2>2, TwinsCircle
<1> QED
  BY <1>1, <1>3, <1>4

LEMMA CloseApart ==
    ASSUME OrderInv, FilesApart, Close, FramesGoOn(Len(frames) - 1),
           \A k \in 1..Len(frames) - 1 : FrameSema(k).file # S.file
    PROVE  FilesApart'
<1> DEFINE N == Len(frames)
           Q == Len(modules)
<1>1. /\ N \in Nat /\ N \in 1..N /\ S = FrameSema(N) /\ I \in 1..Len(semas) /\ S = semas[I]
      /\ Q \in Nat
  <2>1. Reading
    BY DEF Close
  <2>2. /\ N \in Nat \ {0} /\ S = FrameSema(N) /\ I \in 1..Len(semas) /\ S = semas[I]
    BY <2>1, ReadingFacts DEF FrameSema
  <2>3. Q \in Nat
    BY PassNumbers
  <2>4. N \in 1..N
    BY <2>2
  <2> QED
    BY <2>2, <2>3, <2>4
<1>2. ListingFacts
  BY CloseLists
<1>3. ASSUME NEW i \in 1..Q
      PROVE  /\ semas'[modules'[i]].file = semas[modules[i]].file
             /\ semas'[modules'[i]].file # S.file
  <2>1. semas[modules[i]].file # S.file
    BY <1>1 DEF FilesApart, FrameSema
  <2> QED
    BY <1>2, <2>1, PassNumbers DEF FramesGoOn, ListingFacts
<1>4. ASSUME NEW i \in 1..Len(modules'), i \notin 1..Q
      PROVE  i = Q + 1 /\ semas'[modules'[i]].file = S.file
  <2>1. i = Q + 1 /\ modules'[i] = I
    BY <1>1, <1>2, <1>4 DEF ListingFacts
  <2> QED
    BY <1>1, <2>1 DEF FramesGoOn
<1>5. ASSUME NEW k \in 1..N - 1
      PROVE  /\ k \in 1..N
             /\ semas'[frames'[k].sema].file = FrameSema(k).file
             /\ FrameSema(k).file # S.file
  <2>1. k \in 1..N
    BY <1>1
  <2>2. frames[k].sema \in 1..Len(semas) /\ frames'[k].sema = frames[k].sema
    BY <2>1, FrameSemaFacts DEF FramesGoOn
  <2>3. FrameSema(k).file # S.file
    OBVIOUS
  <2> QED
    BY <2>1, <2>2, <2>3 DEF FramesGoOn, FrameSema
<1>6. ASSUME NEW i \in 1..Len(modules'), NEW j \in 1..Len(modules'), i # j
      PROVE  semas'[modules'[i]].file # semas'[modules'[j]].file
  <2>1. CASE i \in 1..Q /\ j \in 1..Q
    <3>1. semas[modules[i]].file # semas[modules[j]].file
      BY <1>6, <2>1 DEF FilesApart
    <3> QED
      BY <1>3, <2>1, <3>1
  <2>2. CASE i \notin 1..Q
    <3>1. j \in 1..Q
      BY <1>4, <1>6, <2>2
    <3> QED
      BY <1>3, <1>4, <2>2, <3>1
  <2>3. CASE i \in 1..Q /\ j \notin 1..Q
    BY <1>3, <1>4, <2>3
  <2> QED
    BY <2>1, <2>2, <2>3
<1>7. ASSUME NEW k \in 1..N - 1, NEW i \in 1..Len(modules')
      PROVE  semas'[frames'[k].sema].file # semas'[modules'[i]].file
  <2>1. CASE i \in 1..Q
    <3>1. FrameSema(k).file # semas[modules[i]].file
      BY <1>5, <2>1 DEF FilesApart, FrameSema
    <3> QED
      BY <1>3, <1>5, <2>1, <3>1
  <2>2. CASE i \notin 1..Q
    BY <1>4, <1>5, <2>2
  <2> QED
    BY <2>1, <2>2
<1>8. Len(frames') = N - 1
  BY DEF FramesGoOn
<1> QED
  BY <1>6, <1>7, <1>8 DEF FilesApart

LEMMA CloseTakesNone == ASSUME Close PROVE StaysExhausted
BY DEF Close, StaysExhausted, Exhausted

LEMMA CloseOuterOnce ==
    ASSUME OrderInv, OnceInv, Close, Len(frames) = 1
    PROVE  OnceInv'
<1>1. /\ Len(frames') = 0 /\ semas' = semas
  <2> DEFINE Frame == [sema : 1..Len(semas), back : Dirs]
  <2>1. frames \in Seq(Frame) /\ frames # <<>>
    BY ReadingFacts DEF Close, Reading
  <2> HIDE DEF Frame
  <2>2. Len(Front(frames)) = 0
    BY <2>1, FrontFacts
  <2> QED
    BY <2>2 DEF Close
<1>2. FramesGoOn(0)
  <2>1. text' \in Texts /\ Grown(text, text') /\ StaysParsed /\ StaysExhausted
    BY CloseText, CloseStates, CloseTakesNone
  <2> QED
    BY <1>1, <2>1 DEF FramesGoOn
<1>3. 0 = Len(frames) - 1
  OBVIOUS
<1>4. NoFurther'
  BY <1>1 DEF NoFurther
<1>5. (Linkless /\ ~Exhausted)' \/ ~ImportCycle' => FilesApart'
  BY <1>2, <1>3, OthersGoOn, CloseApart DEF FramesGoOn
<1> QED
  BY <1>2, <1>4, <1>5, StillByPath, StillCalled DEF OnceInv

LEMMA CloseInnerOnce ==
    ASSUME OrderInv, OnceInv, Close, Len(frames) # 1
    PROVE  OnceInv'
<1> DEFINE N == Len(frames)
           L == Len(frames) - 1
<1>1. /\ N \in Nat /\ N > 1 /\ L \in 1..L
      /\ Caller \in 1..Len(semas) /\ Len(semas[Caller].ast) \in Nat
      /\ ImportDue \in Nodes /\ ImportDue.kind = "import"
      /\ semas' = Imported(Caller, ImportDue, Answer)
  BY CallerFacts
<1>2. /\ L \in Nat /\ L <= N /\ L \in 1..N /\ N \in 1..N /\ L < N /\ L + 1 = N
      /\ Caller = frames[L].sema /\ S = FrameSema(N)
  <2>1. S = FrameSema(N)
    BY ReadingFacts DEF Close, FrameSema
  <2> QED
    BY <1>1, <2>1 DEF Caller
<1>3. text' \in Texts /\ Grown(text, text') /\ StaysParsed /\ StaysExhausted
  BY CloseText, CloseStates, CloseTakesNone
<1>4. MovesOn(Caller)
  <2> DEFINE known == Known(Len(modules))'
  <2>1. /\ Answer \in Nat
        /\ Answer # 0 => Answer \in known /\ semas[Answer] \in Sema /\ LeadsTo(semas[Answer], Answer, known)
        /\ LeadsTo(semas[Caller], Caller, known)
    BY AnswerFacts
  <2> HIDE DEF known
  <2>2. \E s : \E decl \in Decl :
            /\ Filled(semas[Caller], s) /\ semas' = With(Caller, s, decl, NoDecl)
            /\ HeldAfter(s, Caller, ImportDue, Answer)
            /\ Onward /\ MovesOn(Caller)
    BY <1>1, <1>3, <2>1, ImportGoesOn
  <2> QED
    BY <2>2
<1>5. /\ Len(frames') = L
      /\ \A k \in 1..L : frames'[k] = frames[k]
  <2> DEFINE Frame == [sema : 1..Len(semas), back : Dirs]
  <2>1. frames \in Seq(Frame) /\ frames # <<>>
    BY ReadingFacts DEF Close, Reading
  <2> HIDE DEF Frame
  <2>2. Len(Front(frames)) = Len(frames) - 1 /\ \A k \in 1..Len(frames) - 1 : Front(frames)[k] = frames[k]
    BY <2>1, FrontFacts
  <2> QED
    BY <2>2 DEF Close
<1>6. ASSUME NEW k \in 1..L - 1
      PROVE  k \in 1..N /\ k + 1 \in 1..N - 1 /\ k < L
  BY <1>2
<1>7. FramesGoOn(L)
  <2>1. ASSUME NEW k \in 1..L - 1 PROVE semas'[frames[k].sema] = FrameSema(k)
    <3>1. frames[k].sema \in 1..Len(semas) /\ frames[L].sema \in 1..Len(semas)
      BY <1>2, <1>6, FrameSemaFacts
    <3>2. frames[k].sema < frames[L].sema
      BY <1>2, <1>6 DEF OrderInv, EachOnce
    <3>3. frames[k].sema # Caller
      BY <1>2, <3>1, <3>2
    <3> QED
      BY <1>4, <3>1, <3>3 DEF MovesOn, FrameSema
  <2>2. /\ Len(semas') = Len(semas)
        /\ \A j \in 1..Len(semas) : semas'[j].file = semas[j].file /\ semas'[j].dir = semas[j].dir
    BY <1>4 DEF MovesOn
  <2>3. \A k \in 1..L : frames'[k].sema = frames[k].sema
    BY <1>5
  <2> HIDE DEF L
  <2> QED
    BY <1>2, <1>3, <1>5, <2>1, <2>2, <2>3 DEF FramesGoOn
<1>8. ASSUME Linkless, ~Exhausted, NEW k \in 1..L - 1, FrameSema(k).file = FrameSema(L).file
      PROVE  Len(semas'[frames[L].sema].ast) <= Len(FrameSema(k).ast)
  <2>1. Len(FrameSema(L).ast) <= Len(FrameSema(k).ast)
    BY <1>2, <1>6, <1>8 DEF OnceInv, NoFurther, FrameSema
  <2>2. SUFFICES ASSUME Len(FrameSema(k).ast) = Len(FrameSema(L).ast) PROVE FALSE
    <3>1. Len(FrameSema(L).ast) \in Nat /\ Len(FrameSema(k).ast) \in Nat
      BY <1>2, <1>6, FrameSemaFacts
    <3>2. Len(semas'[frames[L].sema].ast) = Len(FrameSema(L).ast) + 1
      BY <1>2, <1>4 DEF MovesOn, FrameSema
    <3> HIDE DEF L
    <3> QED
      BY <2>1, <3>1, <3>2
  <2>3. LET s == FrameSema(L)
            nodes == text[s.file].nodes
        IN  /\ k + 1 \in 1..Len(frames)
            /\ Len(s.ast) < Len(nodes)
            /\ nodes[Len(s.ast) + 1].kind = "import"
            /\ Finds[<<s.dir, nodes[Len(s.ast) + 1].path>>] = FrameSema(k + 1).file
    BY <1>2, <1>6, <1>8, <2>2, TwinsImport
  <2>4. LET s == FrameSema(L)
            nodes == text[s.file].nodes
        IN  FrameSema(N).file = Finds[<<s.dir, nodes[Len(s.ast) + 1].path>>]
    <3>1. L \in 1..Len(frames) - 1
      BY <1>1
    <3> HIDE DEF L, N
    <3>2. FrameSema(L + 1).file =
             Finds[<<FrameSema(L).dir, text[FrameSema(L).file].nodes[Len(FrameSema(L).ast) + 1].path>>]
      BY <3>1 DEF OnceInv, CalledByImport, FrameSema
    <3> QED
      BY <1>2, <3>2
  <2>5. FrameSema(k + 1).file = S.file
    BY <1>2, <2>3, <2>4
  <2> QED
    BY <1>6, <2>5, TwinsDoNotClose, <1>8
<1>9. /\ Linkless /\ ~Exhausted => NoFurther'
      /\ (Linkless /\ ~Exhausted)' \/ ~ImportCycle' => FilesApart'
  <2>1. ASSUME Linkless, ~Exhausted PROVE NoFurther'
    <3> HIDE DEF L
    <3> QED
      BY <1>7, <1>8, <2>1, StillNoFurther
  <2>2. (Linkless /\ ~Exhausted)' \/ ~ImportCycle' => FilesApart'
    BY <1>3, <1>7, OthersGoOn, CloseApart
  <2> QED
    BY <2>1, <2>2
<1>10. OpenedByPath' /\ CalledByImport'
  <2> HIDE DEF L
  <2> QED
    BY <1>7, StillByPath, StillCalled
<1>11. Exhausted => Exhausted'
  BY <1>3 DEF StaysExhausted
<1> QED
  BY <1>9, <1>10, <1>11 DEF OnceInv

LEMMA CloseOnce == ASSUME OrderInv, OnceInv, Close PROVE OnceInv'
BY CloseOuterOnce, CloseInnerOnce

(***************************************************************************)
(* The loops                                                               *)
(***************************************************************************)
LEMMA AnalyseOnce ==
    ASSUME OrderInv, OnceInv, Analyse
    PROVE  OnceInv'
<1>1. /\ text' \in Texts /\ Grown(text, text') /\ StaysParsed /\ StaysExhausted
      /\ UNCHANGED <<frames, modules>>
  BY GrownItself DEF Analyse, Fixed, StaysParsed, StaysExhausted, Exhausted, OrderInv
<1>2. CASE semas' = semas
  BY <1>1, <1>2, SameOnce
<1>3. CASE \E t : Analysed(t) /\ semas' = [semas EXCEPT ![M] = t]
  <2>1. PICK t : Analysed(t) /\ semas' = [semas EXCEPT ![M] = t]
    BY <1>3
  <2>2. /\ at.module \in 1..Len(modules) /\ M = modules[at.module] /\ M \in 1..Len(semas)
    BY DueFacts DEF Analyse, InLoop
  <2>3. semas \in Seq(Sema) /\ t \in Sema
    BY <2>1 DEF Analysed, OrderInv, TypeOK
  <2>4. /\ Len(semas') = Len(semas) /\ semas'[M] = t
        /\ \A j \in 1..Len(semas) : j # M => semas'[j] = semas[j]
    BY <2>1, <2>2, <2>3, ExceptSeq
  <2>5. \A j \in 1..Len(semas) : semas'[j].file = semas[j].file /\ semas'[j].dir = semas[j].dir
    BY <2>1, <2>4 DEF Analysed
  <2>6. \A k \in 1..Len(frames) : semas'[frames[k].sema] = FrameSema(k)
    <3>1. \A k \in 1..Len(frames) : frames[k].sema # M /\ frames[k].sema \in 1..Len(semas)
      BY <2>2, FrameSemaFacts DEF OrderInv, EachOnce
    <3> QED
      BY <2>4, <3>1 DEF FrameSema
  <2>7. Len(frames) \in Nat
    BY FrameFacts DEF OrderInv
  <2>8. FramesGoOn(Len(frames))
    <3>1. \A k \in 1..Len(frames) - 1 : k \in 1..Len(frames)
      BY <2>7
    <3>2. Len(frames) <= Len(frames)
      BY <2>7
    <3> QED
      BY <1>1, <2>4, <2>5, <2>6, <2>7, <3>1, <3>2 DEF FramesGoOn
  <2>9. frames # <<>> => Len(frames) \in 1..Len(frames)
    <3>1. frames \in Seq([sema : 1..Len(semas), back : Dirs])
      BY DEF OrderInv, TypeOK
    <3>2. frames # <<>> => Len(frames) # 0
      BY <3>1, EmptySeq
    <3> QED
      BY <2>7, <3>2
  <2> QED
    BY <1>1, <2>6, <2>8, <2>9, StillOnce
<1> QED
  BY <1>2, <1>3, AnalyseFacts

(***************************************************************************)
(* The invariant and what follows from it                                  *)
(***************************************************************************)
LEMMA InitOnceInv == Init => OnceInv
<1> SUFFICES ASSUME Init PROVE OnceInv
  OBVIOUS
<1>1. semas = <<>> /\ frames = <<>> /\ modules = <<>>
  BY DEF Init
<1>2. Len(semas) = 0 /\ Len(frames) = 0 /\ Len(modules) = 0
  BY <1>1
<1>3. OpenedByPath /\ CalledByImport
  BY <1>2 DEF OpenedByPath, CalledByImport
<1>4. FilesApart /\ NoFurther
  BY <1>2 DEF FilesApart, NoFurther
<1> QED
  BY <1>3, <1>4 DEF OnceInv

LEMMA NextOnceInv ==
    ASSUME OrderInv, OnceInv, [Next]_vars
    PROVE  OnceInv'
<1>1. CASE UNCHANGED <<text, opened, semas, frames, modules>>
  <2>1. text' \in Texts /\ Grown(text, text') /\ StaysParsed /\ StaysExhausted
    BY <1>1, GrownItself DEF OrderInv, StaysParsed, StaysExhausted, Exhausted
  <2> QED
    BY <1>1, <2>1, SameOnce
<1>2. NextModule \/ EndLoop \/ InitNode \/ EmitNode \/ UNCHANGED vars
         => UNCHANGED <<text, opened, semas, frames, modules>>
  BY DEF NextModule, EndLoop, InitNode, EmitNode, vars, Fixed
<1>3. ASSUME NEW n \in Upcoming,
             \/ ImportOpens(n) \/ ImportKnown(n) \/ ImportFails(n)
             \/ ReadPlain(n) \/ ReadVal(n)
             \/ ReadFromAll(n) \/ ReadFromItem(n) \/ ReadUse(n)
             \/ ReadBad(n)
      PROVE  OnceInv'
  BY <1>3, ImportOpensOnce, ImportKnownOnce, ImportFailsOnce, ReadsOnce
<1> QED
  BY <1>1, <1>2, <1>3, StartOnce, CloseOnce, AnalyseOnce DEF Next

\* All parts of the inductive invariant, for any file system and any text of
\* the files: sema_project_add_module_at, the name tables, the analysis and
\* the two passes of llvm_emit_project keep them.
THEOREM Invariance == Spec => []IInv
<1>1. Spec => []OnceInv
  <2>1. Init => OnceInv
    BY InitOnceInv
  <2>2. OrderInv /\ OnceInv /\ [Next]_vars => OnceInv'
    BY NextOnceInv
  <2>3. Spec => []OrderInv
    BY OrderIsKept
  <2> QED
    BY <2>1, <2>2, <2>3, PTL DEF Spec
<1>2. Spec => []OrderInv
  BY OrderIsKept
<1>3. Spec => []PassInv
  BY PassesAreKept
<1>4. OrderInv /\ PassInv /\ OnceInv => IInv
  BY DEF IInv
<1> QED
  BY <1>1, <1>2, <1>3, <1>4, PTL

\* sema_project_add_module_at lists a file only when all it imports has been
\* read, and looks for it only among the listed ones; still, whatever the links
\* and wherever imports fail, no file is listed twice unless files import each
\* other in a circle, and without links not there either before the process
\* has run out of the descriptors that slice_read_from_file leaves open.
THEOREM FilesListedOnce == Spec => []ListedOnce
<1>1. IInv => ListedOnce
  BY DEF IInv, OnceInv, FilesApart, ListedOnce
<1> QED
  BY <1>1, Invariance, PTL

(***************************************************************************)
(* A full stack                                                            *)
(***************************************************************************)
\* Bound: the C stack takes a call of add_module_at for every file.
StackTakesAll == IsFiniteSet(Files) /\ Cardinality(Files) <= MaxDepth

\* The innermost call's file imports the one that the next declaration names.
LEMMA TopImports ==
    ASSUME OrderInv, OnceInv, Reading, text' \in Texts,
           NEW n, n = text'[S.file].nodes[K], K <= Len(text'[S.file].nodes), n.kind = "import",
           NEW f, f = S.file, NEW g, g = Finds[<<cwd, n.path>>]
    PROVE  Imports(f, g)'
<1>1. I \in 1..Len(semas) /\ S = semas[I] /\ cwd = S.dir /\ K \in Nat \ {0} /\ f \in Files
  BY ReadingFacts DEF Sema
<1>2. PICK p \in Dirs \X Paths : f = Finds[p] /\ cwd = Enters[p]
  BY <1>1 DEF OnceInv, OpenedByPath
<1>3. K \in 1..Len(text'[f].nodes)
  <2>1. text'[f].nodes \in Seq(Nodes)
    BY <1>1 DEF Texts
  <2>2. Len(text'[f].nodes) \in Nat
    BY <2>1, LenProperties
  <2> QED
    BY <1>1, <2>2
<1>4. \E q \in Dirs \X Paths : Finds[q] = f /\ Finds[<<Enters[q], n.path>>] = g
  BY <1>2
<1>5. PICK k : k = K
  OBVIOUS
<1>6. k \in 1..Len(text'[f].nodes) /\ text'[f].nodes[k] = n
  BY <1>3, <1>5
<1> QED
  BY <1>4, <1>6 DEF Imports

\* One call more than there are files is for a file that is being read.
LEMMA FullStack ==
    ASSUME StackTakesAll, OrderInv, OnceInv, Reading, ~(Len(frames) < MaxDepth),
           text' \in Texts, Grown(text, text'),
           NEW n, n = text'[S.file].nodes[K], K <= Len(text'[S.file].nodes), n.kind = "import",
           NEW g \in Files, g = Finds[<<cwd, n.path>>]
    PROVE  ImportCycle'
<1> DEFINE N == Len(frames)
<1>1. N \in Nat \ {0} /\ N \in 1..N /\ S = FrameSema(N)
  BY ReadingFacts DEF FrameSema
<1>2. PICK file : file = [k \in 1..N + 1 |-> IF k = N + 1 THEN g ELSE FrameSema(k).file]
  OBVIOUS
<1>3. /\ file \in [1..N + 1 -> Files] /\ file[N + 1] = g
      /\ \A k \in 1..N : file[k] = FrameSema(k).file
  <2>1. \A k \in 1..N : FrameSema(k).file \in Files
    BY FrameSemaFacts
  <2> QED
    BY <1>1, <1>2, <2>1
<1>4. ASSUME NEW k \in 1..N PROVE Imports(file[k], file[k + 1])'
  <2>1. CASE k < N
    <3>1. k + 1 \in 1..N
      BY <1>1, <2>1
    <3> QED
      BY <1>3, <2>1, <3>1, CallsImport
  <2>2. CASE k = N
    <3>1. file[k] = S.file /\ file[k + 1] = Finds[<<cwd, n.path>>]
      BY <1>1, <1>3, <2>2
    <3> QED
      BY <3>1, TopImports
  <2> QED
    BY <1>1, <2>1, <2>2
<1>5. PICK k \in 1..N + 1, l \in 1..N + 1 : k < l /\ file[k] = file[l]
  <2>1. Cardinality(1..N + 1) = N + 1 /\ IsFiniteSet(1..N + 1)
    BY <1>1, FS_Interval
  <2>2. Cardinality(Files) < N + 1
    <3>1. Cardinality(Files) \in Nat /\ MaxDepth \in Nat
      BY FS_CardinalityType, SizesAssumption DEF StackTakesAll
    <3> QED
      BY <1>1, <3>1 DEF StackTakesAll
  <2>3. PICK a \in 1..N + 1, b \in 1..N + 1 : a # b /\ file[a] = file[b]
    <3>1. IsFiniteSet(Files) /\ file \in [1..N + 1 -> Files] /\ Cardinality(Files) < Cardinality(1..N + 1)
      BY <1>3, <2>1, <2>2 DEF StackTakesAll
    <3>2. IsFiniteSet(1..N + 1)
      BY <2>1
    <3> QED
      BY ONLY <3>1, <3>2, FS_PigeonHole
  <2>4. a < b \/ b < a
    BY <1>1, <2>3
  <2> QED
    BY <2>3, <2>4
<1>6. \A m \in 1..(N + 1) - 1 : Imports(file[m], file[m + 1])'
  BY <1>1, <1>4
<1>7. N + 1 \in Nat
  BY <1>1
<1> QED
  BY <1>3, <1>5, <1>6, <1>7, RowIsCircle

\* A stack that is full stays so: nothing runs any more.
LEMMA OverflowStays ==
    ASSUME OrderInv, OnceInv, StackTakesAll, [Next]_vars, stage = "overflow" => ImportCycle
    PROVE  (stage = "overflow" => ImportCycle)'
<1> SUFFICES ASSUME stage' = "overflow" PROVE ImportCycle'
  OBVIOUS
<1>1. CASE UNCHANGED vars
  <2>1. text' = text /\ stage' = stage
    BY <1>1 DEF vars
  <2>2. \A f, g : Imports(f, g)' <=> Imports(f, g)
    BY ONLY <2>1 DEF Imports
  <2>3. ImportCycle
    BY <2>1
  <2> QED
    BY ONLY <2>2, <2>3 DEF ImportCycle
<1>2. CASE Start
  <2>1. Opens(MainPath, text) /\ ~(Len(frames) < MaxDepth)
    BY <1>2 DEF Start, Opens
  <2>2. Len(semas) = 0 /\ Len(frames) \in Nat /\ \A k \in 1..Len(frames) : frames[k].sema \in 1..Len(semas)
    BY <1>2, FrameFacts DEF OrderInv, Start
  <2>3. Len(frames) = 0
    BY <2>2
  <2> QED
    BY <2>1, <2>3, SizesAssumption
<1>3. CASE \E n \in Upcoming : ImportOpens(n)
  <2>1. PICK n \in Upcoming : ImportOpens(n)
    BY <1>3
  <2>2. PICK files : files = TextAt(n)
    OBVIOUS
  <2>3. /\ Reading /\ n \in Nodes /\ files \in Texts /\ Grown(text, files)
        /\ K <= Len(files[S.file].nodes) /\ files[S.file].nodes[K] = n
    BY <2>2, TextFacts
  <2>4. n.kind = "import" /\ n.path \in Paths /\ Opens(n.path, files)
    BY <2>1, <2>2, <2>3, NodeFacts DEF ImportOpens, At
  <2>5. /\ text' \in Texts /\ Grown(text, text')
        /\ \A g \in Files : text'[g].nodes = files[g].nodes
    BY <2>3, <2>4, OpensText
  <2>6. S.file \in Files /\ Finds[<<cwd, n.path>>] \in Files
    BY <2>3, <2>4, ReadingFacts, FileSystemAssumption DEF Opens, Sema
  <2>7. ~(Len(frames) < MaxDepth)
    BY <2>3, <2>4 DEF Opens, Reading
  <2> QED
    BY <2>3, <2>4, <2>5, <2>6, <2>7, FullStack
<1>4. ASSUME NEW n \in Upcoming,
             \/ ImportKnown(n) \/ ImportFails(n)
             \/ ReadPlain(n) \/ ReadVal(n)
             \/ ReadFromAll(n) \/ ReadFromItem(n) \/ ReadUse(n)
             \/ ReadBad(n)
      PROVE  FALSE
  <2>1. stage = "read"
    BY DEF Upcoming, Reading
  <2>2. stage' = stage
    BY <1>4 DEF ImportKnown, ImportFails, ReadPlain, ReadVal, ReadFromAll, ReadFromItem, ReadUse,
                ReadBad, Take, Refuse
  <2> QED
    BY <2>1, <2>2
<1>5. CASE Close \/ NextModule \/ Analyse \/ EndLoop \/ InitNode \/ EmitNode
  <2>1. stage # "overflow"
    BY <1>5 DEF Close, Reading, NextModule, Analyse, EndLoop, InitNode, EmitNode, InLoop
  <2>2. ~NextModule /\ ~Analyse /\ ~InitNode /\ ~EmitNode
    BY <2>1 DEF NextModule, Analyse, InitNode, EmitNode
  <2>3. ~Close
    BY <2>1 DEF Close
  <2>4. ~EndLoop
    BY <2>1 DEF EndLoop
  <2> QED
    BY <1>5, <2>2, <2>3, <2>4
<1> QED
  BY <1>1, <1>2, <1>3, <1>4, <1>5 DEF Next

\* sema_project_add_module_at calls itself for every import.  When the stack
\* takes a call for each file, it is full only if files import each other in
\* a circle, whatever else they hold and whichever of them fail.
THEOREM OverflowNeedsCycle == ASSUME StackTakesAll PROVE Spec => []OverflowOnlyOnCycle
<1> DEFINE Inv == stage = "overflow" => ImportCycle
<1>1. Init => Inv
  BY DEF Init
<1>2. OrderInv /\ OnceInv /\ Inv /\ [Next]_vars => Inv'
  BY OverflowStays
<1>3. IInv => OrderInv /\ OnceInv
  BY DEF IInv
<1>4. Inv => OverflowOnlyOnCycle
  BY DEF OverflowOnlyOnCycle
<1> HIDE DEF Inv
<1> QED
  BY <1>1, <1>2, <1>3, <1>4, Invariance, PTL DEF Spec

=============================================================================
