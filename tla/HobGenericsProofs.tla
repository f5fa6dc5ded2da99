-------------------------- MODULE HobGenericsProofs --------------------------
(***************************************************************************)
(* Proofs about HobGenerics, for any number of functions, statements and   *)
(* types: what a parameter stands for, which function a call through a     *)
(* table reaches, and that one type is never mistaken for another.         *)
(***************************************************************************)
EXTENDS HobGenerics, HobSeqLemmas, FiniteSetTheorems

(***************************************************************************)
(* Types and replacements                                                  *)
(***************************************************************************)
LEMMA RefFacts ==
    /\ \A t \in Types : ~IsGeneric(t) /\ t # NoType /\ t # Self /\ t \notin Nat
    /\ \A g \in Funcs : IsGeneric(g) /\ g # NoType /\ g # Self /\ g \notin Types /\ g \in Nat
    /\ IsGeneric(Self) /\ Self # NoType /\ Self \notin Nat /\ Self \notin Types
    /\ ~IsGeneric(NoType) /\ NoType \notin Nat /\ NoType \notin Types
BY TypesAssumption DEF IsGeneric, Replaceable, Funcs

Replacement ==
    {r \in [Replaceable -> Types \cup Funcs \cup {NoType}] : \A g \in Funcs : r[g] \notin Funcs}

LEMMA ReplacementFacts ==
    ASSUME NEW r \in Replacement
    PROVE  /\ \A g \in Funcs : r[g] \in Types \cup {NoType}
           /\ r[Self] \in Types \cup Funcs \cup {NoType}
           /\ \A x \in Refs : IsGeneric(x) => r[x] \in Refs /\ (x # Self => ~IsGeneric(r[x]))
           /\ \A x \in Refs : IsGeneric(x) /\ IsGeneric(r[x]) => x = Self /\ r[x] # Self
BY RefFacts DEF Replacement, IsGeneric, Replaceable, Refs

\* llvm_resolve_type follows at most two replacements.
LEMMA ResolveFacts ==
    ASSUME NEW r \in Replacement
    PROVE  /\ \A t \in Types \cup {NoType} : Resolve(r, t) = t
           /\ \A g \in Funcs : Resolve(r, g) = r[g]
           /\ r[Self] \notin Funcs => Resolve(r, Self) = r[Self]
           /\ r[Self] \in Funcs => Resolve(r, Self) = r[r[Self]]
<1> DEFINE P(to) == to = [x \in Refs |-> IF IsGeneric(x) THEN to[r[x]] ELSE x]
           last(x) == IF IsGeneric(x) THEN r[x] ELSE x
           sol == [x \in Refs |-> last(last(x))]
           to == CHOOSE f : P(f)
<1>1. P(sol)
  <2>1. \A x \in Refs : sol[x] = IF IsGeneric(x) THEN sol[r[x]] ELSE x
    <3>1. \A x \in Refs : IsGeneric(x) => r[x] \in Refs /\ ~IsGeneric(last(r[x]))
      BY RefFacts DEF Replacement, IsGeneric, Replaceable, Refs
    <3> QED
      BY <3>1
  <2> QED
    BY <2>1
<1>2. P(to)
  BY <1>1
<1>3. \A x \in Refs : to[x] = IF IsGeneric(x) THEN to[r[x]] ELSE x
  <2> HIDE DEF to
  <2> QED
    BY <1>2
<1>4. \A x \in Refs : Resolve(r, x) = to[x]
  BY DEF Resolve
<1> QED
  <2> HIDE DEF to, P
  <2> QED
    BY <1>3, <1>4, RefFacts DEF Replacement, IsGeneric, Replaceable, Refs

\* So does the look-up of a member, but it stops before a type nothing replaces.
LEMMA MembersFacts ==
    ASSUME NEW r \in Replacement
    PROVE  /\ \A t \in Types : MembersOf(r, t) = t
           /\ \A g \in Funcs : MembersOf(r, g) = IF r[g] = NoType THEN g ELSE r[g]
           /\ r[Self] \in Types => MembersOf(r, Self) = r[Self]
           /\ r[Self] \in Funcs => MembersOf(r, Self) = MembersOf(r, r[Self])
<1> DEFINE goes(x) == IsGeneric(x) /\ r[x] # NoType
           P(of) == of = [x \in Refs |-> IF IsGeneric(x) /\ r[x] # NoType THEN of[r[x]] ELSE x]
           last(x) == IF goes(x) THEN r[x] ELSE x
           sol == [x \in Refs |-> last(last(x))]
           of == CHOOSE f : P(f)
<1>1. P(sol)
  <2>1. \A x \in Refs : sol[x] = IF goes(x) THEN sol[r[x]] ELSE x
    <3>1. \A x \in Refs : goes(x) => r[x] \in Refs /\ ~goes(last(r[x]))
      BY RefFacts DEF Replacement, IsGeneric, Replaceable, Refs
    <3> QED
      BY <3>1
  <2> QED
    BY <2>1
<1>2. P(of)
  BY <1>1
<1>3. \A x \in Refs : of[x] = IF goes(x) THEN of[r[x]] ELSE x
  <2> HIDE DEF of
  <2> QED
    BY <1>2
<1>4. \A x \in Refs : MembersOf(r, x) = of[x]
  BY DEF MembersOf
<1> QED
  <2> HIDE DEF of, P
  <2> QED
    BY <1>3, <1>4, RefFacts DEF Replacement, IsGeneric, Replaceable, Refs

\* A type fits a parameter that stands for it, and no other.
LEMMA EqualFacts ==
    ASSUME NEW r \in Replacement, NEW t \in Types, NEW g \in Funcs
    PROVE  /\ TypesEqual(r, t, g) <=> r[g] = t
           /\ TypesEqual(r, g, t) <=> r[g] = t
<1> DEFINE body(e, x, y) ==
              \/ x = y
              \/ IsGeneric(x) /\ ~IsGeneric(y) /\ r[x] # NoType /\ e[<<r[x], y>>]
              \/ ~IsGeneric(x) /\ IsGeneric(y) /\ r[y] # NoType /\ e[<<r[y], x>>]
              \/ /\ IsGeneric(x) /\ IsGeneric(y)
                 /\ IF r[x] = NoType THEN r[y] = x
                    ELSE IF r[y] = NoType THEN r[x] = y
                    ELSE e[<<r[x], r[y]>>]
           P(e) == e = [p \in Refs \X Refs |-> body(e, p[1], p[2])]
           equal == CHOOSE e : P(e)
<1>r. /\ \A x \in Refs : IsGeneric(x) => r[x] \in Refs /\ (x # Self => ~IsGeneric(r[x])) 
      /\ \A x \in Refs : IsGeneric(x) /\ IsGeneric(r[x]) => x = Self /\ r[x] # Self
  BY RefFacts DEF Replacement, IsGeneric, Replaceable, Refs
<1>1. \E e : P(e)
  <2>0. PICK e0 : e0 = [p \in Refs \X Refs |-> p[1] = p[2]]
    OBVIOUS
  <2>1. PICK e1 : e1 = [p \in Refs \X Refs |-> body(e0, p[1], p[2])]
    OBVIOUS
  <2>2. PICK e2 : e2 = [p \in Refs \X Refs |-> body(e1, p[1], p[2])]
    OBVIOUS
  <2>3. ASSUME NEW x \in Refs, NEW y \in Refs
        PROVE  /\ e0[<<x, y>>] <=> x = y
               /\ e1[<<x, y>>] <=> body(e0, x, y)
               /\ e2[<<x, y>>] <=> body(e1, x, y)
    <3> HIDE DEF body
    <3> QED
      BY <2>0, <2>1, <2>2
  <2>4. ASSUME NEW x \in Refs, NEW y \in Refs
        PROVE  e2[<<x, y>>] <=> body(e2, x, y)
    <3>1. ASSUME NEW u \in Refs, NEW v \in Refs, ~IsGeneric(u), ~IsGeneric(v)
          PROVE  /\ e1[<<u, v>>] <=> e0[<<u, v>>]
                 /\ e2[<<u, v>>] <=> e0[<<u, v>>]
      BY <2>3, <3>1
    <3>2. ASSUME NEW u \in Refs, NEW v \in Refs, u # Self, v # Self,
                 ~IsGeneric(u) \/ ~IsGeneric(v)
          PROVE  e2[<<u, v>>] <=> e1[<<u, v>>]
      <4>1. CASE IsGeneric(u)
        BY <2>3, <3>1, <3>2, <4>1, <1>r
      <4>2. CASE IsGeneric(v)
        BY <2>3, <3>1, <3>2, <4>2, <1>r
      <4> QED
        BY <3>1, <4>1, <4>2
    <3>3. CASE IsGeneric(x) /\ ~IsGeneric(y)
      <4>1. r[x] \in Refs /\ r[x] # Self /\ y # Self /\ x # y
        BY <1>r, <3>3, RefFacts
      <4>2. e2[<<r[x], y>>] <=> e1[<<r[x], y>>]
        BY <3>2, <3>3, <4>1
      <4> QED
        BY <2>3, <3>3, <4>1, <4>2
    <3>4. CASE ~IsGeneric(x) /\ IsGeneric(y)
      <4>1. r[y] \in Refs /\ r[y] # Self /\ x # Self /\ x # y
        BY <1>r, <3>4, RefFacts
      <4>2. e2[<<r[y], x>>] <=> e1[<<r[y], x>>]
        BY <3>2, <3>4, <4>1
      <4> QED
        BY <2>3, <3>4, <4>1, <4>2
    <3>5. CASE IsGeneric(x) /\ IsGeneric(y) /\ x # y
      <4>1. /\ r[x] \in Refs /\ r[x] # Self /\ r[y] \in Refs /\ r[y] # Self
            /\ ~IsGeneric(r[x]) \/ ~IsGeneric(r[y])
        BY <1>r, <3>5, RefFacts
      <4>2. e2[<<r[x], r[y]>>] <=> e1[<<r[x], r[y]>>]
        BY <3>2, <4>1
      <4> QED
        BY <2>3, <3>5, <4>1, <4>2
    <3> QED
      BY <2>3, <3>1, <3>3, <3>4, <3>5
  <2>5. e2 = [p \in Refs \X Refs |-> e2[p]]
    BY <2>2
  <2>6. \A p \in Refs \X Refs : p[1] \in Refs /\ p[2] \in Refs /\ p = <<p[1], p[2]>>
    OBVIOUS
  <2>7. \A p \in Refs \X Refs : e2[p] = body(e2, p[1], p[2])
    <3>1. \A p \in Refs \X Refs : e2[p] \in BOOLEAN /\ body(e2, p[1], p[2]) \in BOOLEAN
      BY <2>2
    <3> HIDE DEF body
    <3> QED
      BY <2>4, <2>6, <3>1
  <2>8. P(e2)
    <3> HIDE DEF body
    <3> QED
      BY <2>5, <2>7
  <2> QED
    BY <2>8
<1>2. P(equal)
  BY <1>1
<1>3. \A x \in Refs, y \in Refs : equal[<<x, y>>] = body(equal, x, y)
  <2> HIDE DEF equal, body
  <2> QED
    BY <1>2
<1>4. \A x \in Refs, y \in Refs : TypesEqual(r, x, y) = equal[<<x, y>>]
  BY DEF TypesEqual
<1>5. t \in Refs /\ g \in Refs /\ ~IsGeneric(t) /\ IsGeneric(g) /\ g # Self /\ t # g /\ t # NoType
  BY RefFacts DEF Refs, Replaceable
<1>6. r[g] \in Refs /\ ~IsGeneric(r[g])
  BY <1>r, <1>5
<1>7. equal[<<r[g], t>>] = (r[g] = t)
  <2> HIDE DEF equal
  <2> QED
    BY <1>3, <1>5, <1>6
<1>8. /\ equal[<<t, g>>] = (r[g] # NoType /\ equal[<<r[g], t>>])
      /\ equal[<<g, t>>] = (r[g] # NoType /\ equal[<<r[g], t>>])
  <2> HIDE DEF equal
  <2> QED
    BY <1>3, <1>5
<1> QED
  <2> HIDE DEF equal
  <2> QED
    BY <1>4, <1>5, <1>7, <1>8

(***************************************************************************)
(* Statements                                                              *)
(***************************************************************************)
LEMMA StmtFacts ==
    ASSUME NEW s \in Stmt
    PROVE  /\ s.kind \in {"mention", "op", "return"}
           /\ s.arg \in Types \cup Nat /\ s.ok \in BOOLEAN
           /\ s.kind = "mention" => s.of \in Funcs /\ s.with \in Types /\ s.type \in Funcs
           /\ s.kind = "op" => s.of \in Types \cup Funcs /\ s.type \in Types \cup {Self} /\ s.arg \in Nat
           /\ s.kind # "return" => s.bind \in Binds
BY DEF Stmt

LEMMA TextFacts ==
    ASSUME GenericsTypeOK, NEW g \in Funcs
    PROVE  /\ text[g] \in Seq(Stmt) /\ Len(text[g]) \in Nat
           /\ \A n \in 1..Len(text[g]) : text[g][n] \in Stmt
           /\ tables[g] \in Seq(Types) /\ Len(tables[g]) \in Nat
           /\ \A n \in 1..Len(tables[g]) : tables[g][n] \in Types
           /\ sig[g] \in Seq(Types) /\ Len(sig[g]) \in Nat
           /\ \A n \in 1..Len(sig[g]) : sig[g][n] \in Types
BY LenProperties, ElementOfSeq DEF GenericsTypeOK

\* What a value is in the text of an instance: the parameter, or a type from a table.
LEMMA WrittenFacts ==
    ASSUME GenericsTypeOK, AsRead, NEW g \in Funcs
    PROVE  /\ Written(g, 0) = g
           /\ \A n \in 1..Len(text[g]) :
                 /\ text[g][n].kind = "mention" => Written(g, n) = text[g][n].with
                 /\ text[g][n].kind = "op" => Written(g, n) = Written(g, text[g][n].arg)
<1> DEFINE N == Len(text[g])
           t == text[g]
           step(of, n) == IF n = 0 THEN g
                          ELSE CASE text[g][n].kind = "mention" -> text[g][n].with
                                 [] text[g][n].kind = "op" -> of[text[g][n].arg]
                                 [] OTHER -> NoType
           P(of) == of = [n \in 0..Len(text[g]) |-> step(of, n)]
           Q(of, m) == \A n \in 0..m : of[n] = step(of, n)
           Bad == {m \in 0..N : ~\E of : Q(of, m)}
           of == CHOOSE f : P(f)
<1>1. /\ N \in Nat
      /\ \A n \in 1..N : t[n].kind = "op" => t[n].arg \in 0..n - 1
  <2>1. \A n \in 1..N : t[n] \in Stmt
    BY TextFacts
  <2>2. \A n \in 1..N : t[n].arg \in Types \cup {v \in Values(g) : v < n}
    BY DEF AsRead, ReadRight
  <2>3. \A n \in 1..N : t[n].kind = "op" => t[n].arg \in Nat
    BY <2>1, StmtFacts
  <2>4. ASSUME NEW n \in 1..N, t[n].kind = "op" PROVE t[n].arg \in 0..n - 1
    <3>1. t[n].arg \in Nat /\ t[n].arg < n /\ n \in Nat /\ N \in Nat
      BY <2>2, <2>3, <2>4, RefFacts, TextFacts
    <3> QED
      BY ONLY <3>1
  <2> QED
    BY <2>4, TextFacts
<1>2. Bad = {}
  <2> SUFFICES ASSUME Bad # {} PROVE FALSE
    OBVIOUS
  <2>1. PICK m \in Bad : \A k \in Bad : m =< k
    <3> HIDE DEF Bad
    <3>1. Bad \subseteq Nat
      BY <1>1 DEF Bad
    <3> QED
      BY <3>1, LeastElement
  <2>2. m \in 0..N /\ ~\E f : Q(f, m)
    BY <2>1
  <2>3. m # 0
    <3>1. Q([n \in {0} |-> g], 0)
      OBVIOUS
    <3> QED
      BY <2>2, <3>1
  <2>4. m - 1 \in 0..N /\ m - 1 \notin Bad
    <3>1. m - 1 \in 0..N /\ ~(m =< m - 1)
      BY <1>1, <2>2, <2>3
    <3> QED
      BY <2>1, <3>1
  <2>5. PICK f : Q(f, m - 1)
    BY <2>4
  <2>6. PICK h : h = [n \in 0..m |-> IF n = m THEN step(f, m) ELSE f[n]]
    OBVIOUS
  <2>7. ASSUME NEW n \in 0..m PROVE h[n] = step(h, n)
    <3>0. \A k \in 0..m - 1 : k \in 0..m /\ k # m
      BY <1>1, <2>2
    <3>1. \A k \in 0..m - 1 : h[k] = f[k] /\ k \in 0..m
      <4> HIDE DEF step
      <4> QED
        BY <2>6, <3>0
    <3>2. step(h, n) = step(f, n)
      <4>1. m \in 0..N /\ N \in Nat
        BY <1>1, <2>2
      <4>2. n # 0 => n \in 1..N /\ \A k \in 0..n - 1 : k \in 0..m - 1
        BY ONLY <4>1, n \in 0..m
      <4>3. n # 0 => n \in 1..N /\ (t[n].kind = "op" => t[n].arg \in 0..m - 1)
        BY <1>1, <4>2
      <4> QED
        BY <3>1, <4>3
    <3>3. n = m \/ n \in 0..m - 1
      BY <1>1, <2>2
    <3> HIDE DEF step
    <3> QED
      BY <2>5, <2>6, <3>2, <3>3
  <2> QED
    BY <2>2, <2>7
<1>3. \E f : P(f)
  <2>1. N \notin Bad /\ N \in 0..N
    <3> HIDE DEF Bad
    <3> QED
      BY <1>1, <1>2
  <2>2. PICK f : Q(f, N)
    BY <2>1
  <2>3. PICK h : h = [n \in 0..N |-> f[n]]
    OBVIOUS
  <2>4. \A n \in 0..N : step(h, n) = step(f, n)
    <3>1. \A n \in 0..N : n # 0 => n \in 1..N /\ (t[n].kind = "op" => t[n].arg \in 0..N)
      BY <1>1
    <3> QED
      BY <2>3, <3>1
  <2>5. P(h)
    <3> HIDE DEF step
    <3> QED
      BY <2>2, <2>3, <2>4
  <2> QED
    BY <2>5
<1>4. P(of)
  BY <1>3
<1>5. \A n \in 0..N : of[n] = step(of, n)
  <2> HIDE DEF of, step
  <2> QED
    BY <1>4
<1>6. \A n \in 0..N : Written(g, n) = of[n]
  <2>1. \A n \in 0..N : n \notin Types
    BY <1>1, TypesAssumption
  <2> QED
    BY <2>1 DEF Written
<1> QED
  <2>1. 0 \in 0..N /\ \A n \in 1..N : n \in 0..N /\ n # 0 /\ (t[n].kind = "op" => t[n].arg \in 0..N)
    BY <1>1
  <2>2. of[0] = g
    <3> HIDE DEF of
    <3> QED
      BY <1>5, <2>1
  <2>3. \A n \in 1..N : (t[n].kind = "mention" => of[n] = t[n].with)
                     /\ (t[n].kind = "op" => of[n] = of[t[n].arg])
    <3> HIDE DEF of
    <3> QED
      BY <1>5, <2>1
  <2>4. ASSUME NEW n \in 1..N, t[n].kind = "op" PROVE Written(g, n) = Written(g, t[n].arg)
    <3>1. t[n].arg \in 0..N /\ n \in 0..N
      BY <2>1, <2>4
    <3> HIDE DEF of
    <3> QED
      BY <1>6, <2>3, <2>4, <3>1
  <2>5. Written(g, 0) = g
    <3> HIDE DEF of
    <3> QED
      BY <1>6, <2>1, <2>2
  <2>6. ASSUME NEW n \in 1..N, t[n].kind = "mention" PROVE Written(g, n) = t[n].with
    <3>1. n \in 0..N
      BY <2>1
    <3>2. Written(g, n) = of[n] /\ of[n] = t[n].with
      BY <1>6, <2>3, <2>6, <3>1
    <3> QED
      BY <3>2
  <2> QED
    BY <2>4, <2>5, <2>6

LEMMA TablesFacts ==
    ASSUME GenericsTypeOK
    PROVE  /\ AllTables \subseteq Types
           /\ \A g \in Funcs : \A i \in 1..Len(tables[g]) : tables[g][i] \in AllTables
<1>1. ASSUME NEW g \in Funcs
      PROVE  /\ ToSet(tables[g]) \subseteq Types
             /\ \A i \in 1..Len(tables[g]) : tables[g][i] \in ToSet(tables[g])
  BY TextFacts DEF ToSet
<1> QED
  BY <1>1 DEF AllTables

LEMMA ArgumentFacts ==
    ASSUME GenericsTypeOK, AsRead, NEW g \in Funcs, NEW n \in 1..Len(text[g])
    PROVE  /\ text[g][n] \in Stmt
           /\ text[g][n].arg \in Types \cup Values(g)
           /\ text[g][n].arg \in Nat => text[g][n].arg < n /\ text[g][n].arg \in Values(g)
BY TextFacts, RefFacts DEF AsRead, ReadRight

LEMMA ValueFacts ==
    ASSUME NEW g \in Funcs, NEW v \in Values(g)
    PROVE  \/ v = 0 /\ kinds[g] = "generic"
           \/ v \in 1..Len(text[g]) /\ text[g][v].kind # "return"
BY DEF Values

\* The operand of a call through the table comes from the parameter.
LEMMA TableWritten ==
    ASSUME GenericsTypeOK, AsRead, NEW g \in Funcs, NEW n \in 1..Len(text[g]), ByTable(g, n)
    PROVE  Written(g, text[g][n].arg) = g
<1> DEFINE Bad == {m \in 1..Len(text[g]) : ByTable(g, m) /\ Written(g, m) # g}
<1>1. ASSUME NEW m \in 1..Len(text[g]), ByTable(g, m)
      PROVE  /\ Written(g, m) = Written(g, text[g][m].arg)
             /\ \/ text[g][m].arg = 0
                \/ /\ text[g][m].arg \in 1..Len(text[g]) /\ text[g][m].arg < m
                   /\ ByTable(g, text[g][m].arg)
  <2>1. text[g][m].kind = "op" /\ (text[g][m].arg # 0 => ByTable(g, text[g][m].arg))
    BY <1>1 DEF AsRead, ReadRight, ByTable
  <2>2. text[g][m].arg \in Nat /\ text[g][m].arg < m /\ text[g][m].arg \in Values(g)
    BY <2>1, ArgumentFacts, StmtFacts
  <2> QED
    BY <2>1, <2>2, WrittenFacts, ValueFacts
<1>2. Bad = {}
  <2> SUFFICES ASSUME Bad # {} PROVE FALSE
    OBVIOUS
  <2>1. PICK m \in Bad : \A k \in Bad : m =< k
    <3>1. Bad \subseteq Nat
      OBVIOUS
    <3> HIDE DEF Bad
    <3> QED
      BY <3>1, LeastElement
  <2>2. m \in 1..Len(text[g]) /\ ByTable(g, m) /\ Written(g, m) # g
    BY <2>1
  <2>3. text[g][m].arg \in Bad
    BY <1>1, <2>2, WrittenFacts
  <2>4. text[g][m].arg < m /\ text[g][m].arg \in Nat /\ m \in Nat
    BY <1>1, <2>2, <2>3
  <2>5. m =< text[g][m].arg
    BY <2>1, <2>3
  <2> QED
    BY ONLY <2>4, <2>5
<1> QED
  BY <1>1, <1>2, WrittenFacts

\* What a value is in the text is the type of a table, or the parameter of an instance.
LEMMA WrittenInTables ==
    ASSUME GenericsTypeOK, AsRead, NEW g \in Funcs, NEW v \in Values(g)
    PROVE  Written(g, v) \in AllTables \/ (Written(g, v) = g /\ kinds[g] = "generic")
<1> DEFINE good(u) == Written(g, u) \in AllTables \/ (Written(g, u) = g /\ kinds[g] = "generic")
           Bad == {u \in Values(g) : ~good(u)}
<1>1. PICK m : Bad # {} => m \in Bad /\ \A k \in Bad : m =< k
  <2>1. Bad \subseteq Nat
    BY ValueFacts, TextFacts
  <2> HIDE DEF Bad
  <2> QED
    BY <2>1, LeastElement
<1> SUFFICES ASSUME Bad # {} PROVE FALSE
  OBVIOUS
<1>2. m \in Values(g) /\ ~good(m) /\ \A k \in Values(g) : ~good(k) => m =< k
  BY <1>1
<1>3. m \in 1..Len(text[g]) /\ text[g][m].kind # "return"
  BY <1>2, ValueFacts, WrittenFacts
<1>4. text[g][m].kind \in {"mention", "op"}
  BY <1>3, TextFacts, StmtFacts
<1>5. CASE text[g][m].kind = "mention"
  <2>1. text[g][m].of \in Funcs
    BY <1>3, <1>5, TextFacts, StmtFacts
  <2>2. /\ text[g][m].table \in 1..Len(tables[text[g][m].of])
        /\ tables[text[g][m].of][text[g][m].table] = text[g][m].with
    BY <1>3, <1>5 DEF AsRead, ReadRight
  <2>3. text[g][m].with \in AllTables
    BY <2>1, <2>2, TablesFacts
  <2>4. Written(g, m) = text[g][m].with
    BY <1>3, <1>5, WrittenFacts
  <2> QED
    BY <1>2, <2>3, <2>4
<1>6. CASE text[g][m].kind = "op"
  <2>1. text[g][m].arg \in Nat /\ text[g][m].arg < m /\ text[g][m].arg \in Values(g)
    BY <1>3, <1>6, ArgumentFacts, StmtFacts
  <2>2. Written(g, m) = Written(g, text[g][m].arg)
    BY <1>3, <1>6, WrittenFacts
  <2>3. m =< text[g][m].arg /\ m \in Nat
    BY <1>2, <1>3, <2>1, <2>2
  <2> QED
    BY ONLY <2>1, <2>3
<1> QED
  BY <1>4, <1>5, <1>6

LEMMA OneType ==
    ASSUME GenericsTypeOK, Cardinality(AllTables) <= 1, NEW s \in AllTables, NEW t \in AllTables
    PROVE  s = t
<1>1. ASSUME NEW g \in Funcs PROVE IsFiniteSet(ToSet(tables[g]))
  <2>1. Len(tables[g]) \in Nat /\ tables[g] \in [1..Len(tables[g]) -> Types]
    BY TextFacts, LenProperties
  <2>2. tables[g] \in Surjection(1..Len(tables[g]), ToSet(tables[g]))
    BY <2>1 DEF Surjection, ToSet
  <2>3. IsFiniteSet(1..Len(tables[g]))
    BY <2>1, FS_Interval
  <2> QED
    BY <2>2, <2>3, FS_Surjection
<1>2. IsFiniteSet({ToSet(tables[g]) : g \in Funcs})
  <2>1. IsFiniteSet(Funcs)
    BY TypesAssumption, FS_Interval DEF Funcs
  <2>2. [g \in Funcs |-> ToSet(tables[g])] \in Surjection(Funcs, {ToSet(tables[g]) : g \in Funcs})
    BY DEF Surjection
  <2> QED
    BY <2>1, <2>2, FS_Surjection
<1>3. IsFiniteSet(AllTables)
  BY <1>1, <1>2, FS_UNION DEF AllTables
<1>4. CASE s # t
  <2>1. IsFiniteSet({s}) /\ Cardinality({s}) = 1
    BY FS_Singleton
  <2>2. Cardinality({s} \cup {t}) = 2
    BY <1>4, <2>1, FS_AddElement
  <2>3. {s} \cup {t} \in SUBSET AllTables
    OBVIOUS
  <2>4. Cardinality({s} \cup {t}) <= Cardinality(AllTables) /\ Cardinality(AllTables) \in Nat
    BY <1>3, <2>3, FS_Subset, FS_CardinalityType
  <2> QED
    BY <2>2, <2>4
<1> QED
  BY <1>4

LEMMA AtFacts ==
    ASSUME GenericsTypeOK
    PROVE  /\ at \in Funcs /\ Len(kinds) \in Funcs /\ inst \in Nat /\ done \in Nat
           /\ \A g \in Funcs : g <= Len(kinds) => kinds[g] \in {"plain", "generic"}
           /\ \A g \in Funcs : Instances(g) \in Nat
<1>1. Len(kinds) \in Funcs /\ Len(kinds) \in Nat /\ MaxFuncs \in Nat /\ at \in 1..Len(kinds)
  BY TypesAssumption DEF GenericsTypeOK, Funcs
<1>2. at \in Funcs /\ \A g \in Funcs : g <= Len(kinds) => g \in 1..Len(kinds)
  BY <1>1 DEF Funcs
<1>3. \A g \in Funcs : Instances(g) \in Nat
  BY TextFacts DEF Instances
<1>4. inst \in Nat /\ done \in Nat
  BY DEF GenericsTypeOK
<1>5. \A g \in 1..Len(kinds) : kinds[g] \in {"plain", "generic"}
  BY ElementOfSeq DEF GenericsTypeOK
<1> QED
  BY <1>1, <1>2, <1>3, <1>4, <1>5

(***************************************************************************)
(* The initial states                                                      *)
(***************************************************************************)
LEMMA InitInvariant == ASSUME Init PROVE IInv
<1>1. PICK n \in Funcs : kinds \in [1..n -> {"plain", "generic"}]
  BY DEF Init, Funcs
<1>2. kinds \in Seq({"plain", "generic"}) /\ Len(kinds) = n /\ n \in Nat /\ 1 \in 1..n
  <2>1. n \in Nat \ {0}
    BY TypesAssumption DEF Funcs
  <2> QED
    BY <1>1, <2>1
<1>3. /\ \A g \in Funcs : /\ text[g] = <<>> /\ tables[g] = <<>> /\ sig[g] = <<>>
                          /\ replace[g] = NoType /\ table[g] = NoType
      /\ replace[Self] = NoType
  BY DEF Init, Replaceable
<1>4. \A T : <<>> \in Seq(T) /\ Len(<<>>) = 0
  OBVIOUS
<1>5. GenericsTypeOK
  <2>1. inst \in 0..Instances(at) /\ done \in 0..Len(text[at])
    <3>1. at \in Funcs
      BY TypesAssumption DEF Init, Funcs
    <3>2. Instances(at) \in Nat /\ Len(text[at]) = 0
      BY <1>3, <1>4, <3>1 DEF Instances
    <3> QED
      BY <3>2 DEF Init
  <2>2. replace \in [Replaceable -> Types \cup Funcs \cup {NoType}] /\ \A g \in Funcs : replace[g] \notin Funcs
    BY <1>3, RefFacts DEF Init
  <2>3. slot = <<>> /\ DOMAIN slot = {} /\ slot \in [DOMAIN slot -> Types]
    BY DEF Init
  <2> QED
    BY <1>2, <1>4, <2>1, <2>2, <2>3 DEF Init, GenericsTypeOK
<1>6. Phases
  BY <1>3 DEF Init, Phases
<1>7. Declared
  BY <1>3, <1>4 DEF Init, Declared
<1>8. Replaced
  BY <1>3 DEF Replaced
<1>9. AsRead
  BY <1>3, <1>4 DEF AsRead
<1>10. SelfKnown
  <2>1. at \in Funcs
    BY TypesAssumption DEF Init, Funcs
  <2>2. \A g \in Funcs : ~CallsByTable(g, Len(text[g]))
    BY <1>3, <1>4 DEF CallsByTable
  <2> QED
    BY <1>3, <2>1, <2>2, RefFacts DEF Init, SelfKnown
<1>11. OnlyTables
  <2>1. DOMAIN slot = {}
    BY DEF Init
  <2>2. \A g \in Funcs : ToSet(sig[g]) = {}
    BY <1>3 DEF ToSet
  <2>3. \A t \in Replaceable : replace[t] \notin Types
    BY <1>3, RefFacts DEF Replaceable
  <2> QED
    BY <1>3, <1>4, <2>1, <2>2, <2>3 DEF OnlyTables
<1>12. UnresolvedOnlyShared /\ TableCallsReachOwn /\ OneTypeFits
  BY DEF Init, UnresolvedOnlyShared, TableCallsReachOwn, OneTypeFits
<1> QED
  BY <1>5, <1>6, <1>7, <1>8, <1>9, <1>10, <1>11, <1>12 DEF IInv

(***************************************************************************)
(* Analysis                                                                *)
(***************************************************************************)
LEMMA AnalysisFacts ==
    ASSUME IInv, Analysing
    PROVE  /\ at \in Funcs /\ at \in 1..Len(kinds) /\ inst = 0 /\ done = 0 /\ slot = <<>> /\ misfits = {}
           /\ replace \in Replacement
           /\ phase = "analyse" /\ failed = FALSE
<1>1. at \in Funcs
  BY AtFacts DEF IInv
<1> QED
  BY <1>1 DEF IInv, GenericsTypeOK, Phases, Analysing, Replacement

\* What is appended to the text of a function leaves what stands there.
LEMMA AppendedFacts ==
    ASSUME IInv, Analysing, NEW s \in Stmt, AddStmt(s)
    PROVE  /\ text' \in [Funcs -> Seq(Stmt)]
           /\ \A g \in Funcs \ {at} : text'[g] = text[g]
           /\ Len(text'[at]) = Len(text[at]) + 1 /\ Len(text[at]) \in Nat
           /\ text'[at][Len(text[at]) + 1] = s
           /\ \A n \in 1..Len(text[at]) : text'[at][n] = text[at][n]
           /\ \A g \in Funcs : \A n \in 1..Len(text[g]) : n \in 1..Len(text'[g]) /\ text'[g][n] = text[g][n]
           /\ \A g \in Funcs : \A n \in 1..Len(text'[g]) :
                 n \in 1..Len(text[g]) \/ (g = at /\ n = Len(text[at]) + 1)
<1>1. at \in Funcs
  BY AnalysisFacts
<1>2. text \in [Funcs -> Seq(Stmt)] /\ \A g \in Funcs : text[g] \in Seq(Stmt) /\ Len(text[g]) \in Nat
  BY LenProperties DEF IInv, GenericsTypeOK
<1>3. PICK a : a = Append(text[at], s)
  OBVIOUS
<1>4. /\ a \in Seq(Stmt) /\ Len(a) = Len(text[at]) + 1 /\ a[Len(text[at]) + 1] = s
      /\ \A n \in 1..Len(text[at]) : a[n] = text[at][n]
  BY <1>1, <1>2, <1>3, AppendFacts
<1>5. text' = [text EXCEPT ![at] = a]
  BY <1>3 DEF AddStmt
<1>6. text'[at] = a /\ \A g \in Funcs \ {at} : text'[g] = text[g]
  BY <1>1, <1>2, <1>5
<1>7. text' \in [Funcs -> Seq(Stmt)]
  BY <1>1, <1>2, <1>4, <1>5
<1>8. ASSUME NEW g \in Funcs, NEW n \in 1..Len(text[g])
      PROVE  n \in 1..Len(text'[g]) /\ text'[g][n] = text[g][n]
  <2>1. CASE g = at
    <3>1. n \in 1..Len(a)
      BY <1>2, <1>4, <2>1
    <3> QED
      BY <1>4, <1>6, <2>1, <3>1
  <2> QED
    BY <1>6, <2>1
<1>9. ASSUME NEW g \in Funcs, NEW n \in 1..Len(text'[g])
      PROVE  n \in 1..Len(text[g]) \/ (g = at /\ n = Len(text[at]) + 1)
  <2>1. CASE g = at
    BY <1>2, <1>4, <1>6, <2>1
  <2> QED
    BY <1>6, <2>1
<1> QED
  BY <1>1, <1>2, <1>4, <1>6, <1>7, <1>8, <1>9

LEMMA ReadKeeps ==
    ASSUME IInv, Analysing, NEW s \in Stmt, AddStmt(s),
           UNCHANGED <<kinds, phase, at, emitVars>>, failed' = ~s.ok,
           tables' \in [Funcs -> Seq(Types)],
           \A g \in Funcs : \A i \in 1..Len(tables[g]) :
              i \in 1..Len(tables'[g]) /\ tables'[g][i] = tables[g][i],
           replace' \in Replacement, Replaced',
           s.arg \in Types \cup Values(at),
           s.arg \in Types /\ s.ok => s.arg \in AllTables',
           s.kind = "mention" =>
              s.type = s.of /\ s.table \in 1..Len(tables'[s.of]) /\ tables'[s.of][s.table] = s.with,
           s.kind = "return" => kinds[at] = "generic",
           s.kind = "op" => s.type = IF s.of \in Funcs THEN Self ELSE s.of,
           s.kind = "op" /\ s.of \in Types => s.of \in AllTables',
           s.kind = "op" /\ s.of \in Funcs =>
              s.of = at /\ kinds[at] = "generic" /\ (s.arg # 0 => ByTable(at, s.arg)) /\ replace'[Self] = at,
           replace'[Self] \in Types \/ replace'[Self] = replace[Self]
              \/ (replace'[Self] = at /\ s.kind = "op" /\ s.of \in Funcs),
           \A t \in Replaceable : replace'[t] \in Types => replace'[t] \in AllTables'
    PROVE  IInv'
<1>0. PICK n0 : n0 = Len(text[at]) + 1
  OBVIOUS
<1>1. /\ at \in Funcs /\ inst = 0 /\ done = 0 /\ slot = <<>> /\ misfits = {}
      /\ phase = "analyse" /\ failed = FALSE
      /\ at' = at /\ kinds' = kinds /\ phase' = phase /\ inst' = 0 /\ done' = 0
      /\ table' = table /\ sig' = sig /\ slot' = <<>> /\ misfits' = {}
  BY AnalysisFacts DEF emitVars
<1>2. /\ text' \in [Funcs -> Seq(Stmt)]
      /\ \A g \in Funcs \ {at} : text'[g] = text[g]
      /\ text'[at][n0] = s /\ n0 \in 1..Len(text'[at])
      /\ \A g \in Funcs : \A n \in 1..Len(text[g]) : n \in 1..Len(text'[g]) /\ text'[g][n] = text[g][n]
      /\ \A g \in Funcs : \A n \in 1..Len(text'[g]) : n \in 1..Len(text[g]) \/ (g = at /\ n = n0)
      /\ \A g \in Funcs : Len(text[g]) \in Nat /\ Len(text'[g]) \in Nat
  <2>1. \A g \in Funcs : Len(text[g]) \in Nat
    BY TextFacts DEF IInv
  <2>2. \A g \in Funcs : Len(text'[g]) \in Nat
    BY AppendedFacts, LenProperties
  <2>3. n0 \in 1..Len(text'[at])
    BY <1>0, <1>1, <2>1, AppendedFacts
  <2> QED
    BY <1>0, <2>1, <2>2, <2>3, AppendedFacts
<1>3. GenericsTypeOK'
  <2>1. Instances(at)' \in Nat
    <3>1. Len(tables'[at]) \in Nat
      BY <1>1, LenProperties
    <3> QED
      BY <1>1, <3>1 DEF Instances
  <2>2. inst' \in (0..Instances(at))' /\ done' \in (0..Len(text[at]))'
    <3>1. Len(text[at])' \in Nat
      BY <1>1, <1>2
    <3>2. 0 \in (0..Instances(at))' /\ 0 \in (0..Len(text[at]))'
      BY <2>1, <3>1
    <3> QED
      BY <1>1, <3>2
  <2>3. replace' \in [Replaceable -> Types \cup Funcs \cup {NoType}] /\ \A g \in Funcs : replace'[g] \notin Funcs
    BY DEF Replacement
  <2>4. failed' \in BOOLEAN
    BY StmtFacts
  <2>5. /\ kinds' \in Seq({"plain", "generic"}) /\ Len(kinds') \in Funcs
        /\ phase' \in {"analyse", "init", "emit", "done", "aborted"}
        /\ at' \in (1..Len(kinds))'
        /\ table' \in [Funcs -> Types \cup {NoType}] /\ sig' \in [Funcs -> Seq(Types)]
    BY <1>1 DEF IInv, GenericsTypeOK
  <2>6. slot' \in [DOMAIN slot' -> Types] /\ misfits' = {}
    BY <1>1
  <2> QED
    BY <1>2, <2>2, <2>3, <2>4, <2>5, <2>6 DEF GenericsTypeOK
<1>4. Phases'
  <2>1. \A g \in Funcs : g > at => text'[g] = <<>>
    <3>1. at \in Nat /\ ~(at > at)
      BY <1>1, RefFacts
    <3> QED
      BY <1>1, <1>2, <3>1 DEF IInv, Phases
  <2> QED
    BY <1>1, <2>1 DEF Phases
<1>5. Declared'
  BY <1>1 DEF IInv, Declared
<1>6. AllTables \subseteq AllTables'
  <2>1. \A g \in Funcs : \A i \in 1..Len(tables'[g]) : tables'[g][i] \in ToSet(tables'[g])
    BY LenProperties DEF ToSet
  <2>2. \A g \in Funcs : \A x \in ToSet(tables[g]) : \E i \in 1..Len(tables[g]) : x = tables[g][i]
    <3>1. \A g \in Funcs : tables[g] \in Seq(Types)
      BY DEF IInv, GenericsTypeOK
    <3> QED
      BY <3>1, LenProperties DEF ToSet
  <2>3. ASSUME NEW x \in AllTables PROVE x \in AllTables'
    <3>1. PICK g \in Funcs : x \in ToSet(tables[g])
      BY <2>3 DEF AllTables
    <3>2. PICK i \in 1..Len(tables[g]) : x = tables[g][i]
      BY <2>2, <3>1
    <3>3. i \in 1..Len(tables'[g]) /\ x = tables'[g][i]
      BY <3>2
    <3>4. x \in ToSet(tables'[g])
      BY <2>1, <3>3
    <3> QED
      BY <3>4 DEF AllTables
  <2> QED
    BY <2>3
<1>7. ASSUME NEW g \in Funcs
      PROVE  /\ Values(g) \subseteq Values(g)'
             /\ \A v \in Values(g) : v < Len(text[g]) + 1
  <2>1. ASSUME NEW v \in Values(g) PROVE v < Len(text[g]) + 1
    <3>1. Len(text[g]) \in Nat /\ (v = 0 \/ v \in 1..Len(text[g]))
      BY <1>2, ValueFacts
    <3> QED
      BY ONLY <3>1
  <2>2. ASSUME NEW v \in Values(g) PROVE v \in Values(g)'
    <3>1. CASE v = 0 /\ kinds[g] = "generic"
      BY <1>1, <3>1 DEF Values
    <3>2. CASE v \in 1..Len(text[g]) /\ text[g][v].kind # "return"
      <4>1. v \in 1..Len(text'[g]) /\ text'[g][v].kind # "return"
        BY <1>2, <3>2
      <4> QED
        BY <4>1 DEF Values
    <3> QED
      BY <3>1, <3>2, ValueFacts
  <2> QED
    BY <2>1, <2>2
<1>8. ASSUME NEW g \in Funcs, NEW n \in 1..Len(text[g])
      PROVE  ByTable(g, n)' <=> ByTable(g, n)
  BY <1>2 DEF ByTable
<1>9. AsRead'
  <2>1. ASSUME NEW g \in Funcs, NEW n \in 1..Len(text[g])
        PROVE  ReadRight(g, n)'
    <3>1. PICK r : r = text[g][n]
      OBVIOUS
    <3>2. text'[g][n] = r /\ kinds' = kinds
      BY <1>1, <1>2, <3>1
    <3>3. /\ r.arg \in Types \cup {v \in Values(g) : v < n}
          /\ r.ok
          /\ r.kind = "mention" => r.type = r.of
          /\ r.kind = "mention" => r.table \in 1..Len(tables[r.of]) /\ tables[r.of][r.table] = r.with
          /\ r.kind = "return" => kinds[g] = "generic"
          /\ r.kind = "op" => r.type = IF r.of \in Funcs THEN Self ELSE r.of
          /\ ByTable(g, n) => r.of = g /\ kinds[g] = "generic" /\ (r.arg # 0 => ByTable(g, r.arg))
      <4>1. ReadRight(g, n)
        BY DEF IInv, AsRead
      <4> QED
        BY <1>1, <3>1, <4>1 DEF ReadRight
    <3>4. r.arg \in Types \cup {v \in Values(g)' : v < n}
      BY <1>7, <3>3
    <3>5. r.kind = "mention" => r.table \in 1..Len(tables'[r.of]) /\ tables'[r.of][r.table] = r.with
      <4>1. r.kind = "mention" => r.of \in Funcs
        BY <3>1, TextFacts, StmtFacts DEF IInv
      <4> QED
        BY <3>3, <4>1
    <3>6. ByTable(g, n)' => r.of = g /\ kinds[g] = "generic" /\ (r.arg # 0 => ByTable(g, r.arg)')
      <4>1. SUFFICES ASSUME ByTable(g, n), r.arg # 0 PROVE ByTable(g, r.arg)'
        BY <1>8, <3>3
      <4>2. r.kind = "op"
        BY <3>1, <4>1 DEF ByTable
      <4>3. r.arg \in Nat /\ r.arg \in Values(g)
        BY <3>1, <4>2, ArgumentFacts, StmtFacts DEF IInv
      <4>4. r.arg \in 1..Len(text[g])
        BY <4>1, <4>3, ValueFacts
      <4> QED
        BY <1>8, <3>3, <4>1, <4>4
    <3> QED
      BY <3>2, <3>3, <3>4, <3>5, <3>6 DEF ReadRight
  <2>2. PICK h \in Funcs : h = at
    BY <1>1
  <2>3. text'[h][n0] = s /\ kinds' = kinds
    BY <1>1, <1>2, <2>2
  <2>4. /\ s.arg \in Types \cup {v \in Values(h)' : v < n0}
        /\ ~failed' => s.ok
    BY <1>0, <1>1, <1>7, <2>2
  <2>5. ByTable(h, n0)' <=> s.kind = "op" /\ s.of \in Funcs
    BY <2>3 DEF ByTable
  <2>6. ASSUME s.kind = "op", s.of \in Funcs, s.arg # 0 PROVE ByTable(h, s.arg)'
    <3>1. s.arg \in Values(h) /\ s.arg \in Nat /\ ByTable(h, s.arg)
      BY <2>2, <2>6, StmtFacts, RefFacts
    <3>2. s.arg \in 1..Len(text[h])
      BY <2>6, <3>1, ValueFacts
    <3> QED
      BY <1>8, <3>1, <3>2
  <2>7. ReadRight(h, n0)'
    BY <2>2, <2>3, <2>4, <2>5, <2>6 DEF ReadRight
  <2>8. \A g \in Funcs : \A n \in 1..Len(text'[g]) : ReadRight(g, n)'
    BY <1>2, <2>1, <2>2, <2>7
  <2> QED
    BY <2>8 DEF AsRead
<1>10. SelfKnown'
  <2>1. ASSUME NEW g \in Funcs, CallsByTable(g, Len(text[g]))'
        PROVE  CallsByTable(g, Len(text[g])) \/ (g = at /\ s.kind = "op" /\ s.of \in Funcs)
    <3>1. PICK m \in 1..Len(text'[g]) : ByTable(g, m)'
      BY <2>1 DEF CallsByTable
    <3>2. CASE m \in 1..Len(text[g])
      BY <1>8, <3>1, <3>2 DEF CallsByTable
    <3>3. CASE g = at /\ m = n0
      BY <1>1, <1>2, <3>1, <3>3 DEF ByTable
    <3> QED
      BY <1>2, <3>2, <3>3
  <2>2. ASSUME NEW g \in Funcs, CallsByTable(g, Len(text[g])) \/ (g = at /\ s.kind = "op" /\ s.of \in Funcs)
        PROVE  CallsByTable(g, Len(text[g]))'
    <3>1. CASE CallsByTable(g, Len(text[g]))
      <4>1. PICK m \in 1..Len(text[g]) : ByTable(g, m)
        BY <3>1 DEF CallsByTable
      <4>2. m \in 1..Len(text'[g]) /\ ByTable(g, m)'
        BY <1>2, <1>8, <4>1
      <4> QED
        BY <4>2 DEF CallsByTable
    <3>2. CASE g = at /\ s.kind = "op" /\ s.of \in Funcs
      <4>1. n0 \in 1..Len(text'[g]) /\ text'[g][n0] = s
        BY <1>1, <1>2, <3>2
      <4> QED
        BY <3>2, <4>1 DEF CallsByTable, ByTable
    <3> QED
      BY <2>2, <3>1, <3>2
  <2>3. /\ \A g \in Funcs : CallsByTable(g, Len(text[g])) => replace[Self] # NoType
        /\ replace[Self] \in Funcs => CallsByTable(replace[Self], Len(text[replace[Self]]))
        /\ CallsByTable(at, Len(text[at])) => replace[Self] \in Types \cup {at}
    BY <1>1 DEF IInv, SelfKnown
  <2>4. replace[Self] \in Types \cup Funcs \cup {NoType} /\ replace'[Self] \in Types \cup Funcs \cup {NoType}
    BY AnalysisFacts, ReplacementFacts
  <2>5. \A g \in Funcs : CallsByTable(g, Len(text[g]))' => replace'[Self] # NoType
    BY <1>1, <2>1, <2>3, RefFacts
  <2>6. ASSUME NEW h \in Funcs, replace'[Self] = h PROVE CallsByTable(h, Len(text[h]))'
    BY <1>1, <2>2, <2>3, <2>6, RefFacts
  <2>7. CallsByTable(at, Len(text[at]))' => replace'[Self] \in Types \cup {at}
    <3>1. CallsByTable(at, Len(text[at]))' => CallsByTable(at, Len(text[at])) \/ (s.kind = "op" /\ s.of \in Funcs)
      <4>1. PICK g : g = at
        OBVIOUS
      <4>2. CallsByTable(g, Len(text[g]))' <=> CallsByTable(at, Len(text[at]))'
        BY <1>1, <4>1 DEF CallsByTable, ByTable
      <4> QED
        BY <1>1, <2>1, <4>1, <4>2
    <3> QED
      BY <2>3, <3>1
  <2> QED
    BY <1>1, <2>5, <2>6, <2>7 DEF SelfKnown
<1>11. OnlyTables'
  <2>1. \A g \in Funcs : ToSet(sig'[g]) \subseteq AllTables'
    BY <1>1, <1>6 DEF IInv, OnlyTables
  <2>2. DOMAIN slot' = {}
    BY <1>1
  <2>3. ASSUME NEW g \in Funcs, NEW n \in 1..Len(text'[g]) PROVE FromTables(g, n)'
    <3>1. CASE n \in 1..Len(text[g])
      <4>1. text'[g][n] = text[g][n]
        BY <1>2, <3>1
      <4>2. FromTables(g, n)
        BY <3>1 DEF IInv, OnlyTables
      <4> QED
        BY <1>6, <4>1, <4>2 DEF FromTables
    <3>2. CASE g = at /\ n = n0
      <4>1. text'[g][n] = s
        BY <1>2, <3>2
      <4> QED
        BY <4>1 DEF FromTables
    <3> QED
      BY <1>2, <3>1, <3>2
  <2>4. \A g \in Funcs : \A n \in 1..Len(text'[g]) : FromTables(g, n)'
    BY <2>3
  <2> QED
    BY <2>1, <2>2, <2>4 DEF OnlyTables
<1>12. UnresolvedOnlyShared' /\ TableCallsReachOwn' /\ OneTypeFits'
  BY <1>1 DEF UnresolvedOnlyShared, TableCallsReachOwn, OneTypeFits
<1> QED
  BY <1>3, <1>4, <1>5, <1>9, <1>10, <1>11, <1>12 DEF IInv

LEMMA MentionKeeps ==
    ASSUME IInv, NEW g \in 1..Len(kinds), NEW c \in Types, NEW v \in Types \cup Values(at), NEW b \in Binds,
           Mention(g, c, v, b)
    PROVE  IInv'
<1>1. Analysing
  BY DEF Mention
<1>2. /\ at \in Funcs /\ phase = "analyse" /\ failed = FALSE /\ replace \in Replacement
      /\ g \in Funcs /\ g <= Len(kinds) /\ kinds[g] = "generic"
  <2>1. Len(kinds) \in Nat /\ Len(kinds) <= MaxFuncs /\ MaxFuncs \in Nat
    BY TypesAssumption, AtFacts DEF IInv, Funcs
  <2>2. g \in Funcs /\ g <= Len(kinds)
    BY <2>1 DEF Funcs
  <2> QED
    BY <1>1, <2>2, AnalysisFacts DEF Mention
<1>3. PICK f : f = failed'
  OBVIOUS
<1>4. PICK r : r = replace'
  OBVIOUS
<1>5. /\ r = [replace EXCEPT ![Self] = c, ![g] = c]
      /\ tables' = [tables EXCEPT ![g] = Append(tables[g], c)]
      /\ f = ~Accepts(r, v, g) /\ f \in BOOLEAN
      /\ UNCHANGED <<kinds, phase, at, emitVars>>
  BY <1>3, <1>4 DEF Mention, Replace
<1>6. PICK s : s = [kind |-> "mention", of |-> g, with |-> c, table |-> NewTable(g),
                    arg |-> v, bind |-> b, type |-> g, ok |-> ~f]
  OBVIOUS
<1>7. AddStmt(s)
  BY <1>3, <1>6 DEF Mention
<1>8. /\ tables \in [Funcs -> Seq(Types)] /\ tables[g] \in Seq(Types) /\ Len(tables[g]) \in Nat
  BY <1>2, TextFacts DEF IInv, GenericsTypeOK
<1>9. PICK a : a = Append(tables[g], c)
  OBVIOUS
<1>10. /\ a \in Seq(Types) /\ a # <<>> /\ Len(a) = Len(tables[g]) + 1 /\ a[Len(tables[g]) + 1] = c
       /\ \A i \in 1..Len(tables[g]) : a[i] = tables[g][i]
  BY <1>8, <1>9, AppendFacts
<1>11. /\ tables' \in [Funcs -> Seq(Types)] /\ tables'[g] = a
       /\ \A h \in Funcs \ {g} : tables'[h] = tables[h]
  BY <1>2, <1>5, <1>8, <1>9, <1>10
<1>12. NewTable(g) \in 1..Len(a) /\ a[NewTable(g)] = c /\ NewTable(g) \in Nat
  BY <1>8, <1>10 DEF NewTable
<1>13. s \in Stmt
  <2>1. v \in Types \cup Nat
    BY <1>2, ValueFacts
  <2> QED
    BY <1>2, <1>5, <1>6, <1>12, <2>1 DEF Stmt
<1>14. /\ \A h \in Funcs : \A i \in 1..Len(tables[h]) :
             i \in 1..Len(tables'[h]) /\ tables'[h][i] = tables[h][i]
       /\ c \in AllTables'
  <2>1. \A i \in 1..Len(tables[g]) : i \in 1..Len(a) /\ a[i] = tables[g][i]
    BY <1>8, <1>10
  <2>2. c \in ToSet(tables'[g])
    BY <1>11, <1>12, LenProperties DEF ToSet
  <2> QED
    BY <1>2, <1>11, <2>1, <2>2 DEF AllTables
<1>15. /\ r \in Replacement /\ r[g] = c /\ r[Self] = c
       /\ \A h \in Funcs \ {g} : r[h] = replace[h]
  <2>1. g \in Replaceable /\ Self \in Replaceable /\ g # Self /\ c \notin Funcs /\ Self \notin Funcs
    BY <1>2, RefFacts DEF Replaceable
  <2>2. r[g] = c /\ r[Self] = c /\ \A h \in Funcs \ {g} : r[h] = replace[h]
    BY <1>2, <1>5, <2>1, RefFacts DEF Replacement, Replaceable
  <2> QED
    BY <1>2, <1>5, <2>1, <2>2 DEF Replacement
<1>16. Replaced'
  <2>1. ASSUME NEW h \in Funcs
        PROVE  /\ replace'[h] = NoType <=> tables'[h] = <<>>
               /\ tables'[h] # <<>> => h <= Len(kinds') /\ kinds'[h] = "generic"
    <3>1. CASE h = g
      BY <1>2, <1>4, <1>5, <1>10, <1>11, <1>15, <3>1, RefFacts
    <3>2. CASE h # g
      BY <1>4, <1>5, <1>11, <1>15, <3>2 DEF IInv, Replaced
    <3> QED
      BY <3>1, <3>2
  <2> QED
    BY <2>1 DEF Replaced
<1>17. s.arg \in Types /\ s.ok => s.arg \in AllTables'
  <2>1. SUFFICES ASSUME v \in Types, ~f PROVE v \in AllTables'
    BY <1>6
  <2>2. TypesEqual(r, v, g)
    BY <1>5, <2>1 DEF Accepts, TypeOf
  <2>3. v = c
    BY <1>2, <1>15, <2>1, <2>2, EqualFacts
  <2> QED
    BY <1>14, <2>3
<1>18. \A t \in Replaceable : replace'[t] \in Types => replace'[t] \in AllTables'
  <2>1. ASSUME NEW t \in Replaceable, r[t] \in Types PROVE r[t] \in AllTables'
    <3>1. CASE t \in Funcs \ {g}
      <4>1. r[t] \in AllTables
        BY <1>15, <2>1, <3>1 DEF IInv, OnlyTables
      <4>2. PICK h \in Funcs : r[t] \in ToSet(tables[h])
        BY <4>1 DEF AllTables
      <4>3. PICK i \in 1..Len(tables[h]) : r[t] = tables[h][i]
        BY <1>8, <4>2, LenProperties DEF ToSet
      <4>4. r[t] \in ToSet(tables'[h])
        <5>1. i \in 1..Len(tables'[h]) /\ tables'[h][i] = r[t]
          BY <1>14, <4>3
        <5> QED
          BY <1>11, <5>1, LenProperties DEF ToSet
      <4> QED
        BY <4>4 DEF AllTables
    <3> QED
      BY <1>14, <1>15, <3>1 DEF Replaceable
  <2> QED
    BY <1>4, <2>1
<1>19. /\ s.kind = "mention" /\ s.of = g /\ s.type = g /\ s.table = NewTable(g) /\ s.with = c /\ s.arg = v
       /\ s.ok = ~f
  BY <1>6
<1>20. failed' = ~s.ok
  BY <1>3, <1>5, <1>19
<1>21. /\ replace' \in Replacement /\ replace'[Self] \in Types
       /\ s.arg \in Types \cup Values(at)
       /\ s.type = s.of /\ s.table \in 1..Len(tables'[s.of]) /\ tables'[s.of][s.table] = s.with
  BY <1>4, <1>11, <1>12, <1>15, <1>19
<1>22. s.kind # "return" /\ s.kind # "op"
  BY <1>19
<1> QED
  BY <1>1, <1>5, <1>7, <1>11, <1>13, <1>14, <1>16, <1>17, <1>18, <1>20, <1>21, <1>22, ReadKeeps

\* Members are looked up in a type, or in the parameter of the function itself.
LEMMA MembersRead ==
    ASSUME IInv, Analysing, NEW v \in Values(at), NEW t, t = MembersOf(replace, TypeOf(at, v))
    PROVE  \/ t \in AllTables
           \/ t = at /\ kinds[at] = "generic" /\ (v # 0 => ByTable(at, v))
<1>1. /\ at \in Funcs /\ replace \in Replacement /\ phase = "analyse"
  BY AnalysisFacts
<1>2. \A x \in Replaceable : replace[x] \in Types => replace[x] \in AllTables
  BY DEF IInv, OnlyTables
<1>3. \A g \in Funcs : replace[g] # NoType => MembersOf(replace, g) \in AllTables
  BY <1>1, <1>2, ReplacementFacts, MembersFacts, RefFacts DEF Replaceable
<1>4. MembersOf(replace, at) \in AllTables \cup {at}
  BY <1>1, <1>3, MembersFacts
<1>5. CASE v = 0 /\ kinds[at] = "generic"
  <2>1. TypeOf(at, v) = at
    BY <1>5, RefFacts DEF TypeOf
  <2> QED
    BY <1>4, <1>5, <2>1
<1>6. CASE v \in 1..Len(text[at]) /\ text[at][v].kind # "return"
  <2>1. v \in Nat /\ v # 0 /\ v \notin Types /\ TypeOf(at, v) = text[at][v].type
    <3>1. v \in Nat /\ v # 0 /\ v \notin Types
      BY <1>1, <1>6, TextFacts, RefFacts DEF IInv
    <3> QED
      BY <3>1 DEF TypeOf
  <2>2. ReadRight(at, v) /\ FromTables(at, v) /\ text[at][v] \in Stmt
    BY <1>1, <1>6, TextFacts DEF IInv, AsRead, OnlyTables
  <2>3. PICK s \in Stmt : s = text[at][v]
    BY <2>2
  <2>4. CASE s.kind = "mention"
    <3>1. s.of \in Funcs /\ s.type = s.of /\ s.table \in 1..Len(tables[s.of])
      BY <2>2, <2>3, <2>4, StmtFacts DEF ReadRight
    <3>2. tables[s.of] # <<>>
      BY <3>1
    <3>3. replace[s.of] # NoType
      BY <3>1, <3>2 DEF IInv, Replaced
    <3> QED
      BY <1>3, <2>1, <2>3, <3>1, <3>3
  <2>5. CASE s.kind = "op" /\ s.of \in Types
    <3>1. s.type = s.of /\ s.of \in AllTables
      BY <2>2, <2>3, <2>5, RefFacts DEF ReadRight, FromTables
    <3> QED
      BY <1>1, <2>1, <2>3, <2>5, <3>1, MembersFacts
  <2>6. CASE s.kind = "op" /\ s.of \in Funcs
    <3>1. ByTable(at, v) /\ s.type = Self /\ kinds[at] = "generic"
      BY <2>2, <2>3, <2>6 DEF ReadRight, ByTable
    <3>2. CallsByTable(at, Len(text[at]))
      BY <1>6, <3>1 DEF CallsByTable
    <3>3. replace[Self] \in Types \cup {at}
      BY <1>1, <3>2 DEF IInv, SelfKnown
    <3>4. replace[Self] \in Types => MembersOf(replace, Self) \in AllTables
      BY <1>1, <1>2, MembersFacts DEF Replaceable
    <3>5. replace[Self] = at => MembersOf(replace, Self) = MembersOf(replace, at)
      BY <1>1, MembersFacts
    <3> QED
      BY <1>4, <2>1, <2>3, <3>1, <3>3, <3>4, <3>5
  <2> QED
    BY <1>6, <2>3, <2>4, <2>5, <2>6, StmtFacts
<1> QED
  BY <1>1, <1>5, <1>6, ValueFacts

LEMMA OpKeeps ==
    ASSUME IInv, NEW v \in Values(at), NEW b \in Binds, Op(v, b)
    PROVE  IInv'
<1>1. Analysing
  BY DEF Op
<1>2. /\ at \in Funcs /\ phase = "analyse" /\ failed = FALSE /\ replace \in Replacement
      /\ kinds' = kinds /\ tables' = tables
      /\ UNCHANGED <<kinds, phase, at, emitVars>> /\ failed' = FALSE
  BY <1>1, AnalysisFacts DEF Op
<1>3. PICK t : t = MembersOf(replace, TypeOf(at, v))
  OBVIOUS
<1>4. PICK r : r = replace'
  OBVIOUS
<1>5. t \in AllTables \/ (t = at /\ kinds[at] = "generic" /\ (v # 0 => ByTable(at, v)))
  BY <1>1, <1>3, MembersRead
<1>6. /\ t \in Types \cup Funcs
      /\ IsGeneric(t) <=> t \in Funcs
      /\ t \in Funcs => t = at /\ kinds[at] = "generic" /\ (v # 0 => ByTable(at, v))
      /\ t \in Types => t \in AllTables
  BY <1>2, <1>5, TablesFacts, RefFacts DEF IInv
<1>7. PICK s : s = [kind |-> "op", of |-> t, arg |-> v, bind |-> b, ok |-> TRUE,
                    type |-> IF IsGeneric(t) THEN Self ELSE t]
  OBVIOUS
<1>8. /\ r = IF IsGeneric(t) THEN [replace EXCEPT ![Self] = t] ELSE replace
      /\ AddStmt(s)
  BY <1>3, <1>4, <1>7 DEF Op
<1>9. s \in Stmt /\ v \in Nat
  <2>1. v \in Nat
    BY <1>2, ValueFacts
  <2> QED
    BY <1>6, <1>7, <2>1 DEF Stmt
<1>10. /\ s.kind = "op" /\ s.of = t /\ s.arg = v /\ s.ok = TRUE
       /\ s.type = IF s.of \in Funcs THEN Self ELSE s.of
  BY <1>6, <1>7
<1>11. /\ r \in Replacement
       /\ \A g \in Funcs : r[g] = replace[g]
       /\ t \in Funcs => r[Self] = at
       /\ t \notin Funcs => r[Self] = replace[Self]
  <2>1. CASE t \in Funcs
    <3>1. r = [replace EXCEPT ![Self] = t] /\ t = at /\ Self \in Replaceable /\ Self \notin Funcs
      BY <1>6, <1>8, <2>1, RefFacts DEF Replaceable
    <3> QED
      BY <1>2, <2>1, <3>1 DEF Replacement, Replaceable
  <2>2. CASE t \notin Funcs
    BY <1>2, <1>6, <1>8, <2>2
  <2> QED
    BY <2>1, <2>2
<1>12. Replaced'
  <2>1. \A g \in Funcs : replace'[g] = replace[g]
    BY <1>4, <1>11
  <2> QED
    BY <1>2, <2>1 DEF IInv, Replaced
<1>13. AllTables' = AllTables
  BY <1>2 DEF AllTables
<1>14. \A x \in Replaceable : replace'[x] \in Types => replace'[x] \in AllTables'
  <2>1. \A x \in Replaceable : replace[x] \in Types => replace[x] \in AllTables
    BY DEF IInv, OnlyTables
  <2> QED
    BY <1>2, <1>4, <1>11, <1>13, <2>1, RefFacts DEF Replaceable
<1>15. /\ s.arg \in Types /\ s.ok => s.arg \in AllTables'
       /\ s.arg \in Types \cup Values(at)
       /\ failed' = ~s.ok
       /\ s.of \in Types => s.of \in AllTables'
  BY <1>2, <1>6, <1>9, <1>10, <1>13, RefFacts
<1>16. tables' \in [Funcs -> Seq(Types)]
  BY <1>2 DEF IInv, GenericsTypeOK
<1>17. \A g \in Funcs : \A i \in 1..Len(tables[g]) :
           i \in 1..Len(tables'[g]) /\ tables'[g][i] = tables[g][i]
  BY <1>2
<1>18. \/ replace'[Self] = replace[Self]
       \/ (replace'[Self] = at /\ s.kind = "op" /\ s.of \in Funcs)
  BY <1>4, <1>10, <1>11
<1> QED
  BY <1>1, <1>2, <1>4, <1>6, <1>8, <1>9, <1>10, <1>11, <1>12, <1>14, <1>15, <1>16, <1>17, <1>18, ReadKeeps

LEMMA ReturnKeeps ==
    ASSUME IInv, NEW v \in Types \cup Values(at), Return(v)
    PROVE  IInv'
<1>1. Analysing
  BY DEF Return
<1>2. /\ at \in Funcs /\ phase = "analyse" /\ failed = FALSE /\ replace \in Replacement
      /\ kinds' = kinds /\ tables' = tables /\ replace' = replace /\ kinds[at] = "generic"
      /\ UNCHANGED <<kinds, phase, at, emitVars>>
  BY <1>1, AnalysisFacts DEF Return
<1>3. PICK f : f = failed'
  OBVIOUS
<1>4. f = ~TypesEqual(replace, at, TypeOf(at, v)) /\ f \in BOOLEAN
  BY <1>3 DEF Return
<1>5. PICK s : s = [kind |-> "return", arg |-> v, ok |-> ~f]
  OBVIOUS
<1>6. AddStmt(s)
  BY <1>3, <1>5 DEF Return
<1>7. v \in Types \cup Nat
  BY <1>2, ValueFacts
<1>8. s \in Stmt /\ s.kind = "return" /\ s.arg = v /\ s.ok = ~f
  BY <1>4, <1>5, <1>7 DEF Stmt
<1>9. AllTables' = AllTables
  BY <1>2 DEF AllTables
<1>10. \A x \in Replaceable : replace[x] \in Types => replace[x] \in AllTables
  BY DEF IInv, OnlyTables
<1>11. s.arg \in Types /\ s.ok => s.arg \in AllTables'
  <2>1. SUFFICES ASSUME v \in Types, ~f PROVE v \in AllTables
    BY <1>8, <1>9
  <2>2. TypesEqual(replace, at, v)
    BY <1>4, <2>1 DEF TypeOf
  <2>3. replace[at] = v
    BY <1>2, <2>1, <2>2, EqualFacts
  <2> QED
    BY <1>2, <1>10, <2>1, <2>3 DEF Replaceable
<1>12. Replaced'
  BY <1>2 DEF IInv, Replaced
<1>13. tables' \in [Funcs -> Seq(Types)]
  BY <1>2 DEF IInv, GenericsTypeOK
<1>14. \A g \in Funcs : \A i \in 1..Len(tables[g]) :
           i \in 1..Len(tables'[g]) /\ tables'[g][i] = tables[g][i]
  BY <1>2
<1>15. failed' = ~s.ok
  BY <1>3, <1>4, <1>8
<1> QED
  BY <1>1, <1>2, <1>6, <1>8, <1>9, <1>10, <1>11, <1>12, <1>13, <1>14, <1>15, ReadKeeps


\* What the later steps leave of what was analysed.
LEMMA SettledFacts ==
    ASSUME UNCHANGED <<kinds, text, tables, failed>>
    PROVE  /\ AsRead => AsRead'
           /\ AllTables' = AllTables
           /\ \A g, n : FromTables(g, n)' <=> FromTables(g, n)
           /\ \A g : Values(g)' = Values(g)
           /\ \A g, n : ByTable(g, n)' <=> ByTable(g, n)
           /\ \A g, n : CallsByTable(g, n)' <=> CallsByTable(g, n)
           /\ \A g : Instances(g)' = Instances(g)
<1>1. AllTables' = AllTables
  BY DEF AllTables
<1>2. \A g, n : FromTables(g, n)' <=> FromTables(g, n)
  BY <1>1 DEF FromTables
<1>3. \A g : Values(g)' = Values(g)
  BY DEF Values
<1>4. \A g, n : ByTable(g, n)' <=> ByTable(g, n)
  BY DEF ByTable
<1>5. \A g, n : CallsByTable(g, n)' <=> CallsByTable(g, n)
  BY <1>4 DEF CallsByTable
<1>6. \A g : Instances(g)' = Instances(g)
  BY DEF Instances
<1>7. \A g, n : ReadRight(g, n) => ReadRight(g, n)'
  BY <1>3, <1>4 DEF ReadRight
<1>8. AsRead => AsRead'
  BY <1>7 DEF AsRead
<1> QED
  BY <1>1, <1>2, <1>3, <1>4, <1>5, <1>6, <1>8

LEMMA NextBodyKeeps == ASSUME IInv, NextBody PROVE IInv'
<1>1. /\ UNCHANGED <<kinds, text, tables, failed>> /\ replace' = replace /\ inst' = inst /\ done' = done
      /\ table' = table /\ sig' = sig /\ slot' = slot /\ misfits' = misfits
      /\ phase = "analyse" /\ failed = FALSE
  BY DEF NextBody, KeepReplaced, emitVars, IInv, GenericsTypeOK
<1>2. /\ at \in Funcs /\ at \in Nat /\ Len(kinds) \in Nat /\ at \in 1..Len(kinds)
      /\ inst = 0 /\ done = 0 /\ slot = <<>> /\ misfits = {}
      /\ \A g \in Funcs : g > at => text[g] = <<>>
      /\ \A g \in Funcs : Len(sig[g]) = 0
  BY <1>1, AtFacts, RefFacts DEF IInv, GenericsTypeOK, Phases, Declared
<1>3. PICK a : a = at'
  OBVIOUS
<1>4. /\ a \in 1..Len(kinds) /\ a \in Funcs
      /\ \/ a = at + 1 /\ phase' = "analyse"
         \/ a = 1 /\ phase' = "init"
  <2>1. a \in 1..Len(kinds) /\ ((a = at + 1 /\ phase' = "analyse") \/ (a = 1 /\ phase' = "init"))
    BY <1>1, <1>2, <1>3 DEF NextBody
  <2>2. Len(kinds) <= MaxFuncs /\ MaxFuncs \in Nat
    BY TypesAssumption, AtFacts DEF IInv, Funcs
  <2> QED
    BY <1>2, <2>1, <2>2 DEF Funcs
<1>5. Len(text[a]) \in Nat /\ Instances(a) \in Nat
  BY <1>4, AtFacts, TextFacts DEF IInv
<1>6. GenericsTypeOK'
  <2>1. inst' \in 0..Instances(a)' /\ done' \in 0..Len(text'[a]) /\ a \in 1..Len(kinds')
    BY <1>1, <1>2, <1>4, <1>5, SettledFacts
  <2>2. phase' \in {"analyse", "init", "emit", "done", "aborted"}
    BY <1>4
  <2>3. inst' \in (0..Instances(at))'
    BY <1>3, <2>1 DEF Instances
  <2> QED
    BY <1>1, <1>3, <2>1, <2>2, <2>3 DEF IInv, GenericsTypeOK
<1>7. Phases'
  <2>1. ASSUME NEW g \in Funcs, a = at + 1, g > a PROVE text'[g] = <<>>
    <3>1. g > at
      BY <1>2, <2>1, RefFacts
    <3> QED
      BY <1>1, <1>2, <3>1
  <2>2. 0 <= Len(tables'[a])
    BY <1>1, <1>4, TextFacts DEF IInv
  <2> QED
    BY <1>1, <1>2, <1>3, <1>4, <2>1, <2>2 DEF Phases
<1>8. Declared'
  <2>1. \A g \in Funcs : ~(g < 1) /\ (g = 1 \/ g > 1)
    BY TypesAssumption DEF Funcs
  <2>2. CASE phase' = "analyse"
    BY <1>1, <1>2, <2>2 DEF Declared
  <2>3. CASE phase' = "init" /\ at' = 1
    BY <1>1, <1>2, <2>1, <2>3 DEF Declared
  <2> QED
    BY <1>3, <1>4, <2>2, <2>3
<1>9. Replaced' /\ AsRead'
  BY <1>1, SettledFacts DEF IInv, Replaced
<1>10. SelfKnown'
  <2>1. a = at + 1 => ~CallsByTable(a, Len(text[a]))
    <3>1. a = at + 1 => text[a] = <<>>
      BY <1>2, <1>4
    <3>2. Len(<<>>) = 0
      OBVIOUS
    <3> QED
      BY <3>1, <3>2 DEF CallsByTable
  <2>2. /\ \A g \in Funcs : CallsByTable(g, Len(text[g])) => replace[Self] # NoType
        /\ replace[Self] \in Funcs => CallsByTable(replace[Self], Len(text[replace[Self]]))
    BY DEF IInv, SelfKnown
  <2>3. \A g, n : CallsByTable(g, n)' <=> CallsByTable(g, n)
    BY <1>1, SettledFacts
  <2>4. CallsByTable(at, Len(text[at]))' <=> CallsByTable(a, Len(text[a]))
    BY <1>1, <1>3 DEF CallsByTable, ByTable
  <2>5. \A g \in Funcs : CallsByTable(g, Len(text[g]))' => replace'[Self] # NoType
    BY <1>1, <2>2, <2>3
  <2>6. ASSUME NEW f \in Funcs, f = replace'[Self] PROVE CallsByTable(f, Len(text[f]))'
    BY <1>1, <2>2, <2>3, <2>6
  <2>7. replace'[Self] \in Funcs => CallsByTable(replace[Self], Len(text[replace[Self]]))'
    BY <1>1, <2>6
  <2> QED
    BY <1>1, <1>2, <1>4, <2>1, <2>4, <2>5, <2>7 DEF SelfKnown
<1>11. OnlyTables'
  BY <1>1, SettledFacts DEF IInv, OnlyTables
<1>12. UnresolvedOnlyShared' /\ TableCallsReachOwn' /\ OneTypeFits'
  BY <1>1, <1>2, <1>4 DEF UnresolvedOnlyShared, TableCallsReachOwn, OneTypeFits
<1> QED
  BY <1>6, <1>7, <1>8, <1>9, <1>10, <1>11, <1>12 DEF IInv

(***************************************************************************)
(* Declaration                                                             *)
(***************************************************************************)
LEMMA SelfStays ==
    ASSUME IInv, UNCHANGED <<kinds, text, tables, failed>>, replace'[Self] = replace[Self],
           phase' # "analyse",
           phase' = "emit" /\ inst' > 0 => (CallsByTable(at, done)' => replace'[Self] = at')
    PROVE  SelfKnown'
<1>1. \A g, n : CallsByTable(g, n)' <=> CallsByTable(g, n)
  BY SettledFacts
<1>2. /\ \A g \in Funcs : CallsByTable(g, Len(text[g])) => replace[Self] # NoType
      /\ replace[Self] \in Funcs => CallsByTable(replace[Self], Len(text[replace[Self]]))
  BY DEF IInv, SelfKnown
<1>3. \A g \in Funcs : CallsByTable(g, Len(text[g]))' => replace'[Self] # NoType
  BY <1>1, <1>2
<1>4. ASSUME NEW f \in Funcs, f = replace'[Self] PROVE CallsByTable(f, Len(text[f]))'
  BY <1>1, <1>2, <1>4
<1>5. replace'[Self] \in Funcs => CallsByTable(replace[Self], Len(text[replace[Self]]))'
  BY <1>4
<1> QED
  BY <1>3, <1>5 DEF SelfKnown

LEMMA DeclareTable ==
    ASSUME IInv, Declare, inst < Len(tables[at])
    PROVE  IInv'
<1>1. /\ UNCHANGED <<kinds, text, tables, failed>> /\ phase' = phase /\ at' = at /\ done' = done
      /\ table' = table /\ slot' = slot /\ misfits' = misfits /\ phase = "init"
  BY DEF Declare
<1>2. PICK h : h = at
  OBVIOUS
<1>3. PICK i : i = inst + 1
  OBVIOUS
<1>4. /\ h \in Funcs /\ inst \in Nat /\ i \in 1..Len(tables[h]) /\ tables[h] # <<>>
      /\ replace \in Replacement /\ done = 0 /\ slot = <<>> /\ misfits = {}
      /\ tables[h][i] \in Types /\ tables[h][i] \in AllTables
  <2>1. h \in Funcs /\ inst \in Nat /\ Len(tables[h]) \in Nat
    BY <1>2, AtFacts, TextFacts DEF IInv
  <2>2. i \in 1..Len(tables[h]) /\ tables[h] # <<>>
    BY <1>2, <1>3, <2>1
  <2>3. tables[h][i] \in Types /\ tables[h][i] \in AllTables
    BY <2>1, <2>2, TextFacts, TablesFacts DEF IInv
  <2> QED
    BY <1>1, <2>1, <2>2, <2>3 DEF IInv, GenericsTypeOK, Phases, Replacement
<1>5. PICK r : r = [replace EXCEPT ![at] = tables[at][inst + 1]]
  OBVIOUS
<1>6. /\ r \in Replacement /\ r[h] = tables[h][i] /\ r[Self] = replace[Self]
      /\ \A g \in Funcs \ {h} : r[g] = replace[g]
  <2>1. h \in Replaceable /\ h # Self /\ tables[h][i] \notin Funcs /\ Self \in Replaceable
    BY <1>4, RefFacts DEF Replaceable
  <2> QED
    BY <1>2, <1>3, <1>4, <1>5, <2>1 DEF Replacement, Replaceable
<1>7. replace' = r /\ inst' = i /\ sig' = [sig EXCEPT ![h] = Append(sig[h], Resolve(r, h))]
  BY <1>2, <1>3, <1>5 DEF Declare
<1>8. Resolve(r, h) = tables[h][i]
  BY <1>4, <1>6, ResolveFacts
<1>9. PICK a : a = Append(sig[h], tables[h][i])
  OBVIOUS
<1>10. /\ sig \in [Funcs -> Seq(Types)] /\ sig[h] \in Seq(Types)
       /\ a \in Seq(Types) /\ Len(a) = Len(sig[h]) + 1 /\ ToSet(a) = ToSet(sig[h]) \cup {tables[h][i]}
  <2>1. sig \in [Funcs -> Seq(Types)] /\ sig[h] \in Seq(Types)
    BY <1>4 DEF IInv, GenericsTypeOK
  <2>2. a \in Seq(Types) /\ Len(a) = Len(sig[h]) + 1
    BY <1>4, <1>9, <2>1
  <2>3. ToSet(a) = ToSet(sig[h]) \cup {tables[h][i]}
    <3>1. /\ Len(sig[h]) \in Nat /\ a[Len(sig[h]) + 1] = tables[h][i]
          /\ \A n \in 1..Len(sig[h]) : a[n] = sig[h][n]
      BY <1>4, <1>9, <2>1, AppendFacts
    <3>2. 1..Len(a) = 1..Len(sig[h]) \cup {Len(sig[h]) + 1}
      BY <2>2, <3>1
    <3>3. ToSet(a) = {a[n] : n \in 1..Len(a)} /\ ToSet(sig[h]) = {sig[h][n] : n \in 1..Len(sig[h])}
      BY <2>1, <2>2, LenProperties DEF ToSet
    <3> QED
      BY <3>1, <3>2, <3>3
  <2> QED
    BY <2>1, <2>2, <2>3
<1>11. /\ sig' \in [Funcs -> Seq(Types)] /\ sig'[h] = a
       /\ \A g \in Funcs \ {h} : sig'[g] = sig[g]
  BY <1>4, <1>7, <1>8, <1>9, <1>10
<1>12. kinds[h] = "generic" /\ Instances(h) = Len(tables[h])
  BY <1>4 DEF IInv, Replaced, Instances
<1>13. GenericsTypeOK'
  <2>1. inst' \in (0..Instances(at))'
    <3>1. Instances(at)' = Instances(h)
      BY <1>1, <1>2 DEF Instances
    <3>2. i \in 0..Instances(h)
      BY <1>4, <1>12
    <3> QED
      BY <1>7, <3>1, <3>2
  <2>2. replace' \in [Replaceable -> Types \cup Funcs \cup {NoType}] /\ \A g \in Funcs : replace'[g] \notin Funcs
    BY <1>6, <1>7 DEF Replacement
  <2> QED
    BY <1>1, <1>11, <2>1, <2>2 DEF IInv, GenericsTypeOK
<1>14. Phases'
  <2>1. inst' <= Len(tables[at])'
    BY <1>1, <1>2, <1>4, <1>7
  <2> QED
    BY <1>1, <1>4, <2>1 DEF IInv, Phases
<1>15. Declared'
  <2>1. ASSUME NEW g \in Funcs
        PROVE  /\ g < at => Len(sig'[g]) = Len(tables'[g])
               /\ g = at => Len(sig'[g]) = i
               /\ g > at => Len(sig'[g]) = 0
    <3>1. h \in Nat /\ g \in Nat
      BY <1>4, RefFacts
    <3>2. /\ g < h => Len(sig[g]) = Len(tables[g])
          /\ g = h => Len(sig[g]) = inst
          /\ g > h => Len(sig[g]) = 0
      BY <1>1, <1>2, <3>1 DEF IInv, Declared
    <3>3. g # h => sig'[g] = sig[g]
      BY <1>11
    <3>4. g = h => Len(sig'[g]) = Len(sig[g]) + 1
      BY <1>10, <1>11
    <3>5. tables'[g] = tables[g]
      BY <1>1
    <3> QED
      BY <1>2, <1>3, <3>1, <3>2, <3>3, <3>4, <3>5
  <2>2. \A g \in Funcs : g < at \/ g = at \/ g > at
    BY <1>2, <1>4, RefFacts
  <2> QED
    BY <1>1, <1>7, <2>1, <2>2 DEF Declared
<1>16. Replaced'
  <2>1. ASSUME NEW g \in Funcs
        PROVE  /\ r[g] = NoType <=> tables[g] = <<>>
               /\ tables[g] # <<>> => g <= Len(kinds) /\ kinds[g] = "generic"
    <3>1. CASE g = h
      BY <1>4, <1>6, <3>1, RefFacts DEF IInv, Replaced
    <3>2. CASE g # h
      BY <1>6, <3>2 DEF IInv, Replaced
    <3> QED
      BY <3>1, <3>2
  <2> QED
    BY <1>1, <1>7, <2>1 DEF Replaced
<1>17. SelfKnown'
  BY <1>1, <1>6, <1>7, SelfStays
<1>18. OnlyTables'
  <2>1. \A t \in Replaceable : r[t] \in Types => r[t] \in AllTables
    BY <1>4, <1>6 DEF IInv, OnlyTables, Replaceable
  <2>2. \A g \in Funcs : ToSet(sig'[g]) \subseteq AllTables
    BY <1>4, <1>10, <1>11 DEF IInv, OnlyTables
  <2>3. AllTables' = AllTables /\ \A g, n : FromTables(g, n)' <=> FromTables(g, n)
    BY <1>1, SettledFacts
  <2>4. \A g \in Funcs : \A n \in 1..Len(text'[g]) : FromTables(g, n)'
    BY <1>1, <2>3 DEF IInv, OnlyTables
  <2>5. \A v \in DOMAIN slot' : slot'[v] \in AllTables'
    BY <1>1, <2>3 DEF IInv, OnlyTables
  <2> QED
    BY <1>7, <2>1, <2>2, <2>3, <2>4, <2>5 DEF OnlyTables
<1>19. AsRead'
  BY <1>1, SettledFacts DEF IInv
<1>20. UnresolvedOnlyShared' /\ TableCallsReachOwn' /\ OneTypeFits'
  BY <1>1, <1>4 DEF UnresolvedOnlyShared, TableCallsReachOwn, OneTypeFits
<1> QED
  BY <1>13, <1>14, <1>15, <1>16, <1>17, <1>18, <1>19, <1>20 DEF IInv

LEMMA DeclareNext ==
    ASSUME IInv, Declare, ~(inst < Len(tables[at]))
    PROVE  IInv'
<1>1. /\ UNCHANGED <<kinds, text, tables, failed>> /\ done' = done /\ replace' = replace
      /\ table' = table /\ sig' = sig /\ slot' = slot /\ misfits' = misfits
      /\ phase = "init" /\ inst' = 0
  BY DEF Declare
<1>2. /\ at \in Funcs /\ Len(kinds) \in Nat /\ at \in 1..Len(kinds) /\ Len(kinds) <= MaxFuncs /\ MaxFuncs \in Nat
      /\ done = 0 /\ slot = <<>> /\ misfits = {} /\ inst = Len(tables[at])
      /\ Len(tables[at]) \in Nat
  <2>1. at \in Funcs /\ at \in 1..Len(kinds) /\ Len(kinds) \in Funcs /\ inst \in Nat /\ Len(tables[at]) \in Nat
    BY AtFacts, TextFacts DEF IInv, GenericsTypeOK
  <2>2. inst <= Len(tables[at]) /\ done = 0 /\ slot = <<>> /\ misfits = {}
    BY <1>1 DEF IInv, Phases
  <2> QED
    BY <2>1, <2>2, TypesAssumption DEF Funcs
<1>3. PICK a : a = at'
  OBVIOUS
<1>4. /\ a \in 1..Len(kinds) /\ a \in Funcs
      /\ \/ a = at + 1 /\ phase' = "init"
         \/ a = 1 /\ phase' = "emit" /\ at = Len(kinds)
  <2>1. /\ a \in 1..Len(kinds)
        /\ (a = at + 1 /\ phase' = "init") \/ (a = 1 /\ phase' = "emit" /\ at = Len(kinds))
    BY <1>1, <1>2, <1>3 DEF Declare
  <2> QED
    BY <1>2, <2>1 DEF Funcs
<1>5. Len(text[a]) \in Nat /\ Instances(a) \in Nat /\ Len(tables[a]) \in Nat
  BY <1>4, AtFacts, TextFacts DEF IInv
<1>6. GenericsTypeOK'
  <2>1. 0 \in 0..Instances(a)' /\ done' \in 0..Len(text'[a]) /\ a \in 1..Len(kinds')
    BY <1>1, <1>2, <1>4, <1>5, SettledFacts
  <2>2. phase' \in {"analyse", "init", "emit", "done", "aborted"}
    BY <1>4
  <2>3. inst' \in (0..Instances(at))'
    BY <1>1, <1>3, <2>1 DEF Instances
  <2> QED
    BY <1>1, <1>3, <2>1, <2>2, <2>3 DEF IInv, GenericsTypeOK
<1>7. Phases'
  <2>1. 0 <= Len(tables'[a])
    BY <1>1, <1>5
  <2> QED
    BY <1>1, <1>2, <1>3, <1>4, <2>1 DEF IInv, Phases
<1>8. Declared'
  <2>1. ASSUME NEW g \in Funcs
        PROVE  /\ g <= at => Len(sig[g]) = Len(tables[g])
               /\ g > at => Len(sig[g]) = 0
               /\ g > Len(kinds) => Len(tables[g]) = 0
               /\ g \in Nat
    <3>1. g \in Nat /\ at \in Nat
      BY <1>2, RefFacts
    <3>2. g <= at => Len(sig[g]) = Len(tables[g])
      BY <1>1, <1>2, <3>1 DEF IInv, Declared
    <3>3. g > at => Len(sig[g]) = 0
      BY <1>1, <3>1 DEF IInv, Declared
    <3>4. g > Len(kinds) => tables[g] = <<>>
      BY <1>2, <3>1 DEF IInv, Replaced
    <3> QED
      BY <3>1, <3>2, <3>3, <3>4
  <2>2. CASE a = at + 1 /\ phase' = "init"
    <3>1. ASSUME NEW g \in Funcs
          PROVE  /\ g < at' => Len(sig'[g]) = Len(tables'[g])
                 /\ g = at' => Len(sig'[g]) = inst'
                 /\ g > at' => Len(sig'[g]) = 0
                 /\ g < at' \/ g = at' \/ g > at'
      BY <1>1, <1>2, <1>3, <2>1, <2>2
    <3> QED
      BY <2>2, <3>1 DEF Declared
  <2>3. CASE a = 1 /\ phase' = "emit" /\ at = Len(kinds)
    <3>1. \A g \in Funcs : Len(sig'[g]) = Len(tables'[g])
      BY <1>1, <1>2, <2>1, <2>3
    <3> QED
      BY <2>3, <3>1 DEF Declared
  <2> QED
    BY <1>4, <2>2, <2>3
<1>9. Replaced' /\ AsRead'
  BY <1>1, SettledFacts DEF IInv, Replaced
<1>10. SelfKnown'
  BY <1>1, <1>4, SelfStays
<1>11. OnlyTables'
  BY <1>1, SettledFacts DEF IInv, OnlyTables
<1>12. UnresolvedOnlyShared' /\ TableCallsReachOwn' /\ OneTypeFits'
  BY <1>1, <1>2, <1>4 DEF UnresolvedOnlyShared, TableCallsReachOwn, OneTypeFits
<1> QED
  BY <1>6, <1>7, <1>8, <1>9, <1>10, <1>11, <1>12 DEF IInv

(***************************************************************************)
(* Emission                                                                *)
(***************************************************************************)
LEMMA InstanceKeeps == ASSUME IInv, EmitInstance PROVE IInv'
<1>1. /\ UNCHANGED <<kinds, text, tables, failed>> /\ phase' = "emit" /\ at' = at /\ done' = 0
      /\ sig' = sig /\ misfits' = misfits /\ phase = "emit"
      /\ inst' = inst + 1 /\ inst < Instances(at)
  BY DEF EmitInstance
<1>2. PICK h : h = at
  OBVIOUS
<1>3. PICK i : i = inst + 1
  OBVIOUS
<1>4. /\ h \in Funcs /\ h \in Nat /\ inst \in Nat /\ Instances(h) \in Nat /\ i \in 0..Instances(h) /\ i > 0
      /\ h <= Len(kinds) /\ kinds[h] \in {"plain", "generic"} /\ replace \in Replacement
      /\ Len(text[h]) \in Nat
  <2>1. h \in Funcs /\ inst \in Nat /\ Instances(h) \in Nat /\ h \in 1..Len(kinds)
    BY <1>2, AtFacts DEF IInv, GenericsTypeOK
  <2>2. i \in 0..Instances(h) /\ i > 0 /\ h <= Len(kinds) /\ h \in Nat
    BY <1>1, <1>2, <1>3, <2>1
  <2>3. kinds[h] \in {"plain", "generic"} /\ Len(text[h]) \in Nat
    BY <2>1, <2>2, AtFacts, TextFacts DEF IInv
  <2> QED
    BY <2>1, <2>2, <2>3 DEF IInv, GenericsTypeOK, Replacement
<1>5. PICK r : r = replace'
  OBVIOUS
<1>6. PICK l : l = slot'
  OBVIOUS
<1>7. /\ r \in Replacement /\ r[Self] = replace[Self]
      /\ \A g \in Funcs : r[g] = NoType <=> replace[g] = NoType
      /\ \A t \in Replaceable : r[t] \in Types => r[t] \in AllTables
      /\ l \in [DOMAIN l -> Types] /\ \A v \in DOMAIN l : l[v] \in AllTables
      /\ DOMAIN l = IF kinds[h] = "generic" THEN {0} ELSE {}
      /\ table' \in [Funcs -> Types \cup {NoType}]
      /\ kinds[h] = "generic" => table'[h] = tables[h][i]
  <2>1. CASE kinds[h] = "generic"
    <3>1. i \in 1..Len(tables[h])
      BY <1>1, <1>2, <1>3, <1>4, <2>1 DEF Instances
    <3>2. PICK c : c = tables[h][i]
      OBVIOUS
    <3>3. /\ c \in Types /\ c \in AllTables /\ c # NoType /\ c \notin Funcs /\ tables[h] # <<>>
          /\ h \in Replaceable /\ h # Self /\ Self \in Replaceable
      BY <1>4, <3>1, <3>2, TextFacts, TablesFacts, RefFacts DEF IInv, Replaceable
    <3>4. /\ r = [replace EXCEPT ![h] = c] /\ table' = [table EXCEPT ![h] = c]
          /\ l = [v \in {0} |-> Resolve(r, h)]
      BY <1>2, <1>3, <1>5, <1>6, <2>1, <3>2 DEF EmitInstance, SetTable
    <3>5. /\ r \in Replacement /\ r[h] = c /\ r[Self] = replace[Self]
          /\ \A g \in Funcs \ {h} : r[g] = replace[g]
      BY <1>4, <3>3, <3>4 DEF Replacement, Replaceable
    <3>6. Resolve(r, h) = c
      BY <1>4, <3>5, ResolveFacts
    <3>7. replace[h] # NoType
      BY <1>4, <3>3 DEF IInv, Replaced
    <3>8. \A t \in Replaceable : r[t] \in Types => r[t] \in AllTables
      BY <3>3, <3>5 DEF IInv, OnlyTables, Replaceable
    <3>9. table' \in [Funcs -> Types \cup {NoType}] /\ table'[h] = c
      BY <1>4, <3>3, <3>4 DEF IInv, GenericsTypeOK
    <3>10. \A g \in Funcs : r[g] = NoType <=> replace[g] = NoType
      BY <3>3, <3>5, <3>7
    <3> QED
      BY <2>1, <3>2, <3>3, <3>4, <3>5, <3>6, <3>8, <3>9, <3>10
  <2>2. CASE kinds[h] # "generic"
    <3>1. r = replace /\ table' = table /\ l = [v \in {} |-> NoType]
      BY <1>2, <1>5, <1>6, <2>2 DEF EmitInstance
    <3> QED
      BY <1>4, <2>2, <3>1 DEF IInv, GenericsTypeOK, OnlyTables
  <2> QED
    BY <2>1, <2>2
<1>8. GenericsTypeOK'
  <2>1. inst' \in (0..Instances(at))' /\ done' \in (0..Len(text[at]))'
    <3>1. Instances(at)' = Instances(h) /\ 0 \in 0..Len(text[h])
      BY <1>1, <1>2, <1>4 DEF Instances
    <3> QED
      BY <1>1, <1>2, <1>3, <1>4, <3>1
  <2>2. replace' \in [Replaceable -> Types \cup Funcs \cup {NoType}] /\ \A g \in Funcs : replace'[g] \notin Funcs
    BY <1>5, <1>7 DEF Replacement
  <2> QED
    BY <1>1, <1>6, <1>7, <2>1, <2>2 DEF IInv, GenericsTypeOK
<1>9. Phases'
  <2>1. DOMAIN slot' = {v \in Values(at)' : v <= 0}
    <3>1. Values(at)' = Values(h)
      BY <1>1, <1>2 DEF Values
    <3>2. {v \in Values(h) : v <= 0} = IF kinds[h] = "generic" THEN {0} ELSE {}
      BY <1>4 DEF Values
    <3> QED
      BY <1>6, <1>7, <3>1, <3>2
  <2>2. kinds'[at'] = "generic" => table'[at'] = tables'[at'][inst']
    BY <1>1, <1>2, <1>3, <1>7
  <2>3. ~failed'
    BY <1>1 DEF IInv, Phases
  <2> QED
    BY <1>1, <2>1, <2>2, <2>3 DEF Phases
<1>10. Declared'
  BY <1>1 DEF IInv, Declared
<1>11. Replaced'
  <2>1. \A g \in Funcs : replace'[g] = NoType <=> replace[g] = NoType
    BY <1>5, <1>7
  <2> QED
    BY <1>1, <2>1 DEF IInv, Replaced
<1>12. AsRead'
  BY <1>1, SettledFacts DEF IInv
<1>13. SelfKnown'
  <2>1. ~CallsByTable(at, done)'
    BY <1>1 DEF CallsByTable
  <2>2. replace'[Self] = replace[Self]
    BY <1>5, <1>7
  <2> QED
    BY <1>1, <2>1, <2>2, SelfStays
<1>14. OnlyTables'
  <2>1. AllTables' = AllTables /\ \A g, n : FromTables(g, n)' <=> FromTables(g, n)
    BY <1>1, SettledFacts
  <2>2. \A t \in Replaceable : replace'[t] \in Types => replace'[t] \in AllTables'
    BY <1>5, <1>7, <2>1
  <2>3. \A v \in DOMAIN slot' : slot'[v] \in AllTables'
    BY <1>6, <1>7, <2>1
  <2> QED
    BY <1>1, <2>1, <2>2, <2>3 DEF IInv, OnlyTables
<1>15. UnresolvedOnlyShared' /\ TableCallsReachOwn' /\ OneTypeFits'
  <2>1. AllTables' = AllTables
    BY <1>1, SettledFacts
  <2> QED
    BY <1>1, <2>1 DEF IInv, UnresolvedOnlyShared, TableCallsReachOwn, OneTypeFits
<1> QED
  BY <1>8, <1>9, <1>10, <1>11, <1>12, <1>13, <1>14, <1>15 DEF IInv

LEMMA NextFuncKeeps == ASSUME IInv, EmitNextFunc PROVE IInv'
<1>1. /\ UNCHANGED <<kinds, text, tables, failed>> /\ done' = 0 /\ inst' = 0 /\ replace' = replace
      /\ table' = table /\ sig' = sig /\ slot' = <<>> /\ misfits' = misfits /\ phase = "emit"
      /\ phase' \in {"emit", "done"}
  BY DEF EmitNextFunc
<1>2. PICK a : a = at'
  OBVIOUS
<1>3. a \in 1..Len(kinds) /\ a \in Funcs
  <2>1. /\ at \in 1..Len(kinds) /\ Len(kinds) \in Nat /\ Len(kinds) <= MaxFuncs /\ MaxFuncs \in Nat
    BY TypesAssumption, AtFacts DEF IInv, GenericsTypeOK, Funcs
  <2>2. a \in 1..Len(kinds)
    BY <1>2, <2>1 DEF EmitNextFunc
  <2> QED
    BY <2>1, <2>2 DEF Funcs
<1>4. GenericsTypeOK'
  <2>1. Len(text[a]) \in Nat /\ Instances(a) \in Nat
    BY <1>3, AtFacts, TextFacts DEF IInv
  <2>2. Instances(at)' = Instances(a) /\ text'[at'] = text[a]
    BY <1>1, <1>2 DEF Instances
  <2>3. inst' \in (0..Instances(at))' /\ done' \in (0..Len(text[at]))'
    BY <1>1, <2>1, <2>2
  <2>4. slot' \in [DOMAIN slot' -> Types] /\ phase' \in {"analyse", "init", "emit", "done", "aborted"}
    BY <1>1
  <2> QED
    BY <1>1, <1>2, <1>3, <2>3, <2>4 DEF IInv, GenericsTypeOK
<1>5. Phases'
  BY <1>1 DEF IInv, Phases
<1>6. Declared'
  BY <1>1 DEF IInv, Declared
<1>7. Replaced' /\ AsRead'
  BY <1>1, SettledFacts DEF IInv, Replaced
<1>8. SelfKnown'
  BY <1>1, SelfStays
<1>9. OnlyTables'
  <2>1. DOMAIN slot' = {}
    BY <1>1
  <2> QED
    BY <1>1, <2>1, SettledFacts DEF IInv, OnlyTables
<1>10. UnresolvedOnlyShared' /\ TableCallsReachOwn' /\ OneTypeFits'
  <2>1. AllTables' = AllTables
    BY <1>1, SettledFacts
  <2> QED
    BY <1>1, <2>1 DEF IInv, UnresolvedOnlyShared, TableCallsReachOwn, OneTypeFits
<1> QED
  BY <1>4, <1>5, <1>6, <1>7, <1>8, <1>9, <1>10 DEF IInv

\* What holds where a statement of an instance is emitted.
LEMMA AtStmtFacts ==
    ASSUME IInv, NEW k, AtStmt(k)
    PROVE  /\ at \in Funcs /\ at <= Len(kinds) /\ phase = "emit" /\ inst \in Nat /\ inst > 0 /\ done \in Nat
           /\ failed = FALSE /\ replace \in Replacement
           /\ done + 1 \in 1..Len(text[at]) /\ S \in Stmt /\ S.kind = k /\ S.ok
           /\ ReadRight(at, done + 1) /\ FromTables(at, done + 1)
           /\ DOMAIN slot = {v \in Values(at) : v <= done}
           /\ \A v \in DOMAIN slot : slot[v] \in AllTables
           /\ S.arg \in Types \cup DOMAIN slot /\ (S.arg \in Types => S.arg \in AllTables)
           /\ kinds[at] = "generic" =>
                 /\ inst \in 1..Len(tables[at]) /\ tables[at] # <<>> /\ replace[at] # NoType
                 /\ table[at] = tables[at][inst] /\ tables[at][inst] \in AllTables
<1>1. /\ at \in Funcs /\ at <= Len(kinds) /\ inst \in Nat /\ done \in Nat /\ done \in 0..Len(text[at])
      /\ Len(text[at]) \in Nat /\ Len(tables[at]) \in Nat
  <2>1. at \in Funcs /\ inst \in Nat /\ done \in Nat /\ at \in 1..Len(kinds) /\ done \in 0..Len(text[at])
    BY AtFacts DEF IInv, GenericsTypeOK
  <2>2. Len(text[at]) \in Nat /\ Len(tables[at]) \in Nat /\ Len(kinds) \in Nat
    BY <2>1, AtFacts, TextFacts, RefFacts DEF IInv
  <2> QED
    BY <2>1, <2>2
<1>2. phase = "emit" /\ inst > 0 /\ S.kind = k /\ done # Len(text[at])
  BY DEF AtStmt, Emitting, BodyDone
<1>3. done + 1 \in 1..Len(text[at])
  BY <1>1, <1>2
<1>4. /\ S \in Stmt /\ ReadRight(at, done + 1) /\ FromTables(at, done + 1) /\ failed = FALSE
      /\ replace \in Replacement
  BY <1>1, <1>2, <1>3, TextFacts DEF IInv, AsRead, OnlyTables, S, Phases, GenericsTypeOK, Replacement
<1>5. S.ok
  BY <1>4 DEF ReadRight, S
<1>6. DOMAIN slot = {v \in Values(at) : v <= done} /\ \A v \in DOMAIN slot : slot[v] \in AllTables
  BY <1>2 DEF IInv, Phases, OnlyTables
<1>7. S.arg \in Types \cup DOMAIN slot
  <2>1. S.arg \in Types \cup {v \in Values(at) : v < done + 1}
    BY <1>4 DEF ReadRight, S
  <2>2. \A v \in Values(at) : v < done + 1 => v <= done
    <3>1. \A v \in Values(at) : v \in Nat
      BY <1>1, ValueFacts
    <3> QED
      BY <1>1, <3>1
  <2> QED
    BY <1>6, <2>1, <2>2
<1>8. S.arg \in Types => S.arg \in AllTables
  BY <1>4, <1>5 DEF FromTables, S
<1>9. kinds[at] = "generic" =>
         /\ inst \in 1..Len(tables[at]) /\ tables[at] # <<>> /\ replace[at] # NoType
         /\ table[at] = tables[at][inst] /\ tables[at][inst] \in AllTables
  <2>1. SUFFICES ASSUME kinds[at] = "generic"
                 PROVE  /\ inst \in 1..Len(tables[at]) /\ tables[at] # <<>> /\ replace[at] # NoType
                        /\ table[at] = tables[at][inst] /\ tables[at][inst] \in AllTables
    OBVIOUS
  <2>2. inst \in 0..Len(tables[at])
    BY <2>1 DEF IInv, GenericsTypeOK, Instances
  <2>3. inst \in 1..Len(tables[at])
    BY <1>1, <1>2, <2>2
  <2>4. tables[at] # <<>>
    BY <2>3
  <2> QED
    BY <1>1, <1>2, <2>1, <2>3, <2>4, TablesFacts DEF IInv, Replaced, Phases
<1> QED
  BY <1>1, <1>2, <1>3, <1>4, <1>5, <1>6, <1>7, <1>8, <1>9

\* A value that is read stands for a type from a table.
LEMMA LoadedFacts ==
    ASSUME IInv, NEW k, AtStmt(k), NEW r \in Replacement,
           \A g \in Funcs : r[g] = NoType <=> replace[g] = NoType,
           \A t \in Replaceable : r[t] \in Types => r[t] \in AllTables,
           CallsByTable(at, done) => r[Self] = at
    PROVE  /\ Loaded(r, S.arg) \in AllTables
           /\ InSlot(at, S.arg) => slot[S.arg] \in AllTables
           /\ ~InSlot(at, S.arg) => Loaded(replace, S.arg) \in AllTables
<1> DEFINE v == S.arg
<1>1. /\ at \in Funcs /\ DOMAIN slot = {u \in Values(at) : u <= done}
      /\ \A u \in DOMAIN slot : slot[u] \in AllTables
      /\ v \in Types \cup DOMAIN slot /\ (v \in Types => v \in AllTables)
      /\ kinds[at] = "generic" => replace[at] # NoType
  BY AtStmtFacts
<1>2. \A g \in Funcs : r[g] # NoType => Resolve(r, g) \in AllTables
  BY ResolveFacts, ReplacementFacts DEF Replaceable
<1>3. CASE ~InSlot(at, v)
  <2>1. v \in Types => Loaded(r, v) = v /\ Loaded(replace, v) = v
    BY <1>3 DEF Loaded
  <2>2. v \notin Types => Loaded(r, v) = slot[v] /\ Loaded(replace, v) = slot[v]
    BY <1>3 DEF Loaded
  <2> QED
    BY <1>1, <1>3, <2>1, <2>2
<1>4. CASE InSlot(at, v)
  <2>1. v \notin Types /\ v \in Values(at) /\ v <= done /\ slot[v] \in AllTables
    BY <1>1, <1>4 DEF InSlot
  <2>2. Loaded(r, v) = Resolve(r, TypeOf(at, v))
    BY <1>4 DEF Loaded
  <2>3. CASE v = 0 /\ kinds[at] = "generic"
    <3>1. TypeOf(at, v) = at
      BY <2>1, <2>3 DEF TypeOf
    <3> QED
      BY <1>1, <1>2, <1>4, <2>1, <2>2, <2>3, <3>1
  <2>4. CASE v \in 1..Len(text[at]) /\ text[at][v].kind # "return"
    <3>1. v # 0 /\ TypeOf(at, v) = text[at][v].type
      <4>1. v # 0
        BY <1>1, <2>4, TextFacts DEF IInv
      <4> QED
        BY <2>1, <4>1 DEF TypeOf
    <3>2. ReadRight(at, v) /\ FromTables(at, v) /\ text[at][v] \in Stmt
      BY <1>1, <2>4, TextFacts DEF IInv, AsRead, OnlyTables
    <3>3. PICK s \in Stmt : s = text[at][v]
      BY <3>2
    <3>4. CASE s.kind = "mention"
      <4>1. s.of \in Funcs /\ s.type = s.of /\ s.table \in 1..Len(tables[s.of])
        BY <3>2, <3>3, <3>4, StmtFacts DEF ReadRight
      <4>2. tables[s.of] # <<>>
        BY <4>1
      <4>3. replace[s.of] # NoType
        BY <4>1, <4>2 DEF IInv, Replaced
      <4> QED
        BY <1>2, <1>4, <2>1, <2>2, <3>1, <3>3, <4>1, <4>3
    <3>5. CASE s.kind = "op" /\ s.of \in Types
      <4>1. s.type = s.of /\ s.of \in AllTables
        BY <3>2, <3>3, <3>5, RefFacts DEF ReadRight, FromTables
      <4> QED
        BY <1>4, <2>1, <2>2, <3>1, <3>3, <3>5, <4>1, ResolveFacts
    <3>6. CASE s.kind = "op" /\ s.of \in Funcs
      <4>1. ByTable(at, v) /\ s.type = Self /\ kinds[at] = "generic"
        BY <3>2, <3>3, <3>6 DEF ReadRight, ByTable
      <4>2. CallsByTable(at, done)
        <5>1. v \in 1..done
          BY <2>1, <2>4, AtStmtFacts
        <5> QED
          BY <4>1, <5>1 DEF CallsByTable
      <4>3. Resolve(r, Self) = r[at] /\ r[at] = Resolve(r, at)
        BY <1>1, <4>2, ResolveFacts
      <4> QED
        BY <1>1, <1>2, <1>4, <2>1, <2>2, <3>1, <3>3, <4>1, <4>3
    <3> QED
      BY <2>4, <3>3, <3>4, <3>5, <3>6, StmtFacts
  <2> QED
    BY <1>1, <2>1, <2>3, <2>4, ValueFacts
<1> QED
  BY <1>3, <1>4

\* What the operand of a call is in the text is a type from a table.
LEMMA MeantFacts ==
    ASSUME IInv, NEW k, AtStmt(k)
    PROVE  /\ Meant(S.arg) \in AllTables
           /\ ByTable(at, done + 1) => Meant(S.arg) = tables[at][inst]
<1>1. /\ at \in Funcs /\ S.arg \in Types \cup Values(at) /\ (S.arg \in Types => S.arg \in AllTables)
      /\ done + 1 \in 1..Len(text[at])
      /\ kinds[at] = "generic" => tables[at][inst] \in AllTables
      /\ AllTables \subseteq Types
  BY AtStmtFacts, TablesFacts DEF IInv
<1>2. PICK t : t = Written(at, S.arg)
  OBVIOUS
<1>3. Meant(S.arg) = IF t = at THEN tables[at][inst] ELSE t
  BY <1>2 DEF Meant
<1>4. t \in AllTables \/ (t = at /\ kinds[at] = "generic")
  <2>1. CASE S.arg \in Types
    BY <1>1, <1>2, <2>1 DEF Written
  <2>2. CASE S.arg \in Values(at)
    BY <1>1, <1>2, <2>2, WrittenInTables DEF IInv
  <2> QED
    BY <1>1, <2>1, <2>2
<1>5. ByTable(at, done + 1) => t = at
  BY <1>1, <1>2, TableWritten DEF IInv, S
<1> QED
  BY <1>1, <1>3, <1>4, <1>5, RefFacts

\* A step that emits one statement, writing r into the parameters.
LEMMA EmitKeeps ==
    ASSUME IInv, NEW k, AtStmt(k),
           UNCHANGED <<kinds, text, tables, failed, phase, at, inst, table, sig>>, done' = done + 1,
           NEW r \in Replacement, replace' = r,
           \A g \in Funcs : r[g] = NoType <=> replace[g] = NoType,
           \A t \in Replaceable : r[t] \in Types => r[t] \in AllTables,
           r[Self] = replace[Self] \/ (r[Self] = at /\ ByTable(at, done + 1)),
           ByTable(at, done + 1) => r[Self] = at,
           NEW l, slot' = l, l \in [DOMAIN l -> AllTables],
           DOMAIN l = (DOMAIN slot) \cup IF k = "return" THEN {} ELSE {done + 1},
           NEW what, Noted(what), what \subseteq {"load", "pass", "store", "deref", "callee", "return"},
           "callee" \in what => ~IsGeneric(S.of),
           Cardinality(AllTables) <= 1 /\ AllTables \cap Pointers = {} => what = {}
    PROVE  IInv'
<1>1. /\ at \in Funcs /\ phase = "emit" /\ inst \in Nat /\ inst > 0 /\ done \in Nat
      /\ done + 1 \in 1..Len(text[at]) /\ S \in Stmt /\ S.kind = k
      /\ DOMAIN slot = {v \in Values(at) : v <= done}
  BY AtStmtFacts
<1>2. /\ AllTables' = AllTables /\ AsRead' /\ AllTables \subseteq Types
      /\ \A g, n : FromTables(g, n)' <=> FromTables(g, n)
      /\ \A g : Values(g)' = Values(g)
  BY SettledFacts, TablesFacts DEF IInv
<1>3. PICK h : h = at
  OBVIOUS
<1>4. PICK n : n = done + 1
  OBVIOUS
<1>5. h \in Funcs /\ n \in 1..Len(text[h]) /\ at' = h /\ done' = n /\ Len(text[h]) \in Nat /\ n \in Nat
  BY <1>1, <1>3, <1>4, TextFacts DEF IInv
<1>6. PICK new : new = {Misfit(w) : w \in what}
  OBVIOUS
<1>7. /\ misfits' = misfits \cup new
      /\ new \subseteq [func : Funcs, inst : Nat, stmt : Nat,
                        what : {"load", "pass", "store", "deref", "callee", "return"}]
      /\ \A m \in new : m.func = h /\ m.stmt = n /\ m.what \in what
      /\ what = {} => new = {}
  BY <1>1, <1>3, <1>4, <1>5, <1>6 DEF Noted, Misfit
<1>8. GenericsTypeOK'
  <2>1. inst' \in (0..Instances(at))'
    <3>1. Instances(at)' = Instances(at)
      BY DEF Instances
    <3> QED
      BY <3>1 DEF IInv, GenericsTypeOK
  <2>2. done' \in (0..Len(text[at]))'
    BY <1>3, <1>5
  <2>3. replace' \in [Replaceable -> Types \cup Funcs \cup {NoType}] /\ \A g \in Funcs : replace'[g] \notin Funcs
    BY DEF Replacement
  <2>4. slot' \in [DOMAIN slot' -> Types]
    BY <1>2
  <2>5. misfits' \subseteq [func : Funcs, inst : Nat, stmt : Nat,
                            what : {"load", "pass", "store", "deref", "callee", "return"}]
    BY <1>7 DEF IInv, GenericsTypeOK
  <2> QED
    BY <2>1, <2>2, <2>3, <2>4, <2>5 DEF IInv, GenericsTypeOK
<1>9. Phases'
  <2>1. {v \in Values(h) : v <= n} = {v \in Values(h) : v <= done} \cup IF k = "return" THEN {} ELSE {n}
    <3>1. n \in Values(h) <=> k # "return"
      <4>1. text[h][n].kind = k
        BY <1>1, <1>3, <1>4 DEF S
      <4> QED
        BY <1>1, <1>4, <1>5, <4>1 DEF Values
    <3>2. \A v \in Values(h) : v \in Nat
      BY <1>5, ValueFacts
    <3> QED
      BY <1>1, <1>4, <3>1, <3>2
  <2>2. DOMAIN slot' = {v \in Values(h)' : v <= n}
    BY <1>1, <1>2, <1>3, <1>4, <2>1
  <2>3. DOMAIN slot' = {v \in Values(at)' : v <= done'}
    <3>1. Values(at)' = Values(h)'
      BY <1>5 DEF Values
    <3> QED
      BY <1>5, <2>2, <3>1
  <2> QED
    BY <1>1, <2>3 DEF IInv, Phases
<1>10. Declared'
  BY <1>1 DEF IInv, Declared
<1>11. Replaced'
  BY DEF IInv, Replaced
<1>12. SelfKnown'
  <2>1. \A g, m : CallsByTable(g, m)' <=> CallsByTable(g, m)
    BY SettledFacts
  <2>2. /\ \A g \in Funcs : CallsByTable(g, Len(text[g])) => replace[Self] # NoType
        /\ replace[Self] \in Funcs => CallsByTable(replace[Self], Len(text[replace[Self]]))
        /\ CallsByTable(at, done) => replace[Self] = at
    BY <1>1 DEF IInv, SelfKnown
  <2>3. CallsByTable(h, n) => CallsByTable(at, done) \/ ByTable(at, done + 1)
    <3>1. \A m \in 1..n : m \in 1..done \/ m = n
      BY <1>1, <1>4
    <3> QED
      BY <1>3, <1>4, <3>1 DEF CallsByTable
  <2>4. ByTable(at, done + 1) => CallsByTable(h, Len(text[h]))
    BY <1>3, <1>4, <1>5 DEF CallsByTable
  <2>5. CallsByTable(at, done)' => replace'[Self] = at'
    <3>1. CallsByTable(at, done)' <=> CallsByTable(h, n)
      BY <1>5 DEF CallsByTable, ByTable
    <3> QED
      BY <1>3, <1>5, <2>2, <2>3, <3>1
  <2>6. \A g \in Funcs : CallsByTable(g, Len(text[g]))' => replace'[Self] # NoType
    BY <1>3, <1>5, <2>1, <2>2, RefFacts
  <2>7. ASSUME NEW f \in Funcs, f = replace'[Self] PROVE CallsByTable(f, Len(text[f]))'
    BY <1>3, <2>1, <2>2, <2>4, <2>7
  <2>8. replace'[Self] \in Funcs => CallsByTable(replace[Self], Len(text[replace[Self]]))'
    BY <2>7
  <2> QED
    BY <1>1, <2>5, <2>6, <2>8 DEF SelfKnown
<1>13. OnlyTables'
  BY <1>2 DEF IInv, OnlyTables
<1>14. UnresolvedOnlyShared'
  BY <1>1 DEF UnresolvedOnlyShared
<1>15. TableCallsReachOwn'
  <2>1. text[h][n] = S
    BY <1>3, <1>4 DEF S
  <2>2. ASSUME NEW m \in misfits', m.what = "callee" PROVE ~IsGeneric(text'[m.func][m.stmt].of)
    BY <1>7, <2>1, <2>2 DEF IInv, TableCallsReachOwn
  <2> QED
    BY <2>2 DEF TableCallsReachOwn
<1>16. OneTypeFits'
  BY <1>2, <1>7 DEF IInv, OneTypeFits
<1> QED
  BY <1>2, <1>8, <1>9, <1>10, <1>11, <1>12, <1>13, <1>14, <1>15, <1>16 DEF IInv

\* The alloca of a `var`, and what is noted of the store to it.
LEMMA BoundFacts ==
    ASSUME IInv, NEW k, AtStmt(k), k # "return", ~Unresolved,
           NEW result \in AllTables, Bound(result),
           \A x \in Refs : Resolve(replace, x) # NoType => Resolve(replace, x) \in AllTables \/ x \in Types,
           S.type \in Types => S.type \in AllTables
    PROVE  /\ \E l : slot' = l /\ l \in [DOMAIN l -> AllTables] /\ DOMAIN l = (DOMAIN slot) \cup {done + 1}
           /\ BadStore(result) => \E x, y \in AllTables : x # y
<1>1. /\ \A v \in DOMAIN slot : slot[v] \in AllTables
      /\ S \in Stmt /\ S.kind = k /\ replace \in Replacement
  BY AtStmtFacts
<1>2. PICK x : x = Resolve(replace, S.type)
  OBVIOUS
<1>3. S.bind = "var" => x \in AllTables
  <2>1. S.type \in Refs
    BY <1>1, StmtFacts DEF Refs, Replaceable
  <2>2. S.type \in Types => x = S.type
    BY <1>1, <1>2, ResolveFacts
  <2> QED
    BY <1>2, <2>1, <2>2 DEF Unresolved
<1>4. PICK y : y = IF S.bind = "var" THEN x ELSE result
  OBVIOUS
<1>5. PICK n : n = done + 1
  OBVIOUS
<1>6. PICK l : l = [v \in (DOMAIN slot) \cup {n} |-> IF v # n THEN slot[v] ELSE y]
  OBVIOUS
<1>7. slot' = l
  BY <1>2, <1>4, <1>5, <1>6 DEF Bound
<1>8. l \in [DOMAIN l -> AllTables] /\ DOMAIN l = (DOMAIN slot) \cup {done + 1}
  BY <1>1, <1>3, <1>4, <1>5, <1>6
<1>9. BadStore(result) => \E u, v \in AllTables : u # v
  BY <1>2, <1>3 DEF BadStore
<1> QED
  BY <1>7, <1>8, <1>9

\* What a type stands for during emission, if anything.
LEMMA StandsFor ==
    ASSUME IInv, NEW r \in Replacement,
           \A t \in Replaceable : r[t] \in Types => r[t] \in AllTables
    PROVE  /\ \A x \in Refs : Resolve(r, x) # NoType => Resolve(r, x) \in AllTables \/ x \in Types
           /\ \A g \in Funcs : r[g] # NoType => Resolve(r, g) = r[g] /\ r[g] \in AllTables
<1>1. \A g \in Funcs : r[g] # NoType => Resolve(r, g) = r[g] /\ r[g] \in AllTables
  BY ResolveFacts, ReplacementFacts DEF Replaceable
<1>2. ASSUME NEW x \in Refs, Resolve(r, x) # NoType PROVE Resolve(r, x) \in AllTables \/ x \in Types
  <2>1. CASE x \in Funcs
    BY <1>1, <1>2, <2>1, ResolveFacts
  <2>2. CASE x = Self
    <3>1. r[Self] \in Types \cup Funcs \cup {NoType}
      BY ReplacementFacts
    <3>2. CASE r[Self] \in Funcs
      BY <1>1, <1>2, <2>2, <3>2, ResolveFacts
    <3>3. CASE r[Self] \notin Funcs
      <4>1. Resolve(r, Self) = r[Self]
        BY <3>3, ResolveFacts
      <4> QED
        BY <1>2, <2>2, <3>1, <3>3, <4>1 DEF Replaceable
    <3> QED
      BY <3>2, <3>3
  <2>3. CASE x = NoType
    BY <1>2, <2>3, ResolveFacts
  <2> QED
    BY <2>1, <2>2, <2>3 DEF Refs, Replaceable
<1> QED
  BY <1>1, <1>2

LEMMA EmitMentionKeeps == ASSUME IInv, EmitMention PROVE IInv'
<1> DEFINE r == SetAgain(S)
           passed == Loaded(r, S.arg)
           result == Resolve(r, S.type)
           what == If(InSlot(at, S.arg) /\ passed # slot[S.arg], "load")
                   \cup If(passed # sig[S.of][S.table], "pass")
                   \cup If(BadStore(result), "store")
<1>1. /\ AtStmt("mention") /\ ~Unresolved
      /\ UNCHANGED <<kinds, text, tables, failed, phase, at, inst, table, sig>> /\ done' = done + 1
      /\ replace' = r /\ Bound(result) /\ Noted(what)
  BY DEF EmitMention
<1>2. /\ at \in Funcs /\ phase = "emit" /\ inst > 0 /\ replace \in Replacement
      /\ S \in Stmt /\ S.kind = "mention"
      /\ ReadRight(at, done + 1)
  BY <1>1, AtStmtFacts
<1>3. PICK g : g = S.of
  OBVIOUS
<1>4. PICK c : c = S.with
  OBVIOUS
<1>5. /\ g \in Funcs /\ S.type = g /\ c \in Types /\ S.table \in 1..Len(tables[g]) /\ tables[g][S.table] = c
      /\ tables[g] # <<>> /\ c \in AllTables /\ ~ByTable(at, done + 1)
  <2>1. g \in Funcs /\ c \in Types
    BY <1>2, <1>3, <1>4, StmtFacts
  <2>2. S.type = g /\ S.table \in 1..Len(tables[g]) /\ tables[g][S.table] = c
    BY <1>2, <1>3, <1>4 DEF ReadRight, S
  <2>3. tables[g] # <<>>
    BY <2>2
  <2>4. c \in AllTables
    BY <2>1, <2>2, TablesFacts DEF IInv
  <2>5. ~ByTable(at, done + 1)
    BY <1>2 DEF ByTable, S
  <2> QED
    BY <2>1, <2>2, <2>3, <2>4, <2>5
<1>6. /\ r \in Replacement /\ r[g] = c /\ r[Self] = replace[Self]
      /\ \A h \in Funcs \ {g} : r[h] = replace[h]
  <2>1. g \in Replaceable /\ g # Self /\ c \notin Funcs /\ Self \in Replaceable
    BY <1>5, RefFacts DEF Replaceable
  <2>2. r = [replace EXCEPT ![g] = c]
    BY <1>3, <1>4 DEF SetAgain
  <2> HIDE DEF r
  <2> QED
    BY <1>2, <1>5, <2>1, <2>2 DEF Replacement, Replaceable
<1>7. \A h \in Funcs : r[h] = NoType <=> replace[h] = NoType
  <2>1. replace[g] # NoType /\ c # NoType
    BY <1>5, RefFacts DEF IInv, Replaced
  <2> HIDE DEF r
  <2> QED
    BY <1>6, <2>1
<1>8. \A t \in Replaceable : r[t] \in Types => r[t] \in AllTables
  <2> HIDE DEF r
  <2> QED
    BY <1>5, <1>6 DEF IInv, OnlyTables, Replaceable
<1>9. CallsByTable(at, done) => r[Self] = at
  <2> HIDE DEF r
  <2> QED
    BY <1>2, <1>6 DEF IInv, SelfKnown
<1>10. result = c
  <2> HIDE DEF r
  <2> QED
    BY <1>5, <1>6, ResolveFacts
<1>11. /\ passed \in AllTables
       /\ InSlot(at, S.arg) => slot[S.arg] \in AllTables
  <2> HIDE DEF r
  <2> QED
    BY <1>1, <1>6, <1>7, <1>8, <1>9, LoadedFacts
<1>12. sig[S.of][S.table] \in AllTables
  <2>1. Len(sig[g]) = Len(tables[g]) /\ sig[g] \in Seq(Types) /\ ToSet(sig[g]) \subseteq AllTables
    BY <1>2, <1>5, TextFacts DEF IInv, Declared, OnlyTables
  <2>2. sig[g][S.table] \in ToSet(sig[g])
    BY <1>5, <2>1, LenProperties DEF ToSet
  <2> QED
    BY <1>3, <2>1, <2>2
<1>13. /\ \A x \in Refs : Resolve(replace, x) # NoType => Resolve(replace, x) \in AllTables \/ x \in Types
       /\ S.type \notin Types
  <2>1. S.type \notin Types
    BY <1>5, RefFacts
  <2> QED
    BY <1>2, <2>1, StandsFor DEF IInv, OnlyTables
<1>14. /\ \E l : slot' = l /\ l \in [DOMAIN l -> AllTables] /\ DOMAIN l = (DOMAIN slot) \cup {done + 1}
       /\ BadStore(result) => \E x, y \in AllTables : x # y
  <2> HIDE DEF result
  <2> QED
    BY <1>1, <1>5, <1>10, <1>13, BoundFacts
<1>15. /\ what \subseteq {"load", "pass", "store", "deref", "callee", "return"}
       /\ "callee" \notin what
  BY DEF If
<1>16. Cardinality(AllTables) <= 1 => what = {}
  <2>1. SUFFICES ASSUME Cardinality(AllTables) <= 1 PROVE what = {}
    OBVIOUS
  <2>2. \A x, y \in AllTables : x = y
    BY <2>1, OneType DEF IInv
  <2>3. ~(InSlot(at, S.arg) /\ passed # slot[S.arg]) /\ passed = sig[S.of][S.table] /\ ~BadStore(result)
    <3> HIDE DEF passed, result
    <3> QED
      BY <1>11, <1>12, <1>14, <2>2
  <2> HIDE DEF passed, result
  <2> QED
    BY <2>3 DEF If
<1>17. PICK l : slot' = l /\ l \in [DOMAIN l -> AllTables] /\ DOMAIN l = (DOMAIN slot) \cup {done + 1}
  BY <1>14
<1> QED
  <2> HIDE DEF r, what
  <2> QED
    BY <1>1, <1>5, <1>6, <1>7, <1>8, <1>15, <1>16, <1>17, EmitKeeps

LEMMA EmitOpKeeps == ASSUME IInv, EmitOp PROVE IInv'
<1> DEFINE byTable == IsGeneric(S.of)
           callee == IF byTable THEN table[S.of] ELSE S.of
           self == IF ~InSlot(at, S.arg) THEN Loaded(replace, S.arg) ELSE Resolve(replace, S.of)
           r == IF byTable THEN [replace EXCEPT ![Self] = S.of] ELSE replace
           result == Resolve(r, S.type)
           what == If(InSlot(at, S.arg) /\ self # slot[S.arg], "load")
                   \cup If(byTable /\ ~InSlot(at, S.arg) /\ self \in Pointers, "deref")
                   \cup If(self # callee \/ result # callee, "pass")
                   \cup If(callee # Meant(S.arg), "callee")
                   \cup If(BadStore(result), "store")
<1>1. /\ AtStmt("op") /\ ~Unresolved
      /\ UNCHANGED <<kinds, text, tables, failed, phase, at, inst, table, sig>> /\ done' = done + 1
      /\ replace' = r /\ Bound(result) /\ Noted(what)
  BY DEF EmitOp
<1>2. /\ at \in Funcs /\ phase = "emit" /\ inst > 0 /\ replace \in Replacement
      /\ S \in Stmt /\ S.kind = "op"
      /\ ReadRight(at, done + 1) /\ FromTables(at, done + 1)
      /\ kinds[at] = "generic" =>
            /\ replace[at] # NoType
            /\ table[at] = tables[at][inst] /\ tables[at][inst] \in AllTables
  BY <1>1, AtStmtFacts
<1>3. PICK of : of = S.of
  OBVIOUS
<1>4. /\ of \in Types \cup Funcs /\ (byTable <=> of \in Funcs)
      /\ ByTable(at, done + 1) <=> of \in Funcs
      /\ of \in Types => of \in AllTables
      /\ of \in Funcs => of = at /\ kinds[at] = "generic"
      /\ S.type = IF of \in Funcs THEN Self ELSE of
  <2>1. of \in Types \cup Funcs
    BY <1>2, <1>3, StmtFacts
  <2>2. byTable <=> of \in Funcs
    BY <1>3, <2>1, RefFacts
  <2>3. ByTable(at, done + 1) <=> of \in Funcs
    BY <1>2, <1>3 DEF ByTable, S
  <2>4. of \in Types => of \in AllTables
    BY <1>2, <1>3 DEF FromTables, S
  <2>5. of \in Funcs => of = at /\ kinds[at] = "generic"
    BY <1>2, <1>3, <2>3 DEF ReadRight, S
  <2>6. S.type = IF of \in Funcs THEN Self ELSE of
    BY <1>2, <1>3 DEF ReadRight, S
  <2> QED
    BY <2>1, <2>2, <2>3, <2>4, <2>5, <2>6
<1>5. /\ \A t \in Replaceable : replace[t] \in Types => replace[t] \in AllTables
      /\ CallsByTable(at, done) => replace[Self] = at
  BY <1>2 DEF IInv, OnlyTables, SelfKnown
<1>6. /\ r \in Replacement
      /\ \A h \in Funcs : r[h] = replace[h]
      /\ of \in Funcs => r[Self] = at
      /\ of \notin Funcs => r[Self] = replace[Self]
      /\ \A t \in Replaceable : r[t] \in Types => r[t] \in AllTables
  <2>1. CASE of \in Funcs
    <3>1. r = [replace EXCEPT ![Self] = of] /\ of = at /\ Self \in Replaceable /\ Self \notin Funcs /\ at \notin Types
      BY <1>2, <1>3, <1>4, <2>1, RefFacts DEF Replaceable
    <3> HIDE DEF r
    <3> QED
      BY <1>2, <1>5, <2>1, <3>1 DEF Replacement, Replaceable
  <2>2. CASE of \notin Funcs
    <3>1. r = replace
      BY <1>4, <2>2
    <3> HIDE DEF r
    <3> QED
      BY <1>2, <1>5, <2>2, <3>1
  <2> QED
    BY <2>1, <2>2
<1>7. callee \in AllTables /\ (of \in Funcs => callee = tables[at][inst])
  BY <1>2, <1>3, <1>4
<1>8. result \in AllTables
  <2>1. CASE of \in Funcs
    <3>1. result = r[at] /\ r[at] = replace[at] /\ replace[at] # NoType
      <4> HIDE DEF r
      <4> QED
        BY <1>2, <1>4, <1>6, <2>1, ResolveFacts
    <3> HIDE DEF result
    <3> QED
      BY <1>2, <1>5, <3>1, StandsFor
  <2>2. CASE of \in Types
    <3>1. result = of
      <4> HIDE DEF r
      <4> QED
        BY <1>4, <1>6, <2>2, ResolveFacts, RefFacts
    <3> HIDE DEF result
    <3> QED
      BY <1>4, <2>2, <3>1
  <2> QED
    BY <1>4, <2>1, <2>2
<1>9. /\ InSlot(at, S.arg) => slot[S.arg] \in AllTables
      /\ ~InSlot(at, S.arg) => Loaded(replace, S.arg) \in AllTables
  BY <1>1, <1>2, <1>5, LoadedFacts
<1>10. self \in AllTables
  <2>1. Resolve(replace, of) \in AllTables
    <3>1. CASE of \in Funcs
      BY <1>2, <1>4, <1>5, <3>1, StandsFor
    <3>2. CASE of \in Types
      BY <1>2, <1>4, <3>2, ResolveFacts
    <3> QED
      BY <1>4, <3>1, <3>2
  <2> QED
    BY <1>3, <1>9, <2>1
<1>11. Meant(S.arg) \in AllTables /\ (of \in Funcs => Meant(S.arg) = tables[at][inst])
  BY <1>1, <1>4, MeantFacts
<1>12. /\ \E l : slot' = l /\ l \in [DOMAIN l -> AllTables] /\ DOMAIN l = (DOMAIN slot) \cup {done + 1}
       /\ BadStore(result) => \E x, y \in AllTables : x # y
  <2>1. \A x \in Refs : Resolve(replace, x) # NoType => Resolve(replace, x) \in AllTables \/ x \in Types
    BY <1>2, <1>5, StandsFor
  <2>2. S.type \in Types => S.type \in AllTables
    BY <1>4, RefFacts
  <2> HIDE DEF result
  <2> QED
    BY <1>1, <1>8, <2>1, <2>2, BoundFacts
<1>13. what \subseteq {"load", "pass", "store", "deref", "callee", "return"}
  BY DEF If
<1>14. "callee" \in what => ~byTable
  <2>1. "callee" \in what => callee # Meant(S.arg)
    <3> HIDE DEF callee, self, result
    <3> QED
      BY DEF If
  <2> HIDE DEF callee, what
  <2> QED
    BY <1>4, <1>7, <1>11, <2>1
<1>15. Cardinality(AllTables) <= 1 /\ AllTables \cap Pointers = {} => what = {}
  <2>1. SUFFICES ASSUME Cardinality(AllTables) <= 1, AllTables \cap Pointers = {} PROVE what = {}
    OBVIOUS
  <2>2. \A x, y \in AllTables : x = y
    BY <2>1, OneType DEF IInv
  <2>3. /\ ~(InSlot(at, S.arg) /\ self # slot[S.arg]) /\ self \notin Pointers
        /\ self = callee /\ result = callee /\ callee = Meant(S.arg) /\ ~BadStore(result)
    <3> HIDE DEF self, callee, result
    <3> QED
      BY <1>7, <1>8, <1>9, <1>10, <1>11, <1>12, <2>1, <2>2
  <2> HIDE DEF self, callee, result
  <2> QED
    BY <2>3 DEF If
<1>16. PICK l : slot' = l /\ l \in [DOMAIN l -> AllTables] /\ DOMAIN l = (DOMAIN slot) \cup {done + 1}
  BY <1>12
<1> QED
  <2> HIDE DEF r, what
  <2> QED
    BY <1>1, <1>4, <1>6, <1>13, <1>14, <1>15, <1>16, EmitKeeps

LEMMA EmitReturnKeeps == ASSUME IInv, EmitReturn PROVE IInv'
<1> DEFINE value == Loaded(replace, S.arg)
           what == If(InSlot(at, S.arg) /\ value # slot[S.arg], "load")
                   \cup If(value # sig[at][inst], "return")
<1>1. /\ AtStmt("return")
      /\ UNCHANGED <<kinds, text, tables, replace, failed, phase, at, inst, table, sig, slot>>
      /\ done' = done + 1 /\ Noted(what)
  BY DEF EmitReturn
<1>2. /\ at \in Funcs /\ phase = "emit" /\ inst > 0 /\ replace \in Replacement
      /\ S.kind = "return" /\ ReadRight(at, done + 1)
      /\ kinds[at] = "generic" => inst \in 1..Len(tables[at])
      /\ \A v \in DOMAIN slot : slot[v] \in AllTables
  BY <1>1, AtStmtFacts
<1>3. kinds[at] = "generic" /\ ~ByTable(at, done + 1)
  BY <1>2 DEF ReadRight, ByTable, S
<1>4. /\ \A t \in Replaceable : replace[t] \in Types => replace[t] \in AllTables
      /\ CallsByTable(at, done) => replace[Self] = at
  BY <1>2 DEF IInv, OnlyTables, SelfKnown
<1>5. value \in AllTables /\ (InSlot(at, S.arg) => slot[S.arg] \in AllTables)
  BY <1>1, <1>2, <1>4, LoadedFacts
<1>6. sig[at][inst] \in AllTables
  <2>1. Len(sig[at]) = Len(tables[at]) /\ sig[at] \in Seq(Types) /\ ToSet(sig[at]) \subseteq AllTables
    BY <1>2, TextFacts DEF IInv, Declared, OnlyTables
  <2>2. sig[at][inst] \in ToSet(sig[at])
    BY <1>2, <1>3, <2>1, LenProperties DEF ToSet
  <2> QED
    BY <2>1, <2>2
<1>7. what \subseteq {"load", "pass", "store", "deref", "callee", "return"} /\ "callee" \notin what
  BY DEF If
<1>8. Cardinality(AllTables) <= 1 => what = {}
  <2>1. SUFFICES ASSUME Cardinality(AllTables) <= 1 PROVE what = {}
    OBVIOUS
  <2>2. \A x, y \in AllTables : x = y
    BY <2>1, OneType DEF IInv
  <2>3. ~(InSlot(at, S.arg) /\ value # slot[S.arg]) /\ value = sig[at][inst]
    <3> HIDE DEF value
    <3> QED
      BY <1>5, <1>6, <2>2
  <2> HIDE DEF value
  <2> QED
    BY <2>3 DEF If
<1>9. slot \in [DOMAIN slot -> AllTables]
  BY <1>2 DEF IInv, GenericsTypeOK
<1> QED
  <2> HIDE DEF what
  <2> QED
    BY <1>1, <1>2, <1>3, <1>4, <1>7, <1>8, <1>9, EmitKeeps

LEMMA AbortKeeps == ASSUME IInv, AbortEmission PROVE IInv'
<1>1. /\ UNCHANGED <<kinds, text, tables, failed>> /\ replace' = replace /\ at' = at /\ inst' = inst
      /\ done' = done /\ table' = table /\ sig' = sig /\ slot' = slot /\ misfits' = misfits
      /\ phase' = "aborted" /\ Unresolved
  BY DEF AbortEmission, emitVars
<1>2. PICK k \in {"mention", "op"} : AtStmt(k)
  BY DEF AbortEmission
<1>3. /\ at \in Funcs /\ phase = "emit" /\ replace \in Replacement
      /\ done + 1 \in 1..Len(text[at]) /\ S \in Stmt /\ S.kind = k
      /\ ReadRight(at, done + 1) /\ failed = FALSE
  BY <1>2, AtStmtFacts
<1>4. S.kind = "op" /\ S.type = Self
  <2>1. CASE S.kind = "mention"
    <3>1. S.of \in Funcs /\ S.type = S.of /\ S.table \in 1..Len(tables[S.of])
      BY <1>3, <2>1, StmtFacts DEF ReadRight, S
    <3>2. tables[S.of] # <<>>
      BY <3>1
    <3>3. replace[S.of] # NoType
      BY <3>1, <3>2 DEF IInv, Replaced
    <3> QED
      BY <1>1, <1>3, <3>1, <3>3, ResolveFacts DEF Unresolved
  <2>2. CASE S.kind = "op" /\ S.type \in Types
    BY <1>1, <1>3, <2>2, ResolveFacts, RefFacts DEF Unresolved
  <2> QED
    BY <1>2, <1>3, <2>1, <2>2, StmtFacts
<1>5. CallsByTable(at, Len(text[at]))
  <2>1. text[at][done + 1].of \in Types \cup Funcs
    BY <1>3, <1>4, StmtFacts DEF S
  <2>2. text[at][done + 1].of \in Funcs
    BY <1>3, <1>4, <2>1, RefFacts DEF ReadRight, S
  <2>3. ByTable(at, done + 1)
    BY <1>4, <2>2 DEF ByTable, S
  <2> QED
    BY <1>3, <2>3 DEF CallsByTable
<1>6. PICK f : f = replace[Self]
  OBVIOUS
<1>7. f \in Funcs /\ replace[f] = NoType
  <2>1. f # NoType /\ f \in Types \cup Funcs \cup {NoType}
    BY <1>3, <1>5, <1>6, ReplacementFacts DEF IInv, SelfKnown
  <2>2. Resolve(replace, Self) = NoType
    BY <1>1, <1>4 DEF Unresolved
  <2> QED
    BY <1>3, <1>6, <2>1, <2>2, ResolveFacts
<1>8. tables[f] = <<>>
  BY <1>7 DEF IInv, Replaced
<1>9. PICK n \in 1..Len(text[f]) : ByTable(f, n)
  BY <1>6, <1>7 DEF IInv, SelfKnown, CallsByTable
<1>10. text[f][n].kind = "op" /\ text[f][n].of = f
  BY <1>7, <1>9 DEF IInv, AsRead, ReadRight, ByTable
<1>11. UnresolvedOnlyShared'
  <2>1. S' = S
    BY <1>1 DEF S
  <2>2. /\ f \in Funcs /\ tables'[f] = <<>> /\ n \in 1..Len(text'[f])
        /\ text'[f][n].kind = "op" /\ text'[f][n].of = f
    BY <1>1, <1>7, <1>8, <1>9, <1>10
  <2> QED
    BY <1>4, <2>1, <2>2 DEF UnresolvedOnlyShared
<1>12. GenericsTypeOK'
  <2>1. Instances(at)' = Instances(at)
    BY <1>1 DEF Instances
  <2> QED
    BY <1>1, <2>1 DEF IInv, GenericsTypeOK
<1>13. Phases' /\ Declared' /\ Replaced' /\ AsRead'
  BY <1>1, <1>3, SettledFacts DEF IInv, Phases, Declared, Replaced
<1>14. SelfKnown'
  BY <1>1, SelfStays
<1>15. OnlyTables'
  BY <1>1, SettledFacts DEF IInv, OnlyTables
<1>16. TableCallsReachOwn' /\ OneTypeFits'
  <2>1. AllTables' = AllTables
    BY <1>1, SettledFacts
  <2> QED
    BY <1>1, <2>1 DEF IInv, TableCallsReachOwn, OneTypeFits
<1> QED
  BY <1>11, <1>12, <1>13, <1>14, <1>15, <1>16 DEF IInv

(***************************************************************************)
(* The theorems                                                            *)
(***************************************************************************)
LEMMA StepKeeps == ASSUME IInv, [Next]_vars PROVE IInv'
<1>1. CASE UNCHANGED vars
  <2>1. /\ UNCHANGED <<kinds, text, tables, replace, failed, phase, at, inst, done, table, sig, slot, misfits>>
    BY <1>1 DEF vars
  <2>2. AllTables' = AllTables /\ AsRead' /\ Instances(at)' = Instances(at) /\ S' = S
    BY <2>1, SettledFacts DEF IInv, Instances, S
  <2>3. GenericsTypeOK'
    BY <2>1, <2>2 DEF IInv, GenericsTypeOK
  <2>4. \A g, n : (FromTables(g, n)' <=> FromTables(g, n)) /\ (CallsByTable(g, n)' <=> CallsByTable(g, n))
    BY <2>1, SettledFacts
  <2>5. Phases'
    <3>1. Values(at)' = Values(at)
      BY <2>1 DEF Values
    <3> QED
      BY <2>1, <3>1 DEF IInv, Phases
  <2>6. SelfKnown'
    <3>1. CallsByTable(at, done)' <=> CallsByTable(at, done)
      BY <2>1 DEF CallsByTable, ByTable
    <3>2. CallsByTable(at, Len(text[at]))' <=> CallsByTable(at, Len(text[at]))
      BY <2>1 DEF CallsByTable, ByTable
    <3>3. CallsByTable(replace[Self], Len(text[replace[Self]]))' <=> CallsByTable(replace[Self], Len(text[replace[Self]]))
      BY <2>1 DEF CallsByTable, ByTable
    <3>4. \A g \in Funcs : CallsByTable(g, Len(text[g]))' <=> CallsByTable(g, Len(text[g]))
      BY <2>1 DEF CallsByTable, ByTable
    <3> QED
      BY <2>1, <3>1, <3>2, <3>3, <3>4 DEF IInv, SelfKnown
  <2>7. Declared' /\ Replaced' /\ OnlyTables'
    BY <2>1, <2>2, <2>4 DEF IInv, Declared, Replaced, OnlyTables
  <2>8. UnresolvedOnlyShared' /\ TableCallsReachOwn' /\ OneTypeFits'
    BY <2>1, <2>2 DEF IInv, UnresolvedOnlyShared, TableCallsReachOwn, OneTypeFits
  <2> QED
    BY <2>2, <2>3, <2>5, <2>6, <2>7, <2>8 DEF IInv
<1>2. ASSUME NEW v \in Types \cup Values(at), NEW b \in Binds, NEW g \in 1..Len(kinds), NEW c \in Types,
             Mention(g, c, v, b)
      PROVE  IInv'
  BY <1>2, MentionKeeps
<1>3. ASSUME NEW v \in Values(at), NEW b \in Binds, Op(v, b) PROVE IInv'
  BY <1>3, OpKeeps
<1>4. ASSUME NEW v \in Types \cup Values(at), Return(v) PROVE IInv'
  BY <1>4, ReturnKeeps
<1>5. CASE NextBody
  BY <1>5, NextBodyKeeps
<1>6. CASE Declare
  BY <1>6, DeclareTable, DeclareNext
<1>7. CASE EmitInstance
  BY <1>7, InstanceKeeps
<1>8. CASE EmitNextFunc
  BY <1>8, NextFuncKeeps
<1>9. CASE EmitMention
  BY <1>9, EmitMentionKeeps
<1>10. CASE EmitOp
  BY <1>10, EmitOpKeeps
<1>11. CASE EmitReturn
  BY <1>11, EmitReturnKeeps
<1>12. CASE AbortEmission
  BY <1>12, AbortKeeps
<1> QED
  BY <1>1, <1>2, <1>3, <1>4, <1>5, <1>6, <1>7, <1>8, <1>9, <1>10, <1>11, <1>12 DEF Next, Binds

\* At every step of the analysis and of both emission passes the fields have their types,
\* a parameter is replaced once its function has a table and only then, a call through
\* the table is of the function's own parameter, and Self stands for something once such
\* a call was read (sema/module/parts/path.c, parts/func.c, llvm/parts/module_node.c).
THEOREM GenericsInvariant == Spec => []IInv
<1>1. Init => IInv
  BY InitInvariant
<1>2. IInv /\ [Next]_vars => IInv'
  BY StepKeeps
<1> QED
  BY <1>1, <1>2, PTL DEF Spec

\* The code of every instance calls, through the table, the function of the type the
\* instance is for (llvm_resolve_path), though `replace` of the parameter and of Self are
\* written over by every mention of a generic function.
THEOREM TableCallsOwn == Spec => []TableCallsReachOwn
<1>1. IInv => TableCallsReachOwn
  BY DEF IInv
<1> QED
  BY <1>1, GenericsInvariant, PTL

\* The assert of llvm_resolve_type can fail only at the alloca of a `var` that holds the
\* result of a call through a table, and only if a generic function that is never
\* instantiated calls the same function of the same behaviour.
THEOREM UnresolvedNeedsShared == Spec => []UnresolvedOnlyShared
<1>1. IInv => UnresolvedOnlyShared
  BY DEF IInv
<1> QED
  BY <1>1, GenericsInvariant, PTL

\* One type that is not a pointer is never mistaken for another: where every table of the
\* module is of that type, what is emitted agrees with the text and with itself, in
\* whatever order the functions are declared, mentioned and used.
THEOREM OneTypeIsRight == Spec => []OneTypeFits
<1>1. IInv => OneTypeFits
  BY DEF IInv
<1> QED
  BY <1>1, GenericsInvariant, PTL
=============================================================================
