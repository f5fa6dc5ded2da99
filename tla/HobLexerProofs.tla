--------------------------- MODULE HobLexerProofs ----------------------------
(***************************************************************************)
(* Theorems about HobLexer: wherever comments are skipped, parts rolled    *)
(* back and characters left out, the lexer's location is the one that its  *)
(* place in the text has, and every token carries the one of its start.    *)
(***************************************************************************)
EXTENDS HobLexer, HobSeqLemmas, FiniteSetTheorems, TLAPS

-----------------------------------------------------------------------------
(***************************************************************************)
(* Functions that look ahead: at a place where they stop they have a value *)
(* of their own, at any other the value of a later place.                  *)
(***************************************************************************)
LookAhead(f, i, n, stop, val, next) ==
    f = [j \in i..n |-> IF j \in stop THEN val[j] ELSE f[next[j]]]

Ahead(i, n, stop, next) == \A j \in i..n : j \notin stop => next[j] \in j + 1..n

\* Such a function exists.
LEMMA AheadExists ==
    ASSUME NEW i \in Nat, NEW n \in Nat, i <= n, NEW stop, NEW val, NEW next,
           Ahead(i, n, stop, next)
    PROVE  \E f : LookAhead(f, i, n, stop, val, next)
<1> DEFINE T == {d \in 0..n - i : ~\E f : LookAhead(f, n - d, n, stop, val, next)}
<1>1. T = {}
  <2>1. SUFFICES ASSUME T # {} PROVE FALSE
    OBVIOUS
  <2>2. PICK d \in T : \A e \in T : d <= e
    <3>1. T \subseteq Nat
      OBVIOUS
    <3> HIDE DEF T
    <3> QED
      BY <2>1, <3>1, LeastElement
  <2> DEFINE j == n - d
  <2>3. j \in i..n /\ d \in 0..n - i /\ j \in Nat
    OBVIOUS
  <2>4. \E g : d = 0 \/ LookAhead(g, j + 1, n, stop, val, next)
    <3>1. CASE d = 0
      BY <3>1
    <3>2. CASE d # 0
      <4>1. d - 1 \in 0..n - i /\ ~(d <= d - 1) /\ n - (d - 1) = j + 1
        BY <2>3, <3>2
      <4>2. d - 1 \notin T
        BY <2>2, <4>1
      <4> QED
        BY <4>1, <4>2
    <3> QED
      BY <3>1, <3>2
  <2>5. PICK g : d = 0 \/ LookAhead(g, j + 1, n, stop, val, next)
    BY <2>4
  <2> DEFINE h == [k \in j..n |-> IF k = j THEN IF j \in stop THEN val[j] ELSE g[next[j]]
                                  ELSE g[k]]
  <2>6. ASSUME NEW k \in j..n
        PROVE  h[k] = IF k \in stop THEN val[k] ELSE h[next[k]]
    <3>1. k \in stop \/ (next[k] \in k + 1..n /\ next[k] \in j..n /\ next[k] # j)
      BY <2>3 DEF Ahead
    <3>2. CASE k = j
      BY <3>1, <3>2
    <3>3. CASE k # j
      <4>1. k \in j + 1..n /\ d # 0
        BY <3>3, <2>3
      <4>2. g[k] = IF k \in stop THEN val[k] ELSE g[next[k]]
        BY <4>1, <2>5 DEF LookAhead
      <4> QED
        BY <3>1, <3>3, <4>2
    <3> QED
      BY <3>2, <3>3
  <2>7. LookAhead(h, j, n, stop, val, next)
    BY <2>6 DEF LookAhead
  <2> QED
    BY <2>2, <2>7
<1>2. n - i \in 0..n - i /\ n - (n - i) = i
  OBVIOUS
<1> QED
  BY <1>1, <1>2

\* Its values are those of the places from there on where it stops.
LEMMA AheadStops ==
    ASSUME NEW i \in Nat, NEW n \in Nat, NEW stop, NEW val, NEW next,
           Ahead(i, n, stop, next),
           NEW f, LookAhead(f, i, n, stop, val, next)
    PROVE  \A j \in i..n : \E k \in j..n : k \in stop /\ f[j] = val[k]
<1> DEFINE T == {d \in 0..n - i : ~\E k \in n - d..n : k \in stop /\ f[n - d] = val[k]}
<1>1. T = {}
  <2>1. SUFFICES ASSUME T # {} PROVE FALSE
    OBVIOUS
  <2>2. PICK d \in T : \A e \in T : d <= e
    <3>1. T \subseteq Nat
      OBVIOUS
    <3> HIDE DEF T
    <3> QED
      BY <2>1, <3>1, LeastElement
  <2> DEFINE j == n - d
  <2>3. j \in i..n /\ d \in 0..n - i /\ j \in Nat
    OBVIOUS
  <2>4. f[j] = IF j \in stop THEN val[j] ELSE f[next[j]]
    BY <2>3 DEF LookAhead
  <2>5. CASE j \in stop
    <3>1. j \in n - d..n
      BY <2>3
    <3> QED
      BY <2>2, <2>4, <2>5, <3>1
  <2>6. CASE j \notin stop
    <3>1. next[j] \in j + 1..n
      BY <2>3, <2>6 DEF Ahead
    <3> DEFINE e == n - next[j]
    <3>2. e \in 0..n - i /\ ~(d <= e) /\ n - e = next[j]
      BY <2>3, <3>1
    <3>3. e \notin T
      BY <2>2, <3>2
    <3>4. PICK k \in next[j]..n : k \in stop /\ f[next[j]] = val[k]
      BY <3>2, <3>3
    <3>5. k \in n - d..n
      BY <2>3, <3>1, <3>4
    <3> QED
      BY <2>2, <2>4, <2>6, <3>4, <3>5
  <2> QED
    BY <2>5, <2>6
<1>2. ASSUME NEW j \in i..n PROVE n - j \in 0..n - i /\ n - (n - j) = j
  OBVIOUS
<1> QED
  BY <1>1, <1>2

-----------------------------------------------------------------------------
(***************************************************************************)
(* Places and their lines and columns.                                     *)
(***************************************************************************)
LEMMA MaxIs ==
    ASSUME NEW n \in Nat, NEW S, S \subseteq 0..n, S # {}
    PROVE  /\ Max(S) \in S /\ \A y \in S : Max(S) >= y
           /\ \A m \in S : (\A y \in S : m >= y) => Max(S) = m
<1> DEFINE T == {n - y : y \in S}
<1>1. T \subseteq Nat /\ T # {}
  <2>1. \A y \in S : n - y \in Nat
    OBVIOUS
  <2> QED
    BY <2>1
<1> HIDE DEF T
<1>2. PICK x \in T : \A y \in T : x <= y
  BY <1>1, LeastElement
<1>3. \A y \in S : y \in Nat /\ n - y \in T
  BY DEF T
<1>4. PICK m \in S : x = n - m
  BY DEF T
<1>5. \A y \in S : m >= y
  <2>1. ASSUME NEW y \in S PROVE m >= y
    <3>1. x <= n - y
      BY <1>2, <1>3
    <3> QED
      BY <3>1, <1>3, <1>4
  <2> QED
    BY <2>1
<1>6. Max(S) \in S /\ \A y \in S : Max(S) >= y
  BY <1>5 DEF Max
<1>7. ASSUME NEW k \in S, \A y \in S : k >= y PROVE Max(S) = k
  <2>1. k >= Max(S) /\ Max(S) >= k /\ k \in Nat /\ Max(S) \in Nat
    BY <1>6, <1>7, <1>3
  <2> HIDE DEF Max
  <2> QED
    BY <2>1
<1> QED
  BY <1>6, <1>7

Places == [line : Nat, column : Nat]

\* What lexer_next_char makes of a place when it reads a character.
Moved(loc, c) ==
    IF c = "\n" THEN [line |-> loc.line + 1, column |-> 0] ELSE [loc EXCEPT !.column = @ + 1]

LEMMA PlaceFacts ==
    ASSUME NEW i \in Nat \ {0}
    PROVE  /\ PlaceOf(i) \in Places
           /\ PlaceOf(i + 1) = Moved(PlaceOf(i), text[i])
           /\ PlaceOf(1) = [line |-> 0, column |-> 0]
<1> DEFINE K(n) == {k \in 1..n - 1 : text[k] = "\n"}
<1>1. /\ K(1) = {} /\ K(i + 1) = IF text[i] = "\n" THEN K(i) \cup {i} ELSE K(i)
      /\ i \notin K(i) /\ K(i) \subseteq 1..i - 1
  OBVIOUS
<1>2. IsFiniteSet(K(i))
  <2>1. IsFiniteSet(1..i - 1)
    BY FS_Interval
  <2> QED
    BY <1>1, <2>1, FS_Subset
<1>3. /\ PlaceOf(1).line = 0 /\ PlaceOf(i).line \in Nat
      /\ PlaceOf(i + 1).line = IF text[i] = "\n" THEN PlaceOf(i).line + 1 ELSE PlaceOf(i).line
  <2>1. \A n : PlaceOf(n).line = Cardinality(K(n))
    BY DEF PlaceOf, LineOf
  <2> HIDE DEF K
  <2>2. Cardinality(K(i)) \in Nat /\ Cardinality({}) = 0
    BY <1>2, FS_CardinalityType, FS_EmptySet
  <2>3. Cardinality(K(i) \cup {i}) = Cardinality(K(i)) + 1
    BY <1>1, <1>2, FS_AddElement
  <2> QED
    BY <1>1, <2>1, <2>2, <2>3
<1>4. /\ PlaceOf(1).column = 0 /\ PlaceOf(i).column \in Nat
      /\ PlaceOf(i + 1).column = IF text[i] = "\n" THEN 0 ELSE PlaceOf(i).column + 1
  <2> DEFINE M(n) == {0} \cup K(n)
  <2>1. /\ PlaceOf(1).column = 1 - 1 - Max(M(1))
        /\ PlaceOf(i).column = i - 1 - Max(M(i))
        /\ PlaceOf(i + 1).column = (i + 1) - 1 - Max(M(i + 1))
    <3>1. \A n : PlaceOf(n).column = ColumnOf(n)
      BY DEF PlaceOf
    <3>2. ColumnOf(1) = 1 - 1 - Max(M(1))
      BY DEF ColumnOf
    <3>3. ColumnOf(i) = i - 1 - Max(M(i))
      BY DEF ColumnOf
    <3>4. ColumnOf(i + 1) = (i + 1) - 1 - Max(M(i + 1))
      BY DEF ColumnOf
    <3> HIDE DEF M, K
    <3> QED
      BY <3>1, <3>2, <3>3, <3>4
  <2>2. /\ M(1) \subseteq 0..0 /\ M(1) = {0}
        /\ M(i) \subseteq 0..i - 1 /\ 0 \in M(i)
        /\ M(i + 1) \subseteq 0..i /\ 0 \in M(i + 1)
        /\ M(i + 1) = IF text[i] = "\n" THEN M(i) \cup {i} ELSE M(i)
    BY <1>1
  <2> HIDE DEF M, K
  <2>3. Max(M(1)) = 0
    BY <2>2, MaxIs
  <2>4. Max(M(i)) \in 0..i - 1
    <3>1. i - 1 \in Nat
      OBVIOUS
    <3> QED
      BY <3>1, <2>2, MaxIs
  <2>5. text[i] = "\n" => Max(M(i + 1)) = i
    <3>1. SUFFICES ASSUME text[i] = "\n" PROVE Max(M(i + 1)) = i
      OBVIOUS
    <3>2. i \in M(i + 1) /\ \A y \in M(i + 1) : i >= y
      BY <3>1, <2>2
    <3>3. i \in Nat
      OBVIOUS
    <3> QED
      BY <3>2, <3>3, <2>2, MaxIs
  <2>6. text[i] # "\n" => Max(M(i + 1)) = Max(M(i))
    BY <2>2
  <2> QED
    BY ONLY i \in Nat \ {0}, <2>1, <2>3, <2>4, <2>5, <2>6
<1>5. \A n : PlaceOf(n) = [line |-> PlaceOf(n).line, column |-> PlaceOf(n).column]
  BY DEF PlaceOf
<1> HIDE DEF K
<1>6. PlaceOf(1) = [line |-> 0, column |-> 0]
  BY <1>3, <1>4, <1>5
<1>7. PlaceOf(i) \in Places
  BY <1>3, <1>4, <1>5 DEF Places
<1>8. PlaceOf(i + 1) = Moved(PlaceOf(i), text[i])
  <2> DEFINE p == PlaceOf(i)
             q == PlaceOf(i + 1)
  <2>1. /\ p = [line |-> p.line, column |-> p.column] /\ q = [line |-> q.line, column |-> q.column]
        /\ q.line = (IF text[i] = "\n" THEN p.line + 1 ELSE p.line)
        /\ q.column = (IF text[i] = "\n" THEN 0 ELSE p.column + 1)
    BY <1>3, <1>4, <1>5
  <2> HIDE DEF p, q
  <2>2. q = Moved(p, text[i])
    BY <2>1 DEF Moved
  <2> QED
    BY <2>2 DEF p, q
<1> QED
  BY <1>6, <1>7, <1>8

\* Counting on from a place of the text gives the place that is reached.
LEMMA CountedPlace ==
    ASSUME NEW i \in Nat \ {0}, NEW j \in Nat, i <= j
    PROVE  Counted(PlaceOf(i), i, j) = PlaceOf(j)
<1> DEFINE Past1(past) ==
        [k \in i..j |-> IF k = i THEN PlaceOf(i)
                        ELSE IF text[k - 1] = "\n"
                             THEN [line |-> past[k - 1].line + 1, column |-> 0]
                        ELSE [past[k - 1] EXCEPT !.column = @ + 1]]
           all == [k \in i..j |-> PlaceOf(k)]
           past == CHOOSE f : f = Past1(f)
<1>1. Counted(PlaceOf(i), i, j) = past[j]
  BY Zenon DEF Counted
<1>2. all = Past1(all)
  <2>1. ASSUME NEW k \in i..j, k # i
        PROVE  all[k] = Moved(all[k - 1], text[k - 1])
    <3>1. k - 1 \in Nat \ {0} /\ k - 1 + 1 = k /\ k - 1 \in i..j
      BY <2>1
    <3>2. all[k] = PlaceOf(k) /\ all[k - 1] = PlaceOf(k - 1)
      BY <3>1
    <3>3. PlaceOf(k - 1 + 1) = Moved(PlaceOf(k - 1), text[k - 1])
      BY <3>1, PlaceFacts
    <3> HIDE DEF all
    <3> QED
      BY <3>1, <3>2, <3>3
  <2>2. all[i] = PlaceOf(i) /\ all = [k \in i..j |-> all[k]]
    OBVIOUS
  <2> HIDE DEF all
  <2> QED
    BY <2>1, <2>2 DEF Moved
<1>3. past = Past1(past)
  <2> HIDE DEF all, Past1
  <2> QED
    BY <1>2, Zenon
<1> HIDE DEF past
<1>4. ASSUME NEW k \in i..j
      PROVE  past[k] = IF k = i THEN PlaceOf(i) ELSE Moved(past[k - 1], text[k - 1])
  BY <1>3 DEF Moved
<1> HIDE DEF Past1
<1> DEFINE T == {k \in i..j : past[k] # PlaceOf(k)}
<1>5. T = {}
  <2>1. SUFFICES ASSUME T # {} PROVE FALSE
    OBVIOUS
  <2>2. T \subseteq Nat
    OBVIOUS
  <2> HIDE DEF T
  <2>3. PICK k \in T : \A m \in T : k <= m
    BY <2>1, <2>2, LeastElement
  <2>4. k \in i..j /\ past[k] # PlaceOf(k)
    BY DEF T
  <2>5. k # i
    BY <1>4, <2>4
  <2>6. k - 1 \in i..j /\ ~(k <= k - 1) /\ k - 1 \in Nat \ {0} /\ k - 1 + 1 = k
    BY <2>4, <2>5
  <2>7. past[k - 1] = PlaceOf(k - 1)
    BY <2>3, <2>6 DEF T
  <2>8. PlaceOf(k - 1 + 1) = Moved(PlaceOf(k - 1), text[k - 1])
    BY <2>6, PlaceFacts
  <2> QED
    BY <1>4, <2>4, <2>5, <2>6, <2>7, <2>8
<1>6. j \in i..j
  OBVIOUS
<1> QED
  BY <1>1, <1>5, <1>6

-----------------------------------------------------------------------------
(***************************************************************************)
(* How far the parts read: never past the end of the text.                 *)
(***************************************************************************)
LEMMA TextFacts ==
    ASSUME text \in Texts
    PROVE  /\ Len(text) \in Nat
           /\ \A i \in Nat \ {0} : C(i) = EOF <=> i > Len(text)
<1>1. text \in Seq(STRING) /\ EOF \notin ToSet(text)
  BY LexerAssumption
<1>2. Len(text) \in Nat /\ DOMAIN text = 1..Len(text)
  BY <1>1
<1>3. ASSUME NEW i \in Nat \ {0} PROVE (C(i) = EOF) <=> i > Len(text)
  <2>1. CASE i > Len(text)
    BY <2>1 DEF C
  <2>2. CASE ~(i > Len(text))
    <3>1. i \in DOMAIN text
      BY <1>2, <2>2
    <3> QED
      BY <1>1, <2>2, <3>1 DEF C, ToSet
  <2> QED
    BY <2>1, <2>2
<1> QED
  BY <1>2, <1>3

LEMMA PastFacts ==
    ASSUME text \in Texts, NEW i \in 1..Len(text) + 1, NEW class, EOF \notin class
    PROVE  Past(i, class) \in i..Len(text) + 1 /\ C(Past(i, class)) \notin class
<1> DEFINE n == Len(text) + 1
           stop == {j \in i..n : C(j) \notin class}
           val == [j \in i..n |-> j]
           next == [j \in i..n |-> j + 1]
           Body(f) == [j \in i..n |-> IF C(j) \in class THEN f[j + 1] ELSE j]
           past == CHOOSE f : f = Body(f)
<1>1. n \in Nat /\ i \in Nat /\ i <= n /\ C(n) = EOF /\ n \in stop
  BY TextFacts
<1>2. Ahead(i, n, stop, next)
  BY <1>1 DEF Ahead
<1>3. \A f : LookAhead(f, i, n, stop, val, next) <=> f = Body(f)
  BY DEF LookAhead
<1>4. Past(i, class) = past[i]
  BY Zenon DEF Past
<1> HIDE DEF n, stop, val, next, Body
<1>5. \E f : LookAhead(f, i, n, stop, val, next)
  BY <1>1, <1>2, AheadExists
<1>6. past = Body(past)
  BY <1>3, <1>5, Zenon
<1> HIDE DEF past
<1>7. \E k \in i..n : k \in stop /\ past[i] = val[k]
  <2>1. LookAhead(past, i, n, stop, val, next)
    BY <1>3, <1>6
  <2>2. i \in i..n
    BY <1>1
  <2> QED
    BY <1>1, <1>2, <2>1, <2>2, AheadStops
<1> QED
  BY <1>4, <1>7 DEF stop, val, n

LEMMA CommentFacts ==
    ASSUME text \in Texts, NEW i \in 1..Len(text) + 1, C(i) = "#"
    PROVE  Comment(i).to \in i + 1..Len(text) + 1 /\ Comment(i).open \in BOOLEAN
<1>1. i \in 1..Len(text) /\ Len(text) \in Nat /\ i + 1 \in Nat
  BY TextFacts DEF EOF
<1> DEFINE m == i + 1
<1>2. CASE C(m) = Backquote
  <2> DEFINE n == Len(text)
             Closes(j) == C(j) = Backquote /\ C(j + 1) = "#"
             stop == {j \in i..n : Closes(j) \/ j = n}
             val == [j \in i..n |-> [to |-> j + 1, open |-> ~Closes(j)]]
             next == [j \in i..n |-> j + 1]
             Body(f) == [j \in i..n |->
                 IF C(j) = Backquote /\ C(j + 1) = "#" THEN [to |-> j + 1, open |-> FALSE]
                 ELSE IF j = Len(text) THEN [to |-> j + 1, open |-> TRUE]
                 ELSE f[j + 1]]
             block == CHOOSE f : f = Body(f)
  <2>1. m \in Nat /\ n \in Nat /\ i \in Nat /\ m <= n /\ i <= n
    BY <1>1, <1>2, TextFacts DEF EOF, Backquote
  <2>2. Ahead(i, n, stop, next)
    BY <2>1 DEF Ahead
  <2>3. \A f : LookAhead(f, i, n, stop, val, next) <=> f = Body(f)
    BY <2>1 DEF LookAhead
  <2>4. Comment(i) = block[m]
    BY <1>2, Zenon DEF Comment
  <2>5. \A k \in m..n : val[k].to \in i + 1..Len(text) + 1 /\ val[k].open \in BOOLEAN
    <3>1. ASSUME NEW k \in m..n
          PROVE  val[k].to \in i + 1..Len(text) + 1 /\ val[k].open \in BOOLEAN
      <4>1. k \in i..n /\ k + 1 \in i + 1..Len(text) + 1
        BY <1>1
      <4>2. val[k] = [to |-> k + 1, open |-> ~Closes(k)]
        BY <4>1
      <4> HIDE DEF val, Closes
      <4> QED
        BY <4>1, <4>2
    <3> QED
      BY <3>1
  <2> HIDE DEF n, stop, val, next, Body
  <2>6. \E f : LookAhead(f, i, n, stop, val, next)
    BY <2>1, <2>2, AheadExists
  <2>7. block = Body(block)
    BY <2>3, <2>6, Zenon
  <2> HIDE DEF block
  <2>8. \E k \in m..n : k \in stop /\ block[m] = val[k]
    <3>1. LookAhead(block, i, n, stop, val, next)
      BY <2>3, <2>7
    <3>2. m \in i..n
      BY <2>1
    <3> QED
      BY <2>1, <2>2, <3>1, <3>2, AheadStops
  <2> QED
    BY <2>4, <2>5, <2>8
<1>3. CASE C(m) # Backquote
  <2> DEFINE n == Len(text) + 1
             stop == {j \in i..n : C(j) \in {EOF, "\n"}}
             val == [j \in i..n |-> IF C(j) = EOF THEN j ELSE j + 1]
             next == [j \in i..n |-> j + 1]
             Body(f) == [j \in i..n |->
                 IF C(j) = EOF THEN j ELSE IF C(j) = "\n" THEN j + 1 ELSE f[j + 1]]
             line == CHOOSE f : f = Body(f)
  <2>1. m \in Nat /\ n \in Nat /\ i \in Nat /\ m <= n /\ i <= n /\ n \in stop
    BY <1>1, TextFacts
  <2>2. Ahead(i, n, stop, next)
    BY <2>1 DEF Ahead
  <2>3. \A f : LookAhead(f, i, n, stop, val, next) <=> f = Body(f)
    BY <2>1 DEF LookAhead
  <2>4. Comment(i) = [to |-> line[m], open |-> FALSE]
    BY <1>3, Zenon DEF Comment
  <2>5. \A k \in m..n : val[k] \in i + 1..Len(text) + 1
    <3>1. ASSUME NEW k \in m..n PROVE val[k] \in i + 1..Len(text) + 1
      <4>1. k \in Nat \ {0} /\ (C(k) # EOF => k <= Len(text))
        BY <1>1, TextFacts
      <4> QED
        BY <1>1, <4>1
    <3> QED
      BY <3>1
  <2> HIDE DEF n, stop, val, next, Body
  <2>6. \E f : LookAhead(f, i, n, stop, val, next)
    BY <2>1, <2>2, AheadExists
  <2>7. line = Body(line)
    BY <2>3, <2>6, Zenon
  <2> HIDE DEF line
  <2>8. \E k \in m..n : k \in stop /\ line[m] = val[k]
    <3>1. LookAhead(line, i, n, stop, val, next)
      BY <2>3, <2>7
    <3>2. m \in i..n
      BY <2>1
    <3> QED
      BY <2>1, <2>2, <3>1, <3>2, AheadStops
  <2> QED
    BY <2>4, <2>5, <2>8
<1> QED
  BY <1>2, <1>3

\* A part that fits stays in the text.
InText(part, b) ==
    part.err = "ok" => part.to \in b..Len(text) + 1 /\ part.failed \in BOOLEAN

LEMMA OkInText ==
    ASSUME NEW b, NEW type, NEW value, NEW to \in b..Len(text) + 1
    PROVE  InText(Ok(type, value, to), b)
BY DEF InText, Ok

LEMMA NotOkInText ==
    ASSUME NEW b
    PROVE  InText(Mismatch, b) /\ InText(Error, b)
BY DEF InText, Mismatch, Error

LEMMA SymbolInText ==
    ASSUME text \in Texts, NEW b \in 1..Len(text)
    PROVE  InText(LexSymbol(b), b)
<1>1. EOF \notin UNION {Symbols[c] : c \in DOMAIN Symbols}
  BY DEF EOF, Symbols
<1>2. CASE C(b) \in DOMAIN Symbols /\ C(b + 1) \in Symbols[C(b)]
  <2>1. C(b + 1) # EOF
    BY <1>1, <1>2
  <2>2. b + 2 \in b..Len(text) + 1
    BY <2>1, TextFacts
  <2> QED
    BY <1>2, <2>2, OkInText DEF LexSymbol
<1>3. CASE C(b) \in DOMAIN Symbols /\ C(b + 1) \notin Symbols[C(b)]
  <2>1. b + 1 \in b..Len(text) + 1
    BY TextFacts
  <2> QED
    BY <1>3, <2>1, OkInText DEF LexSymbol
<1>4. CASE C(b) \notin DOMAIN Symbols
  BY <1>4, NotOkInText DEF LexSymbol
<1> QED
  BY <1>2, <1>3, <1>4

LEMMA KeywordInText ==
    ASSUME text \in Texts, NEW b \in 1..Len(text)
    PROVE  InText(LexKeyword(b), b)
<1> DEFINE fit == {n \in 1..Len(Keywords) : Fits(Keywords[n], b)}
           k == Keywords[Min(fit)]
<1>1. CASE fit # {}
  <2>1. Min(fit) \in fit
    <3>1. fit \subseteq Nat
      OBVIOUS
    <3> HIDE DEF fit
    <3> QED
      BY <1>1, <3>1, MinIsElement
  <2>2. Fits(k, b) /\ Min(fit) \in 1..Len(Keywords)
    BY <2>1
  <2>3. k \in Seq(STRING) /\ text \in Seq(STRING) /\ Len(text) \in Nat
    BY <2>2, LexerAssumption
  <2>4. LexKeyword(b) = Ok("keyword", k, b + Len(k))
    BY <1>1 DEF LexKeyword
  <2> HIDE DEF k
  <2>5. Len(k) \in Nat /\ Len(k) <= Len(SubSeq(text, b, Len(text)))
    BY <2>2, <2>3 DEF Fits, IsPrefix
  <2>6. Len(SubSeq(text, b, Len(text))) = Len(text) - b + 1
    BY <2>3
  <2>7. b + Len(k) \in b..Len(text) + 1
    BY <2>3, <2>5, <2>6
  <2> QED
    BY <2>4, <2>7, OkInText
<1>2. CASE fit = {}
  BY <1>2, NotOkInText DEF LexKeyword
<1> QED
  BY <1>1, <1>2

\* The character of a literal that a part has read is in the text.
LEMMA EscapedFacts ==
    ASSUME text \in Texts, NEW i \in 1..Len(text) + 1, NEW stop, stop # EOF
    PROVE  /\ Escaped(i, stop).ok \in BOOLEAN
           /\ Escaped(i, stop).ok => Escaped(i, stop).to \in i + 1..Len(text) + 1
<1>1. i \in Nat \ {0} /\ i + 1 \in Nat \ {0} /\ Len(text) \in Nat
  BY TextFacts
<1>2. CASE C(i) = "\\"
  <2>1. CASE C(i + 1) \in {"0", "r", "n", stop}
    <3>1. C(i + 1) # EOF
      BY <2>1 DEF EOF
    <3>2. i + 2 \in i + 1..Len(text) + 1
      BY <1>1, <3>1, TextFacts
    <3> QED
      BY <1>2, <2>1, <3>2 DEF Escaped
  <2>2. CASE C(i + 1) \notin {"0", "r", "n", stop}
    BY <1>2, <2>2 DEF Escaped
  <2> QED
    BY <2>1, <2>2
<1>3. CASE C(i) # "\\"
  <2>1. CASE C(i) \in {EOF, stop}
    BY <1>3, <2>1 DEF Escaped
  <2>2. CASE C(i) \notin {EOF, stop}
    <3>1. i + 1 \in i + 1..Len(text) + 1
      BY <1>1, <2>2, TextFacts
    <3> QED
      BY <1>3, <2>2, <3>1 DEF Escaped
  <2> QED
    BY <2>1, <2>2
<1> QED
  BY <1>2, <1>3

\* Reading whatever stands for a closing quote stays in the text.
LEMMA QuoteInText ==
    ASSUME text \in Texts, NEW b \in 1..Len(text), NEW k \in b..Len(text) + 1
    PROVE  (IF C(k) = EOF THEN k ELSE k + 1) \in b..Len(text) + 1
<1>1. k \in Nat \ {0} /\ Len(text) \in Nat
  BY TextFacts
<1> QED
  BY <1>1, TextFacts

LEMMA CharInText ==
    ASSUME text \in Texts, NEW b \in 1..Len(text)
    PROVE  InText(LexChar(b), b)
<1> DEFINE e == Escaped(b + 1, "'")
           to == IF C(e.to) = EOF THEN e.to ELSE e.to + 1
<1>1. b + 1 \in 1..Len(text) + 1
  BY TextFacts
<1>2. e.ok \in BOOLEAN /\ (e.ok => e.to \in b..Len(text) + 1)
  <2>1. e.ok \in BOOLEAN /\ (e.ok => e.to \in b + 1 + 1..Len(text) + 1)
    <3>1. "'" # EOF
      BY DEF EOF
    <3> QED
      BY <1>1, <3>1, EscapedFacts
  <2> HIDE DEF e
  <2> QED
    BY <2>1, TextFacts
<1>3. CASE C(b) = "'" /\ e.ok
  <2>1. to \in b..Len(text) + 1
    BY <1>2, <1>3, QuoteInText
  <2>2. LexChar(b) = [Ok("char", e.char, to) EXCEPT !.failed = C(e.to) # "'"]
    BY <1>3 DEF LexChar
  <2> HIDE DEF e, to
  <2>3. LexChar(b).to = to /\ LexChar(b).failed \in BOOLEAN
    BY <2>2 DEF Ok
  <2> QED
    BY <2>1, <2>3 DEF InText
<1>4. CASE C(b) = "'" /\ ~e.ok
  BY <1>4, NotOkInText DEF LexChar
<1>5. CASE C(b) # "'"
  BY <1>5, NotOkInText DEF LexChar
<1> QED
  BY <1>2, <1>3, <1>4, <1>5

LEMMA IdentInText ==
    ASSUME text \in Texts, NEW b \in 1..Len(text)
    PROVE  InText(LexIdent(b), b)
<1>1. EOF \notin Ident /\ b \in 1..Len(text) + 1
  BY TextFacts DEF EOF, Ident, IdentStart, Digit
<1>2. Past(b, Ident) \in b..Len(text) + 1
  BY <1>1, PastFacts
<1>3. CASE C(b) \in IdentStart
  BY <1>2, <1>3, OkInText DEF LexIdent
<1>4. CASE C(b) \notin IdentStart
  BY <1>4, NotOkInText DEF LexIdent
<1> QED
  BY <1>3, <1>4

LEMMA IntegerInText ==
    ASSUME text \in Texts, NEW b \in 1..Len(text)
    PROVE  InText(LexInteger(b), b)
<1> DEFINE hex == C(b) = "0" /\ C(b + 1) = "x"
           class == IF hex THEN Hex ELSE Digit
           base == IF hex THEN 16 ELSE 10
           first == IF hex THEN b + 2 ELSE b
           dot == Past(first, class)
           to == Past(dot + 1, class)
<1>1. EOF \notin class
  BY DEF EOF, Hex, Digit
<1>2. first \in 1..Len(text) + 1 /\ first >= b
  <2>1. C(b + 1) = "x" => b + 1 <= Len(text)
    BY TextFacts DEF EOF
  <2> QED
    BY <2>1, TextFacts
<1>3. dot \in first..Len(text) + 1
  <2> HIDE DEF class, first
  <2> QED
    BY <1>1, <1>2, PastFacts
<1>4. C(dot) = "." => to \in dot + 1..Len(text) + 1
  <2>1. SUFFICES ASSUME C(dot) = "." PROVE to \in dot + 1..Len(text) + 1
    OBVIOUS
  <2> HIDE DEF class, first, dot
  <2>2. dot \in Nat \ {0} /\ C(dot) # EOF
    BY <1>2, <1>3, <2>1 DEF EOF
  <2>3. dot + 1 \in 1..Len(text) + 1
    BY <2>2, <1>3, TextFacts
  <2> QED
    BY <1>1, <2>3, PastFacts
<1>5. CASE C(b) \in Digit /\ C(first) \in class /\ C(dot) # "."
  <2>1. LexInteger(b) = Ok("integer", Number(first, dot, base), dot)
    BY <1>5, Zenon DEF LexInteger
  <2> HIDE DEF class, first, dot, to, base
  <2>2. dot \in b..Len(text) + 1
    BY <1>2, <1>3
  <2> QED
    BY <2>1, <2>2, OkInText
<1>6. CASE C(b) \in Digit /\ C(first) \in class /\ C(dot) = "."
  <2> DEFINE value == [left |-> Number(first, dot, base), right |-> Number(dot + 1, to, base),
                       scale |-> base ^ (to - dot - 1)]
  <2>1. LexInteger(b) = Ok("float", value, to)
    BY <1>6, Zenon DEF LexInteger
  <2> HIDE DEF class, first, dot, to, base, value
  <2>2. to \in b..Len(text) + 1
    BY <1>2, <1>3, <1>4, <1>6
  <2> QED
    BY <2>1, <2>2, OkInText
<1>7. CASE C(b) \notin Digit
  BY <1>7, NotOkInText, Zenon DEF LexInteger
<1>8. CASE C(b) \in Digit /\ C(first) \notin class
  <2>1. LexInteger(b) = Error
    BY <1>8, Zenon DEF LexInteger
  <2> QED
    BY <2>1, NotOkInText
<1> QED
  BY <1>5, <1>6, <1>7, <1>8, Zenon

LEMMA StrInText ==
    ASSUME text \in Texts, NEW b \in 1..Len(text)
    PROVE  InText(LexStr(b), b)
<1> DEFINE n == Len(text) + 1
           Good(j) == Escaped(j, "\"").ok
           Ends(j) == C(j) \in {EOF, "\""}
           stop == {j \in b..n : Ends(j) \/ ~Good(j)}
           val == [j \in b..n |-> IF Ends(j) THEN j ELSE 0]
           next == [j \in b..n |-> Escaped(j, "\"").to]
           Body(f) == [i \in b..Len(text) + 1 |->
               IF C(i) \in {EOF, "\""} THEN i
               ELSE IF Escaped(i, "\"").ok THEN f[Escaped(i, "\"").to] ELSE 0]
           ends == CHOOSE f : f = Body(f)
           Chars(f) == [i \in b..Len(text) + 1 |->
               IF C(i) \in {EOF, "\""} THEN <<>>
               ELSE <<Escaped(i, "\"").char>> \o f[Escaped(i, "\"").to]]
           chars == CHOOSE f : f = Chars(f)
           end == ends[b + 1]
           to == IF C(end) = EOF THEN end ELSE end + 1
<1>1. LexStr(b) = IF C(b) # "\"" THEN Mismatch
                  ELSE IF end = 0 THEN Error
                  ELSE Ok("str", chars[b + 1], to)
  BY Zenon DEF LexStr
<1>2. b \in Nat /\ n \in Nat /\ b <= n /\ b + 1 \in b..n /\ n = Len(text) + 1
  BY TextFacts
<1>3. ASSUME NEW j \in b..n, j \notin stop PROVE next[j] \in j + 1..n
  <2>1. j \in 1..Len(text) + 1
    BY <1>2
  <2>2. "\"" # EOF
    BY DEF EOF
  <2> QED
    BY <1>3, <2>1, <2>2, EscapedFacts
<1>4. Ahead(b, n, stop, next)
  BY <1>3 DEF Ahead
<1>5. \A f : LookAhead(f, b, n, stop, val, next) <=> f = Body(f)
  <2>1. ASSUME NEW f
        PROVE  [j \in b..n |-> IF j \in stop THEN val[j] ELSE f[next[j]]] = Body(f)
    <3>1. ASSUME NEW j \in b..n
          PROVE  (IF j \in stop THEN val[j] ELSE f[next[j]]) = Body(f)[j]
      <4>1. CASE Ends(j)
        BY <4>1
      <4>2. CASE ~Ends(j) /\ ~Good(j)
        BY <4>2
      <4>3. CASE ~Ends(j) /\ Good(j)
        BY <4>3
      <4> QED
        BY <4>1, <4>2, <4>3
    <3> QED
      BY <3>1
  <2> HIDE DEF n, stop, val, next, Body
  <2> QED
    BY <2>1 DEF LookAhead
<1>6. \A k \in b..n : k \in stop => val[k] \in {0, k}
  OBVIOUS
<1> HIDE DEF n, stop, val, next, Body, chars, Chars
<1>7. \E f : LookAhead(f, b, n, stop, val, next)
  BY <1>2, <1>4, AheadExists
<1>8. ends = Body(ends)
  BY <1>5, <1>7, Zenon
<1> HIDE DEF ends
<1>9. \E k \in b + 1..n : k \in stop /\ end = val[k]
  <2>1. LookAhead(ends, b, n, stop, val, next)
    BY <1>5, <1>8
  <2>2. \A j \in b..n : \E k \in j..n : k \in stop /\ ends[j] = val[k]
    BY <1>2, <1>4, <2>1, AheadStops
  <2> QED
    BY <1>2, <2>2
<1>10. end = 0 \/ end \in b..Len(text) + 1
  BY <1>2, <1>6, <1>9
<1> HIDE DEF end
<1>11. end # 0 => to \in b..Len(text) + 1
  BY <1>10, QuoteInText
<1> HIDE DEF to
<1> QED
  BY <1>1, <1>11, OkInText, NotOkInText

LEMMA DecidingInText ==
    ASSUME text \in Texts, NEW b \in 1..Len(text)
    PROVE  InText(Deciding(b), b)
<1>1. Deciding(b) \in {LexSymbol(b), LexKeyword(b), LexChar(b), LexIdent(b),
                       LexInteger(b), LexStr(b)}
  BY DEF Deciding
<1> QED
  BY <1>1, SymbolInText, KeywordInText, CharInText, IdentInText, IntegerInText, StrInText

-----------------------------------------------------------------------------
(***************************************************************************)
(* The invariant.                                                          *)
(***************************************************************************)
\* A token is the record it is, whatever its fields are set to.
LEMMA TokenFields ==
    ASSUME NEW t, DOMAIN t = {"type", "value", "location"}, NEW x, NEW y
    PROVE  /\ DOMAIN [t EXCEPT !.type = x] = DOMAIN t
           /\ [t EXCEPT !.type = x].location = t.location
           /\ DOMAIN [t EXCEPT !.location = x] = DOMAIN t
           /\ [t EXCEPT !.location = x].location = x
           /\ DOMAIN [t EXCEPT !.type = x, !.value = y] = DOMAIN t
           /\ [t EXCEPT !.type = x, !.value = y].location = t.location
OBVIOUS

\* Reading on keeps the location that of the place.
LEMMA ReadInPlace ==
    ASSUME IInv, NEW to \in at..Len(text) + 1, ReadTo(to)
    PROVE  at' = to /\ location' = PlaceOf(to) /\ PlaceOf(to) \in Places
<1>1. at \in Nat \ {0} /\ to \in Nat \ {0} /\ at <= to
  BY TextFacts DEF IInv, TypeOK
<1>2. location = PlaceOf(at)
  BY DEF IInv, InPlace
<1>3. Counted(PlaceOf(at), at, to) = PlaceOf(to)
  BY <1>1, CountedPlace
<1>4. PlaceOf(to) \in Places
  BY <1>1, PlaceFacts
<1> QED
  BY <1>2, <1>3, <1>4 DEF ReadTo

LEMMA InitIInv == Init => IInv
<1> SUFFICES ASSUME Init PROVE IInv
  OBVIOUS
<1>1. text \in Texts /\ Len(text) \in Nat
  BY TextFacts DEF Init
<1>2. location = PlaceOf(1) /\ PlaceOf(1) \in Places
  <2>1. 1 \in Nat \ {0}
    OBVIOUS
  <2> QED
    BY <2>1, PlaceFacts DEF Init
<1>3. token = [type |-> "none", value |-> <<>>, location |-> location]
      /\ at = 1 /\ since = 1 /\ delta = 0 /\ phase = "skip" /\ start_location = location
      /\ failed = FALSE
  BY DEF Init
<1>4. TypeOK
  <2>1. DOMAIN token = {"type", "value", "location"} /\ token.location = location
    BY <1>3
  <2>2. delta \in 0..at - 1 /\ at \in 1..Len(text) + 1 /\ since \in 1..at
    BY <1>1, <1>3
  <2> QED
    BY <1>2, <1>3, <2>1, <2>2 DEF TypeOK, Places
<1>5. InPlace
  BY <1>2, <1>3 DEF InPlace
<1>6. Located
  BY <1>3 DEF Located, Fresh
<1> QED
  BY <1>1, <1>4, <1>5, <1>6 DEF IInv

\* What every step starts from.
LEMMA Before ==
    ASSUME IInv
    PROVE  /\ text \in Texts /\ Len(text) \in Nat
           /\ at \in 1..Len(text) + 1 /\ since \in 1..at
           /\ delta \in 0..at - 1
           /\ phase # "skip" => delta \in 0..at - since
           /\ location \in Places /\ start_location \in Places /\ token.location \in Places
           /\ DOMAIN token = {"type", "value", "location"}
           /\ failed \in BOOLEAN
           /\ location = PlaceOf(at)
<1>1. text \in Texts /\ TypeOK /\ location = PlaceOf(at)
  BY DEF IInv, InPlace
<1>2. Len(text) \in Nat
  BY <1>1, TextFacts
<1> QED
  BY <1>1, <1>2 DEF TypeOK, Places

\* Where blanks end.
LEMMA BlanksEnd ==
    ASSUME IInv
    PROVE  Past(at, Blank) \in at..Len(text) + 1
<1>1. EOF \notin Blank
  BY DEF EOF, Blank
<1> QED
  BY <1>1, Before, PastFacts

LEMMA SkipCommentKeeps ==
    ASSUME IInv, SkipComment
    PROVE  IInv'
<1> DEFINE i == Past(at, Blank)
           to == Comment(i).to
<1>1. i \in at..Len(text) + 1
  BY BlanksEnd
<1>2. C(i) = "#" /\ ReadTo(to) /\ delta' = delta + to - at
      /\ failed' = (failed \/ Comment(i).open) /\ phase' = "skip"
      /\ UNCHANGED <<text, start_location, token>>
      /\ since' = IF phase = "token" THEN at ELSE since
  BY DEF SkipComment, Lexing
<1> HIDE DEF i
<1>3. to \in i + 1..Len(text) + 1 /\ Comment(i).open \in BOOLEAN
  <2>1. i \in 1..Len(text) + 1
    BY <1>1, Before
  <2> QED
    BY <1>2, <2>1, Before, CommentFacts
<1> HIDE DEF to
<1>4. to \in at..Len(text) + 1 /\ to \in 1..Len(text) + 1
  BY <1>1, <1>3, Before
<1>5. at' = to /\ location' = PlaceOf(to) /\ PlaceOf(to) \in Places
  BY <1>2, <1>4, ReadInPlace
<1>6. since' \in 1..to /\ delta' \in 0..to - 1
  BY <1>2, <1>4, Before
<1>7. failed' \in BOOLEAN
  BY <1>2, <1>3, Before
<1>8. TypeOK'
  BY <1>2, <1>4, <1>5, <1>6, <1>7, Before DEF TypeOK, Places
<1>9. InPlace'
  BY <1>2, <1>5 DEF InPlace, PlaceOf, LineOf, ColumnOf
<1>10. Located'
  BY <1>2 DEF Located, Fresh
<1> QED
  BY <1>2, <1>8, <1>9, <1>10, Before DEF IInv

LEMMA BeginKeeps ==
    ASSUME IInv, Begin
    PROVE  IInv'
<1> DEFINE i == Past(at, Blank)
<1>1. i \in at..Len(text) + 1
  BY BlanksEnd
<1>2. ReadTo(i) /\ delta' = 0 /\ start_location' = location'
      /\ UNCHANGED <<text, failed>>
      /\ since' = (IF phase = "token" THEN at ELSE since)
      /\ IF C(i) = EOF
         THEN token' = [token EXCEPT !.type = "EOI"] /\ phase' = "token"
         ELSE token' = [token EXCEPT !.location = location'] /\ phase' = "parse"
  BY DEF Begin, Lexing, DeltaAtBegin, StartLocation
<1> HIDE DEF i
<1>3. i \in 1..Len(text) + 1 /\ i \in Nat \ {0} /\ since' \in 1..i
  BY <1>1, <1>2, Before
<1>4. at' = i /\ location' = PlaceOf(i) /\ PlaceOf(i) \in Places
  BY <1>1, <1>2, ReadInPlace
<1>5. DOMAIN token' = DOMAIN token
      /\ token'.location = (IF C(i) = EOF THEN token.location ELSE location')
  BY <1>2, Before, TokenFields
<1>6. phase' = (IF C(i) = EOF THEN "token" ELSE "parse")
  BY <1>2
<1>7. TypeOK'
  <2>1. 0 \in 0..i - 1 /\ 0 \in 0..i - since'
    <3>1. \A n \in Nat : \A m \in 1..n : 0 \in 0..n - 1 /\ 0 \in 0..n - m
      OBVIOUS
    <3> QED
      BY <1>3, <3>1
  <2>2. {location', start_location', token'.location} \subseteq Places
    BY <1>2, <1>4, <1>5, Before
  <2>3. failed' \in BOOLEAN /\ text' = text /\ DOMAIN token' = {"type", "value", "location"}
    BY <1>2, <1>5, Before
  <2> QED
    BY <1>2, <1>3, <1>4, <1>6, <2>1, <2>2, <2>3 DEF TypeOK, Places
<1>8. InPlace'
  <2>1. C(i) # EOF => i <= Len(text)
    BY <1>3, Before, TextFacts
  <2>2. text' = text
    BY <1>2
  <2>3. PlaceOf(at)' = PlaceOf(i)
    BY <1>4, <2>2 DEF PlaceOf, LineOf, ColumnOf
  <2> QED
    BY <1>2, <1>4, <1>5, <1>6, <2>1, <2>2, <2>3 DEF InPlace
<1>9. Located'
  BY <1>2 DEF Located, Fresh
<1> QED
  BY <1>2, <1>7, <1>8, <1>9, Before DEF IInv

LEMMA AcceptKeeps ==
    ASSUME IInv, Accept
    PROVE  IInv'
<1>1. at \in 1..Len(text) /\ delta = 0 /\ phase = "parse"
      /\ start_location = location /\ token.location = location
  BY Before DEF Accept, IInv, InPlace
<1>2. PICK part \in {Deciding(at)} :
          /\ part.err = "ok"
          /\ token' = [token EXCEPT !.type = part.token.type, !.value = part.token.value]
          /\ ReadTo(part.to)
          /\ delta' = delta + part.to - at
          /\ failed' = (failed \/ part.failed)
  BY DEF Accept
<1>3. phase' = "token" /\ UNCHANGED <<text, start_location, since>>
  BY DEF Accept
<1>4. part.to \in at..Len(text) + 1 /\ part.failed \in BOOLEAN
  BY <1>1, <1>2, Before, DecidingInText DEF InText
<1>5. at' = part.to /\ location' = PlaceOf(part.to) /\ PlaceOf(part.to) \in Places
  BY <1>2, <1>4, ReadInPlace
<1>6. DOMAIN token' = DOMAIN token /\ token'.location = token.location
  BY <1>2, Before, TokenFields
<1>7. failed' \in BOOLEAN
  BY <1>2, <1>4, Before
<1> DEFINE to == part.to
<1>8. to \in at..Len(text) + 1 /\ at' = to /\ location' = PlaceOf(to) /\ PlaceOf(to) \in Places
      /\ delta' = delta + to - at
  BY <1>2, <1>4, <1>5
<1> HIDE DEF to
<1>9. since \in 1..to /\ delta' \in 0..to - since /\ to \in 1..Len(text) + 1 /\ at' - delta' = at
  BY <1>1, <1>8, Before
<1>10. TypeOK'
  BY <1>3, <1>6, <1>7, <1>8, <1>9, Before DEF TypeOK, Places
<1>11. InPlace'
  BY <1>3, <1>8 DEF InPlace, PlaceOf, LineOf, ColumnOf
<1>12. Located'
  <2>1. Start' = at /\ text' = text
    BY <1>3, <1>9 DEF Start
  <2>2. PlaceOf(Start)' = PlaceOf(at)
    BY <2>1 DEF PlaceOf, LineOf, ColumnOf
  <2>3. token'.location = PlaceOf(at)
    BY <1>1, <1>6, Before
  <2> QED
    BY <2>2, <2>3 DEF Located
<1> QED
  BY <1>3, <1>10, <1>11, <1>12, Before DEF IInv

LEMMA RejectKeeps ==
    ASSUME IInv, Reject
    PROVE  IInv'
<1>1. delta = 0 /\ phase = "parse" /\ start_location = location
  BY DEF Reject, IInv, InPlace
<1>2. at' = at - delta /\ location' = start_location /\ delta' = 0 /\ failed' = TRUE
      /\ phase' = "token" /\ UNCHANGED <<text, start_location, token, since>>
  BY DEF Reject
<1>3. at' = at /\ location' = location
  BY <1>1, <1>2, Before
<1>4. TypeOK'
  BY <1>2, <1>3, Before DEF TypeOK, Places
<1>5. InPlace'
  BY <1>2, <1>3, Before DEF InPlace, PlaceOf, LineOf, ColumnOf
<1>6. Located'
  BY <1>2 DEF Located, Fresh
<1> QED
  BY <1>2, <1>4, <1>5, <1>6, Before DEF IInv

LEMMA UnrecognisedKeeps ==
    ASSUME IInv, Unrecognised
    PROVE  IInv'
<1>1. at \in 1..Len(text) /\ delta = 0 /\ phase = "parse" /\ start_location = location
  BY Before DEF Unrecognised, IInv, InPlace
<1>2. LeftOut = at + 1 /\ at - delta = at
  BY <1>1, Before DEF LeftOut
<1>3. at' = at + 1 /\ location' = Counted(location, at, at + 1) /\ delta' = at + 1 - at
      /\ failed' = TRUE /\ phase' = "skip" /\ UNCHANGED <<text, start_location, token, since>>
  BY <1>1, <1>2 DEF Unrecognised
<1>4. at + 1 \in at..Len(text) + 1 /\ delta' \in 0..(at + 1) - 1 /\ since \in 1..at + 1
      /\ at + 1 \in 1..Len(text) + 1
  BY <1>1, <1>3, Before
<1>5. location' = PlaceOf(at + 1) /\ PlaceOf(at + 1) \in Places
  BY <1>3, <1>4, ReadInPlace DEF ReadTo
<1>6. TypeOK'
  <2>1. /\ {location', start_location', token'.location} \subseteq Places
        /\ since' \in 1..at + 1 /\ delta' \in 0..(at + 1) - 1
        /\ DOMAIN token' = {"type", "value", "location"} /\ failed' \in BOOLEAN
    BY <1>3, <1>4, <1>5, Before
  <2>2. at' = at + 1 /\ text' = text /\ phase' = "skip"
    BY <1>3
  <2> QED
    BY ONLY <1>4, <2>1, <2>2 DEF TypeOK, Places
<1>7. InPlace'
  BY <1>3, <1>5 DEF InPlace, PlaceOf, LineOf, ColumnOf
<1>8. Located'
  BY <1>3 DEF Located, Fresh
<1> QED
  BY <1>3, <1>6, <1>7, <1>8, Before DEF IInv

LEMMA StutterKeeps ==
    ASSUME IInv, UNCHANGED vars
    PROVE  IInv'
BY DEF vars, IInv, TypeOK, InPlace, Located, Fresh, Start, PlaceOf, LineOf, ColumnOf

\* In every run of the lexer: what it has read stays in the text, its count of
\* lines and columns is that of the place it has come to, and the parts are
\* tried from the place that lexer_begin has noted.
THEOREM LexerInvariant == Spec => []IInv
<1>1. IInv /\ [Next]_vars => IInv'
  BY SkipCommentKeeps, BeginKeeps, AcceptKeeps, RejectKeeps, UnrecognisedKeeps, StutterKeeps
     DEF Next
<1> QED
  BY InitIInv, <1>1, PTL DEF Spec

\* Every token that lexer_next finds carries the line and the column where it
\* starts, for every text, whatever was skipped, left out or rolled back
\* before it: messages about the program point to where it is wrong.
THEOREM TokensLocated == Spec => []Located
<1>1. IInv => Located
  BY DEF IInv
<1> QED
  BY LexerInvariant, <1>1, PTL
=============================================================================
