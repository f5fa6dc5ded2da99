----------------------------- MODULE HobMeaning ------------------------------
(***************************************************************************)
(* What a function of the analysed program does, read from its text alone, *)
(* with no blocks, no branches and no recorded defer lists: a body runs    *)
(* its statements in order and, whichever way it is left, its own defers   *)
(* that were registered by then.  The reference for HobEmit.               *)
(*                                                                         *)
(* A result is the bodies entered, in order, and the way out.  Conditions  *)
(* are free, so a body has a set of results; `of` gives that of each body. *)
(***************************************************************************)
EXTENDS HobBodies

CONSTANT MaxRun     \* bound: bodies that a run enters
ASSUME MaxRunAssumption == MaxRun \in Nat

\* Which returns and which conditions hold an `expr?`, a "try" statement being
\* one anywhere else.  The analysis records nothing of them.
VARIABLE asks

EndReached == [kind |-> "end", to |-> NoBody]
NullFound == [kind |-> "null", to |-> NoBody]
Way(exit) == [kind |-> exit.kind, to |-> exit.loop.body]
To(kind, body) == [kind |-> kind, to |-> body]

Done(way) == {[trace |-> <<>>, way |-> way]}
Ended(results) == {r \in results : r.way = EndReached}

Joined(r, q, way) == [trace |-> r.trace \o q.trace, way |-> way]
Short(results) == {r \in results : Len(r.trace) <= MaxRun}

\* Results of one thing, those that reach its end followed by another.
Andthen(first, second) ==
    (first \ Ended(first))
    \cup Short({Joined(r[1], r[2], r[2].way) : r \in Ended(first) \X second})

\* Leaving runs defers; a null found on the way, or in a defer, ends it all.
Leaving(results, ds, of) ==
    LET releasing(rs, d) ==
            {r \in rs : r.way = NullFound}
            \cup Short({Joined(r[1], r[2], IF r[2].way = EndReached THEN r[1].way ELSE r[2].way) :
                           r \in {r \in rs : r.way # NullFound} \X of[d]})
    IN  FoldLeft(releasing, results, ds)

Upto(n) == [i \in 1..n |-> i]

\* The condition in front of a body.
Tests(body) == Done(EndReached) \cup IF <<"condition", body>> \in asks THEN Done(NullFound) ELSE {}

\* A loop tests its condition, and again after each round that ends or continues.
Loops(body, of) ==
    LET goesOn(r) == r.way \in {EndReached, To("continue", body)}
        again(tests, n) ==
            tests \cup Andthen({[r EXCEPT !.way = EndReached] :
                                   r \in {q \in Andthen(tests, of[body]) : goesOn(q)}},
                               Tests(body))
        tests == FoldLeft(again, Tests(body), Upto(MaxRun))
        leaves == {r \in Andthen(tests, of[body]) : ~goesOn(r)}
    IN  tests \cup {[r EXCEPT !.way = IF @ = To("break", body) THEN EndReached ELSE @] : r \in leaves}

Does(s, of) ==
    CASE s.kind = "while" -> Loops(s.loop.body, of)
      [] s.kind = "if" ->
            UNION {Andthen(Tests(s.branches[i].body), of[s.branches[i].body]) : i \in 1..Len(s.branches)}
            \cup IF s.closed THEN {} ELSE Done(EndReached)
      [] s.kind = "try" -> Done(EndReached) \cup Done(NullFound)
      [] s.kind \in Exits -> Done(Way(s))
      [] OTHER -> Done(EndReached)

\* The bodies with a condition of their own.
Conditional(s) ==
    CASE s.kind = "while" -> {s.loop.body}
      [] s.kind = "if" -> {s.branches[i].body : i \in 1..Len(s.branches) - IF s.closed THEN 1 ELSE 0}
      [] OTHER -> {}

FirstExit(b) == SelectInSeq(text[b], LAMBDA s : s.kind \in Exits)

\* Where an `expr?` may stand besides: its function must return an optional.
\* (A null that a return's expression finds comes after the return's defers.)
Askable ==
    LET in == {b \in 1..Len(tree) : tree[b].returns = "optional"}
        returned == {b \in in : FirstExit(b) # 0 /\ text[b][FirstExit(b)].kind = "return"}
        tested == UNION {UNION {Conditional(s) : s \in ToSet(text[b])} : b \in in}
    IN  IF "try" \notin Forms THEN {}
        ELSE {<<"return", b>> : b \in returned} \cup {<<"condition", b>> : b \in tested}

\* The defers that stand before statement n of a body, the earliest first.
Registered(b, n) ==
    LET ds == SelectSeq(SubSeq(text[b], 1, n - 1), LAMBDA s : s.kind = "defer")
    IN  [i \in 1..Len(ds) |-> ds[i].body]

\* An exit runs the latest defer first; the end of the body, the earliest.
Runs(b, of) ==
    LET statement(rs, n) ==
            LET now == Andthen(Ended(rs), Does(text[b][n], of))
            IN  (rs \ Ended(rs))
                \cup Ended(now)
                \cup Leaving(now \ Ended(now), Reverse(Registered(b, n)), of)
        entered == {[trace |-> <<b>>, way |-> EndReached]}
        all == FoldLeft(statement, entered, Upto(Len(text[b])))
    IN  (all \ Ended(all)) \cup Leaving(Ended(all), Registered(b, Len(text[b]) + 1), of)

\* The bodies inside a body have been read, and numbered, after it.
Meaning ==
    LET inner(of, b) == [of EXCEPT ![b] = Runs(b, of)]
    IN  FoldLeft(inner, [b \in 1..Len(tree) |-> {}], Reverse(Upto(Len(tree))))
=============================================================================
