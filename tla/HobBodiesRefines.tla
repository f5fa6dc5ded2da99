--------------------------- MODULE HobBodiesRefines --------------------------
(***************************************************************************)
(* HobBodies implements HobBlocks: scope stack, parent links, per-body     *)
(* defer vectors and the loop vector together behave as one stack of       *)
(* blocks for each function.  An error report maps to the abstract         *)
(* refusal.                                                                *)
(***************************************************************************)
EXTENDS HobBodies

CONSTANT NoLoop
ASSUME NoLoopAssumption == NoLoop \notin LoopNames \cup {NoName}

\* The name of the loop whose body b is, in the function's loop vector.
LoopOf(st, b) ==
    LET at == SelectInSeq(st.loops, LAMBDA l : l.body = b)
    IN  IF at = 0 THEN NoLoop ELSE st.loops[at].name

\* The bodies of a suspended or running function, seen as blocks.
BlocksOf(st, cs, ds) ==
    [k \in 1..Len(cs) |-> [loop |-> LoopOf(st, cs[k]), pending |-> ds[cs[k]]]]

Outer == [i \in 1..Len(saved) |-> BlocksOf(saved[i].ss, saved[i].calls, defers)]

openBar ==
    IF failed \/ crashed \/ calls = <<>> THEN <<>>
    ELSE Append(Outer, BlocksOf(ss, calls, defers))

releasedBar ==
    IF failed \/ crashed \/ calls = <<>> \/ text[Cur] = <<>> THEN <<>>
    ELSE LET s == Last(text[Cur])
         IN  IF s.kind \in Exits THEN s.defers ELSE <<>>

Blocks == INSTANCE HobBlocks WITH
    open <- openBar, released <- releasedBar, rejected <- failed \/ crashed,
    Blocks <- 1..MaxBodies

\* While the module has no error, the analysis is a run of HobBlocks: each
\* break, continue and return is annotated with exactly the defers waiting in
\* the blocks it leaves, latest first, and reaches only loops of its function.
ImplementsBlocks == Blocks!Spec

-----------------------------------------------------------------------------
(***************************************************************************)
(* What the proof of it needs besides IInv.                                *)
(***************************************************************************)
\* Without an error, no two loops on the stack have a name in common.
NamesApart(st) ==
    \A i, j \in 1..Len(st.loops) :
        st.loops[i].name = st.loops[j].name => i = j \/ st.loops[i].name = NoName

\* The last statement read of a body is no exit.
Quiet(b) == text[b] # <<>> /\ Last(text[b]).kind \notin Exits

\* Suspended functions are read no further, and their bodies are not those of
\* the functions inside of them.
SuspendedOK ==
    \A i \in 1..Len(saved) :
        LET cs == saved[i].calls
        IN  /\ NamesApart(saved[i].ss)
            /\ \A k \in 1..Len(cs) : Quiet(cs[k]) /\ cs[k] < Head(calls)
            /\ \A j \in i + 1..Len(saved) : \A k \in 1..Len(cs) : cs[k] < Head(saved[j].calls)

\* The defers registered in the p-th open body and in those in it, as one list.
Waiting(p) == Blocks!PendingFrom(BlocksOf(ss, calls, defers), p)

\* Where the walk of an exit ends.
EndsAt(w, p) == IF w.kind = "return" THEN p = 1 ELSE calls[p] = w.loop.body

\* A walk holds exactly the lists of the bodies further in, backwards, and
\* the loop of a break or continue is the innermost one or has a name.
WalkExact ==
    walk # Idle =>
        /\ \E p \in 1..Len(calls) :
              /\ IF walk.at = NoBody THEN EndsAt(walk, p) /\ walk.result = Reverse(Waiting(p))
                 ELSE walk.at = calls[p] /\ walk.result = Reverse(Waiting(p + 1))
              /\ \A q \in p + 1..Len(calls) : ~EndsAt(walk, q)
        /\ IF walk.kind = "return" THEN walk.loop = NoLoopAt
           ELSE \E i \in 1..Len(ss.loops) :
                  walk.loop = ss.loops[i] /\ (walk.loop.name = NoName => i = Len(ss.loops))

BlocksInv ==
    /\ IInv
    /\ Len(tree) <= MaxBodies
    /\ ~failed => /\ NamesApart(ss) /\ SuspendedOK /\ WalkExact
                  /\ \A k \in 1..Len(calls) - 1 : Quiet(calls[k])
=============================================================================
