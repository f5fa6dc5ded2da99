--------------------------- MODULE HobBodiesProofs ---------------------------
(***************************************************************************)
(* Proofs about HobBodies: IInv is inductive, and with it the types, the   *)
(* discipline of the scope and loop stacks and what the walk of            *)
(* defers_up_to collects hold for every value of the constants.            *)
(*                                                                         *)
(* First what entering and leaving a body does to the agreement between    *)
(* the scopes, the loops and the calls of the analyser (StackOK), and what *)
(* looking a name up returns.                                              *)
(*                                                                         *)
(* Steps that act alike are proved once: SameStep (a statement without a   *)
(* body), EnterStep and LeaveStep (a body in the function), then the       *)
(* function, the walk and the abort steps.                                 *)
(*                                                                         *)
(* Then names: a second invariant, NamesInv, relates the scopes to the     *)
(* text, and a look-up is shown to find what the text says.                *)
(***************************************************************************)
EXTENDS HobBodies, HobSeqLemmas, SequenceTheorems, TLAPS

(***************************************************************************)
(* The scope stack                                                         *)
(***************************************************************************)
\* A new body anywhere leaves a suspended function's stacks in order.
LEMMA StackGrows ==
    ASSUME NEW st \in Stack, NEW cs \in Seq(Nat), NEW tr \in Seq(Header), NEW h \in Header,
           NEW e1 \in BOOLEAN, NEW e2 \in BOOLEAN, e1 => e2,
           StackOK(st, cs, tr, e1)
    PROVE  StackOK(st, cs, Append(tr, h), e2)
<1>1. /\ Len(Append(tr, h)) = Len(tr) + 1
      /\ \A b \in 1..Len(tr) : Append(tr, h)[b] = tr[b]
  OBVIOUS
<1>2. Mirrors(st, cs, Append(tr, h))
  BY <1>1 DEF StackOK, Mirrors
<1>3. LoopsNested(st, cs, Append(tr, h))
  <2>1. PICK at \in [1..Len(st.loops) -> 1..Len(cs)] :
            /\ \A i \in 1..Len(st.loops) : /\ st.loops[i].body = cs[at[i]]
                                           /\ tr[cs[at[i]]].owner = "while"
            /\ \A i, j \in 1..Len(st.loops) : i < j => at[i] < at[j]
    BY DEF StackOK, LoopsNested
  <2>2. \A i \in 1..Len(st.loops) : cs[at[i]] \in 1..Len(tr)
    BY DEF StackOK, Mirrors
  <2>3. \A i \in 1..Len(st.loops) : Append(tr, h)[cs[at[i]]].owner = "while"
    BY <1>1, <2>1, <2>2
  <2> QED
    BY <2>1, <2>3 DEF LoopsNested
<1>4. e2 \/ LoopsComplete(st, cs, Append(tr, h))
  BY <1>1 DEF StackOK, LoopsComplete, Mirrors
<1> QED
  BY <1>2, <1>3, <1>4 DEF StackOK

LEMMA PushScopeFacts ==
    ASSUME NEW st \in Stack, NEW b \in Nat \ {0}
    PROVE  /\ PushScope(st, b) \in Stack
           /\ Len(PushScope(st, b).scopes) = Len(st.scopes) + 1
           /\ \A k \in 1..Len(st.scopes) : PushScope(st, b).scopes[k] = st.scopes[k]
           /\ PushScope(st, b).scopes[Len(st.scopes) + 1].body = b
           /\ PushScope(st, b).loops = st.loops
           /\ PushScope(st, b).returns = st.returns
<1> DEFINE sc == [decls |-> <<>>, body |-> b]
           scs == Append(st.scopes, sc)
<1>1. sc \in Scope
  BY EmptySeq DEF Scope
<1>2. PushScope(st, b) = [st EXCEPT !.scopes = scs]
  BY DEF PushScope, NoBody, Stack
<1>3. st.scopes \in Seq(Scope)
  BY DEF Stack
<1>4. /\ scs \in Seq(Scope) /\ Len(scs) = Len(st.scopes) + 1
      /\ \A k \in 1..Len(st.scopes) : scs[k] = st.scopes[k]
      /\ scs[Len(st.scopes) + 1] = sc
  BY <1>1, <1>3, AppendFacts
<1>5. sc.body = b
  OBVIOUS
<1> HIDE DEF sc, scs
<1>6. /\ PushScope(st, b).scopes = scs
      /\ PushScope(st, b).loops = st.loops
      /\ PushScope(st, b).returns = st.returns
      /\ PushScope(st, b) \in Stack
  BY <1>2, <1>4 DEF Stack
<1> QED
  BY <1>4, <1>5, <1>6

(***************************************************************************)
(* Entering a body                                                         *)
(***************************************************************************)
\* st2 and cs2 are the stacks after the body with header h has been entered.
Enters(st, cs, tr, st2, cs2, tr2, h) ==
    /\ Len(st2.scopes) = Len(st.scopes) + 1
    /\ \A k \in 1..Len(st.scopes) : st2.scopes[k].body = st.scopes[k].body
    /\ st2.scopes[Len(st.scopes) + 1].body = Len(tr) + 1
    /\ h.parent = st.scopes[Len(st.scopes)].body
    /\ Len(cs2) = Len(cs) + 1
    /\ cs2[Len(cs) + 1] = Len(tr) + 1
    /\ \A i \in 1..Len(cs) : cs2[i] = cs[i]
    /\ Len(tr2) = Len(tr) + 1
    /\ tr2[Len(tr) + 1] = h
    /\ \A i \in 1..Len(tr) : tr2[i] = tr[i]

LEMMA EntersMirrors ==
    ASSUME NEW st \in Stack, NEW cs \in Seq(Nat), NEW tr \in Seq(Header), NEW h \in Header,
           NEW st2 \in Stack, NEW cs2 \in Seq(Nat), NEW tr2 \in Seq(Header),
           Mirrors(st, cs, tr), Enters(st, cs, tr, st2, cs2, tr2, h)
    PROVE  Mirrors(st2, cs2, tr2)
<1>n. Len(cs) \in Nat /\ Len(tr) \in Nat /\ Len(st.scopes) = Len(cs) + 1
  BY LenProperties DEF Mirrors
<1>1. Len(st2.scopes) = Len(cs2) + 1
  BY <1>n DEF Enters, Mirrors
<1>2. st2.scopes[1].body = NoBody
  <2>1. 1 \in 1..Len(st.scopes)
    BY ONLY <1>n
  <2> QED
    BY <2>1 DEF Enters, Mirrors
<1>3. ASSUME NEW k \in 1..Len(cs2)
      PROVE  /\ st2.scopes[k + 1].body = cs2[k]
             /\ cs2[k] \in 1..Len(tr2)
             /\ tr2[cs2[k]].parent = st2.scopes[k].body
  <2>1. CASE k \in 1..Len(cs)
    <3>1. k \in 1..Len(st.scopes) /\ k + 1 \in 1..Len(st.scopes)
      BY ONLY <1>n, <2>1
    <3>2. /\ st.scopes[k + 1].body = cs[k] /\ cs[k] \in 1..Len(tr)
          /\ tr[cs[k]].parent = st.scopes[k].body
      BY <2>1 DEF Mirrors
    <3>3. /\ cs2[k] = cs[k] /\ tr2[cs[k]] = tr[cs[k]]
          /\ st2.scopes[k + 1].body = st.scopes[k + 1].body
          /\ st2.scopes[k].body = st.scopes[k].body
      BY <2>1, <3>1, <3>2 DEF Enters
    <3>4. cs[k] \in 1..Len(tr2)
      BY <1>n, <3>2 DEF Enters
    <3> QED
      BY <3>2, <3>3, <3>4
  <2>2. CASE k = Len(cs) + 1
    <3>1. k = Len(st.scopes) /\ k \in 1..Len(st.scopes)
      BY ONLY <1>n, <2>2
    <3>2. cs2[k] = Len(tr) + 1 /\ tr2[Len(tr) + 1] = h /\ Len(tr2) = Len(tr) + 1
      BY <2>2 DEF Enters
    <3>3. /\ st2.scopes[k + 1].body = Len(tr) + 1
          /\ h.parent = st2.scopes[k].body
      BY <3>1 DEF Enters
    <3> QED
      BY <1>n, <3>2, <3>3
  <2>3. Len(cs2) = Len(cs) + 1
    BY DEF Enters
  <2>4. k \in 1..Len(cs) \/ k = Len(cs) + 1
    BY ONLY <1>n, <2>3, k \in 1..Len(cs2)
  <2> QED
    BY <2>1, <2>2, <2>4
<1> QED
  BY <1>1, <1>2, <1>3 DEF Mirrors

\* The loops on the stack before are where they were.
LEMMA EntersKeepsLoops ==
    ASSUME NEW st \in Stack, NEW cs \in Seq(Nat), NEW tr \in Seq(Header), NEW h \in Header,
           NEW st2 \in Stack, NEW cs2 \in Seq(Nat), NEW tr2 \in Seq(Header),
           Mirrors(st, cs, tr), Enters(st, cs, tr, st2, cs2, tr2, h),
           NEW k \in 1..Len(cs)
    PROVE  cs2[k] = cs[k] /\ tr2[cs2[k]].owner = tr[cs[k]].owner /\ k \in 1..Len(cs2)
<1>1. cs2[k] = cs[k] /\ cs[k] \in 1..Len(tr)
  BY DEF Enters, Mirrors
<1>2. tr2[cs[k]] = tr[cs[k]]
  BY <1>1 DEF Enters
<1>3. Len(cs2) = Len(cs) + 1 /\ Len(cs) \in Nat
  BY LenProperties DEF Enters
<1>4. k \in 1..Len(cs2)
  BY ONLY <1>3, k \in 1..Len(cs)
<1> QED
  BY <1>1, <1>2, <1>4

\* Entering a body without a loop of its own on the stack.
LEMMA StackEnters ==
    ASSUME NEW st \in Stack, NEW cs \in Seq(Nat), NEW tr \in Seq(Header), NEW h \in Header,
           NEW st2 \in Stack, NEW cs2 \in Seq(Nat), NEW tr2 \in Seq(Header),
           NEW e \in BOOLEAN, NEW e2 \in BOOLEAN, e => e2,
           StackOK(st, cs, tr, e), Enters(st, cs, tr, st2, cs2, tr2, h),
           st2.loops = st.loops, e2 \/ h.owner # "while"
    PROVE  StackOK(st2, cs2, tr2, e2)
<1>0. Mirrors(st, cs, tr) /\ LoopsNested(st, cs, tr) /\ (e \/ LoopsComplete(st, cs, tr))
  BY DEF StackOK
<1>1. Mirrors(st2, cs2, tr2)
  BY <1>0, EntersMirrors
<1>2. \A k \in 1..Len(cs) : cs2[k] = cs[k] /\ tr2[cs2[k]].owner = tr[cs[k]].owner /\ k \in 1..Len(cs2)
  BY <1>0, EntersKeepsLoops
<1>3. LoopsNested(st2, cs2, tr2)
  <2>1. PICK at \in [1..Len(st.loops) -> 1..Len(cs)] :
            /\ \A i \in 1..Len(st.loops) : /\ st.loops[i].body = cs[at[i]]
                                           /\ tr[cs[at[i]]].owner = "while"
            /\ \A i, j \in 1..Len(st.loops) : i < j => at[i] < at[j]
    BY <1>0 DEF LoopsNested
  <2>2. at \in [1..Len(st2.loops) -> 1..Len(cs2)]
    BY <1>2
  <2>3. \A i \in 1..Len(st2.loops) : st2.loops[i].body = cs2[at[i]] /\ tr2[cs2[at[i]]].owner = "while"
    BY <1>2, <2>1
  <2> QED
    BY <2>1, <2>2, <2>3 DEF LoopsNested
<1>4. e2 \/ LoopsComplete(st2, cs2, tr2)
  <2>1. SUFFICES ASSUME ~e2, NEW k \in 1..Len(cs2), tr2[cs2[k]].owner = "while"
                 PROVE  \E i \in 1..Len(st2.loops) : st2.loops[i].body = cs2[k]
    BY DEF LoopsComplete
  <2>2. tr2[cs2[Len(cs) + 1]] = h
    BY DEF Enters
  <2>3. Len(cs2) = Len(cs) + 1 /\ Len(cs) \in Nat
    BY LenProperties DEF Enters
  <2>4. k # Len(cs) + 1
    BY <2>1, <2>2
  <2>5. k \in 1..Len(cs)
    BY ONLY <2>3, <2>4, k \in 1..Len(cs2)
  <2> QED
    BY <1>0, <1>2, <2>1, <2>5 DEF LoopsComplete
<1> QED
  BY <1>1, <1>3, <1>4 DEF StackOK

\* The stack is entered with the loop of the new body pushed.
PushesLoop(st, st2, tr) ==
    \E l \in Loop : st2.loops = Append(st.loops, l) /\ l.body = Len(tr) + 1

LEMMA StackEntersLoop ==
    ASSUME NEW st \in Stack, NEW cs \in Seq(Nat), NEW tr \in Seq(Header), NEW h \in Header,
           NEW st2 \in Stack, NEW cs2 \in Seq(Nat), NEW tr2 \in Seq(Header),
           NEW e \in BOOLEAN, NEW e2 \in BOOLEAN, e => e2,
           StackOK(st, cs, tr, e), Enters(st, cs, tr, st2, cs2, tr2, h),
           PushesLoop(st, st2, tr), h.owner = "while"
    PROVE  StackOK(st2, cs2, tr2, e2)
<1>l. PICK l \in Loop : st2.loops = Append(st.loops, l) /\ l.body = Len(tr) + 1
  BY DEF PushesLoop
<1>0. Mirrors(st, cs, tr) /\ LoopsNested(st, cs, tr) /\ (e \/ LoopsComplete(st, cs, tr))
  BY DEF StackOK
<1>1. Mirrors(st2, cs2, tr2)
  BY <1>0, EntersMirrors
<1>2. \A k \in 1..Len(cs) : cs2[k] = cs[k] /\ tr2[cs2[k]].owner = tr[cs[k]].owner /\ k \in 1..Len(cs2)
  BY <1>0, EntersKeepsLoops
<1> DEFINE n == Len(st.loops)
           m == Len(cs)
<1>3. st.loops \in Seq(Loop) /\ n \in Nat /\ m \in Nat
  BY LenProperties DEF Stack
<1>4. /\ Len(st2.loops) = n + 1 /\ st2.loops[n + 1] = l
      /\ \A i \in 1..n : st2.loops[i] = st.loops[i]
  BY <1>3, <1>l, AppendFacts
<1>5. Len(cs2) = m + 1 /\ cs2[m + 1] = l.body /\ tr2[cs2[m + 1]].owner = "while"
  BY <1>l DEF Enters
<1>6. LoopsNested(st2, cs2, tr2)
  <2>1. PICK at \in [1..n -> 1..m] :
            /\ \A i \in 1..n : st.loops[i].body = cs[at[i]] /\ tr[cs[at[i]]].owner = "while"
            /\ \A i, j \in 1..n : i < j => at[i] < at[j]
    BY <1>0 DEF LoopsNested
  <2> HIDE DEF n, m
  <2> DEFINE at2 == [i \in 1..n + 1 |-> IF i = n + 1 THEN m + 1 ELSE at[i]]
  <2>2. /\ \A i \in 1..n : at2[i] = at[i] /\ at[i] \in 1..m
        /\ at2[n + 1] = m + 1
        /\ at2 \in [1..n + 1 -> 1..m + 1]
    BY ONLY <1>3, at \in [1..n -> 1..m]
  <2> HIDE DEF at2
  <2>3. ASSUME NEW i \in 1..n + 1
        PROVE  st2.loops[i].body = cs2[at2[i]] /\ tr2[cs2[at2[i]]].owner = "while"
    <3>1. CASE i = n + 1
      BY <1>4, <1>5, <2>2, <3>1
    <3>2. CASE i \in 1..n
      <4>1. at2[i] = at[i] /\ at[i] \in 1..m /\ st2.loops[i] = st.loops[i]
        BY <1>4, <2>2, <3>2
      <4>2. cs2[at[i]] = cs[at[i]] /\ tr2[cs2[at[i]]].owner = tr[cs[at[i]]].owner
        BY <1>2, <4>1 DEF m
      <4> QED
        BY <2>1, <3>2, <4>1, <4>2
    <3>3. i = n + 1 \/ i \in 1..n
      BY ONLY <1>3, i \in 1..n + 1
    <3> QED
      BY <3>1, <3>2, <3>3
  <2>4. ASSUME NEW i \in 1..n + 1, NEW j \in 1..n + 1, i < j
        PROVE  at2[i] < at2[j]
    <3>1. i \in 1..n
      BY ONLY <1>3, <2>4, i \in 1..n + 1, j \in 1..n + 1
    <3>2. CASE j = n + 1
      <4>1. at2[i] \in 1..m /\ at2[j] = m + 1
        BY <2>2, <3>1, <3>2
      <4> QED
        BY ONLY <4>1, <1>3
    <3>3. CASE j \in 1..n
      BY <2>1, <2>2, <2>4, <3>1, <3>3
    <3>4. j = n + 1 \/ j \in 1..n
      BY ONLY <1>3, j \in 1..n + 1
    <3> QED
      BY <3>2, <3>3, <3>4
  <2> QED
    BY <1>4, <1>5, <2>2, <2>3, <2>4 DEF LoopsNested
<1>7. e2 \/ LoopsComplete(st2, cs2, tr2)
  <2>1. SUFFICES ASSUME ~e2, NEW k \in 1..Len(cs2), tr2[cs2[k]].owner = "while"
                 PROVE  \E i \in 1..Len(st2.loops) : st2.loops[i].body = cs2[k]
    BY DEF LoopsComplete
  <2>2. CASE k = m + 1
    <3>1. n + 1 \in 1..Len(st2.loops) /\ st2.loops[n + 1].body = cs2[k]
      BY <1>3, <1>4, <1>5, <2>2
    <3> QED
      BY <3>1
  <2>3. CASE k \in 1..m
    <3>1. tr[cs[k]].owner = "while" /\ cs2[k] = cs[k]
      BY <1>2, <2>1, <2>3
    <3>2. PICK i \in 1..n : st.loops[i].body = cs[k]
      BY <1>0, <2>1, <2>3, <3>1 DEF LoopsComplete
    <3>3. i \in 1..Len(st2.loops) /\ st2.loops[i] = st.loops[i]
      BY <1>3, <1>4
    <3> QED
      BY <3>1, <3>2, <3>3
  <2>4. k = m + 1 \/ k \in 1..m
    BY <1>3, <1>5
  <2> QED
    BY <2>2, <2>3, <2>4
<1> QED
  BY <1>1, <1>6, <1>7 DEF StackOK

(***************************************************************************)
(* Leaving a body                                                          *)
(***************************************************************************)
\* st2 and cs2 are the stacks after the innermost body has been left.
Leaves(st, cs, st2, cs2) ==
    /\ Len(st2.scopes) = Len(st.scopes) - 1
    /\ \A k \in 1..Len(st.scopes) - 1 : st2.scopes[k].body = st.scopes[k].body
    /\ Len(cs2) = Len(cs) - 1
    /\ \A i \in 1..Len(cs) - 1 : cs2[i] = cs[i]

LEMMA LeavesMirrors ==
    ASSUME NEW st \in Stack, NEW cs \in Seq(Nat), NEW tr \in Seq(Header),
           NEW st2 \in Stack, NEW cs2 \in Seq(Nat),
           Mirrors(st, cs, tr), Leaves(st, cs, st2, cs2), cs # <<>>
    PROVE  Mirrors(st2, cs2, tr)
<1>n. Len(cs) \in Nat \ {0} /\ Len(cs2) = Len(cs) - 1 /\ Len(st.scopes) = Len(cs) + 1
  BY EmptySeq DEF Mirrors, Leaves
<1>1. Len(st2.scopes) = Len(cs2) + 1
  BY <1>n DEF Leaves
<1>2. st2.scopes[1].body = NoBody
  <2>1. 1 \in 1..Len(st.scopes) - 1
    BY ONLY <1>n
  <2> QED
    BY <2>1 DEF Leaves, Mirrors
<1>3. ASSUME NEW k \in 1..Len(cs2)
      PROVE  /\ st2.scopes[k + 1].body = cs2[k]
             /\ cs2[k] \in 1..Len(tr)
             /\ tr[cs2[k]].parent = st2.scopes[k].body
  <2>1. /\ k \in 1..Len(cs) /\ k \in 1..Len(cs) - 1
        /\ k \in 1..Len(st.scopes) - 1 /\ k + 1 \in 1..Len(st.scopes) - 1
    BY ONLY <1>n, k \in 1..Len(cs2)
  <2>2. /\ st2.scopes[k].body = st.scopes[k].body
        /\ st2.scopes[k + 1].body = st.scopes[k + 1].body
        /\ cs2[k] = cs[k]
    BY <2>1 DEF Leaves
  <2> QED
    BY <2>1, <2>2 DEF Mirrors
<1> QED
  BY <1>1, <1>2, <1>3 DEF Mirrors

\* Leaving a body that is not a loop's.
LEMMA StackLeaves ==
    ASSUME NEW st \in Stack, NEW cs \in Seq(Nat), NEW tr \in Seq(Header),
           NEW st2 \in Stack, NEW cs2 \in Seq(Nat), NEW e \in BOOLEAN,
           StackOK(st, cs, tr, e), Leaves(st, cs, st2, cs2), cs # <<>>,
           st2.loops = st.loops, tr[cs[Len(cs)]].owner # "while"
    PROVE  StackOK(st2, cs2, tr, e)
<1>0. Mirrors(st, cs, tr) /\ LoopsNested(st, cs, tr) /\ (e \/ LoopsComplete(st, cs, tr))
  BY DEF StackOK
<1>1. Mirrors(st2, cs2, tr)
  BY <1>0, LeavesMirrors
<1>n. Len(cs) \in Nat \ {0} /\ Len(cs2) = Len(cs) - 1
  BY EmptySeq DEF Leaves
<1>2. ASSUME NEW k \in 1..Len(cs), k # Len(cs)
      PROVE  k \in 1..Len(cs2) /\ cs2[k] = cs[k]
  <2>1. k \in 1..Len(cs) - 1 /\ k \in 1..Len(cs2)
    BY ONLY <1>n, <1>2, k \in 1..Len(cs)
  <2> QED
    BY <2>1 DEF Leaves
<1>3. LoopsNested(st2, cs2, tr)
  <2>1. PICK at \in [1..Len(st.loops) -> 1..Len(cs)] :
            /\ \A i \in 1..Len(st.loops) : /\ st.loops[i].body = cs[at[i]]
                                           /\ tr[cs[at[i]]].owner = "while"
            /\ \A i, j \in 1..Len(st.loops) : i < j => at[i] < at[j]
    BY <1>0 DEF LoopsNested
  <2>2. \A i \in 1..Len(st.loops) : at[i] \in 1..Len(cs) /\ at[i] # Len(cs)
    BY <2>1
  <2>3. \A i \in 1..Len(st.loops) : at[i] \in 1..Len(cs2) /\ cs2[at[i]] = cs[at[i]]
    BY <1>2, <2>2
  <2>4. at \in [1..Len(st2.loops) -> 1..Len(cs2)]
    BY <2>3
  <2> QED
    BY <2>1, <2>3, <2>4 DEF LoopsNested
<1>4. e \/ LoopsComplete(st2, cs2, tr)
  <2>1. SUFFICES ASSUME ~e, NEW k \in 1..Len(cs2), tr[cs2[k]].owner = "while"
                 PROVE  \E i \in 1..Len(st2.loops) : st2.loops[i].body = cs2[k]
    BY DEF LoopsComplete
  <2>2. k \in 1..Len(cs) /\ k # Len(cs)
    BY ONLY <1>n, k \in 1..Len(cs2)
  <2>3. cs2[k] = cs[k]
    BY <1>2, <2>2
  <2> QED
    BY <1>0, <2>1, <2>2, <2>3 DEF LoopsComplete
<1> QED
  BY <1>1, <1>3, <1>4 DEF StackOK

\* In a function without an error, a loop body being left has a loop to pop.
LEMMA LoopToPop ==
    ASSUME NEW st \in Stack, NEW cs \in Seq(Nat), NEW tr \in Seq(Header),
           StackOK(st, cs, tr, FALSE), cs # <<>>, tr[cs[Len(cs)]].owner = "while"
    PROVE  st.loops # <<>>
<1>1. Len(cs) \in 1..Len(cs)
  BY EmptySeq
<1>2. PICK i \in 1..Len(st.loops) : st.loops[i].body = cs[Len(cs)]
  BY <1>1 DEF StackOK, LoopsComplete
<1> QED
  BY <1>2, EmptySeq

\* Leaving a loop body, with the innermost loop popped.
LEMMA StackLeavesLoop ==
    ASSUME NEW st \in Stack, NEW cs \in Seq(Nat), NEW tr \in Seq(Header),
           NEW st2 \in Stack, NEW cs2 \in Seq(Nat), NEW e \in BOOLEAN,
           StackOK(st, cs, tr, e), Leaves(st, cs, st2, cs2), cs # <<>>,
           st.loops # <<>>, st2.loops = Front(st.loops),
           \A i, j \in 1..Len(cs) : i < j => cs[i] < cs[j],
           tr[cs[Len(cs)]].owner = "while"
    PROVE  StackOK(st2, cs2, tr, e)
<1>0. Mirrors(st, cs, tr) /\ LoopsNested(st, cs, tr) /\ (e \/ LoopsComplete(st, cs, tr))
  BY DEF StackOK
<1>1. Mirrors(st2, cs2, tr)
  BY <1>0, LeavesMirrors
<1> DEFINE n == Len(cs)
           m == Len(st.loops)
<1>n. n \in Nat \ {0} /\ Len(cs2) = n - 1
  BY EmptySeq DEF Leaves
<1>m. /\ m \in Nat \ {0} /\ Len(st2.loops) = m - 1
      /\ \A i \in 1..m - 1 : st2.loops[i] = st.loops[i]
  <2>1. st.loops \in Seq(Loop)
    BY DEF Stack
  <2> QED
    BY <2>1, FrontFacts
<1>s. /\ \A k \in 1..n - 1 : cs2[k] = cs[k]
      /\ \A i, j \in 1..n : i < j => cs[i] < cs[j]
      /\ \A i \in 1..n : cs[i] \in Nat
  <2>1. \A i \in 1..n : cs[i] \in Nat
    BY ElementOfSeq
  <2> QED
    BY <2>1 DEF Leaves
<1>2. PICK at \in [1..m -> 1..n] :
            /\ \A i \in 1..m : st.loops[i].body = cs[at[i]] /\ tr[cs[at[i]]].owner = "while"
            /\ \A i, j \in 1..m : i < j => at[i] < at[j]
  BY <1>0 DEF LoopsNested
<1>o. tr[cs[n]].owner = "while"
  OBVIOUS
<1>c. e \/ \A k \in 1..n : tr[cs[k]].owner = "while" => \E i \in 1..m : st.loops[i].body = cs[k]
  BY <1>0 DEF LoopsComplete
<1> HIDE DEF n, m
<1>t. \A i \in 1..m : at[i] \in 1..n
  BY <1>2
<1>3. ASSUME NEW i \in 1..m - 1
      PROVE  i \in 1..m /\ at[i] \in 1..n - 1
  <2>1. i \in 1..m /\ m \in 1..m /\ i < m
    BY ONLY <1>m, i \in 1..m - 1
  <2>2. at[i] < at[m] /\ at[i] \in 1..n /\ at[m] \in 1..n
    BY <2>1, <1>2, <1>t
  <2> QED
    BY ONLY <1>n, <2>1, <2>2
<1>4. LoopsNested(st2, cs2, tr)
  <2> DEFINE at2 == [i \in 1..m - 1 |-> at[i]]
  <2>1. at2 \in [1..m - 1 -> 1..n - 1] /\ \A i \in 1..m - 1 : at2[i] = at[i]
    BY <1>3
  <2> HIDE DEF at2
  <2>2. ASSUME NEW i \in 1..m - 1
        PROVE  st2.loops[i].body = cs2[at2[i]] /\ tr[cs2[at2[i]]].owner = "while"
    <3>1. i \in 1..m /\ at[i] \in 1..n - 1 /\ at2[i] = at[i]
      BY <1>3, <2>1
    <3>2. cs2[at[i]] = cs[at[i]] /\ st2.loops[i] = st.loops[i]
      BY <3>1, <1>m, <1>s
    <3> QED
      BY <1>2, <3>1, <3>2
  <2>3. \A i, j \in 1..m - 1 : i < j => at2[i] < at2[j]
    BY <1>2, <1>3, <2>1
  <2> QED
    BY <1>n, <1>m, <2>1, <2>2, <2>3 DEF LoopsNested
<1>5. ASSUME ~e, NEW k \in 1..n - 1, tr[cs2[k]].owner = "while"
      PROVE  \E i \in 1..m - 1 : st2.loops[i].body = cs2[k]
  <2>1. k \in 1..n /\ n \in 1..n /\ k < n /\ cs2[k] = cs[k]
    <3>1. k \in 1..n /\ n \in 1..n /\ k < n
      BY ONLY <1>n, k \in 1..n - 1
    <3> QED
      BY <3>1, <1>s
  <2>2. PICK i \in 1..m : st.loops[i].body = cs[k]
    BY <1>c, <1>5, <2>1
  <2>3. PICK j \in 1..m : st.loops[j].body = cs[n]
    BY <1>c, <1>5, <2>1, <1>o
  <2>4. \A p, q \in 1..n : cs[p] = cs[q] => p = q
    <3>1. SUFFICES ASSUME NEW p \in 1..n, NEW q \in 1..n, p # q
                   PROVE  cs[p] # cs[q]
      OBVIOUS
    <3>2. p < q \/ q < p
      BY <3>1
    <3>3. cs[p] < cs[q] \/ cs[q] < cs[p]
      BY <3>2, <1>s
    <3> QED
      BY <3>3, <1>s
  <2>5. at[i] = k /\ at[j] = n
    <3>1. at[i] \in 1..n /\ at[j] \in 1..n
      BY <1>t
    <3>2. cs[at[i]] = cs[k] /\ cs[at[j]] = cs[n]
      BY <1>2, <2>2, <2>3
    <3> QED
      BY ONLY <3>1, <3>2, <2>1, <2>4
  <2>6. i # m
    <3>1. SUFFICES ASSUME i = m PROVE FALSE
      OBVIOUS
    <3>2. j # m
      BY <3>1, <2>1, <2>5
    <3>3. j < m /\ m \in 1..m
      BY ONLY <3>2, <1>m, j \in 1..m
    <3>4. at[j] < at[m]
      BY <3>3, <1>2
    <3> QED
      BY <3>1, <3>4, <2>1, <2>5
  <2>7. i \in 1..m - 1
    BY ONLY <2>6, <1>m, i \in 1..m
  <2> QED
    BY <2>1, <2>2, <2>7, <1>m
<1>6. e \/ LoopsComplete(st2, cs2, tr)
  BY <1>5, <1>n, <1>m DEF LoopsComplete
<1> QED
  BY <1>1, <1>4, <1>6 DEF StackOK

(***************************************************************************)
(* Looking names up                                                        *)
(***************************************************************************)
\* The loop an exit names, or the innermost one, is on the stack.
LEMMA LoopForInRange ==
    ASSUME NEW st \in Stack, NEW n
    PROVE  LoopFor(st, n) \in 0..Len(st.loops)
<1>1. st.loops \in Seq(Loop) /\ Len(st.loops) \in Nat
  BY LenProperties DEF Stack
<1>2. NamedLoop(st, n) \in 0..Len(st.loops)
  <2> DEFINE I == {i \in 1..Len(st.loops) : st.loops[i].name = n}
  <2>1. NamedLoop(st, n) = IF I # {} THEN Min(I) ELSE 0
    BY DEF NamedLoop, SelectInSeq
  <2>2. I \subseteq 1..Len(st.loops) /\ I \subseteq Nat
    OBVIOUS
  <2> HIDE DEF I
  <2>3. I # {} => Min(I) \in I
    BY <2>2, MinIsElement
  <2>4. CASE I = {}
    BY <1>1, <2>1, <2>4
  <2>5. CASE I # {}
    <3>1. NamedLoop(st, n) \in 1..Len(st.loops)
      BY <2>1, <2>2, <2>3, <2>5
    <3> QED
      BY ONLY <1>1, <3>1
  <2> QED
    BY <2>4, <2>5
<1> QED
  BY <1>1, <1>2 DEF LoopFor

LEMMA LastScope ==
    ASSUME NEW st \in Stack, st.scopes # <<>>
    PROVE  /\ Last(st.scopes) = st.scopes[Len(st.scopes)]
           /\ Last(st.scopes) \in Scope
           /\ CurrentBody(st) = st.scopes[Len(st.scopes)].body
           /\ CurrentBody(st) \in Nat
           /\ Len(st.scopes) \in Nat \ {0}
           /\ \A k \in 1..Len(st.scopes) : st.scopes[k] \in Scope
<1>1. st.scopes \in Seq(Scope) /\ Len(st.scopes) \in Nat \ {0}
  BY EmptySeq DEF Stack
<1>2. \A k \in 1..Len(st.scopes) : st.scopes[k] \in Scope
  BY <1>1, ElementOfSeq
<1> QED
  BY <1>1, <1>2 DEF Last, CurrentBody, Scope

LEMMA NewDeclType ==
    ASSUME NEW st \in Stack, st.scopes # <<>>, NEW fn \in Nat, NEW n \in DeclNames, NEW h \in Holds
    PROVE  NewDecl(st, fn, n, h) \in Decl
<1>1. Last(st.scopes) \in Scope
  BY LastScope
<1>2. Last(st.scopes).decls \in Seq(Decl) /\ Last(st.scopes).body \in Nat
  BY <1>1 DEF Scope
<1>3. Len(Last(st.scopes).decls) + 1 \in Nat
  BY <1>2, LenProperties
<1> QED
  BY <1>2, <1>3 DEF NewDecl, Decl

\* Declaring a name leaves the shape of the stack alone.
LEMMA PushDeclFacts ==
    ASSUME NEW st \in Stack, st.scopes # <<>>, NEW d \in Decl
    PROVE  /\ PushDecl(st, d) \in Stack
           /\ Len(PushDecl(st, d).scopes) = Len(st.scopes)
           /\ PushDecl(st, d).scopes # <<>>
           /\ \A k \in 1..Len(st.scopes) : PushDecl(st, d).scopes[k].body = st.scopes[k].body
           /\ PushDecl(st, d).loops = st.loops
           /\ PushDecl(st, d).returns = st.returns
<1> DEFINE n == Len(st.scopes)
           sc == [st.scopes[n] EXCEPT !.decls = Append(@, d)]
           scs == [st.scopes EXCEPT ![n] = sc]
<1>1. n \in Nat \ {0} /\ n \in 1..n /\ st.scopes[n] \in Scope /\ st.scopes \in Seq(Scope)
  BY LastScope DEF Stack
<1>2. st.scopes[n].decls \in Seq(Decl)
  BY <1>1 DEF Scope
<1>3. Append(st.scopes[n].decls, d) \in Seq(Decl)
  BY <1>2, AppendFacts
<1>4. sc \in Scope /\ sc.body = st.scopes[n].body
  BY <1>1, <1>3 DEF Scope
<1>5. PushDecl(st, d) = [st EXCEPT !.scopes = scs]
  BY <1>1 DEF PushDecl, Stack
<1> HIDE DEF sc
<1>6. /\ scs \in Seq(Scope) /\ Len(scs) = n
      /\ \A k \in 1..n : scs[k] = IF k = n THEN sc ELSE st.scopes[k]
  BY <1>1, <1>4, ExceptSeq
<1> HIDE DEF scs, n
<1>7. scs # <<>> /\ \A k \in 1..n : scs[k].body = st.scopes[k].body
  BY <1>1, <1>4, <1>6, EmptySeq
<1>8. /\ PushDecl(st, d).scopes = scs
      /\ PushDecl(st, d).loops = st.loops
      /\ PushDecl(st, d).returns = st.returns
      /\ PushDecl(st, d) \in Stack
  BY <1>5, <1>6 DEF Stack
<1> QED
  BY <1>6, <1>7, <1>8 DEF n

\* What a name resolves to is a declaration.
LEMMA ResolveDeclType ==
    ASSUME NEW st \in Stack, NEW n \in DeclNames \cup Globals
    PROVE  ResolveDecl(st, n) \in Decl
<1> DEFINE Named(d) == d.name = n
           Has(sc) == SelectInSeq(sc.decls, Named) # 0
           at == SelectLastInSeq(st.scopes, Has)
           ds == st.scopes[at].decls
<1>0. NoDecl \in Decl /\ (GlobalDecl(n) \in Decl \/ n \notin Globals)
  BY DEF NoDecl, GlobalDecl, Decl, NoBody, Holds
<1>1. NoDecl \in Decl
  BY DEF NoDecl, Decl, NoBody, Holds
<1>2. ResolveDecl(st, n) =
        IF at # 0 THEN ds[SelectInSeq(ds, Named)]
        ELSE IF n \in Globals THEN GlobalDecl(n) ELSE NoDecl
  BY DEF ResolveDecl
<1>3. ASSUME at # 0 PROVE ds[SelectInSeq(ds, Named)] \in Decl
  <2> DEFINE I == {i \in 1..Len(st.scopes) : Has(st.scopes[i])}
  <2>1. st.scopes \in Seq(Scope) /\ Len(st.scopes) \in Nat
    BY LenProperties DEF Stack
  <2>2. at = IF I # {} THEN Max(I) ELSE 0
    BY DEF SelectLastInSeq
  <2>3. I \subseteq 1..Len(st.scopes)
    OBVIOUS
  <2>4. I # {} => Max(I) \in I
    <3> HIDE DEF I
    <3> QED
      BY <2>1, <2>3, MaxIsElement
  <2>5. at \in I
    BY <1>3, <2>2, <2>4
  <2>6. at \in 1..Len(st.scopes) /\ Has(st.scopes[at])
    BY <2>5
  <2>7. ds \in Seq(Decl) /\ SelectInSeq(ds, Named) # 0
    <3>1. st.scopes[at] \in Scope
      <4> HIDE DEF at
      <4> QED
        BY <2>1, <2>6, ElementOfSeq
    <3> QED
      BY <2>6, <3>1 DEF Scope
  <2> DEFINE J == {j \in 1..Len(ds) : Named(ds[j])}
  <2>8. SelectInSeq(ds, Named) = IF J # {} THEN Min(J) ELSE 0
    BY DEF SelectInSeq
  <2>9. J \subseteq 1..Len(ds) /\ J \subseteq Nat
    <3> HIDE DEF ds
    <3> QED
      OBVIOUS
  <2>10. J # {} => Min(J) \in J
    <3> HIDE DEF J
    <3> QED
      BY <2>9, MinIsElement
  <2>11. SelectInSeq(ds, Named) \in 1..Len(ds)
    BY <2>7, <2>8, <2>9, <2>10
  <2> HIDE DEF ds
  <2> QED
    BY <2>7, <2>11, ElementOfSeq
<1> HIDE DEF at, ds
<1> QED
  BY <1>0, <1>1, <1>2, <1>3

(***************************************************************************)
(* The operations of the analyser on its stacks                            *)
(***************************************************************************)
LEMMA PopScopeFacts ==
    ASSUME NEW st \in Stack, st.scopes # <<>>
    PROVE  /\ PopScope(st) \in Stack
           /\ Len(PopScope(st).scopes) = Len(st.scopes) - 1
           /\ \A k \in 1..Len(st.scopes) - 1 : PopScope(st).scopes[k].body = st.scopes[k].body
           /\ PopScope(st).loops = st.loops
           /\ PopScope(st).returns = st.returns
<1> DEFINE scs == Front(st.scopes)
<1>1. st.scopes \in Seq(Scope)
  BY DEF Stack
<1>2. /\ scs \in Seq(Scope) /\ Len(scs) = Len(st.scopes) - 1
      /\ \A k \in 1..Len(st.scopes) - 1 : scs[k] = st.scopes[k]
  BY <1>1, FrontFacts
<1>3. PopScope(st) = [st EXCEPT !.scopes = scs]
  BY DEF PopScope, Stack
<1> HIDE DEF scs
<1>4. /\ PopScope(st).scopes = scs
      /\ PopScope(st).loops = st.loops
      /\ PopScope(st).returns = st.returns
      /\ PopScope(st) \in Stack
  BY <1>2, <1>3 DEF Stack
<1> QED
  BY <1>2, <1>4

\* The scope stack of a function before its body: one scope, no loops.
LEMMA ArgStackFacts ==
    ASSUME tree \in Seq(Header), NEW r \in Returns, NEW args \in Seq(DeclNames)
    PROVE  /\ ArgStack(r, args) \in Stack
           /\ Len(ArgStack(r, args).scopes) = 1
           /\ ArgStack(r, args).scopes[1].body = NoBody
           /\ ArgStack(r, args).loops = <<>>
           /\ CurrentBody(ArgStack(r, args)) = NoBody
           /\ ArgStack(r, args).scopes[1].decls =
                 [i \in 1..Len(args) |->
                     [name |-> args[i], held |-> "var", fn |-> Fresh, scope |-> NoBody, pos |-> i]]
<1> DEFINE ds == [i \in 1..Len(args) |->
                    [name |-> args[i], held |-> "var", fn |-> Fresh, scope |-> NoBody, pos |-> i]]
           sc == [decls |-> ds, body |-> NoBody]
           none == [decls |-> <<>>, body |-> NoBody]
           st == [scopes |-> <<none>>, loops |-> <<>>, returns |-> r]
<1>1. Fresh \in Nat /\ Len(args) \in Nat /\ NoBody \in Nat
  BY LenProperties DEF Fresh, NoBody
<1>2. \A i \in 1..Len(args) : ds[i] \in Decl
  <2>1. ASSUME NEW i \in 1..Len(args)
        PROVE  [name |-> args[i], held |-> "var", fn |-> Fresh, scope |-> NoBody, pos |-> i] \in Decl
    <3>1. args[i] \in DeclNames /\ i \in Nat
      BY ElementOfSeq
    <3> QED
      BY ONLY <1>1, <3>1 DEF Decl, Holds
  <2> QED
    BY <2>1
<1>3. ds \in Seq(Decl)
  <2>1. ds \in [1..Len(args) -> Decl]
    BY <1>2
  <2> HIDE DEF ds
  <2> QED
    BY <1>1, <2>1, SeqDef
<1>4. PushScope([NoStack EXCEPT !.returns = r], NoBody) = st
  <2> DEFINE bare == [scopes |-> <<>>, loops |-> <<>>, returns |-> r]
  <2>1. [NoStack EXCEPT !.returns = r] = bare
    BY DEF NoStack
  <2>2. CurrentBody(bare) = NoBody
    BY DEF CurrentBody
  <2>3. PushScope(bare, NoBody) = [bare EXCEPT !.scopes = Append(@, none)]
    BY <2>2 DEF PushScope
  <2>4. Append(<<>>, none) = <<none>>
    <3> HIDE DEF none
    <3> QED
      OBVIOUS
  <2> QED
    BY <2>1, <2>3, <2>4
<1>5. ArgStack(r, args) = [scopes |-> <<sc>>, loops |-> <<>>, returns |-> r]
  <2>1. ArgStack(r, args) = [st EXCEPT !.scopes[1].decls = ds]
    BY <1>4 DEF ArgStack
  <2> HIDE DEF ds
  <2>2. [none EXCEPT !.decls = ds] = sc
    OBVIOUS
  <2>3. [<<none>> EXCEPT ![1] = sc] = <<sc>> /\ <<none>>[1] = none
    <3> HIDE DEF none, sc
    <3> QED
      OBVIOUS
  <2>4. [st EXCEPT !.scopes[1].decls = ds] = [st EXCEPT !.scopes = [<<none>> EXCEPT ![1] = [none EXCEPT !.decls = ds]]]
    BY <2>3
  <2> HIDE DEF none, sc
  <2>5. [st EXCEPT !.scopes = <<sc>>] = [scopes |-> <<sc>>, loops |-> <<>>, returns |-> r]
    OBVIOUS
  <2> HIDE DEF st
  <2> QED
    BY <2>1, <2>2, <2>3, <2>4, <2>5
<1>6. sc \in Scope
  <2> HIDE DEF ds
  <2> QED
    BY <1>1, <1>3 DEF Scope
<1>7. <<sc>> \in Seq(Scope) /\ Len(<<sc>>) = 1 /\ <<sc>>[1] = sc /\ <<>> \in Seq(Loop) /\ <<sc>> # <<>>
  <2> HIDE DEF sc
  <2> QED
    BY <1>6, EmptySeq
<1>8. sc.body = NoBody /\ sc.decls = ds
  OBVIOUS
<1> HIDE DEF sc
<1> QED
  BY <1>5, <1>7, <1>8 DEF Stack, CurrentBody, Last

\* A function that no body of which is running yet is in order.
LEMMA StackStarts ==
    ASSUME NEW st \in Stack, NEW tr \in Seq(Header), NEW e \in BOOLEAN,
           Len(st.scopes) = 1, st.scopes[1].body = NoBody, st.loops = <<>>
    PROVE  StackOK(st, <<>>, tr, e)
<1>1. Len(<<>>) = 0 /\ 1..0 = {}
  OBVIOUS
<1>2. Mirrors(st, <<>>, tr)
  BY <1>1 DEF Mirrors
<1>3. LoopsNested(st, <<>>, tr)
  <2> DEFINE at == [i \in {} |-> 1]
  <2>1. at \in [1..Len(st.loops) -> 1..Len(<<>>)]
    BY <1>1
  <2>2. \A i \in 1..Len(st.loops) : FALSE
    BY <1>1
  <2> HIDE DEF at
  <2> QED
    BY <2>1, <2>2 DEF LoopsNested
<1>4. LoopsComplete(st, <<>>, tr)
  BY <1>1 DEF LoopsComplete
<1> QED
  BY <1>2, <1>3, <1>4 DEF StackOK

\* Only the number of scopes, their bodies and the loops matter to StackOK.
LEMMA SameShape ==
    ASSUME NEW st \in Stack, NEW st2 \in Stack, NEW cs \in Seq(Nat), NEW tr \in Seq(Header),
           NEW e \in BOOLEAN, NEW e2 \in BOOLEAN, e => e2,
           StackOK(st, cs, tr, e),
           Len(st2.scopes) = Len(st.scopes), st2.loops = st.loops,
           \A k \in 1..Len(st.scopes) : st2.scopes[k].body = st.scopes[k].body
    PROVE  StackOK(st2, cs, tr, e2)
<1>1. Len(cs) \in Nat /\ Len(st.scopes) = Len(cs) + 1
  BY LenProperties DEF StackOK, Mirrors
<1>2. 1 \in 1..Len(st.scopes)
      /\ \A k \in 1..Len(cs) : k \in 1..Len(st.scopes) /\ k + 1 \in 1..Len(st.scopes)
  BY ONLY <1>1
<1>3. Mirrors(st2, cs, tr)
  BY <1>1, <1>2 DEF StackOK, Mirrors
<1>4. LoopsNested(st2, cs, tr)
  <2>1. LoopsNested(st, cs, tr) /\ st2.loops = st.loops
    BY DEF StackOK
  <2> QED
    BY ONLY <2>1 DEF LoopsNested
<1>5. e2 \/ LoopsComplete(st2, cs, tr)
  BY DEF StackOK, LoopsComplete
<1> QED
  BY <1>3, <1>4, <1>5 DEF StackOK

LEMMA CallsGrow ==
    ASSUME NEW cs \in Seq(Nat), NEW tr \in Seq(Header), NEW h \in Header, NEW root, CallsOK(cs, tr, root)
    PROVE  CallsOK(cs, Append(tr, h), root)
<1>1. /\ Len(Append(tr, h)) = Len(tr) + 1 /\ Len(tr) \in Nat
      /\ \A b \in 1..Len(tr) : Append(tr, h)[b] = tr[b]
  BY LenProperties, AppendFacts
<1>2. Len(cs) \in Nat \ {0}
  BY EmptySeq DEF CallsOK
<1>3. \A k \in 2..Len(cs) : k \in 1..Len(cs)
  BY <1>2
<1>4. \A k \in 1..Len(cs) : Append(tr, h)[cs[k]] = tr[cs[k]] /\ cs[k] \in 1..Len(Append(tr, h))
  BY <1>1 DEF CallsOK
<1> QED
  BY <1>2, <1>3, <1>4 DEF CallsOK

LEMMA CallsEnter ==
    ASSUME NEW cs \in Seq(Nat), NEW tr \in Seq(Header), NEW h \in Header, NEW root,
           CallsOK(cs, tr, root), h.owner \notin {"func", "anon"}
    PROVE  CallsOK(Append(cs, Len(tr) + 1), Append(tr, h), root)
<1> DEFINE n == Len(cs)
           m == Len(tr)
           cs2 == Append(cs, m + 1)
           tr2 == Append(tr, h)
<1>1. n \in Nat \ {0} /\ m \in Nat
  BY EmptySeq, LenProperties DEF CallsOK
<1>2. /\ cs2 \in Seq(Nat) /\ cs2 # <<>> /\ Len(cs2) = n + 1 /\ cs2[n + 1] = m + 1
      /\ \A i \in 1..n : cs2[i] = cs[i]
  <2>1. m + 1 \in Nat
    BY <1>1
  <2> HIDE DEF m
  <2>2. \A e \in Nat : /\ Append(cs, e) \in Seq(Nat)
                       /\ Append(cs, e) # <<>>
                       /\ Len(Append(cs, e)) = Len(cs) + 1
                       /\ Append(cs, e)[Len(cs) + 1] = e
                       /\ \A i \in 1..Len(cs) : Append(cs, e)[i] = cs[i]
    BY ONLY cs \in Seq(Nat), AppendFacts
  <2> QED
    BY <2>1, <2>2
<1>3. /\ Len(tr2) = m + 1 /\ tr2[m + 1] = h
      /\ \A i \in 1..m : tr2[i] = tr[i]
  BY AppendFacts
<1>4. CallsOK(cs, tr2, root)
  BY CallsGrow
<1>5. /\ \A i \in 1..n : cs[i] \in 1..m
      /\ \A i, j \in 1..n : i < j => cs[i] < cs[j]
  BY DEF CallsOK
<1> HIDE DEF cs2, tr2, n, m
<1>6. ASSUME NEW i \in 1..n + 1, NEW j \in 1..n + 1, i < j
      PROVE  cs2[i] < cs2[j]
  <2>1. i \in 1..n
    BY ONLY <1>1, <1>6, i \in 1..n + 1, j \in 1..n + 1
  <2>2. CASE j = n + 1
    <3>1. cs2[i] \in 1..m /\ cs2[j] = m + 1
      BY <1>2, <1>5, <2>1, <2>2
    <3> QED
      BY ONLY <1>1, <3>1
  <2>3. CASE j \in 1..n
    BY <1>2, <1>5, <1>6, <2>1, <2>3
  <2> QED
    BY ONLY <2>2, <2>3, <1>1, j \in 1..n + 1
<1>7. ASSUME NEW i \in 1..n + 1
      PROVE  cs2[i] \in 1..m + 1
  <2>1. CASE i = n + 1
    BY <1>1, <1>2, <2>1
  <2>2. CASE i \in 1..n
    <3>1. cs2[i] \in 1..m
      BY <1>2, <1>5, <2>2
    <3> QED
      BY ONLY <3>1, <1>1
  <2> QED
    BY ONLY <2>1, <2>2, <1>1, i \in 1..n + 1
<1>8. tr2[cs2[1]].owner = root
  <2>1. cs2[1] = cs[1]
    BY <1>1, <1>2
  <2> QED
    BY <2>1, <1>4 DEF CallsOK
<1>9. ASSUME NEW k \in 2..n + 1
      PROVE  tr2[cs2[k]].owner \notin {"func", "anon"}
  <2>1. CASE k = n + 1
    BY <1>2, <1>3, <2>1
  <2>2. CASE k # n + 1
    <3>1. k \in 2..n /\ k \in 1..n
      BY ONLY <2>2, <1>1, k \in 2..n + 1
    <3> QED
      BY <1>2, <1>4, <3>1 DEF CallsOK, n
  <2> QED
    BY <2>1, <2>2
<1>10. CallsOK(cs2, tr2, root)
  BY <1>2, <1>3, <1>6, <1>7, <1>8, <1>9 DEF CallsOK
<1> QED
  BY <1>10 DEF cs2, tr2, m

LEMMA CallsStart ==
    ASSUME NEW tr \in Seq(Header), NEW h \in Header
    PROVE  CallsOK(<<Len(tr) + 1>>, Append(tr, h), h.owner)
<1>1. Len(Append(tr, h)) = Len(tr) + 1 /\ Append(tr, h)[Len(tr) + 1] = h /\ Len(tr) \in Nat
  BY LenProperties, AppendFacts
<1> DEFINE c == Len(tr) + 1
           tr2 == Append(tr, h)
<1>2. c \in Nat \ {0} /\ tr2[c] = h /\ Len(tr2) = c
  BY <1>1
<1> HIDE DEF c, tr2
<1>3. Len(<<c>>) = 1 /\ <<c>>[1] = c /\ <<c>> # <<>>
  OBVIOUS
<1>4. CallsOK(<<c>>, tr2, h.owner)
  BY <1>2, <1>3 DEF CallsOK
<1> QED
  BY <1>4 DEF c, tr2

LEMMA CallsLeave ==
    ASSUME NEW cs \in Seq(Nat), NEW tr \in Seq(Header), NEW root \in {"func", "anon"},
           CallsOK(cs, tr, root), tr[cs[Len(cs)]].owner \notin {"func", "anon"}
    PROVE  Front(cs) \in Seq(Nat) /\ CallsOK(Front(cs), tr, root)
<1> DEFINE n == Len(cs)
<1>1. /\ Front(cs) \in Seq(Nat) /\ Len(Front(cs)) = n - 1 /\ n \in Nat \ {0}
      /\ \A i \in 1..n - 1 : Front(cs)[i] = cs[i]
  BY FrontFacts DEF CallsOK
<1>2. n # 1
  BY DEF CallsOK
<1>3. /\ 1 \in 1..n - 1
      /\ \A i \in 1..n - 1 : i \in 1..n
      /\ \A i \in 2..n - 1 : i \in 2..n /\ i \in 1..n - 1
  BY ONLY <1>1, <1>2
<1>4. Front(cs) # <<>>
  BY <1>1, <1>2, EmptySeq
<1> QED
  BY <1>1, <1>3, <1>4 DEF CallsOK


(***************************************************************************)
(* Shapes of statements                                                    *)
(***************************************************************************)
LEMMA StmtTypes ==
    /\ [kind |-> "bad"] \in Stmt
    /\ [kind |-> "try"] \in Stmt
    /\ \A d \in Decl : [kind |-> "decl", decl |-> d] \in Stmt /\ [kind |-> "use", decl |-> d] \in Stmt
    /\ \A b \in Nat : [kind |-> "defer", body |-> b] \in Stmt /\ [kind |-> "anon", body |-> b] \in Stmt
    /\ \A l \in Loop, d \in Decl : [kind |-> "while", loop |-> l, binds |-> d] \in Stmt
    /\ \A k \in Exits, l \in Loop, r \in Seq(Nat) : [kind |-> k, loop |-> l, defers |-> r] \in Stmt
<1>1. [kind |-> "bad"] \in Stmt /\ [kind |-> "try"] \in Stmt
  BY DEF Stmt
<1>2. \A d \in Decl : [kind |-> "decl", decl |-> d] \in Stmt /\ [kind |-> "use", decl |-> d] \in Stmt
  BY DEF Stmt
<1>3. \A b \in Nat : [kind |-> "defer", body |-> b] \in Stmt /\ [kind |-> "anon", body |-> b] \in Stmt
  BY DEF Stmt
<1>4. \A l \in Loop, d \in Decl : [kind |-> "while", loop |-> l, binds |-> d] \in Stmt
  BY DEF Stmt
<1>5. \A k \in Exits, l \in Loop, r \in Seq(Nat) : [kind |-> k, loop |-> l, defers |-> r] \in Stmt
  BY DEF Stmt
<1> QED
  BY <1>1, <1>2, <1>3, <1>4, <1>5

Branch == [body : Nat, binds : Decl]
IfStmt == [kind : {"if"}, branches : Seq(Branch), closed : BOOLEAN]

LEMMA IfTypes ==
    /\ IfStmt \subseteq Stmt
    /\ \A s \in Stmt : s.kind = "if" => s \in IfStmt
    /\ \A b \in Nat, d \in Decl :
          [kind |-> "if", closed |-> FALSE, branches |-> <<[body |-> b, binds |-> d]>>] \in Stmt
    /\ \A s \in IfStmt, b \in Nat, d \in Decl, c \in BOOLEAN :
          WithBranch(s, b, d, c) \in Stmt
<1>1. IfStmt \subseteq Stmt
  BY DEF IfStmt, Branch, Stmt
<1>2. ASSUME NEW s \in Stmt, s.kind = "if" PROVE s \in IfStmt
  BY <1>2 DEF IfStmt, Branch, Stmt, Exits
<1>3. ASSUME NEW b \in Nat, NEW d \in Decl
      PROVE  [body |-> b, binds |-> d] \in Branch
  BY DEF Branch
<1>4. ASSUME NEW b \in Nat, NEW d \in Decl
      PROVE  [kind |-> "if", closed |-> FALSE, branches |-> <<[body |-> b, binds |-> d]>>] \in IfStmt
  <2>1. \A br \in Branch : <<br>> \in Seq(Branch)
    OBVIOUS
  <2>2. <<[body |-> b, binds |-> d]>> \in Seq(Branch)
    BY <1>3, <2>1
  <2> QED
    BY <2>2 DEF IfStmt
<1>5. ASSUME NEW s \in IfStmt, NEW b \in Nat, NEW d \in Decl, NEW c \in BOOLEAN
      PROVE  WithBranch(s, b, d, c) \in IfStmt
  <2> DEFINE br == [body |-> b, binds |-> d]
  <2>1. br \in Branch
    BY <1>3
  <2> HIDE DEF br
  <2>2. s.branches \in Seq(Branch)
    BY DEF IfStmt
  <2>3. Append(s.branches, br) \in Seq(Branch)
    BY <2>1, <2>2, AppendFacts
  <2>4. [s EXCEPT !.branches = Append(@, br), !.closed = c] \in IfStmt
    BY <2>3 DEF IfStmt
  <2> QED
    BY <2>4 DEF br, WithBranch
<1> QED
  BY <1>1, <1>2, <1>4, <1>5

\* Appending a statement to the body being read.
LEMMA ReadType ==
    ASSUME IInv, calls # <<>>, NEW s \in Stmt
    PROVE  /\ Read(s) \in Seq(Seq(Stmt))
           /\ Len(Read(s)) = Len(text)
           /\ Last(Read(s)[Cur]) = s
           /\ Cur \in 1..Len(text)
<1>1. text \in Seq(Seq(Stmt)) /\ calls \in Seq(Nat) /\ Len(calls) \in Nat \ {0}
  BY EmptySeq DEF IInv, TypeOK
<1>2. Cur \in 1..Len(text)
  <2>1. Cur = calls[Len(calls)] /\ Len(calls) \in 1..Len(calls)
    BY <1>1 DEF Cur, Last
  <2> QED
    BY <2>1 DEF IInv, CallsInv, CallsOK
<1>3. text[Cur] \in Seq(Stmt)
  BY <1>1, <1>2, ElementOfSeq
<1>4. /\ Append(text[Cur], s) \in Seq(Stmt)
      /\ Len(Append(text[Cur], s)) = Len(text[Cur]) + 1
      /\ Append(text[Cur], s)[Len(text[Cur]) + 1] = s
  BY <1>3, AppendFacts
<1>5. Read(s) = [text EXCEPT ![Cur] = Append(text[Cur], s)]
  BY DEF Read
<1> DEFINE new == Append(text[Cur], s)
<1> HIDE DEF new
<1>6. /\ [text EXCEPT ![Cur] = new] \in Seq(Seq(Stmt))
      /\ Len([text EXCEPT ![Cur] = new]) = Len(text)
      /\ [text EXCEPT ![Cur] = new][Cur] = new
  BY <1>1, <1>2, <1>4, ExceptSeq DEF new
<1>7. Last(new) = s
  BY <1>4 DEF new, Last
<1> QED
  BY <1>2, <1>5, <1>6, <1>7 DEF new

LEMMA ReadBranchType ==
    ASSUME IInv, calls # <<>>, IsLastIf, NEW b \in Nat, NEW d \in Decl, NEW c \in BOOLEAN
    PROVE  /\ ReadBranch(b, d, c) \in Seq(Seq(Stmt))
           /\ Len(ReadBranch(b, d, c)) = Len(text)
<1>1. text \in Seq(Seq(Stmt)) /\ Cur \in 1..Len(text)
  BY ReadType, StmtTypes DEF IInv, TypeOK
<1>2. text[Cur] \in Seq(Stmt) /\ text[Cur] # <<>>
  BY <1>1, ElementOfSeq DEF IsLastIf
<1> DEFINE n == Len(text[Cur])
           s == text[Cur][n]
           s2 == WithBranch(s, b, d, c)
           stmts == [text[Cur] EXCEPT ![n] = s2]
<1>3. n \in 1..n /\ s \in Stmt /\ s.kind = "if"
  <2>1. n \in Nat \ {0}
    BY <1>2, EmptySeq
  <2>2. n \in 1..n
    BY ONLY <2>1
  <2> QED
    BY <1>2, <2>2, ElementOfSeq DEF IsLastIf, Last
<1>4. s2 \in Stmt
  <2>1. s \in IfStmt
    BY <1>3, IfTypes
  <2> HIDE DEF s
  <2> QED
    BY <2>1, IfTypes
<1>5. ReadBranch(b, d, c) = [text EXCEPT ![Cur] = stmts]
  BY DEF ReadBranch
<1> HIDE DEF s2
<1>6. stmts \in Seq(Stmt)
  BY <1>2, <1>3, <1>4, ExceptSeq
<1> HIDE DEF stmts
<1> QED
  BY <1>1, <1>5, <1>6, ExceptSeq

(***************************************************************************)
(* Facts about a state of the invariant                                    *)
(***************************************************************************)
\* Where the innermost body is, and that the scope stack knows it.
LEMMA AtBody ==
    ASSUME IInv, calls # <<>>
    PROVE  /\ StackOK(ss, calls, tree, failed)
           /\ CallsOK(calls, tree, RootOf(Len(saved)))
           /\ ss \in Stack /\ calls \in Seq(Nat) /\ tree \in Seq(Header)
           /\ ss.scopes # <<>>
           /\ CurrentBody(ss) = Cur /\ Cur = calls[Len(calls)]
           /\ Cur \in 1..Len(tree)
           /\ Len(calls) \in 1..Len(calls) /\ Len(calls) \in Nat \ {0}
           /\ Function \in Nat
           /\ Fresh \in Nat \ {0} /\ Len(tree) \in Nat
<1>1. /\ StackOK(ss, calls, tree, failed) /\ CallsOK(calls, tree, RootOf(Len(saved)))
      /\ ss \in Stack /\ calls \in Seq(Nat) /\ tree \in Seq(Header)
  BY DEF IInv, LoopsEnclose, CallsInv, TypeOK
<1>2. Len(calls) \in Nat \ {0} /\ Len(tree) \in Nat
  BY <1>1, EmptySeq, LenProperties
<1>3. Len(ss.scopes) = Len(calls) + 1 /\ Len(calls) \in 1..Len(calls)
  BY <1>1, <1>2 DEF StackOK, Mirrors
<1>4. ss.scopes # <<>>
  BY <1>2, <1>3
<1>5. Cur = calls[Len(calls)] /\ Cur \in 1..Len(tree)
  BY <1>1, <1>3 DEF Cur, Last, CallsOK
<1>6. CurrentBody(ss) = ss.scopes[Len(calls) + 1].body
  BY <1>1, <1>3, <1>4, LastScope
<1>7. CurrentBody(ss) = calls[Len(calls)]
  BY <1>1, <1>3, <1>6 DEF StackOK, Mirrors
<1>8. Function \in Nat
  BY <1>1, HeadTailProperties DEF Function
<1>9. Fresh \in Nat \ {0}
  BY <1>2 DEF Fresh
<1> QED
  BY <1>1, <1>2, <1>3, <1>4, <1>5, <1>7, <1>8, <1>9

\* Suspended functions do not notice a new body or an error.
LEMMA SavedKept ==
    ASSUME IInv, NEW h \in Header, tree' = Append(tree, h) \/ tree' = tree,
           NEW e \in BOOLEAN, failed => e, NEW i \in 1..Len(saved)
    PROVE  /\ StackOK(saved[i].ss, saved[i].calls, tree', e)
           /\ CallsOK(saved[i].calls, tree', RootOf(i - 1))
           /\ saved[i].ss \in Stack /\ saved[i].calls \in Seq(Nat)
<1> DEFINE st == saved[i].ss
           cs == saved[i].calls
<1>1. st \in Stack /\ cs \in Seq(Nat) /\ tree \in Seq(Header) /\ failed \in BOOLEAN
  <2>1. saved \in Seq([ss : Stack, calls : Seq(Nat)])
    BY DEF IInv, TypeOK
  <2>2. saved[i] \in [ss : Stack, calls : Seq(Nat)]
    BY <2>1, ElementOfSeq
  <2> QED
    BY <2>2 DEF IInv, TypeOK
<1>2. StackOK(st, cs, tree, failed) /\ CallsOK(cs, tree, RootOf(i - 1))
  BY DEF IInv, LoopsEnclose, CallsInv
<1> HIDE DEF st, cs
<1>3. CASE tree' = Append(tree, h)
  <2>1. StackOK(st, cs, Append(tree, h), e)
    BY <1>1, <1>2, StackGrows
  <2>2. CallsOK(cs, Append(tree, h), RootOf(i - 1))
    BY <1>1, <1>2, CallsGrow
  <2> QED
    BY <1>1, <1>3, <2>1, <2>2 DEF st, cs
<1>4. CASE tree' = tree
  <2>1. StackOK(st, cs, tree, e)
    BY <1>1, <1>2 DEF StackOK
  <2> QED
    BY <1>1, <1>2, <1>4, <2>1 DEF st, cs
<1> QED
  BY <1>3, <1>4

(***************************************************************************)
(* A statement without a body                                              *)
(***************************************************************************)
LEMMA SameStep ==
    ASSUME IInv, Reading,
           text' \in Seq(Seq(Stmt)), Len(text') = Len(text),
           ss' \in Stack, Len(ss'.scopes) = Len(ss.scopes), ss'.loops = ss.loops,
           \A k \in 1..Len(ss.scopes) : ss'.scopes[k].body = ss.scopes[k].body,
           failed' \in BOOLEAN, failed => failed',
           UNCHANGED <<tree, defers, calls, saved, walk, crashed>>
    PROVE  IInv'
<1>1. calls # <<>> /\ walk = Idle /\ ~crashed
  BY DEF Reading
<1>2. TypeOK'
  BY DEF IInv, TypeOK
<1>3. CallsInv'
  BY DEF IInv, CallsInv
<1>4. LoopsEnclose'
  <2>1. StackOK(ss', calls, tree, failed')
    <3>1. ss \in Stack /\ calls \in Seq(Nat) /\ tree \in Seq(Header) /\ failed \in BOOLEAN
      BY DEF IInv, TypeOK
    <3> QED
      BY <1>1, <3>1, AtBody, SameShape
  <2>2. ASSUME NEW i \in 1..Len(saved)
        PROVE  StackOK(saved[i].ss, saved[i].calls, tree, failed')
    <3>1. StackOK(saved[i].ss, saved[i].calls, tree, failed)
      BY DEF IInv, LoopsEnclose
    <3> QED
      BY <3>1 DEF StackOK
  <2> QED
    BY <2>1, <2>2 DEF LoopsEnclose
<1>5. WalkInv'
  BY <1>1 DEF WalkInv, Idle
<1>6. CrashOnlyAfterError'
  BY <1>1 DEF CrashOnlyAfterError
<1> QED
  BY <1>2, <1>3, <1>4, <1>5, <1>6 DEF IInv

LEMMA RejectStep ==
    ASSUME IInv, Reading, Reject
    PROVE  IInv'
<1>1. calls # <<>>
  BY DEF Reading
<1>2. text' \in Seq(Seq(Stmt)) /\ Len(text') = Len(text)
  BY <1>1, StmtTypes, ReadType DEF Reject
<1>3. ss' \in Stack
  BY DEF IInv, TypeOK, Reject
<1> QED
  BY <1>2, <1>3, SameStep DEF Reject

LEMMA ValDeclStep ==
    ASSUME IInv, NEW n \in DeclNames, NEW h \in Holds, ValDecl(n, h)
    PROVE  IInv'
<1> DEFINE d == NewDecl(ss, Function, n, h)
<1>1. Reading /\ calls # <<>>
  BY DEF ValDecl, Reads, Reading
<1>2. d \in Decl
  BY <1>1, AtBody, NewDeclType
<1> HIDE DEF d
<1>3. text' = Read([kind |-> "decl", decl |-> d]) /\ ss' = PushDecl(ss, d)
  BY DEF ValDecl, d
<1>4. text' \in Seq(Seq(Stmt)) /\ Len(text') = Len(text)
  BY <1>1, <1>2, <1>3, StmtTypes, ReadType
<1>5. ss \in Stack /\ ss.scopes # <<>>
  BY <1>1, AtBody
<1>6. /\ ss' \in Stack /\ Len(ss'.scopes) = Len(ss.scopes) /\ ss'.loops = ss.loops
      /\ \A k \in 1..Len(ss.scopes) : ss'.scopes[k].body = ss.scopes[k].body
  BY <1>2, <1>3, <1>5, PushDeclFacts
<1>7. /\ UNCHANGED <<tree, defers, calls, saved, walk, crashed>>
      /\ failed' \in BOOLEAN /\ (failed => failed')
  BY DEF ValDecl, IInv, TypeOK
<1> QED
  BY <1>1, <1>4, <1>6, <1>7, SameStep

LEMMA UseStep ==
    ASSUME IInv, NEW n \in DeclNames \cup Globals, Use(n)
    PROVE  IInv'
<1> DEFINE d == ResolveDecl(ss, n)
<1>1. Reading /\ calls # <<>>
  BY DEF Use, Reads, Reading
<1>2. ss \in Stack
  BY DEF IInv, TypeOK
<1>3. d \in Decl
  BY <1>2, ResolveDeclType
<1> HIDE DEF d
<1>4. CASE Reject
  BY <1>1, <1>4, RejectStep
<1>5. CASE /\ text' = Read([kind |-> "use", decl |-> d])
           /\ UNCHANGED <<tree, defers, ss, calls, saved, walk, failed, crashed>>
  <2>1. text' \in Seq(Seq(Stmt)) /\ Len(text') = Len(text)
    BY <1>1, <1>3, <1>5, StmtTypes, ReadType
  <2>2. failed' \in BOOLEAN
    BY <1>5 DEF IInv, TypeOK
  <2> QED
    BY <1>1, <1>2, <1>5, <2>1, <2>2, SameStep
<1> QED
  BY <1>4, <1>5 DEF Use, d

LEMMA RetOnNullStep ==
    ASSUME IInv, RetOnNull
    PROVE  IInv'
<1>1. Reading /\ calls # <<>>
  BY DEF RetOnNull, Reads, Reading
<1>2. CASE Reject
  BY <1>1, <1>2, RejectStep
<1>3. CASE /\ text' = Read([kind |-> "try"])
           /\ UNCHANGED <<tree, defers, ss, calls, saved, walk, failed, crashed>>
  <2>1. text' \in Seq(Seq(Stmt)) /\ Len(text') = Len(text)
    BY <1>1, <1>3, StmtTypes, ReadType
  <2>2. failed' \in BOOLEAN /\ ss' \in Stack
    BY <1>3 DEF IInv, TypeOK
  <2> QED
    BY <1>1, <1>3, <2>1, <2>2, SameStep
<1> QED
  BY <1>2, <1>3 DEF RetOnNull

(***************************************************************************)
(* Bodies that open                                                        *)
(***************************************************************************)
HeaderOf(st, owner, args) ==
    [owner |-> owner, args |-> args, parent |-> CurrentBody(st), returns |-> st.returns]

LEMMA OpenBodyFacts ==
    ASSUME IInv, NEW read \in Seq(Seq(Stmt)), Len(read) = Len(text), NEW st \in Stack,
           st.scopes # <<>>, NEW owner \in Owners, NEW args \in Seq(DeclNames),
           OpenBody(read, st, owner, args)
    PROVE  /\ HeaderOf(st, owner, args) \in Header
           /\ tree \in Seq(Header) /\ tree' = Append(tree, HeaderOf(st, owner, args))
           /\ tree' \in Seq(Header) /\ Len(tree') = Len(tree) + 1
           /\ text' \in Seq(Seq(Stmt)) /\ Len(text') = Len(tree')
           /\ defers' \in Seq(Seq(Nat)) /\ Len(defers') = Len(tree')
           /\ ss' \in Stack /\ ss'.loops = st.loops
           /\ \A st0 \in Stack, cs \in Seq(Nat) :
                 /\ Len(st.scopes) = Len(st0.scopes)
                 /\ \A k \in 1..Len(st.scopes) : st.scopes[k].body = st0.scopes[k].body
                 => Enters(st0, cs, tree, ss', Append(cs, Fresh), tree', HeaderOf(st, owner, args))
<1> DEFINE h == HeaderOf(st, owner, args)
<1>1. /\ tree \in Seq(Header) /\ defers \in Seq(Seq(Nat)) /\ Len(tree) \in Nat
      /\ Len(text) = Len(tree) /\ Len(defers) = Len(tree)
  BY LenProperties DEF IInv, TypeOK, CallsInv
<1>2. /\ CurrentBody(st) \in Nat /\ CurrentBody(st) = st.scopes[Len(st.scopes)].body
      /\ Len(st.scopes) \in Nat \ {0} /\ Len(st.scopes) \in 1..Len(st.scopes)
  BY LastScope
<1>3. h \in Header
  <2>1. st.returns \in Returns \cup {NoName}
    BY DEF Stack
  <2> QED
    BY <1>2, <2>1 DEF HeaderOf, Header
<1>4. /\ tree' = Append(tree, h) /\ text' = Append(read, <<>>) /\ defers' = Append(defers, <<>>)
      /\ ss' = PushScope(st, Fresh)
  BY DEF OpenBody, HeaderOf
<1>h. h.parent = CurrentBody(st)
  BY DEF HeaderOf
<1> HIDE DEF h
<1>5. /\ tree' \in Seq(Header) /\ Len(tree') = Len(tree) + 1 /\ tree'[Len(tree) + 1] = h
      /\ \A i \in 1..Len(tree) : tree'[i] = tree[i]
  BY <1>1, <1>3, <1>4, AppendFacts
<1>6. text' \in Seq(Seq(Stmt)) /\ Len(text') = Len(tree')
  <2>1. <<>> \in Seq(Stmt)
    BY EmptySeq
  <2>2. text' \in Seq(Seq(Stmt)) /\ Len(text') = Len(read) + 1
    BY <1>4, <2>1, AppendFacts
  <2> QED
    BY <1>1, <1>5, <2>2
<1>7. defers' \in Seq(Seq(Nat)) /\ Len(defers') = Len(tree')
  <2>1. <<>> \in Seq(Nat)
    BY EmptySeq
  <2>2. defers' \in Seq(Seq(Nat)) /\ Len(defers') = Len(defers) + 1
    BY <1>1, <1>4, <2>1, AppendFacts
  <2> QED
    BY <1>1, <1>5, <2>2
<1>8. Fresh = Len(tree) + 1 /\ Fresh \in Nat \ {0}
  BY <1>1 DEF Fresh
<1>9. /\ ss' \in Stack /\ ss'.loops = st.loops
      /\ Len(ss'.scopes) = Len(st.scopes) + 1
      /\ \A k \in 1..Len(st.scopes) : ss'.scopes[k] = st.scopes[k]
      /\ ss'.scopes[Len(st.scopes) + 1].body = Fresh
  BY <1>4, <1>8, PushScopeFacts
<1>10. ASSUME NEW st0 \in Stack, NEW cs \in Seq(Nat),
              Len(st.scopes) = Len(st0.scopes),
              \A k \in 1..Len(st.scopes) : st.scopes[k].body = st0.scopes[k].body
       PROVE  Enters(st0, cs, tree, ss', Append(cs, Fresh), tree', h)
  <2>1. \A k \in 1..Len(st0.scopes) : ss'.scopes[k].body = st0.scopes[k].body
    BY <1>9, <1>10
  <2>2. h.parent = st0.scopes[Len(st0.scopes)].body
    BY <1>2, <1>h, <1>10
  <2>3. /\ Len(Append(cs, Fresh)) = Len(cs) + 1
        /\ Append(cs, Fresh)[Len(cs) + 1] = Len(tree) + 1
        /\ \A i \in 1..Len(cs) : Append(cs, Fresh)[i] = cs[i]
    <3>1. Fresh \in Nat
      BY <1>8
    <3> QED
      BY <1>8, <3>1, AppendFacts
  <2> QED
    BY <1>5, <1>8, <1>9, <1>10, <2>1, <2>2, <2>3 DEF Enters
<1> QED
  BY <1>1, <1>3, <1>4, <1>5, <1>6, <1>7, <1>9, <1>10 DEF h

\* A body that opens within the function, with or without a loop pushed.
LEMMA EnterStep ==
    ASSUME IInv, Reading, NEW read \in Seq(Seq(Stmt)), Len(read) = Len(text), NEW st \in Stack,
           Len(st.scopes) = Len(ss.scopes),
           \A k \in 1..Len(ss.scopes) : st.scopes[k].body = ss.scopes[k].body,
           NEW owner \in Owners \ {"func", "anon"},
           OpenBody(read, st, owner, <<>>),
           failed' \in BOOLEAN, failed => failed',
           \/ st.loops = ss.loops /\ (failed' \/ owner # "while")
           \/ \E l \in Loop : /\ owner = "while" /\ l.body = Fresh
                              /\ st.loops = Append(ss.loops, l),
           calls' = Append(calls, Fresh),
           UNCHANGED <<saved, walk, crashed>>
    PROVE  IInv'
<1> DEFINE h == HeaderOf(st, owner, <<>>)
<1>1. calls # <<>> /\ walk = Idle /\ ~crashed
  BY DEF Reading
<1>2. /\ StackOK(ss, calls, tree, failed) /\ CallsOK(calls, tree, RootOf(Len(saved)))
      /\ ss \in Stack /\ calls \in Seq(Nat) /\ tree \in Seq(Header) /\ failed \in BOOLEAN
      /\ ss.scopes # <<>> /\ Fresh \in Nat /\ Fresh = Len(tree) + 1
  BY <1>1, AtBody DEF IInv, TypeOK, Fresh
<1>3. st.scopes # <<>> /\ <<>> \in Seq(DeclNames)
  BY <1>2, EmptySeq, LastScope
<1>4. /\ h \in Header /\ tree' = Append(tree, h) /\ tree' \in Seq(Header)
      /\ text' \in Seq(Seq(Stmt)) /\ Len(text') = Len(tree')
      /\ defers' \in Seq(Seq(Nat)) /\ Len(defers') = Len(tree')
      /\ ss' \in Stack /\ ss'.loops = st.loops
      /\ Enters(ss, calls, tree, ss', calls', tree', h)
  <2>1. owner \in Owners
    OBVIOUS
  <2>2. \A st0 \in Stack, cs \in Seq(Nat) :
                 /\ Len(st.scopes) = Len(st0.scopes)
                 /\ \A k \in 1..Len(st.scopes) : st.scopes[k].body = st0.scopes[k].body
                 => Enters(st0, cs, tree, ss', Append(cs, Fresh), tree', h)
    BY <1>3, <2>1, OpenBodyFacts
  <2>3. Enters(ss, calls, tree, ss', calls', tree', h)
    BY <1>2, <2>2
  <2> QED
    BY <1>3, <2>1, <2>3, OpenBodyFacts
<1>5. h.owner = owner
  BY DEF HeaderOf
<1> HIDE DEF h
<1>6. calls' \in Seq(Nat) /\ calls' # <<>>
  BY <1>2, AppendFacts
<1>7. TypeOK'
  BY <1>1, <1>4, <1>6 DEF IInv, TypeOK
<1>8. CallsInv'
  <2>1. CallsOK(calls', tree', RootOf(Len(saved)))
    BY <1>2, <1>4, <1>5, CallsEnter
  <2>2. \A i \in 1..Len(saved) : CallsOK(saved[i].calls, tree', RootOf(i - 1))
    BY <1>4, SavedKept
  <2> QED
    BY <1>4, <1>6, <2>1, <2>2 DEF CallsInv
<1>9. LoopsEnclose'
  <2>1. StackOK(ss', calls', tree', failed')
    <3>1. CASE st.loops = ss.loops /\ (failed' \/ owner # "while")
      <4>1. ASSUME NEW e \in BOOLEAN, NEW e2 \in BOOLEAN, e => e2,
                   StackOK(ss, calls, tree, e), e2 \/ owner # "while"
            PROVE  StackOK(ss', calls', tree', e2)
        <5>1. /\ Enters(ss, calls, tree, ss', calls', tree', h)
              /\ ss'.loops = ss.loops /\ (e2 \/ h.owner # "while")
          BY <1>4, <1>5, <3>1, <4>1
        <5>2. /\ ss \in Stack /\ calls \in Seq(Nat) /\ tree \in Seq(Header) /\ h \in Header
              /\ ss' \in Stack /\ calls' \in Seq(Nat) /\ tree' \in Seq(Header)
          BY <1>2, <1>4, <1>6
        <5> QED
          BY ONLY <4>1, <5>1, <5>2, e \in BOOLEAN, e2 \in BOOLEAN, StackEnters
      <4> QED
        BY <1>2, <3>1, <4>1
    <3>2. CASE \E l \in Loop : /\ owner = "while" /\ l.body = Fresh
                              /\ st.loops = Append(ss.loops, l)
      <4>1. ASSUME NEW e \in BOOLEAN, NEW e2 \in BOOLEAN, e => e2,
                   StackOK(ss, calls, tree, e)
            PROVE  StackOK(ss', calls', tree', e2)
        <5>1. PushesLoop(ss, ss', tree)
          BY <1>2, <1>4, <3>2 DEF PushesLoop
        <5>2. Enters(ss, calls, tree, ss', calls', tree', h) /\ h.owner = "while"
          BY <1>4, <1>5, <3>2
        <5>3. /\ ss \in Stack /\ calls \in Seq(Nat) /\ tree \in Seq(Header) /\ h \in Header
              /\ ss' \in Stack /\ calls' \in Seq(Nat) /\ tree' \in Seq(Header)
          BY <1>2, <1>4, <1>6
        <5> QED
          BY ONLY <4>1, <5>1, <5>2, <5>3, e \in BOOLEAN, e2 \in BOOLEAN, StackEntersLoop
      <4> QED
        BY <1>2, <3>2, <4>1
    <3> QED
      BY <3>1, <3>2
  <2>2. \A i \in 1..Len(saved) : StackOK(saved[i].ss, saved[i].calls, tree', failed')
    BY <1>4, SavedKept
  <2> QED
    BY <2>1, <2>2 DEF LoopsEnclose
<1>10. WalkInv' /\ CrashOnlyAfterError'
  BY <1>1 DEF WalkInv, Idle, CrashOnlyAfterError
<1> QED
  BY <1>7, <1>8, <1>9, <1>10 DEF IInv

\* Binding an unwrapped name changes no body and no loop of the stack.
LEMMA BoundFacts ==
    ASSUME IInv, calls # <<>>, NEW x \in DeclNames \cup {NoName}
    PROVE  /\ Bind(x) \in Decl
           /\ Bound(x) \in Stack /\ Len(Bound(x).scopes) = Len(ss.scopes)
           /\ \A k \in 1..Len(ss.scopes) : Bound(x).scopes[k].body = ss.scopes[k].body
           /\ Bound(x).loops = ss.loops
<1>1. ss \in Stack /\ ss.scopes # <<>> /\ Function \in Nat
  BY AtBody
<1>2. CASE x = NoName
  <2>1. NoDecl \in Decl
    BY DEF NoDecl, Decl, NoBody, Holds
  <2> QED
    BY <1>1, <1>2, <2>1 DEF Bind, Bound
<1>3. CASE x # NoName
  <2>1. x \in DeclNames /\ "final" \in Holds
    BY <1>3 DEF Holds
  <2>2. Bind(x) \in Decl
    BY <1>1, <1>3, <2>1, NewDeclType DEF Bind
  <2>3. Bound(x) = PushDecl(ss, Bind(x))
    BY <1>3 DEF Bound
  <2> QED
    BY <1>1, <2>2, <2>3, PushDeclFacts
<1> QED
  BY <1>2, <1>3

LEMMA BeginIfStep ==
    ASSUME IInv, NEW x \in Binds, NEW ok \in BOOLEAN, BeginIf(x, ok)
    PROVE  IInv'
<1> DEFINE s == [kind |-> "if", closed |-> FALSE,
                 branches |-> <<[body |-> Fresh, binds |-> Bind(x)]>>]
<1>1. Reading /\ calls # <<>>
  BY DEF BeginIf, Reads, Reading
<1>2. /\ Bind(x) \in Decl /\ Bound(x) \in Stack /\ Len(Bound(x).scopes) = Len(ss.scopes)
      /\ \A k \in 1..Len(ss.scopes) : Bound(x).scopes[k].body = ss.scopes[k].body
      /\ Bound(x).loops = ss.loops
  BY <1>1, BoundFacts DEF Binds
<1>3. s \in Stmt
  BY <1>1, <1>2, AtBody, IfTypes
<1> HIDE DEF s
<1>4. Read(s) \in Seq(Seq(Stmt)) /\ Len(Read(s)) = Len(text)
  BY <1>1, <1>3, ReadType
<1>5. /\ OpenBody(Read(s), Bound(x), "if", <<>>)
      /\ failed' = (failed \/ ~ok) /\ calls' = Append(calls, Fresh)
      /\ UNCHANGED <<saved, walk, crashed>>
  BY DEF BeginIf, s
<1>6. failed' \in BOOLEAN /\ (failed => failed')
  BY <1>5 DEF IInv, TypeOK
<1>7. "if" \in Owners \ {"func", "anon"}
  BY DEF Owners
<1> QED
  BY <1>1, <1>2, <1>4, <1>5, <1>6, <1>7, EnterStep

LEMMA ElseIfStep ==
    ASSUME IInv, NEW x \in Binds, NEW ok \in BOOLEAN, ElseIf(x, ok)
    PROVE  IInv'
<1>1. Reading /\ calls # <<>> /\ IsLastIf
  BY DEF ElseIf, Reading
<1>2. /\ Bind(x) \in Decl /\ Bound(x) \in Stack /\ Len(Bound(x).scopes) = Len(ss.scopes)
      /\ \A k \in 1..Len(ss.scopes) : Bound(x).scopes[k].body = ss.scopes[k].body
      /\ Bound(x).loops = ss.loops
  BY <1>1, BoundFacts DEF Binds
<1> DEFINE read == ReadBranch(Fresh, Bind(x), FALSE)
<1>3. read \in Seq(Seq(Stmt)) /\ Len(read) = Len(text)
  BY <1>1, <1>2, AtBody, ReadBranchType
<1>4. /\ OpenBody(read, Bound(x), "if", <<>>)
      /\ failed' = (failed \/ ~ok) /\ calls' = Append(calls, Fresh)
      /\ UNCHANGED <<saved, walk, crashed>>
  BY DEF ElseIf
<1> HIDE DEF read
<1>5. failed' \in BOOLEAN /\ (failed => failed')
  BY <1>4 DEF IInv, TypeOK
<1>6. "if" \in Owners \ {"func", "anon"}
  BY DEF Owners
<1> QED
  BY <1>1, <1>2, <1>3, <1>4, <1>5, <1>6, EnterStep

LEMMA UntypedIfStep ==
    ASSUME IInv, NEW x \in Binds, UntypedIf(x) \/ UntypedElseIf(x)
    PROVE  IInv'
<1> DEFINE s == [kind |-> "if", closed |-> FALSE,
                 branches |-> <<[body |-> NoBody, binds |-> Bind(x)]>>]
<1>1. Reading /\ calls # <<>> /\ SkipBranch(x)
  BY DEF UntypedIf, UntypedElseIf, Reads, Reading
<1>2. /\ Bind(x) \in Decl /\ Bound(x) \in Stack /\ Len(Bound(x).scopes) = Len(ss.scopes)
      /\ \A k \in 1..Len(ss.scopes) : Bound(x).scopes[k].body = ss.scopes[k].body
      /\ Bound(x).loops = ss.loops
  BY <1>1, BoundFacts DEF Binds
<1>3. NoBody \in Nat
  BY DEF NoBody
<1>4. text' \in Seq(Seq(Stmt)) /\ Len(text') = Len(text)
  <2>1. CASE UntypedIf(x)
    <3>1. s \in Stmt /\ text' = Read(s)
      BY <1>2, <1>3, <2>1, IfTypes DEF UntypedIf
    <3> HIDE DEF s
    <3> QED
      BY <1>1, <3>1, ReadType
  <2>2. CASE UntypedElseIf(x)
    <3>1. IsLastIf /\ text' = ReadBranch(NoBody, Bind(x), FALSE)
      BY <2>2 DEF UntypedElseIf
    <3> QED
      BY <1>1, <1>2, <1>3, <3>1, ReadBranchType
  <2> QED
    BY <2>1, <2>2
<1>5. /\ ss' = Bound(x) /\ failed' = TRUE
      /\ UNCHANGED <<tree, defers, calls, saved, walk, crashed>>
  BY <1>1 DEF SkipBranch
<1> QED
  BY <1>1, <1>2, <1>4, <1>5, SameStep

LEMMA ElseStep ==
    ASSUME IInv, Else
    PROVE  IInv'
<1>1. Reading /\ calls # <<>> /\ IsLastIf
  BY DEF Else, Reading
<1>2. NoDecl \in Decl
  BY DEF NoDecl, Decl, NoBody, Holds
<1> DEFINE read == ReadBranch(Fresh, NoDecl, TRUE)
<1>3. read \in Seq(Seq(Stmt)) /\ Len(read) = Len(text)
  BY <1>1, <1>2, AtBody, ReadBranchType
<1>4. /\ OpenBody(read, ss, "if", <<>>) /\ calls' = Append(calls, Fresh)
      /\ UNCHANGED <<saved, walk, failed, crashed>>
  BY DEF Else
<1> HIDE DEF read
<1>5. failed' \in BOOLEAN /\ ss \in Stack
  BY <1>4 DEF IInv, TypeOK
<1>6. "if" \in Owners \ {"func", "anon"}
  BY DEF Owners
<1> QED
  BY <1>1, <1>3, <1>4, <1>5, <1>6, EnterStep

LEMMA BeginDeferStep ==
    ASSUME IInv, BeginDefer
    PROVE  IInv'
<1> DEFINE s == [kind |-> "defer", body |-> Fresh]
<1>1. Reading /\ calls # <<>>
  BY DEF BeginDefer, Reads, Reading
<1>2. s \in Stmt
  BY <1>1, AtBody, StmtTypes
<1> HIDE DEF s
<1>3. Read(s) \in Seq(Seq(Stmt)) /\ Len(Read(s)) = Len(text)
  BY <1>1, <1>2, ReadType
<1>4. /\ OpenBody(Read(s), ss, "defer", <<>>) /\ calls' = Append(calls, Fresh)
      /\ UNCHANGED <<saved, walk, failed, crashed>>
  BY DEF BeginDefer, s
<1>5. failed' \in BOOLEAN /\ ss \in Stack
  BY <1>4 DEF IInv, TypeOK
<1>6. "defer" \in Owners \ {"func", "anon"}
  BY DEF Owners
<1> QED
  BY <1>1, <1>3, <1>4, <1>5, <1>6, EnterStep

LEMMA BeginWhileStep ==
    ASSUME IInv, NEW n \in Labels, NEW x \in Binds, NEW ok \in BOOLEAN, BeginWhile(n, x, ok)
    PROVE  IInv'
<1> DEFINE loop == [name |-> n, body |-> Fresh]
           s == [kind |-> "while", loop |-> loop, binds |-> Bind(x)]
           b == Bound(x)
           st == IF Redefines(b, n) THEN b ELSE [b EXCEPT !.loops = Append(@, loop)]
<1>1. Reading /\ calls # <<>>
  BY DEF BeginWhile, Reads, Reading
<1>2. /\ Bind(x) \in Decl /\ b \in Stack /\ Len(b.scopes) = Len(ss.scopes)
      /\ \A k \in 1..Len(ss.scopes) : b.scopes[k].body = ss.scopes[k].body
      /\ b.loops = ss.loops
  BY <1>1, BoundFacts DEF Binds
<1>3. loop \in Loop /\ loop.body = Fresh
  BY <1>1, AtBody DEF Loop, Labels
<1>4. /\ OpenBody(Read(s), st, "while", <<>>)
      /\ failed' = (failed \/ ~ok \/ Redefines(b, n)) /\ calls' = Append(calls, Fresh)
      /\ UNCHANGED <<saved, walk, crashed>>
  BY DEF BeginWhile
<1> HIDE DEF loop, b
<1>5. s \in Stmt
  BY <1>2, <1>3, StmtTypes
<1> HIDE DEF s
<1>6. Read(s) \in Seq(Seq(Stmt)) /\ Len(Read(s)) = Len(text)
  BY <1>1, <1>5, ReadType
<1>7. failed' \in BOOLEAN /\ (failed => failed')
  BY <1>4 DEF IInv, TypeOK, Redefines
<1>8. "while" \in Owners \ {"func", "anon"}
  BY DEF Owners
<1>9. CASE Redefines(b, n)
  <2>1. st = b /\ failed'
    BY <1>4, <1>9
  <2> HIDE DEF st
  <2> QED
    BY <1>1, <1>2, <1>4, <1>6, <1>7, <1>8, <2>1, EnterStep
<1>10. CASE ~Redefines(b, n)
  <2> DEFINE loops == Append(b.loops, loop)
  <2>1. loops \in Seq(Loop)
    BY <1>2, <1>3, AppendFacts DEF Stack
  <2>2. st = [b EXCEPT !.loops = loops]
    BY <1>10
  <2> HIDE DEF st, loops
  <2>3. st \in Stack /\ st.scopes = b.scopes /\ st.loops = loops
    BY <1>2, <2>1, <2>2 DEF Stack
  <2>4. st.loops = Append(ss.loops, loop)
    BY <1>2, <2>3 DEF loops
  <2> QED
    BY <1>1, <1>2, <1>3, <1>4, <1>6, <1>7, <1>8, <2>3, <2>4, EnterStep
<1> QED
  BY <1>9, <1>10

(***************************************************************************)
(* Bodies that close                                                       *)
(***************************************************************************)
\* The scope stack and the calls agree after the innermost body is popped.
LEMMA PoppedFacts ==
    ASSUME IInv, calls # <<>>
    PROVE  /\ PopScope(ss) \in Stack /\ Front(calls) \in Seq(Nat)
           /\ PopScope(ss).loops = ss.loops
           /\ \A st2 \in Stack : st2.scopes = PopScope(ss).scopes => Leaves(ss, calls, st2, Front(calls))
<1>1. ss \in Stack /\ ss.scopes # <<>> /\ calls \in Seq(Nat)
  BY AtBody
<1>2. /\ Front(calls) \in Seq(Nat) /\ Len(Front(calls)) = Len(calls) - 1
      /\ \A i \in 1..Len(calls) - 1 : Front(calls)[i] = calls[i]
  BY <1>1, FrontFacts
<1>3. /\ PopScope(ss) \in Stack
      /\ Len(PopScope(ss).scopes) = Len(ss.scopes) - 1
      /\ \A k \in 1..Len(ss.scopes) - 1 : PopScope(ss).scopes[k].body = ss.scopes[k].body
      /\ PopScope(ss).loops = ss.loops
  BY <1>1, PopScopeFacts
<1> QED
  BY <1>2, <1>3 DEF Leaves

LEMMA LeaveStep ==
    ASSUME IInv, Reading, tree[Cur].owner \notin {"func", "anon"},
           ss' \in Stack, ss'.scopes = PopScope(ss).scopes,
           \/ ss'.loops = ss.loops /\ tree[Cur].owner # "while"
           \/ ss'.loops = Front(ss.loops) /\ ss.loops # <<>> /\ tree[Cur].owner = "while",
           defers' \in Seq(Seq(Nat)), Len(defers') = Len(defers),
           calls' = Front(calls),
           UNCHANGED <<tree, text, saved, walk, failed, crashed>>
    PROVE  IInv'
<1>1. calls # <<>> /\ walk = Idle /\ ~crashed
  BY DEF Reading
<1>2. /\ StackOK(ss, calls, tree, failed) /\ CallsOK(calls, tree, RootOf(Len(saved)))
      /\ ss \in Stack /\ calls \in Seq(Nat) /\ tree \in Seq(Header) /\ failed \in BOOLEAN
      /\ Cur = calls[Len(calls)]
  BY <1>1, AtBody DEF IInv, TypeOK
<1>3. calls' \in Seq(Nat) /\ Leaves(ss, calls, ss', calls')
  BY <1>1, PoppedFacts
<1>4. TypeOK'
  BY <1>3 DEF IInv, TypeOK
<1>5. CallsInv'
  <2>1. RootOf(Len(saved)) \in {"func", "anon"}
    BY DEF RootOf
  <2>2. CallsOK(calls', tree, RootOf(Len(saved)))
    BY <1>2, <2>1, CallsLeave
  <2>3. calls' # <<>>
    BY <2>2 DEF CallsOK
  <2>4. /\ Len(text) = Len(tree) /\ Len(defers) = Len(tree)
        /\ \A i \in 1..Len(saved) : CallsOK(saved[i].calls, tree, RootOf(i - 1))
    BY DEF IInv, CallsInv
  <2> QED
    BY <2>2, <2>3, <2>4 DEF CallsInv
<1>6. LoopsEnclose'
  <2>1. StackOK(ss', calls', tree, failed)
    <3>1. CASE ss'.loops = ss.loops /\ tree[Cur].owner # "while"
      <4>1. ASSUME NEW e \in BOOLEAN, StackOK(ss, calls, tree, e) PROVE StackOK(ss', calls', tree, e)
        BY <1>1, <1>2, <1>3, <3>1, <4>1, StackLeaves
      <4> QED
        BY <1>2, <4>1
    <3>2. CASE ss'.loops = Front(ss.loops) /\ ss.loops # <<>> /\ tree[Cur].owner = "while"
      <4>0. \A i, j \in 1..Len(calls) : i < j => calls[i] < calls[j]
        BY <1>2 DEF CallsOK
      <4>1. ASSUME NEW e \in BOOLEAN, StackOK(ss, calls, tree, e) PROVE StackOK(ss', calls', tree, e)
        BY <1>1, <1>2, <1>3, <3>2, <4>0, <4>1, StackLeavesLoop
      <4> QED
        BY <1>2, <4>1
    <3> QED
      BY <3>1, <3>2
  <2> QED
    BY <2>1 DEF IInv, LoopsEnclose
<1>7. WalkInv' /\ CrashOnlyAfterError'
  BY <1>1 DEF WalkInv, Idle, CrashOnlyAfterError
<1> QED
  BY <1>4, <1>5, <1>6, <1>7 DEF IInv

LEMMA EndIfStep ==
    ASSUME IInv, EndIf
    PROVE  IInv'
<1>1. Reading /\ calls # <<>> /\ tree[Cur].owner = "if"
  BY DEF EndIf, Reading
<1>2. ss' = PopScope(ss) /\ ss' \in Stack /\ ss'.loops = ss.loops
  BY <1>1, PoppedFacts DEF EndIf
<1>3. defers' \in Seq(Seq(Nat)) /\ Len(defers') = Len(defers)
  BY DEF EndIf, IInv, TypeOK
<1> QED
  BY <1>1, <1>2, <1>3, LeaveStep DEF EndIf

\* Only a loop that was refused can leave no loop to pop.
LEMMA EndWhileStep ==
    ASSUME IInv, EndWhile
    PROVE  IInv'
<1>1. Reading /\ calls # <<>> /\ tree[Cur].owner = "while"
  BY DEF EndWhile, Reading
<1>2. CASE ss.loops = <<>>
  <2>1. failed
    <3>1. SUFFICES ASSUME ~failed PROVE FALSE
      OBVIOUS
    <3>2. StackOK(ss, calls, tree, FALSE) /\ ss \in Stack /\ calls \in Seq(Nat) /\ tree \in Seq(Header)
      BY <1>1, <3>1, AtBody DEF StackOK
    <3>3. tree[calls[Len(calls)]].owner = "while"
      BY <1>1, AtBody
    <3> QED
      BY <1>1, <1>2, <3>2, <3>3, LoopToPop
  <2>2. crashed' = TRUE /\ UNCHANGED <<tree, text, defers, ss, calls, saved, walk, failed>>
    BY <1>2 DEF EndWhile, Abort
  <2>3. TypeOK'
    BY <2>2 DEF IInv, TypeOK
  <2>4. CallsInv' /\ LoopsEnclose' /\ WalkInv'
    <3>1. CallsInv'
      BY <2>2 DEF IInv, CallsInv
    <3>2. LoopsEnclose'
      BY <2>2 DEF IInv, LoopsEnclose
    <3>3. WalkInv'
      BY <1>1, <2>2 DEF Reading, WalkInv
    <3> QED
      BY <3>1, <3>2, <3>3
  <2> QED
    BY <2>1, <2>2, <2>3, <2>4 DEF IInv, CrashOnlyAfterError
<1>3. CASE ss.loops # <<>>
  <2>1. /\ ss' = [PopScope(ss) EXCEPT !.loops = Front(@)] /\ calls' = Front(calls)
        /\ UNCHANGED <<tree, text, defers, saved, walk, failed, crashed>>
    BY <1>3 DEF EndWhile
  <2>2. PopScope(ss) \in Stack /\ PopScope(ss).loops = ss.loops /\ ss.loops \in Seq(Loop)
    BY <1>1, PoppedFacts, AtBody DEF Stack
  <2> DEFINE loops == Front(ss.loops)
  <2>3. loops \in Seq(Loop)
    BY <1>3, <2>2, FrontFacts
  <2>4. ss' = [PopScope(ss) EXCEPT !.loops = loops]
    BY <2>1, <2>2
  <2> HIDE DEF loops
  <2>5. ss' \in Stack /\ ss'.scopes = PopScope(ss).scopes /\ ss'.loops = loops
    BY <2>2, <2>3, <2>4 DEF Stack
  <2>6. ss'.loops = Front(ss.loops)
    BY <2>5 DEF loops
  <2>7. defers' \in Seq(Seq(Nat)) /\ Len(defers') = Len(defers)
    BY <2>1 DEF IInv, TypeOK
  <2> QED
    BY <1>1, <1>3, <2>1, <2>5, <2>6, <2>7, LeaveStep
<1> QED
  BY <1>2, <1>3

\* A defer always stands in a body: sema_module_push_defer never aborts.
LEMMA EndDeferStep ==
    ASSUME IInv, EndDefer
    PROVE  IInv'
<1>1. Reading /\ calls # <<>> /\ tree[Cur].owner = "defer"
  BY DEF EndDefer, Reading
<1> DEFINE st == PopScope(ss)
           n == Len(calls)
<1>2. /\ st \in Stack /\ st.loops = ss.loops
      /\ Leaves(ss, calls, st, Front(calls)) /\ Front(calls) \in Seq(Nat)
  BY <1>1, PoppedFacts
<1>3. /\ n \in Nat \ {0} /\ calls \in Seq(Nat) /\ Cur = calls[n] /\ Cur \in Nat
      /\ CallsOK(calls, tree, RootOf(Len(saved))) /\ ss \in Stack /\ tree \in Seq(Header)
      /\ Mirrors(ss, calls, tree)
  BY <1>1, AtBody DEF StackOK
<1>4. CurrentBody(st) \in 1..Len(tree)
  <2>1. RootOf(Len(saved)) \in {"func", "anon"} /\ tree[calls[n]].owner \notin {"func", "anon"}
    BY <1>1, <1>3 DEF RootOf
  <2>2. Front(calls) # <<>>
    BY <1>3, <2>1, CallsLeave DEF CallsOK
  <2>3. Mirrors(st, Front(calls), tree)
    BY <1>1, <1>2, <1>3, LeavesMirrors
  <2>4. Len(Front(calls)) \in Nat \ {0}
    BY <1>2, <2>2, EmptySeq
  <2> DEFINE m == Len(Front(calls))
  <2>5. m \in 1..m
    BY <2>4
  <2>6. Len(st.scopes) = m + 1
    BY <2>3 DEF Mirrors
  <2>7. st.scopes # <<>>
    BY <2>4, <2>6
  <2> HIDE DEF st, m
  <2>8. CurrentBody(st) = st.scopes[m + 1].body
    BY <1>2, <2>6, <2>7, LastScope
  <2> QED
    BY <2>3, <2>5, <2>8 DEF Mirrors, m
<1>5. CurrentBody(st) # NoBody
  BY <1>4 DEF NoBody
<1>6. /\ defers' = [defers EXCEPT ![CurrentBody(st)] = Append(@, Cur)]
      /\ ss' = st /\ calls' = Front(calls)
      /\ UNCHANGED <<tree, text, saved, walk, failed, crashed>>
  BY <1>5 DEF EndDefer
<1> HIDE DEF st
<1>7. defers' \in Seq(Seq(Nat)) /\ Len(defers') = Len(defers)
  <2> DEFINE b == CurrentBody(st)
             ds == Append(defers[b], Cur)
  <2>1. defers \in Seq(Seq(Nat)) /\ b \in 1..Len(defers)
    BY <1>4 DEF IInv, TypeOK, CallsInv
  <2>2. defers[b] \in Seq(Nat)
    BY <2>1, ElementOfSeq
  <2>3. ds \in Seq(Nat)
    BY <1>3, <2>2, AppendFacts
  <2>4. defers' = [defers EXCEPT ![b] = ds]
    BY <1>6
  <2> HIDE DEF b, ds
  <2> QED
    BY <2>1, <2>3, <2>4, ExceptSeq
<1>8. ss' \in Stack /\ ss'.scopes = PopScope(ss).scopes /\ ss'.loops = ss.loops
  BY <1>2, <1>6 DEF st
<1> QED
  BY <1>1, <1>6, <1>7, <1>8, LeaveStep

(***************************************************************************)
(* Functions                                                               *)
(***************************************************************************)
\* The body of a function opens on a scope stack of its own.
LEMMA FunctionOpens ==
    ASSUME IInv, NEW read \in Seq(Seq(Stmt)), Len(read) = Len(text),
           NEW r \in Returns, NEW args \in Seq(DeclNames), NEW owner \in {"func", "anon"},
           OpenBody(read, ArgStack(r, args), owner, args), calls' = <<Fresh>>,
           failed' = failed
    PROVE  /\ HeaderOf(ArgStack(r, args), owner, args) \in Header
           /\ tree' = Append(tree, HeaderOf(ArgStack(r, args), owner, args))
           /\ tree' \in Seq(Header)
           /\ text' \in Seq(Seq(Stmt)) /\ Len(text') = Len(tree')
           /\ defers' \in Seq(Seq(Nat)) /\ Len(defers') = Len(tree')
           /\ ss' \in Stack /\ calls' \in Seq(Nat) /\ calls' # <<>>
           /\ CallsOK(calls', tree', owner)
           /\ StackOK(ss', calls', tree', failed')
<1> DEFINE st == ArgStack(r, args)
           h == HeaderOf(st, owner, args)
<1>1. /\ tree \in Seq(Header) /\ Fresh = Len(tree) + 1 /\ Fresh \in Nat /\ failed \in BOOLEAN
      /\ <<>> \in Seq(Nat)
  BY LenProperties, EmptySeq DEF IInv, TypeOK, Fresh
<1>2. /\ st \in Stack /\ Len(st.scopes) = 1 /\ st.scopes[1].body = NoBody /\ st.loops = <<>>
  BY <1>1, ArgStackFacts
<1>3. st.scopes # <<>> /\ owner \in Owners
  BY <1>2 DEF Owners
<1> HIDE DEF st
<1>4. OpenBody(read, st, owner, args)
  BY DEF st
<1>5. /\ h \in Header /\ tree' = Append(tree, h) /\ tree' \in Seq(Header)
      /\ text' \in Seq(Seq(Stmt)) /\ Len(text') = Len(tree')
      /\ defers' \in Seq(Seq(Nat)) /\ Len(defers') = Len(tree')
      /\ ss' \in Stack /\ ss'.loops = st.loops
      /\ Enters(st, <<>>, tree, ss', Append(<<>>, Fresh), tree', h)
  BY <1>1, <1>2, <1>3, <1>4, OpenBodyFacts
<1>6. h.owner = owner
  BY DEF HeaderOf
<1> HIDE DEF h
<1>7. Append(<<>>, Fresh) = <<Fresh>> /\ calls' \in Seq(Nat) /\ calls' # <<>>
  BY <1>1
<1>8. CallsOK(calls', tree', owner)
  BY <1>1, <1>5, <1>6, CallsStart
<1>9. StackOK(ss', calls', tree', failed')
  <2>1. ASSUME NEW e \in BOOLEAN PROVE StackOK(ss', calls', tree', e)
    <3>1. StackOK(st, <<>>, tree, e)
      BY <1>1, <1>2, StackStarts
    <3>2. Enters(st, <<>>, tree, ss', calls', tree', h)
      BY <1>5, <1>7
    <3>3. ss'.loops = st.loops /\ h.owner # "while"
      BY <1>5, <1>6
    <3> DEFINE none == <<>>
    <3>4. /\ ss' \in Stack /\ tree' \in Seq(Header) /\ h \in Header /\ none \in Seq(Nat)
          /\ StackOK(st, none, tree, e) /\ Enters(st, none, tree, ss', calls', tree', h)
      BY <1>1, <1>5, <3>1, <3>2
    <3>5. st \in Stack /\ tree \in Seq(Header) /\ calls' \in Seq(Nat)
      BY <1>1, <1>2, <1>7
    <3> HIDE DEF none
    <3> QED
      BY ONLY <3>3, <3>4, <3>5, e \in BOOLEAN, StackEnters
  <2> QED
    BY <1>1, <2>1
<1> QED
  BY <1>5, <1>7, <1>8, <1>9 DEF h, st

LEMMA ArgListType ==
    ArgLists \subseteq Seq(DeclNames)
<1>1. <<>> \in Seq(DeclNames)
  BY EmptySeq
<1>2. \A n \in DeclNames : <<n>> \in Seq(DeclNames)
  OBVIOUS
<1> QED
  BY <1>1, <1>2 DEF ArgLists

LEMMA BeginFuncStep ==
    ASSUME IInv, NEW r \in FuncReturns, NEW args \in ArgLists, BeginFunc(r, args)
    PROVE  IInv'
<1>1. /\ r \in Returns /\ args \in Seq(DeclNames) /\ text \in Seq(Seq(Stmt))
      /\ "func" \in {"func", "anon"}
  BY ArgListType, BoundsAssumption DEF Returns, IInv, TypeOK
<1>2. /\ calls = <<>> /\ ~crashed /\ saved = <<>> /\ calls' = <<Fresh>>
      /\ OpenBody(text, ArgStack(r, args), "func", args)
      /\ UNCHANGED <<saved, walk, failed, crashed>>
  BY DEF BeginFunc, IInv, CallsInv
<1>3. walk = Idle
  BY <1>2 DEF IInv, WalkInv
<1>4. /\ tree' \in Seq(Header)
      /\ text' \in Seq(Seq(Stmt)) /\ Len(text') = Len(tree')
      /\ defers' \in Seq(Seq(Nat)) /\ Len(defers') = Len(tree')
      /\ ss' \in Stack /\ calls' \in Seq(Nat) /\ calls' # <<>>
      /\ CallsOK(calls', tree', "func")
      /\ StackOK(ss', calls', tree', failed')
  BY <1>1, <1>2, FunctionOpens
<1>5. TypeOK'
  BY <1>2, <1>4 DEF IInv, TypeOK
<1>6. Len(saved') = 0
  BY <1>2
<1>7. CallsInv'
  BY <1>4, <1>6 DEF CallsInv, RootOf
<1>8. LoopsEnclose'
  BY <1>4, <1>6 DEF LoopsEnclose
<1>9. WalkInv' /\ CrashOnlyAfterError'
  BY <1>2, <1>3 DEF WalkInv, CrashOnlyAfterError
<1> QED
  BY <1>5, <1>7, <1>8, <1>9 DEF IInv

\* The outermost function is not anonymous, the ones in it are.
LEMMA OnlyFunction ==
    ASSUME IInv, Reading, tree[Cur].owner \in {"func", "anon"}
    PROVE  tree[Cur].owner = "func" <=> saved = <<>>
<1>1. /\ CallsOK(calls, tree, RootOf(Len(saved))) /\ Cur = calls[Len(calls)]
      /\ Len(calls) \in Nat \ {0}
  BY AtBody DEF Reading
<1>2. Len(calls) \notin 2..Len(calls)
  BY <1>1 DEF CallsOK
<1>3. \A n \in Nat \ {0} : n \notin 2..n => n = 1
  OBVIOUS
<1>4. Len(calls) = 1
  BY <1>1, <1>2, <1>3
<1>5. tree[Cur].owner = RootOf(Len(saved))
  BY <1>1, <1>4 DEF CallsOK
<1>6. Len(saved) = 0 <=> saved = <<>>
  BY EmptySeq DEF IInv, TypeOK
<1> QED
  BY <1>5, <1>6 DEF RootOf

LEMMA EndFuncStep ==
    ASSUME IInv, EndFunc
    PROVE  IInv'
<1>1. /\ Reading /\ calls # <<>> /\ tree[Cur].owner = "func" /\ walk = Idle /\ ~crashed
      /\ ss' = NoStack /\ calls' = <<>>
      /\ UNCHANGED <<tree, text, defers, saved, walk, failed, crashed>>
  BY DEF EndFunc, Reading
<1>2. saved = <<>>
  BY <1>1, OnlyFunction
<1>3. NoStack \in Stack /\ calls' \in Seq(Nat)
  BY <1>1, EmptySeq DEF NoStack, Stack
<1>4. TypeOK'
  BY <1>1, <1>3 DEF IInv, TypeOK
<1>5. Len(saved') = 0
  BY <1>1, <1>2
<1>6. CallsInv' /\ LoopsEnclose'
  BY <1>1, <1>2, <1>5 DEF IInv, CallsInv, LoopsEnclose
<1>7. WalkInv' /\ CrashOnlyAfterError'
  BY <1>1 DEF WalkInv, CrashOnlyAfterError
<1> QED
  BY <1>4, <1>6, <1>7 DEF IInv

LEMMA BeginAnonStep ==
    ASSUME IInv, NEW r \in FuncReturns, NEW args \in ArgLists, BeginAnon(r, args)
    PROVE  IInv'
<1> DEFINE s == [kind |-> "anon", body |-> Fresh]
           frame == [ss |-> ss, calls |-> calls]
           F == [ss : Stack, calls : Seq(Nat)]
<1>1. Reading /\ calls # <<>> /\ walk = Idle /\ ~crashed
  BY DEF BeginAnon, Reads, Reading
<1>2. /\ r \in Returns /\ args \in Seq(DeclNames) /\ "anon" \in {"func", "anon"}
  BY ArgListType, BoundsAssumption DEF Returns
<1>3. s \in Stmt
  BY <1>1, AtBody, StmtTypes
<1>4. /\ calls' = <<Fresh>> /\ saved' = Append(saved, frame)
      /\ OpenBody(Read(s), ArgStack(r, args), "anon", args)
      /\ UNCHANGED <<walk, failed, crashed>>
  BY DEF BeginAnon
<1> HIDE DEF s
<1>5. Read(s) \in Seq(Seq(Stmt)) /\ Len(Read(s)) = Len(text)
  BY <1>1, <1>3, ReadType
<1> DEFINE h == HeaderOf(ArgStack(r, args), "anon", args)
<1>6. /\ h \in Header /\ tree' = Append(tree, h) /\ tree' \in Seq(Header)
      /\ text' \in Seq(Seq(Stmt)) /\ Len(text') = Len(tree')
      /\ defers' \in Seq(Seq(Nat)) /\ Len(defers') = Len(tree')
      /\ ss' \in Stack /\ calls' \in Seq(Nat) /\ calls' # <<>>
      /\ CallsOK(calls', tree', "anon")
      /\ StackOK(ss', calls', tree', failed')
  BY <1>2, <1>4, <1>5, FunctionOpens
<1> HIDE DEF h
<1>7. /\ StackOK(ss, calls, tree, failed) /\ CallsOK(calls, tree, RootOf(Len(saved)))
      /\ ss \in Stack /\ calls \in Seq(Nat) /\ tree \in Seq(Header) /\ failed \in BOOLEAN
  BY <1>1, AtBody DEF IInv, TypeOK
<1>8. frame \in F /\ frame.ss = ss /\ frame.calls = calls
  BY <1>7
<1> HIDE DEF frame
<1>9. /\ saved \in Seq(F) /\ saved' \in Seq(F) /\ Len(saved') = Len(saved) + 1
      /\ saved'[Len(saved) + 1] = frame /\ Len(saved) \in Nat
      /\ \A i \in 1..Len(saved) : saved'[i] = saved[i]
  <2>1. saved \in Seq(F)
    BY DEF IInv, TypeOK
  <2> HIDE DEF F
  <2> QED
    BY <1>4, <1>8, <2>1, AppendFacts, LenProperties
<1>10. ASSUME NEW i \in 1..Len(saved')
       PROVE  /\ StackOK(saved'[i].ss, saved'[i].calls, tree', failed')
              /\ CallsOK(saved'[i].calls, tree', RootOf(i - 1))
  <2>1. CASE i \in 1..Len(saved)
    <3>1. /\ StackOK(saved[i].ss, saved[i].calls, tree', failed)
          /\ CallsOK(saved[i].calls, tree', RootOf(i - 1))
      BY <1>6, <1>7, <2>1, SavedKept
    <3> QED
      BY <1>4, <1>9, <2>1, <3>1
  <2>2. CASE i = Len(saved) + 1
    <3>1. ASSUME NEW e \in BOOLEAN, StackOK(ss, calls, tree, e) PROVE StackOK(ss, calls, tree', e)
      BY <1>6, <1>7, <3>1, StackGrows
    <3>2. StackOK(ss, calls, tree', failed)
      BY <1>7, <3>1
    <3>3. CallsOK(calls, tree', RootOf(Len(saved)))
      BY <1>6, <1>7, CallsGrow
    <3>4. i - 1 = Len(saved)
      BY ONLY <1>9, <2>2
    <3> QED
      BY <1>4, <1>8, <1>9, <2>2, <3>2, <3>3, <3>4
  <2> QED
    BY ONLY <2>1, <2>2, <1>9, i \in 1..Len(saved')
<1>11. TypeOK'
  BY <1>4, <1>6, <1>9 DEF IInv, TypeOK
<1>12. CallsInv'
  <2>1. RootOf(Len(saved')) = "anon"
    BY <1>9 DEF RootOf
  <2> QED
    BY <1>6, <1>10, <2>1 DEF CallsInv
<1>13. LoopsEnclose'
  BY <1>6, <1>10 DEF LoopsEnclose
<1>14. WalkInv' /\ CrashOnlyAfterError'
  BY <1>1, <1>4 DEF WalkInv, CrashOnlyAfterError
<1> QED
  BY <1>11, <1>12, <1>13, <1>14 DEF IInv

LEMMA EndAnonStep ==
    ASSUME IInv, EndAnon
    PROVE  IInv'
<1> DEFINE F == [ss : Stack, calls : Seq(Nat)]
           m == Len(saved)
<1>1. /\ Reading /\ calls # <<>> /\ tree[Cur].owner = "anon" /\ walk = Idle /\ ~crashed
      /\ ss' = Last(saved).ss /\ calls' = Last(saved).calls /\ saved' = Front(saved)
      /\ UNCHANGED <<tree, text, defers, walk, failed, crashed>>
  BY DEF EndAnon, Reading
<1>2. saved # <<>>
  BY <1>1, OnlyFunction
<1>3. /\ saved' \in Seq(F) /\ Len(saved') = m - 1 /\ Last(saved) = saved[m] /\ m \in Nat \ {0}
      /\ \A i \in 1..m - 1 : saved'[i] = saved[i]
  <2>1. saved \in Seq(F)
    BY DEF IInv, TypeOK
  <2> HIDE DEF F
  <2> QED
    BY <1>1, <1>2, <2>1, FrontFacts
<1>4. m \in 1..m /\ \A i \in 1..m - 1 : i \in 1..m
  BY ONLY <1>3
<1>5. /\ StackOK(ss', calls', tree, failed) /\ CallsOK(calls', tree, RootOf(m - 1))
      /\ ss' \in Stack /\ calls' \in Seq(Nat)
  <2>1. saved[m] \in F
    <3>1. saved \in Seq(F)
      BY DEF IInv, TypeOK
    <3> HIDE DEF F, m
    <3> QED
      BY <1>4, <3>1, ElementOfSeq DEF m
  <2>2. /\ StackOK(saved[m].ss, saved[m].calls, tree, failed)
        /\ CallsOK(saved[m].calls, tree, RootOf(m - 1))
    BY <1>4 DEF IInv, LoopsEnclose, CallsInv
  <2> QED
    BY <1>1, <1>3, <2>1, <2>2
<1>6. TypeOK'
  BY <1>1, <1>3, <1>5 DEF IInv, TypeOK
<1>7. CallsInv'
  <2>1. \A i \in 1..Len(saved') : CallsOK(saved'[i].calls, tree, RootOf(i - 1))
    BY <1>3, <1>4 DEF IInv, CallsInv
  <2>2. calls' # <<>> /\ Len(text) = Len(tree) /\ Len(defers) = Len(tree)
    BY <1>5 DEF IInv, CallsInv, CallsOK
  <2> QED
    BY <1>1, <1>3, <1>5, <2>1, <2>2 DEF CallsInv
<1>8. LoopsEnclose'
  <2>1. \A i \in 1..Len(saved') : StackOK(saved'[i].ss, saved'[i].calls, tree, failed)
    BY <1>3, <1>4 DEF IInv, LoopsEnclose
  <2> QED
    BY <1>1, <1>5, <2>1 DEF LoopsEnclose
<1>9. WalkInv' /\ CrashOnlyAfterError'
  BY <1>1 DEF WalkInv, CrashOnlyAfterError
<1> QED
  BY <1>6, <1>7, <1>8, <1>9 DEF IInv

(***************************************************************************)
(* Exits: the walk of defers_up_to                                         *)
(***************************************************************************)
LEMMA ReverseFacts ==
    ASSUME NEW S, NEW d \in Seq(S)
    PROVE  Reverse(d) \in Seq(S) /\ ToSet(Reverse(d)) = ToSet(d)
<1> DEFINE n == Len(d)
           r == [i \in 1..n |-> d[(n - i) + 1]]
<1>1. n \in Nat /\ DOMAIN d = 1..n /\ \A i \in 1..n : d[i] \in S
  BY LenProperties, ElementOfSeq
<1>2. Reverse(d) = r
  BY DEF Reverse
<1> HIDE DEF n
<1>3. \A i \in 1..n : (n - i) + 1 \in 1..n /\ (n - ((n - i) + 1)) + 1 = i
  BY ONLY <1>1
<1>4. r \in [1..n -> S]
  BY <1>1, <1>3
<1>5. r \in Seq(S) /\ DOMAIN r = 1..n
  BY <1>1, <1>4, SeqDef
<1>6. ToSet(r) = ToSet(d)
  <2>1. ToSet(r) = {r[i] : i \in 1..n} /\ ToSet(d) = {d[i] : i \in 1..n}
    BY <1>1, <1>5 DEF ToSet
  <2>2. \A i \in 1..n : r[i] = d[(n - i) + 1]
    OBVIOUS
  <2> HIDE DEF r
  <2>3. \A i \in 1..n : \E j \in 1..n : d[i] = r[j]
    <3> TAKE i \in 1..n
    <3>1. (n - i) + 1 \in 1..n /\ r[(n - i) + 1] = d[(n - ((n - i) + 1)) + 1]
      BY <1>3, <2>2
    <3> QED
      BY <1>3, <3>1
  <2>4. \A i \in 1..n : \E j \in 1..n : r[i] = d[j]
    BY <1>3, <2>2
  <2>5. ToSet(r) \subseteq ToSet(d)
    BY <2>1, <2>4
  <2>6. ToSet(d) \subseteq ToSet(r)
    BY <2>1, <2>3
  <2> QED
    BY <2>5, <2>6
<1> HIDE DEF r
<1> QED
  BY <1>2, <1>5, <1>6

LEMMA ConcatFacts ==
    ASSUME NEW S, NEW c \in Seq(S), NEW d \in Seq(S)
    PROVE  c \o d \in Seq(S) /\ ToSet(c \o d) = ToSet(c) \cup ToSet(d)
<1> DEFINE m == Len(c)
           n == Len(d)
           e == c \o d
<1>1. /\ m \in Nat /\ n \in Nat /\ DOMAIN c = 1..m /\ DOMAIN d = 1..n
      /\ e \in Seq(S) /\ Len(e) = m + n
      /\ \A i \in 1..m + n : e[i] = IF i <= m THEN c[i] ELSE d[i - m]
  BY LenProperties, ConcatProperties
<1> HIDE DEF m, n, e
<1>2. DOMAIN e = 1..m + n
  BY <1>1, LenProperties
<1>3. ToSet(e) = {e[i] : i \in 1..m + n} /\ ToSet(c) = {c[i] : i \in 1..m} /\ ToSet(d) = {d[i] : i \in 1..n}
  BY <1>1, <1>2 DEF ToSet
<1>4. \A i \in 1..m : i \in 1..m + n /\ e[i] = c[i]
  BY <1>1
<1>5. \A i \in 1..n : i + m \in 1..m + n /\ e[i + m] = d[i]
  <2> TAKE i \in 1..n
  <2>1. i + m \in 1..m + n /\ ~(i + m <= m) /\ (i + m) - m = i
    BY ONLY <1>1, i \in 1..n
  <2> QED
    BY <1>1, <2>1
<1>6. \A i \in 1..m + n : (i \in 1..m /\ e[i] = c[i]) \/ (i - m \in 1..n /\ e[i] = d[i - m])
  <2> TAKE i \in 1..m + n
  <2>1. CASE i <= m
    BY <1>1, <2>1
  <2>2. CASE ~(i <= m)
    <3>1. i - m \in 1..n
      BY ONLY <1>1, <2>2, i \in 1..m + n
    <3> QED
      BY <1>1, <2>2, <3>1
  <2> QED
    BY <2>1, <2>2
<1>7. ToSet(e) \subseteq ToSet(c) \cup ToSet(d)
  BY <1>3, <1>6
<1>8. ToSet(c) \cup ToSet(d) \subseteq ToSet(e)
  BY <1>3, <1>4, <1>5
<1> QED
  BY <1>1, <1>7, <1>8 DEF e

LEMMA StartWalkStep ==
    ASSUME IInv, Reading, NEW kind \in Exits, NEW loop \in Loop,
           kind # "return" => \E k \in 1..Len(calls) : calls[k] = loop.body,
           StartWalk(kind, loop)
    PROVE  IInv'
<1>1. /\ calls # <<>> /\ CurrentBody(ss) = Cur /\ Cur = calls[Len(calls)] /\ Cur \in 1..Len(tree)
      /\ Len(calls) \in 1..Len(calls) /\ Len(calls) \in Nat \ {0}
      /\ CallsOK(calls, tree, RootOf(Len(saved))) /\ ~crashed
  BY AtBody DEF Reading
<1>2. CurrentBody(ss) # NoBody
  BY <1>1 DEF NoBody
<1>3. /\ walk' = [kind |-> kind, loop |-> loop, at |-> Cur, result |-> <<>>]
      /\ UNCHANGED <<tree, text, defers, ss, calls, saved, failed, crashed>>
  BY <1>1, <1>2 DEF StartWalk
<1>4. TypeOK'
  <2>1. Cur \in Nat /\ <<>> \in Seq(Nat)
    BY <1>1, EmptySeq
  <2>2. walk' \in Walk
    BY <1>3, <2>1 DEF Walk
  <2> QED
    BY <1>3, <2>2 DEF IInv, TypeOK
<1>5. CallsInv' /\ LoopsEnclose'
  <2>1. CallsInv'
    BY <1>3 DEF IInv, CallsInv
  <2>2. LoopsEnclose'
    BY <1>3 DEF IInv, LoopsEnclose
  <2> QED
    BY <2>1, <2>2
<1>6. WalkInv'
  <2> DEFINE n == Len(calls)
  <2>1. n \in LeftBy(loop)
    <3>1. \A j \in 1..n : j <= n
      BY <1>1
    <3> QED
      BY <1>1, <3>1 DEF LeftBy
  <2>2. DefersFrom(n + 1) = {} /\ ToSet(<<>>) = {}
    <3>1. n + 1..n = {}
      BY <1>1
    <3> QED
      BY <3>1 DEF DefersFrom, ToSet
  <2>3. walk'.at # NoBody /\ walk'.at = calls[n] /\ walk'.loop = loop /\ walk'.result = <<>> /\ walk'.kind = kind
    BY <1>1, <1>2, <1>3
  <2> HIDE DEF n
  <2>4. \E p \in LeftBy(loop) : walk'.at = calls[p] /\ ToSet(walk'.result) = DefersFrom(p + 1)
    BY <2>1, <2>2, <2>3
  <2>5. \E p \in LeftBy(walk'.loop) : walk'.at = calls[p] /\ ToSet(walk'.result) = DefersFrom(p + 1)
    BY <2>3, <2>4
  <2> QED
    BY <1>1, <1>3, <2>3, <2>5 DEF WalkInv, LeftBy, DefersFrom
<1>7. CrashOnlyAfterError'
  BY <1>1, <1>3 DEF CrashOnlyAfterError
<1> QED
  BY <1>4, <1>5, <1>6, <1>7 DEF IInv

\* An exit can only name a loop that an open body of the function belongs to.
LEMMA LoopControlStep ==
    ASSUME IInv, NEW kind \in {"break", "continue"}, NEW n \in Labels, LoopControl(kind, n)
    PROVE  IInv'
<1> DEFINE at == LoopFor(ss, n)
<1>1. Reading /\ calls # <<>>
  BY DEF LoopControl, Reads, Reading
<1>2. CASE at = 0
  BY <1>1, <1>2, RejectStep DEF LoopControl
<1>3. CASE at # 0
  <2>1. StartWalk(kind, ss.loops[at])
    BY <1>3 DEF LoopControl
  <2>2. ss \in Stack /\ ss.loops \in Seq(Loop) /\ Len(ss.loops) \in Nat
    BY LenProperties DEF IInv, TypeOK, Stack
  <2>3. at \in 0..Len(ss.loops)
    BY <2>2, LoopForInRange
  <2> HIDE DEF at
  <2>4. at \in 1..Len(ss.loops)
    BY ONLY <1>3, <2>2, <2>3
  <2>5. ss.loops[at] \in Loop
    BY <2>2, <2>4, ElementOfSeq
  <2>6. \E k \in 1..Len(calls) : calls[k] = ss.loops[at].body
    <3>1. LoopsNested(ss, calls, tree)
      BY <1>1, AtBody DEF StackOK
    <3> QED
      BY <2>4, <3>1 DEF LoopsNested
  <2>7. kind \in Exits
    BY DEF Exits
  <2> QED
    BY <1>1, <2>1, <2>5, <2>6, <2>7, StartWalkStep
<1> QED
  BY <1>2, <1>3

LEMMA ReturnStep ==
    ASSUME IInv, NEW v \in BOOLEAN, Return(v)
    PROVE  IInv'
<1>1. Reading
  BY DEF Return, Reads
<1>2. CASE Reject
  BY <1>1, <1>2, RejectStep
<1>3. CASE StartWalk("return", NoLoopAt)
  <2>1. NoLoopAt \in Loop /\ "return" \in Exits
    BY DEF NoLoopAt, Loop, Exits, NoBody
  <2> QED
    BY <1>1, <1>3, <2>1, StartWalkStep
<1> QED
  BY <1>2, <1>3 DEF Return

\* One more body: its defers join the result, and the walk goes to the body
\* around it, unless this one is the loop's or the function's.
LEMMA WalkOutStep ==
    ASSUME IInv, WalkOut
    PROVE  IInv'
<1> DEFINE n == Len(calls)
           L == LeftBy(walk.loop)
           next == IF walk.at = walk.loop.body THEN NoBody ELSE tree[walk.at].parent
           gained == walk.result \o Reverse(defers[walk.at])
<1>1. /\ walk.at # NoBody /\ ~crashed /\ walk' = [walk EXCEPT !.result = gained, !.at = next]
      /\ UNCHANGED <<tree, text, defers, ss, calls, saved, failed, crashed>>
  BY DEF WalkOut, WithDefers, NextOut
<1>2. walk # Idle
  BY <1>1 DEF Idle
<1>3. /\ calls # <<>> /\ walk.kind \in Exits
      /\ (walk.kind # "return" => \E k \in 1..n : calls[k] = walk.loop.body)
      /\ \E p \in L : walk.at = calls[p] /\ ToSet(walk.result) = DefersFrom(p + 1)
  BY <1>1, <1>2 DEF IInv, WalkInv
<1>4. PICK p \in L : walk.at = calls[p] /\ ToSet(walk.result) = DefersFrom(p + 1)
  BY <1>3
<1>5. p \in 1..n /\ \A j \in 1..n : calls[j] = walk.loop.body => j <= p
  BY <1>4 DEF LeftBy
<1>6. /\ CallsOK(calls, tree, RootOf(Len(saved))) /\ Mirrors(ss, calls, tree)
      /\ n \in Nat \ {0} /\ calls \in Seq(Nat) /\ tree \in Seq(Header)
  BY <1>3, AtBody DEF StackOK
<1>7. /\ walk.at \in 1..Len(tree) /\ defers \in Seq(Seq(Nat)) /\ Len(defers) = Len(tree)
      /\ walk \in Walk
  BY <1>4, <1>5, <1>6 DEF CallsOK, IInv, TypeOK, CallsInv
<1>8. defers[walk.at] \in Seq(Nat) /\ walk.result \in Seq(Nat)
  BY <1>7, ElementOfSeq DEF Walk
<1>9. gained \in Seq(Nat) /\ ToSet(gained) = ToSet(walk.result) \cup ToSet(defers[walk.at])
  BY <1>8, ReverseFacts, ConcatFacts
<1>10. ToSet(gained) = DefersFrom(p)
  <2>1. p..n = {p} \cup (p + 1..n)
    BY <1>5
  <2>2. UNION {ToSet(defers[calls[k]]) : k \in {p} \cup (p + 1..n)}
          = ToSet(defers[calls[p]]) \cup UNION {ToSet(defers[calls[k]]) : k \in p + 1..n}
    OBVIOUS
  <2>3. DefersFrom(p) = ToSet(defers[calls[p]]) \cup DefersFrom(p + 1)
    BY <2>1, <2>2 DEF DefersFrom
  <2> HIDE DEF gained
  <2> QED
    BY <1>4, <1>9, <2>3
<1>11. /\ next = NoBody \/ next \in 1..Len(tree)
       /\ next # NoBody => p > 1 /\ next = calls[p - 1] /\ walk.at # walk.loop.body
       /\ next = NoBody => p = 1 \/ calls[p] = walk.loop.body
  <2>1. tree[calls[p]].parent = ss.scopes[p].body
    BY <1>5, <1>6 DEF Mirrors
  <2>2. CASE p = 1
    <3>1. tree[calls[p]].parent = NoBody
      BY <1>6, <2>1, <2>2 DEF Mirrors
    <3> QED
      BY <1>4, <2>2, <3>1
  <2>3. CASE p # 1
    <3>1. p - 1 \in 1..n /\ p > 1 /\ (p - 1) + 1 = p
      BY ONLY <1>5, <1>6, <2>3
    <3>2. ss.scopes[p].body = calls[p - 1] /\ calls[p - 1] \in 1..Len(tree)
      BY <1>6, <3>1 DEF Mirrors
    <3>3. calls[p - 1] # NoBody
      BY <3>2 DEF NoBody
    <3> QED
      BY <1>4, <2>1, <3>1, <3>2, <3>3
  <2> QED
    BY <2>2, <2>3
<1>i. \A i, j \in 1..n : calls[i] = calls[j] => i = j
  <2> SUFFICES ASSUME NEW i \in 1..n, NEW j \in 1..n, i # j PROVE calls[i] # calls[j]
    OBVIOUS
  <2>1. calls[i] \in Nat /\ calls[j] \in Nat
    BY <1>6, ElementOfSeq
  <2>2. i < j \/ j < i
    BY <1>6
  <2>3. calls[i] < calls[j] \/ calls[j] < calls[i]
    BY <1>6, <2>2 DEF CallsOK
  <2> QED
    BY <2>1, <2>3
<1> HIDE DEF n, L, next, gained
<1>12. /\ walk' \in Walk /\ walk'.kind = walk.kind /\ walk'.loop = walk.loop
       /\ walk'.result = gained /\ walk'.at = next
  <2>1. next \in Nat
    BY <1>11 DEF NoBody
  <2> QED
    BY <1>1, <1>7, <1>9, <2>1 DEF Walk
<1>13. TypeOK'
  BY <1>1, <1>12 DEF IInv, TypeOK
<1>14. CallsInv' /\ LoopsEnclose'
  <2>1. CallsInv'
    BY <1>1 DEF IInv, CallsInv
  <2>2. LoopsEnclose'
    BY <1>1 DEF IInv, LoopsEnclose
  <2> QED
    BY <2>1, <2>2
<1>15. CASE next # NoBody
  <2>1. p > 1 /\ next = calls[p - 1] /\ walk.at # walk.loop.body
    BY <1>11, <1>15
  <2>2. p - 1 \in L
    <3>1. ASSUME NEW j \in 1..n, calls[j] = walk.loop.body PROVE j <= p - 1
      <4>1. j <= p /\ j # p
        BY <1>4, <1>5, <2>1, <3>1
      <4> QED
        BY ONLY <4>1, <1>5, <1>6, j \in 1..n
    <3>2. p - 1 \in 1..n
      BY ONLY <1>5, <1>6, <2>1
    <3> QED
      BY <3>1, <3>2 DEF LeftBy, L, n
  <2>3. (p - 1) + 1 = p
    BY ONLY <1>5, <1>6
  <2>4. \E q \in LeftBy(walk'.loop) : walk'.at = calls[q] /\ ToSet(walk'.result) = DefersFrom(q + 1)
    BY <1>10, <1>12, <2>1, <2>2, <2>3 DEF L
  <2>5. WalkInv'
    BY <1>1, <1>3, <1>12, <1>15, <2>4 DEF WalkInv, LeftBy, DefersFrom, n
  <2> QED
    BY <1>1, <1>13, <1>14, <2>5 DEF IInv, CrashOnlyAfterError
<1>16. CASE next = NoBody
  <2>1. L = p..n
    <3>1. ASSUME NEW k \in 1..n, k >= p
          PROVE  k \in L
      <4>1. ASSUME NEW j \in 1..n, calls[j] = walk.loop.body PROVE j <= k
        <5>1. j <= p
          BY <1>5, <4>1
        <5> QED
          BY ONLY <5>1, <3>1, <1>5, <1>6, j \in 1..n, k \in 1..n
      <4> QED
        BY <4>1 DEF L, LeftBy, n
    <3>2. ASSUME NEW k \in L
          PROVE  k \in 1..n /\ k >= p
      <4>1. k \in 1..n /\ \A j \in 1..n : calls[j] = walk.loop.body => j <= k
        BY DEF L, LeftBy, n
      <4>2. CASE p = 1
        BY ONLY <4>1, <4>2, <1>6
      <4>3. CASE calls[p] = walk.loop.body
        <5>1. p <= k
          BY <4>1, <4>3, <1>5
        <5> QED
          BY ONLY <4>1, <5>1, <1>5, <1>6
      <4> QED
        BY <1>11, <1>16, <4>2, <4>3
    <3>3. \A k : k \in p..n <=> k \in 1..n /\ k >= p
      BY ONLY <1>5, <1>6
    <3> QED
      BY <3>1, <3>2, <3>3
  <2>2. ToSet(walk'.result) = UNION {ToSet(defers[calls[k]]) : k \in LeftBy(walk'.loop)}
    BY <1>10, <1>12, <2>1 DEF DefersFrom, L, n
  <2>3. WalkInv'
    BY <1>1, <1>3, <1>12, <1>16, <2>2 DEF WalkInv, LeftBy, DefersFrom, n
  <2> QED
    BY <1>1, <1>13, <1>14, <2>3 DEF IInv, CrashOnlyAfterError
<1> QED
  BY <1>15, <1>16

LEMMA EndWalkStep ==
    ASSUME IInv, EndWalk
    PROVE  IInv'
<1> DEFINE s == [kind |-> walk.kind, loop |-> walk.loop, defers |-> walk.result]
<1>1. /\ walk # Idle /\ ~crashed /\ text' = Read(s) /\ walk' = Idle
      /\ UNCHANGED <<tree, defers, ss, calls, saved, failed, crashed>>
  BY DEF EndWalk
<1>2. calls # <<>> /\ s \in Stmt
  <2>1. walk \in Walk /\ walk.kind \in Exits /\ calls # <<>>
    BY <1>1 DEF IInv, TypeOK, WalkInv
  <2>2. walk.loop \in Loop /\ walk.result \in Seq(Nat)
    BY <2>1 DEF Walk
  <2> QED
    BY <2>1, <2>2, StmtTypes
<1> HIDE DEF s
<1>3. text' \in Seq(Seq(Stmt)) /\ Len(text') = Len(text)
  BY <1>1, <1>2, ReadType
<1>4. Idle \in Walk
  BY EmptySeq DEF Idle, Walk, NoLoopAt, Loop, NoBody
<1>5. TypeOK'
  BY <1>1, <1>3, <1>4 DEF IInv, TypeOK
<1>6. CallsInv'
  BY <1>1, <1>3 DEF IInv, CallsInv
<1>7. LoopsEnclose'
  BY <1>1 DEF IInv, LoopsEnclose
<1>8. WalkInv' /\ CrashOnlyAfterError'
  BY <1>1 DEF WalkInv, CrashOnlyAfterError
<1> QED
  BY <1>5, <1>6, <1>7, <1>8 DEF IInv

(***************************************************************************)
(* The theorems                                                            *)
(***************************************************************************)
LEMMA InitIInv == Init => IInv
<1> SUFFICES ASSUME Init PROVE IInv
  OBVIOUS
<1>1. <<>> \in Seq(Header) /\ <<>> \in Seq(Seq(Stmt)) /\ <<>> \in Seq(Seq(Nat)) /\ <<>> \in Seq(Nat)
      /\ <<>> \in Seq([ss : Stack, calls : Seq(Nat)]) /\ <<>> \in Seq(Scope) /\ <<>> \in Seq(Loop)
  BY EmptySeq
<1>2. NoStack \in Stack /\ Idle \in Walk
  BY <1>1 DEF NoStack, Stack, Idle, Walk, NoLoopAt, Loop, NoBody
<1>3. TypeOK
  BY <1>1, <1>2 DEF Init, TypeOK
<1>4. CallsInv /\ LoopsEnclose /\ WalkInv /\ CrashOnlyAfterError
  BY DEF Init, CallsInv, LoopsEnclose, WalkInv, CrashOnlyAfterError
<1> QED
  BY <1>3, <1>4 DEF IInv

LEMMA StutterIInv == IInv /\ UNCHANGED vars => IInv'
<1> SUFFICES ASSUME IInv, UNCHANGED vars PROVE IInv'
  OBVIOUS
<1>1. TypeOK'
  BY DEF vars, IInv, TypeOK
<1>2. CallsInv'
  BY DEF vars, IInv, CallsInv
<1>3. LoopsEnclose'
  BY DEF vars, IInv, LoopsEnclose
<1>4. WalkInv'
  BY DEF vars, IInv, WalkInv, LeftBy, DefersFrom
<1>5. CrashOnlyAfterError'
  BY DEF vars, IInv, CrashOnlyAfterError
<1> QED
  BY <1>1, <1>2, <1>3, <1>4, <1>5 DEF IInv

LEMMA FailureLasts ==
    ASSUME [Next]_vars, failed
    PROVE  failed'
BY DEF Next, vars, BeginFunc, EndFunc, BeginAnon, EndAnon, ValDecl, Use, TypeError, BeginWhile, EndWhile,
       BeginIf, ElseIf, UntypedIf, UntypedElseIf, SkipBranch, Else, EndIf, BeginDefer, EndDefer, LoopControl,
       Return, StartWalk, WalkOut, EndWalk, RetOnNull, Reject, Abort

LEMMA NextIInv == IInv /\ [Next]_vars => IInv'
<1> SUFFICES ASSUME IInv, [Next]_vars PROVE IInv'
  OBVIOUS
<1>1. ASSUME NEW r \in FuncReturns, NEW args \in ArgLists, BeginFunc(r, args) \/ BeginAnon(r, args)
      PROVE  IInv'
  BY <1>1, BeginFuncStep, BeginAnonStep
<1>2. CASE EndFunc
  BY <1>2, EndFuncStep
<1>3. CASE EndAnon
  BY <1>3, EndAnonStep
<1>4. ASSUME NEW n \in DeclNames, NEW h \in Holds, ValDecl(n, h)
      PROVE  IInv'
  BY <1>4, ValDeclStep
<1>5. ASSUME NEW n \in DeclNames \cup Globals, Use(n)
      PROVE  IInv'
  BY <1>5, UseStep
<1>6. CASE TypeError
  BY <1>6, RejectStep DEF TypeError, Reads
<1>7. ASSUME NEW n \in Labels, NEW x \in Binds, NEW ok \in CondTypes, BeginWhile(n, x, ok)
      PROVE  IInv'
  BY <1>7, BeginWhileStep DEF CondTypes
<1>8. CASE EndWhile
  BY <1>8, EndWhileStep
<1>9. ASSUME NEW x \in Binds, NEW ok \in CondTypes, BeginIf(x, ok) \/ ElseIf(x, ok)
      PROVE  IInv'
  BY <1>9, BeginIfStep, ElseIfStep DEF CondTypes
<1>9a. ASSUME NEW x \in Binds, UntypedIf(x) \/ UntypedElseIf(x)
       PROVE  IInv'
  BY <1>9a, UntypedIfStep
<1>10. CASE Else
  BY <1>10, ElseStep
<1>11. CASE EndIf
  BY <1>11, EndIfStep
<1>12. CASE BeginDefer
  BY <1>12, BeginDeferStep
<1>13. CASE EndDefer
  BY <1>13, EndDeferStep
<1>14. ASSUME NEW kind \in {"break", "continue"}, NEW n \in Labels, LoopControl(kind, n)
       PROVE  IInv'
  BY <1>14, LoopControlStep
<1>15. ASSUME NEW v \in BOOLEAN, Return(v)
       PROVE  IInv'
  BY <1>15, ReturnStep
<1>16. CASE WalkOut
  BY <1>16, WalkOutStep
<1>17. CASE EndWalk
  BY <1>17, EndWalkStep
<1>18. CASE RetOnNull
  BY <1>18, RetOnNullStep
<1>19. CASE UNCHANGED vars
  BY <1>19, StutterIInv
<1> QED
  BY <1>1, <1>2, <1>3, <1>4, <1>5, <1>6, <1>7, <1>8, <1>9, <1>9a, <1>10, <1>11, <1>12, <1>13,
     <1>14, <1>15, <1>16, <1>17, <1>18, <1>19 DEF Next

\* The inductive invariant holds: at every point of the analysis of any
\* program, scopes, loops, calls and a running walk agree.
THEOREM Invariance == Spec => []IInv
<1>1. Init => IInv
  BY InitIInv
<1>2. IInv /\ [Next]_vars => IInv'
  BY NextIInv
<1> QED
  BY <1>1, <1>2, PTL DEF Spec

\* Every annotation of the AST and every stack entry has its type.
THEOREM TypesAreKept == Spec => []TypeOK
<1>1. IInv => TypeOK
  BY DEF IInv
<1> QED
  BY <1>1, Invariance, PTL

\* The scopes pushed and popped by sema_ast_body and the loops pushed and
\* popped by sema_ast_stmt_while stay in step in every function, suspended
\* ones included, whatever the program.
THEOREM ScopesAndLoopsInStep == Spec => []LoopsEnclose
<1>1. IInv => LoopsEnclose
  BY DEF IInv
<1> QED
  BY <1>1, Invariance, PTL

\* The asserts of vec_pop, sema_module_push_defer and
\* sema_module_defers_up_to can fail only on a program already refused.
THEOREM AbortsOnlyRefused == Spec => []CrashOnlyAfterError
<1>1. IInv => CrashOnlyAfterError
  BY DEF IInv
<1> QED
  BY <1>1, Invariance, PTL

\* The statement EndWalk records.
LEMMA EndWalkReleases ==
    ASSUME IInv, Next, walk # Idle, walk' = Idle
    PROVE  LET s == Last(text'[Cur])
           IN  /\ ToSet(s.defers) = UNION {ToSet(defers[calls[k]]) : k \in LeftBy(s.loop)}
               /\ s.kind # "return" => \E k \in 1..Len(calls) : calls[k] = s.loop.body
<1>1. EndWalk
  <2>1. calls # <<>> /\ walk.kind \in Exits
    BY DEF IInv, WalkInv
  <2>2. ~Reading
    BY DEF Reading
  <2>3. ~WalkOut
    <3> SUFFICES ASSUME WalkOut PROVE FALSE
      OBVIOUS
    <3>1. walk \in Walk
      BY DEF IInv, TypeOK
    <3>2. walk'.kind = walk.kind
      BY <3>1 DEF WalkOut, Walk
    <3> QED
      BY <2>1, <3>2 DEF Idle, Exits
  <2>4. \A r \in FuncReturns, args \in ArgLists : ~BeginFunc(r, args) /\ ~BeginAnon(r, args)
    BY <2>1, <2>2 DEF BeginFunc, BeginAnon, Reads
  <2> QED
    BY <2>2, <2>3, <2>4 DEF Next, EndFunc, EndAnon, ValDecl, Use, TypeError, BeginWhile, EndWhile,
        BeginIf, ElseIf, UntypedIf, UntypedElseIf, Else, EndIf, BeginDefer, EndDefer, LoopControl, Return, RetOnNull, Reads
<1> DEFINE st == [kind |-> walk.kind, loop |-> walk.loop, defers |-> walk.result]
<1>2. text' = Read(st) /\ walk.at = NoBody
  BY <1>1 DEF EndWalk
<1>3. /\ calls # <<>>
      /\ walk.kind # "return" => \E k \in 1..Len(calls) : calls[k] = walk.loop.body
      /\ ToSet(walk.result) = UNION {ToSet(defers[calls[k]]) : k \in LeftBy(walk.loop)}
  BY <1>2 DEF IInv, WalkInv
<1>4. st \in Stmt
  <2>1. walk \in Walk /\ walk.kind \in Exits
    BY DEF IInv, TypeOK, WalkInv
  <2>2. walk.loop \in Loop /\ walk.result \in Seq(Nat)
    BY <2>1 DEF Walk
  <2> QED
    BY <2>1, <2>2, StmtTypes
<1>5. st.defers = walk.result /\ st.loop = walk.loop /\ st.kind = walk.kind
  OBVIOUS
<1> HIDE DEF st
<1>6. Last(text'[Cur]) = st
  BY <1>2, <1>3, <1>4, ReadType
<1> QED
  BY <1>3, <1>5, <1>6

\* sema_module_defers_up_to: the defers annotated on a break, continue or
\* return are those registered so far in exactly the bodies it leaves, and
\* its loop is one of the function it stands in.
THEOREM ExitsReleaseWhatTheyLeave == Spec => ExitReleasesLeft
<1>1. IInv /\ [Next]_vars =>
        [walk # Idle /\ walk' = Idle =>
            LET s == Last(text'[Cur])
            IN  /\ ToSet(s.defers) = UNION {ToSet(defers[calls[k]]) : k \in LeftBy(s.loop)}
                /\ s.kind # "return" => \E k \in 1..Len(calls) : calls[k] = s.loop.body]_vars
  BY EndWalkReleases
<1> QED
  BY <1>1, Invariance, PTL DEF Spec, ExitReleasesLeft

-----------------------------------------------------------------------------
(***************************************************************************)
(* Names: LexicalScoping.                                                  *)
(*                                                                         *)
(* sema_ss_resolve_decl searches a stack of scopes, LexicalDecl the text.  *)
(* NamesInv says that the two agree: the scope of each open body holds     *)
(* what its text declares so far (ScopesAsText), and an open body is held  *)
(* by the last statement of the one around it and by no other statement    *)
(* (HeldBelow, HeldOnce), so that Holder leads where the stack does. It    *)
(* says so of suspended functions too, whose text nothing touches until    *)
(* they go on (Waits).                                                     *)
(***************************************************************************)
Names == (DeclNames \cup Globals) \ {NoName}

\* The bodies that statements hold.
HeldIn(stmts) == (UNION {BodiesOf(stmts[i]) : i \in 1..Len(stmts)}) \ {NoBody}

\* The scopes of a function hold what the text of its open bodies declares,
\* its arguments first, and each open body stands in the last statement of
\* the one around it.
ScopesAsText(st, cs, tx, tr) ==
    /\ st.scopes[1].decls = ArgDecls(cs[1], tr)
    /\ \A k \in 1..Len(cs), n \in Names :
          FirstNamed(st.scopes[k + 1].decls, n) = FirstDecl(tx[cs[k]], n)
    /\ \A k \in 1..Len(cs) - 1 :
          tx[cs[k]] # <<>> /\ cs[k + 1] \in BodiesOf(Last(tx[cs[k]]))

\* A suspended function stands at an anonymous one, and all of it is older
\* than what it waits for.
Waits(cs, inner, tx) ==
    /\ tx[Last(cs)] # <<>> /\ Last(tx[Last(cs)]).kind = "anon"
    /\ \A k \in 1..Len(cs) : cs[k] < inner[1]

\* Statements hold bodies read later, and each body stands in one place.
HeldBelow(tx) == \A c \in 1..Len(tx) : HeldIn(tx[c]) \subseteq c + 1..Len(tx)
HeldOnce(tx) == \A c, d \in 1..Len(tx) : c # d => HeldIn(tx[c]) \cap HeldIn(tx[d]) = {}

NamesInv ==
    /\ HeldBelow(text) /\ HeldOnce(text)
    /\ calls # <<>> => ScopesAsText(ss, calls, text, tree)
    /\ \A i \in 1..Len(saved) :
          /\ ScopesAsText(saved[i].ss, saved[i].calls, text, tree)
          /\ Waits(saved[i].calls, calls, text)
          /\ \A j \in i + 1..Len(saved) : Waits(saved[i].calls, saved[j].calls, text)

(***************************************************************************)
(* The first declaration of a name                                         *)
(***************************************************************************)
LEMMA LeastIs ==
    ASSUME NEW T, T \subseteq Nat, NEW x \in T, \A y \in T : x <= y
    PROVE  Min(T) = x
<1>1. Min(T) \in T /\ \A y \in T : Min(T) <= y
  BY DEF Min
<1>2. Min(T) \in Nat /\ x \in Nat /\ Min(T) <= x /\ x <= Min(T)
  BY <1>1
<1> QED
  BY ONLY <1>2

\* Declaring d after the declarations in which a search for n has found `found`.
Then1(found, d, n) == IF found # NoDecl THEN found ELSE IF d.name = n THEN d ELSE NoDecl

\* FirstNamed is the declaration of that name that no other one precedes.
LEMMA FirstNamedIs ==
    ASSUME NEW ds \in Seq(Decl), NEW n, NEW i \in 1..Len(ds), ds[i].name = n,
           \A j \in 1..i - 1 : ds[j].name # n
    PROVE  FirstNamed(ds, n) = ds[i]
<1> DEFINE T == {k \in 1..Len(ds) : ds[k].name = n}
<1>1. Len(ds) \in Nat /\ T \subseteq Nat /\ i \in T
  BY LenProperties
<1>2. ASSUME NEW y \in T PROVE i <= y
  <2>1. y \in 1..Len(ds) /\ y \notin 1..i - 1 /\ y \in Nat /\ i \in Nat
    BY <1>1
  <2> QED
    BY ONLY <1>1, <2>1
<1>3. FirstNamed(ds, n) = ds[Min(T)]
  BY <1>1 DEF FirstNamed
<1> HIDE DEF T
<1>4. Min(T) = i
  BY <1>1, <1>2, LeastIs
<1> QED
  BY <1>3, <1>4

LEMMA FirstNamedNone ==
    ASSUME NEW ds, NEW n, \A i \in 1..Len(ds) : ds[i].name # n
    PROVE  FirstNamed(ds, n) = NoDecl
BY DEF FirstNamed

LEMMA FirstNamedFound ==
    ASSUME NEW ds \in Seq(Decl), NEW n, n # NoName
    PROVE  \/ FirstNamed(ds, n) = NoDecl /\ \A i \in 1..Len(ds) : ds[i].name # n
           \/ \E i \in 1..Len(ds) : /\ ds[i].name = n
                                    /\ FirstNamed(ds, n) = ds[i] /\ ds[i] # NoDecl
                                    /\ \A j \in 1..i - 1 : ds[j].name # n
<1> DEFINE T == {k \in 1..Len(ds) : ds[k].name = n}
<1>1. CASE T = {}
  BY <1>1, FirstNamedNone
<1>2. CASE T # {}
  <2>1. T \subseteq Nat /\ Len(ds) \in Nat
    BY LenProperties
  <2> HIDE DEF T
  <2>2. PICK i \in T : \A y \in T : i <= y
    BY <1>2, <2>1, LeastElement
  <2>3. i \in 1..Len(ds) /\ ds[i].name = n
    BY DEF T
  <2>4. ASSUME NEW j \in 1..i - 1 PROVE ds[j].name # n
    <3>1. j \in 1..Len(ds) /\ ~(i <= j)
      BY <2>1, <2>3
    <3> QED
      BY <2>2, <3>1 DEF T
  <2>5. ds[i] # NoDecl
    BY <2>3 DEF NoDecl
  <2> QED
    BY <2>3, <2>4, <2>5, FirstNamedIs
<1> QED
  BY <1>1, <1>2

LEMMA FirstNamedAppend ==
    ASSUME NEW ds \in Seq(Decl), NEW d \in Decl, NEW n, n # NoName
    PROVE  FirstNamed(Append(ds, d), n) = Then1(FirstNamed(ds, n), d, n)
<1> DEFINE es == Append(ds, d)
<1>1. /\ es \in Seq(Decl) /\ Len(es) = Len(ds) + 1 /\ es[Len(ds) + 1] = d /\ Len(ds) \in Nat
      /\ \A i \in 1..Len(ds) : es[i] = ds[i]
  BY AppendFacts, LenProperties
<1> HIDE DEF es
<1>2. CASE FirstNamed(ds, n) = NoDecl /\ \A i \in 1..Len(ds) : ds[i].name # n
  <2>1. CASE d.name = n
    <3>1. Len(ds) + 1 \in 1..Len(es) /\ Len(ds) + 1 - 1 = Len(ds)
      BY <1>1
    <3>2. \A j \in 1..Len(ds) : es[j].name # n
      BY <1>1, <1>2
    <3>3. FirstNamed(es, n) = es[Len(ds) + 1]
      BY <1>1, <2>1, <3>1, <3>2, FirstNamedIs
    <3> QED
      BY <1>1, <1>2, <2>1, <3>3 DEF Then1, es
  <2>2. CASE d.name # n
    <3>1. ASSUME NEW i \in 1..Len(es) PROVE es[i].name # n
      <4>1. i \in 1..Len(ds) \/ i = Len(ds) + 1
        BY <1>1
      <4> QED
        BY <1>1, <1>2, <2>2, <4>1
    <3>2. FirstNamed(es, n) = NoDecl
      BY <3>1, FirstNamedNone
    <3> QED
      BY <1>2, <2>2, <3>2 DEF Then1, es
  <2> QED
    BY <2>1, <2>2
<1>3. ASSUME NEW i \in 1..Len(ds), ds[i].name = n, FirstNamed(ds, n) = ds[i], ds[i] # NoDecl,
             \A j \in 1..i - 1 : ds[j].name # n
      PROVE  FirstNamed(Append(ds, d), n) = Then1(FirstNamed(ds, n), d, n)
  <2>1. i \in 1..Len(es) /\ \A j \in 1..i - 1 : j \in 1..Len(ds)
    BY <1>1
  <2>2. es[i].name = n /\ \A j \in 1..i - 1 : es[j].name # n
    BY <1>1, <1>3, <2>1
  <2>3. FirstNamed(es, n) = es[i]
    BY <1>1, <2>1, <2>2, FirstNamedIs
  <2> QED
    BY <1>1, <1>3, <2>3 DEF Then1, es
<1> QED
  BY <1>2, <1>3, FirstNamedFound

(***************************************************************************)
(* The first statement that declares a name                                *)
(***************************************************************************)
LEMMA FirstDeclIs ==
    ASSUME NEW stmts, Len(stmts) \in Nat, NEW n, NEW i \in 1..Len(stmts),
           FirstNamed(DeclsOf(stmts[i]), n) # NoDecl,
           \A j \in 1..i - 1 : FirstNamed(DeclsOf(stmts[j]), n) = NoDecl
    PROVE  FirstDecl(stmts, n) = FirstNamed(DeclsOf(stmts[i]), n)
<1> DEFINE T == {k \in 1..Len(stmts) : FirstNamed(DeclsOf(stmts[k]), n) # NoDecl}
<1>1. T \subseteq Nat /\ i \in T
  OBVIOUS
<1>2. ASSUME NEW y \in T PROVE i <= y
  <2>1. y \in 1..Len(stmts) /\ y \notin 1..i - 1 /\ y \in Nat /\ i \in Nat
    BY <1>1
  <2> QED
    BY ONLY <2>1
<1>3. FirstDecl(stmts, n) = FirstNamed(DeclsOf(stmts[Min(T)]), n)
  BY <1>1 DEF FirstDecl
<1> HIDE DEF T
<1>4. Min(T) = i
  BY <1>1, <1>2, LeastIs
<1> QED
  BY <1>3, <1>4

LEMMA FirstDeclNone ==
    ASSUME NEW stmts, NEW n, \A i \in 1..Len(stmts) : FirstNamed(DeclsOf(stmts[i]), n) = NoDecl
    PROVE  FirstDecl(stmts, n) = NoDecl
BY DEF FirstDecl

LEMMA FirstDeclFound ==
    ASSUME NEW stmts, Len(stmts) \in Nat, NEW n
    PROVE  \/ /\ FirstDecl(stmts, n) = NoDecl
              /\ \A i \in 1..Len(stmts) : FirstNamed(DeclsOf(stmts[i]), n) = NoDecl
           \/ \E i \in 1..Len(stmts) :
                 /\ FirstNamed(DeclsOf(stmts[i]), n) # NoDecl
                 /\ FirstDecl(stmts, n) = FirstNamed(DeclsOf(stmts[i]), n)
                 /\ \A j \in 1..i - 1 : FirstNamed(DeclsOf(stmts[j]), n) = NoDecl
<1> DEFINE T == {k \in 1..Len(stmts) : FirstNamed(DeclsOf(stmts[k]), n) # NoDecl}
<1>1. CASE T = {}
  BY <1>1, FirstDeclNone
<1>2. CASE T # {}
  <2>1. T \subseteq Nat
    OBVIOUS
  <2> HIDE DEF T
  <2>2. PICK i \in T : \A y \in T : i <= y
    BY <1>2, <2>1, LeastElement
  <2>3. i \in 1..Len(stmts) /\ FirstNamed(DeclsOf(stmts[i]), n) # NoDecl
    BY DEF T
  <2>4. ASSUME NEW j \in 1..i - 1 PROVE FirstNamed(DeclsOf(stmts[j]), n) = NoDecl
    <3>1. j \in 1..Len(stmts) /\ ~(i <= j)
      BY <2>1, <2>3
    <3> QED
      BY <2>2, <3>1 DEF T
  <2> QED
    BY <2>3, <2>4, FirstDeclIs
<1> QED
  BY <1>1, <1>2

LEMMA FirstDeclAppend ==
    ASSUME NEW stmts \in Seq(Stmt), NEW s \in Stmt, NEW n
    PROVE  FirstDecl(Append(stmts, s), n) =
             IF FirstDecl(stmts, n) # NoDecl THEN FirstDecl(stmts, n) ELSE FirstNamed(DeclsOf(s), n)
<1> DEFINE all == Append(stmts, s)
           first(x) == FirstNamed(DeclsOf(x), n)
           m == Len(stmts)
<1>1. /\ Len(all) = m + 1 /\ all[m + 1] = s /\ m \in Nat
      /\ \A i \in 1..m : all[i] = stmts[i]
  BY AppendFacts, LenProperties
<1> HIDE DEF all, m
<1>2. CASE FirstDecl(stmts, n) = NoDecl /\ \A i \in 1..m : first(stmts[i]) = NoDecl
  <2>0. \A i \in 1..m : first(all[i]) = NoDecl
    BY <1>1, <1>2
  <2>1. CASE first(s) # NoDecl
    <3>1. m + 1 \in 1..Len(all) /\ m + 1 - 1 = m /\ Len(all) \in Nat
      BY <1>1
    <3>2. FirstDecl(all, n) = first(all[m + 1])
      BY <1>1, <2>0, <2>1, <3>1, FirstDeclIs
    <3> QED
      BY <1>1, <1>2, <3>2 DEF all
  <2>2. CASE first(s) = NoDecl
    <3>1. ASSUME NEW i \in 1..Len(all) PROVE first(all[i]) = NoDecl
      <4>1. i \in 1..m \/ i = m + 1
        BY <1>1
      <4> QED
        BY <1>1, <2>0, <2>2, <4>1
    <3>2. FirstDecl(all, n) = NoDecl
      BY <3>1, FirstDeclNone
    <3> QED
      BY <1>2, <2>2, <3>2 DEF all
  <2> QED
    BY <2>1, <2>2
<1>3. ASSUME NEW i \in 1..m, first(stmts[i]) # NoDecl, FirstDecl(stmts, n) = first(stmts[i]),
             \A j \in 1..i - 1 : first(stmts[j]) = NoDecl
      PROVE  FirstDecl(all, n) = FirstDecl(stmts, n)
  <2>1. i \in 1..Len(all) /\ Len(all) \in Nat /\ \A j \in 1..i - 1 : j \in 1..m
    BY <1>1
  <2>2. first(all[i]) # NoDecl /\ \A j \in 1..i - 1 : first(all[j]) = NoDecl
    BY <1>1, <1>3, <2>1
  <2>3. FirstDecl(all, n) = first(all[i])
    BY <2>1, <2>2, FirstDeclIs
  <2> QED
    BY <1>1, <1>3, <2>3
<1> QED
  BY <1>1, <1>2, <1>3, FirstDeclFound DEF all, m

\* What a body's statements become when one of them is read: it declares d,
\* or nothing if d is NoDecl, and it may hold a new body.
Grows(stmts, stmts2, d, fresh) ==
    /\ stmts2 \in Seq(Stmt) /\ stmts2 # <<>>
    /\ HeldIn(stmts2) = HeldIn(stmts) \cup fresh
    /\ fresh \subseteq BodiesOf(Last(stmts2))
    /\ \A n \in Names : FirstDecl(stmts2, n) = Then1(FirstDecl(stmts, n), d, n)

LEMMA NoDeclType == NoDecl \in Decl /\ NoDecl.name = NoName
BY DEF NoDecl, Decl, NoBody, Holds

LEMMA DeclsOfType ==
    ASSUME NEW s \in Stmt
    PROVE  /\ DeclsOf(s) \in Seq(Decl)
           /\ s.kind = "if" => /\ Len(DeclsOf(s)) = Len(s.branches) /\ s.branches \in Seq(Branch)
                               /\ \A i \in 1..Len(s.branches) : DeclsOf(s)[i] = s.branches[i].binds
<1>1. CASE s.kind = "decl"
  <2>1. s.decl \in Decl /\ DeclsOf(s) = <<s.decl>>
    BY <1>1 DEF Stmt, DeclsOf, Exits
  <2>2. \A d \in Decl : <<d>> \in Seq(Decl)
    OBVIOUS
  <2> QED
    BY <1>1, <2>1, <2>2
<1>2. CASE s.kind = "while"
  <2>1. s.binds \in Decl /\ DeclsOf(s) = <<s.binds>>
    BY <1>2 DEF Stmt, DeclsOf, Exits
  <2>2. \A d \in Decl : <<d>> \in Seq(Decl)
    OBVIOUS
  <2> QED
    BY <1>2, <2>1, <2>2
<1>3. CASE s.kind = "if"
  <2>1. s \in IfStmt
    BY <1>3, IfTypes
  <2>2. s.branches \in Seq(Branch)
    BY <2>1 DEF IfStmt
  <2> DEFINE bs == s.branches
             ds == [i \in 1..Len(bs) |-> bs[i].binds]
  <2>3. DeclsOf(s) = ds
    BY <1>3 DEF DeclsOf
  <2>4. Len(bs) \in Nat /\ \A i \in 1..Len(bs) : bs[i] \in Branch
    BY <2>2, LenProperties, ElementOfSeq
  <2> HIDE DEF bs
  <2>5. ds \in [1..Len(bs) -> Decl]
    BY <2>4 DEF Branch
  <2>6. \A i \in 1..Len(bs) : ds[i] = bs[i].binds
    OBVIOUS
  <2> HIDE DEF ds
  <2>7. ds \in Seq(Decl) /\ DOMAIN ds = 1..Len(bs)
    BY <2>4, <2>5, SeqDef
  <2>8. Len(ds) = Len(bs)
    <3>1. DOMAIN ds = 1..Len(ds) /\ Len(ds) \in Nat
      BY <2>7, LenProperties
    <3> QED
      BY ONLY <2>4, <2>7, <3>1
  <2> QED
    BY <2>2, <2>3, <2>6, <2>7, <2>8 DEF bs
<1>4. CASE s.kind \notin {"decl", "while", "if"}
  <2>1. DeclsOf(s) = <<>>
    BY <1>4 DEF DeclsOf
  <2> QED
    BY <1>4, <2>1, EmptySeq
<1> QED
  BY <1>1, <1>2, <1>3, <1>4

LEMMA HeldAppend ==
    ASSUME NEW stmts \in Seq(Stmt), NEW s \in Stmt
    PROVE  HeldIn(Append(stmts, s)) = HeldIn(stmts) \cup (BodiesOf(s) \ {NoBody})
<1> DEFINE all == Append(stmts, s)
           m == Len(stmts)
<1>1. /\ Len(all) = m + 1 /\ all[m + 1] = s /\ m \in Nat
      /\ \A i \in 1..m : all[i] = stmts[i]
  BY AppendFacts, LenProperties
<1> HIDE DEF all, m
<1>2. 1..Len(all) = 1..m \cup {m + 1}
  BY <1>1
<1>3. (UNION {BodiesOf(all[i]) : i \in 1..Len(all)}) = (UNION {BodiesOf(stmts[i]) : i \in 1..m}) \cup BodiesOf(s)
  BY <1>1, <1>2
<1> QED
  BY <1>3 DEF HeldIn, all, m

LEMMA LastAppended ==
    ASSUME NEW stmts \in Seq(Stmt), NEW s \in Stmt
    PROVE  Append(stmts, s) \in Seq(Stmt) /\ Append(stmts, s) # <<>> /\ Last(Append(stmts, s)) = s
BY AppendFacts DEF Last

LEMMA GrowsRead ==
    ASSUME NEW stmts \in Seq(Stmt), NEW s \in Stmt, NEW d \in Decl,
           (DeclsOf(s) = <<>> /\ d = NoDecl) \/ DeclsOf(s) = <<d>>
    PROVE  Grows(stmts, Append(stmts, s), d, BodiesOf(s) \ {NoBody})
<1>1. ASSUME NEW n \in Names PROVE FirstNamed(DeclsOf(s), n) = IF d.name = n THEN d ELSE NoDecl
  <2>1. n # NoName
    BY DEF Names
  <2>2. CASE DeclsOf(s) = <<>> /\ d = NoDecl
    <3>1. Len(<<>>) = 0 /\ 1..0 = {}
      OBVIOUS
    <3>2. FirstNamed(DeclsOf(s), n) = NoDecl
      BY <2>2, <3>1, FirstNamedNone
    <3> QED
      BY <2>2, <3>2
  <2>3. CASE DeclsOf(s) = <<d>>
    <3>1. <<>> \in Seq(Decl) /\ Append(<<>>, d) = <<d>>
      OBVIOUS
    <3>2. FirstNamed(<<>>, n) = NoDecl
      <4>1. Len(<<>>) = 0 /\ 1..0 = {}
        OBVIOUS
      <4> QED
        BY <4>1, FirstNamedNone
    <3>3. FirstNamed(Append(<<>>, d), n) = Then1(FirstNamed(<<>>, n), d, n)
      BY <2>1, <3>1, FirstNamedAppend
    <3> QED
      BY <2>3, <3>1, <3>2, <3>3 DEF Then1
  <2> QED
    BY <2>2, <2>3
<1>2. ASSUME NEW n \in Names
      PROVE  FirstDecl(Append(stmts, s), n) = Then1(FirstDecl(stmts, n), d, n)
  BY <1>1, FirstDeclAppend DEF Then1
<1> QED
  BY <1>2, HeldAppend, LastAppended DEF Grows

LEMMA ButLast ==
    ASSUME NEW S, NEW s \in Seq(S), s # <<>>, NEW e \in S
    PROVE  /\ Front(s) \in Seq(S)
           /\ s = Append(Front(s), Last(s))
           /\ [s EXCEPT ![Len(s)] = e] = Append(Front(s), e)
<1> DEFINE f == Front(s)
           m == Len(s)
           s2 == [s EXCEPT ![m] = e]
<1>1. /\ f \in Seq(S) /\ Len(f) = m - 1 /\ m \in Nat \ {0} /\ Last(s) = s[m] /\ m \in 1..m
      /\ \A i \in 1..m - 1 : f[i] = s[i]
  BY FrontFacts
<1>2. s[m] \in S
  BY <1>1, ElementOfSeq
<1>3. s2 \in Seq(S) /\ Len(s2) = m /\ \A j \in 1..m : s2[j] = IF j = m THEN e ELSE s[j]
  BY <1>1, ExceptSeq
<1> HIDE DEF f, m, s2
<1>4. \A x \in S : /\ Append(f, x) \in Seq(S) /\ Len(Append(f, x)) = Len(f) + 1 /\ Append(f, x)[Len(f) + 1] = x
                   /\ \A i \in 1..Len(f) : Append(f, x)[i] = f[i]
  BY <1>1, AppendFacts
<1>5. Len(f) + 1 = m
  BY <1>1
<1>6. ASSUME NEW x \in S, NEW t \in Seq(S), Len(t) = m, t[m] = x, \A i \in 1..m - 1 : t[i] = f[i]
      PROVE  t = Append(f, x)
  <2>1. ASSUME NEW i \in 1..m PROVE t[i] = Append(f, x)[i]
    <3>1. i = m \/ i \in 1..m - 1
      BY <1>1
    <3> QED
      BY <1>1, <1>4, <1>5, <1>6, <3>1
  <2>2. Append(f, x) \in Seq(S) /\ Len(Append(f, x)) = m
    BY <1>4, <1>5
  <2> QED
    BY <1>6, <2>1, <2>2, SeqEqual
<1>7. s = Append(f, s[m])
  BY <1>1, <1>2, <1>6 DEF m
<1>8. s2 = Append(f, e)
  <2>1. s2[m] = e /\ \A i \in 1..m - 1 : s2[i] = f[i]
    <3>1. \A i \in 1..m - 1 : i \in 1..m /\ i # m
      BY <1>1
    <3> QED
      BY <1>1, <1>3, <3>1
  <2> QED
    BY <1>3, <1>6, <2>1
<1> QED
  BY <1>1, <1>7, <1>8 DEF f, m, s2

LEMMA GrowsBranch ==
    ASSUME NEW stmts \in Seq(Stmt), stmts # <<>>, Last(stmts).kind = "if",
           NEW b \in Nat, NEW d \in Decl, NEW c \in BOOLEAN
    PROVE  Grows(stmts, [stmts EXCEPT ![Len(stmts)] = WithBranch(Last(stmts), b, d, c)], d, {b} \ {NoBody})
<1> DEFINE f == Front(stmts)
           s == Last(stmts)
           s2 == WithBranch(s, b, d, c)
<1>1. s \in Stmt /\ s \in IfStmt
  <2>1. s \in Stmt
    <3>1. Len(stmts) \in Nat \ {0}
      BY EmptySeq
    <3>2. Len(stmts) \in 1..Len(stmts)
      BY ONLY <3>1
    <3> QED
      BY <3>2, ElementOfSeq DEF Last
  <2> QED
    BY <2>1, IfTypes
<1>2. s2 \in Stmt
  <2> HIDE DEF s
  <2> QED
    BY <1>1, IfTypes
<1> DEFINE br == [body |-> b, binds |-> d]
           bs == s.branches
<1>3. s2 = [s EXCEPT !.branches = Append(bs, br), !.closed = c] /\ br \in Branch /\ bs \in Seq(Branch)
  BY <1>1 DEF WithBranch, Branch, IfStmt
<1> HIDE DEF br
<1>4. s2.kind = "if" /\ s2.branches = Append(bs, br)
  <2> HIDE DEF s, bs, s2
  <2> QED
    BY <1>1, <1>3 DEF IfStmt
<1>5. /\ Append(bs, br) \in Seq(Branch) /\ Len(Append(bs, br)) = Len(bs) + 1 /\ Len(bs) \in Nat
      /\ Append(bs, br)[Len(bs) + 1] = br
      /\ \A i \in 1..Len(bs) : Append(bs, br)[i] = bs[i]
  BY <1>3, AppendFacts, LenProperties
<1>6. stmts = Append(f, s) /\ [stmts EXCEPT ![Len(stmts)] = s2] = Append(f, s2) /\ f \in Seq(Stmt)
  BY <1>2, ButLast
<1>k. s.kind = "if"
  OBVIOUS
<1> HIDE DEF f, s, s2, bs
<1>7. BodiesOf(s2) = BodiesOf(s) \cup {b}
  <2>1. BodiesOf(s) = {bs[i].body : i \in 1..Len(bs)}
    BY <1>k DEF BodiesOf, bs
  <2>2. BodiesOf(s2) = {Append(bs, br)[i].body : i \in 1..Len(bs) + 1}
    BY <1>4, <1>5 DEF BodiesOf
  <2>3. 1..Len(bs) + 1 = 1..Len(bs) \cup {Len(bs) + 1}
    BY <1>5
  <2>4. br.body = b
    BY DEF br
  <2> DEFINE new == Append(bs, br)
             m == Len(bs)
  <2> HIDE DEF new, m
  <2>5. {new[i].body : i \in 1..m + 1} = {bs[i].body : i \in 1..m} \cup {b}
    <3>1. /\ new[m + 1].body = b /\ m + 1 \in 1..m + 1
          /\ \A i \in 1..m : new[i].body = bs[i].body /\ i \in 1..m + 1
          /\ \A i \in 1..m + 1 : i \in 1..m \/ i = m + 1
      BY <1>5, <2>4 DEF new, m
    <3> QED
      BY ONLY <3>1
  <2> QED
    BY <2>1, <2>2, <2>5 DEF new, m
<1>8. DeclsOf(s2) = Append(DeclsOf(s), d)
  <2>1. /\ DeclsOf(s) \in Seq(Decl) /\ Len(DeclsOf(s)) = Len(bs)
        /\ \A i \in 1..Len(bs) : DeclsOf(s)[i] = bs[i].binds
    BY <1>1, <1>k, DeclsOfType DEF bs
  <2>2. /\ DeclsOf(s2) \in Seq(Decl) /\ Len(DeclsOf(s2)) = Len(bs) + 1
        /\ \A i \in 1..Len(bs) + 1 : DeclsOf(s2)[i] = Append(bs, br)[i].binds
    BY <1>2, <1>4, <1>5, DeclsOfType
  <2>3. /\ Append(DeclsOf(s), d) \in Seq(Decl) /\ Len(Append(DeclsOf(s), d)) = Len(bs) + 1
        /\ Append(DeclsOf(s), d)[Len(bs) + 1] = d
        /\ \A i \in 1..Len(bs) : Append(DeclsOf(s), d)[i] = DeclsOf(s)[i]
    BY <2>1, AppendFacts
  <2>4. br.binds = d
    BY DEF br
  <2>5. ASSUME NEW i \in 1..Len(bs) + 1 PROVE DeclsOf(s2)[i] = Append(DeclsOf(s), d)[i]
    <3>1. i \in 1..Len(bs) \/ i = Len(bs) + 1
      BY <1>5
    <3> QED
      BY <1>5, <2>1, <2>2, <2>3, <2>4, <3>1
  <2> QED
    BY <2>2, <2>3, <2>5, SeqEqual
<1>9. ASSUME NEW n \in Names
      PROVE  FirstDecl(Append(f, s2), n) = Then1(FirstDecl(Append(f, s), n), d, n)
  <2>1. n # NoName /\ DeclsOf(s) \in Seq(Decl)
    BY <1>1, DeclsOfType DEF Names
  <2>2. FirstNamed(DeclsOf(s2), n) = Then1(FirstNamed(DeclsOf(s), n), d, n)
    BY <1>8, <2>1, FirstNamedAppend
  <2>3. /\ FirstDecl(Append(f, s2), n) =
             IF FirstDecl(f, n) # NoDecl THEN FirstDecl(f, n) ELSE FirstNamed(DeclsOf(s2), n)
        /\ FirstDecl(Append(f, s), n) =
             IF FirstDecl(f, n) # NoDecl THEN FirstDecl(f, n) ELSE FirstNamed(DeclsOf(s), n)
    BY <1>1, <1>2, <1>6, FirstDeclAppend
  <2> QED
    BY <2>2, <2>3 DEF Then1
<1>10. HeldIn(Append(f, s2)) = HeldIn(Append(f, s)) \cup ({b} \ {NoBody})
  BY <1>1, <1>2, <1>6, <1>7, HeldAppend
<1>11. Append(f, s2) \in Seq(Stmt) /\ Append(f, s2) # <<>> /\ Last(Append(f, s2)) = s2
  BY <1>2, <1>6, LastAppended
<1>12. Grows(stmts, [stmts EXCEPT ![Len(stmts)] = s2], d, {b} \ {NoBody})
  BY <1>6, <1>7, <1>9, <1>10, <1>11 DEF Grows
<1> QED
  BY <1>12 DEF s2, s

(***************************************************************************)
(* What a name resolves to                                                 *)
(***************************************************************************)
LEMMA GreatestElement ==
    ASSUME NEW n \in Nat, NEW T, T \subseteq 1..n, T # {}
    PROVE  Max(T) \in T /\ \A y \in T : y <= Max(T)
<1> DEFINE U == {n - x : x \in T}
<1>1. \A x \in T : x \in Nat /\ n - x \in Nat /\ x = n - (n - x)
  OBVIOUS
<1>2. U \subseteq Nat /\ U # {}
  BY <1>1
<1>3. \E u \in U : \A v \in U : u <= v
  <2> HIDE DEF U
  <2> QED
    BY <1>2, LeastElement
<1>4. PICK x \in T : \A y \in T : n - x <= n - y
  BY <1>3
<1>5. ASSUME NEW y \in T PROVE x >= y
  BY <1>1, <1>4
<1>6. Max(T) \in T /\ \A y \in T : Max(T) >= y
  BY <1>5 DEF Max
<1> QED
  BY <1>1, <1>6

\* The search goes through the scopes from the last one.
LEMMA Resolves ==
    ASSUME NEW st \in Stack, NEW n, n # NoName
    PROVE  \/ /\ \A k \in 1..Len(st.scopes) : FirstNamed(st.scopes[k].decls, n) = NoDecl
              /\ ResolveDecl(st, n) = IF n \in Globals THEN GlobalDecl(n) ELSE NoDecl
           \/ \E at \in 1..Len(st.scopes) :
                 /\ FirstNamed(st.scopes[at].decls, n) # NoDecl
                 /\ \A k \in at + 1..Len(st.scopes) : FirstNamed(st.scopes[k].decls, n) = NoDecl
                 /\ ResolveDecl(st, n) = FirstNamed(st.scopes[at].decls, n)
<1> DEFINE Named(d) == d.name = n
           Has(sc) == SelectInSeq(sc.decls, Named) # 0
           at == SelectLastInSeq(st.scopes, Has)
           ds == st.scopes[at].decls
           I == {k \in 1..Len(st.scopes) : Has(st.scopes[k])}
<1>1. ResolveDecl(st, n) =
        IF at # 0 THEN ds[SelectInSeq(ds, Named)]
        ELSE IF n \in Globals THEN GlobalDecl(n) ELSE NoDecl
  BY DEF ResolveDecl
<1>2. at = IF I # {} THEN Max(I) ELSE 0
  BY DEF SelectLastInSeq
<1>3. Len(st.scopes) \in Nat /\ \A k \in 1..Len(st.scopes) : st.scopes[k].decls \in Seq(Decl)
  <2>1. st.scopes \in Seq(Scope)
    BY DEF Stack
  <2>2. \A k \in 1..Len(st.scopes) : st.scopes[k] \in Scope
    BY <2>1, ElementOfSeq
  <2> QED
    BY <2>1, <2>2, LenProperties DEF Scope
<1>4. ASSUME NEW k \in 1..Len(st.scopes)
      PROVE  /\ Has(st.scopes[k]) <=> FirstNamed(st.scopes[k].decls, n) # NoDecl
             /\ Has(st.scopes[k]) => LET es == st.scopes[k].decls
                                     IN  es[SelectInSeq(es, Named)] = FirstNamed(es, n)
  <2> DEFINE es == st.scopes[k].decls
             J == {j \in 1..Len(es) : es[j].name = n}
  <2>1. es \in Seq(Decl)
    BY <1>3
  <2>2. SelectInSeq(es, Named) = IF J # {} THEN Min(J) ELSE 0
    BY DEF SelectInSeq
  <2>3. FirstNamed(es, n) = IF J = {} THEN NoDecl ELSE es[Min(J)]
    BY DEF FirstNamed
  <2>4. J \subseteq Nat /\ 0 \notin J
    BY <2>1, LenProperties
  <2>5. J # {} => Min(J) \in J
    <3> HIDE DEF J
    <3> QED
      BY <2>4, MinIsElement
  <2>6. \A j \in J : es[j] # NoDecl
    BY DEF NoDecl
  <2> HIDE DEF J, es
  <2>7. SelectInSeq(es, Named) # 0 <=> FirstNamed(es, n) # NoDecl
    BY <2>2, <2>3, <2>4, <2>5, <2>6
  <2>8. SelectInSeq(es, Named) # 0 => es[SelectInSeq(es, Named)] = FirstNamed(es, n)
    BY <2>2, <2>3
  <2> QED
    BY <2>7, <2>8 DEF es
<1> HIDE DEF Has
<1>5. CASE I = {}
  <2>1. at = 0
    BY <1>2, <1>5
  <2>2. \A k \in 1..Len(st.scopes) : FirstNamed(st.scopes[k].decls, n) = NoDecl
    BY <1>4, <1>5
  <2> QED
    BY <1>1, <2>1, <2>2
<1>6. CASE I # {}
  <2>1. I \subseteq 1..Len(st.scopes)
    OBVIOUS
  <2>2. Max(I) \in I /\ \A k \in I : k <= Max(I)
    <3> HIDE DEF I
    <3> QED
      BY <1>3, <1>6, <2>1, GreatestElement
  <2>3. at = Max(I)
    BY <1>2, <1>6
  <2>4. at \in 1..Len(st.scopes) /\ Has(st.scopes[at]) /\ at # 0 /\ \A k \in I : k <= at
    <3>1. at \in I /\ \A k \in I : k <= at
      BY <2>2, <2>3
    <3> HIDE DEF at
    <3> QED
      BY <1>3, <3>1
  <2> HIDE DEF at
  <2>5. ASSUME NEW k \in at + 1..Len(st.scopes) PROVE FirstNamed(st.scopes[k].decls, n) = NoDecl
    <3>1. k \in 1..Len(st.scopes) /\ ~(k <= at)
      BY <1>3, <2>4
    <3> QED
      BY <1>4, <2>4, <3>1
  <2>6. ds[SelectInSeq(ds, Named)] = FirstNamed(ds, n) /\ FirstNamed(ds, n) # NoDecl
    BY <1>4, <2>4
  <2>7. ResolveDecl(st, n) = FirstNamed(ds, n)
    BY <1>1, <2>4, <2>6
  <2> QED
    BY <2>4, <2>5, <2>6, <2>7
<1> QED
  BY <1>5, <1>6

(***************************************************************************)
(* Lexical scoping in one state                                            *)
(***************************************************************************)
LEMMA TextTypes ==
    ASSUME IInv
    PROVE  /\ Len(tree) \in Nat /\ text \in Seq(Seq(Stmt)) /\ Len(text) = Len(tree)
           /\ \A c \in 1..Len(tree) : text[c] \in Seq(Stmt) /\ Len(text[c]) \in Nat
<1>1. Len(tree) \in Nat /\ text \in Seq(Seq(Stmt)) /\ Len(text) = Len(tree)
  BY LenProperties DEF IInv, TypeOK, CallsInv
<1>2. \A c \in 1..Len(tree) : text[c] \in Seq(Stmt)
  BY <1>1, ElementOfSeq
<1> QED
  BY <1>1, <1>2, LenProperties

LEMMA HoldersBefore ==
    ASSUME IInv, NamesInv, NEW b \in 1..Len(tree)
    PROVE  Holder(b) \in {NoBody} \cup 1..b - 1
<1> DEFINE holders == {c \in 1..Len(tree) : \E i \in 1..Len(text[c]) : b \in BodiesOf(text[c][i])}
<1>1. ASSUME NEW c \in holders PROVE c \in 1..b - 1
  <2>1. c \in 1..Len(tree) /\ b # NoBody /\ b \in Nat
    BY TextTypes DEF NoBody
  <2>2. b \in HeldIn(text[c])
    BY <2>1 DEF HeldIn
  <2>3. b \in c + 1..Len(tree)
    BY <2>1, <2>2, TextTypes DEF NamesInv, HeldBelow
  <2> QED
    BY <2>1, <2>3, TextTypes
<1>2. Holder(b) = IF tree[b].owner \in {"func", "anon"} \/ holders = {} THEN NoBody
                  ELSE CHOOSE c \in holders : TRUE
  BY DEF Holder
<1> HIDE DEF holders
<1> QED
  BY <1>1, <1>2

LEMMA HoldersOfCalls ==
    ASSUME IInv, NamesInv, calls # <<>>
    PROVE  /\ Holder(calls[1]) = NoBody
           /\ \A k \in 1..Len(calls) - 1 : Holder(calls[k + 1]) = calls[k]
           /\ \A k \in 1..Len(calls) : calls[k] \in 1..Len(tree) /\ calls[k] # NoBody
<1>1. /\ CallsOK(calls, tree, RootOf(Len(saved))) /\ Len(calls) \in Nat \ {0}
      /\ ScopesAsText(ss, calls, text, tree)
  BY AtBody DEF NamesInv
<1>2. tree[calls[1]].owner \in {"func", "anon"}
  BY <1>1 DEF CallsOK, RootOf
<1>3. \A k \in 1..Len(calls) : calls[k] \in 1..Len(tree) /\ calls[k] # NoBody
  BY <1>1, TextTypes DEF CallsOK, NoBody
<1>4. ASSUME NEW k \in 1..Len(calls) - 1 PROVE Holder(calls[k + 1]) = calls[k]
  <2> DEFINE b == calls[k + 1]
             stmts == text[calls[k]]
             holders == {c \in 1..Len(tree) : \E i \in 1..Len(text[c]) : b \in BodiesOf(text[c][i])}
  <2>1. k \in 1..Len(calls) /\ k + 1 \in 1..Len(calls) /\ k + 1 \in 2..Len(calls)
    BY <1>1
  <2>2. stmts # <<>> /\ b \in BodiesOf(Last(stmts)) /\ stmts \in Seq(Stmt)
    BY <1>1, <1>3, <2>1, TextTypes DEF ScopesAsText
  <2>3. Len(stmts) \in 1..Len(stmts) /\ Last(stmts) = stmts[Len(stmts)]
    BY <2>2, EmptySeq DEF Last
  <2>4. calls[k] \in holders
    BY <1>3, <2>1, <2>2, <2>3
  <2>5. ASSUME NEW c \in holders PROVE c = calls[k]
    <3>1. b \in HeldIn(text[c]) /\ b \in HeldIn(text[calls[k]]) /\ c \in 1..Len(tree)
      BY <1>3, <2>1, <2>4 DEF HeldIn
    <3> QED
      BY <1>3, <2>1, <3>1, TextTypes DEF NamesInv, HeldOnce
  <2>6. tree[b].owner \notin {"func", "anon"}
    BY <1>1, <2>1 DEF CallsOK
  <2>7. Holder(b) = CHOOSE c \in holders : TRUE
    BY <2>4, <2>6 DEF Holder
  <2> HIDE DEF holders
  <2> QED
    BY <2>4, <2>5, <2>7
<1> QED
  BY <1>2, <1>3, <1>4 DEF Holder

\* What LexicalDecl's function says of a body, from what it says of the one around it.
Seen(f, c, n) ==
    IF FirstDecl(text[c], n) # NoDecl THEN FirstDecl(text[c], n)
    ELSE IF Holder(c) # NoBody THEN f[Holder(c)]
    ELSE IF FirstNamed(ArgDecls(c, tree), n) # NoDecl THEN FirstNamed(ArgDecls(c, tree), n)
    ELSE IF n \in Globals THEN GlobalDecl(n)
    ELSE NoDecl
Sees(f, m, n) == f = [c \in 1..m |-> Seen(f, c, n)]

LEMMA SeesExists ==
    ASSUME IInv, NamesInv, NEW last \in Nat, last = Len(tree), NEW n
    PROVE  \E f : Sees(f, last, n)
<1> DEFINE T == {m \in 0..last : ~\E f : Sees(f, m, n)}
<1> SUFFICES ASSUME T # {} PROVE FALSE
  OBVIOUS
<1>1. PICK m \in T : \A k \in T : m <= k
  <2>1. T \subseteq Nat
    OBVIOUS
  <2> HIDE DEF T
  <2> QED
    BY <2>1, LeastElement
<1>2. CASE m = 0
  <2> DEFINE f == [c \in {} |-> NoDecl]
  <2>1. 1..0 = {}
    OBVIOUS
  <2>2. Sees(f, 0, n)
    BY <2>1 DEF Sees
  <2> QED
    BY <1>2, <2>2
<1>3. CASE m # 0
  <2>1. m \in 1..last /\ m - 1 \in 0..last /\ ~(m <= m - 1)
    BY <1>3
  <2>2. PICK g : Sees(g, m - 1, n)
    BY <1>1, <2>1
  <2> DEFINE h == [c \in 1..m |-> IF c = m THEN Seen(g, m, n) ELSE g[c]]
  <2>3. ASSUME NEW c \in 1..m PROVE h[c] = Seen(h, c, n)
    <3>1. Holder(c) # NoBody => Holder(c) \in 1..m /\ Holder(c) # m
      <4>1. c \in 1..Len(tree)
        BY <2>1
      <4>2. Holder(c) # NoBody => Holder(c) \in 1..c - 1
        BY <4>1, HoldersBefore
      <4> QED
        BY <2>1, <4>2
    <3>2. h[c] = Seen(g, c, n)
      <4>1. CASE c = m
        BY <4>1
      <4>2. CASE c # m
        <5>1. c \in 1..m - 1
          BY <2>1, <4>2
        <5>2. h[c] = g[c]
          BY <4>2
        <5>3. g[c] = Seen(g, c, n)
          <6> HIDE DEF h
          <6> QED
            BY <2>2, <5>1 DEF Sees
        <5> QED
          BY <5>2, <5>3
      <4> QED
        BY <4>1, <4>2
    <3>3. Holder(c) # NoBody => h[Holder(c)] = g[Holder(c)]
      BY <3>1
    <3> HIDE DEF h
    <3> QED
      BY <3>2, <3>3 DEF Seen
  <2>4. Sees(h, m, n)
    BY <2>3 DEF Sees
  <2> QED
    BY <2>4
<1> QED
  BY <1>2, <1>3

LEMMA ResolvesLexically ==
    ASSUME IInv, NamesInv, calls # <<>>, NEW n \in Names
    PROVE  ResolveDecl(ss, n) = LexicalDecl(Cur, n)
<1> DEFINE last == Len(tree)
           up == CHOOSE f : Sees(f, last, n)
           m == Len(calls)
           decls(k) == FirstNamed(ss.scopes[k].decls, n)
<1>1. LexicalDecl(Cur, n) = up[Cur]
  BY DEF LexicalDecl, Sees, Seen
<1>2. Sees(up, last, n)
  <2>1. \E f : Sees(f, last, n)
    BY TextTypes, SeesExists
  <2> HIDE DEF last
  <2> QED
    BY <2>1
<1> HIDE DEF up
<1>3. /\ m \in Nat \ {0} /\ Cur = calls[m] /\ ss \in Stack
      /\ Len(ss.scopes) = m + 1 /\ ScopesAsText(ss, calls, text, tree) /\ n # NoName
  BY AtBody DEF StackOK, Mirrors, NamesInv, Names
<1>4. /\ Holder(calls[1]) = NoBody
      /\ \A k \in 1..m - 1 : Holder(calls[k + 1]) = calls[k]
      /\ \A k \in 1..m : calls[k] \in 1..last /\ calls[k] # NoBody
  BY HoldersOfCalls
<1>5. \A k \in 1..m : FirstDecl(text[calls[k]], n) = decls(k + 1)
  BY <1>3 DEF ScopesAsText
<1>6. decls(1) = FirstNamed(ArgDecls(calls[1], tree), n)
  BY <1>3 DEF ScopesAsText
<1> HIDE DEF decls, last, m
<1>7. \A k \in 1..m : up[calls[k]] = Seen(up, calls[k], n)
  BY <1>2, <1>4 DEF Sees
\* The bodies inside of the one whose scope is the at-th see what it sees.
<1>8. ASSUME NEW at \in 0..m + 1, \A k \in at + 1..m + 1 : decls(k) = NoDecl,
             NEW k \in 1..m, at <= k + 1
      PROVE  up[calls[k]] = up[Cur]
  <2> DEFINE T == {d \in 0..m - 1 : at <= m - d + 1 /\ up[calls[m - d]] # up[Cur]}
  <2>1. T = {}
    <3> SUFFICES ASSUME T # {} PROVE FALSE
      OBVIOUS
    <3>1. PICK d \in T : \A e \in T : d <= e
      <4>1. T \subseteq Nat
        BY <1>3
      <4> HIDE DEF T
      <4> QED
        BY <4>1, LeastElement
    <3>2. d # 0
      BY <1>3
    <3>3. d - 1 \in 0..m - 1 /\ ~(d <= d - 1) /\ at <= m - (d - 1) + 1
      BY <1>3, <1>8, <3>2
    <3>4. up[calls[m - (d - 1)]] = up[Cur]
      BY <3>1, <3>3
    <3> DEFINE i == m - d
    <3>5. i \in 1..m - 1 /\ i + 1 \in 1..m /\ m - (d - 1) = i + 1 /\ i \in 1..m /\ i + 2 \in at + 1..m + 1
          /\ i + 1 + 1 = i + 2
      BY <1>3, <3>2
    <3>6. up[calls[i]] # up[Cur]
      OBVIOUS
    <3> HIDE DEF i, T
    <3>7. Seen(up, calls[i + 1], n) = up[calls[i]]
      <4>1. decls(i + 1 + 1) = NoDecl
        BY <1>8, <3>5
      <4>2. FirstDecl(text[calls[i + 1]], n) = NoDecl
        BY <1>5, <3>5, <4>1
      <4>3. Holder(calls[i + 1]) = calls[i] /\ calls[i] # NoBody
        BY <1>4, <3>5
      <4> QED
        BY <4>2, <4>3 DEF Seen
    <3> QED
      BY <1>7, <3>4, <3>5, <3>6, <3>7
  <2>2. m - k \in 0..m - 1 /\ m - (m - k) = k
    BY <1>3
  <2> QED
    BY <1>8, <2>1, <2>2
<1>9. CASE /\ \A k \in 1..m + 1 : decls(k) = NoDecl
           /\ ResolveDecl(ss, n) = IF n \in Globals THEN GlobalDecl(n) ELSE NoDecl
  <2>1. 0 \in 0..m + 1 /\ 1 \in 1..m /\ 0 <= 1 + 1 /\ 1 \in 1..m + 1 /\ 1 + 1 \in 1..m + 1 /\ 0 + 1 = 1
    BY <1>3
  <2>2. up[calls[1]] = up[Cur]
    BY <1>8, <1>9, <2>1
  <2>3. FirstDecl(text[calls[1]], n) = NoDecl /\ FirstNamed(ArgDecls(calls[1], tree), n) = NoDecl
    BY <1>5, <1>6, <1>9, <2>1
  <2>4. Seen(up, calls[1], n) = IF n \in Globals THEN GlobalDecl(n) ELSE NoDecl
    BY <1>4, <2>3 DEF Seen
  <2> QED
    BY <1>1, <1>7, <1>9, <2>1, <2>2, <2>4
<1>10. ASSUME NEW at \in 1..m + 1, decls(at) # NoDecl, \A k \in at + 1..m + 1 : decls(k) = NoDecl,
              ResolveDecl(ss, n) = decls(at)
       PROVE  ResolveDecl(ss, n) = LexicalDecl(Cur, n)
  <2>0. at \in 0..m + 1
    BY <1>3
  <2>1. CASE at = 1
    <3>1. 1 \in 1..m /\ at <= 1 + 1 /\ 1 + 1 \in at + 1..m + 1
      BY <1>3, <2>1
    <3>2. up[calls[1]] = up[Cur]
      BY <1>8, <1>10, <2>0, <3>1
    <3>3. FirstDecl(text[calls[1]], n) = NoDecl /\ FirstNamed(ArgDecls(calls[1], tree), n) = decls(1)
      BY <1>5, <1>6, <1>10, <3>1
    <3>4. Seen(up, calls[1], n) = decls(1)
      BY <1>4, <1>10, <2>1, <3>3 DEF Seen
    <3> QED
      BY <1>1, <1>7, <1>10, <2>1, <3>1, <3>2, <3>4
  <2>2. CASE at # 1
    <3>1. at - 1 \in 1..m /\ at <= at - 1 + 1 /\ at - 1 + 1 = at
      BY <1>3, <2>2
    <3>2. up[calls[at - 1]] = up[Cur]
      BY <1>8, <1>10, <2>0, <3>1
    <3>3. FirstDecl(text[calls[at - 1]], n) = decls(at)
      BY <1>5, <3>1
    <3>4. Seen(up, calls[at - 1], n) = decls(at)
      BY <1>10, <3>3 DEF Seen
    <3> QED
      BY <1>1, <1>7, <1>10, <3>1, <3>2, <3>4
  <2> QED
    BY <2>1, <2>2
<1> QED
  BY <1>3, <1>9, <1>10, Resolves DEF decls

\* In a state, and in the one that a step leads to.
LEMMA ResolvesNow ==
    IInv /\ NamesInv /\ calls # <<>> => \A n \in Names : ResolveDecl(ss, n) = LexicalDecl(Cur, n)
BY ResolvesLexically

LEMMA ResolvesNext ==
    ASSUME IInv', NamesInv', calls' # <<>>
    PROVE  \A n \in Names : ResolveDecl(ss, n)' = LexicalDecl(Cur, n)'
<1>1. (IInv /\ NamesInv /\ calls # <<>> => \A n \in Names : ResolveDecl(ss, n) = LexicalDecl(Cur, n))'
  BY ResolvesNow, PTL
<1> QED
  BY <1>1

(***************************************************************************)
(* What a step changes of the scopes and of the text                       *)
(***************************************************************************)
\* The innermost scope of st2 declares d besides what it declares in st.
Declares(st, st2, d) ==
    /\ Len(st2.scopes) = Len(st.scopes)
    /\ \A k \in 1..Len(st.scopes) - 1 : st2.scopes[k].decls = st.scopes[k].decls
    /\ \A n \in Names : FirstNamed(st2.scopes[Len(st.scopes)].decls, n)
                          = Then1(FirstNamed(st.scopes[Len(st.scopes)].decls, n), d, n)

LEMMA NothingDeclared == \A found : \A n \in Names : Then1(found, NoDecl, n) = found
BY DEF Then1, NoDecl, Names

LEMMA DeclaresNothing ==
    ASSUME NEW st, NEW st2, st2.scopes = st.scopes
    PROVE  Declares(st, st2, NoDecl)
BY NothingDeclared DEF Declares

LEMMA DeclaresPushed ==
    ASSUME NEW st \in Stack, st.scopes # <<>>, NEW d \in Decl
    PROVE  Declares(st, PushDecl(st, d), d)
<1> DEFINE m == Len(st.scopes)
           sc == [st.scopes[m] EXCEPT !.decls = Append(@, d)]
           scs == [st.scopes EXCEPT ![m] = sc]
<1>1. m \in Nat \ {0} /\ m \in 1..m /\ st.scopes[m] \in Scope /\ st.scopes \in Seq(Scope)
  BY LastScope DEF Stack
<1>2. st.scopes[m].decls \in Seq(Decl)
  BY <1>1 DEF Scope
<1>3. Append(st.scopes[m].decls, d) \in Seq(Decl)
  BY <1>2, AppendFacts
<1>4. sc \in Scope /\ sc.decls = Append(st.scopes[m].decls, d)
  BY <1>1, <1>3 DEF Scope
<1>5. PushDecl(st, d) = [st EXCEPT !.scopes = scs]
  BY <1>1 DEF PushDecl, Stack
<1> HIDE DEF sc
<1>6. /\ scs \in Seq(Scope) /\ Len(scs) = m
      /\ \A k \in 1..m : scs[k] = IF k = m THEN sc ELSE st.scopes[k]
  BY <1>1, <1>4, ExceptSeq
<1> HIDE DEF scs
<1>7. PushDecl(st, d).scopes = scs
  BY <1>5 DEF Stack
<1>8. \A k \in 1..m - 1 : scs[k] = st.scopes[k]
  <2>1. \A k \in 1..m - 1 : k \in 1..m /\ k # m
    BY <1>1
  <2> QED
    BY <1>6, <2>1
<1>9. ASSUME NEW n \in Names
      PROVE  FirstNamed(scs[m].decls, n) = Then1(FirstNamed(st.scopes[m].decls, n), d, n)
  <2>1. n # NoName
    BY DEF Names
  <2>2. scs[m] = sc
    BY <1>1, <1>6
  <2>3. sc.decls = Append(st.scopes[m].decls, d)
    BY <1>4
  <2> QED
    BY <1>2, <2>1, <2>2, <2>3, FirstNamedAppend
<1> HIDE DEF m
<1>10. Len(scs) = m /\ (\A k \in 1..m - 1 : scs[k].decls = st.scopes[k].decls)
  BY <1>6, <1>8
<1> QED
  BY <1>7, <1>9, <1>10 DEF Declares, m

LEMMA BoundDeclares ==
    ASSUME IInv, calls # <<>>, NEW x \in Binds
    PROVE  Declares(ss, Bound(x), Bind(x))
<1>1. ss \in Stack /\ ss.scopes # <<>> /\ Function \in Nat
  BY AtBody
<1>2. CASE x = NoName
  <2>1. Bound(x) = ss /\ Bind(x) = NoDecl
    BY <1>2 DEF Bound, Bind
  <2> QED
    BY <2>1, DeclaresNothing
<1>3. CASE x # NoName
  <2>1. x \in DeclNames /\ "final" \in Holds
    BY <1>3 DEF Holds, Binds
  <2>2. Bind(x) \in Decl
    BY <1>1, <1>3, <2>1, NewDeclType DEF Bind
  <2>3. Bound(x) = PushDecl(ss, Bind(x))
    BY <1>3 DEF Bound
  <2> QED
    BY <1>1, <2>2, <2>3, DeclaresPushed
<1> QED
  BY <1>2, <1>3

LEMMA PushedScope ==
    ASSUME NEW st \in Stack, NEW b \in Nat \ {0}
    PROVE  /\ Len(PushScope(st, b).scopes) = Len(st.scopes) + 1
           /\ \A k \in 1..Len(st.scopes) : PushScope(st, b).scopes[k] = st.scopes[k]
           /\ PushScope(st, b).scopes[Len(st.scopes) + 1].decls = <<>>
<1> DEFINE sc == [decls |-> <<>>, body |-> b]
           scs == Append(st.scopes, sc)
<1>1. sc \in Scope /\ sc.decls = <<>>
  BY EmptySeq DEF Scope
<1>2. PushScope(st, b) = [st EXCEPT !.scopes = scs]
  BY DEF PushScope, NoBody
<1> HIDE DEF sc
<1>3. /\ Len(scs) = Len(st.scopes) + 1 /\ scs[Len(st.scopes) + 1] = sc
      /\ \A k \in 1..Len(st.scopes) : scs[k] = st.scopes[k]
  <2>1. st.scopes \in Seq(Scope)
    BY DEF Stack
  <2> QED
    BY <1>1, <2>1, AppendFacts
<1> HIDE DEF scs
<1>4. PushScope(st, b).scopes = scs
  BY <1>2 DEF Stack
<1> QED
  BY <1>1, <1>3, <1>4

\* What a step does to the text: body b, if any, gets a statement that may
\* hold a new body.
TextMoves(tx, tx2, b, fresh) ==
    /\ \A c \in 1..Len(tx) : c # b => tx2[c] = tx[c]
    /\ b \in 1..Len(tx) => HeldIn(tx2[b]) = HeldIn(tx[b]) \cup fresh
    /\ \/ Len(tx2) = Len(tx) /\ fresh = {}
       \/ Len(tx2) = Len(tx) + 1 /\ fresh \subseteq {Len(tx) + 1} /\ tx2[Len(tx) + 1] = <<>>

LEMMA NothingHeld == HeldIn(<<>>) = {}
<1>1. Len(<<>>) = 0 /\ 1..0 = {}
  OBVIOUS
<1> QED
  BY <1>1 DEF HeldIn

\* A new body is held by one statement only, an earlier body's.
LEMMA HeldKeeps ==
    ASSUME NEW tx, NEW tx2, NEW b, NEW fresh, Len(tx) \in Nat,
           HeldBelow(tx), HeldOnce(tx), TextMoves(tx, tx2, b, fresh)
    PROVE  HeldBelow(tx2) /\ HeldOnce(tx2)
<1> DEFINE m == Len(tx)
<1>1. m \in Nat /\ (\A c \in 1..m : HeldIn(tx[c]) \subseteq c + 1..m)
      /\ \A c, d \in 1..m : c # d => HeldIn(tx[c]) \cap HeldIn(tx[d]) = {}
  BY DEF HeldBelow, HeldOnce
<1>2. \A c \in 1..m : \/ HeldIn(tx2[c]) = HeldIn(tx[c])
                      \/ c = b /\ HeldIn(tx2[c]) = HeldIn(tx[c]) \cup fresh
  BY DEF TextMoves
<1>3. CASE Len(tx2) = m /\ fresh = {}
  <2>1. \A c \in 1..m : HeldIn(tx2[c]) = HeldIn(tx[c])
    BY <1>2, <1>3
  <2> QED
    BY <1>1, <1>3, <2>1 DEF HeldBelow, HeldOnce
<1>4. CASE Len(tx2) = m + 1 /\ fresh \subseteq {m + 1} /\ tx2[m + 1] = <<>>
  <2>1. 1..m + 1 = 1..m \cup {m + 1} /\ HeldIn(tx2[m + 1]) = {}
    BY <1>1, <1>4, NothingHeld
  <2>2. \A c \in 1..m : m + 1 \notin HeldIn(tx[c])
    BY <1>1
  <2>3. ASSUME NEW c \in 1..m + 1 PROVE HeldIn(tx2[c]) \subseteq c + 1..m + 1
    <3>1. CASE c \in 1..m
      <4>1. HeldIn(tx[c]) \subseteq c + 1..m
        BY <1>1, <3>1
      <4>2. c + 1..m \subseteq c + 1..m + 1 /\ m + 1 \in c + 1..m + 1
        BY <1>1, <3>1
      <4> QED
        BY <1>4, <1>2, <3>1, <4>1, <4>2
    <3> QED
      BY <2>1, <3>1
  <2>4. ASSUME NEW c \in 1..m + 1, NEW d \in 1..m + 1, c # d
        PROVE  HeldIn(tx2[c]) \cap HeldIn(tx2[d]) = {}
    <3>1. CASE c \in 1..m /\ d \in 1..m
      <4>1. HeldIn(tx[c]) \cap HeldIn(tx[d]) = {}
        BY <1>1, <2>4, <3>1
      <4>2. m + 1 \notin HeldIn(tx[c]) /\ m + 1 \notin HeldIn(tx[d])
        BY <2>2, <3>1
      <4> QED
        BY <1>4, <1>2, <2>4, <3>1, <4>1, <4>2
    <3> QED
      BY <2>1, <3>1
  <2> QED
    BY <1>4, <2>3, <2>4 DEF HeldBelow, HeldOnce
<1> QED
  BY <1>3, <1>4 DEF TextMoves

\* Suspended functions keep their text: only an open body of the running one gets statements.
LEMMA SuspendedNames ==
    ASSUME IInv, NamesInv, NEW b, b \in 1..Len(tree) => (calls # <<>> /\ b = Cur), NEW fresh,
           NEW tx, TextMoves(text, tx, b, fresh), NEW tr, \A c \in 1..Len(tree) : tr[c] = tree[c],
           NEW i \in 1..Len(saved)
    PROVE  /\ ScopesAsText(saved[i].ss, saved[i].calls, tx, tr)
           /\ Waits(saved[i].calls, calls, tx)
           /\ \A j \in i + 1..Len(saved) : Waits(saved[i].calls, saved[j].calls, tx)
<1> DEFINE cs == saved[i].calls
           st == saved[i].ss
<1>1. /\ ScopesAsText(st, cs, text, tree) /\ Waits(cs, calls, text)
      /\ \A j \in i + 1..Len(saved) : Waits(cs, saved[j].calls, text)
  BY DEF NamesInv
<1>2. CallsOK(cs, tree, RootOf(i - 1)) /\ cs \in Seq(Nat)
  <2>1. saved \in Seq([ss : Stack, calls : Seq(Nat)])
    BY DEF IInv, TypeOK
  <2>2. saved[i] \in [ss : Stack, calls : Seq(Nat)]
    BY <2>1, ElementOfSeq
  <2>3. CallsOK(cs, tree, RootOf(i - 1))
    BY DEF IInv, CallsInv
  <2> QED
    BY <2>2, <2>3
<1>3. calls # <<>>
  <2>1. saved # <<>>
    OBVIOUS
  <2> QED
    BY <2>1 DEF IInv, CallsInv
<1> HIDE DEF cs, st
<1>4. Cur = calls[Len(calls)] /\ Len(calls) \in Nat \ {0} /\ CallsOK(calls, tree, RootOf(Len(saved)))
  BY <1>3, AtBody
<1>5. calls[1] <= Cur /\ Cur \in Nat /\ calls[1] \in Nat
  <2>1. calls \in Seq(Nat) /\ Len(calls) \in 1..Len(calls)
    BY <1>3, AtBody
  <2>2. 1 \in 1..Len(calls) /\ calls[1] \in Nat /\ Cur \in Nat
    BY <1>4, <2>1
  <2> QED
    BY <1>4, <2>1, <2>2 DEF CallsOK
<1>6. \A k \in 1..Len(cs) : cs[k] \in 1..Len(tree) /\ cs[k] # b
  <2>1. \A k \in 1..Len(cs) : cs[k] < calls[1] /\ cs[k] \in 1..Len(tree) /\ cs[k] \in Nat
    BY <1>1, <1>2 DEF Waits, CallsOK
  <2> QED
    BY <1>5, <2>1
<1>7. \A k \in 1..Len(cs) : tx[cs[k]] = text[cs[k]] /\ tr[cs[k]] = tree[cs[k]]
  BY <1>6, TextTypes DEF TextMoves
<1>8. Len(cs) \in Nat \ {0} /\ Last(cs) = cs[Len(cs)] /\ 1 \in 1..Len(cs) /\ Len(cs) \in 1..Len(cs)
  BY <1>2 DEF CallsOK, Last
<1>9. ScopesAsText(st, cs, tx, tr)
  <2>1. ArgDecls(cs[1], tr) = ArgDecls(cs[1], tree)
    BY <1>7, <1>8 DEF ArgDecls
  <2>2. \A k \in 1..Len(cs) - 1 : k \in 1..Len(cs)
    BY <1>8
  <2>3. \A k \in 1..Len(cs), n \in Names : FirstNamed(st.scopes[k + 1].decls, n) = FirstDecl(tx[cs[k]], n)
    BY <1>1, <1>7 DEF ScopesAsText
  <2>4. \A k \in 1..Len(cs) - 1 : tx[cs[k]] # <<>> /\ cs[k + 1] \in BodiesOf(Last(tx[cs[k]]))
    BY <1>1, <1>7, <2>2 DEF ScopesAsText
  <2>5. st.scopes[1].decls = ArgDecls(cs[1], tr)
    BY <1>1, <2>1 DEF ScopesAsText
  <2> QED
    BY <2>3, <2>4, <2>5 DEF ScopesAsText
<1>10. tx[Last(cs)] = text[Last(cs)]
  BY <1>7, <1>8
<1> QED
  BY <1>1, <1>9, <1>10 DEF Waits, cs, st

(***************************************************************************)
(* What a step makes of the scopes of a function                           *)
(***************************************************************************)
\* Open bodies are read once each.
LEMMA OpenDistinct ==
    ASSUME IInv, calls # <<>>
    PROVE  /\ Len(calls) \in Nat \ {0} /\ Cur = calls[Len(calls)] /\ Len(ss.scopes) = Len(calls) + 1
           /\ ss \in Stack /\ calls \in Seq(Nat) /\ Cur \in 1..Len(tree) /\ Len(tree) \in Nat
           /\ \A k \in 1..Len(calls) : calls[k] \in 1..Len(tree)
           /\ \A k \in 1..Len(calls) - 1 : k \in 1..Len(calls) /\ calls[k] # Cur
<1>1. /\ Len(calls) \in Nat \ {0} /\ Cur = calls[Len(calls)] /\ Len(calls) \in 1..Len(calls)
      /\ CallsOK(calls, tree, RootOf(Len(saved))) /\ StackOK(ss, calls, tree, failed)
      /\ ss \in Stack /\ calls \in Seq(Nat) /\ Cur \in 1..Len(tree) /\ Len(tree) \in Nat
  BY AtBody, TextTypes
<1>2. \A k \in 1..Len(calls) - 1 : k \in 1..Len(calls) /\ k < Len(calls)
  BY <1>1
<1>3. /\ \A k \in 1..Len(calls) : calls[k] \in 1..Len(tree) /\ calls[k] \in Nat
      /\ \A i, j \in 1..Len(calls) : i < j => calls[i] < calls[j]
  BY <1>1 DEF CallsOK
<1>4. ASSUME NEW k \in 1..Len(calls) - 1 PROVE calls[k] # Cur
  <2>1. k \in 1..Len(calls) /\ k < Len(calls)
    BY <1>2
  <2>2. calls[k] < calls[Len(calls)] /\ calls[k] \in Nat
    BY <1>1, <1>3, <2>1
  <2> QED
    BY <1>1, <2>2
<1> QED
  BY <1>1, <1>2, <1>3, <1>4 DEF StackOK, Mirrors

\* The body being read gets a statement; its scope, what the statement declares.
LEMMA StaysText ==
    ASSUME IInv, NamesInv, calls # <<>>, NEW tx, NEW tr, NEW st2, NEW d, NEW fresh,
           Grows(text[Cur], tx[Cur], d, fresh), Declares(ss, st2, d),
           \A c \in 1..Len(tree) : tr[c] = tree[c] /\ (c # Cur => tx[c] = text[c])
    PROVE  ScopesAsText(st2, calls, tx, tr)
<1> DEFINE m == Len(calls)
<1>1. /\ m \in Nat \ {0} /\ Cur = calls[m] /\ Len(ss.scopes) = m + 1
      /\ \A k \in 1..m : calls[k] \in 1..Len(tree)
      /\ \A k \in 1..m - 1 : k \in 1..m /\ calls[k] # Cur
  BY OpenDistinct
<1>2. ScopesAsText(ss, calls, text, tree)
  BY DEF NamesInv
<1>3. /\ \A k \in 1..m : st2.scopes[k].decls = ss.scopes[k].decls
      /\ \A n \in Names : FirstNamed(st2.scopes[m + 1].decls, n)
                            = Then1(FirstNamed(ss.scopes[m + 1].decls, n), d, n)
  <2>1. m + 1 - 1 = m
    BY <1>1
  <2> QED
    BY <1>1, <2>1 DEF Declares
<1>4. \A k \in 1..m - 1 : tx[calls[k]] = text[calls[k]]
  BY <1>1
<1>5. 1 \in 1..m /\ m \in 1..m /\ (\A k \in 1..m : k = m \/ k \in 1..m - 1)
      /\ \A k \in 1..m - 1 : k + 1 \in 1..m
  BY <1>1
<1>6. st2.scopes[1].decls = ArgDecls(calls[1], tr)
  <2>1. ss.scopes[1].decls = ArgDecls(calls[1], tree)
    BY <1>2 DEF ScopesAsText
  <2>2. tr[calls[1]] = tree[calls[1]]
    BY <1>1, <1>5
  <2> QED
    BY <1>3, <1>5, <2>1, <2>2 DEF ArgDecls
<1>7. ASSUME NEW k \in 1..m, NEW n \in Names
      PROVE  FirstNamed(st2.scopes[k + 1].decls, n) = FirstDecl(tx[calls[k]], n)
  <2>1. FirstNamed(ss.scopes[k + 1].decls, n) = FirstDecl(text[calls[k]], n)
    BY <1>2 DEF ScopesAsText
  <2>2. CASE k = m
    <3>1. FirstDecl(tx[Cur], n) = Then1(FirstDecl(text[Cur], n), d, n)
      BY DEF Grows
    <3> QED
      BY <1>1, <1>3, <2>1, <2>2, <3>1
  <2>3. CASE k \in 1..m - 1
    BY <1>3, <1>4, <1>5, <2>1, <2>3
  <2> QED
    BY <1>5, <2>2, <2>3
<1>8. ASSUME NEW k \in 1..m - 1
      PROVE  tx[calls[k]] # <<>> /\ calls[k + 1] \in BodiesOf(Last(tx[calls[k]]))
  BY <1>2, <1>4 DEF ScopesAsText
<1> QED
  BY <1>6, <1>7, <1>8 DEF ScopesAsText

LEMMA NothingYet ==
    /\ \A n : FirstNamed(<<>>, n) = NoDecl
    /\ \A n : FirstDecl(<<>>, n) = NoDecl
<1>1. Len(<<>>) = 0 /\ 1..0 = {}
  OBVIOUS
<1> QED
  BY <1>1 DEF FirstNamed, FirstDecl

\* A body opens in the last statement of the one being read.
LEMMA EntersText ==
    ASSUME NEW st \in Stack, NEW cs \in Seq(Nat), cs # <<>>, NEW tx, NEW tr,
           Len(st.scopes) = Len(cs) + 1, ScopesAsText(st, cs, tx, tr),
           NEW b \in Nat \ {0}, tx[b] = <<>>,
           tx[cs[Len(cs)]] # <<>>, b \in BodiesOf(Last(tx[cs[Len(cs)]]))
    PROVE  ScopesAsText(PushScope(st, b), Append(cs, b), tx, tr)
<1> DEFINE m == Len(cs)
           cs2 == Append(cs, b)
           st2 == PushScope(st, b)
<1>1. m \in Nat \ {0} /\ Len(cs2) = m + 1 /\ cs2[m + 1] = b /\ \A k \in 1..m : cs2[k] = cs[k]
  BY AppendFacts
<1>2. /\ \A k \in 1..m + 1 : st2.scopes[k] = st.scopes[k]
      /\ st2.scopes[m + 1 + 1].decls = <<>>
  BY PushedScope
<1> HIDE DEF cs2, st2
<1>3. 1 \in 1..m /\ 1 \in 1..m + 1 /\ (\A k \in 1..m + 1 : k = m + 1 \/ k \in 1..m)
      /\ (\A k \in 1..m : k + 1 \in 1..m + 1) /\ (\A k \in 1..m : k = m \/ (k \in 1..m - 1 /\ k + 1 \in 1..m))
      /\ m + 1 - 1 = m
  BY <1>1
<1>4. st2.scopes[1].decls = ArgDecls(cs2[1], tr)
  BY <1>1, <1>2, <1>3 DEF ScopesAsText
<1>5. ASSUME NEW k \in 1..m + 1, NEW n \in Names
      PROVE  FirstNamed(st2.scopes[k + 1].decls, n) = FirstDecl(tx[cs2[k]], n)
  <2>1. CASE k = m + 1
    BY <1>1, <1>2, <2>1, NothingYet
  <2>2. CASE k \in 1..m
    <3>1. FirstNamed(st.scopes[k + 1].decls, n) = FirstDecl(tx[cs[k]], n)
      BY <2>2 DEF ScopesAsText
    <3> QED
      BY <1>1, <1>2, <1>3, <2>2, <3>1
  <2> QED
    BY <1>3, <2>1, <2>2
<1>6. ASSUME NEW k \in 1..m
      PROVE  tx[cs2[k]] # <<>> /\ cs2[k + 1] \in BodiesOf(Last(tx[cs2[k]]))
  <2>1. CASE k = m
    BY <1>1, <2>1
  <2>2. CASE k \in 1..m - 1 /\ k + 1 \in 1..m
    BY <1>1, <2>2 DEF ScopesAsText
  <2> QED
    BY <1>3, <2>1, <2>2
<1>7. ScopesAsText(st2, cs2, tx, tr)
  <2>1. Len(cs2) = m + 1 /\ Len(cs2) - 1 = m
    BY <1>1
  <2>2. \A k \in 1..Len(cs2), n \in Names : FirstNamed(st2.scopes[k + 1].decls, n) = FirstDecl(tx[cs2[k]], n)
    BY <1>5, <2>1
  <2>3. \A k \in 1..Len(cs2) - 1 : tx[cs2[k]] # <<>> /\ cs2[k + 1] \in BodiesOf(Last(tx[cs2[k]]))
    BY <1>6, <2>1
  <2> QED
    BY <1>4, <2>2, <2>3 DEF ScopesAsText
<1> QED
  BY <1>7 DEF cs2, st2

\* The innermost body is done.
LEMMA LeavesText ==
    ASSUME NEW st \in Stack, NEW cs \in Seq(Nat), cs # <<>>, NEW tx, NEW tr, NEW st2,
           Len(st.scopes) = Len(cs) + 1, ScopesAsText(st, cs, tx, tr),
           st2.scopes = Front(st.scopes), Front(cs) # <<>>
    PROVE  ScopesAsText(st2, Front(cs), tx, tr)
<1> DEFINE m == Len(cs)
           cs2 == Front(cs)
<1>1. m \in Nat \ {0} /\ Len(cs2) = m - 1 /\ \A k \in 1..m - 1 : cs2[k] = cs[k]
  BY FrontFacts
<1>2. \A k \in 1..m : st2.scopes[k] = st.scopes[k]
  <2>1. st.scopes \in Seq(Scope) /\ st.scopes # <<>> /\ Len(st.scopes) = m + 1
    BY <1>1, LastScope DEF Stack
  <2>2. m + 1 - 1 = m
    BY <1>1
  <2>3. Front(st.scopes) \in Seq(Scope) /\ \A k \in 1..Len(st.scopes) - 1 : Front(st.scopes)[k] = st.scopes[k]
    BY <2>1, FrontFacts
  <2> QED
    BY <2>1, <2>2, <2>3
<1>3. cs2 \in Seq(Nat)
  BY FrontFacts
<1> HIDE DEF cs2
<1>4. m - 1 # 0
  <2>1. Len(cs2) # 0
    BY <1>3 DEF cs2
  <2> QED
    BY <1>1, <2>1
<1>5. 1 \in 1..m /\ 1 \in 1..m - 1 /\ (\A k \in 1..m - 1 : k \in 1..m /\ k + 1 \in 1..m)
      /\ \A k \in 1..m - 1 - 1 : k \in 1..m - 1 /\ k + 1 \in 1..m - 1
  BY <1>1, <1>4
<1>6. st2.scopes[1].decls = ArgDecls(cs2[1], tr)
  BY <1>1, <1>2, <1>5 DEF ScopesAsText
<1>7. ASSUME NEW k \in 1..m - 1, NEW n \in Names
      PROVE  FirstNamed(st2.scopes[k + 1].decls, n) = FirstDecl(tx[cs2[k]], n)
  <2>1. k \in 1..m /\ k + 1 \in 1..m
    BY <1>5
  <2>2. FirstNamed(st.scopes[k + 1].decls, n) = FirstDecl(tx[cs[k]], n)
    BY <2>1 DEF ScopesAsText
  <2> QED
    BY <1>1, <1>2, <2>1, <2>2
<1>8. \A k \in 1..m - 1 - 1 : tx[cs2[k]] # <<>> /\ cs2[k + 1] \in BodiesOf(Last(tx[cs2[k]]))
  BY <1>1, <1>5 DEF ScopesAsText
<1> QED
  BY <1>1, <1>6, <1>7, <1>8 DEF ScopesAsText, cs2

\* A function's body opens: its arguments, and nothing else.
LEMMA StartsText ==
    ASSUME tree \in Seq(Header), NEW r \in Returns, NEW args \in Seq(DeclNames), NEW b \in Nat \ {0}, b = Fresh,
           NEW tx, tx[b] = <<>>, NEW tr, tr[b].args = args
    PROVE  ScopesAsText(PushScope(ArgStack(r, args), b), <<b>>, tx, tr)
<1> DEFINE st == ArgStack(r, args)
           st2 == PushScope(st, b)
<1>1. st \in Stack /\ Len(st.scopes) = 1
  BY ArgStackFacts
<1>2. st.scopes[1].decls = ArgDecls(b, tr)
  BY ArgStackFacts DEF ArgDecls
<1> HIDE DEF st
<1>3. st2.scopes[1] = st.scopes[1] /\ st2.scopes[1 + 1].decls = <<>>
  <2>1. 1 \in 1..1
    OBVIOUS
  <2> QED
    BY <1>1, <2>1, PushedScope
<1> HIDE DEF st2
<1>4. Len(<<b>>) = 1 /\ <<b>>[1] = b /\ 1..1 = {1} /\ 1..1 - 1 = {}
  OBVIOUS
<1>5. \A k \in 1..1, n \in Names : FirstNamed(st2.scopes[k + 1].decls, n) = FirstDecl(tx[<<b>>[k]], n)
  BY <1>3, <1>4, NothingYet
<1> QED
  BY <1>2, <1>3, <1>4, <1>5 DEF ScopesAsText, st, st2

(***************************************************************************)
(* Kinds of steps: in a body, into one, out of one                         *)
(***************************************************************************)
\* tx is text, but for the body being read, which declares d and holds fresh besides.
TextGrows(tx, d, fresh) ==
    /\ Len(tx) = Len(text) /\ tx \in Seq(Seq(Stmt))
    /\ \A c \in 1..Len(text) : c # Cur => tx[c] = text[c]
    /\ Grows(text[Cur], tx[Cur], d, fresh)

LEMMA ReadGrows ==
    ASSUME IInv, calls # <<>>, NEW s \in Stmt, NEW d \in Decl,
           (DeclsOf(s) = <<>> /\ d = NoDecl) \/ DeclsOf(s) = <<d>>
    PROVE  /\ TextGrows(Read(s), d, BodiesOf(s) \ {NoBody})
           /\ Last(Read(s)[Cur]) = s
<1>1. /\ Read(s) \in Seq(Seq(Stmt)) /\ Len(Read(s)) = Len(text) /\ Last(Read(s)[Cur]) = s
      /\ Cur \in 1..Len(text)
  BY ReadType
<1>2. text \in Seq(Seq(Stmt)) /\ text[Cur] \in Seq(Stmt)
  BY <1>1, TextTypes, ElementOfSeq
<1>3. Append(text[Cur], s) \in Seq(Stmt)
  BY <1>2, AppendFacts
<1> DEFINE grown == Append(text[Cur], s)
<1>4. Read(s) = [text EXCEPT ![Cur] = grown]
  BY DEF Read
<1> HIDE DEF grown
<1>5. Read(s)[Cur] = grown /\ \A c \in 1..Len(text) : c # Cur => Read(s)[c] = text[c]
  BY <1>1, <1>2, <1>3, <1>4, ExceptSeq DEF grown
<1>6. Grows(text[Cur], grown, d, BodiesOf(s) \ {NoBody})
  BY <1>2, GrowsRead DEF grown
<1> QED
  BY <1>1, <1>5, <1>6 DEF TextGrows

LEMMA BranchGrows ==
    ASSUME IInv, calls # <<>>, IsLastIf, NEW b \in Nat, NEW d \in Decl, NEW c \in BOOLEAN
    PROVE  /\ TextGrows(ReadBranch(b, d, c), d, {b} \ {NoBody})
           /\ Last(ReadBranch(b, d, c)[Cur]).kind = "if"
<1> DEFINE stmts == text[Cur]
           s == Last(stmts)
           grown == [stmts EXCEPT ![Len(stmts)] = WithBranch(s, b, d, c)]
<1>1. ReadBranch(b, d, c) \in Seq(Seq(Stmt)) /\ Len(ReadBranch(b, d, c)) = Len(text)
  BY ReadBranchType
<1>2. Cur \in 1..Len(text) /\ text \in Seq(Seq(Stmt)) /\ stmts \in Seq(Stmt) /\ stmts # <<>> /\ s.kind = "if"
  <2>1. Cur \in 1..Len(text) /\ text \in Seq(Seq(Stmt))
    BY AtBody, TextTypes
  <2> QED
    BY <2>1, ElementOfSeq DEF IsLastIf
<1>3. stmts[Len(stmts)] = s
  BY DEF Last
<1>4. Grows(stmts, grown, d, {b} \ {NoBody})
  BY <1>2, GrowsBranch
<1>5. ReadBranch(b, d, c) = [text EXCEPT ![Cur] = grown]
  BY <1>3 DEF ReadBranch
<1>6. grown \in Seq(Stmt)
  BY <1>4 DEF Grows
<1>8. Last(grown).kind = "if"
  <2> DEFINE e == WithBranch(s, b, d, c)
  <2>1. s \in Stmt
    BY <1>2, FrontFacts, ElementOfSeq, <1>3
  <2>2. s \in IfStmt
    BY <1>2, <2>1, IfTypes
  <2>3. e \in Stmt /\ e.kind = "if"
    BY <2>2, IfTypes DEF WithBranch, IfStmt
  <2> HIDE DEF e, s
  <2>4. grown = Append(Front(stmts), e) /\ Front(stmts) \in Seq(Stmt)
    BY <1>2, <2>3, ButLast DEF e
  <2> QED
    BY <2>3, <2>4, LastAppended
<1> HIDE DEF grown
<1>7. ReadBranch(b, d, c)[Cur] = grown /\ \A e \in 1..Len(text) : e # Cur => ReadBranch(b, d, c)[e] = text[e]
  BY <1>2, <1>5, <1>6, ExceptSeq
<1> QED
  BY <1>1, <1>4, <1>7, <1>8 DEF TextGrows

\* A statement without a body.
LEMMA StaysInBody ==
    ASSUME IInv, NamesInv, calls # <<>>, NEW d, TextGrows(text', d, {}), Declares(ss, ss', d),
           UNCHANGED <<tree, calls, saved>>
    PROVE  NamesInv'
<1>1. Len(text) \in Nat /\ Len(text) = Len(tree)
  BY TextTypes
<1>2. TextMoves(text, text', Cur, {})
  BY <1>1 DEF TextMoves, TextGrows, Grows
<1>3. HeldBelow(text') /\ HeldOnce(text')
  BY <1>1, <1>2, HeldKeeps DEF NamesInv
<1>4. ScopesAsText(ss', calls, text', tree)
  BY <1>1, StaysText DEF TextGrows
<1>5. \A i \in 1..Len(saved) :
          /\ ScopesAsText(saved[i].ss, saved[i].calls, text', tree)
          /\ Waits(saved[i].calls, calls, text')
          /\ \A j \in i + 1..Len(saved) : Waits(saved[i].calls, saved[j].calls, text')
  BY <1>2, SuspendedNames
<1> QED
  BY <1>3, <1>4, <1>5 DEF NamesInv

\* OpenBody appends an empty body.
LEMMA OpensText ==
    ASSUME IInv, NEW tx \in Seq(Seq(Stmt)), Len(tx) = Len(text), text' = Append(tx, <<>>),
           NEW h, tree' = Append(tree, h)
    PROVE  /\ Fresh = Len(text) + 1 /\ Fresh \in Nat \ {0} /\ Len(text') = Len(text) + 1 /\ text'[Fresh] = <<>>
           /\ \A c \in 1..Len(text) : text'[c] = tx[c]
           /\ Len(tree') = Len(tree) + 1 /\ tree'[Fresh] = h /\ \A c \in 1..Len(tree) : tree'[c] = tree[c]
           /\ Fresh \notin 1..Len(text)
<1>1. tree \in Seq(Header) /\ Len(text) = Len(tree) /\ Len(text) \in Nat
  BY TextTypes DEF IInv, TypeOK
<1>2. Fresh = Len(text) + 1 /\ Fresh \in Nat \ {0} /\ Fresh \notin 1..Len(text)
  BY <1>1 DEF Fresh
<1>3. Len(text') = Len(text) + 1 /\ text'[Fresh] = <<>> /\ \A c \in 1..Len(text) : text'[c] = tx[c]
  BY <1>1, <1>2
<1>4. Len(tree') = Len(tree) + 1 /\ tree'[Fresh] = h /\ \A c \in 1..Len(tree) : tree'[c] = tree[c]
  BY <1>1, <1>2
<1> QED
  BY <1>2, <1>3, <1>4

\* A statement with a body of the same function.
LEMMA EntersBody ==
    ASSUME IInv, NamesInv, calls # <<>>, NEW d, NEW tx \in Seq(Seq(Stmt)), TextGrows(tx, d, {Fresh}),
           NEW st \in Stack, Declares(ss, st, d), NEW owner, NEW args, OpenBody(tx, st, owner, args),
           calls' = Append(calls, Fresh), saved' = saved
    PROVE  NamesInv'
<1> DEFINE h == [owner |-> owner, args |-> args, parent |-> CurrentBody(st), returns |-> st.returns]
<1>1. text' = Append(tx, <<>>) /\ tree' = Append(tree, h) /\ ss' = PushScope(st, Fresh)
  BY DEF OpenBody
<1> HIDE DEF h
<1>2. /\ Fresh = Len(text) + 1 /\ Fresh \in Nat \ {0} /\ Len(text') = Len(text) + 1 /\ text'[Fresh] = <<>>
      /\ \A c \in 1..Len(text) : text'[c] = tx[c]
      /\ \A c \in 1..Len(tree) : tree'[c] = tree[c]
  BY <1>1, OpensText DEF TextGrows
<1>3. /\ Len(calls) \in Nat \ {0} /\ Cur = calls[Len(calls)] /\ Len(ss.scopes) = Len(calls) + 1
      /\ calls \in Seq(Nat) /\ Cur \in 1..Len(text) /\ Len(text) = Len(tree) /\ Len(text) \in Nat
  BY OpenDistinct, TextTypes
<1>4. text'[Cur] = tx[Cur] /\ Grows(text[Cur], text'[Cur], d, {Fresh})
      /\ \A c \in 1..Len(text) : c # Cur => text'[c] = text[c]
  BY <1>2, <1>3 DEF TextGrows
<1>5. TextMoves(text, text', Cur, {Fresh})
  BY <1>2, <1>4 DEF TextMoves, Grows
<1>6. HeldBelow(text') /\ HeldOnce(text')
  BY <1>3, <1>5, HeldKeeps DEF NamesInv
<1>7. ScopesAsText(st, calls, text', tree')
  BY <1>2, <1>3, <1>4, StaysText
<1>8. ScopesAsText(ss', calls', text', tree')
  <2>1. Len(st.scopes) = Len(calls) + 1
    BY <1>3 DEF Declares
  <2>2. text'[calls[Len(calls)]] # <<>> /\ Fresh \in BodiesOf(Last(text'[calls[Len(calls)]]))
    BY <1>3, <1>4 DEF Grows
  <2> QED
    BY <1>1, <1>2, <1>3, <1>7, <2>1, <2>2, EntersText
<1>9. \A i \in 1..Len(saved) :
          /\ ScopesAsText(saved[i].ss, saved[i].calls, text', tree')
          /\ Waits(saved[i].calls, calls, text')
          /\ \A j \in i + 1..Len(saved) : Waits(saved[i].calls, saved[j].calls, text')
  BY <1>2, <1>5, SuspendedNames
<1>10. calls'[1] = calls[1]
  BY <1>2, <1>3
<1>11. \A i \in 1..Len(saved) : Waits(saved[i].calls, calls', text')
  BY <1>9, <1>10 DEF Waits
<1> QED
  BY <1>6, <1>8, <1>9, <1>11 DEF NamesInv

\* The end of such a body.
LEMMA LeavesBody ==
    ASSUME IInv, NamesInv, calls # <<>>, ss'.scopes = PopScope(ss).scopes, calls' = Front(calls),
           Front(calls) # <<>>, UNCHANGED <<tree, text, saved>>
    PROVE  NamesInv'
<1>1. /\ Len(calls) \in Nat \ {0} /\ Len(ss.scopes) = Len(calls) + 1 /\ ss \in Stack /\ calls \in Seq(Nat)
  BY OpenDistinct
<1>2. ss'.scopes = Front(ss.scopes)
  BY <1>1 DEF PopScope, Stack
<1>3. ScopesAsText(ss', Front(calls), text, tree)
  BY <1>1, <1>2, LeavesText DEF NamesInv
<1>4. Front(calls)[1] = calls[1]
  <2>1. Len(Front(calls)) = Len(calls) - 1 /\ (\A i \in 1..Len(calls) - 1 : Front(calls)[i] = calls[i])
        /\ Front(calls) \in Seq(Nat)
    BY <1>1, FrontFacts
  <2>2. Len(Front(calls)) # 0
    BY <2>1
  <2>3. 1 \in 1..Len(calls) - 1
    BY <1>1, <2>1, <2>2
  <2> QED
    BY <2>1, <2>3
<1>5. \A i \in 1..Len(saved) : Waits(saved[i].calls, Front(calls), text)
  BY <1>4 DEF NamesInv, Waits
<1> QED
  BY <1>3, <1>5 DEF NamesInv

\* Steps of walks, aborts and stuttering.
LEMMA NothingNamed ==
    ASSUME NamesInv, UNCHANGED <<tree, text, ss, calls, saved>>
    PROVE  NamesInv'
BY DEF NamesInv

(***************************************************************************)
(* The actions                                                             *)
(***************************************************************************)
\* No use has just been resolved.
NoUse(tx, cs) == cs # <<>> /\ tx[Last(cs)] # <<>> => Last(tx[Last(cs)]).kind # "use"

LEMMA NoUseLexical ==
    ASSUME NoUse(text', calls')
    PROVE  LexicalScoping'
BY DEF NoUse, LexicalScoping, Cur

\* Nothing of what names resolve to, and nothing that asks, changes.
LEMMA SameLexical ==
    ASSUME LexicalScoping, UNCHANGED <<tree, text, calls>>
    PROVE  LexicalScoping'
BY DEF LexicalScoping, LexicalDecl, Cur, Holder

LEMMA HoldersNoUse ==
    ASSUME NEW s, BodiesOf(s) # {}
    PROVE  s.kind # "use"
BY DEF BodiesOf

\* Statements of the body being read.
LEMMA ReadNames ==
    ASSUME IInv, NamesInv, calls # <<>>, NEW s \in Stmt, NEW d \in Decl,
           (DeclsOf(s) = <<>> /\ d = NoDecl) \/ DeclsOf(s) = <<d>>, BodiesOf(s) \subseteq {NoBody},
           text' = Read(s), Declares(ss, ss', d), UNCHANGED <<tree, calls, saved>>
    PROVE  NamesInv' /\ (s.kind # "use" => LexicalScoping')
<1>1. TextGrows(text', d, {}) /\ Last(text'[Cur]) = s
  <2>1. BodiesOf(s) \ {NoBody} = {}
    OBVIOUS
  <2> QED
    BY <2>1, ReadGrows
<1>2. NamesInv'
  BY <1>1, StaysInBody
<1>3. ASSUME s.kind # "use" PROVE LexicalScoping'
  <2>1. NoUse(text', calls')
    BY <1>1, <1>3 DEF NoUse, Cur
  <2> QED
    BY <2>1, NoUseLexical
<1> QED
  BY <1>2, <1>3

LEMMA RejectNames ==
    ASSUME IInv, NamesInv, Reading, Reject
    PROVE  NamesInv' /\ LexicalScoping'
<1> DEFINE s == [kind |-> "bad"]
<1>1. s \in Stmt /\ s.kind # "use" /\ DeclsOf(s) = <<>> /\ BodiesOf(s) = {}
  BY StmtTypes DEF DeclsOf, BodiesOf
<1>2. text' = Read(s) /\ UNCHANGED <<tree, calls, saved, ss>> /\ calls # <<>>
  BY DEF Reject, Reading
<1> HIDE DEF s
<1>3. Declares(ss, ss', NoDecl)
  BY <1>2, DeclaresNothing
<1> QED
  BY <1>1, <1>2, <1>3, NoDeclType, ReadNames

LEMMA ValDeclNames ==
    ASSUME IInv, NamesInv, NEW n \in DeclNames, NEW h \in Holds, ValDecl(n, h)
    PROVE  NamesInv' /\ LexicalScoping'
<1> DEFINE d == NewDecl(ss, Function, n, h)
           s == [kind |-> "decl", decl |-> d]
<1>1. calls # <<>> /\ text' = Read(s) /\ ss' = PushDecl(ss, d) /\ UNCHANGED <<tree, calls, saved>>
  BY DEF ValDecl, Reads, Reading
<1>2. d \in Decl /\ ss \in Stack /\ ss.scopes # <<>>
  BY <1>1, AtBody, NewDeclType
<1> HIDE DEF d
<1>3. s \in Stmt /\ s.kind # "use" /\ DeclsOf(s) = <<d>> /\ BodiesOf(s) = {}
  BY <1>2, StmtTypes DEF DeclsOf, BodiesOf
<1>4. Declares(ss, ss', d)
  BY <1>1, <1>2, DeclaresPushed
<1> HIDE DEF s
<1> QED
  BY <1>1, <1>2, <1>3, <1>4, ReadNames

\* What is found under a name has it.
LEMMA ResolvedName ==
    ASSUME NEW st \in Stack, NEW n \in Names, ResolveDecl(st, n) # NoDecl
    PROVE  ResolveDecl(st, n).name = n
<1>1. n # NoName
  BY DEF Names
<1>2. CASE /\ \A k \in 1..Len(st.scopes) : FirstNamed(st.scopes[k].decls, n) = NoDecl
           /\ ResolveDecl(st, n) = IF n \in Globals THEN GlobalDecl(n) ELSE NoDecl
  <2>1. ResolveDecl(st, n) = GlobalDecl(n)
    BY <1>2
  <2> QED
    BY <2>1 DEF GlobalDecl, NoDecl
<1>3. CASE \E at \in 1..Len(st.scopes) :
                 /\ FirstNamed(st.scopes[at].decls, n) # NoDecl
                 /\ ResolveDecl(st, n) = FirstNamed(st.scopes[at].decls, n)
  <2>1. PICK at \in 1..Len(st.scopes) : /\ FirstNamed(st.scopes[at].decls, n) # NoDecl
                                        /\ ResolveDecl(st, n) = FirstNamed(st.scopes[at].decls, n)
    BY <1>3
  <2>2. st.scopes[at].decls \in Seq(Decl)
    <3>1. st.scopes \in Seq(Scope)
      BY DEF Stack
    <3>2. st.scopes[at] \in Scope
      BY <3>1, ElementOfSeq
    <3> QED
      BY <3>2 DEF Scope
  <2> DEFINE ds == st.scopes[at].decls
  <2>3. ds \in Seq(Decl) /\ FirstNamed(ds, n) # NoDecl /\ ResolveDecl(st, n) = FirstNamed(ds, n)
    BY <2>1, <2>2
  <2> HIDE DEF ds
  <2>4. \E i \in 1..Len(ds) : ds[i].name = n /\ FirstNamed(ds, n) = ds[i]
    BY <1>1, <2>3, FirstNamedFound
  <2> QED
    BY <2>3, <2>4
<1> QED
  BY <1>1, <1>2, <1>3, Resolves

\* What the scope stack gives is what the text gives.
LEMMA UseNames ==
    ASSUME IInv, NamesInv, NEW n \in Names, Use(n)
    PROVE  NamesInv' /\ LexicalScoping'
<1> DEFINE d == ResolveDecl(ss, n)
           s == [kind |-> "use", decl |-> d]
<1>1. calls # <<>> /\ Reading /\ ss \in Stack /\ n \in DeclNames \cup Globals
  BY DEF Use, Reads, Reading, IInv, TypeOK, Names
<1>2. d \in Decl
  BY <1>1, ResolveDeclType
<1>3. CASE Reject
  BY <1>1, <1>3, RejectNames
<1>4. CASE ~Reject
  <2>1. d # NoDecl /\ text' = Read(s) /\ UNCHANGED <<tree, ss, calls, saved>>
    BY <1>4 DEF Use
  <2>2. d.name = n
    BY <1>1, <2>1, ResolvedName
  <2>3. ResolveDecl(ss, n)' = d
    BY <2>1
  <2> HIDE DEF d
  <2>4. s \in Stmt /\ DeclsOf(s) = <<>> /\ BodiesOf(s) = {} /\ s.kind = "use" /\ s.decl = d
    BY <1>2, StmtTypes DEF DeclsOf, BodiesOf
  <2>5. Declares(ss, ss', NoDecl)
    BY <2>1, DeclaresNothing
  <2> HIDE DEF s
  <2>6. NamesInv'
    BY <1>1, <2>1, <2>4, <2>5, NoDeclType, ReadNames
  <2>7. IInv'
    BY <1>1, UseStep
  <2>8. ResolveDecl(ss, n)' = LexicalDecl(Cur, n)'
    BY <1>1, <2>1, <2>6, <2>7, ResolvesNext
  <2>9. Last(text'[Cur]) = s /\ Cur' = Cur
    BY <1>1, <2>1, <2>4, ReadType DEF Cur
  <2>10. Last(text[Cur])' = s
    BY <2>9
  <2>11. d = LexicalDecl(Cur, n)'
    BY <2>3, <2>8
  <2> DEFINE named(m) == LexicalDecl(Cur, m)
  <2>12. LexicalDecl(Cur, Last(text[Cur]).decl.name)' = LexicalDecl(Cur, n)'
    BY <2>2, <2>4, <2>10 DEF LexicalDecl
  <2> QED
    BY <2>4, <2>6, <2>10, <2>11, <2>12 DEF LexicalScoping
<1> QED
  BY <1>3, <1>4

LEMMA RetOnNullNames ==
    ASSUME IInv, NamesInv, RetOnNull
    PROVE  NamesInv' /\ LexicalScoping'
<1> DEFINE s == [kind |-> "try"]
<1>1. calls # <<>> /\ Reading
  BY DEF RetOnNull, Reads, Reading
<1>2. CASE Reject
  BY <1>1, <1>2, RejectNames
<1>3. CASE ~Reject
  <2>1. text' = Read(s) /\ UNCHANGED <<tree, ss, calls, saved>>
    BY <1>3 DEF RetOnNull
  <2>2. s \in Stmt /\ s.kind # "use" /\ DeclsOf(s) = <<>> /\ BodiesOf(s) = {}
    BY StmtTypes DEF DeclsOf, BodiesOf
  <2> HIDE DEF s
  <2>3. Declares(ss, ss', NoDecl)
    BY <2>1, DeclaresNothing
  <2> QED
    BY <1>1, <2>1, <2>2, <2>3, NoDeclType, ReadNames
<1> QED
  BY <1>2, <1>3

LEMMA EndWalkNames ==
    ASSUME IInv, NamesInv, EndWalk
    PROVE  NamesInv' /\ LexicalScoping'
<1> DEFINE s == [kind |-> walk.kind, loop |-> walk.loop, defers |-> walk.result]
<1>1. calls # <<>> /\ walk.kind \in Exits /\ walk.loop \in Loop /\ walk.result \in Seq(Nat)
  BY DEF EndWalk, IInv, WalkInv, TypeOK, Walk
<1>2. text' = Read(s) /\ UNCHANGED <<tree, ss, calls, saved>>
  BY DEF EndWalk
<1>3. s \in Stmt
  BY <1>1, StmtTypes
<1>4. s.kind \in Exits
  BY <1>1
<1> HIDE DEF s
<1>5. s.kind # "use" /\ DeclsOf(s) = <<>> /\ BodiesOf(s) = {}
  BY <1>4 DEF Exits, DeclsOf, BodiesOf
<1>6. Declares(ss, ss', NoDecl)
  BY <1>2, DeclaresNothing
<1> QED
  BY <1>1, <1>2, <1>3, <1>5, <1>6, NoDeclType, ReadNames

LEMMA UntypedIfNames ==
    ASSUME IInv, NamesInv, NEW x \in Binds, UntypedIf(x)
    PROVE  NamesInv' /\ LexicalScoping'
<1> DEFINE br == [body |-> NoBody, binds |-> Bind(x)]
           s == [kind |-> "if", closed |-> FALSE, branches |-> <<br>>]
<1>1. calls # <<>> /\ text' = Read(s) /\ ss' = Bound(x) /\ UNCHANGED <<tree, calls, saved>>
  BY DEF UntypedIf, SkipBranch, Reads, Reading
<1>2. Bind(x) \in Decl /\ Declares(ss, ss', Bind(x))
  BY <1>1, BoundFacts, BoundDeclares DEF Binds
<1>3. s \in Stmt
  BY <1>2, IfTypes DEF NoBody
<1>4. s.kind = "if" /\ s.branches = <<br>> /\ br.binds = Bind(x) /\ br.body = NoBody
  OBVIOUS
<1> HIDE DEF s, br
<1>5. DeclsOf(s) = <<Bind(x)>> /\ BodiesOf(s) \subseteq {NoBody}
  BY <1>4 DEF DeclsOf, BodiesOf
<1> QED
  BY <1>1, <1>2, <1>3, <1>4, <1>5, ReadNames

LEMMA UntypedElseIfNames ==
    ASSUME IInv, NamesInv, NEW x \in Binds, UntypedElseIf(x)
    PROVE  NamesInv' /\ LexicalScoping'
<1>1. /\ calls # <<>> /\ IsLastIf /\ text' = ReadBranch(NoBody, Bind(x), FALSE) /\ ss' = Bound(x)
      /\ UNCHANGED <<tree, calls, saved>>
  BY DEF UntypedElseIf, SkipBranch, Reading
<1>2. Bind(x) \in Decl /\ Declares(ss, ss', Bind(x))
  BY <1>1, BoundFacts, BoundDeclares DEF Binds
<1>3. TextGrows(text', Bind(x), {NoBody} \ {NoBody})
  BY <1>1, <1>2, BranchGrows DEF NoBody
<1>4. TextGrows(text', Bind(x), {})
  <2>1. {NoBody} \ {NoBody} = {}
    OBVIOUS
  <2> QED
    BY <1>3, <2>1
<1>5. NamesInv'
  BY <1>1, <1>2, <1>4, StaysInBody
<1>6. Last(text'[Cur]).kind = "if"
  BY <1>1, <1>2, BranchGrows DEF NoBody
<1>7. NoUse(text', calls')
  BY <1>1, <1>6 DEF NoUse, Cur
<1> QED
  BY <1>5, <1>7, NoUseLexical

\* A body that has just opened holds no statement.
LEMMA NewBodyNames ==
    ASSUME IInv, NEW cs \in Seq(Nat), calls' = Append(cs, Fresh), NEW tx \in Seq(Seq(Stmt)), Len(tx) = Len(text),
           NEW st, NEW owner, NEW args, OpenBody(tx, st, owner, args)
    PROVE  LexicalScoping'
<1> DEFINE h == [owner |-> owner, args |-> args, parent |-> CurrentBody(st), returns |-> st.returns]
<1>1. text' = Append(tx, <<>>) /\ tree' = Append(tree, h)
  BY DEF OpenBody
<1> HIDE DEF h
<1>2. text'[Fresh] = <<>> /\ Fresh \in Nat
  BY <1>1, OpensText
<1>3. Last(calls') = Fresh
  BY <1>2, AppendFacts DEF Last
<1>4. NoUse(text', calls')
  BY <1>2, <1>3 DEF NoUse
<1> QED
  BY <1>4, NoUseLexical

LEMMA EntersNames ==
    ASSUME IInv, NamesInv, calls # <<>>, NEW d, NEW tx, TextGrows(tx, d, {Fresh}),
           NEW st \in Stack, Declares(ss, st, d), NEW owner, NEW args, OpenBody(tx, st, owner, args),
           calls' = Append(calls, Fresh), saved' = saved
    PROVE  NamesInv' /\ LexicalScoping'
<1>1. tx \in Seq(Seq(Stmt)) /\ Len(tx) = Len(text)
  BY DEF TextGrows
<1>2. NamesInv'
  BY <1>1, EntersBody
<1>3. calls \in Seq(Nat)
  BY DEF IInv, TypeOK
<1>4. LexicalScoping'
  BY <1>1, <1>3, NewBodyNames
<1> QED
  BY <1>2, <1>4

\* The next body to be read has a number that no body has.
LEMMA FreshNumber == IInv => Fresh \in Nat /\ Fresh # NoBody /\ {Fresh} \ {NoBody} = {Fresh}
BY TextTypes DEF Fresh, NoBody

LEMMA BeginWhileNames ==
    ASSUME IInv, NamesInv, NEW n \in Labels, NEW x \in Binds, NEW ok, BeginWhile(n, x, ok)
    PROVE  NamesInv' /\ LexicalScoping'
<1> DEFINE loop == [name |-> n, body |-> Fresh]
           s == [kind |-> "while", loop |-> loop, binds |-> Bind(x)]
           b == Bound(x)
           st == IF Redefines(b, n) THEN b ELSE [b EXCEPT !.loops = Append(@, loop)]
<1>1. calls # <<>>
  BY DEF BeginWhile, Reads, Reading
<1>2. Bind(x) \in Decl /\ b \in Stack /\ Declares(ss, b, Bind(x))
  BY <1>1, BoundFacts, BoundDeclares DEF Binds
<1>3. loop \in Loop /\ loop.body = Fresh
  BY FreshNumber DEF Loop, Labels
<1>4. /\ OpenBody(Read(s), st, "while", <<>>)
      /\ calls' = Append(calls, Fresh) /\ saved' = saved
  BY DEF BeginWhile
<1> HIDE DEF b, loop
<1>5. s \in Stmt /\ DeclsOf(s) = <<Bind(x)>> /\ BodiesOf(s) = {Fresh}
  BY <1>2, <1>3, StmtTypes DEF DeclsOf, BodiesOf
<1> HIDE DEF s
<1>6. st \in Stack /\ st.scopes = b.scopes
  <2>1. CASE Redefines(b, n)
    BY <1>2, <2>1
  <2>2. CASE ~Redefines(b, n)
    <3> DEFINE loops == Append(b.loops, loop)
    <3>1. loops \in Seq(Loop)
      BY <1>2, <1>3, AppendFacts DEF Stack
    <3>2. st = [b EXCEPT !.loops = loops]
      BY <2>2
    <3> HIDE DEF st, loops
    <3> QED
      BY <1>2, <3>1, <3>2 DEF Stack
  <2> QED
    BY <2>1, <2>2
<1> HIDE DEF st
<1>7. Declares(ss, st, Bind(x))
  BY <1>2, <1>6 DEF Declares
<1>8. TextGrows(Read(s), Bind(x), {Fresh})
  <2>1. TextGrows(Read(s), Bind(x), {Fresh} \ {NoBody})
    BY <1>1, <1>2, <1>5, ReadGrows
  <2> QED
    BY <2>1, FreshNumber
<1> QED
  BY <1>1, <1>4, <1>6, <1>7, <1>8, EntersNames

LEMMA BeginIfNames ==
    ASSUME IInv, NamesInv, NEW x \in Binds, NEW ok, BeginIf(x, ok)
    PROVE  NamesInv' /\ LexicalScoping'
<1> DEFINE br == [body |-> Fresh, binds |-> Bind(x)]
           s == [kind |-> "if", closed |-> FALSE, branches |-> <<br>>]
<1>1. /\ calls # <<>> /\ OpenBody(Read(s), Bound(x), "if", <<>>)
      /\ calls' = Append(calls, Fresh) /\ saved' = saved
  BY DEF BeginIf, Reads, Reading
<1>2. Bind(x) \in Decl /\ Bound(x) \in Stack /\ Declares(ss, Bound(x), Bind(x))
  BY <1>1, BoundFacts, BoundDeclares DEF Binds
<1>3. s \in Stmt
  BY <1>2, IfTypes, FreshNumber
<1>4. s.kind = "if" /\ s.branches = <<br>> /\ br.binds = Bind(x) /\ br.body = Fresh
  OBVIOUS
<1> HIDE DEF s, br
<1>5. DeclsOf(s) = <<Bind(x)>> /\ BodiesOf(s) = {Fresh}
  BY <1>4 DEF DeclsOf, BodiesOf
<1>6. TextGrows(Read(s), Bind(x), {Fresh})
  <2>1. TextGrows(Read(s), Bind(x), {Fresh} \ {NoBody})
    BY <1>1, <1>2, <1>3, <1>5, ReadGrows
  <2> QED
    BY <2>1, FreshNumber
<1> QED
  BY <1>1, <1>2, <1>6, EntersNames

LEMMA ElseIfNames ==
    ASSUME IInv, NamesInv, NEW x \in Binds, NEW ok, ElseIf(x, ok)
    PROVE  NamesInv' /\ LexicalScoping'
<1>1. /\ calls # <<>> /\ IsLastIf /\ OpenBody(ReadBranch(Fresh, Bind(x), FALSE), Bound(x), "if", <<>>)
      /\ calls' = Append(calls, Fresh) /\ saved' = saved
  BY DEF ElseIf, Reading
<1>2. Bind(x) \in Decl /\ Bound(x) \in Stack /\ Declares(ss, Bound(x), Bind(x))
  BY <1>1, BoundFacts, BoundDeclares DEF Binds
<1>3. TextGrows(ReadBranch(Fresh, Bind(x), FALSE), Bind(x), {Fresh})
  <2>1. TextGrows(ReadBranch(Fresh, Bind(x), FALSE), Bind(x), {Fresh} \ {NoBody})
    BY <1>1, <1>2, BranchGrows, FreshNumber
  <2> QED
    BY <2>1, FreshNumber
<1> QED
  BY <1>1, <1>2, <1>3, EntersNames

LEMMA ElseNames ==
    ASSUME IInv, NamesInv, Else
    PROVE  NamesInv' /\ LexicalScoping'
<1>1. /\ calls # <<>> /\ IsLastIf /\ OpenBody(ReadBranch(Fresh, NoDecl, TRUE), ss, "if", <<>>)
      /\ calls' = Append(calls, Fresh) /\ saved' = saved
  BY DEF Else, Reading
<1>2. ss \in Stack /\ Declares(ss, ss, NoDecl)
  BY DeclaresNothing DEF IInv, TypeOK
<1>3. TextGrows(ReadBranch(Fresh, NoDecl, TRUE), NoDecl, {Fresh})
  <2>1. TextGrows(ReadBranch(Fresh, NoDecl, TRUE), NoDecl, {Fresh} \ {NoBody})
    BY <1>1, NoDeclType, BranchGrows, FreshNumber
  <2> QED
    BY <2>1, FreshNumber
<1> QED
  BY <1>1, <1>2, <1>3, EntersNames

LEMMA BeginDeferNames ==
    ASSUME IInv, NamesInv, BeginDefer
    PROVE  NamesInv' /\ LexicalScoping'
<1> DEFINE s == [kind |-> "defer", body |-> Fresh]
<1>1. /\ calls # <<>> /\ OpenBody(Read(s), ss, "defer", <<>>)
      /\ calls' = Append(calls, Fresh) /\ saved' = saved
  BY DEF BeginDefer, Reads, Reading
<1>2. ss \in Stack /\ Declares(ss, ss, NoDecl)
  BY DeclaresNothing DEF IInv, TypeOK
<1>3. s \in Stmt /\ DeclsOf(s) = <<>> /\ BodiesOf(s) = {Fresh}
  BY StmtTypes, FreshNumber DEF DeclsOf, BodiesOf
<1> HIDE DEF s
<1>4. TextGrows(Read(s), NoDecl, {Fresh})
  <2>1. TextGrows(Read(s), NoDecl, {Fresh} \ {NoBody})
    BY <1>1, <1>3, NoDeclType, ReadGrows
  <2> QED
    BY <2>1, FreshNumber
<1> QED
  BY <1>1, <1>2, <1>4, EntersNames

\* The last statement of the body returned to holds the body left.
LEMMA LeavesNames ==
    ASSUME IInv, NamesInv, calls # <<>>, tree[Cur].owner \notin {"func", "anon"},
           ss'.scopes = PopScope(ss).scopes, calls' = Front(calls), UNCHANGED <<tree, text, saved>>
    PROVE  NamesInv' /\ LexicalScoping'
<1>1. /\ Len(calls) \in Nat \ {0} /\ Cur = calls[Len(calls)] /\ calls \in Seq(Nat) /\ tree \in Seq(Header)
      /\ CallsOK(calls, tree, RootOf(Len(saved))) /\ RootOf(Len(saved)) \in {"func", "anon"}
  BY AtBody DEF RootOf
<1>2. Front(calls) # <<>> /\ Front(calls) \in Seq(Nat)
  BY <1>1, CallsLeave DEF CallsOK
<1>3. NamesInv'
  BY <1>2, LeavesBody
<1> DEFINE m == Len(calls)
<1>4. Last(Front(calls)) = calls[m - 1] /\ m - 1 \in 1..m - 1 /\ m - 1 + 1 = m
  <2>1. /\ Len(Front(calls)) = m - 1 /\ (\A i \in 1..m - 1 : Front(calls)[i] = calls[i])
        /\ Last(Front(calls)) = Front(calls)[Len(Front(calls))] /\ Len(Front(calls)) \in Nat \ {0}
    BY <1>1, <1>2, FrontFacts
  <2>2. m - 1 \in 1..m - 1 /\ m - 1 + 1 = m
    BY <1>1, <2>1
  <2> QED
    BY <2>1, <2>2
<1>5. ScopesAsText(ss, calls, text, tree)
  BY DEF NamesInv
<1>6. calls[m] \in BodiesOf(Last(text[calls[m - 1]]))
  BY <1>4, <1>5 DEF ScopesAsText
<1>7. NoUse(text', calls')
  BY <1>4, <1>6, HoldersNoUse DEF NoUse
<1> QED
  BY <1>3, <1>7, NoUseLexical

LEMMA EndIfNames ==
    ASSUME IInv, NamesInv, EndIf
    PROVE  NamesInv' /\ LexicalScoping'
<1>1. /\ calls # <<>> /\ tree[Cur].owner = "if"
      /\ ss' = PopScope(ss) /\ calls' = Front(calls) /\ UNCHANGED <<tree, text, saved>>
  BY DEF EndIf, Reading
<1> QED
  BY <1>1, LeavesNames

LEMMA AbortNames ==
    ASSUME NamesInv, LexicalScoping, Abort
    PROVE  NamesInv' /\ LexicalScoping'
BY NothingNamed, SameLexical DEF Abort

LEMMA EndWhileNames ==
    ASSUME IInv, NamesInv, LexicalScoping, EndWhile
    PROVE  NamesInv' /\ LexicalScoping'
<1>1. calls # <<>> /\ tree[Cur].owner = "while"
  BY DEF EndWhile, Reading
<1>2. CASE Abort
  BY <1>2, AbortNames
<1>3. CASE ~Abort
  <2>1. /\ ss' = [PopScope(ss) EXCEPT !.loops = Front(@)] /\ calls' = Front(calls)
        /\ UNCHANGED <<tree, text, saved>>
    BY <1>3 DEF EndWhile
  <2>2. PopScope(ss) \in Stack
    BY <1>1, AtBody, PopScopeFacts
  <2> DEFINE st == PopScope(ss)
             loops == Front(st.loops)
  <2>3. ss' = [st EXCEPT !.loops = loops] /\ st \in Stack
    BY <2>1, <2>2
  <2> HIDE DEF st, loops
  <2>4. ss'.scopes = st.scopes
    BY <2>3 DEF Stack
  <2> QED
    BY <1>1, <2>1, <2>4, LeavesNames DEF st
<1> QED
  BY <1>2, <1>3

LEMMA EndDeferNames ==
    ASSUME IInv, NamesInv, LexicalScoping, EndDefer
    PROVE  NamesInv' /\ LexicalScoping'
<1>1. calls # <<>> /\ tree[Cur].owner = "defer"
  BY DEF EndDefer, Reading
<1>2. CASE Abort
  BY <1>2, AbortNames
<1>3. CASE ~Abort
  <2>1. ss' = PopScope(ss) /\ calls' = Front(calls) /\ UNCHANGED <<tree, text, saved>>
    BY <1>3 DEF EndDefer
  <2> QED
    BY <1>1, <2>1, LeavesNames
<1> QED
  BY <1>2, <1>3

\* The body of a function opens: what is said of its scopes and its text.
LEMMA FunctionNames ==
    ASSUME IInv, NEW tx \in Seq(Seq(Stmt)), Len(tx) = Len(text), NEW r \in Returns, NEW args \in Seq(DeclNames),
           NEW owner, OpenBody(tx, ArgStack(r, args), owner, args), calls' = <<Fresh>>
    PROVE  /\ ScopesAsText(ss', calls', text', tree') /\ LexicalScoping'
           /\ Fresh = Len(text) + 1 /\ Len(text') = Len(text) + 1 /\ text'[Fresh] = <<>>
           /\ \A c \in 1..Len(text) : text'[c] = tx[c]
           /\ \A c \in 1..Len(tree) : tree'[c] = tree[c]
<1> DEFINE h == HeaderOf(ArgStack(r, args), owner, args)
<1>1. /\ tree' = Append(tree, h) /\ text' = Append(tx, <<>>) /\ ss' = PushScope(ArgStack(r, args), Fresh)
      /\ h.args = args
  BY DEF OpenBody, HeaderOf
<1> HIDE DEF h
<1>2. /\ Fresh = Len(text) + 1 /\ Fresh \in Nat \ {0} /\ Len(text') = Len(text) + 1 /\ text'[Fresh] = <<>>
      /\ \A c \in 1..Len(text) : text'[c] = tx[c]
      /\ tree'[Fresh] = h /\ \A c \in 1..Len(tree) : tree'[c] = tree[c]
  BY <1>1, OpensText
<1>3. ScopesAsText(ss', calls', text', tree')
  <2>1. tree \in Seq(Header)
    BY DEF IInv, TypeOK
  <2> QED
    BY <1>1, <1>2, <2>1, StartsText
<1>4. LexicalScoping'
  <2>1. <<>> \in Seq(Nat) /\ calls' = Append(<<>>, Fresh)
    BY <1>2, EmptySeq
  <2> QED
    BY <2>1, NewBodyNames
<1> QED
  BY <1>2, <1>3, <1>4

LEMMA BeginFuncNames ==
    ASSUME IInv, NamesInv, NEW r \in FuncReturns, NEW args \in ArgLists, BeginFunc(r, args)
    PROVE  NamesInv' /\ LexicalScoping'
<1>1. /\ calls = <<>> /\ OpenBody(text, ArgStack(r, args), "func", args) /\ calls' = <<Fresh>>
      /\ saved' = saved
  BY DEF BeginFunc
<1>2. r \in Returns /\ args \in Seq(DeclNames) /\ text \in Seq(Seq(Stmt)) /\ Len(text) \in Nat
  BY ArgListType, BoundsAssumption, TextTypes DEF Returns
<1>3. saved' = <<>> /\ 1..Len(saved') = {}
  <2>1. saved = <<>>
    BY <1>1 DEF IInv, CallsInv
  <2> QED
    BY <1>1, <2>1
<1>4. /\ ScopesAsText(ss', calls', text', tree') /\ LexicalScoping'
      /\ Fresh = Len(text) + 1 /\ Len(text') = Len(text) + 1 /\ text'[Fresh] = <<>>
      /\ \A c \in 1..Len(text) : text'[c] = text[c]
  BY <1>1, <1>2, FunctionNames
<1>5. TextMoves(text, text', NoBody, {})
  <2>1. NoBody \notin 1..Len(text)
    BY <1>2 DEF NoBody
  <2> QED
    BY <1>4, <2>1 DEF TextMoves
<1>6. HeldBelow(text') /\ HeldOnce(text')
  BY <1>2, <1>5, HeldKeeps DEF NamesInv
<1> QED
  BY <1>3, <1>4, <1>6 DEF NamesInv

LEMMA EndFuncNames ==
    ASSUME IInv, NamesInv, EndFunc
    PROVE  NamesInv' /\ LexicalScoping'
<1>1. /\ Reading /\ calls # <<>> /\ tree[Cur].owner = "func"
      /\ calls' = <<>> /\ UNCHANGED <<tree, text, saved>>
  BY DEF EndFunc, Reading
<1>2. saved = <<>>
  BY <1>1, OnlyFunction
<1>3. 1..Len(saved') = {}
  BY <1>1, <1>2
<1>4. NamesInv'
  BY <1>1, <1>3 DEF NamesInv
<1> QED
  BY <1>1, <1>4 DEF LexicalScoping

\* The running function is suspended: what held of it is kept for its return.
LEMMA BeginAnonNames ==
    ASSUME IInv, NamesInv, NEW r \in FuncReturns, NEW args \in ArgLists, BeginAnon(r, args)
    PROVE  NamesInv' /\ LexicalScoping'
<1> DEFINE s == [kind |-> "anon", body |-> Fresh]
           frame == [ss |-> ss, calls |-> calls]
           F == [ss : Stack, calls : Seq(Nat)]
           tx == Read(s)
<1>1. /\ calls # <<>> /\ calls' = <<Fresh>> /\ saved' = Append(saved, frame)
      /\ OpenBody(tx, ArgStack(r, args), "anon", args)
  BY DEF BeginAnon, Reads, Reading
<1>2. r \in Returns /\ args \in Seq(DeclNames)
  BY ArgListType, BoundsAssumption DEF Returns
<1>3. s \in Stmt /\ DeclsOf(s) = <<>> /\ BodiesOf(s) = {Fresh} /\ s.kind = "anon"
  BY StmtTypes, FreshNumber DEF DeclsOf, BodiesOf
<1> HIDE DEF s
<1>4. TextGrows(tx, NoDecl, {Fresh}) /\ Last(tx[Cur]) = s
  <2>1. TextGrows(tx, NoDecl, {Fresh} \ {NoBody}) /\ Last(tx[Cur]) = s
    BY <1>1, <1>3, NoDeclType, ReadGrows
  <2> QED
    BY <2>1, FreshNumber
<1>5. tx \in Seq(Seq(Stmt)) /\ Len(tx) = Len(text)
  BY <1>4 DEF TextGrows
<1> HIDE DEF tx
<1>6. /\ ScopesAsText(ss', calls', text', tree') /\ LexicalScoping'
      /\ Fresh = Len(text) + 1 /\ Len(text') = Len(text) + 1 /\ text'[Fresh] = <<>>
      /\ \A c \in 1..Len(text) : text'[c] = tx[c]
      /\ \A c \in 1..Len(tree) : tree'[c] = tree[c]
  BY <1>1, <1>2, <1>5, FunctionNames
<1>7. /\ Len(calls) \in Nat \ {0} /\ Cur = calls[Len(calls)] /\ ss \in Stack /\ calls \in Seq(Nat)
      /\ Cur \in 1..Len(text) /\ Len(text) = Len(tree) /\ Len(text) \in Nat
      /\ \A k \in 1..Len(calls) : calls[k] \in 1..Len(text)
  BY <1>1, OpenDistinct, TextTypes
<1>8. text'[Cur] = tx[Cur] /\ Grows(text[Cur], text'[Cur], NoDecl, {Fresh})
      /\ \A c \in 1..Len(text) : c # Cur => text'[c] = text[c]
  BY <1>4, <1>6, <1>7 DEF TextGrows
<1>9. TextMoves(text, text', Cur, {Fresh})
  BY <1>6, <1>8 DEF TextMoves, Grows
<1>10. HeldBelow(text') /\ HeldOnce(text')
  BY <1>7, <1>9, HeldKeeps DEF NamesInv
<1>11. ScopesAsText(ss, calls, text', tree')
  <2>1. Declares(ss, ss, NoDecl)
    BY DeclaresNothing
  <2> QED
    BY <1>1, <1>6, <1>7, <1>8, <2>1, StaysText
<1>12. Waits(calls, calls', text')
  <2>1. Last(calls) = Cur /\ calls'[1] = Fresh
    BY <1>1 DEF Cur
  <2>2. \A k \in 1..Len(calls) : calls[k] < Fresh
    BY <1>6, <1>7
  <2> QED
    BY <1>3, <1>4, <1>8, <2>1, <2>2 DEF Waits, Grows
<1>13. \A i \in 1..Len(saved) :
          /\ ScopesAsText(saved[i].ss, saved[i].calls, text', tree')
          /\ Waits(saved[i].calls, calls, text')
          /\ \A j \in i + 1..Len(saved) : Waits(saved[i].calls, saved[j].calls, text')
  BY <1>1, <1>6, <1>9, SuspendedNames
<1>14. \A i \in 1..Len(saved) : Waits(saved[i].calls, calls', text')
  <2>1. ASSUME NEW i \in 1..Len(saved) PROVE Waits(saved[i].calls, calls', text')
    <3>1. Waits(saved[i].calls, calls, text')
      BY <1>13
    <3>2. CallsOK(saved[i].calls, tree, RootOf(i - 1)) /\ calls'[1] = Fresh
      BY <1>1 DEF IInv, CallsInv
    <3>3. \A k \in 1..Len(saved[i].calls) : saved[i].calls[k] < Fresh
      BY <1>6, <1>7, <3>2 DEF CallsOK
    <3> QED
      BY <3>1, <3>2, <3>3 DEF Waits
  <2> QED
    BY <2>1
<1>15. frame.ss = ss /\ frame.calls = calls /\ frame \in F
  BY <1>7
<1> HIDE DEF frame
<1>16. /\ Len(saved') = Len(saved) + 1 /\ saved'[Len(saved) + 1] = frame /\ Len(saved) \in Nat
       /\ \A i \in 1..Len(saved) : saved'[i] = saved[i]
  <2>1. saved \in Seq(F)
    BY DEF IInv, TypeOK
  <2> HIDE DEF F
  <2> QED
    BY <1>1, <1>15, <2>1, AppendFacts, LenProperties
<1> DEFINE m == Len(saved)
<1>17. ASSUME NEW i \in 1..m + 1
       PROVE  /\ ScopesAsText(saved'[i].ss, saved'[i].calls, text', tree')
              /\ Waits(saved'[i].calls, calls', text')
              /\ \A j \in i + 1..m + 1 : Waits(saved'[i].calls, saved'[j].calls, text')
  <2>1. CASE i = m + 1
    <3>1. i + 1..m + 1 = {}
      BY <1>16, <2>1
    <3> QED
      BY <1>11, <1>12, <1>15, <1>16, <2>1, <3>1
  <2>2. CASE i \in 1..m
    <3>1. ASSUME NEW j \in i + 1..m + 1 PROVE Waits(saved'[i].calls, saved'[j].calls, text')
      <4>1. j = m + 1 \/ (j \in i + 1..m /\ j \in 1..m)
        BY <1>16, <2>2
      <4> QED
        BY <1>13, <1>15, <1>16, <2>2, <4>1
    <3> QED
      BY <1>13, <1>14, <1>16, <2>2, <3>1
  <2>3. i = m + 1 \/ i \in 1..m
    BY <1>16
  <2> QED
    BY <2>1, <2>2, <2>3
<1> QED
  BY <1>6, <1>10, <1>16, <1>17 DEF NamesInv

LEMMA EndAnonNames ==
    ASSUME IInv, NamesInv, EndAnon
    PROVE  NamesInv' /\ LexicalScoping'
<1> DEFINE m == Len(saved)
           F == [ss : Stack, calls : Seq(Nat)]
<1>1. /\ Reading /\ calls # <<>> /\ tree[Cur].owner = "anon"
      /\ ss' = Last(saved).ss /\ calls' = Last(saved).calls /\ saved' = Front(saved)
      /\ UNCHANGED <<tree, text>>
  BY DEF EndAnon, Reading
<1>2. saved # <<>>
  BY <1>1, OnlyFunction
<1>3. /\ Len(saved') = m - 1 /\ Last(saved) = saved[m] /\ m \in Nat \ {0}
      /\ \A i \in 1..m - 1 : saved'[i] = saved[i]
  <2>1. saved \in Seq(F)
    BY DEF IInv, TypeOK
  <2> HIDE DEF F
  <2> QED
    BY <1>1, <1>2, <2>1, FrontFacts
<1>4. m \in 1..m /\ (\A i \in 1..m - 1 : i \in 1..m /\ m \in i + 1..m)
      /\ \A i \in 1..m - 1 : \A j \in i + 1..m - 1 : j \in i + 1..m /\ j \in 1..m - 1
  BY ONLY <1>3
<1>5. ScopesAsText(ss', calls', text, tree) /\ Waits(calls', calls, text)
  BY <1>1, <1>3, <1>4 DEF NamesInv
<1>6. \A i \in 1..m - 1 :
          /\ ScopesAsText(saved'[i].ss, saved'[i].calls, text, tree)
          /\ Waits(saved'[i].calls, calls', text)
          /\ \A j \in i + 1..m - 1 : Waits(saved'[i].calls, saved'[j].calls, text)
  BY <1>1, <1>3, <1>4 DEF NamesInv
<1>7. NamesInv'
  BY <1>1, <1>3, <1>5, <1>6 DEF NamesInv
<1>8. NoUse(text', calls')
  BY <1>1, <1>5 DEF NoUse, Waits
<1> QED
  BY <1>7, <1>8, NoUseLexical

LEMMA WalksNames ==
    ASSUME IInv, NamesInv, LexicalScoping
    PROVE  /\ \A kind \in Exits, n \in Labels : LoopControl(kind, n) => NamesInv' /\ LexicalScoping'
           /\ \A v \in BOOLEAN : Return(v) => NamesInv' /\ LexicalScoping'
           /\ WalkOut => NamesInv' /\ LexicalScoping'
<1>1. UNCHANGED <<tree, text, ss, calls, saved>> => NamesInv' /\ LexicalScoping'
  BY NothingNamed, SameLexical
<1>2. \A kind, loop : StartWalk(kind, loop) => UNCHANGED <<tree, text, ss, calls, saved>>
  BY DEF StartWalk, Abort
<1>3. Reading /\ Reject => NamesInv' /\ LexicalScoping'
  BY RejectNames
<1>4. ASSUME NEW kind \in Exits, NEW n \in Labels, LoopControl(kind, n) PROVE NamesInv' /\ LexicalScoping'
  BY <1>1, <1>2, <1>3, <1>4 DEF LoopControl, Reads
<1>5. ASSUME NEW v \in BOOLEAN, Return(v) PROVE NamesInv' /\ LexicalScoping'
  BY <1>1, <1>2, <1>3, <1>5 DEF Return, Reads
<1>6. WalkOut => NamesInv' /\ LexicalScoping'
  BY <1>1 DEF WalkOut
<1> QED
  BY <1>4, <1>5, <1>6

\* Every step.
LEMMA NextNames ==
    IInv /\ NamesInv /\ LexicalScoping /\ [Next]_vars => NamesInv' /\ LexicalScoping'
<1> SUFFICES ASSUME IInv, NamesInv, LexicalScoping, [Next]_vars PROVE NamesInv' /\ LexicalScoping'
  OBVIOUS
<1>1. ASSUME NEW r \in FuncReturns, NEW args \in ArgLists, BeginFunc(r, args) \/ BeginAnon(r, args)
      PROVE  NamesInv' /\ LexicalScoping'
  BY <1>1, BeginFuncNames, BeginAnonNames
<1>2. CASE EndFunc
  BY <1>2, EndFuncNames
<1>3. CASE EndAnon
  BY <1>3, EndAnonNames
<1>4. ASSUME NEW n \in DeclNames, NEW h \in Holds, ValDecl(n, h)
      PROVE  NamesInv' /\ LexicalScoping'
  BY <1>4, ValDeclNames
<1>5. ASSUME NEW n \in DeclNames \cup Globals, Use(n)
      PROVE  NamesInv' /\ LexicalScoping'
  <2>1. n \in Names
    BY NamesAssumption DEF Names
  <2> QED
    BY <1>5, <2>1, UseNames
<1>6. CASE TypeError
  BY <1>6, RejectNames DEF TypeError, Reads
<1>7. ASSUME NEW n \in Labels, NEW x \in Binds, NEW ok \in CondTypes, BeginWhile(n, x, ok)
      PROVE  NamesInv' /\ LexicalScoping'
  BY <1>7, BeginWhileNames
<1>8. CASE EndWhile
  BY <1>8, EndWhileNames
<1>9. ASSUME NEW x \in Binds, NEW ok \in CondTypes, BeginIf(x, ok) \/ ElseIf(x, ok)
      PROVE  NamesInv' /\ LexicalScoping'
  BY <1>9, BeginIfNames, ElseIfNames
<1>10. ASSUME NEW x \in Binds, UntypedIf(x) \/ UntypedElseIf(x)
       PROVE  NamesInv' /\ LexicalScoping'
  BY <1>10, UntypedIfNames, UntypedElseIfNames
<1>11. CASE Else
  BY <1>11, ElseNames
<1>12. CASE EndIf
  BY <1>12, EndIfNames
<1>13. CASE BeginDefer
  BY <1>13, BeginDeferNames
<1>14. CASE EndDefer
  BY <1>14, EndDeferNames
<1>15. ASSUME NEW kind \in {"break", "continue"}, NEW n \in Labels, LoopControl(kind, n)
       PROVE  NamesInv' /\ LexicalScoping'
  BY <1>15, WalksNames DEF Exits
<1>16. ASSUME NEW v \in BOOLEAN, Return(v)
       PROVE  NamesInv' /\ LexicalScoping'
  BY <1>16, WalksNames
<1>17. CASE WalkOut
  BY <1>17, WalksNames
<1>18. CASE EndWalk
  BY <1>18, EndWalkNames
<1>19. CASE RetOnNull
  BY <1>19, RetOnNullNames
<1>20. CASE UNCHANGED vars
  BY <1>20, NothingNamed, SameLexical DEF vars
<1> QED
  BY <1>1, <1>2, <1>3, <1>4, <1>5, <1>6, <1>7, <1>8, <1>9, <1>10, <1>11, <1>12, <1>13,
     <1>14, <1>15, <1>16, <1>17, <1>18, <1>19, <1>20 DEF Next

LEMMA InitNames == Init => NamesInv /\ LexicalScoping
<1> SUFFICES ASSUME Init PROVE NamesInv /\ LexicalScoping
  OBVIOUS
<1>1. calls = <<>> /\ 1..Len(text) = {} /\ 1..Len(saved) = {}
  BY DEF Init
<1> QED
  BY <1>1 DEF NamesInv, LexicalScoping, HeldBelow, HeldOnce

\* Whatever the program, a name that sema_ss_resolve_decl finds through the
\* stack of scopes is the declaration that the text of the enclosing bodies
\* gives it.
THEOREM NamesResolveLexically == Spec => []LexicalScoping
<1>1. Init => IInv /\ NamesInv /\ LexicalScoping
  BY InitIInv, InitNames
<1>2. IInv /\ NamesInv /\ LexicalScoping /\ [Next]_vars => (IInv /\ NamesInv /\ LexicalScoping)'
  BY NextIInv, NextNames
<1> QED
  BY <1>1, <1>2, PTL DEF Spec
=============================================================================
