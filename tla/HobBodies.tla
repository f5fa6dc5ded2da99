------------------------------ MODULE HobBodies ------------------------------
(***************************************************************************)
(* Semantic analysis of function bodies: sema_ast_body and the statement   *)
(* handlers it calls, the scope stack (SemaScopeStack) with its named      *)
(* loops, and the defer lists hung on the AST.                             *)
(*                                                                         *)
(* The analyser reads every statement once, in source order, so the        *)
(* program is read as the walk goes: each action picks the next statement  *)
(* of the innermost open body and appends it, annotated, to that body.     *)
(* Expressions are analysed before the statement that holds them touches   *)
(* the scope stack, so an expression with an effect of its own (`unwrap`   *)
(* outside a condition, an anonymous function) is a statement of its own.  *)
(***************************************************************************)
EXTENDS Naturals, Sequences, SequencesExt

CONSTANTS
    LoopNames,  \* names a `while[name]` may carry
    DeclNames,  \* names of locals and arguments
    Globals,    \* names the module's own table resolves
    NoName,     \* an unnamed loop, no binding
    Forms,      \* bound: statement forms the programs use
    FuncReturns,\* bound: what their functions return
    MaxBodies,  \* bound: bodies of the program
    MaxStmts    \* bound: statements of the program

ASSUME NamesAssumption == NoName \notin LoopNames \cup DeclNames \cup Globals
ASSUME BoundsAssumption ==
    /\ MaxBodies \in Nat /\ MaxStmts \in Nat
    /\ FuncReturns \subseteq {"void", "value", "optional"}

VARIABLES
    tree,       \* bodies read so far: their construct, AstBody.parent, their function's type
    text,       \* AstBody.stmts of each, annotated
    defers,     \* AstBody.defers of each
    ss,         \* sema->current_ss
    calls,      \* bodies whose sema_ast_body runs, of the current function
    saved,      \* scope stacks swapped out by anonymous functions, with their calls
    walk,       \* the running sema_module_defers_up_to
    failed,     \* sema->failed
    crashed     \* an assert() has ended the process

vars == <<tree, text, defers, ss, calls, saved, walk, failed, crashed>>

(***************************************************************************)
(* Data                                                                    *)
(***************************************************************************)
NoBody == 0
NoStack == [scopes |-> <<>>, loops |-> <<>>, returns |-> NoName]
Returns == {"void", "value", "optional"}
Owners == {"func", "anon", "while", "if", "defer"}
Holds == {"var", "final"}

\* SemaDecl: where it was declared; scope NoBody is the argument scope.
Decl == [name : DeclNames \cup Globals \cup {NoName}, held : Holds,
         fn : Nat, scope : Nat, pos : Nat]
NoDecl == [name |-> NoName, held |-> "final", fn |-> 0, scope |-> NoBody, pos |-> 0]
GlobalDecl(n) == [NoDecl EXCEPT !.name = n]

Loop == [name : LoopNames \cup {NoName}, body : Nat]
Scope == [decls : Seq(Decl), body : Nat]
Stack == [scopes : Seq(Scope), loops : Seq(Loop), returns : Returns \cup {NoName}]

Exits == {"break", "continue", "return"}

Stmt == [kind : {"bad", "try"}]
   \cup [kind : {"decl", "use"}, decl : Decl]
   \cup [kind : {"defer", "anon"}, body : Nat]
   \cup [kind : {"while"}, loop : Loop, binds : Decl]
   \cup [kind : {"if"}, branches : Seq([body : Nat, binds : Decl]), closed : BOOLEAN]
   \cup [kind : Exits, loop : Loop, defers : Seq(Nat)]

Header == [owner : Owners, args : Seq(DeclNames), parent : Nat, returns : Returns \cup {NoName}]

\* The loop of defers_up_to: the exit it is for, the body it is at, its result.
NoLoopAt == [name |-> NoName, body |-> NoBody]
Idle == [kind |-> "idle", loop |-> NoLoopAt, at |-> NoBody, result |-> <<>>]
Walk == [kind : {"idle"} \cup Exits, loop : Loop,
         at : Nat, result : Seq(Nat)]

(***************************************************************************)
(* The scope stack                                                         *)
(***************************************************************************)
CurrentBody(st) == IF st.scopes = <<>> THEN NoBody ELSE Last(st.scopes).body

\* Slip: the scope's own body is not stored.
PushScopeNoBody(st, b) ==
    [st EXCEPT !.scopes = Append(@, [decls |-> <<>>, body |-> CurrentBody(st)])]

\* A scope without a body of its own belongs to the body around it.
PushScope(st, b) ==
    [st EXCEPT !.scopes =
        Append(@, [decls |-> <<>>, body |-> IF b = NoBody THEN CurrentBody(st) ELSE b])]

PopScope(st) == [st EXCEPT !.scopes = Front(@)]

NewDecl(st, fn, n, h) ==
    [name |-> n, held |-> h, fn |-> fn, scope |-> Last(st.scopes).body,
     pos |-> Len(Last(st.scopes).decls) + 1]

PushDecl(st, d) ==
    [st EXCEPT !.scopes[Len(st.scopes)].decls = Append(@, d)]

\* Slip: scopes searched outermost first.
ResolveDeclOutermost(st, n) ==
    LET Named(d) == d.name = n
        Has(sc) == SelectInSeq(sc.decls, Named) # 0
        at == SelectInSeq(st.scopes, Has)
    IN  IF at # 0 THEN LET ds == st.scopes[at].decls IN ds[SelectInSeq(ds, Named)]
        ELSE IF n \in Globals THEN GlobalDecl(n)
        ELSE NoDecl

\* The innermost scope that has the name; in it, the first declaration.
ResolveDecl(st, n) ==
    LET Named(d) == d.name = n
        Has(sc) == SelectInSeq(sc.decls, Named) # 0
        at == SelectLastInSeq(st.scopes, Has)
    IN  IF at # 0 THEN LET ds == st.scopes[at].decls IN ds[SelectInSeq(ds, Named)]
        ELSE IF n \in Globals THEN GlobalDecl(n)
        ELSE NoDecl

\* Position of the loop that a name (or no name: the innermost) stands for; 0 if none.
NamedLoop(st, n) == SelectInSeq(st.loops, LAMBDA l : l.name = n)
LoopFor(st, n) == IF n = NoName THEN Len(st.loops) ELSE NamedLoop(st, n)
Redefines(st, n) == n # NoName /\ NamedLoop(st, n) # 0

(***************************************************************************)
(* The AST                                                                 *)
(***************************************************************************)
Fresh == Len(tree) + 1
Cur == Last(calls)
Function == Head(calls)
StmtCount == FoldLeft(LAMBDA n, stmts : n + Len(stmts), 0, text)

\* A body is being read, and its next statement is of the given form.
Reading == calls # <<>> /\ walk = Idle /\ ~crashed

Reads(form) == Reading /\ form \in Forms /\ StmtCount < MaxStmts

Read(s) == [text EXCEPT ![Cur] = Append(@, s)]
IsLastIf ==
    LET stmts == text[Cur] IN stmts # <<>> /\ Last(stmts).kind = "if" /\ ~Last(stmts).closed
WithBranch(s, b, d, closes) ==
    [s EXCEPT !.branches = Append(@, [body |-> b, binds |-> d]), !.closed = closes]
ReadBranch(b, d, closes) ==
    [text EXCEPT ![Cur][Len(text[Cur])] = WithBranch(@, b, d, closes)]

\* Entering sema_ast_body: a fresh defer list, the scope, the parent link.
OpenBody(read, st, owner, args) ==
    /\ Len(tree) < MaxBodies
    /\ tree' = Append(tree, [owner |-> owner, args |-> args, parent |-> CurrentBody(st),
                             returns |-> st.returns])
    /\ text' = Append(read, <<>>)
    /\ defers' = Append(defers, <<>>)
    /\ ss' = PushScope(st, Fresh)

\* A condition: whether it is boolean, and the name an `unwrap` in it binds.
\* The name goes to the scope the statement stands in, not to its body's.
Bind(n) == IF n = NoName THEN NoDecl ELSE NewDecl(ss, Function, n, "final")
Bound(n) == IF n = NoName THEN ss ELSE PushDecl(ss, Bind(n))

\* A handler that reports an error and returns without touching anything else.
Reject ==
    /\ text' = Read([kind |-> "bad"])
    /\ failed' = TRUE
    /\ UNCHANGED <<tree, defers, ss, calls, saved, walk, crashed>>

Abort ==
    /\ crashed' = TRUE
    /\ UNCHANGED <<tree, text, defers, ss, calls, saved, walk, failed>>

(***************************************************************************)
(* Actions                                                                 *)
(***************************************************************************)
Init ==
    /\ tree = <<>> /\ text = <<>> /\ defers = <<>>
    /\ ss = NoStack
    /\ calls = <<>>
    /\ saved = <<>>
    /\ walk = Idle
    /\ failed = FALSE
    /\ crashed = FALSE

\* A function's scope stack: the argument scope, which has no body.
ArgStack(returns, args) ==
    LET st == PushScope([NoStack EXCEPT !.returns = returns], NoBody)
    IN  [st EXCEPT !.scopes[1].decls =
            [i \in 1..Len(args) |->
                [name |-> args[i], held |-> "var", fn |-> Fresh, scope |-> NoBody, pos |-> i]]]

BeginFunc(returns, args) ==
    /\ calls = <<>> /\ ~crashed
    /\ OpenBody(text, ArgStack(returns, args), "func", args)
    /\ calls' = <<Fresh>>
    /\ UNCHANGED <<saved, walk, failed, crashed>>

EndFunc ==
    /\ Reading
    /\ tree[Cur].owner = "func"
    /\ ss' = NoStack
    /\ calls' = <<>>
    /\ UNCHANGED <<tree, text, defers, saved, walk, failed, crashed>>

BeginAnon(returns, args) ==
    /\ Reads("anon")
    /\ OpenBody(Read([kind |-> "anon", body |-> Fresh]), ArgStack(returns, args), "anon", args)
    /\ saved' = Append(saved, [ss |-> ss, calls |-> calls])
    /\ calls' = <<Fresh>>
    /\ UNCHANGED <<walk, failed, crashed>>

EndAnon ==
    /\ Reading
    /\ tree[Cur].owner = "anon"
    /\ ss' = Last(saved).ss
    /\ calls' = Last(saved).calls
    /\ saved' = Front(saved)
    /\ UNCHANGED <<tree, text, defers, walk, failed, crashed>>

ValDecl(n, h) ==
    /\ Reads("decl")
    /\ LET d == NewDecl(ss, Function, n, h)
       IN  /\ text' = Read([kind |-> "decl", decl |-> d])
           /\ ss' = PushDecl(ss, d)
    /\ UNCHANGED <<tree, defers, calls, saved, walk, failed, crashed>>

Use(n) ==
    /\ Reads("use")
    /\ LET d == ResolveDecl(ss, n)
       IN  IF d = NoDecl THEN Reject
           ELSE /\ text' = Read([kind |-> "use", decl |-> d])
                /\ UNCHANGED <<tree, defers, ss, calls, saved, walk, failed, crashed>>

\* Any statement whose types do not fit: an error, and the walk goes on.
TypeError ==
    /\ Reads("error")
    /\ Reject

\* A condition without a type is a TypeError: the loop's body is not read.
BeginWhile(n, x, isBool) ==
    /\ Reads("while")
    /\ LET loop == [name |-> n, body |-> Fresh]
           st == Bound(x)
       IN  /\ OpenBody(Read([kind |-> "while", loop |-> loop, binds |-> Bind(x)]),
                       IF Redefines(st, n) THEN st ELSE [st EXCEPT !.loops = Append(@, loop)],
                       "while", <<>>)
           /\ failed' = (failed \/ ~isBool \/ Redefines(st, n))
    /\ calls' = Append(calls, Fresh)
    /\ UNCHANGED <<saved, walk, crashed>>

\* Slip: the loop is not popped.
EndWhileKeepsLoop ==
    /\ Reading
    /\ tree[Cur].owner = "while"
    /\ ss' = PopScope(ss)
    /\ calls' = Front(calls)
    /\ UNCHANGED <<tree, text, defers, saved, walk, failed, crashed>>

\* sema_module_pop_loop runs whether or not the push was accepted.
EndWhile ==
    /\ Reading
    /\ tree[Cur].owner = "while"
    /\ IF ss.loops = <<>> THEN Abort
       ELSE /\ ss' = [PopScope(ss) EXCEPT !.loops = Front(@)]
            /\ calls' = Front(calls)
            /\ UNCHANGED <<tree, text, defers, saved, walk, failed, crashed>>

BeginIf(x, isBool) ==
    /\ Reads("if")
    /\ OpenBody(Read([kind |-> "if", closed |-> FALSE,
                      branches |-> <<[body |-> Fresh, binds |-> Bind(x)]>>]),
                Bound(x), "if", <<>>)
    /\ failed' = (failed \/ ~isBool)
    /\ calls' = Append(calls, Fresh)
    /\ UNCHANGED <<saved, walk, crashed>>

ElseIf(x, isBool) ==
    /\ Reading /\ IsLastIf
    /\ OpenBody(ReadBranch(Fresh, Bind(x), FALSE), Bound(x), "if", <<>>)
    /\ failed' = (failed \/ ~isBool)
    /\ calls' = Append(calls, Fresh)
    /\ UNCHANGED <<saved, walk, crashed>>

\* A condition without a type: its body is not read, the other branches are.
SkipBranch(x) ==
    /\ ss' = Bound(x)
    /\ failed' = TRUE
    /\ UNCHANGED <<tree, defers, calls, saved, walk, crashed>>

UntypedIf(x) ==
    /\ Reads("if") /\ "error" \in Forms
    /\ text' = Read([kind |-> "if", closed |-> FALSE,
                     branches |-> <<[body |-> NoBody, binds |-> Bind(x)]>>])
    /\ SkipBranch(x)

UntypedElseIf(x) ==
    /\ Reading /\ IsLastIf /\ "error" \in Forms
    /\ Len(Last(text[Cur]).branches) < MaxBodies
    /\ text' = ReadBranch(NoBody, Bind(x), FALSE)
    /\ SkipBranch(x)

Else ==
    /\ Reading /\ IsLastIf
    /\ OpenBody(ReadBranch(Fresh, NoDecl, TRUE), ss, "if", <<>>)
    /\ calls' = Append(calls, Fresh)
    /\ UNCHANGED <<saved, walk, failed, crashed>>

EndIf ==
    /\ Reading
    /\ tree[Cur].owner = "if"
    /\ ss' = PopScope(ss)
    /\ calls' = Front(calls)
    /\ UNCHANGED <<tree, text, defers, saved, walk, failed, crashed>>

BeginDefer ==
    /\ Reads("defer")
    /\ OpenBody(Read([kind |-> "defer", body |-> Fresh]), ss, "defer", <<>>)
    /\ calls' = Append(calls, Fresh)
    /\ UNCHANGED <<saved, walk, failed, crashed>>

\* The defer is registered once its own body has been analysed.
EndDefer ==
    /\ Reading
    /\ tree[Cur].owner = "defer"
    /\ LET st == PopScope(ss)
       IN  IF CurrentBody(st) = NoBody THEN Abort
           ELSE /\ defers' = [defers EXCEPT ![CurrentBody(st)] = Append(@, Cur)]
                /\ ss' = st
                /\ calls' = Front(calls)
                /\ UNCHANGED <<tree, text, saved, walk, failed, crashed>>

\* sema_module_defers_up_to starts at the current body.
StartWalk(kind, loop) ==
    IF CurrentBody(ss) = NoBody THEN Abort
    ELSE /\ walk' = [kind |-> kind, loop |-> loop, at |-> CurrentBody(ss), result |-> <<>>]
         /\ UNCHANGED <<tree, text, defers, ss, calls, saved, failed, crashed>>

LoopControl(kind, n) ==
    /\ Reads("exit")
    /\ LET at == LoopFor(ss, n)
       IN  IF at = 0 THEN Reject ELSE StartWalk(kind, ss.loops[at])

\* A value that does not fit the function is a TypeError.
Return(hasValue) ==
    /\ Reads("return")
    /\ IF ~hasValue /\ ss.returns # "void" THEN Reject ELSE StartWalk("return", NoLoopAt)

\* Slips: oldest first; no stop at the loop.
WithDefersOldestFirst(w) == w.result \o defers[w.at]
NextOutPastLoop(w) == tree[w.at].parent

\* One round of the loop: the defers of the body, the latest first.
WithDefers(w) == w.result \o Reverse(defers[w.at])
NextOut(w) == IF w.at = w.loop.body THEN NoBody ELSE tree[w.at].parent

WalkOut ==
    /\ ~crashed
    /\ walk.at # NoBody
    /\ walk' = [walk EXCEPT !.result = WithDefers(walk), !.at = NextOut(walk)]
    /\ UNCHANGED <<tree, text, defers, ss, calls, saved, failed, crashed>>

\* Slip: the exit's `defers` is not assigned.
EndWalkUnassigned ==
    /\ ~crashed
    /\ walk # Idle
    /\ walk.at = NoBody
    /\ text' = Read([kind |-> walk.kind, loop |-> walk.loop])
    /\ walk' = Idle
    /\ UNCHANGED <<tree, defers, ss, calls, saved, failed, crashed>>

EndWalk ==
    /\ ~crashed
    /\ walk # Idle
    /\ walk.at = NoBody
    /\ text' = Read([kind |-> walk.kind, loop |-> walk.loop, defers |-> walk.result])
    /\ walk' = Idle
    /\ UNCHANGED <<tree, defers, ss, calls, saved, failed, crashed>>

\* `expr?`: the function must return an optional; nothing is recorded.
RetOnNull ==
    /\ Reads("try")
    /\ IF ss.returns # "optional" THEN Reject
       ELSE /\ text' = Read([kind |-> "try"])
            /\ UNCHANGED <<tree, defers, ss, calls, saved, walk, failed, crashed>>

ArgLists == {<<>>} \cup {<<n>> : n \in DeclNames}
Binds == DeclNames \cup {NoName}
Labels == LoopNames \cup {NoName}
CondTypes == IF "error" \in Forms THEN BOOLEAN ELSE {TRUE}

Next ==
    \/ \E r \in FuncReturns, args \in ArgLists : BeginFunc(r, args) \/ BeginAnon(r, args)
    \/ EndFunc
    \/ EndAnon
    \/ \E n \in DeclNames, h \in Holds : ValDecl(n, h)
    \/ \E n \in DeclNames \cup Globals : Use(n)
    \/ TypeError
    \/ \E n \in Labels, x \in Binds, ok \in CondTypes : BeginWhile(n, x, ok)
    \/ EndWhile
    \/ \E x \in Binds, ok \in CondTypes : BeginIf(x, ok) \/ ElseIf(x, ok)
    \/ \E x \in Binds : UntypedIf(x) \/ UntypedElseIf(x)
    \/ Else
    \/ EndIf
    \/ BeginDefer
    \/ EndDefer
    \/ \E kind \in {"break", "continue"}, n \in Labels : LoopControl(kind, n)
    \/ \E v \in BOOLEAN : Return(v)
    \/ WalkOut
    \/ EndWalk
    \/ RetOnNull

Spec == Init /\ [][Next]_vars

-----------------------------------------------------------------------------
(***************************************************************************)
(* Properties                                                              *)
(***************************************************************************)
\* Every annotation has the type its C field has.
TypeOK ==
    /\ tree \in Seq(Header)
    /\ text \in Seq(Seq(Stmt))
    /\ defers \in Seq(Seq(Nat))
    /\ ss \in Stack
    /\ calls \in Seq(Nat)
    /\ saved \in Seq([ss : Stack, calls : Seq(Nat)])
    /\ walk \in Walk
    /\ failed \in BOOLEAN
    /\ crashed \in BOOLEAN

\* The scope stack mirrors the C calls: an argument scope, then the body of
\* each running sema_ast_body of the function, whose parent link is the next
\* one out.
Mirrors(st, cs, tr) ==
    /\ Len(st.scopes) = Len(cs) + 1
    /\ st.scopes[1].body = NoBody
    /\ \A k \in 1..Len(cs) : /\ st.scopes[k + 1].body = cs[k]
                              /\ cs[k] \in 1..Len(tr)
                              /\ tr[cs[k]].parent = st.scopes[k].body

\* Loops on the stack belong to `while` bodies being analysed, in nesting
\* order, so that an exit resolved against the stack leaves bodies it is in.
LoopsNested(st, cs, tr) ==
    \E at \in [1..Len(st.loops) -> 1..Len(cs)] :
        /\ \A i \in 1..Len(st.loops) : /\ st.loops[i].body = cs[at[i]]
                                        /\ tr[cs[at[i]]].owner = "while"
        /\ \A i, j \in 1..Len(st.loops) : i < j => at[i] < at[j]

\* No enclosing loop is missing.
LoopsComplete(st, cs, tr) ==
    \A k \in 1..Len(cs) : tr[cs[k]].owner = "while" =>
        \E i \in 1..Len(st.loops) : st.loops[i].body = cs[k]

StackOK(st, cs, tr, err) ==
    /\ Mirrors(st, cs, tr)
    /\ LoopsNested(st, cs, tr)
    /\ err \/ LoopsComplete(st, cs, tr)

\* sema_module_push_loop / pop_loop and push / pop of scopes stay in step in
\* every function under analysis, the ones an anonymous function suspends
\* included: no loop outlives its body and, while the module has no error,
\* none is lost.
LoopsEnclose ==
    /\ calls # <<>> => StackOK(ss, calls, tree, failed)
    /\ \A i \in 1..Len(saved) : StackOK(saved[i].ss, saved[i].calls, tree, failed)

\* The asserts of vec_pop, sema_module_push_defer and
\* sema_module_defers_up_to can end the process only after an error of the
\* program has been reported.
CrashOnlyAfterError == crashed => failed

\* The open bodies that an exit to a loop, or from the function, leaves.
LeftBy(loop) == {k \in 1..Len(calls) : \A j \in 1..Len(calls) : calls[j] = loop.body => j <= k}

\* The defers recorded on a break, continue or return are exactly the ones
\* registered so far in the bodies it leaves, and the loop it goes to is one
\* of the function it stands in.
ExitReleasesLeft ==
    [][walk # Idle /\ walk' = Idle =>
        LET s == Last(text'[Cur])
        IN  /\ ToSet(s.defers) = UNION {ToSet(defers[calls[k]]) : k \in LeftBy(s.loop)}
            /\ s.kind # "return" => \E k \in 1..Len(calls) : calls[k] = s.loop.body
      ]_vars

\* Open bodies were read outermost first; the first is the function's own.
CallsOK(cs, tr, root) ==
    /\ cs # <<>>
    /\ \A i, j \in 1..Len(cs) : i < j => cs[i] < cs[j]
    /\ \A i \in 1..Len(cs) : cs[i] \in 1..Len(tr)
    /\ tr[cs[1]].owner = root
    /\ \A k \in 2..Len(cs) : tr[cs[k]].owner \notin {"func", "anon"}

\* Only the outermost function under analysis is not anonymous.
RootOf(i) == IF i = 0 THEN "func" ELSE "anon"

CallsInv ==
    /\ Len(text) = Len(tree) /\ Len(defers) = Len(tree)
    /\ calls = <<>> => saved = <<>>
    /\ calls # <<>> => CallsOK(calls, tree, RootOf(Len(saved)))
    /\ \A i \in 1..Len(saved) : CallsOK(saved[i].calls, tree, RootOf(i - 1))

\* The defers of the p-th open body and of those in it.
DefersFrom(p) == UNION {ToSet(defers[calls[k]]) : k \in p..Len(calls)}

\* A walk for an exit stands at an open body that the exit leaves, with the
\* defers of all the bodies further in; or it has them all.
WalkInv ==
    walk # Idle =>
        /\ calls # <<>>
        /\ walk.kind \in Exits
        /\ walk.kind # "return" => \E k \in 1..Len(calls) : calls[k] = walk.loop.body
        /\ IF walk.at = NoBody
           THEN ToSet(walk.result) = UNION {ToSet(defers[calls[k]]) : k \in LeftBy(walk.loop)}
           ELSE \E p \in LeftBy(walk.loop) : /\ walk.at = calls[p]
                                              /\ ToSet(walk.result) = DefersFrom(p + 1)

\* The inductive invariant: LoopsEnclose, with what its preservation and
\* that of CrashOnlyAfterError and ExitReleasesLeft need.
IInv ==
    /\ TypeOK
    /\ CallsInv
    /\ LoopsEnclose
    /\ WalkInv
    /\ CrashOnlyAfterError

\* The bodies a statement holds, and the names it declares.
BodiesOf(s) ==
    CASE s.kind = "while" -> {s.loop.body}
      [] s.kind \in {"defer", "anon"} -> {s.body}
      [] s.kind = "if" -> {s.branches[i].body : i \in 1..Len(s.branches)}
      [] OTHER -> {}

DeclsOf(s) ==
    CASE s.kind = "decl" -> <<s.decl>>
      [] s.kind = "while" -> <<s.binds>>
      [] s.kind = "if" -> [i \in 1..Len(s.branches) |-> s.branches[i].binds]
      [] OTHER -> <<>>

\* The body whose statements hold body b; a function's body has none.
Holder(b) ==
    LET holders == {c \in 1..Len(tree) : \E i \in 1..Len(text[c]) :
                        b \in BodiesOf(text[c][i])}
    IN  IF tree[b].owner \in {"func", "anon"} \/ holders = {} THEN NoBody
        ELSE CHOOSE c \in holders : TRUE

\* The first declaration of a name among declarations, and among those of
\* statements; NoDecl if there is none.
FirstNamed(decls, n) ==
    LET named == {i \in 1..Len(decls) : decls[i].name = n}
    IN  IF named = {} THEN NoDecl ELSE decls[Min(named)]

FirstDecl(stmts, n) ==
    LET declaring == {i \in 1..Len(stmts) : FirstNamed(DeclsOf(stmts[i]), n) # NoDecl}
    IN  IF declaring = {} THEN NoDecl ELSE FirstNamed(DeclsOf(stmts[Min(declaring)]), n)

ArgDecls(b, tr) ==
    [i \in 1..Len(tr[b].args) |->
        [name |-> tr[b].args[i], held |-> "var", fn |-> b, scope |-> NoBody, pos |-> i]]

\* Lexical scoping, defined on the program text alone: the nearest enclosing
\* body, in the same function, whose text so far declares the name, and there
\* the first declaration; else the argument; else the module's table.
LexicalDecl(b, n) ==
    LET up[c \in 1..Len(tree)] ==
            IF FirstDecl(text[c], n) # NoDecl THEN FirstDecl(text[c], n)
            ELSE IF Holder(c) # NoBody THEN up[Holder(c)]
            ELSE IF FirstNamed(ArgDecls(c, tree), n) # NoDecl THEN FirstNamed(ArgDecls(c, tree), n)
            ELSE IF n \in Globals THEN GlobalDecl(n)
            ELSE NoDecl
    IN  up[b]

\* A name just resolved through the scope stack (sema_ss_resolve_decl) is the
\* declaration that the text gives it: never one of a closed scope, of an
\* outer function or of a later statement.
LexicalScoping ==
    calls # <<>> /\ text[Cur] # <<>> =>
        LET s == Last(text[Cur])
        IN  s.kind = "use" => s.decl = LexicalDecl(Cur, s.decl.name)
=============================================================================
