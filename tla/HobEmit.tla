------------------------------- MODULE HobEmit -------------------------------
(***************************************************************************)
(* LLVM emission of the functions HobBodies has analysed: llvm_body and    *)
(* the statement emitters, which walk the annotated AST a second time and  *)
(* append instructions to basic blocks, following the defer lists that the *)
(* analysis hung on bodies and exits.  Then the emitted code runs.         *)
(*                                                                         *)
(* The emitter is recursive C; `work` is its call stack, flattened into    *)
(* the calls and the code after them that are still to run.  Of the        *)
(* instructions only control flow, definitions and uses of locals are      *)
(* kept, and a mark for each llvm_body call, which stands for the plain    *)
(* statements of that body.                                                *)
(***************************************************************************)
EXTENDS HobMeaning

VARIABLES
    stage,      \* analyse, emit, then run or refused
    work,       \* what the emitter still has to do
    fell,       \* what the llvm_body that returned last answered: end reached
    code,       \* basic blocks of all functions, in order of creation
    builder,    \* the block LLVMBuilderRef appends to
    code_block, \* LlvmBackend.code_block
    func,       \* LlvmBackend.func, named by its entry block, the definitions_block
    targets,    \* SemaLoop.llvm, by the loop's body
    run         \* a run of one emitted function

emitVars == <<stage, work, fell, code, builder, code_block, func, targets, run, asks>>

-----------------------------------------------------------------------------
(***************************************************************************)
(* Basic blocks                                                            *)
(***************************************************************************)
Br(b) == [op |-> "br", to |-> {b}]
CondBr(b, c) == [op |-> "br", to |-> {b, c}]
Ret == [op |-> "br", to |-> {}]
Mark(b) == [op |-> "body", body |-> b]
Ins(op, d) == [op |-> op, decl |-> d]

\* A module's own declarations are no locals; NoDecl is no declaration.
Local(op, d) == IF d.fn = 0 THEN <<>> ELSE <<Ins(op, d)>>

Put(blocks, b, ins) == [blocks EXCEPT ![b].ins = @ \o ins]
Added(f, n) == code \o [i \in 1..n |-> [fn |-> f, ins |-> <<>>]]
NewBlock == Len(code) + 1

PositionAt(b) == builder' = b /\ code_block' = b

(***************************************************************************)
(* The emitter's stack                                                     *)
(***************************************************************************)
Top == Head(work)
Then(todo) == work' = todo \o Tail(work)
Calls(bodies) == [i \in 1..Len(bodies) |-> [do |-> "body", body |-> bodies[i]]]
Call(b) == Calls(<<b>>)

Doing(what) == stage = "emit" /\ work # <<>> /\ Top.do = what

\* llvm_body is at a statement of the given kind.
S == text[Top.body][Top.n]
Emitting(kinds) == Doing("stmts") /\ Top.n <= Len(text[Top.body]) /\ S.kind \in kinds
Onward == <<[Top EXCEPT !.n = @ + 1]>>

NoRun == [at |-> 0, trace |-> <<>>, defined |-> {}, fn |-> NoBody]

EmitInit ==
    /\ Init
    /\ stage = "analyse"
    /\ work = <<>> /\ fell = TRUE /\ code = <<>>
    /\ builder = 0 /\ code_block = 0 /\ func = 0
    /\ targets = [b \in 1..MaxBodies |-> [continue |-> 0, break |-> 0]]
    /\ run = NoRun
    /\ asks = {}

\* Only a module analysed without an error reaches llvm_emit_project.
EmitProject ==
    /\ stage = "analyse"
    /\ calls = <<>> /\ tree # <<>> /\ ~failed /\ ~crashed
    /\ stage' = "emit"
    /\ LET funcs[b \in 0..Len(tree)] ==
               IF b = 0 THEN <<>>
               ELSE IF tree[b].owner = "func" THEN Append(funcs[b - 1], [do |-> "func", body |-> b])
               ELSE funcs[b - 1]
       IN  work' = funcs[Len(tree)]
    /\ asks' \in SUBSET Askable
    /\ UNCHANGED <<fell, code, builder, code_block, func, targets, run>>

ArgDecl(b, i) == [name |-> tree[b].args[i], held |-> "var", fn |-> b, scope |-> NoBody, pos |-> i]

StoredArg(b, i) == Ins("def", ArgDecl(b, i))

\* Slip: the arguments counted from the second.
StoredArgsButFirst(b) == [i \in 1..Len(tree[b].args) - 1 |-> StoredArg(b, i + 1)]

StoredArgs(b) == [i \in 1..Len(tree[b].args) |-> StoredArg(b, i)]

\* llvm_emit_func and llvm_emit_func_decl up to the body: the entry block,
\* which takes every alloca, and the code block.
Enter(b, after) ==
    /\ code' = Put(Added(NewBlock, 2), NewBlock, StoredArgs(b))
    /\ func' = NewBlock
    /\ PositionAt(NewBlock + 1)
    /\ Then(Call(b) \o <<[do |-> "end", body |-> b, back |-> after]>>)
    /\ UNCHANGED <<stage, fell, targets, run, asks>>

NoBack == [func |-> 0, code_block |-> 0, on |-> <<>>]

EmitFunc == Doing("func") /\ Enter(Top.body, NoBack)

\* An anonymous function is emitted in the middle of another one.
EmitAnon ==
    /\ Emitting({"anon"})
    /\ Enter(S.body, [func |-> func, code_block |-> code_block, on |-> Onward])

EndEmit ==
    /\ Doing("end")
    /\ LET returns == IF tree[Top.body].returns = "void" THEN <<Ret>> ELSE <<>>
       IN  code' = Put(Put(code, builder, returns), func, <<Br(func + 1)>>)
    /\ IF Top.back = NoBack
       THEN builder' = func /\ UNCHANGED <<func, code_block>>
       ELSE /\ func' = Top.back.func
            /\ PositionAt(Top.back.code_block)
    /\ Then(Top.back.on)
    /\ UNCHANGED <<stage, fell, targets, run, asks>>

-----------------------------------------------------------------------------
(***************************************************************************)
(* llvm_body                                                               *)
(***************************************************************************)
EmitBody ==
    /\ Doing("body")
    /\ code' = Put(code, builder, <<Mark(Top.body)>>)
    /\ Then(<<[do |-> "stmts", body |-> Top.body, n |-> 1]>>)
    /\ UNCHANGED <<stage, fell, builder, code_block, func, targets, run, asks>>

\* The end of a body: its defers, the earliest first.
EndBody ==
    /\ Doing("stmts")
    /\ Top.n > Len(text[Top.body])
    /\ Then(Calls(defers[Top.body]) \o <<[do |-> "fall"]>>)
    /\ UNCHANGED <<stage, fell, code, builder, code_block, func, targets, run, asks>>

Fall ==
    /\ Doing("fall")
    /\ fell' = TRUE
    /\ Then(<<>>)
    /\ UNCHANGED <<stage, code, builder, code_block, func, targets, run, asks>>

\* A variable is an alloca in the entry block, after which the builder goes
\* back to the code block; a final is the value computed here.
EmitDecl ==
    /\ Emitting({"decl"})
    /\ IF S.decl.held = "var"
       THEN /\ code' = Put(code, func, <<Ins("def", S.decl)>>)
            /\ builder' = code_block
       ELSE /\ code' = Put(code, builder, <<Ins("def", S.decl)>>)
            /\ UNCHANGED builder
    /\ Then(Onward)
    /\ UNCHANGED <<stage, fell, code_block, func, targets, run, asks>>

\* Uses and defers: a defer statement by itself emits nothing.
EmitPlain ==
    /\ Emitting({"use", "defer"})
    /\ code' = IF S.kind = "use" THEN Put(code, builder, Local("use", S.decl)) ELSE code
    /\ Then(Onward)
    /\ UNCHANGED <<stage, fell, builder, code_block, func, targets, run, asks>>

\* `expr?` returns on null, and runs no defer.
ReturnOnNull ==
    LET onNull == NewBlock
        onNotNull == NewBlock + 1
    IN  /\ code' = Put(Put(Added(func, 2), builder, <<CondBr(onNull, onNotNull)>>),
                       onNull, <<Ret>>)
        /\ PositionAt(onNotNull)

EmitTry ==
    /\ Emitting({"try"})
    /\ ReturnOnNull
    /\ Then(Onward)
    /\ UNCHANGED <<stage, fell, func, targets, run, asks>>

\* In the expression of a return or of a condition it comes where llvm_expr does.
Asking(what, b, todo) == IF <<what, b>> \in asks THEN <<[do |-> "ask"]>> \o todo ELSE todo

EmitAsk ==
    /\ Doing("ask")
    /\ ReturnOnNull
    /\ Then(<<>>)
    /\ UNCHANGED <<stage, fell, func, targets, run, asks>>

\* A condition, the branch on it, and what is emitted in the block for true.
Testing(branch, yes, no, todo) ==
    Asking("condition", branch.body,
           <<[do |-> "test", binds |-> branch.binds, yes |-> yes, no |-> no]>> \o todo)

EmitTest ==
    /\ Doing("test")
    /\ code' = Put(code, builder, Local("def", Top.binds) \o <<CondBr(Top.yes, Top.no)>>)
    /\ PositionAt(Top.yes)
    /\ Then(<<>>)
    /\ UNCHANGED <<stage, fell, func, targets, run, asks>>

\* Slip: the loop never learns its blocks.
WithTargetsUnset(b, cond, end) == targets

WithTargets(b, cond, end) == [targets EXCEPT ![b] = [continue |-> cond, break |-> end]]

EmitWhile ==
    /\ Emitting({"while"})
    /\ LET b == S.loop.body
           cond == NewBlock
           body == NewBlock + 1
           end == NewBlock + 2
       IN  /\ targets' = WithTargets(b, cond, end)
           /\ code' = Put(Added(func, 3), builder, <<Br(cond)>>)
           /\ PositionAt(cond)
           /\ Then(Testing([body |-> b, binds |-> S.binds], body, end,
                   Call(b) \o <<[do |-> "join", to |-> cond], [do |-> "at", to |-> end]>> \o Onward))
    /\ UNCHANGED <<stage, fell, func, run, asks>>

EmitIf ==
    /\ Emitting({"if"})
    /\ LET start == NewBlock
           else == NewBlock + 1
           end == NewBlock + 2
       IN  Then(Testing(S.branches[1], start, else,
                Call(S.branches[1].body)
                \o <<[do |-> "join", to |-> end],
                     [do |-> "else", if |-> S, n |-> 2, to |-> else, end |-> end]>>
                \o Onward))
    /\ code' = Added(func, 3)
    /\ UNCHANGED <<stage, fell, builder, code_block, func, targets, run, asks>>

IsElse(branch) == branch.n = Len(branch.if.branches) /\ branch.if.closed

\* The builder is at the else block, where the next condition is tested.
EmitElseIf ==
    /\ Doing("else")
    /\ Top.n <= Len(Top.if.branches) /\ ~IsElse(Top)
    /\ LET branch == Top.if.branches[Top.n]
           next == NewBlock
           body == NewBlock + 1
       IN  Then(Testing(branch, body, next,
                Call(branch.body)
                \o <<[do |-> "join", to |-> Top.end],
                     [Top EXCEPT !.n = @ + 1, !.to = next]>>))
    /\ code' = Added(func, 2)
    /\ PositionAt(Top.to)
    /\ UNCHANGED <<stage, fell, func, targets, run, asks>>

EmitElse ==
    /\ Doing("else")
    /\ Top.n <= Len(Top.if.branches) => IsElse(Top)
    /\ PositionAt(Top.to)
    /\ LET end == <<[do |-> "join", to |-> Top.end], [do |-> "at", to |-> Top.end]>>
       IN  IF Top.n <= Len(Top.if.branches)
           THEN fell' = fell /\ Then(Call(Top.if.branches[Top.n].body) \o end)
           ELSE fell' = TRUE /\ Then(end)
    /\ UNCHANGED <<stage, code, func, targets, run, asks>>

\* Slip: the answer of llvm_body is not looked at.
JoinAlways ==
    /\ Doing("join")
    /\ code' = Put(code, builder, <<Br(Top.to)>>)
    /\ Then(<<>>)
    /\ UNCHANGED <<stage, fell, builder, code_block, func, targets, run, asks>>

\* After the body of a branch or a loop: on to the block behind it, unless
\* the body ended in an exit.
Join ==
    /\ Doing("join")
    /\ code' = IF fell THEN Put(code, builder, <<Br(Top.to)>>) ELSE code
    /\ Then(<<>>)
    /\ UNCHANGED <<stage, fell, builder, code_block, func, targets, run, asks>>

At ==
    /\ Doing("at")
    /\ PositionAt(Top.to)
    /\ Then(<<>>)
    /\ UNCHANGED <<stage, fell, code, func, targets, run, asks>>

\* Slip: the value of a return before the defers.
EmitExitValueFirst ==
    /\ Emitting(Exits)
    /\ Then(Asking(S.kind, Top.body, Calls(S.defers) \o <<[do |-> "leave", exit |-> S]>>))
    /\ UNCHANGED <<stage, fell, code, builder, code_block, func, targets, run, asks>>

\* break, continue and return: the defers the analysis recorded, the value of
\* a return, then the branch; the statements after it are not emitted.
EmitExit ==
    /\ Emitting(Exits)
    /\ Then(Calls(S.defers) \o Asking(S.kind, Top.body, <<[do |-> "leave", exit |-> S]>>))
    /\ UNCHANGED <<stage, fell, code, builder, code_block, func, targets, run, asks>>

Leave ==
    /\ Doing("leave")
    /\ LET exit == Top.exit
           out == IF exit.kind = "return" THEN Ret ELSE Br(targets[exit.loop.body][exit.kind])
       IN  code' = Put(code, builder, <<out>>)
    /\ fell' = FALSE
    /\ Then(<<>>)
    /\ UNCHANGED <<stage, builder, code_block, func, targets, run, asks>>

-----------------------------------------------------------------------------
(***************************************************************************)
(* Verification and the runs of the emitted code                           *)
(***************************************************************************)
IsEnd(ins) == ins.op = "br"

\* LLVM's rule for a basic block: one terminator, its last instruction.
Terminated(block) ==
    /\ block.ins # <<>>
    /\ \A i \in 1..Len(block.ins) : IsEnd(block.ins[i]) <=> i = Len(block.ins)

Written == stage # "analyse" /\ work = <<>>
Verifies == \A b \in 1..Len(code) : Terminated(code[b])

\* llvm_write_module: LLVMVerifyModule aborts the process on a bad module.
Verify ==
    /\ stage = "emit" /\ work = <<>>
    /\ stage' = IF Verifies THEN "run" ELSE "refused"
    /\ IF Verifies
       THEN \E e \in {b \in 1..Len(code) : code[b].fn = b} : run' = [NoRun EXCEPT !.at = e, !.fn = e]
       ELSE UNCHANGED run
    /\ UNCHANGED <<work, fell, code, builder, code_block, func, targets, asks>>

\* The instructions of block b that are reached before its first terminator.
Reached(b) ==
    LET end == SelectInSeq(code[b].ins, IsEnd)
    IN  SubSeq(code[b].ins, 1, IF end = 0 THEN Len(code[b].ins) ELSE end - 1)
Ops(ins, op) == SelectSeq(ins, LAMBDA i : i.op = op)
Marks(b) == LET ms == Ops(Reached(b), "body") IN [i \in 1..Len(ms) |-> ms[i].body]
Defines(ins) == {ins[i].decl : i \in {j \in 1..Len(ins) : ins[j].op = "def"}}

Successors(b) == LET end == SelectInSeq(code[b].ins, IsEnd)
                 IN  IF end = 0 THEN {} ELSE code[b].ins[end].to

\* A run is over when it has executed a block that returns.
RunDone == stage = "run" /\ run.at = 0

\* The processor: one basic block, any way out of a condition.
RunBlock ==
    /\ stage = "run" /\ run.at # 0
    /\ Len(run.trace) <= MaxRun
    /\ \E next \in IF Successors(run.at) = {} THEN {0} ELSE Successors(run.at) :
           run' = [run EXCEPT !.at = next,
                              !.trace = @ \o Marks(run.at),
                              !.defined = @ \cup Defines(Reached(run.at))]
    /\ UNCHANGED <<stage, work, fell, code, builder, code_block, func, targets, asks>>

Emission ==
    \/ EmitProject
    \/ EmitFunc
    \/ EmitAnon
    \/ EndEmit
    \/ EmitBody
    \/ EndBody
    \/ Fall
    \/ EmitDecl
    \/ EmitPlain
    \/ EmitTry
    \/ EmitAsk
    \/ EmitTest
    \/ EmitWhile
    \/ EmitIf
    \/ EmitElseIf
    \/ EmitElse
    \/ Join
    \/ At
    \/ EmitExit
    \/ Leave
    \/ Verify
    \/ RunBlock

EmitNext ==
    \/ stage = "analyse" /\ Next /\ UNCHANGED emitVars
    \/ Emission /\ UNCHANGED vars

EmitSpec == EmitInit /\ [][EmitNext]_<<vars, emitVars>>

-----------------------------------------------------------------------------
(***************************************************************************)
(* Properties                                                              *)
(***************************************************************************)
Instrs == [op : {"br"}, to : SUBSET (1..Len(code))]
     \cup [op : {"body"}, body : 1..Len(tree)]
     \cup [op : {"def", "use"}, decl : Decl]

\* Blocks, the builder and the emitter's registers hold what their C types
\* allow; in particular, the builder is never moved to a block that does not exist.
EmitTypeOK ==
    /\ stage \in {"analyse", "emit", "run", "refused"}
    /\ \A b \in 1..Len(code) :
          /\ code[b].fn \in 1..Len(code)
          /\ \A i \in 1..Len(code[b].ins) : code[b].ins[i] \in Instrs
    /\ {builder, code_block, func, run.at, run.fn} \subseteq 0..Len(code)
    /\ fell \in BOOLEAN
    /\ run.trace \in Seq(1..Len(tree)) /\ run.defined \subseteq Decl
    /\ asks \subseteq Askable

\* The body has an exit among its own statements, so its end is not reached.
Exiting(b) == \E i \in 1..Len(text[b]) : text[b][i].kind \in Exits

\* An exit inside a defer that leaves the defer's body.
EscapesDefer(b, exit) ==
    LET up[c \in 1..Len(tree)] ==
            IF tree[c].owner = "defer" THEN TRUE
            ELSE IF tree[c].owner \in {"func", "anon"} \/ c = exit.loop.body THEN FALSE
            ELSE up[tree[c].parent]
    IN  up[b]

\* Programs the emitter is meant for: void functions fall off their end,
\* others end in a return, and defers are left by their end only.
Disciplined ==
    \A b \in 1..Len(tree) :
        /\ tree[b].owner \in {"func", "anon"} => (Exiting(b) <=> tree[b].returns # "void")
        /\ \A i \in 1..Len(text[b]) :
              text[b][i].kind \in Exits => ~EscapesDefer(b, text[b][i])

\* LLVMVerifyModule, which aborts the process, passes on every module the
\* analysis has accepted.
Verified == Written => Verifies

\* It does for disciplined programs: whatever the nesting of exits, branches,
\* defers (emitted once for each way out) and anonymous functions, each block
\* gets exactly one terminator, at its end.
DisciplinedVerified == Disciplined => Verified

\* Every run of the emitted code enters the bodies, defers included, that
\* the program's text says: sema_module_defers_up_to, llvm_body_break and the
\* block structure together run each defer of each body left exactly once.
\* (An `expr?` that returns runs none; the one in a return comes after them.)
RunsAsWritten ==
    RunDone /\ Disciplined /\ Len(run.trace) <= MaxRun =>
        \E r \in Meaning[Head(run.trace)] :
            r.trace = run.trace /\ r.way.kind \in {"end", "return", "null"}

\* A condition of an else-if that binds a name.
ElseIfBinds ==
    \E b \in 1..Len(tree) : \E i \in 1..Len(text[b]) :
        text[b][i].kind = "if" /\ \E k \in 2..Len(text[b][i].branches) :
            text[b][i].branches[k].binds # NoDecl

\* The locals that block b uses and neither it, before, nor the run defines.
Undefined(b) ==
    LET ins == Reached(b)
    IN  {ins[i].decl : i \in {j \in 1..Len(ins) :
            ins[j].op = "use" /\ ins[j].decl \notin run.defined \cup Defines(SubSeq(ins, 1, j))}}

\* No run of emitted code uses a local before the instruction that defines
\* it: what the LLVM verifier calls dominance.
DefinedBeforeUse == stage = "run" /\ run.at # 0 => Undefined(run.at) = {}

\* It holds unless an else-if condition binds a name.
DefinedUnlessElseIf == ~ElseIfBinds => DefinedBeforeUse
-----------------------------------------------------------------------------
(***************************************************************************)
(* What the proof of DisciplinedVerified needs.  The emitter's `work` is   *)
(* read as a list of promises: each item finds the builder's block open or *)
(* not, leaves it open or not, and may have created blocks that later      *)
(* items close.                                                            *)
(***************************************************************************)
DefersIn(tr) == {b \in 1..Len(tr) : tr[b].owner = "defer"}

\* The statements that refer to bodies that have been read, each of its kind.
Linked(tr) ==
    {s \in Stmt :
        /\ s.kind = "anon" => s.body \in 1..Len(tr) /\ tr[s.body].owner = "anon"
        /\ s.kind = "while" => s.loop.body \in 1..Len(tr)
        /\ s.kind = "if" => s.branches \in Seq([body : 1..Len(tr), binds : Decl]) /\ s.branches # <<>>
        /\ s.kind \in Exits => s.defers \in Seq(DefersIn(tr))}

\* Without an error the annotations lead from a body to bodies, and from an
\* exit or the end of a body to bodies of defers.
Annotated ==
    failed \/
    /\ \A b \in 1..Len(tree) : tree[b].owner \in {"func", "anon"} \/ tree[b].parent \in 1..b - 1
    /\ defers \in Seq(Seq(DefersIn(tree)))
    /\ walk.result \in Seq(DefersIn(tree))
    /\ text \in Seq(Seq(Linked(tree)))

\* From its n-th statement on, the body has an exit among its own statements.
ExitsFrom(b, n) == \E i \in n..Len(text[b]) : text[b][i].kind \in Exits

\* Functions end as they must, and no body of a defer does with an exit.
EndsWell ==
    \A b \in 1..Len(tree) :
        /\ tree[b].owner \in {"func", "anon"} => (ExitsFrom(b, 1) <=> tree[b].returns # "void")
        /\ tree[b].owner = "defer" => ~ExitsFrom(b, 1)

IsSeq(s) == s \in Seq(ToSet(s))

\* The end of an anonymous function: the emitter goes back to a function.
GoesBack(item) == item.do = "end" /\ item.back # NoBack

\* Whether the builder's block is open, that is without a terminator, once
\* the item is done, if it is not refused.
Falls(item) ==
    \/ item.do \in {"fall", "at", "else", "ask", "test"}
    \/ item.do = "body" /\ ~ExitsFrom(item.body, 1)
    \/ item.do = "stmts" /\ ~ExitsFrom(item.body, item.n)
    \/ GoesBack(item) /\ ~ExitsFrom(item.back.on[1].body, item.back.on[1].n)

\* Whether `fell` says so as well.
Answers(item) == item.do \in {"body", "stmts", "fall", "leave"} \/ GoesBack(item)

\* What the item finds: an open block or not.
Begins(item, open) ==
    /\ item.do \in {"body", "stmts", "fall", "leave", "ask", "test"} => open
    /\ item.do \in {"func", "at", "else"} => ~open
    /\ item.do = "end" => (open <=> tree[item.body].returns = "void")

Fits(item, next) ==
    /\ Begins(next, Falls(item))
    /\ next.do = "join" => Answers(item)

StmtsOK(item) == item.do = "stmts" /\ item \in [do : {"stmts"}, body : 1..Len(tree), n : Nat \ {0}]
ElseOK(item) ==
    /\ item.do = "else" /\ item.to # item.end
    /\ item \in [do : {"else"}, if : {item.if}, n : Nat \ {0}, to : {item.to}, end : {item.end}]
    /\ item.if.branches \in Seq([body : 1..Len(tree), binds : Decl])

ItemOK(item) ==
    \/ item.do = "func" /\ item.body \in 1..Len(tree) /\ tree[item.body].owner = "func"
    \/ item.do = "body" /\ item.body \in 1..Len(tree)
    \/ StmtsOK(item)
    \/ item.do \in {"fall", "join", "at", "leave", "ask", "test"}
    \/ ElseOK(item)
    \/ /\ item.do = "end" /\ item.body \in 1..Len(tree)
       /\ item.back # NoBack =>
             /\ item.back.func # item.back.code_block
             /\ Len(item.back.on) = 1 /\ item.back.on = <<item.back.on[1]>> /\ StmtsOK(item.back.on[1])

\* The blocks that an item leaves to later ones to close.
Claims(item) ==
    CASE item.do = "at" -> {item.to}
      [] item.do = "test" -> {item.yes}
      [] item.do = "else" -> {item.to, item.end}
      [] GoesBack(item) -> {item.back.func, item.back.code_block}
      [] OTHER -> {}
Pending(todo) == UNION {Claims(todo[i]) : i \in 1..Len(todo)}

\* Functions of the module are emitted one after the other: after what is
\* left of one comes its end, then the others.
Inner(item) == item.do # "func" /\ (item.do = "end" => GoesBack(item))
Framed(todo) ==
    \E p \in 0..Len(todo) :
        /\ p > 0 => todo[p].do = "end" /\ ~GoesBack(todo[p])
        /\ \A i \in 1..Len(todo) : (i < p => Inner(todo[i])) /\ (i > p => todo[i].do = "func")

Chained(todo) == \A i \in 1..Len(todo) - 1 : Fits(todo[i], todo[i + 1])
Apart(todo) == \A i, j \in 1..Len(todo) : i # j => Claims(todo[i]) \cap Claims(todo[j]) = {}

TodoOK(todo) ==
    IsSeq(todo) /\ (\A i \in 1..Len(todo) : ItemOK(todo[i])) /\ Chained(todo) /\ Apart(todo)

\* The builder's block is open; a function is being emitted.
Opens(item, end) ==
    IF item.do = "join" THEN end
    ELSE \/ item.do \in {"body", "stmts", "fall", "leave", "ask", "test"}
         \/ item.do = "end" /\ tree[item.body].returns = "void"
IsOpen(todo, end) == todo # <<>> /\ Opens(Head(todo), end)
InFunc(todo) == todo # <<>> /\ Head(todo).do # "func"

\* The blocks that what is running has to close.
HeldIf(open, inside) == (IF open THEN {builder} ELSE {}) \cup (IF inside THEN {func} ELSE {})
Held == HeldIf(IsOpen(work, fell), InFunc(work))

IsCode(blocks) ==
    /\ IsSeq(blocks)
    /\ \A b \in 1..Len(blocks) : blocks[b] \in [fn : {blocks[b].fn}, ins : Seq(ToSet(blocks[b].ins))]
Unended(block) == \A i \in 1..Len(block.ins) : ~IsEnd(block.ins[i])

\* The blocks without a terminator are exactly the ones that are still to
\* close, by what is running or by what is left to do, never by both.
Ledger(blocks, held, left) ==
    /\ IsCode(blocks)
    /\ held \cup left \subseteq 1..Len(blocks)
    /\ held \cap left = {}
    /\ \A b \in 1..Len(blocks) :
          IF b \in held \cup left THEN Unended(blocks[b]) ELSE Terminated(blocks[b])

Placed(open, inside) == inside => code_block = builder /\ (open => builder # func)

BlocksLeft ==
    /\ Ledger(code, Held, Pending(work))
    /\ Placed(IsOpen(work, fell), InFunc(work))

EmitterOK == TodoOK(work) /\ Framed(work) /\ BlocksLeft

\* While a disciplined program is emitted, the blocks without a terminator are
\* exactly those that what runs and what is left of it will close; what the
\* last llvm_body answered (`fell`) tells whether its block is one of them.
EmitInv ==
    /\ stage \in {"analyse", "emit", "run", "refused"}
    /\ stage = "analyse" => work = <<>> /\ code = <<>>
    /\ stage # "analyse" => ~failed
    /\ stage \in {"run", "refused"} => work = <<>>
    /\ stage # "analyse" /\ EndsWell => EmitterOK
=============================================================================
