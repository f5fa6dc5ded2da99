----------------------------- MODULE HobGenerics -----------------------------
(***************************************************************************)
(* Generic functions, by replacement.  A parameter `T: B` of a generic     *)
(* function is one SemaType with a mutable field `replace`; so is the      *)
(* `Self` of a behaviour.  A mention `g.<c>` writes c there, while g is    *)
(* analysed and again while it is emitted, and never restores it: values   *)
(* of type T keep a reference to the type, not the type it stood for.      *)
(*                                                                         *)
(* The functions of one module are analysed in order, each body once, then *)
(* declared and emitted, a generic one once for each of its tables.  Each  *)
(* generic function has one parameter x of type T, returns a T, and T has  *)
(* the one behaviour `fun (Self) op() -> Self`; every type has an `op` of  *)
(* its own.  Bodies are lists of calls and returns.                        *)
(***************************************************************************)
EXTENDS Naturals, Sequences, SequencesExt

CONSTANTS
    Types,      \* types a generic function can be instantiated with
    Pointers,   \* those of them that are pointers
    Self,       \* the Self of the behaviour
    NoType,     \* SemaTypeGeneric.replace of a type never replaced
    MaxFuncs,   \* bound: functions of the module
    MaxStmts    \* bound: statements of the module

ASSUME TypesAssumption ==
    /\ Pointers \subseteq Types
    /\ Types \cap Nat = {} /\ Self \notin Types \cup Nat /\ NoType \notin Types \cup Nat
    /\ Self # NoType
    /\ MaxFuncs \in Nat \ {0} /\ MaxStmts \in Nat

VARIABLES
    kinds,      \* the functions of the module, in order: "plain" or "generic"
    text,       \* their bodies, as far as analysed, with annotations
    tables,     \* AstGeneric.tables: the type of each table, for each function
    replace,    \* SemaTypeGeneric.replace, of each T and of Self
    failed,     \* SemaModule.failed
    phase,      \* analyse, init, emit, then done, or aborted by an assert
    at,         \* the function the phase is at
    inst,       \* the table of it that is being declared or emitted, 0 if none
    done,       \* statements of it already emitted
    table,      \* SemaTypeGeneric.table of each T: the type it is the table of
    sig,        \* the type for which each LLVM function was declared, by table
    slot,       \* LLVM type of each value of it: of the alloca of a var, else its own
    misfits     \* where emitted instructions disagree with each other or the text

vars == <<kinds, text, tables, replace, failed, phase, at, inst, done, table, sig, slot,
          misfits>>
emitVars == <<inst, done, table, sig, slot, misfits>>

-----------------------------------------------------------------------------
(***************************************************************************)
(* Types.  A type is a member of Types, the T of generic function g,       *)
(* written g, or Self.                                                     *)
(***************************************************************************)
Funcs == 1..MaxFuncs
Replaceable == Funcs \cup {Self}
Refs == Types \cup Replaceable \cup {NoType}
IsGeneric(t) == t \in Replaceable

\* llvm_resolve_type: NoType where its assert fails.
Resolve(r, t) ==
    LET to[x \in Refs] == IF IsGeneric(x) THEN to[r[x]] ELSE x
    IN  to[t]

\* Slip: any two parameters are the same type.
KindsEqual(r, s, t) == (IsGeneric(s) /\ IsGeneric(t)) \/ Resolve(r, s) = Resolve(r, t)
\* sema_types_equals
TypesEqual(r, s, t) ==
    LET equal[p \in Refs \X Refs] ==
            LET x == p[1]
                y == p[2]
            IN  \/ x = y
                \/ IsGeneric(x) /\ ~IsGeneric(y) /\ r[x] # NoType /\ equal[<<r[x], y>>]
                \/ ~IsGeneric(x) /\ IsGeneric(y) /\ r[y] # NoType /\ equal[<<r[y], x>>]
                \/ /\ IsGeneric(x) /\ IsGeneric(y)
                   /\ IF r[x] = NoType THEN r[y] = x
                      ELSE IF r[y] = NoType THEN r[x] = y
                      ELSE equal[<<r[x], r[y]>>]
    IN  equal[<<s, t>>]

\* The type whose functions a value of type t has: what t stands for, as far as
\* anything replaces it.
MembersOf(r, t) ==
    LET of[x \in Refs] == IF IsGeneric(x) /\ r[x] # NoType THEN of[r[x]] ELSE x
    IN  of[t]

-----------------------------------------------------------------------------
(***************************************************************************)
(* Values of a body: 0 is the parameter x, n the result of statement n, a  *)
(* member of Types a literal of that type.                                 *)
(***************************************************************************)
Values(g) ==
    {n \in 1..Len(text[g]) : text[g][n].kind # "return"}
    \cup (IF kinds[g] = "generic" THEN {0} ELSE {})

TypeOf(g, v) ==
    IF v \in Types THEN v ELSE IF v = 0 THEN g ELSE text[g][v].type

\* Values that live in an alloca: parameters and `var`.
InSlot(g, v) == v \notin Types /\ (v = 0 \/ text[g][v].bind = "var")

-----------------------------------------------------------------------------
(***************************************************************************)
(* Analysis                                                                *)
(***************************************************************************)
Init ==
    /\ kinds \in UNION {[1..n -> {"plain", "generic"}] : n \in 1..MaxFuncs}
    /\ text = [g \in Funcs |-> <<>>]
    /\ tables = [g \in Funcs |-> <<>>]
    /\ replace = [t \in Replaceable |-> NoType]
    /\ failed = FALSE
    /\ phase = "analyse"
    /\ at = 1
    /\ inst = 0
    /\ done = 0
    /\ table = [g \in Funcs |-> NoType]
    /\ sig = [g \in Funcs |-> <<>>]
    /\ slot = <<>>
    /\ misfits = {}

Size == Len(FlattenSeq(text))

Analysing ==
    /\ phase = "analyse"
    /\ ~failed
    /\ at <= Len(kinds)
    /\ Size < MaxStmts

AddStmt(stmt) == text' = [text EXCEPT ![at] = Append(@, stmt)]

\* The table that a mention of g pushes.  Slip: counted before the push.
LastTable(g) == Len(tables[g])
NewTable(g) == Len(tables[g]) + 1

\* Building the table compares op with Self := c; then T := c.
Replace(g, c) == [replace EXCEPT ![Self] = c, ![g] = c]

\* Slip: arguments are not checked.
AnyArgument(r, v, g) == TRUE
Accepts(r, v, g) == TypesEqual(r, TypeOf(at, v), g)

\* `bind r = g.<c>(v)`: the result is a value of type T.
Mention(g, c, v, bind) ==
    /\ Analysing
    /\ kinds[g] = "generic"
    /\ replace' = Replace(g, c)
    /\ tables' = [tables EXCEPT ![g] = Append(@, c)]
    /\ failed' = ~Accepts(replace', v, g)
    /\ AddStmt([kind |-> "mention", of |-> g, with |-> c, table |-> NewTable(g),
                arg |-> v, bind |-> bind, type |-> g, ok |-> ~failed'])
    /\ UNCHANGED <<kinds, phase, at, emitVars>>

\* `bind r = v.op()`: a function of the type that v's type stands for, or, if nothing
\* replaces it, whatever the table holds; then Self := T, and the result is a Self.
Op(v, bind) ==
    /\ Analysing
    /\ LET t == MembersOf(replace, TypeOf(at, v))
       IN  /\ replace' = IF IsGeneric(t) THEN [replace EXCEPT ![Self] = t] ELSE replace
           /\ AddStmt([kind |-> "op", of |-> t, arg |-> v, bind |-> bind, ok |-> TRUE,
                       type |-> IF IsGeneric(t) THEN Self ELSE t])
    /\ UNCHANGED <<kinds, tables, failed, phase, at, emitVars>>

Return(v) ==
    /\ Analysing
    /\ kinds[at] = "generic"
    /\ failed' = ~TypesEqual(replace, at, TypeOf(at, v))
    /\ AddStmt([kind |-> "return", arg |-> v, ok |-> ~failed'])
    /\ UNCHANGED <<kinds, tables, replace, phase, at, emitVars>>

\* What a body did to `replace` outlives it.  Slip: Self is cleared behind it.
ClearSelf == replace' = [replace EXCEPT ![Self] = NoType]
KeepReplaced == UNCHANGED replace

\* The next function; after the last, the first pass over an accepted module.
NextBody ==
    /\ phase = "analyse"
    /\ ~failed
    /\ IF at < Len(kinds) THEN at' = at + 1 /\ UNCHANGED phase
                          ELSE at' = 1 /\ phase' = "init"
    /\ KeepReplaced
    /\ UNCHANGED <<kinds, text, tables, failed, emitVars>>

-----------------------------------------------------------------------------
(***************************************************************************)
(* First emission pass: llvm_module_init declares one LLVM function for    *)
(* each table.                                                             *)
(***************************************************************************)
Declare ==
    /\ phase = "init"
    /\ IF inst < Len(tables[at])
       THEN LET r == [replace EXCEPT ![at] = tables[at][inst + 1]]
            IN  /\ replace' = r
                /\ sig' = [sig EXCEPT ![at] = Append(@, Resolve(r, at))]
                /\ inst' = inst + 1
                /\ UNCHANGED <<phase, at>>
       ELSE /\ inst' = 0
            /\ IF at < Len(kinds) THEN at' = at + 1 /\ UNCHANGED phase
                                  ELSE at' = 1 /\ phase' = "emit"
            /\ UNCHANGED <<replace, sig>>
    /\ UNCHANGED <<kinds, text, tables, failed, done, table, slot, misfits>>

-----------------------------------------------------------------------------
(***************************************************************************)
(* Second pass: llvm_module_node emits the body for each table.            *)
(***************************************************************************)
Emitting == phase = "emit" /\ inst > 0
S == text[at][done + 1]

\* llvm_body emits nothing after a return.
BodyDone ==
    \/ done = Len(text[at])
    \/ done > 0 /\ text[at][done].kind = "return"
AtStmt(kind) == Emitting /\ ~BodyDone /\ S.kind = kind

\* A plain function is emitted once.
Instances(g) == IF kinds[g] = "generic" THEN Len(tables[g]) ELSE 1

\* Slip: the table of the first instance stays.
KeepTable(c) == table' = [table EXCEPT ![at] = IF @ = NoType THEN c ELSE @]
SetTable(c) == table' = [table EXCEPT ![at] = c]

\* An instance begins: its parameter gets an alloca.
EmitInstance ==
    /\ phase = "emit"
    /\ inst = 0 \/ BodyDone
    /\ inst < Instances(at)
    /\ inst' = inst + 1
    /\ done' = 0
    /\ IF kinds[at] = "generic"
       THEN LET c == tables[at][inst + 1]
            IN  /\ replace' = [replace EXCEPT ![at] = c]
                /\ SetTable(c)
                /\ slot' = [v \in {0} |-> Resolve(replace', at)]
       ELSE slot' = [v \in {} |-> NoType] /\ UNCHANGED <<replace, table>>
    /\ UNCHANGED <<kinds, text, tables, failed, phase, at, sig, misfits>>

EmitNextFunc ==
    /\ phase = "emit"
    /\ inst = 0 \/ BodyDone
    /\ inst = Instances(at)
    /\ inst' = 0
    /\ done' = 0
    /\ slot' = <<>>
    /\ IF at < Len(kinds) THEN at' = at + 1 /\ UNCHANGED phase
                          ELSE at' = 1 /\ phase' = "done"
    /\ UNCHANGED <<kinds, text, tables, replace, failed, table, sig, misfits>>

\* Reading a value when the replacements are r: a load, unless it is in no slot.
Loaded(r, v) ==
    IF InSlot(at, v) THEN Resolve(r, TypeOf(at, v)) ELSE IF v \in Types THEN v ELSE slot[v]

Misfit(what) == [func |-> at, inst |-> inst, stmt |-> done + 1, what |-> what]
Noted(what) == misfits' = misfits \cup {Misfit(w) : w \in what}
If(p, what) == IF p THEN {what} ELSE {}

\* The result of statement S has the type result; a `var` was given its alloca, by
\* llvm_val_decl, when the replacements were still those of before.
Bound(result) ==
    slot' = [v \in (DOMAIN slot) \cup {done + 1} |->
                IF v # done + 1 THEN slot[v]
                ELSE IF S.bind = "var" THEN Resolve(replace, S.type) ELSE result]
BadStore(result) == S.bind = "var" /\ Resolve(replace, S.type) # result

\* The alloca of a `var` comes first, and its type stands for nothing.
Unresolved == S.bind = "var" /\ Resolve(replace, S.type) = NoType
AbortEmission ==
    /\ AtStmt("mention") \/ AtStmt("op")
    /\ Unresolved
    /\ phase' = "aborted"
    /\ UNCHANGED <<kinds, text, tables, replace, failed, at, emitVars>>

\* llvm_resolve_path sets T again.  Slip: it trusts what it finds.
Unset(s) == replace
SetAgain(s) == [replace EXCEPT ![s.of] = s.with]

EmitMention ==
    /\ AtStmt("mention")
    /\ ~Unresolved
    /\ LET r == SetAgain(S)
           passed == Loaded(r, S.arg)
           result == Resolve(r, S.type)
       IN  /\ replace' = r
           /\ Bound(result)
           /\ Noted(If(InSlot(at, S.arg) /\ passed # slot[S.arg], "load")
                    \cup If(passed # sig[S.of][S.table], "pass")
                    \cup If(BadStore(result), "store"))
    /\ done' = done + 1
    /\ UNCHANGED <<kinds, text, tables, failed, phase, at, inst, table, sig>>

\* What a value's type is in the text of an instance: T stands for the instance's type.
Written(g, v) ==
    LET of[n \in 0..Len(text[g])] ==
        IF n = 0 THEN g
        ELSE CASE text[g][n].kind = "mention" -> text[g][n].with
               [] text[g][n].kind = "op" -> of[text[g][n].arg]
               [] OTHER -> NoType
    IN  IF v \in Types THEN v ELSE of[v]
Meant(v) == LET t == Written(at, v) IN IF t = at THEN tables[at][inst] ELSE t

\* A table path reads its operand from memory when it is a pointer, taking a pointer
\* value for the address of a variable.
EmitOp ==
    /\ AtStmt("op")
    /\ ~Unresolved
    /\ LET byTable == IsGeneric(S.of)
           callee == IF byTable THEN table[S.of] ELSE S.of
           self == IF ~InSlot(at, S.arg) THEN Loaded(replace, S.arg) ELSE Resolve(replace, S.of)
           r == IF byTable THEN [replace EXCEPT ![Self] = S.of] ELSE replace
           result == Resolve(r, S.type)
       IN  /\ replace' = r
           /\ Bound(result)
           /\ Noted(If(InSlot(at, S.arg) /\ self # slot[S.arg], "load")
                    \cup If(byTable /\ ~InSlot(at, S.arg) /\ self \in Pointers, "deref")
                    \cup If(self # callee \/ result # callee, "pass")
                    \cup If(callee # Meant(S.arg), "callee")
                    \cup If(BadStore(result), "store"))
    /\ done' = done + 1
    /\ UNCHANGED <<kinds, text, tables, failed, phase, at, inst, table, sig>>

EmitReturn ==
    /\ AtStmt("return")
    /\ LET value == Loaded(replace, S.arg)
       IN  Noted(If(InSlot(at, S.arg) /\ value # slot[S.arg], "load")
                 \cup If(value # sig[at][inst], "return"))
    /\ done' = done + 1
    /\ UNCHANGED <<kinds, text, tables, replace, failed, phase, at, inst, table, sig, slot>>

-----------------------------------------------------------------------------
Next ==
    \/ \E v \in Types \cup Values(at), b \in {"var", "final"} :
           \E g \in 1..Len(kinds), c \in Types : Mention(g, c, v, b)
    \/ \E v \in Values(at), b \in {"var", "final"} : Op(v, b)
    \/ \E v \in Types \cup Values(at) : Return(v)
    \/ NextBody
    \/ Declare
    \/ EmitInstance
    \/ EmitNextFunc
    \/ EmitMention
    \/ EmitOp
    \/ EmitReturn
    \/ AbortEmission

Spec == Init /\ [][Next]_vars

-----------------------------------------------------------------------------
(***************************************************************************)
(* Properties                                                              *)
(***************************************************************************)
\* A statement with what the analysis has noted of it.
Binds == {"var", "final"}
Stmt ==
    [kind : {"mention"}, of : Funcs, with : Types, table : Nat, arg : Types \cup Nat,
     bind : Binds, type : Funcs, ok : BOOLEAN]
    \cup [kind : {"op"}, of : Types \cup Funcs, arg : Nat, bind : Binds, ok : BOOLEAN,
          type : Types \cup {Self}]
    \cup [kind : {"return"}, arg : Types \cup Nat, ok : BOOLEAN]

\* The fields have the types of the C declarations, and what has been emitted has types.
GenericsTypeOK ==
    /\ kinds \in Seq({"plain", "generic"}) /\ Len(kinds) \in Funcs
    /\ text \in [Funcs -> Seq(Stmt)]
    /\ tables \in [Funcs -> Seq(Types)]
    /\ replace \in [Replaceable -> Types \cup Funcs \cup {NoType}]
    /\ \A g \in Funcs : replace[g] \notin Funcs
    /\ failed \in BOOLEAN /\ phase \in {"analyse", "init", "emit", "done", "aborted"}
    /\ at \in 1..Len(kinds) /\ inst \in 0..Instances(at) /\ done \in 0..Len(text[at])
    /\ table \in [Funcs -> Types \cup {NoType}]
    /\ sig \in [Funcs -> Seq(Types)]
    /\ slot \in [DOMAIN slot -> Types]
    /\ misfits \subseteq [func : Funcs, inst : Nat, stmt : Nat,
                         what : {"load", "pass", "store", "deref", "callee", "return"}]

\* Mentions of g that the analysis has read in function h from statement m to n.
Mentions(h, m, n, g) ==
    {text[h][i].with : i \in {j \in m..n : text[h][j].kind = "mention" /\ text[h][j].of = g}}

\* T of function g was replaced before statement n of g was analysed.
Opened(g, n) == \/ \E h \in 1..g - 1 : Mentions(h, 1, Len(text[h]), g) # {}
                \/ Mentions(g, 1, n, g) # {}

\* The type of value v of function g is not, at statement n, the one it was given: it
\* refers to a T, or to Self, that something has replaced since, or v was made from such
\* a value.
Astray(g, v, n) ==
    LET replaced(u, m) ==
            LET t == TypeOf(g, u)
            IN  CASE t \in {g, Self} -> \/ Opened(g, m)
                                       \/ (t = Self /\ \E h \in Funcs : Mentions(g, u + 1, m, h) # {})
                  [] t \in Funcs \ {g} -> \E c \in Mentions(g, u + 1, m, t) : c # text[g][u].with
                  [] OTHER -> FALSE
        astray[u \in 0..Len(text[g]), m \in 0..Len(text[g])] ==
            \/ replaced(u, m)
            \/ /\ u > 0
               /\ text[g][u].kind = "op"
               /\ astray[text[g][u].arg, u]
    IN  v \notin Types /\ astray[v, n]

\* The alloca of `var` n of function g is made while its type stands for the right one:
\* nothing else is ever instantiated, or the function has just settled it.
AllTables == UNION {ToSet(tables[g]) : g \in Funcs}
Settled(g, n) ==
    LET t == text[g][n].type
        last == {m \in 1..n - 1 : text[g][m].kind = "mention" /\ text[g][m].of = t}
    IN  CASE t \in Types -> TRUE
          [] t = Self -> \/ Cardinality(AllTables) = 1
                         \/ \E m \in 1..n - 1 : text[g][m].kind = "op" /\ text[g][m].type = Self
          [] OTHER -> \/ Cardinality(ToSet(tables[t])) = 1
                      \/ last # {} /\ text[g][Max(last)].with = text[g][n].with

\* llvm_resolve_type asserts that the type it is given is resolved.
NeverUnresolved == phase # "aborted"

\* It fails for a `var` that holds the result of a call through a table, and only when the
\* same behaviour has been used by a generic function that is never instantiated.
UnresolvedOnlyShared ==
    phase = "aborted" =>
        /\ S.kind = "op" /\ S.type = Self
        /\ \E g \in Funcs : /\ tables[g] = <<>>
                            /\ \E n \in 1..Len(text[g]) : text[g][n].kind = "op" /\ text[g][n].of = g

\* What the analysis says of an argument or a returned value is what its written type
\* says, unless the type of the value has gone astray, or T had been replaced before
\* the body that returns a T was read.
JudgedAsWritten ==
    \A g \in 1..Len(kinds) : \A n \in 1..Len(text[g]) :
        LET s == text[g][n]
            wants == CASE s.kind = "mention" -> s.with [] s.kind = "return" -> g [] OTHER -> NoType
        IN  s.kind \in {"mention", "return"} /\ ~Astray(g, s.arg, n)
                /\ ~(s.kind = "return" /\ Opened(g, n))
            => (s.ok <=> Written(g, s.arg) = wants)

\* In the code of an instance, a call through a table reaches the function of the type
\* the instance is for, whatever the instance mentions before.
TableCallsReachOwn ==
    \A m \in misfits : m.what = "callee" => ~IsGeneric(text[m.func][m.stmt].of)

\* Loads, arguments, callees and returned values of emitted code agree with each other
\* and with the text, except where the type of the operand has gone astray, a `var` was
\* given its alloca before its type was settled, or a pointer was dereferenced in an
\* instance for pointers.
MisfitsAreStale ==
    \A m \in misfits :
        LET s == text[m.func][m.stmt]
        IN  CASE m.what = "store" -> ~Settled(m.func, m.stmt)
              [] m.what = "deref" -> tables[m.func][m.inst] \in Pointers
              [] m.what = "load" -> \/ Astray(m.func, s.arg, m.stmt)
                                    \/ s.arg > 0 /\ ~Settled(m.func, s.arg)
              [] m.what = "return" -> Opened(m.func, m.stmt) \/ Astray(m.func, s.arg, m.stmt)
              [] OTHER -> Astray(m.func, s.arg, m.stmt)

\* A module that instantiates its generic functions with one type only, not a pointer,
\* is emitted right, in whatever order it declares and uses them.
OneTypeFits == Cardinality(AllTables) <= 1 /\ AllTables \cap Pointers = {} => misfits = {}

-----------------------------------------------------------------------------
(***************************************************************************)
(* The inductive invariant.                                                *)
(***************************************************************************)
\* A call of a function of the behaviour, through the table.
ByTable(g, n) == text[g][n].kind = "op" /\ text[g][n].of \in Funcs
CallsByTable(g, n) == \E m \in 1..n : ByTable(g, m)

\* What each phase leaves to the later ones.
Phases ==
    /\ phase = "analyse" => /\ inst = 0 /\ done = 0
                            /\ \A g \in Funcs : g > at => text[g] = <<>>
    /\ phase = "init" => done = 0 /\ inst <= Len(tables[at])
    /\ phase \in {"analyse", "init"} => slot = <<>> /\ misfits = {}
    /\ phase # "analyse" => ~failed
    /\ phase = "emit" /\ inst > 0 =>
          /\ DOMAIN slot = {v \in Values(at) : v <= done}
          /\ kinds[at] = "generic" => table[at] = tables[at][inst]

\* An LLVM function for each table that the first pass has come to.
Declared ==
    \A g \in Funcs :
        Len(sig[g]) = CASE phase = "analyse" -> 0
                        [] phase = "init" /\ g < at -> Len(tables[g])
                        [] phase = "init" /\ g = at -> inst
                        [] phase = "init" /\ g > at -> 0
                        [] OTHER -> Len(tables[g])

\* A parameter is replaced if and only if its function has been instantiated.
Replaced ==
    \A g \in Funcs :
        /\ replace[g] = NoType <=> tables[g] = <<>>
        /\ tables[g] # <<>> => g <= Len(kinds) /\ kinds[g] = "generic"

\* A statement uses earlier values.  A call through the table is of the function's own
\* parameter, since that of another one, mentioned before, has been replaced.
ReadRight(g, n) ==
    LET s == text[g][n]
    IN  /\ s.arg \in Types \cup {v \in Values(g) : v < n}
        /\ ~failed => s.ok
        /\ s.kind = "mention" =>
              /\ s.type = s.of
              /\ s.table \in 1..Len(tables[s.of]) /\ tables[s.of][s.table] = s.with
        /\ s.kind = "return" => kinds[g] = "generic"
        /\ s.kind = "op" => s.type = IF s.of \in Funcs THEN Self ELSE s.of
        /\ ByTable(g, n) => s.of = g /\ kinds[g] = "generic" /\ (s.arg # 0 => ByTable(g, s.arg))
AsRead == \A g \in Funcs : \A n \in 1..Len(text[g]) : ReadRight(g, n)

\* What Self stands for, once a value of type Self exists.
SelfKnown ==
    /\ \A g \in Funcs : CallsByTable(g, Len(text[g])) => replace[Self] # NoType
    /\ replace[Self] \in Funcs => CallsByTable(replace[Self], Len(text[replace[Self]]))
    /\ phase = "analyse" /\ CallsByTable(at, Len(text[at])) => replace[Self] \in Types \cup {at}
    /\ phase = "emit" /\ inst > 0 /\ CallsByTable(at, done) => replace[Self] = at

\* No type comes in but through a table.
FromTables(g, n) ==
    LET s == text[g][n]
    IN  /\ s.kind = "op" /\ s.of \in Types => s.of \in AllTables
        /\ s.arg \in Types /\ s.ok => s.arg \in AllTables
OnlyTables ==
    /\ \A t \in Replaceable : replace[t] \in Types => replace[t] \in AllTables
    /\ \A g \in Funcs : ToSet(sig[g]) \subseteq AllTables
    /\ \A v \in DOMAIN slot : slot[v] \in AllTables
    /\ \A g \in Funcs : \A n \in 1..Len(text[g]) : FromTables(g, n)

IInv ==
    /\ GenericsTypeOK /\ Phases /\ Declared /\ Replaced /\ AsRead /\ SelfKnown /\ OnlyTables
    /\ UnresolvedOnlyShared /\ TableCallsReachOwn /\ OneTypeFits
=============================================================================
