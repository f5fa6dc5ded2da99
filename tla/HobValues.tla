------------------------------ MODULE HobValues ------------------------------
(***************************************************************************)
(* Expressions with their values: sema_expr gives each expression a value  *)
(* (a constant it has folded, a final or a var) and a type, and llvm_expr  *)
(* later emits it from these, asked to load what it computes or to keep    *)
(* its address.  One declaration or assignment is analysed, with whatever  *)
(* expression the text holds.                                              *)
(*                                                                         *)
(* llvm_expr reads nothing but the analysed tree, so what it will answer   *)
(* is kept with the expression: the type of the instruction it answers     *)
(* when it loads, and when it does not.  A pointer type says what the      *)
(* address really points to (LLVM itself keeps no such type).              *)
(***************************************************************************)
EXTENDS Integers, Sequences, SequencesExt, Bitwise

CONSTANTS
    Narrow, Wide,   \* bounds: bits of i8 and u8; bits of i64, u64 and the compiler's int64_t
    Arches,         \* the target architectures: bits of their ints, whether they have floats
    Literals,       \* bound: the integer literals
    TypeNames,      \* bound: the types the text can name
    Specs,          \* bound: the types that declarations specify, or NoType
    Fields,         \* the fields of the struct, with their types
    StructTexts,    \* bound: the members of a struct literal: fields and whether `undefined`
    Signatures,     \* bound: argument and result of the functions that are called
    Forms,          \* bound: the kinds of expression
    Binops,         \* bound: the binary operators
    Size            \* bound: operands in the text, the statement's own included

ASSUME ValuesAssumption ==
    /\ Narrow \in Nat /\ Wide \in Nat /\ 1 < Narrow /\ Narrow < Wide
    /\ \A a \in Arches : a.bits \in Narrow..Wide /\ a.floats \in BOOLEAN

VARIABLES
    arch,       \* SemaModule.arch_info
    place,      \* SemaModule.current_ss: "none", or what the function around returns
    frames,     \* the activations of sema_expr and of the statement around it
    answer,     \* what the last one returned, or Nothing
    left,       \* how many more operands the text may have
    failed,     \* SemaModule.failed
    crashed     \* an assert, a trap or a NULL pointer has ended the compiler

vars == <<arch, place, frames, answer, left, failed, crashed>>

-----------------------------------------------------------------------------
(***************************************************************************)
(* Types                                                                   *)
(***************************************************************************)
NoType == [kind |-> "NULL"]
IntOf(bits, signed) == [kind |-> "int", bits |-> bits, signed |-> signed]
FloatOf(bits) == [kind |-> "float", bits |-> bits]
Bool == [kind |-> "bool"]
Void == [kind |-> "void"]
Func == [kind |-> "func"]
Struct == [kind |-> "struct"]
Ptr(t) == [kind |-> "ptr", of |-> t]
Opt(t) == [kind |-> "opt", of |-> t]
Slice(t) == [kind |-> "slice", of |-> t]
Arr(n, t) == [kind |-> "array", of |-> t, length |-> n]

U8 == IntOf(Narrow, FALSE)
ArchInt == IntOf(arch.bits, TRUE)
Usize == IntOf(arch.bits, FALSE)
ArchFloat == FloatOf(32)

\* The module declares the types of its architecture only.
RECURSIVE Declared(_)
Declared(t) ==
    CASE t.kind = "int" -> t.bits <= arch.bits
      [] t.kind = "float" -> arch.floats
      [] t.kind \in {"ptr", "opt", "slice", "array"} -> Declared(t.of)
      [] OTHER -> TRUE
Types == {t \in TypeNames : Declared(t)}

\* Comparing these two, sema_types_equals follows a NULL.
RECURSIVE Dies(_, _)
Dies(a, b) ==
    /\ a.kind = b.kind /\ a.kind \in {"ptr", "opt", "slice", "array"} /\ a.of # b.of
    /\ (NoType \in {a.of, b.of} \/ Dies(a.of, b.of))

(***************************************************************************)
(* Types of emitted values                                                 *)
(***************************************************************************)
Bad == [t |-> "bad"]    \* LLVM cannot make such an instruction, or makes another one
IntT(bits) == [t |-> "int", bits |-> bits]
FloatT(bits) == [t |-> "float", bits |-> bits]
PtrT(x) == [t |-> "ptr", to |-> x]
AggT(xs) == [t |-> "struct", of |-> xs]
ArrT(n, x) == [t |-> "array", length |-> n, of |-> x]

RECURSIVE LlvmType(_)
LlvmType(type) ==
    CASE type.kind = "int" -> IntT(type.bits)
      [] type.kind = "float" -> FloatT(type.bits)
      [] type.kind = "bool" -> IntT(1)
      [] type.kind = "void" -> [t |-> "void"]
      [] type.kind = "func" -> PtrT([t |-> "code"])
      [] type.kind = "ptr" -> PtrT(LlvmType(type.of))
      [] type.kind = "opt" -> AggT(<<IntT(1), LlvmType(type.of)>>)
      [] type.kind = "slice" -> AggT(<<IntT(Wide), PtrT(LlvmType(type.of))>>)
      [] type.kind = "array" -> ArrT(type.length, LlvmType(type.of))
      [] type.kind = "struct" -> AggT([i \in 1..Len(Fields) |-> LlvmType(Fields[i].type)])
      [] OTHER -> Bad

\* LLVMBuildLoad2, and LLVMBuildGEP2 or LLVMBuildExtractValue.
Loaded(v, type) == IF v = PtrT(type) /\ type.t # "void" THEN type ELSE Bad
GetMember(v, type, i) ==
    IF v = PtrT(type) THEN PtrT(type.of[i]) ELSE IF v = type THEN type.of[i] ELSE Bad
GetLoaded(v, type, i) == IF v = PtrT(type) \/ v = type THEN type.of[i] ELSE Bad

-----------------------------------------------------------------------------
(***************************************************************************)
(* Values                                                                  *)
(***************************************************************************)
NULL == [cat |-> "NULL"]
Nothing == [cat |-> "none"]

\* `odd`, for the properties: what the expression is made of that llvm_expr
\* does not emit right.
Value(cat, type, load, keep, odd) ==
    [cat |-> cat, type |-> type, load |-> load, keep |-> keep, odd |-> odd]
Final(type, load, odd) == Value("final", type, load, load, odd)

\* num: what SemaConst holds (nothing is kept of a float).  For the properties,
\* run: what the instructions would compute, were nothing folded, as long as
\* folding is meant to keep to it (exact).
Const(type, num, run, exact) ==
    Value("const", type, LlvmType(type), LlvmType(type), {})
      @@ [num |-> num, run |-> IF exact THEN run ELSE 0, exact |-> exact]

IsConst(e) == e.cat = "const"
Odds(kids) == UNION {kids[i].odd : i \in DOMAIN kids}

\* A constant that holds others is emitted from theirs.
Holding(type, num, kids) == [Const(type, num, 0, FALSE) EXCEPT !.odd = Odds(kids)]
Cut(n, type) == n % 2 ^ (IF type.kind = "bool" THEN 1 ELSE type.bits)
Int64(n) == ((n + 2 ^ (Wide - 1)) % 2 ^ Wide) - 2 ^ (Wide - 1)
SignedWord(w, bits) == IF w >= 2 ^ (bits - 1) THEN w - 2 ^ bits ELSE w

Number(type, n) == Const(type, Int64(n), Cut(n, type), TRUE)
Truth(b) == Const(Bool, b, b, TRUE)

-----------------------------------------------------------------------------
(***************************************************************************)
(* Operators                                                               *)
(***************************************************************************)
Logical == {"&&", "||"}
Comparisons == {"==", "!=", ">", ">=", "<", "<="}
FloatOps == {"+", "-", "*", "/"} \cup Comparisons

Quotient(a, b) ==
    IF (a >= 0) = (b > 0) THEN (IF a < 0 THEN -a ELSE a) \div (IF b < 0 THEN -b ELSE b)
    ELSE -((IF a < 0 THEN -a ELSE a) \div (IF b < 0 THEN -b ELSE b))
Bit(b) == IF b THEN 1 ELSE 0
Bits(op, x, y) == CASE op = "&" -> x & y [] op = "|" -> x | y [] op = "^" -> x ^^ y

\* Slip: the shifts the other way round.
ShiftSwapped(op, a, b) == IF op = "<<" THEN a \div 2 ^ (b % Wide) ELSE a * 2 ^ (b % Wide)
\* (A shift takes its count modulo the width, as the processor does.)
Shift(op, a, b) == IF op = ">>" THEN a \div 2 ^ (b % Wide) ELSE a * 2 ^ (b % Wide)

\* The operation that sema_expr_binop_eval writes in C, on int64_t.
Eval(op, a, b) ==
    CASE op = "+" -> a + b
      [] op = "-" -> a - b
      [] op = "*" -> a * b
      [] op = "/" -> Quotient(a, b)
      [] op = "%" -> a - b * Quotient(a, b)
      [] op \in {"&", "|", "^"} -> Bits(op, a % 2 ^ Wide, b % 2 ^ Wide)
      [] op \in {">>", "<<"} -> Shift(op, a, b)
      [] op = "==" -> Bit(a = b)
      [] op = "!=" -> Bit(a # b)
      [] op = ">" -> Bit(a >= b)
      [] op = ">=" -> Bit(a <= b)
      [] op = "<" -> Bit(a > b)
      [] op = "<=" -> Bit(a < b)

\* For the properties: what the instruction that llvm_expr emits for op makes of
\* two words.
Instr(op, bits, x, y) ==
    LET a == SignedWord(x, bits)
        b == SignedWord(y, bits)
        word(n) == n % 2 ^ bits
    IN  CASE op = "+" -> word(x + y)
          [] op = "-" -> word(x - y)
          [] op = "*" -> word(x * y)
          [] op = "/" -> word(Quotient(a, b))
          [] op = "%" -> x % y
          [] op \in {"&", "|", "^"} -> Bits(op, x, y)
          [] op = ">>" -> x \div 2 ^ y
          [] op = "<<" -> word(x * 2 ^ y)
          [] op = "==" -> Bit(x = y)
          [] op = "!=" -> Bit(x # y)

\* For the properties: the number is not negative, and fits.
Small(e) == 0 <= e.num /\ e.num < 2 ^ (e.type.bits - 1)
\* For the properties: the operators that folding does right.
Keeps(op, l, r) ==
    \/ op \in {"+", "-", "*", "&", "|", "^"}
    \/ op \in {"<<", ">>"} /\ Small(r) /\ r.num < r.type.bits /\ (op = "<<" \/ Small(l))
    \/ op \in {"/", "%", "==", "!="} /\ Small(l) /\ Small(r)

Fold(op, l, r) ==
    CASE op \in Logical ->
            LET and(x, y) == IF op = "&&" THEN x * y ELSE x + y - x * y
            IN  Const(Bool, and(l.num, r.num), and(l.run, r.run), l.exact /\ r.exact)
      [] l.type.kind = "float" -> Const(l.type, 0, 0, FALSE)
      [] OTHER ->
            LET exact == l.exact /\ r.exact /\ Keeps(op, l, r)
            IN  Const(l.type, Int64(Eval(op, l.num, r.num)),
                      IF exact THEN Instr(op, l.type.bits, l.run, r.run) ELSE 0, exact)

\* The asserts of sema_expr_binop_eval and sema_const_int, and the processor's
\* trap on a division.
FoldDies(op, l, r) ==
    CASE op \in Logical -> FALSE
      [] l.type.kind = "int" ->
            op \in {"/", "%"} /\ (r.num = 0 \/ (r.num = -1 /\ l.num = -(2 ^ (Wide - 1))))
      [] l.type.kind = "float" -> op \notin FloatOps
      [] OTHER -> TRUE

EmitBinop(op, l, r) ==
    LET isFloat == l.type.kind = "float"
        takes == IF isFloat /\ op \in FloatOps THEN {"float"}
                 ELSE IF op \in Comparisons THEN {"int", "ptr"} ELSE {"int"}
        type == IF op \in Comparisons \cup Logical THEN Bool ELSE l.type
        load == IF l.load # r.load \/ l.load.t \notin takes THEN Bad
                ELSE IF op \in Comparisons THEN IntT(1) ELSE l.load
        wrong == CASE isFloat -> op \notin FloatOps
                   [] op \in Comparisons -> l.type.kind \notin {"int", "bool", "ptr", "func"}
                   [] OTHER -> FALSE
    IN  Final(type, load, l.odd \cup r.odd \cup IF wrong THEN {"operand"} ELSE {})

(***************************************************************************)
(* Conversions                                                             *)
(***************************************************************************)
\* SemaAsConvType of a conversion between numbers.
NumberConv(from, to) ==
    CASE from.kind = "float" /\ to.kind = "int" ->
            IF to.signed THEN "FLOAT_TO_INT" ELSE "FLOAT_TO_UINT"
      [] from.kind = "float" /\ to.kind = "float" ->
            IF from.bits > to.bits THEN "FTRUNC"
            ELSE IF from.bits = to.bits THEN "BITCAST" ELSE "FEXTEND"
      [] from.kind = "int" /\ to.kind = "float" -> "INT_TO_FLOAT"
      [] from.kind = "int" /\ to.kind = "int" ->
            IF from.bits > to.bits THEN "TRUNC"
            ELSE IF from.bits = to.bits THEN "BITCAST" ELSE "EXTEND"

\* LLVM takes the instruction of this conversion from one type to the other.
Suits(conv, from, to) ==
    CASE conv = "EXTEND" -> from.t = "int" /\ to.t = "int" /\ from.bits < to.bits
      [] conv = "TRUNC" -> from.t = "int" /\ to.t = "int" /\ from.bits > to.bits
      [] conv = "FEXTEND" -> from.t = "float" /\ to.t = "float" /\ from.bits < to.bits
      [] conv = "FTRUNC" -> from.t = "float" /\ to.t = "float" /\ from.bits > to.bits
      [] conv = "BITCAST" -> from = to \/ (from.t = "ptr" /\ to.t = "ptr")
      [] conv \in {"FLOAT_TO_INT", "FLOAT_TO_UINT"} -> from.t = "float" /\ to.t = "int"
      [] conv = "INT_TO_FLOAT" -> from.t = "int" /\ to.t = "float"
      [] conv = "PTR_TO_INT" -> from.t = "ptr" /\ to.t = "int"
      [] conv = "INT_TO_PTR" -> from.t = "int" /\ to.t = "ptr"
      [] conv = "ARR_PTR_TO_SLICE" -> from.t = "ptr" /\ from.to.t = "array" /\ to.t = "struct"
      [] conv = "SLICE_TO_PTR" -> from.t = "struct" /\ from.of[2] = to
      [] conv = "OPT_WRAP" -> to.t = "struct" /\ to.of[2] = from
      [] conv = "OPT_UNWRAP" -> from.t = "struct" /\ from.of[2] = to

\* What a conversion answers: a value, and whether it has reported an error.
Yes(e) == [e |-> e, err |-> FALSE]
No == [e |-> NULL, err |-> TRUE]
Converted(e, dest, conv) ==
    Yes(Final(dest, IF Suits(conv, e.load, LlvmType(dest)) THEN LlvmType(dest) ELSE Bad, e.odd))

ConvertNumber(e, dest) ==
    LET conv == NumberConv(e.type, dest)
        exact == e.exact /\ (conv = "EXTEND" => Small(e))
    IN  CASE ~IsConst(e) -> {Converted(e, dest, conv)}
          [] dest.kind = "float" -> {Yes(Const(dest, 0, 0, FALSE))}
          [] e.type.kind = "float" -> {Yes(Const(dest, n, 0, FALSE)) : n \in Literals}
          [] OTHER -> {Yes(Const(dest, e.num, IF exact THEN Cut(e.run, dest) ELSE 0, exact))}

ConvertInt(e, dest) ==
    CASE dest.kind \in {"int", "float"} -> ConvertNumber(e, dest)
      [] dest.kind = "ptr" -> {Converted(e, dest, "INT_TO_PTR")}
      [] OTHER -> {No}

ConvertPointer(e, dest) ==
    CASE e.type.of.kind = "array" /\ dest.kind = "slice" -> {Converted(e, dest, "ARR_PTR_TO_SLICE")}
      [] dest.kind = "ptr" -> {Converted(e, dest, "BITCAST")}
      [] dest.kind = "int" -> {Converted(e, dest, "PTR_TO_INT")}
      [] OTHER -> {No}

ConvertSlice(e, dest) ==
    IF dest = Ptr(e.type.of) THEN {Converted(e, dest, "SLICE_TO_PTR")} ELSE {No}

\* The types that must be equal for a void pointer are those of a function and
\* of a slice: whether they are depends on the memory of the first.
ConvertFunc(e, dest) ==
    CASE dest = Usize -> {Converted(e, dest, "PTR_TO_INT")}
      [] dest = Ptr(Void) -> {Converted(e, dest, "BITCAST"), No}
      [] OTHER -> {No}

\* Slip: unwrapping a constant null is refused without a word.
ConvertOptSilent(e, dest) ==
    CASE e.type.of # dest -> {No}
      [] ~IsConst(e) -> {Converted(e, dest, "OPT_UNWRAP")}
      [] e.num.null -> {Yes(NULL)}
      [] OTHER -> {Yes(e.num.of)}

ConvertOpt(e, dest) ==
    CASE e.type.of # dest -> {No}
      [] ~IsConst(e) -> {Converted(e, dest, "OPT_UNWRAP")}
      [] e.num.null -> {No}
      [] OTHER -> {Yes(e.num.of)}

Convert(e, dest) ==
    CASE e.type.kind = "float" /\ dest.kind \in {"int", "float"} -> ConvertNumber(e, dest)
      [] e.type.kind = "int" -> ConvertInt(e, dest)
      [] e.type.kind = "ptr" -> ConvertPointer(e, dest)
      [] e.type.kind = "slice" -> ConvertSlice(e, dest)
      [] e.type.kind = "func" -> ConvertFunc(e, dest)
      [] e.type.kind = "opt" -> ConvertOpt(e, dest)
      [] OTHER -> {No}

\* A cast to the type the operand has is the operand's value, a var too, but
\* llvm_expr always loads the operand of a cast.
Same(e) == IF IsConst(e) THEN e
           ELSE [e EXCEPT !.keep = e.load, !.odd = @ \cup IF e.cat = "var" THEN {"castVar"} ELSE {}]

Wrap(e, dest) ==
    CASE e.type # dest.of -> {No}
      [] IsConst(e) -> {Yes(Holding(dest, [null |-> FALSE, of |-> e], <<e>>))}
      [] OTHER -> {Converted(e, dest, "OPT_WRAP")}

As(e, dest) ==
    CASE e.type = dest -> {Yes(Same(e))}
      [] dest.kind = "opt" -> Wrap(e, dest)
      [] OTHER -> Convert(e, dest)

(***************************************************************************)
(* Paths                                                                   *)
(***************************************************************************)
\* A final held by its address: llvm_resolve_path does not load what it finds
\* in there.
Held(e) == e.cat = "final" /\ e.keep # e.load
InnerOdd(e) == e.odd \cup IF Held(e) THEN {"heldFinal"} ELSE {}

\* A part of e that llvm_get_member finds, loaded if e is a var.
Part(e, type, part) ==
    Value(e.cat, type, IF e.cat = "var" THEN Loaded(part, LlvmType(type)) ELSE part, part, InnerOdd(e))

\* A slice keeps its length in 64 bits on every architecture.
Length(e) ==
    LET part == Part(e, Usize, GetMember(e.keep, LlvmType(e.type), 1))
    IN  [part EXCEPT !.odd = @ \cup IF arch.bits # Wide THEN {"narrowLength"} ELSE {}]

\* sema_value_with_type writes the type into the union that holds a constant:
\* the constant keeps its type, and llvm_const knows it no more.
Overwritten(e) == [e EXCEPT !.load = Bad, !.keep = Bad, !.odd = {"constOption"}]

Place(e, at) ==
    Value("var", e.type.of, Loaded(at, LlvmType(e.type.of)), at,
          InnerOdd(e) \cup IF e.type.of = Void THEN {"voidPlace"} ELSE {})
\* Slip: the path goes on from a var's own address, as from a pointer.
DerefKept(e) == Place(e, e.keep)

Deref(e) == Place(e, IF e.cat = "var" THEN Loaded(e.keep, LlvmType(e.type)) ELSE e.keep)

Member(e, i) ==
    IF ~IsConst(e) THEN {Yes(Part(e, Fields[i].type, GetMember(e.keep, LlvmType(Struct), i)))}
    ELSE IF i \in DOMAIN e.num THEN {Yes(e.num[i])} ELSE {No}

FieldNames == {Fields[i].name : i \in DOMAIN Fields}
Segments == {"sizeof", "deref", "null", "length", "raw"} \cup FieldNames

Inner(e, seg) ==
    CASE seg = "sizeof" -> {Yes(Final(Usize, LlvmType(Usize), e.odd))}
      [] seg = "deref" /\ e.type.kind = "ptr" -> {Yes(Deref(e))}
      [] seg = "null" /\ e.type.kind = "opt" ->
            IF IsConst(e) THEN {Yes(Overwritten(e))}
            ELSE {Yes(Part(e, Bool, GetMember(e.keep, LlvmType(e.type), 1)))}
      [] seg \in FieldNames /\ e.type.kind = "struct" ->
            Member(e, CHOOSE i \in DOMAIN Fields : Fields[i].name = seg)
      [] seg = "length" /\ e.type.kind = "slice" ->
            {Yes(Length(e))}
      [] seg = "raw" /\ e.type.kind = "slice" ->
            {Yes(Part(e, Ptr(e.type.of), GetMember(e.keep, LlvmType(e.type), 2)))}
      [] seg = "length" /\ e.type.kind = "array" -> {Yes(Final(Usize, LlvmType(Usize), e.odd))}
      [] OTHER -> {No}

\* `?`: whether llvm_expr is asked to load or not, it answers the member of
\* what it got unloaded.
Try(e) ==
    IF IsConst(e) THEN Overwritten(e)
    ELSE LET part == GetMember(e.keep, LlvmType(e.type), 2)
         IN  Value(e.cat, e.type.of, part, part,
                   e.odd \cup IF e.keep # e.load THEN {"tryPlace"} ELSE {})

\* An element of a slice is found through the pointer in the slice; one of an
\* array needs the array's address.
Element(e, i) ==
    LET type == LlvmType(e.type)
        found == IF e.type.kind = "slice" THEN GetLoaded(e.keep, type, 2) # Bad ELSE e.keep = PtrT(type)
        at == IF found /\ i.load.t = "int" THEN PtrT(LlvmType(e.type.of)) ELSE Bad
    IN  Value(e.cat, e.type.of, Loaded(at, LlvmType(e.type.of)), at,
              e.odd \cup i.odd \cup
                IF e.type.kind = "array" /\ e.keep.t # "ptr" THEN {"finalArray"} ELSE {})

Stored(kids, type(_)) == \A i \in DOMAIN kids : kids[i].load = LlvmType(type(i))
\* A value built in memory that llvm_expr allocates.
Built(cat, type, kids, stored) ==
    LET load == IF stored THEN LlvmType(type) ELSE Bad
    IN  Value(cat, type, load, PtrT(load), Odds(kids))
ArrayOf(kids, of) == Built("var", Arr(Len(kids), of), kids, Stored(kids, LAMBDA i : of))

-----------------------------------------------------------------------------
(***************************************************************************)
(* Activations                                                             *)
(***************************************************************************)
Top == Last(frames)
Kids == Top.kids
Named(members) == SelectSeq(members, LAMBDA m : m.field \in DOMAIN Fields /\ ~m.undefined)
Arity(form, with) ==
    CASE form \in {"binop", "idx", "assign"} -> 2
      [] form = "array" -> with
      [] form = "struct" -> Len(Named(with))
      [] OTHER -> 1

\* The expectation that the next operand is analysed with.
Expectation ==
    LET f == Top
        first == f.kids = <<>>
    IN  CASE f.form = "decl" -> f.with
          [] f.form = "binop" /\ f.with \in Logical -> Bool
          [] f.form = "binop" /\ first -> IF f.with \in Comparisons THEN NoType ELSE f.ctx
          [] f.form = "unary" -> f.ctx
          [] f.form = "not" -> Bool
          [] f.form = "as" -> IF f.with.kind = "opt" THEN f.with.of ELSE f.with
          [] f.form = "try" /\ f.ctx # NoType -> Opt(f.ctx)
          [] f.form = "idx" -> IF first THEN Slice(f.ctx) ELSE Usize
          [] f.form = "array" /\ first -> IF f.ctx.kind = "array" THEN f.ctx.of ELSE NoType
          [] f.form = "call" -> f.with.arg
          [] f.form = "struct" -> Fields[Named(f.with)[Len(f.kids) + 1].field].type
          [] f.form \in {"binop", "array", "assign"} /\ ~first -> f.kids[1].type
          [] OTHER -> NoType

Fine == UNCHANGED <<failed, crashed>>
Fails == failed' = TRUE /\ UNCHANGED crashed
Returns(e) == frames' = Front(frames) /\ answer' = e /\ UNCHANGED <<left, arch, place>>
Answers(r) == Returns(r.e) /\ failed' = (failed \/ r.err) /\ UNCHANGED crashed
GoesOn ==
    /\ frames' = [frames EXCEPT ![Len(frames)].kids = Append(@, answer)]
    /\ answer' = Nothing
    /\ UNCHANGED <<left, arch, place>>
Crashes == crashed' = TRUE /\ UNCHANGED <<arch, place, frames, answer, left, failed>>

\* The next expression of the text is one that is analysed at once ...
Reading(form) == ~crashed /\ form \in Forms /\ answer = Nothing /\ frames # <<>>
Leaf(form) == Reading(form) /\ UNCHANGED <<arch, place, frames, left, crashed>>
Give(e) == answer' = e /\ UNCHANGED failed
GiveUp == answer' = NULL /\ failed' = TRUE

\* ... or has operands.
Opening(form, with) ==
    /\ Reading(form) /\ left >= Arity(form, with)
    /\ frames' = Append(frames, [form |-> form, with |-> with, ctx |-> Expectation, kids |-> <<>>])
    /\ left' = left - Arity(form, with)
    /\ UNCHANGED <<arch, place, answer>>
Opens(form, with) == Opening(form, with) /\ UNCHANGED crashed
Enter(form, with) == Opens(form, with) /\ UNCHANGED failed

\* An operand of the top activation has been analysed.
Handle(form) == ~crashed /\ frames # <<>> /\ Top.form = form /\ answer # Nothing
Given(form) == Handle(form) /\ answer # NULL

Silent(form) == Handle(form) /\ answer = NULL
HandleNull ==
    /\ ~crashed /\ frames # <<>> /\ answer = NULL
    /\ Top.form \notin {"not", "struct", "call"}
    /\ Returns(NULL) /\ Fine

-----------------------------------------------------------------------------
(***************************************************************************)
(* Expressions without operands                                            *)
(***************************************************************************)
Integer ==
    /\ Leaf("int")
    /\ \E n \in Literals : Give(Number(IF Expectation.kind = "int" THEN Expectation ELSE ArchInt, n))

\* An architecture without floats: no value, and no error either.
FloatLiteral ==
    /\ Leaf("float")
    /\ CASE Expectation.kind = "float" -> Give(Const(Expectation, 0, 0, FALSE))
         [] arch.floats -> Give(Const(ArchFloat, 0, 0, FALSE))
         [] OTHER -> Give(NULL)

Boolean == Leaf("bool") /\ \E b \in {0, 1} : Give(Truth(b))
Character == Leaf("char") /\ \E n \in Literals : Give(Number(U8, n))
String == Leaf("str") /\ Give(Final(Slice(U8), LlvmType(Slice(U8)), {}))

Null ==
    /\ Leaf("null")
    /\ CASE Expectation.kind = "ptr" -> Give(Final(Expectation, LlvmType(Expectation), {}))
         [] Expectation.kind = "opt" ->
                Give(Const(Expectation, [null |-> TRUE, of |-> NULL], 0, FALSE))
         [] OTHER -> GiveUp

\* A local: a var is the address it was given, a final the value itself.
Local ==
    /\ Leaf("name")
    /\ \E type \in Types :
          \/ Give(Final(type, LlvmType(type), {}))
          \/ type.kind # "func" /\ Give(Value("var", type, LlvmType(type), PtrT(LlvmType(type)), {}))

EmptyArray ==
    /\ Leaf("array")
    /\ IF Expectation.kind = "array" THEN Give(ArrayOf(<<>>, Expectation.of)) ELSE GiveUp

-----------------------------------------------------------------------------
(***************************************************************************)
(* Expressions with operands                                               *)
(***************************************************************************)
EnterBinop == \E op \in Binops : Enter("binop", op)
Numeric(type) == type.kind \in {"int", "float"}
Operands == Append(Kids, answer)

BinopLeft ==
    /\ Given("binop") /\ Kids = <<>>
    /\ IF Top.with \notin Logical \cup Comparisons /\ ~Numeric(answer.type)
       THEN Returns(NULL) /\ Fails ELSE GoesOn /\ Fine

BinopRight ==
    /\ Given("binop") /\ Kids # <<>>
    /\ LET op == Top.with
           l == Kids[1]
           r == answer
       IN  CASE Dies(l.type, r.type) -> Crashes
             [] l.type # r.type \/ (op \in Logical /\ l.type # Bool) -> Returns(NULL) /\ Fails
             [] ~(IsConst(l) /\ IsConst(r)) -> Returns(EmitBinop(op, l, r)) /\ Fine
             [] FoldDies(op, l, r) -> Crashes
             [] OTHER -> Returns(Fold(op, l, r)) /\ Fine

Negated(e) ==
    IF IsConst(e) /\ e.type.kind = "int"
    THEN Const(e.type, Int64(-e.num), (-e.run) % 2 ^ e.type.bits, e.exact)
    ELSE IF IsConst(e) /\ e.type.kind = "float" THEN Const(e.type, 0, 0, FALSE)
    ELSE Final(e.type, e.load, e.odd)

EnterUnary == \E op \in {"-", "~"} : Enter("unary", op)
Minus ==
    /\ Given("unary") /\ Top.with = "-"
    /\ Returns(Negated(answer))
    /\ IF Numeric(answer.type) THEN Fine ELSE Fails

\* The guard refuses the integers, the other way round.
BitNot ==
    /\ Given("unary") /\ Top.with = "~"
    /\ LET e == answer
           isInt == e.type.kind = "int"
           load == IF e.load.t = "int" THEN e.load ELSE Bad
       IN  CASE IsConst(e) /\ isInt ->
                    Returns(Const(e.type, Int64(-e.num - 1), 0, FALSE)) /\ Fails
             [] IsConst(e) -> Crashes
             [] isInt -> Returns(Final(e.type, load, e.odd)) /\ Fails
             [] OTHER -> Returns(Final(e.type, load, e.odd \cup
                             IF e.type = Bool THEN {} ELSE {"operand"})) /\ Fine

EnterNot == Enter("not", "")
NotNull == Silent("not") /\ Crashes
LogicalNot ==
    /\ Given("not")
    /\ Returns(IF IsConst(answer) /\ answer.type = Bool
               THEN Const(Bool, 1 - answer.num, 1 - answer.run, answer.exact)
               ELSE IF IsConst(answer) THEN Const(Bool, 0, 0, FALSE)
               ELSE Final(Bool, answer.load, answer.odd))
    /\ IF answer.type = Bool THEN Fine ELSE Fails

EnterRef == Enter("ref", "")
Ref ==
    /\ Given("ref")
    /\ Returns(Final(Ptr(answer.type), answer.keep, answer.odd))
    /\ IF answer.cat = "var" THEN Fine ELSE Fails

\* Comparing the types follows the missing element type of an expectation.
AsDies(e, dest) ==
    \/ Dies(e.type, dest)
    \/ dest.kind = "opt" /\ Dies(e.type, dest.of)
    \/ e.type.kind = "opt" /\ Dies(e.type.of, dest)

EnterAs ==
    \/ \E type \in Types : Enter("as", type)
    \/ Reading("as") /\ Expectation # NoType /\ Enter("as", Expectation)
AsNothing == Leaf("as") /\ Expectation = NoType /\ GiveUp
Cast ==
    /\ Given("as")
    /\ IF AsDies(answer, Top.with) THEN Crashes
       ELSE \E r \in As(answer, Top.with) : Answers(r)

EnterPath == \E seg \in Segments : Enter("path", seg)
Path == Given("path") /\ \E r \in Inner(answer, Top.with) : Answers(r)

EnterIdx == Enter("idx", "")
IdxOf == Given("idx") /\ Kids = <<>> /\ GoesOn /\ Fine
Idx ==
    /\ Given("idx") /\ Kids # <<>>
    /\ LET e == Kids[1]
       IN  CASE answer.type # Usize \/ e.type.kind \notin {"slice", "array"} -> Returns(NULL) /\ Fails
             [] e.type.of = NoType -> Crashes
             [] OTHER -> Returns(Element(e, answer)) /\ Fine

\* sema_module_returns comes first: outside of functions its assert ends the
\* compiler, and a function that returns no optional is an error.
EnterTry ==
    /\ Opening("try", "")
    /\ crashed' = (place = "none") /\ failed' = (failed \/ place = "other")

\* Of what is no optional the type in there is read all the same: the one a
\* pointer, a slice or an array has, or what is not a type and ends the compiler.
RetOnNull ==
    /\ Given("try")
    /\ CASE answer.type.kind = "opt" -> Returns(Try(answer)) /\ Fine
         [] answer.type.kind \in {"ptr", "slice", "array"} ->
                Returns([answer EXCEPT !.type = @.of, !.load = Bad, !.keep = Bad]) /\ Fails
         [] OTHER -> crashed' = TRUE /\ failed' = TRUE /\ UNCHANGED <<arch, place, frames, answer, left>>

\* Outside of functions there is no scope for the name (sema_module_push_scope_decl).
EnterUnwrap == Enter("unwrap", "")
Unwrap ==
    /\ Given("unwrap")
    /\ CASE answer.type.kind # "opt" -> Returns(NULL) /\ Fails
         [] place = "none" -> Crashes
         [] IsConst(answer) -> Returns(Final(Bool, Bad, {"constOption"})) /\ Fine
         [] OTHER -> Returns(Final(Bool, GetLoaded(answer.load, LlvmType(answer.type), 1), answer.odd)) /\ Fine

EnterArray == Enter("array", 1) \/ Enter("array", 2)
Array ==
    /\ Given("array")
    /\ LET of == Operands[1].type
       IN  CASE Dies(of, answer.type) -> Crashes
             [] of # answer.type -> Returns(NULL) /\ Fails
             [] Len(Operands) < Top.with -> GoesOn /\ Fine
             [] OTHER -> Returns(ArrayOf(Operands, of)) /\ Fine

\* A struct literal, with what is wrong of its members whatever their values.
Misfit(members) ==
    \/ Len(members) < Len(Fields)
    \/ \E i, j \in DOMAIN members : i # j /\ members[i].field = members[j].field
    \/ \E i \in DOMAIN members : ~members[i].undefined /\ members[i].field \notin DOMAIN Fields
StructOf(members, kids) ==
    LET named == Named(members)
        first(f) == CHOOSE i \in DOMAIN named :
                        named[i].field = f /\ \A j \in 1..(i - 1) : named[j].field # f
    IN  IF (\A i \in DOMAIN members : ~members[i].undefined) /\ \A i \in DOMAIN kids : IsConst(kids[i])
        THEN Holding(Struct, [f \in {named[i].field : i \in DOMAIN named} |-> kids[first(f)]], kids)
        ELSE Built("final", Struct, kids, Stored(kids, LAMBDA i : Fields[named[i].field].type))

EnterStruct ==
    \E members \in StructTexts :
        /\ Named(members) # <<>> /\ Opens("struct", members)
        /\ failed' = (failed \/ Misfit(members))
StructNow ==
    /\ Leaf("struct")
    /\ \E members \in StructTexts :
          /\ Named(members) = <<>> /\ answer' = StructOf(members, <<>>)
          /\ failed' = (failed \/ Misfit(members))
StructNull == Silent("struct") /\ Crashes
StructMember ==
    /\ Given("struct")
    /\ IF Len(Operands) < Len(Named(Top.with)) THEN GoesOn ELSE Returns(StructOf(Top.with, Operands))
    /\ IF answer.type = Expectation THEN Fine ELSE Fails

EnterCall == \E f \in Signatures : Declared(f.arg) /\ Declared(f.returns) /\ Enter("call", f)
Called(load, odd) == Final(Top.with.returns, load, odd)
CallNull == Silent("call") /\ Returns(Called(Bad, {"noValue"})) /\ Fine
Call ==
    /\ Given("call")
    /\ LET arg == LlvmType(Top.with.arg)
           load == IF answer.load = arg THEN LlvmType(Top.with.returns) ELSE Bad
       IN  Returns(Called(load, answer.odd))
    /\ IF answer.type = Top.with.arg THEN Fine ELSE Fails

-----------------------------------------------------------------------------
(***************************************************************************)
(* The statement around the expression                                     *)
(***************************************************************************)
\* sema_val_decl, and sema_stmt_assign, which goes on from what is no variable.
Refuses(e, kind) ==
    \/ place = "none" /\ e.cat = "var"
    \/ Top.with \notin {NoType, e.type}
    \/ kind = "const" /\ place # "none" /\ ~IsConst(e)
Declare ==
    /\ Given("decl")
    /\ \E kind \in {"const", "final", "var"} :
          IF Refuses(answer, kind) THEN Returns(NULL) /\ Fails ELSE Returns(answer) /\ Fine

AssignTo ==
    /\ Given("assign") /\ Kids = <<>> /\ GoesOn
    /\ IF answer.cat = "var" THEN Fine ELSE Fails
AssignFrom ==
    /\ Given("assign") /\ Kids # <<>> /\ Returns(answer)
    /\ IF answer.type = Kids[1].type THEN Fine ELSE Fails

-----------------------------------------------------------------------------
Statement(form, with) == <<[form |-> form, with |-> with, ctx |-> NoType, kids |-> <<>>]>>

Init ==
    /\ arch \in Arches
    /\ place \in {"none", "optional", "other"}
    /\ \/ left = Size - 1 /\ \E type \in Specs \cap (Types \cup {NoType}) : frames = Statement("decl", type)
       \/ left = Size - 2 /\ place # "none" /\ frames = Statement("assign", "")
    /\ answer = Nothing /\ failed = FALSE /\ crashed = FALSE

Next ==
    \/ HandleNull
    \/ Integer \/ FloatLiteral \/ Boolean \/ Character \/ String \/ Null \/ Local
    \/ EmptyArray \/ EnterArray \/ Array
    \/ EnterBinop \/ BinopLeft \/ BinopRight
    \/ EnterUnary \/ Minus \/ BitNot
    \/ EnterNot \/ NotNull \/ LogicalNot
    \/ EnterRef \/ Ref
    \/ EnterAs \/ AsNothing \/ Cast
    \/ EnterPath \/ Path
    \/ EnterIdx \/ IdxOf \/ Idx
    \/ EnterTry \/ RetOnNull
    \/ EnterUnwrap \/ Unwrap
    \/ EnterStruct \/ StructNow \/ StructNull \/ StructMember
    \/ EnterCall \/ CallNull \/ Call
    \/ Declare \/ AssignTo \/ AssignFrom

Spec == Init /\ [][Next]_vars

-----------------------------------------------------------------------------
(***************************************************************************)
(* Properties                                                              *)
(***************************************************************************)
Answered == answer.cat \in {"const", "final", "var"}

(***************************************************************************)
(* What llvm_expr answers for an expression has the type that analysis     *)
(* gave the expression, when it is loaded, and a var is then an address of *)
(* such a value: every conversion, path, element and member between the    *)
(* two keeps them together.  (But for the expressions made of what `odd`   *)
(* names: the cast of a var to its own type where its address is wanted;   *)
(* an element of an array that is no place; a member of an element of a    *)
(* final slice, or of a struct literal; the bit operators, `%` and `~` on  *)
(* what is no integer, and comparing aggregates; `?` on a place; `.null`,  *)
(* `?` and `unwrap` on a constant optional; what a pointer to void points  *)
(* to; the length of a slice where a word is not 64 bits wide; a call one  *)
(* of whose arguments has no value.)                                       *)
(***************************************************************************)
EmittedTyped ==
    (Answered /\ ~failed /\ answer.odd = {}) =>
        /\ answer.load = LlvmType(answer.type)
        /\ answer.cat = "var" => answer.keep = PtrT(LlvmType(answer.type))

(***************************************************************************)
(* A folded integer, cut to its type when it is emitted, is what the       *)
(* instructions would have computed at run time: folding on int64_t,       *)
(* without cutting anything in between, is only wrong for what Keeps and   *)
(* the conversions leave out (ordered comparisons, and division, remainder,*)
(* right shift, equality and widening of numbers that do not fit).         *)
(***************************************************************************)
FoldsAsComputed == (Answered /\ IsConst(answer) /\ answer.exact) => Cut(answer.num, answer.type) = answer.run

(***************************************************************************)
(* On an architecture with floats, an expression only goes without a value *)
(* when an error has been reported, and the compiler only ends itself      *)
(* without one in the asserts and traps of folding, in `~` of a constant   *)
(* that is no integer, on the unknown element type that an indexed         *)
(* expression is expected to have, and, outside of functions, in a `?` or  *)
(* the `unwrap` of an optional.                                            *)
(***************************************************************************)
RefusedIsReported ==
    (arch.floats /\ ~failed) =>
        /\ answer # NULL
        /\ crashed => \/ Top.form = "binop" /\ IsConst(Kids[1]) /\ IsConst(answer)
                      \/ Top.form = "unary" /\ Top.with = "~" /\ IsConst(answer)
                      \/ \E i \in DOMAIN frames : frames[i].form = "idx" /\ frames[i].ctx = NoType
                      \/ place = "none" /\ (Top.form = "try" \/ (Top.form = "unwrap" /\ answer.type.kind = "opt"))
=============================================================================
