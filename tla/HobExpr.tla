------------------------------- MODULE HobExpr -------------------------------
(***************************************************************************)
(* Parsing of one expression: src/parser/parts/expr.c, with the one token  *)
(* of lookahead of src/parser/private.c.                                   *)
(*                                                                         *)
(* _parse_expr calls itself for the right operand of every operator, so    *)
(* the tree leans to the right until expr_push_down turns it: it swaps an  *)
(* operator with the one at the root of its right operand as long as the   *)
(* latter does not bind tighter.  Each turn is a step of its own here.     *)
(*                                                                         *)
(* The text is chosen token by token when the parser reads it.  A token    *)
(* stands for a class: "x" for every operand of one token, one path or one *)
(* anonymous function, "as", "." and "unwrap" for the operator with the    *)
(* type, path or name after it, "struct" for a whole struct expression,    *)
(* "EOI" for the end.  The text may break off at any place but the first   *)
(* with a literal that the lexer rejects.                                  *)
(* TOKEN_XOR is left out: the lexer has no symbol for it.                  *)
(***************************************************************************)
EXTENDS Integers, FiniteSets, Sequences, SequencesExt

CONSTANTS
  Core,       \* tokens that count once in the length of a text
  Forms,      \* tokens that count twice
  TopStop,    \* where the expression ends, as its statement says
  MaxLength,  \* bound: the length before the stop or the end of the file
  MaxSize     \* bound: calls and expressions while the lexer is stuck

ASSUME BoundsAssumption == MaxLength \in Nat /\ MaxSize \in Nat
ASSUME BracketsAssumption == {")", "]", "}", ","} \subseteq Core \cup Forms \cup TopStop

VARIABLES
  text,      \* the tokens lexed; the last one is parser->token
  given,     \* parser->skip_next: the last token is to be read again
  stuck,     \* the lexer is at a literal that it rejects
  nodes,     \* the expressions made; a pointer is an index, 0 is NULL
  frames,    \* the running calls of _parse_expr
  cursor,    \* the expression expr_push_down is at, 0 if it is not running
  failed,    \* parser_failed: an error of the parser or of the lexer
  crashed    \* NULL has been dereferenced

vars == <<text, given, stuck, nodes, frames, cursor, failed, crashed>>

(* The operators of PARSE_BINOP, and the priorities of expr_push_down.     *)
(* "%" has none in the table, which leaves 0.                              *)
Comparisons == {"==", "!=", ">", ">=", "<", "<="}
BinaryTokens == {"+", "-", "*", "/", "%", "&", "|", ">>", "<<", "&&", "||"}
                  \cup Comparisons

priority(op) ==
  CASE op \in {"&", ">>", "<<"} -> 30
    [] op \in {"*", "/"}        -> 20
    [] op = "|"                 -> 15
    [] op \in {"+", "-"}        -> 10
    [] op \in {"&&", "||"}      -> -1
    [] OTHER                    -> 0

Unaries == {"!", "~"}
Postfixes == {"?", "unwrap"}
Expected == {"x", "struct", "[", "(", "{"} \cup Postfixes \cup Unaries \cup BinaryTokens

(* The last token of each class, as far as it matters how the parser goes  *)
(* on with it: "other" is one that nothing expects.                        *)
LastOf(t) ==
  CASE t = "struct"      -> {"}"}
    [] t = "x"           -> {"x", "}", "*", ">", "other"}
    [] t \in {"as", "."} -> {"x", "*", ">", "other"}
    [] t = "unwrap"      -> {"x"}
    [] OTHER             -> {t}

Tokens == Core \cup Forms \cup TopStop \cup {"EOI", "x", "}", "*", ">", "other"}

(* What the caller of a nested parse_expr does with its answer, and what   *)
(* it has gathered: the operator token `at` and the operands `args`.       *)
Uses == {"top", "binop", "-", "&", "!", "~", "(", "[", "arg", "elem"}

Expr == [type : {"leaf", "binop", "pre", "post", "idx", "call", "array"},
         at : Nat, kids : Seq(Nat), scoped : BOOLEAN]

Frame == [stop : SUBSET Tokens, post : BOOLEAN, first : BOOLEAN, expr : Nat,
          pc : {"main", "post", "args", "push", ")", "]", "done"},
          use : Uses, at : Nat, args : Seq(Nat)]

Depth == Len(frames)
Top == frames[Depth]
Caller == frames[Depth - 1]
token == text[Len(text)]

(* parser_token: of a struct expression that has been read, its closing    *)
(* brace; given back, only the word itself has been read.                  *)
StructRead == text # <<>> /\ token = "struct" /\ ~given /\ ~stuck
current == IF StructRead THEN "}" ELSE token

NewExpr(type, at, kids) ==
  [type |-> type, at |-> at, kids |-> kids, scoped |-> FALSE]

NewFrame(stop, post, use, at, args) ==
  [stop |-> stop, post |-> post, first |-> TRUE, expr |-> 0, pc |-> "main",
   use |-> use, at |-> at, args |-> args]

Init ==
  /\ text = <<>> /\ given = FALSE /\ stuck = FALSE /\ nodes = <<>> /\ cursor = 0
  /\ frames = <<NewFrame(TopStop, TRUE, "top", 0, <<>>)>>
  /\ failed = FALSE /\ crashed = FALSE

-----------------------------------------------------------------------------
(* parser_step: the token given back, the next one of the file, or the     *)
(* last one again and again, at the end of the file and at a rejected      *)
(* literal.                                                                *)
Length == Len(text) + Len(SelectSeq(text, LAMBDA s : s \in Forms))
Rereads == given \/ stuck \/ (text # <<>> /\ token = "EOI")

NextTokens ==
  IF Rereads THEN {t \in {token} : stuck => Depth + Len(nodes) < MaxSize}
  ELSE TopStop \cup {"EOI"}
         \cup (IF Length < MaxLength THEN Core ELSE {})
         \cup (IF Length + 1 < MaxLength THEN Forms ELSE {})

Read(t) == text' = (IF Rereads THEN text ELSE Append(text, t)) /\ UNCHANGED stuck

GiveBack == given' = TRUE
Take == given' = FALSE

Set(f) == frames' = [frames EXCEPT ![Depth] = f]
Return(e) == Set([Top EXCEPT !.pc = "done", !.expr = e])
Fail == Return(0) /\ failed' = TRUE
Made == Len(nodes) + 1
Make(e) == nodes' = Append(nodes, e)

(* The current expression becomes e, and the loop that reads "as" and "."  *)
(* starts.                                                                 *)
Becomes(e) == [Top EXCEPT !.expr = e, !.pc = "post"]

(* A nested call of _parse_expr by a caller in state f.                    *)
Calling(f, stop, post, use, at, args) ==
  frames' = Append([frames EXCEPT ![Depth] = f], NewFrame(stop, post, use, at, args))

Running == ~crashed /\ cursor = 0
Main == Running /\ Top.pc = "main"
MainToken(t) == t \notin Top.stop /\ Read(t) /\ Take

-----------------------------------------------------------------------------
\* Slip: an expression without operands is not reported.
StopSilent(t) ==
  /\ Main /\ t \in Top.stop /\ Read(t)
  /\ GiveBack
  /\ Return(Top.expr)
  /\ UNCHANGED <<nodes, cursor, failed, crashed>>

(* The cases of _parse_expr, one action each.                              *)
Stop(t) ==
  /\ Main /\ t \in Top.stop /\ Read(t)
  /\ GiveBack
  /\ Return(Top.expr)
  /\ failed' = (failed \/ Top.expr = 0)
  /\ UNCHANGED <<nodes, cursor, crashed>>

Operand(t) ==
  /\ Main /\ t = "x" /\ MainToken(t)
  /\ Make(NewExpr("leaf", Len(text'), <<>>))
  /\ Set(Becomes(Made))
  /\ UNCHANGED <<cursor, failed, crashed>>

(* A struct expression is returned at once, whatever follows it.           *)
Struct(t) ==
  /\ Main /\ t = "struct" /\ MainToken(t)
  /\ Make(NewExpr("leaf", Len(text'), <<>>))
  /\ Return(Made)
  /\ UNCHANGED <<cursor, failed, crashed>>

Postfix(t) ==
  /\ Main /\ t \in Postfixes /\ MainToken(t)
  /\ IF Top.expr = 0
     THEN Fail /\ UNCHANGED nodes
     ELSE /\ Make(NewExpr("post", Len(text'), <<Top.expr>>))
          /\ Set(Becomes(Made))
          /\ UNCHANGED failed
  /\ UNCHANGED <<cursor, crashed>>

(* "[" without an expression before it is an error, but is read on.        *)
Index(t) ==
  /\ Main /\ t = "[" /\ MainToken(t)
  /\ failed' = (failed \/ Top.expr = 0)
  /\ Calling(Top, {"]"}, TRUE, "[", Len(text'), <<>>)
  /\ UNCHANGED <<nodes, cursor, crashed>>

(* "!" and "~" in any place, "-" only where an operand is due.  They take  *)
(* what is left up to the same stop.                                       *)
Prefix(t) ==
  /\ Main /\ (t \in Unaries \/ (t = "-" /\ Top.first)) /\ MainToken(t)
  /\ Calling(Top, Top.stop, TRUE, t, Len(text'), <<>>)
  /\ UNCHANGED <<nodes, cursor, failed, crashed>>

(* "&" where an operand is due also ends before an "as".                   *)
Ref(t) ==
  /\ Main /\ t = "&" /\ Top.first /\ MainToken(t)
  /\ Calling(Top, Top.stop, FALSE, "&", Len(text'), <<>>)
  /\ UNCHANGED <<nodes, cursor, failed, crashed>>

\* Slip: an "as" after the right operand is left to the whole.
BinopLeavesAs(t) ==
  /\ Main /\ t \in BinaryTokens /\ ~(t \in {"-", "&"} /\ Top.first) /\ MainToken(t)
  /\ IF Top.first
     THEN Fail
     ELSE /\ Calling(Top, Top.stop, FALSE, "binop", Len(text'), <<>>)
          /\ UNCHANGED failed
  /\ UNCHANGED <<nodes, cursor, crashed>>

Binop(t) ==
  /\ Main /\ t \in BinaryTokens /\ ~(t \in {"-", "&"} /\ Top.first) /\ MainToken(t)
  /\ IF Top.first
     THEN Fail
     ELSE /\ Calling(Top, Top.stop, TRUE, "binop", Len(text'), <<>>)
          /\ UNCHANGED failed
  /\ UNCHANGED <<nodes, cursor, crashed>>

Paren(t) ==
  /\ Main /\ t = "(" /\ MainToken(t)
  /\ IF Top.expr = 0
     THEN Calling(Top, {")"}, TRUE, "(", Len(text'), <<>>)
     ELSE Set([Top EXCEPT !.pc = "args"])
  /\ UNCHANGED <<nodes, cursor, failed, crashed>>

Array(t) ==
  /\ Main /\ t = "{" /\ MainToken(t)
  /\ Calling(Top, {",", "}"}, TRUE, "elem", Len(text'), <<>>)
  /\ UNCHANGED <<nodes, cursor, failed, crashed>>

\* Slip: what is not expected in brackets is skipped.
UnexpectedSkipped(t) ==
  /\ Main
  /\ t \notin Expected
  /\ MainToken(t)
  /\ IF Depth > 1 THEN failed' = TRUE /\ UNCHANGED frames ELSE Fail
  /\ UNCHANGED <<nodes, cursor, crashed>>

Unexpected(t) ==
  /\ Main
  /\ t \notin Expected
  /\ MainToken(t)
  /\ Fail
  /\ UNCHANGED <<nodes, cursor, crashed>>

(* parse_call_args: no argument, or the first one.                         *)
Args(t) ==
  /\ Running /\ Top.pc = "args" /\ Read(t)
  /\ IF t = ")"
     THEN /\ Take
          /\ Make(NewExpr("call", Len(text'), <<Top.expr>>))
          /\ Set(Becomes(Made))
     ELSE /\ GiveBack
          /\ Calling(Top, {",", ")"}, TRUE, "arg", Len(text'), <<>>)
          /\ UNCHANGED nodes
  /\ UNCHANGED <<cursor, failed, crashed>>
-----------------------------------------------------------------------------
(* The loop after an operand.                                              *)
Post == Running /\ Top.pc = "post"

(* A nested call that may not read "as" leaves it to its caller.           *)
LeaveAs(t) ==
  /\ Post /\ t = "as" /\ t \notin Top.stop /\ ~Top.post /\ Read(t)
  /\ GiveBack /\ Return(Top.expr)
  /\ UNCHANGED <<nodes, cursor, failed, crashed>>

Suffix(t) ==
  /\ Post /\ t \in {"as", "."} /\ t \notin Top.stop /\ (t = "as" => Top.post)
  /\ Read(t)
  /\ Take
  /\ Make(NewExpr("post", Len(text'), <<Top.expr>>))
  /\ Set([Becomes(Made) EXCEPT !.first = FALSE])
  /\ UNCHANGED <<cursor, failed, crashed>>

NoSuffix(t) ==
  /\ Post /\ (t \in Top.stop \/ t \notin {"as", "."}) /\ Read(t)
  /\ GiveBack
  /\ Set([Top EXCEPT !.pc = "main", !.first = @ /\ t \in Top.stop])
  /\ UNCHANGED <<nodes, cursor, failed, crashed>>

-----------------------------------------------------------------------------
(* A nested call has answered Top.expr: the rest of the case it was made   *)
(* in.  Back(f) drops the call and leaves its caller in state f.           *)
Answered(use) == Running /\ Depth > 1 /\ Top.pc = "done" /\ Top.use = use
Back(f) == frames' = Append(SubSeq(frames, 1, Depth - 2), f)
BackWith(e) == Back([Caller EXCEPT !.expr = e, !.pc = "post"])
BackDone(e) == Back([Caller EXCEPT !.expr = e, !.pc = "done"])

(* NULL for the operand is NULL for the whole, except after "~", where it  *)
(* is not tested.                                                          *)
NoOperand ==
  /\ \E use \in {"binop", "-", "&", "!", "~", "arg", "elem"} : Answered(use)
  /\ Top.expr = 0
  /\ IF Top.use = "~" THEN BackWith(0) ELSE BackDone(0)
  /\ UNCHANGED <<text, given, stuck, nodes, cursor, failed, crashed>>

(* expr_make_binop, up to the call of expr_push_down.                      *)
MakeBinop ==
  /\ Answered("binop") /\ Top.expr # 0
  /\ Make(NewExpr("binop", Top.at, <<Caller.expr, Top.expr>>))
  /\ cursor' = Made
  /\ Back([Caller EXCEPT !.expr = Made, !.pc = "push"])
  /\ UNCHANGED <<text, given, stuck, failed, crashed>>

\* Slip: operators of equal priority are not turned.
BindsEqual(e, r) == nodes[r].scoped \/ nodes[r].type # "binop"
                      \/ priority(text[nodes[r].at]) >= priority(text[nodes[e].at])

\* Slip: groups are turned like any other operand.
BindsGroupToo(e, r) == nodes[r].type # "binop"
                         \/ priority(text[nodes[r].at]) > priority(text[nodes[e].at])

(* One call of expr_push_down.                                             *)
Binds(e, r) == nodes[r].scoped \/ nodes[r].type # "binop"
                 \/ priority(text[nodes[r].at]) > priority(text[nodes[e].at])

\* Slip: the operands of the inner operator are taken the wrong way round.
TurnedCrossed(e, r) ==
  [nodes EXCEPT ![e] = [@ EXCEPT !.at = nodes[r].at, !.kids = <<r, nodes[r].kids[1]>>],
                ![r] = [@ EXCEPT !.at = nodes[e].at,
                                 !.kids = <<nodes[e].kids[1], nodes[r].kids[2]>>]]

Turned(e, r) ==
  [nodes EXCEPT ![e] = [@ EXCEPT !.at = nodes[r].at, !.kids = <<r, nodes[r].kids[2]>>],
                ![r] = [@ EXCEPT !.at = nodes[e].at,
                                 !.kids = <<nodes[e].kids[1], nodes[r].kids[1]>>]]

PushDown ==
  LET r == nodes[cursor].kids[2] IN
  /\ ~crashed /\ cursor # 0
  /\ IF r = 0
     THEN crashed' = TRUE /\ UNCHANGED <<nodes, cursor>>
     ELSE /\ UNCHANGED crashed
          /\ IF Binds(cursor, r)
             THEN cursor' = 0 /\ UNCHANGED nodes
             ELSE nodes' = Turned(cursor, r) /\ cursor' = r
  /\ UNCHANGED <<text, given, stuck, frames, failed>>

(* AST_EXPR_PARSE_SKIP_NESTED: the operand has met the stop already, or is *)
(* a struct expression in "{", whose own brace is taken for it.            *)
AfterBinop ==
  /\ Running /\ Top.pc = "push"
  /\ IF current \in Top.stop THEN Return(Top.expr) ELSE Set([Top EXCEPT !.pc = "post"])
  /\ UNCHANGED <<text, given, stuck, nodes, cursor, failed, crashed>>

(* "-" returns at once, the others go on with the new expression, which    *)
(* takes the place of any before it.                                       *)
MakePrefix ==
  /\ \E use \in {"-", "&", "!", "~"} : Answered(use)
  /\ Top.expr # 0
  /\ Make(NewExpr("pre", Top.at, <<Top.expr>>))
  /\ IF Top.use = "-" THEN BackDone(Made) ELSE BackWith(Made)
  /\ UNCHANGED <<text, given, stuck, cursor, failed, crashed>>

(* The answer of a group is marked without a test for NULL.                *)
MarkGroup ==
  /\ Answered("(")
  /\ IF Top.expr = 0
     THEN crashed' = TRUE /\ UNCHANGED <<nodes, frames>>
     ELSE /\ nodes' = [nodes EXCEPT ![Top.expr].scoped = TRUE]
          /\ Back([Caller EXCEPT !.expr = Top.expr, !.pc = ")"])
          /\ UNCHANGED crashed
  /\ UNCHANGED <<text, given, stuck, cursor, failed>>

MakeIdx ==
  /\ Answered("[")
  /\ Make(NewExpr("idx", Top.at, <<Caller.expr, Top.expr>>))
  /\ Back([Caller EXCEPT !.expr = Made, !.pc = "]"])
  /\ UNCHANGED <<text, given, stuck, cursor, failed, crashed>>

(* The bracket after a group or an index.                                  *)
Close(t) ==
  /\ Running /\ Top.pc \in {")", "]"} /\ Read(t)
  /\ IF t = Top.pc
     THEN Take /\ Set([Top EXCEPT !.pc = "post"]) /\ UNCHANGED failed
     ELSE GiveBack /\ Fail
  /\ UNCHANGED <<nodes, cursor, crashed>>

(* After an argument; a token that neither ends nor goes on the list is an *)
(* error.                                                                  *)
NextArg(t) ==
  LET args == Append(Top.args, Top.expr) IN
  /\ Answered("arg") /\ Top.expr # 0 /\ Read(t) /\ Take
  /\ CASE t = "," ->
            /\ Set(NewFrame({",", ")"}, TRUE, "arg", Top.at, args))
            /\ UNCHANGED <<nodes, failed>>
       [] t = ")" ->
            /\ Make(NewExpr("call", Top.at, <<Caller.expr>> \o args))
            /\ BackWith(Made)
            /\ UNCHANGED failed
       [] OTHER ->
            /\ failed' = TRUE
            /\ BackDone(0)
            /\ UNCHANGED nodes
  /\ UNCHANGED <<cursor, crashed>>

(* After an element of an array; whatever does not end the list goes on.   *)
NextElem(t) ==
  LET args == Append(Top.args, Top.expr) IN
  /\ Answered("elem") /\ Top.expr # 0 /\ Read(t) /\ Take
  /\ IF t = "}"
     THEN /\ Make(NewExpr("array", Top.at, args))
          /\ BackWith(Made)
     ELSE /\ Set(NewFrame({",", "}"}, TRUE, "elem", Top.at, args))
          /\ UNCHANGED nodes
  /\ UNCHANGED <<cursor, failed, crashed>>

(* A read is due that has the lexer come to a literal it rejects.          *)
(* TOKEN_PARSE goes back to its start and leaves the token before it in    *)
(* lexer->token, now and on every later call.  (The literal counts as two, *)
(* like the tokens of Forms.)                                              *)
ReadDue ==
  \/ Running /\ Top.pc \in {"main", "post", "args", ")", "]"}
  \/ (Answered("arg") \/ Answered("elem")) /\ Top.expr # 0

Sticks(t) ==
  /\ ReadDue /\ ~Rereads /\ text # <<>> /\ t \in LastOf(token)
  /\ Length + 1 < MaxLength
  /\ text' = Append(text, t)
  /\ stuck' = TRUE /\ failed' = TRUE
  /\ UNCHANGED <<given, nodes, frames, cursor, crashed>>

Step(t) ==
  \/ Stop(t) \/ Operand(t) \/ Struct(t) \/ Postfix(t) \/ Index(t) \/ Prefix(t)
  \/ Ref(t) \/ Binop(t) \/ Paren(t) \/ Array(t) \/ Unexpected(t) \/ Args(t)
  \/ LeaveAs(t) \/ Suffix(t) \/ NoSuffix(t) \/ Close(t) \/ NextArg(t) \/ NextElem(t)

Next ==
  \/ \E t \in NextTokens : Step(t)
  \/ \E t \in Tokens : Sticks(t)
  \/ NoOperand \/ MakeBinop \/ PushDown \/ AfterBinop \/ MakePrefix \/ MarkGroup \/ MakeIdx

Spec == Init /\ [][Next]_vars
FairSpec == Spec /\ WF_vars(Next)

-----------------------------------------------------------------------------
(* Reading a finished tree.                                                *)
Done == Depth = 1 /\ Top.pc = "done"
Accepted == Done /\ ~failed
Root == frames[1].expr

(* The operators and operands below each expression, from left to right,   *)
(* as positions in the text.                                               *)
Yields ==
  LET Yield[n \in 0..Len(nodes)] ==
        IF n = 0 THEN <<>> ELSE
        LET e == nodes[n]
            kids == FlattenSeq([k \in 1..Len(e.kids) |-> Yield[e.kids[k]]])
        IN CASE e.type \in {"leaf", "pre"} -> <<e.at>> \o kids
             [] e.type = "post"  -> kids \o <<e.at>>
             [] e.type = "binop" -> Yield[e.kids[1]] \o <<e.at>> \o Yield[e.kids[2]]
             [] OTHER -> kids
  IN Yield

Brackets == {"(", ")", "[", "]", "{", "}", ","}

(* Two operands side by side, with no operator between them.               *)
EndsOperand(t) == t \in {"x", "struct", ")", "]", "}", "as", "."} \cup Postfixes
BeginsOperand(t) == t \in {"x", "struct", "{"} \cup Unaries
SideBySide ==
  \E i \in 1..Len(text) - 1 : EndsOperand(text[i]) /\ BeginsOperand(text[i + 1])

(* A struct expression returns before what follows it is read, and the     *)
(* loop of an array then takes any token for the comma.                    *)
InArray(i) ==
  \E j \in 1..i - 1 :
    LET Count(s) == Cardinality({k \in j + 1..i - 1 : text[k] \in s})
    IN text[j] = "{" /\ Count({"(", "[", "{"}) = Count({")", "]", "}"})
OddComma ==
  \E i \in 1..Len(text) - 1 :
    text[i] = "struct" /\ text[i + 1] \notin {",", "}"} /\ InArray(i)

CutShort == \E i \in 1..Len(text) - 1 : text[i] = "struct"

(* "(" where an operand is due opens a group, elsewhere a call.            *)
OpensGroup(i) ==
  text[i] = "(" /\ (i = 1 \/ text[i - 1] \in BinaryTokens \cup Unaries \cup {"(", "[", "{", ","})
Shut(i, j) ==
  LET Count(t) == Cardinality({k \in i..j : text[k] = t}) IN
  /\ i < j /\ text[j] = ")" /\ Count("(") = Count(")")
  /\ \A k \in i..j - 1 :
       Cardinality({m \in i..k : text[m] = "("}) > Cardinality({m \in i..k : text[m] = ")"})

-----------------------------------------------------------------------------
(* Types.                                                                  *)
TypeOK ==
  /\ text \in Seq(Tokens) /\ given \in BOOLEAN /\ stuck \in BOOLEAN
  /\ nodes \in Seq(Expr) /\ frames \in Seq(Frame) /\ frames # <<>>
  /\ cursor \in 0..Len(nodes)
  /\ \A i \in 1..Depth : frames[i].expr <= Len(nodes)
  /\ failed \in BOOLEAN /\ crashed \in BOOLEAN

(* An accepted expression holds every operator and operand of its text, in *)
(* the order of the text: turning the tree, nested calls and the token     *)
(* given back neither lose, repeat nor move one.  The exceptions are two   *)
(* operands side by side, and a struct expression in an array with another *)
(* token than a comma after it; neither is refused.                        *)
NothingLost ==
  Accepted /\ ~SideBySide /\ ~OddComma =>
    Yields[Root] = SelectSeq([i \in 1..Len(text) |-> i],
                             LAMBDA i : text[i] \notin Brackets \cup TopStop)

(* expr_push_down leaves every operator above those that bind tighter, and *)
(* equal ones lean to the left; brackets aside.  With NothingLost this     *)
(* makes the tree of a text the only possible one.  A struct expression    *)
(* cuts the right operand it ends short; no operator accepts one.          *)
PrioritiesHold ==
  Accepted /\ ~CutShort =>
    \A e \in 1..Len(nodes) :
      nodes[e].type = "binop" =>
        \A side \in 1..2 :
          LET k == nodes[e].kids[side]
              above == priority(text[nodes[e].at])
              below == priority(text[nodes[k].at])
          IN nodes[k].type = "binop" /\ ~nodes[k].scoped =>
               IF side = 1 THEN below >= above ELSE below > above

(* A group in brackets stays one operand, whatever is turned around it:    *)
(* some expression marked as scoped holds just what is between them.       *)
GroupsStay ==
  Accepted /\ ~SideBySide /\ ~OddComma =>
    \A i, j \in 1..Len(text) :
      OpensGroup(i) /\ Shut(i, j) =>
        \E n \in 1..Len(nodes) :
          /\ nodes[n].scoped
          /\ Yields[n] = SelectSeq([k \in 1..j - i - 1 |-> i + k],
                                   LAMBDA k : text[k] \notin Brackets)

(* NULL is dereferenced only after an error was reported, and an           *)
(* expression that was not refused has no NULL in it.                      *)
NullOnlyAfterError ==
  /\ crashed => failed
  /\ \A i \in 1..Depth : frames[i].pc = "done" /\ frames[i].expr = 0 => failed
  /\ ~failed => \A e \in 1..Len(nodes) : 0 \notin Range(nodes[e].kids)

(* Every text ends: no call waits for a bracket, a comma or an operand that *)
(* never comes, and no tree is turned around for ever.  A rejected literal  *)
(* ends it too, unless the token before it, read again and again, is one    *)
(* that makes the parser go on.                                             *)
Endless == {"x", "?", "-", "&", "(", "[", "{"} \cup Unaries
Ends == <>(Done \/ crashed) \/ <>[](stuck /\ token \in Endless /\ ~Done)

-----------------------------------------------------------------------------
(* The inductive invariant.                                                *)
Binops == {e \in 1..Len(nodes) : nodes[e].type = "binop"}

(* An operator that no brackets hold together, and its priority.           *)
Loose(k) == k \in Binops /\ ~nodes[k].scoped
rank(e) == priority(text[nodes[e].at])

Shape ==
  /\ given => text # <<>>
  /\ stuck => failed /\ text # <<>>
  /\ \A e \in 1..Len(nodes) : \A k \in Range(nodes[e].kids) : k <= Len(nodes)
  /\ \A e \in Binops : Len(nodes[e].kids) = 2 /\ nodes[e].at \in 1..Len(text)
  /\ cursor # 0 => cursor \in Binops /\ Top.pc = "push"

(* What a call holds, with what the parser has read when it is the         *)
(* innermost.                                                              *)
Fits(f) ==
  /\ f.at <= Len(text) /\ (f.use = "binop" => f.at # 0)
  /\ \A k \in Range(f.args) : k <= Len(nodes)
  /\ ~failed => (f.expr = 0 => f.first /\ f.pc = "main") /\ 0 \notin Range(f.args)
  /\ ~failed /\ ~CutShort =>
       /\ f.pc \notin {"push", "done"} /\ Loose(f.expr) => f.pc = "post" /\ StructRead
       /\ f.pc = "done" => token \in f.stop \/ (~f.post /\ token = "as") \/ StructRead
       /\ f.pc = "push" => token \in f.stop \/ StructRead

(* A call f and the one c that waits for it.                               *)
Waits(c, f) ==
  /\ c.pc \in {"main", "args"}
  /\ f.use \in {"binop", "-"} => f.stop = c.stop /\ f.post
  /\ ~failed /\ f.use \in {"binop", "[", "arg"} => c.expr # 0

Calls ==
  /\ \A i \in 1..Depth : Fits(frames[i])
  /\ \A i \in 1..Depth - 1 : Waits(frames[i], frames[i + 1])

(* No operator shares an operand, nor has one that a call still holds.     *)
Apart ==
  /\ \A i, j \in 1..Depth : i # j /\ frames[i].expr # 0 => frames[i].expr # frames[j].expr
  /\ \A e \in Binops : \A s \in 1..2 :
       nodes[e].kids[s] # 0 =>
         /\ \A i \in 1..Depth : frames[i].expr # nodes[e].kids[s]
         /\ \A f \in Binops : \A t \in 1..2 : nodes[f].kids[t] = nodes[e].kids[s] => e = f /\ s = t

(* What expr_push_down is at is not below its own operands.                *)
Acyclic ==
  cursor # 0 => \E above \in SUBSET (1..Len(nodes)) :
    /\ cursor \in above
    /\ nodes[cursor].kids[1] \notin above /\ nodes[cursor].kids[2] \notin above
    /\ \A e \in Binops : \A s \in 1..2 : nodes[e].kids[s] \in above => e \in above

(* All operators are in order, but for the right operand of the one that   *)
(* expr_push_down is at; that may still come above it, on the left of what *)
(* has been turned.                                                        *)
LeftInOrder(e) == Loose(nodes[e].kids[1]) => rank(nodes[e].kids[1]) >= rank(e)
RightInOrder(e) == Loose(nodes[e].kids[2]) => rank(nodes[e].kids[2]) > rank(e)
InOrder ==
  ~failed /\ ~CutShort =>
    /\ \A e \in Binops : LeftInOrder(e) /\ (e # cursor => RightInOrder(e))
    /\ cursor # 0 /\ Loose(nodes[cursor].kids[2]) =>
         \A e \in Binops : \A s \in 1..2 :
           nodes[e].kids[s] = cursor => s = 1 /\ rank(nodes[cursor].kids[2]) >= rank(e)

IInv == TypeOK /\ Shape /\ Calls /\ Apart /\ Acyclic /\ InOrder /\ NullOnlyAfterError
=============================================================================
