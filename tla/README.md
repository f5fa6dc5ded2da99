# Verification of the hob compiler

TLA+ models of the compiler in this repository (`src/`, C, with its headers in
`include/`), TLC configurations that check them on small instances, and TLAPS
proofs of the most important invariants for instances of any size.

The compiler turns one `.hob` file and the files it imports into one LLVM
module. It is a single-threaded program without persistent state, so there are
no data races, lost messages or restarts here. What is hard is long *legal
sequences*: a tree is walked by mutually recursive C functions that push and pop
global stacks, leave annotations for a second walk, and return early on errors;
files are opened recursively with the process's working directory as hidden
state; two passes over all modules set and read mutable fields. A unit test
reaches few of the nestings and orders that matter, and the repository has no test
runner (`examples/` holds sample programs).

All paths below are relative to the repository.

## 1. Inventory

| Part | State it keeps | Operations | Talks to |
|---|---|---|---|
| Command line (`src/main.c`, `include/cmd`) | options, output paths | `compile`, `llvm_create_from_file`, exit codes | project, LLVM back end, linker |
| Lexer (`src/lexer`) | the rest of the text, the location, the place where the token started; one token, which every caller's pointer points to | `lexer_next`, `lexer_rollback`, comments | parser |
| Parser (`src/parser`) | the lexer, the AST being built | one function per construct; `expr_push_down` reorders operators by priority | lexer, AST |
| Project (`src/sema/project/api.c`) | `modules`, *the process's working directory* | `sema_project_add_module_at`, `sema_project_analyze` | parser, modules, C stack |
| Module tables (`src/sema/module/private.c`, `parts/module.c`, `parts/path.c`) | private and public names, extension functions, `failed` | push, append-all, resolve; reading each kind of declaration | project (imports re-enter it) |
| Function bodies (`parts/body.c`, `parts/stmts`, `scopes`, `loop`) | `current_ss`: scopes, loops, return type; `AstBody.parent`, `AstBody.defers` | one handler per statement; `sema_module_defers_up_to` | expressions, module tables; the LLVM back end reads the annotations |
| Expressions (`parts/expr.c`, `parts/exprs`; `src/llvm/parts/expr.c`) | category, type and constant of each value; the type an expression is expected to have | `sema_expr` and `llvm_expr`, one function per expression each; `unwrap`, `?` and anonymous functions act on `current_ss` | function bodies, types, LLVM |
| Constant folding (`parts/exprs/binop.c`, ...) | `SemaConst`, an `int64_t` whatever the type | operators, conversions, elements and members of constants | expressions |
| Types (`parts/type.c`, `sema_types_equals`) | interned primitives | resolve, compare, size | everything in `sema` |
| Generics, behaviours (`parts/generic.c`, `parts/decls/behaviour.c`) | `SemaTypeGeneric.replace`, a mutable global per parameter; behaviour tables | instantiate, check | types, LLVM back end |
| LLVM back end, bodies (`src/llvm/parts`) | `builder`, `code_block`, `func`, `SemaLoop.llvm`, `SemaDecl.llvm` | one emitter per statement; `llvm_body`, `llvm_body_break` | annotated AST, LLVM |
| LLVM back end, modules (`src/llvm/api.c`, `parts/module.c`, `parts/val_decl.c`) | `SemaDecl.llvm.value` of globals | `llvm_module_init` on all modules, then `llvm_module_node` | project order |
| Vectors, slices, paths (`src/core`) | length and capacity before the elements | push, pop, append; asserts | everything |
| Printing (`src/core/log.c`) | none | formatted errors | everything |
| Target architecture (`src/sema/arch`) | widths | look-up | types |

How the parts meet: `main` asks the project for one file. Reading a file parses
it and pushes its declarations; an import *in the middle of that* re-enters the
project for another file. When the outermost file is listed, every listed module
is analysed: each function body is walked once by `sema_ast_body`, which writes
parent links, defer lists, loops and resolved declarations into the AST. If no
module failed, both passes of the back end walk the same AST, trusting every
annotation. LLVM verifies the result.

What must be right, per part:

- *Bodies.* Scopes and loops stay in step with the C calls across anonymous
  functions and errors; a name means what the text says; an exit releases exactly
  the defers of the bodies it leaves, latest first; errors are reported, not asserted.
- *Back end, bodies.* One terminator per block; each use is dominated by its definition; the emitted code runs the bodies and
  defers the text says.
- *Project.* Paths are looked up from the file's own directory whatever failed
  before; a file is listed once; modules come after what they use; the compiler
  ends.
- *Passes.* LLVM values are set before they are read.
- *Generics.* Each instance sees its own types; arguments are judged by the types the
  text gives them; every type is resolved when it is emitted.
- *Expressions, as parsed.* The tree holds all of the text, with its brackets, in the
  order the priorities give.
- *Values.* What the back end answers for an expression has the type that analysis gave
  it; folding computes what the instructions would; what is refused is reported.
- *Lexer.* The longest token is found and located; only blanks and comments are
  passed over; the end of the text is reached.

`PROJECT.json` lists, under `hazards`, the lines at which each of these can go
wrong and which property would show it.

## 2. Modules

| Module | What it holds |
|---|---|
| `HobBodies` | Analysis of function bodies, statement by statement. |
| `HobBlocks` | Abstract: what exits release; for each function a stack of open blocks. |
| `HobBodiesRefines` | The refinement mapping from `HobBodies` to `HobBlocks`, and the invariant its proof needs. |
| `MCHobBodies` | Symmetry for TLC. |
| `HobMeaning` | What a function of the analysed text does: the reference for the back end. |
| `HobEmit` | Emission of the analysed functions to basic blocks, and their runs. Extends `HobBodies` (through `HobMeaning`): the two walks are one behaviour. |
| `HobProject` | Imports, name tables, analysis order, both emission passes. |
| `MCHobProject` | A small file system with two directories and an optional link. |
| `HobGenerics` | Generic functions: `SemaTypeGeneric.replace` in analysis and in both emission passes. |
| `HobExpr` | Parsing of expressions: nested calls, one token of lookahead, turning of operators. |
| `HobValues` | Expressions with their values: analysis, folding, and the types of the instructions. |
| `MCHobValues` | The types, struct and functions of an instance. |
| `HobLexer` | The lexer, called until the end of a text. |
| `MCHobLexer` | Texts over small alphabets. |
| `HobSeqLemmas` | Lemmas about sequences and least numbers that all proofs use. |
| `HobBodiesProofs` | Lemmas about the scope stack (what entering and leaving a body keeps, what a look-up returns), the inductive invariant of `HobBodies`, and five theorems; then the scopes compared with the text, and the theorem on names. |
| `HobBlocksProofs` | `HobBodies` implements `HobBlocks`: what entering, leaving and exiting a body do to the stacks of blocks, one lemma per action. |
| `HobEmitProofs` | Every block of an accepted, disciplined module gets one terminator: lemmas about lists of work and about blocks written to, then one lemma per action of `HobEmit`. |
| `HobProjectProofs` | The inductive invariant of `HobProject` in three parts: types, the working directory, the order of the modules; what the declarations mention and what the two passes of emission set; which files are being read and which are listed. Overflow. |
| `HobExprProofs` | The inductive invariant of `HobExpr`, one lemma per action, and three theorems. |
| `HobGenericsProofs` | The inductive invariant of `HobGenerics`: what each parameter and `Self` stand for, and three properties. |
| `HobLexerProofs` | What functions that look ahead return, how far each part reads, and that locations count what has been read: the inductive invariant of `HobLexer` and two theorems. |

### HobBodies

The analyser reads each statement once, in source order. The model therefore
does not start from a program: each action *picks* the next statement of the
innermost open body and appends it, annotated, to `text`. All programs within
the bounds arise this way, and a reader of the model sees the same order as the C
code.

| Model | Code |
|---|---|
| `tree`, `text`, `defers` | `AstBody` with its `parent`, `stmts`, `defers` |
| `ss` | `sema->current_ss`; `NoStack` is `NULL` |
| `calls` | the running `sema_ast_body` activations of the current function |
| `saved` | the stacks that `sema_analyze_expr_anon_fun` holds in C locals |
| `walk` | the locals of a running `sema_module_defers_up_to`; each round is a step |
| `failed`, `crashed` | `sema->failed`; an `assert` has called `exit` |

Each statement handler is an action or a Begin/End pair around the recursive
`sema_ast_body`. Expressions are analysed before their statement touches the
stack, so an expression with an effect (an anonymous function, `?`) stands as a
statement of its own, except `unwrap` in a condition, whose name is bound in the
scope the *statement* stands in. Types are reduced to what changes control: whether
a condition has a type and is boolean, whether a return fits.

`HobBodiesRefines` maps it to `HobBlocks`, in which each function that is being read
has a stack of open blocks. Opening a block pushes one with an empty list of
pending defers, `defer` appends a body to the innermost list, and an exit of the innermost
function releases the lists it passes, latest first. `HobBlocks` knows no
scopes, no parent links and no stored lists: an open block is a running call, and the stacks
that anonymous functions suspend map to the stacks below the last.

### HobMeaning and HobEmit

`HobEmit` continues a behaviour of `HobBodies` when the analysis has accepted the
program. The emitter's recursion is the list `work` of calls and of the code
after them; `builder`, `code_block`, `func` and `targets` are the fields of the
back end and of `SemaLoop.llvm`. Instructions are reduced to terminators,
definitions and uses of locals, and one mark for each `llvm_body` call. When
`LLVMVerifyModule` passes, the emitted function runs, block by block, each
condition going either way; the trace of marks is compared with `HobMeaning`,
which computes, from the text only, the bodies a function may enter and how it
is left. Basic blocks, the verifier and the processor are outside `src/` and are
marked external.

A `?` ends a function in the middle of an expression, and `llvm_expr` emits it where the
expression is evaluated: of a `return`, after the defers have been emitted (`EmitExit`, then
the work item `ask`), of a `while`, an `if` or an else-if, in the block of the condition, before its
branch (`Testing`). The analysis records nothing of it there, so which
returns and which conditions hold one is chosen when emission begins (`asks`, empty unless the
function returns an optional); a plain statement with a `?` is the form `try` of `HobBodies`.
In `HobMeaning` a condition that holds one may end the function at once, with no defer run, and
a `return` has entered the same bodies whether its value is null or not.

### HobProject

Files are read lazily: the first reader to go past what is known of a file picks
the next declaration, or finds the file broken. `Finds` and `Enters` are
`realpath` and `chdir`, given as constants. `frames` holds the running calls of
`sema_project_add_module_at` with the working directory each will restore;
`MaxDepth` is how many fit on the C stack, and needing more is the end state
`overflow`. `slice_read_from_file` does not close a file it has read, so `opened` counts the
files read, `MaxOpen` is how many descriptors there are, and an import that finds none left fails
like one of a file that is missing (`Exhausted`); the importing module goes on. A module keeps its private and public tables (sets, since a table
holds each name once and nothing depends on the order in it) and the annotations of
its AST. After reading, `at` walks all modules three times (analysis, init,
emit). `set` holds the declarations whose `llvm.value` is assigned, and `unset`
every read of one that was not.

Declarations: `import`, `from` of everything (`all`) or of one name (`item`),
`use`, functions, extension functions, `const`, `final`, `var`, a `final`
without initialiser (`bare`), and any declaration refused for another reason
(`bad`). An initialiser, like a function's body, is the one name it mentions.

### HobGenerics

The type parameter of a generic function, and the `Self` of a behaviour, are one
`SemaType` each, with a mutable field `replace`. A mention `g.<c>` writes `c` into
it, in the analysis (`sema_resolve_inner_generic_path`), before each instance is
declared or emitted (`llvm_module_init`, `llvm_module_node`), and when the mention
is emitted (`llvm_resolve_path`); nothing restores it. Values keep a reference to
the parameter's type, so what they are changes with the field.

| Model | Code |
|---|---|
| `replace`, `table` | the fields of `SemaTypeGeneric`, of each parameter and of `Self` |
| `tables` | `AstGeneric.sema.tables`, each given by the type it is `of` |
| `text` | a body with the annotations of its path segments (`SEMA_PATH_BUILD_GENERIC`, `SEMA_PATH_BTABLE_PATH`, `SEMA_PATH_EXT_FUNC_DIRECT`) |
| `sig`, `slot` | the types of the LLVM functions, and of the allocas and values of the instance being emitted |
| `misfits` | where emitted types disagree: a load with its alloca, an argument or result with the callee's, a store with its alloca, a callee with the type meant, a returned value with the function's |

The functions of one module are `plain` or `generic`; analysis picks their
statements one by one, then the emission is determined. A generic function has one
parameter (the code uses only the first one, `llvm/parts/module.c:37`) with one
behaviour of one function `op`, which every type has: what differs between types is
only which `op` it is and whether the type is a pointer.

### HobExpr

`frames` holds the running calls of `_parse_expr`, each with its stop, its
`current_expr` and the case its caller made it in; `nodes` is the heap of expressions, and
`text` with `given` the lexer seen through `skip_next`. A token is chosen when it is read,
so all texts within the bound arise, wrong ones included. Each recursive call of
`expr_push_down` is a step, on the expression `cursor`.

What is one token in the model may be several in the code (a path, a struct expression). `current` is
what `parser_token` answers at that point: of a struct expression its closing brace, which the stops of
the calls around it are compared with. From the first literal that the lexer rejects, every read answers the
last token again; `stuck` says so, and `LastOf` which token that is. A parser that then goes on
for ever builds an ever larger tree or an ever deeper stack; `MaxSize` bounds the two
together, and there the model stops.

The properties compare the finished tree with the text. Reading its operators and operands
from left to right must give back the text (`NothingLost`), no operator may have one below
it that binds less (`PrioritiesHold`), and brackets must hold one subtree (`GroupsStay`):
together they leave one possible tree.

### HobValues

`frames` holds the activations of `sema_expr`, with the type each is expected to have, and
of the statement around them; `answer` is what the last one returned. A leaf is an action;
an expression with operands is entered, and goes on when each operand has answered.

`llvm_expr` reads nothing but the analysed tree, and what it does with an operand depends
on nothing outside it. So its answer is kept with the expression: `load` is the type of
the instruction when the caller wants a value, `keep` when it wants the address
(`llvm_expr`'s parameter `load`). LLVM's pointers have no type; the model's say what they
really point to, and `Bad` stands for an instruction that LLVM refuses or that reads
memory as something else.

| Model | Code |
|---|---|
| `cat`, `type`, `num` of a value | `SemaValue`: const, final or var; its type; `SemaConst` |
| `run`, `exact` | not in the code: what the instructions would compute, as long as folding is meant to keep to it |
| `odd` | not in the code: the shapes in the expression for which the back end does not answer right (section 4) |
| `arch` | `sema_arch_info`: the width of its integers, whether it has floats |
| `Narrow`, `Wide` | 8 and 64, the latter the width of the compiler's `int64_t` too |
| `place` | `SemaModule.current_ss`: none (a global initialiser), or that of a function that returns an optional or something else |
| `crashed` | an assert, a division trap, or a `NULL` type that is followed |

### HobLexer

`at`, `delta`, `location`, `start_location`, `token` and `failed` are the fields of
`Lexer`; `phase` says where in `lexer_next` it is. The parts that `lexer_try_next` tries
(symbol, keyword, character, name, number, string) each read forward from one place, so
they are functions of the text and that place; which of them decides, what it leaves in
the fields, and what follows when none does are the actions (`Begin`, `SkipComment`,
`Accept`, `Reject`, `Unrecognised`). The properties describe tokens without the parts, as
sets of texts.

## 3. Runs

All runs set `CHECK_DEADLOCK FALSE`: the compiler stops, after its last file, at an
error exit or at a failed assert, and the models stop at their bounds.

| Run | Question | Instance |
|---|---|---|
| `Bodies_control` | Do the recorded defers equal those of plain stacks of blocks (`ImplementsBlocks`), and are they the ones of the bodies left (`ExitReleasesLeft`)? Do scopes and loops stay in step, and can asserts fail only after an error, when programs have errors? Checks the invariant of the proofs (`BlocksInv`, which contains `IInv`). | 3 bodies, 4 statements, 2 loop names |
| `Emit_control` | One terminator per block, and do runs enter the bodies the text says? Checks the invariant of the proof (`EmitInv`). | 4 bodies, 4 statements, runs of 5 bodies |
| `Emit_calls` | The same with anonymous functions, `?` in statements, returns and conditions, and locals: does a name resolve as the text says, and is every use of a local dominated by its definition, else-if bindings aside? | 1 name, of locals and a global, 3 bodies, 3 statements, runs of 4 bodies, optional functions |
| `Emit_verify` | *Violated*: LLVM verifies every accepted program. | 1 statement |
| `Emit_unwrap` | *Violated*: every use is dominated by its definition. | 1 name, 3 bodies, 2 statements |
| `Project_links` | Are modules listed after what their tables and their AST lead to? Which LLVM values can be read before they are set? Checks the invariant of the proofs. | 3 files, one with two names in different directories, 3 declarations, 5 descriptors |
| `Project_ends` | Is a path looked up from its file's directory, a file listed once? Does the compiler end, and do imports in a circle, and only they, fill the C stack or use up the descriptors? | 3 files in 2 directories, 4 declarations, depth 4, 5 descriptors, fair |
| `Generics_types` | When do analysis and emission agree with the text and with each other, although they share `replace`? Checks the invariant of the proofs. | 2 functions, each plain or generic, 3 statements, 2 types, one of them a pointer |
| `Generics_unresolved` | *Violated*: the assert of `llvm_resolve_type` never fails. | 2 functions, 3 statements |
| `Expr_trees` | Is the tree of an expression the one that its text, brackets and priorities call for? On which texts does the parser end? Checks the invariant of the proofs. | texts of up to 7 tokens; `*`, `-`, `&`, casts, indices, arrays and the like count as 2, a rejected literal too; 11 nodes and calls behind a rejected literal |
| `Values_fold` | Has what is emitted the type that was analysed, does folding agree with the instructions, is what is refused reported? | 3 operands, 13 types, a target of 4 bits with floats and one of 3 bits without (64 and less), inside and outside of functions |
| `Lexer_tokens` | Is a token the longest one, at its place, and is only what is no token passed over? Does the lexer get to the end? Checks the invariant of the proofs. | texts of up to 6 characters over six alphabets, numbers below 256 |

Why the bounds suffice. The stacks of `HobBodies` interact in at most three
levels: a body, the one around it, and the target of an exit, which three bodies
give; four statements hold a defer before and after an exit in two of them. A redefined loop name needs two loops and an exit (three
bodies). In `HobEmit`, four bodies give a loop, a branch and a defer in one
function; a run of five bodies goes around a loop twice. `Emit_calls` chooses for
each return and each condition whether it holds a `?`; its three bodies hold a loop or branch with a
defer around a return. The project runs hold
cycles of one, two and three files, a file reached over two ways, and a failing
file between two others; `MaxDepth` exceeds the number of files, so that a full
stack without a cycle would be found. Five descriptors are one more than four calls take, so in `Project_ends` a cycle by itself fills the
stack, and one that also reads a file that is broken or refused runs out of descriptors first. The invariants of `HobBodies` are also
proved without any bound (section 5).

In `HobGenerics` three statements hold two mentions with different types and a use of the
first, in the generic function itself or in another; a third function (checked while
the model was written, 7.5 million states) shows nothing new.

In `HobExpr` seven tokens hold four operands with three operators, so two turns in one
push-down, or a group between two operators; the tokens that count twice give every form
around two operands, and seven are what a struct expression takes in an array with an operator behind it.
`&`, `*`, `+`, `-` and `||` have different priorities, but for `+` and `-`, which share
one; those of comparisons and of `|` lie between them. Texts of eight tokens of names, `+`, brackets, commas and struct expressions
(checked while the model was written) show nothing new. Behind a rejected literal one
round of each loop of the parser repeats itself, so nodes and calls are counted (`MaxSize`) only
to let the round come back a few times.

In `HobValues` three operands hold a conversion of an operator's result, an element of an
element, or an assignment between two paths; each type occurs alone and inside an optional, a
pointer, an array or a slice. The widths 2 and 4 keep every case of conversion, sign and wrap, and
three literals one that does not fit. The constraint `NoErrorYet` stops a behaviour after its first
error, since nothing is emitted of such a module and the properties say no more of it.
Four operands with seven types (checked while the model was written, 2.2 million states)
show nothing new.

In `HobLexer` no token that matters is longer than five characters (`'\\n'`, `0x2a`, a string
with an escape), and six leave room for what stands before or after it. The alphabets hold the
characters that meet each other: those that start names, keywords or numbers, those of
two-character symbols, quotes and escapes, and comments inside and around literals.

Symmetry is used for loop names in `Bodies_control` and for declaration names in
`Project_links`; no action or property tells two apart. It is not used with liveness.

*Fairness.* Only `Project_ends`, `Expr_trees` and `Lexer_tokens` need it: `WF_vars(Next)`. The compiler is one
thread, nothing in these parts waits for input or for another process, and every
enabled step is the next instruction of that thread. No choice between steps is
assumed fair; which declarations a file, tokens an expression or characters a text holds is free.

Every property of a passing run is shown to bite by a mutated definition (the
operators commented "Slip" in the modules), the way a plausible bug in that code
would read: a stop test dropped from the walk over parents, defers taken oldest
first, a loop not popped, a listing before the imports were read, a directory not
restored on the error path, functions declared in the second pass only, the table of
the first instance kept for the others, a conversion chosen the wrong way round, a rollback
one character too far.

## 4. What the runs showed about the code

Three disagreements between the code and what its own asserts or checks demand:

1. `Emit_verify`: a void function with a `return` among its top statements.
   `llvm_emit_func_decl` ignores what `llvm_body` answers and appends `ret void` to
   a block that has a terminator; `LLVMVerifyModule` (`src/llvm/api.c:58`) refuses
   the accepted program. `DisciplinedVerified` delimits this: in void functions that
   fall off their end, valued functions that end in a `return`, and defers left
   by their end only, every block has exactly one terminator.
2. `Emit_unwrap`: `unwrap` in an else-if condition binds its name in the scope
   around the `if`, where it can be used although nothing may have defined it.
   `DefinedUnlessElseIf` says this is the only way.
3. `Generics_unresolved`: a call of a behaviour's function makes `Self` stand for the
   caller's parameter, and types its result `Self`. If the last such call analysed is in a
   generic function that is never instantiated, a `var x = v.op();` of an instance finds
   a `Self` that leads to nothing, and `llvm_resolve_type` asserts
   (`src/llvm/parts/type.c:23`). `UnresolvedOnlyShared` says that this is the only way.

A `while` nested in one of the same name reports the redefinition but pops a loop it
never pushed; at the end of the outer loop `vec_pop` asserts (`src/core/vec.c:36`) and
the compiler stops with the error it has printed. `CrashOnlyAfterError`, checked and
proved, says that no program without an error gets there.

Facts that are stated as they are, since no document says otherwise:
`MisfitsAreStale` and `JudgedAsWritten` delimit
the programs whose generic functions are emitted and judged as written: a value must
be used before its generic is mentioned with another type, a generic function must be
declared before it is used, and a `var` must not be the first to take a generic's
result, unless the generic has only one instance (`OneTypeFits`). `UnsetOnlyFinals` lists the global finals that can be read before the second pass
sets them. Files that import each other in a circle are read again and again, until the C
stack is full or, since no file is closed after it was read (`src/core/slice/io.c:18`), no descriptor is
left (`CyclesOverflow`). In the second case the import is skipped, the module that asked for it is not
refused (`parts/module.c:137`), and each of the waiting calls lists its file on the way back. With a linked
file, a circle of imports can also end by itself, with a file listed twice. `ListedOnce` says that
these are the only ways.

In expressions, `!`, `~` and unary `-` take everything up to the stop (`-a + b` is
`-(a + b)`); `%` has the priority of comparisons, for want of an entry in the
table; an operand after another one silently replaces it; a struct expression ends the
expression it stands in, and an array then reads the token behind it in place of its comma: `{ struct + x }`
loses its `+` without an error (`OddComma`). `NothingLost`, `GroupsStay` and `PrioritiesHold` hold for all
other texts. A group, an index or a `~` without an operand uses `NULL`, but only after an
error has been printed (`NullOnlyAfterError`).

`EmittedTyped` lists the accepted expressions whose instructions do not have the analysed type:
- a cast of a variable to the type it has, where its address is wanted;
- an element of an array that is no place; a member of an element of a final slice, or of a
  struct literal;
- `%`, `~` and the bit operators on what is no integer (the guard of `~` refuses integers
  instead), and a comparison of aggregates;
- `?` on a place; `.null`, `?` and `unwrap` on a constant optional;
- what a pointer to void points to; the length of a slice where `usize` is not 64 bits wide;
- a call one of whose arguments has no value.

`FoldsAsComputed` leaves out what folding does otherwise than the instructions: the ordered
comparisons (`>` folds to `>=`, `>=` to `<=`, `<` to `>`), and division, remainder, right
shift, equality and widening of numbers that do not fit their type, since an `int64_t` is
cut only when it is emitted. `RefusedIsReported` leaves out targets without floats, where a float
literal has no value and no error is printed, and names the ways in which an accepted
prefix of a text ends the compiler: an assert or a trap in folding, `~` of a constant that
is no integer, an index where the element type is not known, and, in a global initialiser, `?` or the
`unwrap` of an optional, which need the scope stack of a function (`ASSERT_SS`,
`sema/module/private.c:129` and `:187`).

The lexer answers a literal it rejects with the token before it, for ever, since
`lexer_rollback` goes back to the literal's start (`EndsOrSticks`). The parser of expressions stops if that
token is one it does not expect there. It goes on for ever after an operand
(`5 0x` is an endless row of operands side by side), after `?`, a prefix operator or an opening bracket; `Ends` lists these tokens
(`Endless`) and says that there are no others. The `#` that closes a block comment opens a line comment, so
the rest of that line is lost too (`OnlyCommentsLost`).

## 5. Proofs

`HobBodiesProofs` proves, for all sets of names, all forms, any number of bodies
and statements, and any nesting of functions:

| Theorem | Says |
|---|---|
| `Invariance` | `Spec => []IInv` |
| `TypesAreKept` | `Spec => []TypeOK` |
| `ScopesAndLoopsInStep` | `Spec => []LoopsEnclose` |
| `AbortsOnlyRefused` | `Spec => []CrashOnlyAfterError` |
| `ExitsReleaseWhatTheyLeave` | `Spec => ExitReleasesLeft` (an action property) |
| `NamesResolveLexically` | `Spec => []LexicalScoping` |

The assumptions are `NamesAssumption` and `BoundsAssumption` of `HobBodies`.

The argument. `LoopsEnclose` is not inductive by itself: that `EndWhile` pops the
right loop needs that the loop's body is the innermost call, which needs that
calls are distinct bodies in increasing order; and the stacks suspended by anonymous
functions must satisfy the same facts when they come back. `IInv` adds:

- `TypeOK`, for the domains of every sequence;
- `CallsInv`: bodies are numbered as opened, running calls are increasing, and only
  the first of each list is a function's own body, named or anonymous according to
  its depth in `saved`;
- `WalkInv`: a running walk stands at an open body that the exit leaves, holding
  exactly the defers of the open bodies further in. This is what makes
  `ExitReleasesLeft` follow at `EndWalk`;
- `CrashOnlyAfterError`: with `LoopsComplete` (no loop is missing while there is no
  error), `EndWhile` finds an empty loop list only after an error.

There is one lemma per action, and under it one step per conjunct that the action
can disturb. `LoopsNested` is stated with a function from loops to calls; pushing a
body extends it, popping restricts it, and the lemmas at the start of `HobBodiesProofs` do this
once for all actions. `Bodies_control` checks `IInv` on a small instance, as part of
`BlocksInv`, so TLC and TLAPS use the same formula.

`LexicalScoping` compares two searches. `sema_ss_resolve_decl` goes through a stack of scopes, from
the innermost; `LexicalDecl` knows only the text, and goes from a body to the one that holds it.
`NamesInv`, in `HobBodiesProofs`, says why they agree. The scope of each open body holds what the text
of that body declares so far, so both find the same declaration there or none (`ScopesAsText`); an
open body stands in the last statement of the one around it, and in no other statement of the
program, so `Holder` leads where the stack does (`HeldOnce`); and the same is true of the
functions that anonymous ones suspend, whose text nothing changes until they go on (`Waits`).
`ResolvesLexically` follows, in any state. That the recursive function in `LexicalDecl` is defined
on all bodies is shown with a least body for which it would not be, since a body is held by
an older one (`HeldBelow`). Steps that act alike are again proved once: a
statement without a body, with one, the end of a body.

`HobBlocksProofs` proves the refinement, for the same instances:

| Theorem | Says |
|---|---|
| `WalksCollectInOrder` | `Spec => []BlocksInv` |
| `BodiesImplementBlocks` | `Spec => ImplementsBlocks` |

The assumptions are those of `HobBodies`, with `NoLoopAssumption` of `HobBodiesRefines` (the
mark of a block that is no loop is no loop's name).

The argument. Each action is one of `HobBlocks`, or a stutter; an error is its `Refuse`. `IInv`
does not say enough for this, since it lets a walk collect the lists of the bodies it leaves in
any order and two loops have one name. `BlocksInv` adds, while there is no error:

- `WalkExact`: what a walk holds is the pending defers of the blocks further in, backwards. The
  code collects them one body at a time from the inside; `PendingFrom` of `HobBlocks` is a
  function from the outside in. Its unfolding (`PendingUnfolds`) is proved by the place nearest to
  the end at which it could fail, and `ReverseConcat` turns one round of the walk into it;
- `NamesApart`: no two loops on a stack have the same name, so the first loop
  that `sema_ss_get_loop` finds from the inside is the block that `Target` takes (`TargetIs`);
- `SuspendedOK` and `Quiet`: the last statement read of a body that waits, in this function
  or in a suspended one, is no exit, and the bodies of a suspended function are older than all
  of the functions in it. When an anonymous function ends, the block stacks around it are
  then what they were.

`BlocksGrow` and `BlocksShrink` say once for all actions what entering and leaving a body do to
the mapped stack: a loop is pushed with its body and popped with it, and no other block's
loop or list changes.

`HobEmitProofs` proves, again for the same instances and for runs of any length:

| Theorem | Says |
|---|---|
| `EmitInvariant` | `EmitSpec => [](IInv /\ Annotated /\ EmitInv)` |
| `DisciplinedModulesVerify` | `EmitSpec => []DisciplinedVerified` |

The assumptions are those of `HobBodies`. `Disciplined` is a condition on the program's text, not on
how it is emitted; the programs outside of it for which `LLVMVerifyModule` fails are findings.

The argument. Two things about the analysed text come first, and need no emitter. `Annotated`: while
there is no error, what the emitter follows leads somewhere. A body's parent stands
before it, each statement refers to bodies that have been opened, of its kind, and the lists of defers, in
the making too, hold bodies of defers only. `EndsWell` follows from `Disciplined` (`DisciplinedEndsWell`): a function
with a value has an exit among its own statements and one without has none, and the body of a
defer has none, since an exit among the own statements of a defer's body leaves that body
(`ExitOfDefer`), which `Disciplined` excludes.

Of the emitter, that each block is terminated once is not inductive, since blocks are created long
before they are closed, and the C recursion that will close them is `work`, a list of what is
left to do. `EmitInv` reads this list as promises:

- `Chained`: `Begins` says whether an item finds the builder's block open, `Falls` whether it leaves it
  open, and each item finds what the one before leaves. `Falls` looks at the text, the code looks
  at what the last `llvm_body` answered; where an item reads that answer (`join`), the one
  before it has set it, and both agree;
- `Claims`: an item stands for the blocks that it will close and that are not the builder's: those
  of a branch and of what follows it, and for an anonymous function the block and the function
  to come back to, which `llvm_func` holds in C locals. No block is claimed twice (`Apart`);
- `Framed`: what is left of a function comes before its end, and then the other functions, so the
  end of an anonymous function comes back into the middle of another one and the end of a
  function does not;
- `Ledger`: the blocks without a terminator are the claimed ones and those that are held now (the
  builder's if it is open, and the first of the function), and never both. All others have exactly
  one, at the end. When `work` is empty nothing is held or claimed, which is
  `DisciplinedVerified`.

Each action replaces the first item by a list of others, or drops it; `TodoJoined` and `TodoRest` say what
a list must be for this to keep the chain and the claims, and `Turns` what is written to the
blocks: plain instructions to the builder's, a terminator where it is given up, new ones at the end.
`OpenStep` and `EndStep` put the two together, for actions in an open block and for those that end
one. A `?` ends the builder's block and goes on in a new one, wherever it stands (`OnNullTurns`, used for
statements and for the item `ask`), and a condition is an item that claims the block it will go on in (`TestingPiece`,
`EmitTestKeeps`). Defers are emitted once for each way out, so nothing is said of where a body's blocks are, only
that each list of defers is a chain of bodies that fall through. `Emit_control` checks
`EmitInv`, on all programs of its instance.

The proofs about `HobProject` hold for any files, directories, links and names, any number
of declarations and any size of the C stack:

| Theorem | Module | Says |
|---|---|---|
| `Invariance` | `HobProjectProofs` | `Spec => []IInv` |
| `TypesAreKept` | `HobProjectProofs` | `Spec => []TypeOK` |
| `PathsFollowFiles` | `HobProjectProofs` | `Spec => []CwdFollows` |
| `ModulesInOrder` | `HobProjectProofs` | `Spec => []DependenciesFirst` |
| `OnlyFinalsUnset` | `HobProjectProofs` | `Spec => []UnsetOnlyFinals` |
| `FilesListedOnce` | `HobProjectProofs` | `Spec => []ListedOnce` |
| `OverflowNeedsCycle` | `HobProjectProofs` | `StackTakesAll => (Spec => []OverflowOnlyOnCycle)` |

The assumptions are `FileSystemAssumption` (what `realpath` and `chdir` answer) and
`SizesAssumption`; `StackTakesAll`, of one theorem only, says that the C stack takes as many
calls as there are files, which are finitely many. Nothing is assumed of the file system beyond types, so a file may have
many names, in different directories, and may import itself, and descriptors may run out at any file.

The argument. `IInv` of `HobProject` has three parts, proved one after the other, each
from the ones before. `OrderInv` adds to `TypeOK` and `CwdFollows`:

- `ReturnsWhereOpened`: the directory a call goes back to is the one of the file of the
  call around it, the start directory for the first. So `CwdFollows` survives `Close`,
  whichever way the file ends;
- `WaitsForImports`: a call in which another one runs stands at an import. Files are only
  written at their end, so it still does when the inner call answers;
- `EachOnce`: running calls are of later and later modules, and none of them is listed; no
  module is listed twice. So what `Close` lists is new, and is not its caller;
- `LeadsBack`: the table of a listed module leads to itself and to modules listed before it,
  its public names are among its private ones, and an alias stands for a module before it;
  the table of an open module leads to itself and to listed ones. Each kind of
  declaration keeps this, since it takes what it pushes from a listed module's public table
  or makes it itself (`PushFacts`, `PushAllFacts`, `ResolveFacts`, `ImportedFacts`). When a
  module is listed, all it leads to is listed already.

`DependenciesFirst` follows from the last two. `Close` and the opening of a file are the
steps that disturb all parts; the rest are a declaration read by the innermost call (one
lemma, `ModuleReads`), an annotation by the analysis (`AnnotateKeeps`), and steps of the loops.

`PassInv` has what `UnsetOnlyFinals` needs of every module ever made, listed or not:

- `Annotated`: a declaration in a table was made for one that has been read in its module's
  file, and of a kind that goes with its value (`Sound`); an initialiser mentions what
  stands above it or in another module, and nothing mutable; a function's body mentions a
  value (`ReadsFit`). Files and modules only grow (`Onward`), so this is a matter of what a step
  adds (`WithAnnotates`, and `AnalyseAnnotates` for bodies);
- `SetSoFar`: the LLVM values set are all those due in the modules passed by the running loop, and
  all those due in the first pass once the second runs. A read that finds nothing set is then of
  a `final`, and by `DependenciesFirst` of a module that has been passed (then it is one
  without an initialiser, or the reader is a constant, read in the first pass) or of the reader's own
  (then it stands below, so the reader is a function).

`OnceInv` is about the calls that run at the same time. A file is listed only at its
end, and looked for only among the listed ones, so while it is being read an import of it
opens it again. Two calls for one file are at the same text, in the same directory when there are no links:

- `OpenedByPath`, `CalledByImport`: a running call's module is of a file that parses,
  found by the import at which the call around it stands;
- `NoFurther`, without links and as long as descriptors are left: the inner one of two calls for a file has come no further in it. At the
  import where the outer one waits, the inner one meets the same answer: not a listed file and not one
  that fails, since the outer call has opened it, so it opens it as well (`TopMovesOn`).
  It would have to pass that import to end, so it never ends (`TwinsDoNotClose`);
- `FilesApart`: no file is listed twice, and none that is listed is being read. What `Close`
  lists is then not being read further out. With links, or without descriptors, it is said
  only if no files import each other in a circle. Two calls for one file would make such a
  circle, since each running call stands at an import of the next one's file (`CallsImport`, `TwinsCircle`);
  and a circle does not go away, as files only grow.

`OverflowNeedsCycle` uses `CallsImport` too. A stack that is full although it takes a call for
each file, and is asked for one more, names some file twice; the files of the calls from one
of these places to the other import each other in a circle.

TLC checks `IInv` in `Project_links`, on a file system with a link: the part of `OnceInv` for files without
a circle is checked there, the part for file systems without links is empty. On one without, `Project_ends` checks
`ListedOnce`.

The proofs about `HobExpr` hold for texts of any length, over any tokens that include the
closing brackets and the comma:

| Theorem | Says |
|---|---|
| `ExprInvariant` | `Spec => []IInv` |
| `NullIsReported` | `Spec => []NullOnlyAfterError` |
| `PushDownOrders` | `Spec => []PrioritiesHold` |

The assumptions are `BoundsAssumption` and `BracketsAssumption` of `HobExpr` (where a group
closes, the parser must be able to read what closes it).

The argument. `PrioritiesHold` is about a finished tree; `IInv` of `HobExpr` says what holds of the
nodes and of the running calls of `ast_parse_expr` meanwhile:

- `Fits`, `Waits`: what a call may hold at each point, and what a call needs that waits for
  an inner one. A call that ends holds no `NULL` unless an error has been printed, so
  `NullOnlyAfterError` follows; and it ends at a token at which the operator around it ends too, so
  the operator that comes back goes through `expr_push_down` before anything else is done to it;
- `Apart`: no node is the operand of two operators, nor an operand and held by a call. So
  a turn changes two nodes and nobody else's operands;
- `Acyclic`: what stands above the cursor can be told from what stands below. Without it a
  turn might make an operator its own operand, and the order of priorities would mean nothing;
- `InOrder`: every operator binds no tighter than its operands, as far as no brackets hold
  them, except the one that `expr_push_down` is at, on its right. A turn
  (`TurnedInOrder`) moves that exception one place down and leaves the others in order; when nothing
  is left to turn, there is no exception.

What ends a text too early, a struct expression inside of it (`CutShort`), is left out of
the order as it is left out of `PrioritiesHold`. One step of the parser changes the innermost
call, the one around it, and one node: `ParseStep` reduces each action to what it does to these, and
`SetKeeps`, `BackKeeps` and `CallingKeeps` to its kind of change. A rejected literal is an error and adds a token that no
node stands at (`SticksKeeps`); from there on the text stays as it is. `Expr_trees` checks `IInv`.

The proofs about `HobGenerics` hold for any number of functions, statements and types:

| Theorem | Says |
|---|---|
| `GenericsInvariant` | `Spec => []IInv` |
| `TableCallsOwn` | `Spec => []TableCallsReachOwn` |
| `UnresolvedNeedsShared` | `Spec => []UnresolvedOnlyShared` |
| `OneTypeIsRight` | `Spec => []OneTypeFits` |

The assumption is `TypesAssumption`: types, parameters, `Self` and `NULL` are different things.

The argument. `replace` is one field for each parameter, written by every mention in the
analysis and in both emission passes and never put back. `IInv` says what it stands for
all the same:

- `Replaced`: a parameter stands for something exactly when its function has a table. Nothing
  ever clears the field, so from its first mention on a parameter is never unresolved;
  `llvm_resolve_type` follows at most two replacements, `Self` to a parameter to a type
  (`ResolveFacts`);
- `AsRead`: a call through the table is of the function's own parameter, on a value that comes from
  the parameter through such calls only. The parameter of another function
  was mentioned before a value of it exists, so its members are those of a type
  (`MembersRead`). The table set at the start of an instance is then the right one
  wherever the body reads one (`TableWritten`, `MeantFacts`), which is `TableCallsReachOwn`;
- `SelfKnown`: once a value of type `Self` exists, `Self` stands for something, and while an
  instance is emitted that has called through its table, for the instance's parameter. Where
  `Self` leads to nothing it leads to the parameter of a function without instances, which
  has such a call itself (`AbortKeeps`);
- `OnlyTables`: every type that is read, stored, declared or replaced is the type of some table, since the
  analysis refuses a literal as argument that is not what the parameter stands for
  (`EqualFacts`, about the whole of `sema_types_equals`). When there is one table type only, any two
  things that are compared are equal (`OneType`);
- `Phases`, `Declared`: what has been declared and emitted so far, so that a table that is
  named has its LLVM function, and a value that is read has its slot.

A step of the analysis appends one statement (`ReadKeeps`), a step of the second pass
emits one (`EmitKeeps`); what each action does to the fields is checked against these two.
`Generics_types` checks `IInv`.

The proofs about `HobLexer` hold for texts of any length and any list of keywords:

| Theorem | Says |
|---|---|
| `LexerInvariant` | `Spec => []IInv` |
| `TokensLocated` | `Spec => []Located` |

The assumption is `LexerAssumption`: a text is a sequence of characters none of which is the byte
that `(char)EOF` is (the code takes that byte for the end of the text, wherever it stands).

The argument. `InPlace` says what the code keeps up by hand: `location` is the line and column of
the place that `at` is, and while the parts are tried nothing has been read since `lexer_begin`,
which has noted that place in `start_location` and in the token. Rolling back and leaving a
character out start from there. Two things make it inductive:

- no part and no comment reads past the end of the text (`DecidingInText`,
  `CommentFacts`). Blanks, comments, names, digits and strings are read by functions that look
  ahead from place to place; `AheadExists` and `AheadStops` show of all of them that they are well defined
  and return what they find at a place where they stop, by the place nearest to the end
  at which this could fail;
- counting on from a place gives the place that is reached (`CountedPlace`), however far it is:
  `lexer_next_char` counts one character at a time, and `PlaceFacts` says what one character does to
  the number of line breaks before a place and to the distance from the last of them.

`Lexer_tokens` checks `IInv`.

Model-checked only: `NothingLost` and `GroupsStay` of `HobExpr` (their statements use recursive
functions and folds over the text, whose values for a longer text are a matter of induction over
data, out of the provers' reach); `JudgedAsWritten` and
`MisfitsAreStale` of `HobGenerics`, for the same reason (which values have gone astray is a
recursive function on the text); `LongestToken` and
`OnlyCommentsLost` of `HobLexer`, which speak of what the parts answer by another
definition of tokens, recursive functions and folds again; of `HobEmit`, `EmitTypeOK` (the loop
of each exit has its two blocks by the time the exit is emitted), `RunsAsWritten` (a run is
compared with `HobMeaning`, a recursive function on the text) and `DefinedUnlessElseIf` (which
speaks of all the paths that a run may take through the blocks); the three properties of `HobValues`; liveness (both `Ends`,
`CyclesOverflow` and `EndsOrSticks`), since TLAPS does not do `ENABLED` and fairness.
`HobValues` has recursive operators on types, which the provers do not take.

## 6. Not modelled, and why

- In the bodies: the rules of types beyond whether they fit; `sema_stmt_assign`,
  inline assembly and plain expressions, which change neither scopes nor blocks
  (`TypeError` stands for any of their errors, a `?` in a return or a condition of a function that
  returns no optional included).
- In the back end: what instructions compute (their types are in `HobValues`); the stores
  of variables; what an expression reads relative to the defers run before it; more than one `?` in
  one return or condition.
- In generics: several parameters, lists of behaviours, extension functions in generic
  types, loops and defers in bodies (a defer would emit a mention at another place than
  the one it was analysed at), errors while the parameters are read.
- In the project: structs, type aliases, behaviours and generics, reduced to a
  declaration that is refused or not; initialisers that hold anonymous functions; a rejected literal
  in a file, which the parser of declarations would read for ever (`EndsOrSticks`).
- In expressions as parsed: the inside of paths, types, struct expressions and anonymous
  functions, where a literal could be rejected too; a rejected literal as the first token (the statement in front of it is
  what is read again then); locations.
- In values: what a float holds; paths through modules, types and generics, and members
  that are functions (in `HobProject` and `HobGenerics`); anonymous functions (in
  `HobBodies`); the content of what a constant aggregate is emitted as.
- Types as the text writes them (`parts/type.c`), inline assembly, the reading of options:
  one pass over their input without state that outlives it.
- The parser of statements and declarations: one function for each construct, with one token of
  lookahead and no state between them; the other models start from the trees it builds.
- Vectors: sequences in all models, their asserts where a model can reach them.
- Printing, the linker call, command-line help: pure I/O.

## 7. Plan

Done, in this order: bodies (the most important behaviour: every other part trusts
its annotations), their abstract specification and proofs, emission, project, generics,
expressions as parsed, the lexer, values and folding, the proofs of the project,
of the parser, of generics and of the lexer, the refinement of `HobBlocks`, and the proof that
emission terminates every block. What is left:

1. A run of emitted code stays in its function and ends only at a `ret`, from `EmitInv`; then
   `EmitTypeOK`.
2. `JudgedAsWritten`, with what has gone astray kept by the analysis as an annotation, not
   computed from the text: then it is a matter of what each statement adds.
3. One turn of `expr_push_down` keeps what an expression yields (one unfolding of a
   recursive function, without induction).
4. The stores of variables in `HobEmit`, with what the expression of a `return` reads after
   the defers have run.
5. `HobVec`: the vector header, with capacity and length, implementing sequences.
