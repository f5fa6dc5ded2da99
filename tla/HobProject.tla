------------------------------ MODULE HobProject -----------------------------
(***************************************************************************)
(* From the file named on the command line to the emitted module:          *)
(* sema_project_add_module_at, which reads a file's declarations and, in   *)
(* the middle of that, the files it imports; the name tables of a module;  *)
(* sema_project_analyze; and the two passes of llvm_emit_project, which    *)
(* set and read the LLVM value of each declaration.                        *)
(*                                                                         *)
(* A file is written as it is first read: whoever reads past what has been *)
(* read of it so far picks its next declaration, and later readers find    *)
(* the same one.  A function's body, like an initialiser, is the one name  *)
(* it mentions, if any.                                                    *)
(***************************************************************************)
EXTENDS Naturals, Sequences, SequencesExt

CONSTANTS
    Dirs, Paths, Files,
    NoFile,     \* the path names nothing that can be read
    Finds,      \* realpath: the file that a path names from a directory
    Enters,     \* chdir: the directory part of a path, from a directory
    StartDir, MainPath,
    Names,      \* names of declarations, module aliases included
    NoName,
    Publics,    \* bound: whether declarations are marked public
    Forms,      \* bound: forms of declaration the files hold
    MaxNodes,   \* bound: declarations in all files together
    MaxDepth,   \* bound: calls of add_module_at that fit on the C stack
    MaxOpen     \* bound: file descriptors that the process may still open

ASSUME FileSystemAssumption ==
    /\ NoFile \notin Files
    /\ Finds \in [Dirs \X Paths -> Files \cup {NoFile}]
    /\ Enters \in [Dirs \X Paths -> Dirs]
    /\ StartDir \in Dirs /\ MainPath \in Paths
ASSUME SizesAssumption ==
    /\ NoName \notin Names
    /\ MaxNodes \in Nat /\ MaxDepth \in Nat \ {0} /\ MaxOpen \in Nat \ {0}
    /\ Publics \subseteq BOOLEAN

VARIABLES
    text,       \* the files: unread, broken (a syntax error), open or whole
    cwd,        \* the working directory of the process
    opened,     \* descriptors taken: slice_read_from_file closes none it has read
    semas,      \* every SemaModule made, with its AST annotated
    frames,     \* running calls of sema_project_add_module_at, outermost first
    modules,    \* project->modules, as indices into semas
    stage,      \* read, analyse, init, emit; then done, exit or overflow
    at,         \* of those loops: the module and the declaration that is next
    set,        \* declarations whose llvm.value has been assigned
    unset       \* reads of an llvm.value that had not

vars == <<text, cwd, opened, semas, frames, modules, stage, at, set, unset>>

-----------------------------------------------------------------------------
(***************************************************************************)
(* Declarations                                                            *)
(***************************************************************************)
\* A mention of a name: of one's own, or through a module.
Refs == [module : Names \cup {NoName}, name : Names]
NoRef == [module |-> NoName, name |-> NoName]

Vals == {"const", "final", "var"}
Nodes ==
    [kind : {"import"}, path : Paths, name : Names, public : Publics]
    \cup [kind : {"all"}, ref : Refs, public : Publics]
    \cup [kind : {"item"}, ref : Refs, name : Names, public : Publics]
    \cup [kind : {"use"}, ref : Refs, public : Publics]
    \cup [kind : {"ext", "bare"}, name : Names, public : Publics]
    \cup [kind : {"func"} \cup Vals, name : Names, ref : Refs \cup {NoRef}, public : Publics]
    \cup [kind : {"bad"}]
Written == {n \in Nodes : n.kind \in Forms}

\* SemaDecl: `ext` for an extension function, found by its type; the kind of
\* its SemaValue; the declaration it was made for; the module it stands for.
Decl == [name : Names \cup {NoName}, ext : BOOLEAN,
         value : {"constant", "final", "var", "module", "none"},
         of : Nat, node : Nat, target : Nat]
NoDecl == [name |-> NoName, ext |-> FALSE, value |-> "none", of |-> 0, node |-> 0, target |-> 0]

\* A table holds each name once, so the order in it does not matter.
Sema == [file : Files, dir : Dirs, priv : SUBSET Decl, pub : SUBSET Decl, failed : BOOLEAN,
         ast : Seq([decl : Decl, reads : Decl])]

\* The declaration of that name, among the extension functions or the others.
Declared(decls, ext, name) ==
    LET found == {d \in decls : d.ext = ext /\ d.name = name}
    IN  IF found = {} THEN NoDecl ELSE CHOOSE d \in found : TRUE

Push(s, d, public) ==
    IF Declared(s.priv, d.ext, d.name) # NoDecl THEN [s EXCEPT !.failed = TRUE]
    ELSE [s EXCEPT !.priv = @ \cup {d}, !.pub = IF public THEN @ \cup {d} ELSE @]

\* All public names of a module, or all its public extension functions; those
\* that are taken are errors.
PushAll(s, ext, m, public) ==
    LET all == {d \in semas[m].pub : d.ext = ext}
        new == {d \in all : Declared(s.priv, ext, d.name) = NoDecl}
    IN  [s EXCEPT !.priv = @ \cup new, !.pub = IF public THEN @ \cup new ELSE @,
                  !.failed = @ \/ new # all]

\* A path from module s: its own names first, then those that the module a
\* name stands for has made public.
Resolve(s, ref) ==
    IF ref.module = NoName THEN Declared(s.priv, FALSE, ref.name)
    ELSE LET m == Declared(s.priv, FALSE, ref.module)
         IN  IF m.value # "module" THEN NoDecl ELSE Declared(semas[m.target].pub, FALSE, ref.name)

-----------------------------------------------------------------------------
(***************************************************************************)
(* Reading files                                                           *)
(***************************************************************************)
Init ==
    /\ text = [f \in Files |-> [state |-> "unread", nodes |-> <<>>]]
    /\ cwd = StartDir
    /\ opened = 0
    /\ semas = <<>> /\ frames = <<>> /\ modules = <<>>
    /\ stage = "read"
    /\ at = [module |-> 1, node |-> 1]
    /\ set = {} /\ unset = {}

Later == <<at, set, unset>>

\* The innermost call, its module, and the number of its next declaration.
I == Last(frames).sema
S == semas[I]
K == Len(S.ast) + 1
Reading == stage = "read" /\ frames # <<>>

NodeCount == FoldFunction(LAMBDA t, n : n + Len(t.nodes), 0, text)

\* What the next declaration of the file may be; what is written of the files
\* by then.
Upcoming ==
    LET t == text[S.file]
    IN  IF ~Reading THEN {}
        ELSE IF K <= Len(t.nodes) THEN {t.nodes[K]}
        ELSE IF t.state = "open" /\ NodeCount < MaxNodes THEN Written ELSE {}
TextAt(n) ==
    [text EXCEPT ![S.file].nodes = IF K <= Len(@) THEN @ ELSE Append(@, n)]

\* Module i, now s, goes past its next declaration, which it annotates.
With(i, s, decl, reads) ==
    [semas EXCEPT ![i] = [s EXCEPT !.ast = Append(@, [decl |-> decl, reads |-> reads])]]
Take(n, s, decl, reads) ==
    /\ text' = TextAt(n)
    /\ semas' = With(I, s, decl, reads)
    /\ UNCHANGED <<cwd, opened, frames, modules, stage, Later>>
Refuse(n) == Take(n, [S EXCEPT !.failed = TRUE], NoDecl, NoDecl)

NewDecl(name, ext, value) ==
    [NoDecl EXCEPT !.name = name, !.ext = ext, !.value = value, !.of = I, !.node = K]

\* Slip: the search stops at the module listed last.
ListedLast(file) ==
    IF modules # <<>> /\ semas[Last(modules)].file = file THEN Last(modules) ELSE 0

Listed(file) ==
    LET i == SelectInSeq(modules, LAMBDA m : semas[m].file = file)
    IN  IF i = 0 THEN 0 ELSE modules[i]

NewSema(path) ==
    [file |-> Finds[<<cwd, path>>], dir |-> Enters[<<cwd, path>>],
     priv |-> {}, pub |-> {}, failed |-> FALSE, ast |-> <<>>]
NewFrame == [sema |-> Len(semas) + 1, back |-> cwd]

\* Slip: the file is listed before its declarations are read.
EnterListed(path) ==
    /\ semas' = Append(semas, NewSema(path))
    /\ frames' = Append(frames, NewFrame)
    /\ cwd' = Enters[<<cwd, path>>]
    /\ modules' = Append(modules, NewFrame.sema)

\* Slip: the file is read from the directory it was imported in.
EnterStay(path) ==
    /\ semas' = Append(semas, NewSema(path))
    /\ frames' = Append(frames, NewFrame)
    /\ UNCHANGED <<cwd, modules>>

\* Into the file's directory, and on to its declarations.
Enter(path) ==
    /\ semas' = Append(semas, NewSema(path))
    /\ frames' = Append(frames, NewFrame)
    /\ cwd' = Enters[<<cwd, path>>]
    /\ UNCHANGED modules

\* No descriptor is left, for fopen or for anything else.
Exhausted == opened = MaxOpen

\* sema_project_add_module_at, with the files being so far: it opens a file
\* that parses, or has nothing to return: a path without a file, a file that
\* does not parse, and any file when there is no descriptor for it.
Opens(path, files) ==
    LET file == Finds[<<cwd, path>>]
    IN  /\ file # NoFile /\ Listed(file) = 0 /\ ~Exhausted
        /\ files[file].state # "broken"
        /\ text' = [files EXCEPT ![file].state = IF @ = "unread" THEN "open" ELSE @]
        /\ opened' = opened + 1
        /\ IF Len(frames) < MaxDepth THEN Enter(path) /\ UNCHANGED stage
           ELSE stage' = "overflow" /\ UNCHANGED <<cwd, semas, frames, modules>>
        /\ UNCHANGED Later
Fails(path, files) ==
    LET file == Finds[<<cwd, path>>]
    IN  \/ /\ file = NoFile \/ (Listed(file) = 0 /\ Exhausted)
           /\ text' = files /\ UNCHANGED opened
        \/ /\ file # NoFile /\ Listed(file) = 0 /\ ~Exhausted
           /\ files[file].state \in {"broken"} \cup IF "broken" \in Forms THEN {"unread"} ELSE {}
           /\ text' = [files EXCEPT ![file].state = "broken"]
           /\ opened' = opened + 1

Start ==
    /\ stage = "read" /\ semas = <<>>
    /\ \/ Opens(MainPath, text)
       \/ /\ Fails(MainPath, text)
          /\ stage' = "exit"
          /\ UNCHANGED <<cwd, semas, frames, modules, Later>>

At(n, kinds) == n.kind \in kinds

ImportOpens(n) == At(n, {"import"}) /\ Opens(n.path, TextAt(n))

\* The module is declared under the import's name, its extension functions
\* under their own.
WithAlias(i, n, m) ==
    LET s == semas[i]
        alias == [NoDecl EXCEPT !.name = n.name, !.value = "module", !.of = i,
                                !.node = Len(s.ast) + 1, !.target = m]
    IN  With(i, PushAll(Push(s, alias, n.public), TRUE, m, FALSE), alias, NoDecl)

\* Slip: an import that fails is tried again.
ImportedAgain(i, n, m) == IF m = 0 THEN semas ELSE WithAlias(i, n, m)

\* What an import makes of the answer; 0, no module: it is skipped.
Imported(i, n, m) ==
    IF m = 0 THEN With(i, semas[i], NoDecl, NoDecl) ELSE WithAlias(i, n, m)

ImportKnown(n) ==
    /\ At(n, {"import"})
    /\ LET file == Finds[<<cwd, n.path>>]
       IN  /\ file # NoFile /\ Listed(file) # 0
           /\ semas' = Imported(I, n, Listed(file))
    /\ text' = TextAt(n)
    /\ UNCHANGED <<cwd, opened, frames, modules, stage, Later>>

ImportFails(n) ==
    /\ At(n, {"import"})
    /\ Fails(n.path, TextAt(n))
    /\ semas' = Imported(I, n, 0)
    /\ UNCHANGED <<cwd, frames, modules, stage, Later>>

\* Slip: the error path leaves the process where it is.
BackUnlessFailed == IF S.failed THEN cwd ELSE Last(frames).back

Back == Last(frames).back

\* Slip: the answer NULL is listed as well.
ListingNull == Append(modules, IF S.failed THEN 0 ELSE I)

Listing == IF S.failed THEN modules ELSE Append(modules, I)

\* The end of the file: a module without errors is listed, and is what the
\* caller, main or an import, gets.
Close ==
    /\ Reading
    /\ text[S.file].state \in {"open", "whole"} /\ K > Len(text[S.file].nodes)
    /\ text' = [text EXCEPT ![S.file].state = "whole"]
    /\ modules' = Listing
    /\ cwd' = Back
    /\ frames' = Front(frames)
    /\ LET m == IF S.failed THEN 0 ELSE I
       IN  IF Len(frames) = 1
           THEN stage' = (IF m = 0 THEN "exit" ELSE "analyse") /\ UNCHANGED semas
           ELSE LET caller == semas[frames[Len(frames) - 1].sema]
                    n == text[caller.file].nodes[Len(caller.ast) + 1]
                IN  semas' = Imported(frames[Len(frames) - 1].sema, n, m) /\ UNCHANGED stage
    /\ UNCHANGED <<opened, Later>>

\* A function, an extension function, a final without initialiser.
ReadPlain(n) ==
    /\ At(n, {"func", "ext", "bare"})
    /\ LET d == NewDecl(n.name, n.kind = "ext", "final")
       IN  Take(n, Push(S, d, n.public), d, NoDecl)

\* const, final, var: what the initialiser mentions must not be mutable; a
\* const has the value of its initialiser, folded or not.
ReadVal(n) ==
    /\ At(n, Vals)
    /\ LET init == Resolve(S, n.ref)
           value == IF n.kind # "const" THEN n.kind
                    ELSE IF n.ref = NoRef THEN "constant" ELSE init.value
           d == NewDecl(n.name, FALSE, value)
       IN  IF n.ref = NoRef \/ init.value \in {"constant", "final"}
           THEN Take(n, Push(S, d, n.public), d, init)
           ELSE Refuse(n)

ReadFromAll(n) ==
    /\ At(n, {"all"})
    /\ LET m == Resolve(S, n.ref)
       IN  IF m.value # "module" THEN Refuse(n)
           ELSE Take(n, PushAll(S, FALSE, m.target, n.public), NoDecl, NoDecl)

ReadFromItem(n) ==
    /\ At(n, {"item"})
    /\ LET m == Resolve(S, n.ref)
           d == IF m.value # "module" THEN NoDecl
                ELSE Declared(semas[m.target].pub, FALSE, n.name)
       IN  IF d = NoDecl THEN Refuse(n) ELSE Take(n, Push(S, d, n.public), NoDecl, NoDecl)

ReadUse(n) ==
    /\ At(n, {"use"})
    /\ LET d == Resolve(S, n.ref)
           s == Push(S, d, n.public)
       IN  IF d = NoDecl THEN Refuse(n)
           ELSE Take(n, IF d.value = "module" THEN PushAll(s, TRUE, d.target, FALSE) ELSE s,
                     NoDecl, NoDecl)

\* Any declaration that is refused for another reason.
ReadBad(n) == At(n, {"bad"}) /\ Refuse(n)

-----------------------------------------------------------------------------
(***************************************************************************)
(* The loops over the modules: analysis, and the two passes of emission    *)
(***************************************************************************)
M == modules[at.module]
Due == semas[M].ast[at.node]
DueNode == text[semas[M].file].nodes[at.node]

InLoop(s) == stage = s /\ at.module <= Len(modules) /\ at.node <= Len(semas[M].ast)
NextNode == at' = [at EXCEPT !.node = @ + 1]
Fixed == <<text, cwd, opened, frames, modules>>

NextModule ==
    /\ stage \in {"analyse", "init", "emit"}
    /\ at.module <= Len(modules) /\ at.node > Len(semas[M].ast)
    /\ at' = [module |-> at.module + 1, node |-> 1]
    /\ UNCHANGED <<Fixed, semas, stage, set, unset>>

\* A function's body: the name it mentions, now that the tables are full.
Analyse ==
    /\ InLoop("analyse")
    /\ LET d == Resolve(semas[M], DueNode.ref)
       IN  semas' = IF DueNode.kind # "func" \/ DueNode.ref = NoRef THEN semas
                    ELSE IF d.value \in {"none", "module"} THEN [semas EXCEPT ![M].failed = TRUE]
                    ELSE [semas EXCEPT ![M].ast[at.node].reads = d]
    /\ NextNode
    /\ UNCHANGED <<Fixed, stage, set, unset>>

Succeeded == \A m \in ToSet(modules) : ~semas[m].failed

EndLoop ==
    /\ stage \in {"analyse", "init", "emit"}
    /\ at.module > Len(modules)
    /\ at' = [module |-> 1, node |-> 1]
    /\ stage' = CASE stage = "analyse" -> IF Succeeded THEN "init" ELSE "exit"
                  [] stage = "init" -> "emit"
                  [] stage = "emit" -> "done"
    /\ UNCHANGED <<Fixed, semas, set, unset>>

Id(d) == <<d.of, d.node>>

\* The expression of a declaration is emitted: a constant needs no LLVM value.
Reads ==
    LET d == Due.reads
        by == [kind |-> DueNode.kind, of |-> M, node |-> at.node]
    IN  unset' = IF d.value \in {"none", "constant"} \/ Id(d) \in set THEN unset
                 ELSE unset \cup {[by |-> by, decl |-> d]}
Sets == set' = set \cup {<<M, at.node>>}

\* Slip: functions are added to the LLVM module when their bodies are emitted.
InitSetsLate == {"ext", "var", "const"}

\* The kinds whose value the first pass, llvm_module_init, sets.
InitSets == {"func", "ext", "var", "const"}

InitNode ==
    /\ InLoop("init")
    /\ IF DueNode.kind \in InitSets THEN Sets ELSE UNCHANGED set
    /\ IF DueNode.kind = "const" THEN Reads ELSE UNCHANGED unset
    /\ NextNode
    /\ UNCHANGED <<Fixed, semas, stage>>

\* The second: function bodies, and what finals and variables start with.
EmitNode ==
    /\ InLoop("emit")
    /\ IF DueNode.kind \in {"func", "final"} THEN Sets ELSE UNCHANGED set
    /\ IF DueNode.kind \in {"func", "final", "var"} THEN Reads ELSE UNCHANGED unset
    /\ NextNode
    /\ UNCHANGED <<Fixed, semas, stage>>

Next ==
    \/ Start
    \/ \E n \in Upcoming :
          \/ ImportOpens(n) \/ ImportKnown(n) \/ ImportFails(n)
          \/ ReadPlain(n) \/ ReadVal(n)
          \/ ReadFromAll(n) \/ ReadFromItem(n) \/ ReadUse(n)
          \/ ReadBad(n)
    \/ Close
    \/ NextModule
    \/ Analyse
    \/ EndLoop
    \/ InitNode
    \/ EmitNode

Spec == Init /\ [][Next]_vars

\* One thread, which nothing blocks.
FairSpec == Spec /\ WF_vars(Next)

-----------------------------------------------------------------------------
(***************************************************************************)
(* Properties                                                              *)
(***************************************************************************)
Ended == {"done", "exit", "overflow"}

Texts == [Files -> [state : {"unread", "broken", "open", "whole"}, nodes : Seq(Nodes)]]
TypeOK ==
    /\ text \in Texts
    /\ cwd \in Dirs
    /\ opened \in 0..MaxOpen
    /\ semas \in Seq(Sema)
    /\ frames \in Seq([sema : 1..Len(semas), back : Dirs])
    /\ modules \in Seq(1..Len(semas))
    /\ stage \in {"read", "analyse", "init", "emit"} \cup Ended
    /\ at \in [module : Nat \ {0}, node : Nat \ {0}]
    /\ set \subseteq Nat \X Nat
    /\ unset \subseteq [by : [kind : {"func"} \cup Vals, of : Nat, node : Nat], decl : Decl]

\* Whatever files fail on the way, a path in a file is looked up from the
\* directory that file was opened in, and the process ends up where it started.
CwdFollows == cwd = IF frames = <<>> THEN StartDir ELSE S.dir

\* The table of a listed module, and the annotations of its AST, lead to
\* declarations of modules listed before it, or its own: the order of
\* project->modules is one in which both passes can go.
DependenciesFirst ==
    \A i \in 1..Len(modules) :
        LET known == ToSet(SubSeq(modules, 1, i))
            s == semas[modules[i]]
        IN  /\ \A d \in s.priv : d.of \in known /\ d.target \in {0} \cup (known \ {modules[i]})
            /\ \A e \in ToSet(s.ast) : e.reads.of \in {0} \cup known

\* No file has two names that lie in different directories.
Linkless ==
    \A p, q \in Dirs \X Paths : Finds[p] = Finds[q] /\ Finds[p] # NoFile => Enters[p] = Enters[q]

\* The only declarations whose LLVM value is read before it is set are finals:
\* those without an initialiser; those a const initialiser mentions; and
\* those below the function of the same module that mentions them.
UnsetOnlyFinals ==
    \A r \in unset :
        LET n == text[semas[r.decl.of].file].nodes[r.decl.node]
        IN  \/ n.kind = "bare"
            \/ n.kind = "final" /\ r.by.kind = "const"
            \/ n.kind = "final" /\ r.by.kind = "func" /\ r.by.of = r.decl.of
               /\ r.by.node < r.decl.node

\* An import cycle, seen in the files alone.
Imports(f, g) ==
    \E i \in 1..Len(text[f].nodes) :
        LET n == text[f].nodes[i]
        IN  /\ n.kind = "import"
            /\ \E p \in Dirs \X Paths : Finds[p] = f /\ Finds[<<Enters[p], n.path>>] = g
ImportCycle ==
    \E circle \in (SUBSET Files) \ {{}} : \A f \in circle : \E g \in circle : Imports(f, g)

\* A file is listed only after everything it imports has been read, and looked
\* for only among the listed ones; still, it is listed, so analysed and
\* emitted, once.  Only in an import cycle may it come twice: by a link, or
\* when the calls that wait on each other have used up the descriptors, so
\* that the imports are skipped and each of these calls lists its file.
ListedOnce ==
    \A i, j \in 1..Len(modules) :
        i # j /\ semas[modules[i]].file = semas[modules[j]].file =>
            ImportCycle /\ (Linkless => Exhausted)

\* Files that import each other in a circle end in a full C stack, also when
\* some of them are refused on the way, or first use up the descriptors;
\* without a circle the stack never fills, whatever the links.
CyclesOverflow == Linkless /\ ImportCycle ~> stage = "overflow" \/ Exhausted
OverflowOnlyOnCycle == stage = "overflow" => ImportCycle

\* Whatever the files, the compiler comes to an end.
Ends == <>(stage \in Ended)

-----------------------------------------------------------------------------
(***************************************************************************)
(* The inductive invariant                                                 *)
(***************************************************************************)
\* The modules listed up to the i-th.
Known(i) == {modules[j] : j \in 1..i}

\* All that module m, which is s, leads to is its own or of a known module.
LeadsTo(s, m, known) ==
    /\ \A d \in s.priv : /\ d.of \in known \cup {m}
                         /\ d.target \in IF d.value = "module" THEN known ELSE {0}
    /\ s.pub \subseteq s.priv
    /\ \A k \in 1..Len(s.ast) : s.ast[k].reads.of \in {0, m} \cup known

LeadsBack ==
    /\ \A i \in 1..Len(modules) : LeadsTo(semas[modules[i]], modules[i], Known(i - 1))
    /\ \A k \in 1..Len(frames) :
          LeadsTo(semas[frames[k].sema], frames[k].sema, Known(Len(modules)))

\* Running calls are of later and later modules, none of them listed yet.
EachOnce ==
    /\ \A k, l \in 1..Len(frames) : k < l => frames[k].sema < frames[l].sema
    /\ \A k \in 1..Len(frames), i \in 1..Len(modules) : frames[k].sema # modules[i]
    /\ \A i, j \in 1..Len(modules) : modules[i] = modules[j] => i = j

ReturnsWhereOpened ==
    \A k \in 1..Len(frames) :
        frames[k].back = IF k = 1 THEN StartDir ELSE semas[frames[k - 1].sema].dir

\* A call has read what the file holds, at most; one that another call runs in
\* has come to an import.
WaitsForImports ==
    \A k \in 1..Len(frames) :
        LET s == semas[frames[k].sema]
            nodes == text[s.file].nodes
        IN  /\ Len(s.ast) <= Len(nodes)
            /\ k < Len(frames) => Len(s.ast) < Len(nodes) /\ nodes[Len(s.ast) + 1].kind = "import"

OrderInv ==
    /\ TypeOK
    /\ CwdFollows
    /\ ReturnsWhereOpened
    /\ WaitsForImports
    /\ EachOnce
    /\ LeadsBack

\* The declaration that d was made for has been read, and is of d's value.
Sound(d) ==
    /\ d.name \in Names
    /\ d.of \in 1..Len(semas) /\ d.node \in 1..Len(semas[d.of].ast)
    /\ LET kind == text[semas[d.of].file].nodes[d.node].kind
       IN  \/ d.value = "constant" /\ kind = "const"
           \/ d.value = "final" /\ kind \in {"func", "ext", "bare", "final", "const"}
           \/ d.value = "var" /\ kind = "var"
           \/ d.value = "module" /\ kind = "import"

\* An initialiser mentions what stands above it, a function's body anything.
ReadsFit(i, k) ==
    LET d == semas[i].ast[k].reads
        kind == text[semas[i].file].nodes[k].kind
    IN  \/ d = NoDecl
        \/ /\ Sound(d)
           /\ \/ /\ kind \in Vals
                 /\ d.value \in {"constant", "final"}
                 /\ d.of = i => d.node < k
              \/ kind = "func" /\ d.value \in {"constant", "final", "var"}

Annotated ==
    \A i \in 1..Len(semas) :
        /\ \A d \in semas[i].priv \cup semas[i].pub : Sound(d)
        /\ Len(semas[i].ast) <= Len(text[semas[i].file].nodes)
        /\ \A k \in 1..Len(semas[i].ast) : ReadsFit(i, k)

\* Declaration k of the i-th module has had its turn in the running loop.
Passed(i, k) == at.module > i \/ (at.module = i /\ at.node > k)

\* What the two passes have set by now.
SetSoFar ==
    \A i \in 1..Len(modules) : \A k \in 1..Len(semas[modules[i]].ast) :
        LET kind == text[semas[modules[i]].file].nodes[k].kind
        IN  \/ <<modules[i], k>> \in set
            \/ /\ kind \in InitSets => stage \notin {"emit", "done"} /\ ~(stage = "init" /\ Passed(i, k))
               /\ kind = "final" => ~(stage = "emit" /\ Passed(i, k))

PassInv ==
    /\ Annotated
    /\ SetSoFar
    /\ UnsetOnlyFinals
    /\ stage \in {"init", "emit", "done"} \/ unset = {}

\* A module is of a file that parses, in the directory of a path to it.
OpenedByPath ==
    \A i \in 1..Len(semas) :
        /\ text[semas[i].file].state \in {"open", "whole"}
        /\ \E p \in Dirs \X Paths : semas[i].file = Finds[p] /\ semas[i].dir = Enters[p]

\* A call runs in the one that has come to an import of its file.
CalledByImport ==
    \A k \in 1..Len(frames) - 1 :
        LET s == semas[frames[k].sema]
            n == text[s.file].nodes[Len(s.ast) + 1]
        IN  semas[frames[k + 1].sema].file = Finds[<<s.dir, n.path>>]

FilesApart ==
    /\ \A i, j \in 1..Len(modules) : i # j => semas[modules[i]].file # semas[modules[j]].file
    /\ \A k \in 1..Len(frames), i \in 1..Len(modules) :
          semas[frames[k].sema].file # semas[modules[i]].file

\* A call for a file that is being read comes no further in it.
NoFurther ==
    \A k, l \in 1..Len(frames) :
        k < l /\ semas[frames[k].sema].file = semas[frames[l].sema].file =>
            Len(semas[frames[l].sema].ast) <= Len(semas[frames[k].sema].ast)

OnceInv ==
    /\ OpenedByPath
    /\ CalledByImport
    /\ Linkless /\ ~Exhausted => FilesApart /\ NoFurther
    /\ ~ImportCycle => FilesApart

IInv == OrderInv /\ PassInv /\ OnceInv
=============================================================================
