------------------------------- MODULE HobLexer ------------------------------
(***************************************************************************)
(* The lexer: lexer_next over a text, called until it answers TOKEN_EOI.   *)
(* lexer_try_next skips blanks and comments, then tries its parts in order *)
(* from the same place: symbols, keywords, a character, a name, a number,  *)
(* a string.  A part that does not fit is rolled back and the next one is  *)
(* tried; one that finds an error is rolled back too, but then the call    *)
(* returns, with the token of the call before.                             *)
(*                                                                         *)
(* A part reads the text forward one character at a time; what it answers  *)
(* and how far it got is a function of the text and the place.             *)
(***************************************************************************)
EXTENDS Integers, Sequences, SequencesExt, FiniteSetsExt

CONSTANTS
    Texts,      \* bound: the texts
    Keywords,   \* the KEYWORD lines that these characters can write, in order
    Word        \* bound: uint64_t holds the numbers below Word

EOF == "EOF"

\* Bound: no character of a text is the byte that (char)EOF is.
ASSUME LexerAssumption ==
    /\ Word \in Nat \ {0} /\ Keywords \in Seq(Seq(STRING))
    /\ \A t \in Texts : t \in Seq(STRING) /\ EOF \notin ToSet(t)

VARIABLES
    text,           \* Lexer.full
    at,             \* the place in it where Lexer.remain starts
    delta,          \* characters read since lexer_begin
    location,       \* Lexer.location
    start_location, \* its value at lexer_begin
    token,          \* Lexer.token, which every caller's pointer points to
    failed,         \* Lexer.failed
    phase,          \* skip: in lexer_try_next up to lexer_begin; parse: after; token: returned
    since           \* for the properties: where the call before had got to

vars == <<text, at, delta, location, start_location, token, failed, phase, since>>

-----------------------------------------------------------------------------
(***************************************************************************)
(* Characters                                                              *)
(***************************************************************************)
Backquote == "backquote"
C(i) == IF i > Len(text) THEN EOF ELSE text[i]

Blank == {"\n", " ", "\t"}
Digit == {"0", "1", "2"}
Hex == Digit \cup {"a", "f"}
IdentStart == {"a", "f", "m", "n", "s", "x", "_"}
Ident == IdentStart \cup Digit
DigitValue == [c \in Hex |-> CASE c = "0" -> 0 [] c = "1" -> 1 [] c = "2" -> 2
                               [] c = "a" -> 10 [] c = "f" -> 15]

\* lexer_next_char's count of lines and columns, over the text from i up to j.
Counted(loc, i, j) ==
    LET past[k \in i..j] ==
            IF k = i THEN loc
            ELSE IF text[k - 1] = "\n" THEN [line |-> past[k - 1].line + 1, column |-> 0]
            ELSE [past[k - 1] EXCEPT !.column = @ + 1]
    IN  past[j]

\* The first place from i on whose character is not of the class.
Past(i, class) ==
    LET f[j \in i..Len(text) + 1] == IF C(j) \in class THEN f[j + 1] ELSE j
    IN  f[i]

-----------------------------------------------------------------------------
(***************************************************************************)
(* Parts: what they answer from place b, and how far they read             *)
(***************************************************************************)
Ok(type, value, to) ==
    [err |-> "ok", token |-> [type |-> type, value |-> value], to |-> to, failed |-> FALSE]
Mismatch == [err |-> "mismatch"]
Error == [err |-> "error"]

\* A symbol, and the second characters that make it another one.
Symbols ==
    LET single == {"{", "}", "[", "]", "(", ")", ";", ",", ".", "~", "$", "?", ":"}
        assigns == {"+", "*", "/", "%", "=", "!"}
    IN  [c \in single \cup assigns \cup {"-", "|", "&", "<", ">"} |->
            CASE c \in single -> {}
              [] c \in assigns -> {"="}
              [] c = "-" -> {"=", ">"}
              [] c \in {"|", "&"} -> {c}
              [] c \in {"<", ">"} -> {c, "="}]

LexSymbol(b) ==
    IF C(b) \notin DOMAIN Symbols THEN Mismatch
    ELSE IF C(b + 1) \in Symbols[C(b)] THEN Ok("symbol", <<C(b), C(b + 1)>>, b + 2)
    ELSE Ok("symbol", <<C(b)>>, b + 1)

\* Slip: what follows the keyword is not looked at.
FitsPrefix(k, b) == IsPrefix(k, SubSeq(text, b, Len(text)))

Fits(k, b) == IsPrefix(k, SubSeq(text, b, Len(text))) /\ C(b + Len(k)) \notin Ident

LexKeyword(b) ==
    LET fit == {n \in 1..Len(Keywords) : Fits(Keywords[n], b)}
        k == Keywords[Min(fit)]
    IN  IF fit = {} THEN Mismatch ELSE Ok("keyword", k, b + Len(k))

\* One character of a literal that `stop` ends.
Escaped(i, stop) ==
    IF C(i) = "\\"
    THEN IF C(i + 1) \in {"0", "r", "n", stop}
         THEN [ok |-> TRUE, to |-> i + 2,
               char |-> IF C(i + 1) = stop THEN stop ELSE <<"\\", C(i + 1)>>]
         ELSE [ok |-> FALSE]
    ELSE IF C(i) \in {EOF, stop} THEN [ok |-> FALSE]
    ELSE [ok |-> TRUE, to |-> i + 1, char |-> C(i)]

\* Whatever stands for the closing quote is read; if it is none, that is an
\* error but the token is good.
LexChar(b) ==
    LET e == Escaped(b + 1, "'")
    IN  IF C(b) # "'" THEN Mismatch
        ELSE IF ~e.ok THEN Error
        ELSE [Ok("char", e.char, IF C(e.to) = EOF THEN e.to ELSE e.to + 1) EXCEPT !.failed = C(e.to) # "'"]

LexIdent(b) ==
    LET to == Past(b, Ident)
    IN  IF C(b) \in IdentStart THEN Ok("ident", SubSeq(text, b, to - 1), to) ELSE Mismatch

\* left * base + convert(c), again and again, in a uint64_t.
Number(i, j, base) ==
    FoldLeft(LAMBDA n, c : (n * base + DigitValue[c]) % Word, 0, SubSeq(text, i, j - 1))

LexInteger(b) ==
    LET hex == C(b) = "0" /\ C(b + 1) = "x"
        class == IF hex THEN Hex ELSE Digit
        base == IF hex THEN 16 ELSE 10
        first == IF hex THEN b + 2 ELSE b
        dot == Past(first, class)
        to == Past(dot + 1, class)
    IN  IF C(b) \notin Digit THEN Mismatch
        ELSE IF C(first) \notin class THEN Error
        ELSE IF C(dot) # "." THEN Ok("integer", Number(first, dot, base), dot)
        ELSE Ok("float", [left |-> Number(first, dot, base), right |-> Number(dot + 1, to, base),
                          scale |-> base ^ (to - dot - 1)], to)

\* A string ends with the text if no quote ends it.
LexStr(b) ==
    LET ends[i \in b..Len(text) + 1] ==
            IF C(i) \in {EOF, "\""} THEN i
            ELSE IF Escaped(i, "\"").ok THEN ends[Escaped(i, "\"").to] ELSE 0
        chars[i \in b..Len(text) + 1] ==
            IF C(i) \in {EOF, "\""} THEN <<>>
            ELSE <<Escaped(i, "\"").char>> \o chars[Escaped(i, "\"").to]
    IN  IF C(b) # "\"" THEN Mismatch
        ELSE IF ends[b + 1] = 0 THEN Error
        ELSE Ok("str", chars[b + 1], IF C(ends[b + 1]) = EOF THEN ends[b + 1] ELSE ends[b + 1] + 1)

\* The part that decides, in the order of lexer_try_next: the first that fits
\* or finds an error.
Deciding(b) ==
    IF LexSymbol(b) # Mismatch THEN LexSymbol(b)
    ELSE IF LexKeyword(b) # Mismatch THEN LexKeyword(b)
    ELSE IF LexChar(b) # Mismatch THEN LexChar(b)
    ELSE IF LexIdent(b) # Mismatch THEN LexIdent(b)
    ELSE IF LexInteger(b) # Mismatch THEN LexInteger(b)
    ELSE LexStr(b)

-----------------------------------------------------------------------------
(***************************************************************************)
(* lexer_next                                                              *)
(***************************************************************************)
Init ==
    /\ text \in Texts
    /\ at = 1 /\ delta = 0 /\ since = 1
    /\ location = [line |-> 0, column |-> 0] /\ start_location = location
    /\ token = [type |-> "none", value |-> <<>>, location |-> location]
    /\ failed = FALSE
    /\ phase = "skip"

\* The lexer has read on to a place, as lexer_next_char does.
ReadTo(to) == at' = to /\ location' = Counted(location, at, to)

\* After a block comment its closing # is still to be read, and starts the
\* next comment.
Comment(i) ==
    LET block[j \in i..Len(text)] ==
            IF C(j) = Backquote /\ C(j + 1) = "#" THEN [to |-> j + 1, open |-> FALSE]
            ELSE IF j = Len(text) THEN [to |-> j + 1, open |-> TRUE]
            ELSE block[j + 1]
        line[j \in i..Len(text) + 1] ==
            IF C(j) = EOF THEN j ELSE IF C(j) = "\n" THEN j + 1 ELSE line[j + 1]
    IN  IF C(i + 1) = Backquote THEN block[i + 1] ELSE [to |-> line[i + 1], open |-> FALSE]

\* lexer_next is called, or goes on.
Lexing ==
    /\ phase = "skip" \/ (phase = "token" /\ token.type # "EOI")
    /\ since' = IF phase = "token" THEN at ELSE since

SkipComment ==
    /\ Lexing
    /\ LET i == Past(at, Blank)
       IN  /\ C(i) = "#"
           /\ ReadTo(Comment(i).to)
           /\ delta' = delta + Comment(i).to - at
           /\ failed' = (failed \/ Comment(i).open)
    /\ phase' = "skip"
    /\ UNCHANGED <<text, start_location, token>>

\* Slip: lexer_begin leaves the place of the token before.
StartLocationKept(loc) == start_location

StartLocation(loc) == loc

\* Slip: lexer_begin goes on counting.
DeltaKept == delta

DeltaAtBegin == 0

\* No more blanks and comments: lexer_begin, at the end of the text or not.
Begin ==
    /\ Lexing
    /\ LET i == Past(at, Blank)
       IN  /\ C(i) # "#"
           /\ ReadTo(i)
           /\ IF C(i) = EOF
              THEN token' = [token EXCEPT !.type = "EOI"] /\ phase' = "token"
              ELSE token' = [token EXCEPT !.location = location'] /\ phase' = "parse"
    /\ delta' = DeltaAtBegin /\ start_location' = StartLocation(location')
    /\ UNCHANGED <<text, failed>>

Accept ==
    /\ phase = "parse"
    /\ \E part \in {Deciding(at)} :
           /\ part.err = "ok"
           /\ token' = [token EXCEPT !.type = part.token.type, !.value = part.token.value]
           /\ ReadTo(part.to)
           /\ delta' = delta + part.to - at
           /\ failed' = (failed \/ part.failed)
    /\ phase' = "token"
    /\ UNCHANGED <<text, start_location, since>>

\* lexer_rollback, and the token of the last call is returned once more.
Reject ==
    /\ phase = "parse"
    /\ Deciding(at) = Error
    /\ at' = at - delta /\ location' = start_location
    /\ delta' = 0
    /\ failed' = TRUE
    /\ phase' = "token"
    /\ UNCHANGED <<text, start_location, token, since>>

\* Slip: lexer_next tries again where it has just failed.
LeftOutNone == at - delta

\* Slip: what the last part has read is not given back.
LeftOutTwo == IF C(at + 1) = EOF THEN at + 1 ELSE at + 2

LeftOut == at - delta + 1

\* No part fits: lexer_next leaves one character out and tries again.
Unrecognised ==
    /\ phase = "parse"
    /\ Deciding(at) = Mismatch
    /\ at' = LeftOut /\ location' = Counted(start_location, at - delta, LeftOut)
    /\ delta' = LeftOut - (at - delta)
    /\ failed' = TRUE
    /\ phase' = "skip"
    /\ UNCHANGED <<text, start_location, token, since>>

Next == SkipComment \/ Begin \/ Accept \/ Reject \/ Unrecognised
Spec == Init /\ [][Next]_vars
FairSpec == Spec /\ WF_vars(Next)

-----------------------------------------------------------------------------
(***************************************************************************)
(* Properties                                                              *)
(***************************************************************************)
TypeOK ==
    /\ at \in 1..Len(text) + 1 /\ since \in 1..at
    /\ delta \in 0..at - IF phase = "skip" THEN 1 ELSE since
    /\ {location, start_location, token.location} \subseteq [line : Nat, column : Nat]
    /\ DOMAIN token = {"type", "value", "location"} /\ failed \in BOOLEAN
    /\ phase \in {"skip", "parse", "token"}

Within(i, j) == {text[k] : k \in i..j - 1}

\* What the text from i up to j can be as a token, said without the parts.
IsSymbol(i, j) ==
    \E c \in DOMAIN Symbols :
        \/ SubSeq(text, i, j - 1) = <<c>>
        \/ \E d \in Symbols[c] : SubSeq(text, i, j - 1) = <<c, d>>
IsWord(i, j) == i < j /\ text[i] \in IdentStart /\ Within(i, j) \subseteq Ident
IsDigits(i, j, class) == i < j /\ Within(i, j) \subseteq class
IsHex(i, j) == C(i) = "0" /\ C(i + 1) = "x" /\ IsDigits(i + 2, j, Hex)
IsInteger(i, j) == IsDigits(i, j, Digit) \/ IsHex(i, j)
IsFloat(i, j) ==
    \E dot \in i + 1..j - 1 :
        /\ text[dot] = "." /\ IsInteger(i, dot)
        /\ Within(dot + 1, j) \subseteq IF IsHex(i, dot) THEN Hex ELSE Digit

\* The places in a literal that starts at i where a character of it starts;
\* the others are what a \ escapes.
Unescaped(i, k) ==
    LET slashes == {m \in i + 1..k - 1 : Within(m, k) \subseteq {"\\"}}
    IN  Cardinality(slashes) % 2 = 0
IsChar(i, j) ==
    /\ C(i) = "'" /\ j \in {i + 3, i + 4} /\ C(j - 1) = "'"
    /\ IF j = i + 3 THEN C(i + 1) \notin {"'", "\\"}
       ELSE C(i + 1) = "\\" /\ C(i + 2) \in {"0", "r", "n", "'"}
IsStr(i, j) ==
    /\ C(i) = "\""
    /\ \A k \in i + 1..j - 1 : C(k) = "\"" /\ Unescaped(i, k) => k = j - 1
    /\ \/ j = Len(text) + 1
       \/ j > i + 1 /\ C(j - 1) = "\"" /\ Unescaped(i, j - 1)

Is(type, i, j) ==
    CASE type = "symbol" -> IsSymbol(i, j)
      [] type = "keyword" -> SubSeq(text, i, j - 1) \in ToSet(Keywords)
      [] type = "ident" -> IsWord(i, j) /\ SubSeq(text, i, j - 1) \notin ToSet(Keywords)
      [] type = "integer" -> IsInteger(i, j)
      [] type = "float" -> IsFloat(i, j)
      [] type = "char" -> IsChar(i, j)
      [] type = "str" -> IsStr(i, j)
Types == {"symbol", "keyword", "ident", "integer", "float", "char", "str"}

\* The literals that are rejected: an escape that does not exist, a character
\* that is empty or unfinished, 0x and no digit.
BadEscape(i, k, stop) ==
    C(k) = "\\" /\ Unescaped(i, k) /\ C(k + 1) \notin {"0", "r", "n", stop}
BadLiteral(i) ==
    \/ C(i) = "'" /\ (C(i + 1) \in {EOF, "'"} \/ BadEscape(i, i + 1, "'"))
    \/ C(i) = "0" /\ C(i + 1) = "x" /\ C(i + 2) \notin Hex
    \/ /\ C(i) = "\""
       /\ \E k \in i + 1..Len(text) :
              /\ BadEscape(i, k, "\"")
              /\ \A m \in i + 1..k - 1 : C(m) = "\"" => ~Unescaped(i, m)

\* The characters of a literal, without their escapes.
Unit(k) == IF text[k] # "\\" THEN text[k]
           ELSE IF text[k + 1] \in {"'", "\""} THEN text[k + 1] ELSE SubSeq(text, k, k + 1)
Units(i, j) ==
    LET starts == {k \in i + 1..j - 1 : Unescaped(i, k) /\ text[k] # text[i]}
        nth == SetToSortSeq(starts, LAMBDA k, m : k < m)
    IN  [n \in 1..Len(nth) |-> Unit(nth[n])]

\* The value such a token has: a number modulo Word.
Worth(i, j, base) ==
    MapThenSumSet(LAMBDA k : DigitValue[text[k]] * base ^ (j - 1 - k), i..j - 1) % Word
Meant(type, i, j) ==
    LET base == IF IsHex(i, i + 3) THEN 16 ELSE 10
        first == IF base = 16 THEN i + 2 ELSE i
        dot == Min({j} \cup {k \in i..j - 1 : text[k] = "."})
    IN  CASE type = "integer" -> Worth(first, j, base)
          [] type = "float" -> [left |-> Worth(first, dot, base), right |-> Worth(dot + 1, j, base),
                                scale |-> base ^ (j - dot - 1)]
          [] type = "str" -> Units(i, j)
          [] type = "char" -> Units(i, j)[1]
          [] OTHER -> SubSeq(text, i, j - 1)
\* A token has just been read from the text, from Start up to at.
Start == at - delta
Fresh == phase = "token" /\ token.type # "EOI" /\ delta # 0
OpenChar ==
    token.type = "char" /\ C(Start + IF C(Start + 1) = "\\" THEN 3 ELSE 2) # "'"

\* lex_symbol_alt, lex_keyword, lex_ident, lex_integer, lex_char and lex_str,
\* tried in the order of lexer_try_next, together find the longest token that
\* the text starts with, and find nothing where a literal is rejected: no
\* keyword is cut off a name, no symbol hides a longer one.  A number is what
\* is written modulo 2^64.  (A character whose closing quote is missing is
\* reported, and passes.)
LongestToken ==
    Fresh =>
        /\ ~BadLiteral(Start)
        /\ Is(token.type, Start, at) \/ (OpenChar /\ failed)
        /\ token.value = Meant(token.type, Start, at)
        /\ ~\E j \in at + 1..Len(text) + 1, type \in Types : Is(type, Start, j)

\* The place of character i of the text, as lexer_next_char counts it.
LineOf(i) == Cardinality({k \in 1..i - 1 : text[k] = "\n"})
ColumnOf(i) == i - 1 - Max({0} \cup {k \in 1..i - 1 : text[k] = "\n"})
PlaceOf(i) == [line |-> LineOf(i), column |-> ColumnOf(i)]

\* Every token carries the line and column where it starts, whatever was
\* skipped, left out or rolled back before it.
Located == Fresh => token.location = PlaceOf(Start)

\* A # at i opens a comment which, if it is closed before j, is followed by
\* nothing but blanks up to the end of that line.
LineComment(i, j) == "\n" \notin Within(i, j)
BlockComment(i, j) ==
    /\ C(i + 1) = Backquote
    /\ ~\E k \in i + 1..j - 2 : C(k) = Backquote /\ C(k + 1) = "#" /\ "\n" \in Within(k, j)

\* What lexer_next passes over on its way to a token is blank, inside a
\* comment (the rest of the line where a block comment closes included), or
\* one character that starts no token, and then lexer_failed.
OnlyCommentsLost ==
    \A i \in since..at - 1 :
        \/ phase = "token" /\ i >= Start
        \/ text[i] \in Blank
        \/ \E h \in since..i : text[h] = "#" /\ (LineComment(h, i) \/ BlockComment(h, i))
        \/ failed /\ ~BadLiteral(i)
             /\ ~\E j \in i + 1..Len(text) + 1, type \in Types : Is(type, i, j)

\* The lexer gets to the end of the text, unless it comes to a literal it
\* rejects: lexer_rollback goes back to its start, so that every further call
\* finds the same literal, and answers the token before it, for ever.
EndsOrSticks ==
    \/ <>(phase = "token" /\ token.type = "EOI")
    \/ <>[](BadLiteral(Past(at, Blank)) /\ failed)

-----------------------------------------------------------------------------
(***************************************************************************)
(* The inductive invariant.                                                *)
(***************************************************************************)
\* The location counts what has been read.  When the parts are tried, nothing has been
\* read since lexer_begin, and the token has its place.
InPlace ==
    /\ location = PlaceOf(at)
    /\ phase = "parse" => /\ at <= Len(text) /\ delta = 0
                          /\ start_location = location /\ token.location = location

IInv == text \in Texts /\ TypeOK /\ InPlace /\ Located
=============================================================================
