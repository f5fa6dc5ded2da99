----------------------------- MODULE MCHobLexer ------------------------------
(***************************************************************************)
(* Texts for HobLexer, over small sets of characters that meet each other: *)
(* names and keywords, numbers, symbols, literals, comments.               *)
(***************************************************************************)
EXTENDS HobLexer

ShortTexts ==
    BoundedSeq({"a", "s", "m", "_", "0"}, 5)                    \* names, keywords
    \cup BoundedSeq({"0", "2", "x", "a", "."}, 5)               \* numbers
    \cup BoundedSeq({"-", ">", "=", "&", "!", "^"}, 4)          \* symbols
    \cup BoundedSeq({"'", "\"", "\\", "n", "\n"}, 6)            \* literals
    \cup BoundedSeq({"#", Backquote, "\n", "a"}, 6)             \* comments
    \cup BoundedSeq({"#", Backquote, "\"", "'", "\n", "a"}, 4)  \* one in the other

\* Those of the KEYWORD lines that these characters can write.
ShortKeywords == << <<"a", "s", "m">>, <<"_">>, <<"a", "s">> >>
=============================================================================
