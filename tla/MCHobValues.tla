----------------------------- MODULE MCHobValues -----------------------------
EXTENDS HobValues

MCArches == {[bits |-> Wide, floats |-> TRUE], [bits |-> Narrow + 1, floats |-> FALSE]}
I8 == IntOf(Narrow, TRUE)
I64 == IntOf(Wide, TRUE)
U64 == IntOf(Wide, FALSE)
MCTypes ==
    {I8, U64, Bool, FloatOf(32), FloatOf(64), Opt(I8), Ptr(I8), Ptr(Void), Slice(I8),
     Arr(2, I8), Ptr(Arr(2, I8)), Struct, Func}
MCSpecs == {NoType, I8, FloatOf(64), Opt(I8), Ptr(I8), Arr(2, I8)}
MCFields == <<[name |-> "a", type |-> I8], [name |-> "b", type |-> Opt(I8)]>>
MCStructTexts ==
    LET m(f, u) == [field |-> f, undefined |-> u]
    IN  {<<m(1, FALSE), m(2, FALSE)>>, <<m(1, TRUE), m(2, FALSE)>>, <<m(1, TRUE), m(2, TRUE)>>,
         <<m(2, FALSE)>>, <<m(1, FALSE), m(3, FALSE)>>, <<m(1, FALSE), m(1, FALSE)>>}
MCSignatures == {[arg |-> I8, returns |-> Opt(I8)], [arg |-> Slice(I8), returns |-> Struct]}

\* What follows an error is not looked at: the module is not emitted then.
NoErrorYet == ~failed
=============================================================================
