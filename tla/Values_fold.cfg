SPECIFICATION Spec
CONSTANTS
    Narrow = 2
    Wide = 4
    Arches <- MCArches
    Literals = {0, 1, 3}
    TypeNames <- MCTypes
    Specs <- MCSpecs
    Fields <- MCFields
    StructTexts <- MCStructTexts
    Signatures <- MCSignatures
    Forms = {"int", "float", "bool", "char", "str", "null", "name", "array", "struct", "binop", "unary", "not", "ref", "as", "path", "idx", "try", "unwrap", "call"}
    Binops = {"+", "-", "/", "%", "&", ">>", "<<", "==", "<", "&&"}
    Size = 3
INVARIANTS
    EmittedTyped
    FoldsAsComputed
    RefusedIsReported
CONSTRAINT NoErrorYet
CHECK_DEADLOCK FALSE
