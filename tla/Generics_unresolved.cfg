SPECIFICATION Spec
CONSTANTS
  Types = {i32, i64}
  Pointers = {i64}
  Self = Self
  NoType = NoType
  MaxFuncs = 2
  MaxStmts = 3
CHECK_DEADLOCK FALSE
INVARIANT NeverUnresolved
