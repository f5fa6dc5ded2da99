SPECIFICATION EmitSpec
CONSTANTS
  LoopNames = {}
  DeclNames = {}
  Globals = {}
  NoName = NoName
  Forms = {"return"}
  FuncReturns = {"void"}
  MaxBodies = 1
  MaxStmts = 1
  MaxRun = 1
INVARIANT Verified
CHECK_DEADLOCK FALSE
