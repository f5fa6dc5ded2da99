SPECIFICATION EmitSpec
CONSTANTS
  LoopNames = {}
  DeclNames = {x}
  Globals = {}
  NoName = NoName
  Forms = {"use", "if"}
  FuncReturns = {"void"}
  MaxBodies = 3
  MaxStmts = 2
  MaxRun = 3
INVARIANT DefinedBeforeUse
CHECK_DEADLOCK FALSE
