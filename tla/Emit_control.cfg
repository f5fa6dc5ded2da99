SPECIFICATION EmitSpec
CONSTANTS
  LoopNames = {a}
  DeclNames = {}
  Globals = {}
  NoName = NoName
  Forms = {"while", "if", "defer", "exit", "return"}
  FuncReturns = {"void"}
  MaxBodies = 4
  MaxStmts = 4
  MaxRun = 5
INVARIANTS DisciplinedVerified RunsAsWritten EmitInv
CHECK_DEADLOCK FALSE
