SPECIFICATION EmitSpec
CONSTANTS
  LoopNames = {}
  DeclNames = {x}
  Globals = {x}
  NoName = NoName
  Forms = {"anon","decl","use", "while", "if", "defer", "exit", "return", "try"}
  FuncReturns = {"optional"}
  MaxBodies = 3
  MaxStmts = 3
  MaxRun = 4
INVARIANTS EmitTypeOK RunsAsWritten DefinedUnlessElseIf LexicalScoping
CHECK_DEADLOCK FALSE
