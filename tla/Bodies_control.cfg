SPECIFICATION Spec
CONSTANTS
  LoopNames = {a, b}
  DeclNames = {}
  Globals = {}
  NoName = NoName
  NoLoop = NoLoop
  Forms = {"anon", "error", "while", "if", "defer", "exit", "return", "try"}
  FuncReturns = {"optional"}
  MaxBodies = 3
  MaxStmts = 4
SYMMETRY Symmetry
INVARIANTS BlocksInv LoopsEnclose CrashOnlyAfterError
PROPERTIES ImplementsBlocks ExitReleasesLeft
CHECK_DEADLOCK FALSE
