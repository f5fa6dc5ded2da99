SPECIFICATION Spec
CONSTANTS
  main = main
  a = a
  b = b
  Link = TRUE
  NoFile = NoFile
  x = x
  y = y
  NoName = NoName
  Files = {main, a, b}
  Dirs = {".", "lib"}
  Paths = {"main.hob", "a.hob", "lib/b.hob", "../main.hob"}
  Finds <- FindsPath
  Enters <- EntersDir
  StartDir = "."
  MainPath = "main.hob"
  Names = {x, y}
  Publics = {TRUE}
  Forms = {"import", "all", "item", "use", "ext", "bad", "func", "const", "final", "var", "bare"}
  MaxNodes = 3
  MaxDepth = 4
  MaxOpen = 5
SYMMETRY Symmetry
INVARIANTS IInv DependenciesFirst UnsetOnlyFinals
CHECK_DEADLOCK FALSE
