SPECIFICATION FairSpec
CONSTANTS
  main = main
  a = a
  b = b
  Link = FALSE
  NoFile = NoFile
  x = x
  NoName = NoName
  Files = {main, a, b}
  Dirs = {".", "lib"}
  Paths = {"main.hob", "a.hob", "lib/b.hob", "../main.hob", "../a.hob"}
  Finds <- FindsPath
  Enters <- EntersDir
  StartDir = "."
  MainPath = "main.hob"
  Names = {x}
  Publics = {TRUE}
  Forms = {"import", "bad", "broken", "func"}
  MaxNodes = 4
  MaxDepth = 4
  MaxOpen = 5
INVARIANTS CwdFollows ListedOnce OverflowOnlyOnCycle
PROPERTIES CyclesOverflow Ends
CHECK_DEADLOCK FALSE
