SPECIFICATION FairSpec
CONSTANTS
  Core = {"x", "+", "(", ")", "struct"}
  Forms = {"*", "-", "&", "||", "!", "~", "as", ".", "?", "[", "]", "{", "}", ","}
  TopStop = {";"}
  MaxLength = 7
  MaxSize = 11
INVARIANTS NothingLost PrioritiesHold GroupsStay NullOnlyAfterError IInv
CHECK_DEADLOCK FALSE
PROPERTY Ends
