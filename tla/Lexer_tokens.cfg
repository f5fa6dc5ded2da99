SPECIFICATION FairSpec
CONSTANTS
  Texts <- ShortTexts
  Keywords <- ShortKeywords
  Word = 256
INVARIANTS IInv LongestToken Located OnlyCommentsLost
PROPERTY EndsOrSticks
CHECK_DEADLOCK FALSE
