SPECIFICATION Spec
CONSTANTS
  Texts <- MCTexts
  ListTypes <- DefinedTypes
  MessageNo <- ListMessage
  NumFG = 2
CHECK_DEADLOCK FALSE
INVARIANTS
  FirstListDecides
  PromiseKept
  
PROPERTY
  StoryEnds
