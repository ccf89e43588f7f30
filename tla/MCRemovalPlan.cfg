SPECIFICATION Spec
CONSTANTS
  MAX_DEPTH = 3
  LONGEST = 13
  Tokens <- McTokens
  Grammar <- McGrammar
  Unwritten = {2}
  Replaced <- McReplaced
INVARIANTS
  AcceptsTheGrammar
  StaysWellFormed
  DropsTheUnwritten
CHECK_DEADLOCK FALSE
