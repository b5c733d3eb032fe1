SPECIFICATION Spec
CONSTANTS
  BOARD_ROWS = 4
  BOARD_COLS = 10
  Patterns <- MCPatterns
  Losses <- MCLosses
  MaxCuts = 1
  MaxGeneration = 10
  MaxKeys = 2
INVARIANTS
  ScreenShowsBoard
  EndsInOrder
PROPERTIES
  PlaysByTheRules
  EscapeHonoured
