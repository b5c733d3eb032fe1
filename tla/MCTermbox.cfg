SPECIFICATION Spec
CONSTANTS
  WideChars = {"W"}
  BadChars = {"bad"}
  Sizes <- MCSizes
  Drawings <- MCDrawings
  Texts <- MCTexts
  Attrs = {0, 1}
  Caps <- MCCaps
  Typing <- MCTyping
  Scenarios <- MCScenarios
INVARIANTS
  ScreenShown
  Restored
  KeysDelivered
  ResizeNoticed
CHECK_DEADLOCK FALSE
