SPECIFICATION Spec
CONSTANTS
  Keys <- MCKeys
  MaxKeys = 2
  WinSizes <- MCWinSizes
  TermSize <- MCTermSize
  WelcomeLen = 9
  BufSize = 9
INVARIANTS
  WindowKept
  TerminalRestored
  DecodedAsTyped
PROPERTIES
  QuitHonoured
