CONSTANTS
  MaxFd = 4
  Limits = {3, 4}
  Target = 3
  TextLen = 2
  TfileSizes = {0, 3}
SPECIFICATION DupSpec
INVARIANT DupIsLowest
