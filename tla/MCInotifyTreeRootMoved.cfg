SPECIFICATION Spec
CONSTANTS
  Dirs = {d1, d2, d3, d4}
  Paths <- MCPaths
  RootSeq <- MCRootSeq
  Gone <- MCGone
  NoName = NoName
  MaxOps = 1
  MaxRenames = 1
  MaxQueue = 3
  ReadMax = 2
  BufMax = 3
INVARIANT
  RemainsConsistent
CHECK_DEADLOCK FALSE
