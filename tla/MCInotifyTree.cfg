SPECIFICATION Spec
CONSTANTS
  Dirs = {d1, d2, d3, d4}
  Paths <- MCPaths
  RootSeq <- MCRootSeq
  Gone <- MCGone
  NoName = NoName
  MaxOps = 3
  MaxRenames = 2
  MaxQueue = 3
  ReadMax = 2
  BufMax = 3
INVARIANTS
  CacheInSync
PROPERTIES
  BufferWorkedOff
CHECK_DEADLOCK FALSE
