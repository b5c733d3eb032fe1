CONSTANTS
  Inputs <- MCInputs
  Olds <- MCOlds
  BufSize = 2
  Capacity = 3
SPECIFICATION CopySpec
INVARIANT TeeOverwrites
