SPECIFICATION Spec
CONSTANTS
  Appenders = {a}
  Seekers = {s}
  Rewriters = {r}
  Openers = {o, q}
  MaxBytes = 2
  OldSizes = {1}
  Words <- MCWords
  Old = Old
  None = None
SYMMETRY Interchangeable
INVARIANTS
  NoLostBytes
  Accounted
PROPERTIES
  SeekersOverwriteOthers
