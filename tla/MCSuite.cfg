SPECIFICATION Spec
CONSTANTS
  NumClients = {1, 2, 3}
  NumPids = {1, 2}
  NumLens = {0, 1, 3}
  NumStarts = {4}
  NumModulus = 5
  NumKills = 1
  MqMaxMsg = 2
  MqMaxSends = 4
  MqMaxStray = 2
  SemProcs = {p, q, r}
  SemBlocks = 3
  SemTries = 2
  SemKills = 1
  NotMaxArgs = 2
  NotMaxFaults = 1
  ItClients = {1, 2}
  ItLengths <- TwoLengths
  ItBufSize = 2
  ItMaxFaults = 1
  FkClients = {1, 2}
  FkSize = 2
  FkQueueMax = 1
  FkMaxFaults = 1
  LockProcs = {1, 2}
  LockBytes = {0, 1}
  LockSize = 1
  LockCommands <- TypedCommands
  LockRequests <- FlockRequests
  LockMax = 2
  LockSleep = 2
  ThrWorkers = {1, 2}
  ThrLoops = 3
  LoopKids = {1, 2}
  LoopPipe = 2
  LoopMaxEvents = 2
  LoopMaxInput = 3
  CapNames = {"SETPCAP", "SETUID", "DAC"}
  CapOptions <- AskedOptions
  CapLists <- AskedCaps
  CapMaxOpt = 2
  KinKids = {1, 2, 3}
  KinPrefixes = 3
  KinMaxSignals = 2
  PasLists <- SentFiles
  PasSizes <- ControlSizes
  PasMaxFds = 3
  PasContent <- FileContent
  PipKids = {1, 2}
  PipInput <- PipeInput
  PipLines <- TypedLines
  PipCap = 2
  PipAtomic = 2
  PipBufSize = 2
  PipPatSize = 4
  PipMaxKills = 1
  StrStreams <- ReadStreams
  StrCounts = {1, 3}
  StrLineBuf = 3
  StrBufSize = 2
  StrAddresses = 2
  StrMaxFaults = 1
INVARIANTS
  NumbersServed
  ChildrenServe
  ServedOneByOne
  SemaphoresHold
  FiltersAsMeant
  CallsServed
  WorkAccounted
  ChildrenAccounted
  ReceivesWhatWasSent
  PrivilegesAsAsked
  NamespacesAccounted
  NoneLeftUnread
  SignalsAccounted
  EventsNotForgotten
  PipesPassOn
  LocksAndHups
  DeliveredInFull
CHECK_DEADLOCK FALSE
