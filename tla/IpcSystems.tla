----------------------------- MODULE IpcSystems -----------------------------
(***************************************************************************)
(* Systems of MCSuite whose processes or threads have queues, semaphores,  *)
(* FIFOs, locks or memory in common; IpcProofs is about them.              *)
(***************************************************************************)
EXTENDS Integers, FiniteSets, SuiteVariables

CONSTANTS
  NumClients, NumPids, NumLens, NumStarts, NumModulus, NumKills,   \* of SequenceNumbers
  MqMaxMsg, MqMaxSends, MqMaxStray,         \* of MessageNotification
  SemProcs, SemBlocks, SemTries, SemKills,  \* of Semaphores
  LockProcs, LockBytes, LockSize, LockCommands, LockRequests, LockMax, LockSleep,  \* of LocksAndDaemons
  ThrWorkers, ThrLoops,                     \* of Threads
  LoopKids, LoopPipe, LoopMaxEvents, LoopMaxInput   \* of EventLoops

ASSUME NumBounds ==
  /\ NumLens \subseteq Nat /\ NumKills \in Nat /\ NumModulus \in Nat /\ NumModulus > 0
  /\ NumStarts \subseteq 0..(NumModulus - 1)
ASSUME MqBounds == MqMaxMsg \in Nat /\ MqMaxSends \in Nat /\ MqMaxStray \in Nat
ASSUME SemBounds == IsFiniteSet(SemProcs) /\ SemBlocks \in Nat /\ SemTries \in Nat /\ SemKills \in Nat
ASSUME LockPids == 0 \notin LockProcs

\* Two rounds at least: threads that count without a lock may lose every
\* increment but one when each makes only one.
ASSUME ThrBounds ==
  /\ IsFiniteSet(ThrWorkers) /\ ThrWorkers # {} /\ ThrWorkers \subseteq Nat \ {0}
  /\ ThrLoops \in Nat /\ ThrLoops >= 2

\* A pipe holds something: the byte the handler of a signal writes to an empty
\* pipe is not lost.
ASSUME LoopBounds == IsFiniteSet(LoopKids) /\ LoopKids # {} /\ LoopPipe \in Nat \ {0} /\ LoopMaxEvents \in Nat

Numbers == INSTANCE SequenceNumbers WITH
  Clients <- NumClients, Pids <- NumPids, Lens <- NumLens, Starts <- NumStarts, Modulus <- NumModulus,
  MaxKills <- NumKills,
  kind <- v1, sv <- v2, cl <- v3, queue <- v4, fifos <- v5

Sems == INSTANCE Semaphores WITH
  Procs <- SemProcs, Blocks <- SemBlocks, MaxTries <- SemTries, MaxKills <- SemKills,
  kind <- v1, sem <- v2, shm <- v3, proc <- v4, out <- v5, kills <- v6

Mq == INSTANCE MessageNotification WITH
  MaxMsg <- MqMaxMsg, MaxSends <- MqMaxSends, MaxStray <- MqMaxStray,
  kind <- v1, q <- v2, main <- v3, thr <- v4, given <- v5

Locks == INSTANCE LocksAndDaemons WITH
  Procs <- LockProcs, Bytes <- LockBytes, Size <- LockSize, Commands <- LockCommands, Requests <- LockRequests,
  MaxCommands <- LockMax, SLEEP_TIME <- LockSleep,
  kind <- v1, tab <- v2, proc <- v3, fs <- v4, daemon <- v5

Thr == INSTANCE Threads WITH
  Workers <- ThrWorkers, Loops <- ThrLoops,
  kind <- v1, lock <- v2, th <- v3, mn <- v4, data <- v5

Loops == INSTANCE EventLoops WITH
  Kids <- LoopKids, PIPE <- LoopPipe, MAX_EVENTS <- LoopMaxEvents, MaxInput <- LoopMaxInput,
  kind <- v1, opt <- v2, env <- v3, m <- v4, kid <- v5
=============================================================================
