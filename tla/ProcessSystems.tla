--------------------------- MODULE ProcessSystems ---------------------------
(***************************************************************************)
(* Systems of MCSuite in which a process serves others, or prepares and    *)
(* waits for its children; ProcessProofs is about them.                    *)
(***************************************************************************)
EXTENDS Integers, Sequences, FiniteSets, SuiteVariables

CONSTANTS
  NotMaxArgs, NotMaxFaults,                       \* of UserNotification
  ItClients, ItLengths, ItBufSize, ItMaxFaults,   \* of IterativeServers
  FkClients, FkSize, FkQueueMax, FkMaxFaults,     \* of ForkingServers
  CapNames, CapOptions, CapLists, CapMaxOpt,      \* of Capabilities
  KinKids, KinPrefixes, KinMaxSignals             \* of Children

ASSUME NotBounds == NotMaxArgs \in Nat /\ NotMaxFaults \in Nat
ASSUME ItBounds == ItLengths \in Seq(Nat) /\ ItBufSize \in Nat /\ ItMaxFaults \in Nat
ASSUME FkBounds == FkSize \in Nat

\* 1 and 2 are the child of system() and the other child of its caller; PATH
\* has a prefix to try.
ASSUME KinBounds == IsFiniteSet(KinKids) /\ {1, 2} \subseteq KinKids /\ KinPrefixes \in Nat \ {0}

Notification == INSTANCE UserNotification WITH
  MaxArgs <- NotMaxArgs, MaxFaults <- NotMaxFaults,
  kind <- v1, target <- v2, notif <- v3, sup <- v4, made <- v5, fds <- v6, faults <- v7

Iterative == INSTANCE IterativeServers WITH
  Clients <- ItClients, Lengths <- ItLengths, BUF_SIZE <- ItBufSize, MaxFaults <- ItMaxFaults,
  kind <- v1, server <- v2, inbox <- v3, cl <- v4, mail <- v5, out <- v6, faults <- v7
Forking == INSTANCE ForkingServers WITH
  Clients <- FkClients, Size <- FkSize, QueueMax <- FkQueueMax, MaxFaults <- FkMaxFaults,
  kind <- v1, parent <- v2, child <- v3, chld <- v4, net <- v5, cl <- v6

Caps == INSTANCE Capabilities WITH
  Caps <- CapNames, OptionLists <- CapOptions, CapLists <- CapLists, MAX_OPT <- CapMaxOpt,
  kind <- v1, opt <- v2, proc <- v3, parent <- v4, ns <- v5

\* check_password_caps asks for the capability "DAC".
ASSUME CapBounds ==
  /\ "DAC" \in CapNames /\ CapLists \subseteq Seq(CapNames)
  /\ CapOptions \subseteq Seq(Caps!Options) /\ CapMaxOpt \in Nat

Kin == INSTANCE Children WITH
  Kids <- KinKids, Prefixes <- KinPrefixes, MaxSignals <- KinMaxSignals,
  kind <- v1, par <- v2, ch <- v3, sig <- v4, how <- v5
=============================================================================
