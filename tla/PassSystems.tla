---------------------------- MODULE PassSystems -----------------------------
(***************************************************************************)
(* Systems of MCSuite in which processes pass on descriptors or data;      *)
(* PassProofs is about them.                                               *)
(***************************************************************************)
EXTENDS Integers, Sequences, FiniteSets, SuiteVariables

CONSTANTS
  PasLists, PasSizes, PasMaxFds, PasContent,      \* of PassedDescriptors
  PipKids, PipInput, PipLines, PipCap, PipAtomic, PipBufSize, PipPatSize, PipMaxKills,    \* of Pipelines
  StrStreams, StrCounts, StrLineBuf, StrBufSize, StrAddresses, StrMaxFaults    \* of StreamFunctions

Passed == INSTANCE PassedDescriptors WITH
  Lists <- PasLists, Sizes <- PasSizes, MAX_FDS <- PasMaxFds, Content <- PasContent,
  kind <- v1, opt <- v2, snd <- v3, net <- v4, rcv <- v5

Pipes == INSTANCE Pipelines WITH
  Kids <- PipKids, Input <- PipInput, Lines <- PipLines, CAP <- PipCap, PIPE_BUF <- PipAtomic, BUF_SIZE <- PipBufSize,
  PAT_SIZE <- PipPatSize, MaxKills <- PipMaxKills,
  kind <- v1, pipe <- v2, ends <- v3, proc <- v4, io <- v5, pty <- v6

Streams == INSTANCE StreamFunctions WITH
  Streams <- StrStreams, Counts <- StrCounts, RL_MAX_BUF <- StrLineBuf, BUF_SIZE <- StrBufSize, Addresses <- StrAddresses,
  MaxFaults <- StrMaxFaults,
  kind <- v1, n <- v2, in <- v3, st <- v4, out <- v5, faults <- v6

\* The files sent are those whose content is given; "EBADF" stands for a
\* number that is no open descriptor.
ASSUME PasBounds ==
  /\ \A f \in DOMAIN PasContent : PasContent[f] \in Nat
  /\ "EBADF" \notin DOMAIN PasContent /\ PasLists \subseteq Seq(DOMAIN PasContent)
  /\ PasSizes \subseteq Nat \cup {-1} /\ PasMaxFds \in Nat

\* What one read() takes is written in one piece, and a pipe holds that much.
ASSUME PipBounds ==
  /\ {1, 2} \subseteq PipKids /\ PipKids \subseteq Nat \ {0}
  /\ PipInput \in Seq(Int) /\ PipLines \subseteq Seq({"c", "bad", "nl"}) /\ PipPatSize \in Nat \ {0}
  /\ PipBufSize \in Nat \ {0} /\ PipAtomic \in Nat /\ PipCap \in Nat /\ PipBufSize <= PipAtomic /\ PipAtomic <= PipCap

\* A stream is a sequence; readLineBuf refuses a buffer of no bytes.
ASSUME StrBounds ==
  /\ StrStreams \subseteq Seq(Streams!Characters) /\ StrCounts \subseteq Nat \ {0}
  /\ StrLineBuf \in Nat /\ StrBufSize \in Nat
=============================================================================
