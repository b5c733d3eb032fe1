----------------------------- MODULE SharedFile -----------------------------
(***************************************************************************)
(* Processes that open, create and write one file without coordination:    *)
(*   - atomic_append.c, as it is (O_APPEND) and with its "x" argument      *)
(*     (lseek() to the end before every write());                          *)
(*   - append.c, which seeks to the beginning of a file opened with        *)
(*     O_APPEND and then writes its arguments;                             *)
(*   - bad_exclusive_open.c, which looks whether the file exists before    *)
(*     creating it.                                                        *)
(* All under src/stage0/tlpi/fileio.  A system call is one step.  A byte   *)
(* is a pair <<p, k>>, the k-th byte process p wrote, so that the model    *)
(* tells which bytes a write() put over which others.                      *)
(***************************************************************************)
EXTENDS Integers, Sequences, FiniteSets

CONSTANTS
  Appenders,   \* processes running "atomic_append file n"
  Seekers,     \* processes running "atomic_append file n x"
  Rewriters,   \* processes running "append file word ..."
  Openers,     \* processes running "bad_exclusive_open file"
  MaxBytes,    \* bound: the number n given to atomic_append
  OldSizes,    \* sizes the file may have before, if it exists
  Words,       \* the lengths of the words given to append
  Old, None    \* author of the old bytes; no process

Counters == Appenders \cup Seekers
Procs == Counters \cup Rewriters \cup Openers
Authors == Procs \cup {Old}

ASSUME SharedFileAssumption ==
  /\ Appenders \cap Seekers = {} /\ Counters \cap Rewriters = {}
  /\ (Counters \cup Rewriters) \cap Openers = {}
  /\ {Old, None} \cap Procs = {} /\ Old # None
  /\ MaxBytes \in Nat /\ OldSizes \subseteq Nat /\ Words \in Seq(Nat)

VARIABLES
  file,         \* the bytes of the file
  creator,      \* who created it; None if it does not exist
  pc, pos,      \* per process: where it is, the offset of its descriptor
  num, i,       \* per process: val, and the loop counter of that name
  wrote,        \* history: bytes write() reported written, per author
  overwritten,  \* history: bytes another byte was put over
  before,       \* history: per process about to write a byte, those that were
                \* in the file at the loop test, where a Seeker calls lseek()
  claims        \* bad_exclusive_open: processes that said "exclusively"

vars == <<file, creator, pc, pos, num, i, wrote, overwritten, before, claims>>

Over == {"done", "failed"}

Bytes(p, n) == [k \in 1..n |-> <<p, wrote[p] + k>>]

Init ==
  /\ \/ creator = None /\ wrote = [p \in Authors |-> 0]
     \/ /\ creator = Old
        /\ \E n \in OldSizes :
             wrote = [p \in Authors |-> IF p = Old THEN n ELSE 0]
  /\ file = [k \in 1..wrote[Old] |-> <<Old, k>>]
  /\ pc = [p \in Procs |-> "open"] /\ pos = [p \in Procs |-> 0]
  /\ num = [p \in Procs |-> 0] /\ i = [p \in Procs |-> 0]
  /\ overwritten = {} /\ claims = {}
  /\ before = [p \in Procs |-> {}]

InFile == {file[k] : k \in 1..Len(file)}

Goto(p, l) == pc' = [pc EXCEPT ![p] = l]

\* The process ends; descriptor and variables go with it.
End(p, how) ==
  /\ Goto(p, how)
  /\ pos' = [pos EXCEPT ![p] = 0] /\ num' = [num EXCEPT ![p] = 0]
  /\ i' = [i EXCEPT ![p] = 0]
  /\ UNCHANGED <<file, wrote, overwritten>>

Succeed(p) == End(p, "done") /\ UNCHANGED <<creator, claims>>

\* A system call fails: perror() or errExit(), and exit(EXIT_FAILURE).
Fail(p) == End(p, "failed") /\ UNCHANGED <<creator, claims>>

\* open() with O_CREAT.
OpenOrCreate(p) == creator' = IF creator = None THEN p ELSE creator

Overlay(s, at, t) == SubSeq(s, 1, at) \o t \o SubSeq(s, at + Len(t) + 1, Len(s))

\* A slip: the bytes go where the offset is, O_APPEND is forgotten.
AppendBytesAtOffset(p, n) ==
  /\ file' = Overlay(file, pos[p], Bytes(p, n))
  /\ pos' = [pos EXCEPT ![p] = @ + n]
  /\ wrote' = [wrote EXCEPT ![p] = @ + n]
  /\ UNCHANGED <<creator, overwritten, claims>>

\* write() of n bytes through a descriptor with O_APPEND: the offset is
\* moved to the end and the bytes are put there in one step.
AppendBytes(p, n) ==
  /\ file' = file \o Bytes(p, n)
  /\ pos' = [pos EXCEPT ![p] = Len(file) + n]
  /\ wrote' = [wrote EXCEPT ![p] = @ + n]
  /\ UNCHANGED <<creator, overwritten, claims>>

\* write() of one byte at the offset of the descriptor.
WriteByteAt(p) ==
  /\ IF pos[p] < Len(file)
     THEN /\ file' = [file EXCEPT ![pos[p] + 1] = <<p, wrote[p] + 1>>]
          /\ overwritten' = overwritten \cup {file[pos[p] + 1]}
     ELSE file' = file \o Bytes(p, 1) /\ UNCHANGED overwritten
  /\ pos' = [pos EXCEPT ![p] = @ + 1]
  /\ wrote' = [wrote EXCEPT ![p] = @ + 1]
  /\ UNCHANGED <<creator, claims>>

-----------------------------------------------------------------------------
(* atomic_append.c                                                         *)

AtomicOpen(p) ==
  /\ p \in Counters /\ pc[p] = "open"
  /\ \/ /\ OpenOrCreate(p) /\ Goto(p, "parse")
        /\ UNCHANGED <<file, pos, num, i, wrote, overwritten, claims>>
     \/ Fail(p)

\* strtol(): out of range, or no digits; the file is there by now.
AtomicParse(p) ==
  /\ p \in Counters /\ pc[p] = "parse"
  /\ \/ /\ \E n \in 0..MaxBytes : num' = [num EXCEPT ![p] = n]
        /\ i' = [i EXCEPT ![p] = 0] /\ Goto(p, "loop")
        /\ UNCHANGED <<file, creator, pos, wrote, overwritten, claims>>
     \/ Fail(p)

\* A slip: the lseek() is before the loop.
AtomicLoopSeeksOnce(p) ==
  /\ p \in Counters /\ pc[p] = "loop"
  /\ \/ i[p] >= num[p] /\ Succeed(p)
     \/ /\ i[p] < num[p] /\ Goto(p, "write")
        /\ pos' = IF p \in Seekers /\ i[p] = 0 THEN [pos EXCEPT ![p] = Len(file)] ELSE pos
        /\ UNCHANGED <<file, creator, num, i, wrote, overwritten, claims>>
     \/ (p \in Seekers \/ i[p] >= num[p]) /\ Fail(p)

\* The loop test, close() when it ends, lseek() in a Seeker.
AtomicLoop(p) ==
  /\ p \in Counters /\ pc[p] = "loop"
  /\ \/ i[p] >= num[p] /\ Succeed(p)
     \/ /\ i[p] < num[p] /\ Goto(p, "write")
        /\ pos' = IF p \in Seekers THEN [pos EXCEPT ![p] = Len(file)] ELSE pos
        /\ UNCHANGED <<file, creator, num, i, wrote, overwritten, claims>>
     \/ (p \in Seekers \/ i[p] >= num[p]) /\ Fail(p)

\* A slip: O_APPEND is given to neither.
AtomicWriteNoAppend(p) ==
  /\ p \in Counters /\ pc[p] = "write"
  /\ \/ /\ WriteByteAt(p)
        /\ i' = [i EXCEPT ![p] = @ + 1] /\ Goto(p, "loop")
        /\ UNCHANGED num
     \/ Fail(p)

AtomicWrite(p) ==
  /\ p \in Counters /\ pc[p] = "write"
  /\ \/ /\ IF p \in Seekers THEN WriteByteAt(p) ELSE AppendBytes(p, 1)
        /\ i' = [i EXCEPT ![p] = @ + 1] /\ Goto(p, "loop")
        /\ UNCHANGED num
     \/ Fail(p)

-----------------------------------------------------------------------------
(* append.c                                                                *)

\* open() without O_CREAT, then lseek() to the beginning.
AppendOpen(p) ==
  /\ p \in Rewriters /\ pc[p] = "open"
  /\ \/ /\ creator # None /\ Goto(p, "loop") /\ pos' = [pos EXCEPT ![p] = 0]
        /\ i' = [i EXCEPT ![p] = 0] /\ num' = [num EXCEPT ![p] = Len(Words)]
        /\ UNCHANGED <<file, creator, wrote, overwritten, claims>>
     \/ Fail(p)

\* One word per write(); a short write is reported and not completed.
AppendWrite(p) ==
  /\ p \in Rewriters /\ pc[p] = "loop"
  /\ \/ /\ i[p] < num[p] /\ i' = [i EXCEPT ![p] = @ + 1]
        /\ \E n \in 0..Words[i[p] + 1] : AppendBytes(p, n)
        /\ UNCHANGED <<pc, num>>
     \/ i[p] >= num[p] /\ Succeed(p)
     \/ Fail(p)

-----------------------------------------------------------------------------
(* bad_exclusive_open.c                                                    *)

\* A slip: the outcome of the first open() is taken the wrong way round.
ExclusiveOpenInverted(p) ==
  /\ p \in Openers /\ pc[p] = "open"
  /\ \/ creator = None /\ Succeed(p)
     \/ /\ creator # None /\ Goto(p, "create")
        /\ UNCHANGED <<file, creator, pos, num, i, wrote, overwritten, claims>>
     \/ Fail(p)

ExclusiveOpen(p) ==
  /\ p \in Openers /\ pc[p] = "open"
  /\ \/ creator # None /\ Succeed(p)
     \/ /\ creator = None /\ Goto(p, "create")
        /\ UNCHANGED <<file, creator, pos, num, i, wrote, overwritten, claims>>
     \/ Fail(p)

\* Any amount of time later (sleep(5), or the scheduler): the second open().
ExclusiveCreate(p) ==
  /\ p \in Openers /\ pc[p] = "create"
  /\ \/ OpenOrCreate(p) /\ End(p, "done") /\ claims' = claims \cup {p}
     \/ Fail(p)

-----------------------------------------------------------------------------
Calls(p) == \/ AtomicOpen(p) \/ AtomicParse(p) \/ AtomicLoop(p) \/ AtomicWrite(p)
            \/ AppendOpen(p) \/ AppendWrite(p)
            \/ ExclusiveOpen(p) \/ ExclusiveCreate(p)

\* The history "before" takes no part in what the programs do.
Remember ==
  before' = [p \in Procs |-> IF pc'[p] # "write" THEN {}
                             ELSE IF pc[p] # "write" THEN InFile ELSE before[p]]

Run(p) == Calls(p) /\ Remember

AllOver == (\A p \in Procs : pc[p] \in Over) /\ UNCHANGED vars

Next == (\E p \in Procs : Run(p)) \/ AllOver

\* Every process is scheduled.
Spec == Init /\ [][Next]_vars /\ \A p \in Procs : WF_vars(Run(p))

-----------------------------------------------------------------------------
(* Properties.                                                             *)

\* Every variable stays in its range; no descriptor's offset is ever beyond
\* the end of the file, so no write makes a hole.
TypeOK ==
  /\ file \in Seq(Authors \X (Nat \ {0})) /\ creator \in Authors \cup {None}
  /\ pc \in [Procs -> {"open", "parse", "loop", "write", "create"} \cup Over]
  /\ pos \in [Procs -> Nat] /\ \A p \in Procs : pos[p] <= Len(file)
  /\ num \in [Procs -> Nat] /\ i \in [Procs -> Nat]
  /\ wrote \in [Authors -> Nat]
  /\ overwritten \subseteq Authors \X (Nat \ {0}) /\ claims \subseteq Procs
  /\ before \in [Procs -> SUBSET (Authors \X (Nat \ {0}))]

\* No byte a write() reported is lost, unless the lseek-then-write of a
\* Seeker went over it: what O_APPEND is for.  Without Seekers none is.
NoLostBytes ==
  /\ \A p \in Authors : \A k \in 1..wrote[p] : <<p, k>> \in InFile \cup overwritten
  /\ Seekers = {} => overwritten = {}

\* The bytes of a process are in the file in the order it wrote them, also
\* those of a Seeker and those append wrote after seeking to the beginning.
WriteOrder ==
  \A j, k \in 1..Len(file) :
    (j < k /\ file[j][1] = file[k][1]) => file[j][2] < file[k][2]

\* The bytes write() reported written, the old ones included.
Written == UNION {{<<p, k>> : k \in 1..wrote[p]} : p \in Authors}

\* The file is short of the bytes written by exactly the overwritten ones.
SizeLoss == Len(file) + Cardinality(overwritten) = Cardinality(Written)

\* A Seeker only ever overwrites bytes that others wrote after its lseek()
\* for that byte: what was in the file then, and what it wrote itself, stays.
SeekersOverwriteOthers ==
  [][\A k \in 1..Len(file) :
       file'[k] # file[k] =>
         LET s == file'[k][1]
         IN  s \in Seekers /\ file[k][1] # s /\ file[k] \notin before[s]]_vars

\* "Created exclusively" is said by every process that created the file and
\* ended well, and never of a file that was there from the start: the claim
\* is wrong only if another process came between the two open() calls.  Who
\* says "already exists" did not create it.
ClaimsOfCreation ==
  /\ \A p \in Openers : creator = p => p \in claims
  /\ creator = Old => claims = {}
  /\ \A p \in Openers : (pc[p] = "done" /\ p \notin claims) => creator # None

\* The bytes of a process stand in the file in the order it wrote them, the
\* file is short of the bytes written by exactly the overwritten ones, and
\* "created exclusively" is said by every process that created the file, never
\* of one that was there from the start: the claim is wrong only if another
\* process came between the two calls of open().
Accounted == TypeOK /\ WriteOrder /\ SizeLoss /\ ClaimsOfCreation
=============================================================================
