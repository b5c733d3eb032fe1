----------------------------- MODULE Semaphores -----------------------------
(***************************************************************************)
(* Programs that meet at semaphores: svshm_xfr_writer.c and                *)
(* svshm_xfr_reader.c, which hand blocks over in shared memory with the    *)
(* binary semaphores of binary_sems.c; svsem_good_init.c and               *)
(* svsem_bad_init.c, which create a semaphore that several use; and        *)
(* psem_wait.c, psem_trywait.c, psem_timedwait.c and psem_post.c on a      *)
(* POSIX semaphore.                                                        *)
(***************************************************************************)
EXTENDS Integers, Sequences, SequencesExt, FiniteSets

CONSTANTS
  Procs,      \* the processes of svsem_good_init, svsem_bad_init and psem
  Blocks,     \* how many blocks the writer has
  MaxTries,   \* MAX_TRIES of svsem_good_init
  MaxKills    \* bound: processes killed

VARIABLES
  kind,    \* "xfr", "good", "bad" or "psem"
  sem,     \* the semaphores: made, val (a value each), otime # 0 (used)
  shm,     \* the segment: whether it was made, and cnt (0: end of file)
  proc,    \* each process: where it is, a counter
  out,     \* the blocks the reader has written
  kills    \* processes killed

vars == <<kind, sem, shm, proc, out, kills>>

WRITE_SEM == 1
READ_SEM == 2
Writer == "writer"
Reader == "reader"
All == IF kind = "xfr" THEN {Writer, Reader} ELSE Procs
At(p, l) == proc[p].pc = l
Go(p, l) == proc' = [proc EXCEPT ![p].pc = l]
Count(p, l) == proc' = [proc EXCEPT ![p].pc = l, ![p].n = @ + 1]

\* semop() that takes or gives one; after EINTR it is called again.
initSemAvailable(val, s) == [val EXCEPT ![s] = 1]
initSemInUse(val, s) == [val EXCEPT ![s] = 0]
ReserveSem(s) == sem.val[s] > 0 /\ sem' = [sem EXCEPT !.val[s] = @ - 1, !.otime = TRUE]
ReleaseSem(s) == sem' = [sem EXCEPT !.val[s] = @ + 1, !.otime = TRUE]

-----------------------------------------------------------------------------
(* svshm_xfr.  What an earlier writer left behind is used as it is.        *)

\* semget(), initSemAvailable(), initSemInUse(), and then shmget().
WriterMakes ==
  /\ kind = "xfr" /\ UNCHANGED <<out, kills>>
  /\ \/ /\ At(Writer, "start") /\ Go(Writer, "shm") /\ UNCHANGED shm
        /\ sem' = [sem EXCEPT !.made = TRUE, !.val = initSemInUse(initSemAvailable(@, WRITE_SEM), READ_SEM)]
     \/ /\ At(Writer, "shm") /\ Go(Writer, "turn") /\ UNCHANGED sem
        /\ shm' = [shm EXCEPT !.made = TRUE]

WriterTurn ==
  /\ kind = "xfr" /\ At(Writer, "turn") /\ ReserveSem(WRITE_SEM)
  /\ shm' = [shm EXCEPT !.cnt = IF proc[Writer].n < Blocks THEN proc[Writer].n + 1 ELSE 0]
  /\ Count(Writer, "filled") /\ UNCHANGED <<out, kills>>

\* The reader gets its turn; whether this was the end is looked at after.
WriterGives ==
  /\ kind = "xfr" /\ At(Writer, "filled") /\ ReleaseSem(READ_SEM)
  /\ Go(Writer, "given") /\ UNCHANGED <<shm, out, kills>>
WriterChecks ==
  /\ kind = "xfr" /\ At(Writer, "given") /\ Go(Writer, IF shm.cnt = 0 THEN "last" ELSE "turn")
  /\ UNCHANGED <<sem, shm, out, kills>>

\* One more turn, then both are removed.
WriterEnds ==
  /\ kind = "xfr" /\ At(Writer, "last") /\ sem.val[WRITE_SEM] > 0 /\ Go(Writer, "done")
  /\ sem' = [sem EXCEPT !.made = FALSE, !.otime = FALSE] /\ shm' = [shm EXCEPT !.made = FALSE]
  /\ UNCHANGED <<out, kills>>

\* Without the semaphores or the segment, or once they are gone, it ends.
ReaderStarts ==
  /\ kind = "xfr" /\ At(Reader, "start")
  /\ Go(Reader, IF sem.made /\ shm.made THEN "turn" ELSE "failed")
  /\ UNCHANGED <<sem, shm, out, kills>>
ReaderFails ==
  /\ kind = "xfr" /\ proc[Reader].pc \in {"turn", "read", "last"} /\ ~sem.made
  /\ Go(Reader, "failed") /\ UNCHANGED <<sem, shm, out, kills>>

ReaderTurn ==
  /\ kind = "xfr" /\ At(Reader, "turn") /\ sem.made /\ ReserveSem(READ_SEM)
  /\ IF shm.cnt = 0 THEN Go(Reader, "last") /\ UNCHANGED out
     ELSE Go(Reader, "read") /\ out' = Append(out, shm.cnt)
  /\ UNCHANGED <<shm, kills>>
ReaderGives ==
  /\ kind = "xfr" /\ proc[Reader].pc \in {"read", "last"} /\ sem.made /\ ReleaseSem(WRITE_SEM)
  /\ Go(Reader, IF At(Reader, "read") THEN "turn" ELSE "done") /\ UNCHANGED <<shm, out, kills>>

-----------------------------------------------------------------------------
(* svsem_good_init and svsem_bad_init.                                     *)

\* semget() with IPC_CREAT | IPC_EXCL.
Get(p) ==
  /\ kind \in {"good", "bad"} /\ At(p, "start") /\ UNCHANGED <<shm, out, kills>>
  /\ IF sem.made THEN Go(p, IF kind = "good" THEN "wait" ELSE "operate") /\ UNCHANGED sem
     ELSE Go(p, "set") /\ sem' = [made |-> TRUE, val |-> <<0, 0>>, otime |-> FALSE]

\* SETVAL, and the semop() that changes nothing but sem_otime.
Set(p) ==
  /\ kind \in {"good", "bad"} /\ UNCHANGED <<shm, out, kills>>
  /\ \/ /\ At(p, "set") /\ sem' = [sem EXCEPT !.val[1] = 0]
        /\ Go(p, IF kind = "good" THEN "touch" ELSE "operate")
     \/ At(p, "touch") /\ sem.val[1] = 0 /\ sem' = [sem EXCEPT !.otime = TRUE] /\ Go(p, "operate")

\* A slip: sem_otime is not waited for.
WaitForNothing(p) ==
  /\ kind = "good" /\ At(p, "wait") /\ Count(p, "operate") /\ UNCHANGED <<sem, shm, out, kills>>

WaitForInitialization(p) ==
  /\ kind = "good" /\ At(p, "wait") /\ UNCHANGED <<sem, shm, out, kills>>
  /\ \/ sem.otime /\ Go(p, "operate")
     \/ ~sem.otime /\ Count(p, IF proc[p].n + 1 = MaxTries THEN "failed" ELSE "wait")

Operate(p) ==
  /\ kind \in {"good", "bad"} /\ At(p, "operate") /\ ReleaseSem(1) /\ Go(p, "done")
  /\ UNCHANGED <<shm, out, kills>>

svsem_good_init(p) == kind = "good" /\ (Get(p) \/ Set(p) \/ WaitForInitialization(p) \/ Operate(p))
svsem_bad_init(p) == kind = "bad" /\ (Get(p) \/ Set(p) \/ Operate(p))

-----------------------------------------------------------------------------
(* psem.  Each process runs one of the programs; n = 1 for one that took.  *)

Psem(p) == kind = "psem" /\ At(p, "start") /\ UNCHANGED <<shm, out, kills>>
PsemWait(p) == Psem(p) /\ ReserveSem(1) /\ Count(p, "done")
PsemTrywait(p) == Psem(p) /\ sem.val[1] = 0 /\ Go(p, "failed") /\ UNCHANGED sem
PsemTimedwait(p) == Psem(p) /\ Go(p, "failed") /\ UNCHANGED sem
PsemPost(p) == Psem(p) /\ ReleaseSem(1) /\ Go(p, "done")

-----------------------------------------------------------------------------
\* A process is killed, and for svshm_xfr both start again.
Kill(p) ==
  /\ ~At(p, "done") /\ ~At(p, "failed") /\ Len(kills) < MaxKills
  /\ kills' = Append(kills, p) /\ UNCHANGED <<sem, shm>>
  /\ IF kind = "xfr" THEN proc' = [q \in All |-> [pc |-> "start", n |-> 0]] /\ out' = <<>>
     ELSE Go(p, "failed") /\ UNCHANGED out

Init ==
  /\ kind \in {"xfr", "good", "bad", "psem"} /\ out = <<>> /\ kills = <<>>
  /\ sem = [made |-> kind = "psem", val |-> <<IF kind = "psem" THEN 1 ELSE 0, 0>>, otime |-> FALSE]
  /\ shm = [made |-> FALSE, cnt |-> 0]
  /\ proc = [p \in All |-> [pc |-> "start", n |-> 0]]

Next ==
  /\ UNCHANGED kind
  /\ \/ WriterMakes \/ WriterTurn \/ WriterGives \/ WriterChecks \/ WriterEnds
     \/ ReaderStarts \/ ReaderFails \/ ReaderTurn \/ ReaderGives
     \/ \E p \in All :
          \/ svsem_good_init(p) \/ svsem_bad_init(p) \/ Kill(p)
          \/ PsemWait(p) \/ PsemTrywait(p) \/ PsemTimedwait(p) \/ PsemPost(p)

-----------------------------------------------------------------------------
\* The reader writes the writer's blocks, each once and in order, and when it
\* has ended well it has written all of them and the writer has only to clean
\* up; the reader never fails once both have begun.  Unless a process was
\* killed: a reader that starts before the next writer has set the
\* semaphores again finds the old ones.
Handover ==
  kind = "xfr" /\ kills = <<>> =>
    /\ IsPrefix(out, [i \in 1..Blocks |-> i])
    /\ At(Reader, "done") => Len(out) = Blocks /\ proc[Writer].pc \in {"given", "last", "done"}
    /\ At(Reader, "failed") => out = <<>>

\* With svsem_good_init no operation comes before the initialization, which
\* would undo it: the value is the number of operations done.  (With
\* svsem_bad_init it may be less.)
NoOperationLost ==
  kind = "good" /\ sem.made => sem.val[1] = Cardinality({p \in Procs : At(p, "done")})

-----------------------------------------------------------------------------
(* What Handover and NoOperationLost rest on.                              *)

Sets == [made : BOOLEAN, val : [1..2 -> Nat], otime : BOOLEAN]
Positions ==
  [pc : {"start", "shm", "turn", "filled", "given", "last", "read", "set", "touch", "wait", "operate", "done", "failed"}, n : Nat]
Segments == [made : BOOLEAN, cnt : Nat]
TypeOK ==
  /\ kind \in {"xfr", "good", "bad", "psem"} /\ sem \in Sets /\ shm \in Segments
  /\ proc \in [All -> Positions] /\ kills \in Seq(Procs \cup {Writer, Reader})

\* The writer has put n blocks, the end of file counted as one, and one of
\* the two, or the semaphore that lets one of them in, has the segment.
WriterFirst ==
  /\ At(Writer, "start") /\ sem.val[1] = 0 /\ sem.val[2] = 0 /\ proc[Writer].n = 0
  /\ proc[Reader].pc \in {"start", "failed"} /\ out = <<>>
WriterToFill ==
  /\ proc[Writer].pc \in {"shm", "turn", "given", "last"} /\ sem.val[1] = 1 /\ sem.val[2] = 0
  /\ \/ proc[Reader].pc \in {"start", "failed"} /\ proc[Writer].n = 0
     \/ At(Reader, "turn") /\ proc[Writer].n <= Blocks
     \/ At(Reader, "done") /\ proc[Writer].n = Blocks + 1
  /\ Len(out) = IF At(Reader, "done") THEN Blocks ELSE proc[Writer].n
WriterFills ==
  /\ At(Writer, "filled") /\ sem.val[1] = 0 /\ sem.val[2] = 0
  /\ proc[Reader].pc \in {"start", "turn", "failed"} /\ Len(out) = proc[Writer].n - 1
ReaderToWrite ==
  /\ proc[Writer].pc \in {"given", "turn", "last"} /\ sem.val[1] = 0 /\ sem.val[2] = 1
  /\ proc[Reader].pc \in {"start", "turn", "failed"} /\ proc[Writer].n > 0 /\ Len(out) = proc[Writer].n - 1
ReaderWrites ==
  /\ proc[Writer].pc \in {"given", "turn", "last"} /\ sem.val[1] = 0 /\ sem.val[2] = 0 /\ proc[Writer].n > 0
  /\ \/ At(Reader, "read") /\ proc[Writer].n <= Blocks /\ Len(out) = proc[Writer].n
     \/ At(Reader, "last") /\ proc[Writer].n = Blocks + 1 /\ Len(out) = Blocks
BothDone == At(Writer, "done") /\ At(Reader, "done") /\ Len(out) = Blocks

XfrInv == kind = "xfr" /\ kills = <<>> =>
  /\ out \in Seq(Nat) /\ \A i \in 1..Len(out) : out[i] = i
  /\ sem.made <=> proc[Writer].pc \notin {"start", "done"}
  /\ shm.made <=> proc[Writer].pc \notin {"start", "shm", "done"}
  /\ proc[Reader].pc \in {"start", "failed"} => out = <<>>
  /\ ~shm.made => proc[Reader].pc \in {"start", "failed", "done"}
  /\ proc[Writer].n > 0 => shm.cnt = IF proc[Writer].n <= Blocks THEN proc[Writer].n ELSE 0
  /\ proc[Writer].n <= Blocks + 1
  /\ proc[Writer].pc \in {"start", "shm"} => proc[Writer].n = 0
  /\ At(Writer, "turn") => proc[Writer].n <= Blocks
  /\ proc[Writer].pc \in {"filled", "given"} => proc[Writer].n > 0
  /\ At(Writer, "last") => proc[Writer].n = Blocks + 1
  /\ WriterFirst \/ WriterToFill \/ WriterFills \/ ReaderToWrite \/ ReaderWrites \/ BothDone

\* One process at most is about to initialize the semaphore, and until it
\* has, which sem_otime tells, nobody operates on it.
GoodInv == kind = "good" =>
  /\ sem.otime => sem.made
  /\ \A p \in Procs :
       /\ proc[p].pc \in {"set", "touch"} => sem.made /\ ~sem.otime
       /\ proc[p].pc \in {"operate", "done"} => sem.otime
       /\ ~sem.made => proc[p].pc \in {"start", "failed"}
  /\ \A p, q \in Procs : proc[p].pc \in {"set", "touch"} /\ proc[q].pc \in {"set", "touch"} => p = q
  /\ NoOperationLost

IInv == TypeOK /\ XfrInv /\ GoodInv
=============================================================================
