----------------------------- MODULE FileCopies -----------------------------
(***************************************************************************)
(* The programs of tlpi/fileio that copy one stream of bytes to a file:    *)
(*                                                                         *)
(*   copy IN OUT    copy.c : a buffer at a time, OUT opened with O_TRUNC   *)
(*   cp IN OUT      cp.c   : a byte at a time, null bytes skipped with     *)
(*                           lseek() so that OUT gets a hole               *)
(*   tee OUT <IN    tee.c  : a byte at a time, to stdout and to OUT        *)
(*   tee -a OUT <IN        : the same, OUT opened with O_APPEND            *)
(*                                                                         *)
(* One process runs one of them.  A step is one iteration of a loop up to  *)
(* its next system call; an error of any system call ends the program.     *)
(* IN and OUT may name the same file, OUT may exist and be longer than IN, *)
(* IN may be a pipe, and OUT cannot grow beyond Capacity (ENOSPC).         *)
(***************************************************************************)
EXTENDS Integers, Sequences

CONSTANTS
  Inputs,     \* the contents IN may have
  Olds,       \* the contents OUT may have before the run (<< >>: no such file)
  BufSize,    \* BUF_SIZE of copy.c
  Capacity    \* the size up to which OUT can grow (ENOSPC)

ASSUME FileCopiesAssumption ==
  /\ Inputs \subseteq Seq(Nat) /\ Olds \subseteq Seq(Nat)
  /\ BufSize \in Nat \ {0} /\ Capacity \in Nat

VARIABLES
  program,    \* the program
  place,      \* the system call it is about to make
  disk,       \* the contents of the files "in" and "out"
  out,        \* the file that OUT names
  seekable,   \* whether IN is a regular file: lseek() fails on a pipe
  srcOff,     \* the offset of the input's open file description
  dstOff,     \* the offset of OUT's
  buf,        \* the bytes read and not yet written
  inHole,     \* inHole of cp.c
  stdout,     \* what tee wrote to its standard output
  exitStatus, \* "none", then the exit status: "success" or "failure"
  teed,       \* history: the number of bytes tee wrote to OUT
  src0, dst0  \* history: the contents of IN and of OUT at the start

copyVars == <<program, place, disk, out, seekable, srcOff, dstOff, buf, inHole,
              stdout, exitStatus, teed, src0, dst0>>

\* "tee_append" is tee -a.
Progs == {"copy", "cp", "tee", "tee_append"}
Tees == {"tee", "tee_append"}
NUL == 0

-----------------------------------------------------------------------------
(* The file system: a regular file is the sequence of its bytes.           *)

\* write() of the bytes bs at offset off: what is past the end and not
\* written reads as null bytes, what is there and not written stays.
PWrite(s, off, bs) ==
  LET end == off + Len(bs)
  IN  [k \in 1..(IF Len(s) < end THEN end ELSE Len(s)) |->
         IF off < k /\ k <= end THEN bs[k - off]
         ELSE IF k <= Len(s) THEN s[k] ELSE NUL]

\* How many of n bytes can be written to OUT at offset off: what the file has
\* can always be written over, but it grows to Capacity only.
Fit(off, n) ==
  LET end == IF Len(disk[out]) < Capacity THEN Capacity ELSE Len(disk[out])
  IN  IF off + n <= end THEN n ELSE IF off <= end THEN end - off ELSE 0

CopyInit ==
  /\ program \in Progs
  /\ src0 \in Inputs
  /\ out \in {"in", "out"} /\ seekable \in BOOLEAN
  /\ out = "in" => seekable
  /\ dst0 \in IF out = "in" THEN {src0} ELSE Olds
  /\ disk = [f \in {"in", "out"} |-> IF f = "in" THEN src0 ELSE dst0]
  /\ place = "open" /\ exitStatus = "none"
  /\ srcOff = 0 /\ dstOff = 0 /\ teed = 0
  /\ buf = << >> /\ stdout = << >> /\ inHole = FALSE

-----------------------------------------------------------------------------
\* errExit() and fatal(): the program ends with EXIT_FAILURE.
Give_up == place' = "done" /\ exitStatus' = "failure"

\* Any system call may fail, and every failure is fatal.
ErrExit ==
  /\ place # "done"
  /\ Give_up
  /\ UNCHANGED <<program, disk, out, seekable, srcOff, dstOff, buf, inHole, stdout,
                 teed, src0, dst0>>

\* The opening of IN and OUT: copy.c alone passes O_TRUNC.
Open ==
  /\ place = "open"
  /\ disk' = IF program = "copy" THEN [disk EXCEPT ![out] = << >>] ELSE disk
  /\ place' = "read"
  /\ UNCHANGED <<program, out, seekable, srcOff, dstOff, buf, inHole, stdout, exitStatus,
                 teed, src0, dst0>>

\* read(fd, buf, size): the bytes from the offset on, none at the end of the
\* file.  A pipe may return fewer bytes than were asked for.
Read(size) ==
  LET left == Len(disk["in"]) - srcOff
      most == IF left < size THEN left ELSE size
  IN  \E n \in IF seekable \/ most < 1 THEN {most} ELSE 1..most :
        /\ buf' = SubSeq(disk["in"], srcOff + 1, srcOff + n)
        /\ srcOff' = srcOff + n

\* copy.c: the read() of the loop.
CopyRead ==
  /\ program = "copy" /\ place = "read"
  /\ Read(BufSize)
  /\ place' = IF buf' = << >> THEN "close" ELSE "write"
  /\ UNCHANGED <<program, disk, out, seekable, dstOff, inHole, stdout, exitStatus, teed,
                 src0, dst0>>

\* Variant: a partial write is taken for a full one.
CopyWritePartial ==
  /\ program = "copy" /\ place = "write"
  /\ LET n == Fit(dstOff, Len(buf))
     IN  /\ disk' = [disk EXCEPT ![out] = PWrite(@, dstOff, SubSeq(buf, 1, n))]
         /\ dstOff' = dstOff + n
         /\ place' = "read"
  /\ UNCHANGED <<program, out, seekable, srcOff, buf, inHole, stdout, exitStatus, teed,
                 src0, dst0>>

\* copy.c: the write() of the loop; a partial write is fatal.
CopyWrite ==
  /\ program = "copy" /\ place = "write"
  /\ LET n == Fit(dstOff, Len(buf))
     IN  /\ disk' = [disk EXCEPT ![out] = PWrite(@, dstOff, SubSeq(buf, 1, n))]
         /\ dstOff' = dstOff + n
         /\ IF n = Len(buf) THEN place' = "read" /\ UNCHANGED exitStatus ELSE Give_up
  /\ UNCHANGED <<program, out, seekable, srcOff, buf, inHole, stdout, teed, src0, dst0>>

\* Variant: the end of the file is taken for a null byte.
CpReadNoEnd ==
  /\ program = "cp" /\ place = "read"
  /\ Read(1)
  /\ IF buf' = << >> \/ buf' = <<NUL>> THEN inHole' = TRUE /\ UNCHANGED place
     ELSE place' = (IF inHole THEN "seek" ELSE "write") /\ UNCHANGED inHole
  /\ UNCHANGED <<program, disk, out, seekable, dstOff, stdout, exitStatus, teed, src0, dst0>>

\* cp.c: the read() of one byte; a null byte only notes that a hole began.
CpRead ==
  /\ program = "cp" /\ place = "read"
  /\ Read(1)
  /\ \/ /\ buf' = << >>
        /\ place' = "close" /\ UNCHANGED inHole
     \/ /\ buf' = <<NUL>>
        /\ inHole' = TRUE /\ UNCHANGED place
     \/ /\ buf' # << >> /\ buf' # <<NUL>>
        /\ place' = IF inHole THEN "seek" ELSE "write"
        /\ UNCHANGED inHole
  /\ UNCHANGED <<program, disk, out, seekable, dstOff, stdout, exitStatus, teed, src0, dst0>>

\* Variant: the end of a hole is not looked for.
CpSeekForgotten ==
  /\ program = "cp" /\ place = "seek"
  /\ place' = "write" /\ inHole' = FALSE
  /\ UNCHANGED <<program, disk, out, seekable, srcOff, dstOff, buf, stdout, exitStatus,
                 teed, src0, dst0>>

\* cp.c: the end of a hole, OUT's offset is moved to the byte just read.
CpSeek ==
  /\ program = "cp" /\ place = "seek"
  /\ IF ~seekable THEN Give_up /\ UNCHANGED <<dstOff, inHole>>
     ELSE /\ dstOff' = IF srcOff # dstOff THEN srcOff - 1 ELSE dstOff
          /\ inHole' = (srcOff = dstOff)
          /\ place' = "write" /\ UNCHANGED exitStatus
  /\ UNCHANGED <<program, disk, out, seekable, srcOff, buf, stdout, teed, src0, dst0>>

\* cp.c: the write() of one byte.
CpWrite ==
  /\ program = "cp" /\ place = "write"
  /\ IF Fit(dstOff, 1) = 1
     THEN /\ disk' = [disk EXCEPT ![out] = PWrite(@, dstOff, buf)]
          /\ dstOff' = dstOff + 1
          /\ place' = "read" /\ UNCHANGED exitStatus
     ELSE Give_up /\ UNCHANGED <<disk, dstOff>>
  /\ UNCHANGED <<program, out, seekable, srcOff, buf, inHole, stdout, teed, src0, dst0>>

\* tee.c: the read() of one byte.
TeeRead ==
  /\ program \in Tees /\ place = "read"
  /\ Read(1)
  /\ place' = IF buf' = << >> THEN "close" ELSE "stdout"
  /\ UNCHANGED <<program, disk, out, seekable, dstOff, inHole, stdout, exitStatus, teed,
                 src0, dst0>>

\* tee.c: the byte goes to the standard output first.
TeeStdout ==
  /\ program \in Tees /\ place = "stdout"
  /\ stdout' = stdout \o buf
  /\ place' = "write"
  /\ UNCHANGED <<program, disk, out, seekable, srcOff, dstOff, buf, inHole, exitStatus,
                 teed, src0, dst0>>

\* tee.c: then to the file, at its end if it was opened with O_APPEND.
TeeWrite ==
  /\ program \in Tees /\ place = "write"
  /\ LET off == IF program = "tee_append" THEN Len(disk[out]) ELSE dstOff
     IN  IF Fit(off, 1) = 1
         THEN /\ disk' = [disk EXCEPT ![out] = PWrite(@, off, buf)]
              /\ dstOff' = off + 1 /\ teed' = teed + 1
              /\ place' = "read" /\ UNCHANGED exitStatus
         ELSE Give_up /\ UNCHANGED <<disk, dstOff, teed>>
  /\ UNCHANGED <<program, out, seekable, srcOff, buf, inHole, stdout, src0, dst0>>

\* The files are closed and the program succeeds.
Close ==
  /\ place = "close"
  /\ place' = "done" /\ exitStatus' = "success"
  /\ UNCHANGED <<program, disk, out, seekable, srcOff, dstOff, buf, inHole, stdout,
                 teed, src0, dst0>>

Step ==
  \/ Open \/ Close
  \/ CopyRead \/ CopyWrite
  \/ CpRead \/ CpSeek \/ CpWrite
  \/ TeeRead \/ TeeStdout \/ TeeWrite

CopyEnded == place = "done" /\ UNCHANGED copyVars

CopyNext == Step \/ ErrExit \/ CopyEnded

\* The process runs on until it exits; nothing makes its system calls fail.
CopySpec == CopyInit /\ [][CopyNext]_copyVars /\ WF_copyVars(Step)

-----------------------------------------------------------------------------
(* Properties.                                                             *)

\* Every variable stays in its range; the buffer is never overfilled.
CopyTypeOK ==
  /\ program \in Progs /\ out \in {"in", "out"} /\ seekable \in BOOLEAN
  /\ place \in {"open", "read", "seek", "stdout", "write", "close", "done"}
  /\ disk \in [{"in", "out"} -> Seq(Nat)]
  /\ srcOff \in Nat /\ dstOff \in Nat /\ teed \in Nat
  /\ buf \in Seq(Nat) /\ Len(buf) <= BufSize
  /\ stdout \in Seq(Nat) /\ inHole \in BOOLEAN
  /\ exitStatus \in {"none", "success", "failure"}
  /\ src0 \in Seq(Nat) /\ dst0 \in Seq(Nat)

\* Copying never harms its input, not even when OUT is IN: cp and tee write
\* each byte back to where they read it.  The exceptions are copy, whose
\* O_TRUNC (copy.c:42) empties the file before the first read(), and tee -a.
SourceKept ==
  disk["in"] # src0 => out = "in" /\ program \in {"copy", "tee_append"}

\* copy.c, at every moment and however it ends: OUT is as it was or a prefix
\* of IN, and after a success it is all of IN (nothing, if OUT is IN).
CopyIsPrefix ==
  program = "copy" =>
    /\ disk[out] = dst0 \/ disk[out] = SubSeq(src0, 1, dstOff)
    /\ exitStatus = "success" => disk[out] = IF out = "in" THEN << >> ELSE src0

\* cp.c, after a success: every byte of IN that is not null is at its place in
\* OUT; elsewhere OUT has what it had before and, past its old end, holes;
\* and OUT ends where it ended before or with the last byte that is not null.
CpKeepsPlaces ==
  (program = "cp" /\ exitStatus = "success") =>
    LET data == {k \in 1..Len(src0) : src0[k] # NUL}
        new  == disk[out]
    IN  /\ \A k \in data : k <= Len(new) /\ new[k] = src0[k]
        /\ \A k \in (1..Len(new)) \ data :
             new[k] = IF k <= Len(dst0) THEN dst0[k] ELSE NUL
        /\ Len(dst0) <= Len(new)
        /\ Len(new) = Len(dst0) \/ Len(new) \in data

\* tee.c, at every moment and however it ends: the standard output is a prefix
\* of the input, the file has the same bytes except perhaps the last one, over
\* the bytes it had (behind them with -a), and after a success it lacks none.
TeeInStep ==
  program \in Tees =>
    LET bytes == SubSeq(stdout, 1, teed)
    IN  /\ stdout = SubSeq(disk["in"], 1, Len(stdout))
        /\ teed \in {Len(stdout) - 1, Len(stdout)}
        /\ disk[out] = IF program = "tee_append" THEN dst0 \o bytes
                       ELSE PWrite(dst0, 0, bytes)
        /\ exitStatus = "success" => teed = Len(stdout) /\ stdout = disk["in"]

\* "tee -a f <f" reads what it has just appended: it ends only by failing,
\* at the latest when the disk is full.
SelfAppendNeverSucceeds ==
  (program = "tee_append" /\ out = "in" /\ src0 # << >>) => exitStatus # "success"

\* However a program ends and whenever it is looked at: copy.c's OUT is as it
\* was or a prefix of IN; cp.c has put every byte that is not null in its
\* place and changed no other; tee.c's file has what went to the standard
\* output, but perhaps the last byte, and a file appended to itself is never
\* copied with success.
CopiedInStep == CopyTypeOK /\ CopyIsPrefix /\ CpKeepsPlaces /\ TeeInStep /\ SelfAppendNeverSucceeds

\* Every run ends: no loop waits for an end of file that never comes, once
\* the disk bounds "tee -a f <f".
Terminates == <>(place = "done")

-----------------------------------------------------------------------------
(* What the comments of the programs say, and the code does not do.        *)

\* tee.c:6, "By default, tee overwrites any existing file": what is left in
\* the file is what went to the standard output.
TeeOverwrites ==
  (program = "tee" /\ exitStatus = "success") => disk[out] = stdout

=============================================================================
