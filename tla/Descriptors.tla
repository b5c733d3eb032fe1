---------------------------- MODULE Descriptors -----------------------------
(***************************************************************************)
(* Duplicating file descriptors with fcntl(): my_dup() and my_dup2() of    *)
(* tlpi/fileio/dup.c, that program's main(), and verify_dup.c.             *)
(*                                                                         *)
(* The kernel keeps, for the process, a table from descriptors to open     *)
(* file descriptions, and for every description an offset and the status   *)
(* flag O_APPEND.  The process inherits an arbitrary part of its table     *)
(* from the program that started it, and runs one of                       *)
(*                                                                         *)
(*   "dup"         main() of dup.c                                         *)
(*   "verify_dup"  main() of verify_dup.c                                  *)
(*   "caller"      any code that opens and closes files and calls my_dup() *)
(*                 and my_dup2() with any arguments                        *)
(*                                                                         *)
(* Names that SharedFile has too begin with Dup here: FileioProofs is      *)
(* about both modules.                                                     *)
(***************************************************************************)
EXTENDS Integers

CONSTANTS
  MaxFd,     \* no limit on descriptors is above this
  Limits,    \* the values RLIMIT_NOFILE may have
  Target,    \* the descriptor main() of dup.c asks for, 10 in the source
  TextLen,   \* the length of the text both programs write
  TfileSizes   \* the sizes tfile may have before the run

ASSUME DescriptorsAssumption ==
  /\ MaxFd \in Nat /\ Limits \subseteq 1..MaxFd
  /\ Target \in 0..(MaxFd - 1)
  /\ TextLen \in Nat \ {0} /\ TfileSizes \subseteq Nat

VARIABLES
  prog,      \* the program the process runs
  limit,     \* RLIMIT_NOFILE
  table,     \* the descriptor table
  ofd,       \* the open file descriptions of tfile
  size,      \* the size of tfile
  nextCall,  \* the call the program is about to make
  fd, newfd, \* the variables of main()
  old, new,  \* the parameters of my_dup() and my_dup2()
  ret,       \* their result
  offset,    \* verify_dup.c: what the first lseek() returned
  differs,   \* verify_dup.c: whether it has printed a difference
  exit,      \* "none", then the exit status
  table0, size0,  \* history: table and size at the start
  entry      \* history: the table at the last call of my_dup() or my_dup2()

dupVars == <<prog, limit, table, ofd, size, nextCall, fd, newfd, old, new, ret,
             offset, differs, exit, table0, size0, entry>>

Fds == 0..(MaxFd - 1)
Args == 0..MaxFd           \* descriptors to pass; MaxFd is never a valid one
NONE == -1                 \* no descriptor, no description, and the result -1
INHERITED == 0             \* the description of whatever was inherited
Ofds == {1, 2}             \* descriptions of tfile
Unused == [off |-> 0, app |-> FALSE]
Tables == [Fds -> {NONE, INHERITED} \union Ofds]

locals == <<prog, limit, offset, differs, table0, size0>>

-----------------------------------------------------------------------------
(* The kernel.                                                             *)

IsOpen(f) == f \in Fds /\ table[f] # NONE

\* The descriptors a call may return whose result has to be at least min, and
\* the one it does return.
Free(min) == {f \in Fds : min <= f /\ f < limit /\ table[f] = NONE}

IsLowest(f, S) == f \in S /\ \A g \in S : f <= g

\* close(f): a description nothing refers to is freed.
CloseFd(f) ==
  /\ table' = [table EXCEPT ![f] = NONE]
  /\ ofd' = [o \in Ofds |-> IF \E g \in Fds : g # f /\ table[g] = o
                            THEN ofd[o] ELSE Unused]

\* fcntl(f, F_DUPFD, min), the result going to ret: the lowest free descriptor
\* from min on; EBADF, EINVAL and EMFILE are all -1.
Fcntl_DUPFD(f, min) ==
  IF IsOpen(f) /\ Free(min) # {}
  THEN \E g \in Fds :
         /\ IsLowest(g, Free(min))
         /\ ret' = g /\ table' = [table EXCEPT ![g] = table[f]]
  ELSE ret' = NONE /\ UNCHANGED table

\* open("tfile", ...): a new description at the lowest free descriptor f.
OpenTfile(f, app) ==
  /\ IsLowest(f, Free(0))
  /\ \E o \in Ofds :
       /\ \A g \in Fds : table[g] # o
       /\ table' = [table EXCEPT ![f] = o]
       /\ ofd' = [ofd EXCEPT ![o] = [off |-> 0, app |-> app]]

\* write() of n bytes through f: at the end of the file under O_APPEND.
WriteFd(f, n) ==
  LET o   == table[f]
      end == (IF ofd[o].app THEN size ELSE ofd[o].off) + n
  IN  /\ ofd' = [ofd EXCEPT ![o].off = end]
      /\ size' = IF size < end THEN end ELSE size

DupInit ==
  /\ prog \in {"dup", "verify_dup", "caller"} /\ limit \in Limits
  /\ table0 \in [Fds -> {NONE, INHERITED}]
  /\ \A f \in Fds : table0[f] # NONE => f < limit
  /\ table = table0 /\ entry = table0
  /\ size0 \in TfileSizes /\ size = size0
  /\ ofd = [o \in Ofds |-> Unused]
  /\ nextCall = IF prog = "caller" THEN "call" ELSE "open"
  /\ fd = NONE /\ newfd = NONE /\ old = NONE /\ new = NONE /\ ret = NONE
  /\ offset = 0 /\ differs = FALSE /\ exit = "none"

-----------------------------------------------------------------------------
(* my_dup() and my_dup2(): entered with old, new and entry set, they leave  *)
(* their result in ret and return with nextCall = "return".                *)

Enter(f, g, place) ==
  /\ old' = f /\ new' = g /\ ret' = NONE /\ entry' = table
  /\ nextCall' = place

\* my_dup(oldfd): the minimum that is passed is oldfd.
MyDup ==
  /\ nextCall = "my_dup"
  /\ Fcntl_DUPFD(old, old)
  /\ nextCall' = "return"
  /\ UNCHANGED <<locals, ofd, size, fd, newfd, old, new, exit, entry>>

\* my_dup2(oldfd, newfd), equal arguments: nothing is done to the table.
MyDup2Same ==
  /\ nextCall = "my_dup2" /\ old = new
  /\ ret' = IF IsOpen(old) THEN new ELSE NONE
  /\ nextCall' = "return"
  /\ UNCHANGED <<locals, table, ofd, size, fd, newfd, old, new, exit, entry>>

\* Variant: newfd is not closed.
MyDup2NoClose ==
  /\ nextCall = "my_dup2" /\ old # new
  /\ nextCall' = "fcntl"
  /\ UNCHANGED <<locals, table, ofd, size, fd, newfd, old, new, ret, exit, entry>>

\* my_dup2(): newfd is closed if it is open, before oldfd is looked at.
MyDup2Close ==
  /\ nextCall = "my_dup2" /\ old # new
  /\ IF IsOpen(new) THEN CloseFd(new) ELSE UNCHANGED <<table, ofd>>
  /\ nextCall' = "fcntl"
  /\ UNCHANGED <<locals, size, fd, newfd, old, new, ret, exit, entry>>

\* my_dup2(): the lowest free descriptor from newfd on.
MyDup2Fcntl ==
  /\ nextCall = "fcntl"
  /\ Fcntl_DUPFD(old, new)
  /\ nextCall' = "return"
  /\ UNCHANGED <<locals, ofd, size, fd, newfd, old, new, exit, entry>>

-----------------------------------------------------------------------------
(* The callers.                                                            *)

Stop(status) == nextCall' = "done" /\ exit' = status

\* Variant: dup.c opens tfile without O_APPEND.
MainOpenNoAppend ==
  /\ nextCall = "open"
  /\ \E f \in Fds : OpenTfile(f, FALSE) /\ fd' = f
  /\ nextCall' = "duplicate"
  /\ UNCHANGED <<locals, size, newfd, old, new, ret, exit, entry>>

\* open() of main(): dup.c appends, verify_dup.c does not; it may fail.
MainOpen ==
  /\ nextCall = "open"
  /\ \/ /\ \E f \in Fds : OpenTfile(f, prog = "dup") /\ fd' = f
        /\ nextCall' = "duplicate" /\ UNCHANGED exit
     \/ Stop("failure") /\ UNCHANGED <<table, ofd, fd>>
  /\ UNCHANGED <<locals, size, newfd, old, new, ret, entry>>

\* main() of dup.c calls my_dup2(fd, 10).
DupCall ==
  /\ prog = "dup" /\ nextCall = "duplicate"
  /\ Enter(fd, Target, "my_dup2")
  /\ UNCHANGED <<locals, table, ofd, size, fd, newfd, exit>>

DupReturn ==
  /\ prog = "dup" /\ nextCall = "return"
  /\ IF ret = NONE THEN Stop("failure") /\ UNCHANGED newfd
     ELSE newfd' = ret /\ nextCall' = "write" /\ UNCHANGED exit
  /\ UNCHANGED <<locals, table, ofd, size, fd, old, new, ret, entry>>

\* dup.c writes through the duplicate; a short write is not noticed.
DupWrite ==
  /\ prog = "dup" /\ nextCall = "write"
  /\ \/ /\ \E n \in 1..TextLen : WriteFd(newfd, n)
        /\ nextCall' = "close fd" /\ UNCHANGED exit
     \/ Stop("failure") /\ UNCHANGED <<ofd, size>>
  /\ UNCHANGED <<locals, table, fd, newfd, old, new, ret, entry>>

\* verify_dup.c calls dup(fd): the lowest free descriptor of all.
VerifyDup ==
  /\ prog = "verify_dup" /\ nextCall = "duplicate"
  /\ Fcntl_DUPFD(fd, 0)
  /\ newfd' = ret'
  /\ IF ret' = NONE THEN Stop("failure") ELSE nextCall' = "write" /\ UNCHANGED exit
  /\ UNCHANGED <<locals, ofd, size, fd, old, new, entry>>

\* verify_dup.c writes through the original; -1 and a short write are errors.
VerifyWrite ==
  /\ prog = "verify_dup" /\ nextCall = "write"
  /\ \/ WriteFd(fd, TextLen) /\ nextCall' = "lseek" /\ UNCHANGED exit
     \/ (\E n \in 0..(TextLen - 1) : WriteFd(fd, n)) /\ Stop("failure")
  /\ UNCHANGED <<locals, table, fd, newfd, old, new, ret, entry>>

\* verify_dup.c reads the offset through each descriptor and compares them,
\* then compares the flags of fd with the flags of fd.
VerifyLseek ==
  /\ prog = "verify_dup" /\ nextCall = "lseek"
  /\ offset' = ofd[table[fd]].off
  /\ differs' = (\/ offset' # ofd[table[newfd]].off
                 \/ ofd[table[fd]].app # ofd[table[fd]].app)
  /\ nextCall' = "close fd"
  /\ UNCHANGED <<prog, limit, table0, size0, table, ofd, size, fd, newfd, old, new,
                 ret, exit, entry>>

\* Variant: newfd is closed in the place of fd.
CloseOldClosesNew ==
  /\ nextCall = "close fd"
  /\ CloseFd(newfd) /\ nextCall' = "close newfd"
  /\ UNCHANGED <<locals, size, fd, newfd, old, new, ret, exit, entry>>

\* close(fd) of main(): an error (EBADF, EIO) is fatal.
CloseOld ==
  /\ nextCall = "close fd"
  /\ \/ IsOpen(fd) /\ CloseFd(fd) /\ nextCall' = "close newfd" /\ UNCHANGED exit
     \/ Stop("failure") /\ UNCHANGED <<table, ofd>>
  /\ UNCHANGED <<locals, size, fd, newfd, old, new, ret, entry>>

\* close(newfd), which dup.c leaves out when it is fd.
CloseNew ==
  /\ nextCall = "close newfd"
  /\ LET skip == prog = "dup" /\ fd = newfd
     IN  \/ skip /\ Stop("success") /\ UNCHANGED <<table, ofd>>
         \/ ~skip /\ IsOpen(newfd) /\ CloseFd(newfd) /\ Stop("success")
         \/ ~skip /\ Stop("failure") /\ UNCHANGED <<table, ofd>>
  /\ UNCHANGED <<locals, size, fd, newfd, old, new, ret, entry>>

\* Any other code: opens, closes, and calls of the two functions.
Call ==
  /\ prog = "caller" /\ nextCall = "call"
  /\ \/ /\ \E f \in Fds, app \in BOOLEAN : OpenTfile(f, app)
        /\ UNCHANGED <<old, new, ret, entry, nextCall>>
     \/ /\ \E f \in Fds : IsOpen(f) /\ CloseFd(f)
        /\ UNCHANGED <<old, new, ret, entry, nextCall>>
     \/ /\ \E f \in Args : Enter(f, NONE, "my_dup")
        /\ UNCHANGED <<table, ofd>>
     \/ /\ \E f, g \in Args : Enter(f, g, "my_dup2")
        /\ UNCHANGED <<table, ofd>>
  /\ UNCHANGED <<locals, size, fd, newfd, exit>>

CallReturn ==
  /\ prog = "caller" /\ nextCall = "return"
  /\ nextCall' = "call" /\ ret' = NONE /\ old' = NONE /\ new' = NONE /\ entry' = table0
  /\ UNCHANGED <<locals, table, ofd, size, fd, newfd, exit>>

Ended == nextCall = "done" /\ UNCHANGED dupVars

DupNext ==
  \/ MyDup \/ MyDup2Same \/ MyDup2Close \/ MyDup2Fcntl
  \/ MainOpen \/ CloseOld \/ CloseNew
  \/ DupCall \/ DupReturn \/ DupWrite
  \/ VerifyDup \/ VerifyWrite \/ VerifyLseek
  \/ Call \/ CallReturn
  \/ Ended

DupSpec == DupInit /\ [][DupNext]_dupVars

-----------------------------------------------------------------------------
(* Properties.                                                             *)

\* Every variable stays in its range, and a main() past its duplication has a
\* valid newfd.
DupTypeOK ==
  /\ prog \in {"dup", "verify_dup", "caller"} /\ limit \in Limits
  /\ nextCall \in {"open", "duplicate", "my_dup", "my_dup2", "fcntl", "return", "write",
                   "lseek", "close fd", "close newfd", "call", "done"}
  /\ table \in Tables /\ table0 \in Tables /\ entry \in Tables
  /\ ofd \in [Ofds -> [off : Nat, app : BOOLEAN]] /\ size \in Nat /\ size0 \in Nat
  /\ fd \in Fds \union {NONE} /\ newfd \in Fds \union {NONE} /\ ret \in Fds \union {NONE}
  /\ old \in Args \union {NONE} /\ new \in Args \union {NONE}
  /\ offset \in Nat /\ differs \in BOOLEAN
  /\ exit \in {"none", "success", "failure"}
  /\ nextCall \in {"write", "lseek", "close fd", "close newfd"} => newfd \in Fds

\* my_dup2() does what dup2() promises whenever oldfd is open and newfd is below
\* the limit: newfd, whatever it was, becomes a duplicate of oldfd, and no
\* other descriptor is touched.  Otherwise it fails, having closed newfd
\* unless the two are equal (dup.c:78-81 come before oldfd is checked).
Dup2Contract ==
  (nextCall = "return" /\ new # NONE) =>
    LET valid == old \in Fds /\ entry[old] # NONE /\ new < limit
    IN  /\ ret = IF valid THEN new ELSE NONE
        /\ \A f \in Fds :
             table[f] = IF f # new \/ old = new THEN entry[f]
                        ELSE IF valid THEN entry[old] ELSE NONE

\* A successful run closes what it opened and nothing else, wherever the
\* inherited table made open() and dup() put it; dup.c also closes the
\* descriptor 10 it inherited.
LeavesNothingOpen ==
  exit = "success" =>
    table = IF prog = "dup" THEN [table0 EXCEPT ![Target] = NONE] ELSE table0

\* Neither program closes a descriptor twice, also not when open() already
\* returned the descriptor that my_dup2() is asked for (dup.c:53).
ClosesOnce ==
  /\ nextCall = "close fd" => IsOpen(fd)
  /\ nextCall = "close newfd" => IsOpen(newfd) \/ (prog = "dup" /\ fd = newfd)

\* The duplicate has the O_APPEND of the original: what dup.c writes through
\* newfd goes behind the old contents of tfile, for every old size.
AppendsThroughDuplicate ==
  (prog = "dup" /\ nextCall \in {"close fd", "close newfd"}) =>
    \A o \in Ofds : (table[fd] = o \/ table[newfd] = o) =>
      ofd[o].off = size /\ size > size0

\* verify_dup.c never prints that offset or flags differ, and the offset it
\* prints is the length of what it wrote.
VerifiesDuplicates ==
  /\ ~differs
  /\ exit = "success" /\ prog = "verify_dup" => offset = TextLen

\* A successful run closes what it opened and nothing else, wherever the
\* inherited table made open() and dup() put it; what dup.c writes through the
\* duplicate goes behind the old contents; and verify_dup.c never finds offset
\* or flags of duplicates to differ.
DuplicatesUsed == DupTypeOK /\ LeavesNothingOpen /\ AppendsThroughDuplicate /\ VerifiesDuplicates

-----------------------------------------------------------------------------
(* What a comment says, and the code does not do.                          *)

\* dup.c:4-5, "The new descriptor is guaranteed to be the lowest unused file
\* descriptor."
DupIsLowest ==
  (nextCall = "return" /\ new = NONE /\ ret # NONE) =>
    \A f \in Fds : entry[f] = NONE => ret <= f
=============================================================================
