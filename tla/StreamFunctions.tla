-------------------------- MODULE StreamFunctions ---------------------------
(***************************************************************************)
(* The functions of tlpi-dist/sockets that loop over system calls which    *)
(* may do less than they are asked for, be interrupted or fail:            *)
(* rdwrn.c, read_line_buf.c, sendfile.c, inet_sockets.c, unix_sockets.c.   *)
(***************************************************************************)
EXTENDS Integers, Sequences, SequencesExt, FiniteSets

CONSTANTS
  Streams,      \* what can be read: sequences of 1, 2, ... and "nl"
  Counts,       \* how much is asked for
  RL_MAX_BUF,   \* the buffer of readLineBuf
  BUF_SIZE,     \* the buffer of sendfile
  Addresses,    \* how many addresses getaddrinfo() finds
  MaxFaults     \* bound: of each kind, interruptions, errors and failing calls

VARIABLES
  kind,    \* the function
  n,       \* what it is asked for
  in,      \* the stream, how far it was read, the file offset
  st,      \* the state of the function: position, buffers
  out,     \* what was delivered: bytes written, lines, the result
  faults   \* of each kind, how many there were

vars == <<kind, n, in, st, out, faults>>

At(l) == st.pc = l
Mine(k, p) == kind \in k /\ p /\ UNCHANGED <<kind, n>>
Left == IF in.pos < Len(in.all) THEN Len(in.all) - in.pos ELSE 0
Bytes(a, b) == SubSeq(in.all, a + 1, b)
Least(a, b) == IF a < b THEN a ELSE b
Fault(f) == faults[f] < MaxFaults /\ faults' = [faults EXCEPT ![f] = @ + 1]
Returns(v) == st' = [st EXCEPT !.pc = "returned"] /\ out' = [out EXCEPT !.result = v]

-----------------------------------------------------------------------------
\* read() in readn(): a part of it, the end, EINTR or an error.
readn == Mine({"readn"},
  /\ At("loop")
  /\ IF st.tot = n THEN Returns(n) /\ UNCHANGED <<in, faults>>
     ELSE \/ Left = 0 /\ Returns(st.tot) /\ UNCHANGED <<in, faults>>
          \/ Fault("eintr") /\ UNCHANGED <<in, st, out>>
          \/ Fault("error") /\ Returns(-1) /\ UNCHANGED in
          \/ \E k \in 1..Least(Left, n - st.tot) :
               /\ in' = [in EXCEPT !.pos = @ + k] /\ UNCHANGED faults
               /\ st' = [st EXCEPT !.tot = @ + k] /\ out' = [out EXCEPT !.bytes = @ \o Bytes(in.pos, in.pos + k)])

writen == Mine({"writen"},
  /\ At("loop") /\ UNCHANGED in
  /\ IF st.tot = n THEN Returns(n) /\ UNCHANGED faults
     ELSE \/ Fault("eintr") /\ UNCHANGED <<st, out>>
          \/ Fault("error") /\ Returns(-1)
          \/ \E k \in 1..(n - st.tot) :
               /\ st' = [st EXCEPT !.tot = @ + k] /\ out' = [out EXCEPT !.bytes = @ \o Bytes(st.tot, st.tot + k)] /\ UNCHANGED faults)

-----------------------------------------------------------------------------
(* readLineBuf, called again and again until it returns 0: st.buf and      *)
(* st.next are the ReadLineBuf, st.line the caller's buffer.               *)

\* read() when the buffer is used up; EINTR is an error here.
FillBuffer == Mine({"line"},
  /\ At("loop") /\ st.next = Len(st.buf)
  /\ \/ \E k \in 1..Least(Left, RL_MAX_BUF) :
          /\ in' = [in EXCEPT !.pos = @ + k] /\ st' = [st EXCEPT !.buf = Bytes(in.pos, in.pos + k), !.next = 0] /\ UNCHANGED <<out, faults>>
     \/ /\ Left = 0 /\ UNCHANGED <<in, faults>>
        /\ st' = [st EXCEPT !.pc = "return", !.buf = <<>>, !.next = 0] /\ UNCHANGED out
     \/ /\ Fault("eintr") /\ UNCHANGED in
        /\ st' = [st EXCEPT !.line = <<>>, !.buf = <<>>, !.next = 0] /\ UNCHANGED out)
\* A slip: a line ends when the caller's buffer is full.
readLineBufFull == Mine({"line"},
  /\ At("loop") /\ st.next < Len(st.buf) /\ UNCHANGED <<in, out, faults>>
  /\ LET c == st.buf[st.next + 1]
     IN st' = [st EXCEPT !.next = @ + 1, !.line = Append(@, c), !.pc = IF c = "nl" \/ Len(st.line) + 1 = n THEN "return" ELSE @])
readLineBuf == Mine({"line"},
  /\ At("loop") /\ st.next < Len(st.buf) /\ UNCHANGED <<in, out, faults>>
  /\ LET c == st.buf[st.next + 1]
     IN st' = [st EXCEPT !.next = @ + 1, !.line = IF Len(@) < n THEN Append(@, c) ELSE @, !.pc = IF c = "nl" THEN "return" ELSE @])
LineReturned == Mine({"line"},
  /\ At("return") /\ UNCHANGED <<in, faults>>
  /\ out' = [out EXCEPT !.lines = IF st.line = <<>> THEN @ ELSE Append(@, st.line)]
  /\ st' = [st EXCEPT !.line = <<>>, !.pc = IF st.line = <<>> THEN "returned" ELSE "loop"])

-----------------------------------------------------------------------------
(* sendfile: in.offset is the *offset given, -1 for NULL, and out.offset   *)
(* what *offset is set to.  lseek() fails on a pipe or a socket, with the  *)
(* same outcome whether it reports the offset or moves it.                 *)

SendfileStarts == Mine({"sendfile"},
  /\ At("start")
  /\ \/ /\ st' = [st EXCEPT !.pc = "loop", !.orig = in.pos] /\ UNCHANGED <<out, faults>>
        /\ in' = IF in.offset = -1 THEN in ELSE [in EXCEPT !.pos = in.offset]
     \/ /\ in.offset # -1 /\ Fault("seek") /\ UNCHANGED in
        /\ st' = [st EXCEPT !.pc = "returned", !.orig = in.pos] /\ out' = [out EXCEPT !.result = -1])
\* One read() and one write() of what was read, of which a part may be
\* written: the rest is not read again.  Each may fail.
SendfileBlock == Mine({"sendfile"},
  /\ At("loop") /\ st.tot < n
  /\ \/ Left = 0 /\ st' = [st EXCEPT !.pc = "restore"] /\ UNCHANGED <<in, out, faults>>
     \/ Fault("error") /\ Returns(-1) /\ UNCHANGED in
     \/ \E k \in 1..Least(Least(BUF_SIZE, n - st.tot), Left) :
          /\ in' = [in EXCEPT !.pos = @ + k]
          /\ \/ st' = [st EXCEPT !.tot = @ + k] /\ out' = [out EXCEPT !.bytes = @ \o Bytes(in.pos, in.pos + k)] /\ UNCHANGED faults
             \/ /\ Fault("partial")
                /\ \E j \in 1..(k - 1) : st' = [st EXCEPT !.tot = @ + j] /\ out' = [out EXCEPT !.bytes = @ \o Bytes(in.pos, in.pos + j)]
             \/ Fault("error") /\ Returns(-1))
\* The *offset is set and the file offset reset, with two calls of lseek().
SendfileEnds == Mine({"sendfile"},
  \/ At("loop") /\ st.tot = n /\ st' = [st EXCEPT !.pc = "restore"] /\ UNCHANGED <<in, out, faults>>
  \/ At("restore") /\ in.offset = -1 /\ Returns(st.tot) /\ UNCHANGED <<in, faults>>
  \/ /\ At("restore") /\ in.offset # -1 /\ st' = [st EXCEPT !.pc = "returned"]
     /\ \/ in' = [in EXCEPT !.pos = st.orig] /\ out' = [out EXCEPT !.result = st.tot, !.offset = in.pos] /\ UNCHANGED faults
        \/ Fault("seek") /\ UNCHANGED in /\ \E o \in {-1, in.pos} : out' = [out EXCEPT !.result = -1, !.offset = o])
sendfile == SendfileStarts \/ SendfileBlock \/ SendfileEnds

-----------------------------------------------------------------------------
(* Making a socket: st.next addresses were tried, st.open are the          *)
(* descriptors that are open, of which each is the number of its address.  *)

Call(name, ok, failed) == (ok /\ UNCHANGED faults) \/ (Fault(name) /\ failed)
Pc(l) == st' = [st EXCEPT !.pc = l] /\ UNCHANGED out
\* The next address, or none left.
MakeSocket == Mine({"connect", "listen", "bind"},
  /\ At("loop") /\ UNCHANGED in
  /\ IF st.next = Addresses THEN Returns(-1) /\ UNCHANGED faults
     ELSE LET s == st.next + 1 IN
          Call("socket", st' = [st EXCEPT !.next = s, !.open = @ \cup {s}, !.pc = IF kind = "listen" THEN "setsockopt" ELSE "call"] /\ UNCHANGED out,
               st' = [st EXCEPT !.next = s] /\ UNCHANGED out))
\* connect() or bind(): the next address is tried when it fails.
ConnectOrBind == Mine({"connect", "listen", "bind"},
  /\ At("call") /\ UNCHANGED in
  /\ Call("address", IF kind = "listen" THEN Pc("listen") ELSE Returns(st.next), st' = [st EXCEPT !.open = @ \ {st.next}, !.pc = "loop"] /\ UNCHANGED out))
\* Nothing is closed when listen() fails.
ReuseAndListen == Mine({"listen"},
  /\ UNCHANGED in
  /\ \/ At("setsockopt") /\ Call("error", Pc("call"), out' = [out EXCEPT !.result = -1] /\ st' = [st EXCEPT !.pc = "returned", !.open = {}])
     \/ At("listen") /\ Call("listen", Returns(st.next), Returns(-1)))
inetConnect == kind = "connect" /\ (MakeSocket \/ ConnectOrBind)
inetPassiveSocket == kind \in {"listen", "bind"} /\ (MakeSocket \/ ConnectOrBind \/ ReuseAndListen)
\* unixConnect and unixBind; a name that is too long ends them first.
unixSocket == Mine({"unix"},
  /\ UNCHANGED in
  /\ \/ At("loop") /\ Call("socket", st' = [st EXCEPT !.pc = "call", !.open = {1}] /\ UNCHANGED out, Returns(-1))
     \/ At("call") /\ Call("address", Returns(1), out' = [out EXCEPT !.result = -1] /\ st' = [st EXCEPT !.pc = "returned", !.open = {}]))

-----------------------------------------------------------------------------
Init ==
  /\ kind \in {"readn", "writen", "line", "sendfile", "connect", "listen", "bind", "unix"}
  /\ \E s \in Streams, o \in {-1, 0, 1, 7} :
       /\ n \in (IF kind = "writen" THEN 0..Len(s) ELSE Counts)
       /\ in = [all |-> s, pos |-> IF kind = "sendfile" THEN 1 ELSE 0, offset |-> IF kind = "sendfile" THEN o ELSE -1]
  /\ st = [pc |-> IF kind = "sendfile" THEN "start" ELSE "loop", tot |-> 0, buf |-> <<>>, next |-> 0, line |-> <<>>, orig |-> 0, open |-> {}]
  /\ out = [bytes |-> <<>>, lines |-> <<>>, result |-> -2, offset |-> in.offset]
  /\ faults = [f \in {"eintr", "error", "partial", "socket", "address", "listen", "seek"} |-> 0]

Next ==
  \/ readn \/ writen \/ FillBuffer \/ readLineBuf \/ LineReturned \/ sendfile
  \/ inetConnect \/ inetPassiveSocket \/ unixSocket

Spec == Init /\ [][Next]_vars

-----------------------------------------------------------------------------
\* The lines that were returned are those up to the line end b, each cut to n
\* characters.
LineEnds == {j \in DOMAIN in.all : in.all[j] = "nl" \/ j = Len(in.all)}
LinesTo(b) == Cardinality({j \in LineEnds : j <= b})
Line(a, e) == a < e /\ \A j \in LineEnds : j <= a \/ j >= e
Cut(a, e) == SubSeq(in.all, a + 1, Least(e, a + n))
LinesAreTo(b) ==
  /\ Len(out.lines) = LinesTo(b)
  /\ \A a \in {0} \cup LineEnds, e \in LineEnds : e <= b /\ Line(a, e) => out.lines[LinesTo(e)] = Cut(a, e)

From == IF in.offset = -1 THEN st.orig ELSE in.offset
\* Where the next read() of sendfile starts, or would have started.
Reached == IF in.offset = -1 THEN in.pos ELSE out.offset

\* Whatever parts the system calls do, and however often they are interrupted,
\* readn and writen deliver the stream in order and return less than was asked
\* for only at its end; readLineBuf returns the lines, each cut to the size of
\* the buffer, unless a read() was interrupted.  What sendfile has sent comes
\* from the offset on with nothing missing in between, unless a write() was
\* partial, and when it returns a number, that many bytes were sent, and it is
\* what was asked for or the file has no more; *offset is then behind the last
\* byte that was read and the file offset is where it was.  When it returns -1
\* neither is reset, whatever the comment at sendfile.c:60-61 says: the file
\* offset is where it was or up to a block behind what was sent.  The functions
\* that make sockets leave open the socket they return and none when they fail,
\* unless it is listen() that failed.
DeliveredInFull ==
  /\ kind \in {"readn", "writen"} => IsPrefix(out.bytes, in.all)
  /\ kind \in {"readn", "writen"} /\ out.result >= 0 =>
       Len(out.bytes) = out.result /\ (out.result = n \/ (kind = "readn" /\ out.result = Len(in.all)))
  /\ kind = "line" /\ faults["eintr"] = 0 => \E b \in {0} \cup LineEnds : LinesAreTo(b) /\ (At("returned") => b = Len(in.all))
  /\ kind = "sendfile" /\ ~At("start") =>
       /\ faults["partial"] = 0 => IsPrefix(out.bytes, SubSeq(in.all, From + 1, Len(in.all)))
       /\ out.result >= 0 =>
            /\ out.result = Len(out.bytes) /\ (out.result = n \/ Reached >= Len(in.all))
            /\ faults["partial"] = 0 => Reached = From + out.result
            /\ in.offset # -1 => in.pos = st.orig
       /\ out.result = -1 /\ faults["partial"] = 0 => in.pos = st.orig \/ in.pos - (From + Len(out.bytes)) \in 0..BUF_SIZE
  /\ At("returned") /\ kind \in {"connect", "listen", "bind", "unix"} =>
       st.open = (IF out.result > 0 THEN {out.result} ELSE {}) \/ faults["listen"] > 0

-----------------------------------------------------------------------------
(* The inductive invariant.                                                *)

Characters == UNION {{s[j] : j \in DOMAIN s} : s \in Streams}
Inputs == [all : Seq(Characters), pos : Nat, offset : Nat \cup {-1}]
States ==
  [pc : {"start", "loop", "return", "restore", "setsockopt", "call", "listen", "returned"},
   tot : Nat, buf : Seq(Characters), next : Nat, line : Seq(Characters), orig : Nat, open : SUBSET Nat]
Outputs == [bytes : Seq(Characters), lines : Seq(Seq(Characters)), result : Int, offset : Int]

TypeOK ==
  /\ kind \in {"readn", "writen", "line", "sendfile", "connect", "listen", "bind", "unix"}
  /\ n \in Nat /\ in \in Inputs /\ st \in States /\ out \in Outputs
  /\ faults \in [{"eintr", "error", "partial", "socket", "address", "listen", "seek"} -> Nat]

\* What was delivered is what comes after the first k of the stream.
Delivered(k) ==
  /\ k + Len(out.bytes) <= Len(in.all)
  /\ \A j \in DOMAIN out.bytes : out.bytes[j] = in.all[k + j]

ReadInv ==
  /\ in.pos = st.tot /\ Len(out.bytes) = st.tot /\ Delivered(0)
  /\ out.result >= 0 => out.result = st.tot /\ (st.tot = n \/ st.tot = Len(in.all))
WriteInv ==
  /\ n <= Len(in.all) /\ st.tot <= n /\ Len(out.bytes) = st.tot /\ Delivered(0)
  /\ out.result >= 0 => out.result = st.tot /\ st.tot = n

\* The line under way starts after b; Taken bytes were taken from the stream.
Taken == in.pos - Len(st.buf) + st.next
LineFrom(b) ==
  /\ b <= Taken /\ LinesAreTo(b) /\ st.line = Cut(b, Taken)
  /\ \A j \in LineEnds : j <= b \/ j >= Taken
  /\ At("loop") => Taken = b \/ in.all[Taken] # "nl"
  /\ At("return") => Taken = Len(in.all) \/ (Taken \in LineEnds /\ b < Taken)
  /\ At("returned") => b = Len(in.all)
LineInv ==
  /\ st.next <= Len(st.buf) /\ Len(st.buf) <= in.pos /\ in.pos <= Len(in.all) /\ n > 0
  /\ \A j \in DOMAIN st.buf : st.buf[j] = in.all[in.pos - Len(st.buf) + j]
  /\ st.pc \in {"loop", "return", "returned"}
  /\ \E b \in {0} \cup LineEnds : LineFrom(b)

\* What was read, a block at most of it not sent, comes from From on.
SendInv ==
  /\ Len(out.bytes) = st.tot /\ st.pc \in {"start", "loop", "restore", "returned"}
  /\ At("start") => st.tot = 0 /\ out.result = -2
  /\ At("loop") \/ At("restore") => out.result = -2 /\ (faults["partial"] = 0 => in.pos = From + st.tot)
  /\ At("restore") => st.tot = n \/ in.pos >= Len(in.all)
  /\ ~At("start") /\ faults["partial"] = 0 /\ st.tot > 0 => Delivered(From)
  /\ At("returned") => out.result \in {-1, st.tot}
  /\ At("returned") /\ out.result # -1 =>
       /\ st.tot = n \/ Reached >= Len(in.all)
       /\ faults["partial"] = 0 => Reached = From + st.tot
       /\ in.offset # -1 => in.pos = st.orig
  /\ At("returned") /\ out.result = -1 /\ faults["partial"] = 0 => in.pos = st.orig \/ in.pos - (From + st.tot) \in 0..BUF_SIZE

SocketInv ==
  /\ At("loop") => st.open = {}
  /\ At("call") \/ At("setsockopt") \/ At("listen") => st.next > 0 /\ st.open = {st.next}
  /\ At("returned") => st.open = (IF out.result > 0 THEN {out.result} ELSE {}) \/ faults["listen"] > 0
UnixInv ==
  /\ At("loop") => st.open = {}
  /\ At("call") => st.open = {1}
  /\ At("returned") => st.open = IF out.result > 0 THEN {out.result} ELSE {}

IInv ==
  /\ TypeOK
  /\ kind = "readn" => ReadInv
  /\ kind = "writen" => WriteInv
  /\ kind = "line" /\ faults["eintr"] = 0 => LineInv
  /\ kind = "sendfile" => SendInv
  /\ kind \in {"connect", "listen", "bind"} => SocketInv
  /\ kind = "unix" => UnixInv
=============================================================================
