------------------------- MODULE PassedDescriptors -------------------------
(***************************************************************************)
(* Descriptors and credentials sent as ancillary data over UNIX domain     *)
(* sockets: the pairs scm_rights_*, scm_cred_* and scm_multi_* of          *)
(* tlpi-dist/sockets, and sendfd() and recvfd() of scm_functions.c.  The   *)
(* sizes of control messages are those of a 64-bit build; what the kernel  *)
(* does with them is modelled from how the programs use it.                *)
(***************************************************************************)
EXTENDS Integers, Sequences, FiniteSets

CONSTANTS
  Lists,     \* lists of files the sender is given
  Sizes,     \* values of scm_multi_recv's option -n, -1 if not given
  MAX_FDS,   \* the most descriptors scm_multi_recv has space for
  Content    \* the content of a file, as a number of BUF_SIZE reads

VARIABLES
  kind,    \* "rights", "cred", "multi" or "functions"
  opt,     \* command line of both: files, dgram, size, data, creds, root
  snd,     \* sender: where it is, its open descriptors
  net,     \* the socket: its state, SO_PASSCRED, the message under way
  rcv      \* receiver: where it is, open descriptors, headers, the files read
           \* to the end, and what it printed: which part of which file

vars == <<kind, opt, snd, net, rcv>>

None == [none |-> TRUE]
Min(a, b) == IF a < b THEN a ELSE b
HDR == 16                             \* sizeof(struct cmsghdr)
INT == 4
UCRED == 12
CMSG_LEN(n) == HDR + n
CMSG_SPACE(n) == HDR + 8 * ((n + 7) \div 8)

-----------------------------------------------------------------------------
(* The senders.                                                            *)

\* One descriptor per file of the command line, in that order.
OpenFile ==
  /\ snd.pc = "open" /\ UNCHANGED <<kind, opt, net, rcv>>
  /\ IF Len(snd.fds) = Len(opt.files) THEN snd' = [snd EXCEPT !.pc = "connect"]
     ELSE \/ snd' = [snd EXCEPT !.fds = Append(@, opt.files[Len(@) + 1])]
          \/ snd' = [snd EXCEPT !.pc = "failed", !.fds = <<>>]

\* unixConnect(): ENOENT or ECONNREFUSED without a bound socket.
Connect ==
  /\ snd.pc = "connect" /\ UNCHANGED <<kind, opt, rcv>>
  /\ IF net.sock \in {"bound", "listening"}
     THEN snd' = [snd EXCEPT !.pc = "send"] /\ net' = [net EXCEPT !.conn = TRUE]
     ELSE snd' = [snd EXCEPT !.pc = "failed", !.fds = <<>>] /\ UNCHANGED net

RightsMessage == [rights |-> snd.fds, creds |-> "none", data |-> TRUE]
CredMessage == [rights |-> <<>>, creds |-> opt.creds, data |-> TRUE]
MultiMessage == [rights |-> snd.fds, creds |-> IF opt.creds = "none" THEN "own" ELSE opt.creds, data |-> opt.data]

\* sendmsg(): EPERM for credentials that are not one's own; a stream takes
\* ancillary data only along with a byte.  Without explicit credentials the
\* kernel adds them if the receiver asks for them or has not accepted yet.
SendMsg(m) ==
  /\ snd.pc = "send" /\ UNCHANGED <<kind, opt, rcv>>
  /\ IF m.creds = "other" /\ ~opt.root
     THEN snd' = [snd EXCEPT !.pc = "failed", !.fds = <<>>] /\ UNCHANGED net
     ELSE /\ snd' = [snd EXCEPT !.pc = "sent"]
          /\ net' = IF ~m.data /\ ~opt.dgram THEN net
                    ELSE [net EXCEPT !.msg = [m EXCEPT !.creds =
                            IF @ # "none" THEN @
                            ELSE IF net.passcred \/ (~opt.dgram /\ rcv.pc \in {"bind", "accept"}) THEN "own" ELSE "nobody"]]
SenderExits ==
  /\ snd.pc = "sent" /\ snd' = [snd EXCEPT !.pc = "done", !.fds = <<>>] /\ UNCHANGED <<kind, opt, net, rcv>>

sendfd == kind = "functions" /\ SendMsg(RightsMessage)
scm_rights_send == kind \in {"rights", "functions"} /\ (OpenFile \/ Connect \/ (kind = "rights" /\ SendMsg(RightsMessage)) \/ SenderExits)
scm_cred_send == kind = "cred" /\ (OpenFile \/ Connect \/ SendMsg(CredMessage) \/ SenderExits)
scm_multi_send == kind = "multi" /\ (OpenFile \/ Connect \/ SendMsg(MultiMessage) \/ SenderExits)

-----------------------------------------------------------------------------
(* The receivers.                                                          *)

Bind ==
  /\ rcv.pc = "bind" /\ UNCHANGED <<kind, opt, snd>>
  /\ net' = [net EXCEPT !.sock = IF opt.dgram THEN "bound" ELSE "listening"]
  /\ rcv' = [rcv EXCEPT !.pc = IF opt.dgram THEN "setsockopt" ELSE "accept"]
Accept ==
  /\ rcv.pc = "accept" /\ net.conn /\ rcv' = [rcv EXCEPT !.pc = "setsockopt"] /\ UNCHANGED <<kind, opt, snd, net>>
SetPasscred ==
  /\ rcv.pc = "setsockopt" /\ rcv' = [rcv EXCEPT !.pc = "recvmsg"]
  /\ net' = [net EXCEPT !.passcred = kind \in {"cred", "multi"}] /\ UNCHANGED <<kind, opt, snd>>

ControlLen ==
  CASE kind \in {"rights", "functions"} -> CMSG_SPACE(INT)
    [] kind = "cred" -> CMSG_SPACE(UCRED)
    [] kind = "multi" -> IF opt.size = -1 THEN CMSG_SPACE(INT * MAX_FDS) + CMSG_SPACE(UCRED) ELSE opt.size

\* What recvmsg() gives of message m: credentials first, then as many
\* descriptors as fit; the others are closed.  A header cut short keeps the
\* length that is left.
CredsHeader(m) ==
  IF ~net.passcred \/ ControlLen < HDR THEN <<>>
  ELSE <<[type |-> "SCM_CREDENTIALS", len |-> Min(ControlLen, CMSG_LEN(UCRED)), is |-> m.creds]>>
Fitting(m) ==
  LET rest == ControlLen - (IF net.passcred THEN Min(ControlLen, CMSG_SPACE(UCRED)) ELSE 0)
  IN IF rest <= HDR THEN 0 ELSE Min((rest - HDR) \div INT, Len(m.rights))
RightsHeader(m) ==
  IF Fitting(m) = 0 THEN <<>>
  ELSE <<[type |-> "SCM_RIGHTS", len |-> CMSG_LEN(INT * Fitting(m)), is |-> SubSeq(m.rights, 1, Fitting(m))]>>
Truncated(m) == Fitting(m) < Len(m.rights) \/ (net.passcred /\ ControlLen < CMSG_LEN(UCRED))

RecvMsg ==
  /\ rcv.pc = "recvmsg" /\ UNCHANGED <<kind, opt, snd>>
  /\ \/ /\ net.msg # None /\ net' = [net EXCEPT !.msg = None]
        /\ LET m == net.msg
           IN rcv' = [rcv EXCEPT !.pc = "headers", !.open = SubSeq(m.rights, 1, Fitting(m)),
                        !.cmsgs = CredsHeader(m) \o RightsHeader(m), !.ctrunc = Truncated(m), !.sent = m.rights]
     \/ /\ net.msg = None /\ ~opt.dgram /\ snd.pc \in {"done", "failed"} /\ UNCHANGED net
        /\ \/ rcv' = [rcv EXCEPT !.pc = "headers"]
           \/ net.passcred /\ rcv' = [rcv EXCEPT !.pc = "headers", !.cmsgs = CredsHeader([creds |-> "nobody"])]

Fatal == rcv' = [rcv EXCEPT !.pc = "failed", !.open = <<>>]

\* A slip: the descriptors are counted in the space the header takes.
FdCntOfSpace(c) == (8 * ((c.len + 7) \div 8) - CMSG_LEN(0)) \div INT

FdCnt(c) == (c.len - CMSG_LEN(0)) \div INT
\* A copy past what was sent gives a number that is no open descriptor.
FdList(c) == [j \in 1..FdCnt(c) |-> IF j <= Len(c.is) THEN c.is[j] ELSE "EBADF"]

\* recvfd(), scm_rights_recv: the first header must be one descriptor.
Only(type, size) == rcv.cmsgs # <<>> /\ rcv.cmsgs[1].type = type /\ rcv.cmsgs[1].len = CMSG_LEN(size)
TakeOne ==
  /\ kind \in {"rights", "functions"} /\ rcv.pc = "headers" /\ UNCHANGED <<kind, opt, snd, net>>
  /\ IF Only("SCM_RIGHTS", INT)
     THEN rcv' = [rcv EXCEPT !.pc = "read", !.list = FdList(rcv.cmsgs[1]), !.cmsgs = <<>>]
     ELSE Fatal
TakeCred ==
  /\ kind = "cred" /\ rcv.pc = "headers" /\ UNCHANGED <<kind, opt, snd, net>>
  /\ IF Only("SCM_CREDENTIALS", UCRED)
     THEN rcv' = [rcv EXCEPT !.pc = "done", !.creds = rcv.cmsgs[1].is, !.open = <<>>]
     ELSE Fatal
\* scm_multi_recv walks through the headers.
NextHeader ==
  /\ kind = "multi" /\ rcv.pc = "headers" /\ UNCHANGED <<kind, opt, snd, net>>
  /\ IF rcv.cmsgs = <<>> THEN rcv' = [rcv EXCEPT !.pc = "done"]
     ELSE LET c == rcv.cmsgs[1]
          IN CASE c.type = "SCM_RIGHTS" -> rcv' = [rcv EXCEPT !.pc = "read", !.list = FdList(c), !.cmsgs = Tail(@)]
               [] c.type = "SCM_CREDENTIALS" /\ c.len = CMSG_LEN(UCRED) ->
                    rcv' = [rcv EXCEPT !.creds = c.is, !.cmsgs = Tail(@)]
               [] OTHER -> Fatal

Part(nr, file, pos) == [nr |-> nr, file |-> file, pos |-> pos]

\* Read each file to its end; scm_multi_recv closes it, the others exit.
ReadFile ==
  /\ rcv.pc = "read" /\ UNCHANGED <<kind, opt, snd, net>>
  /\ IF rcv.list = <<>> THEN rcv' = [rcv EXCEPT !.pc = IF kind = "multi" THEN "headers" ELSE "done", !.open = IF kind = "multi" THEN @ ELSE <<>>]
     ELSE LET f == Head(rcv.list)
          IN IF f = "EBADF" THEN Fatal
             ELSE IF rcv.pos < Content[f] THEN rcv' = [rcv EXCEPT !.pos = @ + 1, !.out = Append(@, Part(rcv.read + 1, f, rcv.pos + 1))]
             ELSE rcv' = [rcv EXCEPT !.pos = 0, !.read = @ + 1, !.list = Tail(@), !.open = IF kind = "multi" THEN Tail(@) ELSE @]

Receive == Bind \/ Accept \/ SetPasscred \/ RecvMsg
recvfd == kind = "functions" /\ (RecvMsg \/ TakeOne)
scm_rights_recv == (kind = "rights" /\ (Receive \/ TakeOne \/ ReadFile)) \/ (kind = "functions" /\ (Bind \/ Accept \/ SetPasscred \/ ReadFile))
scm_cred_recv == kind = "cred" /\ (Receive \/ TakeCred)
scm_multi_recv == kind = "multi" /\ (Receive \/ NextHeader \/ ReadFile)

-----------------------------------------------------------------------------
Init ==
  /\ kind \in {"rights", "cred", "multi", "functions"}
  /\ opt \in [files : Lists \cup {<<>>}, dgram : BOOLEAN, size : Sizes, data : BOOLEAN, creds : {"none", "own", "other"}, root : BOOLEAN]
  /\ kind # "multi" => opt.size = -1 /\ opt.data
  /\ kind \in {"rights", "functions"} => Len(opt.files) = 1 /\ opt.creds = "none" /\ ~opt.root
  /\ kind = "cred" => opt.files = <<>>
  /\ kind = "multi" => opt.files # <<>> /\ opt.creds # "none"
  /\ snd = [pc |-> "open", fds |-> <<>>]
  /\ net = [sock |-> "none", conn |-> FALSE, passcred |-> FALSE, msg |-> None]
  /\ rcv = [pc |-> "bind", open |-> <<>>, cmsgs |-> <<>>, ctrunc |-> FALSE, sent |-> <<>>, list |-> <<>>, read |-> 0, pos |-> 0, out |-> <<>>, creds |-> "none"]

Next ==
  \/ sendfd \/ scm_rights_send \/ scm_cred_send \/ scm_multi_send
  \/ recvfd \/ scm_rights_recv \/ scm_cred_recv \/ scm_multi_recv

Spec == Init /\ [][Next]_vars

-----------------------------------------------------------------------------
\* The parts of the first n files sent, in whatever order, and what was
\* printed in the order of the files and of the parts in each.
Whole(n) == UNION {{Part(i, rcv.sent[i], j) : j \in 1..Content[rcv.sent[i]]} : i \in 1..n}
Before(x, y) == x.nr < y.nr \/ (x.nr = y.nr /\ x.pos < y.pos)
InOrder == \A i, j \in DOMAIN rcv.out : i < j => Before(rcv.out[i], rcv.out[j])

\* A connected sender that ended without a message: it was refused with EPERM,
\* or had no byte for the stream to take the ancillary data along with.
Unsent ==
  /\ ~opt.dgram
  /\ \/ snd.pc = "failed" /\ opt.creds = "other" /\ ~opt.root
     \/ snd.pc = "done" /\ ~opt.data

\* The credentials a receiver took are those the sender gave, which it may
\* use, except for nobody's at the end of file of a stream on which nothing
\* was sent.  Those of a sender that gives none are its own, or nobody's.
CredentialsTrue ==
  /\ rcv.creds = "other" => opt.creds = "other" /\ opt.root
  /\ rcv.creds # "none" /\ opt.creds # "none" => rcv.creds = opt.creds \/ (rcv.creds = "nobody" /\ Unsent)
  /\ kind = "cred" /\ rcv.pc = "done" => rcv.creds # "none"

\* A receiver that ends well has printed the files it was sent, in order and
\* each from its start to its end, all of them unless the kernel told of a
\* truncation, and has no descriptor left; it fails only when there was
\* nothing to receive or the credentials were cut short.  The credentials
\* printed are as CredentialsTrue says.
ReceivesWhatWasSent ==
  /\ rcv.pc = "done" => /\ rcv.open = <<>> /\ InOrder
                        /\ \E n \in 0..Len(rcv.sent) :
                             /\ {rcv.out[i] : i \in DOMAIN rcv.out} = Whole(n)
                             /\ n < Len(rcv.sent) => rcv.ctrunc
  /\ rcv.pc = "failed" => rcv.ctrunc \/ snd.pc \in {"failed", "done"}
  /\ rcv.pc = "failed" /\ rcv.sent # <<>> => rcv.ctrunc
  /\ CredentialsTrue
-----------------------------------------------------------------------------
(* The inductive invariant.                                                *)

Files == DOMAIN Content
Creds == {"none", "own", "other", "nobody"}
Messages == [rights : Seq(Files), creds : Creds, data : BOOLEAN]
Headers == [type : {"SCM_CREDENTIALS"}, len : Int, is : Creds] \cup [type : {"SCM_RIGHTS"}, len : Int, is : Seq(Files)]
Receiving == {"bind", "accept", "setsockopt", "recvmsg"}
SenderEnded == snd.pc \in {"failed", "done"}

Senders == [pc : {"open", "connect", "send", "sent", "done", "failed"}, fds : Seq(Files)]
Sockets == [sock : {"none", "bound", "listening"}, conn : BOOLEAN, passcred : BOOLEAN, msg : Messages \cup {None}]
Parts == [nr : Nat, file : Files, pos : Nat]
Receivers ==
  [pc : Receiving \cup {"headers", "read", "done", "failed"}, open : Seq(Files), cmsgs : Seq(Headers), ctrunc : BOOLEAN,
   sent : Seq(Files), list : Seq(Files), read : Nat, pos : Nat, out : Seq(Parts), creds : Creds]

TypeOK ==
  /\ kind \in {"rights", "cred", "multi", "functions"}
  /\ opt \in [files : Seq(Files), dgram : BOOLEAN, size : Int, data : BOOLEAN, creds : {"none", "own", "other"}, root : BOOLEAN]
  /\ snd \in Senders /\ net \in Sockets /\ rcv \in Receivers

OptInv ==
  /\ kind \in {"rights", "functions"} => Len(opt.files) = 1 /\ opt.creds = "none"
  /\ kind = "cred" => opt.files = <<>>
  /\ kind = "multi" => opt.files # <<>> /\ opt.creds # "none"

\* Credentials c are right for a message that was sent.
RightCreds(c) ==
  /\ c # "none"
  /\ c = "other" => opt.creds = "other" /\ opt.root
  /\ opt.creds # "none" => c = opt.creds

SenderInv ==
  /\ snd.pc = "open" => Len(snd.fds) <= Len(opt.files) /\ \A j \in DOMAIN snd.fds : snd.fds[j] = opt.files[j]
  /\ snd.pc \in {"connect", "send", "sent"} => snd.fds = opt.files
  /\ net.msg # None => net.msg.rights = opt.files /\ RightCreds(net.msg.creds)

\* A stream's receiver past accept() has a sender that connected; one that did
\* has sent its message, unless that was refused or empty.
ConnectedInv ==
  /\ net.conn => \/ snd.pc \in {"send", "sent", "done"}
                 \/ snd.pc = "failed" /\ opt.creds = "other" /\ ~opt.root
  /\ ~opt.dgram /\ rcv.pc \notin {"bind", "accept"} => net.conn
  /\ ~opt.dgram /\ opt.data /\ snd.pc \in {"sent", "done"} /\ rcv.pc \in Receiving => net.msg # None

\* What the receiver has before a message came, and what is true of the
\* credentials it has from then on.
ReceiverInv ==
  /\ rcv.pc \in Receiving =>
       /\ rcv.open = <<>> /\ rcv.cmsgs = <<>> /\ rcv.sent = <<>> /\ rcv.list = <<>> /\ rcv.out = <<>>
       /\ rcv.read = 0 /\ rcv.pos = 0 /\ rcv.creds = "none"
  /\ rcv.pc \in Receiving \ {"recvmsg"} \/ (net.passcred <=> kind \in {"cred", "multi"})
  /\ rcv.sent \in {<<>>, opt.files}
  /\ CredentialsTrue
  /\ rcv.pc = "failed" => rcv.ctrunc \/ (SenderEnded /\ rcv.sent = <<>>)

\* The headers not yet taken: at the end that of the descriptors, if there
\* are any; before it that of the credentials, cut short when the kernel told
\* of it or there was no message.
HeadersInv ==
  rcv.pc = "headers" =>
    /\ \A j \in DOMAIN rcv.cmsgs :
         LET c == rcv.cmsgs[j]
         IN /\ c.type = "SCM_RIGHTS" => j = Len(rcv.cmsgs) /\ c.is = rcv.open /\ c.len = HDR + INT * Len(rcv.open)
            /\ c.type = "SCM_CREDENTIALS" =>
                 /\ RightCreds(c.is) \/ (c.is = "nobody" /\ Unsent)
                 /\ c.len = CMSG_LEN(UCRED) \/ (kind = "multi" /\ (rcv.ctrunc \/ (SenderEnded /\ rcv.sent = <<>>)))
    /\ rcv.open # <<>> => rcv.cmsgs # <<>> /\ rcv.cmsgs[Len(rcv.cmsgs)].type = "SCM_RIGHTS"
    /\ kind \in {"rights", "functions"} =>
         \/ Len(rcv.cmsgs) = 1 /\ rcv.cmsgs[1].type = "SCM_RIGHTS" /\ Len(rcv.open) = 1
         \/ rcv.cmsgs = <<>> /\ rcv.sent = <<>> /\ SenderEnded
    /\ kind = "cred" =>
         \/ rcv.cmsgs # <<>> /\ rcv.cmsgs[1].type = "SCM_CREDENTIALS"
         \/ rcv.cmsgs = <<>> /\ rcv.sent = <<>> /\ SenderEnded /\ ~opt.dgram

\* The descriptors still to be read, l, are those after the first rcv.read
\* that were sent, as far as the kernel passed them on.
ToRead(l) ==
  /\ rcv.read + Len(l) <= Len(rcv.sent)
  /\ rcv.read + Len(l) < Len(rcv.sent) => rcv.ctrunc
  /\ \A j \in DOMAIN l : l[j] = rcv.sent[rcv.read + j]
ReadInv ==
  /\ rcv.pc = "headers" => ToRead(rcv.open)
  /\ rcv.pc = "read" => /\ ToRead(rcv.list) /\ rcv.cmsgs = <<>> /\ kind # "cred"
                        /\ kind = "multi" => rcv.open = rcv.list
  /\ rcv.pc = "done" => ToRead(<<>>) /\ rcv.open = <<>>
  /\ rcv.pos > 0 => rcv.pc = "read" /\ rcv.list # <<>> /\ rcv.pos <= Content[Head(rcv.list)]

\* What was printed: the files read to the end, and the next up to rcv.pos.
Done(i, j) == IF i <= rcv.read THEN j <= Content[rcv.sent[i]] ELSE i = rcv.read + 1 /\ j <= rcv.pos
PrintedInv ==
  /\ rcv.read <= Len(rcv.sent)
  /\ \A k \in DOMAIN rcv.out : LET x == rcv.out[k]
                               IN x.nr \in 1..Len(rcv.sent) /\ x.file = rcv.sent[x.nr] /\ x.pos >= 1 /\ Done(x.nr, x.pos)
  /\ \A i \in 1..Len(rcv.sent) : \A j \in 1..Content[rcv.sent[i]] : Done(i, j) => \E k \in DOMAIN rcv.out : rcv.out[k] = Part(i, rcv.sent[i], j)
  /\ InOrder

IInv == TypeOK /\ OptInv /\ SenderInv /\ ConnectedInv /\ ReceiverInv /\ HeadersInv /\ ReadInv /\ PrintedInv
=============================================================================
