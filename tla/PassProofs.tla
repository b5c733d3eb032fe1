----------------------------- MODULE PassProofs -----------------------------
(***************************************************************************)
(* Proofs about the systems of PassSystems, each for every value of its    *)
(* constants.  The inductive invariant of a system is defined in the       *)
(* module of that system.                                                  *)
(***************************************************************************)
EXTENDS PassSystems, SequenceTheorems, FiniteSetTheorems, TLAPS

-----------------------------------------------------------------------------
(* PassedDescriptors.                                                      *)

LEMMA PasInit == Passed!Init => Passed!IInv
<1> SUFFICES ASSUME Passed!Init PROVE Passed!IInv
  OBVIOUS
<1>1. /\ v1 \in {"rights", "cred", "multi", "functions"}
      /\ v2 \in [files : PasLists \cup {<<>>}, dgram : BOOLEAN, size : PasSizes, data : BOOLEAN, creds : {"none", "own", "other"}, root : BOOLEAN]
      /\ v3 = [pc |-> "open", fds |-> <<>>]
      /\ v4 = [sock |-> "none", conn |-> FALSE, passcred |-> FALSE, msg |-> Passed!None]
      /\ v5 = [pc |-> "bind", open |-> <<>>, cmsgs |-> <<>>, ctrunc |-> FALSE, sent |-> <<>>, list |-> <<>>,
               read |-> 0, pos |-> 0, out |-> <<>>, creds |-> "none"]
  BY DEF Passed!Init
<1>2. v2.files \in Seq(Passed!Files) /\ v2.size \in Int
  <2>1. v2.files \in PasLists \cup {<<>>} /\ v2.size \in PasSizes
    BY <1>1
  <2>2. <<>> \in Seq(Passed!Files) /\ PasLists \subseteq Seq(Passed!Files)
    BY PasBounds DEF Passed!Files
  <2>3. \A x \in Nat \cup {-1} : x \in Int
    OBVIOUS
  <2>4. v2.files \in Seq(Passed!Files)
    BY <2>1, <2>2
  <2>5. v2.size \in Nat \cup {-1}
    BY <2>1, PasBounds
  <2> QED
    BY <2>3, <2>4, <2>5
<1>3. Passed!TypeOK
  BY <1>1, <1>2 DEF Passed!TypeOK, Passed!Receiving, Passed!Creds, Passed!Senders, Passed!Sockets, Passed!Receivers
<1>4. Passed!OptInv
  BY <1>1 DEF Passed!Init, Passed!OptInv
<1>5. Passed!SenderInv
  <2>1. Len(v3.fds) = 0 /\ DOMAIN v3.fds = {} /\ v3.pc = "open" /\ v4.msg = Passed!None /\ Len(v2.files) \in Nat
    BY <1>1, <1>2
  <2> QED
    BY <2>1 DEF Passed!SenderInv
<1>6. Passed!ReceiverInv /\ Passed!ConnectedInv
  BY <1>1 DEF Passed!ReceiverInv, Passed!ConnectedInv, Passed!CredentialsTrue, Passed!Receiving
<1>7. Passed!HeadersInv /\ Passed!ReadInv
  BY <1>1 DEF Passed!HeadersInv, Passed!ReadInv
<1>8. Passed!PrintedInv
  <2>1. Len(v5.sent) = 0 /\ DOMAIN v5.out = {} /\ v5.read = 0
    BY <1>1
  <2> QED
    BY <2>1 DEF Passed!PrintedInv, Passed!InOrder
<1> QED
  BY <1>3, <1>4, <1>5, <1>6, <1>7, <1>8 DEF Passed!IInv

\* A step of the sender.
LEMMA PasSender ==
  ASSUME Passed!IInv, v1' = v1, v2' = v2, v5' = v5, Passed!TypeOK', Passed!SenderInv',
         v4'.passcred = v4.passcred, Passed!SenderEnded => Passed!SenderEnded', Passed!ConnectedInv',
         Passed!Unsent => Passed!Unsent'
  PROVE  Passed!IInv'
<1>a. Passed!CredentialsTrue => Passed!CredentialsTrue'
  BY DEF Passed!CredentialsTrue
<1>1. Passed!OptInv' /\ Passed!ReceiverInv'
  BY <1>a DEF Passed!IInv, Passed!OptInv, Passed!ReceiverInv
<1>2. Passed!ReadInv' /\ Passed!PrintedInv'
  BY DEF Passed!IInv, Passed!ReadInv, Passed!PrintedInv, Passed!ToRead, Passed!Done, Passed!InOrder, Passed!Part, Passed!Before
<1>3. Passed!HeadersInv'
  <2>1. \A c : Passed!RightCreds(c)' <=> Passed!RightCreds(c)
    BY DEF Passed!RightCreds
  <2> QED
    BY <2>1 DEF Passed!IInv, Passed!HeadersInv
<1> QED
  BY <1>1, <1>2, <1>3 DEF Passed!IInv

\* What a sender can be.
LEMMA PasPcs ==
  ASSUME Passed!TypeOK
  PROVE  /\ v3 \in [pc : {"open", "connect", "send", "sent", "done", "failed"}, fds : Seq(Passed!Files)]
         /\ <<>> \in Seq(Passed!Files)
BY DEF Passed!TypeOK, Passed!Senders

LEMMA PasFrame == \A c : v1' = v1 /\ v2' = v2 => (Passed!RightCreds(c)' <=> Passed!RightCreds(c))
BY DEF Passed!RightCreds

LEMMA PasOpenFile == Passed!IInv /\ Passed!OpenFile => Passed!IInv'
<1> SUFFICES ASSUME Passed!IInv, Passed!OpenFile PROVE Passed!IInv'
  OBVIOUS
<1>1. v3.pc = "open" /\ v1' = v1 /\ v2' = v2 /\ v4' = v4 /\ v5' = v5
  BY DEF Passed!OpenFile
<1>2. Passed!TypeOK /\ Passed!SenderInv
  BY DEF Passed!IInv
<1>3. v3 \in Passed!Senders /\ v2.files \in Seq(Passed!Files)
  BY <1>2 DEF Passed!TypeOK
<1>c. Passed!ConnectedInv
  BY DEF Passed!IInv
<1>4. Len(v3.fds) <= Len(v2.files) /\ \A j \in DOMAIN v3.fds : v3.fds[j] = v2.files[j]
  BY <1>1, <1>2 DEF Passed!SenderInv
<1>5. v4.msg # Passed!None => v4.msg.rights = v2.files /\ Passed!RightCreds(v4.msg.creds)
  BY <1>2 DEF Passed!SenderInv
<1>6. CASE Len(v3.fds) = Len(v2.files)
  <2>1. v3' = [v3 EXCEPT !.pc = "connect"]
    BY <1>6 DEF Passed!OpenFile
  <2>2. v3'.pc = "connect" /\ v3'.fds = v3.fds /\ v3' \in Passed!Senders
    BY <1>3, <2>1 DEF Passed!Senders
  <2>3. v3.fds = v2.files
    BY <1>3, <1>4, <1>6 DEF Passed!Senders
  <2> HIDE <2>1
  <2>4. Passed!TypeOK'
    BY <1>1, <1>2, <2>2 DEF Passed!TypeOK
  <2>5. Passed!SenderInv'
    BY <1>1, <1>5, <2>2, <2>3, PasFrame DEF Passed!SenderInv
  <2> QED
    BY <1>1, <1>c, <2>2, <2>4, <2>5, PasSender DEF Passed!SenderEnded, Passed!ConnectedInv, Passed!Unsent
<1>7. CASE Len(v3.fds) # Len(v2.files) /\ v3' = [v3 EXCEPT !.fds = Append(@, v2.files[Len(@) + 1])]
  <2>1. v2.files[Len(v3.fds) + 1] \in Passed!Files /\ Len(v3.fds) < Len(v2.files)
    BY <1>3, <1>4, <1>7
  <2>2. v3'.pc = "open" /\ v3'.fds = Append(v3.fds, v2.files[Len(v3.fds) + 1])
    BY <1>1, <1>3, <1>7
  <2>6. Append(v3.fds, v2.files[Len(v3.fds) + 1]) \in Seq(Passed!Files)
    BY <1>3, <2>1 DEF Passed!Senders
  <2>7. v3' \in Passed!Senders
    BY <1>3, <1>7, <2>6 DEF Passed!Senders
  <2>3. Len(v3'.fds) <= Len(v2.files) /\ \A j \in DOMAIN v3'.fds : v3'.fds[j] = v2.files[j]
    BY <1>3, <1>4, <2>1, <2>2
  <2>4. Passed!TypeOK'
    BY <1>1, <1>2, <2>2, <2>7 DEF Passed!TypeOK
  <2>5. Passed!SenderInv'
    BY <1>1, <1>5, <2>2, <2>3, PasFrame DEF Passed!SenderInv
  <2> QED
    BY <1>1, <1>c, <2>2, <2>4, <2>5, PasSender DEF Passed!SenderEnded, Passed!ConnectedInv, Passed!Unsent
<1>8. CASE v3' = [v3 EXCEPT !.pc = "failed", !.fds = <<>>]
  <2>2. v3'.pc = "failed" /\ v3' \in Passed!Senders
    BY <1>2, <1>8, PasPcs DEF Passed!Senders
  <2>4. Passed!TypeOK'
    BY <1>1, <1>2, <2>2 DEF Passed!TypeOK
  <2>5. Passed!SenderInv'
    BY <1>1, <1>5, <2>2, PasFrame DEF Passed!SenderInv
  <2> QED
    BY <1>1, <1>c, <2>2, <2>4, <2>5, PasSender DEF Passed!SenderEnded, Passed!ConnectedInv, Passed!Unsent
<1> QED
  BY <1>6, <1>7, <1>8 DEF Passed!OpenFile

LEMMA PasConnect == Passed!IInv /\ Passed!Connect => Passed!IInv'
<1> SUFFICES ASSUME Passed!IInv, Passed!Connect PROVE Passed!IInv'
  OBVIOUS
<1>1. v3.pc = "connect" /\ v1' = v1 /\ v2' = v2 /\ v5' = v5
  BY DEF Passed!Connect
<1>2. Passed!TypeOK /\ Passed!SenderInv
  BY DEF Passed!IInv
<1>3. v3' \in Passed!Senders
      /\ \/ v3'.pc = "send" /\ v3'.fds = v3.fds
         \/ v3'.pc = "failed" /\ v4' = v4
  BY <1>2, PasPcs DEF Passed!Connect, Passed!Senders
<1>4. v4' \in Passed!Sockets
      /\ v4'.passcred = v4.passcred /\ v4'.msg = v4.msg
  BY <1>2 DEF Passed!TypeOK, Passed!Connect, Passed!Sockets
<1>5. Passed!TypeOK'
  BY <1>1, <1>2, <1>3, <1>4 DEF Passed!TypeOK
<1>6. Passed!SenderInv'
  BY <1>1, <1>2, <1>3, <1>4, PasFrame DEF Passed!SenderInv
<1>7. Passed!ConnectedInv'
  <2>1. Passed!ConnectedInv
    BY DEF Passed!IInv
  <2>2. v4'.conn \/ v4' = v4
    BY <1>2 DEF Passed!Connect, Passed!TypeOK, Passed!Sockets
  <2> QED
    BY <1>1, <1>3, <2>1, <2>2 DEF Passed!ConnectedInv
<1> QED
  BY <1>1, <1>4, <1>5, <1>6, <1>7, PasSender DEF Passed!SenderEnded, Passed!Unsent

\* Every message holds the files of the command line and credentials that
\* are right.
LEMMA PasSendMsg ==
  ASSUME Passed!IInv, NEW m \in Passed!Messages, Passed!SendMsg(m), m.rights = v2.files,
         m.creds \in {"none", v2.creds},
         v2.creds # "none" => m.creds = v2.creds, v2.data => m.data
  PROVE  Passed!IInv'
<1>1. v3.pc = "send" /\ v1' = v1 /\ v2' = v2 /\ v5' = v5
  BY DEF Passed!SendMsg
<1>2. Passed!TypeOK /\ Passed!SenderInv
  BY DEF Passed!IInv
<1>c. Passed!ConnectedInv
  BY DEF Passed!IInv
<1>3. CASE m.creds = "other" /\ ~v2.root
  <2>1. v3' = [v3 EXCEPT !.pc = "failed", !.fds = <<>>] /\ v4' = v4
    BY <1>3 DEF Passed!SendMsg
  <2>2. v3'.pc = "failed" /\ v3' \in Passed!Senders
    BY <1>2, <2>1, PasPcs DEF Passed!Senders
  <2>4. Passed!TypeOK'
    BY <1>1, <1>2, <2>1, <2>2 DEF Passed!TypeOK
  <2>5. Passed!SenderInv'
    BY <1>1, <1>2, <2>1, <2>2, PasFrame DEF Passed!SenderInv
  <2> QED
    BY <1>1, <1>3, <1>c, <2>1, <2>2, <2>4, <2>5, PasSender DEF Passed!SenderEnded, Passed!ConnectedInv, Passed!Unsent
<1>4. CASE ~(m.creds = "other" /\ ~v2.root)
  <2> DEFINE c == IF m.creds # "none" THEN m.creds
                  ELSE IF v4.passcred \/ (~v2.dgram /\ v5.pc \in {"bind", "accept"}) THEN "own" ELSE "nobody"
             n == [m EXCEPT !.creds = c]
  <2>1. /\ v3' = [v3 EXCEPT !.pc = "sent"]
        /\ (v4' = v4 /\ ~v2.dgram /\ ~v2.data) \/ v4' = [v4 EXCEPT !.msg = n]
    BY <1>4 DEF Passed!SendMsg
  <2>2. v3'.pc = "sent" /\ v3'.fds = v3.fds /\ v3' \in Passed!Senders
    BY <1>2, <2>1 DEF Passed!TypeOK, Passed!Senders
  <2>3. c \in Passed!Creds
    BY DEF Passed!Messages, Passed!Creds
  <2>4. Passed!RightCreds(c)
    <3>1. v2.creds \in {"none", "own", "other"} /\ v2.root \in BOOLEAN
      BY <1>2 DEF Passed!TypeOK
    <3> QED
      BY <1>4, <3>1 DEF Passed!RightCreds
  <2>5. n \in Passed!Messages /\ n.rights = v2.files /\ n.creds = c
    BY <2>3 DEF Passed!Messages
  <2> HIDE DEF c, n
  <2>6. /\ v4' \in Passed!Sockets
        /\ v4'.passcred = v4.passcred /\ v4'.conn = v4.conn
        /\ (v4'.msg = v4.msg /\ ~v2.dgram /\ ~v2.data) \/ v4'.msg = n
    BY <1>2, <2>1, <2>5 DEF Passed!TypeOK, Passed!Sockets
  <2>7. Passed!TypeOK'
    BY <1>1, <1>2, <2>2, <2>6 DEF Passed!TypeOK
  <2>8. v4'.msg # Passed!None => v4'.msg.rights = v2.files /\ Passed!RightCreds(v4'.msg.creds)
    BY <1>2, <2>4, <2>5, <2>6 DEF Passed!SenderInv
  <2>9. Passed!RightCreds(v4.msg.creds)' <=> Passed!RightCreds(v4'.msg.creds)
    BY <1>1 DEF Passed!RightCreds
  <2>10. Passed!SenderInv'
    BY <1>1, <1>2, <2>2, <2>8, <2>9 DEF Passed!SenderInv
  <2>11. Passed!ConnectedInv'
    <3>1. n # Passed!None
      BY <2>5 DEF Passed!Messages, Passed!None
    <3> QED
      BY <1>1, <1>c, <2>2, <2>6, <3>1 DEF Passed!ConnectedInv
  <2> QED
    BY <1>1, <2>2, <2>6, <2>7, <2>10, <2>11, PasSender DEF Passed!SenderEnded, Passed!Unsent
<1> QED
  BY <1>3, <1>4

LEMMA PasSenderExits == Passed!IInv /\ Passed!SenderExits => Passed!IInv'
<1> SUFFICES ASSUME Passed!IInv, Passed!SenderExits PROVE Passed!IInv'
  OBVIOUS
<1>1. v1' = v1 /\ v2' = v2 /\ v4' = v4 /\ v5' = v5 /\ v3' = [v3 EXCEPT !.pc = "done", !.fds = <<>>]
  BY DEF Passed!SenderExits
<1>2. Passed!TypeOK /\ Passed!SenderInv
  BY DEF Passed!IInv
<1>3. v3'.pc = "done" /\ v3' \in Passed!Senders
  BY <1>1, <1>2, PasPcs DEF Passed!Senders
<1>4. Passed!TypeOK'
  BY <1>1, <1>2, <1>3 DEF Passed!TypeOK
<1>5. Passed!SenderInv'
  BY <1>1, <1>2, <1>3, PasFrame DEF Passed!SenderInv
<1>6. Passed!ConnectedInv' /\ v3.pc = "sent"
  BY <1>1, <1>3 DEF Passed!IInv, Passed!ConnectedInv, Passed!SenderExits
<1> QED
  BY <1>1, <1>3, <1>4, <1>5, <1>6, PasSender DEF Passed!SenderEnded, Passed!Unsent

\* A step of the receiver changes neither the command line nor the sender.
LEMMA PasReceiver ==
  ASSUME Passed!IInv, v1' = v1, v2' = v2, v3' = v3, v4' \in Passed!Sockets, v4'.msg \in {v4.msg, Passed!None},
         v5' \in Passed!Receivers, v4'.conn = v4.conn,
         v5'.pc \in {"bind", "accept"} \/ v5.pc \notin {"bind", "accept"} \/ v2.dgram \/ v4.conn,
         v5'.pc \in Passed!Receiving => v5.pc \in Passed!Receiving /\ v4'.msg = v4.msg
  PROVE  /\ Passed!TypeOK' /\ Passed!OptInv' /\ Passed!SenderInv' /\ Passed!ConnectedInv'
         /\ Passed!SenderEnded' <=> Passed!SenderEnded
         /\ Passed!Unsent' <=> Passed!Unsent
         /\ v5'.creds = v5.creds /\ (v1 = "cred" /\ v5'.pc = "done" => v5.pc = "done") => Passed!CredentialsTrue'
<1>1. Passed!TypeOK'
  BY DEF Passed!IInv, Passed!TypeOK
<1>2. Passed!OptInv'
  BY DEF Passed!IInv, Passed!OptInv
<1>3. Passed!SenderInv'
  BY PasFrame DEF Passed!IInv, Passed!SenderInv
<1>4. Passed!ConnectedInv'
  BY DEF Passed!IInv, Passed!ConnectedInv
<1>5. Passed!Unsent' <=> Passed!Unsent
  BY DEF Passed!Unsent
<1>6. v5'.creds = v5.creds /\ (v1 = "cred" /\ v5'.pc = "done" => v5.pc = "done") => Passed!CredentialsTrue'
  BY <1>5 DEF Passed!IInv, Passed!ReceiverInv, Passed!CredentialsTrue
<1> QED
  BY <1>1, <1>2, <1>3, <1>4, <1>5, <1>6 DEF Passed!SenderEnded

\* Before a message has come.
LEMMA PasWaits ==
  ASSUME Passed!IInv, v1' = v1, v2' = v2, v3' = v3, v4' \in Passed!Sockets, v4'.msg = v4.msg,
         NEW l \in Passed!Receiving, v5.pc \in Passed!Receiving, v5' = [v5 EXCEPT !.pc = l],
         l = "recvmsg" => (v4'.passcred <=> v1 \in {"cred", "multi"}), v4'.conn = v4.conn,
         l \in {"bind", "accept"} \/ v5.pc \notin {"bind", "accept"} \/ v2.dgram \/ v4.conn
  PROVE  Passed!IInv'
<1>1. v5 \in Passed!Receivers /\ Passed!ReceiverInv /\ Passed!PrintedInv
  BY DEF Passed!IInv, Passed!TypeOK
<1>2. /\ v5.open = <<>> /\ v5.cmsgs = <<>> /\ v5.sent = <<>> /\ v5.list = <<>> /\ v5.out = <<>>
      /\ v5.read = 0 /\ v5.pos = 0 /\ v5.creds = "none"
  BY <1>1 DEF Passed!ReceiverInv
<1>3. /\ v5' \in Passed!Receivers /\ v5'.pc = l /\ v5'.open = v5.open /\ v5'.cmsgs = v5.cmsgs /\ v5'.sent = v5.sent
      /\ v5'.list = v5.list /\ v5'.out = v5.out /\ v5'.read = v5.read /\ v5'.pos = v5.pos /\ v5'.creds = v5.creds
  BY <1>1 DEF Passed!Receivers
<1>4. Passed!TypeOK' /\ Passed!OptInv' /\ Passed!SenderInv' /\ Passed!ConnectedInv' /\ Passed!CredentialsTrue'
  <2>1. l # "done" /\ v5.pc \in Passed!Receiving
    BY DEF Passed!Receiving
  <2> QED
    BY <1>3, <2>1, PasReceiver
<1>5. Passed!ReceiverInv'
  BY <1>2, <1>3, <1>4 DEF Passed!ReceiverInv, Passed!Receiving
<1>6. Passed!HeadersInv' /\ Passed!ReadInv'
  BY <1>2, <1>3 DEF Passed!HeadersInv, Passed!ReadInv, Passed!Receiving
<1>7. Passed!PrintedInv'
  BY <1>1, <1>3 DEF Passed!PrintedInv, Passed!Done, Passed!InOrder, Passed!Before, Passed!Part
<1> QED
  BY <1>4, <1>5, <1>6, <1>7 DEF Passed!IInv

LEMMA PasBind == Passed!IInv /\ Passed!Bind => Passed!IInv'
<1> SUFFICES ASSUME Passed!IInv, Passed!Bind PROVE Passed!IInv'
  OBVIOUS
<1>1. v1' = v1 /\ v2' = v2 /\ v3' = v3 /\ v5.pc = "bind"
  BY DEF Passed!Bind
<1>2. v4' \in Passed!Sockets /\ v4'.msg = v4.msg /\ v4'.conn = v4.conn
  BY DEF Passed!Bind, Passed!IInv, Passed!TypeOK, Passed!Sockets
<1>3. PICK l \in {"setsockopt", "accept"} : v5' = [v5 EXCEPT !.pc = l] /\ (l = "accept" \/ v2.dgram)
  BY DEF Passed!Bind
<1> QED
  BY <1>1, <1>2, <1>3, PasWaits DEF Passed!Receiving

LEMMA PasAccept == Passed!IInv /\ Passed!Accept => Passed!IInv'
<1> SUFFICES ASSUME Passed!IInv, Passed!Accept PROVE Passed!IInv'
  OBVIOUS
<1>1. v1' = v1 /\ v2' = v2 /\ v3' = v3 /\ v5.pc = "accept" /\ v4.conn /\ v4' = v4 /\ v5' = [v5 EXCEPT !.pc = "setsockopt"]
  BY DEF Passed!Accept
<1>2. v4 \in Passed!Sockets
  BY DEF Passed!IInv, Passed!TypeOK
<1> QED
  BY <1>1, <1>2, PasWaits DEF Passed!Receiving

LEMMA PasSetPasscred == Passed!IInv /\ Passed!SetPasscred => Passed!IInv'
<1> SUFFICES ASSUME Passed!IInv, Passed!SetPasscred PROVE Passed!IInv'
  OBVIOUS
<1>1. v1' = v1 /\ v2' = v2 /\ v3' = v3 /\ v5.pc = "setsockopt" /\ v5' = [v5 EXCEPT !.pc = "recvmsg"]
  BY DEF Passed!SetPasscred
<1>2. v4' \in Passed!Sockets /\ v4'.msg = v4.msg /\ v4'.conn = v4.conn /\ (v4'.passcred <=> v1 \in {"cred", "multi"})
  <2> DEFINE on == v1 \in {"cred", "multi"}
  <2>1. v4' = [v4 EXCEPT !.passcred = on] /\ v4 \in Passed!Sockets
    BY DEF Passed!SetPasscred, Passed!IInv, Passed!TypeOK
  <2>2. on \in BOOLEAN
    OBVIOUS
  <2> HIDE DEF on
  <2>3. v4' \in Passed!Sockets /\ v4'.msg = v4.msg /\ v4'.conn = v4.conn /\ v4'.passcred = on
    BY <2>1, <2>2 DEF Passed!Sockets
  <2> QED
    BY <2>3 DEF on
<1> QED
  BY <1>1, <1>2, PasWaits DEF Passed!Receiving

\* The space for control messages takes the header and one descriptor, or
\* the header and the credentials, but in scm_multi_recv.
LEMMA PasControlLen ==
  ASSUME Passed!TypeOK
  PROVE  /\ Passed!ControlLen \in Int
         /\ v1 \in {"rights", "functions"} => Passed!ControlLen = 24
         /\ v1 = "cred" => Passed!ControlLen = 32
<1>1. v2.size \in Int /\ v1 \in {"rights", "cred", "multi", "functions"} /\ PasMaxFds \in Nat
  BY PasBounds DEF Passed!TypeOK
<1>2. \A n \in Nat : Passed!CMSG_SPACE(n) \in Int
  BY DEF Passed!CMSG_SPACE, Passed!HDR
<1>3. Passed!CMSG_SPACE(4) = 24 /\ Passed!CMSG_SPACE(12) = 32
  BY DEF Passed!CMSG_SPACE, Passed!HDR
<1>4. Passed!CMSG_SPACE(4 * PasMaxFds) \in Int
  BY <1>1, <1>2
<1> QED
  BY <1>1, <1>3, <1>4 DEF Passed!ControlLen, Passed!INT, Passed!UCRED

\* The descriptors the kernel passes on, and whether it tells of others.
LEMMA PasFitting ==
  ASSUME Passed!TypeOK, NEW m, m.rights \in Seq(Passed!Files)
  PROVE  /\ Passed!Fitting(m) \in 0..Len(m.rights)
         /\ Passed!Fitting(m) < Len(m.rights) => Passed!Truncated(m)
         /\ v1 \in {"rights", "functions"} /\ ~v4.passcred /\ Len(m.rights) = 1 => Passed!Fitting(m) = 1
<1> DEFINE rest == Passed!ControlLen - (IF v4.passcred THEN Passed!Min(Passed!ControlLen, Passed!CMSG_SPACE(Passed!UCRED)) ELSE 0)
<1>1. Passed!ControlLen \in Int /\ (v1 \in {"rights", "functions"} => Passed!ControlLen = 24)
  BY PasControlLen
<1>2. Passed!CMSG_SPACE(Passed!UCRED) = 32
  BY DEF Passed!CMSG_SPACE, Passed!HDR, Passed!UCRED
<1>3. rest \in Int /\ (~v4.passcred => rest = Passed!ControlLen)
  BY <1>1, <1>2 DEF Passed!Min
<1>4. Passed!Fitting(m) = IF rest <= 16 THEN 0 ELSE Passed!Min((rest - 16) \div 4, Len(m.rights))
  BY DEF Passed!Fitting, Passed!HDR, Passed!INT
<1> HIDE DEF rest
<1>5. Len(m.rights) \in Nat
  OBVIOUS
<1>6. rest > 16 => (rest - 16) \div 4 \in Nat
  BY <1>3
<1>7. Passed!Fitting(m) \in 0..Len(m.rights)
  BY <1>3, <1>4, <1>5, <1>6 DEF Passed!Min
<1>8. v1 \in {"rights", "functions"} /\ ~v4.passcred /\ Len(m.rights) = 1 => Passed!Fitting(m) = 1
  BY <1>1, <1>3, <1>4 DEF Passed!Min
<1> QED
  BY <1>7, <1>8 DEF Passed!Truncated

LEMMA PasNonEmpty == ASSUME NEW s, Len(s) # 0 PROVE s # <<>>
<1> SUFFICES ASSUME s = <<>> PROVE FALSE
  OBVIOUS
<1>1. Len(s) = Len(<<>>)
  OBVIOUS
<1>2. Len(<<>>) = 0
  OBVIOUS
<1> QED
  BY <1>1, <1>2

\* What recvmsg() gives of message m.
LEMMA PasMessage ==
  ASSUME Passed!IInv, NEW m \in Passed!Messages, m.rights = v2.files, Passed!RightCreds(m.creds),
         v1' = v1, v2' = v2, v3' = v3, v4' \in Passed!Sockets, v4'.msg = Passed!None, v4'.passcred = v4.passcred,
         v4'.conn = v4.conn, v5.pc = "recvmsg", Passed!RecvMsg, m = v4.msg, m # Passed!None
  PROVE  Passed!IInv'
<1> DEFINE o == SubSeq(m.rights, 1, Passed!Fitting(m))
           cr == Passed!CredsHeader(m)
           ri == Passed!RightsHeader(m)
           t == Passed!Truncated(m)
           len == Passed!Min(Passed!ControlLen, 28)
<1>1. v5 \in Passed!Receivers /\ Passed!ReceiverInv /\ Passed!PrintedInv /\ Passed!TypeOK /\ Passed!OptInv
  BY DEF Passed!IInv, Passed!TypeOK
<1>2. /\ v5.open = <<>> /\ v5.cmsgs = <<>> /\ v5.sent = <<>> /\ v5.list = <<>> /\ v5.out = <<>>
      /\ v5.read = 0 /\ v5.pos = 0 /\ v5.creds = "none" /\ (v4.passcred <=> v1 \in {"cred", "multi"})
  BY <1>1 DEF Passed!ReceiverInv, Passed!Receiving
<1>3. m.rights \in Seq(Passed!Files) /\ m.creds \in Passed!Creds
  BY DEF Passed!Messages
<1>4. /\ Passed!Fitting(m) \in 0..Len(m.rights)
      /\ Passed!Fitting(m) < Len(m.rights) => Passed!Truncated(m)
      /\ v1 \in {"rights", "functions"} /\ ~v4.passcred /\ Len(m.rights) = 1 => Passed!Fitting(m) = 1
  BY <1>1, <1>3, PasFitting
<1>5. o \in Seq(Passed!Files) /\ Len(o) = Passed!Fitting(m) /\ \A j \in 1..Len(o) : o[j] = m.rights[j]
  BY <1>3, <1>4
<1>6. t \in BOOLEAN
  BY DEF Passed!Truncated
<1>7. Passed!ControlLen \in Int /\ (v1 = "cred" => Passed!ControlLen = 32) /\ v1 \in {"rights", "cred", "multi", "functions"}
  BY <1>1, PasControlLen DEF Passed!TypeOK
<1>8. \/ cr = <<>> /\ v1 # "cred"
      \/ /\ cr = <<[type |-> "SCM_CREDENTIALS", len |-> len, is |-> m.creds]>> /\ v4.passcred
         /\ len = 28 \/ (v1 = "multi" /\ t)
  <2>1. Passed!CMSG_LEN(Passed!UCRED) = 28
    BY DEF Passed!CMSG_LEN, Passed!HDR, Passed!UCRED
  <2>2. v4.passcred /\ Passed!ControlLen < 28 => t
    BY <2>1 DEF Passed!Truncated
  <2>3. len = 28 \/ Passed!ControlLen < 28
    BY <1>7 DEF Passed!Min
  <2>4. cr = IF ~v4.passcred \/ Passed!ControlLen < 16 THEN <<>>
             ELSE <<[type |-> "SCM_CREDENTIALS", len |-> len, is |-> m.creds]>>
    BY <2>1 DEF Passed!CredsHeader, Passed!HDR
  <2> QED
    BY <1>2, <1>7, <2>2, <2>3, <2>4
<1>9. ri = IF o = <<>> THEN <<>> ELSE <<[type |-> "SCM_RIGHTS", len |-> 16 + 4 * Len(o), is |-> o]>>
  <2>1. o = <<>> <=> Passed!Fitting(m) = 0
    BY <1>4, <1>5
  <2> QED
    BY <1>5, <2>1 DEF Passed!RightsHeader, Passed!CMSG_LEN, Passed!HDR, Passed!INT
<1>10. len \in Int
  BY <1>7 DEF Passed!Min
<1> HIDE DEF o, cr, ri, t, len
<1>12a. v5' = [v5 EXCEPT !.pc = "headers", !.open = SubSeq(m.rights, 1, Passed!Fitting(m)),
                        !.cmsgs = Passed!CredsHeader(m) \o Passed!RightsHeader(m), !.ctrunc = Passed!Truncated(m), !.sent = m.rights]
  BY DEF Passed!RecvMsg
<1>11. cr \in Seq(Passed!Headers) /\ ri \in Seq(Passed!Headers)
  <2>1. len \in Int /\ m.creds \in Passed!Creds => [type |-> "SCM_CREDENTIALS", len |-> len, is |-> m.creds] \in Passed!Headers
    BY DEF Passed!Headers
  <2>2. 16 + 4 * Len(o) \in Int
    BY <1>5
  <2>3. [type |-> "SCM_RIGHTS", len |-> 16 + 4 * Len(o), is |-> o] \in Passed!Headers
    BY <1>5, <2>2 DEF Passed!Headers
  <2>4. <<>> \in Seq(Passed!Headers) /\ \A x \in Passed!Headers : <<x>> \in Seq(Passed!Headers)
    OBVIOUS
  <2> QED
    BY <1>3, <1>8, <1>9, <1>10, <2>1, <2>3, <2>4
<1>12. /\ v5' = [v5 EXCEPT !.pc = "headers", !.open = o, !.cmsgs = cr \o ri, !.ctrunc = t, !.sent = m.rights]
  BY <1>12a DEF o, cr, ri, t
<1>13. cr \o ri \in Seq(Passed!Headers)
  BY <1>11
<1>14. /\ v5' \in Passed!Receivers /\ v5'.pc = "headers" /\ v5'.open = o /\ v5'.cmsgs = cr \o ri /\ v5'.sent = m.rights
       /\ v5'.ctrunc = t /\ v5'.list = v5.list /\ v5'.out = v5.out /\ v5'.read = v5.read /\ v5'.pos = v5.pos /\ v5'.creds = v5.creds
  BY <1>1, <1>3, <1>5, <1>6, <1>12, <1>13 DEF Passed!Receivers
<1>15. Passed!TypeOK' /\ Passed!OptInv' /\ Passed!SenderInv' /\ Passed!ConnectedInv' /\ Passed!CredentialsTrue'
  BY <1>14, PasReceiver DEF Passed!Receiving
<1>16. Passed!ReceiverInv'
  BY <1>2, <1>14, <1>15 DEF Passed!ReceiverInv, Passed!Receiving
<1>17. Passed!HeadersInv'
  <2> DEFINE q == cr \o ri
  <2>1. Passed!RightCreds(m.creds)' /\ \A c : Passed!RightCreds(c)' <=> Passed!RightCreds(c)
    BY PasFrame
  <2>2. \A j \in DOMAIN q : LET c == q[j]
          IN /\ c.type = "SCM_RIGHTS" => j = Len(q) /\ c.is = o /\ c.len = 16 + 4 * Len(o)
             /\ c.type = "SCM_CREDENTIALS" => c.is = m.creds /\ (c.len = 28 \/ (v1 = "multi" /\ t))
    BY <1>8, <1>9
  <2>3. o # <<>> => q # <<>> /\ q[Len(q)].type = "SCM_RIGHTS"
    BY <1>8, <1>9
  <2>4. v1 \in {"rights", "functions"} => Len(q) = 1 /\ q[1].type = "SCM_RIGHTS" /\ Len(o) = 1
    <3> SUFFICES ASSUME v1 \in {"rights", "functions"} PROVE Len(q) = 1 /\ q[1].type = "SCM_RIGHTS" /\ Len(o) = 1
      OBVIOUS
    <3>1. Len(o) = 1
      BY <1>1, <1>2, <1>4, <1>5 DEF Passed!OptInv
    <3>2. cr = <<>>
      BY <1>2, <1>8
    <3>5. o # <<>>
      <4>1. Len(o) # 0
        BY <3>1
      <4> HIDE DEF o
      <4> QED
        BY <4>1, PasNonEmpty
    <3>4. q = <<[type |-> "SCM_RIGHTS", len |-> 16 + 4 * Len(o), is |-> o]>>
      BY <1>9, <3>2, <3>5
    <3> QED
      BY <3>1, <3>4
  <2>5. v1 = "cred" => q # <<>> /\ q[1].type = "SCM_CREDENTIALS"
    BY <1>8, <1>9
  <2>6. Passed!CMSG_LEN(Passed!UCRED) = 28
    BY DEF Passed!CMSG_LEN, Passed!HDR, Passed!UCRED
  <2> HIDE DEF q
  <2>7. v5'.cmsgs = q
    BY <1>14 DEF q
  <2> QED
    BY <1>6, <1>14, <2>1, <2>2, <2>3, <2>4, <2>5, <2>6, <2>7 DEF Passed!HeadersInv, Passed!RightCreds, Passed!HDR, Passed!INT
<1>18. Passed!ReadInv'
  <2>1. 0 + Len(o) <= Len(m.rights) /\ (0 + Len(o) < Len(m.rights) => t) /\ \A j \in DOMAIN o : o[j] = m.rights[0 + j]
    BY <1>3, <1>4, <1>5 DEF t
  <2>2. Passed!ToRead(v5.open)'
    BY <1>2, <1>6, <1>14, <2>1 DEF Passed!ToRead
  <2> QED
    BY <1>2, <1>14, <2>2 DEF Passed!ReadInv
<1>19. Passed!PrintedInv'
  <2>1. \A i \in 1..Len(m.rights) : \A j \in 1..PasContent[m.rights[i]] : ~Passed!Done(i, j)'
    BY <1>2, <1>14 DEF Passed!Done
  <2>2. DOMAIN v5'.out = {} /\ Len(m.rights) \in Nat
    BY <1>2, <1>3, <1>14
  <2> QED
    BY <1>2, <1>14, <2>1, <2>2 DEF Passed!PrintedInv, Passed!InOrder
<1> QED
  BY <1>15, <1>16, <1>17, <1>18, <1>19 DEF Passed!IInv

\* The end of the stream: no message, and perhaps the credentials of nobody.
LEMMA PasNoMessage ==
  ASSUME Passed!IInv, v1' = v1, v2' = v2, v3' = v3, v4' = v4, v5.pc = "recvmsg", ~v2.dgram, Passed!SenderEnded, v4.msg = Passed!None,
         NEW c \in {<<>>, Passed!CredsHeader([creds |-> "nobody"])}, c = <<>> \/ v4.passcred,
         v5' = [v5 EXCEPT !.pc = "headers", !.cmsgs = c]
  PROVE  Passed!IInv'
<1> DEFINE len == Passed!Min(Passed!ControlLen, 28)
<1>1. v5 \in Passed!Receivers /\ Passed!ReceiverInv /\ Passed!PrintedInv /\ Passed!TypeOK /\ Passed!OptInv /\ v4 \in Passed!Sockets
  BY DEF Passed!IInv, Passed!TypeOK
<1>2. /\ v5.open = <<>> /\ v5.cmsgs = <<>> /\ v5.sent = <<>> /\ v5.list = <<>> /\ v5.out = <<>>
      /\ v5.read = 0 /\ v5.pos = 0 /\ v5.creds = "none" /\ (v4.passcred <=> v1 \in {"cred", "multi"})
  BY <1>1 DEF Passed!ReceiverInv, Passed!Receiving
<1>3. Passed!ControlLen \in Int /\ (v1 = "cred" => Passed!ControlLen = 32) /\ v1 \in {"rights", "cred", "multi", "functions"}
  BY <1>1, PasControlLen DEF Passed!TypeOK
<1>4. Passed!CMSG_LEN(Passed!UCRED) = 28
  BY DEF Passed!CMSG_LEN, Passed!HDR, Passed!UCRED
<1>5. \/ c = <<>>
      \/ c = <<[type |-> "SCM_CREDENTIALS", len |-> len, is |-> "nobody"]>> /\ v4.passcred
  BY <1>4 DEF Passed!CredsHeader
<1>6. len \in Int /\ (len = 28 \/ v1 # "cred")
  BY <1>3 DEF Passed!Min
<1> HIDE DEF len
<1>7. c \in Seq(Passed!Headers)
  <2>1. [type |-> "SCM_CREDENTIALS", len |-> len, is |-> "nobody"] \in Passed!Headers
    BY <1>6 DEF Passed!Headers, Passed!Creds
  <2>2. <<>> \in Seq(Passed!Headers) /\ \A x \in Passed!Headers : <<x>> \in Seq(Passed!Headers)
    OBVIOUS
  <2> QED
    BY <1>5, <2>1, <2>2
<1>8. /\ v5' \in Passed!Receivers /\ v5'.pc = "headers" /\ v5'.open = v5.open /\ v5'.cmsgs = c /\ v5'.sent = v5.sent
      /\ v5'.list = v5.list /\ v5'.out = v5.out /\ v5'.read = v5.read /\ v5'.pos = v5.pos /\ v5'.creds = v5.creds
  BY <1>1, <1>7 DEF Passed!Receivers
<1>a. Passed!Unsent
  BY DEF Passed!IInv, Passed!ConnectedInv, Passed!SenderEnded, Passed!Receiving, Passed!Unsent
<1>9. Passed!TypeOK' /\ Passed!OptInv' /\ Passed!SenderInv' /\ Passed!ConnectedInv' /\ Passed!CredentialsTrue' /\ Passed!SenderEnded' /\ Passed!Unsent'
  BY <1>1, <1>8, <1>a, PasReceiver DEF Passed!Receiving
<1>10. Passed!ReceiverInv'
  BY <1>2, <1>8, <1>9 DEF Passed!ReceiverInv, Passed!Receiving
<1>11. Passed!HeadersInv'
  <2>1. \A j \in DOMAIN c : c[j].type = "SCM_CREDENTIALS" /\ c[j].is = "nobody" /\ (c[j].len = 28 \/ v1 = "multi")
    BY <1>2, <1>3, <1>5, <1>6
  <2>2. v1 \in {"rights", "functions"} => c = <<>>
    BY <1>2, <1>5
  <2>3. c # <<>> => c[1].type = "SCM_CREDENTIALS"
    BY <1>5
  <2> QED
    BY <1>2, <1>4, <1>8, <1>9, <2>1, <2>2, <2>3 DEF Passed!HeadersInv
<1>12. Passed!ReadInv'
  <2>1. DOMAIN v5.open = {} /\ Len(v5.open) = 0 /\ Len(v5.sent) = 0
    BY <1>2
  <2>2. Passed!ToRead(v5.open)'
    BY <1>2, <1>8, <2>1 DEF Passed!ToRead
  <2> QED
    BY <1>2, <1>8, <2>2 DEF Passed!ReadInv
<1>13. Passed!PrintedInv'
  BY <1>1, <1>8 DEF Passed!PrintedInv, Passed!Done, Passed!InOrder, Passed!Before, Passed!Part
<1> QED
  BY <1>9, <1>10, <1>11, <1>12, <1>13 DEF Passed!IInv

LEMMA PasRecvMsg == Passed!IInv /\ Passed!RecvMsg => Passed!IInv'
<1> SUFFICES ASSUME Passed!IInv, Passed!RecvMsg PROVE Passed!IInv'
  OBVIOUS
<1>1. v5.pc = "recvmsg" /\ v1' = v1 /\ v2' = v2 /\ v3' = v3
  BY DEF Passed!RecvMsg
<1>2. Passed!TypeOK /\ Passed!SenderInv /\ v4 \in Passed!Sockets
  BY DEF Passed!IInv, Passed!TypeOK
<1>3. CASE v4.msg # Passed!None
  <2>1. v4' = [v4 EXCEPT !.msg = Passed!None]
    BY <1>3 DEF Passed!RecvMsg
  <2>2. v4' \in Passed!Sockets /\ v4'.msg = Passed!None /\ v4'.passcred = v4.passcred /\ v4'.conn = v4.conn
    BY <1>2, <2>1 DEF Passed!Sockets
  <2>3. v4.msg \in Passed!Messages /\ v4.msg.rights = v2.files /\ Passed!RightCreds(v4.msg.creds)
    BY <1>2, <1>3 DEF Passed!Sockets, Passed!SenderInv
  <2> QED
    BY <1>1, <1>3, <2>2, <2>3, PasMessage
<1>4. CASE v4.msg = Passed!None
  <2>1. ~v2.dgram /\ Passed!SenderEnded /\ v4' = v4
    BY <1>4 DEF Passed!RecvMsg, Passed!SenderEnded
  <2>2. CASE v5' = [v5 EXCEPT !.pc = "headers"]
    <3>1. v5.cmsgs = <<>> /\ v5 \in Passed!Receivers
      BY <1>1 DEF Passed!IInv, Passed!TypeOK, Passed!ReceiverInv, Passed!Receiving
    <3>2. v5' = [v5 EXCEPT !.pc = "headers", !.cmsgs = <<>>]
      BY <2>2, <3>1 DEF Passed!Receivers
    <3> QED
      BY <1>1, <1>4, <2>1, <3>2, PasNoMessage
  <2>3. CASE v4.passcred /\ v5' = [v5 EXCEPT !.pc = "headers", !.cmsgs = Passed!CredsHeader([creds |-> "nobody"])]
    BY <1>1, <1>4, <2>1, <2>3, PasNoMessage
  <2> QED
    BY <1>4, <2>2, <2>3 DEF Passed!RecvMsg
<1> QED
  BY <1>3, <1>4

LEMMA PasFatal ==
  ASSUME Passed!IInv, v1' = v1, v2' = v2, v3' = v3, v4' = v4, Passed!Fatal, v5.pc = "headers",
         v5.ctrunc \/ (Passed!SenderEnded /\ v5.sent = <<>>)
  PROVE  Passed!IInv'
<1>1. v5 \in Passed!Receivers /\ v4 \in Passed!Sockets /\ Passed!ReceiverInv /\ Passed!PrintedInv /\ Passed!ReadInv
  BY DEF Passed!IInv, Passed!TypeOK
<1>2. v5' = [v5 EXCEPT !.pc = "failed", !.open = <<>>] /\ <<>> \in Seq(Passed!Files)
  BY DEF Passed!Fatal
<1>3. /\ v5' \in Passed!Receivers /\ v5'.pc = "failed" /\ v5'.ctrunc = v5.ctrunc /\ v5'.sent = v5.sent
      /\ v5'.out = v5.out /\ v5'.read = v5.read /\ v5'.pos = v5.pos /\ v5'.creds = v5.creds
  BY <1>1, <1>2 DEF Passed!Receivers
<1>4. Passed!TypeOK' /\ Passed!OptInv' /\ Passed!SenderInv' /\ Passed!ConnectedInv' /\ Passed!CredentialsTrue' /\ (Passed!SenderEnded' <=> Passed!SenderEnded)
  BY <1>1, <1>3, PasReceiver DEF Passed!Receiving
<1>5. Passed!ReceiverInv'
  BY <1>1, <1>3, <1>4 DEF Passed!ReceiverInv, Passed!Receiving
<1>6. Passed!HeadersInv' /\ Passed!ReadInv'
  BY <1>1, <1>3 DEF Passed!HeadersInv, Passed!ReadInv
<1>7. Passed!PrintedInv'
  BY <1>1, <1>3 DEF Passed!PrintedInv, Passed!Done, Passed!InOrder, Passed!Before, Passed!Part
<1> QED
  BY <1>4, <1>5, <1>6, <1>7 DEF Passed!IInv

\* The descriptors a header has space for are those it holds.
LEMMA PasFdList ==
  ASSUME NEW c, c.is \in Seq(Passed!Files), c.len = Passed!HDR + Passed!INT * Len(c.is)
  PROVE  Passed!FdList(c) = c.is
<1>1. c.len = 16 + 4 * Len(c.is) /\ Len(c.is) \in Nat
  BY DEF Passed!HDR, Passed!INT
<1>2. Passed!FdCnt(c) = Len(c.is)
  <2>1. Passed!FdCnt(c) = (4 * Len(c.is)) \div 4
    BY <1>1 DEF Passed!FdCnt, Passed!CMSG_LEN, Passed!HDR, Passed!INT
  <2>2. \A n \in Nat : (4 * n) \div 4 = n
    OBVIOUS
  <2> QED
    BY <1>1, <2>1, <2>2
<1>3. Passed!FdList(c) = [j \in 1..Len(c.is) |-> c.is[j]]
  BY <1>1, <1>2 DEF Passed!FdList
<1> QED
  BY <1>3

\* A header of the type descriptors have, taken from the end.
LEMMA PasTake ==
  ASSUME Passed!IInv, v5.pc = "headers", v5.cmsgs # <<>>, v5.cmsgs[1].type = "SCM_RIGHTS"
  PROVE  /\ Passed!FdList(v5.cmsgs[1]) = v5.open /\ Len(v5.cmsgs) = 1
         /\ v5.cmsgs[1].len = 16 + 4 * Len(v5.open)
<1>1. v5 \in Passed!Receivers /\ Passed!HeadersInv
  BY DEF Passed!IInv, Passed!TypeOK
<1>2. v5.cmsgs \in Seq(Passed!Headers) /\ v5.open \in Seq(Passed!Files)
  BY <1>1 DEF Passed!Receivers
<1>3. 1 \in DOMAIN v5.cmsgs
  BY <1>2
<1>4. 1 = Len(v5.cmsgs) /\ v5.cmsgs[1].is = v5.open /\ v5.cmsgs[1].len = Passed!HDR + Passed!INT * Len(v5.open)
  BY <1>1, <1>3 DEF Passed!HeadersInv
<1>5. Passed!FdList(v5.cmsgs[1]) = v5.cmsgs[1].is
  BY <1>2, <1>4, PasFdList
<1> QED
  BY <1>4, <1>5 DEF Passed!HDR, Passed!INT

\* The receiver begins to read the files.
LEMMA PasReads ==
  ASSUME Passed!IInv, v1' = v1, v2' = v2, v3' = v3, v4' = v4, v5.pc = "headers", v1 # "cred", v5' \in Passed!Receivers,
         v5'.pc = "read", v5'.list = v5.open, v5'.cmsgs = <<>>, v5'.open = v5.open, v5'.ctrunc = v5.ctrunc, v5'.sent = v5.sent,
         v5'.out = v5.out, v5'.read = v5.read, v5'.pos = v5.pos, v5'.creds = v5.creds
  PROVE  Passed!IInv'
<1>1. v5 \in Passed!Receivers /\ v4 \in Passed!Sockets /\ Passed!ReceiverInv /\ Passed!PrintedInv /\ Passed!ReadInv
  BY DEF Passed!IInv, Passed!TypeOK
<1>2. v5.pos = 0
  BY <1>1 DEF Passed!ReadInv, Passed!Receivers
<1>4. Passed!TypeOK' /\ Passed!OptInv' /\ Passed!SenderInv' /\ Passed!ConnectedInv' /\ Passed!CredentialsTrue' /\ (Passed!SenderEnded' <=> Passed!SenderEnded)
  BY <1>1, PasReceiver DEF Passed!Receiving
<1>5. Passed!ReceiverInv'
  BY <1>1, <1>4 DEF Passed!ReceiverInv, Passed!Receiving
<1>6. Passed!HeadersInv'
  BY DEF Passed!HeadersInv
<1>7. Passed!ReadInv'
  BY <1>1, <1>2 DEF Passed!ReadInv, Passed!ToRead
<1>8. Passed!PrintedInv'
  BY <1>1 DEF Passed!PrintedInv, Passed!Done, Passed!InOrder, Passed!Before, Passed!Part
<1> QED
  BY <1>4, <1>5, <1>6, <1>7, <1>8 DEF Passed!IInv

LEMMA PasTakeOne == Passed!IInv /\ Passed!TakeOne => Passed!IInv'
<1> SUFFICES ASSUME Passed!IInv, Passed!TakeOne PROVE Passed!IInv'
  OBVIOUS
<1>1. v5.pc = "headers" /\ v1 \in {"rights", "functions"} /\ v1' = v1 /\ v2' = v2 /\ v3' = v3 /\ v4' = v4
  BY DEF Passed!TakeOne
<1>2. v5 \in Passed!Receivers /\ Passed!HeadersInv
  BY DEF Passed!IInv, Passed!TypeOK
<1>3. CASE Passed!Only("SCM_RIGHTS", Passed!INT)
  <2>1. v5.cmsgs # <<>> /\ v5.cmsgs[1].type = "SCM_RIGHTS"
    BY <1>3 DEF Passed!Only
  <2>2. Passed!FdList(v5.cmsgs[1]) = v5.open
    BY <1>1, <2>1, PasTake
  <2>3. v5' = [v5 EXCEPT !.pc = "read", !.list = v5.open, !.cmsgs = <<>>] /\ <<>> \in Seq(Passed!Headers)
    BY <1>3, <2>2 DEF Passed!TakeOne
  <2>4. /\ v5' \in Passed!Receivers /\ v5'.pc = "read" /\ v5'.list = v5.open /\ v5'.cmsgs = <<>> /\ v5'.open = v5.open
        /\ v5'.ctrunc = v5.ctrunc /\ v5'.sent = v5.sent /\ v5'.out = v5.out /\ v5'.read = v5.read /\ v5'.pos = v5.pos
        /\ v5'.creds = v5.creds
    BY <1>2, <2>3 DEF Passed!Receivers
  <2> QED
    BY <1>1, <2>4, PasReads
<1>4. CASE ~Passed!Only("SCM_RIGHTS", Passed!INT)
  <2>1. Passed!Fatal
    BY <1>4 DEF Passed!TakeOne
  <2>2. CASE v5.cmsgs = <<>>
    <3>1. v5.sent = <<>> /\ Passed!SenderEnded
      BY <1>1, <1>2, <2>2 DEF Passed!HeadersInv
    <3> QED
      BY <1>1, <2>1, <3>1, PasFatal
  <2>3. CASE v5.cmsgs # <<>>
    <3>1. v5.cmsgs[1].type = "SCM_RIGHTS" /\ Len(v5.open) = 1
      BY <1>1, <1>2, <2>3 DEF Passed!HeadersInv
    <3>2. v5.cmsgs[1].len = 16 + 4 * Len(v5.open)
      BY <1>1, <2>3, <3>1, PasTake
    <3>3. v5.cmsgs[1].len = Passed!CMSG_LEN(Passed!INT)
      BY <3>1, <3>2 DEF Passed!CMSG_LEN, Passed!HDR, Passed!INT
    <3> QED
      BY <1>4, <2>3, <3>1, <3>3 DEF Passed!Only
  <2> QED
    BY <2>2, <2>3
<1> QED
  BY <1>3, <1>4

LEMMA PasTakeCred == Passed!IInv /\ Passed!TakeCred => Passed!IInv'
<1> SUFFICES ASSUME Passed!IInv, Passed!TakeCred PROVE Passed!IInv'
  OBVIOUS
<1>1. v5.pc = "headers" /\ v1 = "cred" /\ v1' = v1 /\ v2' = v2 /\ v3' = v3 /\ v4' = v4
  BY DEF Passed!TakeCred
<1>2. /\ v5 \in Passed!Receivers /\ v4 \in Passed!Sockets /\ Passed!HeadersInv /\ Passed!ReceiverInv /\ Passed!PrintedInv /\ Passed!ReadInv
      /\ Passed!OptInv
  BY DEF Passed!IInv, Passed!TypeOK
<1>3. v5.cmsgs \in Seq(Passed!Headers) /\ v5.sent = <<>> /\ v5.read \in Nat /\ v5.pos \in Nat /\ v5.open \in Seq(Passed!Files)
  BY <1>1, <1>2 DEF Passed!Receivers, Passed!ReceiverInv, Passed!OptInv
<1>4. CASE v5.cmsgs = <<>>
  <2>1. Passed!SenderEnded /\ Passed!Fatal
    BY <1>1, <1>2, <1>4 DEF Passed!HeadersInv, Passed!TakeCred, Passed!Only
  <2> QED
    BY <1>1, <1>3, <2>1, PasFatal
<1>5. CASE v5.cmsgs # <<>>
  <2> DEFINE c == v5.cmsgs[1].is
  <2>1. v5.cmsgs[1].type = "SCM_CREDENTIALS" /\ 1 \in DOMAIN v5.cmsgs
    BY <1>1, <1>2, <1>3, <1>5 DEF Passed!HeadersInv
  <2>2. /\ Passed!RightCreds(c) \/ (c = "nobody" /\ Passed!Unsent)
        /\ v5.cmsgs[1].len = Passed!CMSG_LEN(Passed!UCRED)
    BY <1>1, <1>2, <2>1 DEF Passed!HeadersInv
  <2>3. v5' = [v5 EXCEPT !.pc = "done", !.creds = c, !.open = <<>>] /\ <<>> \in Seq(Passed!Files)
    BY <1>5, <2>1, <2>2 DEF Passed!TakeCred, Passed!Only
  <2>4. c \in Passed!Creds
    BY <1>3, <2>1 DEF Passed!Headers
  <2> HIDE DEF c
  <2>5. /\ v5' \in Passed!Receivers /\ v5'.pc = "done" /\ v5'.creds = c /\ v5'.open = <<>> /\ v5'.ctrunc = v5.ctrunc /\ v5'.sent = v5.sent
        /\ v5'.out = v5.out /\ v5'.read = v5.read /\ v5'.pos = v5.pos
    BY <1>2, <2>3, <2>4 DEF Passed!Receivers
  <2>6. Passed!TypeOK' /\ Passed!OptInv' /\ Passed!SenderInv' /\ Passed!ConnectedInv' /\ (Passed!Unsent' <=> Passed!Unsent)
    BY <1>1, <1>2, <2>5, PasReceiver DEF Passed!Receiving
  <2>a. Passed!CredentialsTrue'
    BY <1>1, <2>2, <2>5, <2>6 DEF Passed!CredentialsTrue, Passed!RightCreds
  <2>7. Passed!ReceiverInv'
    BY <1>1, <1>2, <1>3, <2>5, <2>a DEF Passed!ReceiverInv, Passed!Receiving
  <2>8. Passed!HeadersInv'
    BY <2>5 DEF Passed!HeadersInv
  <2>9. Passed!ReadInv'
    <3>1. v5.pos = 0
      BY <1>1, <1>2, <1>3 DEF Passed!ReadInv
    <3>2. v5.read <= 0
      BY <1>2, <1>3 DEF Passed!PrintedInv
    <3>3. Passed!ToRead(<<>>)'
      BY <1>3, <2>5, <3>2 DEF Passed!ToRead
    <3> QED
      BY <2>5, <3>1, <3>3 DEF Passed!ReadInv
  <2>10. Passed!PrintedInv'
    BY <1>2, <2>5 DEF Passed!PrintedInv, Passed!Done, Passed!InOrder, Passed!Before, Passed!Part
  <2> QED
    BY <2>6, <2>7, <2>8, <2>9, <2>10 DEF Passed!IInv
<1> QED
  BY <1>4, <1>5

LEMMA PasNextHeader == Passed!IInv /\ Passed!NextHeader => Passed!IInv'
<1> SUFFICES ASSUME Passed!IInv, Passed!NextHeader PROVE Passed!IInv'
  OBVIOUS
<1>1. v5.pc = "headers" /\ v1 = "multi" /\ v1' = v1 /\ v2' = v2 /\ v3' = v3 /\ v4' = v4
  BY DEF Passed!NextHeader
<1>2. /\ v5 \in Passed!Receivers /\ v4 \in Passed!Sockets /\ Passed!HeadersInv /\ Passed!ReceiverInv /\ Passed!PrintedInv /\ Passed!ReadInv
  BY DEF Passed!IInv, Passed!TypeOK
<1>3. v5.cmsgs \in Seq(Passed!Headers) /\ v5.read \in Nat /\ v5.pos \in Nat /\ v5.open \in Seq(Passed!Files) /\ v5.sent \in Seq(Passed!Files)
  BY <1>2 DEF Passed!Receivers
<1>4. v5.pos = 0 /\ Passed!ToRead(v5.open)
  BY <1>1, <1>2, <1>3 DEF Passed!ReadInv
<1>5. CASE v5.cmsgs = <<>>
  <2>1. v5.open = <<>>
    BY <1>1, <1>2, <1>5 DEF Passed!HeadersInv
  <2>2. v5' = [v5 EXCEPT !.pc = "done"]
    BY <1>5 DEF Passed!NextHeader
  <2>3. /\ v5' \in Passed!Receivers /\ v5'.pc = "done" /\ v5'.creds = v5.creds /\ v5'.open = <<>> /\ v5'.ctrunc = v5.ctrunc /\ v5'.sent = v5.sent
        /\ v5'.out = v5.out /\ v5'.read = v5.read /\ v5'.pos = v5.pos
    BY <1>2, <2>1, <2>2 DEF Passed!Receivers
  <2>4. Passed!TypeOK' /\ Passed!OptInv' /\ Passed!SenderInv' /\ Passed!ConnectedInv' /\ Passed!CredentialsTrue'
    BY <1>1, <1>2, <2>3, PasReceiver DEF Passed!Receiving
  <2>5. Passed!ReceiverInv'
    BY <1>1, <1>2, <2>3, <2>4 DEF Passed!ReceiverInv, Passed!Receiving
  <2>6. Passed!HeadersInv'
    BY <2>3 DEF Passed!HeadersInv
  <2>7. Passed!ReadInv'
    BY <1>4, <2>1, <2>3 DEF Passed!ReadInv, Passed!ToRead
  <2>8. Passed!PrintedInv'
    BY <1>2, <2>3 DEF Passed!PrintedInv, Passed!Done, Passed!InOrder, Passed!Before, Passed!Part
  <2> QED
    BY <2>4, <2>5, <2>6, <2>7, <2>8 DEF Passed!IInv
<1>6. CASE v5.cmsgs # <<>>
  <2> DEFINE c == v5.cmsgs[1]
  <2>1. c \in Passed!Headers /\ 1 \in DOMAIN v5.cmsgs /\ Tail(v5.cmsgs) \in Seq(Passed!Headers)
    BY <1>3, <1>6
  <2>2. c.type \in {"SCM_RIGHTS", "SCM_CREDENTIALS"}
    BY <2>1 DEF Passed!Headers
  <2>3. CASE c.type = "SCM_RIGHTS"
    <3>1. Passed!FdList(c) = v5.open /\ Len(v5.cmsgs) = 1
      BY <1>1, <1>6, <2>3, PasTake
    <3>2. v5' = [v5 EXCEPT !.pc = "read", !.list = v5.open, !.cmsgs = Tail(@)]
      BY <1>6, <2>3, <3>1 DEF Passed!NextHeader
    <3>3. Tail(v5.cmsgs) = <<>>
      <4>1. Tail(v5.cmsgs) \in Seq(Passed!Headers) /\ Len(Tail(v5.cmsgs)) = 0
        BY <1>3, <1>6, <3>1
      <4> QED
        BY <4>1, EmptySeq
    <3>4. /\ v5' \in Passed!Receivers /\ v5'.pc = "read" /\ v5'.list = v5.open /\ v5'.cmsgs = <<>> /\ v5'.open = v5.open
          /\ v5'.ctrunc = v5.ctrunc /\ v5'.sent = v5.sent /\ v5'.out = v5.out /\ v5'.read = v5.read /\ v5'.pos = v5.pos
          /\ v5'.creds = v5.creds
      BY <1>2, <2>1, <3>2, <3>3 DEF Passed!Receivers
    <3> QED
      BY <1>1, <3>4, PasReads
  <2>4. CASE c.type = "SCM_CREDENTIALS" /\ c.len = Passed!CMSG_LEN(Passed!UCRED)
    <3>1. v5' = [v5 EXCEPT !.creds = c.is, !.cmsgs = Tail(@)]
      BY <1>6, <2>4 DEF Passed!NextHeader
    <3>2. c.is \in Passed!Creds /\ (Passed!RightCreds(c.is) \/ (c.is = "nobody" /\ Passed!Unsent))
      BY <1>1, <1>2, <2>1, <2>4 DEF Passed!HeadersInv, Passed!Headers
    <3>3. /\ v5' \in Passed!Receivers /\ v5'.pc = "headers" /\ v5'.cmsgs = Tail(v5.cmsgs) /\ v5'.open = v5.open
          /\ v5'.ctrunc = v5.ctrunc /\ v5'.sent = v5.sent /\ v5'.out = v5.out /\ v5'.read = v5.read /\ v5'.pos = v5.pos
          /\ v5'.creds = c.is
      BY <1>1, <1>2, <2>1, <3>1, <3>2 DEF Passed!Receivers
    <3>4. Passed!TypeOK' /\ Passed!OptInv' /\ Passed!SenderInv' /\ Passed!ConnectedInv' /\ (Passed!SenderEnded' <=> Passed!SenderEnded)
          /\ (Passed!Unsent' <=> Passed!Unsent)
      BY <1>1, <1>2, <3>3, PasReceiver DEF Passed!Receiving
    <3>a. Passed!CredentialsTrue'
      BY <1>1, <3>2, <3>3, <3>4 DEF Passed!CredentialsTrue, Passed!RightCreds
    <3>5. Passed!ReceiverInv'
      BY <1>1, <1>2, <3>3, <3>a DEF Passed!ReceiverInv, Passed!Receiving
    <3>6. Passed!HeadersInv'
      <4> DEFINE q == Tail(v5.cmsgs)
      <4>1. Len(q) = Len(v5.cmsgs) - 1 /\ \A j \in DOMAIN q : j + 1 \in DOMAIN v5.cmsgs /\ q[j] = v5.cmsgs[j + 1]
        BY <1>3, <1>6
      <4>2. v5.open # <<>> => q # <<>> /\ q[Len(q)].type = "SCM_RIGHTS"
        <5> SUFFICES ASSUME v5.open # <<>> PROVE q # <<>> /\ q[Len(q)].type = "SCM_RIGHTS"
          OBVIOUS
        <5>1. v5.cmsgs[Len(v5.cmsgs)].type = "SCM_RIGHTS"
          BY <1>1, <1>2 DEF Passed!HeadersInv
        <5>2. Len(v5.cmsgs) # 1 /\ Len(v5.cmsgs) \in Nat
          BY <1>3, <2>4, <5>1
        <5>a. Len(v5.cmsgs) # 0
          BY <1>3, <1>6, EmptySeq
        <5>b. Len(q) \in Nat /\ Len(q) = Len(v5.cmsgs) - 1
          BY <2>1, <4>1
        <5> HIDE DEF q
        <5>3. Len(q) >= 1 /\ Len(q) \in Nat /\ Len(q) + 1 = Len(v5.cmsgs) /\ Len(q) # 0
          <6>1. \A a, b \in Nat : a # 0 /\ a # 1 /\ b = a - 1 => b >= 1 /\ b + 1 = a /\ b # 0
            OBVIOUS
          <6> QED
            BY <5>2, <5>a, <5>b, <6>1
        <5>6. Len(q) \in DOMAIN q
          BY <2>1, <5>3 DEF q
        <5>4. q[Len(q)] = v5.cmsgs[Len(v5.cmsgs)]
          BY <4>1, <5>3, <5>6
        <5>5. q # <<>>
          BY <5>3
        <5> QED
          BY <5>1, <5>4, <5>5
      <4>3. \A j \in DOMAIN q :
              /\ q[j].type = "SCM_RIGHTS" => j = Len(q) /\ q[j].is = v5.open /\ q[j].len = Passed!HDR + Passed!INT * Len(v5.open)
              /\ q[j].type = "SCM_CREDENTIALS" =>
                   /\ Passed!RightCreds(q[j].is) \/ (q[j].is = "nobody" /\ Passed!Unsent)
                   /\ q[j].len = Passed!CMSG_LEN(Passed!UCRED) \/ (v1 = "multi" /\ (v5.ctrunc \/ (Passed!SenderEnded /\ v5.sent = <<>>)))
        <5> SUFFICES ASSUME NEW j \in DOMAIN q
                     PROVE  /\ q[j].type = "SCM_RIGHTS" => j = Len(q) /\ q[j].is = v5.open /\ q[j].len = Passed!HDR + Passed!INT * Len(v5.open)
                            /\ q[j].type = "SCM_CREDENTIALS" =>
                                 /\ Passed!RightCreds(q[j].is) \/ (q[j].is = "nobody" /\ Passed!Unsent)
                                 /\ q[j].len = Passed!CMSG_LEN(Passed!UCRED) \/ (v1 = "multi" /\ (v5.ctrunc \/ (Passed!SenderEnded /\ v5.sent = <<>>)))
          OBVIOUS
        <5>1. j + 1 \in DOMAIN v5.cmsgs /\ q[j] = v5.cmsgs[j + 1] /\ j \in Int
          BY <1>3, <1>6, <4>1
        <5>2. j + 1 = Len(v5.cmsgs) => j = Len(q)
          BY <1>3, <4>1, <5>1
        <5> HIDE DEF q
        <5> QED
          BY <1>1, <1>2, <5>1, <5>2 DEF Passed!HeadersInv
      <4> HIDE DEF q
      <4>4. v5'.cmsgs = q
        BY <3>3 DEF q
      <4> QED
        BY <1>1, <3>3, <3>4, <4>2, <4>3, <4>4, PasFrame DEF Passed!HeadersInv
    <3>7. Passed!ReadInv'
      BY <1>4, <3>3 DEF Passed!ReadInv, Passed!ToRead
    <3>8. Passed!PrintedInv'
      BY <1>2, <3>3 DEF Passed!PrintedInv, Passed!Done, Passed!InOrder, Passed!Before, Passed!Part
    <3> QED
      BY <3>4, <3>5, <3>6, <3>7, <3>8 DEF Passed!IInv
  <2>5. CASE c.type = "SCM_CREDENTIALS" /\ c.len # Passed!CMSG_LEN(Passed!UCRED)
    <3>1. Passed!Fatal
      BY <1>6, <2>5 DEF Passed!NextHeader
    <3>2. v5.ctrunc \/ (Passed!SenderEnded /\ v5.sent = <<>>)
      BY <1>1, <1>2, <2>1, <2>5 DEF Passed!HeadersInv
    <3> QED
      BY <1>1, <3>1, <3>2, PasFatal
  <2> QED
    BY <2>2, <2>3, <2>4, <2>5
<1> QED
  BY <1>5, <1>6

\* One part more is printed of the file at hand.
LEMMA PasPrints ==
  ASSUME Passed!IInv, v1' = v1, v2' = v2, v3' = v3, v4' = v4, Passed!ReadFile, v5.list # <<>>, v5.pos < PasContent[Head(v5.list)]
  PROVE  Passed!IInv'
<1> DEFINE f == Head(v5.list)
           x == Passed!Part(v5.read + 1, f, v5.pos + 1)
           o == Append(v5.out, x)
<1>1. v5.pc = "read"
  BY DEF Passed!ReadFile
<1>2. /\ v5 \in Passed!Receivers /\ v4 \in Passed!Sockets /\ Passed!ReceiverInv /\ Passed!PrintedInv /\ Passed!ReadInv
  BY DEF Passed!IInv, Passed!TypeOK
<1>3. /\ v5.list \in Seq(Passed!Files) /\ v5.sent \in Seq(Passed!Files) /\ v5.read \in Nat /\ v5.pos \in Nat
      /\ v5.out \in Seq(Passed!Parts)
  BY <1>2 DEF Passed!Receivers
<1>4. f \in Passed!Files /\ 1 \in DOMAIN v5.list /\ f = v5.list[1] /\ Len(v5.list) >= 1
  BY <1>3
<1>5. f # "EBADF" /\ PasContent[f] \in Nat
  BY <1>4, PasBounds DEF Passed!Files
<1>6. v5' = [v5 EXCEPT !.pos = @ + 1, !.out = o]
  BY <1>5 DEF Passed!ReadFile
<1>7. Passed!ToRead(v5.list)
  BY <1>1, <1>2 DEF Passed!ReadInv
<1>8. v5.read + 1 <= Len(v5.sent) /\ v5.sent[v5.read + 1] = f /\ Len(v5.sent) \in Nat
  BY <1>3, <1>4, <1>7 DEF Passed!ToRead
<1>9. x \in Passed!Parts /\ x.nr = v5.read + 1 /\ x.file = f /\ x.pos = v5.pos + 1
  BY <1>3, <1>4 DEF Passed!Part, Passed!Parts
<1> HIDE DEF f, x
<1>10. /\ o \in Seq(Passed!Parts) /\ Len(o) = Len(v5.out) + 1 /\ o[Len(v5.out) + 1] = x
       /\ \A k \in DOMAIN v5.out : k \in DOMAIN o /\ o[k] = v5.out[k] /\ k <= Len(v5.out)
       /\ \A k \in DOMAIN o : k \in Nat /\ (k \in DOMAIN v5.out \/ k = Len(v5.out) + 1)
       /\ Len(v5.out) \in Nat /\ Len(v5.out) + 1 \in DOMAIN o
  <2>1. o \in Seq(Passed!Parts) /\ Len(o) = Len(v5.out) + 1 /\ o[Len(v5.out) + 1] = x /\ Len(v5.out) \in Nat
    BY <1>3, <1>9
  <2>2. DOMAIN o = 1..(Len(v5.out) + 1) /\ DOMAIN v5.out = 1..Len(v5.out)
    BY <1>3, <1>9
  <2>3. \A k \in 1..Len(v5.out) : o[k] = v5.out[k]
    BY <1>3, <1>9
  <2> HIDE DEF o
  <2> QED
    BY <2>1, <2>2, <2>3
<1> HIDE DEF o
<1>11. /\ v5' \in Passed!Receivers /\ v5'.pc = "read" /\ v5'.list = v5.list /\ v5'.cmsgs = v5.cmsgs /\ v5'.open = v5.open
       /\ v5'.ctrunc = v5.ctrunc /\ v5'.sent = v5.sent /\ v5'.out = o /\ v5'.read = v5.read /\ v5'.pos = v5.pos + 1
       /\ v5'.creds = v5.creds
  <2>1. v5.pos + 1 \in Nat /\ o \in Seq(Passed!Parts) /\ v5' = [v5 EXCEPT !.pos = v5.pos + 1, !.out = o]
    BY <1>2, <1>3, <1>6, <1>10 DEF Passed!Receivers
  <2> HIDE DEF o
  <2> DEFINE n == v5.pos + 1
  <2>2. n \in Nat /\ v5' = [v5 EXCEPT !.pos = n, !.out = o]
    BY <2>1
  <2> HIDE DEF n
  <2>3. /\ v5' \in Passed!Receivers /\ v5'.pc = "read" /\ v5'.list = v5.list /\ v5'.cmsgs = v5.cmsgs /\ v5'.open = v5.open
        /\ v5'.ctrunc = v5.ctrunc /\ v5'.sent = v5.sent /\ v5'.out = o /\ v5'.read = v5.read /\ v5'.pos = n
        /\ v5'.creds = v5.creds
    BY <1>1, <1>2, <2>1, <2>2 DEF Passed!Receivers
  <2> QED
    BY <2>3 DEF n
<1>12. Passed!TypeOK' /\ Passed!OptInv' /\ Passed!SenderInv' /\ Passed!ConnectedInv' /\ Passed!CredentialsTrue' /\ (Passed!SenderEnded' <=> Passed!SenderEnded)
  BY <1>1, <1>2, <1>11, PasReceiver DEF Passed!Receiving
<1>13. Passed!ReceiverInv'
  BY <1>1, <1>2, <1>11, <1>12 DEF Passed!ReceiverInv, Passed!Receiving
<1>14. Passed!HeadersInv'
  BY <1>11 DEF Passed!HeadersInv
<1>15. Passed!ReadInv'
  <2>1. v5.pos + 1 <= PasContent[Head(v5.list)]
    BY <1>3, <1>5 DEF f
  <2>2. Passed!ToRead(v5.list)' /\ v5.cmsgs = <<>> /\ v1 # "cred" /\ (v1 = "multi" => v5.open = v5.list)
    BY <1>1, <1>2, <1>7, <1>11 DEF Passed!ReadInv, Passed!ToRead
  <2> QED
    BY <1>11, <2>1, <2>2 DEF Passed!ReadInv
<1>16. Passed!PrintedInv'
  <2>1. \A k \in DOMAIN v5.out : /\ v5.out[k].nr \in 1..Len(v5.sent) /\ v5.out[k].file = v5.sent[v5.out[k].nr] /\ v5.out[k].pos >= 1
                                 /\ Passed!Done(v5.out[k].nr, v5.out[k].pos) /\ v5.out[k].pos \in Nat
    <3>1. \A k \in DOMAIN v5.out : v5.out[k] \in Passed!Parts
      BY <1>3
    <3>2. \A y \in Passed!Parts : y.pos \in Nat
      BY DEF Passed!Parts
    <3> QED
      BY <1>2, <3>1, <3>2 DEF Passed!PrintedInv
  <2>2. \A i, j \in Nat : Passed!Done(i, j)' <=> Passed!Done(i, j) \/ (i = v5.read + 1 /\ j = v5.pos + 1)
    BY <1>3, <1>11 DEF Passed!Done
  <2>3. \A k \in DOMAIN o : /\ o[k].nr \in 1..Len(v5.sent) /\ o[k].file = v5.sent[o[k].nr] /\ o[k].pos >= 1
                            /\ Passed!Done(o[k].nr, o[k].pos) \/ (o[k].nr = v5.read + 1 /\ o[k].pos = v5.pos + 1)
                            /\ o[k].pos \in Nat /\ o[k].nr \in Nat
    <3> SUFFICES ASSUME NEW k \in DOMAIN o
                 PROVE  /\ o[k].nr \in 1..Len(v5.sent) /\ o[k].file = v5.sent[o[k].nr] /\ o[k].pos >= 1
                        /\ Passed!Done(o[k].nr, o[k].pos) \/ (o[k].nr = v5.read + 1 /\ o[k].pos = v5.pos + 1)
                        /\ o[k].pos \in Nat /\ o[k].nr \in Nat
      OBVIOUS
    <3>1. CASE k \in DOMAIN v5.out
      BY <1>8, <1>10, <2>1, <3>1
    <3>2. CASE k = Len(v5.out) + 1
      <4>1. o[k] = x /\ x.nr = v5.read + 1 /\ x.file = f /\ x.pos = v5.pos + 1
        BY <1>9, <1>10, <3>2
      <4>2. v5.read + 1 \in 1..Len(v5.sent) /\ v5.pos + 1 >= 1 /\ v5.pos + 1 \in Nat /\ v5.read + 1 \in Nat
        BY <1>3, <1>8
      <4> QED
        BY <1>8, <4>1, <4>2
    <3> QED
      BY <1>10, <3>1, <3>2
  <2>4. \A k \in DOMAIN o : IF o[k].nr <= v5.read THEN o[k].pos <= PasContent[v5.sent[o[k].nr]]
                            ELSE o[k].nr = v5.read + 1 /\ o[k].pos <= v5.pos + 1
    BY <1>3, <2>3 DEF Passed!Done
  <2>5. \A i \in 1..Len(v5.sent) : \A j \in 1..PasContent[v5.sent[i]] :
          Passed!Done(i, j) \/ (i = v5.read + 1 /\ j = v5.pos + 1) => \E k \in DOMAIN o : o[k] = Passed!Part(i, v5.sent[i], j)
    <3> SUFFICES ASSUME NEW i \in 1..Len(v5.sent), NEW j \in 1..PasContent[v5.sent[i]],
                        Passed!Done(i, j) \/ (i = v5.read + 1 /\ j = v5.pos + 1)
                 PROVE  \E k \in DOMAIN o : o[k] = Passed!Part(i, v5.sent[i], j)
      OBVIOUS
    <3>1. CASE Passed!Done(i, j)
      <4>1. PICK k \in DOMAIN v5.out : v5.out[k] = Passed!Part(i, v5.sent[i], j)
        BY <1>2, <3>1 DEF Passed!PrintedInv
      <4> QED
        BY <1>10, <4>1
    <3>2. CASE i = v5.read + 1 /\ j = v5.pos + 1
      BY <1>8, <1>10, <3>2 DEF x
    <3> QED
      BY <3>1, <3>2
  <2>6. \A i \in 1..Len(v5.sent) : \A j \in 1..PasContent[v5.sent[i]] :
          Passed!Done(i, j)' => \E k \in DOMAIN o : o[k] = Passed!Part(i, v5.sent[i], j)
    <3>1. \A i \in 1..Len(v5.sent) : \A j \in 1..PasContent[v5.sent[i]] : i \in Nat /\ j \in Nat
      BY <1>8
    <3> QED
      BY <2>2, <2>5, <3>1
  <2>7. \A k \in DOMAIN v5.out : Passed!Before(v5.out[k], x)
    <3> SUFFICES ASSUME NEW k \in DOMAIN v5.out PROVE Passed!Before(v5.out[k], x)
      OBVIOUS
    <3>1. Passed!Done(v5.out[k].nr, v5.out[k].pos) /\ v5.out[k].nr \in Nat /\ v5.out[k].pos \in Nat
      BY <1>8, <2>1
    <3>2. x.nr = v5.read + 1 /\ x.pos = v5.pos + 1 /\ v5.read \in Nat /\ v5.pos \in Nat
      BY <1>3, <1>9
    <3> QED
      BY <3>1, <3>2 DEF Passed!Before, Passed!Done
  <2>8. \A i, j \in DOMAIN o : i < j => Passed!Before(o[i], o[j])
    <3> SUFFICES ASSUME NEW i \in DOMAIN o, NEW j \in DOMAIN o, i < j PROVE Passed!Before(o[i], o[j])
      OBVIOUS
    <3>1. i \in DOMAIN v5.out
      BY <1>3, <1>10
    <3>2. CASE j \in DOMAIN v5.out
      BY <1>2, <1>10, <3>1, <3>2 DEF Passed!PrintedInv, Passed!InOrder
    <3>3. CASE j = Len(v5.out) + 1
      BY <1>10, <2>7, <3>1, <3>3
    <3> QED
      BY <1>10, <3>2, <3>3
  <2>9. \A i, j : Passed!Before(i, j)' <=> Passed!Before(i, j)
    BY DEF Passed!Before
  <2>10. Passed!InOrder'
    BY <1>11, <2>8 DEF Passed!InOrder, Passed!Before
  <2> QED
    BY <1>3, <1>8, <1>11, <2>3, <2>4, <2>6, <2>10 DEF Passed!PrintedInv, Passed!Part, Passed!Done
<1> QED
  BY <1>12, <1>13, <1>14, <1>15, <1>16 DEF Passed!IInv

\* The end of a file is reached.
LEMMA PasCloses ==
  ASSUME Passed!IInv, v1' = v1, v2' = v2, v3' = v3, v4' = v4, Passed!ReadFile, v5.list # <<>>, ~(v5.pos < PasContent[Head(v5.list)])
  PROVE  Passed!IInv'
<1> DEFINE f == Head(v5.list)
<1>1. v5.pc = "read"
  BY DEF Passed!ReadFile
<1>2. /\ v5 \in Passed!Receivers /\ v4 \in Passed!Sockets /\ Passed!ReceiverInv /\ Passed!PrintedInv /\ Passed!ReadInv
  BY DEF Passed!IInv, Passed!TypeOK
<1>3. /\ v5.list \in Seq(Passed!Files) /\ v5.sent \in Seq(Passed!Files) /\ v5.read \in Nat /\ v5.pos \in Nat /\ v5.open \in Seq(Passed!Files)
      /\ v5.out \in Seq(Passed!Parts)
  BY <1>2 DEF Passed!Receivers
<1>4. f \in Passed!Files /\ 1 \in DOMAIN v5.list /\ f = v5.list[1] /\ Len(v5.list) >= 1
  BY <1>3
<1>5. f # "EBADF" /\ PasContent[f] \in Nat
  BY <1>4, PasBounds DEF Passed!Files
<1>6. v5' = [v5 EXCEPT !.pos = 0, !.read = @ + 1, !.list = Tail(@), !.open = IF v1 = "multi" THEN Tail(@) ELSE @]
  BY <1>5 DEF Passed!ReadFile
<1>7. Passed!ToRead(v5.list) /\ (v1 = "multi" => v5.open = v5.list) /\ v5.cmsgs = <<>> /\ v1 # "cred"
  BY <1>1, <1>2 DEF Passed!ReadInv
<1>8. v5.read + 1 <= Len(v5.sent) /\ v5.sent[v5.read + 1] = f /\ Len(v5.sent) \in Nat
  BY <1>3, <1>4, <1>7 DEF Passed!ToRead
<1>9. v5.pos = PasContent[f]
  <2>1. v5.pos > 0 => v5.pos <= PasContent[f]
    BY <1>2 DEF Passed!ReadInv
  <2> QED
    BY <1>3, <1>5, <2>1
<1> HIDE DEF f
<1>10. /\ Tail(v5.list) \in Seq(Passed!Files) /\ Len(Tail(v5.list)) = Len(v5.list) - 1
       /\ \A j \in DOMAIN Tail(v5.list) : j + 1 \in DOMAIN v5.list /\ Tail(v5.list)[j] = v5.list[j + 1] /\ j \in Nat
  BY <1>3
<1> DEFINE t == Tail(v5.list)
           p == IF v1 = "multi" THEN t ELSE v5.open
<1>11. v5' = [v5 EXCEPT !.pos = 0, !.read = @ + 1, !.list = t, !.open = p] /\ p \in Seq(Passed!Files) /\ t \in Seq(Passed!Files)
  BY <1>3, <1>6, <1>7, <1>10
<1>12. v1 = "multi" => p = t
  OBVIOUS
<1> HIDE DEF p
<1>13. /\ v5' \in Passed!Receivers /\ v5'.pc = "read" /\ v5'.list = t /\ v5'.cmsgs = v5.cmsgs /\ v5'.open = p
       /\ v5'.ctrunc = v5.ctrunc /\ v5'.sent = v5.sent /\ v5'.out = v5.out /\ v5'.read = v5.read + 1 /\ v5'.pos = 0
       /\ v5'.creds = v5.creds
  <2> HIDE DEF t
  <2>1. v5.read + 1 \in Nat /\ 0 \in Nat
    BY <1>3
  <2> QED
    BY <1>1, <1>2, <1>11, <2>1 DEF Passed!Receivers
<1>14. Passed!TypeOK' /\ Passed!OptInv' /\ Passed!SenderInv' /\ Passed!ConnectedInv' /\ Passed!CredentialsTrue' /\ (Passed!SenderEnded' <=> Passed!SenderEnded)
  BY <1>1, <1>2, <1>13, PasReceiver DEF Passed!Receiving
<1>15. Passed!ReceiverInv'
  BY <1>1, <1>2, <1>13, <1>14 DEF Passed!ReceiverInv, Passed!Receiving
<1>16. Passed!HeadersInv'
  BY <1>13 DEF Passed!HeadersInv
<1>17. Passed!ReadInv'
  <2>1. (v5.read + 1) + Len(t) = v5.read + Len(v5.list)
    BY <1>3, <1>10
  <2>2. \A j \in DOMAIN t : t[j] = v5.sent[(v5.read + 1) + j]
    <3> SUFFICES ASSUME NEW j \in DOMAIN t PROVE t[j] = v5.sent[(v5.read + 1) + j]
      OBVIOUS
    <3>1. j + 1 \in DOMAIN v5.list /\ t[j] = v5.list[j + 1] /\ j \in Nat
      BY <1>10
    <3>2. v5.list[j + 1] = v5.sent[v5.read + (j + 1)]
      BY <1>7, <3>1 DEF Passed!ToRead
    <3>3. \A a, b \in Nat : a + (b + 1) = (a + 1) + b
      OBVIOUS
    <3>4. v5.read \in Nat
      BY <1>3
    <3> QED
      BY <3>1, <3>2, <3>3, <3>4
  <2> HIDE DEF t
  <2>4. (\A l : l = t => Passed!ToRead(l)')
    BY <1>7, <1>13, <2>1, <2>2 DEF Passed!ToRead
  <2> QED
    BY <1>7, <1>12, <1>13, <2>4 DEF Passed!ReadInv, Passed!ToRead
<1>18. Passed!PrintedInv'
  <2>1. \A i, j \in Nat : i <= Len(v5.sent) /\ i >= 1 /\ j >= 1 => (Passed!Done(i, j)' <=> Passed!Done(i, j))
    <3> SUFFICES ASSUME NEW i \in Nat, NEW j \in Nat, i >= 1, j >= 1, i <= Len(v5.sent)
                 PROVE  Passed!Done(i, j)' <=> Passed!Done(i, j)
      OBVIOUS
    <3>1. CASE i <= v5.read
      BY <1>3, <1>13, <3>1 DEF Passed!Done
    <3>2. CASE i = v5.read + 1
      BY <1>3, <1>8, <1>9, <1>13, <3>2 DEF Passed!Done
    <3>3. CASE i > v5.read + 1
      BY <1>3, <1>13, <3>3 DEF Passed!Done
    <3> QED
      BY <1>3, <3>1, <3>2, <3>3
  <2>2. \A k \in DOMAIN v5.out : /\ v5.out[k].nr \in 1..Len(v5.sent) /\ v5.out[k].file = v5.sent[v5.out[k].nr] /\ v5.out[k].pos >= 1
                                 /\ Passed!Done(v5.out[k].nr, v5.out[k].pos) /\ v5.out[k].pos \in Nat /\ v5.out[k].nr \in Nat
    <3>1. \A k \in DOMAIN v5.out : v5.out[k] \in Passed!Parts
      BY <1>3
    <3>2. \A y \in Passed!Parts : y.pos \in Nat /\ y.nr \in Nat
      BY DEF Passed!Parts
    <3> QED
      BY <1>2, <3>1, <3>2 DEF Passed!PrintedInv
  <2>3. \A k \in DOMAIN v5.out : \A i, j \in Nat : i = v5.out[k].nr /\ j = v5.out[k].pos => Passed!Done(i, j)'
    BY <1>8, <2>1, <2>2
  <2>4. \A i \in 1..Len(v5.sent) : \A j \in 1..PasContent[v5.sent[i]] :
          Passed!Done(i, j)' => \E k \in DOMAIN v5.out : v5.out[k] = Passed!Part(i, v5.sent[i], j)
    <3>1. \A i \in 1..Len(v5.sent) : \A j \in 1..PasContent[v5.sent[i]] : i \in Nat /\ j \in Nat /\ j >= 1
      BY <1>8
    <3> QED
      BY <1>2, <1>8, <2>1, <3>1 DEF Passed!PrintedInv
  <2>5. Passed!InOrder'
    BY <1>2, <1>13 DEF Passed!PrintedInv, Passed!InOrder, Passed!Before
  <2> QED
    BY <1>8, <1>13, <2>2, <2>3, <2>4, <2>5 DEF Passed!PrintedInv, Passed!Part, Passed!Done
<1> QED
  BY <1>14, <1>15, <1>16, <1>17, <1>18 DEF Passed!IInv

LEMMA PasReadFile == Passed!IInv /\ Passed!ReadFile => Passed!IInv'
<1> SUFFICES ASSUME Passed!IInv, Passed!ReadFile PROVE Passed!IInv'
  OBVIOUS
<1>1. v5.pc = "read" /\ v1' = v1 /\ v2' = v2 /\ v3' = v3 /\ v4' = v4
  BY DEF Passed!ReadFile
<1>2. /\ v5 \in Passed!Receivers /\ v4 \in Passed!Sockets /\ Passed!ReceiverInv /\ Passed!PrintedInv /\ Passed!ReadInv /\ Passed!TypeOK
  BY DEF Passed!IInv, Passed!TypeOK
<1>3. CASE v5.list = <<>>
  <2> DEFINE l == IF v1 = "multi" THEN "headers" ELSE "done"
             p == IF v1 = "multi" THEN v5.open ELSE <<>>
  <2>1. v5' = [v5 EXCEPT !.pc = l, !.open = p]
    BY <1>3 DEF Passed!ReadFile
  <2>2. Passed!ToRead(<<>>) /\ v5.cmsgs = <<>> /\ (v1 = "multi" => v5.open = <<>>)
    BY <1>1, <1>2, <1>3 DEF Passed!ReadInv
  <2>3. p = <<>> /\ <<>> \in Seq(Passed!Files) /\ l \in {"headers", "done"} /\ (l = "headers" => v1 = "multi")
    BY <2>2
  <2>4. v1 # "cred"
    BY <1>1, <1>2 DEF Passed!ReadInv
  <2> HIDE DEF l, p
  <2>5. /\ v5' \in Passed!Receivers /\ v5'.pc = l /\ v5'.list = v5.list /\ v5'.cmsgs = v5.cmsgs /\ v5'.open = <<>>
        /\ v5'.ctrunc = v5.ctrunc /\ v5'.sent = v5.sent /\ v5'.out = v5.out /\ v5'.read = v5.read /\ v5'.pos = v5.pos
        /\ v5'.creds = v5.creds
    BY <1>2, <2>1, <2>3 DEF Passed!Receivers
  <2>6. Passed!TypeOK' /\ Passed!OptInv' /\ Passed!SenderInv' /\ Passed!ConnectedInv' /\ Passed!CredentialsTrue' /\ (Passed!SenderEnded' <=> Passed!SenderEnded)
    BY <1>1, <1>2, <2>3, <2>4, <2>5, PasReceiver DEF Passed!Receiving
  <2>7. Passed!ReceiverInv'
    BY <1>1, <1>2, <2>3, <2>4, <2>5, <2>6 DEF Passed!ReceiverInv, Passed!Receiving
  <2>8. Passed!HeadersInv'
    BY <1>1, <2>2, <2>3, <2>5 DEF Passed!HeadersInv
  <2>9. Passed!ReadInv'
    <3>1. v5.pos = 0
      BY <1>2, <1>3 DEF Passed!ReadInv, Passed!Receivers
    <3> QED
      BY <2>2, <2>3, <2>5, <3>1 DEF Passed!ReadInv, Passed!ToRead
  <2>10. Passed!PrintedInv'
    BY <1>2, <2>5 DEF Passed!PrintedInv, Passed!Done, Passed!InOrder, Passed!Before, Passed!Part
  <2> QED
    BY <2>6, <2>7, <2>8, <2>9, <2>10 DEF Passed!IInv
<1>4. CASE v5.list # <<>>
  BY <1>1, <1>4, PasPrints, PasCloses
<1> QED
  BY <1>3, <1>4

LEMMA PasNext == Passed!IInv /\ [Passed!Next]_(Passed!vars) => Passed!IInv'
<1> SUFFICES ASSUME Passed!IInv, [Passed!Next]_(Passed!vars) PROVE Passed!IInv'
  OBVIOUS
<1>1. v3 \in Passed!Senders /\ Passed!OptInv /\ Passed!SenderInv /\ v2.files \in Seq(Passed!Files)
      /\ v2.creds \in {"none", "own", "other"} /\ v2.data \in BOOLEAN
  BY DEF Passed!IInv, Passed!TypeOK
<1>2. v3.fds \in Seq(Passed!Files)
  BY <1>1 DEF Passed!Senders
<1>3. ASSUME Passed!SendMsg(Passed!RightsMessage), v1 \in {"rights", "functions"} PROVE Passed!IInv'
  <2> DEFINE m == Passed!RightsMessage
  <2>1. v2.files = v3.fds /\ v2.creds = "none"
    BY <1>1, <1>3 DEF Passed!SendMsg, Passed!SenderInv, Passed!OptInv
  <2>2. m \in Passed!Messages /\ m.rights = v3.fds /\ m.creds = "none" /\ m.data
    BY <1>2 DEF Passed!RightsMessage, Passed!Messages, Passed!Creds
  <2> QED
    BY <1>3, <2>1, <2>2, PasSendMsg
<1>4. ASSUME Passed!SendMsg(Passed!CredMessage), v1 = "cred" PROVE Passed!IInv'
  <2> DEFINE m == Passed!CredMessage
  <2>1. v2.files = <<>> /\ <<>> \in Seq(Passed!Files)
    BY <1>1, <1>4 DEF Passed!OptInv
  <2>2. m \in Passed!Messages /\ m.rights = <<>> /\ m.creds = v2.creds /\ m.data
    BY <1>1, <2>1 DEF Passed!CredMessage, Passed!Messages, Passed!Creds
  <2> QED
    BY <1>4, <2>1, <2>2, PasSendMsg
<1>5. ASSUME Passed!SendMsg(Passed!MultiMessage), v1 = "multi" PROVE Passed!IInv'
  <2> DEFINE m == Passed!MultiMessage
  <2>1. v2.files = v3.fds /\ v2.creds # "none"
    BY <1>1, <1>5 DEF Passed!SendMsg, Passed!SenderInv, Passed!OptInv
  <2>2. m \in Passed!Messages /\ m.rights = v3.fds /\ m.creds = v2.creds /\ m.data = v2.data
    BY <1>1, <1>2, <2>1 DEF Passed!MultiMessage, Passed!Messages, Passed!Creds
  <2> QED
    BY <1>5, <2>1, <2>2, PasSendMsg
<1>6. CASE Passed!sendfd
  BY <1>3, <1>6 DEF Passed!sendfd
<1>7. CASE Passed!scm_rights_send
  BY <1>3, <1>7, PasOpenFile, PasConnect, PasSenderExits DEF Passed!scm_rights_send
<1>8. CASE Passed!scm_cred_send
  BY <1>4, <1>8, PasOpenFile, PasConnect, PasSenderExits DEF Passed!scm_cred_send
<1>9. CASE Passed!scm_multi_send
  BY <1>5, <1>9, PasOpenFile, PasConnect, PasSenderExits DEF Passed!scm_multi_send
<1>10. CASE Passed!recvfd
  BY <1>10, PasRecvMsg, PasTakeOne DEF Passed!recvfd
<1>11. Passed!Receive => Passed!IInv'
  BY PasBind, PasAccept, PasSetPasscred, PasRecvMsg DEF Passed!Receive
<1>12. CASE Passed!scm_rights_recv
  BY <1>11, <1>12, PasBind, PasAccept, PasSetPasscred, PasTakeOne, PasReadFile DEF Passed!scm_rights_recv
<1>13. CASE Passed!scm_cred_recv
  BY <1>11, <1>13, PasTakeCred DEF Passed!scm_cred_recv
<1>14. CASE Passed!scm_multi_recv
  BY <1>11, <1>14, PasNextHeader, PasReadFile DEF Passed!scm_multi_recv
<1>15. CASE UNCHANGED Passed!vars
  <2>1. v1' = v1 /\ v2' = v2 /\ v3' = v3 /\ v4' = v4 /\ v5' = v5
    BY <1>15 DEF Passed!vars
  <2>2. Passed!TypeOK' /\ Passed!SenderInv'
    BY <1>1, <2>1, PasFrame DEF Passed!IInv, Passed!TypeOK, Passed!SenderInv
  <2>3. Passed!ConnectedInv' /\ (Passed!Unsent' <=> Passed!Unsent)
    BY <2>1 DEF Passed!IInv, Passed!ConnectedInv, Passed!Unsent
  <2> QED
    BY <2>1, <2>2, <2>3, PasSender DEF Passed!SenderEnded
<1> QED
  BY <1>6, <1>7, <1>8, <1>9, <1>10, <1>12, <1>13, <1>14, <1>15 DEF Passed!Next

\* At the end what was printed is the parts of the files read, and the files
\* read are all the kernel passed on.
LEMMA PasSafe == Passed!IInv => Passed!ReceivesWhatWasSent
<1> SUFFICES ASSUME Passed!IInv PROVE Passed!ReceivesWhatWasSent
  OBVIOUS
<1>1. v5 \in Passed!Receivers /\ Passed!ReceiverInv /\ Passed!PrintedInv /\ Passed!ReadInv
  BY DEF Passed!IInv, Passed!TypeOK
<1>2. v5.read \in Nat /\ v5.pos \in Nat /\ v5.sent \in Seq(Passed!Files) /\ Len(v5.sent) \in Nat /\ v5.out \in Seq(Passed!Parts)
  BY <1>1 DEF Passed!Receivers
<1>3. ASSUME v5.pc = "done"
      PROVE  /\ v5.open = <<>> /\ Passed!InOrder
             /\ \E n \in 0..Len(v5.sent) :
                  /\ {v5.out[i] : i \in DOMAIN v5.out} = Passed!Whole(n)
                  /\ n < Len(v5.sent) => v5.ctrunc
  <2>1. v5.open = <<>> /\ v5.pos = 0 /\ Passed!ToRead(<<>>)
    BY <1>1, <1>2, <1>3 DEF Passed!ReadInv
  <2>2. v5.read \in 0..Len(v5.sent) /\ (v5.read < Len(v5.sent) => v5.ctrunc)
    <3>1. Len(<<>>) = 0
      OBVIOUS
    <3> QED
      BY <1>2, <2>1, <3>1 DEF Passed!ToRead
  <2> DEFINE P == {v5.out[i] : i \in DOMAIN v5.out}
             W == Passed!Whole(v5.read)
  <2>3. \A x : x \in W <=> \E i \in 1..v5.read : \E j \in 1..PasContent[v5.sent[i]] : x = Passed!Part(i, v5.sent[i], j)
    BY DEF Passed!Whole
  <2>4. \A i \in 1..v5.read : i \in 1..Len(v5.sent)
    BY <1>2, <2>2
  <2>5. ASSUME NEW x \in W PROVE x \in P
    <3>1. PICK i \in 1..v5.read : \E j \in 1..PasContent[v5.sent[i]] : x = Passed!Part(i, v5.sent[i], j)
      BY <2>3, <2>5
    <3>2. PICK j \in 1..PasContent[v5.sent[i]] : x = Passed!Part(i, v5.sent[i], j)
      BY <3>1
    <3>3. i <= v5.read /\ j <= PasContent[v5.sent[i]] /\ i \in 1..Len(v5.sent)
      <4>1. v5.sent[i] \in DOMAIN PasContent
        BY <1>2, <2>4 DEF Passed!Files
      <4>2. PasContent[v5.sent[i]] \in Nat
        BY <4>1, PasBounds
      <4> QED
        BY <1>2, <2>4, <4>2
    <3>4. Passed!Done(i, j)
      BY <3>3 DEF Passed!Done
    <3> QED
      BY <1>1, <3>2, <3>3, <3>4 DEF Passed!PrintedInv
  <2>6. ASSUME NEW k \in DOMAIN v5.out PROVE v5.out[k] \in W
    <3> DEFINE x == v5.out[k]
    <3>1. x \in Passed!Parts
      BY <1>2
    <3>2. x.nr \in 1..Len(v5.sent) /\ x.file = v5.sent[x.nr] /\ x.pos >= 1 /\ Passed!Done(x.nr, x.pos)
      BY <1>1 DEF Passed!PrintedInv
    <3>3. x.nr \in Nat /\ x.pos \in Nat /\ x = Passed!Part(x.nr, x.file, x.pos)
      BY <3>1 DEF Passed!Parts, Passed!Part
    <3> HIDE DEF x
    <3>4. x.nr <= v5.read /\ x.pos <= PasContent[v5.sent[x.nr]]
      BY <2>1, <3>2, <3>3 DEF Passed!Done
    <3>5. PasContent[v5.sent[x.nr]] \in Nat
      <4>1. v5.sent[x.nr] \in DOMAIN PasContent
        BY <1>2, <3>2 DEF Passed!Files
      <4> QED
        BY <4>1, PasBounds
    <3>6. x.nr \in 1..v5.read /\ x.pos \in 1..PasContent[v5.sent[x.nr]]
      BY <1>2, <3>2, <3>3, <3>4, <3>5
    <3>7. x \in W
      BY <2>3, <3>2, <3>3, <3>6
    <3> QED
      BY <3>7 DEF x
  <2> HIDE DEF W
  <2>7. P = W
    BY <2>5, <2>6
  <2>8. P = Passed!Whole(v5.read)
    BY <2>7 DEF W
  <2> HIDE DEF P
  <2>9. \E n \in 0..Len(v5.sent) : P = Passed!Whole(n) /\ (n < Len(v5.sent) => v5.ctrunc)
    BY <2>2, <2>8
  <2> QED
    BY <1>1, <2>1, <2>9 DEF Passed!PrintedInv, P
<1> QED
  BY <1>1, <1>3 DEF Passed!ReceiverInv, Passed!ReceivesWhatWasSent, Passed!SenderEnded

-----------------------------------------------------------------------------
(* Pipelines.                                                              *)

LEMMA PipProcs ==
  /\ Pipes!main \in Pipes!Procs /\ 1 \in Pipes!Procs /\ 2 \in Pipes!Procs /\ 1 \in PipKids /\ 2 \in PipKids
  /\ Pipes!main # 1 /\ Pipes!main # 2 /\ (\A c \in PipKids : c \in Pipes!Procs /\ c # Pipes!main)
  /\ \A q \in Pipes!Procs : q = Pipes!main \/ q \in PipKids
BY PipBounds DEF Pipes!main, Pipes!Procs

\* The two parts of a sequence.
LEMMA PipPartsOf ==
  ASSUME NEW S, NEW s \in Seq(S), NEW n \in 0..Len(s)
  PROVE  /\ SubSeq(s, 1, n) \in Seq(S) /\ Len(SubSeq(s, 1, n)) = n
         /\ \A i \in 1..n : SubSeq(s, 1, n)[i] = s[i]
         /\ SubSeq(s, n + 1, Len(s)) \in Seq(S) /\ Len(SubSeq(s, n + 1, Len(s))) = Len(s) - n
         /\ \A i \in 1..(Len(s) - n) : SubSeq(s, n + 1, Len(s))[i] = s[n + i]
<1>1. Len(s) \in Nat /\ n \in Int /\ n + 1 \in Int /\ n <= Len(s) /\ \A i \in 1..Len(s) : s[i] \in S
  OBVIOUS
<1>2. \A i \in (n + 1)..Len(s) : s[i] \in S
  BY <1>1
<1>3. \A i \in 1..n : s[i] \in S
  BY <1>1
<1>4. /\ SubSeq(s, 1, n) \in Seq(S) /\ Len(SubSeq(s, 1, n)) = IF 1 <= n THEN n - 1 + 1 ELSE 0
      /\ \A i \in 1..(n - 1 + 1) : SubSeq(s, 1, n)[i] = s[1 + i - 1]
  BY <1>1, <1>3, SubSeqProperties
<1>5. /\ SubSeq(s, n + 1, Len(s)) \in Seq(S)
      /\ Len(SubSeq(s, n + 1, Len(s))) = IF n + 1 <= Len(s) THEN Len(s) - (n + 1) + 1 ELSE 0
      /\ \A i \in 1..(Len(s) - (n + 1) + 1) : SubSeq(s, n + 1, Len(s))[i] = s[(n + 1) + i - 1]
  BY <1>1, <1>2, SubSeqProperties
<1>6. \A i \in 1..n : SubSeq(s, 1, n)[i] = s[i]
  <2> TAKE i \in 1..n
  <2>1. i \in 1..(n - 1 + 1) /\ 1 + i - 1 = i
    BY <1>1
  <2> QED
    BY <1>4, <2>1
<1>7. \A i \in 1..(Len(s) - n) : SubSeq(s, n + 1, Len(s))[i] = s[n + i]
  <2> TAKE i \in 1..(Len(s) - n)
  <2>1. i \in 1..(Len(s) - (n + 1) + 1) /\ (n + 1) + i - 1 = n + i
    BY <1>1
  <2> QED
    BY <1>5, <2>1
<1> QED
  BY <1>1, <1>4, <1>5, <1>6, <1>7

LEMMA PipParts ==
  ASSUME NEW s \in Seq(Int), NEW n \in 0..Len(s)
  PROVE  /\ SubSeq(s, 1, n) \in Seq(Int) /\ Len(SubSeq(s, 1, n)) = n
         /\ \A i \in 1..n : SubSeq(s, 1, n)[i] = s[i]
         /\ SubSeq(s, n + 1, Len(s)) \in Seq(Int) /\ Len(SubSeq(s, n + 1, Len(s))) = Len(s) - n
         /\ \A i \in 1..(Len(s) - n) : SubSeq(s, n + 1, Len(s))[i] = s[n + i]
BY PipPartsOf

LEMMA PipSplit ==
  ASSUME NEW a \in Seq(Int), NEW s \in Seq(Int), NEW k \in Nat, NEW n \in 0..Len(s), Pipes!Follows(a, s, k)
  PROVE  Pipes!Follows(a, SubSeq(s, 1, n), k) /\ Pipes!Follows(a, SubSeq(s, n + 1, Len(s)), k + n)
<1> DEFINE x == SubSeq(s, 1, n)
           y == SubSeq(s, n + 1, Len(s))
<1>1. /\ x \in Seq(Int) /\ Len(x) = n /\ (\A i \in 1..n : x[i] = s[i])
      /\ y \in Seq(Int) /\ Len(y) = Len(s) - n /\ \A i \in 1..(Len(s) - n) : y[i] = s[n + i]
  BY PipParts
<1>3. Len(s) \in Nat /\ Len(a) \in Nat /\ n \in Nat /\ n <= Len(s) /\ DOMAIN s = 1..Len(s)
  OBVIOUS
<1>2. k + Len(s) <= Len(a) /\ \A i \in 1..Len(s) : s[i] = a[k + i]
  BY <1>3 DEF Pipes!Follows
<1> HIDE DEF x, y
<1>4. Pipes!Follows(a, x, k)
  <2>1. DOMAIN x = 1..n
    BY <1>1
  <2>2. \A i \in 1..n : x[i] = a[k + i]
    <3> TAKE i \in 1..n
    <3>1. i \in 1..Len(s)
      BY <1>3
    <3> QED
      BY <1>1, <1>2, <3>1
  <2>3. k + Len(x) <= Len(a)
    BY <1>1, <1>2, <1>3
  <2> QED
    BY <2>1, <2>2, <2>3 DEF Pipes!Follows
<1>5. Pipes!Follows(a, y, k + n)
  <2>1. DOMAIN y = 1..(Len(s) - n)
    BY <1>1
  <2>2. \A i \in 1..(Len(s) - n) : y[i] = a[k + n + i]
    <3> TAKE i \in 1..(Len(s) - n)
    <3>1. n + i \in 1..Len(s) /\ k + (n + i) = k + n + i
      BY <1>3
    <3>2. y[i] = s[n + i]
      BY <1>1
    <3>3. s[n + i] = a[k + (n + i)]
      BY <1>2, <3>1
    <3> QED
      BY <3>1, <3>2, <3>3
  <2>3. (k + n) + Len(y) <= Len(a)
    BY <1>1, <1>2, <1>3
  <2> QED
    BY <2>1, <2>2, <2>3 DEF Pipes!Follows
<1> QED
  BY <1>4, <1>5 DEF x, y

LEMMA PipJoin ==
  ASSUME NEW s \in Seq(Int), NEW t \in Seq(Int)
  PROVE  /\ s \o t \in Seq(Int) /\ Len(s \o t) = Len(s) + Len(t)
         /\ \A a \in Seq(Int), k \in Nat :
              Pipes!Follows(a, s, k) /\ Pipes!Follows(a, t, k + Len(s)) => Pipes!Follows(a, s \o t, k)
<1> DEFINE u == s \o t
<1>1. u \in Seq(Int) /\ Len(u) = Len(s) + Len(t) /\ \A i \in 1..(Len(s) + Len(t)) : u[i] = IF i <= Len(s) THEN s[i] ELSE t[i - Len(s)]
  BY ConcatProperties
<1> HIDE DEF u
<1>2. ASSUME NEW a \in Seq(Int), NEW k \in Nat, Pipes!Follows(a, s, k), Pipes!Follows(a, t, k + Len(s))
      PROVE  Pipes!Follows(a, u, k)
  <2>1. Len(s) \in Nat /\ Len(t) \in Nat /\ DOMAIN s = 1..Len(s) /\ DOMAIN t = 1..Len(t) /\ DOMAIN u = 1..(Len(s) + Len(t))
    BY <1>1
  <2>2. (\A i \in 1..Len(s) : s[i] = a[k + i]) /\ (k + Len(s)) + Len(t) <= Len(a) /\ \A i \in 1..Len(t) : t[i] = a[k + Len(s) + i]
    BY <1>2, <2>1 DEF Pipes!Follows
  <2>3. \A i \in 1..(Len(s) + Len(t)) : u[i] = a[k + i]
    <3> TAKE i \in 1..(Len(s) + Len(t))
    <3>1. CASE i <= Len(s)
      <4>1. i \in 1..Len(s)
        BY <2>1, <3>1
      <4> QED
        BY <1>1, <2>2, <3>1, <4>1
    <3>2. CASE ~(i <= Len(s))
      <4>1. i - Len(s) \in 1..Len(t) /\ k + Len(s) + (i - Len(s)) = k + i
        BY <2>1, <3>2
      <4> QED
        BY <1>1, <2>2, <3>2, <4>1
    <3> QED
      BY <3>1, <3>2
  <2>4. k + Len(u) <= Len(a)
    BY <1>1, <2>1, <2>2
  <2> QED
    BY <2>1, <2>3, <2>4 DEF Pipes!Follows
<1> QED
  BY <1>1, <1>2 DEF u

LEMMA PipNothing ==
  ASSUME NEW a \in Seq(Int), NEW k \in Nat, k <= Len(a)
  PROVE  Pipes!Follows(a, <<>>, k) /\ Len(<<>>) = 0 /\ <<>> \in Seq(Int)
BY DEF Pipes!Follows

LEMMA PipAll ==
  ASSUME NEW a \in Seq(Int)
  PROVE  Pipes!Follows(a, a, 0)
BY DEF Pipes!Follows

LEMMA PipPrefix ==
  ASSUME NEW a \in Seq(Int), NEW s \in Seq(Int), Pipes!Follows(a, s, 0)
  PROVE  Pipes!IsPrefix(s, a)
<1>1. Len(s) \in Nat /\ Len(a) \in Nat /\ Len(s) <= Len(a) /\ \A i \in 1..Len(s) : s[i] = a[i]
  BY DEF Pipes!Follows
<1>2. /\ SubSeq(s, 1, Len(s)) \in Seq(Int) /\ Len(SubSeq(s, 1, Len(s))) = Len(s)
      /\ \A i \in 1..Len(s) : SubSeq(s, 1, Len(s))[i] = s[i]
  BY <1>1, PipParts
<1>3. /\ SubSeq(a, 1, Len(s)) \in Seq(Int) /\ Len(SubSeq(a, 1, Len(s))) = Len(s)
      /\ \A i \in 1..Len(s) : SubSeq(a, 1, Len(s))[i] = a[i]
  BY <1>1, PipParts
<1>4. SubSeq(s, 1, Len(s)) = SubSeq(a, 1, Len(s))
  BY <1>1, <1>2, <1>3, SeqEqual
<1> QED
  BY <1>1, <1>4 DEF Pipes!IsPrefix

LEMMA PipUpper ==
  ASSUME NEW s \in Seq(Int)
  PROVE  /\ Pipes!Upper(s) \in Seq(Int) /\ Len(Pipes!Upper(s)) = Len(s)
         /\ \A i \in 1..Len(s) : Pipes!Upper(s)[i] = -s[i]
<1>1. DOMAIN s = 1..Len(s) /\ Len(s) \in Nat /\ \A i \in 1..Len(s) : -s[i] \in Int
  OBVIOUS
<1>2. Pipes!Upper(s) = [i \in 1..Len(s) |-> -s[i]]
  BY <1>1 DEF Pipes!Upper
<1> QED
  BY <1>1, <1>2

LEMMA PipUpperFollows ==
  ASSUME NEW a \in Seq(Int), NEW s \in Seq(Int), NEW k \in Nat, Pipes!Follows(a, s, k)
  PROVE  Pipes!Follows(Pipes!Upper(a), Pipes!Upper(s), k)
<1> DEFINE u == Pipes!Upper(a)
           t == Pipes!Upper(s)
<1>1. /\ u \in Seq(Int) /\ Len(u) = Len(a) /\ (\A i \in 1..Len(a) : u[i] = -a[i])
      /\ t \in Seq(Int) /\ Len(t) = Len(s) /\ (\A i \in 1..Len(s) : t[i] = -s[i])
  BY PipUpper
<1>2. Len(a) \in Nat /\ Len(s) \in Nat /\ k + Len(s) <= Len(a) /\ \A i \in 1..Len(s) : s[i] = a[k + i]
  BY DEF Pipes!Follows
<1> HIDE DEF u, t
<1>3. DOMAIN t = 1..Len(s)
  BY <1>1
<1>4. \A i \in 1..Len(s) : t[i] = u[k + i]
  <2> TAKE i \in 1..Len(s)
  <2>1. k + i \in 1..Len(a)
    BY <1>2
  <2> QED
    BY <1>1, <1>2, <2>1
<1> QED
  BY <1>1, <1>2, <1>3, <1>4 DEF Pipes!Follows, u, t

\* What was shown, turned back, is what was read.
LEMMA PipUpperBack ==
  ASSUME NEW a \in Seq(Int), NEW s \in Seq(Int), Pipes!Follows(Pipes!Upper(a), s, 0)
  PROVE  Pipes!IsPrefix(Pipes!Upper(s), a)
<1> DEFINE t == Pipes!Upper(s)
<1>1. t \in Seq(Int) /\ Len(t) = Len(s) /\ \A i \in 1..Len(s) : t[i] = -s[i]
  BY PipUpper
<1>2. Len(Pipes!Upper(a)) = Len(a) /\ \A i \in 1..Len(a) : Pipes!Upper(a)[i] = -a[i] /\ a[i] \in Int
  BY PipUpper
<1>3. Len(a) \in Nat /\ Len(s) \in Nat /\ Len(s) <= Len(a) /\ \A i \in 1..Len(s) : s[i] = Pipes!Upper(a)[i]
  BY <1>2 DEF Pipes!Follows
<1> HIDE DEF t
<1>4. DOMAIN t = 1..Len(s) /\ \A i \in 1..Len(s) : t[i] = a[0 + i]
  <2>1. DOMAIN t = 1..Len(s)
    BY <1>1
  <2>2. \A x \in Int : -(-x) = x
    OBVIOUS
  <2>3. \A i \in 1..Len(s) : t[i] = a[i] /\ 0 + i = i
    BY <1>1, <1>2, <1>3, <2>2
  <2> QED
    BY <2>1, <2>3
<1>5. Pipes!Follows(a, t, 0)
  BY <1>1, <1>3, <1>4 DEF Pipes!Follows
<1> QED
  BY <1>1, <1>5, PipPrefix DEF t

\* One process moves, or holds other ends of the pipes; the others do not.
PipMoves(q, l, b) == v4'[q].pc = l /\ v4'[q].buf = b /\ \A r \in Pipes!Procs : r # q => v4'[r] = v4[r]
PipHolds(q, e) == v3'[q] = e /\ \A r \in Pipes!Procs : r # q => v3'[r] = v3[r]
PipEnds == {"r", "w"} \X Pipes!Pipe

LEMMA PipTypes ==
  ASSUME Pipes!TypeOK, v1' = v1, v2' \in [Pipes!Pipe -> Seq(Int)], v3' \in [Pipes!Procs -> SUBSET PipEnds],
         v4' \in [Pipes!Procs -> Pipes!States], v5' \in Pipes!Streams, v6' \in Pipes!Terminals
  PROVE  Pipes!TypeOK'
<1>1. Pipes!Procs' = Pipes!Procs /\ Pipes!States' = Pipes!States /\ Pipes!Terminals' = Pipes!Terminals /\ Pipes!Pipe' = Pipes!Pipe
  BY DEF Pipes!Procs, Pipes!main, Pipes!States, Pipes!Terminals, Pipes!Pipe
<1>2. Pipes!Streams' = Pipes!Streams
  BY DEF Pipes!Streams
<1>3. v1' \in {"sync", "simple", "lswc", "case", "glob", "script", "unbuffer"}
  BY DEF Pipes!TypeOK
<1> QED
  BY <1>1, <1>2, <1>3 DEF Pipes!TypeOK, PipEnds

LEMMA PipTyped ==
  ASSUME Pipes!TypeOK
  PROVE  /\ v1 \in {"sync", "simple", "lswc", "case", "glob", "script", "unbuffer"}
         /\ v2 \in [Pipes!Pipe -> Seq(Int)] /\ v3 \in [Pipes!Procs -> SUBSET PipEnds] /\ v4 \in [Pipes!Procs -> Pipes!States]
         /\ v5 \in Pipes!Streams /\ v6 \in Pipes!Terminals
         /\ v5.shown \in Seq(Int) /\ v5.stdin \in (IF v1 = "glob" THEN Seq(Pipes!Chars) ELSE Seq(Int))
         /\ v5.ran \in Seq(Seq(Pipes!Chars)) /\ v5.killed \in SUBSET PipKids
         /\ v2["out"] \in Seq(Int) /\ v2["in"] \in Seq(Int)
         /\ \A q \in Pipes!Procs : v4[q] \in Pipes!States /\ v4[q].pc \in Pipes!Labels /\ v4[q].buf \in Seq(Int) /\ v3[q] \subseteq PipEnds
<1>1. v5 \in Pipes!Streams => 
        /\ v5.shown \in Seq(Int) /\ v5.stdin \in (IF v1 = "glob" THEN Seq(Pipes!Chars) ELSE Seq(Int))
        /\ v5.ran \in Seq(Seq(Pipes!Chars)) /\ v5.killed \in SUBSET PipKids
  BY DEF Pipes!Streams
<1>2. \A x \in Pipes!States : x.pc \in Pipes!Labels /\ x.buf \in Seq(Int)
  BY DEF Pipes!States
<1>3. "out" \in Pipes!Pipe /\ "in" \in Pipes!Pipe
  BY DEF Pipes!Pipe
<1> QED
  BY <1>1, <1>2, <1>3 DEF Pipes!TypeOK, PipEnds

LEMMA PipEndsSet ==
  ASSUME NEW f \in [Pipes!Procs -> SUBSET PipEnds], NEW q \in Pipes!Procs, NEW e \in SUBSET PipEnds
  PROVE  LET g == [f EXCEPT ![q] = e] IN
         g \in [Pipes!Procs -> SUBSET PipEnds] /\ g[q] = e /\ \A r \in Pipes!Procs : r # q => g[r] = f[r]
OBVIOUS

LEMMA PipGone ==
  ASSUME Pipes!TypeOK, v1' = v1, NEW q \in Pipes!Procs, Pipes!Gone(q)
  PROVE  Pipes!TypeOK' /\ PipMoves(q, "gone", v4[q].buf) /\ PipHolds(q, {}) /\ v2' = v2 /\ v5' = v5 /\ v6' = v6
<1>1. v4' = [v4 EXCEPT ![q].pc = "gone"] /\ v3' = [v3 EXCEPT ![q] = {}] /\ v2' = v2 /\ v5' = v5 /\ v6' = v6
  BY DEF Pipes!Gone, Pipes!Goes
<1>2. "gone" \in Pipes!Labels /\ {} \in SUBSET PipEnds
  BY DEF Pipes!Labels
<1>3. v4' \in [Pipes!Procs -> Pipes!States] /\ PipMoves(q, "gone", v4[q].buf)
  BY <1>1, <1>2, PipTyped DEF PipMoves, Pipes!States
<1>4. v3' \in [Pipes!Procs -> SUBSET PipEnds] /\ PipHolds(q, {})
  BY <1>1, <1>2, PipTyped, PipEndsSet DEF PipHolds
<1> QED
  BY <1>1, <1>3, <1>4, PipTyped, PipTypes

LEMMA PipClose ==
  ASSUME Pipes!TypeOK, v1' = v1, NEW q \in Pipes!Procs, NEW which, NEW l \in Pipes!Labels, Pipes!Close(q, which, l)
  PROVE  Pipes!TypeOK' /\ PipMoves(q, l, v4[q].buf) /\ PipHolds(q, v3[q] \ which) /\ v2' = v2 /\ v5' = v5 /\ v6' = v6
<1>1. v4' = [v4 EXCEPT ![q].pc = l] /\ v3' = [v3 EXCEPT ![q] = v3[q] \ which] /\ v2' = v2 /\ v5' = v5 /\ v6' = v6
  BY DEF Pipes!Close, Pipes!Goes
<1>2. v3[q] \ which \in SUBSET PipEnds
  BY PipTyped
<1>3. v4' \in [Pipes!Procs -> Pipes!States] /\ PipMoves(q, l, v4[q].buf)
  BY <1>1, PipTyped DEF PipMoves, Pipes!States
<1>4. v3' \in [Pipes!Procs -> SUBSET PipEnds] /\ PipHolds(q, v3[q] \ which)
  BY <1>1, <1>2, PipTyped, PipEndsSet DEF PipHolds
<1> QED
  BY <1>1, <1>3, <1>4, PipTyped, PipTypes

\* A process is started: it holds what its parent holds.
PipForks(q, c, l) ==
  /\ v4'[q].pc = l /\ v4'[q].buf = v4[q].buf /\ v4'[c].pc = "close" /\ v4'[c].buf = v4[c].buf
  /\ (\A r \in Pipes!Procs : r # q /\ r # c => v4'[r] = v4[r]) /\ PipHolds(c, v3[q]) /\ v2' = v2 /\ v5' = v5 /\ v6' = v6
LEMMA PipFork ==
  ASSUME Pipes!TypeOK, v1' = v1, NEW q \in Pipes!Procs, NEW c \in Pipes!Procs, q # c, NEW l \in Pipes!Labels, Pipes!Fork(q, c, l)
  PROVE  Pipes!TypeOK' /\ (PipForks(q, c, l) \/ Pipes!Gone(q))
<1>1. CASE Pipes!Gone(q)
  BY <1>1, PipGone
<1>2. CASE /\ v4' = [v4 EXCEPT ![q].pc = l, ![c].pc = "close"] /\ v3' = [v3 EXCEPT ![c] = v3[q]] /\ UNCHANGED <<v2, v5, v6>>
  <2> DEFINE f == [v4 EXCEPT ![q].pc = l]
             g == [f EXCEPT ![c].pc = "close"]
  <2>1. f \in [Pipes!Procs -> Pipes!States] /\ f[q].pc = l /\ f[q].buf = v4[q].buf /\ \A r \in Pipes!Procs : r # q => f[r] = v4[r]
    BY PipTyped DEF Pipes!States
  <2>2. v4' = g
    BY <1>2
  <2> HIDE DEF f
  <2>3. "close" \in Pipes!Labels
    BY DEF Pipes!Labels
  <2>4. g \in [Pipes!Procs -> Pipes!States] /\ g[c].pc = "close" /\ g[c].buf = f[c].buf /\ \A r \in Pipes!Procs : r # c => g[r] = f[r]
    BY <2>1, <2>3 DEF Pipes!States
  <2> HIDE DEF g
  <2>5. v3' \in [Pipes!Procs -> SUBSET PipEnds] /\ PipHolds(c, v3[q])
    BY <1>2, PipTyped, PipEndsSet DEF PipHolds
  <2>6. v2' = v2 /\ v5' = v5 /\ v6' = v6
    BY <1>2
  <2>7. PipForks(q, c, l)
    BY <2>1, <2>2, <2>4, <2>5, <2>6 DEF PipForks
  <2> QED
    BY <2>2, <2>4, <2>5, <2>6, <2>7, PipTyped, PipTypes
<1> QED
  BY <1>1, <1>2 DEF Pipes!Fork

PipPipes(p, s) == v2'[p] = s /\ \A o \in Pipes!Pipe : o # p => v2'[o] = v2[o]

\* What was written and what is left to write.
PipWrites(q, p, l, n) ==
  /\ PipPipes(p, v2[p] \o SubSeq(v4[q].buf, 1, n)) /\ PipMoves(q, IF n = Len(v4[q].buf) THEN l ELSE v4[q].pc, SubSeq(v4[q].buf, n + 1, Len(v4[q].buf)))
  /\ v3' = v3 /\ v5' = v5 /\ v6' = v6
LEMMA PipWrite ==
  ASSUME Pipes!TypeOK, v1' = v1, NEW q \in Pipes!Procs, NEW p \in Pipes!Pipe, NEW l \in Pipes!Labels,
         Pipes!WriteBlock(q, p, v4[q].buf, l)
  PROVE  /\ Pipes!TypeOK'
         /\ \/ Pipes!Readers(p) = {} /\ Pipes!Gone(q)
            \/ Pipes!Readers(p) # {} /\ \E n \in 0..Len(v4[q].buf) : PipWrites(q, p, l, n) /\ (Len(v4[q].buf) <= PipAtomic => n = Len(v4[q].buf))
<1>1. CASE Pipes!Readers(p) = {}
  BY <1>1, PipGone DEF Pipes!WriteBlock
<1>2. CASE Pipes!Readers(p) # {}
  <2> DEFINE block == v4[q].buf
             old == v2[p]
  <2>1. block \in Seq(Int) /\ old \in Seq(Int) /\ v2 \in [Pipes!Pipe -> Seq(Int)] /\ v4 \in [Pipes!Procs -> Pipes!States] /\ v4[q].pc \in Pipes!Labels
    BY PipTyped
  <2>2. PICK n : /\ n = IF Len(block) < PipCap - Len(old) THEN Len(block) ELSE PipCap - Len(old)
                 /\ v2' = [v2 EXCEPT ![p] = old \o SubSeq(block, 1, n)]
                 /\ v4' = [v4 EXCEPT ![q].pc = IF n = Len(block) THEN l ELSE v4[q].pc, ![q].buf = SubSeq(block, n + 1, Len(block))]
    BY <1>2 DEF Pipes!WriteBlock
  <2>3. v3' = v3 /\ v5' = v5 /\ v6' = v6 /\ Len(old) + (IF Len(block) <= PipAtomic THEN Len(block) ELSE 1) <= PipCap
    BY <1>2 DEF Pipes!WriteBlock, Pipes!HasRoom
  <2> HIDE DEF block, old
  <2>4. Len(block) \in Nat /\ Len(old) \in Nat /\ PipCap \in Nat /\ PipAtomic \in Nat
    BY <2>1, PipBounds
  <2>5. n \in 0..Len(block) /\ (Len(block) <= PipAtomic => n = Len(block))
    BY <2>2, <2>3, <2>4
  <2>6. SubSeq(block, 1, n) \in Seq(Int) /\ SubSeq(block, n + 1, Len(block)) \in Seq(Int)
    BY <2>1, <2>5, PipParts
  <2> DEFINE w == SubSeq(block, 1, n)
             rest == SubSeq(block, n + 1, Len(block))
             m == IF n = Len(block) THEN l ELSE v4[q].pc
  <2>7. w \in Seq(Int) /\ rest \in Seq(Int) /\ m \in Pipes!Labels
    BY <2>1, <2>6
  <2> HIDE DEF w, rest, m
  <2>8. old \o w \in Seq(Int)
    BY <2>1, <2>7, PipJoin
  <2>9. v2' = [v2 EXCEPT ![p] = old \o w] /\ v4' = [v4 EXCEPT ![q].pc = m, ![q].buf = rest]
    BY <2>2 DEF w, rest, m
  <2>10. v2' \in [Pipes!Pipe -> Seq(Int)] /\ PipPipes(p, old \o w)
    BY <2>1, <2>8, <2>9 DEF PipPipes
  <2>11. v4' \in [Pipes!Procs -> Pipes!States] /\ PipMoves(q, m, rest)
    BY <2>1, <2>7, <2>9 DEF PipMoves, Pipes!States
  <2>12. PipWrites(q, p, l, n)
    BY <2>3, <2>10, <2>11 DEF PipWrites, block, old, w, rest, m
  <2>13. Pipes!TypeOK'
    BY <2>3, <2>10, <2>11, PipTyped, PipTypes
  <2> QED
    BY <1>2, <2>5, <2>12, <2>13 DEF block
<1> QED
  BY <1>1, <1>2

\* What was read and what is left to read.
PipReads(q, p, l, n) ==
  PipPipes(p, SubSeq(v2[p], n + 1, Len(v2[p]))) /\ PipMoves(q, l, SubSeq(v2[p], 1, n)) /\ v3' = v3 /\ v5' = v5 /\ v6' = v6
PipAtEnd(q, p, l) ==
  v2[p] = <<>> /\ Pipes!Writers(p) = {} /\ PipMoves(q, l, v4[q].buf) /\ v2' = v2 /\ v3' = v3 /\ v5' = v5 /\ v6' = v6
LEMMA PipRead ==
  ASSUME Pipes!TypeOK, v1' = v1, NEW q \in Pipes!Procs, NEW p \in Pipes!Pipe, NEW l \in Pipes!Labels, NEW atEnd \in Pipes!Labels,
         Pipes!ReadBlock(q, p, l, atEnd)
  PROVE  /\ Pipes!TypeOK'
         /\ \/ PipAtEnd(q, p, atEnd)
            \/ v2[p] # <<>> /\ \E n \in 1..Len(v2[p]) : PipReads(q, p, l, n) /\ n <= PipBufSize /\ (Len(v2[p]) <= PipBufSize => n = Len(v2[p]))
<1>1. CASE v2[p] = <<>>
  <2>1. Pipes!Writers(p) = {} /\ v4' = [v4 EXCEPT ![q].pc = atEnd] /\ v2' = v2 /\ v3' = v3 /\ v5' = v5 /\ v6' = v6
    BY <1>1 DEF Pipes!ReadBlock, Pipes!Goes
  <2>2. v4' \in [Pipes!Procs -> Pipes!States] /\ PipMoves(q, atEnd, v4[q].buf)
    BY <2>1, PipTyped DEF PipMoves, Pipes!States
  <2> QED
    BY <1>1, <2>1, <2>2, PipTyped, PipTypes DEF PipAtEnd
<1>2. CASE v2[p] # <<>>
  <2> DEFINE old == v2[p]
  <2>1. old \in Seq(Int) /\ v2 \in [Pipes!Pipe -> Seq(Int)] /\ v4 \in [Pipes!Procs -> Pipes!States] /\ v4[q].pc \in Pipes!Labels
    BY PipTyped
  <2>2. PICK n : /\ n = IF Len(old) < PipBufSize THEN Len(old) ELSE PipBufSize
                 /\ v2' = [v2 EXCEPT ![p] = SubSeq(old, n + 1, Len(old))]
                 /\ v4' = [v4 EXCEPT ![q].pc = l, ![q].buf = SubSeq(old, 1, n)]
    BY <1>2 DEF Pipes!ReadBlock
  <2>3. v3' = v3 /\ v5' = v5 /\ v6' = v6
    BY <1>2 DEF Pipes!ReadBlock
  <2>4. Len(old) \in Nat /\ Len(old) # 0 /\ PipBufSize \in Nat \ {0}
    BY <1>2, <2>1, PipBounds
  <2> HIDE DEF old
  <2>5. n \in 1..Len(old) /\ n \in 0..Len(old) /\ n <= PipBufSize /\ (Len(old) <= PipBufSize => n = Len(old))
    BY <2>2, <2>4
  <2> DEFINE got == SubSeq(old, 1, n)
             rest == SubSeq(old, n + 1, Len(old))
  <2>7. got \in Seq(Int) /\ rest \in Seq(Int)
    BY <2>1, <2>5, PipParts
  <2>9. v2' = [v2 EXCEPT ![p] = rest] /\ v4' = [v4 EXCEPT ![q].pc = l, ![q].buf = got]
    BY <2>2
  <2> HIDE DEF got, rest
  <2>10. v2' \in [Pipes!Pipe -> Seq(Int)] /\ PipPipes(p, rest)
    BY <2>1, <2>7, <2>9 DEF PipPipes
  <2>11. v4' \in [Pipes!Procs -> Pipes!States] /\ PipMoves(q, l, got)
    BY <2>1, <2>7, <2>9 DEF PipMoves, Pipes!States
  <2>12. PipReads(q, p, l, n)
    BY <2>3, <2>10, <2>11 DEF PipReads, old, got, rest
  <2>13. Pipes!TypeOK'
    BY <2>3, <2>10, <2>11, PipTyped, PipTypes
  <2> QED
    BY <1>2, <2>5, <2>12, <2>13 DEF old
<1> QED
  BY <1>1, <1>2

\* What was shown is longer; what is typed, run and killed is as it was.
PipShows(s) == v5'.shown = s /\ v5'.stdin = v5.stdin /\ v5'.ran = v5.ran /\ v5'.killed = v5.killed
LEMMA PipOutput ==
  ASSUME Pipes!TypeOK, v1' = v1, NEW q \in Pipes!Procs, NEW l \in Pipes!Labels, Pipes!Output(q, l)
  PROVE  Pipes!TypeOK' /\ PipShows(v5.shown \o v4[q].buf) /\ PipMoves(q, l, <<>>) /\ v2' = v2 /\ v3' = v3 /\ v6' = v6
<1> DEFINE s == v5.shown \o v4[q].buf
<1>1. v5' = [v5 EXCEPT !.shown = s] /\ v4' = [v4 EXCEPT ![q].pc = l, ![q].buf = <<>>] /\ v2' = v2 /\ v3' = v3 /\ v6' = v6
  BY DEF Pipes!Output
<1>2. s \in Seq(Int)
  BY PipTyped, PipJoin
<1>3. <<>> \in Seq(Int)
  OBVIOUS
<1> HIDE DEF s
<1>4. v5' \in Pipes!Streams /\ PipShows(s)
  BY <1>1, <1>2, PipTyped DEF PipShows, Pipes!Streams
<1>5. v4' \in [Pipes!Procs -> Pipes!States] /\ PipMoves(q, l, <<>>)
  BY <1>1, <1>3, PipTyped DEF PipMoves, Pipes!States
<1> QED
  BY <1>1, <1>4, <1>5, PipTyped, PipTypes DEF s

LEMMA PipKilled ==
  ASSUME Pipes!TypeOK, Pipes!Killed
  PROVE  /\ v1' = v1 /\ v1 \in {"sync", "simple", "lswc", "case"} /\ Pipes!TypeOK'
         /\ \E c \in PipKids : /\ v4[c].pc \notin {"none", "gone"} /\ PipMoves(c, "gone", v4[c].buf) /\ PipHolds(c, {})
                               /\ v5'.shown = v5.shown /\ v5'.stdin = v5.stdin /\ v5'.killed # {} /\ v2' = v2 /\ v6' = v6
<1>1. v1' = v1 /\ v1 \in {"sync", "simple", "lswc", "case"}
  BY DEF Pipes!Killed, Pipes!Mine
<1>2. PICK c \in PipKids \cap Pipes!Live : 
        /\ v4' = [v4 EXCEPT ![c].pc = "gone"] /\ v3' = [v3 EXCEPT ![c] = {}] /\ v2' = v2 /\ v6' = v6
        /\ v5' = [v5 EXCEPT !.killed = v5.killed \cup {c}]
  BY DEF Pipes!Killed, Pipes!Mine, Pipes!Goes
<1>3. c \in Pipes!Procs /\ v4[c].pc \notin {"none", "gone"}
  BY DEF Pipes!Live
<1>4. "gone" \in Pipes!Labels /\ {} \in SUBSET PipEnds
  BY DEF Pipes!Labels
<1>5. v4' \in [Pipes!Procs -> Pipes!States] /\ PipMoves(c, "gone", v4[c].buf)
  BY <1>2, <1>3, <1>4, PipTyped DEF PipMoves, Pipes!States
<1>6. v3' \in [Pipes!Procs -> SUBSET PipEnds] /\ PipHolds(c, {})
  BY <1>2, <1>3, <1>4, PipTyped, PipEndsSet DEF PipHolds
<1>7. v5' \in Pipes!Streams /\ v5'.shown = v5.shown /\ v5'.stdin = v5.stdin /\ v5'.killed = v5.killed \cup {c}
  <2>1. v5.killed \cup {c} \in SUBSET PipKids
    BY <1>2, PipTyped
  <2> QED
    BY <1>2, <2>1, PipTyped DEF Pipes!Streams
<1> QED
  BY <1>1, <1>2, <1>3, <1>5, <1>6, <1>7, PipTyped, PipTypes

PipProgs == {"sync", "simple", "lswc", "case"}

LEMMA PipPlace ==
  ASSUME Pipes!PlaceInv, v1' = v1, v1 \in PipProgs, NEW q \in Pipes!Procs,
         \A r \in Pipes!Procs : r # q => v4'[r].pc = v4[r].pc /\ v3'[r] = v3[r],
         v4'[q].pc \in Pipes!Places(q), v3'[q] = Pipes!Held(q, v4'[q].pc)
  PROVE  Pipes!PlaceInv'
<1>1. \A r : Pipes!Places(r)' = Pipes!Places(r)
  BY DEF Pipes!Places, Pipes!main, Pipes!Relays
<1>2. v1 \notin Pipes!Relays \cup {"glob"}
  BY DEF PipProgs, Pipes!Relays
<1>3. \A r \in Pipes!Procs : v4[r].pc \in Pipes!Places(r) /\ v3[r] = Pipes!Held(r, v4[r].pc)
  BY <1>2 DEF Pipes!PlaceInv
<1>4. \A r, l : Pipes!Held(r, l)' = Pipes!Held(r, l)
  BY DEF Pipes!Held, Pipes!main, Pipes!Both
<1>5. \A r \in Pipes!Procs : v4'[r].pc \in Pipes!Places(r) /\ v3'[r] = Pipes!Held(r, v4'[r].pc)
  BY <1>3
<1>6. \A r \in Pipes!Procs : v3'[r] = Pipes!Held(r, v4[r].pc)'
  BY <1>5 DEF Pipes!Held, Pipes!main, Pipes!Both
<1>7. \A r \in Pipes!Procs : v4'[r].pc \in Pipes!Places(r)'
  BY <1>1, <1>5
<1>8. Pipes!Procs' = Pipes!Procs
  BY DEF Pipes!Procs, Pipes!main
<1> QED
  BY <1>6, <1>7, <1>8 DEF Pipes!PlaceInv

\* Where a process is and what it holds.
LEMMA PipPlaces ==
  ASSUME Pipes!PlaceInv, v1 \in PipProgs
  PROVE  /\ \A q \in Pipes!Procs : v4[q].pc \in Pipes!Places(q) /\ v3[q] = Pipes!Held(q, v4[q].pc)
         /\ \A q \in Pipes!Procs : v4[q].pc # "none" => "gone" \in Pipes!Places(q)
         /\ \A q : Pipes!Held(q, "gone") = {}
<1>1. v1 \notin Pipes!Relays \cup {"glob"}
  BY DEF PipProgs, Pipes!Relays
<1>2. \A q : Pipes!Places(q) # {"none"} => "gone" \in Pipes!Places(q)
  BY <1>1 DEF Pipes!Places, PipProgs
<1>3. \A q \in Pipes!Procs : v4[q].pc \in Pipes!Places(q) /\ v3[q] = Pipes!Held(q, v4[q].pc)
  BY <1>1 DEF Pipes!PlaceInv
<1>4. \A q : Pipes!Held(q, "gone") = {}
  BY DEF Pipes!Held
<1> QED
  BY <1>2, <1>3, <1>4

LEMMA PipGoneKeeps ==
  ASSUME Pipes!TypeOK, Pipes!PlaceInv, v1' = v1, v1 \in PipProgs, NEW q \in Pipes!Procs, v4[q].pc # "none", Pipes!Gone(q)
  PROVE  Pipes!TypeOK' /\ Pipes!PlaceInv' /\ PipMoves(q, "gone", v4[q].buf) /\ v2' = v2 /\ v5' = v5 /\ v6' = v6
<1>1. Pipes!TypeOK' /\ PipMoves(q, "gone", v4[q].buf) /\ PipHolds(q, {}) /\ v2' = v2 /\ v5' = v5 /\ v6' = v6
  BY PipGone
<1> QED
  BY <1>1, PipPlaces, PipPlace DEF PipMoves, PipHolds

LEMMA PipCloseKeeps ==
  ASSUME Pipes!TypeOK, Pipes!PlaceInv, v1' = v1, v1 \in PipProgs, NEW q \in Pipes!Procs, NEW which,
         NEW l \in Pipes!Labels, l \in Pipes!Places(q), Pipes!Held(q, v4[q].pc) \ which = Pipes!Held(q, l), Pipes!Close(q, which, l)
  PROVE  Pipes!TypeOK' /\ Pipes!PlaceInv' /\ PipMoves(q, l, v4[q].buf) /\ v2' = v2 /\ v5' = v5 /\ v6' = v6
<1>1. Pipes!TypeOK' /\ PipMoves(q, l, v4[q].buf) /\ PipHolds(q, v3[q] \ which) /\ v2' = v2 /\ v5' = v5 /\ v6' = v6
  BY PipClose
<1>2. v3[q] \ which = Pipes!Held(q, l)
  BY PipPlaces
<1> QED
  BY <1>1, <1>2, PipPlace DEF PipMoves, PipHolds

\* A process that goes on with the ends it has.
LEMMA PipStays ==
  ASSUME Pipes!PlaceInv, v1' = v1, v1 \in PipProgs, NEW q \in Pipes!Procs, NEW l, NEW b,
         PipMoves(q, l, b), l \in Pipes!Places(q), Pipes!Held(q, v4[q].pc) = Pipes!Held(q, l), v3' = v3
  PROVE  Pipes!PlaceInv'
BY PipPlaces, PipPlace DEF PipMoves

LEMMA PipForkKeeps ==
  ASSUME Pipes!TypeOK, Pipes!PlaceInv, v1' = v1, v1 \in PipProgs, NEW q \in Pipes!Procs, NEW c \in Pipes!Procs, q # c,
         NEW l \in Pipes!Labels, l \in Pipes!Places(q), "close" \in Pipes!Places(c), Pipes!Held(q, v4[q].pc) = Pipes!Held(q, l),
         Pipes!Held(q, l) = Pipes!Held(c, "close"), v4[q].pc # "none", Pipes!Fork(q, c, l)
  PROVE  /\ Pipes!TypeOK' /\ Pipes!PlaceInv'
         /\ \/ PipForks(q, c, l)
            \/ PipMoves(q, "gone", v4[q].buf) /\ v2' = v2 /\ v5' = v5 /\ v6' = v6
<1>1. Pipes!TypeOK' /\ (PipForks(q, c, l) \/ Pipes!Gone(q))
  BY PipFork
<1>2. CASE Pipes!Gone(q)
  BY <1>2, PipGoneKeeps
<1>3. CASE PipForks(q, c, l)
  <2>1. v1 \notin Pipes!Relays \cup {"glob"}
    BY DEF PipProgs, Pipes!Relays
  <2>2. \A r : Pipes!Places(r)' = Pipes!Places(r)
    BY DEF Pipes!Places, Pipes!main, Pipes!Relays
  <2>3. \A r \in Pipes!Procs : v4'[r].pc \in Pipes!Places(r) /\ v3'[r] = Pipes!Held(r, v4'[r].pc)
    BY <1>3, PipPlaces DEF PipForks, PipHolds
  <2>4. \A r \in Pipes!Procs : v3'[r] = Pipes!Held(r, v4[r].pc)'
    BY <2>3 DEF Pipes!Held, Pipes!main, Pipes!Both
  <2>5. Pipes!Procs' = Pipes!Procs
    BY DEF Pipes!Procs, Pipes!main
  <2> QED
    BY <1>1, <1>3, <2>2, <2>3, <2>4, <2>5 DEF Pipes!PlaceInv
<1> QED
  BY <1>1, <1>2, <1>3

LEMMA PipWriteKeeps ==
  ASSUME Pipes!TypeOK, Pipes!PlaceInv, v1' = v1, v1 \in PipProgs, NEW q \in Pipes!Procs, NEW p \in Pipes!Pipe, NEW l \in Pipes!Labels,
         l \in Pipes!Places(q), Pipes!Held(q, v4[q].pc) = Pipes!Held(q, l), v4[q].pc # "none", Pipes!WriteBlock(q, p, v4[q].buf, l)
  PROVE  /\ Pipes!TypeOK' /\ Pipes!PlaceInv'
         /\ \/ Pipes!Readers(p) = {} /\ PipMoves(q, "gone", v4[q].buf) /\ v2' = v2 /\ v5' = v5 /\ v6' = v6
            \/ Pipes!Readers(p) # {} /\ \E n \in 0..Len(v4[q].buf) : PipWrites(q, p, l, n) /\ (Len(v4[q].buf) <= PipAtomic => n = Len(v4[q].buf))
<1>1. /\ Pipes!TypeOK'
      /\ \/ Pipes!Readers(p) = {} /\ Pipes!Gone(q)
         \/ Pipes!Readers(p) # {} /\ \E n \in 0..Len(v4[q].buf) : PipWrites(q, p, l, n) /\ (Len(v4[q].buf) <= PipAtomic => n = Len(v4[q].buf))
  BY PipWrite
<1>2. CASE Pipes!Readers(p) = {} /\ Pipes!Gone(q)
  BY <1>2, PipGoneKeeps
<1>3. ASSUME NEW n \in 0..Len(v4[q].buf), PipWrites(q, p, l, n)
      PROVE  Pipes!PlaceInv'
  BY <1>3, PipPlaces, PipStays DEF PipWrites
<1> QED
  BY <1>1, <1>2, <1>3

LEMMA PipReadKeeps ==
  ASSUME Pipes!TypeOK, Pipes!PlaceInv, v1' = v1, v1 \in PipProgs, NEW q \in Pipes!Procs, NEW p \in Pipes!Pipe,
         NEW l \in Pipes!Labels, NEW atEnd \in Pipes!Labels, {l, atEnd} \subseteq Pipes!Places(q),
         Pipes!Held(q, v4[q].pc) = Pipes!Held(q, l), Pipes!Held(q, v4[q].pc) = Pipes!Held(q, atEnd), Pipes!ReadBlock(q, p, l, atEnd)
  PROVE  /\ Pipes!TypeOK' /\ Pipes!PlaceInv'
         /\ \/ PipAtEnd(q, p, atEnd)
            \/ v2[p] # <<>> /\ \E n \in 1..Len(v2[p]) : PipReads(q, p, l, n) /\ n <= PipBufSize /\ (Len(v2[p]) <= PipBufSize => n = Len(v2[p]))
<1>1. /\ Pipes!TypeOK'
      /\ \/ PipAtEnd(q, p, atEnd)
         \/ v2[p] # <<>> /\ \E n \in 1..Len(v2[p]) : PipReads(q, p, l, n) /\ n <= PipBufSize /\ (Len(v2[p]) <= PipBufSize => n = Len(v2[p]))
  BY PipRead
<1>2. CASE PipAtEnd(q, p, atEnd)
  <2>1. PipMoves(q, atEnd, v4[q].buf) /\ v3' = v3
    BY <1>2 DEF PipAtEnd
  <2>2. atEnd \in Pipes!Places(q)
    OBVIOUS
  <2> QED
    BY <1>1, <1>2, <2>1, <2>2, PipStays
<1>3. ASSUME NEW n \in 1..Len(v2[p]), PipReads(q, p, l, n)
      PROVE  Pipes!PlaceInv'
  BY <1>3, PipStays DEF PipReads
<1> QED
  BY <1>1, <1>2, <1>3

LEMMA PipOutputKeeps ==
  ASSUME Pipes!TypeOK, Pipes!PlaceInv, v1' = v1, v1 \in PipProgs, NEW q \in Pipes!Procs,
         NEW l \in Pipes!Labels, l \in Pipes!Places(q), Pipes!Held(q, v4[q].pc) = Pipes!Held(q, l), Pipes!Output(q, l)
  PROVE  /\ Pipes!TypeOK' /\ Pipes!PlaceInv'
         /\ PipShows(v5.shown \o v4[q].buf) /\ PipMoves(q, l, <<>>) /\ v2' = v2 /\ v6' = v6
BY PipOutput, PipStays

-----------------------------------------------------------------------------
(* Characters one after the other.                                         *)

LEMMA PipLineSame ==
  ASSUME NEW reader, NEW writer, Pipes!InLine(reader, writer), v2' = v2, v5'.shown = v5.shown,
         v4'[reader].buf = v4[reader].buf, v4'[writer].buf = v4[writer].buf,
         v4'[reader].pc \in {"none", "close", "read"} => v4'[reader].buf = <<>>
  PROVE  Pipes!InLine(reader, writer)' /\ (Pipes!Total(reader, writer) => Pipes!Total(reader, writer)')
BY DEF Pipes!InLine, Pipes!Total

LEMMA PipLineWrite ==
  ASSUME Pipes!TypeOK, NEW reader \in Pipes!Procs, NEW writer \in Pipes!Procs, reader # writer, Pipes!InLine(reader, writer),
         NEW l, NEW n \in 0..Len(v4[writer].buf), PipWrites(writer, "out", l, n)
  PROVE  Pipes!InLine(reader, writer)' /\ (Pipes!Total(reader, writer) => Pipes!Total(reader, writer)')
<1> DEFINE g == Len(v5.shown)
           b == v4[reader].buf
           o == v2["out"]
           w == v4[writer].buf
           x == SubSeq(w, 1, n)
           y == SubSeq(w, n + 1, Len(w))
<1>1. v5.shown \in Seq(Int) /\ b \in Seq(Int) /\ o \in Seq(Int) /\ w \in Seq(Int) /\ PipInput \in Seq(Int)
  BY PipTyped, PipBounds
<1>2. v5' = v5 /\ v2'["out"] = o \o x /\ v4'[reader] = v4[reader] /\ v4'[writer].buf = y
  BY DEF PipWrites, PipPipes, PipMoves
<1>3. /\ Pipes!Follows(PipInput, v5.shown, 0) /\ Pipes!Follows(PipInput, b, g) /\ Pipes!Follows(PipInput, o, g + Len(b))
      /\ Pipes!Follows(PipInput, w, g + Len(b) + Len(o)) /\ (v4[reader].pc \in {"none", "close", "read"} => b = <<>>)
  BY DEF Pipes!InLine
<1>4. n \in 0..Len(w)
  OBVIOUS
<1>5. x \in Seq(Int) /\ Len(x) = n /\ y \in Seq(Int) /\ Len(y) = Len(w) - n
  BY <1>1, <1>4, PipParts
<1> HIDE DEF b, o, w
<1>6. g \in Nat /\ Len(b) \in Nat /\ Len(o) \in Nat /\ Len(w) \in Nat /\ n \in Nat
  BY <1>1, <1>4
<1> HIDE DEF g
<1>7. g + Len(b) \in Nat /\ g + Len(b) + Len(o) \in Nat /\ g + Len(b) + Len(o) = (g + Len(b)) + Len(o)
  BY <1>6
<1>8. Pipes!Follows(PipInput, x, g + Len(b) + Len(o)) /\ Pipes!Follows(PipInput, y, g + Len(b) + Len(o) + n)
  BY <1>1, <1>3, <1>4, <1>7, PipSplit
<1> HIDE DEF x, y
<1>9. Pipes!Follows(PipInput, o \o x, g + Len(b)) /\ Len(o \o x) = Len(o) + n
  BY <1>1, <1>3, <1>5, <1>7, <1>8, PipJoin
<1>10. g + Len(b) + Len(o \o x) = g + Len(b) + Len(o) + n
  BY <1>6, <1>9
<1>11. g + Len(b) + Len(o \o x) + Len(y) = g + Len(b) + Len(o) + Len(w)
  BY <1>5, <1>6, <1>9
<1>12. Pipes!Follows(PipInput, y, g + Len(b) + Len(o \o x))
  BY <1>8, <1>10
<1>13. Pipes!InLine(reader, writer)'
  BY <1>2, <1>3, <1>9, <1>12 DEF Pipes!InLine, b, g
<1>14. Pipes!Total(reader, writer) => Pipes!Total(reader, writer)'
  BY <1>2, <1>11 DEF Pipes!Total, b, g, o, w
<1> QED
  BY <1>13, <1>14

LEMMA PipLineRead ==
  ASSUME Pipes!TypeOK, NEW reader \in Pipes!Procs, NEW writer \in Pipes!Procs, reader # writer, Pipes!InLine(reader, writer),
         v4[reader].buf = <<>>, NEW l, l \notin {"none", "close", "read"}, NEW n \in 1..Len(v2["out"]), PipReads(reader, "out", l, n)
  PROVE  Pipes!InLine(reader, writer)' /\ (Pipes!Total(reader, writer) => Pipes!Total(reader, writer)')
<1> DEFINE g == Len(v5.shown)
           o == v2["out"]
           w == v4[writer].buf
           x == SubSeq(o, 1, n)
           y == SubSeq(o, n + 1, Len(o))
<1>1. v5.shown \in Seq(Int) /\ o \in Seq(Int) /\ w \in Seq(Int) /\ PipInput \in Seq(Int)
  BY PipTyped, PipBounds
<1>2. v5' = v5 /\ v2'["out"] = y /\ v4'[reader].buf = x /\ v4'[writer] = v4[writer] /\ v4'[reader].pc = l
  BY DEF PipReads, PipPipes, PipMoves
<1>3. /\ Pipes!Follows(PipInput, v5.shown, 0) /\ Pipes!Follows(PipInput, o, g + Len(v4[reader].buf))
      /\ Pipes!Follows(PipInput, w, g + Len(v4[reader].buf) + Len(o))
  BY DEF Pipes!InLine
<1>4. n \in 0..Len(o) /\ Len(v4[reader].buf) = 0
  OBVIOUS
<1>5. x \in Seq(Int) /\ Len(x) = n /\ y \in Seq(Int) /\ Len(y) = Len(o) - n
  BY <1>1, <1>4, PipParts
<1> HIDE DEF o, w
<1>6. g \in Nat /\ Len(o) \in Nat /\ Len(w) \in Nat /\ n \in Nat
  BY <1>1, <1>4
<1> HIDE DEF g
<1>7. g + Len(v4[reader].buf) = g /\ g + Len(v4[reader].buf) + Len(o) = g + Len(o)
  BY <1>4, <1>6
<1>8. Pipes!Follows(PipInput, x, g) /\ Pipes!Follows(PipInput, y, g + n)
  BY <1>1, <1>3, <1>4, <1>6, <1>7, PipSplit
<1> HIDE DEF x, y
<1>9. g + Len(x) = g + n /\ g + Len(x) + Len(y) = g + Len(o)
  BY <1>5, <1>6
<1>10. Pipes!Follows(PipInput, y, g + Len(x)) /\ Pipes!Follows(PipInput, w, g + Len(x) + Len(y))
  BY <1>3, <1>7, <1>8, <1>9
<1>11. g + Len(x) + Len(y) + Len(w) = g + Len(v4[reader].buf) + Len(o) + Len(w)
  BY <1>7, <1>9
<1>13. Pipes!InLine(reader, writer)'
  BY <1>2, <1>3, <1>8, <1>10 DEF Pipes!InLine, g, w
<1>14. Pipes!Total(reader, writer) => Pipes!Total(reader, writer)'
  BY <1>2, <1>11 DEF Pipes!Total, g, o, w
<1> QED
  BY <1>13, <1>14

LEMMA PipLineShow ==
  ASSUME Pipes!TypeOK, NEW reader \in Pipes!Procs, NEW writer \in Pipes!Procs, reader # writer, Pipes!InLine(reader, writer),
         NEW l, PipMoves(reader, l, <<>>), PipShows(v5.shown \o v4[reader].buf), v2' = v2
  PROVE  Pipes!InLine(reader, writer)' /\ (Pipes!Total(reader, writer) => Pipes!Total(reader, writer)')
<1> DEFINE s == v5.shown
           b == v4[reader].buf
           o == v2["out"]
           w == v4[writer].buf
           e == v4'[reader].buf
<1>1. s \in Seq(Int) /\ b \in Seq(Int) /\ o \in Seq(Int) /\ w \in Seq(Int) /\ PipInput \in Seq(Int)
  BY PipTyped, PipBounds
<1>2. v5'.shown = s \o b /\ v2' = v2 /\ e = <<>> /\ v4'[writer] = v4[writer]
  BY DEF PipShows, PipMoves
<1>3. /\ Pipes!Follows(PipInput, s, 0) /\ Pipes!Follows(PipInput, b, Len(s)) /\ Pipes!Follows(PipInput, o, Len(s) + Len(b))
      /\ Pipes!Follows(PipInput, w, Len(s) + Len(b) + Len(o))
  BY DEF Pipes!InLine
<1> HIDE DEF s, b, o, w, e
<1>4. Len(s) \in Nat /\ Len(b) \in Nat /\ Len(o) \in Nat /\ Len(w) \in Nat /\ 0 + Len(s) = Len(s)
  BY <1>1
<1>5. Pipes!Follows(PipInput, s \o b, 0) /\ Len(s \o b) = Len(s) + Len(b)
  BY <1>1, <1>3, <1>4, PipJoin
<1>6. Len(e) = 0
  BY <1>2
<1>7. Len(s \o b) + Len(e) = Len(s) + Len(b) /\ Len(s \o b) + Len(e) + Len(o) = Len(s) + Len(b) + Len(o)
  BY <1>4, <1>5, <1>6
<1>8. Pipes!Follows(PipInput, e, Len(s \o b))
  <2>1. Len(s) + Len(b) <= Len(PipInput)
    BY <1>3 DEF Pipes!Follows
  <2>2. Len(s \o b) \in Nat /\ Len(s \o b) <= Len(PipInput)
    BY <1>4, <1>5, <2>1
  <2> QED
    BY <1>1, <1>2, <2>2, PipNothing
<1>9. Len(s \o b) + Len(e) + Len(o) + Len(w) = Len(s) + Len(b) + Len(o) + Len(w)
  BY <1>7
<1>10. Pipes!Follows(PipInput, o, Len(s \o b) + Len(e)) /\ Pipes!Follows(PipInput, w, Len(s \o b) + Len(e) + Len(o))
  BY <1>3, <1>7
<1>13. Pipes!InLine(reader, writer)'
  BY <1>2, <1>5, <1>8, <1>10 DEF Pipes!InLine, o, w, e
<1>14. Pipes!Total(reader, writer) => Pipes!Total(reader, writer)'
  BY <1>2, <1>9 DEF Pipes!Total, s, b, o, w, e
<1> QED
  BY <1>13, <1>14

LEMMA PipMinus ==
  LET ro == <<"r", "out">>
      wo == <<"w", "out">>
      ri == <<"r", "in">>
      wi == <<"w", "in">>
  IN /\ Pipes!Both("out") \ {ro} = {wo} /\ Pipes!Both("out") \ {wo} = {ro} /\ {wo} \ {wo} = {}
     /\ Pipes!Both("out") \ {ro, wo} = {} /\ Pipes!Both("out") \ {} = Pipes!Both("out")
     /\ (Pipes!Both("out") \cup Pipes!Both("in")) \ {ro, wi} = {wo, ri}
     /\ (Pipes!Both("out") \cup Pipes!Both("in")) \ {wo, ri} = {ro, wi}
     /\ ro \in Pipes!Both("out") /\ wo \in Pipes!Both("out") /\ ri \in Pipes!Both("in") /\ wi \in Pipes!Both("in")
     /\ ro # wo /\ ri # wi /\ ro # ri /\ ro # wi /\ wo # ri /\ wo # wi
BY DEF Pipes!Both

LEMMA PipEmpty ==
  ASSUME NEW s \in Seq(Int), Len(s) = 0
  PROVE  s = <<>>
OBVIOUS

LEMMA PipRest ==
  ASSUME NEW s \in Seq(Int), NEW n \in 0..Len(s)
  PROVE  n = Len(s) <=> SubSeq(s, n + 1, Len(s)) = <<>>
<1> DEFINE y == SubSeq(s, n + 1, Len(s))
<1>1. y \in Seq(Int) /\ Len(y) = Len(s) - n /\ Len(s) \in Nat /\ n \in Nat
  BY PipParts
<1> HIDE DEF y
<1>2. n = Len(s) => y = <<>>
  BY <1>1, PipEmpty
<1>3. y = <<>> => n = Len(s)
  <2>1. y = <<>> => Len(y) = 0
    OBVIOUS
  <2> QED
    BY <1>1, <2>1
<1> QED
  BY <1>2, <1>3 DEF y

\* simple_pipe's processes: where they can be, and what they hold there.
LEMMA PipSimplePlaces ==
  ASSUME v1 = "simple"
  PROVE  /\ Pipes!Places(Pipes!main) = {"fork", "close", "write", "closeAll", "wait", "gone"}
         /\ Pipes!Places(1) = {"none", "close", "read", "print", "exit", "gone"}
         /\ \A q : q # Pipes!main /\ q # 1 => Pipes!Places(q) = {"none"}
         /\ Pipes!Held(Pipes!main, "fork") = Pipes!Both("out") /\ Pipes!Held(Pipes!main, "close") = Pipes!Both("out")
         /\ Pipes!Held(Pipes!main, "write") = {<<"w", "out">>} /\ Pipes!Held(Pipes!main, "closeAll") = {<<"w", "out">>}
         /\ Pipes!Held(Pipes!main, "wait") = {}
         /\ Pipes!Held(1, "close") = Pipes!Both("out") /\ Pipes!Held(1, "read") = {<<"r", "out">>}
         /\ Pipes!Held(1, "print") = {<<"r", "out">>} /\ Pipes!Held(1, "exit") = {<<"r", "out">>}
<1>1. Pipes!main # 1
  BY PipProcs
<1>2. /\ Pipes!Places(Pipes!main) = {"fork", "close", "write", "closeAll", "wait", "gone"}
      /\ Pipes!Places(1) = {"none", "close", "read", "print", "exit", "gone"}
      /\ \A q : q # Pipes!main /\ q # 1 => Pipes!Places(q) = {"none"}
  BY <1>1 DEF Pipes!Places, Pipes!Relays
<1>3. /\ Pipes!Held(Pipes!main, "fork") = Pipes!Both("out") /\ Pipes!Held(Pipes!main, "close") = Pipes!Both("out")
      /\ Pipes!Held(Pipes!main, "write") = {<<"w", "out">>} /\ Pipes!Held(Pipes!main, "closeAll") = {<<"w", "out">>}
      /\ Pipes!Held(Pipes!main, "wait") = {}
  BY <1>1 DEF Pipes!Held
<1>4. /\ Pipes!Held(1, "close") = Pipes!Both("out") /\ Pipes!Held(1, "read") = {<<"r", "out">>}
      /\ Pipes!Held(1, "print") = {<<"r", "out">>} /\ Pipes!Held(1, "exit") = {<<"r", "out">>}
  BY <1>1 DEF Pipes!Held
<1> QED
  BY <1>2, <1>3, <1>4

\* Who has which end.
LEMMA PipWho ==
  ASSUME Pipes!PlaceInv, v1 \in PipProgs
  PROVE  \A p : /\ Pipes!Writers(p) = {q \in Pipes!Procs : <<"w", p>> \in Pipes!Held(q, v4[q].pc)}
                /\ Pipes!Readers(p) = {q \in Pipes!Procs : <<"r", p>> \in Pipes!Held(q, v4[q].pc)}
BY PipPlaces DEF Pipes!Writers, Pipes!Readers

LEMMA PipSimpleWho ==
  ASSUME Pipes!PlaceInv, v1 = "simple"
  PROVE  /\ Pipes!Writers("out") = {} => v4[Pipes!main].pc \in {"wait", "gone"}
         /\ Pipes!Readers("out") = {} => v4[1].pc \in {"none", "gone"}
<1>1. v1 \in PipProgs
  BY DEF PipProgs
<1>2. v4[Pipes!main].pc \in Pipes!Places(Pipes!main) /\ v4[1].pc \in Pipes!Places(1)
  BY <1>1, PipPlaces, PipProcs
<1>3. v4[Pipes!main].pc \notin {"wait", "gone"} => <<"w", "out">> \in Pipes!Held(Pipes!main, v4[Pipes!main].pc)
  BY <1>2, PipSimplePlaces, PipMinus
<1>4. v4[1].pc \notin {"none", "gone"} => <<"r", "out">> \in Pipes!Held(1, v4[1].pc)
  BY <1>2, PipSimplePlaces, PipMinus
<1> QED
  BY <1>1, <1>3, <1>4, PipWho, PipProcs

LEMMA PipLabels ==
  {"none", "gone", "fork", "fork2", "close", "work", "write", "read", "print", "upper", "input", "closeAll", "wait", "exit"} \subseteq Pipes!Labels
  /\ "out" \in Pipes!Pipe /\ "in" \in Pipes!Pipe
BY DEF Pipes!Labels, Pipes!Pipe

LEMMA PipSimple ==
  ASSUME Pipes!TypeOK, Pipes!PlaceInv, v1 = "simple", Pipes!SimpleInv, Pipes!simple_pipe
  PROVE  v1' = v1 /\ Pipes!TypeOK' /\ Pipes!PlaceInv' /\ Pipes!SimpleInv'
<1> DEFINE m == Pipes!main
           Good == Pipes!TypeOK' /\ Pipes!PlaceInv'
           Line == Pipes!InLine(1, m) /\ Pipes!Total(1, m)
           Still == v2' = v2 /\ v5' = v5
<1>1. v1' = v1 /\ v1 \in PipProgs /\ v1 \notin {"sync", "lswc", "case"}
  BY DEF Pipes!simple_pipe, Pipes!Mine, PipProgs
<1>2. m # 1 /\ m \in Pipes!Procs /\ 1 \in Pipes!Procs /\ 1 \in PipKids
  BY PipProcs
<1>3. /\ v4[1].buf \in Seq(Int) /\ v4[m].buf \in Seq(Int) /\ v4[1].pc \in Pipes!Places(1) /\ v4[m].pc \in Pipes!Places(m)
  BY <1>1, <1>2, PipTyped, PipPlaces
<1>4. /\ Line /\ (v4[1].pc \in {"none", "close", "read"} => v4[1].buf = <<>>)
      /\ (v4[m].pc \in {"closeAll", "wait"} => v4[m].buf = <<>>)
      /\ (v4[m].pc = "fork" => v4[1].pc = "none")
      /\ (v4[m].pc \in {"close", "write", "closeAll", "wait"} => v4[1].pc # "none")
      /\ (v4[m].pc = "gone" /\ v4[1].pc # "none" /\ v5.killed = {} => v4[m].buf = <<>>)
      /\ (v4[1].pc \in {"exit", "gone"} /\ v5.killed = {} => v2["out"] = <<>> /\ v4[1].buf = <<>> /\ v4[m].pc \in {"wait", "gone"})
  BY DEF Pipes!SimpleInv, Pipes!InLine, Pipes!At
<1>5. ASSUME Line',
             v4'[m].pc \in {"closeAll", "wait"} => v4'[m].buf = <<>>,
             v4'[m].pc = "fork" => v4'[1].pc = "none",
             v4'[m].pc \in {"close", "write", "closeAll", "wait"} => v4'[1].pc # "none",
             v4'[m].pc = "gone" /\ v4'[1].pc # "none" /\ v5'.killed = {} => v4'[m].buf = <<>>,
             v4'[1].pc \in {"exit", "gone"} /\ v5'.killed = {} => v2'["out"] = <<>> /\ v4'[1].buf = <<>> /\ v4'[m].pc \in {"wait", "gone"}
      PROVE  Pipes!SimpleInv'
  BY <1>5 DEF Pipes!SimpleInv, Pipes!At
<1>6. ASSUME NEW l, v4'[1].pc = l, l \in {"none", "close", "read"} => v4[1].buf = <<>>, v4'[1].buf = v4[1].buf, v4'[m].buf = v4[m].buf,
             v2' = v2, v5'.shown = v5.shown
      PROVE  Line'
  <2>1. v4'[1].pc \in {"none", "close", "read"} => v4'[1].buf = <<>>
    BY <1>6
  <2> QED
    BY <1>4, <1>6, <2>1, PipLineSame
<1> HIDE DEF Line
\* Steps that only move.
<1>7. ASSUME NEW q \in {m, 1}, NEW l, PipMoves(q, l, v4[q].buf), Still,
             q = 1 /\ l \in {"none", "close", "read"} => v4[1].pc \in {"none", "close", "read"}
      PROVE  Line'
  <2>1. v4'[1].buf = v4[1].buf /\ v4'[m].buf = v4[m].buf
    BY <1>2, <1>7 DEF PipMoves
  <2>2. v4'[1].pc \in {"none", "close", "read"} => v4[1].pc \in {"none", "close", "read"}
    BY <1>2, <1>7 DEF PipMoves
  <2> QED
    BY <1>4, <1>6, <1>7, <2>1, <2>2
<1>8. CASE Pipes!At(m, "fork") /\ Pipes!Fork(m, 1, "close")
  <2>1. v4[m].pc = "fork" /\ Pipes!Fork(m, 1, "close")
    BY <1>8 DEF Pipes!At
  <2>2. Good /\ (PipForks(m, 1, "close") \/ (PipMoves(m, "gone", v4[m].buf) /\ Still))
    BY <1>1, <1>2, <2>1, PipForkKeeps, PipSimplePlaces, PipLabels
  <2>3. CASE PipForks(m, 1, "close")
    <3>1. /\ v4'[m].pc = "close" /\ v4'[m].buf = v4[m].buf /\ v4'[1].pc = "close" /\ v4'[1].buf = v4[1].buf /\ Still
      BY <2>3 DEF PipForks
    <3>2. Line'
      BY <1>4, <1>6, <2>1, <3>1
    <3> QED
      BY <1>1, <1>5, <2>2, <3>1, <3>2
  <2>4. CASE PipMoves(m, "gone", v4[m].buf) /\ Still
    <3>1. v4'[m].pc = "gone" /\ v4'[1] = v4[1]
      BY <1>2, <2>4 DEF PipMoves
    <3>2. Line'
      BY <1>2, <1>7, <2>4
    <3> QED
      BY <1>1, <1>4, <1>5, <2>1, <2>2, <2>4, <3>1, <3>2
  <2> QED
    BY <2>2, <2>3, <2>4
<1>9. CASE Pipes!At(m, "close") /\ Pipes!Close(m, {<<"r", "out">>}, "write")
  <2>1. v4[m].pc = "close"
    BY <1>9 DEF Pipes!At
  <2>2. Good /\ PipMoves(m, "write", v4[m].buf) /\ Still
    BY <1>1, <1>2, <1>9, <2>1, PipCloseKeeps, PipSimplePlaces, PipLabels, PipMinus
  <2>3. v4'[m].pc = "write" /\ v4'[1] = v4[1] /\ Line'
    BY <1>2, <1>7, <2>2 DEF PipMoves
  <2> QED
    BY <1>1, <1>4, <1>5, <2>1, <2>2, <2>3
<1>10. CASE Pipes!At(m, "write") /\ Pipes!WriteBlock(m, "out", v4[m].buf, "closeAll")
  <2>1. v4[m].pc = "write"
    BY <1>10 DEF Pipes!At
  <2>2. /\ Good
        /\ \/ Pipes!Readers("out") = {} /\ PipMoves(m, "gone", v4[m].buf) /\ Still
           \/ \E n \in 0..Len(v4[m].buf) : PipWrites(m, "out", "closeAll", n)
    BY <1>1, <1>2, <1>10, <2>1, PipWriteKeeps, PipSimplePlaces, PipLabels
  <2>3. CASE Pipes!Readers("out") = {} /\ PipMoves(m, "gone", v4[m].buf) /\ Still
    <3>1. v4'[m].pc = "gone" /\ v4'[1] = v4[1] /\ Line'
      BY <1>2, <1>7, <2>3 DEF PipMoves
    <3>2. v5.killed # {}
      BY <1>4, <2>1, <2>3, PipSimpleWho
    <3> QED
      BY <1>1, <1>4, <1>5, <2>1, <2>2, <2>3, <3>1, <3>2
  <2>4. ASSUME NEW n \in 0..Len(v4[m].buf), PipWrites(m, "out", "closeAll", n)
        PROVE  Pipes!SimpleInv'
    <3>1. /\ v4'[m].pc = (IF n = Len(v4[m].buf) THEN "closeAll" ELSE "write") /\ v4'[m].buf = SubSeq(v4[m].buf, n + 1, Len(v4[m].buf))
          /\ v4'[1] = v4[1] /\ v5' = v5
      BY <1>2, <2>1, <2>4 DEF PipWrites, PipMoves
    <3>2. n = Len(v4[m].buf) => v4'[m].buf = <<>>
      BY <1>3, <3>1, PipRest
    <3>3. Line'
      BY <1>2, <1>4, <2>4, PipLineWrite DEF Line
    <3>4. v4'[m].pc \in {"closeAll", "write"} /\ (v4'[m].pc = "closeAll" => v4'[m].buf = <<>>)
      BY <3>1, <3>2
    <3> QED
      BY <1>4, <1>5, <2>1, <3>1, <3>3, <3>4
  <2> QED
    BY <1>1, <2>2, <2>3, <2>4
<1>11. CASE Pipes!At(m, "closeAll") /\ Pipes!Close(m, {<<"w", "out">>}, "wait")
  <2>1. v4[m].pc = "closeAll"
    BY <1>11 DEF Pipes!At
  <2>2. Good /\ PipMoves(m, "wait", v4[m].buf) /\ Still
    BY <1>1, <1>2, <1>11, <2>1, PipCloseKeeps, PipSimplePlaces, PipLabels, PipMinus
  <2>3. v4'[m].pc = "wait" /\ v4'[m].buf = v4[m].buf /\ v4'[1] = v4[1] /\ Line'
    BY <1>2, <1>7, <2>2 DEF PipMoves
  <2> QED
    BY <1>1, <1>4, <1>5, <2>1, <2>2, <2>3
<1>12. CASE Pipes!WaitsFor(m, {1})
  <2>1. v4[m].pc = "wait" /\ Pipes!Gone(m)
    BY <1>12 DEF Pipes!At, Pipes!WaitsFor
  <2>2. Good /\ PipMoves(m, "gone", v4[m].buf) /\ Still
    BY <1>1, <1>2, <2>1, PipGoneKeeps
  <2>3. v4'[m].pc = "gone" /\ v4'[m].buf = v4[m].buf /\ v4'[1] = v4[1] /\ Line'
    BY <1>2, <1>7, <2>2 DEF PipMoves
  <2> QED
    BY <1>1, <1>4, <1>5, <2>1, <2>2, <2>3
<1>13. CASE Pipes!At(1, "close") /\ Pipes!Close(1, {<<"w", "out">>}, "read")
  <2>1. v4[1].pc = "close"
    BY <1>13 DEF Pipes!At
  <2>2. Good /\ PipMoves(1, "read", v4[1].buf) /\ Still
    BY <1>1, <1>2, <1>13, <2>1, PipCloseKeeps, PipSimplePlaces, PipLabels, PipMinus
  <2>3. v4'[1].pc = "read" /\ v4'[m] = v4[m] /\ Line'
    BY <1>2, <1>7, <2>1, <2>2 DEF PipMoves
  <2> QED
    BY <1>1, <1>4, <1>5, <2>1, <2>2, <2>3
<1>14. CASE Pipes!At(1, "read") /\ Pipes!ReadBlock(1, "out", "print", "exit")
  <2>1. v4[1].pc = "read"
    BY <1>14 DEF Pipes!At
  <2>2. /\ Good
        /\ \/ PipAtEnd(1, "out", "exit")
           \/ \E n \in 1..Len(v2["out"]) : PipReads(1, "out", "print", n)
    BY <1>1, <1>2, <1>14, <2>1, PipReadKeeps, PipSimplePlaces, PipLabels
  <2>3. CASE PipAtEnd(1, "out", "exit")
    <3>1. v2["out"] = <<>> /\ Pipes!Writers("out") = {} /\ PipMoves(1, "exit", v4[1].buf) /\ Still
      BY <2>3 DEF PipAtEnd
    <3>2. v4'[1].pc = "exit" /\ v4'[1].buf = v4[1].buf /\ v4'[m] = v4[m] /\ Line'
      BY <1>2, <1>7, <3>1 DEF PipMoves
    <3>3. v4[m].pc \in {"wait", "gone"}
      BY <3>1, PipSimpleWho
    <3> QED
      BY <1>1, <1>4, <1>5, <2>1, <2>2, <3>1, <3>2, <3>3
  <2>4. ASSUME NEW n \in 1..Len(v2["out"]), PipReads(1, "out", "print", n)
        PROVE  Pipes!SimpleInv'
    <3>1. v4'[1].pc = "print" /\ v4'[m] = v4[m] /\ v5' = v5
      BY <1>2, <2>4 DEF PipReads, PipMoves
    <3>2. Line'
      BY <1>2, <1>4, <2>1, <2>4, PipLineRead DEF Line
    <3> QED
      BY <1>4, <1>5, <2>1, <3>1, <3>2
  <2> QED
    BY <1>1, <2>2, <2>3, <2>4
<1>15. CASE Pipes!At(1, "print") /\ Pipes!Output(1, "read")
  <2>1. v4[1].pc = "print"
    BY <1>15 DEF Pipes!At
  <2>2. Good /\ PipShows(v5.shown \o v4[1].buf) /\ PipMoves(1, "read", <<>>) /\ v2' = v2
    BY <1>1, <1>2, <1>15, <2>1, PipOutputKeeps, PipSimplePlaces, PipLabels
  <2>3. v4'[1].pc = "read" /\ v4'[m] = v4[m] /\ v5'.killed = v5.killed
    BY <1>2, <2>2 DEF PipMoves, PipShows
  <2>4. Line'
    BY <1>2, <1>4, <2>2, PipLineShow DEF Line
  <2> QED
    BY <1>1, <1>4, <1>5, <2>1, <2>2, <2>3, <2>4
<1>16. CASE Pipes!Exits(1)
  <2>1. v4[1].pc = "exit" /\ Pipes!Gone(1)
    BY <1>16 DEF Pipes!At, Pipes!Exits
  <2>2. Good /\ PipMoves(1, "gone", v4[1].buf) /\ Still
    BY <1>1, <1>2, <2>1, PipGoneKeeps
  <2>3. v4'[1].pc = "gone" /\ v4'[1].buf = v4[1].buf /\ v4'[m] = v4[m] /\ Line'
    BY <1>2, <1>7, <2>2 DEF PipMoves
  <2> QED
    BY <1>1, <1>4, <1>5, <2>1, <2>2, <2>3
<1> QED
  BY <1>8, <1>9, <1>10, <1>11, <1>12, <1>13, <1>14, <1>15, <1>16 DEF Pipes!simple_pipe, Pipes!Mine

LEMMA PipSimpleKilled ==
  ASSUME Pipes!TypeOK, Pipes!PlaceInv, v1 = "simple", Pipes!SimpleInv, v1' = v1, NEW c \in PipKids, v4[c].pc \notin {"none", "gone"},
         PipMoves(c, "gone", v4[c].buf), v5'.shown = v5.shown, v5'.killed # {}, v2' = v2
  PROVE  Pipes!SimpleInv'
<1> DEFINE m == Pipes!main
<1>1. m # 1 /\ m \in Pipes!Procs /\ c \in Pipes!Procs /\ c # m
  BY PipProcs
<1>2. c = 1
  <2>1. v1 \in PipProgs
    BY DEF PipProgs
  <2> QED
    BY <1>1, <2>1, PipPlaces, PipSimplePlaces
<1>3. v4'[1].pc = "gone" /\ v4'[1].buf = v4[1].buf /\ v4'[m] = v4[m]
  BY <1>1, <1>2 DEF PipMoves
<1>4. Pipes!InLine(1, m)' /\ Pipes!Total(1, m)'
  BY <1>3, PipLineSame DEF Pipes!SimpleInv
<1> QED
  BY <1>2, <1>3, <1>4 DEF Pipes!SimpleInv, Pipes!At

LEMMA PipSyncPlaces ==
  ASSUME v1 = "sync"
  PROVE  /\ Pipes!Places(Pipes!main) = {"fork", "read", "exit", "gone"}
         /\ Pipes!Held(Pipes!main, "fork") = Pipes!Both("out") /\ Pipes!Held(Pipes!main, "read") = {<<"r", "out">>}
         /\ Pipes!Held(Pipes!main, "exit") = {<<"r", "out">>}
         /\ \A q : q # Pipes!main =>
              /\ Pipes!Places(q) = {"none", "close", "work", "exit", "gone"} /\ Pipes!Held(q, "close") = Pipes!Both("out")
              /\ Pipes!Held(q, "work") = {<<"w", "out">>} /\ Pipes!Held(q, "exit") = {}
<1>1. /\ Pipes!Places(Pipes!main) = {"fork", "read", "exit", "gone"}
      /\ \A q : q # Pipes!main => Pipes!Places(q) = {"none", "close", "work", "exit", "gone"}
  BY DEF Pipes!Places, Pipes!Relays
<1>2. /\ Pipes!Held(Pipes!main, "fork") = Pipes!Both("out") /\ Pipes!Held(Pipes!main, "read") = {<<"r", "out">>}
      /\ Pipes!Held(Pipes!main, "exit") = {<<"r", "out">>}
  BY DEF Pipes!Held
<1>3. ASSUME NEW q, q # Pipes!main
      PROVE  Pipes!Held(q, "close") = Pipes!Both("out") /\ Pipes!Held(q, "work") = {<<"w", "out">>} /\ Pipes!Held(q, "exit") = {}
  BY <1>3 DEF Pipes!Held
<1> QED
  BY <1>1, <1>2, <1>3

LEMMA PipSyncWho ==
  ASSUME Pipes!PlaceInv, v1 = "sync", Pipes!Writers("out") = {}
  PROVE  \A c \in PipKids : v4[c].pc \in {"none", "exit", "gone"}
<1> TAKE c \in PipKids
<1>1. v1 \in PipProgs /\ c \in Pipes!Procs /\ c # Pipes!main
  BY PipProcs DEF PipProgs
<1>2. v4[c].pc \in Pipes!Places(c)
  BY <1>1, PipPlaces
<1>3. v4[c].pc \in {"close", "work"} => <<"w", "out">> \in Pipes!Held(c, v4[c].pc)
  BY <1>1, PipSyncPlaces, PipMinus
<1>4. <<"w", "out">> \notin Pipes!Held(c, v4[c].pc)
  BY <1>1, PipWho
<1> QED
  BY <1>1, <1>2, <1>3, <1>4, PipSyncPlaces

LEMMA PipSync ==
  ASSUME Pipes!TypeOK, Pipes!PlaceInv, v1 = "sync", Pipes!SyncInv, Pipes!pipe_sync
  PROVE  v1' = v1 /\ Pipes!TypeOK' /\ Pipes!PlaceInv' /\ Pipes!SyncInv'
<1> DEFINE m == Pipes!main
           Good == Pipes!TypeOK' /\ Pipes!PlaceInv'
<1>1. v1' = v1 /\ v1 \in PipProgs
  BY DEF Pipes!pipe_sync, Pipes!Mine, PipProgs
<1>2. m \in Pipes!Procs /\ \A c \in PipKids : c \in Pipes!Procs /\ c # m
  BY PipProcs
<1>3. \A c \in PipKids : v4[c].pc \in {"none", "close", "work", "exit", "gone"}
  BY <1>1, <1>2, PipPlaces, PipSyncPlaces
<1>4. /\ v2["out"] = <<>>
      /\ v4[m].pc \in {"read", "exit"} => \A c \in PipKids : v4[c].pc # "none"
      /\ v4[m].pc = "exit" => \A c \in PipKids : v4[c].pc \in {"exit", "gone"}
  BY DEF Pipes!SyncInv, Pipes!At
<1>5. ASSUME v2' = v2,
             v4'[m].pc \in {"read", "exit"} => \A c \in PipKids : v4'[c].pc # "none",
             v4'[m].pc = "exit" => \A c \in PipKids : v4'[c].pc \in {"exit", "gone"}
      PROVE  Pipes!SyncInv'
  BY <1>4, <1>5 DEF Pipes!SyncInv, Pipes!At
<1>6. CASE Pipes!At(m, "fork") /\ LET left == {c \in PipKids : Pipes!At(c, "none")}
                                  IN IF left = {} THEN Pipes!Close(m, {<<"w", "out">>}, "read") ELSE Pipes!ForkFirst(left)
  <2>1. v4[m].pc = "fork"
    BY <1>6 DEF Pipes!At
  <2>2. CASE Pipes!Close(m, {<<"w", "out">>}, "read") /\ \A c \in PipKids : v4[c].pc # "none"
    <3>1. Good /\ PipMoves(m, "read", v4[m].buf) /\ v2' = v2
      BY <1>1, <1>2, <2>1, <2>2, PipCloseKeeps, PipSyncPlaces, PipLabels, PipMinus
    <3>2. v4'[m].pc = "read" /\ \A c \in PipKids : v4'[c] = v4[c]
      BY <1>2, <3>1 DEF PipMoves
    <3> QED
      BY <1>1, <1>5, <2>2, <3>1, <3>2
  <2>3. ASSUME NEW c \in PipKids, v4[c].pc = "none", Pipes!Fork(m, c, "fork")
        PROVE  Good /\ Pipes!SyncInv'
    <3>1. Good /\ (PipForks(m, c, "fork") \/ (PipMoves(m, "gone", v4[m].buf) /\ v2' = v2))
      BY <1>1, <1>2, <2>1, <2>3, PipForkKeeps, PipSyncPlaces, PipLabels
    <3>2. v4'[m].pc \in {"fork", "gone"} /\ v2' = v2
      BY <3>1 DEF PipForks, PipMoves
    <3> QED
      BY <1>5, <3>1, <3>2
  <2>4. \/ Pipes!Close(m, {<<"w", "out">>}, "read") /\ \A c \in PipKids : v4[c].pc # "none"
        \/ \E c \in PipKids : v4[c].pc = "none" /\ Pipes!Fork(m, c, "fork")
    BY <1>6 DEF Pipes!ForkFirst, Pipes!At
  <2> QED
    BY <1>1, <2>2, <2>3, <2>4
<1>7. CASE Pipes!At(m, "read") /\ Pipes!ReadBlock(m, "out", "exit", "exit")
  <2>1. v4[m].pc = "read"
    BY <1>7 DEF Pipes!At
  <2>2. Good /\ PipAtEnd(m, "out", "exit")
    BY <1>1, <1>2, <1>4, <1>7, <2>1, PipReadKeeps, PipSyncPlaces, PipLabels
  <2>3. v4'[m].pc = "exit" /\ v2' = v2 /\ Pipes!Writers("out") = {} /\ \A c \in PipKids : v4'[c] = v4[c]
    BY <1>2, <2>2 DEF PipAtEnd, PipMoves
  <2>4. \A c \in PipKids : v4[c].pc \in {"exit", "gone"}
    BY <1>4, <2>1, <2>3, PipSyncWho
  <2> QED
    BY <1>1, <1>5, <2>2, <2>3, <2>4
<1>8. CASE Pipes!Exits(m)
  <2>1. v4[m].pc = "exit" /\ Pipes!Gone(m)
    BY <1>8 DEF Pipes!At, Pipes!Exits
  <2>2. Good /\ PipMoves(m, "gone", v4[m].buf) /\ v2' = v2
    BY <1>1, <1>2, <2>1, PipGoneKeeps
  <2>3. v4'[m].pc = "gone"
    BY <2>2 DEF PipMoves
  <2> QED
    BY <1>1, <1>5, <2>2, <2>3
\* A child that goes on.
<1>9. ASSUME NEW c \in PipKids, NEW l, PipMoves(c, l, v4[c].buf), v2' = v2, l \in {"work", "exit", "gone"},
             v4[c].pc \in {"exit", "gone"} => l \in {"exit", "gone"}
      PROVE  Pipes!SyncInv'
  <2>1. v4'[m] = v4[m] /\ v4'[c].pc = l /\ \A d \in PipKids : d # c => v4'[d] = v4[d]
    BY <1>2, <1>9 DEF PipMoves
  <2> QED
    BY <1>4, <1>5, <1>9, <2>1
<1>10. ASSUME NEW c \in PipKids, Pipes!At(c, "close") /\ Pipes!Close(c, {<<"r", "out">>}, "work")
       PROVE  Good /\ Pipes!SyncInv'
  <2>1. v4[c].pc = "close" /\ Pipes!Close(c, {<<"r", "out">>}, "work")
    BY <1>10 DEF Pipes!At
  <2>2. Good /\ PipMoves(c, "work", v4[c].buf) /\ v2' = v2
    BY <1>1, <1>2, <2>1, PipCloseKeeps, PipSyncPlaces, PipLabels, PipMinus
  <2> QED
    BY <1>9, <2>1, <2>2
<1>11. ASSUME NEW c \in PipKids, Pipes!At(c, "work") /\ Pipes!Close(c, {<<"w", "out">>}, "exit")
       PROVE  Good /\ Pipes!SyncInv'
  <2>1. v4[c].pc = "work" /\ Pipes!Close(c, {<<"w", "out">>}, "exit")
    BY <1>11 DEF Pipes!At
  <2>2. Good /\ PipMoves(c, "exit", v4[c].buf) /\ v2' = v2
    BY <1>1, <1>2, <2>1, PipCloseKeeps, PipSyncPlaces, PipLabels, PipMinus
  <2> QED
    BY <1>9, <2>1, <2>2
<1>12. ASSUME NEW c \in PipKids, Pipes!Exits(c)
       PROVE  Good /\ Pipes!SyncInv'
  <2>1. v4[c].pc = "exit" /\ Pipes!Gone(c)
    BY <1>12 DEF Pipes!At, Pipes!Exits
  <2>2. Good /\ PipMoves(c, "gone", v4[c].buf) /\ v2' = v2
    BY <1>1, <1>2, <2>1, PipGoneKeeps
  <2> QED
    BY <1>9, <2>1, <2>2
<1> QED
  BY <1>1, <1>6, <1>7, <1>8, <1>10, <1>11, <1>12 DEF Pipes!pipe_sync, Pipes!SyncParent, Pipes!Mine

LEMMA PipSyncKilled ==
  ASSUME Pipes!TypeOK, Pipes!PlaceInv, v1 = "sync", Pipes!SyncInv, v1' = v1, NEW c \in PipKids, v4[c].pc \notin {"none", "gone"},
         PipMoves(c, "gone", v4[c].buf), v2' = v2
  PROVE  Pipes!SyncInv'
<1>1. \A d \in PipKids : d \in Pipes!Procs /\ d # Pipes!main
  BY PipProcs
<1>2. v4'[Pipes!main] = v4[Pipes!main] /\ v4'[c].pc = "gone" /\ \A d \in PipKids : d # c => v4'[d] = v4[d]
  BY <1>1, PipProcs DEF PipMoves
<1> QED
  BY <1>2 DEF Pipes!SyncInv, Pipes!At

-----------------------------------------------------------------------------
LEMMA PipLswcPlaces ==
  ASSUME v1 = "lswc"
  PROVE  /\ Pipes!Places(Pipes!main) = {"fork", "fork2", "close", "wait", "gone"}
         /\ Pipes!Places(1) = {"none", "close", "write", "exit", "gone"}
         /\ Pipes!Places(2) = {"none", "close", "read", "print", "exit", "gone"}
         /\ \A q : q \notin {Pipes!main, 1, 2} => Pipes!Places(q) = {"none"}
         /\ Pipes!Held(Pipes!main, "fork") = Pipes!Both("out") /\ Pipes!Held(Pipes!main, "fork2") = Pipes!Both("out")
         /\ Pipes!Held(Pipes!main, "close") = Pipes!Both("out") /\ Pipes!Held(Pipes!main, "wait") = {}
         /\ Pipes!Held(1, "close") = Pipes!Both("out") /\ Pipes!Held(1, "write") = {<<"w", "out">>} /\ Pipes!Held(1, "exit") = {<<"w", "out">>}
         /\ Pipes!Held(2, "close") = Pipes!Both("out") /\ Pipes!Held(2, "read") = {<<"r", "out">>}
         /\ Pipes!Held(2, "print") = {<<"r", "out">>} /\ Pipes!Held(2, "exit") = {<<"r", "out">>}
<1>1. Pipes!main # 1 /\ Pipes!main # 2
  BY PipProcs
<1>2. /\ Pipes!Places(Pipes!main) = {"fork", "fork2", "close", "wait", "gone"}
      /\ Pipes!Places(1) = {"none", "close", "write", "exit", "gone"}
      /\ Pipes!Places(2) = {"none", "close", "read", "print", "exit", "gone"}
      /\ \A q : q \notin {Pipes!main, 1, 2} => Pipes!Places(q) = {"none"}
  BY <1>1 DEF Pipes!Places, Pipes!Relays
<1>3. /\ Pipes!Held(Pipes!main, "fork") = Pipes!Both("out") /\ Pipes!Held(Pipes!main, "fork2") = Pipes!Both("out")
      /\ Pipes!Held(Pipes!main, "close") = Pipes!Both("out") /\ Pipes!Held(Pipes!main, "wait") = {}
  BY <1>1 DEF Pipes!Held
<1>4. /\ Pipes!Held(1, "close") = Pipes!Both("out") /\ Pipes!Held(1, "write") = {<<"w", "out">>} /\ Pipes!Held(1, "exit") = {<<"w", "out">>}
  BY <1>1 DEF Pipes!Held
<1>5. /\ Pipes!Held(2, "close") = Pipes!Both("out") /\ Pipes!Held(2, "read") = {<<"r", "out">>}
      /\ Pipes!Held(2, "print") = {<<"r", "out">>} /\ Pipes!Held(2, "exit") = {<<"r", "out">>}
  BY <1>1 DEF Pipes!Held
<1> QED
  BY <1>2, <1>3, <1>4, <1>5

LEMMA PipLswcWho ==
  ASSUME Pipes!PlaceInv, v1 = "lswc"
  PROVE  /\ Pipes!Writers("out") = {} => v4[Pipes!main].pc \in {"wait", "gone"} /\ v4[1].pc \in {"none", "gone"}
         /\ Pipes!Readers("out") = {} => v4[Pipes!main].pc \in {"wait", "gone"} /\ v4[2].pc \in {"none", "gone"}
<1>1. v1 \in PipProgs
  BY DEF PipProgs
<1>2. v4[Pipes!main].pc \in Pipes!Places(Pipes!main) /\ v4[1].pc \in Pipes!Places(1) /\ v4[2].pc \in Pipes!Places(2)
  BY <1>1, PipPlaces, PipProcs
<1>3. v4[Pipes!main].pc \notin {"wait", "gone"} =>
        <<"w", "out">> \in Pipes!Held(Pipes!main, v4[Pipes!main].pc) /\ <<"r", "out">> \in Pipes!Held(Pipes!main, v4[Pipes!main].pc)
  BY <1>2, PipLswcPlaces, PipMinus
<1>4. v4[1].pc \notin {"none", "gone"} => <<"w", "out">> \in Pipes!Held(1, v4[1].pc)
  BY <1>2, PipLswcPlaces, PipMinus
<1>5. v4[2].pc \notin {"none", "gone"} => <<"r", "out">> \in Pipes!Held(2, v4[2].pc)
  BY <1>2, PipLswcPlaces, PipMinus
<1> QED
  BY <1>1, <1>3, <1>4, <1>5, PipWho, PipProcs

LEMMA PipNone ==
  ASSUME NEW s, NEW t, s = <<>>, t = <<>>
  PROVE  s \o t = <<>>
<1>1. <<>> \in Seq(Int) /\ Len(<<>>) = 0
  OBVIOUS
<1>2. s \in Seq(Int) /\ t \in Seq(Int) /\ Len(s) = 0 /\ Len(t) = 0
  BY <1>1
<1>3. s \o t \in Seq(Int) /\ Len(s \o t) = Len(s) + Len(t)
  BY <1>2, PipJoin
<1> DEFINE u == s \o t
<1>4. u \in Seq(Int) /\ Len(u) = 0
  BY <1>2, <1>3
<1> HIDE DEF u
<1>5. u = <<>>
  BY <1>4, PipEmpty
<1> QED
  BY <1>5 DEF u

LEMMA PipLswc ==
  ASSUME Pipes!TypeOK, Pipes!PlaceInv, v1 = "lswc", Pipes!LswcInv, Pipes!pipe_ls_wc
  PROVE  v1' = v1 /\ Pipes!TypeOK' /\ Pipes!PlaceInv' /\ Pipes!LswcInv'
<1> DEFINE m == Pipes!main
           Good == Pipes!TypeOK' /\ Pipes!PlaceInv'
           Line == Pipes!InLine(2, 1)
           All == Pipes!Total(2, 1)
           Still == v2' = v2 /\ v5' = v5
           Clear == v5.shown = <<>> /\ v4[2].buf = <<>> /\ v2["out"] = <<>> /\ v4[1].buf = <<>>
<1>1. v1' = v1 /\ v1 \in PipProgs /\ v1 \notin {"sync", "simple", "case"}
  BY DEF Pipes!pipe_ls_wc, Pipes!Mine, PipProgs
<1>2. m # 1 /\ m # 2 /\ m \in Pipes!Procs /\ 1 \in Pipes!Procs /\ 2 \in Pipes!Procs
  BY PipProcs
<1>3. /\ v4[1].buf \in Seq(Int) /\ v4[2].buf \in Seq(Int) /\ v4[1].pc \in Pipes!Places(1) /\ v4[2].pc \in Pipes!Places(2)
      /\ v4[m].pc \in Pipes!Places(m)
  BY <1>1, <1>2, PipTyped, PipPlaces
<1>4. /\ Line /\ (v4[2].pc \in {"none", "close", "read"} => v4[2].buf = <<>>)
      /\ (v4[1].pc \in {"none", "close"} => Clear)
      /\ (v4[1].pc \in {"write", "exit"} => All)
      /\ (v4[1].pc = "exit" => v4[1].buf = <<>>)
      /\ (v4[1].pc = "gone" /\ v5.killed = {} /\ ~(v4[2].pc = "none" /\ v4[m].pc = "gone") => All /\ v4[1].buf = <<>>)
      /\ (v4[2].pc \in {"exit", "gone"} /\ v5.killed = {} => v4[1].pc = "gone" /\ v2["out"] = <<>> /\ v4[2].buf = <<>>)
      /\ (v4[m].pc = "fork" => v4[1].pc = "none")
      /\ (v4[m].pc = "fork2" => v4[1].pc # "none" /\ v4[2].pc = "none")
      /\ (v4[m].pc \in {"close", "wait"} => v4[2].pc # "none")
      /\ (v4[1].pc = "none" => v4[2].pc = "none")
  BY DEF Pipes!LswcInv, Pipes!InLine, Pipes!At
<1>5. ASSUME Line',
             v4'[1].pc \in {"none", "close"} => Clear',
             v4'[1].pc \in {"write", "exit"} => All',
             v4'[1].pc = "exit" => v4'[1].buf = <<>>,
             v4'[1].pc = "gone" /\ v5'.killed = {} /\ ~(v4'[2].pc = "none" /\ v4'[m].pc = "gone") => All' /\ v4'[1].buf = <<>>,
             v4'[2].pc \in {"exit", "gone"} /\ v5'.killed = {} => v4'[1].pc = "gone" /\ v2'["out"] = <<>> /\ v4'[2].buf = <<>>,
             v4'[m].pc = "fork" => v4'[1].pc = "none",
             v4'[m].pc = "fork2" => v4'[1].pc # "none" /\ v4'[2].pc = "none",
             v4'[m].pc \in {"close", "wait"} => v4'[2].pc # "none",
             v4'[1].pc = "none" => v4'[2].pc = "none"
      PROVE  Pipes!LswcInv'
  BY <1>5 DEF Pipes!LswcInv, Pipes!At
\* Steps that only move.
<1>6. ASSUME v4'[1].buf = v4[1].buf, v4'[2].buf = v4[2].buf, Still,
             v4'[2].pc \in {"none", "close", "read"} => v4[2].pc \in {"none", "close", "read"}
      PROVE  Line' /\ (All => All') /\ (Clear => Clear')
  <2>1. Line' /\ (All => All')
    BY <1>4, <1>6, PipLineSame
  <2> QED
    BY <1>6, <2>1
<1>7. ASSUME NEW q \in {m, 1, 2}, NEW l, PipMoves(q, l, v4[q].buf), Still,
             q = 2 /\ l \in {"none", "close", "read"} => v4[2].pc \in {"none", "close", "read"}
      PROVE  Line' /\ (All => All') /\ (Clear => Clear')
  <2>1. v4'[1].buf = v4[1].buf /\ v4'[2].buf = v4[2].buf
    BY <1>2, <1>7 DEF PipMoves
  <2>2. v4'[2].pc \in {"none", "close", "read"} => v4[2].pc \in {"none", "close", "read"}
    BY <1>2, <1>7 DEF PipMoves
  <2> QED
    BY <1>6, <1>7, <2>1, <2>2
<1> HIDE DEF Line, All
<1>8. CASE Pipes!At(m, "fork") /\ Pipes!Fork(m, 1, "fork2")
  <2>1. v4[m].pc = "fork" /\ Pipes!Fork(m, 1, "fork2")
    BY <1>8 DEF Pipes!At
  <2>2. Good /\ (PipForks(m, 1, "fork2") \/ (PipMoves(m, "gone", v4[m].buf) /\ Still))
    BY <1>1, <1>2, <2>1, PipForkKeeps, PipLswcPlaces, PipLabels
  <2>3. CASE PipForks(m, 1, "fork2")
    <3>1. /\ v4'[m].pc = "fork2" /\ v4'[1].pc = "close" /\ v4'[1].buf = v4[1].buf /\ v4'[2] = v4[2] /\ Still
      BY <1>2, <2>3 DEF PipForks
    <3>2. Line' /\ (Clear => Clear')
      BY <1>6, <3>1
    <3> QED
      BY <1>1, <1>4, <1>5, <2>1, <2>2, <3>1, <3>2
  <2>4. CASE PipMoves(m, "gone", v4[m].buf) /\ Still
    <3>1. v4'[m].pc = "gone" /\ v4'[1] = v4[1] /\ v4'[2] = v4[2]
      BY <1>2, <2>4 DEF PipMoves
    <3>2. Line' /\ (All => All') /\ (Clear => Clear')
      BY <1>2, <1>7, <2>4
    <3> QED
      BY <1>1, <1>4, <1>5, <2>1, <2>2, <2>4, <3>1, <3>2
  <2> QED
    BY <2>2, <2>3, <2>4
<1>9. CASE Pipes!At(m, "fork2") /\ Pipes!Fork(m, 2, "close")
  <2>1. v4[m].pc = "fork2" /\ Pipes!Fork(m, 2, "close")
    BY <1>9 DEF Pipes!At
  <2>2. Good /\ (PipForks(m, 2, "close") \/ (PipMoves(m, "gone", v4[m].buf) /\ Still))
    BY <1>1, <1>2, <2>1, PipForkKeeps, PipLswcPlaces, PipLabels
  <2>3. CASE PipForks(m, 2, "close")
    <3>1. /\ v4'[m].pc = "close" /\ v4'[2].pc = "close" /\ v4'[2].buf = v4[2].buf /\ v4'[1] = v4[1] /\ Still
      BY <1>2, <2>3 DEF PipForks
    <3>2. Line' /\ (All => All') /\ (Clear => Clear')
      BY <1>4, <1>6, <2>1, <3>1
    <3> QED
      BY <1>1, <1>4, <1>5, <2>1, <2>2, <3>1, <3>2
  <2>4. CASE PipMoves(m, "gone", v4[m].buf) /\ Still
    <3>1. v4'[m].pc = "gone" /\ v4'[1] = v4[1] /\ v4'[2] = v4[2]
      BY <1>2, <2>4 DEF PipMoves
    <3>2. Line' /\ (All => All') /\ (Clear => Clear')
      BY <1>2, <1>7, <2>4
    <3> QED
      BY <1>1, <1>4, <1>5, <2>1, <2>2, <2>4, <3>1, <3>2
  <2> QED
    BY <2>2, <2>3, <2>4
<1>10. CASE Pipes!At(m, "close") /\ Pipes!Close(m, {<<"r", "out">>, <<"w", "out">>}, "wait")
  <2>1. v4[m].pc = "close"
    BY <1>10 DEF Pipes!At
  <2>2. Good /\ PipMoves(m, "wait", v4[m].buf) /\ Still
    BY <1>1, <1>2, <1>10, <2>1, PipCloseKeeps, PipLswcPlaces, PipLabels, PipMinus
  <2>3. v4'[m].pc = "wait" /\ v4'[1] = v4[1] /\ v4'[2] = v4[2]
    BY <1>2, <2>2 DEF PipMoves
  <2>4. Line' /\ (All => All') /\ (Clear => Clear')
    BY <1>2, <1>7, <2>2
  <2> QED
    BY <1>1, <1>4, <1>5, <2>1, <2>2, <2>3, <2>4
<1>11. CASE Pipes!WaitsFor(m, {1, 2})
  <2>1. v4[m].pc = "wait" /\ Pipes!Gone(m)
    BY <1>11 DEF Pipes!At, Pipes!WaitsFor
  <2>2. Good /\ PipMoves(m, "gone", v4[m].buf) /\ Still
    BY <1>1, <1>2, <2>1, PipGoneKeeps
  <2>3. v4'[m].pc = "gone" /\ v4'[1] = v4[1] /\ v4'[2] = v4[2]
    BY <1>2, <2>2 DEF PipMoves
  <2>4. Line' /\ (All => All') /\ (Clear => Clear')
    BY <1>2, <1>7, <2>2
  <2> QED
    BY <1>1, <1>4, <1>5, <2>1, <2>2, <2>3, <2>4
<1>12. CASE /\ Pipes!At(1, "close") /\ v3' = [v3 EXCEPT ![1] = v3[1] \ {<<"r", "out">>}]
            /\ v4' = [v4 EXCEPT ![1] = [pc |-> "write", buf |-> PipInput]] /\ UNCHANGED <<v2, v5, v6>>
  <2>1. v4[1].pc = "close" /\ Still /\ v6' = v6
    BY <1>12 DEF Pipes!At
  <2>2. v4' \in [Pipes!Procs -> Pipes!States] /\ PipMoves(1, "write", PipInput)
    <3>1. "write" \in Pipes!Labels /\ PipInput \in Seq(Int)
      BY PipLabels, PipBounds
    <3> QED
      BY <1>2, <1>12, <3>1, PipTyped DEF PipMoves, Pipes!States
  <2>3. v3[1] \ {<<"r", "out">>} = {<<"w", "out">>} /\ v3[1] \ {<<"r", "out">>} \in SUBSET PipEnds
    BY <1>1, <1>2, <2>1, PipPlaces, PipLswcPlaces, PipMinus, PipTyped
  <2>4. v3' \in [Pipes!Procs -> SUBSET PipEnds] /\ PipHolds(1, {<<"w", "out">>})
    BY <1>2, <1>12, <2>3, PipTyped, PipEndsSet DEF PipHolds
  <2>5. Pipes!TypeOK'
    BY <1>1, <2>1, <2>2, <2>4, PipTyped, PipTypes
  <2>6. Pipes!PlaceInv'
    <3>1. v4'[1].pc = "write" /\ v3'[1] = {<<"w", "out">>} /\ \A r \in Pipes!Procs : r # 1 => v4'[r].pc = v4[r].pc /\ v3'[r] = v3[r]
      BY <2>2, <2>4 DEF PipMoves, PipHolds
    <3>2. "write" \in Pipes!Places(1) /\ {<<"w", "out">>} = Pipes!Held(1, "write")
      BY PipLswcPlaces
    <3>3. v4'[1].pc \in Pipes!Places(1) /\ v3'[1] = Pipes!Held(1, v4'[1].pc)
      BY <3>1, <3>2
    <3> QED
      BY <1>1, <1>2, <3>1, <3>3, PipPlace
  <2>7. v4'[1].pc = "write" /\ v4'[1].buf = PipInput /\ v4'[2] = v4[2] /\ v4'[m] = v4[m]
    BY <1>2, <2>2 DEF PipMoves
  <2>8. v5'.shown = <<>> /\ v4'[2].buf = <<>> /\ v2'["out"] = <<>>
    BY <1>4, <2>1, <2>7
  <2>9. Len(<<>>) = 0 /\ Pipes!Follows(PipInput, <<>>, 0) /\ Pipes!Follows(PipInput, PipInput, 0) /\ Len(PipInput) \in Nat
    BY PipBounds, PipAll, PipNothing
  <2>10. Line' /\ All'
    <3>1. Len(v5'.shown) = 0 /\ Len(v4'[2].buf) = 0 /\ Len(v2'["out"]) = 0
      BY <2>8, <2>9
    <3>2. /\ Len(v5'.shown) + Len(v4'[2].buf) = 0 /\ Len(v5'.shown) + Len(v4'[2].buf) + Len(v2'["out"]) = 0
          /\ Len(v5'.shown) + Len(v4'[2].buf) + Len(v2'["out"]) + Len(PipInput) = Len(PipInput)
      BY <2>9, <3>1
    <3> QED
      BY <2>7, <2>8, <2>9, <3>1, <3>2 DEF Line, All, Pipes!InLine, Pipes!Total
  <2> QED
    BY <1>1, <1>4, <1>5, <2>1, <2>5, <2>6, <2>7, <2>10
<1>13. CASE Pipes!At(1, "write") /\ Pipes!WriteBlock(1, "out", v4[1].buf, "exit")
  <2>1. v4[1].pc = "write"
    BY <1>13 DEF Pipes!At
  <2>2. /\ Good
        /\ \/ Pipes!Readers("out") = {} /\ PipMoves(1, "gone", v4[1].buf) /\ Still
           \/ \E n \in 0..Len(v4[1].buf) : PipWrites(1, "out", "exit", n)
    BY <1>1, <1>2, <1>13, <2>1, PipWriteKeeps, PipLswcPlaces, PipLabels
  <2>3. CASE Pipes!Readers("out") = {} /\ PipMoves(1, "gone", v4[1].buf) /\ Still
    <3>1. v4'[1].pc = "gone" /\ v4'[m] = v4[m] /\ v4'[2] = v4[2]
      BY <1>2, <2>3 DEF PipMoves
    <3>2. v4[m].pc \in {"wait", "gone"} /\ v4[2].pc \in {"none", "gone"}
      BY <2>3, PipLswcWho
    <3>3. Line'
      BY <1>2, <1>7, <2>3
    <3> QED
      BY <1>1, <1>4, <1>5, <2>1, <2>2, <2>3, <3>1, <3>2, <3>3
  <2>4. ASSUME NEW n \in 0..Len(v4[1].buf), PipWrites(1, "out", "exit", n)
        PROVE  Pipes!LswcInv'
    <3>1. /\ v4'[1].pc = (IF n = Len(v4[1].buf) THEN "exit" ELSE "write") /\ v4'[1].buf = SubSeq(v4[1].buf, n + 1, Len(v4[1].buf))
          /\ v4'[m] = v4[m] /\ v4'[2] = v4[2] /\ v5' = v5
      BY <1>2, <2>1, <2>4 DEF PipWrites, PipMoves
    <3>2. n = Len(v4[1].buf) => v4'[1].buf = <<>>
      BY <1>3, <3>1, PipRest
    <3>3. Line' /\ All'
      BY <1>2, <1>4, <2>1, <2>4, PipLineWrite DEF Line, All
    <3>4. v4'[1].pc \in {"exit", "write"} /\ (v4'[1].pc = "exit" => v4'[1].buf = <<>>)
      BY <3>1, <3>2
    <3> QED
      BY <1>4, <1>5, <2>1, <3>1, <3>3, <3>4
  <2> QED
    BY <1>1, <2>2, <2>3, <2>4
<1>14. CASE Pipes!At(2, "close") /\ Pipes!Close(2, {<<"w", "out">>}, "read")
  <2>1. v4[2].pc = "close"
    BY <1>14 DEF Pipes!At
  <2>2. Good /\ PipMoves(2, "read", v4[2].buf) /\ Still
    BY <1>1, <1>2, <1>14, <2>1, PipCloseKeeps, PipLswcPlaces, PipLabels, PipMinus
  <2>3. v4'[2].pc = "read" /\ v4'[1] = v4[1] /\ v4'[m] = v4[m]
    BY <1>2, <2>2 DEF PipMoves
  <2>4. Line' /\ (All => All') /\ (Clear => Clear')
    BY <1>2, <1>7, <2>1, <2>2
  <2> QED
    BY <1>1, <1>4, <1>5, <2>1, <2>2, <2>3, <2>4
<1>15. CASE Pipes!At(2, "read") /\ Pipes!ReadBlock(2, "out", "print", "exit")
  <2>1. v4[2].pc = "read"
    BY <1>15 DEF Pipes!At
  <2>2. /\ Good
        /\ \/ PipAtEnd(2, "out", "exit")
           \/ v2["out"] # <<>> /\ \E n \in 1..Len(v2["out"]) : PipReads(2, "out", "print", n)
    BY <1>1, <1>2, <1>15, <2>1, PipReadKeeps, PipLswcPlaces, PipLabels
  <2>3. CASE PipAtEnd(2, "out", "exit")
    <3>1. v2["out"] = <<>> /\ Pipes!Writers("out") = {} /\ PipMoves(2, "exit", v4[2].buf) /\ Still
      BY <2>3 DEF PipAtEnd
    <3>2. v4'[2].pc = "exit" /\ v4'[2].buf = v4[2].buf /\ v4'[1] = v4[1] /\ v4'[m] = v4[m]
      BY <1>2, <3>1 DEF PipMoves
    <3>3. v4[1].pc = "gone"
      BY <1>4, <2>1, <3>1, PipLswcWho
    <3>4. Line' /\ (All => All') /\ (Clear => Clear')
      BY <1>2, <1>7, <3>1
    <3> QED
      BY <1>1, <1>4, <1>5, <2>1, <2>2, <3>1, <3>2, <3>3, <3>4
  <2>4. ASSUME NEW n \in 1..Len(v2["out"]), PipReads(2, "out", "print", n), v2["out"] # <<>>
        PROVE  Pipes!LswcInv'
    <3>1. v4'[2].pc = "print" /\ v4'[1] = v4[1] /\ v4'[m] = v4[m] /\ v5' = v5
      BY <1>2, <2>4 DEF PipReads, PipMoves
    <3>2. Line' /\ (All => All')
      BY <1>2, <1>4, <2>1, <2>4, PipLineRead DEF Line, All
    <3> QED
      BY <1>4, <1>5, <2>1, <2>4, <3>1, <3>2
  <2> QED
    BY <1>1, <2>2, <2>3, <2>4
<1>16. CASE Pipes!At(2, "print") /\ Pipes!Output(2, "read")
  <2>1. v4[2].pc = "print"
    BY <1>16 DEF Pipes!At
  <2>2. Good /\ PipShows(v5.shown \o v4[2].buf) /\ PipMoves(2, "read", <<>>) /\ v2' = v2
    BY <1>1, <1>2, <1>16, <2>1, PipOutputKeeps, PipLswcPlaces, PipLabels
  <2>3. v4'[2].pc = "read" /\ v4'[2].buf = <<>> /\ v4'[1] = v4[1] /\ v4'[m] = v4[m] /\ v5'.killed = v5.killed /\ v5'.shown = v5.shown \o v4[2].buf
    BY <1>2, <2>2 DEF PipMoves, PipShows
  <2>4. Line' /\ (All => All')
    BY <1>2, <1>4, <2>2, PipLineShow DEF Line, All
  <2>5. Clear => Clear'
    <3>1. ASSUME Clear
          PROVE  v5.shown \o v4[2].buf = <<>>
      BY <3>1, PipNone
    <3> QED
      BY <2>2, <2>3, <3>1
  <2> QED
    BY <1>1, <1>4, <1>5, <2>1, <2>2, <2>3, <2>4, <2>5
<1>17. CASE Pipes!Exits(1)
  <2>1. v4[1].pc = "exit" /\ Pipes!Gone(1)
    BY <1>17 DEF Pipes!At, Pipes!Exits
  <2>2. Good /\ PipMoves(1, "gone", v4[1].buf) /\ Still
    BY <1>1, <1>2, <2>1, PipGoneKeeps
  <2>3. v4'[1].pc = "gone" /\ v4'[1].buf = v4[1].buf /\ v4'[2] = v4[2] /\ v4'[m] = v4[m]
    BY <1>2, <2>2 DEF PipMoves
  <2>4. Line' /\ (All => All')
    BY <1>2, <1>7, <2>2
  <2> QED
    BY <1>1, <1>4, <1>5, <2>1, <2>2, <2>3, <2>4
<1>18. CASE Pipes!Exits(2)
  <2>1. v4[2].pc = "exit" /\ Pipes!Gone(2)
    BY <1>18 DEF Pipes!At, Pipes!Exits
  <2>2. Good /\ PipMoves(2, "gone", v4[2].buf) /\ Still
    BY <1>1, <1>2, <2>1, PipGoneKeeps
  <2>3. v4'[2].pc = "gone" /\ v4'[2].buf = v4[2].buf /\ v4'[1] = v4[1] /\ v4'[m] = v4[m]
    BY <1>2, <2>2 DEF PipMoves
  <2>4. Line' /\ (All => All') /\ (Clear => Clear')
    BY <1>2, <1>7, <2>2
  <2> QED
    BY <1>1, <1>4, <1>5, <2>1, <2>2, <2>3, <2>4
<1> QED
  BY <1>8, <1>9, <1>10, <1>11, <1>12, <1>13, <1>14, <1>15, <1>16, <1>17, <1>18 DEF Pipes!pipe_ls_wc, Pipes!Mine

LEMMA PipLswcKilled ==
  ASSUME Pipes!TypeOK, Pipes!PlaceInv, v1 = "lswc", Pipes!LswcInv, v1' = v1, NEW c \in PipKids, v4[c].pc \notin {"none", "gone"},
         PipMoves(c, "gone", v4[c].buf), v5'.shown = v5.shown, v5'.killed # {}, v2' = v2
  PROVE  Pipes!LswcInv'
<1> DEFINE m == Pipes!main
<1>1. m # 1 /\ m # 2 /\ m \in Pipes!Procs /\ 1 \in Pipes!Procs /\ 2 \in Pipes!Procs /\ c \in Pipes!Procs /\ c # m
  BY PipProcs
<1>2. c \in {1, 2}
  <2>1. v1 \in PipProgs
    BY DEF PipProgs
  <2> QED
    BY <1>1, <2>1, PipPlaces, PipLswcPlaces
<1>3. /\ v4'[c].pc = "gone" /\ v4'[1].buf = v4[1].buf /\ v4'[2].buf = v4[2].buf /\ v4'[m] = v4[m]
      /\ (c # 1 => v4'[1] = v4[1]) /\ (c # 2 => v4'[2] = v4[2])
  BY <1>1, <1>2 DEF PipMoves
<1>4. Pipes!InLine(2, 1)' /\ (Pipes!Total(2, 1) => Pipes!Total(2, 1)')
  <2>1. Pipes!InLine(2, 1) /\ (v4[2].pc \in {"none", "close", "read"} => v4[2].buf = <<>>)
    BY DEF Pipes!LswcInv, Pipes!InLine
  <2>2. v4'[2].pc \in {"none", "close", "read"} => v4'[2].buf = <<>>
    BY <1>2, <1>3, <2>1
  <2> QED
    BY <1>3, <2>1, <2>2, PipLineSame
<1>5. CASE c = 1
  BY <1>1, <1>3, <1>4, <1>5 DEF Pipes!LswcInv, Pipes!At
<1>6. CASE c = 2
  BY <1>1, <1>3, <1>4, <1>6 DEF Pipes!LswcInv, Pipes!At
<1> QED
  BY <1>2, <1>5, <1>6

LEMMA PipCasePlaces ==
  ASSUME v1 = "case"
  PROVE  /\ Pipes!Places(Pipes!main) = {"fork", "close", "input", "write", "read", "print", "exit", "gone"}
         /\ Pipes!Places(1) = {"none", "close", "read", "upper", "write", "exit", "gone"}
         /\ \A q : q # Pipes!main /\ q # 1 => Pipes!Places(q) = {"none"}
         /\ \A q : Pipes!Held(q, "fork") = Pipes!Both("out") \cup Pipes!Both("in") /\ Pipes!Held(q, "close") = Pipes!Both("out") \cup Pipes!Both("in")
         /\ \A l \in {"input", "write", "read", "print", "exit"} : Pipes!Held(Pipes!main, l) = {<<"w", "out">>, <<"r", "in">>}
         /\ \A l \in {"read", "upper", "write", "exit"} : Pipes!Held(1, l) = {<<"r", "out">>, <<"w", "in">>}
<1>1. Pipes!main # 1
  BY PipProcs
<1>2. /\ Pipes!Places(Pipes!main) = {"fork", "close", "input", "write", "read", "print", "exit", "gone"}
      /\ Pipes!Places(1) = {"none", "close", "read", "upper", "write", "exit", "gone"}
      /\ \A q : q # Pipes!main /\ q # 1 => Pipes!Places(q) = {"none"}
  BY <1>1 DEF Pipes!Places, Pipes!Relays
<1>3. \A q : Pipes!Held(q, "fork") = Pipes!Both("out") \cup Pipes!Both("in") /\ Pipes!Held(q, "close") = Pipes!Both("out") \cup Pipes!Both("in")
  BY DEF Pipes!Held
<1>4. \A l \in {"input", "write", "read", "print", "exit"} : Pipes!Held(Pipes!main, l) = {<<"w", "out">>, <<"r", "in">>}
  BY DEF Pipes!Held
<1>5. \A l \in {"read", "upper", "write", "exit"} : Pipes!Held(1, l) = {<<"r", "out">>, <<"w", "in">>}
  BY <1>1 DEF Pipes!Held
<1> QED
  BY <1>2, <1>3, <1>4, <1>5

LEMMA PipCaseWho ==
  ASSUME Pipes!PlaceInv, v1 = "case"
  PROVE  /\ Pipes!Writers("out") = {} => v4[Pipes!main].pc = "gone"
         /\ Pipes!Readers("out") = {} => v4[1].pc \in {"none", "gone"}
         /\ Pipes!Writers("in") = {} => v4[1].pc \in {"none", "gone"}
         /\ Pipes!Readers("in") = {} => v4[Pipes!main].pc = "gone"
<1>1. v1 \in PipProgs
  BY DEF PipProgs
<1>2. v4[Pipes!main].pc \in Pipes!Places(Pipes!main) /\ v4[1].pc \in Pipes!Places(1)
  BY <1>1, PipPlaces, PipProcs
<1>3. v4[Pipes!main].pc # "gone" =>
        <<"w", "out">> \in Pipes!Held(Pipes!main, v4[Pipes!main].pc) /\ <<"r", "in">> \in Pipes!Held(Pipes!main, v4[Pipes!main].pc)
  <2>1. CASE v4[Pipes!main].pc \in {"fork", "close"}
    BY <2>1, PipCasePlaces, PipMinus
  <2>2. CASE v4[Pipes!main].pc \in {"input", "write", "read", "print", "exit"}
    BY <2>2, PipCasePlaces
  <2> QED
    BY <1>2, <2>1, <2>2, PipCasePlaces
<1>4. v4[1].pc \notin {"none", "gone"} =>
        <<"r", "out">> \in Pipes!Held(1, v4[1].pc) /\ <<"w", "in">> \in Pipes!Held(1, v4[1].pc)
  <2>1. CASE v4[1].pc = "close"
    BY <2>1, PipCasePlaces, PipMinus
  <2>2. CASE v4[1].pc \in {"read", "upper", "write", "exit"}
    BY <2>2, PipCasePlaces
  <2> QED
    BY <1>2, <2>1, <2>2, PipCasePlaces
<1> QED
  BY <1>1, <1>3, <1>4, PipWho, PipProcs

\* A block that went through whole.
LEMMA PipAllOf ==
  ASSUME NEW s \in Seq(Int)
  PROVE  /\ SubSeq(s, 1, Len(s)) \in Seq(Int) /\ Len(SubSeq(s, 1, Len(s))) = Len(s) /\ SubSeq(s, Len(s) + 1, Len(s)) = <<>>
         /\ \A a \in Seq(Int), k \in Nat : Pipes!Follows(a, s, k) => Pipes!Follows(a, SubSeq(s, 1, Len(s)), k)
<1>1. Len(s) \in 0..Len(s)
  OBVIOUS
<1>2. SubSeq(s, 1, Len(s)) \in Seq(Int) /\ Len(SubSeq(s, 1, Len(s))) = Len(s)
  BY <1>1, PipParts
<1>3. SubSeq(s, Len(s) + 1, Len(s)) = <<>>
  BY <1>1, PipRest
<1>4. \A a \in Seq(Int), k \in Nat : Pipes!Follows(a, s, k) => Pipes!Follows(a, SubSeq(s, 1, Len(s)), k)
  BY <1>1, PipSplit
<1> QED
  BY <1>2, <1>3, <1>4

LEMMA PipAfterNone ==
  ASSUME NEW s \in Seq(Int), NEW t \in Seq(Int), s = <<>>
  PROVE  /\ s \o t \in Seq(Int) /\ Len(s \o t) = Len(t)
         /\ \A a \in Seq(Int), k \in Nat : Pipes!Follows(a, t, k) => Pipes!Follows(a, s \o t, k)
<1>1. Len(s) = 0 /\ Len(t) \in Nat
  OBVIOUS
<1>2. /\ s \o t \in Seq(Int) /\ Len(s \o t) = Len(s) + Len(t)
      /\ \A a \in Seq(Int), k \in Nat :
           Pipes!Follows(a, s, k) /\ Pipes!Follows(a, t, k + Len(s)) => Pipes!Follows(a, s \o t, k)
  BY PipJoin
<1>3. ASSUME NEW a \in Seq(Int), NEW k \in Nat, Pipes!Follows(a, t, k)
      PROVE  Pipes!Follows(a, s \o t, k)
  <2>1. k + Len(s) = k
    BY <1>1
  <2>2. k + Len(t) <= Len(a) /\ Len(a) \in Nat
    BY <1>3 DEF Pipes!Follows
  <2>3. k <= Len(a)
    BY <1>1, <2>2
  <2>4. Pipes!Follows(a, s, k)
    BY <2>3, PipNothing
  <2> QED
    BY <1>2, <1>3, <2>1, <2>4
<1>4. Len(s \o t) = Len(t)
  BY <1>1, <1>2
<1> QED
  BY <1>2, <1>3, <1>4

LEMMA PipCase ==
  ASSUME Pipes!TypeOK, Pipes!PlaceInv, v1 = "case", Pipes!CaseInv, Pipes!change_case
  PROVE  v1' = v1 /\ Pipes!TypeOK' /\ Pipes!PlaceInv' /\ Pipes!CaseInv'
<1> DEFINE m == Pipes!main
           Good == Pipes!TypeOK' /\ Pipes!PlaceInv'
           U == Pipes!Upper(PipInput)
           Still == v2' = v2 /\ v5' = v5
           Idle == Pipes!Idle
           One == Pipes!OneBlock
           Shown == Pipes!Follows(U, v5.shown, 0) /\ Pipes!Follows(PipInput, v5.stdin, Len(PipInput) - Len(v5.stdin)) /\ Len(v5.stdin) <= Len(PipInput)
           In == Pipes!Follows(U, v2["in"], Len(v5.shown))
           Up == Pipes!Follows(U, v4[m].buf, Len(v5.shown))
           Raw == Pipes!Follows(PipInput, v4[m].buf, Len(v5.shown)) /\ v4[m].buf # <<>> /\ Len(v4[m].buf) <= PipBufSize
           Sum == Pipes!CaseSum(<<>>)
           SumB == Pipes!CaseSum(v4[m].buf)
           Done == Len(v5.shown) = Len(PipInput)
           Small == Len(v2["in"]) <= PipBufSize
<1>1. v1' = v1 /\ v1 \in PipProgs /\ v1 \notin {"sync", "simple", "lswc", "glob"}
  BY DEF Pipes!change_case, Pipes!Mine, PipProgs
<1>2. m # 1 /\ m \in Pipes!Procs /\ 1 \in Pipes!Procs
  BY PipProcs
<1>3. /\ v4[1].buf \in Seq(Int) /\ v4[m].buf \in Seq(Int) /\ v4[1].pc \in Pipes!Places(1) /\ v4[m].pc \in Pipes!Places(m)
      /\ v2["out"] \in Seq(Int) /\ v2["in"] \in Seq(Int) /\ v5.shown \in Seq(Int) /\ v5.stdin \in Seq(Int)
      /\ PipInput \in Seq(Int) /\ U \in Seq(Int) /\ Len(U) = Len(PipInput)
  BY <1>1, <1>2, PipTyped, PipPlaces, PipBounds, PipUpper
<1>4. /\ Shown /\ Small
      /\ v4[m].pc = "fork" => v4[1].pc = "none"
      /\ v4[m].pc \notin {"fork", "gone"} => v4[1].pc # "none"
      /\ v4[1].pc = "exit" => v4[m].pc = "gone"
      /\ v4[1].pc # "gone" =>
           /\ v4[m].pc \in {"fork", "close", "input", "exit", "gone"} => Idle /\ Sum
           /\ v4[m].pc = "print" => Idle /\ SumB /\ Up
           /\ v4[m].pc = "write" => Idle /\ SumB /\ Raw
           /\ v4[m].pc = "read" => One
           /\ v4[m].pc = "exit" \/ (v4[m].pc = "gone" /\ v4[1].pc # "none") => v5.stdin = <<>>
      /\ v4[1].pc = "gone" =>
           /\ IF v4[m].pc = "print" THEN v2["in"] = <<>> /\ Up ELSE In
           /\ v5.killed = {} => v4[m].pc = "gone" /\ Done
  BY DEF Pipes!CaseInv, Pipes!At
<1>5. ASSUME Shown', Small',
             v4'[m].pc = "fork" => v4'[1].pc = "none",
             v4'[m].pc \notin {"fork", "gone"} => v4'[1].pc # "none",
             v4'[1].pc = "exit" => v4'[m].pc = "gone",
             v4'[1].pc # "gone" =>
               /\ v4'[m].pc \in {"fork", "close", "input", "exit", "gone"} => Idle' /\ Sum'
               /\ v4'[m].pc = "print" => Idle' /\ SumB' /\ Up'
               /\ v4'[m].pc = "write" => Idle' /\ SumB' /\ Raw'
               /\ v4'[m].pc = "read" => One'
               /\ v4'[m].pc = "exit" \/ (v4'[m].pc = "gone" /\ v4'[1].pc # "none") => v5'.stdin = <<>>,
             v4'[1].pc = "gone" =>
               /\ IF v4'[m].pc = "print" THEN v2'["in"] = <<>> /\ Up' ELSE In'
               /\ v5'.killed = {} => v4'[m].pc = "gone" /\ Done'
      PROVE  Pipes!CaseInv'
  BY <1>5 DEF Pipes!CaseInv, Pipes!At
\* What only depends on the data.
<1>6. ASSUME Still, v4'[m].buf = v4[m].buf
      PROVE  /\ (Shown => Shown') /\ (Small => Small') /\ (In => In') /\ (Up => Up') /\ (Raw => Raw') /\ (Sum => Sum')
             /\ (SumB => SumB') /\ (Done => Done') /\ (v4'[1] = v4[1] => (Idle => Idle') /\ (One => One'))
  BY <1>6 DEF Pipes!CaseSum, Pipes!Idle, Pipes!OneBlock, Pipes!At
<1>7. /\ Shown => /\ Pipes!Follows(U, v5.shown, 0) /\ Pipes!Follows(PipInput, v5.stdin, Len(PipInput) - Len(v5.stdin))
                  /\ Len(v5.stdin) <= Len(PipInput)
      /\ Len(v5.shown) \in Nat /\ Len(v5.stdin) \in Nat /\ Len(PipInput) \in Nat /\ Len(v4[m].buf) \in Nat
      /\ Sum => Len(v5.shown) + Len(v5.stdin) = Len(PipInput)
      /\ SumB => Len(v5.shown) + Len(v4[m].buf) + Len(v5.stdin) = Len(PipInput)
      /\ Idle => v2["out"] = <<>> /\ v2["in"] = <<>> /\ v4[1].buf = <<>> /\ v4[1].pc \in {"none", "close", "read", "exit"}
  <2>1. Len(<<>>) = 0
    OBVIOUS
  <2>2. Len(v5.shown) \in Nat /\ Len(v5.stdin) \in Nat /\ Len(PipInput) \in Nat /\ Len(v4[m].buf) \in Nat
    BY <1>3
  <2>3. Sum => Len(v5.shown) + Len(v5.stdin) = Len(PipInput)
    <3>1. Sum => Len(v5.shown) + Len(<<>>) + Len(v5.stdin) = Len(PipInput)
      BY DEF Pipes!CaseSum
    <3>2. Len(v5.shown) + Len(<<>>) = Len(v5.shown)
      BY <2>1, <2>2
    <3> QED
      BY <3>1, <3>2
  <2>4. SumB => Len(v5.shown) + Len(v4[m].buf) + Len(v5.stdin) = Len(PipInput)
    BY <2>2 DEF Pipes!CaseSum
  <2>5. Idle => v2["out"] = <<>> /\ v2["in"] = <<>> /\ v4[1].buf = <<>> /\ v4[1].pc \in {"none", "close", "read", "exit"}
    BY DEF Pipes!Idle, Pipes!At
  <2> HIDE DEF U, Sum, SumB, Idle
  <2> QED
    BY <2>2, <2>3, <2>4, <2>5
\* Nothing follows what was shown.
<1>8. \A s : s = <<>> /\ Shown => Pipes!Follows(U, s, Len(v5.shown))
  <2>1. Shown => Len(v5.shown) <= Len(U) /\ Len(v5.shown) \in Nat
    BY <1>3 DEF Pipes!Follows
  <2> QED
    BY <1>3, <2>1, PipNothing
<1> HIDE DEF Shown, In, Up, Raw, Sum, SumB, Done, Small, U, Idle, One
\* main goes on, and nothing else changes.
<1>9. ASSUME NEW l, PipMoves(m, l, v4[m].buf), Still
      PROVE  /\ v4'[m].pc = l /\ v4'[1] = v4[1] /\ v5' = v5 /\ v2' = v2
             /\ (Shown => Shown') /\ (Small => Small') /\ (In => In') /\ (Up => Up') /\ (Raw => Raw') /\ (Sum => Sum')
             /\ (SumB => SumB') /\ (Done => Done') /\ (Idle => Idle') /\ (One => One')
  <2>1. v4'[m].pc = l /\ v4'[1] = v4[1] /\ v4'[m].buf = v4[m].buf
    BY <1>2, <1>9 DEF PipMoves
  <2> QED
    BY <1>6, <1>9, <2>1
<1>10. CASE Pipes!At(m, "fork") /\ Pipes!Fork(m, 1, "close")
  <2>1. v4[m].pc = "fork" /\ Pipes!Fork(m, 1, "close")
    BY <1>10 DEF Pipes!At
  <2>2. Good /\ (PipForks(m, 1, "close") \/ (PipMoves(m, "gone", v4[m].buf) /\ Still))
    BY <1>1, <1>2, <2>1, PipForkKeeps, PipCasePlaces, PipLabels
  <2>3. CASE PipForks(m, 1, "close")
    <3>1. v4'[m].pc = "close" /\ v4'[1].pc = "close" /\ v4'[1].buf = v4[1].buf /\ v4'[m].buf = v4[m].buf /\ Still
      BY <2>3 DEF PipForks
    <3>2. Shown' /\ Small' /\ Sum'
      BY <1>4, <1>6, <2>1, <3>1
    <3>3. Idle'
      BY <1>4, <2>1, <3>1 DEF Idle, Pipes!Idle
    <3> QED
      BY <1>1, <1>5, <2>2, <3>1, <3>2, <3>3
  <2>4. CASE PipMoves(m, "gone", v4[m].buf) /\ Still
    BY <1>1, <1>4, <1>5, <1>9, <2>1, <2>2, <2>4
  <2> QED
    BY <2>2, <2>3, <2>4
<1>11. CASE Pipes!At(m, "close") /\ Pipes!Close(m, {<<"r", "out">>, <<"w", "in">>}, "input")
  <2>1. v4[m].pc = "close"
    BY <1>11 DEF Pipes!At
  <2>2. Good /\ PipMoves(m, "input", v4[m].buf) /\ Still
    BY <1>1, <1>2, <1>11, <2>1, PipCloseKeeps, PipCasePlaces, PipLabels, PipMinus
  <2> QED
    BY <1>1, <1>4, <1>5, <1>9, <2>1, <2>2
<1>12. CASE Pipes!Exits(m)
  <2>1. v4[m].pc = "exit" /\ Pipes!Gone(m)
    BY <1>12 DEF Pipes!At, Pipes!Exits
  <2>2. Good /\ PipMoves(m, "gone", v4[m].buf) /\ Still
    BY <1>1, <1>2, <2>1, PipGoneKeeps
  <2> QED
    BY <1>1, <1>4, <1>5, <1>9, <2>1, <2>2
<1>13. CASE /\ Pipes!At(m, "input") /\ UNCHANGED <<v2, v3, v6>>
            /\ v5.stdin = <<>> /\ v4' = Pipes!Goes(m, "exit") /\ UNCHANGED v5
  <2>1. v4[m].pc = "input" /\ v2' = v2 /\ v3' = v3 /\ v6' = v6 /\ v5' = v5 /\ v5.stdin = <<>>
    BY <1>13 DEF Pipes!At
  <2>2. v4' \in [Pipes!Procs -> Pipes!States] /\ PipMoves(m, "exit", v4[m].buf)
    BY <1>2, <1>13, PipTyped, PipLabels DEF PipMoves, Pipes!Goes, Pipes!States
  <2>3. Pipes!TypeOK' /\ Pipes!PlaceInv'
    BY <1>1, <1>2, <2>1, <2>2, PipTyped, PipTypes, PipStays, PipCasePlaces
  <2>4. Still
    BY <2>1
  <2> QED
    BY <1>1, <1>4, <1>5, <1>9, <2>1, <2>2, <2>3, <2>4
<1>14. ASSUME NEW n \in 1..PipBufSize, n <= Len(v5.stdin), v5' = [v5 EXCEPT !.stdin = SubSeq(v5.stdin, n + 1, Len(v5.stdin))],
              v4' = [v4 EXCEPT ![m] = [pc |-> "write", buf |-> SubSeq(v5.stdin, 1, n)]],
              Pipes!At(m, "input"), v2' = v2, v3' = v3, v6' = v6
       PROVE  Good /\ Pipes!CaseInv'
  <2> DEFINE b == SubSeq(v5.stdin, 1, n)
             s == SubSeq(v5.stdin, n + 1, Len(v5.stdin))
             k == Len(PipInput) - Len(v5.stdin)
  <2>1. v4[m].pc = "input" /\ n \in 0..Len(v5.stdin) /\ PipBufSize \in Nat /\ n \in Nat /\ n <= PipBufSize /\ n # 0
    BY <1>7, <1>14, PipBounds DEF Pipes!At
  <2>2. b \in Seq(Int) /\ Len(b) = n /\ s \in Seq(Int) /\ Len(s) = Len(v5.stdin) - n
    BY <1>3, <2>1, PipParts
  <2>3. Pipes!Follows(PipInput, v5.stdin, k) /\ Pipes!Follows(U, v5.shown, 0)
    BY <1>4, <1>7
  <2>4. k \in Nat /\ Len(v5.stdin) <= Len(PipInput)
    BY <1>4, <1>7
  <2>50. Pipes!Follows(PipInput, b, k) /\ Pipes!Follows(PipInput, s, k + n)
    BY <1>3, <2>1, <2>3, <2>4, PipSplit
  <2> HIDE DEF b, s
  <2>51. Len(PipInput) \in Nat /\ Len(v5.stdin) \in Nat /\ n \in Nat /\ Len(s) = Len(v5.stdin) - n /\ Len(v5.stdin) <= Len(PipInput)
    BY <1>7, <2>1, <2>2, <2>4
  <2>5. Pipes!Follows(PipInput, b, k) /\ Pipes!Follows(PipInput, s, k + n) /\ k + n = Len(PipInput) - Len(s) /\ Len(s) <= Len(PipInput)
    <3>1. k + n = Len(PipInput) - Len(s) /\ Len(s) <= Len(PipInput)
      BY <2>51
    <3> HIDE DEF k
    <3> QED
      BY <2>50, <3>1
  <2>6. v4' \in [Pipes!Procs -> Pipes!States] /\ PipMoves(m, "write", b)
    <3>1. v4' = [v4 EXCEPT ![m] = [pc |-> "write", buf |-> b]]
      BY <1>14 DEF b
    <3> QED
      BY <1>2, <2>2, <3>1, PipTyped, PipLabels DEF PipMoves, Pipes!States
  <2>7. v5' \in Pipes!Streams /\ v5'.shown = v5.shown /\ v5'.stdin = s /\ v5'.killed = v5.killed
    <3>1. v5' = [v5 EXCEPT !.stdin = s]
      BY <1>14 DEF s
    <3> QED
      BY <1>1, <2>2, <3>1, PipTyped DEF Pipes!Streams
  <2>8. Pipes!TypeOK' /\ Pipes!PlaceInv'
    BY <1>1, <1>2, <1>14, <2>1, <2>6, <2>7, PipTyped, PipTypes, PipStays, PipCasePlaces
  <2>9. v4'[m].pc = "write" /\ v4'[m].buf = b /\ v4'[1] = v4[1] /\ v2' = v2
    BY <1>2, <1>14, <2>6 DEF PipMoves
  <2>10. Shown' /\ Small'
    BY <1>4, <2>3, <2>5, <2>7, <2>9 DEF Shown, Small, U
  <2>11. In => In'
    BY <2>7, <2>9 DEF In, U
  <2>12. ASSUME v4[1].pc # "gone"
         PROVE  Idle' /\ SumB' /\ Raw'
    <3>1. Idle /\ Sum
      BY <1>4, <2>1, <2>12
    <3>2. Idle'
      BY <2>9, <3>1 DEF Idle, Pipes!Idle, Pipes!At
    <3>3. Len(v5.shown) + Len(v5.stdin) = Len(PipInput)
      BY <1>7, <3>1
    <3>4. k = Len(v5.shown) /\ Len(v5.shown) + Len(b) + Len(s) = Len(PipInput)
      <4>1. Len(v5.shown) \in Nat /\ Len(b) = n
        BY <1>7, <2>2
      <4> DEFINE x == Len(v5.shown)
                 y == Len(v5.stdin)
                 z == Len(PipInput)
                 h == Len(b)
                 r == Len(s)
      <4>2. x \in Nat /\ y \in Nat /\ z \in Nat /\ h \in Nat /\ r = y - h /\ x + y = z
        BY <2>51, <3>3, <4>1
      <4> HIDE DEF x, y, z, h, r
      <4>3. z - y = x /\ x + h + r = z
        BY <4>2
      <4> QED
        BY <4>3 DEF x, y, z, h, r
    <3>5. SumB'
      BY <2>7, <2>9, <3>4 DEF SumB, Pipes!CaseSum
    <3>6. b # <<>>
      BY <2>1, <2>2
    <3>7. Raw'
      BY <2>1, <2>2, <2>5, <2>7, <2>9, <3>4, <3>6 DEF Raw
    <3> QED
      BY <3>2, <3>5, <3>7
  <2> QED
    BY <1>4, <1>5, <2>1, <2>7, <2>8, <2>9, <2>10, <2>11, <2>12
<1>15. CASE Pipes!At(m, "write") /\ Pipes!WriteBlock(m, "out", v4[m].buf, "read")
  <2>1. v4[m].pc = "write"
    BY <1>15 DEF Pipes!At
  <2>2. /\ Good
        /\ \/ Pipes!Readers("out") = {} /\ PipMoves(m, "gone", v4[m].buf) /\ Still
           \/ \E n \in 0..Len(v4[m].buf) : PipWrites(m, "out", "read", n) /\ (Len(v4[m].buf) <= PipAtomic => n = Len(v4[m].buf))
    BY <1>1, <1>2, <1>15, <2>1, PipWriteKeeps, PipCasePlaces, PipLabels
  <2>3. CASE Pipes!Readers("out") = {} /\ PipMoves(m, "gone", v4[m].buf) /\ Still
    <3>1. v4[1].pc = "gone"
      BY <1>4, <2>1, <2>3, PipCaseWho
    <3> QED
      BY <1>1, <1>4, <1>5, <1>9, <2>1, <2>2, <2>3, <3>1
  <2>4. ASSUME NEW n \in 0..Len(v4[m].buf), PipWrites(m, "out", "read", n), Len(v4[m].buf) <= PipAtomic => n = Len(v4[m].buf)
        PROVE  Pipes!CaseInv'
    <3> DEFINE b == v4[m].buf
               x == SubSeq(b, 1, n)
               g == Len(v5.shown)
    <3>1. /\ v2'["out"] = v2["out"] \o x /\ v2'["in"] = v2["in"] /\ v4'[m].pc = (IF n = Len(b) THEN "read" ELSE "write")
          /\ v4'[1] = v4[1] /\ v5' = v5
      BY <1>2, <2>1, <2>4, PipLabels DEF PipWrites, PipMoves, PipPipes
    <3>2. Shown' /\ Small' /\ (In => In') /\ v4'[m].pc \in {"read", "write"}
      BY <1>4, <3>1 DEF Shown, Small, In, U
    <3>3. CASE v4[1].pc = "gone"
      BY <1>4, <1>5, <2>1, <3>1, <3>2, <3>3
    <3>4. CASE v4[1].pc # "gone"
      <4>1. Idle /\ SumB /\ Raw /\ v4[1].pc \in {"close", "read"}
        BY <1>4, <1>7, <2>1, <3>4
      <4>2. b # <<>> /\ Len(b) <= PipBufSize /\ Pipes!Follows(PipInput, b, g)
        BY <4>1 DEF Raw
      <4>3. n = Len(b)
        <5>1. Len(b) \in Nat /\ PipBufSize \in Nat /\ PipAtomic \in Nat /\ PipBufSize <= PipAtomic
          BY <1>7, PipBounds
        <5> QED
          BY <2>4, <4>2, <5>1
      <4>4. x \in Seq(Int) /\ Len(x) = Len(b) /\ Pipes!Follows(PipInput, x, g)
        BY <1>3, <1>7, <4>2, <4>3, PipAllOf
      <4>5. v2["out"] = <<>> /\ v2["in"] = <<>> /\ v4[1].buf = <<>>
        BY <1>7, <4>1
      <4> DEFINE o == v2["out"] \o x
      <4>6. o \in Seq(Int) /\ Len(o) = Len(b) /\ Pipes!Follows(PipInput, o, g)
        BY <1>3, <1>7, <4>4, <4>5, PipAfterNone
      <4> HIDE DEF o
      <4>7. o # <<>> /\ Len(o) <= PipBufSize
        <5>1. Len(b) # 0
          BY <1>3, <4>2, PipEmpty
        <5> QED
          BY <4>2, <4>6, <5>1
      <4>8. g + Len(o) + Len(v5.stdin) = Len(PipInput)
        BY <1>7, <4>1, <4>6
      <4>9. v2'["out"] = o /\ v2'["in"] = <<>> /\ v4'[1].buf = <<>> /\ v4'[1].pc \in {"close", "read"} /\ v5' = v5
        BY <3>1, <4>1, <4>5 DEF o
      <4>10. One'
        BY <4>6, <4>7, <4>8, <4>9 DEF One, Pipes!OneBlock, Pipes!CaseSum
      <4> QED
        BY <1>4, <1>5, <2>1, <3>1, <3>2, <4>1, <4>3, <4>10
    <3> QED
      BY <3>3, <3>4
  <2> QED
    BY <1>1, <2>2, <2>3, <2>4
<1>16. CASE Pipes!At(m, "read") /\ Pipes!ReadBlock(m, "in", "print", "input")
  <2>1. v4[m].pc = "read"
    BY <1>16 DEF Pipes!At
  <2>2. /\ Good
        /\ \/ PipAtEnd(m, "in", "input")
           \/ /\ v2["in"] # <<>>
              /\ \E n \in 1..Len(v2["in"]) :
                   PipReads(m, "in", "print", n) /\ n <= PipBufSize /\ (Len(v2["in"]) <= PipBufSize => n = Len(v2["in"]))
    <3>1. Pipes!Held(m, "read") = Pipes!Held(m, "print") /\ Pipes!Held(m, "read") = Pipes!Held(m, "input")
      BY PipCasePlaces
    <3>2. {"print", "input"} \subseteq Pipes!Places(m) /\ "print" \in Pipes!Labels /\ "input" \in Pipes!Labels /\ "in" \in Pipes!Pipe
      BY PipCasePlaces, PipLabels
    <3>3. Pipes!Held(m, v4[m].pc) = Pipes!Held(m, "print") /\ Pipes!Held(m, v4[m].pc) = Pipes!Held(m, "input")
      BY <2>1, <3>1
    <3> QED
      BY <1>1, <1>2, <1>16, <3>2, <3>3, PipReadKeeps
  <2>3. CASE PipAtEnd(m, "in", "input")
    <3>1. PipMoves(m, "input", v4[m].buf) /\ Still /\ Pipes!Writers("in") = {}
      BY <2>3 DEF PipAtEnd
    <3>2. v4[1].pc = "gone"
      BY <1>4, <2>1, <3>1, PipCaseWho
    <3> QED
      BY <1>1, <1>4, <1>5, <1>9, <2>1, <2>2, <3>1, <3>2
  <2>4. ASSUME NEW n \in 1..Len(v2["in"]), PipReads(m, "in", "print", n), Len(v2["in"]) <= PipBufSize => n = Len(v2["in"]), v2["in"] # <<>>
        PROVE  Pipes!CaseInv'
    <3> DEFINE i == v2["in"]
               x == SubSeq(i, 1, Len(i))
               g == Len(v5.shown)
    <3>1. n = Len(i)
      BY <1>4, <2>4 DEF Small
    <3>2. /\ x \in Seq(Int) /\ Len(x) = Len(i) /\ SubSeq(i, n + 1, Len(i)) = <<>>
          /\ (Pipes!Follows(U, i, g) => Pipes!Follows(U, x, g))
      BY <1>3, <1>7, <3>1, PipAllOf
    <3>3. v2'["in"] = <<>> /\ v2'["out"] = v2["out"] /\ v4'[m].pc = "print" /\ v4'[m].buf = x /\ v4'[1] = v4[1] /\ v5' = v5
      BY <1>2, <2>4, <3>1, <3>2, PipLabels DEF PipReads, PipMoves, PipPipes
    <3> HIDE DEF x
    <3>4. Shown' /\ Small'
      <4>1. Len(<<>>) = 0 /\ 0 <= PipBufSize
        BY PipBounds
      <4>2. Len(v2'["in"]) <= PipBufSize
        BY <3>3, <4>1
      <4> QED
        BY <1>4, <3>3, <4>2 DEF Shown, Small, U
    <3>5. CASE v4[1].pc = "gone"
      <4>1. Up'
        BY <1>4, <2>1, <3>2, <3>3, <3>5 DEF Up, In, U
      <4> QED
        BY <1>4, <1>5, <2>1, <3>3, <3>4, <3>5, <4>1
    <3>6. CASE v4[1].pc # "gone"
      <4>1. One
        BY <1>4, <2>1, <3>6
      <4>2. Pipes!Follows(U, i, g) /\ Pipes!CaseSum(i) /\ v2["out"] = <<>> /\ v4[1].buf = <<>> /\ v4[1].pc = "read"
        BY <2>4, <4>1 DEF One, U, Pipes!OneBlock, Pipes!At
      <4>3. Idle'
        BY <3>3, <4>2 DEF Idle, Pipes!Idle, Pipes!At
      <4>4. SumB'
        BY <3>2, <3>3, <4>2 DEF SumB, Pipes!CaseSum
      <4>5. Up'
        BY <3>2, <3>3, <4>2 DEF Up, U
      <4> QED
        BY <1>4, <1>5, <2>1, <3>3, <3>4, <4>2, <4>3, <4>4, <4>5
    <3> QED
      BY <3>5, <3>6
  <2> QED
    BY <1>1, <2>2, <2>3, <2>4
<1>17. CASE Pipes!At(m, "print") /\ Pipes!Output(m, "input")
  <2> DEFINE b == v4[m].buf
             s == v5.shown \o b
             g == Len(v5.shown)
  <2>1. v4[m].pc = "print"
    BY <1>17 DEF Pipes!At
  <2>2. Good /\ PipShows(s) /\ PipMoves(m, "input", <<>>) /\ v2' = v2
    BY <1>1, <1>2, <1>17, <2>1, PipOutputKeeps, PipCasePlaces, PipLabels
  <2>3. v4'[m].pc = "input" /\ v4'[1] = v4[1] /\ v5'.killed = v5.killed /\ v5'.stdin = v5.stdin /\ v5'.shown = s /\ v2' = v2
    BY <1>2, <2>2 DEF PipMoves, PipShows
  <2>4. Up
    BY <1>4, <2>1
  <2>5. s \in Seq(Int) /\ Len(s) = g + Len(b) /\ Pipes!Follows(U, s, 0)
    <3>1. Pipes!Follows(U, v5.shown, 0) /\ Pipes!Follows(U, b, 0 + g)
      BY <1>4, <1>7, <2>4 DEF Up
    <3> QED
      BY <1>3, <1>7, <3>1, PipJoin
  <2> HIDE DEF s
  <2>6. Shown' /\ Small'
    BY <1>4, <2>3, <2>5 DEF Shown, Small, U
  <2>7. CASE v4[1].pc = "gone"
    <3>1. v2["in"] = <<>>
      BY <1>4, <2>1, <2>7
    <3>2. Len(s) <= Len(U) /\ Len(s) \in Nat
      <4>1. Len(s) \in Nat /\ Len(U) \in Nat
        <5>1. s \in Seq(Int) /\ U \in Seq(Int)
          BY <1>3, <2>5
        <5> QED
          BY <5>1
      <4>2. 0 + Len(s) <= Len(U)
        BY <2>5 DEF Pipes!Follows
      <4> QED
        BY <4>1, <4>2
    <3>3. Pipes!Follows(U, v2["in"], Len(s))
      BY <1>3, <3>1, <3>2, PipNothing
    <3>4. In'
      BY <2>3, <3>3 DEF In, U
    <3> QED
      BY <1>1, <1>4, <1>5, <2>1, <2>2, <2>3, <2>6, <2>7, <3>4
  <2>8. CASE v4[1].pc # "gone"
    <3>1. Idle /\ SumB
      BY <1>4, <2>1, <2>8
    <3>2. Idle'
      BY <2>3, <3>1 DEF Idle, Pipes!Idle, Pipes!At
    <3>3. Sum'
      <4>0. Len(<<>>) = 0
        OBVIOUS
      <4>1. Len(s) = g + Len(b) /\ g \in Nat /\ Len(b) \in Nat /\ g + Len(b) + Len(v5.stdin) = Len(PipInput)
        BY <1>7, <2>5, <3>1
      <4> HIDE DEF g, b
      <4>3. Len(s) + Len(<<>>) = Len(s)
        BY <4>0, <4>1
      <4>4. Len(s) + Len(v5.stdin) = Len(PipInput)
        BY <4>1
      <4>2. Len(s) + Len(<<>>) + Len(v5.stdin) = Len(PipInput)
        BY <4>3, <4>4
      <4> QED
        BY <2>3, <4>2 DEF Sum, Pipes!CaseSum
    <3> QED
      BY <1>1, <1>4, <1>5, <2>1, <2>2, <2>3, <2>6, <2>8, <3>2, <3>3
  <2> QED
    BY <2>7, <2>8
\* The child goes on; main does not.
<1>18. ASSUME NEW l, NEW b, PipMoves(1, l, b), v5' = v5
       PROVE  /\ v4'[1].pc = l /\ v4'[1].buf = b /\ v4'[m] = v4[m] /\ (Shown => Shown') /\ (Up => Up') /\ (Raw => Raw')
              /\ (Sum => Sum') /\ (SumB => SumB') /\ (Done => Done') /\ (v2'["in"] = v2["in"] => (In => In') /\ (Small => Small'))
  <2>1. v4'[1].pc = l /\ v4'[1].buf = b /\ v4'[m] = v4[m]
    BY <1>2, <1>18 DEF PipMoves
  <2>2. (Shown => Shown') /\ (Up => Up') /\ (Raw => Raw') /\ (Sum => Sum') /\ (SumB => SumB') /\ (Done => Done')
    BY <1>18, <2>1 DEF Shown, Up, Raw, Sum, SumB, Done, U, Pipes!CaseSum
  <2>3. v2'["in"] = v2["in"] => (In => In') /\ (Small => Small')
    BY <1>18 DEF In, Small, U
  <2> QED
    BY <2>1, <2>2, <2>3
<1>19. CASE Pipes!At(1, "close") /\ Pipes!Close(1, {<<"w", "out">>, <<"r", "in">>}, "read")
  <2>1. v4[1].pc = "close"
    BY <1>19 DEF Pipes!At
  <2>2. Good /\ PipMoves(1, "read", v4[1].buf) /\ Still
    <3>1. Pipes!Held(1, "close") \ {<<"w", "out">>, <<"r", "in">>} = Pipes!Held(1, "read")
      BY PipCasePlaces, PipMinus
    <3> QED
      BY <1>1, <1>2, <1>19, <2>1, <3>1, PipCloseKeeps, PipCasePlaces, PipLabels
  <2>3. v4'[1].pc = "read" /\ v4'[1].buf = v4[1].buf /\ v2' = v2 /\ v5' = v5
    BY <2>2, <1>18
  <2>4. (Idle => Idle') /\ (One => One')
    BY <2>1, <2>3 DEF Idle, One, Pipes!Idle, Pipes!OneBlock, Pipes!CaseSum, Pipes!At
  <2> QED
    BY <1>1, <1>4, <1>5, <1>18, <2>1, <2>2, <2>3, <2>4
<1>20. CASE Pipes!At(1, "read") /\ Pipes!ReadBlock(1, "out", "upper", "exit")
  <2>1. v4[1].pc = "read"
    BY <1>20 DEF Pipes!At
  <2>2. /\ Good
        /\ \/ PipAtEnd(1, "out", "exit")
           \/ /\ v2["out"] # <<>>
              /\ \E n \in 1..Len(v2["out"]) :
                   PipReads(1, "out", "upper", n) /\ n <= PipBufSize /\ (Len(v2["out"]) <= PipBufSize => n = Len(v2["out"]))
    <3>1. Pipes!Held(1, "read") = Pipes!Held(1, "upper") /\ Pipes!Held(1, "read") = Pipes!Held(1, "exit")
      BY PipCasePlaces
    <3>2. {"upper", "exit"} \subseteq Pipes!Places(1) /\ "upper" \in Pipes!Labels /\ "exit" \in Pipes!Labels /\ "out" \in Pipes!Pipe
      BY PipCasePlaces, PipLabels
    <3>3. Pipes!Held(1, v4[1].pc) = Pipes!Held(1, "upper") /\ Pipes!Held(1, v4[1].pc) = Pipes!Held(1, "exit")
      BY <2>1, <3>1
    <3> QED
      BY <1>1, <1>2, <1>20, <3>2, <3>3, PipReadKeeps
  <2>3. CASE PipAtEnd(1, "out", "exit")
    <3>1. PipMoves(1, "exit", v4[1].buf) /\ v2' = v2 /\ v5' = v5 /\ Pipes!Writers("out") = {}
      BY <2>3 DEF PipAtEnd
    <3>2. v4[m].pc = "gone"
      BY <3>1, PipCaseWho
    <3>3. v4'[1].pc = "exit" /\ v4'[1].buf = v4[1].buf
      BY <1>18, <3>1
    <3>4. Idle => Idle'
      BY <3>1, <3>3 DEF Idle, Pipes!Idle, Pipes!At
    <3> QED
      BY <1>1, <1>4, <1>5, <1>18, <2>1, <2>2, <3>1, <3>2, <3>3, <3>4
  <2>4. ASSUME NEW n \in 1..Len(v2["out"]), PipReads(1, "out", "upper", n), Len(v2["out"]) <= PipBufSize => n = Len(v2["out"]), v2["out"] # <<>>
        PROVE  Pipes!CaseInv'
    <3> DEFINE o == v2["out"]
               x == SubSeq(o, 1, Len(o))
               g == Len(v5.shown)
    <3>1. One /\ v4[m].pc = "read"
      BY <1>4, <1>7, <1>3, <2>1, <2>4, PipCasePlaces
    <3>2. Len(o) <= PipBufSize /\ Pipes!Follows(PipInput, o, g) /\ Pipes!CaseSum(o) /\ v2["in"] = <<>>
      BY <2>4, <3>1 DEF One, Pipes!OneBlock
    <3>3. n = Len(o)
      BY <2>4, <3>2
    <3>4. x \in Seq(Int) /\ Len(x) = Len(o) /\ SubSeq(o, n + 1, Len(o)) = <<>> /\ Pipes!Follows(PipInput, x, g)
      BY <1>3, <1>7, <3>2, <3>3, PipAllOf
    <3>5. /\ v2'["out"] = <<>> /\ v2'["in"] = v2["in"] /\ v4'[1].pc = "upper" /\ v4'[1].buf = x /\ v4'[m] = v4[m] /\ v5' = v5
          /\ PipMoves(1, "upper", x)
      BY <1>2, <2>4, <3>3, <3>4, PipLabels DEF PipReads, PipMoves, PipPipes
    <3> HIDE DEF x
    <3>6. x # <<>>
      <4>1. Len(o) # 0
        BY <1>3, <2>4, PipEmpty
      <4> QED
        BY <3>4, <4>1
    <3>7. Pipes!CaseSum(x)
      BY <3>2, <3>4 DEF Pipes!CaseSum
    <3>8. One'
      BY <3>2, <3>4, <3>5, <3>6, <3>7 DEF One, Pipes!OneBlock, Pipes!CaseSum, Pipes!At
    <3> QED
      BY <1>4, <1>5, <1>18, <2>1, <3>1, <3>5, <3>8
  <2> QED
    BY <1>1, <2>2, <2>3, <2>4
<1>21. CASE Pipes!At(1, "upper") /\ v4' = [v4 EXCEPT ![1].pc = "write", ![1].buf = Pipes!Upper(v4[1].buf)] /\ UNCHANGED <<v2, v3, v5, v6>>
  <2> DEFINE x == Pipes!Upper(v4[1].buf)
             g == Len(v5.shown)
  <2>1. v4[1].pc = "upper" /\ v2' = v2 /\ v3' = v3 /\ v5' = v5 /\ v6' = v6
    BY <1>21 DEF Pipes!At
  <2>2. x \in Seq(Int) /\ Len(x) = Len(v4[1].buf) /\ \A a \in Seq(Int) : Pipes!Follows(a, v4[1].buf, g) => Pipes!Follows(Pipes!Upper(a), x, g)
    BY <1>3, <1>7, PipUpper, PipUpperFollows
  <2>3. v4' = [v4 EXCEPT ![1].pc = "write", ![1].buf = x]
    BY <1>21
  <2> HIDE DEF x
  <2>4. v4' \in [Pipes!Procs -> Pipes!States] /\ PipMoves(1, "write", x)
    BY <1>2, <2>2, <2>3, PipTyped, PipLabels DEF PipMoves, Pipes!States
  <2>5. Pipes!Held(1, v4[1].pc) = Pipes!Held(1, "write") /\ "write" \in Pipes!Places(1)
    <3>1. Pipes!Held(1, "upper") = Pipes!Held(1, "write") /\ "write" \in Pipes!Places(1)
      BY PipCasePlaces
    <3> QED
      BY <2>1, <3>1
  <2>6. Good
    BY <1>1, <1>2, <2>1, <2>4, <2>5, PipTyped, PipTypes, PipStays
  <2>7. One /\ v4[m].pc = "read"
    BY <1>3, <1>4, <1>7, <2>1, PipCasePlaces
  <2>8. /\ v4[1].buf # <<>> /\ Len(v4[1].buf) <= PipBufSize /\ Pipes!Follows(PipInput, v4[1].buf, g) /\ Pipes!CaseSum(v4[1].buf)
        /\ v2["in"] = <<>> /\ v2["out"] = <<>>
    BY <2>1, <2>7 DEF One, Pipes!OneBlock, Pipes!At
  <2>9. v4'[1].pc = "write" /\ v4'[1].buf = x /\ v4'[m] = v4[m]
    BY <1>18, <2>1, <2>4
  <2>10. x # <<>> /\ Pipes!CaseSum(x) /\ Pipes!Follows(U, x, g) /\ Len(x) <= PipBufSize
    <3>1. Len(v4[1].buf) # 0
      BY <1>3, <2>8, PipEmpty
    <3>2. x # <<>> /\ Len(x) <= PipBufSize
      BY <2>2, <2>8, <3>1
    <3>3. Pipes!CaseSum(x)
      BY <2>2, <2>8 DEF Pipes!CaseSum
    <3>4. Pipes!Follows(U, x, g)
      BY <1>3, <2>2, <2>8 DEF U
    <3> QED
      BY <3>2, <3>3, <3>4
  <2>11. One'
    BY <2>1, <2>8, <2>9, <2>10 DEF One, U, Pipes!OneBlock, Pipes!CaseSum, Pipes!At
  <2> QED
    BY <1>1, <1>4, <1>5, <1>18, <2>1, <2>4, <2>6, <2>7, <2>9, <2>11
<1>22. CASE Pipes!At(1, "write") /\ Pipes!WriteBlock(1, "in", v4[1].buf, "read")
  <2> DEFINE d == v4[1].buf
             g == Len(v5.shown)
  <2>1. v4[1].pc = "write"
    BY <1>22 DEF Pipes!At
  <2>2. /\ Good
        /\ \/ Pipes!Readers("in") = {}
           \/ \E n \in 0..Len(d) : PipWrites(1, "in", "read", n) /\ (Len(d) <= PipAtomic => n = Len(d))
    <3>1. Pipes!Held(1, "read") = Pipes!Held(1, "write") /\ "read" \in Pipes!Places(1)
      BY PipCasePlaces
    <3> QED
      BY <1>1, <1>2, <1>22, <2>1, <3>1, PipWriteKeeps, PipLabels
  <2>3. One /\ v4[m].pc = "read"
    BY <1>3, <1>4, <1>7, <2>1, PipCasePlaces
  <2>4. d # <<>> /\ Len(d) <= PipBufSize /\ Pipes!Follows(U, d, g) /\ Pipes!CaseSum(d) /\ v2["in"] = <<>> /\ v2["out"] = <<>>
    BY <2>1, <2>3 DEF One, U, Pipes!OneBlock, Pipes!At
  <2>5. PICK n \in 0..Len(d) : PipWrites(1, "in", "read", n) /\ (Len(d) <= PipAtomic => n = Len(d))
    BY <2>2, <2>3, PipCaseWho
  <2> DEFINE x == SubSeq(d, 1, Len(d))
             i == v2["in"] \o x
  <2>6. n = Len(d)
    <3>1. Len(d) \in Nat /\ PipBufSize \in Nat /\ PipAtomic \in Nat /\ PipBufSize <= PipAtomic
      BY <1>3, PipBounds
    <3> QED
      BY <2>4, <2>5, <3>1
  <2>7. x \in Seq(Int) /\ Len(x) = Len(d) /\ SubSeq(d, n + 1, Len(d)) = <<>> /\ Pipes!Follows(U, x, g)
    BY <1>3, <1>7, <2>4, <2>6, PipAllOf
  <2>8. i \in Seq(Int) /\ Len(i) = Len(d) /\ Pipes!Follows(U, i, g)
    BY <1>3, <1>7, <2>4, <2>7, PipAfterNone
  <2>9. v2'["in"] = i /\ v2'["out"] = v2["out"] /\ v4'[1].pc = "read" /\ v4'[1].buf = <<>> /\ v5' = v5 /\ PipMoves(1, "read", <<>>)
    BY <1>2, <2>5, <2>6, <2>7, PipLabels DEF PipWrites, PipMoves, PipPipes
  <2> HIDE DEF i
  <2>10. i # <<>> /\ Len(i) <= PipBufSize /\ Pipes!CaseSum(i)
    <3>1. Len(d) # 0
      BY <1>3, <2>4, PipEmpty
    <3>2. i # <<>> /\ Len(i) <= PipBufSize
      BY <2>4, <2>8, <3>1
    <3>3. Pipes!CaseSum(i)
      BY <2>4, <2>8 DEF Pipes!CaseSum
    <3> QED
      BY <3>2, <3>3
  <2>11. One'
    BY <2>4, <2>8, <2>9, <2>10 DEF One, U, Pipes!OneBlock, Pipes!CaseSum, Pipes!At
  <2>12. Small'
    BY <2>9, <2>10 DEF Small
  <2> QED
    BY <1>1, <1>4, <1>5, <1>18, <2>1, <2>2, <2>3, <2>9, <2>11, <2>12
<1>23. CASE Pipes!Exits(1)
  <2>1. v4[1].pc = "exit" /\ Pipes!Gone(1)
    BY <1>23 DEF Pipes!At, Pipes!Exits
  <2>2. Good /\ PipMoves(1, "gone", v4[1].buf) /\ Still
    BY <1>1, <1>2, <2>1, PipGoneKeeps
  <2>3. v4[m].pc = "gone" /\ Idle /\ Sum /\ v5.stdin = <<>>
    BY <1>4, <2>1
  <2>4. Done
    <3>0. Len(<<>>) = 0
      OBVIOUS
    <3>1. Len(v5.stdin) = 0
      BY <2>3, <3>0
    <3>2. Len(v5.shown) + Len(v5.stdin) = Len(PipInput)
      BY <1>7, <2>3
    <3>3. Len(v5.shown) = Len(PipInput)
      BY <1>7, <3>1, <3>2
    <3> QED
      BY <3>3 DEF Done
  <2>5. In
    BY <1>4, <1>7, <1>8, <2>3 DEF In
  <2> QED
    BY <1>1, <1>4, <1>5, <1>18, <2>2, <2>3, <2>4, <2>5
<1> QED
  <2>1. Pipes!ChangeParent \/ Pipes!ChangeChild \/ Pipes!Exits(1) \/ Pipes!Exits(m)
    BY DEF Pipes!change_case, Pipes!Mine
  <2>2. CASE Pipes!ChangeParent
    <3>1. CASE /\ Pipes!At(m, "input") /\ UNCHANGED <<v2, v3, v6>>
               /\ IF v5.stdin = <<>> THEN v4' = Pipes!Goes(m, "exit") /\ UNCHANGED v5
                  ELSE \E n \in 1..PipBufSize :
                         /\ n <= Len(v5.stdin) /\ v5' = [v5 EXCEPT !.stdin = SubSeq(v5.stdin, n + 1, Len(v5.stdin))]
                         /\ v4' = [v4 EXCEPT ![m] = [pc |-> "write", buf |-> SubSeq(v5.stdin, 1, n)]]
      BY <1>1, <1>13, <1>14, <3>1
    <3> QED
      BY <1>10, <1>11, <1>15, <1>16, <1>17, <2>2, <3>1 DEF Pipes!ChangeParent
  <2>3. CASE Pipes!ChangeChild
    BY <1>19, <1>20, <1>21, <1>22, <2>3 DEF Pipes!ChangeChild
  <2> QED
    BY <1>12, <1>23, <2>1, <2>2, <2>3

LEMMA PipCaseKilled ==
  ASSUME Pipes!TypeOK, Pipes!PlaceInv, v1 = "case", Pipes!CaseInv, v1' = v1, NEW c \in PipKids, v4[c].pc \notin {"none", "gone"},
         PipMoves(c, "gone", v4[c].buf), v5'.shown = v5.shown, v5'.stdin = v5.stdin, v5'.killed # {}, v2' = v2
  PROVE  Pipes!CaseInv'
<1> DEFINE m == Pipes!main
           U == Pipes!Upper(PipInput)
           g == Len(v5.shown)
<1>1. m # 1 /\ m \in Pipes!Procs /\ c \in Pipes!Procs /\ c # m
  BY PipProcs
<1>2. c = 1
  <2>1. v1 \in PipProgs
    BY DEF PipProgs
  <2> QED
    BY <1>1, <2>1, PipPlaces, PipCasePlaces
<1>3. v4'[1].pc = "gone" /\ v4'[m] = v4[m] /\ v4[1].pc \notin {"none", "gone"}
  BY <1>1, <1>2 DEF PipMoves
<1>4. /\ Pipes!Follows(U, v5.shown, 0) /\ Pipes!Follows(PipInput, v5.stdin, Len(PipInput) - Len(v5.stdin))
      /\ Len(v5.stdin) <= Len(PipInput) /\ Len(v2["in"]) <= PipBufSize /\ v4[m].pc # "fork"
      /\ v4[m].pc \in {"close", "input", "exit", "gone", "print", "write"} => Pipes!Idle
      /\ v4[m].pc = "read" => Pipes!OneBlock
      /\ v4[m].pc = "print" => Pipes!Follows(U, v4[m].buf, g)
  BY <1>3 DEF Pipes!CaseInv, Pipes!At
<1>5. Pipes!Follows(U, <<>>, g)
  <2>1. U \in Seq(Int) /\ v5.shown \in Seq(Int)
    BY PipBounds, PipUpper, PipTyped
  <2>2. Len(U) \in Nat /\ g \in Nat /\ 0 + g <= Len(U)
    BY <1>4, <2>1 DEF Pipes!Follows
  <2>3. g <= Len(U)
    BY <2>2
  <2> HIDE DEF U, g
  <2> QED
    BY <2>1, <2>2, <2>3, PipNothing
<1>6. v4[m].pc \in {"fork", "close", "input", "write", "read", "print", "exit", "gone"}
  <2>1. v1 \in PipProgs
    BY DEF PipProgs
  <2> QED
    BY <1>1, <2>1, PipPlaces, PipCasePlaces
<1>7. IF v4[m].pc = "print" THEN v2["in"] = <<>> /\ Pipes!Follows(U, v4[m].buf, g) ELSE Pipes!Follows(U, v2["in"], g)
  BY <1>4, <1>5, <1>6 DEF Pipes!Idle, Pipes!OneBlock
<1>8. v2' = v2 /\ v5'.shown = v5.shown /\ v5'.stdin = v5.stdin /\ v5'.killed # {}
  OBVIOUS
<1> QED
  BY <1>3, <1>4, <1>7, <1>8 DEF Pipes!CaseInv, Pipes!At

PipOthers == {"glob", "script", "unbuffer"}

\* Programs whose pipes are not looked at.
LEMMA PipPlaceOther ==
  ASSUME v1' = v1, v1 \in PipOthers, \A r \in Pipes!Procs : v4'[r].pc \in Pipes!Places(r)
  PROVE  Pipes!PlaceInv'
<1>1. \A r : Pipes!Places(r)' = Pipes!Places(r)
  BY DEF Pipes!Places, Pipes!main, Pipes!Relays
<1>2. Pipes!Procs' = Pipes!Procs /\ v1' \in (Pipes!Relays \cup {"glob"})'
  BY DEF Pipes!Procs, Pipes!main, Pipes!Relays, PipOthers
<1>3. \A r \in Pipes!Procs : v4'[r].pc \in Pipes!Places(r)'
  BY <1>1
<1> QED
  BY <1>2, <1>3 DEF Pipes!PlaceInv

LEMMA PipOtherPlaces ==
  ASSUME Pipes!PlaceInv
  PROVE  \A r \in Pipes!Procs : v4[r].pc \in Pipes!Places(r)
BY DEF Pipes!PlaceInv

\* What popen_glob strips of a line is a newline at its end.
LEMMA PipStripped ==
  ASSUME NEW p \in Seq(Pipes!Chars), Len(p) > 0, Pipes!ValidPattern(p)
  PROVE  Pipes!Stripped(p) \in Seq(Pipes!Chars) /\ \A k \in DOMAIN Pipes!Stripped(p) : Pipes!Stripped(p)[k] # "bad"
<1>1. CASE p[Len(p)] = "nl"
  <2> DEFINE n == Len(p) - 1
             x == SubSeq(p, 1, n)
  <2>1. Len(p) \in Nat /\ n \in 0..Len(p)
    OBVIOUS
  <2>2. x \in Seq(Pipes!Chars) /\ Len(x) = n /\ \A i \in 1..n : x[i] = p[i]
    BY <2>1, PipPartsOf
  <2>3. Pipes!Stripped(p) = x
    BY <1>1 DEF Pipes!Stripped
  <2>4. \A k \in DOMAIN x : p[k] # "bad"
    BY <2>3 DEF Pipes!ValidPattern
  <2> HIDE DEF x, n
  <2>5. DOMAIN x = 1..n
    BY <2>2
  <2> QED
    BY <2>2, <2>3, <2>4, <2>5
<1>2. CASE p[Len(p)] # "nl"
  BY <1>2 DEF Pipes!Stripped, Pipes!ValidPattern
<1> QED
  BY <1>1, <1>2

LEMMA PipGlob ==
  ASSUME Pipes!TypeOK, Pipes!PlaceInv, v1 = "glob", Pipes!GlobInv, Pipes!popen_glob
  PROVE  v1' = v1 /\ Pipes!TypeOK' /\ Pipes!PlaceInv' /\ Pipes!GlobInv'
<1> DEFINE s == v5.stdin
<1>1. /\ v1' = v1 /\ v2' = v2 /\ v3' = v3 /\ v6' = v6 /\ v4[Pipes!main].pc = "fork"
      /\ \E n \in 0..Len(s), fails \in BOOLEAN :
           IF n = 0 THEN v4' = [v4 EXCEPT ![Pipes!main].pc = "gone"] /\ v5' = v5
           ELSE /\ v4' = v4
                /\ v5' = [v5 EXCEPT !.stdin = SubSeq(s, n + 1, Len(s)),
                                    !.ran = IF n <= 1 \/ ~Pipes!ValidPattern(SubSeq(s, 1, n)) \/ fails THEN v5.ran
                                            ELSE Append(v5.ran, Pipes!Stripped(SubSeq(s, 1, n)))]
  BY DEF Pipes!popen_glob, Pipes!Mine, Pipes!At, Pipes!Goes
<1>2. v1 \in PipOthers /\ v1 \notin PipProgs
  BY DEF PipOthers, PipProgs
<1>3. s \in Seq(Pipes!Chars) /\ v5.ran \in Seq(Seq(Pipes!Chars)) /\ v5 \in Pipes!Streams
  BY PipTyped
<1>4. \A r \in Pipes!Procs : v4[r].pc \in Pipes!Places(r)
  BY PipOtherPlaces
<1>5. PICK n \in 0..Len(s), fails \in BOOLEAN :
           IF n = 0 THEN v4' = [v4 EXCEPT ![Pipes!main].pc = "gone"] /\ v5' = v5
           ELSE /\ v4' = v4
                /\ v5' = [v5 EXCEPT !.stdin = SubSeq(s, n + 1, Len(s)),
                                    !.ran = IF n <= 1 \/ ~Pipes!ValidPattern(SubSeq(s, 1, n)) \/ fails THEN v5.ran
                                            ELSE Append(v5.ran, Pipes!Stripped(SubSeq(s, 1, n)))]
  BY <1>1
<1>6. CASE n = 0
  <2>1. v4' = [v4 EXCEPT ![Pipes!main].pc = "gone"] /\ v5' = v5
    BY <1>5, <1>6
  <2>2. "gone" \in Pipes!Labels /\ "gone" \in Pipes!Places(Pipes!main)
    BY DEF Pipes!Labels, Pipes!Places, Pipes!Relays
  <2>3. v4' \in [Pipes!Procs -> Pipes!States] /\ v4'[Pipes!main].pc = "gone" /\ \A r \in Pipes!Procs : r # Pipes!main => v4'[r] = v4[r]
    BY <2>1, <2>2, PipTyped, PipProcs DEF Pipes!States
  <2>4. Pipes!TypeOK'
    BY <1>1, <2>1, <2>3, PipTyped, PipTypes
  <2>5. Pipes!PlaceInv'
    BY <1>1, <1>2, <1>4, <2>2, <2>3, PipPlaceOther
  <2>6. Pipes!GlobInv'
    BY <2>1 DEF Pipes!GlobInv
  <2> QED
    BY <1>1, <2>4, <2>5, <2>6
<1>7. CASE n # 0
  <2> DEFINE t == SubSeq(s, n + 1, Len(s))
             x == SubSeq(s, 1, n)
             r == v5'.ran
  <2>1. t \in Seq(Pipes!Chars) /\ x \in Seq(Pipes!Chars) /\ Len(x) = n
    BY <1>3, PipPartsOf
  <2>2. v4' = v4 /\ v5' = [v5 EXCEPT !.stdin = t, !.ran = IF n <= 1 \/ ~Pipes!ValidPattern(x) \/ fails THEN v5.ran ELSE Append(v5.ran, Pipes!Stripped(x))]
    BY <1>5, <1>7
  <2> HIDE DEF t, x
  <2>3. v5' = [v5 EXCEPT !.stdin = t, !.ran = r] /\ (r = v5.ran \/ (Pipes!ValidPattern(x) /\ r = Append(v5.ran, Pipes!Stripped(x))))
    BY <1>3, <2>2 DEF Pipes!Streams
  <2>4. r \in Seq(Seq(Pipes!Chars)) /\ \A j \in DOMAIN r : \A k \in DOMAIN r[j] : r[j][k] # "bad"
    <3>1. CASE r = v5.ran
      BY <1>3, <3>1 DEF Pipes!GlobInv
    <3>2. CASE Pipes!ValidPattern(x) /\ r = Append(v5.ran, Pipes!Stripped(x))
      <4> DEFINE y == Pipes!Stripped(x)
      <4>1. y \in Seq(Pipes!Chars) /\ \A k \in DOMAIN y : y[k] # "bad"
        BY <1>7, <2>1, <3>2, PipStripped
      <4>2. r = Append(v5.ran, y)
        BY <3>2
      <4> HIDE DEF y
      <4>3. /\ r \in Seq(Seq(Pipes!Chars)) /\ Len(r) = Len(v5.ran) + 1
            /\ (\A i \in 1..Len(v5.ran) : r[i] = v5.ran[i]) /\ r[Len(v5.ran) + 1] = y
        BY <1>3, <4>1, <4>2, AppendProperties
      <4>4. \A j \in DOMAIN r : j \in 1..Len(v5.ran) \/ j = Len(v5.ran) + 1
        BY <1>3, <4>3
      <4>5. \A j \in 1..Len(v5.ran) : \A k \in DOMAIN v5.ran[j] : v5.ran[j][k] # "bad"
        BY <1>3 DEF Pipes!GlobInv
      <4> QED
        BY <4>1, <4>3, <4>4, <4>5
    <3> QED
      BY <2>3, <3>1, <3>2
  <2> HIDE DEF r
  <2>5. v5' \in Pipes!Streams /\ v5'.ran = r
    BY <1>3, <2>1, <2>3, <2>4 DEF Pipes!Streams
  <2>6. Pipes!TypeOK'
    BY <1>1, <2>2, <2>5, PipTyped, PipTypes
  <2>7. Pipes!PlaceInv'
    BY <1>1, <1>2, <1>4, <2>2, PipPlaceOther
  <2>8. Pipes!GlobInv'
    BY <2>4, <2>5 DEF Pipes!GlobInv
  <2> QED
    BY <1>1, <2>6, <2>7, <2>8
<1> QED
  BY <1>6, <1>7

-----------------------------------------------------------------------------
(* script and unbuffer.                                                    *)

PipMasterLabels == {"fork", "ptyFork", "open", "raw", "atexit", "select", "stdin", "master", "typescript", "gone"}

LEMMA PipRelayPlaces ==
  ASSUME v1 \in Pipes!Relays
  PROVE  /\ v1 \in PipOthers /\ v1 \notin PipProgs
         /\ Pipes!Places(Pipes!main) = PipMasterLabels /\ Pipes!Places(1) = {"none", "slave", "dup", "exec", "put", "gone"}
         /\ PipMasterLabels \subseteq Pipes!Labels /\ Pipes!Places(1) \subseteq Pipes!Labels
<1>1. Pipes!main # 1
  BY PipProcs
<1> QED
  BY <1>1 DEF Pipes!Relays, PipOthers, PipProgs, Pipes!Places, PipMasterLabels, Pipes!Labels

\* A process moves and the terminals change; what is left to show is about them.
PipTerm(q, l) ==
  /\ v1' = v1 /\ v2' = v2 /\ v3' = v3 /\ v5' = v5
  /\ v4' = [v4 EXCEPT ![q].pc = l]

LEMMA PipTermMoves ==
  ASSUME Pipes!TypeOK, Pipes!PlaceInv, v1 \in Pipes!Relays, NEW q \in Pipes!Procs, NEW l, l \in Pipes!Places(q), l \in Pipes!Labels,
         PipTerm(q, l), v6' \in Pipes!Terminals
  PROVE  /\ v1' = v1 /\ Pipes!TypeOK' /\ Pipes!PlaceInv'
         /\ v4'[q].pc = l /\ \A r \in Pipes!Procs : r # q => v4'[r].pc = v4[r].pc
<1>1. v1' = v1 /\ v2' = v2 /\ v3' = v3 /\ v5' = v5 /\ v4' = [v4 EXCEPT ![q].pc = l]
  BY DEF PipTerm
<1>2. v4' \in [Pipes!Procs -> Pipes!States] /\ v4'[q].pc = l /\ \A r \in Pipes!Procs : r # q => v4'[r] = v4[r]
  BY <1>1, PipTyped DEF Pipes!States
<1>3. v5' \in Pipes!Streams
  BY <1>1, PipTyped
<1>4. Pipes!TypeOK'
  BY <1>1, <1>2, <1>3, PipTyped, PipTypes
<1>5. Pipes!PlaceInv'
  BY <1>1, <1>2, PipOtherPlaces, PipPlaceOther, PipRelayPlaces
<1> QED
  BY <1>1, <1>2, <1>4, <1>5

LEMMA PipTermStays ==
  ASSUME Pipes!TypeOK, Pipes!PlaceInv, v1 \in Pipes!Relays, v1' = v1, v2' = v2, v3' = v3, v4' = v4, v5' = v5, v6' \in Pipes!Terminals
  PROVE  Pipes!TypeOK' /\ Pipes!PlaceInv'
<1>1. v5' \in Pipes!Streams
  BY PipTyped
<1>2. Pipes!TypeOK'
  BY <1>1, PipTyped, PipTypes
<1>3. Pipes!PlaceInv'
  BY PipOtherPlaces, PipPlaceOther, PipRelayPlaces
<1> QED
  BY <1>2, <1>3

\* What the invariant says of the terminals, m where main and c where the
\* child is.
PipTermInv(t, k, m, c) ==
  /\ t.why = "write" \/ t.wrote = Len(t.out) + Len(t.shown)
  /\ m \in {"fork", "ptyFork"} => c = "none"
  /\ t.hup => c = "gone"
  /\ "master" \in t.ready /\ m \in {"stdin", "master"} => t.out # <<>> \/ t.hup
  /\ "stdin" \in t.ready /\ m = "stdin" => t.typed <= Len(PipInput)
  /\ t.tty = "raw" => t.atexit \/ m = "atexit" \/ t.why = "atexit"
  /\ m \in {"fork", "ptyFork", "open", "raw", "gone"} => t.tty = "orig" \/ t.why = "atexit"
  /\ t.why # "none" => m = "gone"
  /\ t.why = "master" => t.hup /\ t.out = <<>>
  /\ k = "script" => /\ Pipes!IsPrefix(t.script, t.shown)
                     /\ m = "typescript" \/ t.why = "write" \/ t.script = t.shown

LEMMA PipTermInvIs ==
  /\ Pipes!RelayInv <=> PipTermInv(v6, v1, v4[Pipes!main].pc, v4[1].pc)
  /\ Pipes!RelayInv' <=> PipTermInv(v6', v1', v4'[Pipes!main].pc, v4'[1].pc)
<1>1. Pipes!RelayInv <=> PipTermInv(v6, v1, v4[Pipes!main].pc, v4[1].pc)
  BY DEF Pipes!RelayInv, PipTermInv, Pipes!At
<1>2. Pipes!main' = Pipes!main
  BY DEF Pipes!main
<1>3. Pipes!RelayInv' <=> PipTermInv(v6', v1', v4'[Pipes!main].pc, v4'[1].pc)
  BY <1>2 DEF Pipes!RelayInv, PipTermInv, Pipes!At
<1> QED
  BY <1>1, <1>3

LEMMA PipPrefixes ==
  /\ \A s \in Seq(Int) : Pipes!IsPrefix(s, s)
  /\ \A s, t, u \in Seq(Int) : Pipes!IsPrefix(s, t) => Pipes!IsPrefix(s, t \o u)
<1>1. ASSUME NEW s \in Seq(Int) PROVE Pipes!IsPrefix(s, s)
  BY PipAll, PipPrefix
<1>2. ASSUME NEW s \in Seq(Int), NEW t \in Seq(Int), NEW u \in Seq(Int), Pipes!IsPrefix(s, t) PROVE Pipes!IsPrefix(s, t \o u)
  <2> DEFINE n == Len(s)
             x == t \o u
  <2>1. n \in Nat /\ n <= Len(t) /\ Len(t) \in Nat /\ SubSeq(s, 1, n) = SubSeq(t, 1, n)
    BY <1>2 DEF Pipes!IsPrefix
  <2>2. SubSeq(s, 1, n) \in Seq(Int) /\ Len(SubSeq(s, 1, n)) = n /\ \A i \in 1..n : SubSeq(s, 1, n)[i] = s[i]
    BY <2>1, PipParts
  <2>3. n \in 0..Len(t)
    BY <2>1
  <2>4. \A i \in 1..n : SubSeq(t, 1, n)[i] = t[i]
    BY <2>3, PipParts
  <2>5. x \in Seq(Int) /\ Len(x) = Len(t) + Len(u) /\ \A i \in 1..Len(t) : x[i] = t[i]
    BY ConcatProperties
  <2>6. Len(u) \in Nat /\ DOMAIN s = 1..n
    OBVIOUS
  <2> HIDE DEF n, x
  <2>7. n <= Len(x) /\ \A i \in 1..n : i \in 1..Len(t)
    BY <2>1, <2>5, <2>6
  <2>8. \A i \in 1..n : s[i] = x[0 + i]
    <3> TAKE i \in 1..n
    <3>1. s[i] = t[i]
      BY <2>1, <2>2, <2>4
    <3>2. x[i] = t[i] /\ 0 + i = i
      BY <2>1, <2>5, <2>7
    <3> QED
      BY <3>1, <3>2
  <2>9. Pipes!Follows(x, s, 0)
    BY <2>1, <2>6, <2>7, <2>8 DEF Pipes!Follows, n
  <2> QED
    BY <2>5, <2>9, PipPrefix DEF x
<1> QED
  BY <1>1, <1>2

PipKept == v1' = v1 /\ Pipes!TypeOK' /\ Pipes!PlaceInv' /\ Pipes!RelayInv'

\* A move is right when the terminals after it fit the place after it.
LEMMA PipTermKeeps ==
  ASSUME Pipes!TypeOK, Pipes!PlaceInv, v1 \in Pipes!Relays, v6' \in Pipes!Terminals
  PROVE  /\ \A l \in PipMasterLabels : PipTerm(Pipes!main, l) /\ PipTermInv(v6', v1, l, v4[1].pc) => PipKept
         /\ \A l \in Pipes!Places(1) : PipTerm(1, l) /\ PipTermInv(v6', v1, v4[Pipes!main].pc, l) => PipKept
         /\ v1' = v1 /\ v2' = v2 /\ v3' = v3 /\ v4' = v4 /\ v5' = v5 /\ PipTermInv(v6', v1, v4[Pipes!main].pc, v4[1].pc) => PipKept
<1>1. ASSUME NEW l \in PipMasterLabels, PipTerm(Pipes!main, l), PipTermInv(v6', v1, l, v4[1].pc) PROVE PipKept
  BY <1>1, PipRelayPlaces, PipProcs, PipTermMoves, PipTermInvIs DEF PipKept
<1>2. ASSUME NEW l \in Pipes!Places(1), PipTerm(1, l), PipTermInv(v6', v1, v4[Pipes!main].pc, l) PROVE PipKept
  BY <1>2, PipRelayPlaces, PipProcs, PipTermMoves, PipTermInvIs DEF PipKept
<1>3. ASSUME v1' = v1, v2' = v2, v3' = v3, v4' = v4, v5' = v5, PipTermInv(v6', v1, v4[Pipes!main].pc, v4[1].pc) PROVE PipKept
  BY <1>3, PipTermStays, PipTermInvIs DEF PipKept
<1> QED
  BY <1>1, <1>2, <1>3

LEMMA PipTermTypes ==
  ASSUME NEW t \in Pipes!Terminals
  PROVE  /\ t.in \in Seq(Int) /\ t.out \in Seq(Int) /\ t.got \in Seq(Int) /\ t.shown \in Seq(Int) /\ t.script \in Seq(Int)
         /\ t.typed \in Nat /\ t.wrote \in Nat /\ t.tty \in {"orig", "raw"}
BY DEF Pipes!Terminals

LEMMA PipReset ==
  ASSUME NEW t \in Pipes!Terminals, t.tty = "raw" => t.atexit, NEW u, u = Pipes!ttyReset(t)
  PROVE  /\ u \in Pipes!Terminals /\ u.tty = "orig" /\ u.wrote = t.wrote /\ u.out = t.out /\ u.shown = t.shown /\ u.hup = t.hup
         /\ u.script = t.script /\ u.why = t.why
<1>1. CASE t.atexit
  <2>1. u = [t EXCEPT !.tty = "orig"]
    BY <1>1 DEF Pipes!ttyReset
  <2> QED
    BY <2>1 DEF Pipes!Terminals
<1>2. CASE ~t.atexit
  <2>1. u = t
    BY <1>2 DEF Pipes!ttyReset
  <2>2. t.tty = "orig"
    BY <1>2, PipTermTypes
  <2> QED
    BY <2>1, <2>2
<1> QED
  BY <1>1, <1>2

LEMMA PipMasterOpen ==
  ASSUME Pipes!TypeOK, Pipes!PlaceInv, v1 \in Pipes!Relays, Pipes!RelayInv, Pipes!ptyMasterOpen
  PROVE  PipKept
<1> DEFINE m == Pipes!main
<1>1. v4[m].pc = "fork" /\ v6 \in Pipes!Terminals /\ PipTermInv(v6, v1, v4[m].pc, v4[1].pc)
  BY PipTyped, PipTermInvIs DEF Pipes!ptyMasterOpen, Pipes!Pty, Pipes!At
<1>2. \/ PipTerm(m, "ptyFork") /\ v6' = [v6 EXCEPT !.master = TRUE]
      \/ PipTerm(m, "gone") /\ v6' = v6
  BY DEF Pipes!ptyMasterOpen, Pipes!Pty, Pipes!Set, Pipes!Goes, PipTerm
<1>3. CASE PipTerm(m, "ptyFork") /\ v6' = [v6 EXCEPT !.master = TRUE]
  <2>1. /\ v6' \in Pipes!Terminals /\ v6'.wrote = v6.wrote /\ v6'.out = v6.out /\ v6'.shown = v6.shown /\ v6'.hup = v6.hup /\ v6'.ready = v6.ready
        /\ v6'.typed = v6.typed /\ v6'.tty = v6.tty /\ v6'.atexit = v6.atexit /\ v6'.why = v6.why /\ v6'.script = v6.script
    BY <1>1, <1>3 DEF Pipes!Terminals
  <2>2. PipTermInv(v6', v1, "ptyFork", v4[1].pc)
    BY <1>1, <2>1 DEF PipTermInv
  <2> QED
    BY <1>3, <2>1, <2>2, PipTermKeeps DEF PipMasterLabels
<1>4. CASE PipTerm(m, "gone") /\ v6' = v6
  <2>1. v6' \in Pipes!Terminals /\ PipTermInv(v6', v1, "gone", v4[1].pc)
    BY <1>1, <1>4 DEF PipTermInv
  <2> QED
    BY <1>4, <2>1, PipTermKeeps DEF PipMasterLabels
<1> QED
  BY <1>2, <1>3, <1>4

LEMMA PipShell ==
  ASSUME Pipes!TypeOK, Pipes!PlaceInv, v1 \in Pipes!Relays, Pipes!RelayInv, Pipes!Shell
  PROVE  PipKept
<1> DEFINE m == Pipes!main
<1>1. v4[1].pc \in {"exec", "put"} /\ v6 \in Pipes!Terminals /\ PipTermInv(v6, v1, v4[m].pc, v4[1].pc)
  BY PipTyped, PipTermInvIs DEF Pipes!Shell, Pipes!Pty, Pipes!At
<1>2. v1' = v1 /\ v2' = v2 /\ v3' = v3 /\ v5' = v5
  BY DEF Pipes!Shell, Pipes!Pty
<1>3. \/ PipTerm(1, "exec") /\ v6' = [v6 EXCEPT !.wrote = v6.wrote + 1, !.out = Append(v6.out, v6.wrote + 1)]
      \/ PipTerm(1, "put") /\ v6' = v6
      \/ v6.in # <<>> /\ v6' = [v6 EXCEPT !.in = Tail(v6.in), !.got = Append(v6.got, Head(v6.in))] /\ v4' = v4
      \/ PipTerm(1, "gone") /\ v6' = [v6 EXCEPT !.hup = TRUE]
  BY <1>2 DEF Pipes!Shell, Pipes!Pty, Pipes!Goes, PipTerm
<1>7. CASE PipTerm(1, "put") /\ v6' = v6
  <2>1. v6' \in Pipes!Terminals /\ PipTermInv(v6', v1, v4[m].pc, "put")
    BY <1>1, <1>7 DEF PipTermInv
  <2> QED
    BY <1>7, <2>1, PipTermKeeps, PipRelayPlaces
<1>4. CASE PipTerm(1, "exec") /\ v6' = [v6 EXCEPT !.wrote = v6.wrote + 1, !.out = Append(v6.out, v6.wrote + 1)]
  <2> DEFINE w == v6.wrote + 1
             o == Append(v6.out, w)
  <2>1. v6.out \in Seq(Int) /\ v6.wrote \in Nat /\ w \in Nat /\ Len(v6.out) \in Nat /\ Len(v6.shown) \in Nat
    BY <1>1, PipTermTypes
  <2>2. o \in Seq(Int) /\ Len(o) = Len(v6.out) + 1 /\ o # <<>>
    BY <2>1
  <2>3. v6' = [v6 EXCEPT !.wrote = w, !.out = o]
    BY <1>4
  <2>a. v6.why = "write" \/ v6.wrote = Len(v6.out) + Len(v6.shown)
    BY <1>1 DEF PipTermInv
  <2>b. w = v6.wrote + 1
    OBVIOUS
  <2> HIDE DEF w, o
  <2>4. v6.why = "write" \/ w = Len(o) + Len(v6.shown)
    <3> DEFINE x == Len(v6.out)
               y == Len(v6.shown)
               z == v6.wrote
               k == Len(o)
    <3>1. x \in Nat /\ y \in Nat /\ (v6.why = "write" \/ z = x + y) /\ w = z + 1 /\ k = x + 1
      BY <2>1, <2>2, <2>a, <2>b
    <3> HIDE DEF x, y, z, k
    <3>2. v6.why = "write" \/ w = k + y
      BY <3>1
    <3> QED
      BY <3>2 DEF k, y
  <2>5. /\ v6' \in Pipes!Terminals /\ v6'.wrote = w /\ v6'.out = o /\ v6'.shown = v6.shown /\ v6'.hup = v6.hup /\ v6'.ready = v6.ready
        /\ v6'.typed = v6.typed /\ v6'.tty = v6.tty /\ v6'.atexit = v6.atexit /\ v6'.why = v6.why /\ v6'.script = v6.script
    BY <1>1, <2>1, <2>2, <2>3 DEF Pipes!Terminals
  <2>6. PipTermInv(v6', v1, v4[m].pc, "exec")
    BY <1>1, <2>2, <2>4, <2>5 DEF PipTermInv
  <2> QED
    BY <1>4, <2>5, <2>6, PipTermKeeps, PipRelayPlaces
<1>5. CASE v6.in # <<>> /\ v6' = [v6 EXCEPT !.in = Tail(v6.in), !.got = Append(v6.got, Head(v6.in))] /\ v4' = v4
  <2> DEFINE i == Tail(v6.in)
             g == Append(v6.got, Head(v6.in))
  <2>1. i \in Seq(Int) /\ g \in Seq(Int)
    BY <1>1, <1>5, PipTermTypes
  <2>3. v6' = [v6 EXCEPT !.in = i, !.got = g]
    BY <1>5
  <2> HIDE DEF i, g
  <2>5. /\ v6' \in Pipes!Terminals /\ v6'.wrote = v6.wrote /\ v6'.out = v6.out /\ v6'.shown = v6.shown /\ v6'.hup = v6.hup /\ v6'.ready = v6.ready
        /\ v6'.typed = v6.typed /\ v6'.tty = v6.tty /\ v6'.atexit = v6.atexit /\ v6'.why = v6.why /\ v6'.script = v6.script
    BY <1>1, <2>1, <2>3 DEF Pipes!Terminals
  <2>6. PipTermInv(v6', v1, v4[m].pc, v4[1].pc)
    BY <1>1, <2>5 DEF PipTermInv
  <2> QED
    BY <1>2, <1>5, <2>5, <2>6, PipTermKeeps
<1>6. CASE PipTerm(1, "gone") /\ v6' = [v6 EXCEPT !.hup = TRUE]
  <2>5. /\ v6' \in Pipes!Terminals /\ v6'.wrote = v6.wrote /\ v6'.out = v6.out /\ v6'.shown = v6.shown /\ v6'.hup = TRUE /\ v6'.ready = v6.ready
        /\ v6'.typed = v6.typed /\ v6'.tty = v6.tty /\ v6'.atexit = v6.atexit /\ v6'.why = v6.why /\ v6'.script = v6.script
    BY <1>1, <1>6 DEF Pipes!Terminals
  <2>6. PipTermInv(v6', v1, v4[m].pc, "gone")
    BY <1>1, <2>5 DEF PipTermInv
  <2> QED
    BY <1>6, <2>5, <2>6, PipTermKeeps, PipRelayPlaces
<1> QED
  BY <1>3, <1>4, <1>5, <1>6, <1>7

LEMMA PipPtyFork ==
  ASSUME Pipes!TypeOK, Pipes!PlaceInv, v1 \in Pipes!Relays, Pipes!RelayInv, Pipes!ptyFork
  PROVE  PipKept
<1> DEFINE m == Pipes!main
<1>1. v6 \in Pipes!Terminals /\ PipTermInv(v6, v1, v4[m].pc, v4[1].pc)
  BY PipTyped, PipTermInvIs
<1>2. v1' = v1 /\ v2' = v2 /\ v3' = v3 /\ v5' = v5
  BY DEF Pipes!ptyFork, Pipes!Pty
<1>3. \/ v4[m].pc = "ptyFork" /\ v6' = v6 /\ v4' = [v4 EXCEPT ![m].pc = IF v1 = "script" THEN "open" ELSE "raw", ![1].pc = "slave"]
      \/ v4[m].pc = "ptyFork" /\ PipTerm(m, "gone") /\ v6' = [v6 EXCEPT !.master = FALSE]
      \/ v4[1].pc = "slave" /\ v6' = [v6 EXCEPT !.slave = TRUE] /\ PipTerm(1, "dup")
      \/ v4[1].pc = "slave" /\ v6' = v6 /\ PipTerm(1, "gone")
      \/ v4[1].pc = "dup" /\ v6' = v6 /\ PipTerm(1, "exec")
  BY <1>2 DEF Pipes!ptyFork, Pipes!Pty, Pipes!Set, Pipes!Goes, Pipes!At, PipTerm
<1>4. CASE v4[m].pc = "ptyFork" /\ v6' = v6 /\ v4' = [v4 EXCEPT ![m].pc = IF v1 = "script" THEN "open" ELSE "raw", ![1].pc = "slave"]
  <2> DEFINE l == IF v1 = "script" THEN "open" ELSE "raw"
  <2>1. v4' = [v4 EXCEPT ![m].pc = l, ![1].pc = "slave"]
    BY <1>4
  <2>2. l \in {"open", "raw"}
    OBVIOUS
  <2> HIDE DEF l
  <2>3. l \in Pipes!Labels /\ "slave" \in Pipes!Labels /\ l \in Pipes!Places(m) /\ "slave" \in Pipes!Places(1)
    BY <2>2, PipRelayPlaces DEF Pipes!Labels, PipMasterLabels
  <2>4. v4' \in [Pipes!Procs -> Pipes!States] /\ v4'[m].pc = l /\ v4'[1].pc = "slave" /\ \A r \in Pipes!Procs : r # m /\ r # 1 => v4'[r] = v4[r]
    BY <2>1, <2>3, PipTyped, PipProcs DEF Pipes!States
  <2>5. v5' \in Pipes!Streams
    BY <1>2, PipTyped
  <2>6. Pipes!TypeOK'
    BY <1>1, <1>2, <1>4, <2>4, <2>5, PipTyped, PipTypes
  <2>7. \A r \in Pipes!Procs : v4'[r].pc \in Pipes!Places(r)
    BY <2>3, <2>4, PipOtherPlaces
  <2>8. Pipes!PlaceInv'
    BY <1>2, <2>7, PipPlaceOther, PipRelayPlaces
  <2>9. PipTermInv(v6', v1', v4'[m].pc, v4'[1].pc)
    BY <1>1, <1>2, <1>4, <2>2, <2>4 DEF PipTermInv
  <2> QED
    BY <1>2, <2>6, <2>8, <2>9, PipTermInvIs DEF PipKept
<1>5. CASE v4[m].pc = "ptyFork" /\ PipTerm(m, "gone") /\ v6' = [v6 EXCEPT !.master = FALSE]
  <2>5. /\ v6' \in Pipes!Terminals /\ v6'.wrote = v6.wrote /\ v6'.out = v6.out /\ v6'.shown = v6.shown /\ v6'.hup = v6.hup /\ v6'.ready = v6.ready
        /\ v6'.typed = v6.typed /\ v6'.tty = v6.tty /\ v6'.atexit = v6.atexit /\ v6'.why = v6.why /\ v6'.script = v6.script
    BY <1>1, <1>5 DEF Pipes!Terminals
  <2>6. PipTermInv(v6', v1, "gone", v4[1].pc)
    BY <1>1, <1>5, <2>5 DEF PipTermInv
  <2> QED
    BY <1>5, <2>5, <2>6, PipTermKeeps DEF PipMasterLabels
<1>6. CASE v4[1].pc = "slave" /\ v6' = [v6 EXCEPT !.slave = TRUE] /\ PipTerm(1, "dup")
  <2>5. /\ v6' \in Pipes!Terminals /\ v6'.wrote = v6.wrote /\ v6'.out = v6.out /\ v6'.shown = v6.shown /\ v6'.hup = v6.hup /\ v6'.ready = v6.ready
        /\ v6'.typed = v6.typed /\ v6'.tty = v6.tty /\ v6'.atexit = v6.atexit /\ v6'.why = v6.why /\ v6'.script = v6.script
    BY <1>1, <1>6 DEF Pipes!Terminals
  <2>6. PipTermInv(v6', v1, v4[m].pc, "dup")
    BY <1>1, <1>6, <2>5 DEF PipTermInv
  <2> QED
    BY <1>6, <2>5, <2>6, PipTermKeeps, PipRelayPlaces
<1>7. CASE v4[1].pc = "slave" /\ v6' = v6 /\ PipTerm(1, "gone")
  <2>6. v6' \in Pipes!Terminals /\ PipTermInv(v6', v1, v4[m].pc, "gone")
    BY <1>1, <1>7 DEF PipTermInv
  <2> QED
    BY <1>7, <2>6, PipTermKeeps, PipRelayPlaces
<1>8. CASE v4[1].pc = "dup" /\ v6' = v6 /\ PipTerm(1, "exec")
  <2>6. v6' \in Pipes!Terminals /\ PipTermInv(v6', v1, v4[m].pc, "exec")
    BY <1>1, <1>8 DEF PipTermInv
  <2> QED
    BY <1>8, <2>6, PipTermKeeps, PipRelayPlaces
<1> QED
  BY <1>3, <1>4, <1>5, <1>6, <1>7, <1>8

LEMMA PipScriptMoves ==
  ASSUME Pipes!TypeOK, Pipes!PlaceInv, v1 \in Pipes!Relays, Pipes!RelayInv, 
         Pipes!OpenTypescript \/ Pipes!SetRaw \/ Pipes!RegisterReset \/ Pipes!SelectBoth
  PROVE  PipKept
<1> DEFINE m == Pipes!main
<1>1. v6 \in Pipes!Terminals /\ PipTermInv(v6, v1, v4[m].pc, v4[1].pc)
  BY PipTyped, PipTermInvIs
<1>2. CASE Pipes!OpenTypescript
  <2>1. v4[m].pc = "open" /\ v6' = v6 /\ (PipTerm(m, "raw") \/ PipTerm(m, "gone"))
    BY <1>2 DEF Pipes!OpenTypescript, Pipes!Pty, Pipes!Set, Pipes!Goes, Pipes!At, PipTerm
  <2>2. v6' \in Pipes!Terminals /\ PipTermInv(v6', v1, "raw", v4[1].pc) /\ PipTermInv(v6', v1, "gone", v4[1].pc)
    BY <1>1, <2>1 DEF PipTermInv
  <2> QED
    BY <2>1, <2>2, PipTermKeeps DEF PipMasterLabels
<1>3. CASE Pipes!SetRaw
  <2>1. /\ v4[m].pc = "raw" /\ PipTerm(m, "atexit")
        /\ \E t \in {"orig", "raw"} : v6' = [v6 EXCEPT !.tty = t]
    BY <1>3 DEF Pipes!SetRaw, Pipes!Pty, Pipes!Set, Pipes!Goes, Pipes!At, PipTerm
  <2>2. PICK t \in {"orig", "raw"} : v6' = [v6 EXCEPT !.tty = t]
    BY <2>1
  <2>3. /\ v6' \in Pipes!Terminals /\ v6'.wrote = v6.wrote /\ v6'.out = v6.out /\ v6'.shown = v6.shown /\ v6'.hup = v6.hup /\ v6'.ready = v6.ready
        /\ v6'.typed = v6.typed /\ v6'.why = v6.why /\ v6'.script = v6.script
    BY <1>1, <2>2 DEF Pipes!Terminals
  <2>4. PipTermInv(v6', v1, "atexit", v4[1].pc)
    BY <1>1, <2>1, <2>3 DEF PipTermInv
  <2> QED
    BY <2>1, <2>3, <2>4, PipTermKeeps DEF PipMasterLabels
<1>5. CASE Pipes!RegisterReset
  <2>1. v4[m].pc = "atexit"
    BY <1>5 DEF Pipes!RegisterReset, Pipes!Pty, Pipes!At
  <2>2. \/ PipTerm(m, "select") /\ v6' = [v6 EXCEPT !.atexit = TRUE]
        \/ PipTerm(m, "gone") /\ v6' = [v6 EXCEPT !.why = "atexit"]
    BY <1>5 DEF Pipes!RegisterReset, Pipes!Pty, Pipes!Set, Pipes!Goes, PipTerm
  <2>3. CASE PipTerm(m, "select") /\ v6' = [v6 EXCEPT !.atexit = TRUE]
    <3>1. /\ v6' \in Pipes!Terminals /\ v6'.wrote = v6.wrote /\ v6'.out = v6.out /\ v6'.shown = v6.shown /\ v6'.hup = v6.hup /\ v6'.ready = v6.ready
          /\ v6'.typed = v6.typed /\ v6'.why = v6.why /\ v6'.script = v6.script /\ v6'.atexit
      BY <1>1, <2>3 DEF Pipes!Terminals
    <3>2. PipTermInv(v6', v1, "select", v4[1].pc)
      BY <1>1, <2>1, <3>1 DEF PipTermInv
    <3> QED
      BY <2>3, <3>1, <3>2, PipTermKeeps DEF PipMasterLabels
  <2>4. CASE PipTerm(m, "gone") /\ v6' = [v6 EXCEPT !.why = "atexit"]
    <3>1. /\ v6' \in Pipes!Terminals /\ v6'.wrote = v6.wrote /\ v6'.out = v6.out /\ v6'.shown = v6.shown /\ v6'.hup = v6.hup /\ v6'.ready = v6.ready
          /\ v6'.typed = v6.typed /\ v6'.why = "atexit" /\ v6'.script = v6.script /\ v6.why = "none"
      BY <1>1, <2>1, <2>4 DEF Pipes!Terminals, PipTermInv
    <3>2. PipTermInv(v6', v1, "gone", v4[1].pc)
      BY <1>1, <2>1, <3>1 DEF PipTermInv
    <3> QED
      BY <2>4, <3>1, <3>2, PipTermKeeps DEF PipMasterLabels
  <2> QED
    BY <2>2, <2>3, <2>4
<1>4. CASE Pipes!SelectBoth
  <2> DEFINE ready == (IF v6.out # <<>> \/ v6.hup THEN {"master"} ELSE {}) \cup (IF v6.typed <= Len(PipInput) THEN {"stdin"} ELSE {})
  <2>1. v4[m].pc = "select" /\ PipTerm(m, "stdin") /\ \E s \in SUBSET ready : v6' = [v6 EXCEPT !.ready = s]
    BY <1>4 DEF Pipes!SelectBoth, Pipes!Pty, Pipes!Set, Pipes!Goes, Pipes!At, PipTerm
  <2>2. /\ ready \subseteq {"master", "stdin"} /\ ("master" \in ready => v6.out # <<>> \/ v6.hup)
        /\ ("stdin" \in ready => v6.typed <= Len(PipInput))
    OBVIOUS
  <2> HIDE DEF ready
  <2>3. PICK s \in SUBSET ready : v6' = [v6 EXCEPT !.ready = s]
    BY <2>1
  <2>4. /\ v6' \in Pipes!Terminals /\ v6'.wrote = v6.wrote /\ v6'.out = v6.out /\ v6'.shown = v6.shown /\ v6'.hup = v6.hup /\ v6'.ready = s
        /\ v6'.typed = v6.typed /\ v6'.tty = v6.tty /\ v6'.atexit = v6.atexit /\ v6'.why = v6.why /\ v6'.script = v6.script
    BY <1>1, <2>2, <2>3 DEF Pipes!Terminals
  <2>5. PipTermInv(v6', v1, "stdin", v4[1].pc)
    BY <1>1, <2>1, <2>2, <2>4 DEF PipTermInv
  <2> QED
    BY <2>1, <2>4, <2>5, PipTermKeeps DEF PipMasterLabels
<1> QED
  BY <1>2, <1>3, <1>4, <1>5

LEMMA PipRelayInput ==
  ASSUME Pipes!TypeOK, Pipes!PlaceInv, v1 \in Pipes!Relays, Pipes!RelayInv, Pipes!RelayInput
  PROVE  PipKept
<1> DEFINE m == Pipes!main
           n == Len(PipInput)
<1>1. v6 \in Pipes!Terminals /\ PipTermInv(v6, v1, v4[m].pc, v4[1].pc) /\ v4[m].pc = "stdin" /\ v6.typed \in Nat /\ v6.in \in Seq(Int)
      /\ PipInput \in Seq(Int) /\ n \in Nat
  BY PipTyped, PipTermInvIs, PipTermTypes, PipBounds DEF Pipes!RelayInput, Pipes!Pty, Pipes!At
<1>2. \/ "stdin" \notin v6.ready /\ PipTerm(m, "master") /\ v6' = v6
      \/ PipTerm(m, "gone") /\ \E w \in {"stdin", "write"} : v6' = Pipes!ttyReset([v6 EXCEPT !.why = w, !.typed = v6.typed + 1])
      \/ "stdin" \in v6.ready /\ v6.typed # n /\ PipTerm(m, "master")
         /\ v6' = [v6 EXCEPT !.typed = v6.typed + 1, !.in = Append(v6.in, PipInput[v6.typed + 1])]
  BY DEF Pipes!RelayInput, Pipes!Pty, Pipes!Set, Pipes!Goes, Pipes!At, PipTerm
<1>3. CASE "stdin" \notin v6.ready /\ PipTerm(m, "master") /\ v6' = v6
  <2>1. v6' \in Pipes!Terminals /\ PipTermInv(v6', v1, "master", v4[1].pc)
    BY <1>1, <1>3 DEF PipTermInv
  <2> QED
    BY <1>3, <2>1, PipTermKeeps DEF PipMasterLabels
<1>4. ASSUME PipTerm(m, "gone"), NEW w \in {"stdin", "write"}, v6' = Pipes!ttyReset([v6 EXCEPT !.why = w, !.typed = v6.typed + 1])
      PROVE  PipKept
  <2> DEFINE t == [v6 EXCEPT !.why = w, !.typed = v6.typed + 1]
  <2>1. v6.typed + 1 \in Nat
    BY <1>1
  <2>2. /\ t \in Pipes!Terminals /\ t.wrote = v6.wrote /\ t.out = v6.out /\ t.shown = v6.shown /\ t.hup = v6.hup
        /\ t.tty = v6.tty /\ t.atexit = v6.atexit /\ t.why = w /\ t.script = v6.script
    BY <1>1, <2>1 DEF Pipes!Terminals
  <2>3. v6' = Pipes!ttyReset(t)
    BY <1>4
  <2> HIDE DEF t
  <2>4. t.tty = "raw" => t.atexit
    BY <1>1, <2>2 DEF PipTermInv
  <2>5. /\ v6' \in Pipes!Terminals /\ v6'.tty = "orig" /\ v6'.wrote = v6.wrote /\ v6'.out = v6.out /\ v6'.shown = v6.shown /\ v6'.hup = v6.hup
        /\ v6'.script = v6.script /\ v6'.why = w
    BY <2>2, <2>3, <2>4, PipReset
  <2>6. PipTermInv(v6', v1, "gone", v4[1].pc)
    BY <1>1, <2>5 DEF PipTermInv
  <2> QED
    BY <1>4, <2>5, <2>6, PipTermKeeps DEF PipMasterLabels
<1>5. CASE "stdin" \in v6.ready /\ v6.typed # n /\ PipTerm(m, "master")
           /\ v6' = [v6 EXCEPT !.typed = v6.typed + 1, !.in = Append(v6.in, PipInput[v6.typed + 1])]
  <2> DEFINE k == v6.typed + 1
             i == Append(v6.in, PipInput[k])
  <2>1. v6.typed <= n
    BY <1>1, <1>5 DEF PipTermInv
  <2>2. k \in Nat /\ k \in 1..n
    BY <1>1, <1>5, <2>1
  <2>3. i \in Seq(Int)
    BY <1>1, <2>2
  <2>4. v6' = [v6 EXCEPT !.typed = k, !.in = i]
    BY <1>5
  <2> HIDE DEF k, i
  <2>5. /\ v6' \in Pipes!Terminals /\ v6'.wrote = v6.wrote /\ v6'.out = v6.out /\ v6'.shown = v6.shown /\ v6'.hup = v6.hup /\ v6'.ready = v6.ready
        /\ v6'.tty = v6.tty /\ v6'.atexit = v6.atexit /\ v6'.why = v6.why /\ v6'.script = v6.script
    BY <1>1, <2>2, <2>3, <2>4 DEF Pipes!Terminals
  <2>6. PipTermInv(v6', v1, "master", v4[1].pc)
    BY <1>1, <2>5 DEF PipTermInv
  <2> QED
    BY <1>5, <2>5, <2>6, PipTermKeeps DEF PipMasterLabels
<1> QED
  BY <1>2, <1>3, <1>4, <1>5

LEMMA PipReadMaster ==
  ASSUME Pipes!TypeOK, Pipes!PlaceInv, v1 \in Pipes!Relays, Pipes!RelayInv, Pipes!ReadMaster
  PROVE  PipKept
<1> DEFINE m == Pipes!main
           next == IF v1 = "script" THEN "typescript" ELSE "select"
<1>1. v6 \in Pipes!Terminals /\ PipTermInv(v6, v1, v4[m].pc, v4[1].pc) /\ v4[m].pc = "master"
      /\ v6.out \in Seq(Int) /\ v6.shown \in Seq(Int) /\ v6.script \in Seq(Int) /\ v6.wrote \in Nat
  BY PipTyped, PipTermInvIs, PipTermTypes DEF Pipes!ReadMaster, Pipes!Pty, Pipes!At
<1>2. \/ "master" \notin v6.ready /\ PipTerm(m, "select") /\ v6' = v6
      \/ "master" \in v6.ready /\ v6.out = <<>> /\ PipTerm(m, "gone") /\ v6' = Pipes!ttyReset([v6 EXCEPT !.why = "master"])
      \/ \E n \in 1..PipBufSize :
           /\ n <= Len(v6.out)
           /\ \/ PipTerm(m, next) /\ v6' = [v6 EXCEPT !.out = SubSeq(v6.out, n + 1, Len(v6.out)), !.shown = v6.shown \o SubSeq(v6.out, 1, n)]
              \/ PipTerm(m, "gone") /\ v6' = Pipes!ttyReset([v6 EXCEPT !.why = "write", !.out = SubSeq(v6.out, n + 1, Len(v6.out))])
  BY DEF Pipes!ReadMaster, Pipes!Pty, Pipes!Set, Pipes!Goes, Pipes!At, PipTerm
<1>3. CASE "master" \notin v6.ready /\ PipTerm(m, "select") /\ v6' = v6
  <2>1. v6' \in Pipes!Terminals /\ PipTermInv(v6', v1, "select", v4[1].pc)
    BY <1>1, <1>3 DEF PipTermInv
  <2> QED
    BY <1>3, <2>1, PipTermKeeps DEF PipMasterLabels
<1>4. CASE "master" \in v6.ready /\ v6.out = <<>> /\ PipTerm(m, "gone") /\ v6' = Pipes!ttyReset([v6 EXCEPT !.why = "master"])
  <2> DEFINE t == [v6 EXCEPT !.why = "master"]
  <2>2. /\ t \in Pipes!Terminals /\ t.wrote = v6.wrote /\ t.out = v6.out /\ t.shown = v6.shown /\ t.hup = v6.hup
        /\ t.tty = v6.tty /\ t.atexit = v6.atexit /\ t.why = "master" /\ t.script = v6.script
    BY <1>1 DEF Pipes!Terminals
  <2>3. v6' = Pipes!ttyReset(t)
    BY <1>4
  <2> HIDE DEF t
  <2>4. t.tty = "raw" => t.atexit
    BY <1>1, <2>2 DEF PipTermInv
  <2>5. /\ v6' \in Pipes!Terminals /\ v6'.tty = "orig" /\ v6'.wrote = v6.wrote /\ v6'.out = v6.out /\ v6'.shown = v6.shown /\ v6'.hup = v6.hup
        /\ v6'.script = v6.script /\ v6'.why = "master"
    BY <2>2, <2>3, <2>4, PipReset
  <2>6. v6.hup
    BY <1>1, <1>4 DEF PipTermInv
  <2>7. PipTermInv(v6', v1, "gone", v4[1].pc)
    BY <1>1, <1>4, <2>5, <2>6 DEF PipTermInv
  <2> QED
    BY <1>4, <2>5, <2>7, PipTermKeeps DEF PipMasterLabels
<1>5. ASSUME NEW n \in 1..PipBufSize, n <= Len(v6.out), PipTerm(m, next),
             v6' = [v6 EXCEPT !.out = SubSeq(v6.out, n + 1, Len(v6.out)), !.shown = v6.shown \o SubSeq(v6.out, 1, n)]
      PROVE  PipKept
  <2> DEFINE o == SubSeq(v6.out, n + 1, Len(v6.out))
             b == SubSeq(v6.out, 1, n)
             s == v6.shown \o b
  <2>1. n \in 0..Len(v6.out) /\ n \in Nat
    BY <1>1, <1>5, PipBounds
  <2>2. o \in Seq(Int) /\ Len(o) = Len(v6.out) - n /\ b \in Seq(Int) /\ Len(b) = n
    BY <1>1, <2>1, PipParts
  <2> HIDE DEF o, b
  <2>3. s \in Seq(Int) /\ Len(s) = Len(v6.shown) + Len(b)
    BY <1>1, <2>2, PipJoin
  <2>4. v1 = "script" => Pipes!IsPrefix(v6.script, s)
    BY <1>1, <2>2, PipPrefixes DEF PipTermInv
  <2>5. v6' = [v6 EXCEPT !.out = o, !.shown = s]
    BY <1>5 DEF o, b
  <2>12. v6.why = "none"
    BY <1>1 DEF PipTermInv
  <2>13. v6.wrote = Len(v6.out) + Len(v6.shown)
    BY <1>1, <2>12 DEF PipTermInv
  <2>6. v6.wrote = Len(v6.out) + Len(v6.shown) /\ v6.why = "none" /\ Len(v6.out) \in Nat /\ Len(v6.shown) \in Nat
    BY <1>1, <2>12, <2>13
  <2> HIDE DEF s
  <2>7. v6.wrote = Len(o) + Len(s)
    <3> DEFINE x == Len(v6.out)
               y == Len(v6.shown)
               z == v6.wrote
               p == Len(o)
               q == Len(s)
    <3>1. x \in Nat /\ y \in Nat /\ z = x + y /\ p = x - n /\ q = y + n
      BY <2>2, <2>3, <2>6
    <3> HIDE DEF x, y, z, p, q
    <3>2. z = p + q
      BY <2>1, <3>1
    <3> QED
      BY <3>2 DEF z, p, q
  <2>8. /\ v6' \in Pipes!Terminals /\ v6'.wrote = v6.wrote /\ v6'.out = o /\ v6'.shown = s /\ v6'.hup = v6.hup /\ v6'.ready = v6.ready
        /\ v6'.tty = v6.tty /\ v6'.atexit = v6.atexit /\ v6'.why = v6.why /\ v6'.script = v6.script
    BY <1>1, <2>2, <2>3, <2>5 DEF Pipes!Terminals
  <2>9. next \in {"typescript", "select"} /\ (v1 = "script" => next = "typescript")
    OBVIOUS
  <2> HIDE DEF next
  <2>10. v6.why # "master"
    BY <1>1 DEF PipTermInv
  <2>11. PipTermInv(v6', v1, next, v4[1].pc)
    BY <1>1, <2>4, <2>7, <2>8, <2>9, <2>10 DEF PipTermInv
  <2> QED
    BY <1>5, <2>8, <2>9, <2>11, PipTermKeeps DEF PipMasterLabels
<1>6. ASSUME NEW n \in 1..PipBufSize, n <= Len(v6.out), PipTerm(m, "gone"),
             v6' = Pipes!ttyReset([v6 EXCEPT !.why = "write", !.out = SubSeq(v6.out, n + 1, Len(v6.out))])
      PROVE  PipKept
  <2> DEFINE o == SubSeq(v6.out, n + 1, Len(v6.out))
             t == [v6 EXCEPT !.why = "write", !.out = o]
  <2>1. n \in 0..Len(v6.out)
    BY <1>1, <1>6, PipBounds
  <2>2. o \in Seq(Int)
    BY <1>1, <2>1, PipParts
  <2>3. v6' = Pipes!ttyReset(t)
    BY <1>6
  <2> HIDE DEF o
  <2>4. /\ t \in Pipes!Terminals /\ t.wrote = v6.wrote /\ t.out = o /\ t.shown = v6.shown /\ t.hup = v6.hup
        /\ t.tty = v6.tty /\ t.atexit = v6.atexit /\ t.why = "write" /\ t.script = v6.script
    BY <1>1, <2>2 DEF Pipes!Terminals
  <2> HIDE DEF t
  <2>5. t.tty = "raw" => t.atexit
    BY <1>1, <2>4 DEF PipTermInv
  <2>6. /\ v6' \in Pipes!Terminals /\ v6'.tty = "orig" /\ v6'.wrote = v6.wrote /\ v6'.out = o /\ v6'.shown = v6.shown /\ v6'.hup = v6.hup
        /\ v6'.script = v6.script /\ v6'.why = "write"
    BY <2>3, <2>4, <2>5, PipReset
  <2>7. PipTermInv(v6', v1, "gone", v4[1].pc)
    BY <1>1, <2>6 DEF PipTermInv
  <2> QED
    BY <1>6, <2>6, <2>7, PipTermKeeps DEF PipMasterLabels
<1> QED
  BY <1>2, <1>3, <1>4, <1>5, <1>6

LEMMA PipWriteTypescript ==
  ASSUME Pipes!TypeOK, Pipes!PlaceInv, v1 \in Pipes!Relays, Pipes!RelayInv, Pipes!WriteTypescript
  PROVE  PipKept
<1> DEFINE m == Pipes!main
<1>1. v6 \in Pipes!Terminals /\ PipTermInv(v6, v1, v4[m].pc, v4[1].pc) /\ v4[m].pc = "typescript" /\ v6.shown \in Seq(Int)
  BY PipTyped, PipTermInvIs, PipTermTypes DEF Pipes!WriteTypescript, Pipes!Pty, Pipes!At
<1>2. \/ PipTerm(m, "select") /\ v6' = [v6 EXCEPT !.script = v6.shown]
      \/ PipTerm(m, "gone") /\ v6' = Pipes!ttyReset([v6 EXCEPT !.why = "write"])
  BY DEF Pipes!WriteTypescript, Pipes!Pty, Pipes!Set, Pipes!Goes, Pipes!At, PipTerm
<1>3. CASE PipTerm(m, "select") /\ v6' = [v6 EXCEPT !.script = v6.shown]
  <2>1. /\ v6' \in Pipes!Terminals /\ v6'.wrote = v6.wrote /\ v6'.out = v6.out /\ v6'.shown = v6.shown /\ v6'.hup = v6.hup /\ v6'.ready = v6.ready
        /\ v6'.tty = v6.tty /\ v6'.atexit = v6.atexit /\ v6'.why = v6.why /\ v6'.script = v6.shown
    BY <1>1, <1>3 DEF Pipes!Terminals
  <2>2. Pipes!IsPrefix(v6'.script, v6'.shown)
    BY <1>1, <2>1, PipPrefixes
  <2>3. PipTermInv(v6', v1, "select", v4[1].pc)
    BY <1>1, <2>1, <2>2 DEF PipTermInv
  <2> QED
    BY <1>3, <2>1, <2>3, PipTermKeeps DEF PipMasterLabels
<1>4. CASE PipTerm(m, "gone") /\ v6' = Pipes!ttyReset([v6 EXCEPT !.why = "write"])
  <2> DEFINE t == [v6 EXCEPT !.why = "write"]
  <2>2. /\ t \in Pipes!Terminals /\ t.wrote = v6.wrote /\ t.out = v6.out /\ t.shown = v6.shown /\ t.hup = v6.hup
        /\ t.tty = v6.tty /\ t.atexit = v6.atexit /\ t.why = "write" /\ t.script = v6.script
    BY <1>1 DEF Pipes!Terminals
  <2>3. v6' = Pipes!ttyReset(t)
    BY <1>4
  <2> HIDE DEF t
  <2>4. t.tty = "raw" => t.atexit
    BY <1>1, <2>2 DEF PipTermInv
  <2>5. /\ v6' \in Pipes!Terminals /\ v6'.tty = "orig" /\ v6'.wrote = v6.wrote /\ v6'.out = v6.out /\ v6'.shown = v6.shown /\ v6'.hup = v6.hup
        /\ v6'.script = v6.script /\ v6'.why = "write"
    BY <2>2, <2>3, <2>4, PipReset
  <2>6. PipTermInv(v6', v1, "gone", v4[1].pc)
    BY <1>1, <2>5 DEF PipTermInv
  <2> QED
    BY <1>4, <2>5, <2>6, PipTermKeeps DEF PipMasterLabels
<1> QED
  BY <1>2, <1>3, <1>4

LEMMA PipNext ==
  ASSUME Pipes!IInv, Pipes!Next
  PROVE  Pipes!IInv'
<1>0. Pipes!TypeOK /\ Pipes!PlaceInv
  BY DEF Pipes!IInv
<1>1. CASE Pipes!pipe_sync
  <2>1. v1 = "sync"
    BY <1>1 DEF Pipes!pipe_sync, Pipes!Mine
  <2>2. v1' = v1 /\ Pipes!TypeOK' /\ Pipes!PlaceInv' /\ Pipes!SyncInv'
    BY <1>0, <1>1, <2>1, PipSync DEF Pipes!IInv
  <2> QED
    BY <2>1, <2>2 DEF Pipes!IInv, Pipes!Relays
<1>2. CASE Pipes!simple_pipe
  <2>1. v1 = "simple"
    BY <1>2 DEF Pipes!simple_pipe, Pipes!Mine
  <2>2. v1' = v1 /\ Pipes!TypeOK' /\ Pipes!PlaceInv' /\ Pipes!SimpleInv'
    BY <1>0, <1>2, <2>1, PipSimple DEF Pipes!IInv
  <2> QED
    BY <2>1, <2>2 DEF Pipes!IInv, Pipes!Relays
<1>3. CASE Pipes!pipe_ls_wc
  <2>1. v1 = "lswc"
    BY <1>3 DEF Pipes!pipe_ls_wc, Pipes!Mine
  <2>2. v1' = v1 /\ Pipes!TypeOK' /\ Pipes!PlaceInv' /\ Pipes!LswcInv'
    BY <1>0, <1>3, <2>1, PipLswc DEF Pipes!IInv
  <2> QED
    BY <2>1, <2>2 DEF Pipes!IInv, Pipes!Relays
<1>4. CASE Pipes!change_case
  <2>1. v1 = "case"
    BY <1>4 DEF Pipes!change_case, Pipes!Mine
  <2>2. v1' = v1 /\ Pipes!TypeOK' /\ Pipes!PlaceInv' /\ Pipes!CaseInv'
    BY <1>0, <1>4, <2>1, PipCase DEF Pipes!IInv
  <2> QED
    BY <2>1, <2>2 DEF Pipes!IInv, Pipes!Relays
<1>5. CASE Pipes!popen_glob
  <2>1. v1 = "glob"
    BY <1>5 DEF Pipes!popen_glob, Pipes!Mine
  <2>2. v1' = v1 /\ Pipes!TypeOK' /\ Pipes!PlaceInv' /\ Pipes!GlobInv'
    BY <1>0, <1>5, <2>1, PipGlob DEF Pipes!IInv
  <2> QED
    BY <2>1, <2>2 DEF Pipes!IInv, Pipes!Relays
<1>6. CASE Pipes!Killed
  <2>1. /\ v1' = v1 /\ v1 \in {"sync", "simple", "lswc", "case"} /\ Pipes!TypeOK'
        /\ \E c \in PipKids : /\ v4[c].pc \notin {"none", "gone"} /\ PipMoves(c, "gone", v4[c].buf) /\ PipHolds(c, {})
                              /\ v5'.shown = v5.shown /\ v5'.stdin = v5.stdin /\ v5'.killed # {} /\ v2' = v2 /\ v6' = v6
    BY <1>0, <1>6, PipKilled
  <2>2. PICK c \in PipKids : /\ v4[c].pc \notin {"none", "gone"} /\ PipMoves(c, "gone", v4[c].buf) /\ PipHolds(c, {})
                             /\ v5'.shown = v5.shown /\ v5'.stdin = v5.stdin /\ v5'.killed # {} /\ v2' = v2 /\ v6' = v6
    BY <2>1
  <2>3. c \in Pipes!Procs /\ v1 \in PipProgs
    BY <2>1, PipProcs DEF PipProgs
  <2>4. /\ \A r \in Pipes!Procs : r # c => v4'[r].pc = v4[r].pc /\ v3'[r] = v3[r]
        /\ v4'[c].pc = "gone" /\ v3'[c] = {}
    BY <2>2 DEF PipMoves, PipHolds
  <2>5. "gone" \in Pipes!Places(c) /\ Pipes!Held(c, "gone") = {}
    BY <1>0, <2>2, <2>3, PipPlaces
  <2>6. Pipes!PlaceInv'
    BY <1>0, <2>1, <2>3, <2>4, <2>5, PipPlace
  <2>7. v1 = "sync" => Pipes!SyncInv'
    BY <1>0, <2>1, <2>2, PipSyncKilled DEF Pipes!IInv
  <2>8. v1 = "simple" => Pipes!SimpleInv'
    BY <1>0, <2>1, <2>2, PipSimpleKilled DEF Pipes!IInv
  <2>9. v1 = "lswc" => Pipes!LswcInv'
    BY <1>0, <2>1, <2>2, PipLswcKilled DEF Pipes!IInv
  <2>10. v1 = "case" => Pipes!CaseInv'
    BY <1>0, <2>1, <2>2, PipCaseKilled DEF Pipes!IInv
  <2> QED
    BY <2>1, <2>6, <2>7, <2>8, <2>9, <2>10 DEF Pipes!IInv, Pipes!Relays
<1>7. CASE Pipes!ptyMasterOpen \/ Pipes!ptyFork \/ Pipes!Shell \/ Pipes!script \/ Pipes!unbuffer
  <2>1. v1 \in Pipes!Relays
    BY <1>7 DEF Pipes!ptyMasterOpen, Pipes!ptyFork, Pipes!Shell, Pipes!Pty, Pipes!script, Pipes!unbuffer, Pipes!Relays
  <2>2. Pipes!RelayInv
    BY <2>1 DEF Pipes!IInv
  <2>3. \/ Pipes!ptyMasterOpen \/ Pipes!ptyFork \/ Pipes!Shell \/ Pipes!OpenTypescript \/ Pipes!SetRaw \/ Pipes!RegisterReset \/ Pipes!SelectBoth
        \/ Pipes!RelayInput \/ Pipes!ReadMaster \/ Pipes!WriteTypescript
    BY <1>7 DEF Pipes!script, Pipes!unbuffer
  <2>4. PipKept
    BY <1>0, <2>1, <2>2, <2>3, PipMasterOpen, PipPtyFork, PipShell, PipScriptMoves, PipRelayInput, PipReadMaster, PipWriteTypescript
  <2> QED
    BY <2>1, <2>4 DEF Pipes!IInv, Pipes!Relays, PipKept
<1> QED
  BY <1>1, <1>2, <1>3, <1>4, <1>5, <1>6, <1>7 DEF Pipes!Next

LEMMA PipInit ==
  ASSUME Pipes!Init
  PROVE  Pipes!IInv
<1> DEFINE m == Pipes!main
<1>1. PICK l \in PipLines : v5 = [stdin |-> IF v1 = "glob" THEN l ELSE PipInput, shown |-> <<>>, ran |-> <<>>, killed |-> {}]
  BY DEF Pipes!Init
<1>2. /\ v1 \in {"sync", "simple", "lswc", "case", "glob", "script", "unbuffer"}
      /\ v2 = [p \in {"out", "in"} |-> <<>>]
      /\ v3 = [q \in Pipes!Procs |-> IF q # m THEN {} ELSE {"r", "w"} \X (IF v1 = "case" THEN {"out", "in"} ELSE {"out"})]
      /\ v4 = [q \in Pipes!Procs |-> [pc |-> IF q = m THEN "fork" ELSE "none", buf |-> IF q = m /\ v1 = "simple" THEN PipInput ELSE <<>>]]
  BY DEF Pipes!Init
<1>3. v6 = [master |-> FALSE, slave |-> FALSE, hup |-> FALSE, tty |-> "orig", atexit |-> FALSE, ready |-> {}, in |-> <<>>, out |-> <<>>,
            got |-> <<>>, typed |-> 0, wrote |-> 0, shown |-> <<>>, script |-> <<>>, why |-> "none"]
  BY DEF Pipes!Init
<1>4. <<>> \in Seq(Int) /\ Len(<<>>) = 0
  OBVIOUS
<1>5. PipInput \in Seq(Int) /\ l \in Seq(Pipes!Chars) /\ Len(PipInput) \in Nat
  BY PipBounds DEF Pipes!Chars
<1>6. v5 \in Pipes!Streams /\ v5.shown = <<>> /\ v5.ran = <<>> /\ v5.killed = {} /\ (v1 # "glob" => v5.stdin = PipInput)
  BY <1>1, <1>4, <1>5 DEF Pipes!Streams
<1>7. v6 \in Pipes!Terminals
  BY <1>3, <1>4 DEF Pipes!Terminals
<1>8. v2 \in [Pipes!Pipe -> Seq(Int)] /\ v2["out"] = <<>> /\ v2["in"] = <<>>
  BY <1>2, <1>4 DEF Pipes!Pipe
<1>9. /\ \A q \in Pipes!Procs : v4[q].pc = IF q = m THEN "fork" ELSE "none"
      /\ \A q \in Pipes!Procs : v4[q].buf = IF q = m /\ v1 = "simple" THEN PipInput ELSE <<>>
      /\ v4 \in [Pipes!Procs -> Pipes!States]
  <2>1. "fork" \in Pipes!Labels /\ "none" \in Pipes!Labels
    BY DEF Pipes!Labels
  <2> QED
    BY <1>2, <1>4, <1>5, <2>1 DEF Pipes!States
<1>10. {"r", "w"} \X {"out"} = Pipes!Both("out") /\ {"r", "w"} \X {"out", "in"} = Pipes!Both("out") \cup Pipes!Both("in")
  BY DEF Pipes!Both
<1>11. /\ \A q \in Pipes!Procs : v3[q] = IF q # m THEN {} ELSE IF v1 = "case" THEN Pipes!Both("out") \cup Pipes!Both("in") ELSE Pipes!Both("out")
       /\ v3 \in [Pipes!Procs -> SUBSET ({"r", "w"} \X Pipes!Pipe)]
  BY <1>2, <1>10 DEF Pipes!Pipe
<1>12. Pipes!TypeOK
  BY <1>2, <1>6, <1>7, <1>8, <1>9, <1>11 DEF Pipes!TypeOK
<1>13. m \in Pipes!Procs /\ 1 \in Pipes!Procs /\ 2 \in Pipes!Procs /\ m # 1 /\ m # 2 /\ \A c \in PipKids : c \in Pipes!Procs /\ c # m
  BY PipProcs
<1>14. Pipes!PlaceInv
  <2>1. ASSUME NEW q \in Pipes!Procs
        PROVE  v4[q].pc \in Pipes!Places(q) /\ (v1 \notin Pipes!Relays \cup {"glob"} => v3[q] = Pipes!Held(q, v4[q].pc))
    <3>1. CASE q = m
      <4>1. v4[q].pc = "fork" /\ v3[q] = IF v1 = "case" THEN Pipes!Both("out") \cup Pipes!Both("in") ELSE Pipes!Both("out")
        BY <1>9, <1>11, <3>1
      <4>2. "fork" \in Pipes!Places(m)
        BY <1>2, <1>13 DEF Pipes!Places, Pipes!Relays
      <4>3. Pipes!Held(m, "fork") = IF v1 = "case" THEN Pipes!Both("out") \cup Pipes!Both("in") ELSE Pipes!Both("out")
        BY DEF Pipes!Held
      <4> QED
        BY <3>1, <4>1, <4>2, <4>3
    <3>2. CASE q # m
      <4>1. v4[q].pc = "none" /\ v3[q] = {}
        BY <1>9, <1>11, <3>2
      <4>2. "none" \in Pipes!Places(q)
        <5>1. CASE v1 \in {"sync", "simple", "lswc", "case"}
          <6>1. q # Pipes!main
            BY <3>2
          <6> QED
            BY <5>1, <6>1, PipSyncPlaces, PipSimplePlaces, PipLswcPlaces, PipCasePlaces
        <5>2. CASE v1 = "glob"
          BY <3>2, <5>2 DEF Pipes!Places, Pipes!Relays
        <5>3. CASE v1 \in Pipes!Relays
          BY <3>2, <5>3 DEF Pipes!Places, Pipes!Relays
        <5> QED
          BY <1>2, <5>1, <5>2, <5>3 DEF Pipes!Relays
      <4>3. Pipes!Held(q, "none") = {}
        BY DEF Pipes!Held
      <4> QED
        BY <4>1, <4>2, <4>3
    <3> QED
      BY <3>1, <3>2
  <2> QED
    BY <2>1 DEF Pipes!PlaceInv
<1>15. /\ v4[m].pc = "fork" /\ v4[1].pc = "none" /\ v4[2].pc = "none" /\ v4[1].buf = <<>> /\ v4[2].buf = <<>>
       /\ v4[m].buf = IF v1 = "simple" THEN PipInput ELSE <<>>
  BY <1>9, <1>13
<1>16. \A a \in Seq(Int) : Pipes!Follows(a, <<>>, 0)
  BY <1>4, PipNothing
<1>17. v1 = "sync" => Pipes!SyncInv
  BY <1>8, <1>15 DEF Pipes!SyncInv, Pipes!At
<1>18. v1 = "simple" => Pipes!SimpleInv
  <2> HAVE v1 = "simple"
  <2>1. v4[m].buf = PipInput
    BY <1>15
  <2>2. Len(v5.shown) = 0 /\ Len(v4[1].buf) = 0 /\ Len(v2["out"]) = 0 /\ 0 + 0 = 0 /\ 0 + Len(PipInput) = Len(PipInput)
    BY <1>4, <1>5, <1>6, <1>8, <1>15
  <2>3. Pipes!InLine(1, m)
    BY <1>5, <1>6, <1>8, <1>15, <1>16, <2>1, <2>2, PipAll DEF Pipes!InLine
  <2>4. Pipes!Total(1, m)
    BY <2>1, <2>2 DEF Pipes!Total
  <2> QED
    BY <1>15, <2>3, <2>4 DEF Pipes!SimpleInv, Pipes!At
<1>19. v1 = "lswc" => Pipes!LswcInv
  <2> HAVE v1 = "lswc"
  <2>1. Len(v5.shown) = 0 /\ Len(v4[2].buf) = 0 /\ Len(v2["out"]) = 0 /\ 0 + 0 = 0
    BY <1>4, <1>6, <1>8, <1>15
  <2>2. Pipes!InLine(2, 1)
    BY <1>5, <1>6, <1>8, <1>15, <1>16, <2>1 DEF Pipes!InLine
  <2> QED
    BY <1>6, <1>8, <1>15, <2>2 DEF Pipes!LswcInv, Pipes!At
<1>20. v1 = "case" => Pipes!CaseInv
  <2> HAVE v1 = "case"
  <2>1. v5.stdin = PipInput /\ Len(v5.shown) = 0 /\ Len(v2["in"]) = 0 /\ 0 <= PipBufSize
    BY <1>4, <1>6, <1>8, PipBounds
  <2>2. Pipes!Upper(PipInput) \in Seq(Int)
    BY <1>5, PipUpper
  <2>3. Len(PipInput) - Len(v5.stdin) = 0 /\ Len(v5.stdin) <= Len(PipInput)
    BY <1>5, <2>1
  <2>4. Pipes!Follows(Pipes!Upper(PipInput), v5.shown, 0) /\ Pipes!Follows(PipInput, v5.stdin, Len(PipInput) - Len(v5.stdin))
    BY <1>5, <1>6, <1>16, <2>1, <2>2, <2>3, PipAll
  <2>5. Pipes!Idle /\ Pipes!CaseSum(<<>>)
    BY <1>4, <1>5, <1>8, <1>15, <2>1 DEF Pipes!Idle, Pipes!CaseSum
  <2> QED
    BY <1>15, <2>1, <2>3, <2>4, <2>5 DEF Pipes!CaseInv, Pipes!At
<1>21. v1 = "glob" => Pipes!GlobInv
  BY <1>6 DEF Pipes!GlobInv
<1>22. v1 \in Pipes!Relays => Pipes!RelayInv
  <2>1. Pipes!IsPrefix(<<>>, <<>>)
    BY <1>4, PipPrefixes
  <2>2. v6.wrote = Len(v6.out) + Len(v6.shown)
    BY <1>3, <1>4
  <2> QED
    BY <1>3, <1>15, <2>1, <2>2 DEF Pipes!RelayInv, Pipes!At
<1> QED
  BY <1>12, <1>14, <1>17, <1>18, <1>19, <1>20, <1>21, <1>22 DEF Pipes!IInv

\* Whom a process needs.
LEMMA PipNeeds ==
  /\ \A q : v4[q].pc \notin {"read", "write", "wait", "stdin", "put"} => Pipes!Needs(q) = {}
  /\ \A q : v4[q].pc = "stdin" /\ Pipes!Needs(q) # {} => Pipes!InputFull /\ Pipes!Needs(q) = {1}
  /\ \A q : v4[q].pc = "put" /\ Pipes!Needs(q) # {} => Len(v6.out) >= PipCap /\ Pipes!Needs(q) = {Pipes!main}
  /\ \A q : v4[q].pc = "wait" => Pipes!Needs(q) = PipKids \cap Pipes!Live
  /\ \A q : v4[q].pc = "read" /\ ~(v1 = "case" /\ q = Pipes!main) => Pipes!Needs(q) = IF v2["out"] = <<>> THEN Pipes!Writers("out") ELSE {}
  /\ v4[Pipes!main].pc = "read" /\ v1 = "case" => Pipes!Needs(Pipes!main) = IF v2["in"] = <<>> THEN Pipes!Writers("in") ELSE {}
  /\ \A q : v4[q].pc = "write" /\ ~(v1 = "case" /\ q = 1) =>
              Pipes!Needs(q) = IF Pipes!HasRoom("out", v4[q].buf) THEN {} ELSE Pipes!Readers("out")
  /\ v4[1].pc = "write" /\ v1 = "case" => Pipes!Needs(1) = IF Pipes!HasRoom("in", v4[1].buf) THEN {} ELSE Pipes!Readers("in")
BY DEF Pipes!Needs, Pipes!At

\* A pipe that is empty takes a block.
LEMMA PipRoom ==
  ASSUME NEW p \in Pipes!Pipe, v2[p] = <<>>, NEW b \in Seq(Int)
  PROVE  Pipes!HasRoom(p, b)
<1> DEFINE n == Len(b)
           k == Len(v2[p])
<1>1. n \in Nat /\ k = 0
  OBVIOUS
<1>2. PipBufSize \in Nat \ {0} /\ PipAtomic \in Nat /\ PipCap \in Nat /\ PipBufSize <= PipAtomic /\ PipAtomic <= PipCap
  BY PipBounds
<1> HIDE DEF n, k
<1>3. k + (IF n <= PipAtomic THEN n ELSE 1) <= PipCap
  BY <1>1, <1>2
<1> QED
  BY <1>3 DEF Pipes!HasRoom, n, k

PipStuck(S) == S \subseteq Pipes!Live /\ \A q \in S : Pipes!Needs(q) # {} /\ Pipes!Needs(q) \subseteq S

LEMMA PipStuckIs ==
  ASSUME NEW S, PipStuck(S)
  PROVE  /\ \A q \in S : q \in Pipes!Procs /\ v4[q].pc \notin {"none", "gone"} /\ v4[q].pc \in {"read", "write", "wait", "stdin", "put"}
         /\ \A q \in S : q # Pipes!main => q \in PipKids
         /\ Pipes!main \notin PipKids
BY PipNeeds, PipProcs DEF PipStuck, Pipes!Live

LEMMA PipSyncFree ==
  ASSUME Pipes!PlaceInv, v1 = "sync", NEW S, PipStuck(S)
  PROVE  S = {}
<1> DEFINE m == Pipes!main
<1>1. v1 \in PipProgs
  BY DEF PipProgs
<1>2. \A q \in S : q = m
  <2> SUFFICES ASSUME NEW q \in S, q # m PROVE FALSE
    OBVIOUS
  <2>1. v4[q].pc \in {"none", "close", "work", "exit", "gone"}
    BY <1>1, PipPlaces, PipStuckIs, PipSyncPlaces
  <2> QED
    BY <2>1, PipStuckIs
<1>3. m \notin S
  <2> SUFFICES ASSUME m \in S PROVE FALSE
    OBVIOUS
  <2>1. v4[m].pc = "read" /\ m \in Pipes!Procs
    BY <1>1, PipPlaces, PipStuckIs, PipSyncPlaces
  <2>2. Pipes!Needs(m) \subseteq Pipes!Writers("out") /\ Pipes!Needs(m) # {} /\ Pipes!Needs(m) \subseteq S
    BY <2>1, PipNeeds DEF PipStuck
  <2>3. m \in Pipes!Writers("out")
    BY <1>2, <2>2
  <2>4. <<"w", "out">> \in Pipes!Held(m, "read")
    BY <1>1, <2>1, <2>3, PipWho
  <2>5. <<"w", "out">> \in {<<"r", "out">>}
    BY <2>4, PipSyncPlaces
  <2> QED
    BY <2>5
<1> QED
  BY <1>2, <1>3

\* The parent waits for its children only.
LEMMA PipWaits ==
  ASSUME NEW S, PipStuck(S), Pipes!main \in S, v4[Pipes!main].pc = "wait"
  PROVE  \E c \in PipKids : c \in S
BY PipNeeds, PipStuckIs DEF PipStuck

LEMMA PipSimpleFree ==
  ASSUME Pipes!TypeOK, Pipes!PlaceInv, v1 = "simple", NEW S, PipStuck(S)
  PROVE  S = {}
<1> DEFINE m == Pipes!main
<1>1. v1 \in PipProgs /\ m \in Pipes!Procs /\ 1 \in Pipes!Procs /\ m # 1 /\ "out" \in Pipes!Pipe /\ v4[m].buf \in Seq(Int)
  BY PipProcs, PipLabels, PipTyped DEF PipProgs
<1>2. S \subseteq {m, 1} /\ (m \in S => v4[m].pc \in {"write", "wait"}) /\ (1 \in S => v4[1].pc = "read")
  BY <1>1, PipPlaces, PipStuckIs, PipSimplePlaces
<1>a. <<"r", "out">> # <<"w", "out">>
  OBVIOUS
<1>3. v4[m].pc \in {"write", "wait"} => m \notin Pipes!Readers("out")
  <2> HAVE v4[m].pc \in {"write", "wait"}
  <2>1. Pipes!Held(m, v4[m].pc) \subseteq {<<"w", "out">>}
    BY PipSimplePlaces
  <2> QED
    BY <1>1, <1>a, <2>1, PipWho
<1>4. v4[1].pc = "read" => 1 \notin Pipes!Writers("out")
  <2> HAVE v4[1].pc = "read"
  <2>1. Pipes!Held(1, v4[1].pc) = {<<"r", "out">>}
    BY PipSimplePlaces
  <2> QED
    BY <1>1, <1>a, <2>1, PipWho
<1>5. m \in S => 1 \in S
  <2> HAVE m \in S
  <2>1. CASE v4[m].pc = "wait"
    <3>1. PICK c \in PipKids : c \in S
      BY <2>1, PipWaits
    <3> QED
      BY <1>2, <3>1, PipStuckIs
  <2>2. CASE v4[m].pc = "write"
    <3>1. Pipes!Needs(m) \subseteq Pipes!Readers("out") /\ Pipes!Needs(m) # {} /\ Pipes!Needs(m) \subseteq S
      BY <1>1, <2>2, PipNeeds DEF PipStuck
    <3> QED
      BY <1>2, <1>3, <2>2, <3>1
  <2> QED
    BY <1>2, <2>1, <2>2
<1>6. 1 \notin S
  <2> SUFFICES ASSUME 1 \in S PROVE FALSE
    OBVIOUS
  <2>1. v4[1].pc = "read" /\ v2["out"] = <<>> /\ Pipes!Writers("out") # {} /\ Pipes!Writers("out") \subseteq S
    BY <1>1, <1>2, PipNeeds DEF PipStuck
  <2>2. m \in S /\ m \in Pipes!Writers("out")
    BY <1>2, <1>4, <2>1
  <2>3. <<"w", "out">> \in Pipes!Held(m, v4[m].pc)
    BY <1>1, <2>2, PipWho
  <2>4. v4[m].pc # "wait"
    BY <2>3, PipSimplePlaces
  <2>5. v4[m].pc = "write"
    BY <1>2, <2>2, <2>4
  <2>6. Pipes!HasRoom("out", v4[m].buf)
    BY <1>1, <2>1, PipRoom
  <2>7. Pipes!Needs(m) = {}
    BY <1>1, <2>5, <2>6, PipNeeds
  <2> QED
    BY <2>2, <2>7 DEF PipStuck
<1> QED
  BY <1>2, <1>5, <1>6

LEMMA PipLswcFree ==
  ASSUME Pipes!TypeOK, Pipes!PlaceInv, v1 = "lswc", NEW S, PipStuck(S)
  PROVE  S = {}
<1> DEFINE m == Pipes!main
<1>1. v1 \in PipProgs /\ m \in Pipes!Procs /\ 1 \in Pipes!Procs /\ 2 \in Pipes!Procs /\ m # 1 /\ m # 2 /\ "out" \in Pipes!Pipe /\ v4[1].buf \in Seq(Int)
  BY PipProcs, PipLabels, PipTyped DEF PipProgs
<1>2. S \subseteq {m, 1, 2} /\ (m \in S => v4[m].pc = "wait") /\ (1 \in S => v4[1].pc = "write") /\ (2 \in S => v4[2].pc = "read")
  <2>1. \A q \in S : v4[q].pc \in Pipes!Places(q) /\ v4[q].pc \in {"read", "write", "wait", "stdin", "put"}
    BY <1>1, PipPlaces, PipStuckIs
  <2>2. S \subseteq {m, 1, 2}
    BY <2>1, PipLswcPlaces
  <2> QED
    BY <2>1, <2>2, PipLswcPlaces
<1>3. <<"r", "out">> # <<"w", "out">>
  OBVIOUS
<1>4. m \in S => m \notin Pipes!Readers("out") /\ m \notin Pipes!Writers("out")
  <2> HAVE m \in S
  <2>1. Pipes!Held(m, v4[m].pc) = {}
    BY <1>2, PipLswcPlaces
  <2> QED
    BY <1>1, <2>1, PipWho
<1>5. 1 \in S => 1 \notin Pipes!Readers("out")
  <2> HAVE 1 \in S
  <2>1. Pipes!Held(1, v4[1].pc) = {<<"w", "out">>}
    BY <1>2, PipLswcPlaces
  <2> QED
    BY <1>1, <1>3, <2>1, PipWho
<1>6. 2 \in S => 2 \notin Pipes!Writers("out")
  <2> HAVE 2 \in S
  <2>1. Pipes!Held(2, v4[2].pc) = {<<"r", "out">>}
    BY <1>2, PipLswcPlaces
  <2> QED
    BY <1>1, <1>3, <2>1, PipWho
<1>7. 1 \notin S
  <2> SUFFICES ASSUME 1 \in S PROVE FALSE
    OBVIOUS
  <2>1. ~Pipes!HasRoom("out", v4[1].buf) /\ Pipes!Readers("out") # {} /\ Pipes!Readers("out") \subseteq S
    BY <1>1, <1>2, PipNeeds DEF PipStuck
  <2>2. 2 \in S
    BY <1>2, <1>4, <1>5, <2>1
  <2>3. v2["out"] # <<>>
    BY <1>1, <2>1, PipRoom
  <2>4. Pipes!Needs(2) = {}
    BY <1>1, <1>2, <2>2, <2>3, PipNeeds
  <2> QED
    BY <2>2, <2>4 DEF PipStuck
<1>8. 2 \notin S
  <2> SUFFICES ASSUME 2 \in S PROVE FALSE
    OBVIOUS
  <2>1. Pipes!Writers("out") # {} /\ Pipes!Writers("out") \subseteq S
    BY <1>1, <1>2, PipNeeds DEF PipStuck
  <2> QED
    BY <1>2, <1>4, <1>6, <1>7, <2>1
<1>9. m \notin S
  <2> SUFFICES ASSUME m \in S PROVE FALSE
    OBVIOUS
  <2>1. PICK c \in PipKids : c \in S
    BY <1>2, PipWaits
  <2> QED
    BY <1>2, <1>7, <1>8, <2>1, PipStuckIs
<1> QED
  BY <1>2, <1>7, <1>8, <1>9

LEMMA PipCaseFree ==
  ASSUME Pipes!TypeOK, Pipes!PlaceInv, v1 = "case", Pipes!CaseInv, NEW S, PipStuck(S)
  PROVE  S = {}
<1> DEFINE m == Pipes!main
<1>1. /\ v1 \in PipProgs /\ m \in Pipes!Procs /\ 1 \in Pipes!Procs /\ m # 1 /\ "out" \in Pipes!Pipe /\ "in" \in Pipes!Pipe
      /\ v4[m].buf \in Seq(Int) /\ v4[1].buf \in Seq(Int)
  BY PipProcs, PipLabels, PipTyped DEF PipProgs
<1>2. S \subseteq {m, 1} /\ (m \in S => v4[m].pc \in {"read", "write"}) /\ (1 \in S => v4[1].pc \in {"read", "write"})
  <2>1. \A q \in S : v4[q].pc \in Pipes!Places(q) /\ v4[q].pc \in {"read", "write", "wait", "stdin", "put"}
    BY <1>1, PipPlaces, PipStuckIs
  <2>2. S \subseteq {m, 1}
    BY <2>1, PipCasePlaces
  <2> QED
    BY <2>1, <2>2, PipCasePlaces
<1>3. <<"r", "out">> # <<"w", "out">> /\ <<"r", "in">> # <<"w", "in">> /\ <<"r", "out">> # <<"r", "in">> /\ <<"w", "out">> # <<"w", "in">>
      /\ <<"r", "out">> # <<"w", "in">> /\ <<"r", "in">> # <<"w", "out">>
  OBVIOUS
<1>4. m \in S => m \notin Pipes!Readers("out") /\ m \notin Pipes!Writers("in")
  <2> HAVE m \in S
  <2>1. Pipes!Held(m, v4[m].pc) = {<<"w", "out">>, <<"r", "in">>}
    BY <1>2, PipCasePlaces
  <2> QED
    BY <1>1, <1>3, <2>1, PipWho
<1>5. 1 \in S => 1 \notin Pipes!Writers("out") /\ 1 \notin Pipes!Readers("in")
  <2> HAVE 1 \in S
  <2>1. Pipes!Held(1, v4[1].pc) = {<<"r", "out">>, <<"w", "in">>}
    BY <1>2, PipCasePlaces
  <2> QED
    BY <1>1, <1>3, <2>1, PipWho
<1>6. m \in S => 1 \in S /\ (v4[m].pc = "read" => v2["in"] = <<>>) /\ (v4[m].pc = "write" => ~Pipes!HasRoom("out", v4[m].buf))
  <2> HAVE m \in S
  <2>1. CASE v4[m].pc = "read"
    <3>1. v2["in"] = <<>> /\ Pipes!Writers("in") # {} /\ Pipes!Writers("in") \subseteq S
      BY <2>1, PipNeeds DEF PipStuck
    <3> QED
      BY <1>2, <1>4, <2>1, <3>1
  <2>2. CASE v4[m].pc = "write"
    <3>1. ~Pipes!HasRoom("out", v4[m].buf) /\ Pipes!Readers("out") # {} /\ Pipes!Readers("out") \subseteq S
      BY <1>1, <2>2, PipNeeds DEF PipStuck
    <3> QED
      BY <1>2, <1>4, <2>2, <3>1
  <2> QED
    BY <1>2, <2>1, <2>2
<1>7. 1 \in S => m \in S /\ (v4[1].pc = "read" => v2["out"] = <<>>) /\ (v4[1].pc = "write" => ~Pipes!HasRoom("in", v4[1].buf))
  <2> HAVE 1 \in S
  <2>1. CASE v4[1].pc = "read"
    <3>1. v2["out"] = <<>> /\ Pipes!Writers("out") # {} /\ Pipes!Writers("out") \subseteq S
      BY <1>1, <2>1, PipNeeds DEF PipStuck
    <3> QED
      BY <1>2, <1>5, <2>1, <3>1
  <2>2. CASE v4[1].pc = "write"
    <3>1. ~Pipes!HasRoom("in", v4[1].buf) /\ Pipes!Readers("in") # {} /\ Pipes!Readers("in") \subseteq S
      BY <2>2, PipNeeds DEF PipStuck
    <3> QED
      BY <1>2, <1>5, <2>2, <3>1
  <2> QED
    BY <1>2, <2>1, <2>2
<1>8. ASSUME 1 \in S, m \in S PROVE FALSE
  <2>1. v4[1].pc \in {"read", "write"} /\ v4[m].pc \in {"read", "write"}
    BY <1>2, <1>8
  <2>2. (v4[m].pc = "read" => Pipes!OneBlock) /\ (v4[m].pc = "write" => Pipes!Idle)
    BY <2>1 DEF Pipes!CaseInv, Pipes!At
  <2>3. CASE v4[m].pc = "write"
    <3>1. v2["out"] = <<>>
      BY <2>2, <2>3 DEF Pipes!Idle
    <3> QED
      BY <1>1, <1>6, <1>8, <2>3, <3>1, PipRoom
  <2>4. CASE v4[m].pc = "read" /\ v4[1].pc = "write"
    <3>1. v2["in"] = <<>>
      BY <1>6, <1>8, <2>4
    <3> QED
      BY <1>1, <1>7, <1>8, <2>4, <3>1, PipRoom
  <2>5. CASE v4[m].pc = "read" /\ v4[1].pc = "read"
    <3>1. v2["in"] = <<>> /\ v2["out"] = <<>>
      BY <1>6, <1>7, <1>8, <2>5
    <3> QED
      BY <2>2, <2>5, <3>1 DEF Pipes!OneBlock, Pipes!At
  <2> QED
    BY <2>1, <2>3, <2>4, <2>5
<1> QED
  BY <1>2, <1>6, <1>7, <1>8

\* The relays of script and unbuffer and their program depend on each other
\* only when the terminal is full both ways.
LEMMA PipOtherFree ==
  ASSUME Pipes!PlaceInv, v1 \in PipOthers, NEW S, PipStuck(S), S # {}
  PROVE  Pipes!FullBothWays
<1> DEFINE m == Pipes!main
<1>1. \A q \in Pipes!Procs : v4[q].pc \in Pipes!Places(q)
  BY PipOtherPlaces
<1>2. PICK q \in S : TRUE
  OBVIOUS
<1>3. q \in Pipes!Procs /\ v4[q].pc \in {"read", "write", "wait", "stdin", "put"} /\ v4[q].pc \in Pipes!Places(q)
  BY <1>1, <1>2, PipStuckIs
<1>4. v1 \in Pipes!Relays
  BY <1>3 DEF Pipes!Places, PipOthers, Pipes!Relays
<1>5. \A p \in Pipes!Procs : /\ v4[p].pc \notin {"read", "write", "wait"}
                             /\ v4[p].pc = "stdin" => p = m
                             /\ v4[p].pc = "put" => p = 1
  BY <1>1, <1>4, PipProcs DEF Pipes!Places, Pipes!Relays
<1>6. \A p \in S : p \in Pipes!Procs /\ v4[p].pc \in {"read", "write", "wait", "stdin", "put"} /\ Pipes!Needs(p) # {} /\ Pipes!Needs(p) \subseteq S
  BY PipStuckIs DEF PipStuck
<1>7. \A p \in S : \/ p = m /\ v4[p].pc = "stdin" /\ Pipes!InputFull /\ 1 \in S
                   \/ p = 1 /\ v4[p].pc = "put" /\ Len(v6.out) >= PipCap /\ m \in S
  <2> SUFFICES ASSUME NEW p \in S
               PROVE  \/ p = m /\ v4[p].pc = "stdin" /\ Pipes!InputFull /\ 1 \in S
                      \/ p = 1 /\ v4[p].pc = "put" /\ Len(v6.out) >= PipCap /\ m \in S
    OBVIOUS
  <2>1. v4[p].pc \in {"stdin", "put"} /\ Pipes!Needs(p) # {} /\ Pipes!Needs(p) \subseteq S
    BY <1>5, <1>6
  <2>2. CASE v4[p].pc = "stdin"
    BY <1>5, <1>6, <2>1, <2>2, PipNeeds
  <2>3. CASE v4[p].pc = "put"
    BY <1>5, <1>6, <2>1, <2>3, PipNeeds
  <2> QED
    BY <2>1, <2>2, <2>3
<1>8. m # 1
  BY PipProcs
<1>9. m \in S /\ 1 \in S
  BY <1>2, <1>7
<1>10. v4[m].pc = "stdin" /\ Pipes!InputFull /\ v4[1].pc = "put" /\ Len(v6.out) >= PipCap
  BY <1>7, <1>8, <1>9
<1> QED
  BY <1>4, <1>10 DEF Pipes!FullBothWays, Pipes!InputFull, Pipes!At

LEMMA PipNoCircle ==
  ASSUME Pipes!IInv
  PROVE  Pipes!NoCircle
<1>1. Pipes!TypeOK /\ Pipes!PlaceInv /\ (v1 = "case" => Pipes!CaseInv)
  BY DEF Pipes!IInv
<1>2. v1 \in {"sync", "simple", "lswc", "case"} \/ v1 \in PipOthers
  BY <1>1, PipTyped DEF PipOthers
<1>3. ASSUME NEW S, PipStuck(S) PROVE S = {} \/ Pipes!FullBothWays
  BY <1>1, <1>2, <1>3, PipSyncFree, PipSimpleFree, PipLswcFree, PipCaseFree, PipOtherFree
<1>4. ASSUME NEW S \in SUBSET Pipes!Live, S # {}, ~Pipes!FullBothWays
      PROVE  \E q \in S : Pipes!Needs(q) = {} \/ ~(Pipes!Needs(q) \subseteq S)
  BY <1>3, <1>4 DEF PipStuck
<1> QED
  BY <1>4 DEF Pipes!NoCircle

LEMMA PipPassedOn ==
  ASSUME Pipes!IInv
  PROVE  Pipes!PassedOn
<1> DEFINE m == Pipes!main
           n == Len(PipInput)
<1>1. Pipes!TypeOK /\ Pipes!PlaceInv
  BY DEF Pipes!IInv
<1>2. PipInput \in Seq(Int) /\ v5.shown \in Seq(Int) /\ Len(v5.shown) \in Nat /\ n \in Nat /\ Len(<<>>) = 0
  <2>1. Len(<<>>) = 0
    OBVIOUS
  <2> QED
    BY <1>1, <2>1, PipTyped, PipBounds
<1>3. m \in Pipes!Procs /\ 1 \in Pipes!Procs /\ 2 \in Pipes!Procs
  BY PipProcs
<1>4. v1 = "sync" /\ Pipes!At(m, "exit") => \A c \in PipKids : v4[c].pc \in {"exit", "gone"}
  BY DEF Pipes!IInv, Pipes!SyncInv
<1>5. v1 \in {"simple", "lswc"} => Pipes!Follows(PipInput, v5.shown, 0)
  BY DEF Pipes!IInv, Pipes!SimpleInv, Pipes!LswcInv, Pipes!InLine
<1>6. v1 \in {"simple", "lswc"} => Pipes!IsPrefix(v5.shown, PipInput)
  BY <1>2, <1>5, PipPrefix
<1>7. v1 = "case" => Pipes!IsPrefix(Pipes!Upper(v5.shown), PipInput)
  <2> HAVE v1 = "case"
  <2>1. Pipes!Follows(Pipes!Upper(PipInput), v5.shown, 0)
    BY DEF Pipes!IInv, Pipes!CaseInv
  <2> QED
    BY <1>2, <2>1, PipUpperBack
<1>8. ASSUME v1 \in {"simple", "lswc", "case"}, Pipes!Live = {}, v5.killed = {}, v4[1].pc = "gone"
      PROVE  Len(v5.shown) = n \/ (v1 = "lswc" /\ v4[2].pc = "none")
  <2>1. \A q \in Pipes!Procs : v4[q].pc \in {"none", "gone"}
    BY <1>8 DEF Pipes!Live
  <2>2. CASE v1 = "simple"
    <3>1. v4[m].pc \in Pipes!Places(m)
      BY <1>1, <1>3, <2>2, PipPlaces DEF PipProgs
    <3>2. v4[m].pc = "gone"
      BY <1>3, <2>1, <2>2, <3>1, PipSimplePlaces
    <3>3. v2["out"] = <<>> /\ v4[1].buf = <<>> /\ v4[m].buf = <<>> /\ Pipes!Total(1, m)
      BY <1>8, <2>2, <3>2 DEF Pipes!IInv, Pipes!SimpleInv, Pipes!At
    <3> QED
      BY <1>2, <3>3 DEF Pipes!Total
  <2>3. CASE v1 = "lswc" /\ v4[2].pc = "gone"
    <3>1. v2["out"] = <<>> /\ v4[2].buf = <<>> /\ v4[1].buf = <<>> /\ Pipes!Total(2, 1)
      BY <1>8, <2>3 DEF Pipes!IInv, Pipes!LswcInv, Pipes!At
    <3> QED
      BY <1>2, <3>1 DEF Pipes!Total
  <2>4. CASE v1 = "case"
    BY <1>8, <2>4 DEF Pipes!IInv, Pipes!CaseInv, Pipes!At
  <2> QED
    BY <1>3, <1>8, <2>1, <2>2, <2>3, <2>4
<1>9. v1 = "glob" => \A j \in DOMAIN v5.ran : \A k \in DOMAIN v5.ran[j] : v5.ran[j][k] # "bad"
  BY DEF Pipes!IInv, Pipes!GlobInv
<1>10. v1 \in Pipes!Relays => PipTermInv(v6, v1, v4[m].pc, v4[1].pc) /\ v6.shown \in Seq(Int) /\ v6.script \in Seq(Int)
  BY <1>1, PipTyped, PipTermInvIs, PipTermTypes DEF Pipes!IInv
<1>11. v1 \in Pipes!Relays /\ Pipes!At(m, "gone") => (v6.tty = "orig" \/ v6.why = "atexit") /\ (v6.why = "master" => Len(v6.shown) = v6.wrote)
  <2> HAVE v1 \in Pipes!Relays /\ Pipes!At(m, "gone")
  <2>1. v6.tty = "orig" \/ v6.why = "atexit"
    BY <1>10 DEF PipTermInv, Pipes!At
  <2>2. v6.why = "master" => v6.out = <<>> /\ v6.wrote = Len(v6.out) + Len(v6.shown)
    BY <1>10 DEF PipTermInv
  <2> QED
    <3> DEFINE x == Len(v6.shown)
    <3>1. x \in Nat /\ v6.wrote = v6.wrote
      BY <1>10
    <3>2. v6.why = "master" => v6.wrote = 0 + x
      BY <1>2, <2>2
    <3> HIDE DEF x
    <3>3. v6.why = "master" => v6.wrote = x
      BY <3>1, <3>2
    <3> QED
      BY <2>1, <3>3 DEF x
<1>12. v1 = "script" =>
         /\ Pipes!IsPrefix(v6.script, v6.shown)
         /\ Pipes!At(m, "select") \/ v6.why \in {"stdin", "master"} => v6.script = v6.shown
  BY <1>10 DEF PipTermInv, Pipes!At, Pipes!Relays
<1> QED
  BY <1>4, <1>6, <1>7, <1>8, <1>9, <1>11, <1>12 DEF Pipes!PassedOn, Pipes!At

LEMMA PipStep == Pipes!IInv /\ [Pipes!Next]_(Pipes!vars) => Pipes!IInv'
<1>1. Pipes!IInv /\ UNCHANGED Pipes!vars => Pipes!IInv'
  <2> SUFFICES ASSUME Pipes!IInv, UNCHANGED Pipes!vars PROVE Pipes!IInv'
    OBVIOUS
  <2>1. v1' = v1 /\ v2' = v2 /\ v3' = v3 /\ v4' = v4 /\ v5' = v5 /\ v6' = v6
    BY DEF Pipes!vars
  <2>2. Pipes!TypeOK'
    BY <2>1, PipTyped, PipTypes DEF Pipes!IInv
  <2>3. Pipes!PlaceInv'
    BY <2>1 DEF Pipes!IInv, Pipes!PlaceInv, Pipes!Places, Pipes!Held, Pipes!Procs, Pipes!main, Pipes!Relays, Pipes!Both
  <2>4. (v1 = "sync" => Pipes!SyncInv') /\ (v1 = "glob" => Pipes!GlobInv') /\ (v1 \in Pipes!Relays => Pipes!RelayInv')
    BY <2>1 DEF Pipes!IInv, Pipes!SyncInv, Pipes!GlobInv, Pipes!RelayInv, Pipes!At, Pipes!main
  <2>5. (v1 = "simple" => Pipes!SimpleInv') /\ (v1 = "lswc" => Pipes!LswcInv')
    BY <2>1 DEF Pipes!IInv, Pipes!SimpleInv, Pipes!LswcInv, Pipes!InLine, Pipes!Total, Pipes!At, Pipes!main
  <2>6. v1 = "case" => Pipes!CaseInv'
    BY <2>1 DEF Pipes!IInv, Pipes!CaseInv, Pipes!OneBlock, Pipes!Idle, Pipes!CaseSum, Pipes!At, Pipes!main
  <2> QED
    BY <2>1, <2>2, <2>3, <2>4, <2>5, <2>6 DEF Pipes!IInv, Pipes!Relays
<1> QED
  BY <1>1, PipNext
=============================================================================
