-------------------------- MODULE IterativeServers --------------------------
(***************************************************************************)
(* Servers that handle one client after the other: us_xfr_sv.c and         *)
(* us_xfr_v2_sv.c, which copy what each connection brings to standard      *)
(* output; ud_ucase_sv.c, i6d_ucase_sv.c and id_echo_sv.c, which answer    *)
(* datagrams; and their clients.  A datagram is its sender, its number,    *)
(* its length and whether it was converted to upper case.                  *)
(***************************************************************************)
EXTENDS Integers, Sequences, SequencesExt, FiniteSets

CONSTANTS
  Clients,     \* the clients
  Lengths,     \* the lengths of the messages of a client, a sequence
  BUF_SIZE,    \* what a call of recvfrom() takes of a datagram
  MaxFaults    \* bound: datagrams lost or duplicated, clients killed

VARIABLES
  kind,      \* "xfr", "xfr_v2", "ud", "i6d" or "id"
  server,    \* where it is, what it has received
  inbox,     \* connections to be accepted, or the datagrams at the server
  cl,        \* each client: where it is, its messages sent, what it printed
  mail,      \* bytes on each connection, or the datagrams at each client
  out,       \* the server's standard output
  faults     \* what went wrong so far

vars == <<kind, server, inbox, cl, mail, out, faults>>

Datagram(c, j) == [from |-> c, n |-> j, len |-> Lengths[j], upper |-> FALSE]
Cut(d) == [d EXCEPT !.len = IF @ > BUF_SIZE THEN BUF_SIZE ELSE @]
Convert(k, d) == [Cut(d) EXCEPT !.upper = k # "id"]
Fault(f) == Len(faults) < MaxFaults /\ faults' = Append(faults, f)
Udp == kind \in {"i6d", "id"}
Xfr == kind \in {"xfr", "xfr_v2"}

\* bind(): the client of ud_ucase to a pathname of its own.
Start(c) ==
  /\ cl[c].pc = "new" /\ cl' = [cl EXCEPT ![c].pc = "send"]
  /\ inbox' = IF Xfr THEN Append(inbox, c) ELSE inbox
  /\ UNCHANGED <<server, mail, out, faults>>

-----------------------------------------------------------------------------
(* us_xfr.                                                                 *)

XfrAccept ==
  /\ Xfr /\ server.pc = "wait" /\ inbox # <<>>
  /\ server' = [server EXCEPT !.pc = "copy", !.got = Head(inbox)] /\ inbox' = Tail(inbox)
  /\ UNCHANGED <<cl, mail, out, faults>>

\* A slip: the next connection is taken when there is nothing to be read.
XfrCopyImpatient ==
  /\ Xfr /\ server.pc = "copy" /\ UNCHANGED <<inbox, cl, faults>>
  /\ LET c == server.got IN
     \/ /\ mail[c] # <<>> /\ out' = Append(out, Head(mail[c]))
        /\ mail' = [mail EXCEPT ![c] = Tail(@)] /\ UNCHANGED server
     \/ mail[c] = <<>> /\ server' = [server EXCEPT !.pc = "wait"] /\ UNCHANGED <<mail, out>>

\* read() and write() until end of file, then close().
XfrCopy ==
  /\ Xfr /\ server.pc = "copy" /\ UNCHANGED <<inbox, cl, faults>>
  /\ LET c == server.got IN
     \/ /\ mail[c] # <<>> /\ out' = Append(out, Head(mail[c]))
        /\ mail' = [mail EXCEPT ![c] = Tail(@)] /\ UNCHANGED server
     \/ /\ mail[c] = <<>> /\ cl[c].pc \in {"done", "killed"}
        /\ server' = [server EXCEPT !.pc = "wait"] /\ UNCHANGED <<mail, out>>

XfrSend(c) ==
  /\ Xfr /\ cl[c].pc = "send" /\ UNCHANGED <<server, inbox, out, faults>>
  /\ \/ /\ cl[c].sent < Len(Lengths) /\ cl' = [cl EXCEPT ![c].sent = @ + 1]
        /\ mail' = [mail EXCEPT ![c] = Append(@, Datagram(c, cl[c].sent + 1))]
     \/ /\ cl[c].sent = Len(Lengths) /\ cl' = [cl EXCEPT ![c].pc = "done"] /\ UNCHANGED mail

-----------------------------------------------------------------------------
(* Datagrams.                                                              *)

\* sendto() of message j; then the client waits for an answer.
SendMessage(c) ==
  /\ ~Xfr /\ cl[c].pc = "send" /\ UNCHANGED <<server, mail, out>>
  /\ \/ /\ cl[c].sent < Len(Lengths) /\ server.pc # "gone"
        /\ cl' = [cl EXCEPT ![c].pc = "receive", ![c].sent = @ + 1]
        /\ \/ inbox' = Append(inbox, Datagram(c, cl[c].sent + 1)) /\ UNCHANGED faults
           \/ Udp /\ UNCHANGED inbox /\ Fault("lost")
           \/ /\ Udp /\ Fault("duplicate")
              /\ inbox' = inbox \o <<Datagram(c, cl[c].sent + 1), Datagram(c, cl[c].sent + 1)>>
     \/ /\ cl[c].sent < Len(Lengths) /\ server.pc = "gone" /\ kind = "ud"   \* fatal("sendto")
        /\ cl' = [cl EXCEPT ![c].pc = "failed"] /\ UNCHANGED <<inbox, faults>>
     \/ cl[c].sent = Len(Lengths) /\ cl' = [cl EXCEPT ![c].pc = "done"] /\ UNCHANGED <<inbox, faults>>

ReceiveAnswer(c) ==
  /\ ~Xfr /\ cl[c].pc = "receive" /\ mail[c] # <<>>
  /\ cl' = [cl EXCEPT ![c].pc = "send", ![c].got = Append(@, Cut(Head(mail[c])))]
  /\ mail' = [mail EXCEPT ![c] = Tail(@)] /\ UNCHANGED <<server, inbox, out, faults>>

\* recvfrom(): any datagram may overtake another on its way to a server.
Receive ==
  /\ ~Xfr /\ server.pc = "wait" /\ UNCHANGED <<cl, mail, out, faults>>
  /\ \E i \in DOMAIN inbox :
       /\ Udp \/ i = 1
       /\ server' = [server EXCEPT !.pc = "answer", !.got = inbox[i].from, !.msg = Convert(kind, inbox[i])]
       /\ inbox' = RemoveAt(inbox, i)

\* sendto(): to a pathname nobody is bound to any more it fails, which ends
\* ud_ucase_sv; an answer to a port that is closed is lost.
Reply ==
  /\ ~Xfr /\ server.pc = "answer" /\ UNCHANGED <<inbox, cl, out, faults>>
  /\ IF cl[server.got].pc \in {"done", "killed"}
     THEN /\ server' = [server EXCEPT !.pc = IF kind = "ud" THEN "gone" ELSE "wait"]
          /\ UNCHANGED mail
     ELSE /\ server' = [server EXCEPT !.pc = "wait"]
          /\ mail' = [mail EXCEPT ![server.got] = Append(@, server.msg)]

us_xfr_sv == kind = "xfr" /\ (XfrAccept \/ XfrCopy)
us_xfr_cl(c) == kind = "xfr" /\ (Start(c) \/ XfrSend(c))
us_xfr_v2_sv == kind = "xfr_v2" /\ (XfrAccept \/ XfrCopy)
us_xfr_v2_cl(c) == kind = "xfr_v2" /\ (Start(c) \/ XfrSend(c))
ud_ucase_sv == kind = "ud" /\ (Receive \/ Reply)
ud_ucase_cl(c) == kind = "ud" /\ (Start(c) \/ SendMessage(c) \/ ReceiveAnswer(c))
i6d_ucase_sv == kind = "i6d" /\ (Receive \/ Reply)
i6d_ucase_cl(c) == kind = "i6d" /\ (Start(c) \/ SendMessage(c) \/ ReceiveAnswer(c))
id_echo_sv == kind = "id" /\ (Receive \/ Reply)
id_echo_cl(c) == kind = "id" /\ (Start(c) \/ SendMessage(c) \/ ReceiveAnswer(c))

Kill(c) ==
  /\ cl[c].pc \in {"send", "receive"} /\ Fault("killed") /\ cl' = [cl EXCEPT ![c].pc = "killed"]
  /\ UNCHANGED <<server, inbox, mail, out>>

Init ==
  /\ kind \in {"xfr", "xfr_v2", "ud", "i6d", "id"} /\ inbox = <<>> /\ out = <<>> /\ faults = <<>>
  /\ server = [pc |-> "wait", got |-> 0, msg |-> <<>>]
  /\ cl = [c \in Clients |-> [pc |-> "new", sent |-> 0, got |-> <<>>]]
  /\ mail = [c \in Clients |-> <<>>]

Next ==
  /\ UNCHANGED kind
  /\ \/ us_xfr_sv \/ us_xfr_v2_sv \/ ud_ucase_sv \/ i6d_ucase_sv \/ id_echo_sv
     \/ \E c \in Clients :
          \/ us_xfr_cl(c) \/ us_xfr_v2_cl(c) \/ ud_ucase_cl(c) \/ i6d_ucase_cl(c) \/ id_echo_cl(c)
          \/ Kill(c)

-----------------------------------------------------------------------------
\* The j-th answer a client prints is the j-th message it sent, converted, and
\* cut to the size of the buffers; unless the network delivered one twice:
\* nothing in an answer says which message it belongs to.  A server of
\* datagrams ends only if a client of ud_ucase was killed.
AnswersMatch ==
  /\ (\A i \in DOMAIN faults : faults[i] # "duplicate") =>
       \A c \in Clients : \A j \in DOMAIN cl[c].got : cl[c].got[j] = Convert(kind, Datagram(c, j))
  /\ server.pc = "gone" => kind = "ud" /\ \E c \in Clients : cl[c].pc = "killed"

\* The server of us_xfr writes the clients' data one after the other: a
\* client's data is complete when another's begins, and in order.
OneAfterTheOther ==
  Xfr =>
    \A i \in 1..(Len(out) - 1) :
      IF out[i].from = out[i + 1].from THEN out[i + 1].n = out[i].n + 1
      ELSE /\ out[i].n = Len(Lengths) \/ cl[out[i].from].pc = "killed"
           /\ out[i + 1].n = 1
-----------------------------------------------------------------------------
(* What AnswersMatch and OneAfterTheOther rest on.                         *)

Datagrams == [from : Clients, n : 1..Len(Lengths), len : Nat, upper : BOOLEAN]
Clear == \A i \in DOMAIN faults : faults[i] # "duplicate"
Outstanding(c) == cl[c].pc \in {"receive", "killed"}
Finished(d) == d.n = Len(Lengths) \/ cl[d.from].pc = "killed"
Copied(c) == cl[c].sent - Len(mail[c])

TypeOK ==
  /\ kind \in {"xfr", "xfr_v2", "ud", "i6d", "id"}
  /\ DOMAIN server = {"pc", "got", "msg"}
  /\ server.pc \in (IF Xfr THEN {"wait", "copy"} ELSE {"wait", "answer", "gone"})
  /\ (server.pc \in {"copy", "answer"} => server.got \in Clients)
  /\ (server.pc = "answer" => server.msg \in Datagrams)
  /\ inbox \in Seq(IF Xfr THEN Clients ELSE Datagrams)
  /\ cl \in [Clients -> [pc : {"new", "send", "receive", "done", "failed", "killed"},
                          sent : 0..Len(Lengths), got : Seq(Datagrams)]]
  /\ mail \in [Clients -> Seq(Datagrams)]
  /\ out \in Seq(Datagrams)
  /\ faults \in Seq({"lost", "duplicate", "killed"})

\* While nothing was delivered twice, a client has one message on its way at
\* most, the last it sent: at the server, in its hands, or answered.
OneOnItsWay ==
  ~Xfr /\ Clear =>
    /\ \A i \in DOMAIN inbox :
         /\ Outstanding(inbox[i].from) /\ mail[inbox[i].from] = <<>>
         /\ inbox[i] = Datagram(inbox[i].from, cl[inbox[i].from].sent)
    /\ \A i, k \in DOMAIN inbox : inbox[i].from = inbox[k].from => i = k
    /\ server.pc = "answer" =>
         /\ Outstanding(server.got) /\ mail[server.got] = <<>>
         /\ server.msg = Convert(kind, Datagram(server.got, cl[server.got].sent))
         /\ \A i \in DOMAIN inbox : inbox[i].from # server.got
    /\ \A c \in Clients : mail[c] # <<>> =>
         Outstanding(c) /\ mail[c] = <<Convert(kind, Datagram(c, cl[c].sent))>>

\* A client that is about to send has printed the answers to all it sent.
AllAnswered ==
  ~Xfr /\ Clear => \A c \in Clients :
    /\ cl[c].pc \in {"new", "send"} => Len(cl[c].got) = cl[c].sent
    /\ cl[c].pc = "receive" => Len(cl[c].got) + 1 = cl[c].sent

\* What a connection of us_xfr brings are the client's last messages; one
\* that was not accepted yet brings them all, and is there once.
Connections ==
  Xfr =>
    /\ \A c \in Clients :
         /\ Len(mail[c]) <= cl[c].sent
         /\ \A k \in DOMAIN mail[c] : mail[c][k] = Datagram(c, Copied(c) + k)
         /\ cl[c].pc = "done" => cl[c].sent = Len(Lengths)
         /\ cl[c].pc = "new" => cl[c].sent = 0
    /\ \A i \in DOMAIN inbox :
         /\ cl[inbox[i]].pc # "new" /\ Copied(inbox[i]) = 0
         /\ \A k \in DOMAIN inbox : inbox[k] = inbox[i] => k = i
         /\ \A k \in DOMAIN out : out[k].from # inbox[i]
    /\ \A k \in DOMAIN out : cl[out[k].from].pc # "new"

\* The end of the server's output is of the client whose connection it reads,
\* or of one that is finished.
EndOfOutput ==
  Xfr =>
    /\ server.pc = "wait" /\ out # <<>> => Finished(out[Len(out)])
    /\ server.pc = "copy" =>
         LET c == server.got IN
         /\ cl[c].pc # "new" /\ \A i \in DOMAIN inbox : inbox[i] # c
         /\ IF Copied(c) = 0
            THEN (\A k \in DOMAIN out : out[k].from # c) /\ (out # <<>> => Finished(out[Len(out)]))
            ELSE out # <<>> /\ out[Len(out)] = Datagram(c, Copied(c))

IInv ==
  TypeOK /\ (kind = "ud" => Clear) /\ OneOnItsWay /\ AllAnswered /\ Connections /\ EndOfOutput
  /\ AnswersMatch /\ OneAfterTheOther
=============================================================================
