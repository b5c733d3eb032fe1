--------------------------- MODULE ForkingServers ---------------------------
(***************************************************************************)
(* Servers that fork a child for each client: is_echo_sv.c,                *)
(* is_echo_v2_sv.c and the client is_echo_cl.c, over a connection;         *)
(* svmsg_file_server.c and svmsg_file_client.c, over System V message      *)
(* queues.  Data is the numbers 1..Size, what the client sends or what the *)
(* file holds.                                                             *)
(***************************************************************************)
EXTENDS Integers, Sequences, SequencesExt, FiniteSets

CONSTANTS
  Clients,     \* the clients
  Size,        \* how much there is to transfer
  QueueMax,    \* messages a client's queue can hold
  MaxFaults    \* bound: calls that fail, and clients killed

VARIABLES
  kind,      \* "echo", "echo_v2" or "file"
  parent,    \* the server: where it is, its client, the requests that wait
  child,     \* for each client: where the child is and what it has read
  chld,      \* SIGCHLD is pending
  net,       \* each connection: up, down, eof (nothing more is sent up) and
             \* who holds the server's end; for a file, down is the queue
  cl         \* the client: how much it sent, what it printed, where it is

vars == <<kind, parent, child, chld, net, cl>>

Echo == kind \in {"echo", "echo_v2"}
Data == [i \in 1..Size |-> i]
Faulty == parent.faults
Fault == parent.faults < MaxFaults
END == 0
FAILURE == -1

\* inetConnect(), or msgget() and msgsnd() of the request.
Ask(c) ==
  /\ cl[c].pc = "new" /\ parent.pc # "gone"
  /\ parent' = [parent EXCEPT !.queue = Append(@, c)]
  /\ cl' = [cl EXCEPT ![c].pc = IF Echo THEN "send" ELSE "wait"]
  /\ net' = [net EXCEPT ![c].held = {"queue"}] /\ UNCHANGED <<child, chld>>

-----------------------------------------------------------------------------
(* The parent: main(), and the handler of SIGCHLD.                         *)

Accept ==
  /\ parent.pc = "wait" /\ parent.queue # <<>>
  /\ LET c == Head(parent.queue) IN
       /\ parent' = [parent EXCEPT !.pc = "fork", !.client = c, !.queue = Tail(@)]
       /\ net' = IF Echo THEN [net EXCEPT ![c].held = {"parent"}] ELSE net
  /\ UNCHANGED <<child, chld, cl>>

\* accept() or msgrcv() fails: is_echo_v2_sv goes on, the others end, and the
\* file server removes its queue with the requests in it.
AcceptFails ==
  /\ parent.pc = "wait" /\ Fault
  /\ parent' = [parent EXCEPT !.faults = @ + 1, !.pc = IF kind = "echo_v2" THEN "wait" ELSE "gone"]
  /\ net' = IF kind = "echo" THEN [c \in Clients |-> [net[c] EXCEPT !.held = @ \ {"queue"}]] ELSE net
  /\ UNCHANGED <<child, chld, cl>>

Fork ==
  /\ parent.pc = "fork" /\ parent' = [parent EXCEPT !.pc = "close"]
  /\ child' = [child EXCEPT ![parent.client] = [pc |-> "read", buf |-> 0, at |-> 0]]
  /\ net' = IF Echo THEN [net EXCEPT ![parent.client].held = @ \cup {"child"}] ELSE net
  /\ UNCHANGED <<chld, cl>>

ForkFails ==
  /\ parent.pc = "fork" /\ Fault
  /\ parent' = [parent EXCEPT !.faults = @ + 1, !.pc = IF Echo THEN "close" ELSE "gone"]
  /\ UNCHANGED <<child, chld, net, cl>>

CloseConnected ==
  /\ parent.pc = "close" /\ parent' = [parent EXCEPT !.pc = "wait"]
  /\ net' = [net EXCEPT ![parent.client].held = @ \ {"parent"}]
  /\ UNCHANGED <<child, chld, cl>>

\* A slip: waitpid() is called once, though signals do not queue.
ReapOne ==
  /\ chld /\ parent.pc # "gone" /\ chld' = FALSE
  /\ \E z \in {c \in Clients : child[c].pc = "zombie"} : child' = [child EXCEPT ![z].pc = "reaped"]
  /\ UNCHANGED <<parent, net, cl>>

GrimReaper ==
  /\ chld /\ parent.pc # "gone" /\ chld' = FALSE
  /\ child' = [c \in Clients |-> IF child[c].pc = "zombie" THEN [child[c] EXCEPT !.pc = "reaped"]
                                 ELSE child[c]]
  /\ UNCHANGED <<parent, net, cl>>

-----------------------------------------------------------------------------
(* The children: handleRequest() and serveRequest().                       *)

Exits(c) ==
  /\ child' = [child EXCEPT ![c].pc = "zombie"] /\ chld' = TRUE
  /\ UNCHANGED cl

\* Echo: read() until end of file, and write() of what was read.
EchoRead(c) ==
  /\ Echo /\ child[c].pc = "read" /\ UNCHANGED parent
  /\ \/ /\ net[c].up # <<>> /\ net' = [net EXCEPT ![c].up = Tail(@)]
        /\ child' = [child EXCEPT ![c].pc = "write", ![c].buf = Head(net[c].up)]
        /\ UNCHANGED <<chld, cl>>
     \/ net[c].up = <<>> /\ net[c].eof /\ net' = [net EXCEPT ![c].held = @ \ {"child"}] /\ Exits(c)

EchoWrite(c) ==
  /\ Echo /\ child[c].pc = "write"
  /\ \/ /\ net' = [net EXCEPT ![c].down = Append(@, child[c].buf)]
        /\ child' = [child EXCEPT ![c].pc = "read"] /\ UNCHANGED <<parent, chld, cl>>
     \/ /\ Fault /\ parent' = [parent EXCEPT !.faults = @ + 1]
        /\ net' = [net EXCEPT ![c].held = @ \ {"child"}] /\ Exits(c)

\* File: open() fails, or the file is read block by block; a read() that
\* fails looks like its end.
FileOpen(c) ==
  /\ kind = "file" /\ child[c].pc = "read" /\ child[c].at = 0
  /\ Fault /\ parent' = [parent EXCEPT !.faults = @ + 1]
  /\ net' = [net EXCEPT ![c].down = Append(@, FAILURE)] /\ Exits(c)

FileRead(c) ==
  /\ kind = "file" /\ child[c].pc = "read" /\ UNCHANGED <<chld, net, cl>>
  /\ \/ child[c].at < Size /\ child' = [child EXCEPT ![c].pc = "write", ![c].at = @ + 1] /\ UNCHANGED parent
     \/ child[c].at = Size /\ child' = [child EXCEPT ![c].pc = "end"] /\ UNCHANGED parent
     \/ /\ child[c].at < Size /\ child' = [child EXCEPT ![c].pc = "end"]
        /\ Fault /\ parent' = [parent EXCEPT !.faults = @ + 1]

\* msgsnd() waits while the queue is full, and fails once it is removed; the
\* last message is sent in any case.
FileSend(c) ==
  /\ kind = "file" /\ UNCHANGED <<parent, cl>>
  /\ \/ /\ child[c].pc = "write" /\ UNCHANGED chld
        /\ \/ /\ net[c].held # {} /\ Len(net[c].down) < QueueMax
              /\ net' = [net EXCEPT ![c].down = Append(@, child[c].at)]
              /\ child' = [child EXCEPT ![c].pc = "read"]
           \/ net[c].held = {} /\ child' = [child EXCEPT ![c].pc = "end"] /\ UNCHANGED net
     \/ /\ child[c].pc = "end" /\ child' = [child EXCEPT ![c].pc = "zombie"] /\ chld' = TRUE
        /\ \/ /\ net[c].held # {} /\ Len(net[c].down) < QueueMax
              /\ net' = [net EXCEPT ![c].down = Append(@, END)]
           \/ net[c].held = {} /\ UNCHANGED net

-----------------------------------------------------------------------------
(* The clients.                                                            *)

\* is_echo_cl, the parent: its input is sent, then the writing half is shut
\* down, as the child has the socket open too.
EchoSend(c) ==
  /\ cl[c].pc = "send" /\ UNCHANGED <<parent, child, chld>>
  /\ \/ /\ cl[c].sent < Size /\ cl' = [cl EXCEPT ![c].sent = @ + 1]
        /\ net' = [net EXCEPT ![c].up = Append(@, cl[c].sent + 1)]
     \/ /\ cl[c].sent = Size /\ cl' = [cl EXCEPT ![c].pc = "wait"]
        /\ net' = [net EXCEPT ![c].eof = TRUE]

\* is_echo_cl, the child: what arrives is printed, until end of file.
EchoPrint(c) ==
  /\ Echo /\ cl[c].pc \in {"send", "wait"} /\ UNCHANGED <<parent, child, chld>>
  /\ \/ /\ net[c].down # <<>> /\ net' = [net EXCEPT ![c].down = Tail(@)]
        /\ cl' = [cl EXCEPT ![c].got = Append(@, Head(net[c].down))]
     \/ /\ net[c].down = <<>> /\ net[c].held = {}
        /\ cl' = [cl EXCEPT ![c].pc = "done"] /\ UNCHANGED net

\* svmsg_file_client: messages until the last; then the queue is removed.
FileReceive(c) ==
  /\ kind = "file" /\ cl[c].pc = "wait" /\ net[c].down # <<>> /\ UNCHANGED <<parent, child, chld>>
  /\ LET m == Head(net[c].down) IN
     IF m \in {END, FAILURE}
     THEN /\ cl' = [cl EXCEPT ![c].pc = IF m = END THEN "done" ELSE "failed"]
          /\ net' = [net EXCEPT ![c].down = <<>>, ![c].held = {}]
     ELSE /\ cl' = [cl EXCEPT ![c].got = Append(@, m)]
          /\ net' = [net EXCEPT ![c].down = Tail(@)]

\* A client that is killed leaves its queue behind.
KillFileClient(c) ==
  /\ kind = "file" /\ cl[c].pc = "wait" /\ Fault
  /\ parent' = [parent EXCEPT !.faults = @ + 1] /\ cl' = [cl EXCEPT ![c].pc = "killed"]
  /\ UNCHANGED <<child, chld, net>>

Init ==
  /\ kind \in {"echo", "echo_v2", "file"} /\ chld = FALSE
  /\ parent = [pc |-> "wait", client |-> 0, queue |-> <<>>, faults |-> 0]
  /\ child = [c \in Clients |-> [pc |-> "none", buf |-> 0, at |-> 0]]
  /\ net = [c \in Clients |-> [up |-> <<>>, down |-> <<>>, eof |-> FALSE, held |-> {}]]
  /\ cl = [c \in Clients |-> [pc |-> "new", sent |-> 0, got |-> <<>>]]

Next ==
  /\ UNCHANGED kind
  /\ \/ Accept \/ AcceptFails \/ Fork \/ ForkFails \/ CloseConnected \/ GrimReaper
     \/ \E c \in Clients :
          \/ Ask(c) \/ EchoRead(c) \/ EchoWrite(c) \/ FileOpen(c) \/ FileRead(c) \/ FileSend(c)
          \/ EchoSend(c) \/ EchoPrint(c) \/ FileReceive(c) \/ KillFileClient(c)

-----------------------------------------------------------------------------
\* While the server waits with no SIGCHLD pending, nothing of the clients it
\* has served is left: no zombie, though several children may have ended
\* for one signal, and no descriptor that would keep a client from its end of
\* file.
NothingLeftBehind ==
  parent.pc = "wait" /\ ~chld =>
    \A c \in Clients :
      /\ child[c].pc # "zombie"
      /\ Echo /\ child[c].pc = "reaped" => net[c].held = {}

\* A client that ends as if all were well, without a call that failed
\* anywhere, has received everything, in order; while it runs it has
\* received a beginning of it.
TransfersComplete ==
  \A c \in Clients :
    /\ IsPrefix(cl[c].got, Data)
    /\ cl[c].pc = "done" /\ Faulty = 0 => cl[c].got = Data
-----------------------------------------------------------------------------
(* What NothingLeftBehind and TransfersComplete rest on.                   *)

Dead(c) == child[c].pc \in {"zombie", "reaped"}

Parents == [pc : {"wait", "fork", "close", "gone"}, client : Clients \cup {0}, queue : Seq(Clients), faults : Nat]
Children == [pc : {"none", "read", "write", "end", "zombie", "reaped"}, buf : Int, at : 0..Size]
Connections == [up : Seq(Int), down : Seq(Int), eof : BOOLEAN, held : SUBSET {"queue", "parent", "child"}]
Users == [pc : {"new", "send", "wait", "done", "failed", "killed"}, sent : 0..Size, got : Seq(Int)]

TypeOK ==
  /\ kind \in {"echo", "echo_v2", "file"} /\ chld \in BOOLEAN
  /\ parent \in Parents /\ (parent.pc \in {"fork", "close"} => parent.client \in Clients)
  /\ child \in [Clients -> Children] /\ net \in [Clients -> Connections] /\ cl \in [Clients -> Users]

\* A client has asked once, and has no child before it is its turn.
ToBeServed(c) == cl[c].pc # "new" /\ child[c].pc = "none"
InLine ==
  /\ \A i \in DOMAIN parent.queue :
       /\ ToBeServed(parent.queue[i])
       /\ \A k \in DOMAIN parent.queue : parent.queue[k] = parent.queue[i] => k = i
  /\ parent.pc = "fork" =>
       ToBeServed(parent.client) /\ \A i \in DOMAIN parent.queue : parent.queue[i] # parent.client
  /\ \A c \in Clients : cl[c].pc = "new" => child[c].pc = "none"

\* Who holds a connection: a child while it lives, the parent while it
\* serves that client.  Without a fault nobody lets go of it before a child
\* has it.
HeldBy(c) ==
  /\ "child" \in net[c].held <=> child[c].pc \in {"read", "write"}
  /\ "parent" \in net[c].held => parent.pc \in {"fork", "close"} /\ parent.client = c
  /\ "queue" \in net[c].held => child[c].pc = "none" /\ ~(parent.pc = "fork" /\ parent.client = c)
  /\ cl[c].pc # "new" /\ child[c].pc = "none" /\ parent.faults = 0 => net[c].held # {}
  /\ parent.pc = "close" /\ parent.client = c /\ child[c].pc = "none" => parent.faults > 0

\* What is on its way to the server and back, in order.
Got(c) == Len(cl[c].got)
Down(c) == Len(net[c].down)
Up(c) == Len(net[c].up)
SentAfter(c, n) == cl[c].sent = n + Up(c) /\ \A i \in 1..Up(c) : net[c].up[i] = n + i
EchoTransfer(c) ==
  /\ \A i \in 1..Down(c) : net[c].down[i] = Got(c) + i
  /\ Got(c) + Down(c) <= Size /\ (net[c].eof => cl[c].sent = Size) /\ child[c].pc # "end"
  /\ child[c].pc = "write" => child[c].buf = Got(c) + Down(c) + 1 /\ SentAfter(c, Got(c) + Down(c) + 1)
  /\ child[c].pc \in {"none", "read"} => SentAfter(c, Got(c) + Down(c))
  /\ Dead(c) /\ parent.faults = 0 => Got(c) + Down(c) = Size

\* Blocks of the file and, from a child that has ended, the last message.
FileTransfer(c) ==
  /\ \A i \in 1..Down(c) :
       \/ net[c].down[i] = Got(c) + i /\ Got(c) + i <= Size
       \/ /\ i = Down(c) /\ net[c].down[i] \in {END, FAILURE} /\ Dead(c)
          /\ net[c].down[i] = END /\ parent.faults = 0 => Got(c) + i = Size + 1
  /\ child[c].pc = "none" => Got(c) + Down(c) = 0
  /\ child[c].pc = "read" => Got(c) + Down(c) = child[c].at
  /\ child[c].pc = "write" => Got(c) + Down(c) + 1 = child[c].at
  /\ child[c].pc = "end" /\ parent.faults = 0 => Got(c) + Down(c) = Size
  /\ cl[c].pc # "new" /\ ~Dead(c) => "queue" \in net[c].held

Transfer(c) ==
  /\ Got(c) <= Size /\ \A i \in 1..Got(c) : cl[c].got[i] = i
  /\ cl[c].pc = "done" /\ parent.faults = 0 => Got(c) = Size
  /\ Echo => EchoTransfer(c)
  /\ kind = "file" => FileTransfer(c)

IInv ==
  /\ TypeOK /\ InLine
  /\ \A c \in Clients : child[c].pc = "zombie" => chld
  /\ Echo => \A c \in Clients : HeldBy(c)
  /\ \A c \in Clients : Transfer(c)
=============================================================================
