--------------------------- MODULE SequenceNumbers ---------------------------
(***************************************************************************)
(* The servers of unique sequence numbers and their clients:               *)
(* fifo_seqnum_server.c and fifo_seqnum_client.c, where requests arrive in *)
(* a FIFO and each client has a FIFO named after its process ID for the    *)
(* answer; is_seqnum_sv.c and is_seqnum_v2_sv.c with their clients, where  *)
(* each client has a connection.  A client can be killed at any time; its  *)
(* FIFO is then left behind, and its process ID is used again.             *)
(*                                                                         *)
(* seqNum is an int, or a uint32_t printed with %d: it is taken modulo     *)
(* 2^32 (as the build adds ints; the language does not define it), and a   *)
(* printed number stands for its residue.  given, the numbers given out so *)
(* far, and at, how many there were before those of a client, are history. *)
(***************************************************************************)
EXTENDS Integers, Sequences, FiniteSets

CONSTANTS
  Clients,     \* the clients
  Pids,        \* process IDs
  Lens,        \* the lengths they ask for, as given on the command line
  Starts,      \* init-seq-num on the command line of is_seqnum_sv
  Modulus,     \* how many numbers there are: 2^32 in the source
  MaxKills     \* bound: clients killed

VARIABLES
  kind,      \* "fifo", "stream" or "stream_v2"
  sv,        \* the server: where it is, seqNum, the request it works on; given
  cl,        \* each client: where it is, pid, length, the number printed; at
  queue,     \* requests in SERVER_FIFO, or connections to be accepted
  fifos      \* the client FIFOs there are in /tmp

vars == <<kind, sv, cl, queue, fifos>>

Live(c) == cl[c].pc \notin {"new", "done", "killed"}
Killed == {c \in Clients : cl[c].pc = "killed"}
Go(c, to) == cl' = [cl EXCEPT ![c].pc = to]
Ends(c, n) == cl' = [cl EXCEPT ![c].pc = "done", ![c].got = n]
None == -1
Stream == kind \in {"stream", "stream_v2"}

-----------------------------------------------------------------------------
(* FIFOs.  open() waits for the other end.                                 *)

\* mkfifo() and atexit(); a FIFO that exists is used as it is.
FifoCreate(c) ==
  /\ kind = "fifo" /\ cl[c].pc = "new" /\ UNCHANGED <<sv, queue>>
  /\ \E p \in Pids, n \in Lens \ {0} :
       /\ \A d \in Clients : Live(d) => cl[d].pid # p
       /\ cl' = [cl EXCEPT ![c] = [pc |-> "send", pid |-> p, len |-> n, got |-> None, at |-> 0]]
       /\ fifos' = fifos \cup {p}

FifoServerStarts ==
  /\ kind = "fifo" /\ sv.pc = "start" /\ \E c \in Clients : cl[c].pc = "send"
  /\ sv' = [sv EXCEPT !.pc = "read"] /\ UNCHANGED <<cl, queue, fifos>>

FifoSend(c) ==
  /\ kind = "fifo" /\ cl[c].pc = "send" /\ sv.pc # "start"
  /\ queue' = Append(queue, [pid |-> cl[c].pid, len |-> cl[c].len])
  /\ Go(c, "sent") /\ UNCHANGED <<sv, fifos>>

FifoOpenForReading(c) ==
  /\ kind = "fifo" /\ cl[c].pc = "sent" /\ Go(c, "opening") /\ UNCHANGED <<sv, queue, fifos>>

\* read() of a request; then the client's FIFO is opened, for which it must
\* exist, and a process must have it open, or be opening it, for reading.
FifoRead ==
  /\ kind = "fifo" /\ sv.pc = "read" /\ queue # <<>>
  /\ sv' = [sv EXCEPT !.pc = "open", !.req = Head(queue)] /\ queue' = Tail(queue)
  /\ UNCHANGED <<cl, fifos>>

\* A slip: open() with O_NONBLOCK, which fails while nobody reads.
FifoOpenNonblock ==
  /\ kind = "fifo" /\ sv.pc = "open" /\ UNCHANGED <<queue, fifos>>
  /\ LET readers == {c \in Clients : cl[c].pc = "opening" /\ cl[c].pid = sv.req.pid} IN
     \/ readers = {} /\ sv' = [sv EXCEPT !.pc = "read"] /\ UNCHANGED cl
     \/ \E c \in readers : sv' = [sv EXCEPT !.pc = "write"] /\ Go(c, "reading")

FifoOpen ==
  /\ kind = "fifo" /\ sv.pc = "open" /\ UNCHANGED <<queue, fifos>>
  /\ \/ /\ sv.req.pid \notin fifos
        /\ sv' = [sv EXCEPT !.pc = "read"] /\ UNCHANGED cl
     \/ \E c \in Clients :
          /\ cl[c].pc = "opening" /\ cl[c].pid = sv.req.pid
          /\ sv' = [sv EXCEPT !.pc = "write"] /\ Go(c, "reading")

\* The answer, which nobody may be there to read; the numbers are used up.
Answer(readers) ==
  /\ sv' = [sv EXCEPT !.pc = "read", !.seqNum = (@ + sv.req.len) % Modulus, !.given = @ + sv.req.len]
  /\ cl' = [c \in Clients |-> IF c \in readers
                              THEN [cl[c] EXCEPT !.pc = "answered", !.got = sv.seqNum, !.at = sv.given] ELSE cl[c]]

FifoWrite ==
  /\ kind = "fifo" /\ sv.pc = "write" /\ UNCHANGED <<queue, fifos>>
  /\ Answer({c \in Clients : cl[c].pc = "reading" /\ cl[c].pid = sv.req.pid})

\* The client prints the number, exits and removes its FIFO.
FifoDone(c) ==
  /\ kind = "fifo" /\ cl[c].pc = "answered" /\ Ends(c, cl[c].got)
  /\ fifos' = fifos \ {cl[c].pid} /\ UNCHANGED <<sv, queue>>

-----------------------------------------------------------------------------
(* Connections.                                                            *)

\* connect(): queue holds the connections that are not accepted yet.
StreamConnect(c) ==
  /\ Stream /\ cl[c].pc = "new" /\ sv.pc # "start" /\ UNCHANGED <<sv, fifos>>
  /\ \E n \in Lens : cl' = [cl EXCEPT ![c] = [pc |-> "length", pid |-> c, len |-> n, got |-> None, at |-> 0]]
  /\ queue' = Append(queue, c)

StreamListen ==
  /\ Stream /\ sv.pc = "start" /\ sv' = [sv EXCEPT !.pc = "read"]
  /\ UNCHANGED <<cl, queue, fifos>>

\* The length and the newline are written by two calls.
StreamSend(c) ==
  /\ Stream /\ UNCHANGED <<sv, queue, fifos>>
  /\ \/ cl[c].pc = "length" /\ Go(c, "newline")
     \/ cl[c].pc = "newline" /\ Go(c, "reading")

StreamAccept ==
  /\ Stream /\ sv.pc = "read" /\ queue # <<>>
  /\ sv' = [sv EXCEPT !.pc = "line", !.req = [pid |-> Head(queue), len |-> cl[Head(queue)].len]]
  /\ queue' = Tail(queue) /\ UNCHANGED <<cl, fifos>>

\* readLine() and atoi(): a line, or what there is of it when the client is
\* gone; nothing, or a length that is not positive, and the request is skipped.
StreamLine ==
  LET c == sv.req.pid IN
  /\ Stream /\ sv.pc = "line" /\ UNCHANGED <<queue, fifos>>
  /\ \/ /\ cl[c].pc = "reading" \/ (cl[c].pc = "killed" /\ cl[c].got # 0)
        /\ sv.req.len > 0 /\ sv' = [sv EXCEPT !.pc = "write"] /\ UNCHANGED cl
     \/ /\ cl[c].pc = "reading" /\ sv.req.len <= 0
        /\ sv' = [sv EXCEPT !.pc = "read"] /\ Ends(c, None)
     \/ /\ cl[c].pc = "killed" /\ (cl[c].got = 0 \/ sv.req.len <= 0)
        /\ sv' = [sv EXCEPT !.pc = "read"] /\ UNCHANGED cl

StreamWrite ==
  /\ Stream /\ sv.pc = "write" /\ UNCHANGED <<queue, fifos>>
  /\ Answer({c \in {sv.req.pid} : cl[c].pc = "reading"})

StreamDone(c) ==
  /\ Stream /\ cl[c].pc = "answered" /\ Ends(c, cl[c].got)
  /\ UNCHANGED <<sv, queue, fifos>>

-----------------------------------------------------------------------------
\* A client is killed; got says whether it had sent a length.
Kill(c) ==
  /\ Live(c) /\ Cardinality(Killed) < MaxKills
  /\ cl' = [cl EXCEPT ![c].pc = "killed", ![c].got = IF cl[c].pc \in {"length", "send"} THEN 0 ELSE None]
  /\ UNCHANGED <<sv, queue, fifos>>

Init ==
  /\ kind \in {"fifo", "stream", "stream_v2"} /\ queue = <<>> /\ fifos = {}
  /\ \E n \in Starts \cup {0} :
       /\ kind = "fifo" => n = 0
       /\ sv = [pc |-> "start", seqNum |-> n, given |-> n, req |-> [pid |-> None, len |-> 0]]
  /\ cl = [c \in Clients |-> [pc |-> "new", pid |-> None, len |-> 0, got |-> None, at |-> 0]]

fifo_seqnum_client(c) == FifoCreate(c) \/ FifoSend(c) \/ FifoOpenForReading(c) \/ FifoDone(c)
fifo_seqnum_server == FifoServerStarts \/ FifoRead \/ FifoOpen \/ FifoWrite
is_seqnum_cl(c) == kind = "stream" /\ (StreamConnect(c) \/ StreamSend(c) \/ StreamDone(c))
is_seqnum_sv == kind = "stream" /\ (StreamListen \/ StreamAccept \/ StreamLine \/ StreamWrite)
is_seqnum_v2_cl(c) == kind = "stream_v2" /\ (StreamConnect(c) \/ StreamSend(c) \/ StreamDone(c))
is_seqnum_v2_sv == kind = "stream_v2" /\ (StreamListen \/ StreamAccept \/ StreamLine \/ StreamWrite)

Next ==
  /\ UNCHANGED kind
  /\ \/ fifo_seqnum_server \/ is_seqnum_sv \/ is_seqnum_v2_sv
     \/ \E c \in Clients : fifo_seqnum_client(c) \/ is_seqnum_cl(c) \/ is_seqnum_v2_cl(c) \/ Kill(c)

-----------------------------------------------------------------------------
\* The numbers are unique until all of them are used up: when two clients
\* have been given the same number, at least Modulus were given in between;
\* unless a client of the FIFO was killed, whose process ID and FIFO a later
\* client takes over, and with them the answer to a request of another length.
Number(c, i) == (cl[c].got + i) % Modulus
NumbersDisjoint ==
  \A c, d \in Clients :
    /\ c # d /\ cl[c].pc = "done" /\ cl[d].pc = "done"
    /\ cl[c].got # None /\ cl[d].got # None /\ cl[c].at <= cl[d].at
    /\ ~(kind = "fifo" /\ \E k \in Killed : cl[k].pid \in {cl[c].pid, cl[d].pid})
    => \A i \in 0..(cl[c].len - 1), j \in 0..(cl[d].len - 1) :
         Number(c, i) = Number(d, j) => (cl[d].at + j) - (cl[c].at + i) >= Modulus

\* A client that waits for its answer has a request that is still to be
\* answered: the server does not give up on a client that is alive, however
\* slow it is to open its FIFO; unless the client took over a process ID.
AnswerToCome ==
  \A c \in Clients :
    /\ kind = "fifo" /\ cl[c].pc \in {"sent", "opening"}
    /\ \A k \in Killed : cl[k].pid # cl[c].pid
    => \/ \E i \in DOMAIN queue : queue[i].pid = cl[c].pid
       \/ sv.pc = "open" /\ sv.req.pid = cl[c].pid

-----------------------------------------------------------------------------
(* What NumbersDisjoint and AnswerToCome rest on.                          *)

Names == Pids \cup Clients \cup {None}
Servers == [pc : {"start", "read", "open", "line", "write"}, seqNum : Nat, given : Nat, req : [pid : Names, len : Nat]]
ClientStates ==
  [pc : {"new", "send", "sent", "opening", "length", "newline", "reading", "answered", "done", "killed"},
   pid : Names, len : Nat, got : Nat \cup {None}, at : Nat]
TypeOK ==
  /\ kind \in {"fifo", "stream", "stream_v2"} /\ sv \in Servers /\ cl \in [Clients -> ClientStates]
  /\ queue \in Seq(IF kind = "fifo" THEN [pid : Names, len : Nat] ELSE Clients)

\* Nobody with this process ID was killed.
Clean(p) == \A k \in Killed : cl[k].pid # p
Waiting(c) == cl[c].pc \in {"sent", "opening"}
Owns(c, r) == cl[c].pid = r.pid /\ cl[c].len = r.len

\* A process ID, and the FIFO that has it in its name, is one live client's.
OnePerId == \A c \in Clients : Live(c) => cl[c].pid \in fifos /\ \A d \in Clients : Live(d) /\ cl[d].pid = cl[c].pid => d = c
ReadersServed == \A c \in Clients : cl[c].pc = "reading" => sv.pc = "write" /\ sv.req.pid = cl[c].pid
\* A request, in the FIFO or with the server, is that of a client who waits,
\* and the only one with this process ID.
QueueOwned == \A i \in 1..Len(queue) : Clean(queue[i].pid) =>
  /\ \E c \in Clients : Owns(c, queue[i]) /\ Waiting(c)
  /\ \A j \in 1..Len(queue) : queue[j].pid = queue[i].pid => j = i
  /\ sv.pc \in {"open", "write"} => sv.req.pid # queue[i].pid
ServerOwned == sv.pc \in {"open", "write"} /\ Clean(sv.req.pid) =>
  \E c \in Clients : Owns(c, sv.req) /\ (IF sv.pc = "open" THEN Waiting(c) ELSE cl[c].pc = "reading")
Awaited == \A c \in Clients : Waiting(c) /\ Clean(cl[c].pid) =>
  (\E i \in 1..Len(queue) : queue[i].pid = cl[c].pid) \/ (sv.pc = "open" /\ sv.req.pid = cl[c].pid)
FifoInv == kind = "fifo" =>
  sv.pc # "line" /\ OnePerId /\ ReadersServed /\ QueueOwned /\ ServerOwned /\ Awaited

\* A connection is that of a client who has asked for its length.
StreamInv == Stream =>
  /\ \A i \in 1..Len(queue) : cl[queue[i]].pc # "new"
  /\ sv.pc # "open"
  /\ sv.pc \in {"line", "write"} => sv.req.pid \in Clients /\ cl[sv.req.pid].pc # "new" /\ cl[sv.req.pid].len = sv.req.len

\* The numbers a client was given are used up, and given to no other.
Given(c) == cl[c].pc \in {"answered", "done"} /\ cl[c].got # None /\ (kind = "fifo" => Clean(cl[c].pid))
GivenOnce ==
  /\ sv.seqNum = sv.given % Modulus
  /\ \A c \in Clients : Given(c) => cl[c].at + cl[c].len <= sv.given /\ cl[c].got = cl[c].at % Modulus
  /\ \A c, d \in Clients : c # d /\ Given(c) /\ Given(d) => cl[c].at + cl[c].len <= cl[d].at \/ cl[d].at + cl[d].len <= cl[c].at

IInv == TypeOK /\ FifoInv /\ StreamInv /\ GivenOnce
=============================================================================
