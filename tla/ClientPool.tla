----------------------------- MODULE ClientPool -----------------------------
(***************************************************************************)
(* servercon.c: an echo server that serves a pool of clients from one      *)
(* process, with select.                                                   *)
(*                                                                         *)
(* The clients in echoclients run echoclient.c, which sends a line and     *)
(* waits for its echo.  Any other client sends bytes as it likes.          *)
(* Server and clients run at the same time; a step of the server is one    *)
(* select(), one accept() with add_client, one round of check_client's     *)
(* loop, one read() of Rio_readlineb or one Rio_writen.                    *)
(***************************************************************************)
EXTENDS Integers, Sequences, FiniteSets

CONSTANTS
    Client,
    FD_SETSIZE,         \* slots of the pool, and bits of read_set
    OPEN_MAX,           \* the limit on open descriptors
    RIO_BUFSIZE, MAXLINE,
    MaxSent             \* bound: bytes and connections of one client

listenfd == 3           \* 0, 1 and 2 are the standard streams

ASSUME PoolAssumption ==
    /\ IsFiniteSet(Client)
    /\ FD_SETSIZE \in Nat /\ listenfd < FD_SETSIZE
    /\ OPEN_MAX \in Nat
    /\ RIO_BUFSIZE \in Nat \ {0}
    /\ MAXLINE \in Nat /\ MAXLINE > 1
    /\ MaxSent \in Nat

Fd == (listenfd + 1)..(OPEN_MAX - 1)
Slots == 0..(FD_SETSIZE - 1)
none == -1

VARIABLES
    pc, i,                                      \* main() and check_client
    maxfd, read_set, ready_set, nready, maxi, clientfd,     \* the pool
    line,                                       \* stored by Rio_readlineb
    byte_cnt, received,                         \* received: what read() got
    backlog,                                    \* connections to accept
    fd,                                         \* descriptor of a client
    client,                                     \* where each client is
    sent,                                       \* line of an echo client
    toServer, toClient,                         \* bytes on the way
    budget,
    echoclients,
    usable              \* descriptors that are free when the server starts

pool == <<maxfd, read_set, ready_set, nready, maxi, clientfd>>
world == <<echoclients, usable>>
network == <<backlog, fd, client, sent, toServer, toClient, budget, world>>
vars == <<pc, i, pool, line, byte_cnt, received, network>>

Byte == {"x", "nl"}

\* What Fgets gives an echo client that is to be echoed: a whole line.
Lines == {[j \in 1..k |-> IF j = k THEN "nl" ELSE "x"] : k \in 1..(MAXLINE - 1)}

TypeOK ==
    /\ pc \in {"select", "accept", "check", "read", "echo", "failed", "undefined"}
    /\ i \in Nat
    /\ maxfd \in {listenfd} \cup Fd
    /\ read_set \subseteq {listenfd} \cup Fd /\ ready_set \subseteq read_set \cup Fd
    /\ nready \in Nat
    /\ maxi \in Slots \cup {-1}
    /\ clientfd \in [Slots -> Fd \cup {none}]
    /\ line \in Seq(Byte) /\ Len(line) < MAXLINE
    /\ byte_cnt \in Nat /\ received \in Nat
    /\ backlog \in Seq(Client)
    /\ fd \in [Client -> Fd \cup {none}]
    /\ client \in [Client -> {"out", "idle", "reading", "closed"}]
    /\ sent \in [Client -> Seq(Byte)]
    /\ toServer \in [Client -> Seq(Byte)]
    /\ toClient \in [Client -> Seq(Byte \cup {"nul"})]
    /\ budget \in [Client -> 0..MaxSent]
    /\ echoclients \subseteq Client /\ usable \subseteq Fd

Init ==
    /\ pc = "select" /\ i = 0
    /\ maxfd = listenfd /\ read_set = {listenfd} /\ ready_set = {}
    /\ nready = 0 /\ maxi = -1
    /\ clientfd = [s \in Slots |-> none]
    /\ line = <<>>
    /\ byte_cnt = 0 /\ received = 0
    /\ backlog = <<>>
    /\ fd = [c \in Client |-> none]
    /\ client = [c \in Client |-> "out"]
    /\ sent = [c \in Client |-> <<>>]
    /\ toServer = [c \in Client |-> <<>>]
    /\ toClient = [c \in Client |-> <<>>]
    /\ budget = [c \in Client |-> MaxSent]
    /\ echoclients \in SUBSET Client
    /\ usable \in SUBSET Fd

-----------------------------------------------------------------------------
(* The server.                                                              *)

closed(c) == client[c] = "closed"
readable(f) == IF f = listenfd THEN backlog # <<>>
               ELSE \E c \in Client : fd[c] = f /\ (toServer[c] # <<>> \/ closed(c))

\* Only descriptors up to maxfd are looked at.
Select ==
    /\ pc = "select"
    /\ LET ready == {f \in read_set : f <= maxfd /\ readable(f)} IN
       /\ ready # {}
       /\ ready_set' = ready
       /\ nready' = Cardinality(ready)
       /\ pc' = IF listenfd \in ready THEN "accept" ELSE "check"
    /\ i' = 0
    /\ UNCHANGED <<maxfd, read_set, maxi, clientfd, line, byte_cnt, received, network>>

freeSlots == {s \in Slots : clientfd[s] = none}
freeFds == usable \ {fd[c] : c \in Client}
Least(S) == CHOOSE x \in S : \A y \in S : x <= y
Larger(a, b) == IF a >= b THEN a ELSE b

add_client_KeepsNready(connfd, s) == \* mutant: the listener still counts
    /\ UNCHANGED nready
    /\ clientfd' = [clientfd EXCEPT ![s] = connfd]
    /\ read_set' = read_set \cup {connfd}
    /\ maxfd' = Larger(maxfd, connfd)
    /\ maxi' = Larger(maxi, s)

add_client_LastIndex(connfd, s) == \* mutant: "p->maxi = i"
    /\ nready' = nready - 1
    /\ clientfd' = [clientfd EXCEPT ![s] = connfd]
    /\ read_set' = read_set \cup {connfd}
    /\ maxfd' = Larger(maxfd, connfd)
    /\ maxi' = s

add_client_KeepsMaxfd(connfd, s) == \* mutant: maxfd is not raised
    /\ nready' = nready - 1
    /\ clientfd' = [clientfd EXCEPT ![s] = connfd]
    /\ read_set' = read_set \cup {connfd}
    /\ maxfd' = maxfd
    /\ maxi' = Larger(maxi, s)

add_client(connfd, s) ==
    /\ nready' = nready - 1
    /\ clientfd' = [clientfd EXCEPT ![s] = connfd]
    /\ read_set' = read_set \cup {connfd}
    /\ maxfd' = Larger(maxfd, connfd)
    /\ maxi' = Larger(maxi, s)

Accept ==
    /\ pc = "accept"
    /\ freeFds # {} /\ freeSlots # {}
    /\ LET connfd == Least(freeFds) IN
       /\ connfd < FD_SETSIZE
       /\ fd' = [fd EXCEPT ![Head(backlog)] = connfd]
       /\ add_client(connfd, Least(freeSlots))
    /\ backlog' = Tail(backlog)
    /\ pc' = "check"
    /\ UNCHANGED <<i, ready_set, line, byte_cnt, received, client, sent, toServer, toClient, budget, world>>

\* FD_SET of a descriptor that read_set has no bit for writes into what comes
\* after it: nothing is said of the server from then on.
Overrun ==
    /\ pc = "accept"
    /\ freeFds # {} /\ freeSlots # {}
    /\ Least(freeFds) >= FD_SETSIZE
    /\ pc' = "undefined"
    /\ UNCHANGED <<i, pool, line, byte_cnt, received, network>>

\* Accept has no descriptor left, or add_client no slot.
AcceptFails ==
    /\ pc = "accept"
    /\ freeFds = {} \/ freeSlots = {}
    /\ pc' = "failed"
    /\ UNCHANGED <<i, pool, line, byte_cnt, received, network>>

checking == pc = "check" /\ i <= maxi /\ nready > 0

Skip ==
    /\ checking
    /\ clientfd[i] = none \/ clientfd[i] \notin ready_set
    /\ i' = i + 1
    /\ UNCHANGED <<pc, pool, line, byte_cnt, received, network>>

Serve_Any == \* mutant: FD_ISSET is not asked
    /\ checking
    /\ clientfd[i] > 0
    /\ nready' = nready - 1
    /\ pc' = "read" /\ line' = <<>>
    /\ UNCHANGED <<i, maxfd, read_set, ready_set, maxi, clientfd, byte_cnt, received, network>>

\* "rio = p->clientrio[i]": Rio_readlineb works on a copy of the buffer that
\* add_client has made empty, and what it leaves in the copy is not kept.
Serve ==
    /\ checking
    /\ clientfd[i] > 0 /\ clientfd[i] \in ready_set
    /\ nready' = nready - 1
    /\ pc' = "read" /\ line' = <<>>
    /\ UNCHANGED <<i, maxfd, read_set, ready_set, maxi, clientfd, byte_cnt, received, network>>

EndOfPass ==
    /\ pc = "check" /\ ~(i <= maxi /\ nready > 0)
    /\ pc' = "select"
    /\ UNCHANGED <<i, pool, line, byte_cnt, received, network>>

served(c) == fd[c] = clientfd[i] /\ fd[c] # none

\* The bytes of chunk that still belong to the line: up to its newline or
\* until "n < maxlen" is false.
room == MAXLINE - 1 - Len(line)
ends(chunk, k) == chunk[k] = "nl" \/ k = room \/ k = Len(chunk)
TakeLine(chunk) == \E k \in 1..Len(chunk) :
    /\ ends(chunk, k) /\ \A j \in 1..(k - 1) : ~ends(chunk, j)
    /\ line' = line \o SubSeq(chunk, 1, k)

Complete(s) == s[Len(s)] = "nl" \/ Len(s) = MAXLINE - 1

\* read() brings k bytes.
Read(c, k) ==
    /\ pc = "read" /\ served(c)
    /\ k <= Len(toServer[c])
    /\ TakeLine(SubSeq(toServer[c], 1, k))
    /\ pc' = IF Complete(line') THEN "echo" ELSE "read"
    /\ toServer' = [toServer EXCEPT ![c] = SubSeq(@, k + 1, Len(@))]
    /\ received' = received + k
    /\ UNCHANGED <<i, pool, byte_cnt, backlog, fd, client, sent, toClient, budget, world>>

\* End of file inside a line: what there is of it is echoed.
ReadCut(c) ==
    /\ pc = "read" /\ served(c)
    /\ toServer[c] = <<>> /\ closed(c) /\ line # <<>>
    /\ pc' = "echo"
    /\ UNCHANGED <<i, pool, line, byte_cnt, received, network>>

\* Both ends of a connection are closed; its descriptor is free.
Gone(c) ==
    /\ fd' = [fd EXCEPT ![c] = none]
    /\ client' = [client EXCEPT ![c] = "out"]
    /\ toClient' = [toClient EXCEPT ![c] = <<>>]
    /\ UNCHANGED <<backlog, sent, toServer, budget, world>>

\* "EOF detected, remove descriptor from pool".
Remove(c) ==
    /\ pc = "read" /\ served(c)
    /\ toServer[c] = <<>> /\ closed(c) /\ line = <<>>
    /\ Gone(c)
    /\ read_set' = read_set \ {clientfd[i]}
    /\ clientfd' = [clientfd EXCEPT ![i] = none]
    /\ pc' = "check" /\ i' = i + 1
    /\ UNCHANGED <<maxfd, ready_set, nready, maxi, line, byte_cnt, received>>

Answer_OneMore(s) == \* mutant: n counts the final null byte
    Append(s, "nul")

\* n of Rio_readlineb; the byte after the line is the final null.
Answer(s) == IF s[Len(s)] = "nl" THEN s ELSE Append(s, "nul")

Echo(c) ==
    /\ pc = "echo" /\ served(c)
    /\ byte_cnt' = byte_cnt + Len(Answer(line))
    /\ toClient' = [toClient EXCEPT ![c] = @ \o Answer(line)]
    /\ pc' = "check" /\ i' = i + 1
    /\ UNCHANGED <<pool, line, received, backlog, fd, client, sent, toServer, budget, world>>

\* A client that closed without reading what it was sent resets the
\* connection, and so does one that is written to after it closed: read or
\* write fails, or SIGPIPE comes, and either ends the server.
Reset(c) ==
    /\ pc \in {"read", "echo"} /\ served(c) /\ closed(c)
    /\ pc = "echo" \/ toClient[c] # <<>>
    /\ pc' = "failed"
    /\ UNCHANGED <<i, pool, line, byte_cnt, received, network>>

-----------------------------------------------------------------------------
(* The clients.                                                             *)

server == <<pc, i, pool, line, byte_cnt, received>>

\* Open_clientfd.
Connect(c) ==
    /\ client[c] = "out" /\ budget[c] > 0
    /\ client' = [client EXCEPT ![c] = "idle"]
    /\ backlog' = Append(backlog, c)
    /\ budget' = [budget EXCEPT ![c] = @ - 1]
    /\ UNCHANGED <<server, fd, sent, toServer, toClient, world>>

\* echoclient.c: Fgets and Rio_writen.
SendLine(c) == \E s \in Lines :
    /\ c \in echoclients /\ client[c] = "idle" /\ Len(s) <= budget[c]
    /\ client' = [client EXCEPT ![c] = "reading"]
    /\ sent' = [sent EXCEPT ![c] = s]
    /\ toServer' = [toServer EXCEPT ![c] = @ \o s]
    /\ budget' = [budget EXCEPT ![c] = @ - Len(s)]
    /\ UNCHANGED <<server, backlog, fd, toClient, world>>

\* Rio_readlineb and Fputs.
ReadEcho(c) ==
    /\ c \in echoclients /\ client[c] = "reading"
    /\ \E k \in 1..Len(toClient[c]) :
          /\ toClient[c][k] = "nl" /\ \A j \in 1..(k - 1) : toClient[c][j] # "nl"
          /\ toClient' = [toClient EXCEPT ![c] = SubSeq(@, k + 1, Len(@))]
    /\ client' = [client EXCEPT ![c] = "idle"]
    /\ sent' = [sent EXCEPT ![c] = <<>>]
    /\ UNCHANGED <<server, backlog, fd, toServer, budget, world>>

\* A client of another kind sends a byte.
SendByte(c) == \E b \in Byte :
    /\ c \notin echoclients /\ client[c] = "idle" /\ budget[c] > 0
    /\ toServer' = [toServer EXCEPT ![c] = Append(@, b)]
    /\ budget' = [budget EXCEPT ![c] = @ - 1]
    /\ UNCHANGED <<server, backlog, fd, client, sent, toClient, world>>

CloseEnd(c) ==
    /\ client[c] = "idle"
    /\ client' = [client EXCEPT ![c] = "closed"]
    /\ UNCHANGED <<server, backlog, fd, sent, toServer, toClient, budget, world>>

-----------------------------------------------------------------------------

Server ==
    \/ Select \/ Accept \/ Overrun \/ AcceptFails \/ Skip \/ Serve \/ EndOfPass
    \/ \E c \in Client : \/ \E k \in 1..RIO_BUFSIZE : Read(c, k)
                         \/ ReadCut(c) \/ Remove(c) \/ Echo(c) \/ Reset(c)

Clients == \E c \in Client :
    Connect(c) \/ SendLine(c) \/ ReadEcho(c) \/ SendByte(c) \/ CloseEnd(c)

stopped == pc \in {"failed", "undefined"}

\* The server waits for clients that will not come any more, or has stopped.
Done ==
    /\ stopped \/ \A c \in Client : client[c] = "out"
    /\ UNCHANGED vars

Next == Server \/ Clients \/ Done

Spec == Init /\ [][Next]_vars

\* The kernel runs the server, and an echo client that has its echo.
Fairness == WF_vars(Server) /\ \A c \in Client : WF_vars(ReadEcho(c))

FairSpec == Spec /\ Fairness

-----------------------------------------------------------------------------
(* Properties.                                                              *)

used == {s \in Slots : clientfd[s] # none}

\* The pool and the set given to select agree: a slot is one open connection,
\* and select and check_client look at every one of them.  "Too many clients"
\* never comes: while there is a slot for each bit of read_set, a descriptor
\* without a bit comes first.
PoolAgrees ==
    ~stopped =>
        /\ read_set = {listenfd} \cup {clientfd[s] : s \in used}
        /\ {clientfd[s] : s \in used} = {fd[c] : c \in Client} \ {none}
        /\ \A s, t \in used : clientfd[s] = clientfd[t] => s = t
        /\ \A f \in read_set : f <= maxfd
        /\ \A s \in used : s <= maxi
        /\ pc = "accept" => freeSlots # {}

\* nready counts the ready clients that check_client has still to serve, the
\* listening descriptor only until add_client; so each of them is served in
\* every pass, although the loop stops when nready is 0.
toServe == {s \in Slots : s >= i /\ clientfd[s] \in ready_set}
EveryReadyIsServed ==
    /\ pc = "accept" => nready = Cardinality(toServe) + 1
    /\ pc = "check" => nready = Cardinality(toServe)
    /\ pc = "select" => nready = 0

\* The server never waits for the first byte of a line.
WaitsOnlyInsideLines ==
    \A c \in Client : (pc = "read" /\ served(c) /\ line = <<>>)
                          => toServer[c] # <<>> \/ closed(c)

\* An echo client gets back the line it sent, whole and nothing else, even if
\* read() cuts it and whatever other clients do: it is on its way to the
\* server, in its hands, or on its way back.
\* If all clients are echo clients, not more than there are descriptors with a
\* bit in read_set, they do not bring the server down, and
\* byte_cnt is the total number of bytes received: although check_client
\* drops its copy of the read buffer, no byte of theirs is forgotten.
inHand(c) == IF pc \in {"read", "echo"} /\ served(c) THEN line ELSE <<>>
EchoIsTheLine ==
    /\ \A c \in echoclients : ~stopped =>
         \/ inHand(c) \o toServer[c] = sent[c] /\ toClient[c] = <<>>
         \/ inHand(c) \o toServer[c] = <<>> /\ toClient[c] = sent[c]
    /\ Client = echoclients =>
         /\ pc = "select" => byte_cnt = received
         /\ Cardinality(Client) <= Cardinality({f \in usable : f < FD_SETSIZE}) => ~stopped

\* Each line of an echo client comes back, unless the server stopped or waits
\* for ever for the rest of some other client's line.
EchoReturns ==
    \A c \in Client :
        (c \in echoclients /\ client[c] = "reading")
            ~> (client[c] = "idle" \/ stopped \/ [](pc = "read"))
=============================================================================
