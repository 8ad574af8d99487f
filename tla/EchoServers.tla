---------------------------- MODULE EchoServers ----------------------------
(***************************************************************************)
(* Three echo servers that differ in who serves a connection:              *)
(*   "iterative"  echoserver.c    main() itself, one client at a time      *)
(*   "fork"       echofork.c      a child process for each connection      *)
(*   "thread"     echoservert.c   a detached thread for each connection    *)
(* What is hard is the descriptor on its way from accept() to the worker:  *)
(* a child has a copy of the parent's table, a thread reads the number     *)
(* from a block that main() allocated, and each has to be closed, freed    *)
(* or reaped by exactly one of them.                                       *)
(*                                                                         *)
(* Workers are numbered in the order of their creation.  A step is one     *)
(* system call or one access to memory that the processes share.           *)
(***************************************************************************)
EXTENDS Naturals, FiniteSets

CONSTANTS
    Client,
    Free, Listener,     \* what an entry of a descriptor table may be besides
    OPEN_MAX,           \* no limit on open descriptors is above this
    MaxLines            \* bound: lines that one client sends

ASSUME EchoAssumption ==
    /\ IsFiniteSet(Client) /\ Free \notin Client /\ Listener \notin Client
    /\ Free # Listener
    /\ OPEN_MAX \in Nat /\ MaxLines \in Nat

main == 0               \* the server's first process
Worker == 1..Cardinality(Client)
Process == {main} \cup Worker
Fd == 3..(OPEN_MAX - 1)             \* 0, 1 and 2 are the standard streams
Block == 1..(Cardinality(Client) + 1)

VARIABLES
    program, limit,     \* limit: of open descriptors
    at,                 \* where main() is
    connfd,             \* its variable connfd, or connfdp in "thread"
    made,               \* workers created so far
    worker,             \* each one: where it is, its connfd, its argument
    table,              \* descriptor tables
    heap,               \* blocks of malloc: allocated or not, and contents
    sigchld, handler,   \* SIGCHLD pending; its handler is running
    conn                \* each client's connection

server == <<at, connfd, made, sigchld, handler>>
world == <<program, limit>>
vars == <<world, server, worker, table, heap, conn>>

TypeOK ==
    /\ program \in {"iterative", "fork", "thread"} /\ limit \in 5..OPEN_MAX
    /\ at \in {"start", "malloc", "accept", "handover", "busy", "close", "down"}
    /\ connfd \in Fd \cup Block \cup {0}
    /\ made \in {0} \cup Worker
    /\ worker \in [Worker ->
         [at : {"none", "closelisten", "lookup", "fetch", "free",
                "read", "write", "close", "exit", "zombie", "gone"},
          fd : Fd \cup {0}, arg : Block \cup {0}]]
    /\ table \in [Process -> [Fd -> Client \cup {Free, Listener}]]
    /\ heap \in [Block -> [live : BOOLEAN, fd : Fd \cup {0}]]
    /\ sigchld \in BOOLEAN /\ handler \in BOOLEAN
    /\ conn \in [Client ->
         [at : {"away", "waiting", "accepted"}, end : {"open", "shut", "reset"},
          sent : 0..MaxLines, read : 0..MaxLines, echoed : 0..MaxLines]]

over(how) == [at |-> how, fd |-> 0, arg |-> 0]
unallocated == [live |-> FALSE, fd |-> 0]
emptyTable == [f \in Fd |-> Free]

Init ==
    /\ program \in {"iterative", "fork", "thread"} /\ limit \in 5..OPEN_MAX
    /\ at = "start" /\ connfd = 0 /\ made = 0
    /\ worker = [w \in Worker |-> over("none")]
    /\ table = [p \in Process |-> emptyTable]
    /\ heap = [b \in Block |-> unallocated]
    /\ sigchld = FALSE /\ handler = FALSE
    /\ conn = [c \in Client |-> [at |-> "away", end |-> "open", sent |-> 0, read |-> 0, echoed |-> 0]]

-----------------------------------------------------------------------------
(* Descriptors and the ways to end.                                         *)

freeFds(p) == {f \in Fd : f < limit /\ table[p][f] = Free}
Least(S) == CHOOSE x \in S : \A y \in S : x <= y
holds(p, object) == \E f \in Fd : table[p][f] = object
held(c) == \E p \in Process : holds(p, c)

\* The process whose table a worker uses.
home(w) == IF program = "fork" THEN w ELSE main
peer(w) == table[home(w)][worker[w].fd]

live(w) == worker[w].at \notin {"none", "zombie", "gone"}

\* exit() of the server, or a signal that ends it: with its threads, but
\* not with its child processes.
ServerEnds ==
    /\ at' = "down" /\ connfd' = 0
    /\ table' = [table EXCEPT ![main] = emptyTable]
    /\ worker' = [w \in Worker |->
                   IF worker[w].at = "none" \/ (program = "fork" /\ live(w)) THEN worker[w]
                   ELSE over("gone")]
    /\ heap' = [b \in Block |-> unallocated]
    /\ sigchld' = FALSE /\ handler' = FALSE
    /\ UNCHANGED <<world, made, conn>>

\* exit() of a child.
ChildEnds(w) ==
    /\ table' = [table EXCEPT ![w] = emptyTable]
    /\ worker' = [worker EXCEPT ![w] = over(IF at = "down" THEN "gone" ELSE "zombie")]
    /\ sigchld' = (at # "down")
    /\ UNCHANGED <<world, at, connfd, made, handler, heap, conn>>

\* unix_error or dns_error in a worker.
WorkerFails(w) == IF program = "fork" THEN ChildEnds(w) ELSE ServerEnds

-----------------------------------------------------------------------------
(* main(): it runs while no handler of SIGCHLD does.                        *)

mainIs(here) == at = here /\ ~handler
loop == IF program = "thread" THEN "malloc" ELSE "accept"

Open_listenfd ==
    /\ mainIs("start")
    /\ table' = [table EXCEPT ![main][3] = Listener]
    /\ at' = loop
    /\ UNCHANGED <<world, connfd, made, sigchld, handler, worker, heap, conn>>

Malloc_Once(b) == \* mutant: one block for all threads
    /\ heap' = [heap EXCEPT ![b].live = TRUE]
    /\ connfd' = IF connfd = 0 THEN b ELSE connfd

malloc(b) ==
    /\ heap' = [heap EXCEPT ![b].live = TRUE]
    /\ connfd' = b

Malloc ==
    /\ mainIs("malloc")
    /\ malloc(Least({b \in Block : ~heap[b].live}))
    /\ at' = "accept"
    /\ UNCHANGED <<world, made, sigchld, handler, worker, table, conn>>

\* accept() restarts after a handler: it stays where it is.
Accept ==
    /\ mainIs("accept")
    /\ freeFds(main) # {}
    /\ \E c \in Client : LET f == Least(freeFds(main)) IN
         /\ conn[c].at = "waiting"
         /\ conn' = [conn EXCEPT ![c].at = "accepted"]
         /\ table' = [table EXCEPT ![main][f] = c]
         /\ IF program = "thread"
              THEN heap' = [heap EXCEPT ![connfd].fd = f] /\ UNCHANGED connfd
              ELSE connfd' = f /\ UNCHANGED heap
    /\ at' = "handover"
    /\ UNCHANGED <<world, made, sigchld, handler, worker>>

\* No descriptor is left for a connection that waits.
AcceptFails ==
    /\ mainIs("accept")
    /\ freeFds(main) = {} /\ \E c \in Client : conn[c].at = "waiting"
    /\ ServerEnds

\* Open_listenfd, Malloc, Accept, Fork or Pthread_create fail.
CallFails ==
    /\ \/ mainIs("start") \/ mainIs("malloc") \/ mainIs("accept")
       \/ mainIs("handover") /\ program # "iterative"
    /\ ServerEnds

begin(w, where, fd, arg) ==
    /\ made' = w
    /\ worker' = [worker EXCEPT ![w] = [at |-> where, fd |-> fd, arg |-> arg]]

Fork ==
    /\ mainIs("handover") /\ program = "fork"
    /\ begin(made + 1, "closelisten", connfd, 0)
    /\ table' = [table EXCEPT ![made + 1] = table[main]]
    /\ at' = "close"
    /\ UNCHANGED <<world, connfd, sigchld, handler, heap, conn>>

CloseConnfd_Not == \* mutant: the parent keeps the descriptor
    /\ mainIs("close")
    /\ at' = "accept"
    /\ UNCHANGED <<world, connfd, made, sigchld, handler, worker, table, heap, conn>>

CloseConnfd ==
    /\ mainIs("close")
    /\ table' = [table EXCEPT ![main][connfd] = Free]
    /\ at' = "accept"
    /\ UNCHANGED <<world, connfd, made, sigchld, handler, worker, heap, conn>>

Pthread_create_Join == \* mutant: main() waits for the thread
    /\ mainIs("handover") /\ program = "thread"
    /\ begin(made + 1, "fetch", 0, connfd)
    /\ at' = "busy"
    /\ UNCHANGED <<world, connfd, sigchld, handler, table, heap, conn>>

Pthread_create ==
    /\ mainIs("handover") /\ program = "thread"
    /\ begin(made + 1, "fetch", 0, connfd)
    /\ at' = "malloc"
    /\ UNCHANGED <<world, connfd, sigchld, handler, table, heap, conn>>

\* The iterative server serves the connection itself.
Serve ==
    /\ mainIs("handover") /\ program = "iterative"
    /\ begin(made + 1, "lookup", connfd, 0)
    /\ at' = "busy"
    /\ UNCHANGED <<world, connfd, sigchld, handler, table, heap, conn>>

-----------------------------------------------------------------------------
(* sigchld_handler of echofork.c.                                           *)

zombies == {w \in Worker : worker[w].at = "zombie"}

Deliver ==
    /\ sigchld /\ ~handler /\ at # "down"
    /\ sigchld' = FALSE /\ handler' = TRUE
    /\ UNCHANGED <<world, at, connfd, made, worker, table, heap, conn>>

Reap_Once == \* mutant: if for while
    /\ handler
    /\ \/ /\ zombies = {} /\ UNCHANGED worker
       \/ \E w \in zombies : worker' = [worker EXCEPT ![w].at = "gone"]
    /\ handler' = FALSE
    /\ UNCHANGED <<world, at, connfd, made, sigchld, table, heap, conn>>

Reap ==
    /\ handler
    /\ \/ \E w \in zombies : /\ worker' = [worker EXCEPT ![w].at = "gone"]
                             /\ UNCHANGED handler
       \/ zombies = {} /\ handler' = FALSE /\ UNCHANGED worker
    /\ UNCHANGED <<world, at, connfd, made, sigchld, table, heap, conn>>

-----------------------------------------------------------------------------
(* The workers.                                                             *)

workerIs(w, here) == worker[w].at = here
rest == <<world, server, conn>>

\* The child closes its copy of the listening descriptor.
CloseListenfd(w) ==
    /\ workerIs(w, "closelisten")
    /\ table' = [table EXCEPT ![w][3] = Free]
    /\ worker' = [worker EXCEPT ![w].at = "lookup"]
    /\ UNCHANGED <<rest, heap>>

Gethostbyaddr(w) ==
    /\ workerIs(w, "lookup")
    /\ \/ /\ worker' = [worker EXCEPT ![w].at = "read"]
          /\ UNCHANGED <<rest, table, heap>>
       \/ WorkerFails(w)

\* The thread takes its descriptor out of the block.
Fetch(w) ==
    /\ workerIs(w, "fetch")
    /\ worker' = [worker EXCEPT ![w].at = "free", ![w].fd = heap[worker[w].arg].fd]
    /\ UNCHANGED <<rest, table, heap>>

FreeBlock(w) ==
    /\ workerIs(w, "free")
    /\ heap' = [heap EXCEPT ![worker[w].arg] = unallocated]
    /\ worker' = [worker EXCEPT ![w].at = "read", ![w].arg = 0]
    /\ UNCHANGED <<rest, table>>

Read_OneLine(w) == \* mutant: a connection is closed after one line
    /\ workerIs(w, "read") /\ peer(w) \in Client
    /\ LET c == peer(w) IN
       \/ /\ conn[c].read = 0 /\ conn[c].read < conn[c].sent /\ conn[c].end # "reset"
          /\ conn' = [conn EXCEPT ![c].read = @ + 1]
          /\ worker' = [worker EXCEPT ![w].at = "write"]
          /\ UNCHANGED <<world, server, table, heap>>
       \/ /\ conn[c].read = 1 /\ worker' = [worker EXCEPT ![w].at = "close"]
          /\ UNCHANGED <<rest, table, heap>>

Read_Block(w) == \* mutant: rio_readnb, which waits for more than a line
    /\ workerIs(w, "read") /\ peer(w) \in Client
    /\ LET c == peer(w) IN
       /\ conn[c].read < conn[c].sent /\ conn[c].end = "shut"
       /\ conn' = [conn EXCEPT ![c].read = @ + 1]
       /\ worker' = [worker EXCEPT ![w].at = "write"]
       /\ UNCHANGED <<world, server, table, heap>>

\* Rio_readlineb in echo(): a line, end of file, or an error.
Read(w) ==
    /\ workerIs(w, "read") /\ peer(w) \in Client
    /\ LET c == peer(w) IN
       \/ /\ conn[c].read < conn[c].sent /\ conn[c].end # "reset"
          /\ conn' = [conn EXCEPT ![c].read = @ + 1]
          /\ worker' = [worker EXCEPT ![w].at = "write"]
          /\ UNCHANGED <<world, server, table, heap>>
       \/ /\ conn[c].read = conn[c].sent /\ conn[c].end = "shut"
          /\ worker' = [worker EXCEPT ![w].at = "close"]
          /\ UNCHANGED <<rest, table, heap>>
       \/ conn[c].end = "reset" /\ WorkerFails(w)

\* Rio_writen in echo(): it fails when the client is gone.
Write(w) ==
    /\ workerIs(w, "write") /\ peer(w) \in Client
    /\ \/ /\ conn[peer(w)].end # "reset"
          /\ conn' = [conn EXCEPT ![peer(w)].echoed = @ + 1]
          /\ worker' = [worker EXCEPT ![w].at = "read"]
          /\ UNCHANGED <<world, server, table, heap>>
       \/ conn[peer(w)].end = "reset" /\ WorkerFails(w)

CloseWorker_Not(w) == \* mutant: the thread leaves the descriptor open
    /\ workerIs(w, "close")
    /\ worker' = [worker EXCEPT ![w] = over(IF program = "fork" THEN "exit" ELSE "gone")]
    /\ at' = IF program = "iterative" THEN "accept" ELSE at
    /\ UNCHANGED <<world, connfd, made, sigchld, handler, table, heap, conn>>

\* Close(connfd); main() of the iterative server goes on.
CloseWorker(w) ==
    /\ workerIs(w, "close")
    /\ table' = [table EXCEPT ![home(w)][worker[w].fd] = Free]
    /\ worker' = [worker EXCEPT ![w] = over(IF program = "fork" THEN "exit" ELSE "gone")]
    /\ at' = IF program = "iterative" THEN "accept" ELSE at
    /\ UNCHANGED <<world, connfd, made, sigchld, handler, heap, conn>>

Exit(w) == workerIs(w, "exit") /\ ChildEnds(w)

-----------------------------------------------------------------------------
(* The clients.                                                             *)

unlessServer == <<world, server, worker, table, heap>>

Connect(c) ==
    /\ conn[c].at = "away" /\ holds(main, Listener)
    /\ conn' = [conn EXCEPT ![c].at = "waiting"]
    /\ UNCHANGED unlessServer

Send(c) ==
    /\ conn[c].at # "away" /\ conn[c].end = "open" /\ conn[c].sent < MaxLines
    /\ conn' = [conn EXCEPT ![c].sent = @ + 1]
    /\ UNCHANGED unlessServer

\* close() of the client: in order, or with echoes it does not wait for.
Hangup(c) ==
    /\ conn[c].at # "away" /\ conn[c].end = "open"
    /\ \E e \in {"shut", "reset"} : conn' = [conn EXCEPT ![c].end = e]
    /\ UNCHANGED unlessServer

-----------------------------------------------------------------------------
MainStep ==
    \/ Open_listenfd \/ Malloc \/ Accept \/ AcceptFails
    \/ Fork \/ CloseConnfd \/ Pthread_create \/ Serve

HandlerStep == Deliver \/ Reap

WorkerStep(w) ==
    \/ CloseListenfd(w) \/ Gethostbyaddr(w)
    \/ Fetch(w) \/ FreeBlock(w)
    \/ Read(w) \/ Write(w) \/ CloseWorker(w) \/ Exit(w)

ClientStep(c) == Connect(c) \/ Send(c) \/ Hangup(c)

Next ==
    \/ MainStep \/ CallFails \/ HandlerStep
    \/ \E w \in Worker : WorkerStep(w)
    \/ \E c \in Client : ClientStep(c)

Spec == Init /\ [][Next]_vars

\* The kernel runs every process and thread and delivers signals; clients
\* may be silent for ever and calls need not fail.
FairSpec ==
    /\ Spec
    /\ WF_vars(MainStep) /\ WF_vars(HandlerStep)
    /\ \A w \in Worker : WF_vars(WorkerStep(w))

-----------------------------------------------------------------------------
(* Properties.                                                              *)

\* From the hand-over on, a connection belongs to one worker: no two of them
\* echo to the same client, none of them works on a descriptor that is not
\* a connection, and Close finds it open.  The block that hands it to a thread
\* is allocated exactly while main() or one thread will still use it: no thread
\* reads or frees one that is free, none is lost.
usedBy(b) == {w \in Worker : worker[w].arg = b /\ worker[w].at \in {"fetch", "free"}}
OneWorkerPerConnection ==
    LET inEcho == {w \in Worker : worker[w].at \in {"read", "write", "close"}} IN
    /\ \A w \in inEcho : worker[w].fd \in Fd /\ peer(w) \in Client
    /\ \A v, w \in inEcho : v # w => peer(v) # peer(w)
    /\ at # "down" => \A b \in Block :
         Cardinality(usedBy(b)) + (IF program = "thread" /\ at \in {"accept", "handover"} /\ connfd = b
                                   THEN 1 ELSE 0)
           = (IF heap[b].live THEN 1 ELSE 0)

\* A process holds no connection that it is not about to hand over, serve
\* or close: the parent of echofork.c at most the one it has just accepted,
\* a child its own only, and the threads' process those of its threads.
NoStrayDescriptor ==
    /\ TypeOK
    /\ \A f \in Fd : table[main][f] \in Client =>
         \/ at \in {"handover", "close"} /\ f = IF program = "thread" THEN heap[connfd].fd ELSE connfd
         \/ program # "fork" /\ \E w \in Worker :
               /\ live(w)
               /\ f = IF worker[w].at = "fetch" THEN heap[worker[w].arg].fd ELSE worker[w].fd
    /\ \A w \in Worker, f \in Fd : table[w][f] \in Client => f = worker[w].fd

\* Each of the three servers is an echo service; only with processes are
\* the connections independent of the server.
phase == [c \in Client |-> CASE conn[c].at # "accepted" -> conn[c].at
                             [] held(c) -> "open"
                             [] OTHER -> "closed"]
Service == INSTANCE EchoService WITH
    isolated <- program = "fork",
    end <- [c \in Client |-> conn[c].end],
    sent <- [c \in Client |-> conn[c].sent],
    echoed <- [c \in Client |-> conn[c].echoed],
    stopped <- at = "down"
ImplementsEchoService == Service!Spec

\* When its client has gone the connection is closed, by every process that
\* had a descriptor of it.
ConnectionCloses ==
    \A c \in Client : (conn[c].at = "accepted" /\ conn[c].end # "open") ~> ~held(c)

\* A line of a client that was accepted comes back whatever others do.
LinesComeBack ==
    \A c \in Client :
        (held(c) /\ conn[c].echoed < conn[c].sent) ~> (conn[c].echoed = conn[c].sent \/ ~held(c))

\* With a process or a thread for each connection, silent clients and
\* running children do not keep others from being accepted.
NobodyWaitsForOthers ==
    \A c \in Client :
        (program # "iterative" /\ conn[c].at = "waiting") ~> (conn[c].at = "accepted" \/ at = "down")

\* Merged SIGCHLDs leave no zombie behind.
ChildrenAreReaped ==
    \A w \in Worker : workerIs(w, "zombie") ~> (workerIs(w, "gone") \/ at = "down")
=============================================================================
