-------------------------- MODULE EchoServersProofs --------------------------
(***************************************************************************)
(* The echo servers for any number of clients, any limit of descriptors    *)
(* and any number of lines: each connection has one worker, no process     *)
(* keeps a descriptor it does not need, and each server is the service     *)
(* that EchoService describes.                                             *)
(***************************************************************************)
EXTENDS EchoServers, FiniteSetTheorems, WellFoundedInduction, TLAPS

\* TypeOK, with names for the types of a worker and of a connection.
Stage == {"none", "closelisten", "lookup", "fetch", "free",
          "read", "write", "close", "exit", "zombie", "gone"}
WorkerType == [at : Stage, fd : Fd \cup {0}, arg : Block \cup {0}]
ConnType == [at : {"away", "waiting", "accepted"}, end : {"open", "shut", "reset"},
             sent : 0..MaxLines, read : 0..MaxLines, echoed : 0..MaxLines]
BlockType == [live : BOOLEAN, fd : Fd \cup {0}]
EntryType == Client \cup {Free, Listener}
Typed ==
  /\ program \in {"iterative", "fork", "thread"} /\ limit \in 5..OPEN_MAX
  /\ at \in {"start", "malloc", "accept", "handover", "busy", "close", "down"}
  /\ connfd \in Fd \cup Block \cup {0}
  /\ made \in {0} \cup Worker
  /\ worker \in [Worker -> WorkerType]
  /\ table \in [Process -> [Fd -> EntryType]]
  /\ heap \in [Block -> BlockType]
  /\ sigchld \in BOOLEAN /\ handler \in BOOLEAN
  /\ conn \in [Client -> ConnType]

\* A worker that has a connection, its descriptor, and whose connection it is.
works(w) == worker[w].at \in {"closelisten", "lookup", "fetch", "free", "read", "write", "close"}
fdOf(w) == IF worker[w].at = "fetch" THEN heap[worker[w].arg].fd ELSE worker[w].fd
peerOf(w) == table[home(w)][fdOf(w)]

\* The descriptor that main() has accepted and not yet handed over or closed.
mainHas == at \in {"handover", "close"}
mainFd == IF program = "thread" THEN heap[connfd].fd ELSE connfd

\* The parts of the code that each program has.
Places ==
  /\ program = "fork" =>
        /\ at \in {"start", "accept", "handover", "close", "down"}
        /\ \A w \in Worker : worker[w].at \notin {"fetch", "free"}
  /\ program = "thread" =>
        /\ at \in {"start", "malloc", "accept", "handover", "down"}
        /\ connfd \in Block \cup {0} /\ (at \in {"accept", "handover"} => connfd \in Block)
        /\ \A w \in Worker : worker[w].at \in {"none", "fetch", "free", "read", "write", "close", "gone"}
  /\ program = "iterative" =>
        /\ at \in {"start", "accept", "handover", "busy", "down"}
        /\ \A w \in Worker : worker[w].at \in {"none", "lookup", "read", "write", "close", "gone"}
        /\ \A w \in Worker : works(w) => at = "busy"
        /\ \A v, w \in Worker : works(v) /\ works(w) => v = w
  /\ \A w \in Worker : works(w) /\ at = "down" => program = "fork"
  /\ \A w \in Worker : worker[w].at = "none" <=> w > made
  /\ at = "start" => made = 0

accepted == {c \in Client : conn[c].at = "accepted"}

\* One worker is made for each connection.
Counted == at # "down" => Cardinality(accepted) = made + (IF at = "handover" THEN 1 ELSE 0)

\* Each block that is allocated has one user.
uses(w) == worker[w].at \in {"fetch", "free"}
mainUses(b) == program = "thread" /\ at \in {"accept", "handover"} /\ connfd = b
Blocks ==
  /\ \A w \in Worker : uses(w) => worker[w].arg \in Block /\ heap[worker[w].arg].live
  /\ \A v, w \in Worker : uses(v) /\ uses(w) /\ worker[v].arg = worker[w].arg => v = w
  /\ \A b \in Block : mainUses(b) =>
        heap[b].live /\ \A w \in Worker : uses(w) => worker[w].arg # b
  /\ \A b \in Block : heap[b].live =>
        mainUses(b) \/ \E w \in Worker : uses(w) /\ worker[w].arg = b

\* Every open descriptor of a connection is somebody's, and every connection
\* is one worker's, or still main()'s.
Descriptors ==
  /\ at \notin {"start", "down"} => table[main][3] = Listener
  /\ at = "down" => \A f \in Fd : table[main][f] = Free
  /\ \A w \in Worker : works(w) => fdOf(w) \in Fd /\ peerOf(w) \in Client
  /\ \A w \in Worker : worker[w].at = "closelisten" => table[w][3] = Listener
  /\ mainHas => mainFd \in Fd /\ table[main][mainFd] \in Client
  /\ \A f \in Fd : table[main][f] \in Client =>
        \/ mainHas /\ f = mainFd
        \/ program # "fork" /\ \E w \in Worker : works(w) /\ f = fdOf(w)
  /\ \A w \in Worker, f \in Fd : table[w][f] \in Client =>
        program = "fork" /\ works(w) /\ f = worker[w].fd
  /\ \A v, w \in Worker : works(v) /\ works(w) /\ v # w => peerOf(v) # peerOf(w)
  /\ at = "handover" => \A w \in Worker : works(w) => peerOf(w) # table[main][mainFd]
  /\ \A p \in Process, f \in Fd, c \in Client : table[p][f] = c => conn[c].at = "accepted"

\* When EchoService lets a connection end.
mayEnd(c) ==
  \/ conn[c].end = "shut" /\ conn[c].echoed = conn[c].sent
  \/ conn[c].end = "reset"
  \/ conn[c].echoed = 0

\* What each worker has read and echoed.
Lines ==
  /\ \A c \in Client : conn[c].read <= conn[c].sent
  /\ \A c \in Client : conn[c].at # "accepted" => conn[c].read = 0 /\ conn[c].echoed = 0
  /\ \A w \in Worker : works(w) =>
       /\ conn[peerOf(w)].read = conn[peerOf(w)].echoed + (IF worker[w].at = "write" THEN 1 ELSE 0)
       /\ worker[w].at \in {"closelisten", "lookup"} => conn[peerOf(w)].echoed = 0
       /\ worker[w].at = "close" =>
            conn[peerOf(w)].end = "shut" /\ conn[peerOf(w)].echoed = conn[peerOf(w)].sent
  /\ at = "handover" => conn[table[main][mainFd]].read = 0 /\ conn[table[main][mainFd]].echoed = 0
  /\ at = "close" =>
        \/ mayEnd(table[main][connfd])
        \/ \E w \in Worker : works(w) /\ peerOf(w) = table[main][connfd]

EchoInv == Typed /\ Places /\ Counted /\ Blocks /\ Descriptors /\ Lines

-----------------------------------------------------------------------------
(* Types.                                                                   *)

LEMMA Setting ==
  /\ Cardinality(Client) \in Nat /\ OPEN_MAX \in Nat /\ MaxLines \in Nat
  /\ main \in Process /\ main \notin Worker /\ main = 0
  /\ \A w \in Worker : w \in Process /\ w \in Nat /\ w > 0 /\ w # main
  /\ \A f \in Fd : f \in Nat /\ f > 0
  /\ \A b \in Block : b \in Nat /\ b > 0
  /\ Free \notin Client /\ Listener \notin Client /\ Free # Listener
<1>1. Cardinality(Client) \in Nat
  BY EchoAssumption, FS_CardinalityType
<1> QED BY <1>1, EchoAssumption DEF main, Process, Worker, Fd, Block

LEMMA TypedIsTypeOK == Typed => TypeOK
BY DEF Typed, TypeOK, WorkerType, ConnType, BlockType, EntryType, Stage

LEMMA ThreeIsFd == Typed => 3 \in Fd
<1>1. Typed => limit \in 5..OPEN_MAX
  BY DEF Typed
<1>2. limit \in 5..OPEN_MAX => 3 \in Fd
  BY Setting DEF Fd
<1> QED BY <1>1, <1>2

LEMMA WorkerMoves ==
  ASSUME Typed, NEW w \in Worker, NEW a \in Stage, worker' = [worker EXCEPT ![w].at = a]
  PROVE  /\ worker' \in [Worker -> WorkerType]
         /\ worker'[w].at = a /\ worker'[w].fd = worker[w].fd /\ worker'[w].arg = worker[w].arg
         /\ \A v \in Worker \ {w} : worker'[v] = worker[v]
BY DEF Typed, WorkerType

LEMMA WorkerIsSet ==
  ASSUME Typed, NEW w \in Worker, NEW r \in WorkerType, worker' = [worker EXCEPT ![w] = r]
  PROVE  /\ worker' \in [Worker -> WorkerType] /\ worker'[w] = r
         /\ \A v \in Worker \ {w} : worker'[v] = worker[v]
BY DEF Typed

LEMMA EntryIsSet ==
  ASSUME Typed, NEW p \in Process, NEW f \in Fd, NEW x \in EntryType,
         table' = [table EXCEPT ![p][f] = x]
  PROVE  /\ table' \in [Process -> [Fd -> EntryType]]
         /\ table'[p][f] = x
         /\ \A g \in Fd \ {f} : table'[p][g] = table[p][g]
         /\ \A q \in Process \ {p} : table'[q] = table[q]
BY DEF Typed

\* What a worker is doing is in its record.
LEMMA SameWorker ==
  ASSUME NEW w \in Worker, worker'[w] = worker[w]
  PROVE  /\ works(w)' <=> works(w)
         /\ uses(w)' <=> uses(w)
BY DEF works, uses

-----------------------------------------------------------------------------
(* Steps that leave the parts of the invariant as they are.                 *)

LEMMA CountedKept ==
  ASSUME Counted, made' = made,
         at' = at \/ (at \notin {"handover", "down"} /\ at' # "handover") \/ at' = "down",
         \A c \in Client : conn'[c].at = "accepted" <=> conn[c].at = "accepted"
  PROVE  Counted'
<1>1. accepted' = accepted
  BY DEF accepted
<1> QED BY <1>1 DEF Counted

LEMMA BlocksKept ==
  ASSUME Blocks, UNCHANGED <<world, heap>>,
         \A b \in Block : mainUses(b)' <=> mainUses(b),
         \A w \in Worker : /\ uses(w)' <=> uses(w)
                           /\ uses(w) => worker'[w].arg = worker[w].arg
  PROVE  Blocks'
BY DEF Blocks, world

LEMMA OwnersMoved ==
  ASSUME Descriptors, UNCHANGED <<world, at, connfd, table>>, mainHas => mainFd' = mainFd,
         \A c \in Client : conn[c].at = "accepted" => conn'[c].at = "accepted",
         \A w \in Worker : /\ works(w)' <=> works(w)
                           /\ works(w) => fdOf(w)' = fdOf(w)
                           /\ (works(w) /\ program = "fork") => worker'[w].fd = worker[w].fd
                           /\ worker'[w].at = "closelisten" => worker[w].at = "closelisten"
  PROVE  Descriptors' /\ \A w \in Worker : works(w) => peerOf(w)' = peerOf(w)
<1>1. mainHas' <=> mainHas
  BY DEF mainHas
<1>2. \A w \in Worker : works(w) => peerOf(w)' = peerOf(w)
  BY DEF peerOf, home, world
<1>3. at = "handover" => mainHas
  BY DEF mainHas
<1>4. Descriptors'
  BY <1>1, <1>2, <1>3 DEF Descriptors, world
<1> QED BY <1>2, <1>4

LEMMA OwnersKept ==
  ASSUME Descriptors, UNCHANGED <<world, at, connfd, table, heap>>,
         \A c \in Client : conn[c].at = "accepted" => conn'[c].at = "accepted",
         \A w \in Worker : /\ works(w)' <=> works(w)
                           /\ works(w) => fdOf(w)' = fdOf(w)
                           /\ (works(w) /\ program = "fork") => worker'[w].fd = worker[w].fd
                           /\ worker'[w].at = "closelisten" => worker[w].at = "closelisten"
  PROVE  Descriptors' /\ mainFd' = mainFd /\ \A w \in Worker : works(w) => peerOf(w)' = peerOf(w)
<1>1. mainFd' = mainFd
  BY DEF mainFd, world
<1> QED BY <1>1, OwnersMoved

LEMMA NothingMoves ==
  ASSUME EchoInv, UNCHANGED <<world, at, connfd, made, worker, table, heap, conn>>,
         sigchld' \in BOOLEAN, handler' \in BOOLEAN
  PROVE  EchoInv'
<1>1. \A w \in Worker : (works(w)' <=> works(w)) /\ (uses(w)' <=> uses(w)) /\ fdOf(w)' = fdOf(w)
  BY DEF works, uses, fdOf
<1>2. \A b \in Block : mainUses(b)' <=> mainUses(b)
  BY DEF mainUses, world
<1>3. Typed'
  BY DEF EchoInv, Typed, world
<1>4. Places'
  BY <1>1 DEF EchoInv, Places, world
<1>5. Counted' /\ Blocks'
  BY <1>1, <1>2, CountedKept, BlocksKept DEF EchoInv
<1>6. Descriptors' /\ mainFd' = mainFd /\ \A w \in Worker : works(w) => peerOf(w)' = peerOf(w)
  BY <1>1, OwnersKept DEF EchoInv
<1>7. Lines'
  BY <1>1, <1>6 DEF EchoInv, Lines, mayEnd
<1> QED BY <1>3, <1>4, <1>5, <1>6, <1>7 DEF EchoInv

\* A worker that has no connection ends for good.
LEMMA ReapKeeps ==
  ASSUME EchoInv, NEW w \in Worker, worker[w].at = "zombie",
         worker' = [worker EXCEPT ![w].at = "gone"],
         UNCHANGED <<world, server, table, heap, conn>>
  PROVE  EchoInv'
<1>1. /\ worker' \in [Worker -> WorkerType]
      /\ worker'[w].at = "gone" /\ worker'[w].fd = worker[w].fd
      /\ \A v \in Worker \ {w} : worker'[v] = worker[v]
  BY WorkerMoves DEF EchoInv, Stage
<1>2. \A v \in Worker : /\ works(v)' <=> works(v)
                        /\ uses(v)' <=> uses(v)
                        /\ uses(v) => worker'[v] = worker[v]
                        /\ works(v) => worker'[v] = worker[v] /\ fdOf(v)' = fdOf(v)
                        /\ worker'[v].at = "none" <=> worker[v].at = "none"
                        /\ worker'[v].at \in {worker[v].at, "gone"}
  BY <1>1 DEF works, uses, fdOf
<1>3. \A b \in Block : mainUses(b)' <=> mainUses(b)
  BY DEF mainUses, world, server
<1>4. Typed'
  BY <1>1 DEF EchoInv, Typed, world, server
<1>5. Places'
  BY <1>2 DEF EchoInv, Places, world, server
<1>6. Counted' /\ Blocks'
  BY <1>2, <1>3, CountedKept, BlocksKept DEF EchoInv, server
<1>7. Descriptors' /\ mainFd' = mainFd /\ \A v \in Worker : works(v) => peerOf(v)' = peerOf(v)
  <2>1. \A v \in Worker : worker'[v].at = "closelisten" => worker[v].at = "closelisten"
    BY <1>2
  <2> QED BY <1>2, <2>1, OwnersKept DEF EchoInv, server
<1>8. Lines'
  BY <1>2, <1>7 DEF EchoInv, Lines, mayEnd, server
<1> QED BY <1>4, <1>5, <1>6, <1>7, <1>8 DEF EchoInv

LEMMA HandlerKeeps ==
  ASSUME EchoInv, HandlerStep
  PROVE  EchoInv'
<1>1. CASE Deliver
  BY <1>1, NothingMoves DEF Deliver, EchoInv, Typed
<1>2. CASE Reap
  <2>1. CASE zombies = {} /\ handler' = FALSE /\ UNCHANGED worker
    BY <1>2, <2>1, NothingMoves DEF Reap, EchoInv, Typed
  <2>2. ASSUME NEW w \in zombies, worker' = [worker EXCEPT ![w].at = "gone"], UNCHANGED handler
        PROVE  EchoInv'
    BY <1>2, <2>2, ReapKeeps DEF Reap, zombies, server
  <2> QED BY <1>2, <2>1, <2>2 DEF Reap
<1> QED BY <1>1, <1>2 DEF HandlerStep

\* What a client may change of its connection.
LEMMA ClientFacts ==
  ASSUME EchoInv, NEW c \in Client, ClientStep(c)
  PROVE  /\ conn' \in [Client -> ConnType]
         /\ \A d \in Client :
              /\ conn'[d].read = conn[d].read /\ conn'[d].echoed = conn[d].echoed
              /\ conn'[d].at = conn[d].at \/ (conn[d].at = "away" /\ conn'[d].at = "waiting")
              /\ conn[d].end # "open" => conn'[d].end = conn[d].end /\ conn'[d].sent = conn[d].sent
              /\ conn'[d].sent >= conn[d].sent
<1>1. conn \in [Client -> ConnType] /\ MaxLines \in Nat
  BY Setting DEF EchoInv, Typed
<1>2. CASE Connect(c)
  BY <1>1, <1>2 DEF Connect, ConnType
<1>3. CASE Hangup(c)
  BY <1>1, <1>3 DEF Hangup, ConnType
<1>4. CASE Send(c)
  <2>1. /\ conn[c].end = "open" /\ conn[c].sent < MaxLines
        /\ conn' = [conn EXCEPT ![c].sent = conn[c].sent + 1]
    BY <1>4 DEF Send
  <2>2. conn[c].sent \in 0..MaxLines /\ conn[c].sent + 1 \in 0..MaxLines
    BY <1>1, <2>1 DEF ConnType
  <2> QED BY <1>1, <2>1, <2>2 DEF ConnType
<1> QED BY <1>2, <1>3, <1>4 DEF ClientStep

LEMMA ClientKeeps ==
  ASSUME EchoInv, NEW c \in Client, ClientStep(c)
  PROVE  EchoInv'
<1>1. UNCHANGED unlessServer
  BY DEF ClientStep, Connect, Send, Hangup
<1>2. /\ conn' \in [Client -> ConnType]
      /\ \A d \in Client :
              /\ conn'[d].read = conn[d].read /\ conn'[d].echoed = conn[d].echoed
              /\ conn'[d].at = conn[d].at \/ (conn[d].at = "away" /\ conn'[d].at = "waiting")
              /\ conn[d].end # "open" => conn'[d].end = conn[d].end /\ conn'[d].sent = conn[d].sent
              /\ conn'[d].sent >= conn[d].sent
  BY ClientFacts
<1>3. \A w \in Worker : (works(w)' <=> works(w)) /\ (uses(w)' <=> uses(w)) /\ fdOf(w)' = fdOf(w)
  BY <1>1 DEF works, uses, fdOf, unlessServer
<1>4. \A b \in Block : mainUses(b)' <=> mainUses(b)
  BY <1>1 DEF mainUses, unlessServer, world, server
<1>5. Typed'
  BY <1>1, <1>2 DEF EchoInv, Typed, unlessServer, world, server
<1>6. Places'
  BY <1>1, <1>3 DEF EchoInv, Places, unlessServer, world, server
<1>7. Counted' /\ Blocks'
  BY <1>1, <1>2, <1>3, <1>4, CountedKept, BlocksKept DEF EchoInv, unlessServer, server
<1>8. Descriptors' /\ mainFd' = mainFd /\ \A w \in Worker : works(w) => peerOf(w)' = peerOf(w)
  <2>1. \A d \in Client : conn[d].at = "accepted" => conn'[d].at = "accepted"
    BY <1>2
  <2> QED BY <1>1, <1>3, <2>1, OwnersKept DEF EchoInv, unlessServer, server
<1>9. Lines'
  <2>1. \A d \in Client : mayEnd(d) => mayEnd(d)'
    BY <1>2 DEF mayEnd
  <2>2. /\ \A w \in Worker : works(w) => peerOf(w) \in Client
        /\ at \in {"handover", "close"} => table[main][mainFd] \in Client
        /\ at = "close" => mainFd = connfd
    BY DEF EchoInv, Descriptors, mainHas, mainFd, Places
  <2>3. \A d \in Client : conn'[d].read <= conn'[d].sent
    <3>1. \A d \in Client : conn[d].read \in Nat /\ conn[d].sent \in Nat /\ conn'[d].sent \in Nat
      BY <1>2, Setting DEF EchoInv, Typed, ConnType
    <3> QED BY <1>2, <3>1 DEF EchoInv, Lines
  <2>4. \A d \in Client : conn'[d].at # "accepted" => conn'[d].read = 0 /\ conn'[d].echoed = 0
    BY <1>2 DEF EchoInv, Lines
  <2>5. \A w \in Worker : works(w)' =>
       /\ conn'[peerOf(w)'].read = conn'[peerOf(w)'].echoed + (IF worker'[w].at = "write" THEN 1 ELSE 0)
       /\ worker'[w].at \in {"closelisten", "lookup"} => conn'[peerOf(w)'].echoed = 0
       /\ worker'[w].at = "close" =>
            conn'[peerOf(w)'].end = "shut" /\ conn'[peerOf(w)'].echoed = conn'[peerOf(w)'].sent
    BY <1>1, <1>2, <1>3, <1>8, <2>2 DEF EchoInv, Lines, unlessServer
  <2>6. at' = "handover" => conn'[table'[main][mainFd']].read = 0 /\ conn'[table'[main][mainFd']].echoed = 0
    BY <1>1, <1>2, <1>8, <2>2 DEF EchoInv, Lines, unlessServer, server
  <2>7. at' = "close" =>
          \/ mayEnd(table[main][connfd])'
          \/ \E w \in Worker : works(w)' /\ peerOf(w)' = table'[main][connfd']
    <3>1. ASSUME at = "close", NEW d, d = table[main][connfd], mayEnd(d)
          PROVE  mayEnd(table[main][connfd])'
      BY <1>1, <2>1, <2>2, <3>1 DEF mayEnd, unlessServer, server
    <3> QED BY <1>1, <1>3, <1>8, <3>1 DEF EchoInv, Lines, unlessServer, server
  <2> QED BY <2>3, <2>4, <2>5, <2>6, <2>7 DEF Lines
<1> QED BY <1>5, <1>6, <1>7, <1>8, <1>9 DEF EchoInv

-----------------------------------------------------------------------------
(* A worker echoes.                                                         *)

LEMMA MovingKeeps ==
  ASSUME EchoInv, NEW w \in Worker, NEW a \in {"read", "write", "close"},
         worker[w].at \in {"lookup", "read", "write"},
         worker' = [worker EXCEPT ![w].at = a],
         UNCHANGED <<world, server, table, heap>>,
         conn' \in [Client -> ConnType], \A c \in Client : conn'[c].at = conn[c].at
  PROVE  /\ Typed' /\ Places' /\ Counted' /\ Blocks' /\ Descriptors'
         /\ mainFd' = mainFd /\ works(w) /\ worker'[w].at = a
         /\ \A v \in Worker : works(v)' <=> works(v)
         /\ \A v \in Worker : works(v) => peerOf(v)' = peerOf(v)
         /\ \A v \in Worker \ {w} : worker'[v] = worker[v]
<1>1. /\ worker' \in [Worker -> WorkerType]
      /\ worker'[w].at = a /\ worker'[w].fd = worker[w].fd /\ worker'[w].arg = worker[w].arg
      /\ \A v \in Worker \ {w} : worker'[v] = worker[v]
  BY WorkerMoves DEF EchoInv, Stage
<1>2. \A v \in Worker : /\ works(v)' <=> works(v)
                        /\ uses(v)' <=> uses(v)
                        /\ worker'[v].fd = worker[v].fd /\ worker'[v].arg = worker[v].arg
                        /\ fdOf(v)' = fdOf(v)
                        /\ worker'[v].at = "none" <=> worker[v].at = "none"
                        /\ worker'[v].at = "closelisten" <=> worker[v].at = "closelisten"
                        /\ worker'[v].at \in {worker[v].at, "read", "write", "close"}
  BY <1>1 DEF works, uses, fdOf
<1>3. \A b \in Block : mainUses(b)' <=> mainUses(b)
  BY DEF mainUses, world, server
<1>4. Typed'
  BY <1>1 DEF EchoInv, Typed, world, server
<1>5. Places'
  BY <1>2 DEF EchoInv, Places, world, server
<1>6. Counted' /\ Blocks'
  BY <1>2, <1>3, CountedKept, BlocksKept DEF EchoInv, server
<1>7. Descriptors' /\ mainFd' = mainFd /\ \A v \in Worker : works(v) => peerOf(v)' = peerOf(v)
  BY <1>2, OwnersKept DEF EchoInv, server
<1> QED BY <1>1, <1>2, <1>4, <1>5, <1>6, <1>7 DEF works

\* One worker goes on with one connection.
LEMMA LinesFollow ==
  ASSUME EchoInv, NEW w \in Worker, works(w), NEW c \in Client, c = peerOf(w),
         UNCHANGED <<server, table>>, mainHas => mainFd' = mainFd,
         \A v \in Worker : works(v)' <=> works(v),
         \A v \in Worker : works(v) => peerOf(v)' = peerOf(v),
         \A v \in Worker \ {w} : worker'[v] = worker[v],
         \A d \in Client \ {c} : conn'[d] = conn[d],
         conn'[c].read <= conn'[c].sent, conn'[c].at = conn[c].at,
         conn'[c].read = conn'[c].echoed + (IF worker'[w].at = "write" THEN 1 ELSE 0),
         worker'[w].at \in {"closelisten", "lookup"} => conn'[c].echoed = 0,
         worker'[w].at = "close" => conn'[c].end = "shut" /\ conn'[c].echoed = conn'[c].sent
  PROVE  Lines'
<1>1. /\ \A v \in Worker : works(v) => peerOf(v) \in Client
      /\ \A v \in Worker \ {w} : works(v) => peerOf(v) # c
      /\ at \in {"handover", "close"} => table[main][mainFd] \in Client
      /\ at = "handover" => table[main][mainFd] # c
      /\ at = "close" => mainFd = connfd
      /\ conn[c].at = "accepted"
  <2>1. home(w) \in Process /\ fdOf(w) \in Fd
    BY Setting DEF EchoInv, Descriptors, home
  <2>2. conn[c].at = "accepted"
    BY <2>1 DEF EchoInv, Descriptors, peerOf
  <2> QED BY <2>2 DEF EchoInv, Descriptors, mainHas, mainFd, Places
<1>2. \A d \in Client : conn'[d].read <= conn'[d].sent
  BY DEF EchoInv, Lines
<1>3. \A d \in Client : conn'[d].at # "accepted" => conn'[d].read = 0 /\ conn'[d].echoed = 0
  BY <1>1 DEF EchoInv, Lines
<1>4. ASSUME NEW v \in Worker, works(v)'
      PROVE  /\ conn'[peerOf(v)'].read = conn'[peerOf(v)'].echoed + (IF worker'[v].at = "write" THEN 1 ELSE 0)
             /\ worker'[v].at \in {"closelisten", "lookup"} => conn'[peerOf(v)'].echoed = 0
             /\ worker'[v].at = "close" =>
                  conn'[peerOf(v)'].end = "shut" /\ conn'[peerOf(v)'].echoed = conn'[peerOf(v)'].sent
  <2>1. CASE v = w
    BY <2>1
  <2>2. CASE v # w
    BY <1>1, <1>4, <2>2 DEF EchoInv, Lines
  <2> QED BY <2>1, <2>2
<1>5. at' = "handover" => conn'[table'[main][mainFd']].read = 0 /\ conn'[table'[main][mainFd']].echoed = 0
  BY <1>1 DEF EchoInv, Lines, server, mainHas
<1>6. at' = "close" =>
          \/ mayEnd(table[main][connfd])'
          \/ \E v \in Worker : works(v)' /\ peerOf(v)' = table'[main][connfd']
  <2>1. ASSUME at = "close", NEW d \in Client, d = table[main][connfd], mayEnd(d), d # c
        PROVE  mayEnd(table[main][connfd])'
    BY <2>1 DEF mayEnd, server
  <2> QED BY <1>1, <2>1 DEF EchoInv, Lines, server
<1> QED BY <1>2, <1>3, <1>4, <1>5, <1>6 DEF Lines

\* The numbers of a connection, and what its worker knows of them.
LEMMA PeerFacts ==
  ASSUME EchoInv, NEW w \in Worker, works(w)
  PROVE  /\ peerOf(w) \in Client
         /\ worker[w].at # "fetch" => peer(w) = peerOf(w)
         /\ \A c \in Client : /\ conn[c] \in ConnType /\ conn[c].sent \in Nat
                              /\ conn[c].read \in Nat /\ conn[c].echoed \in Nat
                              /\ conn[c].read <= conn[c].sent /\ conn[c].sent <= MaxLines
<1>1. peerOf(w) \in Client
  BY DEF EchoInv, Descriptors
<1>2. worker[w].at # "fetch" => peer(w) = peerOf(w)
  BY DEF peer, peerOf, fdOf
<1>3. ASSUME NEW c \in Client
      PROVE  /\ conn[c] \in ConnType /\ conn[c].sent \in Nat
             /\ conn[c].read \in Nat /\ conn[c].echoed \in Nat
             /\ conn[c].read <= conn[c].sent /\ conn[c].sent <= MaxLines
  <2>1. conn[c] \in ConnType /\ MaxLines \in Nat
    BY Setting DEF EchoInv, Typed
  <2>2. conn[c].read <= conn[c].sent
    BY DEF EchoInv, Lines
  <2> QED BY <2>1, <2>2 DEF ConnType
<1> QED BY <1>1, <1>2, <1>3

LEMMA LookupKeeps ==
  ASSUME EchoInv, NEW w \in Worker, workerIs(w, "lookup"),
         worker' = [worker EXCEPT ![w].at = "read"], UNCHANGED <<rest, table, heap>>
  PROVE  EchoInv'
<1>1. worker[w].at = "lookup" /\ works(w) /\ UNCHANGED <<world, server, conn>>
  BY DEF workerIs, works, rest
<1>2. conn \in [Client -> ConnType]
  BY DEF EchoInv, Typed
<1>3. /\ Typed' /\ Places' /\ Counted' /\ Blocks' /\ Descriptors'
      /\ mainFd' = mainFd /\ worker'[w].at = "read"
      /\ \A v \in Worker : works(v)' <=> works(v)
      /\ \A v \in Worker : works(v) => peerOf(v)' = peerOf(v)
      /\ \A v \in Worker \ {w} : worker'[v] = worker[v]
  BY <1>1, <1>2, MovingKeeps
<1>4. PICK c \in Client : c = peerOf(w)
  BY <1>1, PeerFacts
<1>5. conn[c].read = conn[c].echoed + 0 /\ conn[c].read <= conn[c].sent
  BY <1>1, <1>4 DEF EchoInv, Lines
<1>6. Lines'
  BY <1>1, <1>3, <1>4, <1>5, LinesFollow DEF server
<1> QED BY <1>3, <1>6 DEF EchoInv

LEMMA ReadLine ==
  ASSUME EchoInv, NEW w \in Worker, workerIs(w, "read"), peer(w) \in Client,
         conn[peer(w)].read < conn[peer(w)].sent,
         conn' = [conn EXCEPT ![peer(w)].read = @ + 1],
         worker' = [worker EXCEPT ![w].at = "write"],
         UNCHANGED <<world, server, table, heap>>
  PROVE  EchoInv'
<1>1. worker[w].at = "read" /\ works(w)
  BY DEF workerIs, works
<1>2. PICK c \in Client : c = peerOf(w) /\ c = peer(w)
  BY <1>1, PeerFacts
<1>3. /\ conn[c] \in ConnType /\ conn[c].sent \in Nat /\ conn[c].sent <= MaxLines
      /\ conn[c].read \in Nat /\ conn[c].echoed \in Nat /\ conn[c].read < conn[c].sent
      /\ conn[c].read = conn[c].echoed
  BY <1>1, <1>2, PeerFacts DEF EchoInv, Lines
<1>4. conn[c].read + 1 \in 0..MaxLines /\ conn[c].read + 1 <= conn[c].sent
  BY <1>3, Setting
<1>5. /\ conn' \in [Client -> ConnType]
      /\ \A d \in Client \ {c} : conn'[d] = conn[d]
      /\ conn'[c].at = conn[c].at /\ conn'[c].read = conn[c].read + 1
      /\ conn'[c].sent = conn[c].sent /\ conn'[c].echoed = conn[c].echoed
  BY <1>2, <1>4 DEF EchoInv, Typed, ConnType
<1>6. /\ Typed' /\ Places' /\ Counted' /\ Blocks' /\ Descriptors'
      /\ mainFd' = mainFd /\ worker'[w].at = "write"
      /\ \A v \in Worker : works(v)' <=> works(v)
      /\ \A v \in Worker : works(v) => peerOf(v)' = peerOf(v)
      /\ \A v \in Worker \ {w} : worker'[v] = worker[v]
  <2>1. \A d \in Client : conn'[d].at = conn[d].at
    BY <1>5
  <2> QED BY <1>1, <1>5, <2>1, MovingKeeps
<1>7. Lines'
  <2>1. /\ conn'[c].read <= conn'[c].sent /\ conn'[c].at = conn[c].at
        /\ conn'[c].read = conn'[c].echoed + (IF worker'[w].at = "write" THEN 1 ELSE 0)
        /\ worker'[w].at \notin {"closelisten", "lookup"}
        /\ worker'[w].at = "close" => conn'[c].end = "shut" /\ conn'[c].echoed = conn'[c].sent
    BY <1>3, <1>4, <1>5, <1>6
  <2> QED BY <1>1, <1>2, <1>5, <1>6, <2>1, LinesFollow
<1> QED BY <1>6, <1>7 DEF EchoInv

LEMMA ReadEnd ==
  ASSUME EchoInv, NEW w \in Worker, workerIs(w, "read"), peer(w) \in Client,
         conn[peer(w)].read = conn[peer(w)].sent, conn[peer(w)].end = "shut",
         worker' = [worker EXCEPT ![w].at = "close"],
         UNCHANGED <<rest, table, heap>>
  PROVE  EchoInv'
<1>1. worker[w].at = "read" /\ works(w) /\ UNCHANGED <<world, server, conn>>
  BY DEF workerIs, works, rest
<1>2. PICK c \in Client : c = peerOf(w) /\ c = peer(w)
  BY <1>1, PeerFacts
<1>3. /\ conn[c].read = conn[c].echoed /\ conn[c].read = conn[c].sent /\ conn[c].sent \in Nat
      /\ conn[c].end = "shut" /\ conn \in [Client -> ConnType]
  BY <1>1, <1>2, PeerFacts DEF EchoInv, Lines, Typed
<1>4. /\ Typed' /\ Places' /\ Counted' /\ Blocks' /\ Descriptors'
      /\ mainFd' = mainFd /\ worker'[w].at = "close"
      /\ \A v \in Worker : works(v)' <=> works(v)
      /\ \A v \in Worker : works(v) => peerOf(v)' = peerOf(v)
      /\ \A v \in Worker \ {w} : worker'[v] = worker[v]
  BY <1>1, <1>3, MovingKeeps
<1>5. Lines'
  <2>1. /\ conn'[c].read <= conn'[c].sent /\ conn'[c].at = conn[c].at
        /\ conn'[c].read = conn'[c].echoed + (IF worker'[w].at = "write" THEN 1 ELSE 0)
        /\ worker'[w].at \notin {"closelisten", "lookup"}
        /\ worker'[w].at = "close" => conn'[c].end = "shut" /\ conn'[c].echoed = conn'[c].sent
    BY <1>1, <1>3, <1>4
  <2> QED BY <1>1, <1>2, <1>4, <2>1, LinesFollow
<1> QED BY <1>4, <1>5 DEF EchoInv

LEMMA WriteLine ==
  ASSUME EchoInv, NEW w \in Worker, workerIs(w, "write"), peer(w) \in Client,
         conn' = [conn EXCEPT ![peer(w)].echoed = @ + 1],
         worker' = [worker EXCEPT ![w].at = "read"],
         UNCHANGED <<world, server, table, heap>>
  PROVE  EchoInv'
<1>1. worker[w].at = "write" /\ works(w)
  BY DEF workerIs, works
<1>2. PICK c \in Client : c = peerOf(w) /\ c = peer(w)
  BY <1>1, PeerFacts
<1>3. /\ conn[c] \in ConnType /\ conn[c].sent \in Nat /\ conn[c].sent <= MaxLines
      /\ conn[c].read \in Nat /\ conn[c].echoed \in Nat /\ conn[c].read <= conn[c].sent
      /\ conn[c].read = conn[c].echoed + 1
  BY <1>1, <1>2, PeerFacts DEF EchoInv, Lines
<1>4. conn[c].echoed + 1 \in 0..MaxLines
  BY <1>3, Setting
<1>5. /\ conn' \in [Client -> ConnType]
      /\ \A d \in Client \ {c} : conn'[d] = conn[d]
      /\ conn'[c].at = conn[c].at /\ conn'[c].read = conn[c].read
      /\ conn'[c].sent = conn[c].sent /\ conn'[c].echoed = conn[c].echoed + 1
  BY <1>2, <1>4 DEF EchoInv, Typed, ConnType
<1>6. /\ Typed' /\ Places' /\ Counted' /\ Blocks' /\ Descriptors'
      /\ mainFd' = mainFd /\ worker'[w].at = "read"
      /\ \A v \in Worker : works(v)' <=> works(v)
      /\ \A v \in Worker : works(v) => peerOf(v)' = peerOf(v)
      /\ \A v \in Worker \ {w} : worker'[v] = worker[v]
  <2>1. \A d \in Client : conn'[d].at = conn[d].at
    BY <1>5
  <2> QED BY <1>1, <1>5, <2>1, MovingKeeps
<1>7. Lines'
  <2>1. /\ conn'[c].read <= conn'[c].sent /\ conn'[c].at = conn[c].at
        /\ conn'[c].read = conn'[c].echoed + (IF worker'[w].at = "write" THEN 1 ELSE 0)
        /\ worker'[w].at \notin {"closelisten", "lookup"}
        /\ worker'[w].at = "close" => conn'[c].end = "shut" /\ conn'[c].echoed = conn'[c].sent
    BY <1>3, <1>5, <1>6
  <2> QED BY <1>1, <1>2, <1>5, <1>6, <2>1, LinesFollow
<1> QED BY <1>6, <1>7 DEF EchoInv

-----------------------------------------------------------------------------
(* A worker begins.                                                         *)

LEMMA FetchKeeps ==
  ASSUME EchoInv, NEW w \in Worker, Fetch(w)
  PROVE  EchoInv'
<1>1. /\ worker[w].at = "fetch" /\ works(w) /\ uses(w)
      /\ UNCHANGED <<world, server, table, heap, conn>>
  BY DEF Fetch, workerIs, works, uses, rest
<1>2. program = "thread" /\ worker[w].arg \in Block /\ heap[worker[w].arg].fd \in Fd
  BY <1>1 DEF EchoInv, Typed, Places, Blocks, Descriptors, fdOf
<1>3. /\ worker' \in [Worker -> WorkerType]
      /\ worker'[w].at = "free" /\ worker'[w].fd = heap[worker[w].arg].fd
      /\ worker'[w].arg = worker[w].arg
      /\ \A v \in Worker \ {w} : worker'[v] = worker[v]
  BY <1>2 DEF Fetch, EchoInv, Typed, WorkerType, Stage
<1>4. \A v \in Worker : /\ works(v)' <=> works(v)
                        /\ uses(v)' <=> uses(v)
                        /\ worker'[v].arg = worker[v].arg
                        /\ fdOf(v)' = fdOf(v)
                        /\ worker'[v].at = "none" <=> worker[v].at = "none"
                        /\ worker'[v].at = "closelisten" => worker[v].at = "closelisten"
                        /\ worker'[v].at \in {worker[v].at, "free"}
  BY <1>1, <1>3 DEF works, uses, fdOf
<1>5. \A b \in Block : mainUses(b)' <=> mainUses(b)
  BY <1>1 DEF mainUses, world, server
<1>6. Typed'
  BY <1>1, <1>3 DEF EchoInv, Typed, world, server
<1>7. Places'
  BY <1>1, <1>2, <1>4 DEF EchoInv, Places, world, server
<1>8. Counted' /\ Blocks'
  BY <1>1, <1>4, <1>5, CountedKept, BlocksKept DEF EchoInv, server
<1>9. Descriptors' /\ mainFd' = mainFd /\ \A v \in Worker : works(v) => peerOf(v)' = peerOf(v)
  BY <1>1, <1>2, <1>4, OwnersKept DEF EchoInv, server
<1>10. PICK c \in Client : c = peerOf(w)
  BY <1>1, PeerFacts
<1>11. Lines'
  <2>1. conn[c].read = conn[c].echoed /\ conn[c].read <= conn[c].sent /\ conn[c].echoed \in Nat
    BY <1>1, <1>10, PeerFacts DEF EchoInv, Lines
  <2>2. /\ conn'[c].read <= conn'[c].sent /\ conn'[c].at = conn[c].at
        /\ conn'[c].read = conn'[c].echoed + (IF worker'[w].at = "write" THEN 1 ELSE 0)
        /\ worker'[w].at \notin {"closelisten", "lookup", "close"}
    BY <1>1, <1>3, <2>1
  <2> QED BY <1>1, <1>3, <1>4, <1>9, <1>10, <2>2, LinesFollow
<1> QED BY <1>6, <1>7, <1>8, <1>9, <1>11 DEF EchoInv

LEMMA FreeKeeps ==
  ASSUME EchoInv, NEW w \in Worker, FreeBlock(w)
  PROVE  EchoInv'
<1>1. /\ worker[w].at = "free" /\ works(w) /\ uses(w)
      /\ UNCHANGED <<world, server, table, conn>>
  BY DEF FreeBlock, workerIs, works, uses, rest
<1>2. PICK b \in Block : b = worker[w].arg /\ program = "thread"
  BY <1>1 DEF EchoInv, Typed, Places, Blocks
<1>3. /\ heap' \in [Block -> BlockType]
      /\ ~heap'[b].live /\ \A a \in Block \ {b} : heap'[a] = heap[a]
  BY <1>2 DEF FreeBlock, EchoInv, Typed, BlockType, unallocated
<1>4. /\ worker' \in [Worker -> WorkerType]
      /\ worker'[w].at = "read" /\ worker'[w].fd = worker[w].fd
      /\ \A v \in Worker \ {w} : worker'[v] = worker[v]
  BY DEF FreeBlock, EchoInv, Typed, WorkerType, Stage
<1>5. \A v \in Worker \ {w} : uses(v) => worker[v].arg \in Block \ {b}
  BY <1>1, <1>2 DEF EchoInv, Blocks
<1>6. ~mainUses(b)
  BY <1>1, <1>2 DEF EchoInv, Blocks
<1>7. \A v \in Worker : /\ works(v)' <=> works(v)
                        /\ uses(v)' <=> (uses(v) /\ v # w)
                        /\ v # w => worker'[v] = worker[v]
                        /\ works(v) => fdOf(v)' = fdOf(v)
                        /\ worker'[v].at = "none" <=> worker[v].at = "none"
                        /\ worker'[v].at = "closelisten" => worker[v].at = "closelisten"
                        /\ worker'[v].at \in {worker[v].at, "read"}
  BY <1>1, <1>3, <1>4, <1>5 DEF works, uses, fdOf
<1>8. \A a \in Block : mainUses(a)' <=> mainUses(a)
  BY <1>1 DEF mainUses, world, server
<1>9. Typed'
  BY <1>1, <1>3, <1>4 DEF EchoInv, Typed, world, server
<1>10. Places'
  BY <1>1, <1>2, <1>7 DEF EchoInv, Places, world, server
<1>11. Counted'
  BY <1>1, CountedKept DEF EchoInv, server
<1>12. Blocks'
  <2>1. \A v \in Worker : uses(v)' => worker'[v].arg \in Block /\ heap'[worker'[v].arg].live
    BY <1>3, <1>5, <1>7 DEF EchoInv, Blocks
  <2>2. \A u, v \in Worker : uses(u)' /\ uses(v)' /\ worker'[u].arg = worker'[v].arg => u = v
    BY <1>7 DEF EchoInv, Blocks
  <2>3. \A a \in Block : mainUses(a)' =>
            heap'[a].live /\ \A v \in Worker : uses(v)' => worker'[v].arg # a
    BY <1>3, <1>6, <1>7, <1>8 DEF EchoInv, Blocks
  <2>4. \A a \in Block : heap'[a].live =>
            mainUses(a)' \/ \E v \in Worker : uses(v)' /\ worker'[v].arg = a
    <3> SUFFICES ASSUME NEW a \in Block, heap'[a].live, ~mainUses(a)
                 PROVE  \E v \in Worker : uses(v)' /\ worker'[v].arg = a
      BY <1>8
    <3>1. a # b /\ heap[a].live
      BY <1>3
    <3>2. PICK v \in Worker : uses(v) /\ worker[v].arg = a
      BY <3>1 DEF EchoInv, Blocks
    <3> QED BY <1>2, <1>7, <3>1, <3>2
  <2> QED BY <2>1, <2>2, <2>3, <2>4 DEF Blocks
<1>13. mainHas => mainFd' = mainFd
  <2>1. mainHas => connfd \in Block /\ mainUses(connfd)
    BY <1>2 DEF EchoInv, Places, mainHas, mainUses
  <2> QED BY <1>1, <1>2, <1>3, <1>6, <2>1 DEF mainFd, world, server
<1>14. Descriptors' /\ \A v \in Worker : works(v) => peerOf(v)' = peerOf(v)
  BY <1>1, <1>2, <1>7, <1>13, OwnersMoved DEF EchoInv, server
<1>15. PICK c \in Client : c = peerOf(w)
  BY <1>1, PeerFacts
<1>16. Lines'
  <2>1. conn[c].read = conn[c].echoed /\ conn[c].read <= conn[c].sent /\ conn[c].echoed \in Nat
    BY <1>1, <1>15, PeerFacts DEF EchoInv, Lines
  <2>2. /\ conn'[c].read <= conn'[c].sent /\ conn'[c].at = conn[c].at
        /\ conn'[c].read = conn'[c].echoed + (IF worker'[w].at = "write" THEN 1 ELSE 0)
        /\ worker'[w].at \notin {"closelisten", "lookup", "close"}
    BY <1>1, <1>4, <2>1
  <2> QED BY <1>1, <1>4, <1>7, <1>13, <1>14, <1>15, <2>2, LinesFollow
<1> QED BY <1>9, <1>10, <1>11, <1>12, <1>14, <1>16 DEF EchoInv

\* The child closes the listening descriptor, not its connection.
LEMMA CloseListenKeeps ==
  ASSUME EchoInv, NEW w \in Worker, CloseListenfd(w)
  PROVE  EchoInv'
<1>1. /\ worker[w].at = "closelisten" /\ works(w) /\ ~uses(w)
      /\ worker' = [worker EXCEPT ![w].at = "lookup"] /\ table' = [table EXCEPT ![w][3] = Free]
      /\ UNCHANGED <<world, server, heap, conn>>
  BY DEF CloseListenfd, workerIs, works, uses, rest
<1>2. program = "fork" /\ 3 \in Fd /\ w \in Process /\ w # main
  <2>1. program = "fork"
    BY <1>1 DEF EchoInv, Typed, Places
  <2> QED BY <2>1, Setting, ThreeIsFd DEF EchoInv
<1>3. /\ table' \in [Process -> [Fd -> EntryType]]
      /\ \A g \in Fd \ {3} : table'[w][g] = table[w][g]
      /\ table'[w][3] = Free /\ table[w][3] = Listener
      /\ \A q \in Process \ {w} : table'[q] = table[q]
  <2>1. Free \in EntryType
    BY DEF EntryType
  <2>2. Typed /\ table[w][3] = Listener
    BY <1>1 DEF EchoInv, Descriptors
  <2> QED BY <1>1, <1>2, <2>1, <2>2, EntryIsSet
<1>4. /\ worker' \in [Worker -> WorkerType]
      /\ worker'[w].at = "lookup" /\ worker'[w].fd = worker[w].fd /\ worker'[w].arg = worker[w].arg
      /\ \A v \in Worker \ {w} : worker'[v] = worker[v]
  BY <1>1, WorkerMoves DEF EchoInv, Stage
<1>5. \A v \in Worker : /\ works(v)' <=> works(v)
                        /\ uses(v)' <=> uses(v)
                        /\ uses(v) => worker'[v].arg = worker[v].arg
                        /\ fdOf(v)' = fdOf(v) /\ worker'[v].fd = worker[v].fd
                        /\ worker'[v].at = "none" <=> worker[v].at = "none"
                        /\ worker'[v].at = "closelisten" => worker[v].at = "closelisten" /\ v # w
                        /\ worker'[v].at \in {worker[v].at, "lookup"}
  BY <1>1, <1>4 DEF works, uses, fdOf
<1>6. \A b \in Block : mainUses(b)' <=> mainUses(b)
  BY <1>1 DEF mainUses, world, server
<1>7. Typed'
  BY <1>1, <1>3, <1>4 DEF EchoInv, Typed, world, server
<1>8. Places'
  BY <1>1, <1>2, <1>5 DEF EchoInv, Places, world, server
<1>9. Counted' /\ Blocks'
  BY <1>1, <1>5, <1>6, CountedKept, BlocksKept DEF EchoInv, server
<1>10. \A v \in Worker : works(v) => peerOf(v)' = peerOf(v)
  <2>1. works(w) => fdOf(w) # 3
    BY <1>1, <1>2, <1>3, Setting DEF EchoInv, Descriptors, peerOf, home
  <2>2. \A v \in Worker : works(v) => fdOf(v) \in Fd /\ v \in Process
    BY Setting DEF EchoInv, Descriptors
  <2> QED BY <1>1, <1>2, <1>3, <1>5, <2>1, <2>2 DEF peerOf, home, world
<1>11. mainFd' = mainFd /\ table'[main] = table[main] /\ (mainHas' <=> mainHas)
  BY <1>1, <1>2, <1>3, Setting DEF mainFd, mainHas, world, server
<1>12. Descriptors'
  <2>1. \A v \in Worker, f \in Fd : table'[v][f] \in Client => table[v][f] \in Client
    BY <1>3, Setting
  <2>2. \A p \in Process, f \in Fd, c \in Client : table'[p][f] = c => table[p][f] = c
    BY <1>3, Setting
  <2>3. \A v \in Worker : worker'[v].at = "closelisten" => table'[v][3] = Listener
    BY <1>3, <1>5, Setting DEF EchoInv, Descriptors
  <2> QED BY <1>1, <1>5, <1>10, <1>11, <2>1, <2>2, <2>3 DEF EchoInv, Descriptors, world, server
<1>13. Lines'
  BY <1>1, <1>5, <1>10, <1>11 DEF EchoInv, Lines, mayEnd, server
<1> QED BY <1>7, <1>8, <1>9, <1>12, <1>13 DEF EchoInv

-----------------------------------------------------------------------------
(* A worker ends.                                                           *)

\* The others keep what they have.
Leaves(w) ==
  /\ \A v \in Worker : works(v)' <=> (works(v) /\ v # w)
  /\ \A v \in Worker : works(v)' => peerOf(v)' = peerOf(v)
  /\ mainHas' <=> mainHas
  /\ mainHas => table'[main][mainFd'] = table[main][mainFd]
  /\ at' = "down" <=> at = "down"

LEMMA LeavingKeeps ==
  ASSUME EchoInv, Typed', NEW w \in Worker,
         works(w) \/ (program = "fork" /\ worker[w].at = "exit"), ~uses(w),
         worker'[w].at \in {"exit", "zombie", "gone"},
         program # "fork" => worker'[w].at = "gone",
         \A v \in Worker \ {w} : worker'[v] = worker[v],
         UNCHANGED <<world, connfd, made, heap, conn>>,
         at' = (IF program = "iterative" THEN "accept" ELSE at),
         \A q \in Process \ {home(w)} : table'[q] = table[q],
         \A f \in Fd \ {fdOf(w)} : \/ table'[home(w)][f] = table[home(w)][f]
                                   \/ program = "fork" /\ table'[w][f] = Free,
         fdOf(w) \in Fd => table'[home(w)][fdOf(w)] = Free,
         works(w) => mayEnd(peerOf(w))
  PROVE  EchoInv' /\ Leaves(w)
<1>1. worker[w].at \notin {"none", "zombie", "gone"} /\ ~works(w)' /\ ~uses(w)'
  BY DEF works, uses
<1>2. \A v \in Worker : /\ works(v)' <=> (works(v) /\ v # w)
                        /\ uses(v)' <=> uses(v)
                        /\ uses(v) => v # w
                        /\ v # w => worker'[v] = worker[v] /\ fdOf(v)' = fdOf(v)
                        /\ worker'[v].at = "none" <=> worker[v].at = "none"
  BY <1>1 DEF works, uses, fdOf
<1>3. home(w) \in Process /\ (program = "fork" => home(w) = w /\ w # main)
      /\ (program # "fork" => home(w) = main)
  BY Setting DEF home
<1>4. /\ program = "iterative" => at = "busy" /\ \A v \in Worker : works(v) => v = w
      /\ program # "fork" => works(w) /\ at # "down" /\ at # "close" /\ at # "start"
  <2>1. program # "fork" => works(w)
    OBVIOUS
  <2>2. program = "iterative" => at = "busy" /\ \A v \in Worker : works(v) => v = w
    BY <2>1 DEF EchoInv, Places
  <2>3. program # "fork" => at # "down" /\ at # "close" /\ at # "start"
    <3>1. program \in {"iterative", "fork", "thread"}
      BY DEF EchoInv, Typed
    <3>2. at = "start" => ~works(w)
      <4>1. at = "start" => worker[w].at = "none"
        BY Setting DEF EchoInv, Places
      <4> QED BY <4>1 DEF works
    <3> QED BY <2>1, <3>1, <3>2 DEF EchoInv, Places
  <2> QED BY <2>1, <2>2, <2>3
<1>5. \A b \in Block : mainUses(b)' <=> mainUses(b)
  BY DEF mainUses, world
<1>6. Places'
  <2>1. program = "fork" => \A v \in Worker : worker'[v].at \notin {"fetch", "free"}
    BY <1>2 DEF EchoInv, Places, uses
  <2>2. program = "thread" => \A v \in Worker :
           worker'[v].at \in {"none", "fetch", "free", "read", "write", "close", "gone"}
    BY DEF EchoInv, Places
  <2>3. program = "iterative" => \A v \in Worker :
           ~works(v)' /\ worker'[v].at \in {"none", "lookup", "read", "write", "close", "gone"}
    BY <1>2, <1>4 DEF EchoInv, Places
  <2> QED BY <1>2, <1>4, <2>1, <2>2, <2>3 DEF EchoInv, Places, world
<1>7. Counted'
  BY <1>4, CountedKept DEF EchoInv
<1>8. Blocks'
  <2>1. UNCHANGED <<world, heap>>
    OBVIOUS
  <2>2. \A v \in Worker : (uses(v)' <=> uses(v)) /\ (uses(v) => worker'[v].arg = worker[v].arg)
    BY <1>2
  <2> QED BY <1>5, <2>1, <2>2, BlocksKept DEF EchoInv
<1>9. \A v \in Worker : works(v)' => peerOf(v)' = peerOf(v) /\ fdOf(v) \in Fd
  <2> SUFFICES ASSUME NEW v \in Worker, works(v)' PROVE peerOf(v)' = peerOf(v) /\ fdOf(v) \in Fd
    OBVIOUS
  <2>1. works(v) /\ v # w /\ fdOf(v)' = fdOf(v) /\ fdOf(v) \in Fd
    BY <1>2 DEF EchoInv, Descriptors
  <2>2. CASE program = "fork"
    <3>1. home(v)' = v /\ home(v) = v /\ v \in Process \ {home(w)}
      BY <1>3, <2>1, <2>2, Setting DEF home, world
    <3> QED BY <2>1, <3>1 DEF peerOf
  <2>3. CASE program # "fork"
    <3>1. home(v)' = main /\ home(v) = main /\ home(w) = main
      BY <1>3, <2>3 DEF home, world
    <3>2. peerOf(v) # peerOf(w)
      BY <1>4, <2>1, <2>3 DEF EchoInv, Descriptors
    <3>3. fdOf(v) # fdOf(w)
      BY <3>1, <3>2 DEF peerOf
    <3> QED BY <2>1, <2>3, <3>1, <3>3 DEF peerOf
  <2> QED BY <2>2, <2>3
<1>10. mainFd' = mainFd /\ (mainHas' => mainHas /\ at' = at) /\ (at' = "handover" => at = "handover")
  BY DEF mainFd, mainHas, world
<1>11. mainHas' => mainFd \in Fd /\ table'[main][mainFd] = table[main][mainFd]
  <2> SUFFICES ASSUME mainHas' PROVE mainFd \in Fd /\ table'[main][mainFd] = table[main][mainFd]
    OBVIOUS
  <2>1. mainFd \in Fd /\ mainHas
    BY <1>10 DEF EchoInv, Descriptors
  <2>2. CASE program = "fork"
    BY <1>3, <2>1, <2>2, Setting
  <2>3. CASE program # "fork"
    <3>1. at = "handover" /\ works(w)
      BY <1>4, <2>1, <2>3 DEF mainHas
    <3>2. peerOf(w) # table[main][mainFd] /\ home(w) = main
      BY <1>3, <2>3, <3>1 DEF EchoInv, Descriptors
    <3>3. mainFd # fdOf(w)
      BY <3>2 DEF peerOf
    <3> QED BY <2>1, <2>3, <3>2, <3>3
  <2> QED BY <2>2, <2>3
<1>12. \A p \in Process, f \in Fd : table'[p][f] \in {table[p][f], Free}
  BY <1>3, Setting
<1>13. Descriptors'
  <2>1. at' \notin {"start", "down"} => table'[main][3] = Listener
    <3>1. at' \notin {"start", "down"} => at \notin {"start", "down"}
      BY <1>4
    <3>2. CASE program = "fork"
      BY <1>3, <3>1, <3>2, Setting DEF EchoInv, Descriptors
    <3>3. CASE program # "fork"
      <4>1. peerOf(w) \in Client /\ home(w) = main /\ fdOf(w) \in Fd /\ table[main][3] = Listener
        BY <1>3, <1>4, <3>3 DEF EchoInv, Descriptors
      <4>2. fdOf(w) # 3 /\ 3 \in Fd
        BY <4>1, Setting, ThreeIsFd DEF peerOf, EchoInv
      <4> QED BY <3>3, <4>1, <4>2
    <3> QED BY <3>2, <3>3
  <2>2. at' = "down" => \A f \in Fd : table'[main][f] = Free
    BY <1>4, <1>12, Setting DEF EchoInv, Descriptors
  <2>3. \A v \in Worker : works(v)' => fdOf(v)' \in Fd /\ peerOf(v)' \in Client
    BY <1>2, <1>9 DEF EchoInv, Descriptors
  <2>4. \A v \in Worker : worker'[v].at = "closelisten" => table'[v][3] = Listener
    <3> SUFFICES ASSUME NEW v \in Worker, worker'[v].at = "closelisten" PROVE table'[v][3] = Listener
      OBVIOUS
    <3>1. v # w /\ worker[v].at = "closelisten"
      OBVIOUS
    <3>2. v # home(w) /\ v \in Process /\ table[v][3] = Listener
      BY <1>3, <3>1, Setting DEF EchoInv, Descriptors
    <3> QED BY <3>2
  <2>5. mainHas' => mainFd' \in Fd /\ table'[main][mainFd'] \in Client
    BY <1>10, <1>11 DEF EchoInv, Descriptors
  <2>6. ASSUME NEW f \in Fd, table'[main][f] \in Client
        PROVE  \/ mainHas' /\ f = mainFd'
               \/ program' # "fork" /\ \E v \in Worker : works(v)' /\ f = fdOf(v)'
    <3>1. table[main][f] \in Client
      BY <1>12, <2>6, Setting
    <3>2. CASE mainHas /\ f = mainFd
      <4>1. at' = at
        BY <1>4, <3>2 DEF mainHas
      <4> QED BY <1>10, <3>2, <4>1 DEF mainHas
    <3>3. CASE program # "fork" /\ \E v \in Worker : works(v) /\ f = fdOf(v)
      <4>1. PICK v \in Worker : works(v) /\ f = fdOf(v)
        BY <3>3
      <4>2. v # w
        BY <1>3, <2>6, <3>3, <4>1, Setting
      <4> QED BY <1>2, <3>3, <4>1, <4>2 DEF world
    <3> QED BY <3>1, <3>2, <3>3 DEF EchoInv, Descriptors
  <2>7. ASSUME NEW v \in Worker, NEW f \in Fd, table'[v][f] \in Client
        PROVE  program' = "fork" /\ works(v)' /\ f = worker'[v].fd
    <3>1. table[v][f] \in Client
      BY <1>12, <2>7, Setting
    <3>2. program = "fork" /\ works(v) /\ f = worker[v].fd
      BY <3>1 DEF EchoInv, Descriptors
    <3>3. v # w
      <4>1. fdOf(w) = worker[w].fd
        BY DEF fdOf, uses
      <4> QED BY <1>3, <2>7, <3>2, <4>1, Setting
    <3> QED BY <1>2, <3>2, <3>3 DEF world
  <2>8. \A u, v \in Worker : works(u)' /\ works(v)' /\ u # v => peerOf(u)' # peerOf(v)'
    BY <1>2, <1>9 DEF EchoInv, Descriptors
  <2>9. at' = "handover" => \A v \in Worker : works(v)' => peerOf(v)' # table'[main][mainFd']
    <3>1. at' = "handover" => mainHas'
      BY DEF mainHas
    <3> QED BY <1>2, <1>9, <1>10, <1>11, <3>1 DEF EchoInv, Descriptors
  <2>10. ASSUME NEW p \in Process, NEW f \in Fd, NEW c \in Client, table'[p][f] = c
         PROVE  conn'[c].at = "accepted"
    <3>1. table[p][f] = c
      BY <1>12, <2>10, Setting
    <3> QED BY <3>1 DEF EchoInv, Descriptors
  <2> QED BY <2>1, <2>2, <2>3, <2>4, <2>5, <2>6, <2>7, <2>8, <2>9, <2>10 DEF Descriptors
<1>14. Lines'
  <2>1. at' = "handover" =>
            conn'[table'[main][mainFd']].read = 0 /\ conn'[table'[main][mainFd']].echoed = 0
    <3>1. at' = "handover" => mainHas'
      BY DEF mainHas
    <3> QED BY <1>10, <1>11, <3>1 DEF EchoInv, Lines
  <2>2. ASSUME at' = "close"
        PROVE  \/ mayEnd(table[main][connfd])'
               \/ \E v \in Worker : works(v)' /\ peerOf(v)' = table'[main][connfd']
    <3>1. mainHas' /\ at = "close" /\ program = "fork"
      BY <1>4, <2>2 DEF mainHas
    <3>2. table'[main] = table[main] /\ connfd' = connfd
      BY <1>3, <3>1, Setting
    <3>3. ASSUME NEW c, c = table[main][connfd], mayEnd(c) PROVE mayEnd(table[main][connfd])'
      BY <3>2, <3>3 DEF mayEnd
    <3>4. CASE mayEnd(table[main][connfd])
      BY <3>3, <3>4
    <3>5. ASSUME NEW v \in Worker, works(v), peerOf(v) = table[main][connfd]
          PROVE  \/ mayEnd(table[main][connfd])'
                 \/ works(v)' /\ peerOf(v)' = table'[main][connfd']
      <4>1. CASE v = w
        BY <3>3, <3>5, <4>1
      <4>2. CASE v # w
        BY <1>2, <1>9, <3>2, <3>5, <4>2
      <4> QED BY <4>1, <4>2
    <3> QED BY <3>1, <3>4, <3>5 DEF EchoInv, Lines
  <2>3. \A v \in Worker : works(v)' =>
       /\ conn'[peerOf(v)'].read = conn'[peerOf(v)'].echoed + (IF worker'[v].at = "write" THEN 1 ELSE 0)
       /\ worker'[v].at \in {"closelisten", "lookup"} => conn'[peerOf(v)'].echoed = 0
       /\ worker'[v].at = "close" =>
            conn'[peerOf(v)'].end = "shut" /\ conn'[peerOf(v)'].echoed = conn'[peerOf(v)'].sent
    BY <1>2, <1>9 DEF EchoInv, Lines
  <2>4. \A c \in Client : /\ conn'[c].read <= conn'[c].sent
                          /\ conn'[c].at # "accepted" => conn'[c].read = 0 /\ conn'[c].echoed = 0
    BY DEF EchoInv, Lines
  <2> QED BY <2>1, <2>2, <2>3, <2>4 DEF Lines
<1>15. Leaves(w)
  <2>1. mainHas' <=> mainHas
    BY <1>4, <1>10 DEF mainHas
  <2>2. at' = "down" <=> at = "down"
    BY <1>4
  <2> QED BY <1>2, <1>9, <1>10, <1>11, <2>1, <2>2 DEF Leaves
<1> QED BY <1>6, <1>7, <1>8, <1>13, <1>14, <1>15 DEF EchoInv

\* exit() of a child that serves no line any more.
LEMMA ChildEndKeeps ==
  ASSUME EchoInv, NEW w \in Worker, program = "fork", ChildEnds(w),
         works(w) \/ worker[w].at = "exit", works(w) => mayEnd(peerOf(w))
  PROVE  EchoInv' /\ Leaves(w)
<1>1. over("gone") \in WorkerType /\ over("zombie") \in WorkerType
      /\ over("gone").at = "gone" /\ over("zombie").at = "zombie"
  BY DEF over, WorkerType, Stage
<1>2. PICK r \in WorkerType : r.at \in {"zombie", "gone"} /\ worker' = [worker EXCEPT ![w] = r]
  BY <1>1 DEF ChildEnds
<1>3. /\ worker' \in [Worker -> WorkerType] /\ worker'[w].at \in {"zombie", "gone"}
      /\ \A v \in Worker \ {w} : worker'[v] = worker[v]
  BY <1>2, WorkerIsSet DEF EchoInv
<1>4. /\ table' \in [Process -> [Fd -> EntryType]]
      /\ \A f \in Fd : table'[w][f] = Free
      /\ \A q \in Process \ {w} : table'[q] = table[q]
  <2>1. emptyTable \in [Fd -> EntryType] /\ \A f \in Fd : emptyTable[f] = Free
    BY DEF emptyTable, EntryType
  <2>2. table' = [table EXCEPT ![w] = emptyTable] /\ w \in Process
    BY Setting DEF ChildEnds
  <2>3. table \in [Process -> [Fd -> EntryType]]
    BY DEF EchoInv, Typed
  <2> QED BY <2>1, <2>2, <2>3
<1>5. /\ UNCHANGED <<world, at, connfd, made, handler, heap, conn>> /\ sigchld' \in BOOLEAN
  BY DEF ChildEnds
<1>6. Typed'
  BY <1>3, <1>4, <1>5 DEF EchoInv, Typed, world
<1>7. ~uses(w) /\ home(w) = w
  BY DEF uses, EchoInv, Places, home
<1> QED BY <1>3, <1>4, <1>5, <1>6, <1>7, LeavingKeeps

LEMMA CloseKeeps ==
  ASSUME EchoInv, NEW w \in Worker, CloseWorker(w)
  PROVE  EchoInv' /\ Leaves(w) /\ works(w) /\ mayEnd(peerOf(w))
<1>1. worker[w].at = "close" /\ works(w) /\ ~uses(w) /\ fdOf(w) = worker[w].fd
  BY DEF CloseWorker, workerIs, works, uses, fdOf
<1>2. fdOf(w) \in Fd /\ home(w) \in Process /\ Free \in EntryType
  BY <1>1, Setting DEF EchoInv, Descriptors, home, EntryType
<1>3. /\ table' \in [Process -> [Fd -> EntryType]]
      /\ table'[home(w)][fdOf(w)] = Free
      /\ \A f \in Fd \ {fdOf(w)} : table'[home(w)][f] = table[home(w)][f]
      /\ \A q \in Process \ {home(w)} : table'[q] = table[q]
  BY <1>1, <1>2, EntryIsSet DEF CloseWorker, EchoInv
<1>4. over("gone") \in WorkerType /\ over("exit") \in WorkerType
      /\ over("gone").at = "gone" /\ over("exit").at = "exit"
  BY DEF over, WorkerType, Stage
<1>5. PICK r \in WorkerType : /\ r.at = (IF program = "fork" THEN "exit" ELSE "gone")
                              /\ worker' = [worker EXCEPT ![w] = r]
  BY <1>4 DEF CloseWorker
<1>6. /\ worker' \in [Worker -> WorkerType]
      /\ worker'[w].at = (IF program = "fork" THEN "exit" ELSE "gone")
      /\ \A v \in Worker \ {w} : worker'[v] = worker[v]
  BY <1>5, WorkerIsSet DEF EchoInv
<1>7. /\ UNCHANGED <<world, connfd, made, sigchld, handler, heap, conn>>
      /\ at' = (IF program = "iterative" THEN "accept" ELSE at)
  BY DEF CloseWorker
<1>8. Typed'
  BY <1>3, <1>6, <1>7 DEF EchoInv, Typed, world
<1>9. mayEnd(peerOf(w))
  BY <1>1 DEF EchoInv, Lines, mayEnd
<1> QED BY <1>1, <1>3, <1>6, <1>7, <1>8, <1>9, LeavingKeeps


-----------------------------------------------------------------------------
(* The server ends, and with it every worker that is not a process.         *)

\* What becomes of the workers when the server ends.
LEMMA WhoIsLeft ==
  ASSUME EchoInv, ServerEnds
  PROVE  /\ worker' \in [Worker -> WorkerType]
         /\ \A w \in Worker : /\ works(w)' <=> (works(w) /\ program = "fork")
                              /\ ~uses(w)'
                              /\ works(w)' => worker'[w] = worker[w] /\ fdOf(w)' = fdOf(w)
                              /\ worker'[w].at = "none" <=> worker[w].at = "none"
                              /\ worker'[w].at \in {worker[w].at, "gone"}
         /\ table' \in [Process -> [Fd -> EntryType]]
         /\ \A f \in Fd : table'[main][f] = Free
         /\ \A w \in Worker : w \in Process \ {main} /\ table'[w] = table[w]
         /\ \A w \in Worker : works(w)' => peerOf(w)' = peerOf(w) /\ home(w) = w
<1>1. /\ over("gone") \in WorkerType /\ over("gone").at = "gone"
      /\ worker \in [Worker -> WorkerType] /\ table \in [Process -> [Fd -> EntryType]]
  BY DEF over, WorkerType, Stage, EchoInv, Typed
<1>2. \A w \in Worker : worker'[w] =
          IF worker[w].at = "none" \/ (program = "fork" /\ live(w)) THEN worker[w] ELSE over("gone")
  BY DEF ServerEnds
<1>3. worker' \in [Worker -> WorkerType]
  <2>1. worker' = [w \in Worker |->
                   IF worker[w].at = "none" \/ (program = "fork" /\ live(w)) THEN worker[w]
                   ELSE over("gone")]
    BY DEF ServerEnds
  <2> QED BY <1>1, <2>1
<1>4. \A w \in Worker : /\ works(w)' <=> (works(w) /\ program = "fork")
                        /\ works(w)' => worker'[w] = worker[w]
                        /\ worker'[w].at = "none" <=> worker[w].at = "none"
                        /\ worker'[w].at \in {worker[w].at, "gone"}
  BY <1>1, <1>2 DEF works, live
<1>5. \A w \in Worker : ~uses(w)'
  <2>1. \A w \in Worker : program = "fork" => worker[w].at \notin {"fetch", "free"}
    BY DEF EchoInv, Places
  <2> QED BY <1>1, <1>2, <2>1 DEF uses
<1>6. \A w \in Worker : works(w)' => fdOf(w)' = fdOf(w)
  BY <1>4, <1>5 DEF fdOf, uses
<1>7. /\ table' \in [Process -> [Fd -> EntryType]]
      /\ \A f \in Fd : table'[main][f] = Free
      /\ \A w \in Worker : w \in Process \ {main} /\ table'[w] = table[w]
  <2>1. emptyTable \in [Fd -> EntryType] /\ \A f \in Fd : emptyTable[f] = Free
    BY DEF emptyTable, EntryType
  <2>2. table' = [table EXCEPT ![main] = emptyTable]
    BY DEF ServerEnds
  <2> QED BY <1>1, <2>1, <2>2, Setting
<1>8. \A w \in Worker : works(w)' => peerOf(w)' = peerOf(w) /\ home(w) = w
  <2>1. program' = program
    BY DEF ServerEnds, world
  <2> QED BY <1>4, <1>6, <1>7, <2>1 DEF peerOf, home
<1> QED BY <1>3, <1>4, <1>5, <1>6, <1>7, <1>8

LEMMA ServerEndsKeeps ==
  ASSUME EchoInv, ServerEnds
  PROVE  EchoInv'
<1>1. /\ worker' \in [Worker -> WorkerType]
      /\ \A w \in Worker : /\ works(w)' <=> (works(w) /\ program = "fork")
                           /\ ~uses(w)'
                           /\ works(w)' => worker'[w] = worker[w] /\ fdOf(w)' = fdOf(w)
                           /\ worker'[w].at = "none" <=> worker[w].at = "none"
                           /\ worker'[w].at \in {worker[w].at, "gone"}
      /\ table' \in [Process -> [Fd -> EntryType]]
      /\ \A f \in Fd : table'[main][f] = Free
      /\ \A w \in Worker : w \in Process \ {main} /\ table'[w] = table[w]
      /\ \A w \in Worker : works(w)' => peerOf(w)' = peerOf(w) /\ home(w) = w
  BY WhoIsLeft
<1>2. /\ at' = "down" /\ connfd' = 0 /\ sigchld' = FALSE /\ handler' = FALSE
      /\ heap' = [b \in Block |-> unallocated]
      /\ UNCHANGED <<program, limit, made, conn>>
  BY DEF ServerEnds, world
<1>3. Typed'
  <2>1. unallocated \in BlockType
    BY DEF unallocated, BlockType
  <2>2. heap' \in [Block -> BlockType]
    BY <1>2, <2>1
  <2> QED BY <1>1, <1>2, <2>2 DEF EchoInv, Typed
<1>4. Places'
  <2>1. program = "fork" => \A w \in Worker : worker'[w].at \notin {"fetch", "free"}
    BY <1>1 DEF uses
  <2>2. program = "thread" => \A w \in Worker :
           worker'[w].at \in {"none", "fetch", "free", "read", "write", "close", "gone"}
    BY <1>1 DEF EchoInv, Places
  <2>3. program = "iterative" => \A w \in Worker :
           worker'[w].at \in {"none", "lookup", "read", "write", "close", "gone"}
    BY <1>1 DEF EchoInv, Places
  <2>4. \A w \in Worker : worker'[w].at = "none" <=> w > made'
    BY <1>1, <1>2 DEF EchoInv, Places
  <2> QED BY <1>1, <1>2, <2>1, <2>2, <2>3, <2>4 DEF Places
<1>5. Counted'
  BY <1>2 DEF Counted
<1>6. Blocks'
  BY <1>1, <1>2 DEF Blocks, unallocated, mainUses
<1>7. Descriptors'
  <2>1. \A w \in Worker : works(w)' => fdOf(w)' \in Fd /\ peerOf(w)' \in Client
    BY <1>1 DEF EchoInv, Descriptors
  <2>2. \A w \in Worker : worker'[w].at = "closelisten" => table'[w][3] = Listener
    BY <1>1 DEF EchoInv, Descriptors
  <2>3. \A w \in Worker, f \in Fd : table'[w][f] \in Client =>
          program' = "fork" /\ works(w)' /\ f = worker'[w].fd
    BY <1>1, <1>2 DEF EchoInv, Descriptors
  <2>4. \A v, w \in Worker : works(v)' /\ works(w)' /\ v # w => peerOf(v)' # peerOf(w)'
    BY <1>1 DEF EchoInv, Descriptors
  <2>5. \A f \in Fd : table'[main][f] \notin Client
    BY <1>1, Setting
  <2>6. ASSUME NEW p \in Process, NEW f \in Fd, NEW c \in Client, table'[p][f] = c
        PROVE  conn'[c].at = "accepted"
    <3>1. p # main /\ p \in Worker
      BY <2>5, <2>6 DEF Process
    <3>2. table[p][f] = c
      BY <1>1, <2>6, <3>1
    <3> QED BY <1>2, <3>2 DEF EchoInv, Descriptors
  <2> QED BY <1>1, <1>2, <2>1, <2>2, <2>3, <2>4, <2>5, <2>6 DEF Descriptors, mainHas
<1>8. Lines'
  <2>1. \A w \in Worker : works(w)' =>
       /\ conn'[peerOf(w)'].read = conn'[peerOf(w)'].echoed + (IF worker'[w].at = "write" THEN 1 ELSE 0)
       /\ worker'[w].at \in {"closelisten", "lookup"} => conn'[peerOf(w)'].echoed = 0
       /\ worker'[w].at = "close" =>
            conn'[peerOf(w)'].end = "shut" /\ conn'[peerOf(w)'].echoed = conn'[peerOf(w)'].sent
    BY <1>1, <1>2 DEF EchoInv, Lines
  <2> QED BY <1>2, <2>1 DEF EchoInv, Lines
<1> QED BY <1>3, <1>4, <1>5, <1>6, <1>7, <1>8 DEF EchoInv

\* unix_error or dns_error in a worker that need not go on.
LEMMA FailingKeeps ==
  ASSUME EchoInv, NEW w \in Worker, works(w), mayEnd(peerOf(w)), WorkerFails(w)
  PROVE  EchoInv'
<1>1. CASE program = "fork"
  BY <1>1, ChildEndKeeps DEF WorkerFails
<1>2. CASE program # "fork"
  BY <1>2, ServerEndsKeeps DEF WorkerFails
<1> QED BY <1>1, <1>2

\* When a worker fails.
LEMMA MayFail ==
  ASSUME EchoInv, NEW w \in Worker,
         \/ workerIs(w, "lookup")
         \/ workerIs(w, "read") /\ conn[peer(w)].end = "reset"
         \/ workerIs(w, "write") /\ conn[peer(w)].end = "reset"
  PROVE  works(w) /\ mayEnd(peerOf(w))
<1>1. works(w) /\ worker[w].at # "fetch"
  BY DEF workerIs, works
<1>2. peer(w) = peerOf(w)
  BY <1>1, PeerFacts
<1> QED BY <1>1, <1>2 DEF EchoInv, Lines, mayEnd, workerIs

LEMMA WorkerKeeps ==
  ASSUME EchoInv, NEW w \in Worker, WorkerStep(w)
  PROVE  EchoInv'
<1>1. CASE CloseListenfd(w)
  BY <1>1, CloseListenKeeps
<1>2. CASE Gethostbyaddr(w)
  BY <1>2, LookupKeeps, MayFail, FailingKeeps DEF Gethostbyaddr
<1>3. CASE Fetch(w)
  BY <1>3, FetchKeeps
<1>4. CASE FreeBlock(w)
  BY <1>4, FreeKeeps
<1>5. CASE Read(w)
  <2>1. CASE conn[peer(w)].end = "reset" /\ WorkerFails(w)
    BY <1>5, <2>1, MayFail, FailingKeeps DEF Read
  <2> QED BY <1>5, <2>1, ReadLine, ReadEnd DEF Read
<1>6. CASE Write(w)
  <2>1. CASE conn[peer(w)].end = "reset" /\ WorkerFails(w)
    BY <1>6, <2>1, MayFail, FailingKeeps DEF Write
  <2> QED BY <1>6, <2>1, WriteLine DEF Write
<1>7. CASE CloseWorker(w)
  BY <1>7, CloseKeeps
<1>8. CASE Exit(w)
  <2>1. worker[w].at = "exit" /\ ChildEnds(w) /\ ~works(w)
    BY <1>8 DEF Exit, workerIs, works
  <2>2. program = "fork"
    BY <2>1 DEF EchoInv, Typed, Places
  <2> QED BY <2>1, <2>2, ChildEndKeeps
<1> QED BY <1>1, <1>2, <1>3, <1>4, <1>5, <1>6, <1>7, <1>8 DEF WorkerStep

-----------------------------------------------------------------------------
(* main() opens its socket, allocates a block and accepts a connection.     *)

LessThan == {ss \in Nat \X Nat : ss[1] < ss[2]}

LEMMA NatLeast ==
  ASSUME NEW S \in SUBSET Nat, S # {}
  PROVE  Least(S) \in S
<1>1. IsWellFoundedOn(LessThan, Nat)
  BY NatLessThanWellFounded DEF OpToRel, LessThan
<1>2. PICK x \in S : \A y \in S : ~(<<y, x>> \in LessThan)
  BY <1>1, WFMin
<1>3. ASSUME NEW y \in S PROVE x <= y
  <2>1. y < x => <<y, x>> \in LessThan
    BY DEF LessThan
  <2> QED BY <1>2, <2>1
<1> QED BY <1>3 DEF Least

\* Before the first connection there is no worker and no descriptor of one.
LEMMA OpenKeeps ==
  ASSUME EchoInv, Open_listenfd
  PROVE  EchoInv'
<1>1. /\ at = "start" /\ at' \in {"malloc", "accept"} /\ at' = loop
      /\ table' = [table EXCEPT ![main][3] = Listener]
      /\ UNCHANGED <<world, connfd, made, sigchld, handler, worker, heap, conn>>
  BY DEF Open_listenfd, mainIs, loop
<1>2. /\ made = 0 /\ \A w \in Worker : worker[w].at = "none" /\ ~works(w) /\ ~uses(w)
  BY <1>1, Setting DEF EchoInv, Places, works, uses
<1>3. \A w \in Worker : ~works(w)' /\ ~uses(w)'
  BY <1>1, <1>2 DEF works, uses
<1>4. \A p \in Process, f \in Fd : table[p][f] \notin Client
  BY <1>1, <1>2, Setting DEF EchoInv, Descriptors, mainHas, Process
<1>5. /\ table' \in [Process -> [Fd -> EntryType]] /\ table'[main][3] = Listener
      /\ \A p \in Process, f \in Fd : table'[p][f] \in {table[p][f], Listener}
  <2>1. Listener \in EntryType /\ main \in Process /\ 3 \in Fd /\ Typed
    BY Setting, ThreeIsFd DEF EntryType, EchoInv
  <2>2. PICK f \in Fd, x \in EntryType : /\ f = 3 /\ x = Listener
                                         /\ table' = [table EXCEPT ![main][f] = x]
    BY <1>1, <2>1
  <2>3. /\ table' \in [Process -> [Fd -> EntryType]] /\ table'[main][f] = x
        /\ \A g \in Fd \ {f} : table'[main][g] = table[main][g]
        /\ \A q \in Process \ {main} : table'[q] = table[q]
    BY <2>1, <2>2 DEF Typed
  <2> QED BY <2>2, <2>3
<1>6. \A p \in Process, f \in Fd : table'[p][f] \notin Client
  BY <1>4, <1>5, Setting
<1>7. Typed'
  BY <1>1, <1>5 DEF EchoInv, Typed, world
<1>8. Places'
  BY <1>1, <1>2, <1>3 DEF EchoInv, Places, world, loop, Typed
<1>9. Counted'
  BY <1>1, CountedKept DEF EchoInv
<1>10. Blocks'
  <2>1. \A b \in Block : ~heap[b].live
    BY <1>1, <1>2 DEF EchoInv, Blocks, mainUses
  <2>2. \A b \in Block : ~mainUses(b)'
    <3>1. program = "thread" => at' = "malloc"
      BY <1>1 DEF loop
    <3>2. program \in {"iterative", "fork", "thread"} /\ program' = program
      BY <1>1 DEF EchoInv, Typed, world
    <3> QED BY <3>1, <3>2 DEF mainUses, loop
  <2> QED BY <1>1, <1>3, <2>1, <2>2 DEF Blocks
<1>11. Descriptors'
  <2>1. \A w \in Worker : worker'[w].at # "closelisten" /\ w \in Process
    BY <1>1, <1>2, Setting
  <2> QED BY <1>1, <1>3, <1>5, <1>6, <2>1, Setting DEF Descriptors, mainHas
<1>12. Lines'
  BY <1>1, <1>3 DEF EchoInv, Lines
<1> QED BY <1>7, <1>8, <1>9, <1>10, <1>11, <1>12 DEF EchoInv

\* There are more blocks than workers, and each has one at most.
LEMMA BlockIsFree ==
  ASSUME EchoInv, mainIs("malloc")
  PROVE  Least({b \in Block : ~heap[b].live}) \in {b \in Block : ~heap[b].live}
<1> DEFINE user == [b \in Block |-> CHOOSE w \in Worker : uses(w) /\ worker[w].arg = b]
<1>1. ASSUME \A b \in Block : heap[b].live PROVE FALSE
  <2>1. \A b \in Block : \E w \in Worker : uses(w) /\ worker[w].arg = b
    BY <1>1 DEF EchoInv, Blocks, mainIs, mainUses
  <2>2. user \in [Block -> Worker] /\ \A b \in Block : uses(user[b]) /\ worker[user[b]].arg = b
    BY <2>1
  <2>3. /\ IsFiniteSet(Block) /\ IsFiniteSet(Worker)
        /\ Cardinality(Worker) = Cardinality(Client) /\ Cardinality(Block) = Cardinality(Client) + 1
    BY Setting, FS_Interval DEF Block, Worker
  <2>4. Cardinality(Worker) < Cardinality(Block)
    BY <2>3, Setting
  <2> HIDE DEF user
  <2>5. PICK x \in Block, y \in Block : x # y /\ user[x] = user[y]
    BY <2>2, <2>3, <2>4, FS_PigeonHole
  <2> QED BY <2>2, <2>5
<1>2. {b \in Block : ~heap[b].live} # {}
  BY <1>1
<1>3. {b \in Block : ~heap[b].live} \in SUBSET Nat
  BY Setting
<1> HIDE DEF user
<1> QED BY <1>2, <1>3, NatLeast

LEMMA MallocKeeps ==
  ASSUME EchoInv, Malloc
  PROVE  EchoInv'
<1>1. PICK b \in Block : /\ ~heap[b].live
                         /\ heap' = [heap EXCEPT ![b].live = TRUE] /\ connfd' = b
  <2>1. mainIs("malloc") /\ malloc(Least({b \in Block : ~heap[b].live}))
    BY DEF Malloc
  <2>2. PICK b : b = Least({a \in Block : ~heap[a].live})
    BY Zenon
  <2>3. b \in Block /\ ~heap[b].live /\ malloc(b)
    BY <2>1, <2>2, BlockIsFree
  <2> QED BY <2>3 DEF malloc
<1>2. /\ at = "malloc" /\ at' = "accept"
      /\ UNCHANGED <<world, made, sigchld, handler, worker, table, conn>>
  BY DEF Malloc, mainIs
<1>3. program = "thread"
  BY <1>2 DEF EchoInv, Typed, Places
<1>4. /\ heap' \in [Block -> BlockType] /\ heap'[b].live
      /\ \A a \in Block : heap'[a].fd = heap[a].fd
      /\ \A a \in Block \ {b} : heap'[a] = heap[a]
  BY <1>1 DEF EchoInv, Typed, BlockType
<1>5. \A w \in Worker : (uses(w)' <=> uses(w)) /\ (works(w)' <=> works(w))
                        /\ (uses(w) => worker[w].arg \in Block \ {b})
  BY <1>1, <1>2 DEF EchoInv, Blocks, uses, works
<1>6. \A w \in Worker : works(w) => fdOf(w)' = fdOf(w) /\ peerOf(w)' = peerOf(w)
  <2>1. \A w \in Worker : worker[w].at = "fetch" => worker[w].arg \in Block
    BY <1>5 DEF uses
  <2>2. \A w \in Worker : works(w) => fdOf(w)' = fdOf(w)
    BY <1>2, <1>4, <2>1 DEF fdOf
  <2> QED BY <1>2, <2>2 DEF peerOf, home, world
<1>7. Typed'
  BY <1>1, <1>2, <1>4 DEF EchoInv, Typed, world
<1>8. Places'
  BY <1>1, <1>2, <1>3, <1>5 DEF EchoInv, Places, world
<1>9. Counted'
  BY <1>2, CountedKept DEF EchoInv
<1>10. Blocks'
  <2>1. \A a \in Block : mainUses(a)' <=> a = b
    BY <1>1, <1>2, <1>3 DEF mainUses, world
  <2>2. \A a \in Block : ~mainUses(a)
    BY <1>2 DEF mainUses
  <2>3. \A w \in Worker : uses(w)' => worker'[w].arg \in Block \ {b} /\ heap'[worker'[w].arg].live
    BY <1>2, <1>4, <1>5 DEF EchoInv, Blocks
  <2>4. \A a \in Block \ {b} : heap'[a].live => \E w \in Worker : uses(w)' /\ worker'[w].arg = a
    BY <1>2, <1>4, <1>5, <2>2 DEF EchoInv, Blocks
  <2> QED BY <1>2, <1>4, <1>5, <2>1, <2>3, <2>4 DEF EchoInv, Blocks
<1>11. Descriptors'
  BY <1>2, <1>3, <1>5, <1>6 DEF EchoInv, Descriptors, mainHas, world
<1>12. Lines'
  BY <1>2, <1>5, <1>6 DEF EchoInv, Lines
<1> QED BY <1>7, <1>8, <1>9, <1>10, <1>11, <1>12 DEF EchoInv

\* Accept: the connection is of no process yet, its descriptor is new.
LEMMA AcceptFacts ==
  ASSUME EchoInv, Accept
  PROVE  \E c \in Client, f \in Fd :
           /\ conn[c].at = "waiting" /\ table[main][f] = Free
           /\ conn' = [conn EXCEPT ![c].at = "accepted"]
           /\ table' = [table EXCEPT ![main][f] = c]
           /\ program = "thread" => /\ heap' = [heap EXCEPT ![connfd].fd = f]
                                    /\ connfd' = connfd /\ connfd \in Block
           /\ program # "thread" => connfd' = f /\ heap' = heap
<1>1. PICK f : f = Least(freeFds(main))
  BY Zenon
<1>2. f \in Fd /\ table[main][f] = Free
  <2>1. freeFds(main) # {} /\ freeFds(main) \in SUBSET Nat
    BY Setting DEF Accept, freeFds
  <2>2. f \in freeFds(main)
    BY <1>1, <2>1, NatLeast
  <2> QED BY <2>2 DEF freeFds
<1>3. at = "accept"
  BY DEF Accept, mainIs
<1>4. program = "thread" => connfd \in Block
  BY <1>3 DEF EchoInv, Places
<1>5. PICK c \in Client :
         /\ conn[c].at = "waiting"
         /\ conn' = [conn EXCEPT ![c].at = "accepted"]
         /\ table' = [table EXCEPT ![main][f] = c]
         /\ IF program = "thread"
              THEN heap' = [heap EXCEPT ![connfd].fd = f] /\ UNCHANGED connfd
              ELSE connfd' = f /\ UNCHANGED heap
  BY <1>1 DEF Accept
<1> QED BY <1>2, <1>4, <1>5

LEMMA AcceptKeeps ==
  ASSUME EchoInv, Accept
  PROVE  EchoInv'
<1>1. PICK c \in Client, f \in Fd :
           /\ conn[c].at = "waiting" /\ table[main][f] = Free
           /\ conn' = [conn EXCEPT ![c].at = "accepted"]
           /\ table' = [table EXCEPT ![main][f] = c]
           /\ program = "thread" => /\ heap' = [heap EXCEPT ![connfd].fd = f]
                                    /\ connfd' = connfd /\ connfd \in Block
           /\ program # "thread" => connfd' = f /\ heap' = heap
  BY AcceptFacts
<1>2. /\ at = "accept" /\ at' = "handover"
      /\ UNCHANGED <<program, limit, made, sigchld, handler, worker>>
  BY DEF Accept, mainIs, world
<1>3. /\ conn' \in [Client -> ConnType]
      /\ conn'[c].at = "accepted" /\ conn'[c].end = conn[c].end /\ conn'[c].sent = conn[c].sent
      /\ conn'[c].read = conn[c].read /\ conn'[c].echoed = conn[c].echoed
      /\ \A d \in Client \ {c} : conn'[d] = conn[d]
  BY <1>1 DEF EchoInv, Typed, ConnType
<1>4. /\ table' \in [Process -> [Fd -> EntryType]] /\ table'[main][f] = c
      /\ \A g \in Fd \ {f} : table'[main][g] = table[main][g]
      /\ \A q \in Process \ {main} : table'[q] = table[q]
  <2>1. main \in Process /\ c \in EntryType /\ table \in [Process -> [Fd -> EntryType]]
    BY Setting DEF EntryType, EchoInv, Typed
  <2> QED BY <1>1, <2>1
<1>5. /\ heap' \in [Block -> BlockType]
      /\ \A b \in Block : heap'[b].live = heap[b].live
      /\ \A b \in Block : (program = "thread" => b # connfd) => heap'[b] = heap[b]
      /\ program = "thread" => heap'[connfd].fd = f
  <2>1. heap \in [Block -> BlockType]
    BY DEF EchoInv, Typed
  <2>2. CASE program = "thread"
    BY <1>1, <2>1, <2>2 DEF BlockType
  <2>3. CASE program # "thread"
    BY <1>1, <2>1, <2>3
  <2> QED BY <2>2, <2>3
<1>6. \A b \in Block : mainUses(b)' <=> mainUses(b)
  BY <1>1, <1>2 DEF mainUses
<1>7. \A w \in Worker : (works(w)' <=> works(w)) /\ (uses(w)' <=> uses(w))
  BY <1>2 DEF works, uses
<1>8. \A w \in Worker : worker[w].at = "fetch" => program = "thread" /\ worker[w].arg \in Block \ {connfd}
  <2>1. ASSUME NEW w \in Worker, worker[w].at = "fetch"
        PROVE  program = "thread" /\ worker[w].arg \in Block \ {connfd}
    <3>1. program = "thread" /\ uses(w)
      BY <2>1 DEF EchoInv, Typed, Places, uses
    <3>2. mainUses(connfd)
      BY <1>2, <3>1 DEF mainUses
    <3> QED BY <1>1, <3>1, <3>2 DEF EchoInv, Blocks
  <2> QED BY <2>1
<1>9. \A w \in Worker : works(w) => /\ fdOf(w)' = fdOf(w) /\ fdOf(w) \in Fd
                                    /\ peerOf(w)' = peerOf(w) /\ peerOf(w) \in Client
                                    /\ peerOf(w) # c
  <2> SUFFICES ASSUME NEW w \in Worker, works(w)
               PROVE  /\ fdOf(w)' = fdOf(w) /\ fdOf(w) \in Fd
                      /\ peerOf(w)' = peerOf(w) /\ peerOf(w) \in Client
                      /\ peerOf(w) # c
    OBVIOUS
  <2>1. fdOf(w)' = fdOf(w)
    BY <1>2, <1>5, <1>8 DEF fdOf
  <2>2. fdOf(w) \in Fd /\ peerOf(w) \in Client /\ home(w) \in Process
    BY Setting DEF EchoInv, Descriptors, home
  <2>3. home(w) = main => fdOf(w) # f
    BY <1>1, <2>2, Setting DEF peerOf
  <2>4. home(w)' = home(w) /\ table'[home(w)][fdOf(w)] = table[home(w)][fdOf(w)]
    BY <1>2, <1>4, <2>2, <2>3 DEF home
  <2>5. conn[peerOf(w)].at = "accepted"
    BY <2>2 DEF EchoInv, Descriptors, peerOf
  <2> QED BY <1>1, <2>1, <2>2, <2>4, <2>5 DEF peerOf
<1>10. mainFd' = f /\ mainHas' /\ ~mainHas
  BY <1>1, <1>2, <1>5 DEF mainFd, mainHas
<1>11. Typed'
  <2>1. connfd' \in Fd \cup Block \cup {0}
    BY <1>1 DEF EchoInv, Typed
  <2> QED BY <1>2, <1>3, <1>4, <1>5, <2>1 DEF EchoInv, Typed
<1>12. Places'
  <2>1. program = "iterative" => \A w \in Worker : ~works(w)
    BY <1>2 DEF EchoInv, Places
  <2> QED BY <1>1, <1>2, <1>7, <2>1 DEF EchoInv, Places
<1>13. Counted'
  <2>1. accepted' = accepted \cup {c} /\ c \notin accepted
    BY <1>1, <1>3 DEF accepted
  <2>2. IsFiniteSet(accepted)
    BY EchoAssumption, FS_Subset DEF accepted
  <2>3. Cardinality(accepted') = Cardinality(accepted) + 1
    BY <2>1, <2>2, FS_AddElement
  <2>4. made \in Nat
    BY Setting DEF EchoInv, Typed
  <2>5. Cardinality(accepted) = made
    BY <1>2, <2>4 DEF EchoInv, Counted
  <2> QED BY <1>2, <2>3, <2>4, <2>5 DEF Counted
<1>14. Blocks'
  <2>1. \A w \in Worker : uses(w)' => worker'[w].arg \in Block /\ heap'[worker'[w].arg].live
    BY <1>2, <1>5, <1>7 DEF EchoInv, Blocks
  <2>2. \A v, w \in Worker : uses(v)' /\ uses(w)' /\ worker'[v].arg = worker'[w].arg => v = w
    BY <1>2, <1>7 DEF EchoInv, Blocks
  <2> QED BY <1>2, <1>5, <1>6, <1>7, <2>1, <2>2 DEF EchoInv, Blocks
<1>15. Descriptors'
  <2>1. table'[main][3] = Listener
    <3>1. table[main][3] = Listener /\ 3 \in Fd
      BY <1>2, ThreeIsFd DEF EchoInv, Descriptors
    <3> QED BY <1>1, <1>4, <3>1, Setting
  <2>2. \A w \in Worker : works(w)' => fdOf(w)' \in Fd /\ peerOf(w)' \in Client
    BY <1>7, <1>9
  <2>3. \A w \in Worker : worker'[w].at = "closelisten" => table'[w][3] = Listener
    BY <1>2, <1>4, Setting DEF EchoInv, Descriptors
  <2>4. ASSUME NEW g \in Fd, table'[main][g] \in Client
        PROVE  \/ mainHas' /\ g = mainFd'
               \/ program' # "fork" /\ \E w \in Worker : works(w)' /\ g = fdOf(w)'
    <3>1. CASE g = f
      BY <1>10, <3>1
    <3>2. CASE g # f
      <4>1. table[main][g] \in Client
        BY <1>4, <2>4, <3>2
      <4>2. program # "fork" /\ \E w \in Worker : works(w) /\ g = fdOf(w)
        BY <1>10, <4>1 DEF EchoInv, Descriptors
      <4> QED BY <1>2, <1>7, <1>9, <4>2
    <3> QED BY <3>1, <3>2
  <2>5. \A w \in Worker, g \in Fd : table'[w][g] \in Client =>
            program' = "fork" /\ works(w)' /\ g = worker'[w].fd
    BY <1>2, <1>4, <1>7, Setting DEF EchoInv, Descriptors
  <2>6. \A v, w \in Worker : works(v)' /\ works(w)' /\ v # w => peerOf(v)' # peerOf(w)'
    BY <1>7, <1>9 DEF EchoInv, Descriptors
  <2>7. \A w \in Worker : works(w)' => peerOf(w)' # table'[main][mainFd']
    BY <1>4, <1>7, <1>9, <1>10
  <2>8. ASSUME NEW p \in Process, NEW g \in Fd, NEW d \in Client, table'[p][g] = d
        PROVE  conn'[d].at = "accepted"
    <3>1. CASE d = c
      BY <1>3, <3>1
    <3>2. CASE d # c
      <4>1. table[p][g] = d
        BY <1>4, <2>8, <3>2
      <4> QED BY <1>3, <3>2, <4>1 DEF EchoInv, Descriptors
    <3> QED BY <3>1, <3>2
  <2> QED BY <1>2, <1>4, <1>10, <2>1, <2>2, <2>3, <2>4, <2>5, <2>6, <2>7, <2>8 DEF Descriptors
<1>16. Lines'
  <2>1. conn[c].read = 0 /\ conn[c].echoed = 0
    BY <1>1 DEF EchoInv, Lines
  <2>2. \A d \in Client : conn'[d].read <= conn'[d].sent
    BY <1>3 DEF EchoInv, Lines
  <2>3. \A d \in Client : conn'[d].at # "accepted" => conn'[d].read = 0 /\ conn'[d].echoed = 0
    BY <1>3 DEF EchoInv, Lines
  <2>4. ASSUME NEW w \in Worker, works(w)'
        PROVE  /\ conn'[peerOf(w)'].read = conn'[peerOf(w)'].echoed
                                             + (IF worker'[w].at = "write" THEN 1 ELSE 0)
               /\ worker'[w].at \in {"closelisten", "lookup"} => conn'[peerOf(w)'].echoed = 0
               /\ worker'[w].at = "close" =>
                    conn'[peerOf(w)'].end = "shut" /\ conn'[peerOf(w)'].echoed = conn'[peerOf(w)'].sent
    <3>1. works(w) /\ peerOf(w)' = peerOf(w) /\ conn'[peerOf(w)] = conn[peerOf(w)]
      BY <1>3, <1>7, <1>9, <2>4
    <3> QED BY <1>2, <3>1 DEF EchoInv, Lines
  <2> QED BY <1>2, <1>3, <1>4, <1>10, <2>1, <2>2, <2>3, <2>4 DEF Lines
<1> QED BY <1>11, <1>12, <1>13, <1>14, <1>15, <1>16 DEF EchoInv

-----------------------------------------------------------------------------
(* main() hands the connection over.                                        *)

\* Fork, Pthread_create and Serve.
Begins(w, r) ==
  /\ w = made + 1 /\ made' = w /\ worker' = [worker EXCEPT ![w] = r]
  /\ r.at = (CASE program = "fork" -> "closelisten"
               [] program = "thread" -> "fetch"
               [] OTHER -> "lookup")
  /\ r.fd = (IF program = "thread" THEN 0 ELSE connfd)
  /\ r.arg = (IF program = "thread" THEN connfd ELSE 0)
  /\ at' = (CASE program = "fork" -> "close"
              [] program = "thread" -> "malloc"
              [] OTHER -> "busy")
  /\ table' = (IF program = "fork" THEN [table EXCEPT ![w] = table[main]] ELSE table)
  /\ UNCHANGED <<program, limit, connfd, sigchld, handler, heap, conn>>

\* A connection was accepted for each worker and for this one: it is not one too many.
LEMMA HandOverFacts ==
  ASSUME EchoInv, Fork \/ Pthread_create \/ Serve
  PROVE  /\ at = "handover" /\ (program # "thread" => connfd \in Fd)
         /\ (program = "thread" => connfd \in Block)
         /\ \E w \in Worker, r \in WorkerType : Begins(w, r)
<1>1. at = "handover" /\ mainHas
  BY DEF Fork, Pthread_create, Serve, mainIs, mainHas
<1>2. (program # "thread" => connfd \in Fd) /\ (program = "thread" => connfd \in Block)
  <2>1. mainFd \in Fd
    BY <1>1 DEF EchoInv, Descriptors
  <2> QED BY <1>1, <2>1 DEF mainFd, EchoInv, Places
<1>3. made \in Nat /\ made + 1 \in Worker
  <2>1. made \in Nat
    BY Setting DEF EchoInv, Typed
  <2>2. Cardinality(accepted) = made + 1
    BY <1>1 DEF EchoInv, Counted
  <2>3. Cardinality(accepted) <= Cardinality(Client)
    BY EchoAssumption, FS_Subset DEF accepted
  <2> QED BY <2>1, <2>2, <2>3, Setting DEF Worker
<1>4. PICK w \in Worker : w = made + 1
  BY <1>3
<1>5. ASSUME NEW a \in Stage, NEW d \in Fd \cup {0}, NEW b \in Block \cup {0}
      PROVE  [at |-> a, fd |-> d, arg |-> b] \in WorkerType
  BY DEF WorkerType
<1>6. CASE Fork
  <2> DEFINE r == [at |-> "closelisten", fd |-> connfd, arg |-> 0]
  <2>1. r \in WorkerType
    BY <1>2, <1>5, <1>6 DEF Fork, Stage
  <2>2. Begins(w, r)
    BY <1>4, <1>6 DEF Begins, Fork, begin, world
  <2> QED BY <1>1, <1>2, <2>1, <2>2
<1>7. CASE Pthread_create
  <2> DEFINE r == [at |-> "fetch", fd |-> 0, arg |-> connfd]
  <2>1. r \in WorkerType
    BY <1>2, <1>5, <1>7 DEF Pthread_create, Stage
  <2>2. Begins(w, r)
    BY <1>4, <1>7 DEF Begins, Pthread_create, begin, world
  <2> QED BY <1>1, <1>2, <2>1, <2>2
<1>8. CASE Serve
  <2> DEFINE r == [at |-> "lookup", fd |-> connfd, arg |-> 0]
  <2>1. r \in WorkerType
    BY <1>2, <1>5, <1>8 DEF Serve, Stage
  <2>2. Begins(w, r)
    BY <1>4, <1>8 DEF Begins, Serve, begin, world
  <2> QED BY <1>1, <1>2, <2>1, <2>2
<1> QED BY <1>6, <1>7, <1>8

\* Nobody else changes, and the new worker has what main() accepted.
LEMMA BeginFacts ==
  ASSUME EchoInv, at = "handover", NEW w \in Worker, NEW r \in WorkerType, Begins(w, r)
  PROVE  /\ worker' \in [Worker -> WorkerType] /\ worker'[w] = r
         /\ worker[w].at = "none" /\ works(w)' /\ (uses(w)' <=> program = "thread")
         /\ table' \in [Process -> [Fd -> EntryType]] /\ table'[main] = table[main]
         /\ table'[w] = (IF program = "fork" THEN table[main] ELSE table[w])
         /\ \A q \in Process \ {w} : table'[q] = table[q]
         /\ fdOf(w)' = mainFd /\ mainFd' = mainFd /\ peerOf(w)' = table[main][mainFd]
         /\ mainFd \in Fd /\ table[main][mainFd] \in Client
         /\ \A v \in Worker \ {w} :
              /\ worker'[v] = worker[v] /\ (works(v)' <=> works(v)) /\ (uses(v)' <=> uses(v))
              /\ works(v) => /\ fdOf(v)' = fdOf(v) /\ fdOf(v) \in Fd
                             /\ peerOf(v)' = peerOf(v) /\ peerOf(v) \in Client
                             /\ peerOf(v) # table[main][mainFd]
<1>1. program \in {"iterative", "fork", "thread"} /\ table \in [Process -> [Fd -> EntryType]]
      /\ made \in Nat
  BY Setting DEF EchoInv, Typed
<1>2. /\ worker' \in [Worker -> WorkerType] /\ worker'[w] = r
      /\ \A v \in Worker \ {w} : worker'[v] = worker[v]
  BY WorkerIsSet DEF Begins, EchoInv
<1>3. worker[w].at = "none"
  BY <1>1 DEF Begins, EchoInv, Places
<1>4. works(w)' /\ (uses(w)' <=> program = "thread")
  BY <1>1, <1>2 DEF Begins, works, uses
<1>5. /\ table' \in [Process -> [Fd -> EntryType]] /\ table'[main] = table[main]
      /\ table'[w] = (IF program = "fork" THEN table[main] ELSE table[w])
      /\ \A q \in Process \ {w} : table'[q] = table[q]
  BY <1>1, Setting DEF Begins
<1>6. fdOf(w)' = mainFd /\ mainFd' = mainFd
  BY <1>1, <1>2 DEF Begins, fdOf, mainFd
<1>7. mainFd \in Fd /\ table[main][mainFd] \in Client
  BY DEF EchoInv, Descriptors, mainHas
<1>8. peerOf(w)' = table[main][mainFd]
  BY <1>1, <1>5, <1>6 DEF peerOf, home, Begins
<1>9. ASSUME NEW v \in Worker \ {w}
      PROVE  /\ (works(v)' <=> works(v)) /\ (uses(v)' <=> uses(v))
             /\ works(v) => /\ fdOf(v)' = fdOf(v) /\ fdOf(v) \in Fd
                            /\ peerOf(v)' = peerOf(v) /\ peerOf(v) \in Client
                            /\ peerOf(v) # table[main][mainFd]
  <2>1. worker'[v] = worker[v]
    BY <1>2
  <2>2. (works(v)' <=> works(v)) /\ (uses(v)' <=> uses(v))
    BY <2>1 DEF works, uses
  <2>3. fdOf(v)' = fdOf(v)
    BY <2>1 DEF fdOf, Begins
  <2>4. home(v)' = home(v) /\ table'[home(v)] = table[home(v)]
    BY <1>5, Setting DEF home, Begins
  <2>5. works(v) => fdOf(v) \in Fd /\ peerOf(v) \in Client /\ peerOf(v) # table[main][mainFd]
    BY DEF EchoInv, Descriptors
  <2> QED BY <2>2, <2>3, <2>4, <2>5 DEF peerOf
<1> QED BY <1>2, <1>3, <1>4, <1>5, <1>6, <1>7, <1>8, <1>9

LEMMA BeginKeeps ==
  ASSUME EchoInv, at = "handover", NEW w \in Worker, NEW r \in WorkerType, Begins(w, r)
  PROVE  EchoInv'
<1>1. /\ worker' \in [Worker -> WorkerType] /\ worker'[w] = r
      /\ worker[w].at = "none" /\ works(w)' /\ (uses(w)' <=> program = "thread")
      /\ table' \in [Process -> [Fd -> EntryType]] /\ table'[main] = table[main]
      /\ table'[w] = (IF program = "fork" THEN table[main] ELSE table[w])
      /\ \A q \in Process \ {w} : table'[q] = table[q]
      /\ fdOf(w)' = mainFd /\ mainFd' = mainFd /\ peerOf(w)' = table[main][mainFd]
      /\ mainFd \in Fd /\ table[main][mainFd] \in Client
  BY BeginFacts
<1>2. \A v \in Worker \ {w} :
              /\ worker'[v] = worker[v] /\ (works(v)' <=> works(v)) /\ (uses(v)' <=> uses(v))
              /\ works(v) => /\ fdOf(v)' = fdOf(v) /\ fdOf(v) \in Fd
                             /\ peerOf(v)' = peerOf(v) /\ peerOf(v) \in Client
                             /\ peerOf(v) # table[main][mainFd]
  BY BeginFacts
<1>3. /\ w = made + 1 /\ made' = w
      /\ UNCHANGED <<program, limit, connfd, sigchld, handler, heap, conn>>
      /\ at' = (CASE program = "fork" -> "close"
                  [] program = "thread" -> "malloc"
                  [] OTHER -> "busy")
      /\ r.at = (CASE program = "fork" -> "closelisten"
                   [] program = "thread" -> "fetch"
                   [] OTHER -> "lookup")
      /\ r.fd = (IF program = "thread" THEN 0 ELSE connfd)
      /\ r.arg = (IF program = "thread" THEN connfd ELSE 0)
  BY DEF Begins
<1>4. program \in {"iterative", "fork", "thread"} /\ made \in Nat
  BY Setting DEF EchoInv, Typed
<1>5. works(w) = FALSE /\ uses(w) = FALSE
  BY <1>1 DEF works, uses
<1>6. Typed'
  BY <1>1, <1>3, <1>4 DEF EchoInv, Typed
<1>7. Places'
  <2>1. \A v \in Worker : worker'[v].at = "none" <=> v > made'
    <3>1. worker'[w].at # "none"
      BY <1>1 DEF works
    <3>2. \A v \in Worker : worker[v].at = "none" <=> v > made
      BY DEF EchoInv, Places
    <3>3. \A v \in Worker \ {w} : v > made <=> v > made'
      BY <1>3, <1>4, Setting
    <3>4. ~(w > made')
      BY <1>3, <1>4
    <3> QED BY <1>2, <3>1, <3>2, <3>3, <3>4
  <2>2. CASE program = "fork"
    <3>1. \A v \in Worker : worker'[v].at \notin {"fetch", "free"}
      BY <1>1, <1>2, <1>3, <2>2 DEF EchoInv, Places
    <3> QED BY <1>3, <2>1, <2>2, <3>1 DEF Places
  <2>3. CASE program = "thread"
    <3>1. \A v \in Worker : worker'[v].at \in {"none", "fetch", "free", "read", "write", "close", "gone"}
      BY <1>1, <1>2, <1>3, <2>3 DEF EchoInv, Places
    <3> QED BY <1>3, <2>1, <2>3, <3>1 DEF EchoInv, Places
  <2>4. CASE program = "iterative"
    <3>1. \A v \in Worker : ~works(v)
      BY <2>4 DEF EchoInv, Places
    <3>2. \A v \in Worker : worker'[v].at \in {"none", "lookup", "read", "write", "close", "gone"}
      BY <1>1, <1>2, <1>3, <2>4 DEF EchoInv, Places
    <3> QED BY <1>2, <1>3, <2>1, <2>4, <3>1, <3>2 DEF Places
  <2> QED BY <1>4, <2>2, <2>3, <2>4
<1>8. Counted'
  <2>1. accepted' = accepted
    BY <1>3 DEF accepted
  <2>2. Cardinality(accepted) = made + 1 /\ at' # "handover"
    BY <1>3, <1>4 DEF EchoInv, Counted
  <2> QED BY <1>3, <1>4, <2>1, <2>2 DEF Counted
<1>9. Blocks'
  <2>1. \A b \in Block : ~mainUses(b)'
    BY <1>3 DEF mainUses
  <2>2. program = "thread" => connfd \in Block /\ mainUses(connfd) /\ worker'[w].arg = connfd
    BY <1>1, <1>3 DEF EchoInv, Places, mainUses
  <2>3. program = "thread" => /\ heap[connfd].live
                              /\ \A v \in Worker : uses(v) => worker[v].arg # connfd
    BY <2>2 DEF EchoInv, Blocks
  <2>4. \A v \in Worker : uses(v)' => worker'[v].arg \in Block /\ heap'[worker'[v].arg].live
    BY <1>1, <1>2, <1>3, <2>2, <2>3 DEF EchoInv, Blocks
  <2>5. \A u, v \in Worker : uses(u)' /\ uses(v)' /\ worker'[u].arg = worker'[v].arg => u = v
    BY <1>1, <1>2, <2>2, <2>3 DEF EchoInv, Blocks
  <2>6. ASSUME NEW b \in Block, heap'[b].live
        PROVE  \E v \in Worker : uses(v)' /\ worker'[v].arg = b
    <3>1. CASE mainUses(b)
      BY <1>1, <2>2, <3>1 DEF mainUses
    <3>2. CASE ~mainUses(b)
      <4>1. PICK v \in Worker : uses(v) /\ worker[v].arg = b
        BY <1>3, <2>6, <3>2 DEF EchoInv, Blocks
      <4> QED BY <1>2, <1>5, <4>1
    <3> QED BY <3>1, <3>2
  <2> QED BY <2>1, <2>4, <2>5, <2>6 DEF Blocks
<1>10. Descriptors'
  <2>1. table'[main][3] = Listener /\ table[main][3] = Listener
    BY <1>1 DEF EchoInv, Descriptors
  <2>2. at' # "down"
    BY <1>3, <1>4
  <2>3. \A v \in Worker : works(v)' => fdOf(v)' \in Fd /\ peerOf(v)' \in Client
    BY <1>1, <1>2
  <2>4. ASSUME NEW v \in Worker, worker'[v].at = "closelisten" PROVE table'[v][3] = Listener
    <3>1. CASE v = w
      BY <1>1, <1>3, <1>4, <2>1, <2>4, <3>1
    <3>2. CASE v # w
      BY <1>1, <1>2, <2>4, <3>2, Setting DEF EchoInv, Descriptors
    <3> QED BY <3>1, <3>2
  <2>5. mainHas' => mainFd' \in Fd /\ table'[main][mainFd'] \in Client
    BY <1>1
  <2>6. ASSUME NEW f \in Fd, table'[main][f] \in Client
        PROVE  \/ mainHas' /\ f = mainFd'
               \/ program' # "fork" /\ \E v \in Worker : works(v)' /\ f = fdOf(v)'
    <3>1. table[main][f] \in Client
      BY <1>1, <2>6
    <3>2. CASE f = mainFd
      BY <1>1, <1>3, <3>2 DEF mainHas
    <3>3. CASE program # "fork" /\ \E v \in Worker : works(v) /\ f = fdOf(v)
      BY <1>2, <1>3, <1>5, <3>3
    <3> QED BY <3>1, <3>2, <3>3 DEF EchoInv, Descriptors
  <2>7. ASSUME NEW v \in Worker, NEW f \in Fd, table'[v][f] \in Client
        PROVE  program' = "fork" /\ works(v)' /\ f = worker'[v].fd
    <3>1. CASE v # w
      <4>1. table[v][f] \in Client
        BY <1>1, <2>7, <3>1, Setting
      <4> QED BY <1>2, <1>3, <3>1, <4>1 DEF EchoInv, Descriptors
    <3>2. CASE v = w
      <4>1. program = "fork" /\ table[main][f] \in Client
        BY <1>1, <1>5, <2>7, <3>2 DEF EchoInv, Descriptors
      <4>2. f = mainFd /\ mainFd = connfd
        BY <4>1 DEF EchoInv, Descriptors, mainFd
      <4> QED BY <1>1, <1>3, <3>2, <4>1, <4>2
    <3> QED BY <3>1, <3>2
  <2>8. \A u, v \in Worker : works(u)' /\ works(v)' /\ u # v => peerOf(u)' # peerOf(v)'
    BY <1>1, <1>2 DEF EchoInv, Descriptors
  <2>9. at' # "handover"
    BY <1>3, <1>4
  <2>10. ASSUME NEW p \in Process, NEW f \in Fd, NEW c \in Client, table'[p][f] = c
         PROVE  conn'[c].at = "accepted"
    <3>1. PICK q \in Process : table[q][f] = c
      BY <1>1, <2>10, Setting
    <3> QED BY <1>3, <3>1 DEF EchoInv, Descriptors
  <2> QED BY <2>1, <2>2, <2>3, <2>4, <2>5, <2>6, <2>7, <2>8, <2>9, <2>10 DEF Descriptors
<1>11. Lines'
  <2>1. PICK c \in Client : c = table[main][mainFd]
    BY <1>1
  <2>2. conn[c].read = 0 /\ conn[c].echoed = 0
    BY <2>1 DEF EchoInv, Lines
  <2>3. ASSUME NEW v \in Worker, works(v)'
        PROVE  /\ conn'[peerOf(v)'].read = conn'[peerOf(v)'].echoed
                                             + (IF worker'[v].at = "write" THEN 1 ELSE 0)
               /\ worker'[v].at \in {"closelisten", "lookup"} => conn'[peerOf(v)'].echoed = 0
               /\ worker'[v].at = "close" =>
                    conn'[peerOf(v)'].end = "shut" /\ conn'[peerOf(v)'].echoed = conn'[peerOf(v)'].sent
    <3>1. CASE v = w
      <4>1. peerOf(v)' = c /\ worker'[v].at \in {"closelisten", "fetch", "lookup"}
        BY <1>1, <1>3, <2>1, <3>1
      <4> QED BY <1>3, <2>2, <4>1
    <3>2. CASE v # w
      BY <1>2, <1>3, <2>3, <3>2 DEF EchoInv, Lines
    <3> QED BY <3>1, <3>2
  <2>4. at' = "close" => works(w)' /\ peerOf(w)' = table'[main][connfd']
    <3>1. at' = "close" => program = "fork"
      BY <1>3, <1>4
    <3> QED BY <1>1, <1>3, <3>1 DEF mainFd
  <2>5. \A d \in Client : /\ conn'[d].read <= conn'[d].sent
                          /\ conn'[d].at # "accepted" => conn'[d].read = 0 /\ conn'[d].echoed = 0
    BY <1>3 DEF EchoInv, Lines
  <2>6. at' # "handover"
    BY <1>3, <1>4
  <2> QED BY <2>3, <2>4, <2>5, <2>6 DEF Lines
<1> QED BY <1>6, <1>7, <1>8, <1>9, <1>10, <1>11 DEF EchoInv

\* The parent of a child closes its copy of the connection.
LEMMA CloseConnfdKeeps ==
  ASSUME EchoInv, CloseConnfd
  PROVE  EchoInv'
<1>1. /\ at = "close" /\ at' = "accept" /\ table' = [table EXCEPT ![main][connfd] = Free]
      /\ UNCHANGED <<program, limit, connfd, made, sigchld, handler, worker, heap, conn>>
  BY DEF CloseConnfd, mainIs, world
<1>2. program = "fork" /\ connfd = mainFd /\ connfd \in Fd /\ table[main][connfd] \in Client
  <2>1. program = "fork"
    BY <1>1 DEF EchoInv, Typed, Places
  <2> QED BY <1>1, <2>1 DEF EchoInv, Descriptors, mainHas, mainFd
<1>3. /\ table' \in [Process -> [Fd -> EntryType]]
      /\ table'[main][connfd] = Free
      /\ \A g \in Fd \ {connfd} : table'[main][g] = table[main][g]
      /\ \A q \in Process \ {main} : table'[q] = table[q]
  <2>1. Free \in EntryType /\ main \in Process /\ table \in [Process -> [Fd -> EntryType]]
    BY Setting DEF EntryType, EchoInv, Typed
  <2> QED BY <1>1, <1>2, <2>1
<1>4. \A w \in Worker : (works(w)' <=> works(w)) /\ (uses(w)' <=> uses(w)) /\ fdOf(w)' = fdOf(w)
  BY <1>1 DEF works, uses, fdOf
<1>5. \A w \in Worker : works(w) => peerOf(w)' = peerOf(w)
  BY <1>1, <1>2, <1>3, <1>4, Setting DEF peerOf, home
<1>6. \A p \in Process, f \in Fd : table'[p][f] \in {table[p][f], Free}
  BY <1>3
<1>7. \A f \in Fd : table'[main][f] \notin Client
  <2>1. \A f \in Fd : table[main][f] \in Client => f = connfd
    BY <1>2 DEF EchoInv, Descriptors
  <2> QED BY <1>3, <2>1, Setting
<1>8. Typed'
  BY <1>1, <1>3 DEF EchoInv, Typed
<1>9. Places'
  BY <1>1, <1>2, <1>4 DEF EchoInv, Places
<1>10. Counted'
  BY <1>1, CountedKept DEF EchoInv
<1>11. Blocks'
  <2>1. \A b \in Block : ~mainUses(b) /\ ~mainUses(b)'
    BY <1>1, <1>2 DEF mainUses
  <2> QED BY <1>1, <1>4, <2>1 DEF EchoInv, Blocks
<1>12. Descriptors'
  <2>1. table'[main][3] = Listener
    <3>1. table[main][3] = Listener /\ 3 \in Fd
      BY <1>1, ThreeIsFd DEF EchoInv, Descriptors
    <3> QED BY <1>2, <1>3, <3>1, Setting
  <2>2. \A w \in Worker : works(w)' => fdOf(w)' \in Fd /\ peerOf(w)' \in Client
    BY <1>4, <1>5 DEF EchoInv, Descriptors
  <2>3. \A w \in Worker : worker'[w].at = "closelisten" => table'[w][3] = Listener
    BY <1>1, <1>3, Setting DEF EchoInv, Descriptors
  <2>4. \A w \in Worker, f \in Fd : table'[w][f] \in Client =>
            program' = "fork" /\ works(w)' /\ f = worker'[w].fd
    BY <1>1, <1>3, <1>4, Setting DEF EchoInv, Descriptors
  <2>5. \A v, w \in Worker : works(v)' /\ works(w)' /\ v # w => peerOf(v)' # peerOf(w)'
    BY <1>4, <1>5 DEF EchoInv, Descriptors
  <2>6. ASSUME NEW p \in Process, NEW f \in Fd, NEW c \in Client, table'[p][f] = c
        PROVE  conn'[c].at = "accepted"
    <3>1. table[p][f] = c
      BY <1>6, <2>6, Setting
    <3> QED BY <1>1, <3>1 DEF EchoInv, Descriptors
  <2> QED BY <1>1, <1>7, <2>1, <2>2, <2>3, <2>4, <2>5, <2>6 DEF Descriptors, mainHas
<1>13. Lines'
  BY <1>1, <1>4, <1>5 DEF EchoInv, Lines
<1> QED BY <1>8, <1>9, <1>10, <1>11, <1>12, <1>13 DEF EchoInv

-----------------------------------------------------------------------------
(* The invariant, and what follows from it.                                 *)

LEMMA InitEcho == Init => EchoInv
<1> SUFFICES ASSUME Init PROVE EchoInv
  OBVIOUS
<1>1. /\ program \in {"iterative", "fork", "thread"} /\ limit \in 5..OPEN_MAX
      /\ at = "start" /\ connfd = 0 /\ made = 0 /\ sigchld = FALSE /\ handler = FALSE
      /\ \A w \in Worker : worker[w].at = "none" /\ ~works(w) /\ ~uses(w)
      /\ \A p \in Process, f \in Fd : table[p][f] = Free
      /\ \A b \in Block : ~heap[b].live
      /\ \A c \in Client : conn[c].at = "away" /\ conn[c].read = 0 /\ conn[c].echoed = 0 /\ conn[c].sent = 0
  BY DEF Init, over, emptyTable, unallocated, works, uses
<1>2. worker \in [Worker -> WorkerType]
  <2>1. over("none") \in WorkerType
    BY DEF over, WorkerType, Stage
  <2> QED BY <2>1 DEF Init
<1>3. table \in [Process -> [Fd -> EntryType]]
  <2>1. emptyTable \in [Fd -> EntryType]
    BY DEF emptyTable, EntryType
  <2> QED BY <2>1 DEF Init
<1>4. heap \in [Block -> BlockType]
  <2>1. unallocated \in BlockType
    BY DEF unallocated, BlockType
  <2> QED BY <2>1 DEF Init
<1>5. conn \in [Client -> ConnType]
  <2>1. 0 \in 0..MaxLines
    BY Setting
  <2>2. [at |-> "away", end |-> "open", sent |-> 0, read |-> 0, echoed |-> 0] \in ConnType
    BY <2>1 DEF ConnType
  <2> QED BY <2>2 DEF Init
<1>6. Typed
  BY <1>1, <1>2, <1>3, <1>4, <1>5 DEF Typed
<1>7. Places
  BY <1>1, Setting DEF Places
<1>8. Counted
  <2>1. accepted = {}
    BY <1>1 DEF accepted
  <2> QED BY <1>1, <2>1, FS_EmptySet DEF Counted
<1>9. Blocks
  BY <1>1 DEF Blocks, mainUses
<1>10. Descriptors
  <2>1. \A p \in Process, f \in Fd : table[p][f] \notin Client
    BY <1>1, Setting
  <2> QED BY <1>1, <2>1, Setting DEF Descriptors, mainHas
<1>11. Lines
  BY <1>1 DEF Lines
<1> QED BY <1>6, <1>7, <1>8, <1>9, <1>10, <1>11 DEF EchoInv

LEMMA NextEcho == EchoInv /\ [Next]_vars => EchoInv'
<1> SUFFICES ASSUME EchoInv, [Next]_vars PROVE EchoInv'
  OBVIOUS
<1>1. CASE MainStep
  <2>1. CASE Fork \/ Pthread_create \/ Serve
    <3>1. at = "handover" /\ \E w \in Worker, r \in WorkerType : Begins(w, r)
      BY <2>1, HandOverFacts
    <3> QED BY <3>1, BeginKeeps
  <2> QED BY <1>1, <2>1, OpenKeeps, MallocKeeps, AcceptKeeps, CloseConnfdKeeps, ServerEndsKeeps
       DEF MainStep, AcceptFails
<1>2. CASE CallFails
  BY <1>2, ServerEndsKeeps DEF CallFails
<1>3. CASE HandlerStep
  BY <1>3, HandlerKeeps
<1>4. CASE \E w \in Worker : WorkerStep(w)
  BY <1>4, WorkerKeeps
<1>5. CASE \E c \in Client : ClientStep(c)
  BY <1>5, ClientKeeps
<1>6. CASE UNCHANGED vars
  BY <1>6, NothingMoves DEF vars, server, world, EchoInv, Typed
<1> QED BY <1>1, <1>2, <1>3, <1>4, <1>5, <1>6 DEF Next

\* The invariant that the theorems rest on.
LEMMA Inductive == Spec => []EchoInv
BY InitEcho, NextEcho, PTL DEF Spec

\* Every variable keeps its type: worker numbers and blocks never run out,
\* and no client gets more lines back than it sends.
THEOREM TypeCorrect == Spec => []TypeOK
<1>1. EchoInv => TypeOK
  BY TypedIsTypeOK DEF EchoInv
<1> QED BY <1>1, Inductive, PTL

\* echo() works on a connection that is open and its own, and each block that
\* malloc() returned has one owner, whatever main() and the threads do when.
THEOREM EachConnectionHasOneWorker == Spec => []OneWorkerPerConnection
<1>1. ASSUME EchoInv PROVE OneWorkerPerConnection
  <2> DEFINE inEcho == {w \in Worker : worker[w].at \in {"read", "write", "close"}}
  <2>1. \A w \in inEcho : worker[w].fd \in Fd /\ peer(w) \in Client /\ works(w) /\ peer(w) = peerOf(w)
    <3> SUFFICES ASSUME NEW w \in inEcho
                 PROVE  worker[w].fd \in Fd /\ peer(w) \in Client /\ works(w) /\ peer(w) = peerOf(w)
      OBVIOUS
    <3>1. works(w) /\ worker[w].at # "fetch" /\ w \in Worker
      BY DEF works
    <3>2. fdOf(w) \in Fd /\ fdOf(w) = worker[w].fd
      BY <1>1, <3>1 DEF EchoInv, Descriptors, fdOf
    <3> QED BY <1>1, <3>1, <3>2, PeerFacts
  <2>2. \A v, w \in inEcho : v # w => peer(v) # peer(w)
    BY <1>1, <2>1 DEF EchoInv, Descriptors
  <2>3. ASSUME at # "down", NEW b \in Block
        PROVE  Cardinality(usedBy(b)) + (IF program = "thread" /\ at \in {"accept", "handover"} /\ connfd = b
                                         THEN 1 ELSE 0)
                 = (IF heap[b].live THEN 1 ELSE 0)
    <3>1. usedBy(b) = {w \in Worker : uses(w) /\ worker[w].arg = b}
      BY DEF usedBy, uses
    <3>2. CASE mainUses(b)
      <4>1. heap[b].live /\ usedBy(b) = {}
        BY <1>1, <3>1, <3>2 DEF EchoInv, Blocks
      <4>2. Cardinality(usedBy(b)) = 0
        BY <4>1, FS_EmptySet
      <4> QED BY <3>2, <4>1, <4>2 DEF mainUses
    <3>3. CASE ~mainUses(b) /\ heap[b].live
      <4>1. PICK w \in Worker : uses(w) /\ worker[w].arg = b
        BY <1>1, <3>3 DEF EchoInv, Blocks
      <4>2. usedBy(b) = {w}
        BY <1>1, <3>1, <4>1 DEF EchoInv, Blocks
      <4>3. Cardinality(usedBy(b)) = 1
        BY <4>2, FS_Singleton
      <4> QED BY <3>3, <4>3 DEF mainUses
    <3>4. CASE ~mainUses(b) /\ ~heap[b].live
      <4>1. usedBy(b) = {}
        BY <1>1, <3>1, <3>4 DEF EchoInv, Blocks
      <4>2. Cardinality(usedBy(b)) = 0
        BY <4>1, FS_EmptySet
      <4> QED BY <3>4, <4>2 DEF mainUses
    <3> QED BY <3>2, <3>3, <3>4
  <2> QED BY <2>1, <2>2, <2>3 DEF OneWorkerPerConnection
<1> QED BY <1>1, Inductive, PTL

\* A process has no connection open but those it serves, hands over or closes:
\* Close() in the parent and in the children is never forgotten.
THEOREM NoDescriptorIsLeft == Spec => []NoStrayDescriptor
<1>1. ASSUME EchoInv PROVE NoStrayDescriptor
  <2>1. TypeOK
    BY <1>1, TypedIsTypeOK DEF EchoInv
  <2>2. \A w \in Worker : works(w) => live(w)
    BY DEF works, live
  <2>3. \A f \in Fd : table[main][f] \in Client =>
         \/ at \in {"handover", "close"} /\ f = IF program = "thread" THEN heap[connfd].fd ELSE connfd
         \/ program # "fork" /\ \E w \in Worker :
               /\ live(w)
               /\ f = IF worker[w].at = "fetch" THEN heap[worker[w].arg].fd ELSE worker[w].fd
    BY <1>1, <2>2 DEF EchoInv, Descriptors, mainHas, mainFd, fdOf
  <2>4. \A w \in Worker, f \in Fd : table[w][f] \in Client => f = worker[w].fd
    BY <1>1 DEF EchoInv, Descriptors
  <2> QED BY <2>1, <2>3, <2>4 DEF NoStrayDescriptor
<1> QED BY <1>1, Inductive, PTL

-----------------------------------------------------------------------------
(* Each server is the service.                                              *)

\* What a client sees of a connection.
LEMMA PhaseIs ==
  ASSUME NEW c \in Client
  PROVE  phase[c] = CASE conn[c].at # "accepted" -> conn[c].at
                      [] held(c) -> "open"
                      [] OTHER -> "closed"
BY DEF phase

\* A connection is open for as long as main() or a worker has it.
LEMMA HeldBy ==
  ASSUME EchoInv, NEW c \in Client
  PROVE  /\ held(c) <=> \/ mainHas /\ table[main][mainFd] = c
                        \/ \E w \in Worker : works(w) /\ peerOf(w) = c
         /\ held(c) => conn[c].at = "accepted" /\ phase[c] = "open"
<1>1. ASSUME mainHas /\ table[main][mainFd] = c PROVE held(c)
  BY <1>1, Setting DEF held, holds, EchoInv, Descriptors
<1>2. ASSUME NEW w \in Worker, works(w), peerOf(w) = c PROVE held(c)
  <2>1. home(w) \in Process /\ fdOf(w) \in Fd
    BY <1>2, Setting DEF EchoInv, Descriptors, home
  <2> QED BY <1>2, <2>1 DEF held, holds, peerOf
<1>3. ASSUME NEW p \in Process, NEW f \in Fd, table[p][f] = c
      PROVE  /\ \/ mainHas /\ table[main][mainFd] = c
                \/ \E w \in Worker : works(w) /\ peerOf(w) = c
             /\ conn[c].at = "accepted"
  <2>1. conn[c].at = "accepted"
    BY <1>3 DEF EchoInv, Descriptors
  <2>2. CASE p = main
    <3>1. \/ mainHas /\ f = mainFd
          \/ program # "fork" /\ \E w \in Worker : works(w) /\ f = fdOf(w)
      BY <1>3, <2>2 DEF EchoInv, Descriptors
    <3> QED BY <1>3, <2>1, <2>2, <3>1 DEF peerOf, home
  <2>3. CASE p \in Worker
    <3>1. program = "fork" /\ works(p) /\ f = worker[p].fd
      BY <1>3, <2>3 DEF EchoInv, Descriptors
    <3>2. fdOf(p) = f /\ home(p) = p
      BY <2>3, <3>1 DEF fdOf, home, EchoInv, Places
    <3> QED BY <1>3, <2>1, <2>3, <3>1, <3>2 DEF peerOf
  <2> QED BY <2>2, <2>3 DEF Process
<1>4. held(c) => \E p \in Process, f \in Fd : table[p][f] = c
  BY DEF held, holds
<1> QED BY <1>1, <1>2, <1>3, <1>4, PhaseIs

IsHeld == \A c \in Client :
            held(c) <=> \/ mainHas /\ table[main][mainFd] = c
                        \/ \E w \in Worker : works(w) /\ peerOf(w) = c

LEMMA HeldAll == EchoInv => IsHeld
BY HeldBy DEF IsHeld

LEMMA HeldNext == EchoInv' => IsHeld'
BY HeldAll, PTL

\* A step that opens and closes no connection changes no phase.
SameView ==
  /\ program' = program /\ (at' = "down" <=> at = "down")
  /\ \A c \in Client : /\ conn'[c].at = conn[c].at /\ conn'[c].end = conn[c].end
                        /\ conn'[c].sent = conn[c].sent /\ conn'[c].echoed = conn[c].echoed

LEMMA Unseen ==
  ASSUME SameView, \A c \in Client : held(c)' <=> held(c)
  PROVE  UNCHANGED Service!vars
<1>1. phase' = phase
  BY DEF SameView, phase
<1>2. UNCHANGED [c \in Client |-> conn[c].end]
  BY DEF SameView
<1>3. UNCHANGED [c \in Client |-> conn[c].sent]
  BY DEF SameView
<1>4. UNCHANGED [c \in Client |-> conn[c].echoed]
  BY DEF SameView
<1>5. UNCHANGED (program = "fork") /\ UNCHANGED (at = "down")
  BY DEF SameView
<1> QED BY <1>1, <1>2, <1>3, <1>4, <1>5 DEF Service!vars

\* The step that closes a connection ends it.
LEMMA Closed ==
  ASSUME EchoInv, SameView, NEW c \in Client, held(c), mayEnd(c),
         \A d \in Client \ {c} : held(d)' <=> held(d)
  PROVE  [Service!Next]_Service!vars
<1>1. CASE held(c)'
  BY <1>1, Unseen
<1>2. CASE ~held(c)'
  <2>1. phase[c] = "open" /\ conn[c].at = "accepted"
    BY HeldBy
  <2>2. phase' = [phase EXCEPT ![c] = "closed"]
    <3>1. ASSUME NEW d \in Client
          PROVE  phase'[d] = IF d = c THEN "closed" ELSE phase[d]
      <4>1. CASE d = c
        BY <1>2, <2>1, <4>1 DEF SameView, phase
      <4>2. CASE d # c
        BY <4>2 DEF SameView, phase
      <4> QED BY <4>1, <4>2
    <3>2. phase' = [d \in Client |-> phase'[d]] /\ DOMAIN phase = Client
      BY DEF phase
    <3> HIDE DEF phase
    <3> QED BY <3>1, <3>2
  <2>3. /\ UNCHANGED [d \in Client |-> conn[d].end]
        /\ UNCHANGED [d \in Client |-> conn[d].sent]
        /\ UNCHANGED [d \in Client |-> conn[d].echoed]
        /\ UNCHANGED (program = "fork") /\ UNCHANGED (at = "down")
    BY DEF SameView
  <2>4. \/ [d \in Client |-> conn[d].end][c] = "shut"
           /\ [d \in Client |-> conn[d].echoed][c] = [d \in Client |-> conn[d].sent][c]
        \/ [d \in Client |-> conn[d].end][c] = "reset"
        \/ [d \in Client |-> conn[d].echoed][c] = 0
    BY DEF mayEnd
  <2>5. Service!Finish(c)
    BY <2>1, <2>2, <2>3, <2>4 DEF Service!Finish
  <2> QED BY <2>5 DEF Service!Next
<1> QED BY <1>1, <1>2

\* A worker that leaves ends its connection, unless main() still has it.
LEMMA LeavingEnds ==
  ASSUME EchoInv, EchoInv', NEW w \in Worker, Leaves(w), works(w) => mayEnd(peerOf(w)),
         program' = program, conn' = conn
  PROVE  [Service!Next]_Service!vars
<1>1. SameView
  BY DEF SameView, Leaves
<1>2. \A d \in Client : /\ held(d) <=> \/ mainHas /\ table[main][mainFd] = d
                                       \/ \E v \in Worker : works(v) /\ peerOf(v) = d
                        /\ held(d)' <=> \/ mainHas' /\ table'[main][mainFd'] = d
                                        \/ \E v \in Worker : works(v)' /\ peerOf(v)' = d
  BY HeldAll, HeldNext DEF IsHeld
<1>3. \A d \in Client : (works(w) => d # peerOf(w)) => (held(d)' <=> held(d))
  BY <1>2 DEF Leaves
<1>4. CASE works(w)
  <2>1. PICK c \in Client : c = peerOf(w)
    BY <1>4, PeerFacts
  <2>2. held(c) /\ mayEnd(c)
    BY <1>2, <1>4, <2>1
  <2>3. \A d \in Client \ {c} : held(d)' <=> held(d)
    BY <1>3, <2>1
  <2> QED BY <1>1, <2>2, <2>3, Closed
<1>5. CASE ~works(w)
  BY <1>1, <1>3, <1>5, Unseen
<1> QED BY <1>4, <1>5

\* main() closes the connection: the child has it, or has ended.
LEMMA ParentCloses ==
  ASSUME EchoInv, CloseConnfd
  PROVE  [Service!Next]_Service!vars
<1>1. /\ at = "close" /\ at' = "accept" /\ table' = [table EXCEPT ![main][connfd] = Free]
      /\ UNCHANGED <<program, limit, connfd, made, sigchld, handler, worker, heap, conn>>
  BY DEF CloseConnfd, mainIs, world
<1>2. EchoInv' /\ SameView
  BY <1>1, CloseConnfdKeeps DEF SameView
<1>3. program = "fork" /\ connfd = mainFd /\ mainHas /\ table[main][connfd] \in Client /\ connfd \in Fd
  <2>1. program = "fork"
    BY <1>1 DEF EchoInv, Typed, Places
  <2> QED BY <1>1, <2>1 DEF EchoInv, Descriptors, mainHas, mainFd
<1>4. PICK c \in Client : c = table[main][connfd]
  BY <1>3
<1>5. held(c)
  BY <1>3, <1>4, HeldBy
<1>6. ASSUME NEW d \in Client \ {c} PROVE held(d)' <=> held(d)
  <2>1. \A p \in Process, f \in Fd : table'[p][f] = d <=> table[p][f] = d
    BY <1>1, <1>3, <1>4, Setting DEF EchoInv, Typed
  <2> QED BY <2>1 DEF held, holds
<1>7. CASE mayEnd(c)
  BY <1>2, <1>5, <1>6, <1>7, Closed
<1>8. ASSUME NEW w \in Worker, works(w), peerOf(w) = c PROVE held(c)'
  <2>1. works(w)' /\ fdOf(w)' = fdOf(w) /\ home(w)' = w /\ home(w) = w
    BY <1>1, <1>3, <1>8 DEF works, fdOf, home
  <2>2. w \in Process /\ fdOf(w) \in Fd /\ table'[w][fdOf(w)] = c
    BY <1>1, <1>8, <2>1, Setting DEF EchoInv, Typed, Descriptors, peerOf
  <2> QED BY <2>2 DEF held, holds
<1>9. ASSUME NEW w \in Worker, works(w), peerOf(w) = c PROVE [Service!Next]_Service!vars
  BY <1>2, <1>5, <1>6, <1>8, <1>9, Unseen
<1>10. mayEnd(c) \/ \E w \in Worker : works(w) /\ peerOf(w) = c
  <2>1. \/ mayEnd(table[main][connfd])
        \/ \E w \in Worker : works(w) /\ peerOf(w) = table[main][connfd]
    BY <1>1 DEF EchoInv, Lines
  <2> QED BY <1>4, <2>1
<1> QED BY <1>7, <1>9, <1>10

\* The server ends: only where connections depend on it do they end after an echo.
LEMMA ServerStops ==
  ASSUME EchoInv, ServerEnds, at # "down", at # "close"
  PROVE  [Service!Next]_Service!vars
<1> DEFINE cut == {c \in Client : held(c) /\ ~held(c)'}
<1>1. /\ at' = "down" /\ UNCHANGED <<program, limit, made, conn>>
  BY DEF ServerEnds, world
<1>2. EchoInv'
  BY ServerEndsKeeps
<1>3. /\ \A w \in Worker : /\ works(w)' <=> (works(w) /\ program = "fork")
                           /\ works(w)' => peerOf(w)' = peerOf(w)
      /\ ~mainHas'
  BY <1>1, WhoIsLeft DEF mainHas
<1>4. \A d \in Client : /\ held(d) <=> \/ mainHas /\ table[main][mainFd] = d
                                       \/ \E v \in Worker : works(v) /\ peerOf(v) = d
                        /\ held(d)' <=> \E v \in Worker : works(v)' /\ peerOf(v)' = d
  BY <1>2, <1>3, HeldAll, HeldNext DEF IsHeld
<1>5. \A d \in Client : held(d)' => held(d)
  BY <1>3, <1>4
<1>6. ASSUME program = "fork", NEW c \in cut PROVE conn[c].echoed = 0
  <2>1. mainHas /\ table[main][mainFd] = c
    BY <1>3, <1>4, <1>6
  <2>2. at = "handover"
    BY <2>1 DEF mainHas
  <2> QED BY <2>1, <2>2 DEF EchoInv, Lines
<1>7. cut \in SUBSET {c \in Client : phase[c] = "open"}
  BY HeldBy
<1>8. phase' = [c \in Client |-> IF c \in cut THEN "closed" ELSE phase[c]]
  <2>1. ASSUME NEW d \in Client
        PROVE  phase'[d] = IF d \in cut THEN "closed" ELSE phase[d]
    <3>1. held(d) => conn[d].at = "accepted"
      BY HeldBy
    <3> QED BY <1>1, <1>5, <3>1 DEF phase
  <2>2. phase' = [d \in Client |-> phase'[d]]
    BY DEF phase
  <2> HIDE DEF phase, cut
  <2> QED BY <2>1, <2>2
<1>9. program = "fork" => \A c \in cut : [d \in Client |-> conn[d].echoed][c] = 0
  BY <1>6
<1>10. /\ UNCHANGED [d \in Client |-> conn[d].end]
       /\ UNCHANGED [d \in Client |-> conn[d].sent]
       /\ UNCHANGED [d \in Client |-> conn[d].echoed]
       /\ UNCHANGED (program = "fork") /\ at # "down" /\ at' = "down"
  BY <1>1
<1> HIDE DEF cut
<1>11. Service!Stop
  BY <1>7, <1>8, <1>9, <1>10 DEF Service!Stop
<1> QED BY <1>11 DEF Service!Next

\* A client's step is that of the service.
LEMMA ClientServed ==
  ASSUME EchoInv, NEW c \in Client, ClientStep(c)
  PROVE  [Service!Next]_Service!vars
<1>1. /\ UNCHANGED <<program, at, table>> /\ conn \in [Client -> ConnType]
      /\ \A d \in Client : held(d)' <=> held(d)
  BY DEF ClientStep, Connect, Send, Hangup, unlessServer, world, server, held, holds, EchoInv, Typed
<1>2. phase[c] = "away" <=> conn[c].at = "away"
  <2>1. held(c) => conn[c].at = "accepted"
    BY HeldBy
  <2> QED BY <1>1, <2>1 DEF phase, ConnType
<1>3. CASE Connect(c)
  <2>1. /\ conn[c].at = "away" /\ conn' = [conn EXCEPT ![c].at = "waiting"]
        /\ at # "down"
    BY <1>3, Setting DEF Connect, holds, EchoInv, Descriptors
  <2>2. phase' = [phase EXCEPT ![c] = "waiting"]
    <3>1. ASSUME NEW d \in Client
          PROVE  phase'[d] = IF d = c THEN "waiting" ELSE phase[d]
      <4>1. CASE d = c
        <5>1. ~held(c) /\ ~held(c)' /\ conn'[c].at = "waiting"
          BY <1>1, <2>1, HeldBy DEF ConnType
        <5> QED BY <4>1, <5>1 DEF phase
      <4>2. CASE d # c
        BY <1>1, <2>1, <4>2 DEF phase
      <4> QED BY <4>1, <4>2
    <3>2. phase' = [d \in Client |-> phase'[d]] /\ DOMAIN phase = Client
      BY DEF phase
    <3> HIDE DEF phase
    <3> QED BY <3>1, <3>2
  <2>3. /\ UNCHANGED [d \in Client |-> conn[d].end]
        /\ UNCHANGED [d \in Client |-> conn[d].sent]
        /\ UNCHANGED [d \in Client |-> conn[d].echoed]
        /\ UNCHANGED (program = "fork") /\ UNCHANGED (at = "down")
    BY <1>1, <2>1
  <2>4. Service!Connect(c)
    BY <1>2, <2>1, <2>2, <2>3 DEF Service!Connect
  <2> QED BY <2>4 DEF Service!Next
<1>4. CASE Send(c)
  <2>1. /\ conn[c].at # "away" /\ conn[c].end = "open"
        /\ conn' = [conn EXCEPT ![c].sent = conn[c].sent + 1]
    BY <1>4 DEF Send
  <2>2. phase' = phase
    BY <1>1, <2>1 DEF phase, ConnType
  <2>3. [d \in Client |-> conn'[d].sent] = [[d \in Client |-> conn[d].sent] EXCEPT ![c] = @ + 1]
    BY <1>1, <2>1 DEF ConnType
  <2>4. /\ UNCHANGED [d \in Client |-> conn[d].end]
        /\ UNCHANGED [d \in Client |-> conn[d].echoed]
        /\ UNCHANGED (program = "fork") /\ UNCHANGED (at = "down")
    BY <1>1, <2>1 DEF ConnType
  <2>5. Service!Send(c)
    BY <1>2, <2>1, <2>2, <2>3, <2>4 DEF Service!Send
  <2> QED BY <2>5 DEF Service!Next
<1>5. CASE Hangup(c)
  <2>1. PICK e \in {"shut", "reset"} : /\ conn[c].at # "away" /\ conn[c].end = "open"
                                       /\ conn' = [conn EXCEPT ![c].end = e]
    BY <1>5 DEF Hangup
  <2>2. phase' = phase
    BY <1>1, <2>1 DEF phase, ConnType
  <2>3. [d \in Client |-> conn'[d].end] = [[d \in Client |-> conn[d].end] EXCEPT ![c] = e]
    BY <1>1, <2>1 DEF ConnType
  <2>4. /\ UNCHANGED [d \in Client |-> conn[d].sent]
        /\ UNCHANGED [d \in Client |-> conn[d].echoed]
        /\ UNCHANGED (program = "fork") /\ UNCHANGED (at = "down")
    BY <1>1, <2>1 DEF ConnType
  <2>5. Service!Hangup(c)
    BY <1>2, <2>1, <2>2, <2>3, <2>4 DEF Service!Hangup
  <2> QED BY <2>5 DEF Service!Next
<1> QED BY <1>3, <1>4, <1>5 DEF ClientStep

LEMMA AcceptServed ==
  ASSUME EchoInv, Accept
  PROVE  [Service!Next]_Service!vars
<1>1. PICK c \in Client, f \in Fd :
           /\ conn[c].at = "waiting" /\ table[main][f] = Free
           /\ conn' = [conn EXCEPT ![c].at = "accepted"]
           /\ table' = [table EXCEPT ![main][f] = c]
  BY AcceptFacts
<1>2. program' = program /\ at # "down" /\ at' # "down"
  BY DEF Accept, mainIs, world
<1>3. conn \in [Client -> ConnType] /\ table \in [Process -> [Fd -> EntryType]]
  BY DEF EchoInv, Typed
<1>4. held(c)'
  BY <1>1, <1>3, Setting DEF held, holds
<1>5. ASSUME NEW d \in Client \ {c} PROVE held(d)' <=> held(d)
  <2>1. \A p \in Process, g \in Fd : table'[p][g] = d <=> table[p][g] = d
    BY <1>1, <1>3, Setting
  <2> QED BY <2>1 DEF held, holds
<1>6. phase' = [phase EXCEPT ![c] = "open"] /\ phase[c] = "waiting"
  <2>1. ASSUME NEW d \in Client
        PROVE  phase'[d] = IF d = c THEN "open" ELSE phase[d]
    <3>1. CASE d = c
      BY <1>1, <1>3, <1>4, <3>1 DEF phase, ConnType
    <3>2. CASE d # c
      BY <1>1, <1>5, <3>2 DEF phase
    <3> QED BY <3>1, <3>2
  <2>2. phase[c] = "waiting"
    BY <1>1, HeldBy DEF phase
  <2>3. phase' = [d \in Client |-> phase'[d]] /\ DOMAIN phase = Client
    BY DEF phase
  <2> HIDE DEF phase
  <2> QED BY <2>1, <2>2, <2>3
<1>7. /\ UNCHANGED [d \in Client |-> conn[d].end]
      /\ UNCHANGED [d \in Client |-> conn[d].sent]
      /\ UNCHANGED [d \in Client |-> conn[d].echoed]
      /\ UNCHANGED (program = "fork") /\ UNCHANGED (at = "down")
  BY <1>1, <1>2, <1>3 DEF ConnType
<1>8. Service!Admit(c)
  BY <1>2, <1>6, <1>7 DEF Service!Admit
<1> QED BY <1>8 DEF Service!Next

\* A line comes back to the client that sent it.
LEMMA EchoServed ==
  ASSUME EchoInv, NEW w \in Worker, workerIs(w, "write"), peer(w) \in Client,
         conn' = [conn EXCEPT ![peer(w)].echoed = @ + 1],
         UNCHANGED <<world, server, table, heap>>
  PROVE  [Service!Next]_Service!vars
<1>1. worker[w].at = "write" /\ works(w)
  BY DEF workerIs, works
<1>2. PICK c \in Client : c = peerOf(w) /\ c = peer(w)
  BY <1>1, PeerFacts
<1>3. /\ conn[c] \in ConnType /\ conn[c].sent \in Nat
      /\ conn[c].read \in Nat /\ conn[c].echoed \in Nat /\ conn[c].read <= conn[c].sent
      /\ conn[c].read = conn[c].echoed + 1
  BY <1>1, <1>2, PeerFacts DEF EchoInv, Lines
<1>4. conn[c].echoed < conn[c].sent
  BY <1>3
<1>5. held(c) /\ phase[c] = "open"
  BY <1>1, <1>2, HeldBy
<1>6. conn' = [conn EXCEPT ![c].echoed = conn[c].echoed + 1] /\ conn \in [Client -> ConnType]
  BY <1>2 DEF EchoInv, Typed
<1>7. phase' = phase
  <2>1. \A d \in Client : held(d)' <=> held(d)
    BY DEF held, holds
  <2> QED BY <1>6, <2>1 DEF phase, ConnType
<1>8. [d \in Client |-> conn'[d].echoed] = [[d \in Client |-> conn[d].echoed] EXCEPT ![c] = @ + 1]
  BY <1>6 DEF ConnType
<1>9. /\ UNCHANGED [d \in Client |-> conn[d].end]
      /\ UNCHANGED [d \in Client |-> conn[d].sent]
      /\ UNCHANGED (program = "fork") /\ UNCHANGED (at = "down")
  BY <1>6 DEF ConnType, world, server
<1>10. Service!Echo(c)
  BY <1>4, <1>5, <1>7, <1>8, <1>9 DEF Service!Echo
<1> QED BY <1>10 DEF Service!Next

LEMMA MainServed ==
  ASSUME EchoInv, MainStep \/ CallFails
  PROVE  [Service!Next]_Service!vars
<1>1. CASE Accept
  BY <1>1, AcceptServed
<1>2. CASE CloseConnfd
  BY <1>2, ParentCloses
<1>3. CASE AcceptFails \/ CallFails
  BY <1>3, ServerStops DEF AcceptFails, CallFails, mainIs
<1>4. CASE Malloc
  <2>1. SameView
    BY <1>4 DEF Malloc, mainIs, SameView, world
  <2>2. \A c \in Client : held(c)' <=> held(c)
    BY <1>4 DEF Malloc, held, holds
  <2> QED BY <2>1, <2>2, Unseen
<1>5. CASE Open_listenfd
  <2>1. SameView
    BY <1>5 DEF Open_listenfd, mainIs, SameView, world, loop
  <2>2. at = "start" /\ ~mainHas /\ ~mainHas' /\ worker' = worker
    BY <1>5 DEF Open_listenfd, mainIs, mainHas, loop
  <2>3. \A w \in Worker : ~works(w) /\ ~works(w)'
    BY <2>2, Setting DEF EchoInv, Places, works
  <2>4. EchoInv'
    BY <1>5, OpenKeeps
  <2>5. \A c \in Client : held(c)' <=> held(c)
    BY <2>2, <2>3, <2>4, HeldAll, HeldNext DEF IsHeld
  <2> QED BY <2>1, <2>5, Unseen
<1>6. CASE Fork \/ Pthread_create \/ Serve
  <2>1. PICK w \in Worker, r \in WorkerType : Begins(w, r)
    BY <1>6, HandOverFacts
  <2>2. at = "handover" /\ mainHas
    BY <1>6, HandOverFacts DEF mainHas
  <2>3. /\ works(w)' /\ worker[w].at = "none" /\ peerOf(w)' = table[main][mainFd]
        /\ mainFd' = mainFd /\ table'[main] = table[main]
        /\ \A v \in Worker \ {w} : /\ works(v)' <=> works(v)
                                   /\ works(v) => peerOf(v)' = peerOf(v)
    BY <2>1, <2>2, BeginFacts
  <2>4. EchoInv'
    BY <2>1, <2>2, BeginKeeps
  <2>5. SameView
    BY <2>1, <2>2 DEF Begins, SameView
  <2>6. ~works(w)
    BY <2>3 DEF works
  <2>7. \A c \in Client : held(c)' <=> held(c)
    BY <2>2, <2>3, <2>4, <2>6, HeldAll, HeldNext DEF IsHeld
  <2> QED BY <2>5, <2>7, Unseen
<1> QED BY <1>1, <1>2, <1>3, <1>4, <1>5, <1>6 DEF MainStep

LEMMA WorkerServed ==
  ASSUME EchoInv, NEW w \in Worker, WorkerStep(w)
  PROVE  [Service!Next]_Service!vars
<1>1. ASSUME UNCHANGED <<world, server, table, conn>>
      PROVE  [Service!Next]_Service!vars
  <2>1. SameView /\ \A c \in Client : held(c)' <=> held(c)
    BY <1>1 DEF SameView, world, server, held, holds
  <2> QED BY <2>1, Unseen
<1>2. ASSUME works(w), mayEnd(peerOf(w)), WorkerFails(w)
      PROVE  [Service!Next]_Service!vars
  <2>1. CASE program = "fork"
    <3>1. ChildEnds(w) /\ EchoInv' /\ Leaves(w)
      BY <1>2, <2>1, ChildEndKeeps DEF WorkerFails
    <3>2. program' = program /\ conn' = conn
      BY <3>1 DEF ChildEnds, world
    <3> QED BY <1>2, <3>1, <3>2, LeavingEnds
  <2>2. CASE program # "fork"
    <3>1. ServerEnds /\ at # "down" /\ at # "close"
      BY <1>2, <2>2 DEF WorkerFails, EchoInv, Places, Typed
    <3> QED BY <3>1, ServerStops
  <2> QED BY <2>1, <2>2
<1>3. CASE CloseListenfd(w)
  <2>1. /\ UNCHANGED <<world, server, conn>> /\ table' = [table EXCEPT ![w][3] = Free]
        /\ worker[w].at = "closelisten"
    BY <1>3 DEF CloseListenfd, workerIs, rest
  <2>2. table[w][3] = Listener /\ table \in [Process -> [Fd -> EntryType]]
    BY <2>1 DEF EchoInv, Typed, Descriptors
  <2>3. \A p \in Process, f \in Fd, c \in Client : table'[p][f] = c <=> table[p][f] = c
    BY <2>1, <2>2, Setting
  <2>4. SameView /\ \A c \in Client : held(c)' <=> held(c)
    BY <2>1, <2>3 DEF SameView, world, server, held, holds
  <2> QED BY <2>4, Unseen
<1>4. CASE Gethostbyaddr(w)
  BY <1>1, <1>2, <1>4, MayFail DEF Gethostbyaddr, rest
<1>5. CASE Fetch(w) \/ FreeBlock(w)
  BY <1>1, <1>5 DEF Fetch, FreeBlock, rest
<1>6. CASE Read(w)
  <2>1. CASE conn[peer(w)].end = "reset" /\ WorkerFails(w)
    BY <1>2, <1>6, <2>1, MayFail DEF Read
  <2>2. CASE /\ conn' = [conn EXCEPT ![peer(w)].read = @ + 1]
             /\ UNCHANGED <<world, server, table, heap>>
    <3>1. SameView /\ \A c \in Client : held(c)' <=> held(c)
      BY <2>2 DEF SameView, world, server, held, holds, EchoInv, Typed, ConnType
    <3> QED BY <3>1, Unseen
  <2>3. CASE UNCHANGED <<rest, table, heap>>
    BY <1>1, <2>3 DEF rest
  <2> QED BY <1>6, <2>1, <2>2, <2>3 DEF Read
<1>7. CASE Write(w)
  <2>1. CASE conn[peer(w)].end = "reset" /\ WorkerFails(w)
    BY <1>2, <1>7, <2>1, MayFail DEF Write
  <2>2. CASE /\ conn' = [conn EXCEPT ![peer(w)].echoed = @ + 1]
             /\ UNCHANGED <<world, server, table, heap>>
    BY <1>7, <2>2, EchoServed DEF Write
  <2> QED BY <1>7, <2>1, <2>2 DEF Write
<1>8. CASE CloseWorker(w)
  <2>1. EchoInv' /\ Leaves(w) /\ mayEnd(peerOf(w)) /\ program' = program /\ conn' = conn
    BY <1>8, CloseKeeps DEF CloseWorker, world
  <2> QED BY <2>1, LeavingEnds
<1>9. CASE Exit(w)
  <2>1. worker[w].at = "exit" /\ ChildEnds(w) /\ ~works(w)
    BY <1>9 DEF Exit, workerIs, works
  <2>2. program = "fork"
    BY <2>1 DEF EchoInv, Typed, Places
  <2>3. EchoInv' /\ Leaves(w)
    BY <2>1, <2>2, ChildEndKeeps
  <2>4. program' = program /\ conn' = conn
    BY <2>1 DEF ChildEnds, world
  <2> QED BY <2>1, <2>3, <2>4, LeavingEnds
<1> QED BY <1>3, <1>4, <1>5, <1>6, <1>7, <1>8, <1>9 DEF WorkerStep

LEMMA InitService == Init => Service!Init
<1> SUFFICES ASSUME Init PROVE Service!Init
  OBVIOUS
<1>1. phase = [c \in Client |-> "away"]
  <2>1. \A c \in Client : ~held(c) /\ conn[c].at = "away"
    BY Setting DEF Init, held, holds, emptyTable
  <2> QED BY <2>1 DEF phase
<1>2. /\ [c \in Client |-> conn[c].end] = [c \in Client |-> "open"]
      /\ [c \in Client |-> conn[c].sent] = [c \in Client |-> 0]
      /\ [c \in Client |-> conn[c].echoed] = [c \in Client |-> 0]
      /\ (program = "fork") \in BOOLEAN /\ (at = "down") = FALSE
  BY DEF Init
<1> QED BY <1>1, <1>2 DEF Service!Init

LEMMA NextService == EchoInv /\ [Next]_vars => [Service!Next]_Service!vars
<1> SUFFICES ASSUME EchoInv, [Next]_vars PROVE [Service!Next]_Service!vars
  OBVIOUS
<1>1. ASSUME UNCHANGED <<world, at, table, conn>>
      PROVE  [Service!Next]_Service!vars
  <2>1. SameView /\ \A c \in Client : held(c)' <=> held(c)
    BY <1>1 DEF SameView, world, held, holds
  <2> QED BY <2>1, Unseen
<1>2. CASE HandlerStep
  BY <1>1, <1>2 DEF HandlerStep, Deliver, Reap
<1>3. CASE UNCHANGED vars
  BY <1>1, <1>3 DEF vars, server
<1> QED BY <1>2, <1>3, MainServed, WorkerServed, ClientServed DEF Next

\* Whether main() itself, a process or a thread serves them, clients get what
\* EchoService promises, and only child processes keep a connection with an
\* echo apart from the fate of the server and of the other connections.
THEOREM EchoServersImplementEchoService == Spec => ImplementsEchoService
BY InitService, NextService, Inductive, PTL DEF Spec, ImplementsEchoService, Service!Spec
=============================================================================
