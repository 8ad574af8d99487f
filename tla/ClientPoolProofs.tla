-------------------------- MODULE ClientPoolProofs --------------------------
(***************************************************************************)
(* The pool of servercon.c for any number of clients and descriptors: the  *)
(* slots, read_set and the open connections agree, every pass serves each  *)
(* descriptor that select found ready without waiting for it, and an echo  *)
(* client gets back the line it sent.                                      *)
(***************************************************************************)
EXTENDS ClientPool, FiniteSetTheorems, SequenceTheorems, WellFoundedInduction, TLAPS

\* PoolAgrees, whatever pc is.
Agree ==
  /\ read_set = {listenfd} \cup {clientfd[s] : s \in used}
  /\ {clientfd[s] : s \in used} = {fd[c] : c \in Client} \ {none}
  /\ \A s, t \in used : clientfd[s] = clientfd[t] => s = t
  /\ \A f \in read_set : f <= maxfd
  /\ \A s \in used : s <= maxi

\* A connection has a descriptor of its own, or waits once in the backlog.
Connections ==
  /\ \A c, d \in Client : fd[c] = fd[d] /\ fd[c] # none => c = d
  /\ \A j \in 1..Len(backlog) : fd[backlog[j]] = none /\ client[backlog[j]] # "out"
  /\ \A j, k \in 1..Len(backlog) : backlog[j] = backlog[k] => j = k
  /\ \A c \in Client : client[c] = "out" => fd[c] = none
  /\ pc = "accept" => backlog # <<>>

\* nready, also while a client is being served.
Counted ==
  /\ pc = "accept" => nready = Cardinality(toServe) + 1 /\ ready_set \subseteq read_set
  /\ pc = "check" => nready = Cardinality(toServe)
  /\ pc \in {"read", "echo"} => i \in toServe /\ nready = Cardinality(toServe) - 1
  /\ pc = "select" => nready = 0

LineOpen == pc = "read" => room > 0

PoolInv == TypeOK /\ Agree /\ Connections /\ Counted /\ LineOpen

-----------------------------------------------------------------------------
(* Least elements and counting.                                             *)

LessThan == {ss \in Nat \X Nat : ss[1] < ss[2]}

LEMMA LeastIsLeast ==
  ASSUME NEW S \in SUBSET Nat, S # {}
  PROVE  Least(S) \in S /\ \A y \in S : Least(S) <= y
<1>1. IsWellFoundedOn(LessThan, Nat)
  BY NatLessThanWellFounded DEF OpToRel, LessThan
<1>2. PICK x \in S : \A y \in S : ~(<<y, x>> \in LessThan)
  BY <1>1, WFMin
<1>3. \A y \in S : x <= y
  <2> SUFFICES ASSUME NEW y \in S, y < x PROVE FALSE
    OBVIOUS
  <2>1. <<y, x>> \in LessThan
    BY DEF LessThan
  <2> QED BY <1>2, <2>1
<1> QED BY <1>3 DEF Least

LEMMA SlotsFinite == IsFiniteSet(Slots) /\ Slots \subseteq Nat /\ Fd \subseteq Nat
<1>1. FD_SETSIZE - 1 \in Int /\ 0 \in Int
  BY PoolAssumption
<1> QED BY <1>1, FS_Interval, PoolAssumption DEF Slots, Fd, listenfd

LEMMA CountType == IsFiniteSet(toServe) /\ Cardinality(toServe) \in Nat
<1>1. toServe \in SUBSET Slots
  BY DEF toServe
<1> QED BY <1>1, SlotsFinite, FS_Subset, FS_CardinalityType

\* A slot that is to be served is in use.
LEMMA ToServeUsed ==
  ASSUME TypeOK, NEW s \in toServe
  PROVE  s \in used /\ s \in Slots /\ s >= i /\ clientfd[s] \in ready_set
<1>1. s \in Slots /\ s >= i /\ clientfd[s] \in ready_set
  BY DEF toServe
<1>2. clientfd[s] \in {listenfd} \cup Fd
  BY <1>1 DEF TypeOK
<1>3. clientfd[s] # none
  BY <1>2 DEF Fd, listenfd, none
<1> QED BY <1>1, <1>3 DEF used

-----------------------------------------------------------------------------
(* The server's steps.                                                      *)

\* nready is the number of slots to serve, and one more if a client waits to
\* be accepted.
LEMMA SelectStep == ASSUME PoolInv, Select PROVE PoolInv'
<1> DEFINE ready == {f \in read_set : f <= maxfd /\ readable(f)}
<1>0. TypeOK /\ Agree /\ Connections
  BY DEF PoolInv
<1>1. /\ ready # {} /\ ready_set' = ready /\ nready' = Cardinality(ready) /\ i' = 0
      /\ pc' = IF listenfd \in ready THEN "accept" ELSE "check"
      /\ UNCHANGED <<maxfd, read_set, maxi, clientfd, line, byte_cnt, received, network>>
  BY DEF Select
<1>2. ready \subseteq read_set
  OBVIOUS
<1>3. listenfd \in ready => backlog # <<>>
  BY DEF readable
<1> HIDE DEF ready
<1>4. toServe' = {s \in Slots : clientfd[s] \in ready}
  <2>1. \A s \in Slots : s >= 0
    BY DEF Slots
  <2> QED BY <1>1, <2>1 DEF toServe
<1>5. IsFiniteSet(toServe') /\ Cardinality(toServe') \in Nat
  <2>1. toServe' \in SUBSET Slots
    BY <1>4
  <2> QED BY <2>1, SlotsFinite, FS_Subset, FS_CardinalityType
<1>6. IsFiniteSet(ready \ {listenfd}) /\ Cardinality(ready \ {listenfd}) = Cardinality(toServe')
  <2> DEFINE f == [s \in toServe' |-> clientfd[s]]
  <2>1. \A s \in toServe' : clientfd[s] \in ready \ {listenfd} /\ s \in used
    <3> SUFFICES ASSUME NEW s \in toServe' PROVE clientfd[s] \in ready \ {listenfd} /\ s \in used
      OBVIOUS
    <3>1. s \in Slots /\ clientfd[s] \in ready /\ clientfd[s] \in Fd \cup {none}
      BY <1>0, <1>4 DEF TypeOK
    <3>2. clientfd[s] \in {listenfd} \cup Fd
      BY <1>0, <1>2, <3>1 DEF TypeOK
    <3>3. clientfd[s] # none /\ clientfd[s] # listenfd
      BY <3>1, <3>2 DEF Fd, listenfd, none
    <3> QED BY <3>1, <3>3 DEF used
  <2>2. \A r \in ready \ {listenfd} : \E s \in toServe' : clientfd[s] = r
    <3> SUFFICES ASSUME NEW r \in ready \ {listenfd} PROVE \E s \in toServe' : clientfd[s] = r
      OBVIOUS
    <3>1. PICK s \in used : clientfd[s] = r
      BY <1>0, <1>2 DEF Agree
    <3>2. s \in Slots
      BY DEF used
    <3> QED BY <1>4, <3>1, <3>2
  <2>3. \A s, t \in toServe' : clientfd[s] = clientfd[t] => s = t
    BY <1>0, <2>1 DEF Agree
  <2>4. f \in Bijection(toServe', ready \ {listenfd})
    <3>1. f \in [toServe' -> ready \ {listenfd}]
      BY <2>1
    <3>2. \A s, t \in toServe' : f[s] = f[t] => s = t
      BY <2>3
    <3>3. \A r \in ready \ {listenfd} : \E s \in toServe' : f[s] = r
      BY <2>2
    <3> HIDE DEF f
    <3> QED BY <3>1, <3>2, <3>3 DEF Bijection, Injection, Surjection, IsInjective
  <2>5. ExistsBijection(toServe', ready \ {listenfd})
    BY <2>4 DEF ExistsBijection
  <2> QED BY <1>5, <2>5, FS_Bijection
<1>7. /\ Cardinality(ready) \in Nat
      /\ Cardinality(ready) = IF listenfd \in ready THEN Cardinality(toServe') + 1
                                                    ELSE Cardinality(toServe')
  <2>1. CASE listenfd \in ready
    <3>1. (ready \ {listenfd}) \cup {listenfd} = ready /\ listenfd \notin ready \ {listenfd}
      BY <2>1
    <3>2. Cardinality(ready) = Cardinality(ready \ {listenfd}) + 1
      BY <1>6, <3>1, FS_AddElement
    <3> QED BY <1>5, <1>6, <2>1, <3>2
  <2>2. CASE listenfd \notin ready
    <3>1. ready \ {listenfd} = ready
      BY <2>2
    <3> QED BY <1>5, <1>6, <2>2, <3>1
  <2> QED BY <2>1, <2>2
<1>8. TypeOK'
  BY <1>0, <1>1, <1>2, <1>7 DEF TypeOK, network, world
<1>9. Agree'
  BY <1>0, <1>1 DEF Agree, used, network
<1>10. Connections'
  BY <1>0, <1>1, <1>3 DEF Connections, network
<1>11. Counted'
  BY <1>1, <1>2, <1>7 DEF Counted
<1>12. LineOpen'
  BY <1>1 DEF LineOpen
<1> QED BY <1>8, <1>9, <1>10, <1>11, <1>12 DEF PoolInv

\* In Accept, the new descriptor is not ready, and its slot was not in use.
LEMMA AcceptFacts ==
  ASSUME PoolInv, Accept
  PROVE  \E connfd \in Fd, s0 \in Slots :
           /\ connfd = Least(freeFds) /\ s0 = Least(freeSlots)
           /\ \A c \in Client : fd[c] # connfd
           /\ connfd # none /\ connfd # listenfd /\ connfd \in Int /\ none \notin Fd
           /\ clientfd[s0] = none /\ clientfd[s0] \notin ready_set /\ connfd \notin ready_set
           /\ fd' = [fd EXCEPT ![Head(backlog)] = connfd] /\ Head(backlog) \in Client
           /\ clientfd' = [clientfd EXCEPT ![s0] = connfd]
<1>0. TypeOK /\ Agree /\ Connections /\ Counted /\ pc = "accept"
  BY DEF PoolInv, Accept
<1>1. PICK connfd : connfd = Least(freeFds)
  OBVIOUS
<1>2. PICK s0 : s0 = Least(freeSlots)
  OBVIOUS
<1>3. connfd \in freeFds
  <2>1. freeFds \in SUBSET Nat
    BY <1>0, SlotsFinite DEF freeFds, TypeOK
  <2> QED BY <1>1, <2>1, LeastIsLeast DEF Accept
<1>4. s0 \in freeSlots
  <2>1. freeSlots \in SUBSET Nat
    BY SlotsFinite DEF freeSlots
  <2> QED BY <1>2, <2>1, LeastIsLeast DEF Accept
<1>5. connfd \in Fd /\ \A c \in Client : fd[c] # connfd
  BY <1>0, <1>3 DEF freeFds, TypeOK
<1>6. s0 \in Slots /\ clientfd[s0] = none
  BY <1>4 DEF freeSlots
<1>7. connfd # none /\ connfd # listenfd /\ connfd \in Int /\ none \notin Fd
  BY <1>5 DEF Fd, listenfd, none
<1>8. clientfd[s0] \notin ready_set /\ connfd \notin ready_set
  <2>1. connfd \notin read_set
    BY <1>0, <1>5, <1>7 DEF Agree
  <2>2. ready_set \subseteq read_set
    BY <1>0 DEF Counted
  <2>3. none \notin read_set
    BY <1>0 DEF TypeOK, Fd, listenfd, none
  <2> QED BY <1>6, <2>1, <2>2, <2>3
<1>9. Head(backlog) \in Client
  BY <1>0 DEF TypeOK, Connections
<1>10. /\ fd' = [fd EXCEPT ![Head(backlog)] = connfd]
       /\ clientfd' = [clientfd EXCEPT ![s0] = connfd]
  BY <1>1, <1>2 DEF Accept, add_client
<1> QED BY <1>1, <1>2, <1>5, <1>6, <1>7, <1>8, <1>9, <1>10

LEMMA AcceptStep == ASSUME PoolInv, Accept PROVE PoolInv'
<1> DEFINE c0 == Head(backlog)
<1>0. TypeOK /\ Agree /\ Connections /\ Counted
  BY DEF PoolInv
<1>1. PICK connfd \in Fd, s0 \in Slots :
         /\ connfd = Least(freeFds) /\ s0 = Least(freeSlots)
         /\ \A c \in Client : fd[c] # connfd
         /\ connfd # none /\ connfd # listenfd /\ connfd \in Int /\ none \notin Fd
         /\ clientfd[s0] = none /\ clientfd[s0] \notin ready_set /\ connfd \notin ready_set
         /\ fd' = [fd EXCEPT ![c0] = connfd] /\ clientfd' = [clientfd EXCEPT ![s0] = connfd]
  BY AcceptFacts
<1>2. /\ pc = "accept"
      /\ nready' = nready - 1
      /\ read_set' = read_set \cup {connfd} /\ maxfd' = Larger(maxfd, connfd)
      /\ maxi' = Larger(maxi, s0) /\ backlog' = Tail(backlog) /\ pc' = "check"
      /\ UNCHANGED <<i, ready_set, line, byte_cnt, received, client, sent, toServer,
                     toClient, budget, echoclients, usable>>
  BY <1>1 DEF Accept, add_client, world
<1>3. /\ Len(backlog) \in Nat /\ 1 \in 1..Len(backlog)
      /\ c0 = backlog[1] /\ c0 \in Client /\ fd[c0] = none /\ client[c0] # "out"
      /\ backlog' \in Seq(Client) /\ Len(backlog') = Len(backlog) - 1
      /\ \A j \in 1..Len(backlog') : j + 1 \in 1..Len(backlog) /\ backlog'[j] = backlog[j + 1]
  <2>1. backlog \in Seq(Client) /\ backlog # <<>>
    BY <1>0, <1>1, <1>2 DEF TypeOK, Connections
  <2>2. /\ Len(backlog) \in Nat /\ 1 \in 1..Len(backlog) /\ c0 = backlog[1] /\ c0 \in Client
    BY <2>1
  <2>3. backlog' \in Seq(Client) /\ Len(backlog') = Len(backlog) - 1
    BY <1>1, <1>2, <2>1
  <2>4. \A j \in 1..Len(backlog') : j + 1 \in 1..Len(backlog) /\ backlog'[j] = backlog[j + 1]
    BY <1>1, <1>2, <2>1
  <2>5. fd[c0] = none /\ client[c0] # "out"
    BY <1>0, <2>2 DEF Connections
  <2> QED BY <2>2, <2>3, <2>4, <2>5
<1>4. nready \in Nat /\ nready - 1 \in Nat /\ nready' = Cardinality(toServe)
  BY <1>0, <1>1, <1>2, CountType DEF Counted, TypeOK
<1> HIDE DEF c0
<1>5. clientfd' \in [Slots -> Fd \cup {none}] /\ fd' \in [Client -> Fd \cup {none}]
  BY <1>0, <1>1, <1>2, <1>3 DEF TypeOK
<1>6. /\ clientfd'[s0] = connfd /\ \A s \in Slots : s # s0 => clientfd'[s] = clientfd[s]
      /\ fd'[c0] = connfd /\ \A c \in Client : c # c0 => fd'[c] = fd[c]
  BY <1>0, <1>1, <1>2, <1>3 DEF TypeOK
<1>7. /\ maxfd \in Int /\ maxi \in Int /\ s0 \in Int
      /\ maxfd' >= maxfd /\ maxfd' >= connfd /\ maxi' >= maxi /\ maxi' >= s0
      /\ maxfd' \in {maxfd, connfd} /\ maxi' \in {maxi, s0}
  <2>1. maxfd \in Int /\ maxi \in Int /\ s0 \in Int
    BY <1>0, <1>1, <1>2, PoolAssumption DEF TypeOK, Fd, listenfd, Slots
  <2> QED BY <1>1, <1>2, <2>1 DEF Larger
<1>8. TypeOK'
  <2>1. read_set' \subseteq {listenfd} \cup Fd /\ ready_set' \subseteq read_set' \cup Fd
    BY <1>0, <1>1, <1>2 DEF TypeOK
  <2>2. maxfd' \in {listenfd} \cup Fd /\ maxi' \in Slots \cup {-1}
    BY <1>0, <1>1, <1>2, <1>7 DEF TypeOK
  <2>3. nready' \in Nat
    BY <1>1, <1>2, <1>4
  <2> QED BY <1>0, <1>1, <1>2, <1>3, <1>5, <2>1, <2>2, <2>3 DEF TypeOK
<1>9. Agree'
  <2>1. used' = used \cup {s0}
    BY <1>1, <1>2, <1>6 DEF used
  <2>2. s0 \notin used /\ \A s \in used : s \in Slots /\ s # s0 /\ clientfd'[s] = clientfd[s]
    BY <1>1, <1>2, <1>6 DEF used
  <2>3. {clientfd'[s] : s \in used'} = {clientfd[s] : s \in used} \cup {connfd}
    BY <1>6, <2>1, <2>2
  <2>4. {fd'[c] : c \in Client} \ {none} = ({fd[c] : c \in Client} \ {none}) \cup {connfd}
    BY <1>1, <1>2, <1>3, <1>6
  <2>5. \A s \in used : clientfd[s] # connfd
    BY <1>0, <1>1, <1>2 DEF Agree
  <2>6. \A s, t \in used' : clientfd'[s] = clientfd'[t] => s = t
    BY <1>0, <1>6, <2>1, <2>2, <2>5 DEF Agree
  <2>7. \A f \in read_set' : f <= maxfd'
    <3>1. \A f \in read_set : f \in Int /\ f <= maxfd
      BY <1>0, PoolAssumption DEF Agree, TypeOK, Fd, listenfd
    <3>2. \A f \in read_set : f <= maxfd'
      BY <3>1, <1>7
    <3> QED BY <1>1, <1>2, <1>7, <3>2
  <2>8. \A s \in used' : s <= maxi'
    <3>1. \A s \in used : s \in Int /\ s <= maxi
      BY <1>0 DEF Agree, used, Slots
    <3>2. \A s \in used : s <= maxi'
      BY <3>1, <1>7
    <3> QED BY <1>7, <2>1, <3>2
  <2>9. read_set' = {listenfd} \cup {clientfd'[s] : s \in used'}
    BY <1>0, <1>1, <1>2, <2>3 DEF Agree
  <2>10. {clientfd'[s] : s \in used'} = {fd'[c] : c \in Client} \ {none}
    BY <1>0, <2>3, <2>4 DEF Agree
  <2> QED BY <2>6, <2>7, <2>8, <2>9, <2>10 DEF Agree
<1>10. Connections'
  <2>1. \A c, d \in Client : fd'[c] = fd'[d] /\ fd'[c] # none => c = d
    BY <1>0, <1>1, <1>2, <1>6 DEF Connections
  <2>2. \A j \in 1..Len(backlog') : fd'[backlog'[j]] = none /\ client'[backlog'[j]] # "out"
    <3> SUFFICES ASSUME NEW j \in 1..Len(backlog')
                 PROVE  fd'[backlog'[j]] = none /\ client'[backlog'[j]] # "out"
      OBVIOUS
    <3>1. j + 1 \in 1..Len(backlog) /\ backlog'[j] = backlog[j + 1] /\ j + 1 # 1
      BY <1>3
    <3>2. backlog[j + 1] # c0 /\ backlog[j + 1] \in Client
      BY <1>0, <1>3, <3>1 DEF Connections, TypeOK
    <3> QED BY <1>0, <1>1, <1>2, <1>6, <3>1, <3>2 DEF Connections
  <2>3. \A j, k \in 1..Len(backlog') : backlog'[j] = backlog'[k] => j = k
    <3> SUFFICES ASSUME NEW j \in 1..Len(backlog'), NEW k \in 1..Len(backlog'),
                        backlog'[j] = backlog'[k]
                 PROVE  j = k
      OBVIOUS
    <3>1. j + 1 = k + 1
      BY <1>0, <1>3 DEF Connections
    <3>2. j \in Int /\ k \in Int
      OBVIOUS
    <3> QED BY <3>1, <3>2
  <2>4. \A c \in Client : client'[c] = "out" => fd'[c] = none
    BY <1>0, <1>1, <1>2, <1>3, <1>6 DEF Connections
  <2> QED BY <1>1, <1>2, <2>1, <2>2, <2>3, <2>4 DEF Connections
<1>11. toServe' = toServe
  BY <1>1, <1>2, <1>6 DEF toServe
<1>12. Counted'
  BY <1>1, <1>2, <1>4, <1>11 DEF Counted
<1>13. LineOpen'
  BY <1>1, <1>2 DEF LineOpen
<1> QED BY <1>8, <1>9, <1>10, <1>12, <1>13 DEF PoolInv

\* A server that has failed does nothing more.
LEMMA FailStep ==
  ASSUME PoolInv, pc' \in {"failed", "undefined"}, UNCHANGED <<i, pool, line, byte_cnt, received, network>>
  PROVE  PoolInv'
<1>1. TypeOK'
  BY DEF PoolInv, TypeOK, pool, network, world
<1>2. Agree'
  BY DEF PoolInv, Agree, used, pool, network
<1>3. Connections'
  BY DEF PoolInv, Connections, network
<1>4. Counted' /\ LineOpen'
  BY DEF Counted, LineOpen
<1> QED BY <1>1, <1>2, <1>3, <1>4 DEF PoolInv

LEMMA SkipStep == ASSUME PoolInv, Skip PROVE PoolInv'
<1>0. TypeOK /\ Agree /\ Connections /\ Counted
  BY DEF PoolInv
<1>1. /\ pc = "check" /\ pc' = pc /\ i' = i + 1
      /\ clientfd[i] = none \/ clientfd[i] \notin ready_set
      /\ UNCHANGED <<pool, line, byte_cnt, received, network>>
  BY DEF Skip, checking
<1>2. TypeOK'
  BY <1>0, <1>1 DEF TypeOK, pool, network, world
<1>3. Agree' /\ Connections'
  BY <1>0, <1>1 DEF Agree, Connections, used, pool, network
<1>4. i \notin toServe
  BY <1>0, <1>1, ToServeUsed DEF used
<1>5. toServe' = toServe
  <2>1. toServe' = {s \in Slots : s >= i + 1 /\ clientfd[s] \in ready_set}
    BY <1>1 DEF toServe, pool
  <2>2. \A s \in Slots : s >= i + 1 <=> s >= i /\ s # i
    BY <1>0 DEF TypeOK, Slots
  <2> QED BY <1>4, <2>1, <2>2 DEF toServe
<1>6. Counted' /\ LineOpen'
  BY <1>0, <1>1, <1>5 DEF Counted, LineOpen, pool
<1> QED BY <1>2, <1>3, <1>6 DEF PoolInv

LEMMA ServeStep == ASSUME PoolInv, Serve PROVE PoolInv'
<1>0. TypeOK /\ Agree /\ Connections /\ Counted
  BY DEF PoolInv
<1>1. /\ pc = "check" /\ i <= maxi /\ nready > 0 /\ clientfd[i] \in ready_set
      /\ nready' = nready - 1 /\ pc' = "read" /\ line' = <<>>
      /\ UNCHANGED <<i, maxfd, read_set, ready_set, maxi, clientfd, byte_cnt, received, network>>
  BY DEF Serve, checking
<1>2. nready \in Nat /\ nready' \in Nat
  BY <1>0, <1>1 DEF TypeOK
<1>3. line' \in Seq(Byte) /\ Len(line') = 0 /\ 0 < MAXLINE - 1
  BY <1>1, PoolAssumption
<1>4. TypeOK'
  BY <1>0, <1>1, <1>2, <1>3, PoolAssumption DEF TypeOK, network, world
<1>5. Agree' /\ Connections'
  BY <1>0, <1>1 DEF Agree, Connections, used, network
<1>6. i \in toServe
  <2>1. i \in Slots
    BY <1>0, <1>1, PoolAssumption DEF TypeOK, Slots
  <2> QED BY <1>0, <1>1, <2>1 DEF toServe, TypeOK
<1>7. toServe' = toServe
  BY <1>1 DEF toServe
<1>8. Counted'
  BY <1>0, <1>1, <1>6, <1>7 DEF Counted
<1>9. LineOpen'
  BY <1>3, PoolAssumption DEF LineOpen, room
<1> QED BY <1>4, <1>5, <1>8, <1>9 DEF PoolInv

\* Behind maxi there is no slot in use, so none to serve.
LEMMA EndOfPassStep == ASSUME PoolInv, EndOfPass PROVE PoolInv'
<1>0. TypeOK /\ Agree /\ Connections /\ Counted
  BY DEF PoolInv
<1>1. /\ pc = "check" /\ ~(i <= maxi /\ nready > 0) /\ pc' = "select"
      /\ UNCHANGED <<i, pool, line, byte_cnt, received, network>>
  BY DEF EndOfPass
<1>2. TypeOK'
  BY <1>0, <1>1 DEF TypeOK, pool, network, world
<1>3. Agree' /\ Connections'
  <2>1. Agree'
    BY <1>0, <1>1 DEF Agree, used, pool, network
  <2>2. Connections'
    BY <1>0, <1>1 DEF Connections, pool, network
  <2> QED BY <2>1, <2>2
<1>4. nready = 0
  <2>0. nready \in Nat /\ i \in Nat /\ maxi \in Int /\ nready = Cardinality(toServe)
    BY <1>0, <1>1, PoolAssumption DEF TypeOK, Slots, Counted
  <2>1. ASSUME ~(i <= maxi) PROVE nready = 0
    <3>1. \A s \in toServe : FALSE
      <4> SUFFICES ASSUME NEW s \in toServe PROVE FALSE
        OBVIOUS
      <4>1. s \in used /\ s \in Slots /\ s >= i
        BY <1>0, ToServeUsed
      <4>2. s \in Int /\ s <= maxi
        BY <1>0, <4>1 DEF Agree, Slots
      <4> QED BY <2>0, <2>1, <4>1, <4>2
    <3>2. toServe = {}
      BY <3>1
    <3> QED BY <2>0, <3>2, FS_EmptySet
  <2> QED BY <1>1, <2>0, <2>1
<1>5. Counted' /\ LineOpen'
  BY <1>1, <1>4 DEF Counted, LineOpen, pool
<1> QED BY <1>2, <1>3, <1>5 DEF PoolInv

\* What a client that is served tells of slot i.
LEMMA ServedSlot ==
  ASSUME PoolInv, NEW c \in Client, pc \in {"read", "echo"}, served(c)
  PROVE  /\ i \in used /\ i \in Slots /\ i \in toServe
         /\ clientfd[i] \in Fd /\ fd[c] = clientfd[i] /\ fd[c] # none
         /\ nready = Cardinality(toServe) - 1
<1>1. i \in toServe /\ nready = Cardinality(toServe) - 1
  BY DEF PoolInv, Counted
<1>2. i \in used /\ i \in Slots
  BY <1>1, ToServeUsed DEF PoolInv
<1>3. clientfd[i] \in Fd
  BY <1>2 DEF PoolInv, TypeOK, used
<1> QED BY <1>1, <1>2, <1>3 DEF served

\* Slot i is served: one less to serve.
LEMMA OneServed ==
  ASSUME TypeOK, i \in toServe, i' = i + 1, ready_set' = ready_set,
         \A s \in Slots : s # i => clientfd'[s] = clientfd[s]
  PROVE  toServe' = toServe \ {i} /\ Cardinality(toServe') = Cardinality(toServe) - 1
<1>1. toServe' = {s \in Slots : s >= i + 1 /\ clientfd'[s] \in ready_set}
  BY DEF toServe
<1>2. \A s \in Slots : s >= i + 1 <=> s >= i /\ s # i
  BY DEF TypeOK, Slots
<1>3. toServe' = toServe \ {i}
  BY <1>1, <1>2 DEF toServe
<1>4. Cardinality(toServe \ {i}) = Cardinality(toServe) - 1
  BY CountType, FS_RemoveElement
<1> QED BY <1>3, <1>4

\* TakeLine stores something, and no more than there is room for.
LEMMA LineFits ==
  ASSUME line \in Seq(Byte), Len(line) < MAXLINE, room > 0,
         NEW chunk \in Seq(Byte), TakeLine(chunk)
  PROVE  line' \in Seq(Byte) /\ line' # <<>> /\ Len(line') <= MAXLINE - 1
<1>1. PICK k \in 1..Len(chunk) :
         /\ \A j \in 1..(k - 1) : ~ends(chunk, j)
         /\ line' = line \o SubSeq(chunk, 1, k)
  BY DEF TakeLine
<1>2. room \in Int /\ MAXLINE \in Int /\ Len(line) \in Int /\ k \in Int
  BY PoolAssumption DEF room
<1>3. k <= room
  <2> SUFFICES ASSUME ~(k <= room) PROVE FALSE
    OBVIOUS
  <2>1. room \in 1..(k - 1)
    BY <1>2
  <2>2. ends(chunk, room)
    BY DEF ends
  <2> QED BY <1>1, <2>1, <2>2
<1>4. SubSeq(chunk, 1, k) \in Seq(Byte) /\ Len(SubSeq(chunk, 1, k)) = k
  <2>1. \A j \in 1..k : chunk[j] \in Byte
    BY ElementOfSeq
  <2> QED BY <2>1, SubSeqProperties
<1>5. line' \in Seq(Byte) /\ Len(line') = Len(line) + k
  BY <1>1, <1>4, ConcatProperties
<1> QED BY <1>2, <1>3, <1>5 DEF room

LEMMA ReadStep ==
  ASSUME PoolInv, NEW c \in Client, NEW k \in 1..RIO_BUFSIZE, Read(c, k)
  PROVE  PoolInv'
<1>0. TypeOK /\ Agree /\ Connections /\ Counted /\ LineOpen
  BY DEF PoolInv
<1>1. /\ pc = "read" /\ k <= Len(toServer[c])
      /\ TakeLine(SubSeq(toServer[c], 1, k))
      /\ pc' = IF Complete(line') THEN "echo" ELSE "read"
      /\ toServer' = [toServer EXCEPT ![c] = SubSeq(toServer[c], k + 1, Len(toServer[c]))]
      /\ received' = received + k
      /\ UNCHANGED <<i, pool, byte_cnt, backlog, fd, client, sent, toClient, budget,
                     echoclients, usable>>
  BY DEF Read, world
<1>2. toServer[c] \in Seq(Byte) /\ k \in Nat /\ line \in Seq(Byte) /\ Len(line) < MAXLINE
      /\ Len(toServer[c]) \in Nat
  BY <1>0 DEF TypeOK
<1>3. /\ SubSeq(toServer[c], 1, k) \in Seq(Byte)
      /\ SubSeq(toServer[c], k + 1, Len(toServer[c])) \in Seq(Byte)
  BY <1>1, <1>2, SubSeqProperties
<1>4. line' \in Seq(Byte) /\ Len(line') <= MAXLINE - 1
  BY <1>0, <1>1, <1>2, <1>3, LineFits DEF LineOpen
<1>5. MAXLINE \in Int /\ Len(line') \in Int
  BY <1>4, PoolAssumption
<1>6. toServer' \in [Client -> Seq(Byte)]
  BY <1>0, <1>1, <1>3 DEF TypeOK
<1>7. TypeOK'
  <2>1. Len(line') < MAXLINE
    BY <1>4, <1>5
  <2>2. received' \in Nat /\ pc' \in {"read", "echo"}
    BY <1>0, <1>1, <1>2 DEF TypeOK
  <2> QED BY <1>0, <1>1, <1>4, <1>6, <2>1, <2>2 DEF TypeOK, pool
<1>8. Agree' /\ Connections'
  <2>1. pc' # "accept" /\ UNCHANGED <<read_set, clientfd, fd, maxfd, maxi, backlog, client>>
    BY <1>1 DEF pool
  <2>2. Agree'
    BY <1>0, <2>1 DEF Agree, used
  <2> QED BY <1>0, <2>1, <2>2 DEF Connections
<1>9. Counted'
  BY <1>0, <1>1 DEF Counted, toServe, pool
<1>10. LineOpen'
  <2>1. pc' = "read" => Len(line') # MAXLINE - 1
    BY <1>1 DEF Complete
  <2> QED BY <1>4, <1>5, <2>1 DEF LineOpen, room
<1> QED BY <1>7, <1>8, <1>9, <1>10 DEF PoolInv

LEMMA ReadCutStep == ASSUME PoolInv, NEW c \in Client, ReadCut(c) PROVE PoolInv'
<1>0. TypeOK /\ Agree /\ Connections /\ Counted
  BY DEF PoolInv
<1>1. /\ pc = "read" /\ pc' = "echo"
      /\ UNCHANGED <<i, pool, line, byte_cnt, received, network>>
  BY DEF ReadCut
<1>2. TypeOK'
  BY <1>0, <1>1 DEF TypeOK, pool, network, world
<1>3. Agree' /\ Connections'
  BY <1>0, <1>1 DEF Agree, Connections, used, pool, network
<1>4. Counted' /\ LineOpen'
  BY <1>0, <1>1 DEF Counted, LineOpen, toServe, pool
<1> QED BY <1>2, <1>3, <1>4 DEF PoolInv

LEMMA RemoveStep == ASSUME PoolInv, NEW c \in Client, Remove(c) PROVE PoolInv'
<1>0. TypeOK /\ Agree /\ Connections /\ Counted
  BY DEF PoolInv
<1>1. /\ pc = "read" /\ served(c)
      /\ fd' = [fd EXCEPT ![c] = none] /\ client' = [client EXCEPT ![c] = "out"]
      /\ toClient' = [toClient EXCEPT ![c] = <<>>]
      /\ read_set' = read_set \ {clientfd[i]} /\ clientfd' = [clientfd EXCEPT ![i] = none]
      /\ pc' = "check" /\ i' = i + 1
      /\ UNCHANGED <<backlog, sent, toServer, budget, echoclients, usable, maxfd, ready_set,
                     nready, maxi, line, byte_cnt, received>>
  BY DEF Remove, Gone, world
<1>2. /\ i \in used /\ i \in Slots /\ i \in toServe
      /\ clientfd[i] \in Fd /\ fd[c] = clientfd[i] /\ fd[c] # none
      /\ nready = Cardinality(toServe) - 1
  BY <1>1, ServedSlot
<1>3. /\ clientfd' \in [Slots -> Fd \cup {none}] /\ fd' \in [Client -> Fd \cup {none}]
      /\ clientfd'[i] = none /\ \A s \in Slots : s # i => clientfd'[s] = clientfd[s]
      /\ fd'[c] = none /\ \A d \in Client : d # c => fd'[d] = fd[d]
  BY <1>0, <1>1, <1>2 DEF TypeOK
<1>4. /\ client' \in [Client -> {"out", "idle", "reading", "closed"}]
      /\ client'[c] = "out" /\ \A d \in Client : d # c => client'[d] = client[d]
  BY <1>0, <1>1 DEF TypeOK
<1>5. TypeOK'
  <2>1. toClient' \in [Client -> Seq(Byte \cup {"nul"})]
    <3>1. <<>> \in Seq(Byte \cup {"nul"})
      OBVIOUS
    <3> QED BY <1>0, <1>1, <3>1 DEF TypeOK
  <2>2. read_set' \subseteq {listenfd} \cup Fd /\ ready_set' \subseteq read_set' \cup Fd
    BY <1>0, <1>1, <1>2 DEF TypeOK
  <2>3. i' \in Nat
    BY <1>0, <1>1 DEF TypeOK
  <2> QED BY <1>0, <1>1, <1>3, <1>4, <2>1, <2>2, <2>3 DEF TypeOK
<1>6. Agree'
  <2>1. used' = used \ {i} /\ \A s \in used' : s \in Slots /\ s # i /\ clientfd'[s] = clientfd[s]
    BY <1>3 DEF used
  <2>2. \A s \in used' : clientfd[s] # clientfd[i]
    BY <1>0, <1>2, <2>1 DEF Agree
  <2>3. {clientfd'[s] : s \in used'} = {clientfd[s] : s \in used} \ {clientfd[i]}
    BY <1>2, <2>1, <2>2
  <2>4. {fd'[d] : d \in Client} \ {none} = ({fd[d] : d \in Client} \ {none}) \ {clientfd[i]}
    <3>1. \A d \in Client : d # c => fd[d] # clientfd[i]
      BY <1>0, <1>2 DEF Connections
    <3> QED BY <1>2, <1>3, <3>1
  <2>5. listenfd # clientfd[i]
    BY <1>2 DEF Fd, listenfd
  <2>6. read_set' = {listenfd} \cup {clientfd'[s] : s \in used'}
    BY <1>0, <1>1, <2>3, <2>5 DEF Agree
  <2>7. {clientfd'[s] : s \in used'} = {fd'[d] : d \in Client} \ {none}
    BY <1>0, <2>3, <2>4 DEF Agree
  <2> QED BY <1>0, <1>1, <2>1, <2>6, <2>7 DEF Agree
<1>7. Connections'
  <2>1. \A d, e \in Client : fd'[d] = fd'[e] /\ fd'[d] # none => d = e
    BY <1>0, <1>3 DEF Connections
  <2>2. \A j \in 1..Len(backlog) : backlog[j] \in Client /\ backlog[j] # c
    <3>1. \A j \in 1..Len(backlog) : backlog[j] \in Client
      BY <1>0, ElementOfSeq DEF TypeOK
    <3> QED BY <1>0, <1>2, <3>1 DEF Connections
  <2>3. \A j \in 1..Len(backlog') : fd'[backlog'[j]] = none /\ client'[backlog'[j]] # "out"
    BY <1>0, <1>1, <1>3, <1>4, <2>2 DEF Connections
  <2>4. \A d \in Client : client'[d] = "out" => fd'[d] = none
    BY <1>0, <1>3, <1>4 DEF Connections
  <2> QED BY <1>0, <1>1, <2>1, <2>3, <2>4 DEF Connections
<1>8. Counted'
  BY <1>0, <1>1, <1>2, <1>3, OneServed DEF Counted
<1>9. LineOpen'
  BY <1>1 DEF LineOpen
<1> QED BY <1>5, <1>6, <1>7, <1>8, <1>9 DEF PoolInv

LEMMA EchoStep == ASSUME PoolInv, NEW c \in Client, Echo(c) PROVE PoolInv'
<1>0. TypeOK /\ Agree /\ Connections /\ Counted
  BY DEF PoolInv
<1>1. /\ pc = "echo" /\ served(c)
      /\ byte_cnt' = byte_cnt + Len(Answer(line))
      /\ toClient' = [toClient EXCEPT ![c] = toClient[c] \o Answer(line)]
      /\ pc' = "check" /\ i' = i + 1
      /\ UNCHANGED <<pool, line, received, backlog, fd, client, sent, toServer, budget,
                     echoclients, usable>>
  BY DEF Echo, world
<1>2. i \in toServe /\ nready = Cardinality(toServe) - 1
  BY <1>1, ServedSlot
<1>3. Answer(line) \in Seq(Byte \cup {"nul"})
  <2>1. line \in Seq(Byte \cup {"nul"})
    BY <1>0 DEF TypeOK
  <2> QED BY <2>1 DEF Answer
<1>4. TypeOK'
  <2>1. toClient' \in [Client -> Seq(Byte \cup {"nul"})]
    BY <1>0, <1>1, <1>3 DEF TypeOK
  <2>2. byte_cnt' \in Nat /\ i' \in Nat
    BY <1>0, <1>1, <1>3 DEF TypeOK
  <2> QED BY <1>0, <1>1, <2>1, <2>2 DEF TypeOK, pool
<1>5. Agree' /\ Connections'
  BY <1>0, <1>1 DEF Agree, Connections, used, pool
<1>6. Counted'
  BY <1>0, <1>1, <1>2, OneServed DEF Counted, pool
<1>7. LineOpen'
  BY <1>1 DEF LineOpen
<1> QED BY <1>4, <1>5, <1>6, <1>7 DEF PoolInv

-----------------------------------------------------------------------------
(* The clients' steps.                                                      *)

\* A client's step that neither connects nor closes leaves the pool alone.
LEMMA ClientFrame ==
  ASSUME PoolInv, UNCHANGED server, UNCHANGED <<fd, backlog>>,
         \A c \in Client : client'[c] = "out" <=> client[c] = "out"
  PROVE  Agree' /\ Connections' /\ Counted' /\ LineOpen'
<1>0. TypeOK /\ Agree /\ Connections /\ Counted /\ LineOpen
  BY DEF PoolInv
<1>1. Agree'
  BY <1>0 DEF Agree, used, server, pool
<1>2. Connections'
  <2>1. \A j \in 1..Len(backlog) : backlog[j] \in Client
    BY <1>0, ElementOfSeq DEF TypeOK
  <2> QED BY <1>0, <2>1 DEF Connections, server
<1>3. Counted' /\ LineOpen'
  BY <1>0 DEF Counted, LineOpen, room, toServe, server, pool
<1> QED BY <1>1, <1>2, <1>3

LEMMA ConnectStep == ASSUME PoolInv, NEW c \in Client, Connect(c) PROVE PoolInv'
<1>0. TypeOK /\ Agree /\ Connections /\ Counted /\ LineOpen
  BY DEF PoolInv
<1>1. /\ client[c] = "out" /\ budget[c] > 0
      /\ client' = [client EXCEPT ![c] = "idle"] /\ backlog' = Append(backlog, c)
      /\ budget' = [budget EXCEPT ![c] = budget[c] - 1]
      /\ UNCHANGED <<pc, i, maxfd, read_set, ready_set, nready, maxi, clientfd, line,
                     byte_cnt, received, fd, sent, toServer, toClient, echoclients, usable>>
  BY DEF Connect, server, pool, world
<1>2. client' \in [Client -> {"out", "idle", "reading", "closed"}]
      /\ client'[c] = "idle" /\ \A d \in Client : d # c => client'[d] = client[d]
  BY <1>0, <1>1 DEF TypeOK
<1>3. /\ backlog \in Seq(Client) /\ backlog' \in Seq(Client) /\ backlog' # <<>>
      /\ Len(backlog) \in Nat /\ Len(backlog') = Len(backlog) + 1 /\ backlog'[Len(backlog) + 1] = c
      /\ \A j \in 1..Len(backlog) : backlog'[j] = backlog[j]
  <2>1. backlog \in Seq(Client) /\ backlog' = Append(backlog, c)
    BY <1>0, <1>1 DEF TypeOK
  <2> QED BY <2>1, AppendProperties
<1>4. TypeOK'
  <2>1. budget' \in [Client -> 0..MaxSent]
    BY <1>0, <1>1, PoolAssumption DEF TypeOK
  <2> QED BY <1>0, <1>1, <1>2, <1>3, <2>1 DEF TypeOK
<1>5. Agree'
  BY <1>0, <1>1 DEF Agree, used
<1>6. Connections'
  <2>1. \A j \in 1..Len(backlog) : backlog[j] \in Client /\ backlog[j] # c
    <3>1. \A j \in 1..Len(backlog) : backlog[j] \in Client
      BY <1>3, ElementOfSeq
    <3> QED BY <1>0, <1>1, <3>1 DEF Connections
  <2>2. fd[c] = none
    BY <1>0, <1>1 DEF Connections
  <2>3. \A j \in 1..Len(backlog') : j \in 1..Len(backlog) \/ j = Len(backlog) + 1
    BY <1>3
  <2>4. \A j \in 1..Len(backlog) : fd'[backlog'[j]] = none /\ client'[backlog'[j]] # "out"
    BY <1>0, <1>1, <1>2, <1>3, <2>1 DEF Connections
  <2>5. \A j \in 1..Len(backlog') : fd'[backlog'[j]] = none /\ client'[backlog'[j]] # "out"
    BY <1>1, <1>2, <1>3, <2>2, <2>3, <2>4
  <2>6. \A j, k \in 1..Len(backlog') : backlog'[j] = backlog'[k] => j = k
    BY <1>0, <1>3, <2>1, <2>3 DEF Connections
  <2>7. \A d \in Client : client'[d] = "out" => fd'[d] = none
    BY <1>0, <1>1, <1>2 DEF Connections
  <2> QED BY <1>0, <1>1, <1>3, <2>5, <2>6, <2>7 DEF Connections
<1>7. Counted' /\ LineOpen'
  BY <1>0, <1>1 DEF Counted, LineOpen, room, toServe
<1> QED BY <1>4, <1>5, <1>6, <1>7 DEF PoolInv

LEMMA SendLineStep == ASSUME PoolInv, NEW c \in Client, SendLine(c) PROVE PoolInv'
<1>0. TypeOK
  BY DEF PoolInv
<1>1. PICK s \in Lines :
         /\ client[c] = "idle" /\ Len(s) <= budget[c]
         /\ client' = [client EXCEPT ![c] = "reading"]
         /\ sent' = [sent EXCEPT ![c] = s]
         /\ toServer' = [toServer EXCEPT ![c] = toServer[c] \o s]
         /\ budget' = [budget EXCEPT ![c] = budget[c] - Len(s)]
         /\ UNCHANGED <<server, backlog, fd, toClient, world>>
  BY DEF SendLine
<1>2. s \in Seq(Byte) /\ Len(s) \in Nat
  BY DEF Lines, Byte
<1>3. TypeOK'
  <2>1. budget' \in [Client -> 0..MaxSent]
    BY <1>0, <1>1, <1>2, PoolAssumption DEF TypeOK
  <2>2. sent' \in [Client -> Seq(Byte)] /\ toServer' \in [Client -> Seq(Byte)]
    BY <1>0, <1>1, <1>2 DEF TypeOK
  <2>3. client' \in [Client -> {"out", "idle", "reading", "closed"}]
    BY <1>0, <1>1 DEF TypeOK
  <2> QED BY <1>0, <1>1, <2>1, <2>2, <2>3 DEF TypeOK, server, pool, world
<1>4. \A d \in Client : client'[d] = "out" <=> client[d] = "out"
  BY <1>0, <1>1 DEF TypeOK
<1> QED BY <1>1, <1>3, <1>4, ClientFrame DEF PoolInv

LEMMA ReadEchoStep == ASSUME PoolInv, NEW c \in Client, ReadEcho(c) PROVE PoolInv'
<1>0. TypeOK
  BY DEF PoolInv
<1>1. PICK k \in 1..Len(toClient[c]) :
         toClient' = [toClient EXCEPT ![c] = SubSeq(toClient[c], k + 1, Len(toClient[c]))]
  BY DEF ReadEcho
<1>2. /\ client[c] = "reading"
      /\ client' = [client EXCEPT ![c] = "idle"]
      /\ sent' = [sent EXCEPT ![c] = <<>>]
      /\ UNCHANGED <<server, backlog, fd, toServer, budget, world>>
  BY DEF ReadEcho
<1>3. SubSeq(toClient[c], k + 1, Len(toClient[c])) \in Seq(Byte \cup {"nul"})
  <2>1. toClient[c] \in Seq(Byte \cup {"nul"}) /\ Len(toClient[c]) \in Nat /\ k \in Nat
    BY <1>0 DEF TypeOK
  <2> QED BY <2>1, SubSeqProperties
<1>4. TypeOK'
  <2>1. toClient' \in [Client -> Seq(Byte \cup {"nul"})]
    BY <1>0, <1>1, <1>3 DEF TypeOK
  <2>2. sent' \in [Client -> Seq(Byte)]
    BY <1>0, <1>2 DEF TypeOK
  <2>3. client' \in [Client -> {"out", "idle", "reading", "closed"}]
    BY <1>0, <1>2 DEF TypeOK
  <2> QED BY <1>0, <1>2, <2>1, <2>2, <2>3 DEF TypeOK, server, pool, world
<1>5. \A d \in Client : client'[d] = "out" <=> client[d] = "out"
  BY <1>0, <1>2 DEF TypeOK
<1> QED BY <1>2, <1>4, <1>5, ClientFrame DEF PoolInv

LEMMA SendByteStep == ASSUME PoolInv, NEW c \in Client, SendByte(c) PROVE PoolInv'
<1>0. TypeOK
  BY DEF PoolInv
<1>1. PICK b \in Byte :
         /\ budget[c] > 0
         /\ toServer' = [toServer EXCEPT ![c] = Append(toServer[c], b)]
         /\ budget' = [budget EXCEPT ![c] = budget[c] - 1]
         /\ UNCHANGED <<server, backlog, fd, client, sent, toClient, world>>
  BY DEF SendByte
<1>2. TypeOK'
  <2>1. budget' \in [Client -> 0..MaxSent]
    BY <1>0, <1>1, PoolAssumption DEF TypeOK
  <2>2. toServer' \in [Client -> Seq(Byte)]
    BY <1>0, <1>1 DEF TypeOK
  <2> QED BY <1>0, <1>1, <2>1, <2>2 DEF TypeOK, server, pool, world
<1> QED BY <1>1, <1>2, ClientFrame DEF PoolInv

LEMMA CloseStep == ASSUME PoolInv, NEW c \in Client, CloseEnd(c) PROVE PoolInv'
<1>0. TypeOK
  BY DEF PoolInv
<1>1. /\ client[c] = "idle" /\ client' = [client EXCEPT ![c] = "closed"]
      /\ UNCHANGED <<server, backlog, fd, sent, toServer, toClient, budget, world>>
  BY DEF CloseEnd
<1>2. TypeOK'
  <2>1. client' \in [Client -> {"out", "idle", "reading", "closed"}]
    BY <1>0, <1>1 DEF TypeOK
  <2> QED BY <1>0, <1>1, <2>1 DEF TypeOK, server, pool, world
<1>3. \A d \in Client : client'[d] = "out" <=> client[d] = "out"
  BY <1>0, <1>1 DEF TypeOK
<1> QED BY <1>1, <1>2, <1>3, ClientFrame DEF PoolInv

-----------------------------------------------------------------------------
(* The invariant and what it gives.                                         *)

LEMMA InitPool == Init => PoolInv
<1> SUFFICES ASSUME Init PROVE PoolInv
  OBVIOUS
<1>1. TypeOK
  BY PoolAssumption DEF Init, TypeOK, listenfd
<1>2. used = {} /\ {fd[c] : c \in Client} \ {none} = {}
  BY DEF Init, used
<1>3. Agree
  BY <1>2 DEF Init, Agree, listenfd
<1>4. Connections
  BY DEF Init, Connections
<1>5. Counted /\ LineOpen
  BY DEF Init, Counted, LineOpen
<1> QED BY <1>1, <1>3, <1>4, <1>5 DEF PoolInv

LEMMA NextPool == PoolInv /\ [Next]_vars => PoolInv'
<1> SUFFICES ASSUME PoolInv, [Next]_vars PROVE PoolInv'
  OBVIOUS
<1>1. CASE Select
  BY <1>1, SelectStep
<1>2. CASE Accept
  BY <1>2, AcceptStep
<1>3. CASE Overrun \/ AcceptFails
  BY <1>3, FailStep DEF Overrun, AcceptFails
<1>4. CASE Skip
  BY <1>4, SkipStep
<1>5. CASE Serve
  BY <1>5, ServeStep
<1>6. CASE EndOfPass
  BY <1>6, EndOfPassStep
<1>7. ASSUME NEW c \in Client,
             (\E k \in 1..RIO_BUFSIZE : Read(c, k)) \/ ReadCut(c) \/ Remove(c) \/ Echo(c) \/ Reset(c)
      PROVE  PoolInv'
  <2>1. Reset(c) => PoolInv'
    BY FailStep DEF Reset
  <2> QED BY <1>7, <2>1, ReadStep, ReadCutStep, RemoveStep, EchoStep
<1>8. CASE Clients
  BY <1>8, ConnectStep, SendLineStep, ReadEchoStep, SendByteStep, CloseStep DEF Clients
<1>9. CASE UNCHANGED vars
  <2>1. TypeOK'
    BY <1>9 DEF PoolInv, TypeOK, vars, pool, network, world
  <2> QED BY <1>9, <2>1, ClientFrame DEF PoolInv, vars, network, server
<1> QED BY <1>1, <1>2, <1>3, <1>4, <1>5, <1>6, <1>7, <1>8, <1>9 DEF Next, Server, Done

LEMMA PoolInvariant == Spec => []PoolInv
<1> QED BY InitPool, NextPool, PTL DEF Spec

\* Every variable of server and clients keeps its type; in particular the
\* line never outgrows the MAXLINE bytes of check_client's buffer.
THEOREM TypeCorrect == Spec => []TypeOK
<1>1. PoolInv => TypeOK
  BY DEF PoolInv
<1> QED BY <1>1, PoolInvariant, PTL

\* nready never runs out before the last ready descriptor is served.
THEOREM AllReadyServed == Spec => []EveryReadyIsServed
<1>1. PoolInv => EveryReadyIsServed
  BY DEF PoolInv, Counted, EveryReadyIsServed
<1> QED BY <1>1, PoolInvariant, PTL

-----------------------------------------------------------------------------
(* The pool is never full.                                                  *)

\* The pool holds only descriptors that have a bit in read_set.
Marked == \A s \in used : clientfd[s] < FD_SETSIZE

LEMMA NextMarked == PoolInv /\ Marked /\ [Next]_vars => Marked'
<1> SUFFICES ASSUME PoolInv, Marked, [Next]_vars PROVE Marked'
  OBVIOUS
<1>1. CASE clientfd' = clientfd
  BY <1>1 DEF Marked, used
<1>2. CASE Accept
  <2>1. PICK connfd \in Fd, s0 \in Slots :
           connfd = Least(freeFds) /\ clientfd' = [clientfd EXCEPT ![s0] = connfd]
    BY <1>2, AcceptFacts
  <2>2. connfd < FD_SETSIZE
    BY <1>2, <2>1 DEF Accept
  <2> QED BY <2>1, <2>2 DEF Marked, used, PoolInv, TypeOK
<1>3. ASSUME NEW c \in Client, Remove(c) PROVE Marked'
  <2>1. clientfd' = [clientfd EXCEPT ![i] = none]
    BY <1>3 DEF Remove
  <2> QED BY <2>1 DEF Marked, used, PoolInv, TypeOK
<1>4. clientfd' = clientfd \/ Accept \/ \E c \in Client : Remove(c)
  BY DEF Next, Server, Clients, Done, Select, Overrun, AcceptFails, Skip, Serve, EndOfPass,
         Read, ReadCut, Echo, Reset, Connect, SendLine, ReadEcho, SendByte, CloseEnd,
         vars, server, pool
<1> QED BY <1>1, <1>2, <1>3, <1>4

\* Slots in use have different descriptors, all above the listening one.
LEMMA SlotsLeft == ASSUME PoolInv, Marked PROVE freeSlots # {}
<1> DEFINE low == (listenfd + 1)..(FD_SETSIZE - 1)
<1>1. TypeOK /\ Agree
  BY DEF PoolInv
<1> SUFFICES ASSUME freeSlots = {} PROVE FALSE
  OBVIOUS
<1>2. \A s \in Slots : s \in used
  BY DEF freeSlots, used
<1>3. ASSUME NEW s \in Slots PROVE clientfd[s] \in low
  <2>1. clientfd[s] \in Fd /\ clientfd[s] < FD_SETSIZE
    BY <1>1, <1>2 DEF TypeOK, used, Marked
  <2> QED BY <2>1, PoolAssumption DEF Fd, listenfd
<1>4. clientfd \in [Slots -> low]
  BY <1>1, <1>3 DEF TypeOK
<1>5. IsFiniteSet(Slots) /\ Cardinality(Slots) = FD_SETSIZE /\ FD_SETSIZE \in Nat /\ FD_SETSIZE > 3
  <2>1. FD_SETSIZE \in Nat /\ FD_SETSIZE > 3
    BY PoolAssumption DEF listenfd
  <2>2. 0 \in Int /\ FD_SETSIZE - 1 \in Int /\ ~(0 > FD_SETSIZE - 1) /\ FD_SETSIZE - 1 - 0 + 1 = FD_SETSIZE
    BY <2>1
  <2>3. /\ IsFiniteSet(0..(FD_SETSIZE - 1))
        /\ Cardinality(0..(FD_SETSIZE - 1)) = IF 0 > FD_SETSIZE - 1 THEN 0 ELSE FD_SETSIZE - 1 - 0 + 1
    BY <2>2, FS_Interval
  <2> QED BY <2>1, <2>2, <2>3 DEF Slots
<1>6. IsFiniteSet(low) /\ Cardinality(low) = FD_SETSIZE - 4
  <2>1. 4 \in Int /\ FD_SETSIZE - 1 \in Int /\ FD_SETSIZE - 1 - 4 + 1 = FD_SETSIZE - 4
    BY <1>5
  <2>2. low = 4..(FD_SETSIZE - 1)
    BY DEF listenfd
  <2>3. IsFiniteSet(4..(FD_SETSIZE - 1)) /\ Cardinality(4..(FD_SETSIZE - 1)) = IF 4 > FD_SETSIZE - 1 THEN 0 ELSE FD_SETSIZE - 1 - 4 + 1
    BY <2>1, FS_Interval
  <2>4. 4 > FD_SETSIZE - 1 => FD_SETSIZE - 4 = 0
    BY <1>5
  <2> QED BY <2>1, <2>2, <2>3, <2>4
<1>7. Cardinality(low) < Cardinality(Slots)
  BY <1>5, <1>6
<1> HIDE DEF low
<1>8. PICK x \in Slots, y \in Slots : x # y /\ clientfd[x] = clientfd[y]
  BY <1>4, <1>5, <1>6, <1>7, FS_PigeonHole
<1> QED BY <1>1, <1>2, <1>8 DEF Agree

\* Slots, read_set, maxfd, maxi and the open connections agree, for any number
\* of clients and slots and whatever descriptors the server may get, also ones
\* without a bit in read_set, until it ends or accepts such a descriptor; and a
\* client that is accepted finds a slot, so that "Too many clients" never comes.
THEOREM PoolIsConsistent == Spec => []PoolAgrees
<1>1. Init => Marked
  BY DEF Init, Marked, used
<1>2. PoolInv /\ Marked => PoolAgrees
  <2> SUFFICES ASSUME PoolInv, Marked PROVE PoolAgrees
    OBVIOUS
  <2>1. freeSlots # {}
    BY SlotsLeft
  <2> QED BY <2>1 DEF PoolInv, Agree, PoolAgrees
<1> QED BY <1>1, <1>2, NextMarked, PoolInvariant, PTL DEF Spec

-----------------------------------------------------------------------------
(* What select found ready stays ready until it is served.                  *)

\* The line of an echo client: one newline, at its end.
LEMMA LineShape ==
  ASSUME NEW s \in Lines
  PROVE  /\ s \in Seq(Byte) /\ Len(s) \in Nat /\ 0 < Len(s) /\ Len(s) <= MAXLINE - 1 /\ s # <<>>
         /\ \A j \in 1..Len(s) : s[j] = "nl" <=> j = Len(s)
<1>1. PICK k \in 1..(MAXLINE - 1) : s = [j \in 1..k |-> IF j = k THEN "nl" ELSE "x"]
  BY DEF Lines
<1>2. k \in Nat /\ 0 < k /\ k <= MAXLINE - 1
  BY PoolAssumption
<1>3. s \in Seq(Byte) /\ Len(s) = k
  BY <1>1, <1>2 DEF Byte
<1>4. \A j \in 1..k : s[j] = "nl" <=> j = k
  BY <1>1
<1>5. s # <<>>
  BY <1>2, <1>3
<1> QED BY <1>2, <1>3, <1>4, <1>5

\* The slots whose clients have sent something, or closed, since select().
Waiting(s) ==
  \/ pc \in {"accept", "check"}
  \/ pc \in {"read", "echo"} /\ s # i
  \/ pc = "read" /\ line = <<>>
HasInput ==
  \A c \in Client, s \in toServe :
    fd[c] = clientfd[s] /\ Waiting(s) => toServer[c] # <<>> \/ closed(c)

\* A step that makes no slot wait and takes nothing from a client in a slot
\* that waits.
LEMMA InputFrame ==
  ASSUME HasInput,
         \A c \in Client, s \in toServe' :
            fd'[c] = clientfd'[s] /\ Waiting(s)' =>
              /\ s \in toServe /\ fd[c] = clientfd[s] /\ Waiting(s)
              /\ toServer[c] # <<>> => toServer'[c] # <<>>
              /\ client[c] = "closed" => client'[c] = "closed"
  PROVE  HasInput'
BY DEF HasInput, closed

LEMMA SelectInput == ASSUME PoolInv, Select PROVE HasInput'
<1>1. /\ ready_set' = {f \in read_set : f <= maxfd /\ readable(f)}
      /\ UNCHANGED <<clientfd, fd, client, toServer>>
  BY DEF Select, network
<1>2. SUFFICES ASSUME NEW c \in Client, NEW s \in toServe', fd[c] = clientfd[s]
               PROVE  toServer[c] # <<>> \/ closed(c)
  BY <1>1 DEF HasInput, closed
<1>3. s \in Slots /\ clientfd[s] \in read_set /\ readable(clientfd[s])
  BY <1>1 DEF toServe
<1>4. clientfd[s] # listenfd /\ clientfd[s] # none
  BY <1>3 DEF PoolInv, TypeOK, Fd, listenfd, none
<1>5. PICK d \in Client : fd[d] = clientfd[s] /\ (toServer[d] # <<>> \/ closed(d))
  BY <1>3, <1>4 DEF readable
<1>6. d = c
  BY <1>2, <1>4, <1>5 DEF PoolInv, Connections
<1> QED BY <1>5, <1>6

LEMMA AcceptInput == ASSUME PoolInv, HasInput, Accept PROVE HasInput'
<1>1. PICK connfd \in Fd, s0 \in Slots :
         /\ connfd \notin ready_set
         /\ fd' = [fd EXCEPT ![Head(backlog)] = connfd] /\ Head(backlog) \in Client
         /\ clientfd' = [clientfd EXCEPT ![s0] = connfd]
  BY AcceptFacts
<1>2. pc = "accept" /\ UNCHANGED <<i, ready_set, client, toServer>>
  BY DEF Accept
<1>3. ASSUME NEW c \in Client, NEW s \in toServe', fd'[c] = clientfd'[s]
      PROVE  s \in toServe /\ fd[c] = clientfd[s]
  <2>1. s \in Slots /\ s >= i /\ clientfd'[s] \in ready_set
    BY <1>2 DEF toServe
  <2>2. s # s0 /\ clientfd'[s] = clientfd[s]
    BY <1>1, <2>1 DEF PoolInv, TypeOK
  <2>3. fd'[c] = fd[c]
    BY <1>1, <1>3, <2>1 DEF PoolInv, TypeOK
  <2> QED BY <1>3, <2>1, <2>2, <2>3 DEF toServe
<1> QED BY <1>2, <1>3, InputFrame DEF Waiting

LEMMA SkipInput == ASSUME PoolInv, HasInput, Skip PROVE HasInput'
<1>1. pc = "check" /\ i' = i + 1 /\ UNCHANGED <<clientfd, ready_set, fd, client, toServer>>
  BY DEF Skip, checking, pool, network
<1>2. toServe' \subseteq toServe
  BY <1>1 DEF toServe, PoolInv, TypeOK, Slots
<1> QED BY <1>1, <1>2, InputFrame DEF Waiting

LEMMA ServeInput == ASSUME HasInput, Serve PROVE HasInput'
<1>1. pc = "check" /\ UNCHANGED <<i, clientfd, ready_set, fd, client, toServer>>
  BY DEF Serve, checking, network
<1> QED BY <1>1, InputFrame DEF Waiting, toServe

\* The client that is served has slot i, and no other slot.
LEMMA OthersWait ==
  ASSUME PoolInv, pc \in {"read", "echo"}, NEW c \in Client, served(c),
         NEW s \in toServe, s # i
  PROVE  fd[c] # clientfd[s]
<1>1. i \in used /\ s \in used /\ fd[c] = clientfd[i]
  BY ServedSlot, ToServeUsed DEF PoolInv
<1> QED BY <1>1 DEF PoolInv, Agree

LEMMA ReadInput ==
  ASSUME PoolInv, HasInput, NEW c \in Client, NEW k \in 1..RIO_BUFSIZE, Read(c, k)
  PROVE  HasInput'
<1>1. /\ pc = "read" /\ served(c) /\ TakeLine(SubSeq(toServer[c], 1, k))
      /\ UNCHANGED <<i, clientfd, ready_set, fd, client>>
      /\ toServer' = [toServer EXCEPT ![c] = SubSeq(toServer[c], k + 1, Len(toServer[c]))]
      /\ k <= Len(toServer[c]) /\ pc' \in {"read", "echo"}
  BY DEF Read, pool
<1>2. line' # <<>>
  <2>1. toServer[c] \in Seq(Byte) /\ k \in Nat
    BY DEF PoolInv, TypeOK
  <2>2. SubSeq(toServer[c], 1, k) \in Seq(Byte)
    BY <1>1, <2>1, SubSeqProperties
  <2> QED BY <1>1, <2>2, LineFits DEF PoolInv, TypeOK, LineOpen
<1>3. ASSUME NEW d \in Client, NEW s \in toServe', fd'[d] = clientfd'[s], Waiting(s)'
      PROVE  /\ s \in toServe /\ fd[d] = clientfd[s] /\ Waiting(s)
             /\ toServer'[d] = toServer[d]
  <2>1. s \in toServe /\ fd[d] = clientfd[s] /\ s # i
    BY <1>1, <1>2, <1>3 DEF toServe, Waiting
  <2>2. d # c
    BY <1>1, <2>1, OthersWait
  <2> QED BY <1>1, <2>1, <2>2 DEF Waiting, PoolInv, TypeOK
<1> QED BY <1>1, <1>3, InputFrame

LEMMA ReadCutInput == ASSUME HasInput, NEW c \in Client, ReadCut(c) PROVE HasInput'
<1>1. pc = "read" /\ pc' = "echo" /\ UNCHANGED <<i, clientfd, ready_set, fd, client, toServer>>
  BY DEF ReadCut, pool, network
<1> QED BY <1>1, InputFrame DEF Waiting, toServe

LEMMA RemoveInput == ASSUME PoolInv, HasInput, NEW c \in Client, Remove(c) PROVE HasInput'
<1>1. /\ pc = "read" /\ served(c) /\ i' = i + 1
      /\ fd' = [fd EXCEPT ![c] = none] /\ client' = [client EXCEPT ![c] = "out"]
      /\ clientfd' = [clientfd EXCEPT ![i] = none]
      /\ UNCHANGED <<ready_set, toServer>>
  BY DEF Remove, Gone
<1>2. ASSUME NEW d \in Client, NEW s \in toServe', fd'[d] = clientfd'[s]
      PROVE  s \in toServe /\ s # i /\ fd[d] = clientfd[s] /\ client'[d] = client[d]
  <2>1. s \in Slots /\ s >= i + 1 /\ clientfd'[s] \in ready_set
    BY <1>1 DEF toServe
  <2>2. s >= i /\ s # i
    BY <2>1 DEF PoolInv, TypeOK, Slots
  <2>3. clientfd'[s] = clientfd[s] /\ s \in toServe
    BY <1>1, <2>1, <2>2 DEF PoolInv, TypeOK, toServe
  <2>4. clientfd[s] # none
    BY <2>3, ToServeUsed DEF PoolInv, used
  <2>5. d # c
    BY <1>1, <1>2, <2>3, <2>4 DEF PoolInv, TypeOK
  <2> QED BY <1>1, <1>2, <2>2, <2>3, <2>5 DEF PoolInv, TypeOK
<1> QED BY <1>1, <1>2, InputFrame DEF Waiting

LEMMA EchoInput == ASSUME PoolInv, HasInput, NEW c \in Client, Echo(c) PROVE HasInput'
<1>1. pc = "echo" /\ i' = i + 1 /\ UNCHANGED <<clientfd, ready_set, fd, client, toServer>>
  BY DEF Echo, pool
<1>2. \A s \in toServe' : s \in toServe /\ s # i
  BY <1>1 DEF toServe, PoolInv, TypeOK, Slots
<1> QED BY <1>1, <1>2, InputFrame DEF Waiting

LEMMA ClientInput ==
  ASSUME PoolInv, HasInput, NEW c \in Client,
         Connect(c) \/ SendLine(c) \/ ReadEcho(c) \/ SendByte(c) \/ CloseEnd(c)
  PROVE  HasInput'
<1>1. UNCHANGED <<pc, i, clientfd, ready_set, line, fd>>
  BY DEF Connect, SendLine, ReadEcho, SendByte, CloseEnd, server, pool
<1>2. \A d \in Client : client[d] = "closed" => client'[d] = "closed"
  BY DEF Connect, SendLine, ReadEcho, SendByte, CloseEnd, PoolInv, TypeOK
<1>3. \A d \in Client : toServer[d] # <<>> => toServer'[d] # <<>>
  <2>1. CASE Connect(c) \/ ReadEcho(c) \/ CloseEnd(c)
    BY <2>1 DEF Connect, ReadEcho, CloseEnd
  <2>2. CASE SendLine(c)
    <3>1. PICK s \in Lines : toServer' = [toServer EXCEPT ![c] = toServer[c] \o s]
      BY <2>2 DEF SendLine
    <3>2. s \in Seq(Byte) /\ toServer[c] \in Seq(Byte)
      BY LineShape DEF PoolInv, TypeOK
    <3>3. toServer[c] # <<>> => toServer[c] \o s # <<>>
      BY <3>2, ConcatEqualIffEmpty
    <3> QED BY <3>1, <3>3 DEF PoolInv, TypeOK
  <2>3. CASE SendByte(c)
    <3>1. PICK b \in Byte : toServer' = [toServer EXCEPT ![c] = Append(toServer[c], b)]
      BY <2>3 DEF SendByte
    <3>2. toServer[c] \in Seq(Byte)
      BY DEF PoolInv, TypeOK
    <3>3. Append(toServer[c], b) # <<>>
      BY <3>2, AppendProperties
    <3> QED BY <3>1, <3>3 DEF PoolInv, TypeOK
  <2> QED BY <2>1, <2>2, <2>3
<1> QED BY <1>1, <1>2, <1>3, InputFrame DEF Waiting, toServe

LEMMA NextInput == PoolInv /\ HasInput /\ [Next]_vars => HasInput'
<1> SUFFICES ASSUME PoolInv, HasInput, [Next]_vars PROVE HasInput'
  OBVIOUS
<1>1. pc' \in {"select", "failed", "undefined"} => HasInput'
  BY DEF HasInput, Waiting
<1>2. Overrun \/ AcceptFails \/ EndOfPass \/ (\E c \in Client : Reset(c)) => HasInput'
  BY <1>1 DEF Overrun, AcceptFails, EndOfPass, Reset
<1>3. Server => HasInput'
  BY <1>2, SelectInput, AcceptInput, SkipInput, ServeInput, ReadInput, ReadCutInput,
     RemoveInput, EchoInput DEF Server
<1>4. Clients => HasInput'
  BY ClientInput DEF Clients
<1>5. UNCHANGED vars => HasInput'
  BY InputFrame DEF vars, pool, network, toServe, Waiting
<1> QED BY <1>3, <1>4, <1>5 DEF Next, Done

\* The server never waits for the first byte of a line: a descriptor that
\* select() found ready, and that check_client has not come to yet, is still
\* readable when its turn comes, whatever it did for others in between.
THEOREM NeverWaitsBeforeALine == Spec => []WaitsOnlyInsideLines
<1>1. Init => HasInput
  BY DEF Init, HasInput, Waiting
<1>2. PoolInv /\ HasInput => WaitsOnlyInsideLines
  <2>1. ASSUME PoolInv, HasInput, NEW c \in Client, pc = "read", served(c), line = <<>>
        PROVE  toServer[c] # <<>> \/ closed(c)
    BY <2>1, ServedSlot DEF HasInput, Waiting
  <2> QED BY <2>1 DEF WaitsOnlyInsideLines
<1> QED BY <1>1, <1>2, NextInput, PoolInvariant, PTL DEF Spec


-----------------------------------------------------------------------------
(* The line of an echo client.                                              *)

\* read() brings k bytes of a line: all of them go into the line, which is
\* complete when they were the last.
LEMMA ReadsOfTheLine ==
  ASSUME NEW s \in Lines, line \in Seq(Byte), NEW t \in Seq(Byte), line \o t = s,
         NEW k \in 1..Len(t), TakeLine(SubSeq(t, 1, k))
  PROVE  /\ line' \o SubSeq(t, k + 1, Len(t)) = s
         /\ line' \in Seq(Byte) /\ Len(line') = Len(line) + k
         /\ Complete(line') => line' = s
<1> DEFINE chunk == SubSeq(t, 1, k)
           rest == SubSeq(t, k + 1, Len(t))
<1>0. /\ Len(line) \in Nat /\ Len(t) \in Nat /\ k \in Nat /\ 1 <= k /\ k <= Len(t)
      /\ MAXLINE \in Int
  BY PoolAssumption
<1>1. /\ Len(s) = Len(line) + Len(t) /\ Len(s) <= MAXLINE - 1
      /\ \A j \in 1..Len(t) : t[j] = s[Len(line) + j]
  <2>1. /\ Len(s) = Len(line) + Len(t)
        /\ \A j \in 1..(Len(line) + Len(t)) :
              s[j] = IF j <= Len(line) THEN line[j] ELSE t[j - Len(line)]
    BY ConcatProperties
  <2>2. ASSUME NEW j \in 1..Len(t) PROVE t[j] = s[Len(line) + j]
    <3>1. /\ Len(line) + j \in 1..(Len(line) + Len(t)) /\ ~(Len(line) + j <= Len(line))
          /\ Len(line) + j - Len(line) = j
      BY <1>0
    <3> QED BY <2>1, <3>1
  <2> QED BY <2>1, <2>2, LineShape
<1>2. /\ chunk \in Seq(Byte) /\ Len(chunk) = k /\ \A j \in 1..k : chunk[j] = t[j]
      /\ rest \in Seq(Byte) /\ Len(rest) = Len(t) - k
  <2>1. \A j \in 1..Len(t) : t[j] \in Byte
    BY ElementOfSeq
  <2>2. \A j \in 1..k : t[j] \in Byte
    BY <1>0, <2>1
  <2>3. chunk \in Seq(Byte) /\ Len(chunk) = k /\ \A j \in 1..k : chunk[j] = t[j]
    BY <1>0, <2>2, SubSeqProperties
  <2>4. \A j \in (k + 1)..Len(t) : t[j] \in Byte
    BY <1>0, <2>1
  <2>5. rest \in Seq(Byte) /\ Len(rest) = IF k + 1 <= Len(t) THEN Len(t) - (k + 1) + 1 ELSE 0
    BY <1>0, <2>4, SubSeqProperties
  <2>6. Len(rest) = Len(t) - k
    BY <1>0, <2>5
  <2> QED BY <2>3, <2>5, <2>6
<1>3. chunk \o rest = t
  BY <1>0, ConcatAdjacentSubSeq, SubSeqFull
<1> HIDE DEF chunk, rest
<1>4. PICK m \in 1..k : ends(chunk, m) /\ line' = line \o SubSeq(chunk, 1, m)
  BY <1>2 DEF TakeLine, chunk
<1>5. m = k
  <2>0. m \in Nat /\ 1 <= m /\ m <= k
    BY <1>0
  <2>1. ASSUME chunk[m] = "nl" PROVE m = k
    <3>1. m \in 1..Len(t)
      BY <1>0, <2>0
    <3>2. s[Len(line) + m] = "nl" /\ Len(line) + m \in 1..Len(s)
      BY <1>0, <1>1, <1>2, <2>1, <3>1
    <3>3. Len(line) + m = Len(s)
      BY <3>2, LineShape
    <3> QED BY <1>0, <1>1, <2>0, <3>3
  <2>2. ASSUME m = MAXLINE - 1 - Len(line) PROVE m = k
    BY <1>0, <1>1, <2>0, <2>2
  <2> QED BY <1>2, <1>4, <2>1, <2>2 DEF ends, room
<1>6. PICK w : w = line'
  OBVIOUS
<1>7. w \in Seq(Byte) /\ w = line \o chunk /\ Len(w) = Len(line) + k
  <2>1. w = line \o chunk
    BY <1>2, <1>4, <1>5, <1>6, SubSeqFull
  <2> QED BY <1>2, <2>1, ConcatProperties
<1>8. w \o rest = s
  <2>1. (line \o chunk) \o rest = line \o (chunk \o rest)
    BY <1>2, ConcatAssociative
  <2> QED BY <1>3, <1>7, <2>1
<1>9. ASSUME Complete(w) PROVE w = s
  <2>1. Len(w) \in 1..Len(s) /\ w[Len(w)] = s[Len(w)]
    <3>1. Len(w) \in 1..(Len(w) + Len(rest)) /\ Len(w) <= Len(w) /\ Len(w) \in 1..Len(s)
      BY <1>0, <1>1, <1>2, <1>7
    <3>2. (w \o rest)[Len(w)] = w[Len(w)]
      BY <1>2, <1>7, <3>1, ConcatProperties
    <3> QED BY <1>8, <3>1, <3>2
  <2>2. w[Len(w)] = "nl" => Len(w) = Len(s)
    BY <2>1, LineShape
  <2>3. Len(w) = Len(s)
    <3>1. CASE w[Len(w)] = "nl"
      BY <2>2, <3>1
    <3>2. CASE Len(w) = MAXLINE - 1
      <4>1. Len(w) <= Len(s) /\ Len(s) <= MAXLINE - 1 /\ Len(w) \in Int /\ Len(s) \in Int
        BY <1>0, <1>1, <1>7
      <4> QED BY <1>0, <3>2, <4>1
    <3> QED BY <1>9, <3>1, <3>2 DEF Complete
  <2>4. Len(rest) = 0
    BY <1>0, <1>1, <1>2, <1>7, <2>3
  <2>5. rest = <<>>
    BY <1>2, <2>4, EmptySeq
  <2> QED BY <1>7, <1>8, <2>5, ConcatEmptySeq
<1> QED BY <1>6, <1>7, <1>8, <1>9 DEF rest


\* The line of an echo client while it waits for its echo, and where the line is.
LineOf(c) ==
  /\ IF client[c] = "reading" THEN sent[c] \in Lines ELSE sent[c] = <<>>
  /\ \/ inHand(c) \o toServer[c] = sent[c] /\ toClient[c] = <<>>
     \/ inHand(c) \o toServer[c] = <<>> /\ toClient[c] = sent[c]
  /\ pc = "echo" /\ served(c) => line = sent[c] /\ sent[c] # <<>>

\* With echo clients only, byte_cnt counts all bytes received, but for those
\* of the line in hand.
Conserved ==
  Client = echoclients => received = byte_cnt + (IF pc \in {"read", "echo"} THEN Len(line) ELSE 0)

Lively == ~stopped => (\A c \in echoclients : LineOf(c)) /\ Conserved

LEMMA EchoTypes ==
  ASSUME TypeOK, NEW c \in Client
  PROVE  /\ inHand(c) \in Seq(Byte) /\ toServer[c] \in Seq(Byte) /\ sent[c] \in Seq(Byte)
         /\ toClient[c] \in Seq(Byte \cup {"nul"})
         /\ <<>> \in Seq(Byte) /\ Len(<<>>) = 0
         /\ line \in Seq(Byte) /\ Len(line) \in Nat /\ byte_cnt \in Nat /\ received \in Nat
BY DEF TypeOK, inHand

\* An echo client that does not wait for its echo has no bytes anywhere.
LEMMA NothingOnTheWay ==
  ASSUME TypeOK, NEW c \in Client, LineOf(c), client[c] # "reading"
  PROVE  /\ sent[c] = <<>> /\ inHand(c) = <<>> /\ toServer[c] = <<>> /\ toClient[c] = <<>>
         /\ ~(pc = "echo" /\ served(c))
<1>1. sent[c] = <<>> /\ toClient[c] = <<>> /\ inHand(c) \o toServer[c] = <<>>
  BY DEF LineOf
<1>2. inHand(c) = <<>> /\ toServer[c] = <<>>
  BY <1>1, EchoTypes, ConcatEqualIffEmpty
<1> QED BY <1>1, <1>2 DEF LineOf

\* A step that leaves a client and what the server holds of its line alone.
LEMMA LineFrame ==
  ASSUME NEW c, LineOf(c),
         client'[c] = client[c], sent'[c] = sent[c],
         toServer'[c] = toServer[c], toClient'[c] = toClient[c],
         inHand(c)' = inHand(c),
         (pc = "echo" /\ served(c))' => pc = "echo" /\ served(c) /\ line' = line
  PROVE  LineOf(c)'
BY DEF LineOf

\* While the server has no line in hand.
LEMMA NoLineFrame ==
  ASSUME Lively, pc \in {"select", "accept", "check"}, pc' \in {"select", "accept", "check", "failed"},
         UNCHANGED <<byte_cnt, received, client, sent, toServer, toClient, echoclients>>
  PROVE  Lively'
<1>1. SUFFICES ASSUME pc' # "failed" PROVE Lively'
  BY DEF Lively, stopped
<1>2. ASSUME NEW c \in echoclients PROVE LineOf(c)'
  BY <1>1, LineFrame DEF Lively, stopped, inHand
<1>3. Conserved'
  BY <1>1 DEF Lively, stopped, Conserved
<1> QED BY <1>2, <1>3 DEF Lively, stopped

LEMMA ServeLine == ASSUME PoolInv, Lively, Serve PROVE Lively'
<1>1. /\ pc = "check" /\ pc' = "read" /\ line' = <<>>
      /\ UNCHANGED <<byte_cnt, received, client, sent, toServer, toClient, echoclients>>
  BY DEF Serve, checking, network, world
<1>2. ASSUME NEW c \in echoclients PROVE LineOf(c)'
  BY <1>1, LineFrame DEF Lively, stopped, inHand
<1>3. Conserved'
  BY <1>1 DEF Lively, stopped, Conserved, PoolInv, TypeOK
<1> QED BY <1>1, <1>2, <1>3 DEF Lively, stopped

\* A client that is not served while another one is.
LEMMA NotServed ==
  ASSUME PoolInv, NEW c \in Client, served(c), NEW d \in Client, d # c
  PROVE  ~served(d) /\ inHand(d) = <<>>
BY DEF PoolInv, Connections, served, inHand

LEMMA ReadLine ==
  ASSUME PoolInv, Lively, NEW c \in Client, NEW k \in 1..RIO_BUFSIZE, Read(c, k)
  PROVE  Lively'
<1>1. /\ pc = "read" /\ served(c) /\ k <= Len(toServer[c])
      /\ TakeLine(SubSeq(toServer[c], 1, k))
      /\ pc' = IF Complete(line') THEN "echo" ELSE "read"
      /\ toServer' = [toServer EXCEPT ![c] = SubSeq(toServer[c], k + 1, Len(toServer[c]))]
      /\ received' = received + k
      /\ UNCHANGED <<i, clientfd, byte_cnt, fd, client, sent, toClient, echoclients>>
  BY DEF Read, pool, world
<1>2. echoclients \subseteq Client /\ toServer \in [Client -> Seq(Byte)]
  BY DEF PoolInv, TypeOK
<1>3. ASSUME NEW d \in echoclients, d # c PROVE LineOf(d)'
  <2>1. ~served(d) /\ ~served(d)' /\ inHand(d) = <<>> /\ inHand(d)' = <<>>
    BY <1>1, <1>2, <1>3, NotServed DEF served, inHand
  <2>2. toServer'[d] = toServer[d]
    BY <1>1, <1>2, <1>3
  <2> QED BY <1>1, <2>1, <2>2, LineFrame DEF Lively, stopped
<1>4. ASSUME c \in echoclients PROVE LineOf(c)' /\ Len(line') = Len(line) + k
  <2>1. /\ LineOf(c) /\ toServer[c] \in Seq(Byte) /\ k \in 1..Len(toServer[c])
        /\ inHand(c) = line /\ line \in Seq(Byte)
    BY <1>1, <1>4, EchoTypes DEF Lively, stopped, inHand, PoolInv
  <2>2. line \o toServer[c] = sent[c] /\ toClient[c] = <<>> /\ sent[c] # <<>>
    <3>1. line \o toServer[c] # <<>>
      <4>1. toServer[c] # <<>>
        BY <2>1, EmptySeq
      <4> QED BY <2>1, <4>1, ConcatEqualIffEmpty
    <3> QED BY <2>1, <3>1 DEF LineOf
  <2>3. client[c] = "reading" /\ sent[c] \in Lines
    BY <2>1, <2>2 DEF LineOf
  <2>4. /\ line' \o SubSeq(toServer[c], k + 1, Len(toServer[c])) = sent[c]
        /\ Len(line') = Len(line) + k
        /\ Complete(line') => line' = sent[c]
    BY <1>1, <2>1, <2>2, <2>3, ReadsOfTheLine
  <2>5. inHand(c)' = line' /\ toServer'[c] = SubSeq(toServer[c], k + 1, Len(toServer[c]))
    BY <1>1, <1>2 DEF inHand, served
  <2> QED BY <1>1, <2>2, <2>3, <2>4, <2>5 DEF LineOf
<1>5. Conserved'
  <2> SUFFICES ASSUME Client = echoclients
               PROVE  received + k = byte_cnt + Len(line')
    BY <1>1 DEF Conserved
  <2>1. received = byte_cnt + Len(line)
    BY <1>1 DEF Lively, stopped, Conserved
  <2>2. received \in Nat /\ byte_cnt \in Nat /\ Len(line) \in Nat /\ k \in Nat
    BY EchoTypes DEF PoolInv
  <2> QED BY <1>4, <2>1, <2>2
<1> QED BY <1>1, <1>3, <1>4, <1>5 DEF Lively, stopped

\* An echo client does not close while it waits, so its line is never cut.
LEMMA ReadCutLine == ASSUME PoolInv, Lively, NEW c \in Client, ReadCut(c) PROVE Lively'
<1>1. /\ pc = "read" /\ served(c) /\ client[c] = "closed" /\ line # <<>> /\ pc' = "echo"
      /\ UNCHANGED <<i, clientfd, line, byte_cnt, received, fd, client, sent, toServer, toClient,
                     echoclients>>
  BY DEF ReadCut, closed, pool, network, world
<1>2. c \notin echoclients
  BY <1>1, NothingOnTheWay DEF Lively, stopped, PoolInv, inHand
<1>3. ASSUME NEW d \in echoclients PROVE LineOf(d)'
  <2>1. d \in Client /\ d # c
    BY <1>2 DEF PoolInv, TypeOK
  <2>2. ~served(d) /\ ~served(d)' /\ inHand(d) = <<>> /\ inHand(d)' = <<>>
    BY <1>1, <2>1, NotServed DEF served, inHand
  <2> QED BY <1>1, <2>2, LineFrame DEF Lively, stopped
<1>4. Conserved'
  BY <1>1, <1>2 DEF Conserved
<1> QED BY <1>1, <1>3, <1>4 DEF Lively, stopped

LEMMA RemoveLine == ASSUME PoolInv, Lively, NEW c \in Client, Remove(c) PROVE Lively'
<1>1. /\ pc = "read" /\ served(c) /\ client[c] = "closed" /\ line = <<>> /\ pc' = "check"
      /\ client' = [client EXCEPT ![c] = "out"] /\ toClient' = [toClient EXCEPT ![c] = <<>>]
      /\ UNCHANGED <<byte_cnt, received, sent, toServer, echoclients>>
  BY DEF Remove, Gone, closed, world
<1>2. \A d \in Client : inHand(d)' = <<>>
  BY <1>1 DEF inHand
<1>3. ASSUME NEW d \in echoclients PROVE LineOf(d)'
  <2>0. d \in Client /\ LineOf(d)
    BY <1>1 DEF Lively, stopped, PoolInv, TypeOK
  <2>1. CASE d = c
    <3>1. sent[c] = <<>> /\ toServer[c] = <<>>
      BY <1>1, <2>0, <2>1, NothingOnTheWay DEF PoolInv
    <3>2. client'[c] = "out" /\ toClient'[c] = <<>>
      BY <1>1 DEF PoolInv, TypeOK
    <3> QED BY <1>1, <1>2, <2>1, <3>1, <3>2, ConcatEmptySeq DEF LineOf
  <2>2. CASE d # c
    <3>1. inHand(d) = <<>> /\ client'[d] = client[d] /\ toClient'[d] = toClient[d]
      BY <1>1, <2>0, <2>2, NotServed DEF PoolInv, TypeOK
    <3> QED BY <1>1, <1>2, <2>0, <3>1, LineFrame
  <2> QED BY <2>1, <2>2
<1>4. Conserved'
  BY <1>1, EchoTypes DEF Lively, stopped, Conserved, PoolInv
<1> QED BY <1>1, <1>3, <1>4 DEF Lively, stopped

LEMMA EchoLine == ASSUME PoolInv, Lively, NEW c \in Client, Echo(c) PROVE Lively'
<1>1. /\ pc = "echo" /\ served(c) /\ pc' = "check"
      /\ byte_cnt' = byte_cnt + Len(Answer(line))
      /\ toClient' = [toClient EXCEPT ![c] = toClient[c] \o Answer(line)]
      /\ UNCHANGED <<received, client, sent, toServer, echoclients>>
  BY DEF Echo, world
<1>2. \A d \in Client : inHand(d)' = <<>>
  BY <1>1 DEF inHand
<1>3. ASSUME c \in echoclients
      PROVE  /\ Answer(line) = line /\ line = sent[c]
             /\ toServer[c] = <<>> /\ toClient[c] = <<>>
  <2>1. LineOf(c) /\ inHand(c) = line /\ line = sent[c] /\ sent[c] # <<>>
    BY <1>1, <1>3 DEF Lively, stopped, LineOf, inHand
  <2>2. sent[c] \in Lines /\ line \in Seq(Byte) /\ toServer[c] \in Seq(Byte)
    BY <2>1, EchoTypes DEF LineOf, PoolInv
  <2>3. line \o toServer[c] # <<>>
    BY <2>1, <2>2, ConcatEqualIffEmpty
  <2>4. line \o toServer[c] = line /\ toClient[c] = <<>>
    BY <2>1, <2>3 DEF LineOf
  <2>5. toServer[c] = <<>>
    BY <2>2, <2>4, ConcatEqualIffEmpty
  <2>6. line[Len(line)] = "nl"
    BY <2>1, <2>2, LineShape
  <2> QED BY <2>1, <2>4, <2>5, <2>6 DEF Answer
<1>4. ASSUME NEW d \in echoclients PROVE LineOf(d)'
  <2>0. d \in Client /\ LineOf(d)
    BY <1>1 DEF Lively, stopped, PoolInv, TypeOK
  <2>1. CASE d = c
    <3>1. toClient'[c] = sent[c]
      <4>1. toClient'[c] = <<>> \o sent[c] /\ sent[c] \in Seq(Byte)
        BY <1>1, <1>3, <2>1, EchoTypes DEF PoolInv, TypeOK
      <4> QED BY <4>1, ConcatEmptySeq
    <3> QED BY <1>1, <1>2, <1>3, <2>0, <2>1, <3>1, ConcatEmptySeq DEF LineOf
  <2>2. CASE d # c
    <3>1. inHand(d) = <<>> /\ toClient'[d] = toClient[d]
      BY <1>1, <2>0, <2>2, NotServed DEF PoolInv, TypeOK
    <3> QED BY <1>1, <1>2, <2>0, <3>1, LineFrame
  <2> QED BY <2>1, <2>2
<1>5. Conserved'
  BY <1>1, <1>3, EchoTypes DEF Lively, stopped, Conserved, PoolInv
<1> QED BY <1>1, <1>4, <1>5 DEF Lively, stopped


\* The clients' own steps: they leave the server alone, and each leaves the
\* others alone.
LEMMA ClientLines ==
  ASSUME Lively, TypeOK, NEW c \in Client, UNCHANGED <<pc, i, clientfd, line, byte_cnt, received, fd, echoclients>>,
         \A d \in Client : d # c => /\ client'[d] = client[d] /\ sent'[d] = sent[d]
                                    /\ toServer'[d] = toServer[d] /\ toClient'[d] = toClient[d],
         ~stopped /\ c \in echoclients => LineOf(c)'
  PROVE  Lively'
<1>1. SUFFICES ASSUME ~stopped PROVE Lively'
  BY DEF Lively, stopped
<1>2. ASSUME NEW d \in echoclients, d # c PROVE LineOf(d)'
  <2>1. d \in Client
    BY DEF TypeOK
  <2> QED BY <1>1, <1>2, <2>1, LineFrame DEF Lively, stopped, inHand, served
<1>3. Conserved'
  BY <1>1 DEF Lively, stopped, Conserved
<1> QED BY <1>1, <1>2, <1>3 DEF Lively, stopped

LEMMA ConnectLine == ASSUME PoolInv, Lively, NEW c \in Client, Connect(c) PROVE Lively'
<1>1. /\ client[c] = "out" /\ client' = [client EXCEPT ![c] = "idle"]
      /\ UNCHANGED <<pc, i, clientfd, line, byte_cnt, received, fd, sent, toServer, toClient, echoclients>>
  BY DEF Connect, server, pool, world
<1>2. /\ client'[c] = "idle" /\ \A d \in Client : d # c => client'[d] = client[d]
  BY <1>1 DEF PoolInv, TypeOK
<1>3. ASSUME LineOf(c) PROVE LineOf(c)'
  BY <1>1, <1>2, <1>3 DEF LineOf, inHand, served
<1> QED BY <1>1, <1>2, <1>3, ClientLines DEF Lively, stopped, PoolInv

LEMMA SendLineLine == ASSUME PoolInv, Lively, NEW c \in Client, SendLine(c) PROVE Lively'
<1>1. PICK s \in Lines :
         /\ client[c] = "idle"
         /\ client' = [client EXCEPT ![c] = "reading"]
         /\ sent' = [sent EXCEPT ![c] = s]
         /\ toServer' = [toServer EXCEPT ![c] = toServer[c] \o s]
         /\ UNCHANGED <<pc, i, clientfd, line, byte_cnt, received, fd, toClient, echoclients>>
  BY DEF SendLine, server, pool, world
<1>2. /\ client'[c] = "reading" /\ sent'[c] = s /\ toServer'[c] = toServer[c] \o s
      /\ \A d \in Client : d # c => /\ client'[d] = client[d] /\ sent'[d] = sent[d]
                                    /\ toServer'[d] = toServer[d]
  BY <1>1 DEF PoolInv, TypeOK
<1>3. ASSUME LineOf(c) PROVE LineOf(c)'
  <2>1. inHand(c) = <<>> /\ toServer[c] = <<>> /\ toClient[c] = <<>> /\ ~(pc = "echo" /\ served(c))
    BY <1>1, <1>3, NothingOnTheWay DEF PoolInv
  <2>2. s \in Seq(Byte) /\ inHand(c)' = <<>>
    BY <1>1, <2>1, LineShape DEF inHand, served
  <2>3. inHand(c)' \o toServer'[c] = s
    BY <1>2, <2>1, <2>2, ConcatEmptySeq
  <2> QED BY <1>1, <1>2, <2>1, <2>3 DEF LineOf, served
<1> QED BY <1>1, <1>2, <1>3, ClientLines DEF Lively, stopped, PoolInv

\* The first newline that comes back is the last byte of the line.
LEMMA ReadEchoLine == ASSUME PoolInv, Lively, NEW c \in Client, ReadEcho(c) PROVE Lively'
<1>1. PICK k \in 1..Len(toClient[c]) :
         /\ toClient[c][k] = "nl"
         /\ toClient' = [toClient EXCEPT ![c] = SubSeq(toClient[c], k + 1, Len(toClient[c]))]
  BY DEF ReadEcho
<1>2. /\ client[c] = "reading"
      /\ client' = [client EXCEPT ![c] = "idle"]
      /\ sent' = [sent EXCEPT ![c] = <<>>]
      /\ UNCHANGED <<pc, i, clientfd, line, byte_cnt, received, fd, toServer, echoclients>>
  BY DEF ReadEcho, server, pool, world
<1>3. /\ client'[c] = "idle" /\ sent'[c] = <<>>
      /\ toClient'[c] = SubSeq(toClient[c], k + 1, Len(toClient[c]))
      /\ \A d \in Client : d # c => /\ client'[d] = client[d] /\ sent'[d] = sent[d]
                                    /\ toClient'[d] = toClient[d]
  BY <1>1, <1>2 DEF PoolInv, TypeOK
<1>4. ASSUME LineOf(c) PROVE LineOf(c)'
  <2>1. toClient[c] # <<>> /\ sent[c] \in Lines
    BY <1>2, <1>4 DEF LineOf
  <2>2. inHand(c) \o toServer[c] = <<>> /\ toClient[c] = sent[c]
    BY <1>4, <2>1 DEF LineOf
  <2>3. k = Len(toClient[c]) /\ Len(toClient[c]) \in Nat
    BY <1>1, <2>1, <2>2, LineShape
  <2>4. toClient'[c] = <<>>
    BY <1>3, <2>3, SubSeqEmpty
  <2>5. inHand(c) = <<>>
    BY <2>2, EchoTypes, ConcatEqualIffEmpty DEF PoolInv
  <2>6. ~(pc = "echo" /\ served(c))
    BY <1>4, <2>5 DEF LineOf, inHand
  <2> QED BY <1>2, <1>3, <2>2, <2>4, <2>6 DEF LineOf, inHand, served
<1> QED BY <1>2, <1>3, <1>4, ClientLines DEF Lively, stopped, PoolInv

LEMMA SendByteLine == ASSUME PoolInv, Lively, NEW c \in Client, SendByte(c) PROVE Lively'
<1>1. PICK b \in Byte :
         /\ toServer' = [toServer EXCEPT ![c] = Append(toServer[c], b)]
         /\ UNCHANGED <<pc, i, clientfd, line, byte_cnt, received, fd, client, sent, toClient, echoclients>>
  BY DEF SendByte, server, pool, world
<1>2. c \notin echoclients /\ \A d \in Client : d # c => toServer'[d] = toServer[d]
  BY <1>1 DEF SendByte, PoolInv, TypeOK
<1> QED BY <1>1, <1>2, ClientLines DEF PoolInv

LEMMA CloseLine == ASSUME PoolInv, Lively, NEW c \in Client, CloseEnd(c) PROVE Lively'
<1>1. /\ client[c] = "idle" /\ client' = [client EXCEPT ![c] = "closed"]
      /\ UNCHANGED <<pc, i, clientfd, line, byte_cnt, received, fd, sent, toServer, toClient, echoclients>>
  BY DEF CloseEnd, server, pool, world
<1>2. /\ client'[c] = "closed" /\ \A d \in Client : d # c => client'[d] = client[d]
  BY <1>1 DEF PoolInv, TypeOK
<1>3. ASSUME LineOf(c) PROVE LineOf(c)'
  BY <1>1, <1>2, <1>3 DEF LineOf, inHand, served
<1> QED BY <1>1, <1>2, <1>3, ClientLines DEF Lively, stopped, PoolInv

LEMMA NextLines == PoolInv /\ Lively /\ [Next]_vars => Lively'
<1> SUFFICES ASSUME PoolInv, Lively, [Next]_vars PROVE Lively'
  OBVIOUS
<1>1. ASSUME Select \/ Accept \/ Skip \/ EndOfPass PROVE Lively'
  <2>1. /\ pc \in {"select", "accept", "check"} /\ pc' \in {"select", "accept", "check"}
        /\ UNCHANGED <<byte_cnt, received, client, sent, toServer, toClient, echoclients>>
    BY <1>1 DEF Select, Accept, Skip, EndOfPass, checking, network, world
  <2> QED BY <2>1, NoLineFrame
<1>2. Overrun \/ AcceptFails \/ (\E c \in Client : Reset(c)) => Lively'
  BY DEF Overrun, AcceptFails, Reset, Lively, stopped
<1>3. Server => Lively'
  BY <1>1, <1>2, ServeLine, ReadLine, ReadCutLine, RemoveLine, EchoLine DEF Server
<1>4. Clients => Lively'
  BY ConnectLine, SendLineLine, ReadEchoLine, SendByteLine, CloseLine DEF Clients
<1>5. ASSUME UNCHANGED vars PROVE Lively'
  <2>1. UNCHANGED <<pc, i, clientfd, line, byte_cnt, received, fd, client, sent, toServer, toClient, echoclients>>
    BY <1>5 DEF vars, pool, network, world
  <2> QED BY <2>1 DEF Lively, stopped, LineOf, inHand, served, Conserved
<1> QED BY <1>3, <1>4, <1>5 DEF Next, Done

-----------------------------------------------------------------------------
(* Echo clients do not bring the server down.                               *)

\* The descriptors the server may get that have a bit in read_set.
low == {f \in usable : f < FD_SETSIZE}
FewClients == Cardinality(Client) <= Cardinality(low)

\* While a client waits to be accepted, the others cannot hold all of them.
LEMMA RoomForOneMore ==
  ASSUME PoolInv, pc = "accept", FewClients
  PROVE  freeFds # {} /\ Least(freeFds) < FD_SETSIZE
<1> DEFINE c0 == Head(backlog)
           others == Client \ {c0}
<1>1. TypeOK /\ Agree /\ Connections
  BY DEF PoolInv
<1>2. c0 \in Client /\ fd[c0] = none
  <2>1. backlog \in Seq(Client) /\ backlog # <<>>
    BY <1>1 DEF TypeOK, Connections
  <2>2. 1 \in 1..Len(backlog) /\ c0 = backlog[1]
    BY <2>1
  <2> QED BY <1>1, <2>1, <2>2, ElementOfSeq DEF Connections
<1>3. /\ IsFiniteSet(others) /\ Cardinality(others) = Cardinality(Client) - 1
      /\ Cardinality(Client) \in Nat
  BY <1>2, PoolAssumption, FS_RemoveElement, FS_CardinalityType
<1> HIDE DEF c0, others
<1>4. IsFiniteSet(low) /\ Cardinality(low) \in Nat
  <2>1. ASSUME NEW f \in low PROVE f \in Slots
    <3>1. f \in Fd /\ f < FD_SETSIZE
      BY <1>1 DEF low, TypeOK
    <3> QED BY <3>1, PoolAssumption DEF Fd, Slots, listenfd
  <2>2. low \in SUBSET Slots
    BY <2>1
  <2> QED BY <2>2, SlotsFinite, FS_Subset, FS_CardinalityType
<1>5. ASSUME \A f \in low : f \notin freeFds PROVE FALSE
  <2>1. \A f \in low : f \in Fd /\ f \in usable
    BY <1>1 DEF low, TypeOK
  <2>2. \A f \in low : \E c \in Client : fd[c] = f
    BY <1>5, <2>1 DEF freeFds
  <2>3. \A f \in low : \E c \in others : fd[c] = f
    BY <1>2, <2>1, <2>2 DEF others, Fd, listenfd, none
  <2>4. PICK g \in [low -> others] : \A f \in low : fd[g[f]] = f
    <3>1. [f \in low |-> CHOOSE c \in others : fd[c] = f] \in [low -> others]
      BY <2>3
    <3> QED BY <2>3, <3>1
  <2>5. Cardinality(others) < Cardinality(low)
    BY <1>3, <1>4 DEF FewClients
  <2>6. PICK x \in low, y \in low : x # y /\ g[x] = g[y]
    BY <1>3, <1>4, <2>5, FS_PigeonHole
  <2> QED BY <2>4, <2>6
<1>6. PICK f \in low : f \in freeFds
  BY <1>5
<1>7. freeFds \in SUBSET Nat /\ freeFds # {}
  BY <1>1, <1>6, SlotsFinite DEF freeFds, TypeOK
<1>8. Least(freeFds) \in Nat /\ Least(freeFds) <= f
  BY <1>6, <1>7, LeastIsLeast
<1>9. f \in Nat /\ f < FD_SETSIZE /\ FD_SETSIZE \in Nat
  BY <1>6, <1>7, PoolAssumption DEF low
<1> QED BY <1>7, <1>8, <1>9

Safe == Client = echoclients /\ FewClients => ~stopped

LEMMA NextSafe == PoolInv /\ Marked /\ Lively /\ Safe /\ [Next]_vars => Safe'
<1> SUFFICES ASSUME PoolInv, Marked, Lively, Safe, [Next]_vars, stopped', Client = echoclients', FewClients'
             PROVE  FALSE
  BY DEF Safe
<1>1. UNCHANGED <<echoclients, usable>>
  BY DEF Next, Server, Clients, Done, Select, Accept, Overrun, AcceptFails, Skip, Serve, EndOfPass,
         Read, ReadCut, Remove, Gone, Echo, Reset, Connect, SendLine, ReadEcho, SendByte,
         CloseEnd, vars, network, world
<1>2. ~stopped /\ FewClients
  BY <1>1 DEF Safe, FewClients, low
<1>3. stopped' = stopped \/ Overrun \/ AcceptFails \/ \E c \in Client : Reset(c)
  BY DEF Next, Server, Clients, Done, Select, Accept, Skip, Serve, EndOfPass,
         Read, ReadCut, Remove, Echo, Connect, SendLine, ReadEcho, SendByte,
         CloseEnd, vars, server, stopped, checking
<1>4. ASSUME Overrun PROVE FALSE
  <2>1. pc = "accept" /\ Least(freeFds) >= FD_SETSIZE
    BY <1>4 DEF Overrun
  <2>2. freeFds # {} /\ Least(freeFds) < FD_SETSIZE
    BY <1>2, <2>1, RoomForOneMore
  <2>3. freeFds \in SUBSET Nat
    BY SlotsFinite DEF freeFds, PoolInv, TypeOK
  <2>4. Least(freeFds) \in Nat /\ FD_SETSIZE \in Nat
    BY <2>2, <2>3, LeastIsLeast, PoolAssumption
  <2> QED BY <2>1, <2>2, <2>4
<1>5. ~AcceptFails
  BY <1>2, RoomForOneMore, SlotsLeft DEF AcceptFails
<1>6. ASSUME NEW c \in Client, Reset(c) PROVE FALSE
  <2>1. LineOf(c) /\ client[c] = "closed"
    BY <1>1, <1>2, <1>6 DEF Reset, closed, Lively
  <2>2. toClient[c] = <<>> /\ ~(pc = "echo" /\ served(c))
    BY <2>1, NothingOnTheWay DEF PoolInv
  <2> QED BY <1>6, <2>2 DEF Reset
<1> QED BY <1>2, <1>3, <1>4, <1>5, <1>6

\* An echo client gets back the line it sent, whole and nothing else, however
\* read() cuts it and whatever the other clients do.  If all clients are echo
\* clients, no byte is forgotten with check_client's copies of the read buffers,
\* and as long as they are not more than the descriptors left that have a bit
\* in read_set, the server never stops.
THEOREM EveryEchoIsTheLine == Spec => []EchoIsTheLine
<1>1. ASSUME Init PROVE Marked /\ Lively /\ Safe
  <2>1. <<>> \o <<>> = <<>>
    OBVIOUS
  <2>2. \A c \in Client : LineOf(c)
    BY <1>1, <2>1 DEF Init, LineOf, inHand
  <2>3. echoclients \subseteq Client /\ Conserved
    BY <1>1 DEF Init, Conserved
  <2> QED BY <1>1, <2>2, <2>3 DEF Init, Lively, stopped, Safe, Marked, used
<1>2. PoolInv /\ Lively /\ Safe => EchoIsTheLine
  <2> SUFFICES ASSUME PoolInv, Lively, Safe PROVE EchoIsTheLine
    OBVIOUS
  <2>1. Client = echoclients /\ pc = "select" => byte_cnt = received
    <3>1. byte_cnt \in Nat
      BY DEF PoolInv, TypeOK
    <3> QED BY <3>1 DEF Lively, stopped, Conserved
  <2> QED BY <2>1 DEF Lively, stopped, LineOf, Safe, FewClients, low, EchoIsTheLine
<1> QED BY <1>1, <1>2, NextLines, NextMarked, NextSafe, PoolInvariant, PTL DEF Spec
=============================================================================
