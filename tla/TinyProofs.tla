----------------------------- MODULE TinyProofs -----------------------------
(***************************************************************************)
(* Tiny for any number of clients and any requests: its types, the order   *)
(* of what the processes of a connection write, and the children that the  *)
(* handler of SIGCHLD finds.                                               *)
(***************************************************************************)
EXTENDS Tiny, SequenceTheorems, FiniteSetTheorems, TLAPS

\* x is the beginning of the response s.
Follows(x, s) ==
  /\ Len(x) <= Len(s)
  /\ \A j \in 1..Len(x) : x[j] = s[j]

\* What has been written when each process writes.  The CGI is there only
\* after the worker has written its part, and the last to write.
Written(c) ==
  /\ worker[c] \in {"none", "head", "spin", "static", "dynamic", "post", "part"} => out[c] = <<>>
  /\ worker[c] = "error" => Len(out[c]) < Len(ErrorPage) /\ Follows(out[c], ErrorPage)
  /\ worker[c] = "body" => Len(out[c]) = 1 /\ Follows(out[c], <<"header", "content">>)
  /\ worker[c] \in {"fork", "forkPost"} \/ lives(cgi[c])
        => Len(out[c]) = 1 /\ out[c][1] = "part"
  /\ worker[c] \in {"none", "head", "spin", "static", "dynamic", "post", "part",
                     "error", "body", "fork", "forkPost"} => cgi[c] = "none"
  /\ \E s \in Responses : Follows(out[c], s)

\* A connection that waits in the backlog has no worker yet.
Connected ==
  /\ \A i \in 1..Len(backlog) : client[backlog[i]] # "out" /\ worker[backlog[i]] = "none"
  /\ \A i, j \in 1..Len(backlog) : backlog[i] = backlog[j] => i = j
  /\ \A c \in Client : client[c] = "out" => worker[c] = "none"

TinyInv == TypeOK /\ Connected /\ \A c \in Client : Written(c)

-----------------------------------------------------------------------------
(* Types.                                                                   *)

\* What a client may ask for has a length and a place to be served.
LEMMA RequestFacts ==
  ASSUME NEW r \in Request
  PROVE  /\ r \in Requests
         /\ Len(r.headers) \in Nat /\ head_length(r) \in Nat /\ total(r) \in Nat
         /\ head_length(r) >= 2
         /\ r.bytes \in 0..MaxBytes /\ MaxBytes \in Nat
         /\ choice(r) \in {"error", "static", "dynamic", "post"}
<1>1. r \in Requests /\ MaxBytes \in Nat
  BY TinyAssumption
<1>2. r.headers \in Seq({"length", "other"}) /\ r.bytes \in 0..MaxBytes
  BY <1>1 DEF Requests
<1>3. Len(r.headers) \in Nat
  BY <1>2, LenProperties
<1>4. head_length(r) \in Nat /\ total(r) \in Nat /\ head_length(r) >= 2
  BY <1>1, <1>2, <1>3 DEF head_length, total
<1>5. choice(r) \in {"error", "static", "dynamic", "post"}
  BY <1>1 DEF Requests, choice
<1> QED BY <1>1, <1>2, <1>3, <1>4, <1>5

LEMMA InitTypes == Init => TypeOK
<1> SUFFICES ASSUME Init PROVE TypeOK
  OBVIOUS
<1>1. /\ <<>> \in Seq(Client) /\ <<>> \in Seq(Nat) /\ <<>> \in Seq(Pieces)
  BY EmptySeq
<1>2. req \in [Client -> Request]
  BY DEF Init
<1>3. faults \subseteq Client /\ MaxBytes \in Nat
  BY TinyAssumption DEF Init
<1> QED BY <1>1, <1>2, <1>3 DEF Init, TypeOK, ended, NoClient, Parent

\* Processes end and are reaped.
LEMMA EndTypes ==
  ASSUME TypeOK, NEW c \in Client,
         UNCHANGED <<main, connfd, connections, stream, body, out>>, faults' \subseteq faults,
         EndWorker(c) \/ EndWriter(c) \/ EndCgi(c)
  PROVE  TypeOK'
<1>1. c \in Parent /\ server \in Parent
  BY DEF Parent
<1>2. worker' \in [Client -> ended \cup {"head", "error", "static",
           "body", "dynamic", "fork", "post", "part", "forkPost", "exit", "spin"}]
  BY DEF TypeOK, EndWorker, EndWriter, EndCgi, ended
<1>3. writer' \in [Client -> ended \cup {"read", "overrun"}]
  <2>1. writer \in [Client -> ended \cup {"read", "overrun"}]
    BY DEF TypeOK
  <2>2. CASE EndWorker(c)
    <3>1. orphan(writer[c]) \in ended \cup {"read", "overrun"}
      BY <2>1 DEF ended, orphan
    <3> QED BY <2>1, <2>2, <3>1 DEF EndWorker
  <2>3. CASE EndWriter(c)
    BY <2>1, <2>3 DEF EndWriter, left_by, ended
  <2>4. CASE EndCgi(c)
    BY <2>1, <2>4 DEF EndCgi
  <2> QED BY <2>2, <2>3, <2>4
<1>4. cgi' \in [Client -> ended \cup {"exec", "read", "write"}]
  <2>1. cgi \in [Client -> ended \cup {"exec", "read", "write"}]
    BY DEF TypeOK
  <2>2. CASE EndWorker(c)
    <3>1. orphan(cgi[c]) \in ended \cup {"exec", "read", "write"}
      BY <2>1 DEF ended, orphan
    <3> QED BY <2>1, <2>2, <3>1 DEF EndWorker
  <2>3. CASE EndWriter(c)
    BY <2>1, <2>3 DEF EndWriter
  <2>4. CASE EndCgi(c)
    BY <2>1, <2>4 DEF EndCgi, left_by, ended
  <2> QED BY <2>2, <2>3, <2>4
<1>5. sigchld' \subseteq Parent /\ handling' \subseteq Parent
  BY <1>1 DEF TypeOK, EndWorker, EndWriter, EndCgi, tell
<1> QED BY <1>2, <1>3, <1>4, <1>5 DEF TypeOK, connections, stream, body
\* The worker reads.
LEMMA ReadingTypes ==
  ASSUME TypeOK, NEW c \in Client, ReadHead(c) \/ HeadEof(c)
  PROVE  TypeOK'
<1>1. CASE ReadHead(c)
  <2> DEFINE r == req[c]
             k == IF supported(r) THEN Smaller(sent[c], head_length(r)) ELSE 1
  <2>1. r \in Request
    BY DEF TypeOK
  <2>2. /\ head_length(r) \in Nat /\ r.bytes \in 0..MaxBytes /\ MaxBytes \in Nat
        /\ choice(r) \in {"error", "static", "dynamic", "post"}
    BY <2>1, RequestFacts
  <2>3. sent[c] \in Nat /\ taken[c] \in Nat /\ taken[c] < sent[c]
    BY <1>1 DEF TypeOK, ReadHead
  <2>4. k \in Nat /\ k <= sent[c]
    BY <2>2, <2>3 DEF Smaller
  <2>5. /\ taken' = [taken EXCEPT ![c] = sent[c]] /\ used' = [used EXCEPT ![c] = k]
        /\ contentLength' = [contentLength EXCEPT ![c] =
               IF r.method = "POST" /\ length_in(r, k) THEN r.bytes ELSE 0]
        /\ worker' = [worker EXCEPT ![c] = IF ~supported(r) THEN "error"
                        ELSE IF k = head_length(r) THEN choice(r) ELSE "head"]
        /\ UNCHANGED <<main, connfd, connections, writer, cgi, body, out, signals, faults>>
    BY <1>1 DEF ReadHead, Go
  <2> HIDE DEF k, r
  <2>6. contentLength' \in [Client -> 0..MaxBytes]
    BY <2>2, <2>5 DEF TypeOK
  <2>7. /\ taken' \in [Client -> Nat] /\ used' \in [Client -> Nat] /\ sent' = sent
        /\ \A d \in Client : used'[d] <= taken'[d] /\ taken'[d] <= sent[d]
    <3>1. /\ taken \in [Client -> Nat] /\ used \in [Client -> Nat]
          /\ \A d \in Client : used[d] <= taken[d] /\ taken[d] <= sent[d]
      BY <1>1 DEF TypeOK
    <3>2. taken' \in [Client -> Nat] /\ used' \in [Client -> Nat] /\ sent' = sent
      BY <2>3, <2>4, <2>5, <3>1 DEF connections
    <3>3. ASSUME NEW d \in Client PROVE used'[d] <= taken'[d] /\ taken'[d] <= sent[d]
      <4>1. CASE d = c
        BY <2>3, <2>4, <2>5, <3>1, <4>1
      <4>2. CASE d # c
        BY <2>5, <3>1, <4>2
      <4> QED BY <4>1, <4>2
    <3> QED BY <3>2, <3>3
  <2>8. worker' \in [Client -> ended \cup {"head", "error", "static",
           "body", "dynamic", "fork", "post", "part", "forkPost", "exit", "spin"}]
    BY <2>2, <2>5 DEF TypeOK
  <2> QED BY <2>5, <2>6, <2>7, <2>8 DEF TypeOK, connections, body, signals
<1>2. CASE HeadEof(c)
  <2>1. PICK r \in (IF used[c] = 0 THEN Wants[c] ELSE {req[c]}) :
          /\ req' = [req EXCEPT ![c] = r]
          /\ \/ ~supported(r) /\ Go(c, "error")
             \/ supported(r) /\ used[c] <= 1 /\ Go(c, choice(r))
             \/ supported(r) /\ Go(c, "spin")
    BY <1>2 DEF HeadEof
  <2>2. r \in Request
    BY TinyAssumption DEF TypeOK
  <2>3. choice(r) \in {"error", "static", "dynamic", "post"}
    BY <2>2, RequestFacts
  <2>4. req' \in [Client -> Request]
    BY <2>1, <2>2 DEF TypeOK
  <2>5. worker' \in [Client -> ended \cup {"head", "error", "static",
           "body", "dynamic", "fork", "post", "part", "forkPost", "exit", "spin"}]
    BY <2>1, <2>3 DEF TypeOK, Go
  <2>6. UNCHANGED <<main, connfd, backlog, client, sent, stream, writer, cgi, body, out, signals, faults>>
    BY <1>2 DEF HeadEof
  <2> QED BY <2>4, <2>5, <2>6 DEF TypeOK, stream, body, signals
<1> QED BY <1>1, <1>2

LEMMA AppendFacts ==
  ASSUME NEW S, NEW s \in Seq(S), NEW e \in S
  PROVE  /\ Append(s, e) \in Seq(S)
         /\ Len(Append(s, e)) = Len(s) + 1 /\ Len(s) \in Nat
         /\ Append(s, e)[Len(s) + 1] = e
         /\ \A j \in 1..Len(s) : Append(s, e)[j] = s[j]
BY AppendProperties, LenProperties

LEMMA Appended ==
  ASSUME TypeOK, NEW c \in Client, NEW piece \in Pieces, Write(c, piece)
  PROVE  /\ out' \in [Client -> Seq(Pieces)]
         /\ \A d \in Client \ {c} : out'[d] = out[d]
         /\ Len(out'[c]) = Len(out[c]) + 1 /\ Len(out[c]) \in Nat
         /\ out'[c][Len(out[c]) + 1] = piece
         /\ \A j \in 1..Len(out[c]) : out'[c][j] = out[c][j]
<1>1. out \in [Client -> Seq(Pieces)] /\ out[c] \in Seq(Pieces)
  BY DEF TypeOK
<1>2. out'[c] = Append(out[c], piece) /\ out' = [out EXCEPT ![c] = Append(out[c], piece)]
  BY <1>1 DEF Write
<1>3. /\ Append(out[c], piece) \in Seq(Pieces)
      /\ Len(Append(out[c], piece)) = Len(out[c]) + 1
      /\ Append(out[c], piece)[Len(out[c]) + 1] = piece
      /\ \A j \in 1..Len(out[c]) : Append(out[c], piece)[j] = out[c][j]
  BY <1>1, AppendFacts
<1>4. Len(out[c]) \in Nat
  BY <1>1, LenProperties
<1> QED BY <1>1, <1>2, <1>3, <1>4

\* The four pieces of the error page.
LEMMA ErrorPieces ==
  ASSUME TypeOK, NEW c \in Client, Written(c), worker[c] = "error"
  PROVE  ErrorPage[Len(out[c]) + 1] \in Pieces /\ Len(out[c]) \in 0..3
<1>1. Len(out[c]) \in Nat
  BY LenProperties DEF TypeOK
<1>2. Len(out[c]) < 4
  BY DEF Written, ErrorPage
<1>3. \A k \in Nat : k < 4 => k \in 0..3 /\ (k = 0 \/ k = 1 \/ k = 2 \/ k = 3)
  OBVIOUS
<1>4. \A k \in {0, 1, 2, 3} : ErrorPage[k + 1] \in Pieces
  <2>1. /\ ErrorPage[1] = "status" /\ ErrorPage[2] = "type"
        /\ ErrorPage[3] = "length" /\ ErrorPage[4] = "page"
    BY DEF ErrorPage
  <2>2. /\ ErrorPage[0 + 1] \in Pieces /\ ErrorPage[1 + 1] \in Pieces
        /\ ErrorPage[2 + 1] \in Pieces /\ ErrorPage[3 + 1] \in Pieces
    <3>1. 0 + 1 = 1 /\ 1 + 1 = 2 /\ 2 + 1 = 3 /\ 3 + 1 = 4
      OBVIOUS
    <3> QED BY <2>1, <3>1 DEF Pieces
  <2> QED BY <2>2
<1>5. Len(out[c]) \in 0..3
  BY <1>1, <1>2, <1>3, Zenon
<1>6. Len(out[c]) \in {0, 1, 2, 3}
  BY <1>1, <1>2, <1>3, Zenon
<1> QED BY <1>4, <1>5, <1>6

\* The worker answers.
LEMMA AnsweringTypes ==
  ASSUME TypeOK, NEW c \in Client, Written(c),
         \/ clienterror(c) \/ StaticHeader(c) \/ StaticBody(c) \/ DynamicHeader(c)
         \/ ForkCgi(c) \/ ForkWriter(c) \/ PostHeader(c) \/ ForkPostCgi(c)
  PROVE  TypeOK'
<1>1. out' \in [Client -> Seq(Pieces)]
  <2>1. CASE clienterror(c)
    <3>1. worker[c] = "error" /\ Write(c, ErrorPage[Len(out[c]) + 1])
      BY <2>1 DEF clienterror, at
    <3> QED BY <3>1, ErrorPieces, Appended
  <2>2. CASE StaticHeader(c)
    <3>1. Write(c, "header")
      BY <2>2 DEF StaticHeader
    <3> QED BY <3>1, Appended DEF Pieces
  <2>3. CASE StaticBody(c)
    <3>1. Write(c, "content") \/ UNCHANGED out
      BY <2>3 DEF StaticBody
    <3>2. Write(c, "content") => out' \in [Client -> Seq(Pieces)]
      BY Appended DEF Pieces
    <3> QED BY <3>1, <3>2 DEF TypeOK
  <2>4. CASE DynamicHeader(c)
    <3>1. Write(c, "part")
      BY <2>4 DEF DynamicHeader
    <3> QED BY <3>1, Appended DEF Pieces
  <2>5. CASE PostHeader(c)
    <3>1. Write(c, "part")
      BY <2>5 DEF PostHeader
    <3> QED BY <3>1, Appended DEF Pieces
  <2>6. CASE ForkCgi(c) \/ ForkWriter(c) \/ ForkPostCgi(c)
    BY <2>6 DEF ForkCgi, ForkWriter, ForkPostCgi, TypeOK
  <2> QED BY <2>1, <2>2, <2>3, <2>4, <2>5, <2>6
<1>2. worker' \in [Client -> ended \cup {"head", "error", "static",
           "body", "dynamic", "fork", "post", "part", "forkPost", "exit", "spin"}]
  BY DEF TypeOK, Go, clienterror, StaticHeader, StaticBody, DynamicHeader,
         ForkCgi, ForkWriter, PostHeader, ForkPostCgi
<1>3. /\ writer' \in [Client -> ended \cup {"read", "overrun"}]
      /\ cgi' \in [Client -> ended \cup {"exec", "read", "write"}]
  BY DEF TypeOK, clienterror, StaticHeader, StaticBody, DynamicHeader,
         ForkCgi, ForkWriter, PostHeader, ForkPostCgi
<1>4. UNCHANGED <<main, connfd, connections, stream, body, signals, faults>>
  BY DEF answering, clienterror, StaticHeader, StaticBody, DynamicHeader,
         ForkCgi, ForkWriter, PostHeader, ForkPostCgi
<1> QED BY <1>1, <1>2, <1>3, <1>4 DEF TypeOK, connections, stream, body, signals

\* The body goes from the socket through the pipe to the CGI.
LEMMA BodyTypes ==
  ASSUME TypeOK, NEW c \in Client, Writer(c) \/ Cgi(c) \/ Undefined(c)
  PROVE  TypeOK'
<1>1. CASE ReadBody(c)
  <2> DEFINE k == chunk(c)
  <2>1. /\ used[c] \in Nat /\ taken[c] \in Nat /\ sent[c] \in Nat
        /\ used[c] <= taken[c] /\ taken[c] <= sent[c] /\ used[c] < sent[c]
    BY <1>1 DEF ReadBody, TypeOK
  <2>2. data[c] \in Seq(Nat) /\ contentLength[c] \in Int
    BY TinyAssumption DEF TypeOK
  <2>3. need(c) \in Int /\ need(c) > 0
    BY <1>1, <2>2, LenProperties DEF ReadBody, need
  <2>4. k \in Nat /\ used[c] + k \in Nat /\ used[c] + k <= sent[c]
    BY <2>1, <2>3 DEF chunk, Smaller
  <2>5. /\ data' = [data EXCEPT ![c] = @ \o [i \in 1..k |-> used[c] + i]]
        /\ used' = [used EXCEPT ![c] = @ + k]
        /\ taken' = [taken EXCEPT ![c] = IF used[c] + k > @ THEN sent[c] ELSE @]
        /\ UNCHANGED <<main, connfd, connections, contentLength, worker, writer, cgi, pipe, input, out, signals, faults>>
    BY <1>1 DEF ReadBody
  <2> HIDE DEF k
  <2>6. [i \in 1..k |-> used[c] + i] \in Seq(Nat)
    <3>1. [i \in 1..k |-> used[c] + i] \in [1..k -> Nat]
      BY <2>1, <2>4
    <3> QED BY <2>4, <3>1, SeqDef
  <2>7. data[c] \o [i \in 1..k |-> used[c] + i] \in Seq(Nat)
    BY <2>2, <2>6, ConcatProperties
  <2>8. data' \in [Client -> Seq(Nat)]
    BY <2>5, <2>7 DEF TypeOK
  <2>9. /\ taken' \in [Client -> Nat] /\ used' \in [Client -> Nat]
        /\ \A d \in Client : used'[d] <= taken'[d] /\ taken'[d] <= sent[d]
    <3>1. taken' \in [Client -> Nat] /\ used' \in [Client -> Nat]
      BY <2>1, <2>4, <2>5 DEF TypeOK
    <3>2. used'[c] = used[c] + k /\ taken'[c] = IF used[c] + k > taken[c] THEN sent[c] ELSE taken[c]
      BY <2>5 DEF TypeOK
    <3>3. used'[c] <= taken'[c] /\ taken'[c] <= sent[c]
      BY <2>1, <2>4, <3>2
    <3>4. \A d \in Client \ {c} : used'[d] = used[d] /\ taken'[d] = taken[d]
      BY <2>5 DEF TypeOK
    <3> QED BY <3>1, <3>3, <3>4 DEF TypeOK
  <2> QED BY <2>5, <2>8, <2>9 DEF TypeOK, connections, signals
<1>2. CASE WritePipe(c) \/ Undefined(c)
  <2>1. data[c] \in Seq(Nat) /\ contentLength[c] \in Int
    BY TinyAssumption DEF TypeOK
  <2>2. need(c) \in Int
    BY <2>1, LenProperties DEF need
  <2>3. [i \in 1..need(c) |-> 0] \in Seq(Nat)
    <3>1. CASE need(c) >= 0
      <4>1. need(c) \in Nat /\ [i \in 1..need(c) |-> 0] \in [1..need(c) -> Nat]
        BY <2>2, <3>1
      <4> QED BY <4>1, SeqDef
    <3>2. CASE need(c) < 0
      <4>1. 1..need(c) = 1..0
        BY <2>2, <3>2
      <4>2. [i \in 1..0 |-> 0] \in [1..0 -> Nat]
        OBVIOUS
      <4>3. [i \in 1..0 |-> 0] \in Seq(Nat)
        BY <4>2, SeqDef
      <4>4. [i \in 1..need(c) |-> 0] = [i \in 1..0 |-> 0]
        BY <4>1
      <4> QED BY <4>3, <4>4
    <3> QED BY <2>2, <3>1, <3>2
  <2>4. data[c] \o [i \in 1..need(c) |-> 0] \in Seq(Nat)
    BY <2>1, <2>3, ConcatProperties
  <2>5. pipe' \in [Client -> Seq(Nat)]
    BY <1>2, <2>4 DEF WritePipe, Undefined, TypeOK
  <2>6. EndWriter(c) /\ UNCHANGED <<main, connfd, connections, stream, data, input, out, faults>>
    BY <1>2 DEF WritePipe, Undefined
  <2>7. /\ writer' \in [Client -> ended \cup {"read", "overrun"}]
        /\ sigchld' \subseteq Parent
        /\ UNCHANGED <<worker, cgi, handling>>
    BY <2>6 DEF EndWriter, left_by, tell, ended, TypeOK, Parent
  <2> QED BY <2>5, <2>6, <2>7 DEF TypeOK, connections, stream
<1>3. CASE Exec(c)
  <2>1. cgi' \in [Client -> ended \cup {"exec", "read", "write"}]
    BY <1>3 DEF Exec, TypeOK
  <2>2. UNCHANGED <<main, connfd, connections, stream, worker, writer, body, out, signals, faults>>
    BY <1>3 DEF Exec
  <2> QED BY <2>1, <2>2 DEF TypeOK, connections, stream, body, signals
<1>4. CASE CgiReads(c)
  <2>1. <<>> \in Seq(Nat)
    BY EmptySeq
  <2>2. /\ cgi' \in [Client -> ended \cup {"exec", "read", "write"}]
        /\ input' \in [Client -> Seq(Nat)] /\ pipe' \in [Client -> Seq(Nat)]
    BY <1>4, <2>1 DEF CgiReads, TypeOK
  <2>3. UNCHANGED <<main, connfd, connections, stream, worker, writer, data, out, signals, faults>>
    BY <1>4 DEF CgiReads
  <2> QED BY <2>2, <2>3 DEF TypeOK, connections, stream, signals
<1>5. CASE CgiWrites(c)
  <2>1. Write(c, "rest") /\ EndCgi(c)
        /\ UNCHANGED <<main, connfd, connections, stream, body, faults>>
    BY <1>5 DEF CgiWrites
  <2>2. out' \in [Client -> Seq(Pieces)]
    BY <2>1, Appended DEF Pieces
  <2>3. /\ cgi' \in [Client -> ended \cup {"exec", "read", "write"}]
        /\ sigchld' \subseteq Parent
        /\ UNCHANGED <<worker, writer, handling>>
    BY <2>1 DEF EndCgi, left_by, tell, ended, TypeOK, Parent
  <2> QED BY <2>1, <2>2, <2>3 DEF TypeOK, connections, stream, body
<1>6. CASE Overrun(c)
  BY <1>6 DEF Overrun, TypeOK, connections, stream, body, signals
<1>7. CASE CgiOverruns(c)
  <2>1. <<>> \in Seq(Nat)
    BY EmptySeq
  <2>2. pipe' \in [Client -> Seq(Nat)] /\ EndCgi(c)
        /\ UNCHANGED <<main, connfd, connections, stream, data, input, out, faults>>
    BY <1>7, <2>1 DEF CgiOverruns, TypeOK
  <2>3. /\ cgi' \in [Client -> ended \cup {"exec", "read", "write"}]
        /\ sigchld' \subseteq Parent
        /\ UNCHANGED <<worker, writer, handling>>
    BY <2>2 DEF EndCgi, left_by, tell, ended, TypeOK, Parent
  <2> QED BY <2>2, <2>3 DEF TypeOK, connections, stream
<1> QED BY <1>1, <1>2, <1>3, <1>4, <1>5, <1>6, <1>7 DEF Writer, Cgi

\* main() accepts, and the handlers run.
LEMMA MainTypes ==
  ASSUME TypeOK, Server
  PROVE  TypeOK'
<1>1. CASE Accept
  <2>1. backlog \in Seq(Client) /\ backlog # <<>>
    BY <1>1 DEF Accept, TypeOK
  <2>2. Head(backlog) \in Client /\ Tail(backlog) \in Seq(Client)
    BY <2>1, HeadTailProperties
  <2>3. /\ connfd' = Head(backlog) /\ backlog' = Tail(backlog) /\ main' = "close"
        /\ worker' = [worker EXCEPT ![Head(backlog)] = "head"]
        /\ UNCHANGED <<client, req, sent, stream, writer, cgi, body, out, signals, faults>>
    BY <1>1 DEF Accept
  <2> QED BY <2>2, <2>3 DEF TypeOK, stream, body, signals
<1>2. CASE CloseConnfd
  BY <1>2 DEF CloseConnfd, TypeOK, connections, stream, body, signals
<1> QED BY <1>1, <1>2 DEF Server

LEMMA HandlerTypes ==
  ASSUME TypeOK, NEW p \in Parent, Handlers(p)
  PROVE  TypeOK'
<1>1. CASE Deliver(p)
  BY <1>1 DEF Deliver, TypeOK, connections, stream, body
<1>2. CASE handler(p)
  <2>1. PICK z \in zombies(p) : Reaped(p, z)
    BY <1>2 DEF handler
  <2>2. handling' = handling \ {p}
        /\ UNCHANGED <<main, connfd, connections, stream, body, out, sigchld, faults>>
    BY <1>2 DEF handler
  <2>3. worker' \in [Client -> ended \cup {"head", "error", "static",
           "body", "dynamic", "fork", "post", "part", "forkPost", "exit", "spin"}]
    BY <2>1 DEF Reaped, TypeOK, ended
  <2>4. writer' \in [Client -> ended \cup {"read", "overrun"}]
    BY <2>1 DEF Reaped, TypeOK, ended
  <2>5. cgi' \in [Client -> ended \cup {"exec", "read", "write"}]
    BY <2>1 DEF Reaped, TypeOK, ended
  <2> QED BY <2>2, <2>3, <2>4, <2>5 DEF TypeOK, connections, stream, body
<1> QED BY <1>1, <1>2 DEF Handlers

LEMMA ClientTypes ==
  ASSUME TypeOK, NEW c \in Client, Clients(c)
  PROVE  TypeOK'
<1>1. CASE ClientConnects(c)
  <2>1. Append(backlog, c) \in Seq(Client)
    BY AppendFacts DEF TypeOK
  <2>2. /\ client' = [client EXCEPT ![c] = "open"] /\ backlog' = Append(backlog, c)
        /\ UNCHANGED <<processes, req, sent>>
    BY <1>1 DEF ClientConnects
  <2> QED BY <2>1, <2>2 DEF TypeOK, processes, stream, body, signals
<1>2. CASE ClientSends(c)
  <2>1. sent' = [sent EXCEPT ![c] = @ + 1]
        /\ UNCHANGED <<processes, backlog, client, req>>
    BY <1>2 DEF ClientSends
  <2>2. sent' \in [Client -> Nat] /\ \A d \in Client : sent[d] <= sent'[d]
    BY <2>1 DEF TypeOK
  <2>3. \A d \in Client : taken[d] <= sent'[d]
    BY <2>2 DEF TypeOK
  <2> QED BY <2>1, <2>2, <2>3 DEF TypeOK, processes, stream, body, signals
<1>3. CASE ClientCloses(c)
  BY <1>3 DEF ClientCloses, TypeOK, processes, stream, body, signals
<1> QED BY <1>1, <1>2, <1>3 DEF Clients

LEMMA FailTypes ==
  ASSUME TypeOK, NEW c \in Client, Fails(c)
  PROVE  TypeOK'
<1>1. faults' \subseteq faults
  BY DEF Fails, WorkerFails, WriterFails, CgiFails, ExecFails, MayFail
<1>2. CASE WorkerFails(c) \/ WriterFails(c) \/ CgiFails(c)
  <2>1. EndWorker(c) \/ EndWriter(c) \/ EndCgi(c)
    BY <1>2 DEF WorkerFails, WriterFails, CgiFails
  <2>2. UNCHANGED <<main, connfd, connections, stream, body, out>>
    BY <1>2 DEF WorkerFails, WriterFails, CgiFails
  <2> QED BY <1>1, <2>1, <2>2, EndTypes
<1>3. CASE ExecFails(c)
  <2>1. Write(c, "log") /\ EndCgi(c)
        /\ UNCHANGED <<main, connfd, connections, stream, body>>
    BY <1>3 DEF ExecFails
  <2>2. out' \in [Client -> Seq(Pieces)]
    BY <2>1, Appended DEF Pieces
  <2>3. /\ cgi' \in [Client -> ended \cup {"exec", "read", "write"}]
        /\ sigchld' \subseteq Parent
        /\ UNCHANGED <<worker, writer, handling>>
    BY <2>1 DEF EndCgi, left_by, tell, ended, TypeOK, Parent
  <2> QED BY <1>1, <2>1, <2>2, <2>3 DEF TypeOK, connections, stream, body
<1> QED BY <1>2, <1>3 DEF Fails

LEMMA StepTypes ==
  ASSUME TypeOK, \A c \in Client : Written(c), [Next]_vars
  PROVE  TypeOK'
<1>1. CASE Server
  BY <1>1, MainTypes
<1>2. ASSUME NEW c \in Client, Worker(c) PROVE TypeOK'
  <2>1. CASE ReadHead(c) \/ HeadEof(c)
    BY <2>1, ReadingTypes
  <2>2. CASE Exit(c)
    <3>1. EndWorker(c) /\ UNCHANGED <<main, connfd, connections, stream, body, out>>
          /\ faults' = faults
      BY <2>2 DEF Exit
    <3> QED BY <3>1, EndTypes
  <2>3. CASE \/ clienterror(c) \/ StaticHeader(c) \/ StaticBody(c) \/ DynamicHeader(c)
             \/ ForkCgi(c) \/ ForkWriter(c) \/ PostHeader(c) \/ ForkPostCgi(c)
    BY <2>3, AnsweringTypes
  <2> QED BY <1>2, <2>1, <2>2, <2>3 DEF Worker
<1>3. ASSUME NEW c \in Client, Writer(c) \/ Cgi(c) \/ Undefined(c) PROVE TypeOK'
  BY <1>3, BodyTypes
<1>4. ASSUME NEW p \in Parent, Handlers(p) PROVE TypeOK'
  BY <1>4, HandlerTypes
<1>5. ASSUME NEW c \in Client, Clients(c) PROVE TypeOK'
  BY <1>5, ClientTypes
<1>6. ASSUME NEW c \in Client, Fails(c) PROVE TypeOK'
  BY <1>6, FailTypes
<1>7. CASE UNCHANGED vars
  BY <1>7 DEF vars, TypeOK, connections, stream, body, signals
<1> QED BY <1>1, <1>2, <1>3, <1>4, <1>5, <1>6, <1>7 DEF Next, Programs, Done

-----------------------------------------------------------------------------
(* The backlog.                                                             *)

LEMMA ConnectedFrame ==
  ASSUME TypeOK, Connected, backlog' = backlog,
         \A c \in Client : client'[c] = "out" <=> client[c] = "out",
         \A c \in Client : worker'[c] = "none" <=> worker[c] = "none"
  PROVE  Connected'
<1>1. \A i \in 1..Len(backlog) : backlog[i] \in Client
  BY ElementOfSeq DEF TypeOK
<1> QED BY <1>1 DEF Connected

\* Only Accept gives a connection its worker.
LEMMA WorkerKept ==
  ASSUME TypeOK, NEW c \in Client, Worker(c) \/ Writer(c) \/ Cgi(c) \/ Fails(c) \/ Undefined(c)
  PROVE  /\ \A d \in Client \ {c} :
               /\ worker'[d] = worker[d] /\ writer'[d] = writer[d] /\ cgi'[d] = cgi[d]
               /\ out'[d] = out[d]
         /\ worker'[c] = "none" <=> worker[c] = "none"
         /\ UNCHANGED <<backlog, client>>
<1>1. CASE ReadHead(c)
  <2>1. req[c] \in Request
    BY DEF TypeOK
  <2>2. choice(req[c]) # "none"
    BY <2>1, RequestFacts
  <2> QED BY <1>1, <2>2 DEF ReadHead, Go, at, TypeOK, connections
<1>2. CASE HeadEof(c)
  <2>1. \A r \in (IF used[c] = 0 THEN Wants[c] ELSE {req[c]}) : r \in Request
    BY TinyAssumption DEF TypeOK
  <2>2. \A r \in Request : choice(r) # "none"
    BY RequestFacts
  <2> QED BY <1>2, <2>1, <2>2 DEF HeadEof, Go, at, TypeOK
<1>3. CASE \/ clienterror(c) \/ StaticHeader(c) \/ StaticBody(c) \/ DynamicHeader(c)
           \/ ForkCgi(c) \/ ForkWriter(c) \/ PostHeader(c) \/ ForkPostCgi(c)
  BY <1>3 DEF clienterror, StaticHeader, StaticBody, DynamicHeader, ForkCgi, ForkWriter,
     PostHeader, ForkPostCgi, answering, Write, Go, at, TypeOK, connections
<1>4. ASSUME EndWorker(c), worker[c] # "none", UNCHANGED <<connections, out>>
      PROVE  /\ \A d \in Client \ {c} :
                   /\ worker'[d] = worker[d] /\ writer'[d] = writer[d] /\ cgi'[d] = cgi[d]
                   /\ out'[d] = out[d]
             /\ worker'[c] = "none" <=> worker[c] = "none"
             /\ UNCHANGED <<backlog, client>>
  BY <1>4 DEF EndWorker, TypeOK, connections
<1>5. CASE Exit(c)
  BY <1>4, <1>5 DEF Exit, at
<1>6. CASE WorkerFails(c)
  BY <1>4, <1>6 DEF WorkerFails, lives, ended
<1>7. CASE ReadBody(c) \/ Overrun(c) \/ Exec(c) \/ CgiReads(c)
  BY <1>7 DEF ReadBody, Overrun, Exec, CgiReads, TypeOK, connections
<1>8. CASE WritePipe(c) \/ Undefined(c) \/ WriterFails(c)
  BY <1>8 DEF WritePipe, Undefined, WriterFails, EndWriter, TypeOK, connections
<1>9. CASE CgiOverruns(c) \/ CgiWrites(c) \/ CgiFails(c) \/ ExecFails(c)
  BY <1>9 DEF CgiOverruns, CgiWrites, CgiFails, ExecFails, EndCgi, Write, TypeOK, connections
<1> QED BY <1>1, <1>2, <1>3, <1>5, <1>6, <1>7, <1>8, <1>9 DEF Worker, Writer, Cgi, Fails

LEMMA HandlerKeeps ==
  ASSUME TypeOK, NEW p \in Parent, Handlers(p)
  PROVE  /\ \A c \in Client :
               /\ worker'[c] = worker[c] \/ (worker[c] = "zombie" /\ worker'[c] = "gone")
               /\ cgi'[c] = cgi[c] \/ (cgi[c] = "zombie" /\ cgi'[c] = "gone")
         /\ UNCHANGED <<out, backlog, client>>
<1>1. CASE Deliver(p)
  <2>1. UNCHANGED <<worker, cgi, out, backlog, client>>
    BY <1>1 DEF Deliver, connections
  <2> QED BY <2>1
<1>2. CASE handler(p)
  <2>1. UNCHANGED <<out, backlog, client>>
    BY <1>2 DEF handler, connections
  <2>2. PICK z \in zombies(p) : Reaped(p, z)
    BY <1>2 DEF handler
  <2>3. CASE p = server
    <3>1. worker' = [worker EXCEPT ![z] = "gone"] /\ cgi' = cgi /\ worker[z] = "zombie"
      BY <2>2, <2>3 DEF Reaped, zombies
    <3> QED BY <2>1, <3>1 DEF TypeOK
  <2>4. CASE p # server
    <3>1. /\ worker' = worker /\ p \in Client
          /\ cgi' = cgi \/ (cgi[p] = "zombie" /\ cgi' = [cgi EXCEPT ![p] = "gone"])
      BY <2>2, <2>4 DEF Reaped, zombies, Parent
    <3> QED BY <2>1, <3>1 DEF TypeOK
  <2> QED BY <2>3, <2>4
<1> QED BY <1>1, <1>2 DEF Handlers

LEMMA StepConnected ==
  ASSUME TypeOK, Connected, [Next]_vars
  PROVE  Connected'
<1>1. CASE Accept
  <2>1. backlog \in Seq(Client) /\ backlog # <<>> /\ Len(backlog) \in Nat
    BY <1>1, LenProperties DEF Accept, TypeOK
  <2>2. /\ Len(Tail(backlog)) = Len(backlog) - 1 /\ Len(backlog) >= 1
        /\ \A i \in 1..Len(Tail(backlog)) : Tail(backlog)[i] = backlog[i + 1]
        /\ Head(backlog) = backlog[1]
    BY <2>1, HeadTailProperties, EmptySeq
  <2>3. /\ backlog' = Tail(backlog) /\ UNCHANGED client
        /\ worker' = [worker EXCEPT ![backlog[1]] = "head"]
    BY <1>1, <2>2 DEF Accept
  <2>4. \A i \in 1..Len(backlog) : backlog[i] \in Client
    BY <2>1, ElementOfSeq
  <2>5. \A i \in 1..Len(backlog') :
           /\ i + 1 \in 1..Len(backlog) /\ backlog'[i] = backlog[i + 1]
           /\ backlog[i + 1] # backlog[1]
    <3>1. \A i \in 1..Len(backlog') :
             i + 1 \in 1..Len(backlog) /\ i + 1 # 1 /\ 1 \in 1..Len(backlog)
             /\ backlog'[i] = backlog[i + 1]
      BY <2>1, <2>2, <2>3
    <3> QED BY <3>1 DEF Connected
  <2>6. /\ \A i \in 1..Len(backlog') :
              client'[backlog'[i]] # "out" /\ worker'[backlog'[i]] = "none"
    <3> SUFFICES ASSUME NEW i \in 1..Len(backlog')
                 PROVE  client'[backlog'[i]] # "out" /\ worker'[backlog'[i]] = "none"
      OBVIOUS
    <3>1. /\ backlog'[i] = backlog[i + 1] /\ backlog[i + 1] \in Client
          /\ backlog[i + 1] # backlog[1]
          /\ client[backlog[i + 1]] # "out" /\ worker[backlog[i + 1]] = "none"
      BY <2>4, <2>5 DEF Connected
    <3>2. worker'[backlog[i + 1]] = worker[backlog[i + 1]]
      BY <2>3, <3>1 DEF TypeOK
    <3> QED BY <2>3, <3>1, <3>2
  <2>7. \A i, j \in 1..Len(backlog') : backlog'[i] = backlog'[j] => i = j
    <3>1. \A i, j \in 1..Len(backlog') : backlog'[i] = backlog'[j] => i + 1 = j + 1
      BY <2>5 DEF Connected
    <3> QED BY <3>1
  <2>8. \A c \in Client : client'[c] = "out" => worker'[c] = "none"
    <3>1. 1 \in 1..Len(backlog)
      BY <2>1, <2>2
    <3>2. client[backlog[1]] # "out"
      BY <3>1 DEF Connected
    <3> QED BY <2>3, <3>2 DEF Connected, TypeOK
  <2> QED BY <2>6, <2>7, <2>8 DEF Connected
<1>2. CASE CloseConnfd
  BY <1>2, ConnectedFrame DEF CloseConnfd, connections
<1>3. ASSUME NEW c \in Client, Worker(c) \/ Writer(c) \/ Cgi(c) \/ Fails(c) \/ Undefined(c)
      PROVE  Connected'
  BY <1>3, WorkerKept, ConnectedFrame
<1>4. ASSUME NEW p \in Parent, Handlers(p) PROVE Connected'
  <2>1. \A c \in Client : worker'[c] = "none" <=> worker[c] = "none"
    BY <1>4, HandlerKeeps
  <2> QED BY <1>4, <2>1, HandlerKeeps, ConnectedFrame
<1>5. ASSUME NEW c \in Client, ClientConnects(c) PROVE Connected'
  <2>1. backlog \in Seq(Client) /\ Len(backlog) \in Nat
    BY LenProperties DEF TypeOK
  <2>2. /\ client[c] = "out" /\ client' = [client EXCEPT ![c] = "open"]
        /\ backlog' = Append(backlog, c) /\ worker' = worker
    BY <1>5 DEF ClientConnects, processes
  <2>3. /\ Len(backlog') = Len(backlog) + 1 /\ backlog'[Len(backlog) + 1] = c
        /\ \A i \in 1..Len(backlog) : backlog'[i] = backlog[i]
    BY <2>1, <2>2, AppendFacts
  <2>4. \A i \in 1..Len(backlog') : i \in 1..Len(backlog) \/ i = Len(backlog) + 1
    BY <2>1, <2>3
  <2>5. \A i \in 1..Len(backlog) : backlog[i] \in Client /\ backlog[i] # c
    BY <2>1, <2>2, ElementOfSeq DEF Connected
  <2>6. \A i \in 1..Len(backlog') : client'[backlog'[i]] # "out" /\ worker'[backlog'[i]] = "none"
    <3>1. worker[c] = "none"
      BY <2>2 DEF Connected
    <3>2. client'[c] # "out" /\ worker'[c] = "none"
      BY <2>2, <3>1 DEF TypeOK
    <3>3. \A i \in 1..Len(backlog) :
             client'[backlog[i]] # "out" /\ worker'[backlog[i]] = "none"
      BY <2>2, <2>5 DEF Connected, TypeOK
    <3> QED BY <2>3, <2>4, <3>2, <3>3
  <2>7. \A i, j \in 1..Len(backlog') : backlog'[i] = backlog'[j] => i = j
    BY <2>3, <2>4, <2>5 DEF Connected
  <2>8. \A d \in Client : client'[d] = "out" => worker'[d] = "none"
    BY <2>2 DEF Connected, TypeOK
  <2> QED BY <2>6, <2>7, <2>8 DEF Connected
<1>6. ASSUME NEW c \in Client, ClientSends(c) \/ ClientCloses(c) PROVE Connected'
  <2>1. /\ backlog' = backlog /\ worker' = worker
        /\ \A d \in Client : client'[d] = "out" <=> client[d] = "out"
    BY <1>6 DEF ClientSends, ClientCloses, processes, TypeOK
  <2> QED BY <2>1, ConnectedFrame
<1>7. CASE UNCHANGED vars
  BY <1>7, ConnectedFrame DEF vars, connections
<1> QED BY <1>1, <1>2, <1>3, <1>4, <1>5, <1>6, <1>7 DEF Next, Programs, Done, Server, Clients

-----------------------------------------------------------------------------
(* What is written.                                                         *)

\* Nothing is written, and at most a process ends.
LEMMA WrittenKept ==
  ASSUME NEW c \in Client, Written(c), out'[c] = out[c],
         worker'[c] = worker[c] \/ worker'[c] \in {"zombie", "gone"},
         lives(cgi'[c]) => lives(cgi[c]),
         cgi[c] = "none" => cgi'[c] = "none"
  PROVE  Written(c)'
BY DEF Written, Follows, lives

\* One more piece of the response s.
LEMMA Extended ==
  ASSUME TypeOK, NEW c \in Client, NEW piece \in Pieces, Write(c, piece),
         NEW s, Len(s) \in Nat, Len(out[c]) < Len(s), Follows(out[c], s),
         s[Len(out[c]) + 1] = piece
  PROVE  Follows(out'[c], s) /\ Len(out'[c]) = Len(out[c]) + 1
<1>1. /\ Len(out'[c]) = Len(out[c]) + 1 /\ Len(out[c]) \in Nat
      /\ out'[c][Len(out[c]) + 1] = piece
      /\ \A j \in 1..Len(out[c]) : out'[c][j] = out[c][j]
  BY Appended
<1>2. \A j \in 1..Len(out'[c]) : j \in 1..Len(out[c]) \/ j = Len(out[c]) + 1
  BY <1>1
<1>3. Len(out'[c]) <= Len(s)
  BY <1>1
<1> QED BY <1>1, <1>2, <1>3 DEF Follows

LEMMA TwoPieces ==
  /\ <<"header", "content">> \in Responses /\ Len(<<"header", "content">>) = 2
  /\ <<"header", "content">>[1] = "header" /\ <<"header", "content">>[2] = "content"
  /\ <<"part", "rest">> \in Responses /\ Len(<<"part", "rest">>) = 2
  /\ <<"part", "rest">>[1] = "part" /\ <<"part", "rest">>[2] = "rest"
  /\ <<"part", "log">> \in Responses /\ Len(<<"part", "log">>) = 2
  /\ <<"part", "log">>[1] = "part" /\ <<"part", "log">>[2] = "log"
  /\ ErrorPage \in Responses /\ Len(ErrorPage) = 4
  /\ Len(<<>>) = 0
BY DEF Responses, ErrorPage

\* The first piece of a response of two.
LEMMA FirstPiece ==
  ASSUME TypeOK, NEW c \in Client, out[c] = <<>>, NEW piece \in Pieces, Write(c, piece),
         NEW s, Len(s) = 2, s[1] = piece
  PROVE  Follows(out'[c], s) /\ Len(out'[c]) = 1 /\ out'[c][1] = piece
<1>1. Len(out[c]) = 0
  BY TwoPieces
<1>2. Follows(out[c], s)
  BY <1>1 DEF Follows
<1>3. Follows(out'[c], s) /\ Len(out'[c]) = 1
  <2>1. Len(out[c]) + 1 = 1 /\ Len(s) \in Nat /\ Len(out[c]) < Len(s) /\ 0 + 1 = 1
    BY <1>1
  <2>2. s[Len(out[c]) + 1] = piece
    BY <2>1
  <2> QED BY <1>1, <1>2, <2>1, <2>2, Extended
<1> QED BY <1>3 DEF Follows

LEMMA AnswerWritten ==
  ASSUME TypeOK, NEW c \in Client, Written(c), Worker(c)
  PROVE  Written(c)'
<1>1. CASE ReadHead(c) \/ HeadEof(c)
  <2>1. worker[c] = "head" /\ UNCHANGED <<out, cgi>>
    BY <1>1 DEF ReadHead, HeadEof, at
  <2>2. worker'[c] \in {"head", "error", "static", "dynamic", "post", "spin"}
    <3>1. req[c] \in Request /\ \A r \in (IF used[c] = 0 THEN Wants[c] ELSE {req[c]}) : r \in Request
      BY TinyAssumption DEF TypeOK
    <3>2. \A r \in Request : choice(r) \in {"error", "static", "dynamic", "post"}
      BY RequestFacts
    <3> QED BY <1>1, <3>1, <3>2 DEF ReadHead, HeadEof, Go, TypeOK
  <2>3. out[c] = <<>> /\ cgi[c] = "none" /\ Len(out[c]) = 0
    BY <2>1, TwoPieces DEF Written
  <2>4. Follows(out[c], ErrorPage)
    BY <2>3, TwoPieces DEF Follows
  <2> QED BY <2>1, <2>2, <2>3, <2>4, TwoPieces DEF Written, lives, ended
<1>2. CASE clienterror(c)
  <2>1. /\ worker[c] = "error" /\ cgi' = cgi /\ cgi[c] = "none"
        /\ Write(c, ErrorPage[Len(out[c]) + 1])
        /\ worker'[c] = IF Len(out[c]) + 1 = Len(ErrorPage) THEN "exit" ELSE "error"
    BY <1>2 DEF clienterror, at, Go, TypeOK, Written
  <2>2. ErrorPage[Len(out[c]) + 1] \in Pieces /\ Len(out[c]) \in 0..3
    BY <2>1, ErrorPieces
  <2>3. Follows(out[c], ErrorPage) /\ Len(out[c]) < Len(ErrorPage)
    BY <2>1 DEF Written
  <2>4. Follows(out'[c], ErrorPage) /\ Len(out'[c]) = Len(out[c]) + 1
    <3>1. Len(ErrorPage) \in Nat
      BY TwoPieces
    <3> QED BY <2>1, <2>2, <2>3, <3>1, Extended
  <2>5. Len(out[c]) + 1 # Len(ErrorPage) => Len(out'[c]) < Len(ErrorPage)
    <3>1. \A k \in 0..3 : k + 1 # 4 => k + 1 < 4
      OBVIOUS
    <3> QED BY <2>2, <2>4, <3>1, TwoPieces
  <2> QED BY <2>1, <2>4, <2>5, TwoPieces DEF Written, lives, ended
<1>3. CASE StaticHeader(c)
  <2>1. /\ worker[c] = "static" /\ cgi' = cgi /\ cgi[c] = "none" /\ out[c] = <<>>
        /\ Write(c, "header") /\ worker'[c] \in {"exit", "body"}
    BY <1>3 DEF StaticHeader, at, Go, TypeOK, Written
  <2>2. Follows(out'[c], <<"header", "content">>) /\ Len(out'[c]) = 1
    BY <2>1, TwoPieces, FirstPiece DEF Pieces
  <2> QED BY <2>1, <2>2, TwoPieces DEF Written, lives, ended
<1>4. CASE StaticBody(c)
  <2>1. /\ worker[c] = "body" /\ cgi' = cgi /\ cgi[c] = "none"
        /\ Write(c, "content") \/ out' = out
        /\ worker'[c] = "exit"
    BY <1>4 DEF StaticBody, at, Go, TypeOK, Written
  <2>2. Follows(out[c], <<"header", "content">>) /\ Len(out[c]) = 1
    BY <2>1 DEF Written
  <2>3. Follows(out'[c], <<"header", "content">>)
    <3>1. CASE Write(c, "content")
      <4> DEFINE s == <<"header", "content">>
      <4>1. Len(s) \in Nat /\ Len(out[c]) < Len(s) /\ Len(out[c]) + 1 = 2
        BY <2>2, TwoPieces
      <4>2. s[Len(out[c]) + 1] = "content" /\ "content" \in Pieces
        BY <4>1, TwoPieces DEF Pieces
      <4>3. Follows(out[c], s)
        BY <2>2
      <4> HIDE DEF s
      <4>4. Follows(out'[c], s)
        BY <3>1, <4>1, <4>2, <4>3, Extended
      <4> QED BY <4>4 DEF s
    <3> QED BY <2>1, <2>2, <3>1
  <2> QED BY <2>1, <2>3, TwoPieces DEF Written, lives, ended
<1>5. CASE DynamicHeader(c) \/ PostHeader(c)
  <2>1. /\ worker[c] \in {"dynamic", "part"} /\ cgi' = cgi /\ cgi[c] = "none" /\ out[c] = <<>>
        /\ Write(c, "part") /\ worker'[c] \in {"exit", "fork", "forkPost"}
    BY <1>5 DEF DynamicHeader, PostHeader, at, Go, TypeOK, Written
  <2>2. /\ Follows(out'[c], <<"part", "rest">>)
        /\ Len(out'[c]) = 1 /\ out'[c][1] = "part"
    BY <2>1, TwoPieces, FirstPiece DEF Pieces
  <2> QED BY <2>1, <2>2, TwoPieces DEF Written, lives, ended
<1>6. CASE ForkCgi(c) \/ ForkPostCgi(c)
  <2>1. /\ worker[c] \in {"fork", "forkPost"} /\ out' = out /\ worker'[c] = "exit"
    BY <1>6 DEF ForkCgi, ForkPostCgi, at, Go, TypeOK
  <2> QED BY <2>1 DEF Written
<1>7. CASE ForkWriter(c)
  <2>1. worker[c] = "post" /\ out' = out /\ cgi' = cgi /\ worker'[c] = "part"
    BY <1>7 DEF ForkWriter, at, Go, TypeOK
  <2> QED BY <2>1 DEF Written
<1>8. CASE Exit(c)
  <2>1. EndWorker(c) /\ out' = out
    BY <1>8 DEF Exit
  <2>2. worker'[c] = "zombie" /\ cgi'[c] = orphan(cgi[c])
    BY <2>1 DEF EndWorker, TypeOK
  <2> QED BY <2>1, <2>2, WrittenKept DEF orphan, lives, ended
<1> QED BY <1>1, <1>2, <1>3, <1>4, <1>5, <1>6, <1>7, <1>8 DEF Worker

LEMMA CgiWritten ==
  ASSUME TypeOK, NEW c \in Client, Written(c), Writer(c) \/ Cgi(c) \/ Fails(c) \/ Undefined(c)
  PROVE  Written(c)'
<1>1. CASE ReadBody(c) \/ WritePipe(c) \/ Overrun(c) \/ Undefined(c) \/ WriterFails(c)
  <2>1. UNCHANGED <<worker, cgi, out>>
    BY <1>1 DEF ReadBody, WritePipe, Overrun, Undefined, WriterFails, EndWriter
  <2> QED BY <2>1, WrittenKept
<1>2. CASE Exec(c) \/ CgiReads(c)
  <2>1. /\ UNCHANGED <<worker, out>> /\ lives(cgi[c]) /\ cgi[c] # "none"
    BY <1>2 DEF Exec, CgiReads, lives, ended
  <2> QED BY <2>1, WrittenKept
<1>3. CASE WorkerFails(c)
  <2>1. EndWorker(c) /\ out' = out
    BY <1>3 DEF WorkerFails
  <2>2. worker'[c] = "zombie" /\ cgi'[c] = orphan(cgi[c])
    BY <2>1 DEF EndWorker, TypeOK
  <2> QED BY <2>1, <2>2, WrittenKept DEF orphan, lives, ended
<1>4. CASE CgiOverruns(c) \/ CgiFails(c)
  <2>1. /\ UNCHANGED <<worker, out>> /\ lives(cgi[c]) /\ cgi[c] # "none"
    BY <1>4 DEF CgiOverruns, CgiFails, EndCgi, lives, ended
  <2> QED BY <2>1, WrittenKept
<1>5. ASSUME NEW last \in {"rest", "log"}, Write(c, last), EndCgi(c), lives(cgi[c])
      PROVE  Written(c)'
  <2>1. Len(out[c]) = 1 /\ out[c][1] = "part" /\ cgi[c] # "none"
    BY <1>5 DEF Written, lives, ended
  <2>2. last \in Pieces /\ Len(<<"part", last>>) = 2 /\ <<"part", last>>[1] = "part"
        /\ <<"part", last>>[2] = last /\ <<"part", last>> \in Responses
    BY <1>5 DEF Pieces, Responses
  <2>3. Follows(out[c], <<"part", last>>)
    BY <2>1, <2>2 DEF Follows
  <2>4. Follows(out'[c], <<"part", last>>)
    <3> DEFINE s == <<"part", last>>
    <3>1. Len(s) \in Nat /\ Len(out[c]) < Len(s) /\ Len(out[c]) + 1 = 2
      BY <2>1, <2>2
    <3>2. s[Len(out[c]) + 1] = last /\ last \in Pieces
      BY <2>2, <3>1
    <3>3. Follows(out[c], s)
      BY <2>3
    <3> HIDE DEF s
    <3>4. Follows(out'[c], s)
      BY <1>5, <3>1, <3>2, <3>3, Extended
    <3> QED BY <3>4 DEF s
  <2>5. worker' = worker /\ cgi'[c] \in {"zombie", "gone"}
    BY <1>5 DEF EndCgi, left_by, TypeOK
  <2> QED BY <2>1, <2>2, <2>4, <2>5 DEF Written, lives, ended
<1>6. CASE CgiWrites(c)
  BY <1>5, <1>6 DEF CgiWrites, lives, ended
<1>7. CASE ExecFails(c)
  BY <1>5, <1>7 DEF ExecFails, lives, ended
<1> QED BY <1>1, <1>2, <1>3, <1>4, <1>6, <1>7 DEF Writer, Cgi, Fails

LEMMA StepWritten ==
  ASSUME TypeOK, Connected, \A c \in Client : Written(c), [Next]_vars
  PROVE  \A c \in Client : Written(c)'
<1>1. CASE Accept
  <2>1. backlog \in Seq(Client) /\ backlog # <<>> /\ Len(backlog) \in Nat
    BY <1>1, LenProperties DEF Accept, TypeOK
  <2>2. PICK h \in Client : h = Head(backlog) /\ h = backlog[1] /\ 1 \in 1..Len(backlog)
    BY <2>1, EmptySeq, HeadTailProperties
  <2>3. worker[h] = "none"
    BY <2>2 DEF Connected
  <2>4. worker' = [worker EXCEPT ![h] = "head"] /\ UNCHANGED <<out, cgi>>
    BY <1>1, <2>2 DEF Accept
  <2>5. Written(h)'
    <3>1. worker'[h] = "head"
      BY <2>4 DEF TypeOK
    <3> QED BY <2>3, <2>4, <3>1 DEF Written, lives, Follows
  <2>6. \A c \in Client \ {h} : Written(c)'
    BY <2>4, WrittenKept DEF TypeOK
  <2> QED BY <2>5, <2>6
<1>2. CASE CloseConnfd
  BY <1>2, WrittenKept DEF CloseConnfd
<1>3. ASSUME NEW c \in Client, Worker(c) \/ Writer(c) \/ Cgi(c) \/ Fails(c) \/ Undefined(c)
      PROVE  \A d \in Client : Written(d)'
  <2>1. Written(c)'
    BY <1>3, AnswerWritten, CgiWritten
  <2>2. \A d \in Client \ {c} : Written(d)'
    BY <1>3, WorkerKept, WrittenKept
  <2> QED BY <2>1, <2>2
<1>4. ASSUME NEW p \in Parent, Handlers(p) PROVE \A c \in Client : Written(c)'
  <2>1. \A c \in Client :
           /\ out'[c] = out[c]
           /\ worker'[c] = worker[c] \/ worker'[c] \in {"zombie", "gone"}
           /\ lives(cgi'[c]) => lives(cgi[c])
           /\ cgi[c] = "none" => cgi'[c] = "none"
    BY <1>4, HandlerKeeps DEF lives, ended
  <2> QED BY <2>1, WrittenKept
<1>5. ASSUME NEW c \in Client, Clients(c) PROVE \A d \in Client : Written(d)'
  BY <1>5, WrittenKept DEF Clients, ClientConnects, ClientSends, ClientCloses, processes
<1>6. CASE UNCHANGED vars
  BY <1>6, WrittenKept DEF vars
<1> QED BY <1>1, <1>2, <1>3, <1>4, <1>5, <1>6 DEF Next, Programs, Done, Server

LEMMA InitWritten == Init => Connected /\ \A c \in Client : Written(c)
<1> SUFFICES ASSUME Init PROVE Connected /\ \A c \in Client : Written(c)
  OBVIOUS
<1>1. Connected
  BY TwoPieces DEF Init, Connected
<1>2. ASSUME NEW c \in Client PROVE Written(c)
  <2>1. worker[c] = "none" /\ cgi[c] = "none" /\ out[c] = <<>>
    BY DEF Init
  <2>2. Follows(out[c], ErrorPage)
    BY <2>1, TwoPieces DEF Follows
  <2> QED BY <2>1, <2>2, TwoPieces DEF Written, lives, ended
<1> QED BY <1>1, <1>2

LEMMA Inductive == Spec => []TinyInv
<1>1. Init => TinyInv
  BY InitTypes, InitWritten DEF TinyInv
<1>2. TinyInv /\ [Next]_vars => TinyInv'
  BY StepTypes, StepConnected, StepWritten DEF TinyInv
<1> QED BY <1>1, <1>2, PTL DEF Spec

-----------------------------------------------------------------------------
(* What the handler of SIGCHLD finds.                                       *)

Found(p) ==
  alive(p) => Cardinality(zombies(p)) >= (IF p \in handling THEN 1 ELSE 0)
                                         + (IF p \in sigchld THEN 1 ELSE 0)

\* A worker that has not begun or has ended has no signal and runs no handler,
\* and its writer begins once.
Quiet ==
  \A c \in Client :
    /\ ~lives(worker[c]) => c \notin sigchld /\ c \notin handling
    /\ worker[c] \in {"none", "head", "post"} => writer[c] = "none"

ReapInv == Quiet /\ \A p \in Parent : Found(p)

LEMMA ZombiesFinite ==
  ASSUME NEW p
  PROVE  IsFiniteSet(zombies(p)) /\ Cardinality(zombies(p)) \in Nat
<1>1. IsFiniteSet(Client)
  BY TinyAssumption
<1>2. IsFiniteSet({"writer", "cgi"})
  <2>1. IsFiniteSet({"writer"})
    BY FS_Singleton
  <2>2. {"writer", "cgi"} = {"writer"} \cup {"cgi"}
    OBVIOUS
  <2> QED BY <2>1, <2>2, FS_AddElement
<1>3. zombies(p) \subseteq Client \/ zombies(p) \subseteq {"writer", "cgi"}
  BY DEF zombies
<1>4. IsFiniteSet(zombies(p))
  BY <1>1, <1>2, <1>3, FS_Subset
<1> QED BY <1>4, FS_CardinalityType

LEMMA FoundKept ==
  ASSUME NEW p, Found(p), zombies(p)' = zombies(p), alive(p)' => alive(p),
         p \in sigchld' => p \in sigchld, p \in handling' => p \in handling
  PROVE  Found(p)'
BY ZombiesFinite DEF Found

\* A child ends, and its signal comes or merges with one that is pending.
LEMMA FoundMore ==
  ASSUME NEW p, Found(p), alive(p), NEW z, z \notin zombies(p),
         zombies(p)' = zombies(p) \cup {z}, p \in handling' <=> p \in handling
  PROVE  Found(p)'
<1>1. Cardinality(zombies(p) \cup {z}) = Cardinality(zombies(p)) + 1
  BY ZombiesFinite, FS_AddElement
<1>2. Cardinality(zombies(p)) >= (IF p \in handling THEN 1 ELSE 0)
  BY ZombiesFinite DEF Found
<1> QED BY <1>1, <1>2, ZombiesFinite DEF Found

LEMMA FoundLess ==
  ASSUME NEW p, Found(p), alive(p), NEW z \in zombies(p), zombies(p)' = zombies(p) \ {z},
         p \in handling, p \notin handling', p \in sigchld' <=> p \in sigchld
  PROVE  Found(p)'
<1>1. Cardinality(zombies(p) \ {z}) = Cardinality(zombies(p)) - 1
  BY ZombiesFinite, FS_RemoveElement
<1> QED BY <1>1, ZombiesFinite DEF Found

\* Who is a zombie decides what each parent has to reap.
LEMMA SameZombies ==
  ASSUME NEW p \in Parent,
         p = server => \A c \in Client : worker'[c] = "zombie" <=> worker[c] = "zombie",
         p # server => /\ writer'[p] = "zombie" <=> writer[p] = "zombie"
                       /\ cgi'[p] = "zombie" <=> cgi[p] = "zombie"
  PROVE  zombies(p)' = zombies(p)
BY DEF zombies

LEMMA WorkerReaps ==
  ASSUME TypeOK, ReapInv, NEW c \in Client, Written(c), Worker(c), ~Exit(c)
  PROVE  ReapInv'
<1>1. /\ lives(worker[c]) /\ lives(worker'[c])
      /\ UNCHANGED signals
      /\ \A d \in Client \ {c} : /\ worker'[d] = worker[d] /\ writer'[d] = writer[d]
                                 /\ cgi'[d] = cgi[d]
  <2>1. req[c] \in Request /\ \A r \in (IF used[c] = 0 THEN Wants[c] ELSE {req[c]}) : r \in Request
    BY TinyAssumption DEF TypeOK
  <2>2. \A r \in Request : choice(r) \in {"error", "static", "dynamic", "post"}
    BY RequestFacts
  <2>3. CASE ReadHead(c) \/ HeadEof(c)
    <3>1. worker[c] = "head" /\ UNCHANGED signals
      BY <2>3 DEF ReadHead, HeadEof, at, signals
    <3>2. worker'[c] \in {"head", "error", "static", "dynamic", "post", "spin"}
      BY <2>1, <2>2, <2>3 DEF ReadHead, HeadEof, Go, TypeOK
    <3> QED BY <3>1, <3>2, WorkerKept DEF lives, ended
  <2>4. CASE \/ clienterror(c) \/ StaticHeader(c) \/ StaticBody(c) \/ DynamicHeader(c)
             \/ ForkCgi(c) \/ ForkWriter(c) \/ PostHeader(c) \/ ForkPostCgi(c)
    BY <2>4, WorkerKept DEF Worker, clienterror, StaticHeader, StaticBody, DynamicHeader, ForkCgi,
       ForkWriter, PostHeader, ForkPostCgi, answering, at, Go, lives, ended, TypeOK
  <2> QED BY <2>3, <2>4 DEF Worker
<1>2. /\ writer'[c] = writer[c] \/ (writer[c] = "none" /\ writer'[c] = "read")
      /\ cgi'[c] = cgi[c] \/ (cgi[c] = "none" /\ cgi'[c] = "exec")
  BY DEF Worker, ReadHead, HeadEof, clienterror, StaticHeader, StaticBody, DynamicHeader, ForkCgi,
     ForkWriter, PostHeader, ForkPostCgi, at, TypeOK, Written, ReapInv, Quiet
<1>3. worker'[c] \in {"none", "head", "post"} => writer'[c] = "none"
  <2>1. CASE ReadHead(c) \/ HeadEof(c)
    <3>1. worker[c] = "head" /\ writer' = writer
      BY <2>1 DEF ReadHead, HeadEof, at
    <3> QED BY <3>1 DEF ReapInv, Quiet
  <2>2. CASE \/ clienterror(c) \/ StaticHeader(c) \/ StaticBody(c) \/ DynamicHeader(c)
             \/ ForkCgi(c) \/ ForkWriter(c) \/ PostHeader(c) \/ ForkPostCgi(c)
    BY <2>2 DEF clienterror, StaticHeader, StaticBody, DynamicHeader, ForkCgi,
       ForkWriter, PostHeader, ForkPostCgi, Go, TypeOK
  <2> QED BY <2>1, <2>2 DEF Worker
<1>4. Quiet'
  BY <1>1, <1>3 DEF Quiet, ReapInv, signals
<1>5. ASSUME NEW p \in Parent PROVE Found(p)'
  <2>1. zombies(p)' = zombies(p)
    BY <1>1, <1>2, SameZombies DEF lives, ended, Parent
  <2>2. alive(p)' <=> alive(p)
    BY <1>1 DEF alive, Parent
  <2> QED BY <1>1, <2>1, <2>2, FoundKept DEF signals, ReapInv
<1> QED BY <1>4, <1>5 DEF ReapInv

LEMMA WorkerEndReaps ==
  ASSUME TypeOK, ReapInv, NEW c \in Client, lives(worker[c]), EndWorker(c)
  PROVE  ReapInv'
<1>1. /\ worker' = [worker EXCEPT ![c] = "zombie"]
      /\ writer' = [writer EXCEPT ![c] = orphan(writer[c])]
      /\ cgi' = [cgi EXCEPT ![c] = orphan(cgi[c])]
      /\ sigchld' = (sigchld \cup {server}) \ {c} /\ handling' = handling \ {c}
  BY DEF EndWorker
<1>2. c # server /\ server \notin Client
  BY TinyAssumption
<1>3. Quiet'
  BY <1>1, <1>2 DEF ReapInv, Quiet, TypeOK, lives, ended
<1>4. Found(server)'
  <2>1. c \notin zombies(server) /\ zombies(server)' = zombies(server) \cup {c}
    BY <1>1, <1>2 DEF zombies, lives, ended, TypeOK
  <2>2. alive(server) /\ Found(server)
    BY DEF alive, ReapInv, Parent
  <2>3. server \in handling' <=> server \in handling
    BY <1>1, <1>2
  <2> QED BY <2>1, <2>2, <2>3, FoundMore
<1>5. Found(c)'
  BY <1>1, <1>2 DEF Found, alive, lives, ended, TypeOK
<1>6. ASSUME NEW d \in Client \ {c} PROVE Found(d)'
  <2>1. d \in Parent /\ d # server
    BY <1>2 DEF Parent
  <2>2. writer'[d] = writer[d] /\ cgi'[d] = cgi[d] /\ worker'[d] = worker[d]
    BY <1>1 DEF TypeOK
  <2>3. zombies(d)' = zombies(d)
    BY <2>1, <2>2, SameZombies
  <2>4. alive(d)' <=> alive(d)
    BY <2>1, <2>2 DEF alive
  <2>5. d \in sigchld' => d \in sigchld
    BY <1>1, <2>1
  <2>6. d \in handling' => d \in handling
    BY <1>1
  <2> QED BY <2>1, <2>3, <2>4, <2>5, <2>6, FoundKept DEF ReapInv
<1> QED BY <1>3, <1>4, <1>5, <1>6 DEF ReapInv, Parent

LEMMA ChildEndReaps ==
  ASSUME TypeOK, ReapInv, NEW c \in Client,
         (lives(writer[c]) /\ EndWriter(c)) \/ (lives(cgi[c]) /\ EndCgi(c))
  PROVE  ReapInv'
<1>1. /\ worker' = worker /\ handling' = handling
      /\ sigchld' = IF alive(c) THEN sigchld \cup {c} ELSE sigchld
      /\ \A d \in Client \ {c} : writer'[d] = writer[d] /\ cgi'[d] = cgi[d]
  BY DEF EndWriter, EndCgi, tell, TypeOK
<1>2. c # server /\ server \notin Client
  BY TinyAssumption
<1>3. Quiet'
  <2>1. ASSUME NEW d \in Client PROVE ~lives(worker[d]) => d \notin sigchld' /\ d \notin handling'
    BY <1>1, <1>2 DEF ReapInv, Quiet, alive
  <2>2. ASSUME NEW d \in Client PROVE worker[d] \in {"none", "head", "post"} => writer'[d] = "none"
    BY <1>1 DEF ReapInv, Quiet, EndWriter, EndCgi, lives, ended, TypeOK
  <2> QED BY <1>1, <2>1, <2>2 DEF Quiet
<1>4. ASSUME NEW p \in Parent, p # c PROVE Found(p)'
  <2>1. zombies(p)' = zombies(p)
    BY <1>1, <1>4, SameZombies DEF Parent
  <2>2. alive(p)' <=> alive(p)
    BY <1>1 DEF alive
  <2>3. p \in sigchld' => p \in sigchld
    BY <1>1, <1>4
  <2> QED BY <1>1, <2>1, <2>2, <2>3, FoundKept DEF ReapInv
<1>5. Found(c)'
  <2>1. alive(c)' <=> alive(c)
    BY <1>1 DEF alive
  <2>2. CASE ~alive(c)
    BY <2>1, <2>2 DEF Found
  <2>3. CASE alive(c) /\ lives(writer[c]) /\ EndWriter(c)
    <3>1. writer'[c] = "zombie" /\ cgi' = cgi /\ writer[c] # "zombie"
      BY <2>3 DEF EndWriter, left_by, lives, ended, TypeOK
    <3>2. "writer" \notin zombies(c) /\ zombies(c)' = zombies(c) \cup {"writer"}
      BY <1>2, <3>1 DEF zombies
    <3> QED BY <1>1, <2>3, <3>2, FoundMore DEF ReapInv, Parent
  <2>4. CASE alive(c) /\ lives(cgi[c]) /\ EndCgi(c)
    <3>1. cgi'[c] = "zombie" /\ writer' = writer /\ cgi[c] # "zombie"
      BY <2>4 DEF EndCgi, left_by, lives, ended, TypeOK
    <3>2. "cgi" \notin zombies(c) /\ zombies(c)' = zombies(c) \cup {"cgi"}
      BY <1>2, <3>1 DEF zombies
    <3> QED BY <1>1, <2>4, <3>2, FoundMore DEF ReapInv, Parent
  <2> QED BY <2>2, <2>3, <2>4
<1> QED BY <1>3, <1>4, <1>5 DEF ReapInv

LEMMA HandlerReaps ==
  ASSUME TypeOK, ReapInv, NEW p \in Parent, Handlers(p)
  PROVE  ReapInv'
<1>0. server \notin Client
  BY TinyAssumption
<1>1. CASE Deliver(p)
  <2>1. /\ alive(p) /\ p \notin handling /\ p \in sigchld
        /\ sigchld' = sigchld \ {p} /\ handling' = handling \cup {p}
        /\ UNCHANGED <<worker, writer, cgi>>
    BY <1>1 DEF Deliver, runs
  <2>2. \A q \in Parent : zombies(q)' = zombies(q) /\ (alive(q)' <=> alive(q))
    BY <2>1 DEF zombies, alive
  <2>3. Found(p)'
    BY <2>1, <2>2 DEF Found, ReapInv
  <2>4. ASSUME NEW q \in Parent, q # p PROVE Found(q)'
    BY <2>1, <2>2, <2>4, FoundKept DEF ReapInv
  <2>5. Quiet'
    BY <1>0, <2>1 DEF Quiet, ReapInv, alive
  <2> QED BY <2>3, <2>4, <2>5 DEF ReapInv
<1>2. CASE handler(p)
  <2>1. PICK z \in zombies(p) : Reaped(p, z)
    BY <1>2 DEF handler
  <2>2. p \in handling /\ handling' = handling \ {p} /\ sigchld' = sigchld
    BY <1>2 DEF handler
  <2>3. alive(p)
    BY <2>2 DEF ReapInv, Quiet, alive, Parent
  <2>4. CASE p = server
    <3>1. /\ z \in Client /\ worker[z] = "zombie" /\ worker' = [worker EXCEPT ![z] = "gone"]
          /\ writer' = writer /\ cgi' = cgi
      BY <2>1, <2>4 DEF Reaped, zombies
    <3>2. zombies(p)' = zombies(p) \ {z} /\ alive(p)'
      BY <2>4, <3>1 DEF zombies, alive, TypeOK
    <3>3. Found(p)'
      BY <2>2, <2>3, <3>2, FoundLess DEF ReapInv
    <3>4. ASSUME NEW q \in Client PROVE Found(q)'
      <4>1. q \in Parent /\ q # server
        BY <1>0 DEF Parent
      <4>2. zombies(q)' = zombies(q)
        BY <3>1, <4>1, SameZombies
      <4>3. alive(q)' => alive(q)
        BY <3>1, <4>1 DEF alive, lives, ended, TypeOK
      <4> QED BY <2>2, <4>1, <4>2, <4>3, FoundKept DEF ReapInv
    <3>5. Quiet'
      BY <2>2, <3>1 DEF Quiet, ReapInv, TypeOK, lives, ended
    <3> QED BY <2>4, <3>3, <3>4, <3>5 DEF ReapInv, Parent
  <2>5. CASE p # server
    <3>1. /\ p \in Client /\ worker' = worker
          /\ z = "writer" \/ z = "cgi"
          /\ writer' = IF z = "writer" THEN [writer EXCEPT ![p] = "gone"] ELSE writer
          /\ cgi' = IF z = "cgi" THEN [cgi EXCEPT ![p] = "gone"] ELSE cgi
          /\ z = "writer" => writer[p] = "zombie"
      BY <2>1, <2>5 DEF Reaped, zombies, Parent
    <3>2. zombies(p)' = zombies(p) \ {z}
      BY <2>5, <3>1 DEF zombies, TypeOK
    <3>3. Found(p)'
      BY <2>2, <2>3, <3>2, FoundLess DEF ReapInv
    <3>4. ASSUME NEW q \in Parent, q # p PROVE Found(q)'
      <4>1. zombies(q)' = zombies(q)
        BY <3>1, <3>4, SameZombies DEF Parent, TypeOK
      <4>2. alive(q)' => alive(q)
        BY <3>1 DEF alive
      <4> QED BY <2>2, <4>1, <4>2, FoundKept DEF ReapInv
    <3>5. Quiet'
      BY <2>2, <3>1 DEF Quiet, ReapInv, TypeOK
    <3> QED BY <3>3, <3>4, <3>5 DEF ReapInv
  <2> QED BY <2>4, <2>5
<1> QED BY <1>1, <1>2 DEF Handlers

\* Nothing that the handlers look at changes, except that the writer and the
\* CGI go on.
LEMMA OthersReap ==
  ASSUME TypeOK, ReapInv, UNCHANGED <<worker, signals>>,
         \A c \in Client : /\ writer'[c] = "none" <=> writer[c] = "none"
                           /\ writer'[c] = "zombie" <=> writer[c] = "zombie"
                           /\ cgi'[c] = "zombie" <=> cgi[c] = "zombie"
  PROVE  ReapInv'
<1>1. Quiet'
  BY DEF Quiet, ReapInv, signals
<1>2. ASSUME NEW p \in Parent PROVE Found(p)'
  <2>1. zombies(p)' = zombies(p)
    BY SameZombies DEF Parent
  <2>2. alive(p)' <=> alive(p)
    BY DEF alive
  <2> QED BY <2>1, <2>2, FoundKept DEF ReapInv, signals
<1> QED BY <1>1, <1>2 DEF ReapInv

LEMMA StepReaps ==
  ASSUME TinyInv, ReapInv, [Next]_vars
  PROVE  ReapInv'
<1>0. TypeOK /\ Connected /\ \A c \in Client : Written(c)
  BY DEF TinyInv
<1>1. CASE Accept
  <2>1. backlog \in Seq(Client) /\ backlog # <<>> /\ Len(backlog) \in Nat
    BY <1>0, <1>1, LenProperties DEF Accept, TypeOK
  <2>2. PICK h \in Client : h = Head(backlog) /\ h = backlog[1] /\ 1 \in 1..Len(backlog)
    BY <2>1, EmptySeq, HeadTailProperties
  <2>3. worker[h] = "none"
    BY <1>0, <2>2 DEF Connected
  <2>4. worker' = [worker EXCEPT ![h] = "head"] /\ UNCHANGED <<writer, cgi, signals>>
    BY <1>1, <2>2 DEF Accept
  <2>5. \A c \in Client : worker'[c] = IF c = h THEN "head" ELSE worker[c]
    BY <1>0, <2>4 DEF TypeOK
  <2>6. Quiet'
    BY <2>3, <2>4, <2>5 DEF Quiet, ReapInv, signals, lives, ended
  <2>7. ASSUME NEW p \in Parent PROVE Found(p)'
    <3>1. zombies(p)' = zombies(p)
      BY <2>3, <2>4, <2>5, SameZombies
    <3>2. CASE p = h
      <4>1. h \notin sigchld' /\ h \notin handling'
        BY <2>3, <2>4 DEF Quiet, ReapInv, signals, lives, ended
      <4> QED BY <3>1, <3>2, <4>1, ZombiesFinite DEF Found
    <3>3. CASE p # h
      <4>1. alive(p)' <=> alive(p)
        BY <2>5, <3>3 DEF alive, Parent
      <4> QED BY <2>4, <3>1, <4>1, FoundKept DEF ReapInv, signals
    <3> QED BY <3>2, <3>3
  <2> QED BY <2>6, <2>7 DEF ReapInv
<1>2. CASE CloseConnfd \/ UNCHANGED vars
  <2>1. UNCHANGED <<worker, writer, cgi, signals>>
    BY <1>2 DEF CloseConnfd, vars
  <2> QED BY <1>0, <2>1, OthersReap
<1>3. ASSUME NEW c \in Client, Worker(c) PROVE ReapInv'
  <2>1. CASE Exit(c)
    <3>1. lives(worker[c]) /\ EndWorker(c)
      BY <2>1 DEF Exit, at, lives, ended
    <3> QED BY <1>0, <3>1, WorkerEndReaps
  <2>2. CASE ~Exit(c)
    BY <1>0, <1>3, <2>2, WorkerReaps
  <2> QED BY <2>1, <2>2
<1>4. ASSUME NEW c \in Client, Writer(c) \/ Cgi(c) \/ Undefined(c) PROVE ReapInv'
  <2>1. CASE ReadBody(c)
    <3>1. UNCHANGED <<worker, writer, cgi, signals>>
      BY <2>1 DEF ReadBody
    <3> QED BY <1>0, <3>1, OthersReap
  <2>2. CASE WritePipe(c) \/ Undefined(c)
    <3>1. lives(writer[c]) /\ EndWriter(c)
      BY <2>2 DEF WritePipe, Undefined, lives, ended
    <3> QED BY <1>0, <3>1, ChildEndReaps
  <2>3. CASE Overrun(c) \/ Exec(c) \/ CgiReads(c)
    <3>1. /\ UNCHANGED <<worker, signals>>
          /\ \A d \in Client : /\ writer'[d] = "none" <=> writer[d] = "none"
                               /\ writer'[d] = "zombie" <=> writer[d] = "zombie"
                               /\ cgi'[d] = "zombie" <=> cgi[d] = "zombie"
      BY <1>0, <2>3 DEF Overrun, Exec, CgiReads, TypeOK
    <3> QED BY <1>0, <3>1, OthersReap
  <2>4. CASE CgiOverruns(c) \/ CgiWrites(c)
    <3>1. lives(cgi[c]) /\ EndCgi(c)
      BY <2>4 DEF CgiOverruns, CgiWrites, lives, ended
    <3> QED BY <1>0, <3>1, ChildEndReaps
  <2> QED BY <1>4, <2>1, <2>2, <2>3, <2>4 DEF Writer, Cgi
<1>5. ASSUME NEW p \in Parent, Handlers(p) PROVE ReapInv'
  BY <1>0, <1>5, HandlerReaps
<1>6. ASSUME NEW c \in Client, Clients(c) PROVE ReapInv'
  <2>1. UNCHANGED <<worker, writer, cgi, signals>>
    BY <1>6 DEF Clients, ClientConnects, ClientSends, ClientCloses, processes
  <2> QED BY <1>0, <2>1, OthersReap
<1>7. ASSUME NEW c \in Client, Fails(c) PROVE ReapInv'
  <2>1. CASE WorkerFails(c)
    BY <1>0, <2>1, WorkerEndReaps DEF WorkerFails
  <2>2. CASE WriterFails(c) \/ CgiFails(c)
    BY <1>0, <2>2, ChildEndReaps DEF WriterFails, CgiFails
  <2>3. CASE ExecFails(c)
    <3>1. lives(cgi[c]) /\ EndCgi(c)
      BY <2>3 DEF ExecFails, lives, ended
    <3> QED BY <1>0, <3>1, ChildEndReaps
  <2> QED BY <1>7, <2>1, <2>2, <2>3 DEF Fails
<1> QED BY <1>1, <1>2, <1>3, <1>4, <1>5, <1>6, <1>7 DEF Next, Programs, Done, Server

LEMMA InitReaps == Init => ReapInv
<1> SUFFICES ASSUME Init PROVE ReapInv
  OBVIOUS
<1>1. sigchld = {} /\ handling = {} /\ \A c \in Client : writer[c] = "none"
  BY DEF Init
<1>2. Quiet
  BY <1>1 DEF Quiet
<1>3. ASSUME NEW p \in Parent PROVE Found(p)
  BY <1>1, ZombiesFinite DEF Found
<1> QED BY <1>2, <1>3 DEF ReapInv

-----------------------------------------------------------------------------
(* The body on its way to the CGI.                                          *)

\* s is the beginning of the body, with zeros for what the client did not send.
FromBody(c, s) ==
  \A i \in 1..Len(s) :
     \/ s[i] = head_length(req[c]) + i
     \/ s[i] = 0 /\ client[c] = "closed" /\ sent[c] < head_length(req[c]) + i

\* From the end of the header on until the CGI has ended.
posting(c) ==
  \/ worker[c] \in {"post", "part", "forkPost"}
  \/ req[c].method = "POST" /\ lives(cgi[c])

\* What the worker knows of the request once it has read the header.
HeaderRead(c) ==
  /\ contentLength[c] \in {0, req[c].bytes}
  /\ (worker[c] \in {"none", "head"} /\ used[c] <= 1) => contentLength[c] = 0
  /\ worker[c] \in {"dynamic", "fork"} => req[c].method # "POST"
  /\ cgi[c] = "read" => req[c].method = "POST"
  /\ posting(c) =>
        /\ req[c].method = "POST"
        /\ sent[c] < head_length(req[c]) => client[c] = "closed"
        /\ (sent[c] >= head_length(req[c]) /\ length_in(req[c], head_length(req[c])))
              => contentLength[c] = req[c].bytes

\* No process of the connection has failed for want of anything but a reader.
Undisturbed(c) == c \in Failing => c \in faults

\* data and postdata hold what the request says it has.
Fits(c) == contentLength[c] <= MAXLINE

\* The writer takes up where the worker stopped to read, and what it has read
\* goes whole into the pipe and whole out of it, if data holds it.
BodyMoves(c) ==
  /\ worker[c] \in {"none", "head", "post"} => writer[c] = "none"
  /\ worker[c] = "post" => contentLength[c] = 0 \/ used[c] = head_length(req[c])
  /\ (posting(c) /\ worker[c] # "post") => writer[c] # "none"
  /\ writer[c] = "none" => data[c] = <<>> /\ pipe[c] = <<>> /\ input[c] = <<>>
  /\ writer[c] = "read" =>
        contentLength[c] = 0 \/ used[c] = head_length(req[c]) + Len(data[c])
  /\ Len(data[c]) <= contentLength[c]
  /\ \A i \in 1..Len(data[c]) : data[c][i] = head_length(req[c]) + i
  /\ writer[c] = "overrun" => ~Fits(c)
  /\ pipe[c] # <<>> => Len(pipe[c]) = contentLength[c] /\ (Fits(c) => FromBody(c, pipe[c]))
  /\ input[c] # <<>> => Len(input[c]) = contentLength[c] /\ (Fits(c) => FromBody(c, input[c]))
  /\ cgi[c] \in {"none", "exec", "read"} => input[c] = <<>>
  /\ Undisturbed(c) /\ Fits(c) =>
       /\ (writer[c] \in {"zombie", "gone"} /\ cgi[c] \in {"none", "exec", "read"})
            => Len(pipe[c]) = contentLength[c]
       /\ (cgi[c] = "write" /\ req[c].method = "POST") => Len(input[c]) = contentLength[c]

BodyInv == faults \subseteq Failing /\ \A c \in Client : HeaderRead(c) /\ BodyMoves(c)

\* The numbers of a connection.
LEMMA Numbers ==
  ASSUME TypeOK, NEW c \in Client
  PROVE  /\ req[c] \in Request /\ head_length(req[c]) \in Nat /\ head_length(req[c]) >= 2
         /\ req[c].bytes \in Nat /\ contentLength[c] \in Nat
         /\ sent[c] \in Nat /\ taken[c] \in Nat /\ used[c] \in Nat
         /\ used[c] <= taken[c] /\ taken[c] <= sent[c]
         /\ data[c] \in Seq(Nat) /\ pipe[c] \in Seq(Nat) /\ input[c] \in Seq(Nat)
         /\ Len(data[c]) \in Nat /\ Len(pipe[c]) \in Nat /\ Len(input[c]) \in Nat
<1>1. req[c] \in Request /\ MaxBytes \in Nat
  BY TinyAssumption DEF TypeOK
<1>2. head_length(req[c]) \in Nat /\ head_length(req[c]) >= 2 /\ req[c].bytes \in 0..MaxBytes
  BY <1>1, RequestFacts
<1>3. data[c] \in Seq(Nat) /\ pipe[c] \in Seq(Nat) /\ input[c] \in Seq(Nat)
  BY DEF TypeOK
<1>4. Len(data[c]) \in Nat /\ Len(pipe[c]) \in Nat /\ Len(input[c]) \in Nat
  BY <1>3, LenProperties
<1> QED BY <1>1, <1>2, <1>3, <1>4 DEF TypeOK

\* Clients only send and close, and faults are only used up.
SentKept(c) ==
  \/ sent'[c] = sent[c] /\ (client[c] = "closed" => client'[c] = "closed")
  \/ client[c] # "closed" /\ client'[c] = client[c] /\ sent'[c] \in Nat /\ sent'[c] >= sent[c]

LEMMA FromBodyKept ==
  ASSUME TypeOK, NEW c \in Client, NEW s, FromBody(c, s), req'[c] = req[c], SentKept(c)
  PROVE  /\ \A i \in 1..Len(s) :
              \/ s[i] = head_length(req'[c]) + i
              \/ s[i] = 0 /\ client'[c] = "closed" /\ sent'[c] < head_length(req'[c]) + i
BY DEF FromBody, SentKept

\* Nothing of the body moves; processes go on where the body does not depend
\* on it, or end.
BodyFrame(c) ==
  /\ req'[c] = req[c] /\ used'[c] = used[c] /\ contentLength'[c] = contentLength[c]
  /\ data'[c] = data[c] /\ pipe'[c] = pipe[c] /\ input'[c] = input[c]
  /\ SentKept(c)
  /\ \/ worker'[c] = worker[c]
     \/ worker[c] = "none" /\ worker'[c] = "head"
     \/ worker[c] = "part" /\ worker'[c] = "forkPost"
     \/ worker[c] = "dynamic" /\ worker'[c] = "fork"
     \/ worker'[c] \in {"error", "static", "body", "exit", "spin", "zombie", "gone"}
  /\ \/ writer'[c] = writer[c]
     \/ writer[c] = "zombie" /\ writer'[c] = "gone"
     \/ writer[c] = "read" /\ writer'[c] \in {"zombie", "gone"} /\ ~Undisturbed(c)'
     \/ writer[c] \in {"read", "overrun"} /\ writer'[c] \in {"overrun", "zombie", "gone"} /\ ~Fits(c)
  /\ cgi'[c] = cgi[c] \/ (cgi[c] # "none" /\ cgi'[c] \in {"zombie", "gone"})
  /\ Undisturbed(c)' => Undisturbed(c)

LEMMA BodyKept ==
  ASSUME TypeOK, NEW c \in Client, Written(c), HeaderRead(c), BodyMoves(c), BodyFrame(c)
  PROVE  HeaderRead(c)' /\ BodyMoves(c)'
<1>1. posting(c)' => posting(c)
  BY DEF posting, BodyFrame, lives, ended
<1>2. HeaderRead(c)'
  <2>1. posting(c)' =>
            /\ sent'[c] < head_length(req[c]) => client'[c] = "closed"
            /\ (sent'[c] >= head_length(req[c]) /\ length_in(req[c], head_length(req[c])))
                  => contentLength[c] = req[c].bytes
    BY <1>1, Numbers DEF HeaderRead, BodyFrame, SentKept
  <2> QED BY <1>1, <2>1 DEF HeaderRead, BodyFrame
<1>3. BodyMoves(c)'
  <2>0. Fits(c)' <=> Fits(c)
    BY DEF Fits, BodyFrame
  <2>1. pipe[c] # <<>> /\ Fits(c) => FromBody(c, pipe[c])'
    BY FromBodyKept DEF BodyMoves, BodyFrame, FromBody
  <2>2. input[c] # <<>> /\ Fits(c) => FromBody(c, input[c])'
    BY FromBodyKept DEF BodyMoves, BodyFrame, FromBody
  <2>3. /\ (worker[c] \in {"none", "head", "post"} => writer[c] = "none")'
        /\ (worker[c] = "post" => contentLength[c] = 0 \/ used[c] = head_length(req[c]))'
        /\ ((posting(c) /\ worker[c] # "post") => writer[c] # "none")'
        /\ (writer[c] = "none" => data[c] = <<>> /\ pipe[c] = <<>> /\ input[c] = <<>>)'
    <3>1. (posting(c)' /\ worker'[c] # "post") => writer'[c] # "none"
      <4>1. worker[c] = "post" => ~lives(cgi'[c])
        BY DEF Written, BodyFrame, lives, ended
      <4>2. (posting(c)' /\ worker'[c] # "post") => worker[c] # "post"
        BY <4>1 DEF posting, BodyFrame
      <4> QED BY <1>1, <4>2 DEF BodyMoves, BodyFrame
    <3> QED BY <3>1 DEF BodyMoves, BodyFrame
  <2>4. /\ (writer[c] = "read" =>
               contentLength[c] = 0 \/ used[c] = head_length(req[c]) + Len(data[c]))'
        /\ (Len(data[c]) <= contentLength[c])'
        /\ (\A i \in 1..Len(data[c]) : data[c][i] = head_length(req[c]) + i)'
        /\ (cgi[c] \in {"none", "exec", "read"} => input[c] = <<>>)'
        /\ (writer[c] = "overrun" => ~Fits(c))'
    BY <2>0 DEF BodyMoves, BodyFrame
  <2>5. Undisturbed(c)' /\ Fits(c) =>
         /\ (writer'[c] \in {"zombie", "gone"} /\ cgi'[c] \in {"none", "exec", "read"})
              => Len(pipe'[c]) = contentLength'[c]
         /\ (cgi'[c] = "write" /\ req'[c].method = "POST") => Len(input'[c]) = contentLength'[c]
    BY DEF BodyMoves, BodyFrame
  <2> QED BY <2>0, <2>1, <2>2, <2>3, <2>4, <2>5 DEF BodyMoves, BodyFrame
<1> QED BY <1>2, <1>3

\* The worker reads the header.
LEMMA HeadBody ==
  ASSUME TypeOK, NEW c \in Client, Written(c), HeaderRead(c), BodyMoves(c),
         ReadHead(c) \/ HeadEof(c)
  PROVE  HeaderRead(c)' /\ BodyMoves(c)'
<1>1. /\ worker[c] = "head" /\ cgi[c] = "none" /\ writer[c] = "none"
      /\ data[c] = <<>> /\ pipe[c] = <<>> /\ input[c] = <<>>
      /\ UNCHANGED <<client, sent, writer, cgi, data, pipe, input, faults>>
  BY DEF ReadHead, HeadEof, at, Written, BodyMoves, connections, body
<1>2. worker'[c] \in {"head", "error", "static", "dynamic", "post", "spin"}
  <2>1. req[c] \in Request /\ \A r \in (IF used[c] = 0 THEN Wants[c] ELSE {req[c]}) : r \in Request
    BY TinyAssumption DEF TypeOK
  <2>2. \A r \in Request : choice(r) \in {"error", "static", "dynamic", "post"}
    BY RequestFacts
  <2> QED BY <2>1, <2>2 DEF ReadHead, HeadEof, Go, TypeOK
<1>3. posting(c)' <=> worker'[c] = "post"
  BY <1>1, <1>2 DEF posting, lives, ended
<1>4. ASSUME contentLength'[c] \in Nat,
             worker'[c] = "post" => contentLength'[c] = 0 \/ used'[c] = head_length(req'[c])
      PROVE  BodyMoves(c)'
  BY <1>1, <1>2, <1>3, <1>4, TwoPieces DEF BodyMoves, Undisturbed
<1>5. \A r \in Request : /\ choice(r) = "dynamic" => r.method # "POST"
                         /\ choice(r) = "post" => r.method = "POST"
  BY TinyAssumption DEF choice, Requests
<1>6. CASE ReadHead(c)
  <2> DEFINE k == IF supported(req[c]) THEN Smaller(sent[c], head_length(req[c])) ELSE 1
  <2>1. /\ used' = [used EXCEPT ![c] = k] /\ req' = req
        /\ contentLength' = [contentLength EXCEPT ![c] =
               IF req[c].method = "POST" /\ length_in(req[c], k) THEN req[c].bytes ELSE 0]
        /\ worker' = [worker EXCEPT ![c] = IF ~supported(req[c]) THEN "error"
                        ELSE IF k = head_length(req[c]) THEN choice(req[c]) ELSE "head"]
    BY <1>6 DEF ReadHead, Go, connections
  <2>2. k \in Nat /\ (supported(req[c]) /\ k = head_length(req[c]) => sent[c] >= k)
    BY Numbers DEF Smaller
  <2> HIDE DEF k
  <2>3. /\ used'[c] = k /\ req'[c] = req[c]
        /\ contentLength'[c] =
               IF req[c].method = "POST" /\ length_in(req[c], k) THEN req[c].bytes ELSE 0
        /\ worker'[c] = IF ~supported(req[c]) THEN "error"
                        ELSE IF k = head_length(req[c]) THEN choice(req[c]) ELSE "head"
    BY <2>1 DEF TypeOK
  <2>4. k <= 1 => ~length_in(req[c], k)
    <3>1. req[c] \in Requests
      BY Numbers, TinyAssumption
    <3>2. Len(req[c].headers) \in Nat
      BY <3>1, LenProperties DEF Requests
    <3>3. \A i \in 2..Len(req[c].headers) : i + 1 > 1
      BY <3>2
    <3>4. \A i \in 2..Len(req[c].headers) : i \in Int
      BY <3>2
    <3> QED BY <2>2, <3>3, <3>4 DEF length_in
  <2>5. worker'[c] = "post" =>
           /\ k = head_length(req[c]) /\ req[c].method = "POST" /\ sent[c] >= head_length(req[c])
    BY <1>5, <2>2, <2>3, Numbers
  <2>6. worker'[c] = "dynamic" => req[c].method # "POST"
    BY <1>5, <2>3, Numbers
  <2>7. HeaderRead(c)'
    BY <1>1, <1>2, <1>3, <2>2, <2>3, <2>4, <2>5, <2>6, Numbers DEF HeaderRead
  <2>8. BodyMoves(c)'
    BY <1>4, <2>3, <2>5, Numbers
  <2> QED BY <2>7, <2>8
<1>7. CASE HeadEof(c)
  <2>1. PICK r \in (IF used[c] = 0 THEN Wants[c] ELSE {req[c]}) :
          /\ req' = [req EXCEPT ![c] = r]
          /\ \/ ~supported(r) /\ Go(c, "error")
             \/ supported(r) /\ used[c] <= 1 /\ Go(c, choice(r))
             \/ supported(r) /\ Go(c, "spin")
    BY <1>7 DEF HeadEof
  <2>2. r \in Request
    BY TinyAssumption DEF TypeOK
  <2>3. /\ used' = used /\ contentLength' = contentLength
        /\ used[c] = sent[c] /\ client[c] = "closed"
    BY <1>7 DEF HeadEof, stream, at_eof
  <2>4. req'[c] = r /\ (used[c] > 1 => r = req[c])
    BY <2>1, <2>2, Numbers DEF TypeOK
  <2>5. worker'[c] \in {"error", "spin"} \/ (used[c] <= 1 /\ worker'[c] = choice(r))
    BY <2>1 DEF Go, TypeOK
  <2>6. used[c] <= 1 => contentLength[c] = 0
    BY <1>1 DEF HeaderRead
  <2>7. worker'[c] = "post" => r.method = "POST" /\ used[c] <= 1 /\ sent[c] < head_length(r)
    BY <1>5, <2>2, <2>3, <2>5, Numbers, RequestFacts
  <2>8. worker'[c] \in {"dynamic", "fork"} => r.method # "POST"
    BY <1>2, <1>5, <2>2, <2>5
  <2>9. contentLength[c] \in {0, r.bytes}
    BY <2>4, <2>6, Numbers DEF HeaderRead
  <2>10. HeaderRead(c)'
    <3>1. worker'[c] = "post" => ~(sent[c] >= head_length(r))
      BY <2>2, <2>7, Numbers, RequestFacts
    <3> QED BY <1>1, <1>3, <2>3, <2>4, <2>6, <2>7, <2>8, <2>9, <3>1 DEF HeaderRead
  <2>11. BodyMoves(c)'
    BY <1>4, <2>3, <2>6, <2>7, Numbers
  <2> QED BY <2>10, <2>11
<1> QED BY <1>6, <1>7

\* The worker forks the writer and the CGI.
LEMMA ForkBody ==
  ASSUME TypeOK, NEW c \in Client, Written(c), HeaderRead(c), BodyMoves(c),
         ForkWriter(c) \/ ForkCgi(c) \/ ForkPostCgi(c)
  PROVE  HeaderRead(c)' /\ BodyMoves(c)'
<1>1. /\ UNCHANGED <<req, client, sent, used, contentLength, data, pipe, input, faults>>
      /\ cgi[c] = "none"
  BY DEF ForkWriter, ForkCgi, ForkPostCgi, answering, at, connections, stream, body, Written
<1>2. CASE ForkWriter(c)
  <2>1. /\ worker[c] = "post" /\ worker'[c] = "part"
        /\ writer[c] = "none" /\ writer'[c] = "read" /\ cgi' = cgi
    BY <1>2 DEF ForkWriter, at, Go, TypeOK, BodyMoves
  <2>2. /\ data[c] = <<>> /\ pipe[c] = <<>> /\ input[c] = <<>>
        /\ contentLength[c] = 0 \/ used[c] = head_length(req[c]) + Len(data[c])
    BY <2>1, TwoPieces, Numbers DEF BodyMoves
  <2>3. HeaderRead(c)'
    BY <1>1, <2>1 DEF HeaderRead, posting
  <2>4. BodyMoves(c)'
    BY <1>1, <2>1, <2>2 DEF BodyMoves, Undisturbed, Fits
  <2> QED BY <2>3, <2>4
<1>3. CASE ForkCgi(c)
  <2>1. /\ worker[c] = "fork" /\ worker'[c] = "exit" /\ writer' = writer /\ cgi'[c] = "exec"
        /\ req[c].method # "POST"
    BY <1>3 DEF ForkCgi, at, Go, TypeOK, HeaderRead
  <2>2. ~posting(c)'
    BY <1>1, <2>1 DEF posting
  <2>3. HeaderRead(c)'
    BY <1>1, <2>1, <2>2 DEF HeaderRead
  <2>4. BodyMoves(c)'
    BY <1>1, <2>1, <2>2 DEF BodyMoves, Undisturbed, FromBody, Fits
  <2> QED BY <2>3, <2>4
<1>4. CASE ForkPostCgi(c)
  <2>1. /\ worker[c] = "forkPost" /\ worker'[c] = "exit" /\ writer' = writer /\ cgi'[c] = "exec"
    BY <1>4 DEF ForkPostCgi, at, Go, TypeOK
  <2>2. posting(c) /\ req[c].method = "POST"
    BY <2>1 DEF posting, HeaderRead
  <2>3. HeaderRead(c)'
    BY <1>1, <2>1, <2>2 DEF HeaderRead
  <2>4. BodyMoves(c)'
    BY <1>1, <2>1, <2>2 DEF BodyMoves, Undisturbed, FromBody, Fits
  <2> QED BY <2>3, <2>4
<1> QED BY <1>2, <1>3, <1>4

\* The worker answers, or ends.
LEMMA AnswerBody ==
  ASSUME TypeOK, NEW c \in Client, Written(c), HeaderRead(c), BodyMoves(c), Worker(c)
  PROVE  HeaderRead(c)' /\ BodyMoves(c)'
<1>1. CASE clienterror(c) \/ StaticHeader(c) \/ StaticBody(c) \/ DynamicHeader(c) \/ PostHeader(c)
  <2>1. BodyFrame(c)
    BY <1>1 DEF clienterror, StaticHeader, StaticBody, DynamicHeader, PostHeader, answering, at, Go,
       TypeOK, connections, stream, body, BodyFrame, SentKept, Undisturbed
  <2> QED BY <2>1, BodyKept
<1>2. CASE Exit(c)
  <2>1. BodyFrame(c)
    BY <1>2 DEF Exit, EndWorker, orphan, TypeOK, connections, stream, body,
       BodyFrame, SentKept, Undisturbed
  <2> QED BY <2>1, BodyKept
<1> QED BY <1>1, <1>2, HeadBody, ForkBody DEF Worker

\* What Rio_writen of contentLength bytes puts into the pipe.
LEMMA ZerosFollow ==
  ASSUME TypeOK, NEW c \in Client, Len(data[c]) <= contentLength[c],
         pipe' = [pipe EXCEPT ![c] = data[c] \o [i \in 1..need(c) |-> 0]]
  PROVE  /\ Len(pipe'[c]) = contentLength[c]
         /\ \A i \in 1..contentLength[c] :
               pipe'[c][i] = IF i <= Len(data[c]) THEN data[c][i] ELSE 0
<1>1. PICK k \in Nat : k = need(c) /\ Len(data[c]) + k = contentLength[c]
  BY Numbers DEF need
<1>2. PICK zeros : zeros = [i \in 1..k |-> 0]
  OBVIOUS
<1>3. zeros \in Seq(Nat) /\ Len(zeros) = k /\ \A i \in 1..k : zeros[i] = 0
  <2>1. zeros \in [1..k -> Nat]
    BY <1>1, <1>2
  <2> QED BY <1>1, <1>2, <2>1, SeqDef, LenProperties
<1>4. PICK old : old = data[c]
  OBVIOUS
<1>5. pipe'[c] = old \o zeros
  BY <1>1, <1>2, <1>4, Numbers DEF TypeOK
<1>6. /\ Len(old \o zeros) = Len(old) + Len(zeros)
      /\ \A i \in 1..(Len(old) + Len(zeros)) :
            (old \o zeros)[i] = IF i <= Len(old) THEN old[i] ELSE zeros[i - Len(old)]
  <2>1. old \in Seq(Nat) /\ zeros \in Seq(Nat)
    BY <1>3, <1>4, Numbers
  <2> QED BY <2>1, ConcatProperties
<1>7. Len(old) \in Nat /\ Len(old) + Len(zeros) = contentLength[c]
  BY <1>1, <1>3, <1>4, Numbers
<1>8. ASSUME NEW i \in 1..contentLength[c]
      PROVE  pipe'[c][i] = IF i <= Len(old) THEN old[i] ELSE 0
  <2>1. ~(i <= Len(old)) => i - Len(old) \in 1..k
    BY <1>1, <1>3, <1>7
  <2> QED BY <1>3, <1>5, <1>6, <1>7, <2>1
<1> QED BY <1>4, <1>5, <1>6, <1>7, <1>8

\* The writer.
LEMMA WriterBody ==
  ASSUME TypeOK, NEW c \in Client, Written(c), HeaderRead(c), BodyMoves(c), Writer(c)
  PROVE  HeaderRead(c)' /\ BodyMoves(c)'
<1>1. /\ writer[c] = "read" /\ worker[c] \notin {"none", "head", "post"}
      /\ UNCHANGED <<req, client, sent, contentLength, worker, cgi, input, faults>>
  BY DEF Writer, ReadBody, WritePipe, Overrun, EndWriter, BodyMoves, connections, stream, body
<1>2. posting(c)' <=> posting(c)
  BY <1>1 DEF posting
<1>3. HeaderRead(c)'
  BY <1>1, <1>2 DEF HeaderRead
<1>4. input[c] # <<>> /\ Fits(c) => FromBody(c, input[c])'
  BY <1>1 DEF BodyMoves, FromBody
<1>5. CASE ReadBody(c)
  <2> DEFINE k == chunk(c)
  <2>1. /\ data' = [data EXCEPT ![c] = @ \o [i \in 1..k |-> used[c] + i]]
        /\ used' = [used EXCEPT ![c] = @ + k]
        /\ UNCHANGED <<writer, pipe>> /\ need(c) > 0 /\ used[c] < sent[c]
    BY <1>5 DEF ReadBody
  <2>2. k \in Nat /\ k <= need(c)
    BY <2>1, Numbers DEF chunk, Smaller, need
  <2> HIDE DEF k
  <2>0. need(c) > 0 /\ need(c) = contentLength[c] - Len(data[c])
    BY <2>1 DEF need
  <2>3. PICK more : more = [i \in 1..k |-> used[c] + i]
    BY Zenon
  <2>4. more \in Seq(Nat) /\ Len(more) = k /\ \A i \in 1..k : more[i] = used[c] + i
    <3>1. more \in [1..k -> Nat]
      BY <2>2, <2>3, Numbers
    <3> QED BY <2>2, <2>3, <3>1, SeqDef, LenProperties
  <2>5. data'[c] = data[c] \o more /\ used'[c] = used[c] + k
    BY <2>1, <2>3, Numbers DEF TypeOK
  <2>6. PICK old : old = data[c]
    OBVIOUS
  <2>7. /\ Len(data'[c]) = Len(old) + k
        /\ \A i \in 1..(Len(old) + k) :
              data'[c][i] = IF i <= Len(old) THEN old[i] ELSE more[i - Len(old)]
    <3>1. old \in Seq(Nat) /\ more \in Seq(Nat)
      BY <2>4, <2>6, Numbers
    <3>2. /\ Len(old \o more) = Len(old) + Len(more)
          /\ \A i \in 1..(Len(old) + Len(more)) :
                (old \o more)[i] = IF i <= Len(old) THEN old[i] ELSE more[i - Len(old)]
      BY <3>1, ConcatProperties
    <3>3. data'[c] = old \o more /\ Len(more) = k
      BY <2>4, <2>5, <2>6
    <3> QED BY <3>2, <3>3
  <2>8. used[c] = head_length(req[c]) + Len(old) /\ Len(old) + k <= contentLength[c]
    <3>1. contentLength[c] # 0 /\ Len(data[c]) + k <= contentLength[c]
      BY <2>0, <2>2, Numbers
    <3>2. used[c] = head_length(req[c]) + Len(data[c])
      BY <1>1, <3>1 DEF BodyMoves
    <3> QED BY <2>6, <3>1, <3>2
  <2>9. used'[c] = head_length(req[c]) + Len(data'[c]) /\ Len(data'[c]) <= contentLength[c]
    BY <2>2, <2>5, <2>6, <2>7, <2>8, Numbers
  <2>10. \A i \in 1..Len(data'[c]) : data'[c][i] = head_length(req[c]) + i
    <3> SUFFICES ASSUME NEW i \in 1..(Len(old) + k) PROVE data'[c][i] = head_length(req[c]) + i
      BY <2>7
    <3>1. CASE i <= Len(old)
      <4>1. i \in 1..Len(old)
        BY <2>2, <2>6, <3>1, Numbers
      <4> QED BY <2>6, <2>7, <3>1, <4>1 DEF BodyMoves
    <3>2. CASE ~(i <= Len(old))
      <4>1. i - Len(old) \in 1..k
        BY <2>2, <2>6, <3>2, Numbers
      <4>2. data'[c][i] = used[c] + (i - Len(old))
        BY <2>4, <2>7, <3>2, <4>1
      <4> QED BY <2>2, <2>6, <2>8, <4>2, Numbers
    <3> QED BY <3>1, <3>2
  <2>11. pipe[c] # <<>> /\ Fits(c) => FromBody(c, pipe[c])'
    BY <1>1, <2>1 DEF BodyMoves, FromBody
  <2>12. BodyMoves(c)'
    BY <1>1, <1>2, <1>4, <2>1, <2>9, <2>10, <2>11 DEF BodyMoves, Undisturbed, Fits
  <2> QED BY <1>3, <2>12
<1>6. CASE WritePipe(c)
  <2>1. /\ need(c) = 0 \/ (used[c] = sent[c] /\ client[c] = "closed")
        /\ pipe' = [pipe EXCEPT ![c] = data[c] \o [i \in 1..need(c) |-> 0]]
        /\ writer'[c] \in {"zombie", "gone"} /\ UNCHANGED <<used, data>>
    BY <1>6 DEF WritePipe, EndWriter, left_by, at_eof, TypeOK, stream
  <2>2. /\ writer[c] = "read" /\ need(c) = contentLength[c] - Len(data[c])
        /\ Len(data[c]) <= contentLength[c]
    BY <1>6 DEF WritePipe, need, BodyMoves
  <2>3. /\ Len(pipe'[c]) = contentLength[c]
        /\ \A i \in 1..contentLength[c] :
              pipe'[c][i] = IF i <= Len(data[c]) THEN data[c][i] ELSE 0
    BY <2>1, <2>2, ZerosFollow
  <2>4. FromBody(c, pipe[c])'
    <3> SUFFICES ASSUME NEW i \in 1..contentLength[c]
                 PROVE  \/ pipe'[c][i] = head_length(req[c]) + i
                        \/ /\ pipe'[c][i] = 0 /\ client[c] = "closed"
                           /\ sent[c] < head_length(req[c]) + i
      BY <1>1, <2>3 DEF FromBody
    <3>1. CASE i <= Len(data[c])
      <4>1. i \in 1..Len(data[c])
        BY <3>1, Numbers
      <4> QED BY <2>3, <3>1, <4>1 DEF BodyMoves
    <3>2. CASE ~(i <= Len(data[c]))
      <4>1. need(c) # 0 /\ contentLength[c] # 0
        BY <2>2, <3>2, Numbers
      <4>2. client[c] = "closed" /\ used[c] = sent[c]
        BY <2>1, <4>1
      <4>3. used[c] = head_length(req[c]) + Len(data[c])
        BY <2>2, <4>1 DEF BodyMoves
      <4>4. sent[c] < head_length(req[c]) + i
        BY <3>2, <4>2, <4>3, Numbers
      <4> QED BY <2>3, <3>2, <4>2, <4>4
    <3> QED BY <3>1, <3>2
  <2>5. BodyMoves(c)'
    BY <1>1, <1>2, <1>4, <2>1, <2>3, <2>4 DEF BodyMoves, Undisturbed, Fits
  <2> QED BY <1>3, <2>5
<1>7. CASE Overrun(c)
  <2>1. /\ writer[c] = "read" /\ writer'[c] = "overrun"
        /\ UNCHANGED <<used, data, pipe>>
        /\ \/ need(c) > 0 /\ used[c] < sent[c] /\ Len(data[c]) + chunk(c) > MAXLINE
           \/ contentLength[c] > MAXLINE
    BY <1>7 DEF Overrun, TypeOK, stream, body
  <2>2. MAXLINE \in Nat
    BY TinyAssumption
  <2>3. ~Fits(c)
    <3>1. CASE contentLength[c] > MAXLINE
      BY <2>2, <3>1, Numbers DEF Fits
    <3>2. CASE need(c) > 0 /\ used[c] < sent[c] /\ Len(data[c]) + chunk(c) > MAXLINE
      <4>1. need(c) \in Int /\ sent[c] - used[c] \in Int /\ Len(data[c]) + need(c) = contentLength[c]
        BY Numbers DEF need
      <4>2. chunk(c) \in Int /\ chunk(c) <= need(c)
        BY <4>1 DEF chunk, Smaller
      <4>3. Len(data[c]) + chunk(c) <= contentLength[c]
        BY <4>1, <4>2, Numbers
      <4> QED BY <2>2, <3>2, <4>2, <4>3, Numbers DEF Fits
    <3> QED BY <2>1, <3>1, <3>2
  <2>4. BodyFrame(c)
    BY <1>1, <2>1, <2>3 DEF BodyFrame, SentKept, Undisturbed
  <2> QED BY <2>4, BodyKept
<1> QED BY <1>5, <1>6, <1>7 DEF Writer

\* The writer after its overrun.
LEMMA OverrunBody ==
  ASSUME TypeOK, NEW c \in Client, Written(c), HeaderRead(c), BodyMoves(c), Undefined(c)
  PROVE  HeaderRead(c)' /\ BodyMoves(c)'
<1>1. /\ writer[c] = "overrun" /\ writer'[c] \in {"zombie", "gone"}
      /\ UNCHANGED <<req, client, sent, used, contentLength, worker, cgi, data, input, faults>>
  BY DEF Undefined, EndWriter, left_by, TypeOK, connections, stream
<1>2. ~Fits(c) /\ ~Fits(c)'
  BY <1>1 DEF BodyMoves, Fits
<1>3. CASE UNCHANGED pipe
  BY <1>1, <1>2, <1>3, BodyKept DEF BodyFrame, SentKept, Undisturbed
<1>4. CASE pipe' = [pipe EXCEPT ![c] = data[c] \o [i \in 1..need(c) |-> 0]]
  <2>1. Len(pipe'[c]) = contentLength[c]
    BY <1>4, ZerosFollow DEF BodyMoves
  <2>2. posting(c)' <=> posting(c)
    BY <1>1 DEF posting
  <2>3. worker[c] \notin {"none", "head", "post"}
    BY <1>1 DEF BodyMoves
  <2>4. HeaderRead(c)'
    BY <1>1, <2>2 DEF HeaderRead
  <2>5. BodyMoves(c)'
    BY <1>1, <1>2, <2>1, <2>2, <2>3 DEF BodyMoves
  <2> QED BY <2>4, <2>5
<1> QED BY <1>3, <1>4 DEF Undefined

\* The CGI.
LEMMA CgiBody ==
  ASSUME TypeOK, NEW c \in Client, Written(c), HeaderRead(c), BodyMoves(c), Cgi(c)
  PROVE  HeaderRead(c)' /\ BodyMoves(c)'
<1>1. CASE Exec(c)
  <2>1. /\ cgi[c] = "exec" /\ cgi'[c] = IF req[c].method = "POST" THEN "read" ELSE "write"
        /\ UNCHANGED <<req, client, sent, used, contentLength, worker, writer, data, pipe, input, faults>>
    BY <1>1 DEF Exec, TypeOK, connections, stream, body
  <2>2. posting(c)' <=> posting(c)
    BY <2>1 DEF posting, lives, ended
  <2>3. HeaderRead(c)'
    BY <2>1, <2>2 DEF HeaderRead
  <2>4. BodyMoves(c)'
    BY <2>1, <2>2 DEF BodyMoves, Undisturbed, FromBody, Fits
  <2> QED BY <2>3, <2>4
<1>2. CASE CgiReads(c)
  <2>1. /\ cgi[c] = "read" /\ cgi'[c] = "write" /\ input'[c] = pipe[c] /\ pipe'[c] = <<>>
        /\ Len(pipe[c]) >= contentLength[c] \/ pipe_writers(c) = {}
        /\ UNCHANGED <<req, client, sent, used, contentLength, worker, writer, data, faults>>
    BY <1>2 DEF CgiReads, postdata_there, TypeOK, connections, stream
  <2>2. req[c].method = "POST" /\ posting(c) /\ posting(c)' /\ writer[c] # "none" /\ worker[c] # "post"
    BY <2>1 DEF HeaderRead, posting, lives, ended, BodyMoves, Written
  <2>3. HeaderRead(c)'
    BY <2>1, <2>2 DEF HeaderRead
  <2>4. Undisturbed(c) /\ Fits(c) => Len(pipe[c]) = contentLength[c]
    <3>1. CASE writer[c] = "read"
      <4>1. "writer" \in pipe_writers(c)
        BY <3>1 DEF pipe_writers, lives, ended
      <4>2. Len(pipe[c]) >= contentLength[c]
        BY <2>1, <4>1
      <4>3. pipe[c] = <<>> => Len(pipe[c]) = 0
        BY TwoPieces
      <4> QED BY <4>2, <4>3, Numbers DEF BodyMoves
    <3>2. CASE writer[c] # "read"
      <4>1. writer[c] \in {"overrun", "zombie", "gone"}
        BY <2>2, <3>2 DEF TypeOK, ended
      <4> QED BY <2>1, <4>1 DEF BodyMoves
    <3> QED BY <3>1, <3>2
  <2>5. pipe[c] # <<>> /\ Fits(c) => FromBody(c, input[c])'
    BY <2>1 DEF BodyMoves, FromBody
  <2>6. BodyMoves(c)'
    BY <2>1, <2>2, <2>4, <2>5 DEF BodyMoves, Undisturbed, Fits
  <2> QED BY <2>3, <2>6
<1>3. CASE CgiWrites(c)
  <2>1. BodyFrame(c)
    BY <1>3 DEF CgiWrites, EndCgi, left_by, TypeOK, connections, stream, body,
       BodyFrame, SentKept, Undisturbed
  <2> QED BY <2>1, BodyKept
<1>4. CASE CgiOverruns(c)
  <2>1. /\ cgi[c] = "read" /\ cgi'[c] \in {"zombie", "gone"} /\ pipe'[c] = <<>>
        /\ UNCHANGED <<req, client, sent, used, contentLength, worker, writer, data, input, faults>>
    BY <1>4 DEF CgiOverruns, EndCgi, left_by, TypeOK, connections, stream
  <2>2. posting(c)' => posting(c)
    BY <2>1 DEF posting, lives, ended
  <2>3. writer[c] # "none"
    <3>1. posting(c) /\ worker[c] # "post"
      BY <2>1 DEF HeaderRead, posting, Written, lives, ended
    <3> QED BY <3>1 DEF BodyMoves
  <2>4. HeaderRead(c)'
    BY <2>1, <2>2 DEF HeaderRead
  <2>5. BodyMoves(c)'
    BY <2>1, <2>2, <2>3 DEF BodyMoves, FromBody, Fits
  <2> QED BY <2>4, <2>5
<1> QED BY <1>1, <1>2, <1>3, <1>4 DEF Cgi

\* A process of the connection fails.
LEMMA FailBody ==
  ASSUME TypeOK, NEW c \in Client, faults \subseteq Failing, Written(c), HeaderRead(c), BodyMoves(c),
         Fails(c)
  PROVE  HeaderRead(c)' /\ BodyMoves(c)'
<1>1. Undisturbed(c)' => Undisturbed(c)
  BY DEF Fails, WorkerFails, WriterFails, CgiFails, ExecFails, MayFail, Undisturbed
<1>2. UNCHANGED <<req, client, sent, used, contentLength, data, pipe, input>>
  BY DEF Fails, WorkerFails, WriterFails, CgiFails, ExecFails, connections, stream, body
<1>3. CASE WorkerFails(c)
  <2>1. /\ worker'[c] = "zombie" /\ (writer'[c] = writer[c] \/ (writer[c] = "zombie" /\ writer'[c] = "gone"))
        /\ cgi'[c] = cgi[c] \/ (cgi[c] = "zombie" /\ cgi'[c] = "gone")
    BY <1>3 DEF WorkerFails, EndWorker, orphan, TypeOK
  <2> QED BY <1>1, <1>2, <2>1, BodyKept DEF BodyFrame, SentKept
<1>4. CASE WriterFails(c)
  <2>1. /\ writer[c] \in {"read", "overrun"} /\ writer'[c] \in {"zombie", "gone"}
        /\ writer[c] = "overrun" => ~Fits(c)
        /\ UNCHANGED <<worker, cgi>>
    BY <1>4 DEF WriterFails, EndWriter, left_by, lives, ended, TypeOK, BodyMoves
  <2>2. ~Undisturbed(c)'
    BY <1>4 DEF WriterFails, MayFail, Undisturbed
  <2> QED BY <1>1, <1>2, <2>1, <2>2, BodyKept DEF BodyFrame, SentKept
<1>5. CASE CgiFails(c) \/ ExecFails(c)
  <2>1. /\ cgi[c] # "none" /\ cgi'[c] \in {"zombie", "gone"} /\ UNCHANGED <<worker, writer>>
    BY <1>5 DEF CgiFails, ExecFails, EndCgi, left_by, lives, ended, TypeOK
  <2> QED BY <1>1, <1>2, <2>1, BodyKept DEF BodyFrame, SentKept
<1> QED BY <1>3, <1>4, <1>5 DEF Fails

\* What one connection does is nothing to the others.
LEMMA OthersBody ==
  ASSUME TypeOK, NEW c \in Client, NEW d \in Client, c # d,
         Worker(c) \/ Writer(c) \/ Cgi(c) \/ Clients(c) \/ Fails(c) \/ Undefined(c)
  PROVE  BodyFrame(d)
<1>1. worker'[d] = worker[d] /\ writer'[d] = writer[d] /\ cgi'[d] = cgi[d]
  BY WorkerKept DEF Clients, ClientConnects, ClientSends, ClientCloses, processes
<1>2. CASE Worker(c)
  <2>1. /\ req'[d] = req[d] /\ used'[d] = used[d] /\ contentLength'[d] = contentLength[d]
        /\ UNCHANGED <<client, sent, data, pipe, input, faults>>
    BY <1>2 DEF Worker, ReadHead, HeadEof, clienterror, StaticHeader, StaticBody, DynamicHeader,
       ForkCgi, ForkWriter, PostHeader, ForkPostCgi, Exit, answering, connections, stream, body, TypeOK
  <2> QED BY <1>1, <2>1 DEF BodyFrame, SentKept, Undisturbed
<1>3. CASE Writer(c) \/ Cgi(c) \/ Undefined(c)
  <2>1. /\ used'[d] = used[d] /\ data'[d] = data[d] /\ pipe'[d] = pipe[d] /\ input'[d] = input[d]
        /\ UNCHANGED <<req, client, sent, contentLength, faults>>
    BY <1>3 DEF Writer, Cgi, ReadBody, WritePipe, Overrun, Undefined, Exec, CgiReads, CgiOverruns,
       CgiWrites, connections, stream, body, TypeOK
  <2> QED BY <1>1, <2>1 DEF BodyFrame, SentKept, Undisturbed
<1>4. CASE Clients(c)
  <2>1. /\ client'[d] = client[d] /\ sent'[d] = sent[d]
        /\ UNCHANGED <<req, used, contentLength, data, pipe, input, faults>>
    BY <1>4 DEF Clients, ClientConnects, ClientSends, ClientCloses, processes, stream, body, TypeOK
  <2> QED BY <1>1, <2>1 DEF BodyFrame, SentKept, Undisturbed
<1>5. CASE Fails(c)
  <2>1. /\ UNCHANGED <<req, client, sent, used, contentLength, data, pipe, input>>
        /\ d \in faults' <=> d \in faults
    BY <1>5 DEF Fails, WorkerFails, WriterFails, CgiFails, ExecFails, MayFail, connections, stream, body
  <2> QED BY <1>1, <2>1 DEF BodyFrame, SentKept, Undisturbed
<1> QED BY <1>2, <1>3, <1>4, <1>5

LEMMA StepBody ==
  ASSUME TinyInv, BodyInv, [Next]_vars
  PROVE  BodyInv'
<1>0. /\ TypeOK /\ Connected /\ faults \subseteq Failing
      /\ \A c \in Client : Written(c) /\ HeaderRead(c) /\ BodyMoves(c)
  BY DEF TinyInv, BodyInv
<1>1. ASSUME UNCHANGED faults, \A c \in Client : BodyFrame(c) PROVE BodyInv'
  BY <1>0, <1>1, BodyKept DEF BodyInv
<1>2. CASE Accept
  <2>1. backlog \in Seq(Client) /\ backlog # <<>> /\ Len(backlog) \in Nat
    BY <1>0, <1>2, LenProperties DEF Accept, TypeOK
  <2>2. PICK h \in Client : h = Head(backlog) /\ h = backlog[1] /\ 1 \in 1..Len(backlog)
    BY <2>1, EmptySeq, HeadTailProperties
  <2>3. worker[h] = "none" /\ worker' = [worker EXCEPT ![h] = "head"]
    BY <1>0, <1>2, <2>2 DEF Connected, Accept
  <2>4. \A c \in Client : worker'[c] = worker[c] \/ (worker[c] = "none" /\ worker'[c] = "head")
    BY <1>0, <2>3 DEF TypeOK
  <2> QED BY <1>1, <1>2, <2>4 DEF Accept, stream, body, BodyFrame, SentKept, Undisturbed
<1>3. CASE CloseConnfd \/ UNCHANGED vars
  BY <1>1, <1>3 DEF CloseConnfd, vars, connections, stream, body, BodyFrame, SentKept, Undisturbed
<1>4. ASSUME NEW p \in Parent, Handlers(p) PROVE BodyInv'
  <2>1. UNCHANGED <<connections, stream, body, faults>>
    BY <1>4 DEF Handlers, Deliver, handler
  <2>2. ASSUME NEW c \in Client
        PROVE  /\ worker'[c] = worker[c] \/ worker'[c] = "gone"
               /\ cgi'[c] = cgi[c] \/ (cgi[c] = "zombie" /\ cgi'[c] = "gone")
    BY <1>0, <1>4, HandlerKeeps
  <2>3. ASSUME NEW c \in Client
        PROVE  writer'[c] = writer[c] \/ (writer[c] = "zombie" /\ writer'[c] = "gone")
    <3>1. CASE Deliver(p)
      BY <3>1 DEF Deliver
    <3>2. CASE handler(p)
      <4>1. PICK z \in zombies(p) : Reaped(p, z)
        BY <3>2 DEF handler
      <4> QED BY <1>0, <4>1 DEF Reaped, zombies, TypeOK, Parent
    <3> QED BY <1>4, <3>1, <3>2 DEF Handlers
  <2> QED BY <1>1, <2>1, <2>2, <2>3 DEF connections, stream, body, BodyFrame, SentKept, Undisturbed
<1>5. ASSUME NEW c \in Client,
             Worker(c) \/ Writer(c) \/ Cgi(c) \/ Clients(c) \/ Fails(c) \/ Undefined(c)
      PROVE  BodyInv'
  <2>1. HeaderRead(c)' /\ BodyMoves(c)'
    <3>1. CASE Clients(c)
      <4>1. /\ UNCHANGED <<req, used, contentLength, data, pipe, input, worker, writer, cgi, faults>>
            /\ SentKept(c)
        BY <1>0, <3>1, Numbers DEF Clients, ClientConnects, ClientSends, ClientCloses, processes, stream, body,
           TypeOK, SentKept
      <4> QED BY <1>0, <4>1, BodyKept DEF BodyFrame, Undisturbed
    <3> QED BY <1>0, <1>5, <3>1, AnswerBody, WriterBody, OverrunBody, CgiBody, FailBody
  <2>2. ASSUME NEW d \in Client, d # c PROVE HeaderRead(d)' /\ BodyMoves(d)'
    <3>1. BodyFrame(d)
      BY <1>0, <1>5, <2>2, OthersBody
    <3> QED BY <1>0, <3>1, BodyKept
  <2>3. faults' \subseteq faults
    BY <1>5 DEF Worker, Writer, Cgi, Clients, Fails, ReadHead, HeadEof, clienterror, StaticHeader,
       StaticBody, DynamicHeader, ForkCgi, ForkWriter, PostHeader, ForkPostCgi, Exit, answering,
       ReadBody, WritePipe, Overrun, Undefined, Exec, CgiReads, CgiOverruns, CgiWrites,
       ClientConnects, ClientSends, ClientCloses, processes, WorkerFails, WriterFails, CgiFails, ExecFails, MayFail
  <2> QED BY <1>0, <2>1, <2>2, <2>3 DEF BodyInv
<1> QED BY <1>2, <1>3, <1>4, <1>5 DEF Next, Programs, Done, Server

LEMMA InitBody == Init => BodyInv
<1> SUFFICES ASSUME Init PROVE BodyInv
  OBVIOUS
<1>1. ASSUME NEW c \in Client PROVE HeaderRead(c) /\ BodyMoves(c)
  BY TwoPieces DEF Init, HeaderRead, BodyMoves, posting, lives, ended
<1> QED BY <1>1 DEF Init, BodyInv

-----------------------------------------------------------------------------
(* Theorems.                                                                *)

\* The variables of the server, its workers, writers and CGI programs keep
\* their types: what is used of rio_buf never exceeds what read() brought, and
\* that never what the client sent.
THEOREM TypeCorrect == Spec => []TypeOK
BY Inductive, PTL DEF TinyInv

\* The processes of a connection, tiny.c and adder.c, write one response in
\* order, whichever of them fails and however they are scheduled.
THEOREM ResponseWrittenInOrder == Spec => []ResponseInOrder
<1>1. TinyInv => ResponseInOrder
  <2> SUFFICES ASSUME TinyInv, NEW c \in Client
               PROVE  \E s \in Responses :
                         Len(out[c]) <= Len(s) /\ out[c] = SubSeq(s, 1, Len(out[c]))
    BY DEF ResponseInOrder
  <2>1. PICK s \in Responses : Follows(out[c], s)
    BY DEF TinyInv, Written
  <2>2. out[c] \in Seq(Pieces) /\ Len(out[c]) \in Nat
    BY LenProperties DEF TinyInv, TypeOK
  <2>3. \A j \in 1..Len(out[c]) : s[j] = out[c][j] /\ s[j] \in Pieces
    BY <2>1, <2>2, ElementOfSeq DEF Follows
  <2>4. /\ SubSeq(s, 1, Len(out[c])) \in Seq(Pieces)
        /\ Len(SubSeq(s, 1, Len(out[c]))) =
               IF 1 <= Len(out[c]) THEN Len(out[c]) - 1 + 1 ELSE 0
        /\ \A j \in 1..(Len(out[c]) - 1 + 1) :
               SubSeq(s, 1, Len(out[c]))[j] = s[1 + j - 1]
    BY <2>2, <2>3, SubSeqProperties
  <2>5. Len(SubSeq(s, 1, Len(out[c]))) = Len(out[c])
    BY <2>2, <2>4
  <2>6. \A j \in 1..Len(out[c]) : out[c][j] = SubSeq(s, 1, Len(out[c]))[j]
    <3>1. Len(out[c]) - 1 + 1 = Len(out[c]) /\ \A j \in 1..Len(out[c]) : 1 + j - 1 = j
      BY <2>2
    <3> QED BY <2>3, <2>4, <3>1
  <2>7. out[c] = SubSeq(s, 1, Len(out[c]))
    BY <2>2, <2>4, <2>5, <2>6, SeqEqual
  <2> QED BY <2>1, <2>7 DEF Follows
<1> QED BY <1>1, Inductive, PTL

\* handler() of tiny.c never waits for a child that is still at work, and never
\* fails for want of one, although it reaps one child only and SIGCHLDs merge.
THEOREM HandlerAlwaysReaps == Spec => []HandlerFindsZombie
<1>1. Init => ReapInv
  BY InitReaps
<1>2. TinyInv /\ ReapInv /\ [Next]_vars => ReapInv'
  BY StepReaps
<1>3. ReapInv => HandlerFindsZombie
  BY DEF ReapInv, Found, HandlerFindsZombie
<1> QED BY <1>1, <1>2, <1>3, Inductive, PTL DEF Spec

\* The CGI of a POST, adder.c, reads a body that fits into postdata from its
\* first byte to its last, across the copy of rio_buf, the writer's buffer and
\* the pipe, unless one of the processes before it has failed or the client
\* sent less.  (Of a body that does not fit nothing can be said.)
THEOREM CgiReadsWholeBody == Spec => []CgiReadsBody
<1>1. Init => BodyInv
  BY InitBody
<1>2. TinyInv /\ BodyInv /\ [Next]_vars => BodyInv'
  BY StepBody
<1>3. TinyInv /\ BodyInv => CgiReadsBody
  <2> SUFFICES ASSUME TinyInv, BodyInv, NEW c \in Client, req[c].bytes < MAXLINE
               PROVE  /\ \A i \in 1..Len(input[c]) :
                           \/ input[c][i] = head_length(req[c]) + i
                           \/ /\ input[c][i] = 0 /\ client[c] = "closed"
                              /\ sent[c] < head_length(req[c]) + i
                      /\ input[c] # <<>> => Len(input[c]) = req[c].bytes
                      /\ (/\ cgi[c] = "write" /\ req[c].method = "POST"
                          /\ sent[c] >= head_length(req[c])
                          /\ length_in(req[c], head_length(req[c]))
                          /\ c \in Failing => c \in faults)
                            => Len(input[c]) = req[c].bytes
    BY DEF CgiReadsBody
  <2>1. TypeOK /\ HeaderRead(c) /\ BodyMoves(c)
    BY DEF TinyInv, BodyInv
  <2>0. Fits(c)
    BY <2>1, TinyAssumption, Numbers DEF HeaderRead, Fits
  <2>2. input[c] = <<>> <=> Len(input[c]) = 0
    BY <2>1, Numbers, EmptySeq, TwoPieces
  <2>3. \A i \in 1..Len(input[c]) :
           \/ input[c][i] = head_length(req[c]) + i
           \/ /\ input[c][i] = 0 /\ client[c] = "closed"
              /\ sent[c] < head_length(req[c]) + i
    <3>1. CASE input[c] = <<>>
      BY <2>2, <3>1
    <3>2. CASE input[c] # <<>>
      BY <2>0, <2>1, <3>2 DEF BodyMoves, FromBody
    <3> QED BY <3>1, <3>2
  <2>4. input[c] # <<>> => Len(input[c]) = req[c].bytes
    BY <2>1, <2>2 DEF HeaderRead, BodyMoves
  <2>5. ASSUME cgi[c] = "write", req[c].method = "POST", sent[c] >= head_length(req[c]),
               length_in(req[c], head_length(req[c])), c \in Failing => c \in faults
        PROVE  Len(input[c]) = req[c].bytes
    <3>1. posting(c) /\ Undisturbed(c)
      BY <2>5 DEF posting, lives, ended, Undisturbed
    <3> QED BY <2>0, <2>1, <2>5, <3>1 DEF HeaderRead, BodyMoves
  <2> QED BY <2>3, <2>4, <2>5
<1> QED BY <1>1, <1>2, <1>3, Inductive, PTL DEF Spec
=============================================================================
