-------------------------------- MODULE Tiny --------------------------------
(***************************************************************************)
(* The Tiny web server (tiny.c, adder.c): main() accepts connections and   *)
(* forks a worker for each, which reads the request in doit() and answers  *)
(* it.  For dynamic content the worker forks the CGI program, and for POST *)
(* first a writer that carries the body from its copy of the worker's Rio  *)
(* buffer to a pipe.  main() and the workers reap their children in the    *)
(* handler of SIGCHLD.                                                     *)
(*                                                                         *)
(* A request is a sequence of lines and body bytes, known by their places; *)
(* a response is the sequence of what was written to the client.           *)
(***************************************************************************)
EXTENDS Integers, Sequences, FiniteSets

CONSTANTS
    Client,
    server,             \* the process of main()
    MAXLINE,            \* the size of data and postdata
    MaxBytes,           \* bound: bytes of a body
    Request,            \* the requests of the instance
    Wants,              \* Wants[c]: what client c may ask for
    Failing             \* bound: whose connection may lose one process

\* dynamic and file say what parse_uri and stat() make of the URI.
Requests ==
    [method : {"GET", "HEAD", "POST", "PUT"},
     headers : Seq({"length", "other"}),
     bytes : 0..MaxBytes,
     dynamic : BOOLEAN,
     file : {"ok", "empty", "missing", "forbidden"}]

ASSUME TinyAssumption ==
    /\ IsFiniteSet(Client) /\ server \notin Client
    /\ MAXLINE \in Nat \ {0} /\ MaxBytes \in Nat /\ Failing \subseteq Client
    /\ \A r \in Request : r \in Requests
    /\ Wants \in [Client -> SUBSET Request]

VARIABLES
    main, connfd,               \* main(): where it is, whose connection it has
    backlog,
    client, req, sent,          \* clients; sent: how much of req was sent
    taken, used,                \* read() from the socket, used from rio_buf
    worker, writer, cgi,
    contentLength,
    data, pipe, input,          \* of the writer, in the pipe, read by the CGI
    out,                        \* what was written to the client
    sigchld, handling,          \* SIGCHLD pending for, and handler run by
    faults

connections == <<backlog, client, req, sent>>
stream == <<taken, used, contentLength>>
body == <<data, pipe, input>>
signals == <<sigchld, handling>>
vars == <<main, connfd, connections, stream, worker, writer, cgi, body, out, signals, faults>>

NoClient == server
Parent == Client \cup {server}

head_length(r) == Len(r.headers) + 2
total(r) == head_length(r) + r.bytes

ended == {"none", "zombie", "gone"}

\* What is written to a client, in one call each; "log" is what printf left.
Pieces == {"status", "type", "length", "page",      \* clienterror
           "header", "content",                     \* serve_static
           "part", "rest", "log"}                   \* worker, CGI

TypeOK ==
    /\ main \in {"accept", "close"}
    /\ connfd \in Client \cup {NoClient}
    /\ backlog \in Seq(Client)
    /\ client \in [Client -> {"out", "open", "closed"}]
    /\ req \in [Client -> Request]
    /\ sent \in [Client -> Nat] /\ taken \in [Client -> Nat] /\ used \in [Client -> Nat]
    /\ \A c \in Client : used[c] <= taken[c] /\ taken[c] <= sent[c]
    /\ worker \in [Client -> ended \cup {"head", "error", "static",
           "body", "dynamic", "fork", "post", "part", "forkPost", "exit", "spin"}]
    /\ writer \in [Client -> ended \cup {"read", "overrun"}]
    /\ cgi \in [Client -> ended \cup {"exec", "read", "write"}]
    /\ contentLength \in [Client -> 0..MaxBytes]
    /\ data \in [Client -> Seq(Nat)]
    /\ pipe \in [Client -> Seq(Nat)]
    /\ input \in [Client -> Seq(Nat)]
    /\ out \in [Client -> Seq(Pieces)]
    /\ sigchld \subseteq Parent /\ handling \subseteq Parent
    /\ faults \subseteq Client

Init ==
    /\ main = "accept" /\ connfd = NoClient /\ backlog = <<>>
    /\ client = [c \in Client |-> "out"]
    /\ req \in {f \in [Client -> Request] : \A c \in Client : f[c] \in Wants[c]}
    /\ sent = [c \in Client |-> 0]
    /\ taken = [c \in Client |-> 0] /\ used = [c \in Client |-> 0]
    /\ worker = [c \in Client |-> "none"]
    /\ writer = [c \in Client |-> "none"]
    /\ cgi = [c \in Client |-> "none"]
    /\ contentLength = [c \in Client |-> 0]
    /\ data = [c \in Client |-> <<>>]
    /\ pipe = [c \in Client |-> <<>>]
    /\ input = [c \in Client |-> <<>>]
    /\ out = [c \in Client |-> <<>>]
    /\ sigchld = {} /\ handling = {}
    /\ faults \in SUBSET Failing

-----------------------------------------------------------------------------
(* Processes and SIGCHLD.                                                   *)

lives(state) == state \notin ended
alive(p) == IF p = server THEN TRUE ELSE lives(worker[p])

zombies(p) == IF p = server
              THEN {c \in Client : worker[c] = "zombie"}
              ELSE {s \in {"writer", "cgi"} : (s = "writer" /\ writer[p] = "zombie")
                                              \/ (s = "cgi" /\ cgi[p] = "zombie")}

\* A child that ends is a zombie of its parent, or of init, which reaps it.
left_by(p) == IF alive(p) THEN "zombie" ELSE "gone"
tell(p) == IF alive(p) THEN sigchld \cup {p} ELSE sigchld
orphan(state) == IF state = "zombie" THEN "gone" ELSE state

\* The worker ends, by exit() or by a signal; its own children are orphans.
EndWorker(c) ==
    /\ worker' = [worker EXCEPT ![c] = "zombie"]
    /\ writer' = [writer EXCEPT ![c] = orphan(@)]
    /\ cgi' = [cgi EXCEPT ![c] = orphan(@)]
    /\ sigchld' = (sigchld \cup {server}) \ {c}
    /\ handling' = handling \ {c}

EndWriter(c) ==
    /\ writer' = [writer EXCEPT ![c] = left_by(c)]
    /\ sigchld' = tell(c)
    /\ UNCHANGED <<worker, cgi, handling>>

EndCgi(c) ==
    /\ cgi' = [cgi EXCEPT ![c] = left_by(c)]
    /\ sigchld' = tell(c)
    /\ UNCHANGED <<worker, writer, handling>>

\* A process runs its own code when its handler is not running.
runs(p) == alive(p) /\ p \notin handling

Deliver(p) ==
    /\ runs(p) /\ p \in sigchld
    /\ sigchld' = sigchld \ {p}
    /\ handling' = handling \cup {p}
    /\ UNCHANGED <<main, connfd, connections, stream, worker, writer, cgi, body, out, faults>>

Reaped(p, z) ==
    /\ worker' = IF p = server THEN [worker EXCEPT ![z] = "gone"] ELSE worker
    /\ writer' = IF p # server /\ z = "writer" THEN [writer EXCEPT ![p] = "gone"] ELSE writer
    /\ cgi' = IF p # server /\ z = "cgi" THEN [cgi EXCEPT ![p] = "gone"] ELSE cgi

children(p) == IF p = server THEN {c \in Client : worker[c] \notin {"none", "gone"}} ELSE {}

handler_Loop(p) == \* mutant: "while ((pid = waitpid(-1, NULL, 0)) > 0)"
    /\ p \in handling
    /\ \E z \in zombies(p) :
          /\ Reaped(p, z)
          /\ handling' = IF children(p) \ {z} = {} THEN handling \ {p} ELSE handling
    /\ UNCHANGED <<main, connfd, connections, stream, body, out, sigchld, faults>>

\* handler() reaps one child.  Without a zombie waitpid(-1, NULL, 0) blocks,
\* or fails and ends the process: HandlerFindsZombie excludes that.
handler(p) ==
    /\ p \in handling
    /\ \E z \in zombies(p) : Reaped(p, z)
    /\ handling' = handling \ {p}
    /\ UNCHANGED <<main, connfd, connections, stream, body, out, sigchld, faults>>

-----------------------------------------------------------------------------
(* main().                                                                  *)

\* Accept, Signal, and Fork of the worker.
Accept ==
    /\ runs(server) /\ main = "accept" /\ backlog # <<>>
    /\ connfd' = Head(backlog) /\ backlog' = Tail(backlog)
    /\ worker' = [worker EXCEPT ![Head(backlog)] = "head"]
    /\ main' = "close"
    /\ UNCHANGED <<client, req, sent, stream, writer, cgi, body, out, signals, faults>>

CloseConnfd ==
    /\ runs(server) /\ main = "close"
    /\ connfd' = NoClient
    /\ main' = "accept"
    /\ UNCHANGED <<connections, stream, worker, writer, cgi, body, out, signals, faults>>

-----------------------------------------------------------------------------
(* The worker: doit(), reading.                                             *)

Smaller(a, b) == IF a <= b THEN a ELSE b
at(c, place) == runs(c) /\ worker[c] = place

supported(r) == r.method \in {"GET", "HEAD", "POST"}

\* parse_uri, stat() and the choice of what to serve.
choice(r) ==
    CASE r.file \in {"missing", "forbidden"} -> "error"
      [] r.file \in {"ok", "empty"} /\ ~r.dynamic -> "static"
      [] r.file \in {"ok", "empty"} /\ r.dynamic /\ r.method # "POST" -> "dynamic"
      [] r.file \in {"ok", "empty"} /\ r.dynamic /\ r.method = "POST" -> "post"

Go(c, place) == worker' = [worker EXCEPT ![c] = place]

\* read_requesthdrs looks for Content-Length from the second line of the
\* header on: the first is only compared with "\r\n".
length_in(r, k) == \E i \in 2..Len(r.headers) : i + 1 <= k /\ r.headers[i] = "length"

\* read() fills rio_buf with all that is there, and Rio_readlineb takes the
\* lines from it.
ReadHead(c) ==
    LET r == req[c]
        k == IF supported(r) THEN Smaller(sent[c], head_length(r)) ELSE 1 IN
    /\ at(c, "head") /\ taken[c] < sent[c]
    /\ taken' = [taken EXCEPT ![c] = sent[c]]
    /\ used' = [used EXCEPT ![c] = k]
    /\ contentLength' = [contentLength EXCEPT ![c] =
           IF r.method = "POST" /\ length_in(r, k) THEN r.bytes ELSE 0]
    /\ Go(c, IF ~supported(r) THEN "error"
             ELSE IF k = head_length(r) THEN choice(r) ELSE "head")
    /\ UNCHANGED <<main, connfd, connections, writer, cgi, body, out, signals, faults>>

at_eof(c) == used[c] = sent[c] /\ client[c] = "closed"

\* At end of file Rio_readlineb answers 0, which nobody looks at, and leaves
\* buf as it is.  In the request line that is what was on the stack, in any
\* other line what came before it, so that "while (strcmp(buf, "\r\n"))" goes
\* on without end; in the first header line it is again what was on the stack.
HeadEof(c) ==
    /\ at(c, "head") /\ at_eof(c)
    /\ \E r \in (IF used[c] = 0 THEN Wants[c] ELSE {req[c]}) :
          /\ req' = [req EXCEPT ![c] = r]
          /\ \/ ~supported(r) /\ Go(c, "error")
             \/ supported(r) /\ used[c] <= 1 /\ Go(c, choice(r))
             \/ supported(r) /\ Go(c, "spin")
    /\ UNCHANGED <<main, connfd, backlog, client, sent, stream, writer, cgi, body, out, signals, faults>>

-----------------------------------------------------------------------------
(* The worker: doit(), answering.                                           *)

Write(c, piece) == out' = [out EXCEPT ![c] = Append(@, piece)]
answering == <<main, connfd, connections, stream, body, signals, faults>>

ErrorPage == <<"status", "type", "length", "page">>

clienterror_NoReturn(c) == \* mutant: the "return" after clienterror is missing
    /\ at(c, "error")
    /\ Write(c, ErrorPage[1 + (Len(out[c]) % 4)])
    /\ Go(c, IF Len(out[c]) = 3 THEN "static" ELSE IF Len(out[c]) > 3 THEN "exit" ELSE "error")
    /\ UNCHANGED <<answering, writer, cgi>>

\* Four calls of Rio_writen.
clienterror(c) ==
    /\ at(c, "error")
    /\ Write(c, ErrorPage[Len(out[c]) + 1])
    /\ Go(c, IF Len(out[c]) + 1 = Len(ErrorPage) THEN "exit" ELSE "error")
    /\ UNCHANGED <<answering, writer, cgi>>

\* serve_static: the header, and for HEAD nothing else.
StaticHeader(c) ==
    /\ at(c, "static")
    /\ Write(c, "header")
    /\ Go(c, IF req[c].method = "HEAD" THEN "exit" ELSE "body")
    /\ UNCHANGED <<answering, writer, cgi>>

\* Mmap of an empty file fails and ends the process.
StaticBody(c) ==
    /\ at(c, "body")
    /\ IF req[c].file = "empty" THEN UNCHANGED out ELSE Write(c, "content")
    /\ Go(c, "exit")
    /\ UNCHANGED <<answering, writer, cgi>>

\* serve_dynamic: the first part of the header, and for HEAD nothing else.
DynamicHeader(c) ==
    /\ at(c, "dynamic")
    /\ Write(c, "part")
    /\ Go(c, IF req[c].method = "HEAD" THEN "exit" ELSE "fork")
    /\ UNCHANGED <<answering, writer, cgi>>

ForkCgi(c) ==
    /\ at(c, "fork")
    /\ cgi' = [cgi EXCEPT ![c] = "exec"]
    /\ Go(c, "exit")
    /\ UNCHANGED <<answering, writer, out>>

\* post_dynamic: pipe() and Fork of the writer, then the first part of the
\* header, and Fork of the CGI.
ForkWriter(c) ==
    /\ at(c, "post")
    /\ writer' = [writer EXCEPT ![c] = "read"]
    /\ Go(c, "part")
    /\ UNCHANGED <<answering, cgi, out>>

PostHeader(c) ==
    /\ at(c, "part")
    /\ Write(c, "part")
    /\ Go(c, "forkPost")
    /\ UNCHANGED <<answering, writer, cgi>>

ForkPostCgi(c) ==
    /\ at(c, "forkPost")
    /\ cgi' = [cgi EXCEPT ![c] = "exec"]
    /\ Go(c, "exit")
    /\ UNCHANGED <<answering, writer, out>>

Exit_Wait(c) == \* mutant: "Wait(NULL)" besides the handler
    /\ at(c, "exit")
    /\ ~lives(cgi[c])
    /\ IF cgi[c] = "zombie"
       THEN cgi' = [cgi EXCEPT ![c] = "gone"] /\ UNCHANGED <<worker, writer, signals>>
       ELSE EndWorker(c)
    /\ UNCHANGED <<main, connfd, connections, stream, body, out, faults>>

\* The pipe is closed if there is one, Close(connfd) and exit(0).
Exit(c) ==
    /\ at(c, "exit")
    /\ EndWorker(c)
    /\ UNCHANGED <<main, connfd, connections, stream, body, out, faults>>

-----------------------------------------------------------------------------
(* The writer and the CGI program.                                          *)

need(c) == contentLength[c] - Len(data[c])
chunk(c) == Smaller(need(c), sent[c] - used[c])

ReadBody_Socket(c) == \* mutant: the socket is read, not what is left in rio_buf
    /\ writer[c] = "read" /\ need(c) > 0 /\ taken[c] < sent[c] /\ contentLength[c] <= MAXLINE
    /\ LET k == Smaller(need(c), sent[c] - taken[c]) IN
       /\ data' = [data EXCEPT ![c] = @ \o [i \in 1..k |-> taken[c] + i]]
       /\ taken' = [taken EXCEPT ![c] = @ + k] /\ used' = taken'
    /\ UNCHANGED <<main, connfd, connections, contentLength, worker, writer, cgi, pipe, input, out, signals, faults>>

\* Rio_readnb, with the copy of rio_buf that Fork made: what is left in it
\* comes first.
ReadBody(c) ==
    /\ writer[c] = "read" /\ need(c) > 0 /\ used[c] < sent[c]
    /\ LET k == chunk(c) IN
       /\ Len(data[c]) + k <= MAXLINE
       /\ data' = [data EXCEPT ![c] = @ \o [i \in 1..k |-> used[c] + i]]
       /\ used' = [used EXCEPT ![c] = @ + k]
       /\ taken' = [taken EXCEPT ![c] = IF used[c] + k > @ THEN sent[c] ELSE @]
    /\ UNCHANGED <<main, connfd, connections, contentLength, worker, writer, cgi, pipe, input, out, signals, faults>>

\* Rio_writen writes contentLength bytes, zeros where the client sent none,
\* and the writer exits.
WritePipe(c) ==
    /\ writer[c] = "read" /\ contentLength[c] <= MAXLINE
    /\ need(c) = 0 \/ at_eof(c)
    /\ pipe' = [pipe EXCEPT ![c] = data[c] \o [i \in 1..need(c) |-> 0]]
    /\ EndWriter(c)
    /\ UNCHANGED <<main, connfd, connections, stream, data, input, out, faults>>

\* Nobody compares contentLength with the size of data: Rio_readnb writes
\* beyond its end, or Rio_writen reads what is there.
Overrun(c) ==
    /\ writer[c] = "read"
    /\ \/ need(c) > 0 /\ used[c] < sent[c] /\ Len(data[c]) + chunk(c) > MAXLINE
       \/ at_eof(c) /\ contentLength[c] > MAXLINE
    /\ writer' = [writer EXCEPT ![c] = "overrun"]
    /\ UNCHANGED <<main, connfd, connections, stream, worker, cgi, body, out, signals, faults>>

\* What becomes of the writer then is undefined: rio lies on the same stack.
\* It ends, with or without having written contentLength bytes, zeros here
\* where it cannot be known which, or it never does.
Undefined(c) ==
    /\ writer[c] = "overrun"
    /\ \/ UNCHANGED pipe
       \/ pipe' = [pipe EXCEPT ![c] = data[c] \o [i \in 1..need(c) |-> 0]]
    /\ EndWriter(c)
    /\ UNCHANGED <<main, connfd, connections, stream, data, input, out, faults>>

\* Close, Dup2 and Execve.
Exec(c) ==
    /\ cgi[c] = "exec"
    /\ cgi' = [cgi EXCEPT ![c] = IF req[c].method = "POST" THEN "read" ELSE "write"]
    /\ UNCHANGED <<main, connfd, connections, stream, worker, writer, body, out, signals, faults>>

\* Who can still write to the pipe.
pipe_writers_Cgi(c) == \* mutant: "Close(pipe_fd[1])" is missing in the child
    {s \in {"worker", "writer", "cgi"} :
        \/ s = "worker" /\ worker[c] \in {"part", "forkPost", "exit"}
        \/ s = "writer" /\ lives(writer[c])
        \/ s = "cgi" /\ lives(cgi[c])}

pipe_writers(c) ==
    {s \in {"worker", "writer", "cgi"} :
        \/ s = "worker" /\ worker[c] \in {"part", "forkPost", "exit"}
        \/ s = "writer" /\ lives(writer[c])
        \/ s = "cgi" /\ cgi[c] = "exec"}

\* fgets(postdata, len+1, stdin).
postdata_there(c) == Len(pipe[c]) >= contentLength[c] \/ pipe_writers(c) = {}

CgiReads(c) ==
    /\ cgi[c] = "read" /\ postdata_there(c)
    /\ input' = [input EXCEPT ![c] = pipe[c]]
    /\ pipe' = [pipe EXCEPT ![c] = <<>>]
    /\ cgi' = [cgi EXCEPT ![c] = "write"]
    /\ UNCHANGED <<main, connfd, connections, stream, worker, writer, data, out, signals, faults>>

\* MAXLINE bytes and the null that ends them do not fit into postdata: that
\* may also be the end of the CGI.
CgiOverruns(c) ==
    /\ cgi[c] = "read" /\ postdata_there(c) /\ Len(pipe[c]) >= MAXLINE
    /\ pipe' = [pipe EXCEPT ![c] = <<>>]
    /\ EndCgi(c)
    /\ UNCHANGED <<main, connfd, connections, stream, data, input, out, faults>>

\* The rest of the header and the body, with one fflush, and exit(0).
CgiWrites(c) ==
    /\ cgi[c] = "write"
    /\ Write(c, "rest")
    /\ EndCgi(c)
    /\ UNCHANGED <<main, connfd, connections, stream, body, faults>>

-----------------------------------------------------------------------------
(* Clients and faults.                                                      *)

processes == <<main, connfd, stream, worker, writer, cgi, body, out, signals, faults>>

ClientConnects(c) ==
    /\ client[c] = "out"
    /\ client' = [client EXCEPT ![c] = "open"]
    /\ backlog' = Append(backlog, c)
    /\ UNCHANGED <<processes, req, sent>>

ClientSends(c) ==
    /\ client[c] = "open" /\ sent[c] < total(req[c])
    /\ sent' = [sent EXCEPT ![c] = @ + 1]
    /\ UNCHANGED <<processes, backlog, client, req>>

ClientCloses(c) ==
    /\ client[c] = "open"
    /\ client' = [client EXCEPT ![c] = "closed"]
    /\ UNCHANGED <<processes, backlog, req, sent>>

\* A wrapper's call fails, or a signal kills the process.  Writing to a client
\* that has closed does so however often it happens.
MayFail(c, writing) ==
    \/ c \in faults /\ faults' = faults \ {c}
    \/ client[c] = "closed" /\ writing /\ UNCHANGED faults

WorkerFails(c) ==
    /\ lives(worker[c]) /\ MayFail(c, worker[c] \in {"error", "static", "body", "dynamic", "part"})
    /\ EndWorker(c)
    /\ UNCHANGED <<main, connfd, connections, stream, body, out>>

WriterFails(c) ==
    /\ lives(writer[c]) /\ MayFail(c, FALSE)
    /\ EndWriter(c)
    /\ UNCHANGED <<main, connfd, connections, stream, body, out>>

\* adder.c also dies of a null pointer if it misses a '&' or '='.
CgiFails(c) ==
    /\ lives(cgi[c]) /\ MayFail(c, cgi[c] = "write")
    /\ EndCgi(c)
    /\ UNCHANGED <<main, connfd, connections, stream, body, out>>

\* Execve fails, and exit() writes the log lines that printf left in the
\* buffer to the standard output, which is now the client.
ExecFails(c) ==
    /\ cgi[c] = "exec" /\ MayFail(c, FALSE)
    /\ Write(c, "log")
    /\ EndCgi(c)
    /\ UNCHANGED <<main, connfd, connections, stream, body>>

-----------------------------------------------------------------------------

Server == Accept \/ CloseConnfd
Worker(c) ==
    \/ ReadHead(c) \/ HeadEof(c)
    \/ clienterror(c) \/ StaticHeader(c) \/ StaticBody(c)
    \/ DynamicHeader(c) \/ ForkCgi(c)
    \/ ForkWriter(c) \/ PostHeader(c) \/ ForkPostCgi(c) \/ Exit(c)
Writer(c) == ReadBody(c) \/ WritePipe(c) \/ Overrun(c)
Cgi(c) == Exec(c) \/ CgiReads(c) \/ CgiOverruns(c) \/ CgiWrites(c)
Handlers(p) == Deliver(p) \/ handler(p)
Clients(c) == ClientConnects(c) \/ ClientSends(c) \/ ClientCloses(c)
Fails(c) == WorkerFails(c) \/ WriterFails(c) \/ CgiFails(c) \/ ExecFails(c)

\* No client will do anything any more.
Done ==
    /\ \A c \in Client : client[c] = "closed"
    /\ UNCHANGED vars

Programs ==
    \/ Server
    \/ \E c \in Client : Worker(c) \/ Writer(c) \/ Cgi(c)
    \/ \E p \in Parent : Handlers(p)

Next == Programs \/ (\E c \in Client : Clients(c) \/ Fails(c) \/ Undefined(c)) \/ Done

Spec == Init /\ [][Next]_vars

\* The kernel runs a process whenever one can run.  More is not needed: each
\* takes a bounded number of steps.
Fairness == WF_vars(Programs)

FairSpec == Spec /\ Fairness

-----------------------------------------------------------------------------
(* Properties.                                                              *)

\* Whichever of the processes of a connection write, and whichever of them
\* fails on the way, the client gets the beginning of one response: the parts
\* of the header in their order, then the body.
Responses == {ErrorPage, <<"header", "content">>, <<"part", "rest">>, <<"part", "log">>}
ResponseInOrder ==
    \A c \in Client : \E s \in Responses :
        Len(out[c]) <= Len(s) /\ out[c] = SubSeq(s, 1, Len(out[c]))

\* The CGI reads a body that fits into postdata from its first byte on, although the
\* worker has some of it in its buffer and the writer reads the rest; zeros
\* take the place of bytes only if the client closed without sending them.
\* It reads all of it or nothing, and all of it if the header has come whole
\* with a Content-Length that is not in its first line, and no process of the
\* connection has failed.
CgiReadsBody ==
    \A c \in Client : LET r == req[c] IN r.bytes < MAXLINE =>
        /\ \A i \in 1..Len(input[c]) :
              \/ input[c][i] = head_length(r) + i
              \/ input[c][i] = 0 /\ client[c] = "closed" /\ sent[c] < head_length(r) + i
        /\ input[c] # <<>> => Len(input[c]) = r.bytes
        /\ (/\ cgi[c] = "write" /\ r.method = "POST"
            /\ sent[c] >= head_length(r) /\ length_in(r, head_length(r))
            /\ c \in Failing => c \in faults)
              => Len(input[c]) = r.bytes

\* handler() neither blocks main() or a worker in waitpid nor ends it because
\* there is no child: although signals merge, there is a zombie for each
\* handler that runs and another for each SIGCHLD that is pending.
HandlerFindsZombie ==
    \A p \in Parent : alive(p) =>
        Cardinality(zombies(p)) >= (IF p \in handling THEN 1 ELSE 0)
                                   + (IF p \in sigchld THEN 1 ELSE 0)

\* Who holds the connection open.
holders(c) ==
    {s \in {"main", "worker", "writer", "cgi"} :
        \/ s = "main" /\ (connfd = c \/ \E i \in 1..Len(backlog) : backlog[i] = c)
        \/ s = "worker" /\ lives(worker[c])
        \/ s = "writer" /\ lives(writer[c])
        \/ s = "cgi" /\ lives(cgi[c])}

\* The request is there, or its head and then the client's end of file, and
\* its body fits into data.
requested(c) ==
    /\ client[c] # "out" /\ req[c].bytes <= MAXLINE
    /\ \/ sent[c] = total(req[c])
       \/ sent[c] >= head_length(req[c]) /\ client[c] = "closed"

\* A connection with its request comes to its end: no process keeps it open or
\* waits on the pipe for ever, even if another one failed.  (What is requested
\* stays so, and so does a connection's end: "again and again" says that each
\* of them comes.  Where data has overrun, the writer may never end.)
ConnectionCloses == []<>(\A c \in Client : requested(c) => holders(c) = {})

\* main() is always ready again for the next connection, however slow or stuck
\* the connections before are.
MainIsReady == []<>(main = "accept" /\ server \notin handling)
=============================================================================
