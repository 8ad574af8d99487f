# A TLA+ development for csapp-exercise

The repository holds programs written along the book *Computer Systems: A
Programmer's Perspective*. Its README names two that matter: the shell with job
control (`shiyan.c`) and the Tiny web server (`网络编程/tiny.c`). Around them are
the book's library `csapp.c` (Rio and error-handling wrappers, the same file in
five directories), four echo servers, and exercises on signals, processes and
threads. This directory models these programs, checks the models with TLC and
proves theorems about them with TLAPS.

## 1. Inventory

| Part | State it keeps | Operations | What is hard | What makes it correct |
|---|---|---|---|---|
| **Job list** (`shiyan.c` 472-618) | `jobs[MAXJOBS]` of pid, jid, state; `nextjid` | `add_job`, `delete_job`, `fgpid`, `get_job_pid`, `get_job_jid` | job numbers are handed out again; the list may be full | a number means one job; lookups find what was added |
| **Shell** (`shiyan.c` 105-456) | the job list; the blocked SIGCHLD; `main()`'s place in `eval`, `do_bgfg`, `waitfg` | commands, fork/exec, the handlers of SIGINT, SIGTSTP, SIGCHLD | handlers interrupt `main()` and one another anywhere and change the list it is working on; SIGCHLDs merge; the child is not in its group yet | at most one foreground job, none at the prompt; every child is reaped; jobs change state as the comment says; the prompt comes back |
| **Rio** (`csapp.c` 525-717) | a read buffer per descriptor | `rio_readn`, `rio_writen`, `rio_readnb`, `rio_readlineb` | short counts, EINTR, end of file inside a line, mixing line and block reads | every byte is delivered once, in order unless `rio_readn` goes past a filled buffer; the count returned is the count stored |
| **Tiny** (`网络编程/tiny.c`, `adder.c`) | descriptors and pipes of parent, worker, writer and CGI processes | `doit`, `read_requesthdrs`, `serve_static`, `serve_dynamic`, `post_dynamic`, `handler` | three processes share a socket and a pipe; merged SIGCHLDs; clients that close early | one response per request, header before body; the pipe reaches end of file; the handler always has a child to reap |
| **Client pool** (`并发编程/servercon.c`) | `clientfd`, `clientrio`, `read_set`, `nready`, `maxfd`, `maxi` | `init_pool`, `add_client`, `check_client` | buffered lines against readable descriptors; the pool at its limit; a slow client | every line is echoed; a slot is one client; `nready` counts what is left |
| **Echo servers** (`echoserver.c`, `echofork.c`, `echoservert.c`) | descriptor tables of parent and children, `connfdp` and its block, a pending SIGCHLD | accept, fork or `pthread_create`, echo, close, reap | a connection has a descriptor in two processes; `connfd` is handed to a thread through memory; SIGCHLDs merge; clients that say nothing | one worker for a connection, which closes it everywhere; a block has one owner; nobody waits for a silent client of another; no zombie stays |
| **Exercises** (34 programs in `异常控制流习题/`, `系统级IO/`, `并发编程/` and at the top) | processes, masks, pending signals and handlers, jump buffers, alarms, descriptors and open files, threads, `stdout`'s buffer | what they call of Unix | merged and blocked signals, a handler that blocks, jumps out of handlers, timers against answers, who holds the end of a pipe, an unsynchronised counter | what they print, what is reaped, that they end |
| **Parser** (`fgets` in `main`, `parseline`) | the characters not yet read | lines in pieces, words | quotes and runs of blanks, lines longer than the buffer, end of file inside a line | the pieces are the input, the words those that were meant |

How the parts of the shell interact: `main()` and the three handlers share the
job list and nothing else; the kernel tells the shell of its children by SIGCHLD
and `waitpid`, and the shell acts on them with `kill` on process groups. There
is one thread, so the only concurrency is that of handlers interrupting, and of
child processes and the terminal acting between any two steps.

The hazards, each with its line and the properties that are about it, are listed
in `PROJECT.json`.

## 2. Plan

Order of the modules; those marked *done* are in this directory.

1. `JobTable` (operators), `JobTableSpec` (sequential machine), with lemmas and
   theorem in `JobTableProofs`: *done*.
2. `Kernel`, `Shell`, the abstract `JobControl` and the refinement
   `ShellJobControl`, the refuted comments in `ShellClaims`, and the theorems in
   `ShellProofs`: *done*.
3. `Rio` over a socket that delivers short counts, interruptions, end of file and
   errors, the abstract `ByteStream`, the refinement `RioStream`, and the theorems in
   `RioProofs`: *done*.
4. `ClientPool`: the select server with its pool and its clients; theorems in
   `ClientPoolProofs`: *done*.
5. `Tiny`: the web server's processes, sockets and pipe; `MCTiny`; theorems in
   `TinyProofs`: *done*.
6. `EchoServers`: the iterative, the forking and the threaded echo server, and the
   abstract `EchoService` that all three implement; theorems in `EchoServersProofs`:
   *done*.
7. `ExercisePrograms` and `Exercises`: 34 exercises as tables of instructions, and one
   small Unix that runs them; theorems in `ExercisesProofs`: *done*.
8. `ParseLine`: `fgets` and the two versions of `parseline`; theorems in
   `ParseLineProofs`: *done*.

Every module of the plan is written. Every safety invariant of a run and every refinement
is also a theorem, with one exception, which section 5 names.

## 3. Modules

`JobTable` translates the functions on the job list. A job pointer is an index of
`Slots`, the null pointer is `NULL`; the command line is payload and left out.
`JobTableSpec` runs `add_job` and `delete_job` in any order on a list that nobody
interrupts, with pids that come back; `lapped` is a history variable that records
that `add_job` has set `nextjid` back to 1.

`Kernel` is external: a child process as a record of its life
(`forked`, `grouped`, `running`, `stopped`, `zombie`, `reaped`), why it ended,
whether `waitpid` still has to report a stop, and the signals pending for it.

`Shell` is the program. `cur` is the context that runs, `main` or the handler of a
signal, and `ret[s]` is what handler `s` interrupted. A signal is blocked while its
own handler runs (`sa_mask` is empty and SA_NODEFER is not set), so each context
is active at most once and three program counters are enough: no stack is needed.
`arg[c]` and `slot[c]` are the pid and the job pointer that context `c` holds in
local variables. The steps:

| Code | Actions |
|---|---|
| `main`, `eval` | `ReadLaunch` (blocks SIGCHLD), `Fork`, `AddSlot`, `AddState`, `AddJid`, `WrapJid` (`add_job`, assignment by assignment), `Unmask`, `WaitFg`, `Quit` |
| `do_bgfg` | `ReadBgFg`, `ReadBadId`, `SetState`, `Cont`, `ContWait` |
| `sigchld_handler` | `ReapExited` and `ReapDelete`, `ReapInterrupted`, `ReapKilled`, `ReportStopped`, `NoneWaitable` |
| `sigint_handler` | `IntFg`, `IntDelete`, `IntKill` |
| `sigtstp_handler` | `StopFg`, `StopJob`, `StopSet`, `StopKill` |
| kernel, child | `Deliver`, `ChildSetpgid`, `ChildExec`, `ChildHandles`; external: `ProgExit`, `ProgTakes`, `ExtSignal`, `Key` |

`sigchld_handler` calls the other two handlers as functions; their actions take the
context as a parameter and `EndCall` returns to the loop or to what was
interrupted. A pointer that was never assigned (`fg abc`) is a choice among all
entries and a crash. `Kill` fails, and ends the shell, when the process group does
not exist. A few lines that no signal can tell apart are one step: the lookup of
`do_bgfg`, `delete_job` with its update of `nextjid`, the scan of `fgpid`.

`JobControl` is what the comment on job states (`shiyan.c` 36-44) promises;
`ShellJobControl` maps the list to it: the job of a pid has the state of its
entry, and an entry that has a pid but not yet a state is not a job.

`Rio` is one connection: a peer that calls `rio_writen`, the bytes between the two
ends, and a reader that calls `rio_readlineb`, `rio_readnb` and `rio_readn` in any
order on one `rio_t`. A byte is its place in the stream, and `nl` says which are
newlines. `rio_cnt`, `rio_bufptr` and `rio_buf` are the fields of `rio_t`; `Refill` is the `read` in `rio_read`, `TakeByte` and `TakeBlock` are the
rounds of the loops of `rio_readlineb` and `rio_readnb`, `ReadDirect` is the loop of
`rio_readn`, which reads the descriptor whatever `rio_buf` holds. Each `read` and
`write` may transfer any part of what it could, or be interrupted; a failing call ends
the process, as the wrappers do. `given` (what callers got) and `skipped` (a `rio_readn`
was called while bytes were in the buffer) are history variables: until `skipped`
callers get the bytes in the order of the stream, and from then on only each byte
once, because the code lets `rio_readn` overtake the buffer. `ByteStream` is what a
caller may believe: bytes are fetched ahead for calls that take a line or n bytes of
them, and a direct call takes what comes after them; each gets fewer only at the end.
`RioStream` maps one to the other; what a buffered call in progress has stored still
counts as fetched ahead.

`ClientPool` is `servercon.c`: `main` (`Select`, `Accept`), `add_client` and
`check_client`, the latter slot by slot (`Skip`, `Serve`, and inside `rio_readlineb`
`Read` and `ReadCut`, then `Echo` or `Remove`). The variables of `pool` are the
fields of the C struct, except `clientrio`: after `add_client` it is copied and never
assigned, so that it stays empty, and what `read` brings into the copy beyond the end
of the line is lost (`Read` takes it from the socket, counts it in the history
variable `received`, and keeps only the line). A client is either
`echoclient.c` (`Connect`, `SendLine`, `ReadEcho`, `CloseEnd`) or one that sends
bytes as it likes. Descriptors are numbers, `accept` takes the least free one, and
fails when there is none. `usable` are the numbers below the limit that are not taken when
the server starts. `read_set` has a bit for each number below `FD_SETSIZE`, and the limit
may be above that: `Overrun` is the `FD_SET` of a descriptor that has none, after which
the server is `undefined` and nothing is said of it.

`Tiny` is the web server: `main()` and, for each client, up to three processes, the
worker (`doit`), the writer of a POST body and the CGI program. A request is its
method, the lines of its header, its body and what `parse_uri` and `stat` say of the
URI; bytes and lines are known by their places. `sent`, `taken` and `used` count what
the client sent, what `read` took and what was consumed from `rio_buf`, so
`taken - used` is what Fork copies into the writer. `data` of the writer and `postdata`
of the CGI hold `MAXLINE` bytes, and nobody compares `Content-Length` with that. A body
that is longer than `data` overruns it (`Overrun`), and what the writer does then is
undefined: it fills the pipe or not and ends, or it never ends (`Undefined`). A body that
does not fit into `postdata` with the null byte may end the CGI (`CgiOverruns`).

| Code | Actions |
|---|---|
| `main` | `Accept` (with Fork), `CloseConnfd` |
| `doit`, `read_requesthdrs`, `parse_uri` | `ReadHead`, `HeadEof` |
| `clienterror`, `serve_static` | `clienterror`, `StaticHeader`, `StaticBody` |
| `serve_dynamic` | `DynamicHeader`, `ForkCgi` |
| `post_dynamic` | `ForkWriter`, `PostHeader`, `ForkPostCgi`; in the writer `ReadBody`, `WritePipe`, `Overrun`, `Undefined` |
| `exit`, `handler` | `Exit`, `Deliver`, `handler` |
| child of `serve_dynamic`, `post_dynamic`; `adder.c` | `Exec`, `CgiReads`, `CgiOverruns`, `CgiWrites` |
| wrappers | `WorkerFails`, `WriterFails`, `CgiFails`, `ExecFails` |

A child that ends becomes a zombie and makes SIGCHLD pending for its parent, `main()`
or the worker, once however many end. `handler` runs `waitpid` once.

`EchoServers` is three programs in one module, for they differ only in who serves a
connection: `program` says which one runs. `table` holds a descriptor table for each
process (threads use that of `main()`), `heap` the blocks of `malloc`, `conn` each
client's connection, and `worker[w]` what the child, the thread or the call of `echo`
number `w` is doing. A step is one system call or one access to memory that is shared.

| Code | Actions |
|---|---|
| `main` of all three | `Open_listenfd`, `Accept`, `AcceptFails`; `Serve` (iterative) |
| `echofork.c` | `Fork`, `CloseConnfd`; in the child `CloseListenfd`, `Exit`; `Deliver` and `Reap` for `sigchld_handler` |
| `echoservert.c` | `Malloc`, `Pthread_create`; in the thread `Fetch`, `FreeBlock` |
| `echo`, the rest of child and thread | `Gethostbyaddr`, `Read`, `Write`, `CloseWorker` |
| wrappers | `CallFails` (`ServerEnds`), `WorkerFails` |
| clients | `Connect`, `Send`, `Hangup` (in order, or with echoes unread: reset) |

A failing call in a thread, or in the iterative server, ends the process for all, a
child ends alone: that is `isolated` in `EchoService`. That service has no processes
and no descriptors: connections are admitted, each line comes back once, and a
connection is closed after its client has ended and every line is echoed.

`ExercisePrograms` has a sequence of instructions for each exercise. An instruction is
a tuple of the line in the source file, the operation and its arguments; jumps name
lines. `Exercises` is the machine: `proc[p]` has the place in the program, the
variables, the frames of handlers that run, mask, pending signals and handlers,
descriptors, alarm, `atexit` function, jump buffer, and the texts in `stdout`'s buffer.

| Operations | Actions |
|---|---|
| jumps, loops, counters | `Control` |
| `fork`, `execve`, `waitpid`, `exit`, crashes | `Fork`, `Execve`, `Waitpid`, `Exit`, `Crash` |
| `kill`, `signal`, `sleep`, `pause`, `alarm`, handlers | `Kill`, `Signal`, `Sleep`, `Alarm`, `AlarmRings`, `Deliver`, `Return` |
| `sigsetjmp`, `siglongjmp` | `Setjmp`, `Leave` (its function returns), `Longjmp` |
| `open`, `pipe`, `close`, `dup2`, `read`, `write`, `mmap`, `stat` | `Open`, `Pipe`, `Close`, `Dup2`, `Read`, `Write`, `Mmap`, `WriteFile`, `Stat` |
| `printf`, `fgets`, the terminal | `Put` (no end of line), `Say`, `Fgets`, `ReadTerminal`, `CtrlC` |
| threads | `Pthread_create`, `Pthread_join`, `Pthread_exit`, `Load` and `Store` (`++cnt`) |

The texts that an exercise prints are known by their lines, so that the screen is a
sequence of writer, line and number. A signal that is pending and not blocked is taken
before the next instruction; a call that it interrupts is made again, except `pause` and
`sleep`. Undefined behaviour is a choice: `siglongjmp` without `sigsetjmp`, or into a
function that has returned, crashes or (the latter) lands in what is left of the frame.

`ParseLine` follows the characters typed at a shell through `fgets`, which takes at most
`MAXLINE - 1` of them, and `parseline`, which blanks the last and cuts words: `quoted` for
`shiyan.c`, `plain` for `eval.c` and `8_26shiyan.c`. The loop over the line is a
recursive function of the place in it. `had` and `ends` are history variables: the
characters that `eval` was given so far, and where in them a piece ended.

The operators marked *mutant* are plausible mistakes in the code (SIGCHLD not
blocked, `if` for `while`, ...). They are used by no specification; each is
there to show that the property named in `PROJECT.json` fails if the code has it.

## 4. Runs

| Run | Instance | Question |
|---|---|---|
| `job_table` | 4 entries, 4 pids, numbers up to 5 | are job numbers distinct until `nextjid` is first set back? |
| `shell` | 2 entries, 2 children, one key press, one outside signal | the safety invariants and the refinement of `JobControl`, at every interleaving |
| `shell_live` | 1 entry, 2 children, one key press, one outside signal | zombies are reaped, the prompt comes back; the second job meets a full list |
| `rio` | 4 bytes, socket and read buffer of 2 bytes, requests of 2 and 3 bytes, one interruption | each byte once, in order as long as no unbuffered read goes past the buffer, the refinement of `ByteStream` for every mix of calls, no end waits for ever |
| `pool` | 2 clients, any of the descriptors 4, 5 and 6, `FD_SETSIZE` 6, read buffer of 2 bytes, lines up to 3, 3 bytes sent | pool, select and `nready` agree; is the pool ever full; who gets which echo, and who waits for whom |
| `tiny` | 2 clients, 12 kinds of request, bodies of 1 to 4 bytes for arrays of 3, one failing process | order of the response, the body through the pipe, SIGCHLD, the end of each connection; does a body that is too long reach further than its writer and its CGI? |
| `echo_servers` | 2 clients, 2 lines each, limits of 5 and 6 descriptors, all three programs | who serves and closes which connection, the refinement of `EchoService`, who waits for whom |
| `exercises` | 34 programs, each with 0 to 3 forks that succeed, 2 lines typed | what each exercise can print, lose and leave behind, and that it ends |
| `parse_line` | lines of up to 4 characters, or of up to 3 words, 8 characters for a piece | `fgets` and `parseline` against what was typed and what was meant |
| `claim_*` | the smallest instance that shows it | one comment each that the code does not keep |

What each property of the passing runs is about is said above its definition. In short:

* job list: `DistinctJidsInFirstLap`;
* shell: `NoForgottenChild` (a child `waitpid` would return is never left without a
  pending SIGCHLD or a running handler), `AtMostOneForeground`, `NoForegroundAtPrompt`,
  `ExitedJobLeavesList` (why SIGCHLD is blocked around `add_job`),
  `ImplementsJobControl`, `ZombiesAreReaped`, `ForegroundReturns`;
* Rio: `InOrder`, `ZeroMeansEof`, `CountIsLength`, `ImplementsByteStream`, `BytesArrive`
  (and `rio_writen` returns);
* pool: `PoolAgrees` (and the pool is never full, since it has more slots than there are
  descriptors with a bit in `read_set`), `EveryReadyIsServed`, `WaitsOnlyInsideLines` (the server blocks
  only for a client that has sent half a line), `EchoIsTheLine` (and clients that
  wait for their echoes are counted right and bring nothing down), `EchoReturns`;
* Tiny: `ResponseInOrder`, `CgiReadsBody`, `HandlerFindsZombie`, `ConnectionCloses`,
  `MainIsReady`;
* echo servers: `OneWorkerPerConnection` (and one user of the block that hands it over),
  `NoStrayDescriptor`, `ImplementsEchoService`, `ConnectionCloses`, `LinesComeBack`, `NobodyWaitsForOthers`
  (of the forking and the threaded server), `ChildrenAreReaped`;
* exercises: `OutputIsPossible`, `NoLostChild` (a merged signal loses no child where
  the handler loops, and one `waitpid` for each call always finds one),
  `MaskOnlyInHandlers` (`siglongjmp` restores the mask), `ChildrenAreKnown` (at the
  prompt, at the next fork and at the end), `EachThreadItsMessage`, `ExerciseEnds`;
* parser: `PiecesAreTheInput`, `WordsAreMeant`.

`TypeOK` is a property of `shell` and `rio`. For the job list, the pool and Tiny it is a
theorem (section 5) and not run again; in `EchoServers`, `Exercises` and `ParseLine` it is
the first part of `NoStrayDescriptor`, `MaskOnlyInHandlers` and `PiecesAreTheInput`.

**Bounds.**

* Shell: `Pid` bounds how often the shell forks: pids are not used again in `Shell`. Two
  children are the least for one job's event to reach another's entry; with `MAXJOBS` 1
  the second meets a full list. `MaxKeys` bounds ctrl-c and ctrl-z, `MaxExt` the signals
  from elsewhere (kill, terminal reads); one of each suffices for every handler to run
  inside every other. The number of commands is not bounded. `MaxJid` in `JobTableSpec`
  stops adding when `nextjid` exceeds it: the code lets numbers grow without limit, and 5
  is past the first lap of a list of 4.
* Rio: `Total` bytes are sent, `Cap` fit in the socket, `RIO_BUFSIZE` in the read buffer,
  `MaxIntr` bounds interruptions. The buffer is smaller than the longest line and than a
  request, so that lines and blocks span refills, and the socket smaller than the
  stream, so that the writer has to wait. `maxlen` 1 would read nothing and is left out.
* Pool: `MaxSent` bounds what a client sends, `FD_SETSIZE` and `OPEN_MAX` the
  descriptors; with two clients the descriptor of one that left is used again by the
  other, while `maxi` and `maxfd` still count it. `MAXLINE` 3 lets a line be cut. Which
  of the three descriptors are free is chosen in `Init`: with 4 and 5 both clients are
  served, with fewer one waits or `accept` fails, and 6 has no bit in `read_set`, so that
  the connection that gets it meets `Overrun`.
* Tiny: each client asks once. The first asks anything, the second for a header only: it
  is there to be served while the first is stuck, and for its SIGCHLD to merge with that
  of the first. `Failing` bounds failures to one process of the first connection, apart
  from writes to a client that has closed, which may fail always. A body of two bytes can
  be split between `rio_buf` and the socket, or cut. `MAXLINE` is 3: two
  bytes are the most that fits, a body of three overruns `postdata` and one of four `data`,
  too. With these two `MCSpec` lets no other process fail, for what `Undefined` and
  `CgiOverruns` do is failure enough.
* Echo servers: with a limit of 5 descriptors one connection is all there is room for, and
  with 6 two. `MaxLines` bounds what a client sends; a client comes once.
* Exercises: `MaxPid` bounds the processes and threads of an exercise, `forks` how many of
  its forks succeed: it is chosen in `Init`, so that every fork is also seen to fail. Three
  children are what `signal1.c` to `signal3.c` make; the loops of `promask1.c`, `eval.c` and
  `8_26shiyan.c` meet the limit. `MaxTyped` bounds lines and ctrl-c, `FileSize` the bytes
  of a file that is read. `Passes` is how often `restart.c` goes round before only signals
  are taken, `testthread.c` makes two threads for ten, and a host of `hostinfo.c` has one
  alias and one address.
* Parser: `MaxLength` bounds lines of any characters, `MaxWords` lines written word by
  word; `MAXLINE` 9 is less than the longest of them, so that a line comes in pieces.

Deadlock is checked in the runs on the job list, the shell, Rio, the pool and Tiny; in
the other three the programs end, or nobody types any more. `Ended` in `Shell` is the shell that has
ended, and `Done` in `Tiny` says that no client does anything any more; both stutter.

**Fairness.**

* Shell: weak fairness of the shell's own steps and of each child's: the scheduler runs
  them. Strong fairness of the delivery of a signal: `eval` blocks SIGCHLD again and
  again, and a signal that is pending when `sigprocmask` unblocks it is delivered before
  that call returns. Nothing is assumed of the user, of the programs, or of others who
  send signals: a program may run for ever and ignore every signal.
* Rio: weak fairness of writer and reader, and that the reader goes on to read lines;
  nothing of the peer's closing.
* Pool: weak fairness of the server and of `ReadEcho` of each `echoclient.c`, nothing of
  what clients send or whether they close.
* Tiny: weak fairness of the programs as a whole. Each of them takes a bounded number of
  steps for a client, so that this is all that is needed, and less than a fair scheduler
  gives. (A worker in the endless loop of `read_requesthdrs`, `spin`, takes no step.)
  Nothing is assumed of `Undefined`: a writer whose `data` has overrun may never end.
* Echo servers: weak fairness of `main()`, of the handler and of each worker; nothing of
  the clients, and no call has to fail.
* Exercises: weak fairness of each process and thread and of its alarm; nothing of what is
  typed. Commands that a shell runs end, as programs do that anybody waits for.
* Parser: weak fairness of the one process.

**Findings.** Each is a run that refutes a comment, quoted in `PROJECT.json`: `fg` on a
job that ends at that moment hangs the shell in `waitfg(0)` (`FgWaitsForItsJob`); a
background job that stops makes the foreground job a stopped one
(`ForegroundStopsForCause`); one ctrl-c may end two jobs (`OneJobPerKey`).

Also in the models, without a statement that they contradict: a client of Tiny that
closes inside the header leaves a worker in the loop of `read_requesthdrs` (`spin`);
`Content-Length` in the first line of the header is not seen, and the CGI gets no body; a
body of more than `MAXLINE` bytes overruns the writer's `data`, and one of `MAXLINE` bytes
the `postdata` of the CGI, so that a connection may never be closed;
HEAD for dynamic content never ends the header; of two children whose SIGCHLDs merge one
stays a zombie. `main()` of the shell does not wait for the child's `setpgid`; if a
handler meets a job without group or one just reaped, `Kill` ends the shell. Once
`nextjid` is set back two jobs may have the same number (`lapped` in `JobTableSpec`). The
select server drops what it read beyond a newline. It never says "Too many clients": with
descriptors above `FD_SETSIZE` it first sets a bit outside of `read_set`. A line that is cut is counted one byte
too long, and the echo servers send the null byte behind it (`CountIsLength`). `8_26shiyan.c`
sets a handler for SIGKILL, which fails and ends that shell at its first command, while
the command runs. A child of `promask1.c` that ends before `addjob` stays in the job list
for ever. `8_25.c` does not cancel its alarm, which may jump into `tfgets` after it has
returned. In `sharing.c` an increment may be lost. `unix_error` ends a process through
`exit(0)`, so that the child of `exam3.c` whose second fork fails prints its `2` alone. `statcheck.c` prints the owner's right
to write as the right to read. A last line without its end is not run by the shells.

## 5. Proofs

All theorems hold for every value of the constants that satisfies the named
assumptions: `JobTableAssumption` (the list has at least one entry, pids are positive
integers), `BoundAssumption` and `MaxJidAssumption` (the bounds are natural numbers),
`RioAssumption` (sizes are positive, bounds natural numbers), `PoolAssumption` (a
finite set of clients, sizes positive, `read_set` has a bit for the listening descriptor;
nothing about how `OPEN_MAX` compares with `FD_SETSIZE`), `TinyAssumption` (a finite set
of clients, none of which is `main()`; `MAXLINE` is positive; requests as `Requests`
describes them), `EchoAssumption`
(a finite set of clients; the marks for a free entry and for the listening socket are two
and no clients), `ExercisesAssumption` (at least one process, bounds natural numbers) and
`ParseLineAssumption` (a buffer of at least two characters, bounds natural numbers). The bounds are bounds of TLC only: the theorems hold for any of them.

* `JobTableProofs`, its lemmas: what the loops over the list return. `Min` and `Max` are CHOOSE
  expressions, so that a least and a greatest element exist is proved first, from
  the well-foundedness of the natural numbers; `MaxJidBounds`, `GetJobPidFinds`,
  `FgpidFinds` and `DeleteClears` are what the theorems cite.
* `JobTableProofs!JobNumbersAreDistinct`: `TypeOK /\ DistinctJidsInFirstLap` of the
  sequential list. Distinct numbers are not inductive: the invariant adds that in the
  first lap `nextjid` is above every number of the list, which `add_job` keeps by
  `nextjid++` and `delete_job` by `max_jid(jobs)+1`.
* `ShellProofs!TypeCorrect`: `TypeOK` of the shell. It needs `PointerHeld`, that
  `main()` holds a pointer into the list wherever it uses one. One lemma per handler
  and per part of `main()`; the frame lemmas (`EnvironmentFrame`, `DeliverFrame`,
  `HandlerFrame`, `MainFrame`) say who leaves what alone and serve the other theorems.
* `ShellProofs!NoChildIsForgotten`: `NoForgottenChild` is inductive with the types.
  Whatever makes a child waitable also sends SIGCHLD, and the handler leaves its loop
  only when no child is waitable.
* `ShellProofs!OneForeground` and `PromptWithoutForeground`, from the
  invariant `ForegroundInv`. Its heart is `ForegroundHeld`: a foreground entry is the
  one `main()` points to, `main()` is between the assignment of the state and the end
  of `waitfg`, and in `waitfg` it waits for the pid of that entry. To keep it over
  `add_job` the entry must not lose its pid between the first two assignments
  (`EntryKept`). That is so because SIGCHLD is blocked (`Masked`) and because
  `sigint_handler` and `sigtstp_handler`, which are not, change an entry only after
  `fgpid` found one in the foreground (`FoundForeground`), and there is none. That no
  handler is in the middle of its work when `main()` moves on is `Nested`: the active
  handlers form a chain from `main()` to the running context.
* `ShellProofs!NoJobOfAnExitedProcess` and `ShellImplementsJobControl`, from
  `ListInv`, which adds `ListParts` to `ForegroundInv`. `OwnEntry` says that no two entries
  are of one process; `add_job` keeps it because its argument is a new child (`NewChild`)
  and no entry is of a process that was never forked (`ForkedFirst`). The new child cannot
  have been waited for either, since SIGCHLD is blocked (`Masked`), so an exited job is
  not added after it was deleted (`ExitedGone`). `StopHeld` says what `sigtstp_handler`
  may still assume of the job it found when it stores `ST`: it is in the foreground, or
  another handler has stopped or deleted it. For the refinement `SeenNow` shows that the
  entry of a process is the job `JobControl` sees; then `AddState` is a launch, `SetState`
  is `Fg`, `Bg` or a stutter, the deletions are `Remove` or stutters, `StopSet` is `Stop`
  or a stutter, and every other step changes no job.

* `RioProofs!TypeCorrect`, `BytesInOrder` and `ZeroOnlyAtEnd`, from `RioInv`: each byte
  that was read was given or is in the buffer, and the numbers of both add up to what was
  read, so none is in both; until `skipped` what was given, what is in the buffer and what
  is in the socket are, one after the other, what was written; a call in progress has
  stored nothing past a newline.
* `RioProofs!AnswersCountBytes`: `CountIsLength`, from `RioInv`: while `rio_readlineb` runs,
  `n` is one more than it has stored and no newline is among that, and what is left of a
  block is what was asked for without what is stored.
* `RioProofs!RioIsByteStream`: the step that returns from a call is a step of
  `ByteStream`, a `read` into the buffer (and a failing `rio_readn`) is its `Fetch`, and all
  others are stutters. Needs `RioInv`, and nothing about the order of the calls.
* `ClientPoolProofs!TypeCorrect`, `PoolIsConsistent` and `AllReadyServed`, from
  `PoolInv`. Besides `Agree`, the first five parts of `PoolAgrees` at every `pc`, it says that different slots have
  different descriptors and each belongs to one connection (`Connections`), that `nready`
  is the number of ready descriptors not yet served (`Counted`), and that a line being
  read is shorter than `MAXLINE` (`LineOpen`). That a client which is accepted finds a slot
  needs `Marked`, too: each descriptor in the pool has a bit in `read_set`. Such
  descriptors are above the listening one and below `FD_SETSIZE`, different slots have
  different ones, and there are `FD_SETSIZE` slots (`SlotsLeft`).
* `ClientPoolProofs!NeverWaitsBeforeALine`: `WaitsOnlyInsideLines`. Besides `PoolInv` it
  needs `HasInput`: a ready slot that `check_client` has not come to, or has just come to,
  has bytes or a closed client. What is done for the slots before it takes nothing from
  it, since no two have the same descriptor.
* `ClientPoolProofs!EveryEchoIsTheLine`: `EchoIsTheLine`, about clients that wait for each
  echo. `LineOf` says where the line of such a client is: what the server has in hand and
  what is still in the socket make it up, or all of it is on the way back. So the copy of
  the read buffer holds nothing beyond the line when it is dropped; that `read` may bring
  any part of it, and that it is complete with its last byte only, is the lemma
  `ReadsOfTheLine`. `Conserved` is `byte_cnt` against the bytes received. `Safe` says that
  echo clients that are not more than the descriptors with a bit in `read_set` never end
  the server: no write fails, because such a client does not close while it waits, and
  `accept` finds such a descriptor (`RoomForOneMore`, by counting).
* `TinyProofs!TypeCorrect` and `ResponseWrittenInOrder`, from `TinyInv`: `Written` says for each place of
  the worker what has been written by then, that the CGI is there only after the worker
  has written its part and has nothing more to write, and `Connected` that a connection
  in the backlog has no worker, so that Accept begins with an empty response.
* `TinyProofs!HandlerAlwaysReaps`, from `ReapInv`: each parent has a zombie for the
  handler that runs and another for a pending SIGCHLD. A child that ends adds one of
  each at most, and the handler takes one of each. It needs `Quiet`, that nothing is
  pending for a worker that has not begun, because its number of zombies is then 0.
* `TinyProofs!CgiReadsWholeBody`: `CgiReadsBody`, from `BodyInv`. `HeaderRead` says what
  the worker knows of the request when it forks: how long the body is, and that what
  `rio_buf` has beyond the header is body. `BodyMoves` says where each byte of the body is
  after that: still to be read, in the writer's buffer, in the pipe or with the CGI, whole
  and in order. `Undisturbed` marks the connections in which no process has failed for any
  other reason than a reader that is gone; in these the writer does not end before the
  pipe has the body. `Fits` excepts the bodies that are longer than `data`, of which
  only the lengths are known; `WriterBody` shows that no other body overruns it.
* `EchoServersProofs`: the four theorems rest on `EchoInv`. `Places` says which part of the
  code each of the three programs can be in. `Counted` says that one worker was made for
  each accepted connection, so that worker numbers do not run out. In `Blocks` each
  allocated block is used by one worker, or by `main()` on its way to `pthread_create`; as
  there is a block more than workers, `malloc` finds one (by the pigeonhole principle).
  `Descriptors` is the heart: a worker that works has a connection open, in its own table
  or in that of `main()`, no two have the same, and every entry that is a connection is a
  worker's or is the one `main()` has just accepted. `Lines` says what a worker has read
  and echoed, and that the parent of a child closes its copy while the child has the
  connection or after the child was allowed to end.
  - `EachConnectionHasOneWorker` and `NoDescriptorIsLeft` follow from it, as does
    `TypeCorrect`.
  - `EchoServersImplementEchoService`: by `HeldBy` a connection is open in the sense of
    `EchoService` while `main()` or a worker has it, so that a step that moves it between
    them is a stutter. The last of them to leave is `Finish`, `Write` is `Echo`, `Accept` is
    `Admit`, and the end of the server is `Stop`, which cuts off the connections of threads,
    but of child processes' only the one not yet forked for.
* `ExercisesProofs`: the 34 programs are data, so what they are like is shown first,
  instruction by instruction, in lemmas that the other proofs cite (`ProgramsGoOn`,
  `ProgramsJump`, `ProgramsTyped`, `ProgramsBegin`; for some of the exercises
  `ProgramsReap`, `ProgramsTell`, `ProgramsKnow`): jumps go to lines that exist,
  `main()` and the handlers share no instruction, who forks, waits or prints where.
  - `MasksAreRestored`: `MaskOnlyInHandlers`, from `MachineInv`. `Nested` says that the
    outermost frame of a handler was put there by `main()` with no signal blocked, and
    `Installed` that a jump buffer that is set was set in `main()`, with the mask that
    `main()` has. The other theorems use `MachineInv` for types.
  - `NoChildIsForgotten`: `NoLostChild`, from `FamilyInv`. `Accounted` relates zombies,
    the pending SIGCHLD and the handler that will ask (`Asking`). Where the handler loops,
    a zombie means that one of the two is there. Where it calls `waitpid` once
    (`signal1.c`), each of the two means a zombie, and both at once mean two, so that a
    call finds one.
  - `EachThreadPrintsItsNumber`: `EachThreadItsMessage`, from `ThreadsInv`. No two threads
    that have still to print have the same number, nor one that has been printed
    (`ToldApart`); the number that `main()` is at is the greatest (`Creating`). `Counts` is
    about `sharing.c`: the count is 0 only while no thread has stored, so that an
    increment may be lost to another, but not both.
  - `ChildrenStayKnown`: `ChildrenAreKnown`, from `KinInv`. A child runs its own part of the
    program, or a command, and only its own crash sends it a signal (`KidOf`). The first
    process is in `main()` or in its one handler, which is set for every signal that can
    come (`FirstOf`), so that none ends it early. A child that is left is one it has
    announced or listed, or the one in its variable `child`, between the fork and the
    `waitpid` or the announcement (`known`). What `waitpid` returned is gone, so that
    deleting it from the list forgets nobody.
* `ParseLineProofs!PiecesAreTyped`: `PiecesAreTheInput`, from `InputInv`: what `eval` was
  given (`had`), the piece in `cmdline` and what is still to be read are, one after the
  other, what was typed; the piece in hand ends where `fgets` has to stop and nowhere
  before (`Piece`), so that behind what ended with a piece it ends the next one where an
  end has to be (`Cuts`, `PieceCuts`).
* `ParseLineProofs!WordsAreRun`: `WordsAreMeant`. The loop over the line is a recursive
  function of the place in it. That it exists, and what it yields, would be induction over
  the line; it is shown by the least place, or the last, at which it would be otherwise,
  which exists since the natural numbers are well-founded (`LeastIsFirst`). For the
  plain version each place where a word begins is counted once (`WordsFromNext`). For the
  quoted one the line is followed word by word: after the word that was typed next,
  the loop is at the blank behind it (`WordsOfALine`).

Only model-checked: the liveness properties, since TLAPS 1.4.5 has no reasoning about
fairness and ENABLED; and of the safety invariants `OutputIsPossible`. That is a table
of what twenty small programs print, each with reasons of its own, and running each
program in every order finds it out. A proof would be as many separate proofs, with an
invariant for each program, and these programs make as many processes as their text says:
there is no number for a theorem to be general in, except what is typed at `restart.c` and
the bytes of the file that `cpfile.c` and `mmapcopy.c` copy.

## 6. What is not modelled

In the shell: output (prompts, messages, the commands `jobs` and `echo`, `verbose`), the
contents of command lines beyond `ParseLine`, and `dup2`. `printf` in handlers is
therefore not examined. `ParseLine` takes `argv` to be large enough: with `MAXARGS` 128 and
`MAXLINE` 1024 of `shiyan.c` a line of more than 127 words is not. Pids come back only in
`JobTableSpec`. The stop signals are one signal. In the pool the sockets take whatever is
written, in Tiny and in the echo servers clients read what they are sent: `rio_writen`
that blocks is examined in `Rio` alone. In Tiny `Accept` and `Fork` of `main()` succeed,
nobody stops a process, `Content-Length` is the length of the body, and the body has no
newline. Of undefined behaviour after an array has overrun only what the other processes
can see of it is there: what is written to the pipe, and whether the process ends. In the exercises processes are not stopped, `sleep` takes any time, a write to
the terminal or to a pipe does not wait, and signals come between instructions only.

`echoselect.c` does not compile (line 51 lacks a semicolon). `hex2dd.c` and `dd2hex.c` are
one call of the C library each, `buf.c` shows the size of that library's buffer, and
`adder.c`'s arithmetic and HTML are payload. Of `csapp.c` the wrappers that no program
calls are left out. `PROJECT.json` lists each component with its status.
