----------------------------- MODULE Exercises -----------------------------
(***************************************************************************)
(* A small Unix that runs the exercises of module ExercisePrograms: fork,  *)
(* exec, wait and exit, signals with their masks and handlers, nonlocal    *)
(* jumps, alarms, open files that processes share, pipes, threads, and     *)
(* the buffer of stdout.  The operations are the wrappers of csapp.c and   *)
(* the calls they wrap; wrapped or not, an operation that fails and names  *)
(* no line to go on at ends the process by unix_error.                     *)
(*                                                                         *)
(* Signals of one kind merge while they are pending.  They are taken       *)
(* before the next instruction; a call that a handler interrupts is made   *)
(* again (SA_RESTART, which signal() of the C library sets too), except    *)
(* for pause and sleep.                                                    *)
(***************************************************************************)
EXTENDS ExercisePrograms, FiniteSets

CONSTANTS
    MaxPid,         \* bound: processes and threads of one exercise
    MaxTyped,       \* bound: lines and ctrl-c typed
    FileSize        \* length of a file that is read

ASSUME ExercisesAssumption == MaxPid \in Nat \ {0} /\ MaxTyped \in Nat /\ FileSize \in Nat

Pid == 1..MaxPid
Sig == {"INT", "CHLD", "ALRM", "USR2", "TSTP", "KILL", "SEGV"}
Fd == 0..5

VARIABLES
    exercise,       \* the program that runs
    forks,          \* bound: processes and threads it can make
    proc,           \* processes and threads
    files,          \* open files: kind and position; the first is the terminal
    screen,         \* texts on the screen: who wrote it, line, number
    failed,         \* lines at which unix_error was called
    typed           \* lines and ctrl-c typed so far

world == <<exercise, forks>>
vars == <<world, proc, files, screen, failed, typed>>

Entry == Pid \X Nat \X Int

TypeOK ==
    /\ exercise \in Exercise /\ forks \in 0..(MaxPid - 1)
    /\ \A p \in Pid : LET r == proc[p] IN
         /\ r.st \in {"none", "run", "zombie", "gone"} /\ r.parent \in Pid \cup {0} /\ r.leader \in Pid
         /\ r.code \in DOMAIN Program /\ r.pc \in DOMAIN Program[r.code]
         /\ \A k \in DOMAIN r.out : r.out[k] \in Entry
         /\ r.mask \subseteq Sig \ {"KILL"} /\ r.pending \subseteq Sig /\ r.jobs \subseteq Pid
         /\ r.fd \in [Fd -> 0..Len(files)]
         /\ \A k \in DOMAIN r.frames : r.frames[k].pc \in DOMAIN Program[r.code]
    /\ \A k \in DOMAIN files : files[k].kind \in {"terminal", "readEnd", "writeEnd", "file"}
    /\ \A k \in DOMAIN screen : screen[k] \in Entry
    /\ failed \subseteq Nat /\ typed \in 0..MaxTyped

noJump == [pc |-> 0, depth |-> 0, mask |-> {}, left |-> FALSE]
var0 == [i |-> 0, n |-> 0, child |-> 0, pid |-> 0, fd1 |-> 0, fd2 |-> 0, stdin |-> 0, stdout |-> 1]
fresh == [st |-> "none", parent |-> 0, leader |-> 1, code |-> exercise, pc |-> 1,
          var |-> var0, out |-> <<>>, frames |-> <<>>, mask |-> {}, pending |-> {},
          handler |-> [s \in Sig |-> 0], alarm |-> FALSE, atexit |-> 0, jump |-> noJump,
          jobs |-> {}, fd |-> [f \in Fd |-> IF f <= 2 THEN 1 ELSE 0]]

Init ==
    /\ exercise \in Exercise /\ forks \in 0..(MaxPid - 1)
    /\ proc = [p \in Pid |-> [fresh EXCEPT !.st = IF p = 1 THEN "run" ELSE "none"]]
    /\ files = <<[kind |-> "terminal", pos |-> 0]>>
    /\ screen = <<>> /\ failed = {} /\ typed = 0

-----------------------------------------------------------------------------
(* Instructions.                                                            *)

Least(S) == CHOOSE x \in S : \A y \in S : x <= y
instr(p) == Program[proc[p].code][proc[p].pc]
line(p) == instr(p)[1]
op(p) == instr(p)[2]
arg(p) == instr(p)[3]
arg2(p) == instr(p)[4]

runs(p) == proc[p].st = "run"
deliverable(p) == proc[p].pending \ proc[p].mask
at(p, name) == runs(p) /\ op(p) = name /\ deliverable(p) = {}

next(r) == [r EXCEPT !.pc = @ + 1]
goto(r, l) == [r EXCEPT !.pc = Least({k \in DOMAIN Program[r.code] : Program[r.code][k][1] = l})]
jumps(p, l) == goto(proc[p], l)
sets(p, name, x) == [next(proc[p]) EXCEPT !.var[name] = x]

Becomes(p, r) == proc' = [proc EXCEPT ![p] = r]
Moves(p, r) == Becomes(p, r) /\ UNCHANGED <<world, files, screen, failed, typed>>

-----------------------------------------------------------------------------
(* The end of a process.                                                    *)

sent(r, s) ==
    IF r.st # "run" \/ (s = "CHLD" /\ r.handler[s] = 0) THEN r
    ELSE [r EXCEPT !.pending = @ \cup {s}]

over(how, parent) == [fresh EXCEPT !.st = how, !.parent = parent]

\* The processes after p has ended: its threads end with it, init adopts its
\* children, and its parent is told.
without(p) ==
    LET l == proc[p].leader
        parent == proc[l].parent IN
    [q \in Pid |->
        IF proc[q].st \in {"none", "gone"} THEN proc[q]
        ELSE IF proc[q].leader = l
          THEN over(IF q = l /\ parent # 0 THEN "zombie" ELSE "gone", IF q = l THEN parent ELSE 0)
        ELSE IF proc[q].parent = l
          THEN IF proc[q].st = "zombie" THEN over("gone", 0) ELSE [proc[q] EXCEPT !.parent = 0]
        ELSE IF q = parent THEN sent(proc[q], "CHLD")
        ELSE proc[q]]

onTerminal(p) == proc[p].fd[1] = 1

\* The last of exit() writes what stdout still holds.
Exits(p) ==
    /\ proc' = without(p)
    /\ screen' = IF onTerminal(p) THEN screen \o proc[p].out ELSE screen
    /\ UNCHANGED <<world, files, typed>>

\* A signal that ends the process does not.
Killed(p) == proc' = without(p) /\ UNCHANGED <<world, files, screen, failed, typed>>

\* Before that, it calls the function that atexit registered.
exit(p) ==
    IF proc[p].atexit # 0
      THEN /\ Becomes(p, [jumps(p, proc[p].atexit) EXCEPT !.atexit = 0])
           /\ UNCHANGED <<world, files, screen, typed>>
      ELSE Exits(p)

Exit(p) == at(p, "exit") /\ exit(p) /\ UNCHANGED failed

unix_error(p) == failed' = failed \cup {line(p)} /\ exit(p)

\* The failure of an operation whose last argument is line l, or 0.
Fails(p, l) == IF l = 0 THEN unix_error(p) ELSE Moves(p, jumps(p, l))

Crash(p) == at(p, "crash") /\ Moves(p, sent(proc[p], "SEGV"))

-----------------------------------------------------------------------------
(* Control and data of one process.                                         *)

Control(p) ==
    \/ at(p, "goto") /\ Moves(p, jumps(p, arg(p)))
    \/ at(p, "either") /\ \E l \in arg(p) : Moves(p, jumps(p, l))
    \/ /\ at(p, "loop")
       /\ IF proc[p].var.i < arg(p) THEN Moves(p, sets(p, "i", proc[p].var.i + 1))
          ELSE Moves(p, jumps(p, arg2(p)))
    \/ at(p, "background") /\ \E bg \in {0, 1} : Moves(p, sets(p, "n", bg))
    \/ at(p, "foreground") /\ Moves(p, IF proc[p].var.n = 0 THEN next(proc[p]) ELSE jumps(p, arg(p)))
    \/ at(p, "add") /\ Moves(p, sets(p, "n", proc[p].var.n + arg(p)))
    \/ at(p, "atexit") /\ Moves(p, [next(proc[p]) EXCEPT !.atexit = arg(p)])
    \/ at(p, "error") /\ unix_error(p)

addjob(p) == at(p, "addjob") /\ Moves(p, [next(proc[p]) EXCEPT !.jobs = @ \cup {proc[p].var.child}])
deletejob(p) == at(p, "deletejob") /\ Moves(p, [next(proc[p]) EXCEPT !.jobs = @ \ {proc[p].var.pid}])

\* printf: stdout of the terminal is written at the end of a line.
printed(p) == <<p, line(p), IF Len(instr(p)) > 2 THEN proc[p].var[arg(p)] ELSE 0>>
Put(p) == at(p, "put") /\ Moves(p, [next(proc[p]) EXCEPT !.out = Append(@, printed(p))])
Say(p) ==
    /\ at(p, "say")
    /\ LET out == Append(proc[p].out, printed(p)) IN
         IF onTerminal(p)
           THEN /\ screen' = screen \o out /\ Becomes(p, [next(proc[p]) EXCEPT !.out = <<>>])
                /\ UNCHANGED <<world, files, failed, typed>>
           ELSE Moves(p, [next(proc[p]) EXCEPT !.out = out])

-----------------------------------------------------------------------------
(* Processes.                                                               *)

unused == {q \in Pid : proc[q].st = "none"}
canMake == MaxPid - Cardinality(unused) - 1 < forks

Fork(p) ==
    /\ at(p, "fork")
    /\ IF canMake
         THEN LET c == Least(unused) IN
              /\ proc' = [proc EXCEPT
                   ![c] = [next(proc[p]) EXCEPT !.parent = p, !.leader = c, !.pending = {},
                                                !.alarm = FALSE, !.var.child = 0],
                   ![p] = [goto(proc[p], arg(p)) EXCEPT !.var.child = c]]
              /\ UNCHANGED <<world, files, screen, failed, typed>>
         ELSE Fails(p, arg2(p))

\* It goes on in the next line when there is nothing to execute.
Execve(p) ==
    /\ at(p, "exec")
    /\ \/ Moves(p, next(proc[p]))
       \/ Moves(p, [proc[p] EXCEPT !.code = arg(p), !.pc = 1, !.out = <<>>, !.frames = <<>>,
                      !.handler = [s \in Sig |-> 0], !.atexit = 0, !.jump = noJump])

Waitpid(p) ==
    /\ at(p, "wait")
    /\ LET children == {q \in Pid : /\ proc[q].parent = p /\ proc[q].st \in {"run", "zombie"}
                                    /\ arg(p) = "own" => q = proc[p].var.child} IN
         IF children = {} THEN Fails(p, arg2(p))
         ELSE \E q \in children :
              /\ proc[q].st = "zombie"
              /\ proc' = [proc EXCEPT ![q] = over("gone", 0), ![p] = sets(p, "pid", q)]
              /\ UNCHANGED <<world, files, screen, failed, typed>>

-----------------------------------------------------------------------------
(* Signals.                                                                 *)

Kill(p) ==
    /\ at(p, "kill")
    /\ LET q == IF arg(p) = "parent" THEN proc[p].parent ELSE proc[p].var.child IN
         IF q = 0 \/ proc[q].st \notin {"run", "zombie"} THEN unix_error(p)
         ELSE /\ proc' = [proc EXCEPT ![p] = next(proc[p]), ![q] = sent(proc[q], arg2(p))]
              /\ UNCHANGED <<world, files, screen, failed, typed>>

\* No handler can be set for SIGKILL.
Signal(p) ==
    /\ at(p, "signal")
    /\ IF arg(p) = "KILL" THEN unix_error(p)
       ELSE Moves(p, [next(proc[p]) EXCEPT !.handler[arg(p)] = arg2(p)])

Sleep(p) == at(p, "sleep") /\ Moves(p, next(proc[p]))
Alarm(p) == at(p, "alarm") /\ Moves(p, [next(proc[p]) EXCEPT !.alarm = arg(p)])

\* A handler ends these calls; but the signal may come before the process
\* has begun to wait.
NotRestarted == {"pause", "sleep"}

handling(r, s, back) ==
    [goto(r, r.handler[s]) EXCEPT !.pending = @ \ {s}, !.mask = @ \cup {s},
       !.frames = Append(@, [pc |-> r.pc + back, mask |-> r.mask])]

Deliver(p) ==
    /\ runs(p)
    /\ \E s \in deliverable(p), back \in {0, 1} :
         /\ back = 1 => op(p) \in NotRestarted
         /\ IF proc[p].handler[s] = 0 THEN Killed(p) ELSE Moves(p, handling(proc[p], s, back))

Return(p) ==
    /\ at(p, "return")
    /\ LET k == Len(proc[p].frames) IN
         Moves(p, [proc[p] EXCEPT !.pc = proc[p].frames[k].pc, !.mask = proc[p].frames[k].mask,
                     !.frames = SubSeq(@, 1, k - 1)])

AlarmRings(p) ==
    /\ runs(p) /\ proc[p].alarm
    /\ Moves(p, [sent(proc[p], "ALRM") EXCEPT !.alarm = FALSE])

Setjmp(p) ==
    /\ at(p, "setjmp")
    /\ Moves(p, [jumps(p, arg(p)[1]) EXCEPT
         !.jump = [pc |-> proc[p].pc, depth |-> Len(proc[p].frames), mask |-> proc[p].mask, left |-> FALSE]])

\* The function that called setjmp returns.
Leave(p) == at(p, "leave") /\ Moves(p, [next(proc[p]) EXCEPT !.jump.left = TRUE])

landed_KeepsMask(r, l) == \* mutant: longjmp for siglongjmp
    [goto(r, l) EXCEPT !.frames = SubSeq(@, 1, r.jump.depth)]
landed(r, l) ==
    [goto(r, l) EXCEPT !.frames = SubSeq(@, 1, r.jump.depth), !.mask = r.jump.mask]

\* Undefined without a setjmp, or when its function has returned: the
\* process crashes, or it jumps into what is left of the old frame.
Longjmp(p) ==
    /\ at(p, "longjmp")
    /\ LET j == proc[p].jump IN
         \/ j.pc # 0 /\ Moves(p, landed(proc[p], Program[proc[p].code][j.pc][3][arg(p) + 1]))
         \/ (j.pc = 0 \/ j.left) /\ Killed(p)

-----------------------------------------------------------------------------
(* Descriptors and the terminal.  Descriptor 0..5 is free or one of the     *)
(* open files; nothing can be opened when none is free.                     *)

file(p, name) == proc[p].fd[proc[p].var[name]]
free(p) == {f \in Fd : proc[p].fd[f] = 0}
usedBy(k) == {p \in Pid : runs(p) /\ \E f \in Fd : proc[p].fd[f] = k}
opened(kind) == [kind |-> kind, pos |-> 0]
Advances(k) == files' = [files EXCEPT ![k].pos = @ + 1]

Open(p) ==
    /\ at(p, "open")
    /\ \/ Fails(p, arg2(p))
       \/ LET f == Least(free(p)) IN
          /\ free(p) # {}
          /\ files' = Append(files, opened("file"))
          /\ Becomes(p, [sets(p, arg(p), f) EXCEPT !.fd[f] = Len(files) + 1])
          /\ UNCHANGED <<world, screen, failed, typed>>

Pipe(p) ==
    /\ at(p, "pipe")
    /\ \/ Fails(p, arg(p))
       \/ LET r == Least(free(p))
              w == Least(free(p) \ {r}) IN
          /\ free(p) \ {r} # {}
          /\ files' = files \o <<opened("readEnd"), opened("writeEnd")>>
          /\ Becomes(p, [sets(p, "fd1", r) EXCEPT !.var.fd2 = w,
                           !.fd[r] = Len(files) + 1, !.fd[w] = Len(files) + 2])
          /\ UNCHANGED <<world, screen, failed, typed>>

Close(p) ==
    \/ /\ at(p, "close")
       /\ IF file(p, arg(p)) = 0 THEN unix_error(p)
          ELSE Moves(p, [next(proc[p]) EXCEPT !.fd[proc[p].var[arg(p)]] = 0])
    \/ at(p, "closeall") /\ Moves(p, [next(proc[p]) EXCEPT !.fd = [f \in Fd |-> 0]])

Dup2(p) == at(p, "dup2") /\ Moves(p, [next(proc[p]) EXCEPT !.fd[proc[p].var[arg2(p)]] = file(p, arg(p))])

\* The number of the byte read goes to n.  A pipe ends when nobody can write.
Read(p) ==
    /\ at(p, "read")
    /\ LET k == file(p, arg(p)) IN
       IF k = 0 THEN unix_error(p) ELSE
         \/ /\ files[k].kind = "file" \/ files[k].kind = "readEnd"
            /\ files[k].pos < (IF files[k].kind = "file" THEN FileSize ELSE files[k + 1].pos)
            /\ Advances(k) /\ Becomes(p, sets(p, "n", files[k].pos + 1))
            /\ UNCHANGED <<world, screen, failed, typed>>
         \/ /\ \/ files[k].kind = "file" /\ files[k].pos = FileSize
               \/ files[k].kind = "readEnd" /\ files[k].pos = files[k + 1].pos /\ usedBy(k + 1) = {}
            /\ Moves(p, jumps(p, arg2(p)))

\* A pipe that nobody reads kills its writer (SIGPIPE).
Write(p) ==
    /\ at(p, "write")
    /\ LET k == file(p, arg(p)) IN
       IF k = 0 THEN unix_error(p) ELSE
         CASE files[k].kind = "terminal" ->
                /\ screen' = Append(screen, <<p, line(p), proc[p].var.n>>)
                /\ Becomes(p, next(proc[p])) /\ UNCHANGED <<world, files, failed, typed>>
           [] files[k].kind = "writeEnd" /\ usedBy(k - 1) = {} -> Killed(p)
           [] OTHER -> /\ Advances(k) /\ Becomes(p, next(proc[p]))
                       /\ UNCHANGED <<world, screen, failed, typed>>

\* The whole file is mapped, and one write takes as much of it as it likes.
Mmap(p) == at(p, "mmap") /\ ((FileSize > 0 /\ Moves(p, next(proc[p]))) \/ Fails(p, arg(p)))
WriteFile(p) ==
    /\ at(p, "writefile")
    /\ \/ unix_error(p)
       \/ \E k \in 1..FileSize : /\ screen' = screen \o [j \in 1..k |-> <<p, line(p), j>>]
                                /\ Becomes(p, next(proc[p])) /\ UNCHANGED <<world, files, failed, typed>>

\* What n becomes: may the owner write the file?
Stat(p) == at(p, "stat") /\ (Fails(p, arg(p)) \/ \E writable \in {0, 1} : Moves(p, sets(p, "n", writable)))
Lookup(p) == at(p, "lookup") /\ (Fails(p, arg(p)) \/ Moves(p, next(proc[p])))

Types == typed < MaxTyped /\ typed' = typed + 1 /\ UNCHANGED <<world, files, screen, failed>>

Fgets(p) ==
    /\ at(p, "input")
    /\ \/ Types /\ \E l \in arg(p) : Becomes(p, jumps(p, l))
       \/ Moves(p, jumps(p, arg2(p)))

ReadTerminal(p) ==
    /\ at(p, "read") /\ file(p, arg(p)) = 1
    /\ \/ Types /\ Becomes(p, sets(p, "n", typed + 1))
       \/ Moves(p, jumps(p, arg2(p)))

\* ctrl-c, in the exercises that are about it.
CtrlC ==
    /\ exercise \in {"sigint1", "snooze", "restart"} /\ Types
    /\ proc' = [p \in Pid |-> sent(proc[p], "INT")]

-----------------------------------------------------------------------------
(* Threads: each a process of the same leader, whose n is the static        *)
(* variable.                                                                *)

threadOf_Reference(p) == [proc[p] EXCEPT !.parent = 0, !.var.i = 2] \* mutant: &i for its value
threadOf(p) == [proc[p] EXCEPT !.parent = 0]

Pthread_create(p) ==
    /\ at(p, "thread")
    /\ IF canMake
         THEN LET t == Least(unused) IN
              /\ proc' = [proc EXCEPT ![t] = goto(threadOf(p), arg(p)), ![p] = sets(p, "child", t)]
              /\ UNCHANGED <<world, files, screen, failed, typed>>
         ELSE Fails(p, arg2(p))

Pthread_join(p) == at(p, "join") /\ proc[proc[p].var.child].st = "gone" /\ Moves(p, next(proc[p]))
Pthread_exit(p) == at(p, "threadexit") /\ Moves(p, [proc[p] EXCEPT !.st = "gone"])

Load(p) == at(p, "load") /\ Moves(p, sets(p, "n", proc[proc[p].leader].var.n))
Store(p) ==
    /\ at(p, "store")
    /\ proc' = [proc EXCEPT ![proc[p].leader].var.n = proc[p].var.n + 1, ![p] = sets(p, "n", proc[p].var.n + 1)]
    /\ UNCHANGED <<world, files, screen, failed, typed>>

-----------------------------------------------------------------------------
Runs(p) ==
    \/ Exit(p) \/ Crash(p) \/ Control(p) \/ addjob(p) \/ deletejob(p) \/ Put(p) \/ Say(p)
    \/ Fork(p) \/ Execve(p) \/ Waitpid(p) \/ Kill(p) \/ Signal(p) \/ Sleep(p) \/ Alarm(p)
    \/ Deliver(p) \/ Return(p) \/ Setjmp(p) \/ Leave(p) \/ Longjmp(p)
    \/ Open(p) \/ Pipe(p) \/ Close(p) \/ Dup2(p) \/ Read(p) \/ Write(p)
    \/ Mmap(p) \/ WriteFile(p) \/ Stat(p) \/ Lookup(p)
    \/ Pthread_create(p) \/ Pthread_join(p) \/ Pthread_exit(p) \/ Load(p) \/ Store(p)

Next ==
    \/ CtrlC
    \/ \E p \in Pid : Runs(p) \/ AlarmRings(p) \/ Fgets(p) \/ ReadTerminal(p)

\* A process that can run does, alarms ring and commands end; nobody has to
\* type anything.
FairSpec ==
    /\ Init /\ [][Next]_vars
    /\ \A p \in Pid : WF_vars(Runs(p)) /\ WF_vars(AlarmRings(p))
-----------------------------------------------------------------------------
(* What the exercises promise.                                              *)

texts == [k \in DOMAIN screen |-> screen[k][2]]
numbers(l) == {screen[k][3] : k \in {j \in DOMAIN screen : screen[j][2] = l}}

\* What an exercise writes, when its forks succeed and when they do not.
Output == [
    exam1 |-> {IF forks = 0 THEN <<10, 13>> ELSE <<6, 10, 13>>},
    kill |-> {<<8, 15>>, <<15, 8>>}, sigint1 |-> {<<5>>}, snooze |-> {<<6>>},
    myalarm |-> {<<7, 7, 7, 7, 7, 11>>}, setjmpmy |-> {<<22>>},
    tfgets |-> {<<30, 32>>, <<32, 32>>},
    crashes |-> {<<25, 25>>}, mysystem |-> {<<>>},
    pipetest |-> {<<71>>}, daemon |-> {IF forks = 0 THEN <<18>> ELSE <<>>},
    threadhello |-> {<<18, 19>>}]

\* The screen shows no order of texts that an exercise cannot write: exam1
\* writes abc, however its processes are scheduled; the child of kill.c never
\* gets past its pause; myalarm beeps five times; the daemon has no terminal
\* left to write to; exam3 calls end() after the 0 or the 1 of its process, or
\* when its second fork fails, and then that process writes nothing else.
\* A forked process has a counter of its own (exam2), the lowest free
\* descriptor is taken (10_1, homework10_6), descriptors made by dup2 share a
\* position (10_5), and cpfile and mmapcopy copy every byte once, in order.
\* 8_23: signals that arrive while one is pending are lost, but never all of
\* them, and none is counted twice.
OutputIsPossible ==
    /\ exercise \in DOMAIN Output =>
         \E s \in Output[exercise] : Len(texts) <= Len(s) /\ texts = SubSeq(s, 1, Len(texts))
    /\ exercise = "exam3" => \A k \in DOMAIN screen : screen[k][2] = 5 =>
         \/ k > 1 /\ screen[k - 1][1] = screen[k][1] /\ screen[k - 1][2] \in {13, 15}
         \/ 12 \in failed /\ \A j \in DOMAIN screen : screen[j][1] = screen[k][1] => j = k
    /\ exercise = "restart" => Cardinality({k \in DOMAIN texts : texts[k] = 17}) <= typed
    /\ exercise = "exam2" => numbers(13) \subseteq {2}
    /\ exercise = "open10_1" => numbers(10) \subseteq {3}
    /\ exercise = "open10_6" => numbers(11) \subseteq {4}
    /\ exercise = "share10_5" => numbers(14) \subseteq {2}
    /\ exercise \in {"cpfile", "mmapcopy"} => \A k \in DOMAIN screen : texts[k] \in {7, 25} => screen[k][3] = k
    /\ exercise = "count_signals" => numbers(29) \subseteq 1..5

inHandler(p) == proc[p].frames # <<>>
zombies(p) == {q \in Pid : proc[q].parent = p /\ proc[q].st = "zombie"}

\* signal2, signal3, promask1: although SIGCHLDs merge, no dead child is
\* forgotten: its signal is pending or the handler has yet to ask for it.
\* signal1: the handler that waits once loses children, but always finds one
\* that has ended, so that waitpid neither fails nor makes it wait.
NoLostChild ==
    /\ exercise \in {"signal2", "signal3", "promask1"} /\ runs(1) /\ zombies(1) # {} =>
         "CHLD" \in proc[1].pending \/ (inHandler(1) /\ op(1) # "return")
    /\ exercise = "signal1" =>
         /\ 6 \notin failed
         /\ runs(1) /\ inHandler(1) /\ line(1) = 6 => zombies(1) # {}

\* restart and 8_25 leave their handlers by siglongjmp, and can take the next
\* signal all the same: signals are blocked in handlers only, and never SIGKILL.
MaskOnlyInHandlers ==
    /\ TypeOK
    /\ \A p \in Pid : runs(p) /\ ~inHandler(p) => proc[p].mask = {}

\* eval: when the shell asks for a command, the one it ran in the foreground
\* has ended, and the ones it left running are the ones it has announced.
\* promask1: when main() is about to fork, every child that is left is in the
\* job list.  (A child that ended before addjob stays in it for ever.)
\* In these others the first process waits for all its children before it ends,
\* unless one of its calls failed.
ChildrenAreKnown ==
    LET left == {q \in Pid \ {1} : proc[q].st \in {"run", "zombie"}} IN
    /\ exercise = "eval" /\ runs(1) /\ line(1) = 16 => left \subseteq numbers(49)
    /\ exercise = "promask1" /\ runs(1) /\ ~inHandler(1) /\ line(1) = 20 => left \subseteq proc[1].jobs
    /\ exercise \in {"exam1", "exam2", "count_signals", "crashes", "mysystem"} /\ ~runs(1) /\ failed = {} =>
         left = {}

\* sharing: each thread prints the message of its own number, in whatever
\* order they run; increments of cnt may be lost, but not both.
\* testthread: each thread prints its number once, the ones that have yet to
\* do so when main() forks included: the child has none of them.
EachThreadItsMessage ==
    /\ exercise \in {"sharing", "testthread"} =>
         \A j, k \in DOMAIN screen : j # k /\ texts[j] \in {13, 26} /\ texts[k] = texts[j] => screen[j][3] # screen[k][3]
    /\ exercise = "sharing" /\ screen # <<>> /\ failed = {} => proc[1].var.n \in 1..2

\* These exercises come to an end though nobody types anything: tfgets by its
\* alarm, pipetest because nobody keeps the write end of the pipe.
ExerciseEnds ==
    exercise \in {"exam1", "exam2", "exam3", "test", "kill", "myalarm", "setjmpmy", "tfgets", "count_signals",
                  "crashes", "mysystem", "pipetest", "daemon", "open10_1", "share10_5", "open10_6",
                  "mmapcopy", "statcheck", "fstatcheck", "hostinfo", "exec8_20",
                  "sharing", "threadhello"} =>
        <>(\A p \in Pid : proc[p].st \in {"none", "gone"})
=============================================================================
