------------------------------- MODULE Shell -------------------------------
(***************************************************************************)
(* The shell with job control of shiyan.c: main() with eval, do_bgfg and   *)
(* waitfg, and the handlers of SIGINT, SIGTSTP and SIGCHLD that interrupt  *)
(* it at any point and one another, over the job list of JobTable and the  *)
(* processes of Kernel.                                                    *)
(*                                                                         *)
(* There is one thread.  cur is the context that runs: main() or the       *)
(* handler of a signal; a delivered signal suspends the running context    *)
(* and ret[handler] remembers it.  A handler's own signal is blocked while *)
(* it runs (sa_mask is empty), so a context occurs at most once and pc,    *)
(* arg and slot are its program counter and its locals: arg the pid and    *)
(* slot the job pointer it holds.  A step is what the code does between    *)
(* two points at which a signal can change something it reads.             *)
(***************************************************************************)
EXTENDS JobTable, Kernel

CONSTANTS
    MaxKeys,    \* bound: how often ctrl-c or ctrl-z is pressed
    MaxExt      \* bound: signals that others send to the jobs

ASSUME BoundAssumption == MaxKeys \in Nat /\ MaxExt \in Nat

Sig == {"SIGINT", "SIGTSTP", "SIGCHLD"}
Ctx == Sig \cup {"main"}

MainPC == {"prompt", "fork", "addslot", "addstate", "addjid", "wrapjid",
           "unmask", "waitfg", "setstate", "cont", "contwait"}
HandlerPC == {"idle", "wait", "reapdel", "intfg", "intdel", "intkill",
              "stopfg", "stopjob", "stopset", "stopkill"}

VARIABLES
    pc, arg, slot,      \* program counter and locals of each context
    cur, ret,           \* the running context, what a handler interrupted
    mode,               \* main(): FG or BG, the state asked for the job
    chldblocked,        \* eval has blocked SIGCHLD
    pending,            \* signals pending for the shell
    status,             \* "up", or how the shell ended
    proc,               \* the child processes
    keys, ext           \* what is left of the two bounds

table   == <<jobs, nextjid>>
nesting == <<cur, ret>>
bounds  == <<keys, ext>>
vars == <<jobs, nextjid, pc, arg, slot, cur, ret, mode, chldblocked,
          pending, status, proc, keys, ext>>

TypeOK ==
    /\ jobs \in [Slots -> Entry]
    /\ nextjid \in Nat
    /\ pc \in [Ctx -> MainPC \cup HandlerPC]
    /\ pc["main"] \in MainPC
    /\ \A s \in Sig : pc[s] \in HandlerPC
    /\ arg \in [Ctx -> Pid \cup {NoPid, ForkErr}]
    /\ slot \in [Ctx -> Slots \cup {NULL}]
    /\ cur \in Ctx
    /\ ret \in [Sig -> Ctx]
    /\ mode \in {FG, BG}
    /\ chldblocked \in BOOLEAN
    /\ pending \subseteq Sig
    /\ status \in {"up", "exited", "failed", "segv"}
    /\ proc \in [Pid -> Process]
    /\ keys \in 0..MaxKeys
    /\ ext \in 0..MaxExt

Init ==
    /\ jobs = init_jobs
    /\ nextjid = 1
    /\ pc = [c \in Ctx |-> IF c = "main" THEN "prompt" ELSE "idle"]
    /\ arg = [c \in Ctx |-> NoPid]
    /\ slot = [c \in Ctx |-> NULL]
    /\ cur = "main"
    /\ ret = [s \in Sig |-> "main"]
    /\ mode = FG
    /\ chldblocked = FALSE
    /\ pending = {}
    /\ status = "up"
    /\ proc = [p \in Pid |-> NoProcess]
    /\ keys = MaxKeys
    /\ ext = MaxExt

At(c, label) == status = "up" /\ cur = c /\ pc[c] = label

Goto(c, label) == pc' = [pc EXCEPT ![c] = label]

Drop(c) == \* the locals of c go out of scope
    /\ arg' = [arg EXCEPT ![c] = NoPid]
    /\ slot' = [slot EXCEPT ![c] = NULL]

ToPrompt == Goto("main", "prompt") /\ Drop("main") /\ mode' = FG

\* Kill(-pid, sig): kill() fails with ESRCH when the group does not exist
\* and the wrapper ends the shell; kill(0, SIGCONT) reaches the shell's own
\* group and changes nothing.
Kill(pid, sig) ==
    \/ pid = NoPid /\ UNCHANGED <<proc, status>>
    \/ /\ pid # NoPid
       /\ GroupExists(proc[pid])
       /\ proc' = [proc EXCEPT ![pid] = Signalled(@, sig)]
       /\ UNCHANGED status
    \/ /\ pid # NoPid
       /\ ~GroupExists(proc[pid])
       /\ status' = "failed"
       /\ UNCHANGED proc

-----------------------------------------------------------------------------
(* main(): the command loop.  Blank lines, jobs, echo and commands that     *)
(* name no job change nothing and are left out.                             *)

ReadLaunch_Unblocked(m) == \* mutant: SIGCHLD is not blocked
    /\ At("main", "prompt")
    /\ mode' = m
    /\ Goto("main", "fork")
    /\ UNCHANGED <<table, arg, slot, nesting, chldblocked, pending, status, proc, bounds>>

\* A command line that is not a built-in: eval blocks SIGCHLD before fork.
ReadLaunch(m) ==
    /\ At("main", "prompt")
    /\ mode' = m
    /\ chldblocked' = TRUE
    /\ Goto("main", "fork")
    /\ UNCHANGED <<table, arg, slot, nesting, pending, status, proc, bounds>>

\* fg or bg with the number of a job or process of the list.
ReadBgFg(m) ==
    /\ At("main", "prompt")
    /\ \E i \in Slots :
          /\ \/ i = get_job_jid(jobs, jobs[i].jid)
             \/ i = get_job_pid(jobs, jobs[i].pid)
          /\ slot' = [slot EXCEPT !["main"] = i]
    /\ mode' = m
    /\ Goto("main", "setstate")
    /\ UNCHANGED <<table, arg, nesting, chldblocked, pending, status, proc, bounds>>

\* fg or bg with an argument that is no number: do_bgfg goes on with a job
\* pointer nobody assigned.  It may still point at an entry from an earlier
\* call, or anywhere else.
ReadBadId(m) ==
    /\ At("main", "prompt")
    /\ \/ /\ \E i \in Slots : slot' = [slot EXCEPT !["main"] = i]
          /\ Goto("main", "setstate")
          /\ mode' = m
          /\ UNCHANGED status
       \/ status' = "segv" /\ UNCHANGED <<slot, pc, mode>>
    /\ UNCHANGED <<table, arg, nesting, chldblocked, pending, proc, bounds>>

\* quit or end of file; SIGQUIT ends the shell wherever it is.
Quit ==
    /\ status = "up"
    /\ status' = "exited"
    /\ UNCHANGED <<table, pc, arg, slot, nesting, mode, chldblocked, pending, proc, bounds>>

Fork ==
    /\ At("main", "fork")
    /\ \/ \E p \in Pid :
             /\ proc[p].st = "free"
             /\ \A q \in Pid : proc[q].st = "free" => p <= q
             /\ proc' = [proc EXCEPT ![p].st = "forked"]
             /\ arg' = [arg EXCEPT !["main"] = p]
       \/ arg' = [arg EXCEPT !["main"] = ForkErr] /\ UNCHANGED proc
    /\ Goto("main", "addslot")
    /\ UNCHANGED <<table, slot, nesting, mode, chldblocked, pending, status, bounds>>

\* add_job, in the order of its assignments: pid, state, jid.  A pid below 1
\* or a full list leave the list as it is, and eval does not look.
AddSlot ==
    LET i == free_slot(jobs) IN
    /\ At("main", "addslot")
    /\ IF arg["main"] < 1 \/ i = NULL
       THEN Goto("main", "unmask") /\ UNCHANGED <<jobs, slot>>
       ELSE /\ jobs' = [jobs EXCEPT ![i].pid = arg["main"]]
            /\ slot' = [slot EXCEPT !["main"] = i]
            /\ Goto("main", "addstate")
    /\ UNCHANGED <<nextjid, arg, nesting, mode, chldblocked, pending, status, proc, bounds>>

AddState ==
    /\ At("main", "addstate")
    /\ jobs' = [jobs EXCEPT ![slot["main"]].state = mode]
    /\ Goto("main", "addjid")
    /\ UNCHANGED <<nextjid, arg, slot, nesting, mode, chldblocked, pending, status, proc, bounds>>

AddJid ==
    /\ At("main", "addjid")
    /\ jobs' = [jobs EXCEPT ![slot["main"]].jid = nextjid]
    /\ nextjid' = nextjid + 1
    /\ Goto("main", "wrapjid")
    /\ UNCHANGED <<arg, slot, nesting, mode, chldblocked, pending, status, proc, bounds>>

WrapJid ==
    /\ At("main", "wrapjid")
    /\ nextjid' = wrap(nextjid)
    /\ Goto("main", "unmask")
    /\ UNCHANGED <<jobs, arg, slot, nesting, mode, chldblocked, pending, status, proc, bounds>>

Unmask_Forgotten == \* mutant: SIGCHLD stays blocked
    /\ At("main", "unmask")
    /\ IF mode = FG THEN Goto("main", "waitfg") /\ UNCHANGED <<arg, slot, mode>>
                    ELSE ToPrompt
    /\ UNCHANGED <<table, nesting, chldblocked, pending, status, proc, bounds>>

Unmask_NoWait == \* mutant: the test of bg is the wrong way round
    /\ At("main", "unmask")
    /\ chldblocked' = FALSE
    /\ IF mode = BG THEN Goto("main", "waitfg") /\ UNCHANGED <<arg, slot, mode>>
                    ELSE ToPrompt
    /\ UNCHANGED <<table, nesting, pending, status, proc, bounds>>

Unmask ==
    /\ At("main", "unmask")
    /\ chldblocked' = FALSE
    /\ IF mode = FG THEN Goto("main", "waitfg") /\ UNCHANGED <<arg, slot, mode>>
                    ELSE ToPrompt
    /\ UNCHANGED <<table, nesting, pending, status, proc, bounds>>

WaitFg_Once == \* mutant: "if" for "while"
    /\ At("main", "waitfg")
    /\ ToPrompt
    /\ UNCHANGED <<table, nesting, chldblocked, pending, status, proc, bounds>>

\* The loop "while (pid == fgpid(jobs)) sleep(0)" ends.
WaitFg ==
    /\ At("main", "waitfg")
    /\ arg["main"] # fgpid(jobs)
    /\ ToPrompt
    /\ UNCHANGED <<table, nesting, chldblocked, pending, status, proc, bounds>>

\* do_bgfg once it holds a job pointer: state, SIGCONT, waitfg(job->pid).
SetState ==
    /\ At("main", "setstate")
    /\ jobs' = [jobs EXCEPT ![slot["main"]].state = mode]
    /\ Goto("main", "cont")
    /\ UNCHANGED <<nextjid, arg, slot, nesting, mode, chldblocked, pending, status, proc, bounds>>

Cont ==
    /\ At("main", "cont")
    /\ Kill(jobs[slot["main"]].pid, "CONT")
    /\ IF mode = FG THEN Goto("main", "contwait") /\ UNCHANGED <<arg, slot, mode>>
                    ELSE ToPrompt
    /\ UNCHANGED <<table, nesting, chldblocked, pending, bounds>>

ContWait ==
    /\ At("main", "contwait")
    /\ arg' = [arg EXCEPT !["main"] = jobs[slot["main"]].pid]
    /\ Goto("main", "waitfg")
    /\ UNCHANGED <<table, slot, nesting, mode, chldblocked, pending, status, proc, bounds>>

-----------------------------------------------------------------------------
(* The handlers.                                                            *)

Entrance == [SIGINT |-> "intfg", SIGTSTP |-> "stopfg", SIGCHLD |-> "wait"]

\* The kernel delivers s: not while its handler runs, nor SIGCHLD while eval
\* blocks it.
Deliver(s) ==
    /\ status = "up"
    /\ s \in pending
    /\ pc[s] = "idle"
    /\ ~(s = "SIGCHLD" /\ chldblocked)
    /\ pending' = pending \ {s}
    /\ Goto(s, Entrance[s])
    /\ ret' = [ret EXCEPT ![s] = cur]
    /\ cur' = s
    /\ UNCHANGED <<table, arg, slot, mode, chldblocked, status, proc, bounds>>

\* Handler c returns to what it interrupted.
Return(c) ==
    /\ Goto(c, "idle")
    /\ cur' = ret[c]
    /\ ret' = [ret EXCEPT ![c] = "main"]
    /\ Drop(c)

\* sigint_handler or sigtstp_handler ends: sigchld_handler had called it and
\* goes on with its loop, or the kernel had.
EndCall(c) ==
    \/ c = "SIGCHLD" /\ Goto(c, "wait") /\ Drop(c) /\ UNCHANGED nesting
    \/ c # "SIGCHLD" /\ Return(c)

\* sigchld_handler: one round of the waitpid loop per status waitpid returns.
ReapExited(p) ==
    /\ At("SIGCHLD", "wait")
    /\ proc[p].st = "zombie" /\ proc[p].why = "exit"
    /\ proc' = [proc EXCEPT ![p] = Waited(@)]
    /\ arg' = [arg EXCEPT !["SIGCHLD"] = p]
    /\ Goto("SIGCHLD", "reapdel")
    /\ UNCHANGED <<table, slot, nesting, mode, chldblocked, pending, status, bounds>>

ReapDelete_Once == \* mutant: "if" for "while", one child for a signal
    /\ At("SIGCHLD", "reapdel")
    /\ jobs' = delete_job(jobs, arg["SIGCHLD"])
    /\ nextjid' = nextjid_after_delete(jobs, nextjid, arg["SIGCHLD"])
    /\ Return("SIGCHLD")
    /\ UNCHANGED <<mode, chldblocked, pending, status, proc, bounds>>

ReapDelete ==
    /\ At("SIGCHLD", "reapdel")
    /\ jobs' = delete_job(jobs, arg["SIGCHLD"])
    /\ nextjid' = nextjid_after_delete(jobs, nextjid, arg["SIGCHLD"])
    /\ Goto("SIGCHLD", "wait")
    /\ Drop("SIGCHLD")
    /\ UNCHANGED <<nesting, mode, chldblocked, pending, status, proc, bounds>>

ReapInterrupted(p) ==
    /\ At("SIGCHLD", "wait")
    /\ proc[p].st = "zombie" /\ proc[p].why = "INT"
    /\ proc' = [proc EXCEPT ![p] = Waited(@)]
    /\ Goto("SIGCHLD", "intfg")
    /\ UNCHANGED <<table, arg, slot, nesting, mode, chldblocked, pending, status, bounds>>

\* "unknown signal": unix_error ends the shell.
ReapKilled(p) ==
    /\ At("SIGCHLD", "wait")
    /\ proc[p].st = "zombie" /\ proc[p].why = "OTHER"
    /\ proc' = [proc EXCEPT ![p] = Waited(@)]
    /\ status' = "failed"
    /\ UNCHANGED <<table, pc, arg, slot, nesting, mode, chldblocked, pending, bounds>>

ReportStopped(p) ==
    /\ At("SIGCHLD", "wait")
    /\ proc[p].st = "stopped" /\ proc[p].unreported
    /\ proc' = [proc EXCEPT ![p] = Waited(@)]
    /\ Goto("SIGCHLD", "stopfg")
    /\ UNCHANGED <<table, arg, slot, nesting, mode, chldblocked, pending, status, bounds>>

NoneWaitable ==
    /\ At("SIGCHLD", "wait")
    /\ \A p \in Pid : ~Waitable(proc[p])
    /\ Return("SIGCHLD")
    /\ UNCHANGED <<table, mode, chldblocked, pending, status, proc, bounds>>

\* sigint_handler, delivered (c is SIGINT) or called by sigchld_handler: it
\* asks for the foreground job, deletes it and then signals its group.
IntFg(c) ==
    /\ At(c, "intfg")
    /\ \/ fgpid(jobs) = NoPid /\ EndCall(c)
       \/ /\ fgpid(jobs) # NoPid
          /\ arg' = [arg EXCEPT ![c] = fgpid(jobs)]
          /\ Goto(c, "intdel")
          /\ UNCHANGED <<slot, nesting>>
    /\ UNCHANGED <<table, mode, chldblocked, pending, status, proc, bounds>>

IntDelete(c) ==
    /\ At(c, "intdel")
    /\ jobs' = delete_job(jobs, arg[c])
    /\ nextjid' = nextjid_after_delete(jobs, nextjid, arg[c])
    /\ Goto(c, "intkill")
    /\ UNCHANGED <<arg, slot, nesting, mode, chldblocked, pending, status, proc, bounds>>

IntKill(c) ==
    /\ At(c, "intkill")
    /\ Kill(arg[c], "INT")
    /\ EndCall(c)
    /\ UNCHANGED <<table, mode, chldblocked, pending, bounds>>

\* sigtstp_handler likewise.  get_job_pid may answer NULL when the job has
\* been deleted since fgpid, and job->state is then stored through NULL.
StopFg(c) ==
    /\ At(c, "stopfg")
    /\ \/ fgpid(jobs) = NoPid /\ EndCall(c)
       \/ /\ fgpid(jobs) # NoPid
          /\ arg' = [arg EXCEPT ![c] = fgpid(jobs)]
          /\ Goto(c, "stopjob")
          /\ UNCHANGED <<slot, nesting>>
    /\ UNCHANGED <<table, mode, chldblocked, pending, status, proc, bounds>>

StopJob(c) ==
    LET i == get_job_pid(jobs, arg[c]) IN
    /\ At(c, "stopjob")
    /\ \/ i = NULL /\ status' = "segv" /\ UNCHANGED <<pc, slot>>
       \/ /\ i # NULL
          /\ slot' = [slot EXCEPT ![c] = i]
          /\ Goto(c, "stopset")
          /\ UNCHANGED status
    /\ UNCHANGED <<table, arg, nesting, mode, chldblocked, pending, proc, bounds>>

StopSet(c) ==
    /\ At(c, "stopset")
    /\ jobs' = [jobs EXCEPT ![slot[c]].state = ST]
    /\ Goto(c, "stopkill")
    /\ UNCHANGED <<nextjid, arg, slot, nesting, mode, chldblocked, pending, status, proc, bounds>>

StopKill(c) ==
    /\ At(c, "stopkill")
    /\ Kill(arg[c], "STOP")
    /\ EndCall(c)
    /\ UNCHANGED <<table, mode, chldblocked, pending, bounds>>

-----------------------------------------------------------------------------
(* The child processes and the terminal.                                    *)

shellSide == <<jobs, nextjid, pc, arg, slot, cur, ret, mode, chldblocked, status>>

Silently(p, c) == \* process p becomes c, the shell is not told
    /\ proc' = [proc EXCEPT ![p] = c]
    /\ UNCHANGED <<shellSide, pending, bounds>>

Notifying(p, c) == \* ... and the kernel sends the shell SIGCHLD
    /\ proc' = [proc EXCEPT ![p] = c]
    /\ pending' = pending \cup {"SIGCHLD"}
    /\ UNCHANGED <<shellSide, bounds>>

\* The child's part of eval: setpgid(0,0), then execve, which may fail.
ChildSetpgid(p) ==
    /\ status = "up" /\ proc[p].st = "forked"
    /\ Silently(p, [proc[p] EXCEPT !.st = "grouped"])

ChildExec(p) ==
    /\ status = "up" /\ proc[p].st = "grouped"
    /\ \/ Silently(p, [proc[p] EXCEPT !.st = "running"])
       \/ Notifying(p, Terminated(proc[p], "exit"))

\* Before execve the child has the shell's handlers and a copy of its list.
\* No job of the copy is in the foreground, so the handler does nothing and
\* the signal is gone.
ChildHandles(p, s) ==
    /\ status = "up" /\ proc[p].st = "grouped" /\ s \in proc[p].sigs
    /\ Silently(p, [proc[p] EXCEPT !.sigs = @ \ {s}])

\* The program exits, or takes a signal: by default it is killed or stopped,
\* but it may as well ignore or catch it.
ProgExit(p) ==
    /\ status = "up" /\ proc[p].st = "running"
    /\ Notifying(p, Terminated(proc[p], "exit"))

ProgTakes(p, s) ==
    /\ status = "up" /\ proc[p].st = "running" /\ s \in proc[p].sigs
    /\ \/ s = "INT"  /\ Notifying(p, Terminated(proc[p], "INT"))
       \/ s = "STOP" /\ Notifying(p, Stopped(proc[p]))
       \/ Silently(p, [proc[p] EXCEPT !.sigs = @ \ {s}])

\* Somebody else signals a job: kill(1), the program itself, or the terminal
\* driver when a job that is not in the terminal's group reads from it.
ExtSignal(p, s) ==
    /\ status = "up" /\ ext > 0 /\ proc[p].st \in {"running", "stopped"}
    /\ ext' = ext - 1
    /\ proc' = [proc EXCEPT ![p] = IF s = "OTHER" THEN Terminated(@, s) ELSE Signalled(@, s)]
    /\ pending' = IF s = "OTHER" THEN pending \cup {"SIGCHLD"} ELSE pending
    /\ UNCHANGED <<shellSide, keys>>

\* ctrl-c and ctrl-z: the terminal signals its foreground process group,
\* the shell; a child still in that group handles it as in ChildHandles.
Key(s) ==
    /\ status = "up" /\ keys > 0
    /\ keys' = keys - 1
    /\ pending' = pending \cup {s}
    /\ UNCHANGED <<shellSide, proc, ext>>

-----------------------------------------------------------------------------

\* The steps of main() that wait for no input.
MainStep == \/ Fork \/ AddSlot \/ AddState \/ AddJid \/ WrapJid \/ Unmask
            \/ WaitFg \/ SetState \/ Cont \/ ContWait

HandlerStep ==
    \/ \E p \in Pid : \/ ReapExited(p) \/ ReapInterrupted(p)
                      \/ ReapKilled(p) \/ ReportStopped(p)
    \/ ReapDelete
    \/ NoneWaitable
    \/ \E c \in Sig : \/ IntFg(c) \/ IntDelete(c) \/ IntKill(c)
                      \/ StopFg(c) \/ StopJob(c) \/ StopSet(c) \/ StopKill(c)

Command ==
    \/ \E m \in {FG, BG} : ReadLaunch(m) \/ ReadBgFg(m) \/ ReadBadId(m)
    \/ Quit

\* What a child does without anybody's help.
ChildStep(p) ==
    \/ ChildSetpgid(p)
    \/ ChildExec(p)
    \/ \E s \in {"INT", "STOP"} : ChildHandles(p, s) \/ ProgTakes(p, s)

Environment ==
    \/ \E p \in Pid : \/ ChildStep(p)
                      \/ ProgExit(p)
                      \/ \E s \in {"INT", "STOP", "CONT", "OTHER"} : ExtSignal(p, s)
    \/ \E s \in {"SIGINT", "SIGTSTP"} : Key(s)

\* The shell has ended.
Ended == status # "up" /\ UNCHANGED vars

Next == \/ Command \/ MainStep \/ HandlerStep
        \/ \E s \in Sig : Deliver(s)
        \/ Environment
        \/ Ended

Spec == Init /\ [][Next]_vars

\* The scheduler keeps running the shell and its children; a pending signal
\* is delivered when the process returns to user mode, even if it is blocked
\* now and then.  Nobody has to type, to exit or to send a signal.
Fairness ==
    /\ WF_vars(MainStep \/ HandlerStep)
    /\ \A s \in Sig : SF_vars(Deliver(s))
    /\ \A p \in Pid : WF_vars(ChildStep(p))

FairSpec == Spec /\ Fairness

-----------------------------------------------------------------------------
(* Properties.                                                              *)

\* sigchld_handler "reaps all available zombie children": although pending
\* SIGCHLDs merge into one, a child waitpid would return is never forgotten;
\* the signal is pending or the handler is in its loop.
NoForgottenChild ==
    (status = "up" /\ \E p \in Pid : Waitable(proc[p]))
        => ("SIGCHLD" \in pending \/ pc["SIGCHLD"] # "idle")

\* "At most one job runs in the foreground", whatever the handlers did to
\* the list between two steps of add_job or do_bgfg.
AtMostOneForeground ==
    \A i, j \in Slots : (jobs[i].state = FG /\ jobs[j].state = FG) => i = j

\* waitfg is the only way back to the prompt: while main() may read or start
\* a command no job is in the foreground, so a key press then hits nobody
\* and the copy of the list a child inherits has no foreground job.
NoForegroundAtPrompt ==
    pc["main"] \in {"prompt", "fork", "addslot", "addstate", "setstate"}
        => \A i \in Slots : jobs[i].state # FG

\* Why eval blocks SIGCHLD around fork and add_job: a job whose process has
\* exited and been waited for is not in the list, or is about to leave it;
\* it cannot be added after it was deleted.
ExitedJobLeavesList ==
    \A p \in Pid :
        (status = "up" /\ proc[p].st = "reaped" /\ proc[p].why = "exit")
            => \/ get_job_pid(jobs, p) = NULL
               \/ pc["SIGCHLD"] = "reapdel" /\ arg["SIGCHLD"] = p

\* Every child that ends is waited for while the shell lives.
ZombiesAreReaped ==
    \A p \in Pid : (proc[p].st = "zombie") ~> (proc[p].st # "zombie" \/ status # "up")

\* The prompt comes back after the job that main() waits for has ended.
ForegroundReturns ==
    \A p \in Pid :
        (pc["main"] = "waitfg" /\ arg["main"] = p /\ proc[p].st \in {"zombie", "reaped"})
            ~> (pc["main"] # "waitfg" \/ status # "up")
=============================================================================
