------------------------------- MODULE Kernel -------------------------------
(***************************************************************************)
(* What the shell sees of the kernel and of the programs it runs: one      *)
(* record per child process.  None of it is code of the repository; it is  *)
(* modelled from how shiyan.c calls fork, setpgid, execve, kill and        *)
(* waitpid.                                                                *)
(*                                                                         *)
(*   forked   the child still runs the shell's code, in the shell's group  *)
(*   grouped  after setpgid(0,0), before execve: the handlers it inherited *)
(*            are still installed                                          *)
(*   running  the program, in a process group of its own                   *)
(*   stopped  by a stop signal                                             *)
(*   zombie   terminated, waitpid has not returned it yet                  *)
(*   reaped   waitpid has returned it; the id stays unused afterwards      *)
(*                                                                         *)
(* Stop signals (SIGTSTP, SIGTTIN, SIGSTOP) are one signal STOP, signals   *)
(* that kill other than SIGINT are one cause OTHER.                        *)
(***************************************************************************)
EXTENDS Integers

NoProcess == [st |-> "free", why |-> "none", unreported |-> FALSE, sigs |-> {}]

Process ==
    [st : {"free", "forked", "grouped", "running", "stopped", "zombie", "reaped"},
     why : {"none", "exit", "INT", "OTHER"},    \* how it terminated
     unreported : BOOLEAN,                      \* a stop waitpid did not return yet
     sigs : SUBSET {"INT", "STOP"}]             \* pending for the process

\* kill(-pid, sig) finds the group that setpgid(0,0) created until its last
\* member, a zombie included, has been waited for.
GroupExists(c) == c.st \in {"grouped", "running", "stopped", "zombie"}

\* waitpid(-1, &status, WUNTRACED | WNOHANG) returns such a child.
Waitable(c) == c.st = "zombie" \/ (c.st = "stopped" /\ c.unreported)

\* A child that may still do something.
Alive(c) == c.st \in {"forked", "grouped", "running", "stopped"}

\* The effect of a signal sent to the group of c.  SIGCONT acts at once and
\* drops the stop signals; a stop signal for a stopped process is absorbed.
Signalled(c, sig) ==
    CASE sig = "CONT" /\ c.st = "stopped" ->
            [c EXCEPT !.st = "running", !.unreported = FALSE, !.sigs = @ \ {"STOP"}]
      [] sig = "CONT" /\ c.st # "stopped" -> [c EXCEPT !.sigs = @ \ {"STOP"}]
      [] sig = "INT" /\ Alive(c)          -> [c EXCEPT !.sigs = @ \cup {"INT"}]
      [] sig = "STOP" /\ c.st \in {"grouped", "running"} ->
            [c EXCEPT !.sigs = @ \cup {"STOP"}]
      [] OTHER -> c

Terminated(c, cause) ==
    [c EXCEPT !.st = "zombie", !.why = cause, !.unreported = FALSE, !.sigs = {}]

Stopped(c) ==
    [c EXCEPT !.st = "stopped", !.unreported = TRUE, !.sigs = @ \ {"STOP"}]

\* waitpid returns c: a zombie is reaped, a stop is marked as reported.
Waited(c) ==
    IF c.st = "zombie" THEN [c EXCEPT !.st = "reaped"]
    ELSE [c EXCEPT !.unreported = FALSE]
=============================================================================
