----------------------------- MODULE JobControl -----------------------------
(***************************************************************************)
(* What job control promises its user, from the comment on job states at   *)
(* the top of shiyan.c: the state of every job, how it may change, and     *)
(* that at most one job is in the foreground.  The code reaches a state    *)
(* change through assignments to a shared array, by main() and by signal   *)
(* handlers that interrupt it; ShellJobControl shows that what a user sees *)
(* of the array follows this specification.                                *)
(***************************************************************************)
CONSTANT Pid

VARIABLE job        \* job[p] is "none", or the state of the job of process p

Foreground == {p \in Pid : job[p] = "FG"}

Init == job = [p \in Pid |-> "none"]

Move(p, from, to) == job[p] = from /\ job' = [job EXCEPT ![p] = to]

\* A command line, without and with &.  A process is a job once.
LaunchFg(p) == Foreground = {} /\ Move(p, "none", "FG")
LaunchBg(p) == Move(p, "none", "BG")

\* FG -> ST : ctrl-z
Stop(p) == Move(p, "FG", "ST")

\* ST -> FG and BG -> FG : fg command
Fg(p) == Foreground = {} /\ (Move(p, "ST", "FG") \/ Move(p, "BG", "FG"))

\* ST -> BG : bg command.  There is no FG -> BG.
Bg(p) == Move(p, "ST", "BG")

\* The job has ended, or was interrupted by ctrl-c.
Remove(p) == job[p] # "none" /\ job' = [job EXCEPT ![p] = "none"]

Next ==
    \E p \in Pid : \/ LaunchFg(p) \/ LaunchBg(p)
                   \/ Stop(p) \/ Fg(p) \/ Bg(p)
                   \/ Remove(p)

Spec == Init /\ [][Next]_job
=============================================================================
