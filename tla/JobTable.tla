------------------------------ MODULE JobTable ------------------------------
(***************************************************************************)
(* The job list of the shell (shiyan.c, "job functions"): a fixed array of *)
(* MAXJOBS entries that main() and the signal handlers share, and the      *)
(* counter nextjid.  These are the operators on the array; JobTableSpec    *)
(* applies them as a sequential data structure, Shell inside the           *)
(* interleaving of main() with the handlers.                               *)
(*                                                                         *)
(* An entry keeps its pid, jid and state; the command line is payload and  *)
(* is left out.  A C pointer into the array is an index of Slots, the null *)
(* pointer is 0, and "no process" is the pid 0 the code uses.              *)
(***************************************************************************)
EXTENDS Integers, FiniteSetsExt

CONSTANTS
    MAXJOBS,    \* length of the array
    Pid         \* process ids the kernel hands out

ASSUME JobTableAssumption ==
    /\ MAXJOBS \in Nat \ {0}
    /\ Pid \subseteq Nat \ {0}

VARIABLES
    jobs, nextjid       \* the job list

UNDEF == "UNDEF"
FG    == "FG"
BG    == "BG"
ST    == "ST"

Slots   == 1..MAXJOBS
NoPid   == 0
ForkErr == -1       \* what fork() returns when it fails
NULL    == 0

Entry == [pid : Pid \cup {NoPid}, jid : Nat, state : {UNDEF, FG, BG, ST}]
Empty == [pid |-> NoPid, jid |-> 0, state |-> UNDEF]

\* The loops "for (i=0; i<MAXJOBS; i++) if (...) return": the first index of
\* a set of indices, NULL when there is none.
First(S) == IF S = {} THEN NULL ELSE Min(S)

clear_job(tab, i) == [tab EXCEPT ![i] = Empty]

init_jobs == [i \in Slots |-> Empty]

max_jid(tab) == Max({0} \cup {tab[i].jid : i \in Slots})

\* add_job scans for the first entry whose pid is 0 ...
free_slot(tab) == First({i \in Slots : tab[i].pid = NoPid})

\* ... and after nextjid++ tests "if (nextjid > MAXJOBS) nextjid = 1".
wrap(jid) == IF jid > MAXJOBS THEN 1 ELSE jid

get_job_pid(tab, pid) ==
    IF pid < 1 THEN NULL ELSE First({i \in Slots : tab[i].pid = pid})

get_job_jid(tab, jid) ==
    IF jid < 1 THEN NULL ELSE First({i \in Slots : tab[i].jid = jid})

fgpid(tab) ==
    LET i == First({j \in Slots : tab[j].state = FG})
    IN  IF i = NULL THEN NoPid ELSE tab[i].pid

\* delete_job on the array, and what it leaves in nextjid.
delete_job(tab, pid) ==
    LET i == get_job_pid(tab, pid)
    IN  IF i = NULL THEN tab ELSE clear_job(tab, i)

next_below_max(tab, next, pid) == \* mutant: nextjid = max_jid(jobs)-1
    IF get_job_pid(tab, pid) = NULL THEN next
    ELSE max_jid(delete_job(tab, pid)) - 1

next_minus_one(tab, next, pid) == \* mutant: nextjid--
    IF get_job_pid(tab, pid) = NULL THEN next ELSE next - 1

nextjid_after_delete(tab, next, pid) ==
    IF get_job_pid(tab, pid) = NULL THEN next
    ELSE max_jid(delete_job(tab, pid)) + 1
=============================================================================
