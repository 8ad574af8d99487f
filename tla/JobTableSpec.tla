---------------------------- MODULE JobTableSpec ----------------------------
(***************************************************************************)
(* The job list of shiyan.c as a sequential data structure: any order of   *)
(* add_job and delete_job calls that a shell may make, with no handler in  *)
(* between.  It is about job numbers, which only go wrong after more calls *)
(* than the interleavings of Shell leave room for.  A pid may come back    *)
(* once its job has left the list.                                         *)
(***************************************************************************)
EXTENDS JobTable

CONSTANT MaxJid     \* bound: no job is added once nextjid exceeds it

ASSUME MaxJidAssumption == MaxJid \in Nat

VARIABLE lapped         \* history: nextjid has been set back to 1

listVars == <<jobs, nextjid, lapped>>

ListTypeOK ==
    /\ jobs \in [Slots -> Entry]
    /\ nextjid \in Nat
    /\ lapped \in BOOLEAN

ListInit ==
    /\ jobs = init_jobs
    /\ nextjid = 1
    /\ lapped = FALSE

Listed(p) == get_job_pid(jobs, p) # NULL

\* add_job for a new child; it leaves a full list as it is.  Job numbers do
\* not depend on the state, so that all jobs are background jobs.
Add(p) ==
    LET i == free_slot(jobs) IN
    /\ ~Listed(p)
    /\ nextjid <= MaxJid
    /\ i # NULL
    /\ jobs' = [jobs EXCEPT ![i] = [pid |-> p, jid |-> nextjid, state |-> BG]]
    /\ nextjid' = wrap(nextjid + 1)
    /\ lapped' = (lapped \/ nextjid + 1 > MAXJOBS)

Delete(p) ==
    /\ Listed(p)
    /\ jobs' = delete_job(jobs, p)
    /\ nextjid' = nextjid_after_delete(jobs, nextjid, p)
    /\ UNCHANGED lapped

ListNext == \E p \in Pid : Add(p) \/ Delete(p)

ListSpec == ListInit /\ [][ListNext]_listVars

-----------------------------------------------------------------------------

\* No two entries have the same job number.
DistinctJids ==
    \A i, j \in Slots : (jobs[i].jid = jobs[j].jid /\ jobs[i].jid # 0) => i = j

\* As long as nextjid has not been set back, the jobs have different numbers
\* although delete_job hands numbers out again: "max_jid(jobs)+1" is a number
\* above all that are left, so %n means one job (shiyan.c:536).
DistinctJidsInFirstLap == ~lapped => DistinctJids
=============================================================================
