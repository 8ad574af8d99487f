---------------------------- MODULE ShellClaims ----------------------------
(***************************************************************************)
(* What comments of shiyan.c say of the shell and the code does not do.    *)
(* Every property of this module is refuted by a run of its own.           *)
(***************************************************************************)
EXTENDS Shell, FiniteSets

\* waitfg "blocks until it is no longer the foreground process group"
\* (shiyan.c:370): fg waits for the job that it continues, or comes back.
FgWaitsForItsJob ==
    \A p \in Pid :
        (pc["main"] = "cont" /\ mode = FG /\ jobs[slot["main"]].pid = p)
            ~> \/ pc["main"] = "waitfg" /\ arg["main"] = p
               \/ pc["main"] = "prompt"
               \/ status # "up"

\* "FG -> ST : ctrl-z" (shiyan.c:39): the foreground job becomes a stopped
\* job because ctrl-z was pressed or because its own process has stopped.
ForegroundStopsForCause ==
    [][\A i \in Slots :
          (jobs[i].state = FG /\ jobs'[i].state = ST)
              => keys < MaxKeys \/ proc[jobs[i].pid].st = "stopped"]_vars

\* "SIGINT and SIGTSTP are for the foreground process group" and in
\* sigint_handler "the order must not change" (shiyan.c:419,429): with no
\* other signals about, pressing ctrl-c once ends one job at most.
OneJobPerKey ==
    MaxExt = 0 => Cardinality({p \in Pid : proc[p].why = "INT"}) <= MaxKeys - keys
=============================================================================
