--------------------------- MODULE ShellJobControl ---------------------------
(***************************************************************************)
(* The shell implements JobControl.  The job of process p is in the state  *)
(* its entry of the list has; an entry that add_job has given a pid but no *)
(* state yet is not a job, whatever the entry was left with before.        *)
(***************************************************************************)
EXTENDS Shell

BeingAdded == IF pc["main"] = "addstate" THEN {slot["main"]} ELSE {}

jobState(p) ==
    LET i == First({j \in Slots \ BeingAdded : jobs[j].pid = p})
    IN  IF i = NULL \/ jobs[i].state = UNDEF THEN "none" ELSE jobs[i].state

JC == INSTANCE JobControl WITH job <- [p \in Pid |-> jobState(p)]

\* No interleaving of main() with the handlers makes a job change its state
\* in a way the comment on job states does not list (shiyan.c:36-44).
ImplementsJobControl == JC!Spec
=============================================================================
