---------------------------- MODULE ShellProofs ----------------------------
(***************************************************************************)
(* Safety of the shell for a job list of any length, any set of pids and   *)
(* any number of key presses and outside signals: the types, that no child *)
(* is forgotten, that at most one job is in the foreground and none is at  *)
(* the prompt, that no job is of a process that has exited and been waited *)
(* for, unless it is about to be deleted, and that main() and the handlers *)
(* together follow JobControl.                                             *)
(***************************************************************************)
EXTENDS ShellJobControl, JobTableProofs

-----------------------------------------------------------------------------
(* Types.                                                                   *)

\* While main() works on an entry it holds a pointer into the list.
PointerHeld ==
  pc["main"] \in {"addstate", "addjid", "setstate", "cont", "contwait"}
      => slot["main"] \in Slots

TypeInv == TypeOK /\ PointerHeld

PcTyped ==
  /\ pc \in [Ctx -> MainPC \cup HandlerPC]
  /\ pc["main"] \in MainPC
  /\ \A s \in Sig : pc[s] \in HandlerPC

LEMMA ProcessTyped ==
  ASSUME NEW c \in Process
  PROVE  /\ NoProcess \in Process
         /\ [c EXCEPT !.st = "forked"] \in Process
         /\ [c EXCEPT !.st = "grouped"] \in Process
         /\ [c EXCEPT !.st = "running"] \in Process
         /\ \A s : [c EXCEPT !.sigs = @ \ {s}] \in Process
         /\ \A s \in {"exit", "INT", "OTHER"} : Terminated(c, s) \in Process
         /\ Stopped(c) \in Process
         /\ Waited(c) \in Process
         /\ \A s : Signalled(c, s) \in Process
<1>1. \A s : Signalled(c, s) \in Process
  BY DEF Process, Signalled
<1> QED BY <1>1 DEF Process, NoProcess, Terminated, Stopped, Waited

LEMMA InitTyped == Init => TypeOK
<1> SUFFICES ASSUME Init PROVE TypeOK
  OBVIOUS
<1>1. jobs \in [Slots -> Entry] /\ nextjid \in Nat
  BY InitJobsTyped DEF Init
<1>2. PcTyped
  BY DEF Init, PcTyped, Ctx, Sig, MainPC, HandlerPC
<1>3. /\ arg \in [Ctx -> Pid \cup {NoPid, ForkErr}] /\ slot \in [Ctx -> Slots \cup {NULL}]
      /\ ret \in [Sig -> Ctx] /\ cur \in Ctx
  BY DEF Init, Ctx
<1>4. proc \in [Pid -> Process]
  BY DEF Init, Process, NoProcess
<1>5. /\ mode \in {FG, BG} /\ chldblocked \in BOOLEAN /\ pending \subseteq Sig
      /\ status \in {"up", "exited", "failed", "segv"}
  BY DEF Init
<1>6. keys \in 0..MaxKeys /\ ext \in 0..MaxExt
  <2>1. keys = MaxKeys /\ ext = MaxExt
    BY DEF Init
  <2> QED BY <2>1, BoundAssumption
<1> QED BY <1>1, <1>2, <1>3, <1>4, <1>5, <1>6 DEF TypeOK, PcTyped

\* Moving the program counter of one context, and dropping its locals.
LEMMA GotoTyped ==
  ASSUME TypeOK, NEW c \in Ctx, NEW l, Goto(c, l),
         c = "main" => l \in MainPC, c # "main" => l \in HandlerPC
  PROVE  PcTyped'
  BY DEF TypeOK, PcTyped, Goto, Ctx, Sig

LEMMA DropTyped ==
  ASSUME TypeOK, NEW c \in Ctx, Drop(c)
  PROVE  /\ arg' \in [Ctx -> Pid \cup {NoPid, ForkErr}]
         /\ slot' \in [Ctx -> Slots \cup {NULL}]
  BY DEF TypeOK, Drop

LEMMA ToPromptTyped ==
  ASSUME TypeOK, ToPrompt
  PROVE  /\ PcTyped'
         /\ arg' \in [Ctx -> Pid \cup {NoPid, ForkErr}]
         /\ slot' \in [Ctx -> Slots \cup {NULL}]
         /\ mode' \in {FG, BG}
  BY GotoTyped, DropTyped DEF ToPrompt, Ctx, MainPC

\* How Kill changes the state.
LEMMA KillTyped ==
  ASSUME TypeOK, NEW pid, NEW s, Kill(pid, s)
  PROVE  /\ proc' \in [Pid -> Process]
         /\ status' \in {"up", "exited", "failed", "segv"}
<1>1. \A p \in Pid : Signalled(proc[p], s) \in Process
  BY ProcessTyped DEF TypeOK
<1> QED BY <1>1 DEF Kill, TypeOK

LEMMA DeleteTyped ==
  ASSUME TypeOK, NEW p \in Int
  PROVE  /\ delete_job(jobs, p) \in [Slots -> Entry]
         /\ nextjid_after_delete(jobs, nextjid, p) \in Nat
  BY DeleteClears DEF TypeOK

LEMMA ArgTyped == ASSUME TypeOK, NEW c \in Ctx PROVE arg[c] \in Int
<1>1. arg[c] \in Pid \cup {NoPid, ForkErr}
  BY DEF TypeOK
<1>2. Pid \subseteq Int
  BY JobTableAssumption
<1>3. NoPid \in Int /\ ForkErr \in Int
  BY DEF NoPid, ForkErr
<1> QED BY <1>1, <1>2, <1>3

LEMMA CommandTyped == ASSUME TypeOK, Command PROVE TypeOK'
<1> USE DEF TypeOK, PcTyped, At, table, nesting, bounds
<1>1. ASSUME NEW m \in {FG, BG}, ReadLaunch(m) PROVE TypeOK'
  <2>1. PcTyped'
    BY <1>1, GotoTyped DEF ReadLaunch, Ctx, MainPC
  <2> QED BY <1>1, <2>1 DEF ReadLaunch
<1>2. ASSUME NEW m \in {FG, BG}, ReadBgFg(m) PROVE TypeOK'
  <2>1. PcTyped'
    BY <1>2, GotoTyped DEF ReadBgFg, Ctx, MainPC
  <2>2. slot' \in [Ctx -> Slots \cup {NULL}] /\ mode' \in {FG, BG}
    BY <1>2 DEF ReadBgFg
  <2>3. UNCHANGED <<table, arg, nesting, chldblocked, pending, status, proc, bounds>>
    BY <1>2 DEF ReadBgFg
  <2> QED BY <2>1, <2>2, <2>3
<1>3. ASSUME NEW m \in {FG, BG}, ReadBadId(m) PROVE TypeOK'
  <2>1. PcTyped'
    BY <1>3, GotoTyped DEF ReadBadId, Ctx, MainPC
  <2> QED BY <1>3, <2>1 DEF ReadBadId
<1>4. ASSUME Quit PROVE TypeOK'
  BY <1>4 DEF Quit
<1> QED BY <1>1, <1>2, <1>3, <1>4 DEF Command

LEMMA MainTyped == ASSUME TypeInv, MainStep PROVE TypeOK'
<1> TypeOK /\ PointerHeld
  BY DEF TypeInv
<1> USE DEF TypeOK, PcTyped, At, table, nesting, bounds
<1>1. CASE Fork
  <2>1. \A p \in Pid : [proc[p] EXCEPT !.st = "forked"] \in Process
    BY ProcessTyped
  <2>2. PcTyped'
    BY <1>1, GotoTyped DEF Fork, Ctx, MainPC
  <2> QED BY <1>1, <2>1, <2>2 DEF Fork
<1>2. CASE AddSlot
  <2>1. PICK i : i = free_slot(jobs)
    OBVIOUS
  <2>2. PcTyped'
    BY <1>2, GotoTyped DEF AddSlot, Ctx, MainPC
  <2>3. CASE arg["main"] < 1 \/ i = NULL
    BY <1>2, <2>1, <2>2, <2>3 DEF AddSlot
  <2>4. CASE ~(arg["main"] < 1 \/ i = NULL)
    <3>1. i \in Slots /\ arg["main"] \in Pid
      BY <2>1, <2>4, FreeSlotFinds DEF NoPid, ForkErr, Ctx
    <3>2. [jobs[i] EXCEPT !.pid = arg["main"]] \in Entry
      BY <3>1 DEF Entry
    <3>3. /\ jobs' = [jobs EXCEPT ![i].pid = arg["main"]]
          /\ slot' = [slot EXCEPT !["main"] = i]
      BY <1>2, <2>1, <2>4 DEF AddSlot
    <3>4. jobs' \in [Slots -> Entry] /\ slot' \in [Ctx -> Slots \cup {NULL}]
      BY <3>1, <3>2, <3>3
    <3> QED BY <1>2, <2>2, <3>4 DEF AddSlot
  <2> QED BY <2>3, <2>4
<1>3. CASE AddState
  <2>1. \A i \in Slots : [jobs[i] EXCEPT !.state = mode] \in Entry
    BY DEF Entry
  <2>2. PcTyped'
    BY <1>3, GotoTyped DEF AddState, Ctx, MainPC
  <2> QED BY <1>3, <2>1, <2>2 DEF AddState
<1>4. CASE AddJid
  <2>1. \A i \in Slots : [jobs[i] EXCEPT !.jid = nextjid] \in Entry
    BY DEF Entry
  <2>2. PcTyped'
    BY <1>4, GotoTyped DEF AddJid, Ctx, MainPC
  <2>3. /\ jobs' = [jobs EXCEPT ![slot["main"]].jid = nextjid]
        /\ nextjid' = nextjid + 1
    BY <1>4 DEF AddJid
  <2>5. jobs' \in [Slots -> Entry]
    BY <2>1, <2>3
  <2>6. nextjid' \in Nat
    BY <2>3
  <2>4. UNCHANGED <<arg, slot, nesting, mode, chldblocked, pending, status, proc, bounds>>
    BY <1>4 DEF AddJid
  <2> QED BY <2>2, <2>4, <2>5, <2>6
<1>5. CASE WrapJid
  <2>1. PcTyped'
    BY <1>5, GotoTyped DEF WrapJid, Ctx, MainPC
  <2> QED BY <1>5, <2>1 DEF WrapJid, wrap
<1>6. CASE Unmask
  <2>1. CASE mode = FG
    <3>1. PcTyped'
      BY <1>6, <2>1, GotoTyped DEF Unmask, Ctx, MainPC
    <3> QED BY <1>6, <2>1, <3>1 DEF Unmask
  <2>2. CASE mode # FG
    BY <1>6, <2>2, ToPromptTyped DEF Unmask
  <2> QED BY <2>1, <2>2
<1>7. CASE WaitFg
  BY <1>7, ToPromptTyped DEF WaitFg
<1>8. CASE SetState
  <2>1. \A i \in Slots : [jobs[i] EXCEPT !.state = mode] \in Entry
    BY DEF Entry
  <2>2. PcTyped'
    BY <1>8, GotoTyped DEF SetState, Ctx, MainPC
  <2> QED BY <1>8, <2>1, <2>2 DEF SetState
<1>9. CASE Cont
  <2>3. /\ proc' \in [Pid -> Process]
        /\ status' \in {"up", "exited", "failed", "segv"}
    BY <1>9, KillTyped DEF Cont
  <2>4. CASE mode = FG
    <3>1. PcTyped'
      BY <1>9, <2>4, GotoTyped DEF Cont, Ctx, MainPC
    <3> QED BY <1>9, <2>3, <2>4, <3>1 DEF Cont
  <2>5. CASE mode # FG
    BY <1>9, <2>3, <2>5, ToPromptTyped DEF Cont
  <2> QED BY <2>4, <2>5
<1>10. CASE ContWait
  <2>1. slot["main"] \in Slots
    BY <1>10 DEF ContWait, PointerHeld
  <2>2. jobs[slot["main"]].pid \in Pid \cup {NoPid}
    BY <2>1 DEF Entry
  <2>3. PcTyped'
    BY <1>10, GotoTyped DEF ContWait, Ctx, MainPC
  <2> QED BY <1>10, <2>2, <2>3 DEF ContWait
<1> QED BY <1>1, <1>2, <1>3, <1>4, <1>5, <1>6, <1>7, <1>8, <1>9, <1>10 DEF MainStep

LEMMA ReturnTyped ==
  ASSUME TypeOK, NEW c \in Sig, Return(c)
  PROVE  /\ PcTyped'
         /\ arg' \in [Ctx -> Pid \cup {NoPid, ForkErr}]
         /\ slot' \in [Ctx -> Slots \cup {NULL}]
         /\ cur' \in Ctx /\ ret' \in [Sig -> Ctx]
<1>1. c \in Ctx /\ c # "main"
  BY DEF Ctx, Sig
<1>2. PcTyped'
  BY <1>1, GotoTyped DEF Return, HandlerPC
<1>3. /\ arg' \in [Ctx -> Pid \cup {NoPid, ForkErr}]
      /\ slot' \in [Ctx -> Slots \cup {NULL}]
  BY <1>1, DropTyped DEF Return
<1>4. cur' \in Ctx /\ ret' \in [Sig -> Ctx]
  BY DEF Return, TypeOK, Ctx
<1> QED BY <1>2, <1>3, <1>4

LEMMA EndCallTyped ==
  ASSUME TypeOK, NEW c \in Sig, EndCall(c)
  PROVE  /\ PcTyped'
         /\ arg' \in [Ctx -> Pid \cup {NoPid, ForkErr}]
         /\ slot' \in [Ctx -> Slots \cup {NULL}]
         /\ cur' \in Ctx /\ ret' \in [Sig -> Ctx]
<1>1. CASE c = "SIGCHLD" /\ Goto(c, "wait") /\ Drop(c) /\ UNCHANGED nesting
  <2>1. c \in Ctx /\ c # "main"
    BY DEF Ctx, Sig
  <2>2. PcTyped'
    BY <1>1, <2>1, GotoTyped DEF HandlerPC
  <2> QED BY <1>1, <2>1, <2>2, DropTyped DEF nesting, TypeOK
<1>2. CASE Return(c)
  BY <1>2, ReturnTyped
<1> QED BY <1>1, <1>2 DEF EndCall

\* sigchld_handler.
LEMMA ReaperTyped ==
  ASSUME TypeOK,
         ReapDelete \/ NoneWaitable
           \/ \E p \in Pid : \/ ReapExited(p) \/ ReapInterrupted(p)
                             \/ ReapKilled(p) \/ ReportStopped(p)
  PROVE  TypeOK'
<1> USE DEF TypeOK, PcTyped, At, table, nesting, bounds
<1> DEFINE c == "SIGCHLD"
<1>0. c \in Ctx /\ c # "main" /\ c \in Sig
  BY DEF Ctx, Sig
<1> HIDE DEF c
<1>1. \A p \in Pid : Waited(proc[p]) \in Process
  BY ProcessTyped
<1>2. ASSUME NEW p \in Pid, ReapExited(p) PROVE TypeOK'
  <2>1. PcTyped'
    BY <1>0, <1>2, GotoTyped DEF ReapExited, HandlerPC, c
  <2> QED BY <1>1, <1>2, <2>1 DEF ReapExited
<1>3. ASSUME NEW p \in Pid, ReapInterrupted(p) PROVE TypeOK'
  <2>1. PcTyped'
    BY <1>0, <1>3, GotoTyped DEF ReapInterrupted, HandlerPC, c
  <2> QED BY <1>1, <1>3, <2>1 DEF ReapInterrupted
<1>4. ASSUME NEW p \in Pid, ReapKilled(p) PROVE TypeOK'
  BY <1>1, <1>4 DEF ReapKilled
<1>5. ASSUME NEW p \in Pid, ReportStopped(p) PROVE TypeOK'
  <2>1. PcTyped'
    BY <1>0, <1>5, GotoTyped DEF ReportStopped, HandlerPC, c
  <2> QED BY <1>1, <1>5, <2>1 DEF ReportStopped
<1>6. CASE ReapDelete
  <2>1. PcTyped'
    BY <1>0, <1>6, GotoTyped DEF ReapDelete, HandlerPC, c
  <2>2. /\ arg' \in [Ctx -> Pid \cup {NoPid, ForkErr}]
        /\ slot' \in [Ctx -> Slots \cup {NULL}]
    BY <1>0, <1>6, DropTyped DEF ReapDelete, c
  <2>3. arg[c] \in Int
    BY <1>0, ArgTyped
  <2>4. jobs' \in [Slots -> Entry] /\ nextjid' \in Nat
    BY <1>6, <2>3, DeleteTyped DEF ReapDelete, c
  <2> QED BY <1>6, <2>1, <2>2, <2>4 DEF ReapDelete
<1>7. CASE NoneWaitable
  BY <1>0, <1>7, ReturnTyped DEF NoneWaitable, c
<1> QED BY <1>2, <1>3, <1>4, <1>5, <1>6, <1>7

\* sigint_handler and sigtstp_handler.
LEMMA StopperTyped ==
  ASSUME TypeOK, NEW c \in Sig,
         \/ IntFg(c) \/ IntDelete(c) \/ IntKill(c)
         \/ StopFg(c) \/ StopJob(c) \/ StopSet(c) \/ StopKill(c)
  PROVE  TypeOK'
<1> USE DEF TypeOK, PcTyped, At, table, nesting, bounds
<1>0. c \in Ctx /\ c # "main"
  BY DEF Ctx, Sig
<1>1. fgpid(jobs) \in Pid \cup {NoPid}
  BY FgpidFinds
<1>2. arg[c] \in Int
  BY <1>0, ArgTyped
<1>3. CASE IntFg(c)
  <2>1. CASE EndCall(c)
    BY <1>3, <2>1, EndCallTyped DEF IntFg
  <2>2. CASE arg' = [arg EXCEPT ![c] = fgpid(jobs)] /\ Goto(c, "intdel") /\ UNCHANGED <<slot, nesting>>
    <3>1. PcTyped'
      BY <1>0, <2>2, GotoTyped DEF HandlerPC
    <3>2. arg' \in [Ctx -> Pid \cup {NoPid, ForkErr}]
      BY <1>1, <2>2
    <3> QED BY <1>3, <2>2, <3>1, <3>2 DEF IntFg
  <2> QED BY <1>3, <2>1, <2>2 DEF IntFg
<1>4. CASE IntDelete(c)
  <2>1. PcTyped'
    BY <1>0, <1>4, GotoTyped DEF IntDelete, HandlerPC
  <2>2. jobs' \in [Slots -> Entry] /\ nextjid' \in Nat
    BY <1>2, <1>4, DeleteTyped DEF IntDelete
  <2> QED BY <1>4, <2>1, <2>2 DEF IntDelete
<1>5. CASE IntKill(c)
  BY <1>5, EndCallTyped, KillTyped DEF IntKill
<1>6. CASE StopFg(c)
  <2>1. CASE EndCall(c)
    BY <1>6, <2>1, EndCallTyped DEF StopFg
  <2>2. CASE arg' = [arg EXCEPT ![c] = fgpid(jobs)] /\ Goto(c, "stopjob") /\ UNCHANGED <<slot, nesting>>
    <3>1. PcTyped'
      BY <1>0, <2>2, GotoTyped DEF HandlerPC
    <3>2. arg' \in [Ctx -> Pid \cup {NoPid, ForkErr}]
      BY <1>1, <2>2
    <3> QED BY <1>6, <2>2, <3>1, <3>2 DEF StopFg
  <2> QED BY <1>6, <2>1, <2>2 DEF StopFg
<1>7. CASE StopJob(c)
  <2>1. PICK i : i = get_job_pid(jobs, arg[c])
    OBVIOUS
  <2>2. i \in Slots \cup {NULL}
    BY <1>2, <2>1, GetJobPidFinds
  <2>3. CASE i = NULL
    BY <1>7, <2>1, <2>3 DEF StopJob
  <2>4. CASE i # NULL
    <3>1. slot' = [slot EXCEPT ![c] = i] /\ Goto(c, "stopset") /\ UNCHANGED status
      BY <1>7, <2>1, <2>4 DEF StopJob
    <3>2. PcTyped'
      BY <1>0, <3>1, GotoTyped DEF HandlerPC
    <3>3. slot' \in [Ctx -> Slots \cup {NULL}]
      BY <2>2, <3>1
    <3> QED BY <1>7, <3>1, <3>2, <3>3 DEF StopJob
  <2> QED BY <2>3, <2>4
<1>8. CASE StopSet(c)
  <2>1. \A i \in Slots : [jobs[i] EXCEPT !.state = ST] \in Entry
    BY DEF Entry
  <2>2. PcTyped'
    BY <1>0, <1>8, GotoTyped DEF StopSet, HandlerPC
  <2> QED BY <1>8, <2>1, <2>2 DEF StopSet
<1>9. CASE StopKill(c)
  BY <1>9, EndCallTyped, KillTyped DEF StopKill
<1> QED BY <1>3, <1>4, <1>5, <1>6, <1>7, <1>8, <1>9

LEMMA HandlerTyped == ASSUME TypeOK, HandlerStep PROVE TypeOK'
  BY ReaperTyped, StopperTyped DEF HandlerStep

LEMMA DeliverTyped == ASSUME TypeOK, NEW s \in Sig, Deliver(s) PROVE TypeOK'
<1>1. PcTyped'
  <2>1. Entrance[s] \in HandlerPC /\ s \in Ctx /\ s # "main"
    BY DEF Entrance, HandlerPC, Ctx, Sig
  <2> QED BY <2>1, GotoTyped DEF Deliver
<1>2. cur' \in Ctx /\ ret' \in [Sig -> Ctx] /\ pending' \subseteq Sig
  BY DEF Deliver, TypeOK, Ctx
<1>3. UNCHANGED <<table, arg, slot, mode, chldblocked, status, proc, bounds>>
  BY DEF Deliver
<1> QED BY <1>1, <1>2, <1>3 DEF TypeOK, PcTyped, table, bounds

LEMMA SilentlyTyped ==
  ASSUME TypeOK, NEW p \in Pid, NEW c \in Process, Silently(p, c) \/ Notifying(p, c)
  PROVE  TypeOK'
  BY DEF TypeOK, Silently, Notifying, shellSide, bounds, Sig

LEMMA EnvironmentTyped == ASSUME TypeOK, Environment PROVE TypeOK'
<1>1. \A p \in Pid : proc[p] \in Process
  BY DEF TypeOK
<1>2. ASSUME NEW p \in Pid, ChildSetpgid(p) PROVE TypeOK'
  <2>1. [proc[p] EXCEPT !.st = "grouped"] \in Process
    BY <1>1, ProcessTyped
  <2> QED BY <1>2, <2>1, SilentlyTyped DEF ChildSetpgid
<1>3. ASSUME NEW p \in Pid, ChildExec(p) PROVE TypeOK'
  <2>1. [proc[p] EXCEPT !.st = "running"] \in Process /\ Terminated(proc[p], "exit") \in Process
    BY <1>1, ProcessTyped
  <2> QED BY <1>3, <2>1, SilentlyTyped DEF ChildExec
<1>4. ASSUME NEW p \in Pid, NEW s, ChildHandles(p, s) PROVE TypeOK'
  <2>1. [proc[p] EXCEPT !.sigs = @ \ {s}] \in Process
    BY <1>1, ProcessTyped
  <2> QED BY <1>4, <2>1, SilentlyTyped DEF ChildHandles
<1>5. ASSUME NEW p \in Pid, NEW s, ProgTakes(p, s) PROVE TypeOK'
  <2>1. /\ [proc[p] EXCEPT !.sigs = @ \ {s}] \in Process
        /\ Terminated(proc[p], "INT") \in Process /\ Stopped(proc[p]) \in Process
    BY <1>1, ProcessTyped
  <2> QED BY <1>5, <2>1, SilentlyTyped DEF ProgTakes
<1>6. ASSUME NEW p \in Pid, ProgExit(p) PROVE TypeOK'
  <2>1. Terminated(proc[p], "exit") \in Process
    BY <1>1, ProcessTyped
  <2> QED BY <1>6, <2>1, SilentlyTyped DEF ProgExit
<1>7. ASSUME NEW p \in Pid, NEW s \in {"INT", "STOP", "CONT", "OTHER"}, ExtSignal(p, s)
      PROVE  TypeOK'
  <2>1. /\ \A q \in Pid : Terminated(proc[q], "OTHER") \in Process
        /\ \A q \in Pid : Signalled(proc[q], s) \in Process
    BY <1>1, ProcessTyped
  <2>2. proc' \in [Pid -> Process]
    BY <1>7, <2>1 DEF ExtSignal, TypeOK
  <2>3. pending' \subseteq Sig
    BY <1>7 DEF ExtSignal, TypeOK, Sig
  <2>4. ext' \in 0..MaxExt
    <3>1. ext > 0 /\ ext' = ext - 1
      BY <1>7 DEF ExtSignal
    <3> QED BY <3>1, BoundAssumption DEF TypeOK
  <2>5. UNCHANGED <<shellSide, keys>>
    BY <1>7 DEF ExtSignal
  <2> QED BY <2>2, <2>3, <2>4, <2>5 DEF TypeOK, shellSide
<1>8. ASSUME NEW s \in {"SIGINT", "SIGTSTP"}, Key(s) PROVE TypeOK'
  <2>1. pending' \subseteq Sig
    BY <1>8 DEF Key, TypeOK, Sig
  <2>2. keys' \in 0..MaxKeys
    <3>1. keys > 0 /\ keys' = keys - 1
      BY <1>8 DEF Key
    <3> QED BY <3>1, BoundAssumption DEF TypeOK
  <2>3. UNCHANGED <<shellSide, proc, ext>>
    BY <1>8 DEF Key
  <2> QED BY <2>1, <2>2, <2>3 DEF TypeOK, shellSide
<1> QED BY <1>2, <1>3, <1>4, <1>5, <1>6, <1>7, <1>8 DEF Environment, ChildStep

-----------------------------------------------------------------------------
(* Who may change what.  main() runs only when it is the running context,   *)
(* a handler leaves main()'s locals alone, and the environment touches the  *)
(* processes and the pending signals only.                                  *)

mainSide == <<pc["main"], arg["main"], slot["main"], mode, chldblocked>>

LEMMA EnvironmentFrame == ASSUME Environment PROVE UNCHANGED shellSide
<1> USE DEF Silently, Notifying
<1>1. ASSUME NEW p \in Pid, ChildStep(p) PROVE UNCHANGED shellSide
  BY <1>1 DEF ChildStep, ChildSetpgid, ChildExec, ChildHandles, ProgTakes
<1>2. ASSUME NEW p \in Pid, ProgExit(p) PROVE UNCHANGED shellSide
  BY <1>2 DEF ProgExit
<1>3. ASSUME NEW p \in Pid, NEW s, ExtSignal(p, s) PROVE UNCHANGED shellSide
  BY <1>3 DEF ExtSignal
<1>4. ASSUME NEW s, Key(s) PROVE UNCHANGED shellSide
  BY <1>4 DEF Key
<1> QED BY <1>1, <1>2, <1>3, <1>4 DEF Environment

LEMMA DeliverFrame == ASSUME TypeOK, NEW s \in Sig, Deliver(s) PROVE UNCHANGED mainSide
  BY DEF TypeOK, Deliver, Goto, mainSide, Ctx, Sig

LEMMA EndCallFrame ==
  ASSUME TypeOK, NEW c \in Sig, EndCall(c) \/ Return(c)
  PROVE  UNCHANGED <<pc["main"], arg["main"], slot["main"]>>
  BY DEF TypeOK, EndCall, Return, Goto, Drop, Ctx, Sig

LEMMA HandlerFrame == ASSUME TypeOK, HandlerStep PROVE UNCHANGED mainSide
<1> USE DEF TypeOK, Goto, Drop, mainSide, Ctx, Sig
<1>1. ASSUME NEW p \in Pid,
             ReapExited(p) \/ ReapInterrupted(p) \/ ReapKilled(p) \/ ReportStopped(p)
      PROVE  UNCHANGED mainSide
  BY <1>1 DEF ReapExited, ReapInterrupted, ReapKilled, ReportStopped
<1>2. CASE ReapDelete
  BY <1>2 DEF ReapDelete
<1>3. CASE NoneWaitable
  BY <1>3, EndCallFrame DEF NoneWaitable
<1>4. ASSUME NEW c \in Sig, IntFg(c) \/ StopFg(c) PROVE UNCHANGED mainSide
  BY <1>4, EndCallFrame DEF IntFg, StopFg
<1>5. ASSUME NEW c \in Sig, IntKill(c) \/ StopKill(c) PROVE UNCHANGED mainSide
  BY <1>5, EndCallFrame DEF IntKill, StopKill
<1>6. ASSUME NEW c \in Sig, IntDelete(c) \/ StopJob(c) \/ StopSet(c) PROVE UNCHANGED mainSide
  BY <1>6 DEF IntDelete, StopJob, StopSet
<1> QED BY <1>1, <1>2, <1>3, <1>4, <1>5, <1>6 DEF HandlerStep

LEMMA MainFrame ==
  ASSUME TypeOK, MainStep \/ \E m \in {FG, BG} : ReadLaunch(m) \/ ReadBgFg(m) \/ ReadBadId(m)
  PROVE  /\ cur = "main" /\ status = "up"
         /\ UNCHANGED <<nesting, pending>>
         /\ \A s \in Sig : UNCHANGED <<pc[s], arg[s], slot[s]>>
<1> USE DEF TypeOK, Goto, Drop, At, ToPrompt, Ctx, Sig, nesting
<1>1. ASSUME NEW m \in {FG, BG}, ReadLaunch(m) \/ ReadBgFg(m) \/ ReadBadId(m)
      PROVE  /\ cur = "main" /\ status = "up"
             /\ UNCHANGED <<nesting, pending>>
             /\ \A s \in Sig : UNCHANGED <<pc[s], arg[s], slot[s]>>
  BY <1>1 DEF ReadLaunch, ReadBgFg, ReadBadId
<1>2. CASE Fork
  BY <1>2 DEF Fork
<1>3. CASE AddSlot
  BY <1>3 DEF AddSlot
<1>4. CASE AddState \/ AddJid \/ WrapJid
  BY <1>4 DEF AddState, AddJid, WrapJid
<1>5. CASE Unmask \/ WaitFg
  BY <1>5 DEF Unmask, WaitFg
<1>6. CASE SetState \/ Cont \/ ContWait
  BY <1>6 DEF SetState, Cont, ContWait
<1> QED BY <1>1, <1>2, <1>3, <1>4, <1>5, <1>6 DEF MainStep

-----------------------------------------------------------------------------
(* The typing invariant.                                                    *)

LEMMA PointerHeldStep == ASSUME TypeInv, Next PROVE PointerHeld'
<1> TypeOK /\ PointerHeld
  BY DEF TypeInv
<1> DEFINE working == {"addstate", "addjid", "setstate", "cont", "contwait"}
<1>1. CASE Environment
  BY <1>1, EnvironmentFrame DEF shellSide, PointerHeld
<1>2. CASE HandlerStep
  BY <1>2, HandlerFrame DEF mainSide, PointerHeld
<1>3. ASSUME NEW s \in Sig, Deliver(s) PROVE PointerHeld'
  BY <1>3, DeliverFrame DEF mainSide, PointerHeld
<1>4. CASE Ended \/ Quit
  BY <1>4 DEF Ended, Quit, vars, PointerHeld
<1>5. CASE Command
  <2> USE DEF PointerHeld, TypeOK, At, Goto, Ctx
  <2>1. ASSUME NEW m \in {FG, BG}, ReadLaunch(m) PROVE PointerHeld'
    BY <2>1 DEF ReadLaunch
  <2>2. ASSUME NEW m \in {FG, BG}, ReadBgFg(m) PROVE PointerHeld'
    BY <2>2 DEF ReadBgFg
  <2>3. ASSUME NEW m \in {FG, BG}, ReadBadId(m) PROVE PointerHeld'
    BY <2>3 DEF ReadBadId
  <2> QED BY <1>4, <1>5, <2>1, <2>2, <2>3 DEF Command
<1>6. CASE MainStep
  <2> USE DEF PointerHeld, TypeOK, At, Goto, Ctx
  <2>1. CASE AddSlot
    <3>1. PICK i : i = free_slot(jobs)
      OBVIOUS
    <3>2. i # NULL => i \in Slots
      BY <3>1, FreeSlotFinds
    <3> QED BY <2>1, <3>1, <3>2 DEF AddSlot
  <2>2. CASE Fork \/ WrapJid \/ WaitFg \/ ContWait
    BY <2>2 DEF Fork, WrapJid, WaitFg, ContWait, ToPrompt
  <2>3. CASE AddState \/ AddJid \/ SetState
    BY <2>3 DEF AddState, AddJid, SetState
  <2>4. CASE Unmask
    BY <2>4 DEF Unmask, ToPrompt
  <2>5. CASE Cont
    BY <2>5 DEF Cont, ToPrompt
  <2> QED BY <1>6, <2>1, <2>2, <2>3, <2>4, <2>5 DEF MainStep
<1> QED BY <1>1, <1>2, <1>3, <1>4, <1>5, <1>6 DEF Next

LEMMA TypeInvStep == ASSUME TypeInv, [Next]_vars PROVE TypeInv'
<1> TypeOK
  BY DEF TypeInv
<1>1. CASE Next
  <2>1. TypeOK'
    <3>1. CASE Ended
      BY <3>1 DEF Ended, vars, TypeOK
    <3>2. ASSUME NEW s \in Sig, Deliver(s) PROVE TypeOK'
      BY <3>2, DeliverTyped
    <3> QED BY <1>1, <3>1, <3>2, CommandTyped, MainTyped, HandlerTyped, EnvironmentTyped
        DEF Next
  <2> QED BY <1>1, <2>1, PointerHeldStep DEF TypeInv
<1>2. CASE UNCHANGED vars
  BY <1>2 DEF vars, TypeInv, TypeOK, PointerHeld
<1> QED BY <1>1, <1>2

LEMMA TypeInvInit == Init => TypeInv
  BY InitTyped DEF Init, TypeInv, PointerHeld, Ctx

\* The variables keep their types: in particular fgpid, get_job_pid and
\* delete_job, whatever the handlers do, leave a list of entries behind, and
\* nextjid stays a natural number.
THEOREM TypeCorrect == Spec => []TypeOK
<1>1. TypeInv => TypeOK
  BY DEF TypeInv
<1> QED BY TypeInvInit, TypeInvStep, <1>1, PTL DEF Spec

LEMMA TypeInvAlways == Spec => []TypeInv
  BY TypeInvInit, TypeInvStep, PTL DEF Spec

-----------------------------------------------------------------------------
(* No child is forgotten.  The property is inductive: only the environment  *)
(* makes a child waitable, and it sends SIGCHLD; the handler leaves its     *)
(* loop only when no child is.                                              *)

SomeWaitable == \E p \in Pid : Waitable(proc[p])

LEMMA SignalledNotWaitable ==
  ASSUME NEW c \in Process, NEW s, Waitable(Signalled(c, s))
  PROVE  Waitable(c)
  BY DEF Signalled, Waitable, Process, Alive

LEMMA KillNotWaitable ==
  ASSUME TypeOK, NEW pid, NEW s, Kill(pid, s), SomeWaitable'
  PROVE  SomeWaitable
<1>1. CASE proc' = proc
  BY <1>1 DEF SomeWaitable
<1>2. CASE proc' = [proc EXCEPT ![pid] = Signalled(@, s)]
  <2>1. PICK p \in Pid : Waitable(proc'[p])
    BY DEF SomeWaitable
  <2>2. proc'[p] = proc[p] \/ proc'[p] = Signalled(proc[p], s)
    BY <1>2 DEF TypeOK
  <2>3. proc[p] \in Process
    BY DEF TypeOK
  <2> QED BY <2>1, <2>2, <2>3, SignalledNotWaitable DEF SomeWaitable
<1> QED BY <1>1, <1>2 DEF Kill

LEMMA NoForgottenChildStep ==
  ASSUME TypeInv, NoForgottenChild, [Next]_vars
  PROVE  NoForgottenChild'
<1> SUFFICES ASSUME status' = "up", SomeWaitable'
             PROVE  "SIGCHLD" \in pending' \/ pc'["SIGCHLD"] # "idle"
  BY DEF NoForgottenChild, SomeWaitable
<1> DEFINE Known == "SIGCHLD" \in pending \/ pc["SIGCHLD"] # "idle"
<1>1. TypeOK /\ "SIGCHLD" \in Sig /\ "SIGCHLD" \in Ctx
  BY DEF TypeInv, Sig, Ctx
<1>2. ASSUME status = "up", SomeWaitable PROVE Known
  BY <1>2 DEF NoForgottenChild, SomeWaitable
<1>3. CASE Environment
  <2>1. pc' = pc /\ status' = status
    BY <1>3, EnvironmentFrame DEF shellSide
  <2>2. pending \subseteq pending' /\ (SomeWaitable \/ "SIGCHLD" \in pending')
    <3>1. ASSUME NEW p \in Pid, NEW c, Notifying(p, c)
          PROVE  pending \subseteq pending' /\ "SIGCHLD" \in pending'
      BY <3>1 DEF Notifying
    <3>2. ASSUME NEW p \in Pid, NEW c, ~Waitable(c), Silently(p, c)
          PROVE  pending' = pending /\ SomeWaitable
      <4>1. PICK q \in Pid : Waitable(proc'[q])
        BY DEF SomeWaitable
      <4>2. proc' = [proc EXCEPT ![p] = c] /\ pending' = pending
        BY <3>2 DEF Silently
      <4>3. proc'[q] = proc[q]
        BY <1>1, <3>2, <4>1, <4>2 DEF TypeOK
      <4> QED BY <4>1, <4>2, <4>3 DEF SomeWaitable
    <3>3. ASSUME NEW p \in Pid, ChildStep(p) \/ ProgExit(p)
          PROVE  pending \subseteq pending' /\ (SomeWaitable \/ "SIGCHLD" \in pending')
      <4>1. proc[p] \in Process
        BY <1>1 DEF TypeOK
      <4>2. CASE ChildSetpgid(p)
        <5>1. ~Waitable([proc[p] EXCEPT !.st = "grouped"])
          BY <4>1 DEF Waitable, Process
        <5> QED BY <4>2, <5>1, <3>2 DEF ChildSetpgid
      <4>3. CASE ChildExec(p)
        <5>1. ~Waitable([proc[p] EXCEPT !.st = "running"])
          BY <4>1 DEF Waitable, Process
        <5> QED BY <4>3, <5>1, <3>1, <3>2 DEF ChildExec
      <4>4. ASSUME NEW s, ChildHandles(p, s) PROVE pending' = pending /\ SomeWaitable
        <5>1. ~Waitable([proc[p] EXCEPT !.sigs = @ \ {s}])
          BY <4>1, <4>4 DEF Waitable, Process, ChildHandles
        <5> QED BY <4>4, <5>1, <3>2 DEF ChildHandles
      <4>5. ASSUME NEW s, ProgTakes(p, s)
            PROVE  pending \subseteq pending' /\ (SomeWaitable \/ "SIGCHLD" \in pending')
        <5>1. ~Waitable([proc[p] EXCEPT !.sigs = @ \ {s}])
          BY <4>1, <4>5 DEF Waitable, Process, ProgTakes
        <5> QED BY <4>5, <5>1, <3>1, <3>2 DEF ProgTakes
      <4>6. CASE ProgExit(p)
        BY <4>6, <3>1 DEF ProgExit
      <4> QED BY <3>3, <4>2, <4>3, <4>4, <4>5, <4>6 DEF ChildStep
    <3>4. ASSUME NEW p \in Pid, NEW s, ExtSignal(p, s)
          PROVE  pending \subseteq pending' /\ (SomeWaitable \/ "SIGCHLD" \in pending')
      <4>1. CASE s = "OTHER"
        BY <3>4, <4>1 DEF ExtSignal
      <4>2. CASE s # "OTHER"
        <5>1. proc' = [proc EXCEPT ![p] = Signalled(@, s)] /\ pending' = pending
          BY <3>4, <4>2 DEF ExtSignal
        <5>2. PICK q \in Pid : Waitable(proc'[q])
          BY DEF SomeWaitable
        <5>3. proc[q] \in Process /\ (proc'[q] = proc[q] \/ proc'[q] = Signalled(proc[q], s))
          BY <1>1, <5>1 DEF TypeOK
        <5> QED BY <5>1, <5>2, <5>3, SignalledNotWaitable DEF SomeWaitable
      <4> QED BY <4>1, <4>2
    <3>5. ASSUME NEW s, Key(s) PROVE pending \subseteq pending' /\ SomeWaitable
      BY <3>5 DEF Key, SomeWaitable
    <3> QED BY <1>3, <3>3, <3>4, <3>5 DEF Environment
  <2> QED BY <1>2, <2>1, <2>2
<1>4. ASSUME NEW s \in Sig, Deliver(s)
      PROVE  "SIGCHLD" \in pending' \/ pc'["SIGCHLD"] # "idle"
  <2>1. status = "up" /\ SomeWaitable
    BY <1>4 DEF Deliver, SomeWaitable
  <2>2. CASE s = "SIGCHLD"
    BY <1>1, <1>4, <2>2 DEF Deliver, Goto, Entrance, TypeOK
  <2>3. CASE s # "SIGCHLD"
    BY <1>1, <1>2, <1>4, <2>1, <2>3 DEF Deliver, Goto, TypeOK
  <2> QED BY <2>2, <2>3
<1>5. CASE Command \/ MainStep
  <2>1. CASE Quit
    BY <2>1 DEF Quit
  <2>2. ASSUME NEW m \in {FG, BG}, ReadLaunch(m) \/ ReadBgFg(m) \/ ReadBadId(m)
        PROVE  SomeWaitable
    BY <2>2 DEF ReadLaunch, ReadBgFg, ReadBadId, SomeWaitable
  <2>3. ASSUME MainStep PROVE SomeWaitable
    <3>1. CASE Fork
      <4>1. PICK q \in Pid : Waitable(proc'[q])
        BY DEF SomeWaitable
      <4>2. proc[q] \in Process
        BY <1>1 DEF TypeOK
      <4>3. proc'[q] = proc[q]
        BY <1>1, <3>1, <4>1, <4>2 DEF Fork, TypeOK, Waitable, Process
      <4> QED BY <4>1, <4>3 DEF SomeWaitable
    <3>2. CASE Cont
      BY <1>1, <3>2, KillNotWaitable DEF Cont
    <3>3. CASE AddSlot
      BY <3>3 DEF AddSlot, SomeWaitable
    <3>4. CASE AddState \/ AddJid \/ WrapJid \/ Unmask \/ WaitFg \/ SetState \/ ContWait
      BY <3>4 DEF AddState, AddJid, WrapJid, Unmask, WaitFg, SetState, ContWait, SomeWaitable
    <3> QED BY <2>3, <3>1, <3>2, <3>3, <3>4 DEF MainStep
  <2>4. CASE ~Quit
    <3>1. SomeWaitable
      BY <1>5, <2>2, <2>3, <2>4 DEF Command
    <3>2. /\ status = "up" /\ pending' = pending
          /\ pc'["SIGCHLD"] = pc["SIGCHLD"]
      BY <1>1, <1>5, <2>4, MainFrame DEF Command
    <3> QED BY <1>2, <3>1, <3>2
  <2> QED BY <2>1, <2>4
<1>6. CASE HandlerStep
  <2>1. CASE NoneWaitable
    BY <2>1 DEF NoneWaitable, SomeWaitable
  <2>2. CASE ReapDelete
    BY <1>1, <2>2 DEF ReapDelete, Goto, TypeOK
  <2>3. ASSUME NEW p \in Pid,
               ReapExited(p) \/ ReapInterrupted(p) \/ ReapKilled(p) \/ ReportStopped(p)
        PROVE  pc'["SIGCHLD"] # "idle"
    BY <1>1, <2>3 DEF ReapExited, ReapInterrupted, ReapKilled, ReportStopped, Goto, TypeOK, At
  <2>4. ASSUME NEW c \in Sig,
               \/ IntFg(c) \/ IntDelete(c) \/ IntKill(c)
               \/ StopFg(c) \/ StopJob(c) \/ StopSet(c) \/ StopKill(c)
        PROVE  "SIGCHLD" \in pending' \/ pc'["SIGCHLD"] # "idle"
    <3>1. status = "up" /\ pending' = pending
      BY <2>4 DEF IntFg, IntDelete, IntKill, StopFg, StopJob, StopSet, StopKill, At
    <3>2. SomeWaitable
      <4>1. CASE IntKill(c) \/ StopKill(c)
        BY <1>1, <4>1, KillNotWaitable DEF IntKill, StopKill
      <4>2. CASE ~(IntKill(c) \/ StopKill(c))
        BY <2>4, <4>2 DEF IntFg, IntDelete, StopFg, StopJob, StopSet, SomeWaitable
      <4> QED BY <4>1, <4>2
    <3>3. CASE c = "SIGCHLD"
      <4>1. EndCall(c) => pc'[c] # "idle"
        BY <1>1, <3>3 DEF EndCall, Goto, TypeOK
      <4>2. \A l : Goto(c, l) => pc'[c] = l
        BY <1>1, <3>3 DEF Goto, TypeOK
      <4>3. pc[c] # "idle"
        BY <2>4 DEF IntFg, IntDelete, IntKill, StopFg, StopJob, StopSet, StopKill, At
      <4>4. CASE IntFg(c) \/ StopFg(c)
        BY <3>3, <4>1, <4>2, <4>4 DEF IntFg, StopFg
      <4>5. CASE IntKill(c) \/ StopKill(c)
        BY <3>3, <4>1, <4>5 DEF IntKill, StopKill
      <4>6. CASE IntDelete(c) \/ StopSet(c) \/ StopJob(c)
        BY <3>3, <4>2, <4>3, <4>6 DEF IntDelete, StopSet, StopJob
      <4> QED BY <2>4, <4>4, <4>5, <4>6
    <3>4. CASE c # "SIGCHLD"
      <4>1. EndCall(c) => pc'["SIGCHLD"] = pc["SIGCHLD"]
        BY <1>1, <3>4 DEF EndCall, Return, Goto, TypeOK
      <4>2. \A l : Goto(c, l) => pc'["SIGCHLD"] = pc["SIGCHLD"]
        BY <1>1, <3>4 DEF Goto, TypeOK
      <4>3. pc'["SIGCHLD"] = pc["SIGCHLD"]
        BY <2>4, <4>1, <4>2
        DEF IntFg, IntDelete, IntKill, StopFg, StopJob, StopSet, StopKill
      <4> QED BY <1>2, <3>1, <3>2, <4>3
    <3> QED BY <3>3, <3>4
  <2> QED BY <1>6, <2>1, <2>2, <2>3, <2>4 DEF HandlerStep
<1>7. CASE Ended \/ UNCHANGED vars
  <2>1. status = "up" /\ SomeWaitable /\ pending' = pending /\ pc' = pc
    BY <1>7 DEF Ended, vars, SomeWaitable
  <2> QED BY <1>2, <2>1
<1> QED BY <1>3, <1>4, <1>5, <1>6, <1>7 DEF Next

\* sigchld_handler "reaps all available zombie children" although signals
\* merge: a child that waitpid would return always has a pending SIGCHLD or
\* a running handler that has yet to look.
THEOREM NoChildIsForgotten == Spec => []NoForgottenChild
<1>1. Init => NoForgottenChild
  BY DEF Init, NoForgottenChild, NoProcess, Waitable
<1> QED BY <1>1, TypeInvAlways, NoForgottenChildStep, PTL DEF Spec

-----------------------------------------------------------------------------
(* The foreground.  The induction follows the foreground entry: it is the   *)
(* one main() points to, and until main() leaves waitfg its pid is the one  *)
(* main() waits for.  That a handler does not take the entry away while     *)
(* add_job fills it rests on two facts about handlers: they nest, so that   *)
(* none is active while main() runs, and one that is about to change an     *)
(* entry found a foreground job when it started.                            *)

active == {s \in Sig : pc[s] # "idle"}

\* The handlers that are active, from the one that interrupted main() to
\* the one that runs.
Nested ==
  \/ cur = "main" /\ active = {}
  \/ \E a \in Sig :
        cur = a /\ ret[a] = "main" /\ active = {a}
  \/ \E a, b \in Sig :
        a # b /\ cur = b /\ ret[b] = a /\ ret[a] = "main" /\ active = {a, b}
  \/ \E a, b, c \in Sig :
        /\ a # b /\ b # c /\ a # c /\ active = {a, b, c}
        /\ cur = c /\ ret[c] = b /\ ret[b] = a /\ ret[a] = "main"

\* From the launch to Unmask sigchld_handler neither runs nor can start.
Masked ==
  pc["main"] \in {"fork", "addslot", "addstate", "addjid", "wrapjid", "unmask"}
      => chldblocked /\ pc["SIGCHLD"] = "idle"

\* Where main() may be while a job is in the foreground.
FgPC == {"addjid", "wrapjid", "unmask", "waitfg", "cont", "contwait"}

ForegroundHeld ==
  \A i \in Slots : jobs[i].state = FG =>
      /\ i = slot["main"] /\ pc["main"] \in FgPC
      /\ pc["main"] \in {"addjid", "wrapjid", "unmask", "cont"} => mode = FG
      /\ pc["main"] \in {"addjid", "wrapjid", "unmask", "waitfg"}
            => jobs[i].pid = arg["main"]

\* No handler has touched the entry that add_job is about to give a state.
EntryKept == pc["main"] = "addstate" => jobs[slot["main"]].pid = arg["main"]

\* A handler that is going to change an entry found a foreground job.
FoundForeground ==
  \A c \in Sig : pc[c] \in {"intdel", "stopjob", "stopset"} => pc["main"] \in FgPC

ForegroundInv ==
  /\ TypeInv
  /\ Nested
  /\ Masked
  /\ ForegroundHeld
  /\ EntryKept
  /\ FoundForeground

-----------------------------------------------------------------------------
(* Handlers nest.                                                           *)

LEMMA NestedMove ==
  ASSUME Nested, cur' = cur, ret' = ret, active' = active
  PROVE  Nested'
  BY DEF Nested

LEMMA NestedPush ==
  ASSUME TypeOK, Nested, NEW s \in Sig, Deliver(s)
  PROVE  Nested'
<1>1. s \notin active
  BY DEF Deliver, active
<1>2. active' = active \cup {s}
  BY DEF Deliver, active, Goto, TypeOK, Entrance, Sig, Ctx
<1>3. cur' = s /\ ret' = [ret EXCEPT ![s] = cur] /\ ret \in [Sig -> Ctx]
  BY DEF Deliver, TypeOK
<1> HIDE DEF active
<1>4. CASE cur = "main" /\ active = {}
  BY <1>1, <1>2, <1>3, <1>4 DEF Nested
<1>5. ASSUME NEW a \in Sig, cur = a, ret[a] = "main", active = {a}
      PROVE  Nested'
  <2>1. a # s /\ ret'[s] = a /\ ret'[a] = "main" /\ active' = {a, s}
    BY <1>1, <1>2, <1>3, <1>5
  <2> QED BY <1>3, <2>1 DEF Nested
<1>6. ASSUME NEW a \in Sig, NEW b \in Sig, a # b, cur = b, ret[b] = a, ret[a] = "main",
             active = {a, b}
      PROVE  Nested'
  <2>1. /\ a # s /\ b # s /\ ret'[s] = b /\ ret'[b] = a /\ ret'[a] = "main"
        /\ active' = {a, b, s}
    BY <1>1, <1>2, <1>3, <1>6
  <2> QED BY <1>3, <1>6, <2>1 DEF Nested
<1>7. ASSUME NEW a \in Sig, NEW b \in Sig, NEW c \in Sig,
             a # b, b # c, a # c, active = {a, b, c}
      PROVE  FALSE
  BY <1>1, <1>7 DEF Sig
<1> QED BY <1>4, <1>5, <1>6, <1>7 DEF Nested

LEMMA NestedPop ==
  ASSUME TypeOK, Nested, NEW c \in Sig, cur = c, Return(c)
  PROVE  Nested'
<1>1. active' = active \ {c}
  BY DEF Return, active, Goto, TypeOK, Ctx
<1>2. cur' = ret[c] /\ ret' = [ret EXCEPT ![c] = "main"] /\ ret \in [Sig -> Ctx]
  BY DEF Return, TypeOK
<1> HIDE DEF active
<1>3. c # "main"
  BY DEF Sig
<1>4. CASE ret[c] = "main" /\ active = {c}
  BY <1>1, <1>2, <1>4 DEF Nested
<1>5. ASSUME NEW a \in Sig, a # c, ret[c] = a, ret[a] = "main", active = {a, c}
      PROVE  Nested'
  <2>1. cur' = a /\ ret'[a] = "main" /\ active' = {a}
    BY <1>1, <1>2, <1>5
  <2> QED BY <2>1 DEF Nested
<1>6. ASSUME NEW a \in Sig, NEW b \in Sig, a # b, b # c, a # c, active = {a, b, c},
             ret[c] = b, ret[b] = a, ret[a] = "main"
      PROVE  Nested'
  <2>1. cur' = b /\ ret'[b] = a /\ ret'[a] = "main" /\ active' = {a, b}
    BY <1>1, <1>2, <1>6
  <2> QED BY <1>6, <2>1 DEF Nested
<1> QED BY <1>3, <1>4, <1>5, <1>6 DEF Nested

LEMMA NestedMain == ASSUME Nested, cur = "main" PROVE active = {}
  BY DEF Nested, Sig

LEMMA EndCallNested ==
  ASSUME TypeOK, Nested, NEW c \in Sig, cur = c, pc[c] # "idle", EndCall(c)
  PROVE  Nested'
<1>1. CASE c = "SIGCHLD" /\ Goto(c, "wait") /\ UNCHANGED nesting
  <2>1. active' = active
    BY <1>1 DEF active, Goto, TypeOK, Ctx
  <2> QED BY <1>1, <2>1, NestedMove DEF nesting
<1>2. CASE Return(c)
  BY <1>2, NestedPop
<1> QED BY <1>1, <1>2 DEF EndCall

LEMMA GotoKeepsActive ==
  ASSUME TypeOK, NEW c \in Sig, pc[c] # "idle", NEW l, l # "idle", Goto(c, l)
  PROVE  active' = active
  BY DEF active, Goto, TypeOK, Ctx

LEMMA NestedStep == ASSUME TypeInv, Nested, [Next]_vars PROVE Nested'
<1> TypeOK
  BY DEF TypeInv
<1>1. CASE Environment
  <2>1. pc' = pc /\ cur' = cur /\ ret' = ret
    BY <1>1, EnvironmentFrame DEF shellSide
  <2> QED BY <2>1, NestedMove DEF active
<1>2. CASE Quit \/ Ended \/ UNCHANGED vars
  <2>1. pc' = pc /\ cur' = cur /\ ret' = ret
    BY <1>2 DEF Quit, Ended, vars, nesting
  <2> QED BY <2>1, NestedMove DEF active
<1>3. CASE (Command /\ ~Quit) \/ MainStep
  <2>1. UNCHANGED nesting /\ \A s \in Sig : pc'[s] = pc[s]
    BY <1>3, MainFrame DEF Command
  <2>2. active' = active
    BY <2>1 DEF active
  <2> QED BY <2>1, <2>2, NestedMove DEF nesting
<1>4. ASSUME NEW s \in Sig, Deliver(s) PROVE Nested'
  BY <1>4, NestedPush
<1>5. CASE HandlerStep
  <2>1. CASE NoneWaitable
    BY <2>1, NestedPop DEF NoneWaitable, At, Sig
  <2>2. ASSUME NEW p \in Pid,
               ReapExited(p) \/ ReapInterrupted(p) \/ ReportStopped(p)
        PROVE  Nested'
    <3>1. UNCHANGED nesting /\ pc["SIGCHLD"] # "idle" /\ "SIGCHLD" \in Sig
      BY <2>2 DEF ReapExited, ReapInterrupted, ReportStopped, At, Sig
    <3>2. \E l : l # "idle" /\ Goto("SIGCHLD", l)
      BY <2>2 DEF ReapExited, ReapInterrupted, ReportStopped
    <3>3. active' = active
      BY <3>1, <3>2, GotoKeepsActive
    <3> QED BY <3>1, <3>3, NestedMove DEF nesting
  <2>3. ASSUME NEW p \in Pid, ReapKilled(p) PROVE Nested'
    BY <2>3, NestedMove DEF ReapKilled, nesting, active
  <2>4. CASE ReapDelete
    <3>1. UNCHANGED nesting /\ pc["SIGCHLD"] # "idle" /\ "SIGCHLD" \in Sig
      BY <2>4 DEF ReapDelete, At, Sig
    <3>2. active' = active
      BY <2>4, <3>1, GotoKeepsActive DEF ReapDelete
    <3> QED BY <3>1, <3>2, NestedMove DEF nesting
  <2>5. ASSUME NEW c \in Sig, IntFg(c) \/ StopFg(c) \/ IntKill(c) \/ StopKill(c)
        PROVE  Nested'
    <3>1. cur = c /\ pc[c] # "idle"
      BY <2>5 DEF IntFg, StopFg, IntKill, StopKill, At
    <3>2. CASE EndCall(c)
      BY <3>1, <3>2, EndCallNested
    <3>3. CASE ~EndCall(c)
      <4>1. UNCHANGED nesting /\ (Goto(c, "intdel") \/ Goto(c, "stopjob"))
        BY <2>5, <3>3 DEF IntFg, StopFg, IntKill, StopKill
      <4>2. active' = active
        BY <3>1, <4>1, GotoKeepsActive
      <4> QED BY <4>1, <4>2, NestedMove DEF nesting
    <3> QED BY <3>2, <3>3
  <2>6. ASSUME NEW c \in Sig, IntDelete(c) \/ StopJob(c) \/ StopSet(c)
        PROVE  Nested'
    <3>1. cur = c /\ pc[c] # "idle" /\ UNCHANGED nesting
      BY <2>6 DEF IntDelete, StopJob, StopSet, At
    <3>2. active' = active
      <4>1. CASE IntDelete(c)
        BY <3>1, <4>1, GotoKeepsActive DEF IntDelete
      <4>2. CASE StopSet(c)
        BY <3>1, <4>2, GotoKeepsActive DEF StopSet
      <4>3. CASE StopJob(c)
        <5>1. pc' = pc \/ Goto(c, "stopset")
          BY <4>3 DEF StopJob
        <5> QED BY <3>1, <5>1, GotoKeepsActive DEF active
      <4> QED BY <2>6, <4>1, <4>2, <4>3
    <3> QED BY <3>1, <3>2, NestedMove DEF nesting
  <2> QED BY <1>5, <2>1, <2>2, <2>3, <2>4, <2>5, <2>6 DEF HandlerStep
<1> QED BY <1>1, <1>2, <1>3, <1>4, <1>5 DEF Next

-----------------------------------------------------------------------------
(* What a step of a handler does to the list and to the handlers.           *)

\* A handler clears entries or stops them; it puts none in the foreground.
LEMMA HandlerJobs ==
  ASSUME TypeOK, HandlerStep
  PROVE  \A i \in Slots : jobs'[i] = jobs[i] \/ jobs'[i].state # FG
<1>1. Empty.state # FG /\ ST # FG
  BY DEF Empty, UNDEF, FG, ST
<1>2. CASE UNCHANGED jobs
  BY <1>2
<1>3. ASSUME NEW c \in Ctx, jobs' = delete_job(jobs, arg[c])
      PROVE  \A i \in Slots : jobs'[i] = jobs[i] \/ jobs'[i].state # FG
  <2>1. arg[c] \in Int /\ jobs \in [Slots -> Entry] /\ nextjid \in Nat
    BY <1>3, ArgTyped DEF TypeOK
  <2>2. \A i \in Slots : \/ delete_job(jobs, arg[c])[i] = jobs[i]
                         \/ delete_job(jobs, arg[c])[i] = Empty
    BY <2>1, DeleteClears
  <2> QED BY <1>1, <1>3, <2>2
<1>4. ASSUME NEW c \in Sig, jobs' = [jobs EXCEPT ![slot[c]].state = ST]
      PROVE  \A i \in Slots : jobs'[i] = jobs[i] \/ jobs'[i].state # FG
  <2> jobs \in [Slots -> Entry]
    BY DEF TypeOK
  <2> SUFFICES ASSUME NEW i \in Slots, i = slot[c] PROVE jobs'[i].state # FG
    BY <1>4
  <2>1. jobs'[i].state = ST
    BY <1>4 DEF Entry
  <2> QED BY <1>1, <2>1
<1>5. UNCHANGED jobs \/ ReapDelete \/ \E c \in Sig : IntDelete(c) \/ StopSet(c)
  BY DEF HandlerStep, ReapExited, ReapInterrupted, ReapKilled, ReportStopped,
         NoneWaitable, IntFg, IntKill, StopFg, StopJob, StopKill, table
<1> QED BY <1>2, <1>3, <1>4, <1>5 DEF ReapDelete, IntDelete, StopSet, Ctx, Sig

\* While add_job is between its first two assignments no handler takes the
\* pid out of an entry.
LEMMA HandlerKeepsPids ==
  ASSUME TypeOK, HandlerStep, Masked, FoundForeground, pc["main"] = "addstate"
  PROVE  \A i \in Slots : jobs'[i].pid = jobs[i].pid
<1>1. ~ReapDelete
  BY DEF ReapDelete, At, Masked
<1>2. \A c \in Sig : ~IntDelete(c)
  BY DEF IntDelete, At, FoundForeground, FgPC
<1>3. ASSUME NEW c \in Sig, StopSet(c) PROVE FALSE
  BY <1>3 DEF StopSet, At, FoundForeground, FgPC
<1> QED BY <1>1, <1>2, <1>3
  DEF HandlerStep, ReapExited, ReapInterrupted, ReapKilled, ReportStopped,
      NoneWaitable, IntFg, IntKill, StopFg, StopJob, StopKill, table

\* Only the running handler moves, and it was active.
LEMMA HandlerMoves ==
  ASSUME TypeOK, HandlerStep
  PROVE  /\ cur \in Sig /\ pc[cur] # "idle"
         /\ \A s \in Sig : s # cur => pc'[s] = pc[s]
<1> USE DEF TypeOK, Goto, At, Sig, Ctx
<1>1. ASSUME NEW p \in Pid,
             ReapExited(p) \/ ReapInterrupted(p) \/ ReapKilled(p) \/ ReportStopped(p)
      PROVE  /\ cur \in Sig /\ pc[cur] # "idle"
             /\ \A s \in Sig : s # cur => pc'[s] = pc[s]
  BY <1>1 DEF ReapExited, ReapInterrupted, ReapKilled, ReportStopped
<1>2. CASE ReapDelete
  BY <1>2 DEF ReapDelete
<1>3. CASE NoneWaitable
  BY <1>3 DEF NoneWaitable, Return
<1>4. ASSUME NEW c \in Sig, EndCall(c), cur = c
      PROVE  \A s \in Sig : s # cur => pc'[s] = pc[s]
  BY <1>4 DEF EndCall, Return
<1>5. ASSUME NEW c \in Sig, IntFg(c) \/ StopFg(c)
      PROVE  /\ cur \in Sig /\ pc[cur] # "idle"
             /\ \A s \in Sig : s # cur => pc'[s] = pc[s]
  BY <1>4, <1>5 DEF IntFg, StopFg
<1>6. ASSUME NEW c \in Sig, IntKill(c) \/ StopKill(c)
      PROVE  /\ cur \in Sig /\ pc[cur] # "idle"
             /\ \A s \in Sig : s # cur => pc'[s] = pc[s]
  BY <1>4, <1>6 DEF IntKill, StopKill
<1>7. ASSUME NEW c \in Sig, IntDelete(c) \/ StopJob(c) \/ StopSet(c)
      PROVE  /\ cur \in Sig /\ pc[cur] # "idle"
             /\ \A s \in Sig : s # cur => pc'[s] = pc[s]
  BY <1>7 DEF IntDelete, StopJob, StopSet
<1> QED BY <1>1, <1>2, <1>3, <1>5, <1>6, <1>7 DEF HandlerStep

\* A handler sets out to change an entry only when fgpid found one.
LEMMA HandlerFinds ==
  ASSUME TypeOK, HandlerStep, NEW c \in Sig, pc'[c] \in {"intdel", "stopjob", "stopset"}
  PROVE  pc[c] \in {"intdel", "stopjob", "stopset"} \/ fgpid(jobs) # NoPid
<1> USE DEF TypeOK, Goto, At, Sig, Ctx
<1>1. ASSUME NEW p \in Pid, ReapExited(p) \/ ReapInterrupted(p) \/ ReportStopped(p)
      PROVE  pc[c] \in {"intdel", "stopjob", "stopset"}
  BY <1>1 DEF ReapExited, ReapInterrupted, ReportStopped
<1>2. ASSUME NEW p \in Pid, ReapKilled(p)
      PROVE  pc[c] \in {"intdel", "stopjob", "stopset"}
  BY <1>2 DEF ReapKilled
<1>3. CASE ReapDelete
  BY <1>3 DEF ReapDelete
<1>4. CASE NoneWaitable
  BY <1>4 DEF NoneWaitable, Return
<1>5. ASSUME NEW d \in Sig, EndCall(d)
      PROVE  pc[c] \in {"intdel", "stopjob", "stopset"}
  BY <1>5 DEF EndCall, Return
<1>6. ASSUME NEW d \in Sig, IntFg(d) \/ StopFg(d) \/ IntKill(d) \/ StopKill(d)
      PROVE  pc[c] \in {"intdel", "stopjob", "stopset"} \/ fgpid(jobs) # NoPid
  BY <1>5, <1>6 DEF IntFg, StopFg, IntKill, StopKill
<1>7. ASSUME NEW d \in Sig, IntDelete(d) \/ StopJob(d) \/ StopSet(d)
      PROVE  pc[c] \in {"intdel", "stopjob", "stopset"}
  BY <1>7 DEF IntDelete, StopJob, StopSet
<1> QED BY <1>1, <1>2, <1>3, <1>4, <1>6, <1>7 DEF HandlerStep

-----------------------------------------------------------------------------
(* The foreground entry.                                                    *)

ForegroundParts == Masked /\ ForegroundHeld /\ EntryKept /\ FoundForeground

LEMMA ForegroundUnchanged ==
  ASSUME ForegroundParts, UNCHANGED <<jobs, pc, arg, slot, mode, chldblocked>>
  PROVE  ForegroundParts'
  BY DEF ForegroundParts, Masked, ForegroundHeld, EntryKept, FoundForeground

LEMMA ForegroundHandler ==
  ASSUME ForegroundInv, HandlerStep
  PROVE  ForegroundParts'
<1>1. /\ TypeOK /\ PointerHeld
      /\ Masked /\ ForegroundHeld /\ EntryKept /\ FoundForeground
  BY DEF ForegroundInv, TypeInv
<1>2. UNCHANGED mainSide
  BY <1>1, HandlerFrame
<1>3. cur \in Sig /\ pc[cur] # "idle" /\ \A s \in Sig : s # cur => pc'[s] = pc[s]
  BY <1>1, HandlerMoves
<1>4. Masked'
  BY <1>1, <1>2, <1>3 DEF Masked, mainSide, Sig
<1>5. ForegroundHeld'
  <2>1. \A i \in Slots : jobs'[i] = jobs[i] \/ jobs'[i].state # FG
    BY <1>1, HandlerJobs
  <2> QED BY <1>1, <1>2, <2>1 DEF ForegroundHeld, mainSide
<1>6. EntryKept'
  <2> SUFFICES ASSUME pc["main"] = "addstate"
               PROVE  jobs'[slot["main"]].pid = arg["main"]
    BY <1>2 DEF EntryKept, mainSide
  <2>1. slot["main"] \in Slots
    BY <1>1 DEF PointerHeld
  <2>2. jobs'[slot["main"]].pid = jobs[slot["main"]].pid
    BY <1>1, <2>1, HandlerKeepsPids
  <2> QED BY <1>1, <2>2 DEF EntryKept
<1>7. FoundForeground'
  <2> SUFFICES ASSUME NEW c \in Sig, pc'[c] \in {"intdel", "stopjob", "stopset"}
               PROVE  pc["main"] \in FgPC
    BY <1>2 DEF FoundForeground, mainSide
  <2>1. CASE pc[c] \in {"intdel", "stopjob", "stopset"}
    BY <1>1, <2>1 DEF FoundForeground
  <2>2. CASE fgpid(jobs) # NoPid
    <3>1. \E i \in Slots : jobs[i].state = FG
      BY <1>1, <2>2, FgpidFinds DEF TypeOK
    <3> QED BY <1>1, <3>1 DEF ForegroundHeld
  <2> QED BY <1>1, <2>1, <2>2, HandlerFinds
<1> QED BY <1>4, <1>5, <1>6, <1>7 DEF ForegroundParts

LEMMA ForegroundDeliver ==
  ASSUME ForegroundInv, NEW s \in Sig, Deliver(s)
  PROVE  ForegroundParts'
<1>1. /\ TypeOK /\ Masked /\ ForegroundHeld /\ EntryKept /\ FoundForeground
  BY DEF ForegroundInv, TypeInv
<1>2. UNCHANGED mainSide /\ UNCHANGED jobs
  BY <1>1, DeliverFrame DEF Deliver, table
<1>3. /\ \A c \in Sig : c # s => pc'[c] = pc[c]
      /\ pc'[s] \in {"intfg", "stopfg", "wait"}
      /\ s = "SIGCHLD" => ~chldblocked
  BY <1>1 DEF Deliver, Goto, TypeOK, Entrance, Sig, Ctx
<1>4. Masked'
  BY <1>1, <1>2, <1>3 DEF Masked, mainSide, Sig
<1>5. ForegroundHeld' /\ EntryKept'
  BY <1>1, <1>2 DEF ForegroundHeld, EntryKept, mainSide
<1>6. FoundForeground'
  BY <1>1, <1>2, <1>3 DEF FoundForeground, mainSide
<1> QED BY <1>4, <1>5, <1>6 DEF ForegroundParts

\* A step of main(): no handler is active, so that FoundForeground says
\* nothing and Masked only that SIGCHLD is blocked.
LEMMA ForegroundMain ==
  ASSUME ForegroundInv,
         MainStep \/ \E m \in {FG, BG} : ReadLaunch(m) \/ ReadBgFg(m) \/ ReadBadId(m)
  PROVE  ForegroundParts'
<1>1. /\ TypeOK /\ PointerHeld /\ Nested
      /\ Masked /\ ForegroundHeld /\ EntryKept
  BY DEF ForegroundInv, TypeInv
<1>2. \A s \in Sig : pc'[s] = "idle"
  BY <1>1, MainFrame, NestedMain DEF active
<1>3. FoundForeground'
  BY <1>2 DEF FoundForeground
<1>4. pc'["SIGCHLD"] = "idle"
  BY <1>2 DEF Sig
<1> DEFINE Goal == Masked' /\ ForegroundHeld' /\ EntryKept'
<1> SUFFICES Goal
  BY <1>3 DEF ForegroundParts
<1> USE DEF TypeOK, At, Goto, Ctx, table
<1>5. ASSUME pc["main"] \notin FgPC, UNCHANGED jobs,
             pc'["main"] \notin {"addslot", "addstate", "addjid", "wrapjid", "unmask"},
             pc'["main"] = "fork" => chldblocked'
      PROVE  Goal
  BY <1>1, <1>4, <1>5 DEF Masked, ForegroundHeld, EntryKept
<1>6. ASSUME NEW m \in {FG, BG}, ReadLaunch(m) \/ ReadBgFg(m) \/ ReadBadId(m)
      PROVE  Goal
  <2>1. pc["main"] = "prompt" /\ UNCHANGED jobs
    BY <1>6 DEF ReadLaunch, ReadBgFg, ReadBadId
  <2>2. pc'["main"] \in {"fork", "setstate", "prompt"} /\ (pc'["main"] = "fork" => chldblocked')
    BY <1>1, <1>6 DEF ReadLaunch, ReadBgFg, ReadBadId
  <2> QED BY <1>5, <2>1, <2>2 DEF FgPC
<1>7. CASE Fork
  <2>1. /\ pc["main"] = "fork" /\ pc'["main"] = "addslot"
        /\ UNCHANGED <<jobs, chldblocked>>
    BY <1>1, <1>7 DEF Fork
  <2> QED BY <1>1, <1>4, <2>1 DEF Masked, ForegroundHeld, EntryKept, FgPC
<1>8. CASE AddSlot
  <2>0. \A i \in Slots : jobs[i].state # FG
    BY <1>1, <1>8 DEF AddSlot, ForegroundHeld, FgPC
  <2>1. chldblocked'
    BY <1>1, <1>8 DEF AddSlot, Masked
  <2>2. CASE Goto("main", "unmask") /\ UNCHANGED jobs
    <3>1. pc'["main"] = "unmask"
      BY <1>1, <2>2
    <3> QED BY <1>4, <2>0, <2>1, <2>2, <3>1 DEF Masked, ForegroundHeld, EntryKept
  <2>3. CASE ~(Goto("main", "unmask") /\ UNCHANGED jobs)
    <3>1. PICK i : i = free_slot(jobs)
      OBVIOUS
    <3>2. i # NULL /\ arg' = arg /\ pc'["main"] = "addstate"
          /\ jobs' = [jobs EXCEPT ![i].pid = arg["main"]]
          /\ slot'["main"] = i
      BY <1>1, <1>8, <2>3, <3>1 DEF AddSlot
    <3>3. i \in Slots
      BY <1>1, <3>1, <3>2, FreeSlotFinds
    <3>4. /\ \A k \in Slots : jobs'[k].state = jobs[k].state
          /\ jobs'[i].pid = arg["main"]
      BY <1>1, <3>2, <3>3 DEF Entry
    <3> QED BY <1>4, <2>0, <2>1, <3>2, <3>4 DEF Masked, ForegroundHeld, EntryKept
  <2> QED BY <2>2, <2>3
<1>9. CASE AddState
  <2>1. /\ pc["main"] = "addstate" /\ pc'["main"] = "addjid"
        /\ jobs' = [jobs EXCEPT ![slot["main"]].state = mode]
        /\ UNCHANGED <<arg, slot, mode, chldblocked>>
    BY <1>1, <1>9 DEF AddState
  <2>2. slot["main"] \in Slots /\ \A i \in Slots : jobs[i].state # FG
    BY <1>1, <2>1 DEF PointerHeld, ForegroundHeld, FgPC
  <2>3. /\ jobs'[slot["main"]].state = mode
        /\ jobs'[slot["main"]].pid = jobs[slot["main"]].pid
        /\ \A i \in Slots : i # slot["main"] => jobs'[i] = jobs[i]
    BY <1>1, <2>1, <2>2 DEF Entry
  <2>4. jobs[slot["main"]].pid = arg["main"] /\ chldblocked
    BY <1>1, <2>1 DEF EntryKept, Masked
  <2> QED BY <1>4, <2>1, <2>2, <2>3, <2>4 DEF Masked, ForegroundHeld, EntryKept, FgPC
<1>10. CASE AddJid
  <2>1. /\ pc["main"] = "addjid" /\ pc'["main"] = "wrapjid"
        /\ jobs' = [jobs EXCEPT ![slot["main"]].jid = nextjid]
        /\ UNCHANGED <<arg, slot, mode, chldblocked>>
    BY <1>1, <1>10 DEF AddJid
  <2>2. \A i \in Slots : jobs'[i].state = jobs[i].state /\ jobs'[i].pid = jobs[i].pid
    BY <1>1, <2>1 DEF Entry
  <2> QED BY <1>1, <1>4, <2>1, <2>2 DEF Masked, ForegroundHeld, EntryKept, FgPC
<1>11. CASE WrapJid
  <2>1. /\ pc["main"] = "wrapjid" /\ pc'["main"] = "unmask"
        /\ UNCHANGED <<jobs, arg, slot, mode, chldblocked>>
    BY <1>1, <1>11 DEF WrapJid
  <2> QED BY <1>1, <1>4, <2>1 DEF Masked, ForegroundHeld, EntryKept, FgPC
<1>12. CASE Unmask
  <2>1. pc["main"] = "unmask" /\ UNCHANGED jobs
    BY <1>12 DEF Unmask
  <2>2. CASE mode = FG
    <3>1. pc'["main"] = "waitfg" /\ UNCHANGED <<arg, slot, mode>>
      BY <1>1, <1>12, <2>2 DEF Unmask
    <3> QED BY <1>1, <2>1, <3>1 DEF Masked, ForegroundHeld, EntryKept, FgPC
  <2>3. CASE mode # FG
    <3>1. pc'["main"] = "prompt"
      BY <1>1, <1>12, <2>3 DEF Unmask, ToPrompt
    <3> QED BY <1>1, <2>1, <2>3, <3>1 DEF Masked, ForegroundHeld, EntryKept
  <2> QED BY <2>2, <2>3
<1>13. CASE WaitFg
  <2>1. /\ pc["main"] = "waitfg" /\ pc'["main"] = "prompt" /\ UNCHANGED jobs
        /\ arg["main"] # fgpid(jobs)
    BY <1>1, <1>13 DEF WaitFg, ToPrompt
  <2>2. \A i \in Slots : jobs[i].state # FG
    <3> SUFFICES ASSUME \E i \in Slots : jobs[i].state = FG PROVE FALSE
      OBVIOUS
    <3>1. PICK i \in Slots : jobs[i].state = FG /\ jobs[i].pid = fgpid(jobs)
      BY <1>1, FgpidFinds
    <3> QED BY <1>1, <2>1, <3>1 DEF ForegroundHeld
  <2> QED BY <2>1, <2>2 DEF Masked, ForegroundHeld, EntryKept
<1>14. CASE SetState
  <2>1. /\ pc["main"] = "setstate" /\ pc'["main"] = "cont"
        /\ jobs' = [jobs EXCEPT ![slot["main"]].state = mode]
        /\ UNCHANGED <<arg, slot, mode>>
    BY <1>1, <1>14 DEF SetState
  <2>2. slot["main"] \in Slots /\ \A i \in Slots : jobs[i].state # FG
    BY <1>1, <2>1 DEF PointerHeld, ForegroundHeld, FgPC
  <2>3. /\ jobs'[slot["main"]].state = mode
        /\ \A i \in Slots : i # slot["main"] => jobs'[i] = jobs[i]
    BY <1>1, <2>1, <2>2 DEF Entry
  <2> QED BY <2>1, <2>2, <2>3 DEF Masked, ForegroundHeld, EntryKept, FgPC
<1>15. CASE Cont
  <2>1. pc["main"] = "cont" /\ UNCHANGED jobs
    BY <1>15 DEF Cont
  <2>2. CASE mode = FG
    <3>1. pc'["main"] = "contwait" /\ UNCHANGED <<arg, slot, mode>>
      BY <1>1, <1>15, <2>2 DEF Cont
    <3> QED BY <1>1, <2>1, <3>1 DEF Masked, ForegroundHeld, EntryKept, FgPC
  <2>3. CASE mode # FG
    <3>1. pc'["main"] = "prompt"
      BY <1>1, <1>15, <2>3 DEF Cont, ToPrompt
    <3> QED BY <1>1, <2>1, <2>3, <3>1 DEF Masked, ForegroundHeld, EntryKept
  <2> QED BY <2>2, <2>3
<1>16. CASE ContWait
  <2>1. /\ pc["main"] = "contwait" /\ pc'["main"] = "waitfg"
        /\ arg'["main"] = jobs[slot["main"]].pid
        /\ UNCHANGED <<jobs, slot, mode>>
    BY <1>1, <1>16 DEF ContWait
  <2> QED BY <1>1, <2>1 DEF Masked, ForegroundHeld, EntryKept, FgPC
<1> QED
  BY <1>6, <1>7, <1>8, <1>9, <1>10, <1>11, <1>12, <1>13, <1>14, <1>15, <1>16 DEF MainStep

LEMMA ForegroundStep == ASSUME ForegroundInv, [Next]_vars PROVE ForegroundInv'
<1>1. TypeInv /\ Nested /\ ForegroundParts
  BY DEF ForegroundInv, ForegroundParts
<1>2. ASSUME Environment PROVE ForegroundParts'
  BY <1>1, <1>2, EnvironmentFrame, ForegroundUnchanged DEF shellSide
<1>3. ASSUME Quit \/ Ended \/ UNCHANGED vars PROVE ForegroundParts'
  <2>1. UNCHANGED <<jobs, pc, arg, slot, mode, chldblocked>>
    BY <1>3 DEF Quit, Ended, vars, table
  <2> QED BY <1>1, <2>1, ForegroundUnchanged
<1>4. ForegroundParts'
  BY <1>2, <1>3, ForegroundHandler, ForegroundDeliver, ForegroundMain DEF Next, Command
<1>5. TypeInv' /\ Nested'
  BY <1>1, TypeInvStep, NestedStep
<1> QED BY <1>4, <1>5 DEF ForegroundInv, ForegroundParts

LEMMA ForegroundInit == Init => ForegroundInv
<1> SUFFICES ASSUME Init PROVE ForegroundInv
  OBVIOUS
<1>1. cur = "main" /\ active = {} /\ pc["main"] = "prompt"
  BY DEF Init, active, Sig, Ctx
<1>2. \A s \in Sig : pc[s] = "idle"
  BY <1>1 DEF active
<1>3. \A i \in Slots : jobs[i].state # FG
  BY DEF Init, init_jobs, Empty, UNDEF, FG
<1> QED BY <1>1, <1>2, <1>3, TypeInvInit
    DEF ForegroundInv, Nested, Masked, ForegroundHeld, EntryKept, FoundForeground

\* "At most one job runs in the foreground": whatever the handlers do to the
\* list between two steps of add_job or do_bgfg, two entries are never FG.
THEOREM OneForeground == Spec => []AtMostOneForeground
<1>1. ForegroundInv => AtMostOneForeground
  BY DEF ForegroundInv, ForegroundHeld, AtMostOneForeground
<1> QED BY <1>1, ForegroundInit, ForegroundStep, PTL DEF Spec

\* waitfg returns only when the job it waits for has left the foreground:
\* while main() may read a command or launch one, no entry is FG.
THEOREM PromptWithoutForeground == Spec => []NoForegroundAtPrompt
<1>1. ForegroundInv => NoForegroundAtPrompt
  BY DEF ForegroundInv, ForegroundHeld, NoForegroundAtPrompt, FgPC
<1> QED BY <1>1, ForegroundInit, ForegroundStep, PTL DEF Spec

-----------------------------------------------------------------------------
(* The entries of the list and their processes.  The argument is about     *)
(* pids.  A process has one entry at most, because add_job is called with  *)
(* a child that was just forked, that cannot have been waited for (SIGCHLD *)
(* is blocked) and whose pid no earlier entry can have.  So "the entry of  *)
(* p" is a matter of p alone, deleting it removes the job, and each        *)
(* assignment to an entry is one step of one job.                          *)

\* No two entries are of the same process.
OwnEntry ==
  \A i, j \in Slots : jobs[i].pid = jobs[j].pid /\ jobs[i].pid # NoPid => i = j

ForkedFirst ==
  \A i \in Slots : jobs[i].pid # NoPid => proc[jobs[i].pid].st # "free"

\* The child that is going to be added is not in the list yet, and it cannot
\* have been waited for.
NewChild ==
  /\ pc["main"] = "addslot" /\ arg["main"] \in Pid =>
        /\ proc[arg["main"]].st \notin {"free", "reaped"}
        /\ \A i \in Slots : jobs[i].pid # arg["main"]
  /\ pc["main"] = "addstate" => arg["main"] \in Pid

HasState ==
  \A i \in Slots \ BeingAdded : jobs[i].pid # NoPid => jobs[i].state # UNDEF

\* sigtstp_handler found a foreground job; another handler may have stopped
\* or deleted it since.
StopHeld ==
  \A c \in Sig :
    /\ pc[c] = "stopjob" =>
          /\ arg[c] # NoPid
          /\ \A i \in Slots : jobs[i].pid = arg[c] => jobs[i].state \in {FG, ST}
    /\ pc[c] = "stopset" =>
          /\ slot[c] \in Slots
          /\ jobs[slot[c]].pid = NoPid \/ jobs[slot[c]].state \in {FG, ST}

\* ExitedJobLeavesList, in terms of entries.
ExitedGone ==
  \A p \in Pid :
    status = "up" /\ proc[p].st = "reaped" /\ proc[p].why = "exit" =>
      \/ \A i \in Slots : jobs[i].pid # p
      \/ pc["SIGCHLD"] = "reapdel" /\ arg["SIGCHLD"] = p

ListParts == OwnEntry /\ ForkedFirst /\ NewChild /\ HasState /\ StopHeld /\ ExitedGone
ListInv == ForegroundInv /\ ListParts

\* delete_job clears the entry of the process, if there is one.
LEMMA DeleteOne ==
  ASSUME NEW tab \in [Slots -> Entry], NEW p \in Int
  PROVE  \/ /\ delete_job(tab, p) = tab
            /\ p >= 1 => \A i \in Slots : tab[i].pid # p
         \/ \E i \in Slots : /\ tab[i].pid = p /\ p # NoPid
                             /\ delete_job(tab, p) = [tab EXCEPT ![i] = Empty]
<1>1. PICK i : i = get_job_pid(tab, p)
  OBVIOUS
<1>2. /\ i \in Slots \cup {NULL}
      /\ i # NULL => tab[i].pid = p /\ p # NoPid
      /\ p >= 1 /\ i = NULL => \A k \in Slots : tab[k].pid # p
  BY <1>1, GetJobPidFinds
<1>3. delete_job(tab, p) = IF i = NULL THEN tab ELSE [tab EXCEPT ![i] = Empty]
  BY <1>1 DEF delete_job, clear_job
<1> QED BY <1>2, <1>3

\* Nothing is forked and nothing is waited for.
Calm(p) ==
  /\ proc[p].st # "free" => proc'[p].st # "free"
  /\ proc'[p].st = "reaped" => proc[p].st = "reaped" /\ proc'[p].why = proc[p].why

LEMMA SignalledCalm ==
  ASSUME NEW c \in Process, NEW s
  PROVE  /\ c.st # "free" => Signalled(c, s).st # "free"
         /\ Signalled(c, s).st = "reaped" => c.st = "reaped" /\ Signalled(c, s).why = c.why
BY DEF Signalled, Process, Alive

LEMMA KillCalm ==
  ASSUME TypeOK, NEW pid, NEW s, Kill(pid, s), NEW p \in Pid
  PROVE  Calm(p)
<1>1. proc[p] \in Process
  BY DEF TypeOK
<1>2. proc'[p] = proc[p] \/ proc'[p] = Signalled(proc[p], s)
  BY DEF Kill, TypeOK
<1> QED BY <1>1, <1>2, SignalledCalm DEF Calm

LEMMA EnvironmentCalm == ASSUME TypeOK, Environment, NEW q \in Pid PROVE Calm(q)
<1>1. proc[q] \in Process /\ proc \in [Pid -> Process]
  BY DEF TypeOK
<1>2. ASSUME NEW p \in Pid, NEW c \in Process, Silently(p, c) \/ Notifying(p, c),
             c.st \notin {"free", "reaped"}
      PROVE  Calm(q)
  <2>1. proc'[q] = proc[q] \/ proc'[q] = c
    BY <1>1, <1>2 DEF Silently, Notifying
  <2> QED BY <1>2, <2>1 DEF Calm
<1>3. ASSUME NEW p \in Pid,
             ChildStep(p) \/ ProgExit(p)
      PROVE  Calm(q)
  <2>1. proc[p] \in Process
    BY <1>1
  <2>2. /\ [proc[p] EXCEPT !.st = "grouped"] \in Process
        /\ [proc[p] EXCEPT !.st = "grouped"].st = "grouped"
        /\ [proc[p] EXCEPT !.st = "running"] \in Process
        /\ [proc[p] EXCEPT !.st = "running"].st = "running"
        /\ \A s : /\ [proc[p] EXCEPT !.sigs = @ \ {s}] \in Process
                 /\ [proc[p] EXCEPT !.sigs = @ \ {s}].st = proc[p].st
    BY <2>1, ProcessTyped DEF Process
  <2>3. /\ \A s \in {"exit", "INT"} : /\ Terminated(proc[p], s) \in Process
                                     /\ Terminated(proc[p], s).st = "zombie"
        /\ Stopped(proc[p]) \in Process /\ Stopped(proc[p]).st = "stopped"
    BY <2>1 DEF Process, Terminated, Stopped
  <2>4. CASE ChildSetpgid(p)
    BY <1>2, <2>2, <2>4 DEF ChildSetpgid
  <2>5. CASE ChildExec(p) \/ ProgExit(p)
    BY <1>2, <2>2, <2>3, <2>5 DEF ChildExec, ProgExit
  <2>6. ASSUME NEW s, ChildHandles(p, s) \/ ProgTakes(p, s) PROVE Calm(q)
    BY <1>2, <2>2, <2>3, <2>6 DEF ChildHandles, ProgTakes
  <2> QED BY <1>3, <2>4, <2>5, <2>6 DEF ChildStep
<1>4. ASSUME NEW p \in Pid, NEW s, ExtSignal(p, s) PROVE Calm(q)
  <2>1. \/ proc'[q] = proc[q] \/ proc'[q] = Signalled(proc[q], s)
        \/ proc'[q] = Terminated(proc[q], s)
    BY <1>1, <1>4 DEF ExtSignal
  <2>2. Terminated(proc[q], s).st = "zombie"
    BY <1>1 DEF Terminated, Process
  <2> QED BY <1>1, <2>1, <2>2, SignalledCalm DEF Calm
<1>5. ASSUME NEW s, Key(s) PROVE Calm(q)
  BY <1>5 DEF Key, Calm
<1> QED BY <1>3, <1>4, <1>5 DEF Environment

\* A step that leaves the list, main() and what the handlers hold alone.
LEMMA ListFrame ==
  ASSUME TypeOK, ListParts, UNCHANGED <<jobs, pc, arg, slot>>, \A p \in Pid : Calm(p),
         status' = "up" => status = "up"
  PROVE  ListParts'
<1>1. OwnEntry' /\ HasState' /\ StopHeld'
  BY DEF ListParts, OwnEntry, HasState, StopHeld, BeingAdded
<1>2. ForkedFirst'
  <2>1. \A i \in Slots : jobs[i].pid \in Pid \cup {NoPid}
    BY DEF TypeOK, Entry
  <2> QED BY <2>1 DEF ListParts, ForkedFirst, Calm
<1>3. NewChild'
  BY DEF ListParts, NewChild, Calm
<1>4. ExitedGone'
  BY DEF ListParts, ExitedGone, Calm
<1> QED BY <1>1, <1>2, <1>3, <1>4 DEF ListParts

LEMMA ListDeliver == ASSUME ListInv, NEW s \in Sig, Deliver(s) PROVE ListParts'
<1>1. TypeOK /\ ListParts
  BY DEF ListInv, ForegroundInv, TypeInv
<1>2. UNCHANGED mainSide /\ UNCHANGED <<jobs, arg, slot, proc, status>>
  BY <1>1, DeliverFrame DEF Deliver, table
<1>3. /\ \A c \in Sig : c # s => pc'[c] = pc[c]
      /\ pc'[s] \in {"intfg", "stopfg", "wait"} /\ pc[s] = "idle"
  BY <1>1 DEF Deliver, Goto, TypeOK, Entrance, Sig, Ctx
<1>4. OwnEntry' /\ ForkedFirst' /\ NewChild' /\ HasState'
  BY <1>1, <1>2 DEF ListParts, OwnEntry, ForkedFirst, NewChild, HasState, BeingAdded, mainSide
<1>5. StopHeld'
  BY <1>1, <1>2, <1>3 DEF ListParts, StopHeld
<1>6. ExitedGone'
  BY <1>1, <1>2, <1>3 DEF ListParts, ExitedGone, Sig
<1> QED BY <1>4, <1>5, <1>6 DEF ListParts

-----------------------------------------------------------------------------
(* main(): no handler is active.                                            *)

\* A step of main() that adds no entry: entries keep their pids, and those
\* that are jobs their state or get one.
LEMMA ListMainFrame ==
  ASSUME ListInv, \A s \in Sig : pc[s] = "idle" /\ pc'[s] = "idle",
         \A p \in Pid : Calm(p), status' = "up" => status = "up",
         \A i \in Slots : jobs'[i].pid = jobs[i].pid,
         BeingAdded' = {},
         \A i \in Slots : \/ jobs'[i].state # UNDEF
                          \/ i \notin BeingAdded /\ jobs'[i].state = jobs[i].state,
         pc'["main"] \notin {"addslot", "addstate"}
  PROVE  ListParts'
<1>1. TypeOK /\ ListParts
  BY DEF ListInv, ForegroundInv, TypeInv
<1>2. OwnEntry'
  BY <1>1 DEF ListParts, OwnEntry
<1>3. ForkedFirst'
  <2>1. \A i \in Slots : jobs[i].pid \in Pid \cup {NoPid}
    BY <1>1 DEF TypeOK, Entry
  <2> QED BY <1>1, <2>1 DEF ListParts, ForkedFirst, Calm
<1>4. NewChild' /\ StopHeld'
  BY DEF NewChild, StopHeld
<1>5. HasState'
  BY <1>1 DEF ListParts, HasState
<1>6. ExitedGone'
  <2>1. pc["SIGCHLD"] = "idle"
    BY DEF Sig
  <2> QED BY <1>1, <2>1 DEF ListParts, ExitedGone, Calm
<1> QED BY <1>2, <1>3, <1>4, <1>5, <1>6 DEF ListParts

\* The child is new: no entry is of it.
LEMMA ListFork ==
  ASSUME ListInv, Fork, \A s \in Sig : pc[s] = "idle" /\ pc'[s] = "idle"
  PROVE  ListParts'
<1>1. TypeOK /\ ListParts
  BY DEF ListInv, ForegroundInv, TypeInv
<1>2. pc["main"] = "fork" /\ pc'["main"] = "addslot" /\ UNCHANGED <<jobs, slot, status>>
  BY <1>1 DEF Fork, At, Goto, table, TypeOK, Ctx
<1>3. ASSUME NEW p \in Pid, proc[p].st = "free",
             proc' = [proc EXCEPT ![p].st = "forked"], arg' = [arg EXCEPT !["main"] = p]
      PROVE  ListParts'
  <2>1. /\ arg'["main"] = p /\ proc'[p].st = "forked"
        /\ \A q \in Pid : q # p => proc'[q] = proc[q]
    BY <1>1, <1>3 DEF TypeOK, Ctx, Process
  <2>2. \A i \in Slots : jobs[i].pid # p /\ jobs[i].pid \in Pid \cup {NoPid}
    BY <1>1, <1>3, JobTableAssumption DEF ListParts, ForkedFirst, NoPid, TypeOK, Entry
  <2>3. OwnEntry' /\ HasState' /\ StopHeld'
    BY <1>1, <1>2 DEF ListParts, OwnEntry, HasState, StopHeld, BeingAdded
  <2>4. ForkedFirst'
    BY <1>1, <1>2, <2>1, <2>2 DEF ListParts, ForkedFirst
  <2>5. NewChild'
    BY <1>2, <2>1, <2>2 DEF NewChild
  <2>6. ExitedGone'
    <3>1. pc["SIGCHLD"] = "idle"
      BY DEF Sig
    <3> QED BY <1>1, <1>2, <2>1, <3>1 DEF ListParts, ExitedGone
  <2> QED BY <2>3, <2>4, <2>5, <2>6 DEF ListParts
<1>4. ASSUME arg' = [arg EXCEPT !["main"] = ForkErr], UNCHANGED proc
      PROVE  ListParts'
  <2>1. arg'["main"] \notin Pid
    BY <1>1, <1>4, JobTableAssumption DEF TypeOK, Ctx, ForkErr
  <2>2. OwnEntry' /\ HasState' /\ StopHeld' /\ ForkedFirst' /\ NewChild'
    BY <1>1, <1>2, <1>4, <2>1 DEF ListParts, OwnEntry, HasState, StopHeld, BeingAdded, ForkedFirst, NewChild
  <2>3. ExitedGone'
    <3>1. pc["SIGCHLD"] = "idle"
      BY DEF Sig
    <3> QED BY <1>1, <1>2, <1>4, <3>1 DEF ListParts, ExitedGone
  <2> QED BY <2>2, <2>3 DEF ListParts
<1> QED BY <1>3, <1>4 DEF Fork

LEMMA ListAddSlot ==
  ASSUME ListInv, AddSlot, \A s \in Sig : pc[s] = "idle" /\ pc'[s] = "idle"
  PROVE  ListParts'
<1>1. TypeOK /\ ListParts
  BY DEF ListInv, ForegroundInv, TypeInv
<1>2. pc["main"] = "addslot" /\ BeingAdded = {} /\ UNCHANGED <<arg, status, proc>>
  BY DEF AddSlot, At, BeingAdded
<1>3. CASE Goto("main", "unmask") /\ UNCHANGED <<jobs, slot>>
  <2>1. pc'["main"] = "unmask"
    BY <1>1, <1>3 DEF Goto, TypeOK, Ctx
  <2>2. BeingAdded' = {}
    BY <2>1 DEF BeingAdded
  <2> QED BY <1>2, <1>3, <2>1, <2>2, ListMainFrame DEF Calm
<1>4. CASE ~(Goto("main", "unmask") /\ UNCHANGED <<jobs, slot>>)
  <2>1. PICK i : i = free_slot(jobs)
    OBVIOUS
  <2>2. /\ arg["main"] >= 1 /\ i # NULL
        /\ jobs' = [jobs EXCEPT ![i].pid = arg["main"]]
        /\ slot' = [slot EXCEPT !["main"] = i] /\ pc'["main"] = "addstate"
    BY <1>1, <1>4, <2>1, ArgTyped DEF AddSlot, Goto, TypeOK, Ctx
  <2>3. i \in Slots /\ jobs[i].pid = NoPid /\ slot'["main"] = i
    BY <1>1, <2>1, <2>2, FreeSlotFinds DEF TypeOK, Ctx
  <2>4. arg["main"] \in Pid
    BY <1>1, <2>2 DEF TypeOK, Ctx, NoPid, ForkErr
  <2>5. jobs'[i].pid = arg["main"] /\ \A k \in Slots : k # i => jobs'[k] = jobs[k]
    BY <1>1, <2>2, <2>3 DEF TypeOK, Entry
  <2>6. /\ proc[arg["main"]].st \notin {"free", "reaped"}
        /\ \A k \in Slots : jobs[k].pid # arg["main"]
    BY <1>1, <1>2, <2>4 DEF ListParts, NewChild
  <2>7. OwnEntry'
    BY <1>1, <2>5, <2>6 DEF ListParts, OwnEntry
  <2>8. ForkedFirst'
    BY <1>1, <1>2, <2>5, <2>6 DEF ListParts, ForkedFirst
  <2>9. NewChild' /\ StopHeld'
    BY <1>2, <2>2, <2>4 DEF NewChild, StopHeld
  <2>10. HasState'
    <3>1. BeingAdded' = {i}
      BY <2>2, <2>3 DEF BeingAdded
    <3> QED BY <1>1, <1>2, <2>5, <3>1 DEF ListParts, HasState
  <2>11. ExitedGone'
    <3>1. pc["SIGCHLD"] = "idle"
      BY DEF Sig
    <3>2. \A k \in Slots : jobs'[k].pid = jobs[k].pid \/ jobs'[k].pid = arg["main"]
      BY <2>5
    <3> QED BY <1>1, <1>2, <2>6, <3>1, <3>2 DEF ListParts, ExitedGone
  <2> QED BY <2>7, <2>8, <2>9, <2>10, <2>11 DEF ListParts
<1> QED BY <1>3, <1>4

LEMMA ListMain ==
  ASSUME ListInv,
         MainStep \/ \E m \in {FG, BG} : ReadLaunch(m) \/ ReadBgFg(m) \/ ReadBadId(m)
  PROVE  ListParts'
<1>1. TypeOK /\ PointerHeld /\ ListParts /\ Nested
  BY DEF ListInv, ForegroundInv, TypeInv
<1>2. status = "up" /\ \A s \in Sig : pc[s] = "idle" /\ pc'[s] = "idle"
  BY <1>1, MainFrame, NestedMain DEF active
<1>3. CASE Fork
  BY <1>2, <1>3, ListFork
<1>4. CASE AddSlot
  BY <1>2, <1>4, ListAddSlot
<1>5. ASSUME UNCHANGED jobs, \A p \in Pid : Calm(p),
             pc["main"] # "addstate", pc'["main"] \notin {"addslot", "addstate"}
      PROVE  ListParts'
  <2>1. BeingAdded = {} /\ BeingAdded' = {}
    BY <1>5 DEF BeingAdded
  <2> QED BY <1>2, <1>5, <2>1, ListMainFrame
<1>6. ASSUME NEW m \in {FG, BG}, ReadLaunch(m) \/ ReadBgFg(m) \/ ReadBadId(m) PROVE ListParts'
  <2>1. /\ UNCHANGED <<jobs, proc>> /\ pc["main"] = "prompt"
        /\ pc'["main"] \in {"fork", "setstate", "prompt"}
    BY <1>1, <1>6 DEF ReadLaunch, ReadBgFg, ReadBadId, At, Goto, table, TypeOK, Ctx
  <2> QED BY <1>5, <2>1 DEF Calm
<1>7. CASE WrapJid \/ Unmask \/ WaitFg \/ ContWait
  <2>1. /\ UNCHANGED <<jobs, proc>> /\ pc["main"] # "addstate"
        /\ pc'["main"] \notin {"addslot", "addstate"}
    BY <1>1, <1>7 DEF WrapJid, Unmask, WaitFg, ContWait, ToPrompt, At, Goto, table, TypeOK, Ctx
  <2> QED BY <1>5, <2>1 DEF Calm
<1>8. CASE Cont
  <2>1. /\ UNCHANGED jobs /\ pc["main"] # "addstate"
        /\ pc'["main"] \notin {"addslot", "addstate"}
    BY <1>1, <1>8 DEF Cont, ToPrompt, At, Goto, table, TypeOK, Ctx
  <2>2. \A p \in Pid : Calm(p)
    BY <1>1, <1>8, KillCalm DEF Cont
  <2> QED BY <1>5, <2>1, <2>2
<1>9. CASE AddState \/ SetState
  <2>1. /\ jobs' = [jobs EXCEPT ![slot["main"]].state = mode] /\ proc' = proc
        /\ pc["main"] \in {"addstate", "setstate"} /\ pc'["main"] \in {"addjid", "cont"}
    BY <1>1, <1>9 DEF AddState, SetState, At, Goto, TypeOK, Ctx
  <2>2. slot["main"] \in Slots /\ mode # UNDEF
    BY <1>1, <2>1 DEF PointerHeld, TypeOK, UNDEF, FG, BG
  <2>3. \A i \in Slots : /\ jobs'[i].pid = jobs[i].pid
                         /\ jobs'[i].state = IF i = slot["main"] THEN mode ELSE jobs[i].state
    BY <1>1, <2>1, <2>2 DEF TypeOK, Entry
  <2>4. BeingAdded \subseteq {slot["main"]} /\ BeingAdded' = {}
    BY <2>1 DEF BeingAdded
  <2> QED BY <1>2, <2>1, <2>2, <2>3, <2>4, ListMainFrame DEF Calm
<1>10. CASE AddJid
  <2>1. /\ jobs' = [jobs EXCEPT ![slot["main"]].jid = nextjid] /\ proc' = proc
        /\ pc["main"] = "addjid" /\ pc'["main"] = "wrapjid"
    BY <1>1, <1>10 DEF AddJid, At, Goto, TypeOK, Ctx
  <2>2. \A i \in Slots : jobs'[i].pid = jobs[i].pid /\ jobs'[i].state = jobs[i].state
    BY <1>1, <2>1 DEF TypeOK, Entry
  <2>3. BeingAdded = {} /\ BeingAdded' = {}
    BY <2>1 DEF BeingAdded
  <2> QED BY <1>2, <2>1, <2>2, <2>3, ListMainFrame DEF Calm
<1> QED BY <1>3, <1>4, <1>6, <1>7, <1>8, <1>9, <1>10 DEF MainStep

-----------------------------------------------------------------------------
(* The handlers.                                                            *)

\* A handler clears an entry or stops it.
LEMMA HandlerEntries ==
  ASSUME TypeOK, HandlerStep
  PROVE  \A i \in Slots : \/ jobs'[i] = jobs[i]
                          \/ jobs'[i].pid = NoPid
                          \/ jobs'[i].pid = jobs[i].pid /\ jobs'[i].state = ST
<1> DEFINE Goal == \A i \in Slots : \/ jobs'[i] = jobs[i]
                                    \/ jobs'[i].pid = NoPid
                                    \/ jobs'[i].pid = jobs[i].pid /\ jobs'[i].state = ST
<1>1. ASSUME NEW c \in Ctx, jobs' = delete_job(jobs, arg[c]) PROVE Goal
  <2>1. arg[c] \in Int /\ jobs \in [Slots -> Entry] /\ nextjid \in Nat
    BY <1>1, ArgTyped DEF TypeOK
  <2>2. Empty.pid = NoPid
    BY DEF Empty
  <2>3. \A i \in Slots : \/ delete_job(jobs, arg[c])[i] = jobs[i]
                         \/ delete_job(jobs, arg[c])[i] = Empty
    BY <2>1, DeleteClears
  <2> QED BY <1>1, <2>2, <2>3
<1>2. ASSUME NEW c \in Sig, jobs' = [jobs EXCEPT ![slot[c]].state = ST] PROVE Goal
  <2> jobs \in [Slots -> Entry]
    BY DEF TypeOK
  <2> SUFFICES ASSUME NEW i \in Slots, i = slot[c]
               PROVE  jobs'[i].pid = jobs[i].pid /\ jobs'[i].state = ST
    BY <1>2
  <2> QED BY <1>2 DEF Entry
<1>3. UNCHANGED jobs \/ ReapDelete \/ \E c \in Sig : IntDelete(c) \/ StopSet(c)
  BY DEF HandlerStep, ReapExited, ReapInterrupted, ReapKilled, ReportStopped,
         NoneWaitable, IntFg, IntKill, StopFg, StopJob, StopKill, table
<1> QED BY <1>1, <1>2, <1>3 DEF ReapDelete, IntDelete, StopSet, Ctx, Sig

\* The pid and the entry that sigtstp_handler holds.
LEMMA HandlerHolds ==
  ASSUME TypeOK, HandlerStep, NEW c \in Sig
  PROVE  /\ pc'[c] = "stopjob" =>
              \/ pc[c] = "stopjob" /\ arg'[c] = arg[c]
              \/ arg'[c] = fgpid(jobs) /\ fgpid(jobs) # NoPid
         /\ pc'[c] = "stopset" =>
              \/ pc[c] = "stopset" /\ slot'[c] = slot[c]
              \/ pc[c] = "stopjob" /\ slot'[c] = get_job_pid(jobs, arg[c]) /\ slot'[c] # NULL
<1> USE DEF TypeOK, Goto, Drop, At, Sig, Ctx
<1> DEFINE Goal ==
      /\ pc'[c] = "stopjob" =>
              \/ pc[c] = "stopjob" /\ arg'[c] = arg[c]
              \/ arg'[c] = fgpid(jobs) /\ fgpid(jobs) # NoPid
      /\ pc'[c] = "stopset" =>
              \/ pc[c] = "stopset" /\ slot'[c] = slot[c]
              \/ pc[c] = "stopjob" /\ slot'[c] = get_job_pid(jobs, arg[c]) /\ slot'[c] # NULL
<1>1. ASSUME NEW p \in Pid, ReapExited(p) \/ ReapInterrupted(p) \/ ReapKilled(p) \/ ReportStopped(p)
      PROVE  Goal
  BY <1>1 DEF ReapExited, ReapInterrupted, ReapKilled, ReportStopped
<1>2. CASE ReapDelete
  BY <1>2 DEF ReapDelete
<1>3. CASE NoneWaitable
  BY <1>3 DEF NoneWaitable, Return
<1>4. ASSUME NEW d \in Sig, EndCall(d) PROVE Goal
  BY <1>4 DEF EndCall, Return
<1>5. ASSUME NEW d \in Sig, IntFg(d) \/ StopFg(d) PROVE Goal
  <2>1. CASE EndCall(d)
    BY <1>4, <2>1
  <2>2. CASE ~EndCall(d)
    <3>1. /\ fgpid(jobs) # NoPid /\ arg' = [arg EXCEPT ![d] = fgpid(jobs)]
          /\ UNCHANGED slot /\ (Goto(d, "intdel") \/ Goto(d, "stopjob"))
      BY <1>5, <2>2 DEF IntFg, StopFg
    <3> QED BY <3>1
  <2> QED BY <2>1, <2>2
<1>6. ASSUME NEW d \in Sig, IntKill(d) \/ StopKill(d) PROVE Goal
  BY <1>4, <1>6 DEF IntKill, StopKill
<1>7. ASSUME NEW d \in Sig, IntDelete(d) \/ StopSet(d) PROVE Goal
  BY <1>7 DEF IntDelete, StopSet
<1>8. ASSUME NEW d \in Sig, StopJob(d) PROVE Goal
  BY <1>8 DEF StopJob
<1> QED BY <1>1, <1>2, <1>3, <1>5, <1>6, <1>7, <1>8 DEF HandlerStep

\* Only sigchld_handler waits for a child, and when it has exited the next
\* thing the handler does is to delete its job.
LEMMA HandlerReaps ==
  ASSUME TypeOK, HandlerStep, NEW p \in Pid
  PROVE  /\ proc[p].st # "free" => proc'[p].st # "free"
         /\ proc'[p].st = "reaped" /\ proc[p].st # "reaped" =>
              /\ pc["SIGCHLD"] = "wait"
              /\ proc'[p].why = "exit" =>
                   pc'["SIGCHLD"] = "reapdel" /\ arg'["SIGCHLD"] = p
         /\ proc[p].st = "reaped" => proc'[p].why = proc[p].why
<1> DEFINE Goal ==
         /\ proc[p].st # "free" => proc'[p].st # "free"
         /\ proc'[p].st = "reaped" /\ proc[p].st # "reaped" =>
              /\ pc["SIGCHLD"] = "wait"
              /\ proc'[p].why = "exit" =>
                   pc'["SIGCHLD"] = "reapdel" /\ arg'["SIGCHLD"] = p
         /\ proc[p].st = "reaped" => proc'[p].why = proc[p].why
<1>1. \A q \in Pid : proc[q] \in Process /\ proc \in [Pid -> Process]
  BY DEF TypeOK
<1>2. ASSUME UNCHANGED proc PROVE Goal
  BY <1>2
<1>3. \A q \in Pid : /\ Waited(proc[q]).why = proc[q].why
                     /\ Waited(proc[q]).st = IF proc[q].st = "zombie" THEN "reaped" ELSE proc[q].st
  BY <1>1 DEF Waited, Process
<1>4. ASSUME NEW q \in Pid, ReapExited(q) PROVE Goal
  <2>1. /\ pc["SIGCHLD"] = "wait" /\ proc' = [proc EXCEPT ![q] = Waited(@)]
        /\ proc[q].st = "zombie" /\ pc'["SIGCHLD"] = "reapdel" /\ arg'["SIGCHLD"] = q
    BY <1>4 DEF ReapExited, At, Goto, TypeOK, Ctx, Sig
  <2>2. proc'[p] = IF p = q THEN Waited(proc[q]) ELSE proc[p]
    BY <1>1, <2>1
  <2> QED BY <1>3, <2>1, <2>2
<1>5. ASSUME NEW q \in Pid, ReapInterrupted(q) \/ ReapKilled(q) \/ ReportStopped(q) PROVE Goal
  <2>1. /\ pc["SIGCHLD"] = "wait" /\ proc' = [proc EXCEPT ![q] = Waited(@)]
        /\ proc[q].st \in {"zombie", "stopped"}
        /\ proc[q].st = "zombie" => proc[q].why # "exit"
    BY <1>5 DEF ReapInterrupted, ReapKilled, ReportStopped, At
  <2>2. proc'[p] = IF p = q THEN Waited(proc[q]) ELSE proc[p]
    BY <1>1, <2>1
  <2> QED BY <1>3, <2>1, <2>2
<1>6. ASSUME NEW c \in Sig, IntKill(c) \/ StopKill(c) PROVE Goal
  <2>1. Calm(p)
    BY <1>6, KillCalm DEF IntKill, StopKill
  <2>2. proc[p].st = "reaped" => proc'[p] = proc[p] \/ proc'[p].why = proc[p].why
    <3>1. proc'[p] = proc[p] \/ \E s : proc'[p] = Signalled(proc[p], s)
      BY <1>1, <1>6 DEF IntKill, StopKill, Kill
    <3>2. \A s : Signalled(proc[p], s).why = proc[p].why
      BY <1>1 DEF Signalled, Process
    <3> QED BY <3>1, <3>2
  <2> QED BY <2>1, <2>2 DEF Calm
<1>7. \/ UNCHANGED proc
      \/ \E q \in Pid : ReapExited(q) \/ ReapInterrupted(q) \/ ReapKilled(q) \/ ReportStopped(q)
      \/ \E c \in Sig : IntKill(c) \/ StopKill(c)
  BY DEF HandlerStep, ReapDelete, NoneWaitable, IntFg, IntDelete, StopFg, StopJob, StopSet
<1> QED BY <1>2, <1>4, <1>5, <1>6, <1>7

\* sigchld_handler goes on from "reapdel" by deleting the job.
LEMMA HandlerDeletes ==
  ASSUME TypeOK, HandlerStep, pc["SIGCHLD"] = "reapdel"
  PROVE  \/ pc'["SIGCHLD"] = "reapdel" /\ arg'["SIGCHLD"] = arg["SIGCHLD"]
         \/ jobs' = delete_job(jobs, arg["SIGCHLD"])
<1> USE DEF TypeOK, Goto, Drop, At, Sig, Ctx
<1> DEFINE Goal == \/ pc'["SIGCHLD"] = "reapdel" /\ arg'["SIGCHLD"] = arg["SIGCHLD"]
                   \/ jobs' = delete_job(jobs, arg["SIGCHLD"])
<1>1. CASE ReapDelete
  BY <1>1 DEF ReapDelete
<1>2. ASSUME NEW p \in Pid, ReapExited(p) \/ ReapInterrupted(p) \/ ReapKilled(p) \/ ReportStopped(p)
      PROVE  FALSE
  BY <1>2 DEF ReapExited, ReapInterrupted, ReapKilled, ReportStopped
<1>3. ~NoneWaitable
  BY DEF NoneWaitable
<1>4. ASSUME NEW c \in Sig, EndCall(c), c # "SIGCHLD" PROVE Goal
  BY <1>4 DEF EndCall, Return
<1>5. ASSUME NEW c \in Sig, IntFg(c) \/ StopFg(c) \/ IntKill(c) \/ StopKill(c) PROVE Goal
  <2>1. c # "SIGCHLD"
    BY <1>5 DEF IntFg, StopFg, IntKill, StopKill
  <2>2. CASE EndCall(c)
    BY <1>4, <2>1, <2>2
  <2>3. CASE ~EndCall(c)
    <3>1. /\ arg' = [arg EXCEPT ![c] = fgpid(jobs)]
          /\ (Goto(c, "intdel") \/ Goto(c, "stopjob"))
      BY <1>5, <2>3 DEF IntFg, StopFg, IntKill, StopKill
    <3> QED BY <2>1, <3>1
  <2> QED BY <2>2, <2>3
<1>6. ASSUME NEW c \in Sig, IntDelete(c) \/ StopJob(c) \/ StopSet(c) PROVE Goal
  <2>1. c # "SIGCHLD"
    BY <1>6 DEF IntDelete, StopJob, StopSet
  <2> QED BY <1>6, <2>1 DEF IntDelete, StopJob, StopSet
<1> QED BY <1>1, <1>2, <1>3, <1>5, <1>6 DEF HandlerStep

LEMMA ListHandler == ASSUME ListInv, HandlerStep PROVE ListParts'
<1>1. TypeOK /\ PointerHeld /\ ListParts /\ Masked /\ ForegroundHeld /\ FoundForeground
  BY DEF ListInv, ForegroundInv, TypeInv
<1>2. UNCHANGED mainSide /\ status = "up"
  BY <1>1, HandlerFrame DEF HandlerStep, ReapExited, ReapInterrupted, ReapKilled, ReportStopped,
       ReapDelete, NoneWaitable, IntFg, IntDelete, IntKill, StopFg, StopJob, StopSet, StopKill, At
<1>3. BeingAdded' = BeingAdded
  BY <1>2 DEF BeingAdded, mainSide
<1>4. \A i \in Slots : \/ jobs'[i] = jobs[i]
                       \/ jobs'[i].pid = NoPid
                       \/ jobs'[i].pid = jobs[i].pid /\ jobs'[i].state = ST
  BY <1>1, HandlerEntries
<1>5. OwnEntry'
  BY <1>1, <1>4 DEF ListParts, OwnEntry
<1>6. ForkedFirst'
  <2>1. \A i \in Slots : jobs[i].pid \in Pid \cup {NoPid}
    BY <1>1 DEF TypeOK, Entry
  <2>2. \A p \in Pid : proc[p].st # "free" => proc'[p].st # "free"
    BY <1>1, HandlerReaps
  <2> QED BY <1>1, <1>4, <2>1, <2>2 DEF ListParts, ForkedFirst
<1>7. NewChild'
  <2>1. CASE pc["main"] = "addslot" /\ arg["main"] \in Pid
    <3>1. /\ proc'[arg["main"]].st \notin {"free", "reaped"}
      BY <1>1, <2>1, HandlerReaps DEF ListParts, NewChild, Masked
    <3>2. \A i \in Slots : jobs'[i].pid # arg["main"]
      BY <1>1, <1>4, <2>1, JobTableAssumption DEF ListParts, NewChild, NoPid
    <3> QED BY <1>2, <2>1, <3>1, <3>2 DEF NewChild, mainSide
  <2>2. CASE ~(pc["main"] = "addslot" /\ arg["main"] \in Pid)
    BY <1>1, <1>2, <2>2 DEF ListParts, NewChild, mainSide
  <2> QED BY <2>1, <2>2
<1>8. HasState'
  BY <1>1, <1>3, <1>4 DEF ListParts, HasState, ST, UNDEF
<1>9. StopHeld'
  <2> SUFFICES ASSUME NEW c \in Sig
               PROVE  /\ pc'[c] = "stopjob" =>
                          /\ arg'[c] # NoPid
                          /\ \A i \in Slots : jobs'[i].pid = arg'[c] => jobs'[i].state \in {FG, ST}
                      /\ pc'[c] = "stopset" =>
                          /\ slot'[c] \in Slots
                          /\ jobs'[slot'[c]].pid = NoPid \/ jobs'[slot'[c]].state \in {FG, ST}
    BY DEF StopHeld
  <2>1. CASE pc'[c] = "stopjob"
    <3>1. CASE pc[c] = "stopjob" /\ arg'[c] = arg[c]
      BY <1>1, <1>4, <2>1, <3>1 DEF ListParts, StopHeld
    <3>2. CASE arg'[c] = fgpid(jobs) /\ fgpid(jobs) # NoPid
      <4>1. PICK i \in Slots : jobs[i].state = FG /\ jobs[i].pid = fgpid(jobs)
        BY <1>1, <3>2, FgpidFinds DEF TypeOK
      <4>2. \A k \in Slots : jobs[k].pid = fgpid(jobs) => jobs[k].state = FG
        BY <1>1, <3>2, <4>1 DEF ListParts, OwnEntry
      <4> QED BY <1>4, <2>1, <3>2, <4>2
    <3> QED BY <1>1, <2>1, <3>1, <3>2, HandlerHolds
  <2>2. CASE pc'[c] = "stopset"
    <3>1. CASE pc[c] = "stopset" /\ slot'[c] = slot[c]
      BY <1>1, <1>4, <2>2, <3>1 DEF ListParts, StopHeld
    <3>2. CASE pc[c] = "stopjob" /\ slot'[c] = get_job_pid(jobs, arg[c]) /\ slot'[c] # NULL
      <4>1. arg[c] \in Int /\ jobs \in [Slots -> Entry]
        BY <1>1, ArgTyped DEF TypeOK, Ctx
      <4>2. PICK i : i = get_job_pid(jobs, arg[c])
        OBVIOUS
      <4>3. i \in Slots /\ jobs[i].pid = arg[c]
        BY <3>2, <4>1, <4>2, GetJobPidFinds
      <4>4. jobs[i].state \in {FG, ST}
        BY <1>1, <3>2, <4>3 DEF ListParts, StopHeld
      <4> QED BY <1>4, <2>2, <3>2, <4>2, <4>3, <4>4
    <3> QED BY <1>1, <2>2, <3>1, <3>2, HandlerHolds
  <2> QED BY <2>1, <2>2
<1>10. ExitedGone'
  <2> SUFFICES ASSUME NEW p \in Pid, proc'[p].st = "reaped", proc'[p].why = "exit"
               PROVE  \/ \A i \in Slots : jobs'[i].pid # p
                      \/ pc'["SIGCHLD"] = "reapdel" /\ arg'["SIGCHLD"] = p
    BY DEF ExitedGone
  <2>0. p # NoPid /\ p \in Int /\ p >= 1
    BY JobTableAssumption DEF NoPid
  <2>1. CASE proc[p].st # "reaped"
    BY <1>1, <2>1, HandlerReaps
  <2>2. CASE proc[p].st = "reaped"
    <3>1. proc[p].why = "exit"
      BY <1>1, <2>2, HandlerReaps
    <3>2. CASE \A i \in Slots : jobs[i].pid # p
      BY <1>4, <2>0, <3>2
    <3>3. CASE pc["SIGCHLD"] = "reapdel" /\ arg["SIGCHLD"] = p
      <4>1. CASE jobs' = delete_job(jobs, p)
        <5>1. jobs \in [Slots -> Entry]
          BY <1>1 DEF TypeOK
        <5>2. CASE \E i \in Slots : jobs[i].pid = p /\ jobs' = [jobs EXCEPT ![i] = Empty]
          <6>1. PICK i \in Slots : jobs[i].pid = p /\ jobs' = [jobs EXCEPT ![i] = Empty]
            BY <5>2
          <6>2. jobs'[i].pid = NoPid /\ \A k \in Slots : k # i => jobs'[k] = jobs[k]
            BY <5>1, <6>1 DEF Empty
          <6> QED BY <1>1, <2>0, <6>1, <6>2 DEF ListParts, OwnEntry
        <5> QED BY <2>0, <4>1, <5>1, <5>2, DeleteOne
      <4> QED BY <1>1, <3>3, <4>1, HandlerDeletes
    <3> QED BY <1>1, <1>2, <2>2, <3>1, <3>2, <3>3 DEF ListParts, ExitedGone
  <2> QED BY <2>1, <2>2
<1> QED BY <1>5, <1>6, <1>7, <1>8, <1>9, <1>10 DEF ListParts

LEMMA ListStep == ASSUME ListInv, [Next]_vars PROVE ListInv'
<1>1. TypeOK /\ ListParts /\ ForegroundInv
  BY DEF ListInv, ForegroundInv, TypeInv
<1>2. ForegroundInv'
  BY <1>1, ForegroundStep
<1>3. ASSUME Environment PROVE ListParts'
  BY <1>1, <1>3, EnvironmentFrame, EnvironmentCalm, ListFrame DEF shellSide
<1>4. ASSUME Quit \/ Ended \/ UNCHANGED vars PROVE ListParts'
  <2>1. UNCHANGED <<jobs, pc, arg, slot, proc>> /\ (status' = "up" => status = "up")
    BY <1>4 DEF Quit, Ended, vars, table
  <2> QED BY <1>1, <2>1, ListFrame DEF Calm
<1>5. ListParts'
  BY <1>3, <1>4, ListHandler, ListDeliver, ListMain DEF Next, Command
<1> QED BY <1>2, <1>5 DEF ListInv

LEMMA ListHolds == Init => ListInv
<1> SUFFICES ASSUME Init PROVE ListInv
  OBVIOUS
<1>1. /\ \A i \in Slots : jobs[i].pid = NoPid
      /\ pc["main"] = "prompt" /\ \A s \in Sig : pc[s] = "idle"
      /\ \A p \in Pid : proc[p].st = "free"
  BY DEF Init, init_jobs, Empty, Ctx, Sig, NoProcess
<1> QED BY <1>1, ForegroundInit DEF ListInv, ListParts, OwnEntry, ForkedFirst, NewChild,
           HasState, StopHeld, ExitedGone

\* Why eval blocks SIGCHLD around fork and add_job: the job of a process that
\* has exited and been waited for has left the list or is about to; it is
\* never added after it was deleted.
THEOREM NoJobOfAnExitedProcess == Spec => []ExitedJobLeavesList
<1>1. ListInv => ExitedJobLeavesList
  <2> SUFFICES ASSUME ListInv, NEW p \in Pid, status = "up",
                      proc[p].st = "reaped", proc[p].why = "exit",
                      \A i \in Slots : jobs[i].pid # p
               PROVE  get_job_pid(jobs, p) = NULL
    BY DEF ExitedJobLeavesList, ListInv, ListParts, ExitedGone
  <2>1. jobs \in [Slots -> Entry] /\ p \in Int
    BY JobTableAssumption DEF ListInv, ForegroundInv, TypeInv, TypeOK
  <2> QED BY <2>1, GetJobPidFinds
<1> QED BY <1>1, ListHolds, ListStep, PTL DEF Spec

-----------------------------------------------------------------------------
(* Every step is a step of JobControl or changes no job.                    *)

\* The entry of p that is a job, if there is one, gives the state of p's job.
JobsSeen ==
  \A p \in Pid :
    /\ (\A i \in Slots \ BeingAdded : jobs[i].pid # p) => jobState(p) = "none"
    /\ \A i \in Slots \ BeingAdded :
          jobs[i].pid = p => jobState(p) = jobs[i].state /\ jobState(p) \in {FG, BG, ST}

LEMMA SeenNow == ListInv => JobsSeen
<1> SUFFICES ASSUME ListInv, NEW p \in Pid
             PROVE  /\ (\A i \in Slots \ BeingAdded : jobs[i].pid # p) => jobState(p) = "none"
                    /\ \A i \in Slots \ BeingAdded :
                          jobs[i].pid = p => jobState(p) = jobs[i].state /\ jobState(p) \in {FG, BG, ST}
  BY DEF JobsSeen
<1> DEFINE S == {j \in Slots \ BeingAdded : jobs[j].pid = p}
<1>1. jobs \in [Slots -> Entry] /\ OwnEntry /\ HasState /\ p # NoPid
  BY JobTableAssumption DEF ListInv, ListParts, ForegroundInv, TypeInv, TypeOK, NoPid
<1>2. PICK k : k = First(S)
  OBVIOUS
<1>3. jobState(p) = IF k = NULL \/ jobs[k].state = UNDEF THEN "none" ELSE jobs[k].state
  BY <1>2 DEF jobState
<1>4. (k = NULL <=> S = {}) /\ (k # NULL => k \in S)
  <2>1. S \in SUBSET Slots
    OBVIOUS
  <2> QED BY <1>2, <2>1, FirstFinds
<1>5. ASSUME \A i \in Slots \ BeingAdded : jobs[i].pid # p PROVE jobState(p) = "none"
  BY <1>3, <1>4, <1>5
<1>6. ASSUME NEW i \in Slots \ BeingAdded, jobs[i].pid = p
      PROVE  jobState(p) = jobs[i].state /\ jobState(p) \in {FG, BG, ST}
  <2>1. k # NULL /\ k \in Slots /\ jobs[k].pid = p
    BY <1>4, <1>6
  <2>2. k = i
    BY <1>1, <1>6, <2>1 DEF OwnEntry
  <2>3. jobs[i].state \in {FG, BG, ST}
    BY <1>1, <1>6 DEF HasState, Entry
  <2> QED BY <1>3, <2>1, <2>2, <2>3 DEF UNDEF, FG, BG, ST
<1> QED BY <1>5, <1>6

LEMMA SeenNext == ListInv' => JobsSeen'
  BY SeenNow, PTL

\* A job keeps its state when no entry of it appears, goes or changes.
LEMMA OtherJob ==
  ASSUME JobsSeen, JobsSeen', NEW i \in Slots, NEW q \in Pid,
         \A k \in Slots : k # i => /\ jobs'[k] = jobs[k]
                                   /\ k \in BeingAdded <=> k \in BeingAdded',
         i \in BeingAdded \/ jobs[i].pid # q,
         i \in BeingAdded' \/ jobs'[i].pid # q
  PROVE  jobState(q)' = jobState(q)
<1>1. CASE \E k \in Slots \ BeingAdded : jobs[k].pid = q
  <2>1. PICK k \in Slots \ BeingAdded : jobs[k].pid = q
    BY <1>1
  <2>2. k # i /\ k \notin BeingAdded' /\ jobs'[k] = jobs[k]
    BY <2>1
  <2>3. jobState(q)' = jobs'[k].state
    BY <2>1, <2>2 DEF JobsSeen
  <2> QED BY <2>1, <2>2, <2>3 DEF JobsSeen
<1>2. CASE \A k \in Slots \ BeingAdded : jobs[k].pid # q
  <2>1. \A k \in Slots \ BeingAdded' : jobs'[k].pid # q
    BY <1>2
  <2> QED BY <1>2, <2>1 DEF JobsSeen
<1> QED BY <1>1, <1>2

Seen == [p \in Pid |-> jobState(p)]

LEMMA SameJobs ==
  ASSUME \A q \in Pid : jobState(q)' = jobState(q)
  PROVE  [JC!Next]_Seen
  BY DEF Seen

\* A step on one entry that moves the job of one process.
LEMMA OneJob ==
  ASSUME JobsSeen, JobsSeen', NEW i \in Slots, NEW p \in Pid,
         \A k \in Slots : k # i => /\ jobs'[k] = jobs[k]
                                   /\ k \in BeingAdded <=> k \in BeingAdded',
         jobs[i].pid = p, jobs'[i].pid \in {p, NoPid}
  PROVE  \A q \in Pid : q # p => jobState(q)' = jobState(q)
<1>1. \A q \in Pid : q # NoPid
  BY JobTableAssumption DEF NoPid
<1> QED BY <1>1, OtherJob

LEMMA NobodyInFront ==
  ASSUME JobsSeen, \A i \in Slots : jobs[i].state # FG
  PROVE  JC!Foreground = {}
<1> SUFFICES ASSUME NEW p \in Pid, jobState(p) = FG PROVE FALSE
  BY DEF JC!Foreground, FG
<1>1. \A i \in Slots \ BeingAdded : jobs[i].pid # p
  BY DEF JobsSeen
<1> QED BY <1>1 DEF JobsSeen, FG

LEMMA AddStateIsLaunch ==
  ASSUME ListInv, JobsSeen, JobsSeen', AddState
  PROVE  [JC!Next]_Seen
<1>1. /\ TypeOK /\ PointerHeld /\ ForegroundHeld /\ EntryKept /\ NewChild /\ OwnEntry
  BY DEF ListInv, ListParts, ForegroundInv, TypeInv
<1>2. /\ pc["main"] = "addstate" /\ pc'["main"] = "addjid"
      /\ jobs' = [jobs EXCEPT ![slot["main"]].state = mode]
  BY <1>1 DEF AddState, At, Goto, TypeOK, Ctx
<1>3. PICK i \in Slots : i = slot["main"]
  BY <1>1, <1>2 DEF PointerHeld
<1>4. BeingAdded = {i} /\ BeingAdded' = {}
  BY <1>2, <1>3 DEF BeingAdded
<1>5. PICK p \in Pid : p = jobs[i].pid
  BY <1>1, <1>2, <1>3 DEF EntryKept, NewChild
<1>6. /\ jobs'[i].state = mode /\ jobs'[i].pid = p
      /\ \A k \in Slots : k # i => jobs'[k] = jobs[k]
  BY <1>1, <1>2, <1>3, <1>5 DEF TypeOK, Entry
<1>7. jobState(p) = "none"
  <2>1. \A k \in Slots \ BeingAdded : jobs[k].pid # p
    BY <1>1, <1>4, <1>5, JobTableAssumption DEF OwnEntry, NoPid
  <2> QED BY <2>1 DEF JobsSeen
<1>8. jobState(p)' = mode
  BY <1>4, <1>6 DEF JobsSeen
<1>9. \A q \in Pid : q # p => jobState(q)' = jobState(q)
  BY <1>4, <1>5, <1>6, OneJob
<1>10. JC!Foreground = {}
  BY <1>1, <1>2, NobodyInFront DEF ForegroundHeld, FgPC
<1>11. JC!Move(p, "none", mode)
  BY <1>7, <1>8, <1>9 DEF JC!Move
<1>12. mode \in {"FG", "BG"}
  BY <1>1 DEF TypeOK, FG, BG
<1> QED BY <1>10, <1>11, <1>12 DEF JC!Next, JC!LaunchFg, JC!LaunchBg

LEMMA SetStateIsBgFg ==
  ASSUME ListInv, JobsSeen, JobsSeen', SetState
  PROVE  [JC!Next]_Seen
<1>1. /\ TypeOK /\ PointerHeld /\ ForegroundHeld
  BY DEF ListInv, ListParts, ForegroundInv, TypeInv
<1>2. /\ pc["main"] = "setstate" /\ pc'["main"] = "cont"
      /\ jobs' = [jobs EXCEPT ![slot["main"]].state = mode]
  BY <1>1 DEF SetState, At, Goto, TypeOK, Ctx
<1>3. PICK i \in Slots : i = slot["main"]
  BY <1>1, <1>2 DEF PointerHeld
<1>4. BeingAdded = {} /\ BeingAdded' = {}
  BY <1>2 DEF BeingAdded
<1>5. /\ jobs'[i].state = mode /\ jobs'[i].pid = jobs[i].pid
      /\ \A k \in Slots : k # i => jobs'[k] = jobs[k]
  BY <1>1, <1>2, <1>3 DEF TypeOK, Entry
<1>6. CASE jobs[i].pid \notin Pid
  BY <1>4, <1>5, <1>6, OtherJob, SameJobs
<1>7. ASSUME NEW p \in Pid, p = jobs[i].pid PROVE [JC!Next]_Seen
  <2>1. jobState(p) = jobs[i].state /\ jobState(p) \in {FG, BG, ST} /\ jobState(p)' = mode
    BY <1>4, <1>5, <1>7 DEF JobsSeen
  <2>2. \A q \in Pid : q # p => jobState(q)' = jobState(q)
    BY <1>4, <1>5, <1>7, OneJob
  <2>3. JC!Foreground = {} /\ jobs[i].state # FG
    BY <1>1, <1>2, NobodyInFront DEF ForegroundHeld, FgPC
  <2>4. \A s : jobState(p) = s => JC!Move(p, s, mode)
    BY <2>1, <2>2 DEF JC!Move
  <2>5. mode \in {"FG", "BG"} /\ jobState(p) \in {"BG", "ST"}
    BY <1>1, <2>1, <2>3 DEF TypeOK, FG, BG, ST
  <2>6. CASE jobState(p) = mode
    BY <2>1, <2>2, <2>6, SameJobs
  <2>7. CASE jobState(p) # mode
    <3>1. JC!Move(p, "ST", "FG") \/ JC!Move(p, "BG", "FG") \/ JC!Move(p, "ST", "BG")
      BY <2>4, <2>5, <2>7
    <3> QED BY <2>3, <3>1 DEF JC!Next, JC!Fg, JC!Bg
  <2> QED BY <2>6, <2>7
<1> QED BY <1>6, <1>7

LEMMA DeleteIsRemove ==
  ASSUME ListInv, JobsSeen, JobsSeen', NEW c \in Ctx, jobs' = delete_job(jobs, arg[c]),
         BeingAdded = {}, BeingAdded' = {}
  PROVE  [JC!Next]_Seen
<1>1. jobs \in [Slots -> Entry] /\ arg[c] \in Int /\ OwnEntry
  BY ArgTyped DEF ListInv, ListParts, ForegroundInv, TypeInv, TypeOK
<1>2. CASE jobs' = jobs
  BY <1>2, SameJobs DEF jobState
<1>3. ASSUME NEW i \in Slots, jobs[i].pid # NoPid, jobs' = [jobs EXCEPT ![i] = Empty]
      PROVE  [JC!Next]_Seen
  <2>1. jobs'[i].pid = NoPid /\ \A k \in Slots : k # i => jobs'[k] = jobs[k]
    BY <1>1, <1>3 DEF Empty
  <2>2. PICK p \in Pid : p = jobs[i].pid
    BY <1>1, <1>3 DEF Entry
  <2>3. jobState(p) \in {FG, BG, ST}
    BY <2>2 DEF JobsSeen
  <2>4. jobState(p)' = "none"
    <3>1. \A k \in Slots \ BeingAdded' : jobs'[k].pid # p
      BY <1>1, <1>3, <2>1, <2>2 DEF OwnEntry
    <3> QED BY <3>1 DEF JobsSeen
  <2>5. \A q \in Pid : q # p => jobState(q)' = jobState(q)
    BY <2>1, <2>2, OneJob
  <2>6. JC!Remove(p)
    BY <2>3, <2>4, <2>5 DEF JC!Remove, FG, BG, ST
  <2> QED BY <2>6 DEF JC!Next
<1> QED BY <1>1, <1>2, <1>3, DeleteOne

LEMMA StopSetIsStop ==
  ASSUME ListInv, JobsSeen, JobsSeen', NEW c \in Sig, StopSet(c),
         BeingAdded = {}, BeingAdded' = {}
  PROVE  [JC!Next]_Seen
<1>1. TypeOK /\ StopHeld
  BY DEF ListInv, ListParts, ForegroundInv, TypeInv
<1>2. pc[c] = "stopset" /\ jobs' = [jobs EXCEPT ![slot[c]].state = ST]
  BY DEF StopSet, At
<1>3. PICK i \in Slots : /\ i = slot[c]
                         /\ jobs[i].pid = NoPid \/ jobs[i].state \in {FG, ST}
  BY <1>1, <1>2 DEF StopHeld
<1>4. /\ jobs'[i].state = ST /\ jobs'[i].pid = jobs[i].pid
      /\ \A k \in Slots : k # i => jobs'[k] = jobs[k]
  BY <1>1, <1>2, <1>3 DEF TypeOK, Entry
<1>5. CASE jobs[i].pid \notin Pid
  BY <1>4, <1>5, OtherJob, SameJobs
<1>6. ASSUME NEW p \in Pid, p = jobs[i].pid PROVE [JC!Next]_Seen
  <2>1. jobState(p) = jobs[i].state /\ jobState(p)' = ST
    BY <1>4, <1>6 DEF JobsSeen
  <2>2. \A q \in Pid : q # p => jobState(q)' = jobState(q)
    BY <1>4, <1>6, OneJob
  <2>3. jobs[i].state \in {FG, ST}
    BY <1>3, <1>6, JobTableAssumption DEF NoPid
  <2>4. CASE jobs[i].state = ST
    BY <2>1, <2>2, <2>4, SameJobs
  <2>5. CASE jobs[i].state = FG
    <3>1. JC!Stop(p)
      BY <2>1, <2>2, <2>5 DEF JC!Stop, JC!Move, FG, ST
    <3> QED BY <3>1 DEF JC!Next
  <2> QED BY <2>3, <2>4, <2>5
<1> QED BY <1>5, <1>6

LEMMA HandlerIsJobControl ==
  ASSUME ListInv, JobsSeen, JobsSeen', HandlerStep
  PROVE  [JC!Next]_Seen
<1>1. TypeOK /\ Masked /\ FoundForeground
  BY DEF ListInv, ForegroundInv, TypeInv
<1>2. BeingAdded' = BeingAdded
  BY <1>1, HandlerFrame DEF BeingAdded, mainSide
<1>3. CASE UNCHANGED jobs
  BY <1>2, <1>3, SameJobs DEF jobState
<1>4. CASE ReapDelete
  <2>1. pc["SIGCHLD"] # "idle" /\ "SIGCHLD" \in Ctx
    BY <1>4 DEF ReapDelete, At, Ctx, Sig
  <2>2. BeingAdded = {}
    BY <1>1, <2>1 DEF Masked, BeingAdded
  <2> QED BY <1>2, <1>4, <2>1, <2>2, DeleteIsRemove DEF ReapDelete
<1>5. ASSUME NEW c \in Sig, IntDelete(c) \/ StopSet(c) PROVE [JC!Next]_Seen
  <2>1. pc[c] \in {"intdel", "stopset"} /\ c \in Ctx
    BY <1>5 DEF IntDelete, StopSet, At, Ctx
  <2>2. BeingAdded = {}
    BY <1>1, <2>1 DEF FoundForeground, FgPC, BeingAdded
  <2> QED BY <1>2, <1>5, <2>1, <2>2, DeleteIsRemove, StopSetIsStop DEF IntDelete
<1> QED BY <1>3, <1>4, <1>5
    DEF HandlerStep, ReapExited, ReapInterrupted, ReapKilled, ReportStopped,
        NoneWaitable, IntFg, IntKill, StopFg, StopJob, StopKill, table

LEMMA MainIsJobControl ==
  ASSUME ListInv, JobsSeen, JobsSeen',
         MainStep \/ \E m \in {FG, BG} : ReadLaunch(m) \/ ReadBgFg(m) \/ ReadBadId(m)
  PROVE  [JC!Next]_Seen
<1>1. TypeOK /\ PointerHeld
  BY DEF ListInv, ForegroundInv, TypeInv
<1>2. ASSUME UNCHANGED jobs, BeingAdded = {}, BeingAdded' = {} PROVE [JC!Next]_Seen
  BY <1>2, SameJobs DEF jobState
<1>3. CASE AddState \/ SetState
  BY <1>3, AddStateIsLaunch, SetStateIsBgFg
<1>4. CASE AddSlot
  <2>1. CASE Goto("main", "unmask") /\ UNCHANGED jobs
    <3>1. pc["main"] = "addslot" /\ pc'["main"] = "unmask"
      BY <1>1, <1>4, <2>1 DEF AddSlot, At, Goto, TypeOK, Ctx
    <3> QED BY <1>2, <2>1, <3>1 DEF BeingAdded
  <2>2. CASE ~(Goto("main", "unmask") /\ UNCHANGED jobs)
    <3>1. PICK i : i = free_slot(jobs)
      OBVIOUS
    <3>2. /\ i # NULL /\ pc["main"] = "addslot" /\ pc'["main"] = "addstate"
          /\ jobs' = [jobs EXCEPT ![i].pid = arg["main"]]
          /\ slot'["main"] = i
      BY <1>1, <1>4, <2>2, <3>1 DEF AddSlot, At, Goto, TypeOK, Ctx
    <3>3. i \in Slots /\ jobs[i].pid = NoPid
      BY <1>1, <3>1, <3>2, FreeSlotFinds DEF TypeOK
    <3>4. BeingAdded = {} /\ BeingAdded' = {i}
      BY <3>2 DEF BeingAdded
    <3>5. \A k \in Slots : k # i => jobs'[k] = jobs[k]
      BY <1>1, <3>2 DEF TypeOK
    <3>6. \A q \in Pid : q # NoPid
      BY JobTableAssumption DEF NoPid
    <3> QED BY <3>3, <3>4, <3>5, <3>6, OtherJob, SameJobs
  <2> QED BY <2>1, <2>2
<1>5. CASE AddJid
  <2>1. /\ jobs' = [jobs EXCEPT ![slot["main"]].jid = nextjid]
        /\ pc["main"] = "addjid" /\ pc'["main"] = "wrapjid"
    BY <1>1, <1>5 DEF AddJid, At, Goto, TypeOK, Ctx
  <2>2. BeingAdded = {} /\ BeingAdded' = {}
    BY <2>1 DEF BeingAdded
  <2>3. \A i \in Slots : jobs'[i].pid = jobs[i].pid /\ jobs'[i].state = jobs[i].state
    BY <1>1, <2>1 DEF TypeOK, Entry
  <2>4. ASSUME NEW q \in Pid PROVE jobState(q)' = jobState(q)
    <3>1. CASE \E k \in Slots : jobs[k].pid = q
      BY <2>2, <2>3, <3>1 DEF JobsSeen
    <3>2. CASE \A k \in Slots : jobs[k].pid # q
      BY <2>2, <2>3, <3>2 DEF JobsSeen
    <3> QED BY <3>1, <3>2
  <2> QED BY <2>4, SameJobs
<1>6. ASSUME NEW m \in {FG, BG}, ReadLaunch(m) \/ ReadBgFg(m) \/ ReadBadId(m)
      PROVE  [JC!Next]_Seen
  <2>1. /\ UNCHANGED jobs /\ pc["main"] = "prompt"
        /\ pc'["main"] \in {"fork", "setstate", "prompt"}
    BY <1>1, <1>6 DEF ReadLaunch, ReadBgFg, ReadBadId, At, Goto, table, TypeOK, Ctx
  <2> QED BY <1>2, <2>1 DEF BeingAdded
<1>7. CASE Fork \/ WrapJid \/ Unmask \/ WaitFg \/ Cont \/ ContWait
  <2>1. /\ UNCHANGED jobs /\ pc["main"] # "addstate" /\ pc'["main"] # "addstate"
    BY <1>1, <1>7 DEF Fork, WrapJid, Unmask, WaitFg, Cont, ContWait, ToPrompt, At, Goto,
       table, TypeOK, Ctx
  <2> QED BY <1>2, <2>1 DEF BeingAdded
<1> QED BY <1>3, <1>4, <1>5, <1>6, <1>7 DEF MainStep

LEMMA StepIsJobControl == ASSUME ListInv, [Next]_vars PROVE [JC!Next]_Seen
<1>1. ListInv' /\ JobsSeen /\ JobsSeen' /\ TypeOK
  BY ListStep, SeenNow, SeenNext DEF ListInv, ForegroundInv, TypeInv
<1>2. ASSUME UNCHANGED <<jobs, pc["main"], slot["main"]>> PROVE [JC!Next]_Seen
  <2>1. BeingAdded' = BeingAdded
    BY <1>2 DEF BeingAdded
  <2> QED BY <1>2, <2>1, SameJobs DEF jobState
<1>3. CASE Environment
  BY <1>2, <1>3, EnvironmentFrame DEF shellSide
<1>4. CASE Quit \/ Ended \/ UNCHANGED vars
  <2>1. UNCHANGED <<jobs, pc["main"], slot["main"]>>
    BY <1>4 DEF Quit, Ended, vars, table
  <2> QED BY <1>2, <2>1
<1>5. ASSUME NEW s \in Sig, Deliver(s) PROVE [JC!Next]_Seen
  <2>1. UNCHANGED <<jobs, pc["main"], slot["main"]>>
    BY <1>1, <1>5, DeliverFrame DEF Deliver, table, mainSide
  <2> QED BY <1>2, <2>1
<1>6. CASE HandlerStep
  BY <1>1, <1>6, HandlerIsJobControl
<1>7. CASE (Command /\ ~Quit) \/ MainStep
  BY <1>1, <1>7, MainIsJobControl DEF Command
<1> QED BY <1>3, <1>4, <1>5, <1>6, <1>7 DEF Next

\* The shell implements job control as the comment on job states describes
\* it: main() and the handlers, however they interleave on the shared array,
\* take every job through the listed state changes only, and a job comes
\* into the foreground only when no other is there.
THEOREM ShellImplementsJobControl == Spec => ImplementsJobControl
<1>1. Init => JC!Init
  <2> SUFFICES ASSUME Init PROVE JC!Init
    OBVIOUS
  <2>1. JobsSeen
    BY ListHolds, SeenNow
  <2>2. \A i \in Slots, p \in Pid : jobs[i].pid # p
    BY JobTableAssumption DEF Init, init_jobs, Empty, NoPid
  <2> QED BY <2>1, <2>2 DEF JobsSeen, JC!Init
<1>2. ListInv /\ [Next]_vars => [JC!Next]_Seen
  BY StepIsJobControl
<1> QED BY <1>1, <1>2, ListHolds, ListStep, PTL DEF Spec, ImplementsJobControl, JC!Spec, Seen
=============================================================================
