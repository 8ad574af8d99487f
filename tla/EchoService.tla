---------------------------- MODULE EchoService ----------------------------
(***************************************************************************)
(* What an echo server promises its clients, whichever way it is written:  *)
(* a connection that was accepted gets every line back that the client     *)
(* sends, and is closed after the client has closed its end and all lines  *)
(* are echoed.  It ends earlier only if the client resets it, if the       *)
(* server turns it away before the first echo, or if the service stops.    *)
(* In an isolated service a connection with an echo outlives that.         *)
(***************************************************************************)
EXTENDS Naturals

CONSTANT Client

VARIABLES
    isolated,   \* is a connection independent of all others?
    phase,      \* of each connection
    end,        \* of the client: "open", "shut" or "reset"
    sent,       \* lines the client has sent
    echoed,     \* lines it has got back
    stopped

vars == <<isolated, phase, end, sent, echoed, stopped>>

Init ==
    /\ isolated \in BOOLEAN
    /\ phase = [c \in Client |-> "away"]
    /\ end = [c \in Client |-> "open"]
    /\ sent = [c \in Client |-> 0]
    /\ echoed = [c \in Client |-> 0]
    /\ stopped = FALSE

Connect(c) ==
    /\ phase[c] = "away" /\ ~stopped
    /\ phase' = [phase EXCEPT ![c] = "waiting"]
    /\ UNCHANGED <<isolated, end, sent, echoed, stopped>>

Send(c) ==
    /\ phase[c] # "away" /\ end[c] = "open"
    /\ sent' = [sent EXCEPT ![c] = @ + 1]
    /\ UNCHANGED <<isolated, phase, end, echoed, stopped>>

Hangup(c) ==
    /\ phase[c] # "away" /\ end[c] # "reset"
    /\ \E e \in {"shut", "reset"} : end' = [end EXCEPT ![c] = e]
    /\ UNCHANGED <<isolated, phase, sent, echoed, stopped>>

Admit(c) ==
    /\ phase[c] = "waiting" /\ ~stopped
    /\ phase' = [phase EXCEPT ![c] = "open"]
    /\ UNCHANGED <<isolated, end, sent, echoed, stopped>>

Echo(c) ==
    /\ phase[c] = "open" /\ echoed[c] < sent[c]
    /\ echoed' = [echoed EXCEPT ![c] = @ + 1]
    /\ UNCHANGED <<isolated, phase, end, sent, stopped>>

Finish(c) ==
    /\ phase[c] = "open"
    /\ \/ end[c] = "shut" /\ echoed[c] = sent[c]
       \/ end[c] = "reset"
       \/ echoed[c] = 0
    /\ phase' = [phase EXCEPT ![c] = "closed"]
    /\ UNCHANGED <<isolated, end, sent, echoed, stopped>>

Stop ==
    /\ ~stopped /\ stopped' = TRUE
    /\ \E cut \in SUBSET {c \in Client : phase[c] = "open"} :
         /\ isolated => \A c \in cut : echoed[c] = 0
         /\ phase' = [c \in Client |-> IF c \in cut THEN "closed" ELSE phase[c]]
    /\ UNCHANGED <<isolated, end, sent, echoed>>

Next ==
    \/ \E c \in Client : \/ Connect(c) \/ Send(c) \/ Hangup(c)
                         \/ Admit(c) \/ Echo(c) \/ Finish(c)
    \/ Stop

Spec == Init /\ [][Next]_vars
=============================================================================
