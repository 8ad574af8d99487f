----------------------------- MODULE ByteStream -----------------------------
(***************************************************************************)
(* What the reading functions of Rio promise their callers: a stream of    *)
(* bytes 1, 2, ... of which a call takes the next line or the next n bytes *)
(* in one step, fewer only at the end of the stream.  Any number of bytes  *)
(* may be fetched ahead for calls that read lines and blocks; a call that  *)
(* reads directly gets what comes after them.                              *)
(***************************************************************************)
EXTENDS Integers, Sequences

CONSTANTS Total, Sizes

VARIABLES
    pos,            \* bytes that were fetched ahead or taken directly
    ahead,          \* those fetched ahead and not taken
    avail, eof,     \* bytes that were sent, whether more can come
    out,            \* the last answer
    nl

vars == <<pos, ahead, avail, eof, out, nl>>

Following(k) == [i \in 1..k |-> pos + i]

Init ==
    /\ pos = 0 /\ ahead = <<>> /\ avail = 0 /\ eof = FALSE
    /\ out = [call |-> "none", want |-> 0, bytes |-> <<>>]
    /\ nl \in SUBSET (1..Total)

Arrive ==
    /\ ~eof
    /\ avail' \in (avail + 1)..Total
    /\ UNCHANGED <<pos, ahead, eof, out, nl>>

End == eof' = TRUE /\ UNCHANGED <<pos, ahead, avail, out, nl>>

Fetch == \E k \in 1..(avail - pos) :
    /\ ahead' = ahead \o Following(k) /\ pos' = pos + k
    /\ UNCHANGED <<avail, eof, out, nl>>

atEnd == eof /\ pos = avail

Take(c, m, k) ==
    /\ ahead' = SubSeq(ahead, k + 1, Len(ahead))
    /\ out' = [call |-> c, want |-> m, bytes |-> SubSeq(ahead, 1, k)]
    /\ UNCHANGED <<pos, avail, eof, nl>>

\* A line: up to and with its newline, cut when it does not fit with the
\* final null byte, or by the end of the stream.
Line(m) == \E k \in 0..Len(ahead) :
    /\ k < m
    /\ \A j \in 1..(k - 1) : ahead[j] \notin nl
    /\ \/ k > 0 /\ ahead[k] \in nl
       \/ k = m - 1
       \/ atEnd /\ k = Len(ahead)
    /\ Take("line", m, k)

Block(m) == \E k \in 0..Len(ahead) :
    /\ k <= m
    /\ k = m \/ (atEnd /\ k = Len(ahead))
    /\ Take("block", m, k)

Direct(m) == \E k \in 0..(avail - pos) :
    /\ k <= m
    /\ k = m \/ (eof /\ pos + k = avail)
    /\ pos' = pos + k
    /\ out' = [call |-> "direct", want |-> m, bytes |-> Following(k)]
    /\ UNCHANGED <<ahead, avail, eof, nl>>

Next ==
    \/ Arrive \/ End \/ Fetch
    \/ \E m \in Sizes : Line(m) \/ Block(m) \/ Direct(m)

Spec == Init /\ [][Next]_vars
=============================================================================
