------------------------------- MODULE MCTiny -------------------------------
(***************************************************************************)
(* An instance of Tiny: the first client asks for anything, the second for *)
(* what ends soon.                                                         *)
(***************************************************************************)
EXTENDS Tiny, TLC

CONSTANTS c1, c2

get(method, dynamic, file) ==
    [method |-> method, headers |-> <<>>, bytes |-> 0, dynamic |-> dynamic, file |-> file]
post(headers, bytes) ==
    [method |-> "POST", headers |-> headers, bytes |-> bytes, dynamic |-> TRUE, file |-> "ok"]

\* With MAXLINE = 3 a body of 2 bytes just fits, one of 3 overruns postdata, and
\* one of 4 data, too.
MCRequest ==
    {get("PUT", FALSE, "ok"), get("GET", FALSE, "missing"), get("GET", TRUE, "forbidden"),
     get("GET", FALSE, "ok"), get("GET", FALSE, "empty"), get("HEAD", FALSE, "ok"),
     get("GET", TRUE, "ok"), get("HEAD", TRUE, "ok"),
     post(<<"other", "length">>, 2), post(<<"length">>, 1),
     post(<<"other", "length">>, 3), post(<<"other", "length">>, 4)}

MCWants == (c1 :> MCRequest) @@ (c2 :> {get("HEAD", FALSE, "ok")})

\* Bound: where the body is too long, no other process fails than the writer and
\* the CGI with the overrun.
MCInit == Init /\ faults = {c \in Failing : req[c].bytes < MAXLINE}
MCSpec == MCInit /\ [][Next]_vars /\ Fairness
=============================================================================
