-------------------------------- MODULE Rio --------------------------------
(***************************************************************************)
(* The Rio package of csapp.c: the peer sends with rio_writen, the program *)
(* reads with rio_readlineb, rio_readnb (through the buffer of a rio_t) or *)
(* rio_readn, over a socket or pipe that transfers as many bytes at a time *)
(* as it likes.  The calls are those of the wrappers Rio_*: an error other *)
(* than EINTR ends the process.                                            *)
(*                                                                         *)
(* Bytes are numbered in the order the peer means to send them, so a byte  *)
(* that is lost, repeated or out of place shows; nl are the newlines among *)
(* them.  A step is one read() or write() or what follows it up to the     *)
(* next one.  rio_cnt, rio_bufptr and rio_buf are the rio_t; pointers are  *)
(* indices that start at 1.                                                *)
(***************************************************************************)
EXTENDS Integers, Sequences

CONSTANTS
    RIO_BUFSIZE,    \* size of rio_buf
    Cap,            \* what the socket holds between write() and read()
    Sizes,          \* the maxlen and n that callers pass
    Total,          \* bound: bytes the peer sends
    MaxIntr         \* bound: interrupted system calls

ASSUME RioAssumption ==
    /\ RIO_BUFSIZE \in Nat \ {0}
    /\ Cap \in Nat \ {0}
    /\ Sizes \subseteq Nat \ {0}
    /\ Total \in Nat
    /\ MaxIntr \in Nat

VARIABLES
    wpc, bufp, wleft,               \* the peer: next byte, nleft of rio_writen
    wire, taken,                    \* bytes written, how many were read()
    rio_cnt, rio_bufptr, rio_buf,
    rpc, want, n, usrbuf,           \* the call in progress: what was asked for,
                                    \* n of rio_readlineb or nleft, bytes stored
    res,                            \* what the last call answered
    given,                          \* history: all bytes callers got,
    skipped,                        \* and whether rio_readn went past bytes in the buffer
    nl, intr

writer == <<wpc, bufp, wleft>>
rio    == <<rio_cnt, rio_bufptr, rio_buf>>
call   == <<rpc, want, n, usrbuf>>
vars == <<wpc, bufp, wleft, wire, taken, rio_cnt, rio_bufptr, rio_buf,
          rpc, want, n, usrbuf, res, given, skipped, nl, intr>>

Byte == 1..Total
Smaller(a, b) == IF a <= b THEN a ELSE b

\* n consecutive elements of s after the first i.
Piece(s, i, k) == SubSeq(s, i + 1, i + k)

TypeOK ==
    /\ wpc \in {"idle", "writing", "closed", "failed"}
    /\ bufp \in 1..(Total + 1)
    /\ wleft \in 0..Total
    /\ wire \in Seq(Byte) /\ taken \in 0..Len(wire)
    /\ rio_cnt \in -1..RIO_BUFSIZE
    /\ rio_bufptr \in 1..(RIO_BUFSIZE + 1)
    /\ rio_buf \in [1..RIO_BUFSIZE -> Byte \cup {0}]
    /\ rpc \in {"idle", "line", "block", "direct", "failed"}
    /\ want \in Nat /\ n \in Nat
    /\ usrbuf \in Seq(Byte)
    /\ res \in [call : {"none", "line", "block", "direct"},
                want : Nat, ret : Nat, bytes : Seq(Byte)]
    /\ given \in Seq(Byte) /\ skipped \in BOOLEAN
    /\ nl \subseteq Byte
    /\ intr \in 0..MaxIntr

Init ==
    /\ wpc = "idle" /\ bufp = 1 /\ wleft = 0
    /\ wire = <<>> /\ taken = 0
    /\ rio_cnt = 0 /\ rio_bufptr = 1        \* rio_readinitb
    /\ rio_buf = [i \in 1..RIO_BUFSIZE |-> 0]
    /\ rpc = "idle" /\ want = 0 /\ n = 0 /\ usrbuf = <<>>
    /\ res = [call |-> "none", want |-> 0, ret |-> 0, bytes |-> <<>>]
    /\ given = <<>> /\ skipped = FALSE
    /\ nl \in SUBSET Byte
    /\ intr = MaxIntr

-----------------------------------------------------------------------------
(* rio_writen at the peer.                                                  *)

unread == Len(wire) - taken

WriteCall(k) ==
    /\ wpc = "idle"
    /\ bufp + k <= Total + 1
    /\ wpc' = "writing" /\ wleft' = k
    /\ UNCHANGED <<bufp, wire, taken, rio, call, res, given, skipped, nl, intr>>

\* write() takes k bytes: "nleft -= nwritten; bufp += nwritten".
Write(k) ==
    /\ wpc = "writing"
    /\ k <= wleft /\ k <= Cap - unread
    /\ wire' = wire \o [i \in 1..k |-> bufp + i - 1]
    /\ wleft' = wleft - k
    /\ bufp' = bufp + k
    /\ UNCHANGED <<wpc, taken, rio, call, res, given, skipped, nl, intr>>

\* EINTR: "nwritten = 0", and the loop calls write() again.
WriteInterrupted ==
    /\ wpc = "writing" /\ wleft > 0 /\ intr > 0
    /\ intr' = intr - 1
    /\ UNCHANGED <<writer, wire, taken, rio, call, res, given, skipped, nl>>

\* Any other error ends the peer, and its descriptor is closed.
WriteFails ==
    /\ wpc = "writing" /\ wleft > 0
    /\ wpc' = "failed"
    /\ UNCHANGED <<bufp, wleft, wire, taken, rio, call, res, given, skipped, nl, intr>>

WriteReturns ==
    /\ wpc = "writing" /\ wleft = 0
    /\ wpc' = "idle"
    /\ UNCHANGED <<bufp, wleft, wire, taken, rio, call, res, given, skipped, nl, intr>>

CloseEnd ==
    /\ wpc = "idle"
    /\ wpc' = "closed"
    /\ UNCHANGED <<bufp, wleft, wire, taken, rio, call, res, given, skipped, nl, intr>>

-----------------------------------------------------------------------------
(* The reader.                                                              *)

ended == wpc \in {"closed", "failed"}

CallLine_FromZero(m) == \* mutant: for (n = 0; ...)
    /\ rpc = "idle"
    /\ rpc' = "line" /\ want' = m /\ n' = 0
    /\ UNCHANGED <<writer, wire, taken, rio, usrbuf, res, given, skipped, nl, intr>>

CallLine(m) ==
    /\ rpc = "idle"
    /\ rpc' = "line" /\ want' = m /\ n' = 1
    /\ UNCHANGED <<writer, wire, taken, rio, usrbuf, res, given, skipped, nl, intr>>

\* rio_readnb, and rio_readn, which reads the descriptor whatever is in the
\* buffer of the rio_t.
CallBlock(c, m) ==
    /\ rpc = "idle"
    /\ rpc' = c /\ want' = m /\ n' = m
    /\ skipped' = (skipped \/ (c = "direct" /\ rio_cnt > 0))
    /\ UNCHANGED <<writer, wire, taken, rio, usrbuf, res, given, nl, intr>>

\* The loop condition of the call in progress.
wanting == \/ rpc = "line" /\ n < want
           \/ rpc \in {"block", "direct"} /\ n > 0

Return(value, stored) ==
    /\ rpc' = "idle" /\ n' = 0 /\ want' = 0 /\ usrbuf' = <<>>
    /\ res' = [call |-> rpc, want |-> want, ret |-> value, bytes |-> stored]

\* The loop of rio_read, "while (rp->rio_cnt <= 0)".
refilling == rpc \in {"line", "block"} /\ wanting /\ rio_cnt <= 0

Refill_Whole(k) == \* mutant: read() waits until the buffer is full
    /\ refilling
    /\ k = RIO_BUFSIZE /\ k <= unread
    /\ rio_buf' = [i \in 1..RIO_BUFSIZE |-> wire[taken + i]]
    /\ rio_cnt' = k
    /\ rio_bufptr' = 1
    /\ taken' = taken + k
    /\ UNCHANGED <<writer, wire, call, res, given, skipped, nl, intr>>

Refill_KeepsPtr(k) == \* mutant: rio_bufptr is not reset
    /\ refilling
    /\ k <= RIO_BUFSIZE /\ k <= unread
    /\ rio_buf' = [i \in 1..RIO_BUFSIZE |-> IF i <= k THEN wire[taken + i] ELSE rio_buf[i]]
    /\ rio_cnt' = k
    /\ rio_bufptr' = IF rio_bufptr + k - 1 <= RIO_BUFSIZE THEN rio_bufptr ELSE 1
    /\ taken' = taken + k
    /\ UNCHANGED <<writer, wire, call, res, given, skipped, nl, intr>>

Refill(k) ==
    /\ refilling
    /\ k <= RIO_BUFSIZE /\ k <= unread
    /\ rio_buf' = [i \in 1..RIO_BUFSIZE |-> IF i <= k THEN wire[taken + i] ELSE rio_buf[i]]
    /\ rio_cnt' = k
    /\ rio_bufptr' = 1
    /\ taken' = taken + k
    /\ UNCHANGED <<writer, wire, call, res, given, skipped, nl, intr>>

\* EINTR leaves -1 in rio_cnt, and the loop goes on.
RefillInterrupted ==
    /\ refilling /\ intr > 0
    /\ rio_cnt' = -1
    /\ intr' = intr - 1
    /\ UNCHANGED <<writer, wire, taken, rio_bufptr, rio_buf, call, res, given, skipped, nl>>

RefillEof_EmptyLine == \* mutant: end of file ends a line that was begun
    /\ refilling /\ ended /\ unread = 0
    /\ rio_cnt' = 0
    /\ Return(IF rpc = "line" THEN 0 ELSE want - n, usrbuf)
    /\ UNCHANGED <<writer, wire, taken, rio_bufptr, rio_buf, given, skipped, nl, intr>>

\* read() returns 0.  rio_readlineb answers 0 if the line is empty and n,
\* which is one more than it stored, if it is not.
RefillEof ==
    /\ refilling /\ ended /\ unread = 0
    /\ rio_cnt' = 0
    /\ Return(IF rpc = "line" THEN IF n = 1 THEN 0 ELSE n ELSE want - n, usrbuf)
    /\ UNCHANGED <<writer, wire, taken, rio_bufptr, rio_buf, given, skipped, nl, intr>>

\* Any other error ends the program.
ReadFails ==
    /\ refilling \/ (rpc = "direct" /\ wanting)
    /\ rpc' = "failed"
    /\ rio_cnt' = IF rpc = "direct" THEN rio_cnt ELSE -1
    /\ UNCHANGED <<writer, wire, taken, rio_bufptr, rio_buf, want, n, usrbuf, res, given, skipped, nl, intr>>

\* rio_read copies the next k bytes out of the buffer.
buffered(k) == Piece(rio_buf, rio_bufptr - 1, k)

Consume(k) ==
    /\ given' = given \o buffered(k)
    /\ rio_bufptr' = rio_bufptr + k
    /\ rio_cnt' = rio_cnt - k

Store(bytes) == usrbuf' = usrbuf \o bytes /\ UNCHANGED <<rpc, want, res>>

TakeByte_PastNewline == \* mutant: the line does not stop at its newline
    /\ rpc = "line" /\ wanting /\ rio_cnt > 0
    /\ Consume(1)
    /\ Store(buffered(1)) /\ n' = n + 1
    /\ UNCHANGED <<writer, wire, taken, rio_buf, skipped, nl, intr>>

\* rio_readlineb takes one byte and stops after a newline.
TakeByte ==
    /\ rpc = "line" /\ wanting /\ rio_cnt > 0
    /\ Consume(1)
    /\ IF rio_buf[rio_bufptr] \in nl
       THEN Return(n, usrbuf \o buffered(1))
       ELSE Store(buffered(1)) /\ n' = n + 1
    /\ UNCHANGED <<writer, wire, taken, rio_buf, skipped, nl, intr>>

TakeBlock_CountN == \* mutant: "rp->rio_cnt -= n"
    LET k == Smaller(n, rio_cnt) IN
    /\ rpc = "block" /\ wanting /\ rio_cnt > 0
    /\ given' = given \o buffered(k)
    /\ rio_bufptr' = rio_bufptr + k
    /\ rio_cnt' = rio_cnt - n
    /\ Store(buffered(k)) /\ n' = n - k
    /\ UNCHANGED <<writer, wire, taken, rio_buf, skipped, nl, intr>>

\* rio_readnb takes min(n, rio_cnt) bytes.
TakeBlock ==
    LET k == Smaller(n, rio_cnt) IN
    /\ rpc = "block" /\ wanting /\ rio_cnt > 0
    /\ Consume(k)
    /\ Store(buffered(k)) /\ n' = n - k
    /\ UNCHANGED <<writer, wire, taken, rio_buf, skipped, nl, intr>>

\* rio_readn reads into the caller's buffer.
ReadDirect(k) ==
    /\ rpc = "direct" /\ wanting
    /\ k <= n /\ k <= unread
    /\ given' = given \o Piece(wire, taken, k)
    /\ taken' = taken + k
    /\ Store(Piece(wire, taken, k)) /\ n' = n - k
    /\ UNCHANGED <<writer, wire, rio, skipped, nl, intr>>

ReadDirectInterrupted ==
    /\ rpc = "direct" /\ wanting /\ intr > 0
    /\ intr' = intr - 1
    /\ UNCHANGED <<writer, wire, taken, rio, call, res, given, skipped, nl>>

ReadDirectEof ==
    /\ rpc = "direct" /\ wanting /\ ended /\ unread = 0
    /\ Return(want - n, usrbuf)
    /\ UNCHANGED <<writer, wire, taken, rio, given, skipped, nl, intr>>

\* The caller's buffer is full.
Full ==
    /\ rpc \in {"line", "block", "direct"} /\ ~wanting
    /\ Return(IF rpc = "line" THEN n ELSE want, usrbuf)
    /\ UNCHANGED <<writer, wire, taken, rio, given, skipped, nl, intr>>

-----------------------------------------------------------------------------

WriterStep == WriteReturns \/ \E k \in 1..Total : Write(k)

ReaderStep ==
    \/ \E k \in 1..RIO_BUFSIZE : Refill(k)
    \/ RefillEof \/ TakeByte \/ TakeBlock \/ ReadDirectEof \/ Full
    \/ \E k \in 1..Total : ReadDirect(k)

Calls ==
    \/ \E m \in Sizes : \/ CallLine(m)
                        \/ \E c \in {"block", "direct"} : CallBlock(c, m)
    \/ \E k \in 1..Total : WriteCall(k)
    \/ CloseEnd

Faults == \/ WriteInterrupted \/ WriteFails
          \/ RefillInterrupted \/ ReadDirectInterrupted \/ ReadFails

\* Both ends are done.
Done == ended /\ rpc \in {"idle", "failed"} /\ UNCHANGED vars

Next == WriterStep \/ ReaderStep \/ Calls \/ Faults \/ Done

Spec == Init /\ [][Next]_vars

\* The kernel lets both loops go on, and the reader calls again as the echo
\* loops do, "while ((n = Rio_readlineb(...)) != 0)".
Fairness ==
    /\ WF_vars(WriterStep)
    /\ WF_vars(ReaderStep)
    /\ WF_vars(\E m \in Sizes : CallLine(m))

FairSpec == Spec /\ Fairness

-----------------------------------------------------------------------------
(* Properties.                                                              *)

held == IF rio_cnt > 0 THEN rio_cnt ELSE 0
inBuffer == buffered(held)

\* Whatever the short counts and interruptions, each byte that was read is in
\* a caller's hands or in the buffer, and only once.  Callers get them in the
\* order they were sent, unless an unbuffered read goes past the buffer.
InOrder ==
    /\ taken = Len(given) + Len(inBuffer)
    /\ \A b \in 1..taken : \/ \E i \in 1..Len(given) : given[i] = b
                          \/ \E i \in 1..Len(inBuffer) : inBuffer[i] = b
    /\ ~skipped => \A i \in 1..Len(given) : given[i] = i

\* The answer 0, which ends the servers' loops, comes only at the end of the
\* stream: no byte is on the way, or left in a buffer that rio_readn ignores.
ZeroMeansEof ==
    (rpc = "idle" /\ res.call # "none" /\ res.ret = 0)
        => /\ ended /\ unread = 0 /\ res.bytes = <<>>
           /\ rio_cnt <= 0 \/ (res.call = "direct" /\ skipped)

\* The servers send back as many bytes as they are told they got.  That many
\* were stored, however many refills and interruptions it took, unless
\* rio_readlineb cuts a line at the end of the stream or at maxlen: then it
\* counts the null byte that it adds, and the servers send that, too.
CountIsLength ==
    /\ res.call = "line" =>
         \/ res.ret = 0 /\ res.bytes = <<>>
         \/ LET k == Len(res.bytes) IN
              res.ret = k + (IF k > 0 /\ res.bytes[k] \in nl THEN 0 ELSE 1)
    /\ res.call \in {"block", "direct"} => res.ret = Len(res.bytes)

\* What the peer wrote arrives in the reader's hands, even if the socket
\* holds less than a line and the peer is itself waiting in rio_writen, as
\* long as no unbuffered read waits beyond bytes in the buffer.  rio_writen
\* returns for the same reason: the other end keeps reading.
BytesArrive ==
    /\ \A b \in Byte : (Len(wire) >= b) ~> \/ Len(given) >= b
                                           \/ rpc = "failed"
                                           \/ rpc = "direct" /\ rio_cnt > 0
    /\ (wpc = "writing") ~> (wpc # "writing" \/ rpc = "failed")
=============================================================================
