----------------------------- MODULE RioProofs -----------------------------
(***************************************************************************)
(* Order and completeness of what callers of Rio get, for every size of    *)
(* the buffer, of the socket and of the requests, and that Rio implements  *)
(* the abstract ByteStream.                                                *)
(***************************************************************************)
EXTENDS RioStream, SequenceTheorems, TLAPS

\* The bytes are numbered: on the wire ...
WireInOrder ==
  /\ \A i \in 1..Len(wire) : wire[i] = i
  /\ bufp = Len(wire) + 1
  /\ bufp + wleft <= Total + 1

\* The next bytes of the buffer, by place.
inBuf(i) == rio_buf[rio_bufptr + i - 1]

\* ... in the buffer, which holds what read() took and no caller got: what
\* comes next in the stream, until a caller goes past the buffer ...
BufferInOrder ==
  /\ taken = Len(given) + held
  /\ rio_cnt > 0 => rio_bufptr + rio_cnt <= RIO_BUFSIZE + 1
  /\ \A i \in 1..held : inBuf(i) \in Byte
  /\ \A b \in 1..taken : (\E i \in 1..Len(given) : given[i] = b) \/ (\E i \in 1..held : inBuf(i) = b)
  /\ ~skipped => \A i \in 1..held : inBuf(i) = Len(given) + i
  /\ ~skipped /\ rpc = "direct" => rio_cnt <= 0

\* ... in the caller's hands ...
CallInOrder ==
  /\ rpc = "idle" => usrbuf = <<>>
  /\ rpc = "line" => n = Len(usrbuf) + 1 /\ n <= want
  /\ rpc \in {"block", "direct"} => n + Len(usrbuf) = want
  /\ rpc = "line" => \A i \in 1..Len(usrbuf) : usrbuf[i] \notin nl
  /\ rpc = "direct" => \A i \in 1..Len(usrbuf) : usrbuf[i] = taken - Len(usrbuf) + i

\* ... and in all that callers got.
InTurn == ~skipped => \A i \in 1..Len(given) : given[i] = i

RioInv == TypeOK /\ WireInOrder /\ BufferInOrder /\ CallInOrder /\ InTurn

-----------------------------------------------------------------------------
(* Sequences of numbered bytes.                                             *)

\* The piece of a sequence that a copy takes.
LEMMA PieceTaken ==
  ASSUME NEW s, NEW i \in Nat, NEW k \in Nat, \A j \in 1..k : s[i + j] \in Byte
  PROVE  /\ Piece(s, i, k) \in Seq(Byte)
         /\ Len(Piece(s, i, k)) = k
         /\ \A j \in 1..k : Piece(s, i, k)[j] = s[i + j]
<1>1. \A j \in (i + 1)..(i + k) : s[j] \in Byte
  <2> SUFFICES ASSUME NEW j \in (i + 1)..(i + k) PROVE s[j] \in Byte
    OBVIOUS
  <2>1. j - i \in 1..k /\ i + (j - i) = j
    OBVIOUS
  <2> QED BY <2>1
<1>2. i + 1 \in Int /\ i + k \in Int
  OBVIOUS
<1>3. /\ SubSeq(s, i + 1, i + k) \in Seq(Byte)
      /\ Len(SubSeq(s, i + 1, i + k)) = IF i + 1 <= i + k THEN (i + k) - (i + 1) + 1 ELSE 0
      /\ \A j \in 1..((i + k) - (i + 1) + 1) :
            SubSeq(s, i + 1, i + k)[j] = s[(i + 1) + j - 1]
  BY <1>1, <1>2, SubSeqProperties
<1>4. (i + k) - (i + 1) + 1 = k /\ (k # 0 => i + 1 <= i + k)
      /\ (k = 0 => ~(i + 1 <= i + k))
  OBVIOUS
<1>5. \A j \in 1..k : (i + 1) + j - 1 = i + j
  OBVIOUS
<1> QED BY <1>3, <1>4, <1>5 DEF Piece

\* What is appended to a sequence comes after it.
LEMMA Appended ==
  ASSUME NEW s \in Seq(Byte), NEW t \in Seq(Byte)
  PROVE  /\ s \o t \in Seq(Byte)
         /\ Len(s \o t) = Len(s) + Len(t)
         /\ \A i \in 1..Len(s) : (s \o t)[i] = s[i]
         /\ \A i \in 1..Len(t) : (s \o t)[Len(s) + i] = t[i]
<1>1. Len(s) \in Nat /\ Len(t) \in Nat
  BY LenProperties
<1>2. /\ s \o t \in Seq(Byte) /\ Len(s \o t) = Len(s) + Len(t)
      /\ \A i \in 1..(Len(s) + Len(t)) :
           (s \o t)[i] = IF i <= Len(s) THEN s[i] ELSE t[i - Len(s)]
  BY ConcatProperties
<1>3. ASSUME NEW i \in 1..Len(s) PROVE (s \o t)[i] = s[i]
  <2>1. i \in 1..(Len(s) + Len(t)) /\ i <= Len(s)
    BY <1>1
  <2> QED BY <1>2, <2>1
<1>4. ASSUME NEW i \in 1..Len(t) PROVE (s \o t)[Len(s) + i] = t[i]
  <2>1. /\ Len(s) + i \in 1..(Len(s) + Len(t)) /\ ~(Len(s) + i <= Len(s))
        /\ (Len(s) + i) - Len(s) = i
    BY <1>1
  <2> QED BY <1>2, <2>1
<1> QED BY <1>2, <1>3, <1>4

\* Appending the bytes that come next keeps a sequence in order.
LEMMA StaysNumbered ==
  ASSUME NEW s \in Seq(Byte), NEW t \in Seq(Byte),
         \A i \in 1..Len(s) : s[i] = i,
         \A j \in 1..Len(t) : t[j] = Len(s) + j
  PROVE  /\ s \o t \in Seq(Byte)
         /\ Len(s \o t) = Len(s) + Len(t)
         /\ \A i \in 1..Len(s \o t) : (s \o t)[i] = i
<1>1. Len(s) \in Nat /\ Len(t) \in Nat
  BY LenProperties
<1>2. /\ s \o t \in Seq(Byte) /\ Len(s \o t) = Len(s) + Len(t)
      /\ \A i \in 1..Len(s) : (s \o t)[i] = s[i]
      /\ \A i \in 1..Len(t) : (s \o t)[Len(s) + i] = t[i]
  BY Appended
<1>3. ASSUME NEW i \in 1..Len(s \o t) PROVE (s \o t)[i] = i
  <2>1. CASE i <= Len(s)
    <3>1. i \in 1..Len(s)
      BY <1>1, <2>1
    <3> QED BY <1>2, <3>1
  <2>2. CASE ~(i <= Len(s))
    <3>1. i - Len(s) \in 1..Len(t) /\ Len(s) + (i - Len(s)) = i
      BY <1>1, <1>2, <2>2
    <3>2. (s \o t)[Len(s) + (i - Len(s))] = t[i - Len(s)]
      BY <1>2, <3>1
    <3> QED BY <3>1, <3>2
  <2> QED BY <2>1, <2>2
<1> QED BY <1>2, <1>3

-----------------------------------------------------------------------------
(* Facts of the typed state.                                                *)

LEMMA Lengths ==
  ASSUME RioInv
  PROVE  /\ Len(wire) \in Nat /\ Len(given) \in Nat /\ Len(usrbuf) \in Nat
         /\ taken \in Nat /\ taken <= Len(wire) /\ Len(wire) <= Total
         /\ unread \in Nat /\ held \in Nat /\ rio_cnt \in Int
         /\ RIO_BUFSIZE \in Nat /\ RIO_BUFSIZE > 0 /\ Total \in Nat
<1>1. wire \in Seq(Byte) /\ given \in Seq(Byte) /\ usrbuf \in Seq(Byte)
  BY DEF RioInv, TypeOK
<1>2. Len(wire) \in Nat /\ Len(given) \in Nat /\ Len(usrbuf) \in Nat
  BY <1>1, LenProperties
<1>3. taken \in 0..Len(wire) /\ rio_cnt \in -1..RIO_BUFSIZE /\ bufp \in 1..(Total + 1)
  BY DEF RioInv, TypeOK
<1>4. bufp = Len(wire) + 1
  BY DEF RioInv, WireInOrder
<1> QED BY <1>2, <1>3, <1>4, RioAssumption DEF unread, held

\* What a copy takes from the buffer.
LEMMA BufferPiece ==
  ASSUME RioInv, NEW k \in 0..held
  PROVE  /\ buffered(k) \in Seq(Byte)
         /\ Len(buffered(k)) = k
         /\ \A j \in 1..k : buffered(k)[j] = inBuf(j)
<1> DEFINE b == rio_bufptr - 1
<1>1. b \in Nat /\ k \in Nat /\ rio_bufptr = b + 1
  BY Lengths DEF RioInv, TypeOK
<1>2. \A j \in 1..held : rio_buf[rio_bufptr + j - 1] \in Byte
  BY DEF RioInv, BufferInOrder, inBuf
<1> HIDE DEF b
<1>3. ASSUME NEW j \in 1..k PROVE rio_buf[b + j] = inBuf(j) /\ rio_buf[b + j] \in Byte
  <2>1. j \in 1..held /\ rio_bufptr + j - 1 = b + j
    BY <1>1, Lengths
  <2> QED BY <1>2, <2>1 DEF inBuf
<1>4. /\ Piece(rio_buf, b, k) \in Seq(Byte)
      /\ Len(Piece(rio_buf, b, k)) = k
      /\ \A j \in 1..k : Piece(rio_buf, b, k)[j] = rio_buf[b + j]
  <2>1. \A j \in 1..k : rio_buf[b + j] \in Byte
    BY <1>3
  <2> QED BY <1>1, <2>1, PieceTaken
<1> QED BY <1>3, <1>4 DEF b, buffered

\* What read() takes from the wire.
LEMMA WirePiece ==
  ASSUME RioInv, NEW k \in 1..Total, k <= unread
  PROVE  /\ Piece(wire, taken, k) \in Seq(Byte)
         /\ Len(Piece(wire, taken, k)) = k
         /\ \A j \in 1..k : Piece(wire, taken, k)[j] = taken + j
<1>1. \A j \in 1..k : taken + j \in 1..Len(wire) /\ taken + j \in Byte
  BY Lengths DEF unread, Byte
<1>2. \A j \in 1..k : wire[taken + j] = taken + j
  BY <1>1 DEF RioInv, WireInOrder
<1>3. \A j \in 1..k : wire[taken + j] \in Byte
  BY <1>1, <1>2
<1>4. taken \in Nat /\ k \in Nat
  BY Lengths
<1>5. /\ Piece(wire, taken, k) \in Seq(Byte)
      /\ Len(Piece(wire, taken, k)) = k
      /\ \A j \in 1..k : Piece(wire, taken, k)[j] = wire[taken + j]
  BY <1>3, <1>4, PieceTaken
<1> QED BY <1>2, <1>5

-----------------------------------------------------------------------------
(* The steps of the peer.                                                   *)

\* What rio_writen hands to write() next.
Numbers(b, k) == [i \in 1..k |-> b + i]

LEMMA ChunkWritten ==
  ASSUME NEW b \in Nat, NEW k \in Nat, b + k <= Total, Total \in Nat
  PROVE  /\ Numbers(b, k) \in Seq(Byte)
         /\ Len(Numbers(b, k)) = k
         /\ \A i \in 1..k : Numbers(b, k)[i] = b + i
<1> DEFINE c == [i \in 1..k |-> b + i]
<1>1. c \in [1..k -> Byte]
  BY DEF Byte
<1>2. c \in Seq(Byte)
  BY <1>1, SeqDef
<1>3. DOMAIN c = 1..k /\ \A i \in 1..k : c[i] = b + i
  OBVIOUS
<1> HIDE DEF c
<1>4. DOMAIN c = 1..Len(c) /\ Len(c) \in Nat
  BY <1>2, LenProperties
<1>5. ~(k < Len(c)) /\ ~(Len(c) < k)
  <2>1. ASSUME k < Len(c) PROVE FALSE
    <3>1. Len(c) \in 1..Len(c) /\ Len(c) \notin 1..k
      BY <1>4, <2>1
    <3> QED BY <1>3, <1>4, <3>1
  <2>2. ASSUME Len(c) < k PROVE FALSE
    <3>1. k \in 1..k /\ k \notin 1..Len(c)
      BY <1>4, <2>2
    <3> QED BY <1>3, <1>4, <3>1
  <2> QED BY <2>1, <2>2
<1>6. k = Len(c)
  <2>1. Len(c) \in Nat
    BY <1>4
  <2> QED BY <1>5, <2>1
<1> QED BY <1>2, <1>3, <1>6 DEF c, Numbers

LEMMA PeerStep ==
  ASSUME RioInv,
         \/ \E k \in 1..Total : WriteCall(k) \/ Write(k)
         \/ WriteInterrupted \/ WriteFails \/ WriteReturns \/ CloseEnd
  PROVE  RioInv'
<1>0. TypeOK /\ WireInOrder /\ BufferInOrder /\ CallInOrder /\ InTurn
  BY DEF RioInv
<1>1. CASE UNCHANGED <<bufp, wire, taken, rio, call, res, given, skipped, nl>>
  <2>1. wpc' \in {"idle", "writing", "closed", "failed"} /\ intr' \in 0..MaxIntr
    <3>1. intr' = intr \/ (intr > 0 /\ intr' = intr - 1)
      BY <1>1 DEF WriteCall, Write, WriteInterrupted, WriteFails, WriteReturns, CloseEnd
    <3>2. intr' \in 0..MaxIntr
      BY <1>0, <3>1, RioAssumption DEF TypeOK
    <3>3. wpc' \in {"idle", "writing", "closed", "failed"}
      BY <1>0, <1>1
      DEF WriteCall, Write, WriteInterrupted, WriteFails, WriteReturns, CloseEnd, TypeOK, writer
    <3> QED BY <3>2, <3>3
  <2>2. wleft' \in 0..Total /\ bufp + wleft' <= Total + 1
    <3>1. CASE wleft' = wleft
      BY <1>0, <3>1 DEF TypeOK, WireInOrder
    <3>2. ASSUME NEW k \in 1..Total, WriteCall(k)
          PROVE  wleft' \in 0..Total /\ bufp + wleft' <= Total + 1
      BY <1>0, <3>2, RioAssumption DEF WriteCall, TypeOK
    <3>3. ASSUME NEW k \in 1..Total, Write(k) PROVE wleft' = wleft
      BY <1>0, <1>1, <3>3 DEF Write, TypeOK
    <3> QED BY <3>1, <3>2, <3>3 DEF WriteInterrupted, WriteFails, WriteReturns, CloseEnd, writer
  <2> QED BY <1>0, <1>1, <2>1, <2>2
      DEF RioInv, TypeOK, WireInOrder, BufferInOrder, CallInOrder, InTurn, held, inBuf, rio, call
<1>2. ASSUME NEW k \in 1..Total, Write(k) PROVE RioInv'
  <2> DEFINE d == Numbers(Len(wire), k)
  <2>1. /\ k <= wleft /\ wire' = wire \o [i \in 1..k |-> bufp + i - 1]
        /\ wleft' = wleft - k /\ bufp' = bufp + k
        /\ UNCHANGED <<wpc, taken, rio, call, res, given, skipped, nl, intr>>
    BY <1>2 DEF Write
  <2>2. [i \in 1..k |-> bufp + i - 1] = d
    <3>1. \A i \in 1..k : bufp + i - 1 = Len(wire) + i
      BY <1>0, Lengths DEF WireInOrder
    <3> QED BY <3>1 DEF Numbers
  <2>3. Len(wire) + k <= Total /\ wleft \in Nat
    <3>1. bufp + wleft <= Total + 1 /\ bufp = Len(wire) + 1 /\ wleft \in Nat
      BY <1>0 DEF WireInOrder, TypeOK
    <3> QED BY <2>1, <3>1, Lengths
  <2>4. /\ d \in Seq(Byte) /\ Len(d) = k
        /\ \A i \in 1..k : d[i] = Len(wire) + i
    BY <2>3, Lengths, ChunkWritten
  <2> HIDE DEF d
  <2>5. \A i \in 1..Len(d) : d[i] = Len(wire) + i
    BY <2>4, Lengths
  <2>6. wire \in Seq(Byte) /\ \A i \in 1..Len(wire) : wire[i] = i
    BY <1>0, Lengths DEF TypeOK, WireInOrder
  <2>7. /\ wire' \in Seq(Byte) /\ Len(wire') = Len(wire) + k
        /\ \A i \in 1..Len(wire') : wire'[i] = i
    <3>1. wire' = wire \o d
      BY <2>1, <2>2
    <3>2. /\ wire \o d \in Seq(Byte) /\ Len(wire \o d) = Len(wire) + Len(d)
          /\ \A i \in 1..Len(wire \o d) : (wire \o d)[i] = i
      BY <2>4, <2>5, <2>6, StaysNumbered
    <3> QED BY <2>4, <3>1, <3>2
  <2>8. bufp = Len(wire) + 1 /\ bufp + wleft <= Total + 1 /\ wleft <= Total
    BY <1>0 DEF WireInOrder, TypeOK
  <2>9. /\ bufp' = Len(wire') + 1 /\ bufp' + wleft' <= Total + 1
        /\ bufp' \in 1..(Total + 1) /\ wleft' \in 0..Total /\ taken' \in 0..Len(wire')
    <3>1. taken' = taken
      BY <2>1
    <3> QED BY <2>1, <2>3, <2>7, <2>8, <3>1, Lengths
  <2>10. TypeOK'
    BY <1>0, <2>1, <2>7, <2>9 DEF TypeOK, rio, call
  <2>11. BufferInOrder' /\ CallInOrder' /\ InTurn'
    BY <1>0, <2>1 DEF BufferInOrder, CallInOrder, InTurn, held, inBuf, rio, call
  <2>12. WireInOrder'
    BY <2>7, <2>9 DEF WireInOrder
  <2> QED BY <2>10, <2>11, <2>12 DEF RioInv
<1>3. ASSUME WriteInterrupted \/ WriteFails \/ WriteReturns \/ CloseEnd
             \/ \E k \in 1..Total : WriteCall(k)
      PROVE  UNCHANGED <<bufp, wire, taken, rio, call, res, given, skipped, nl>>
  BY <1>3 DEF WriteInterrupted, WriteFails, WriteReturns, CloseEnd, WriteCall, writer
<1> QED BY <1>1, <1>2, <1>3

-----------------------------------------------------------------------------
(* The steps of the reader.                                                 *)

CallTyped ==
  /\ rpc \in {"idle", "line", "block", "direct", "failed"}
  /\ want \in Nat /\ n \in Nat
  /\ usrbuf \in Seq(Byte)
  /\ res \in [call : {"none", "line", "block", "direct"},
              want : Nat, ret : Nat, bytes : Seq(Byte)]

RioTyped ==
  /\ rio_cnt \in -1..RIO_BUFSIZE
  /\ rio_bufptr \in 1..(RIO_BUFSIZE + 1)
  /\ rio_buf \in [1..RIO_BUFSIZE -> Byte \cup {0}]

GivenInOrder == given \in Seq(Byte) /\ skipped \in BOOLEAN /\ InTurn

\* A reader's step leaves the peer and the wire alone; it remains to look at
\* the buffer, the call and what was given.
LEMMA ReaderFrame ==
  ASSUME RioInv, UNCHANGED <<writer, wire, nl>>, intr' \in 0..MaxIntr,
         taken' \in 0..Len(wire),
         CallTyped', RioTyped', GivenInOrder', BufferInOrder', CallInOrder'
  PROVE  RioInv'
  BY DEF RioInv, TypeOK, WireInOrder, CallTyped, RioTyped, GivenInOrder, writer

LEMMA CallReturns ==
  ASSUME RioInv, rpc \in {"line", "block", "direct"},
         NEW v \in Nat, NEW b \in Seq(Byte), Return(v, b)
  PROVE  CallTyped' /\ CallInOrder' /\ rpc' = "idle"
<1>1. want \in Nat
  BY DEF RioInv, TypeOK
<1>2. /\ rpc' = "idle" /\ n' = 0 /\ want' = 0 /\ usrbuf' = <<>>
      /\ res' = [call |-> rpc, want |-> want, ret |-> v, bytes |-> b]
  BY DEF Return
<1>3. <<>> \in Seq(Byte) /\ Len(<<>>) = 0
  BY EmptySeq
<1>4. CallTyped'
  BY <1>1, <1>2, <1>3 DEF CallTyped
<1>5. CallInOrder'
  BY <1>2 DEF CallInOrder
<1> QED BY <1>2, <1>4, <1>5

LEMMA ConsumeKeeps ==
  ASSUME RioInv, NEW k \in 1..held, Consume(k), UNCHANGED <<taken, rio_buf, skipped>>, rpc' # "direct"
  PROVE  RioTyped' /\ GivenInOrder' /\ BufferInOrder'
<1>1. /\ given' = given \o buffered(k)
      /\ rio_bufptr' = rio_bufptr + k
      /\ rio_cnt' = rio_cnt - k
  BY DEF Consume
<1>2. /\ given \in Seq(Byte) /\ skipped \in BOOLEAN /\ (~skipped => \A i \in 1..Len(given) : given[i] = i)
      /\ rio_bufptr \in 1..(RIO_BUFSIZE + 1) /\ rio_buf \in [1..RIO_BUFSIZE -> Byte \cup {0}]
      /\ rio_cnt \in -1..RIO_BUFSIZE
  BY DEF RioInv, TypeOK, InTurn
<1>3. /\ taken = Len(given) + held
      /\ rio_cnt > 0 => rio_bufptr + rio_cnt <= RIO_BUFSIZE + 1
      /\ \A i \in 1..held : inBuf(i) \in Byte
      /\ \A b \in 1..taken : (\E i \in 1..Len(given) : given[i] = b) \/ (\E i \in 1..held : inBuf(i) = b)
      /\ ~skipped => \A i \in 1..held : inBuf(i) = Len(given) + i
  BY DEF RioInv, BufferInOrder
<1>4. rio_cnt > 0 /\ held = rio_cnt /\ k <= rio_cnt /\ k \in Nat /\ k > 0 /\ held \in Nat
  BY Lengths DEF held
<1>5. PICK t \in Seq(Byte) : t = buffered(k) /\ Len(t) = k /\ \A j \in 1..k : t[j] = inBuf(j)
  <2>1. k \in 0..held
    BY <1>4
  <2> QED BY <2>1, BufferPiece
<1>6. /\ given' \in Seq(Byte) /\ Len(given') = Len(given) + k
      /\ \A i \in 1..Len(given) : given'[i] = given[i]
      /\ \A j \in 1..k : given'[Len(given) + j] = inBuf(j)
  <2>1. /\ given \o t \in Seq(Byte) /\ Len(given \o t) = Len(given) + Len(t)
        /\ \A i \in 1..Len(given) : (given \o t)[i] = given[i]
        /\ \A j \in 1..Len(t) : (given \o t)[Len(given) + j] = t[j]
    BY <1>2, Appended
  <2>2. given' = given \o t
    BY <1>1, <1>5
  <2> QED BY <1>5, <2>1, <2>2
<1>7. held' = held - k /\ rio_cnt' \in -1..RIO_BUFSIZE /\ rio_cnt' \in Nat
  <2>1. rio_cnt' \in Nat /\ rio_cnt' \in -1..RIO_BUFSIZE
    BY <1>1, <1>2, <1>4, Lengths
  <2> QED BY <1>1, <1>4, <2>1 DEF held
<1>8. rio_bufptr' \in 1..(RIO_BUFSIZE + 1) /\ rio_bufptr' + rio_cnt' <= RIO_BUFSIZE + 1
  BY <1>1, <1>2, <1>3, <1>4, Lengths
<1>9. taken' = Len(given') + held'
  BY <1>3, <1>4, <1>6, <1>7, Lengths
<1>10. ASSUME NEW i \in 1..held' PROVE inBuf(i)' = inBuf(i + k) /\ i + k \in 1..held
  <2>1. i + k \in 1..held /\ i \in Int
    BY <1>4, <1>7
  <2>2. rio_bufptr' + i - 1 = rio_bufptr + (i + k) - 1
    BY <1>1, <1>2, <1>4, <2>1
  <2>3. inBuf(i)' = rio_buf'[rio_bufptr' + i - 1]
    BY DEF inBuf
  <2> QED BY <2>1, <2>2, <2>3 DEF inBuf
<1>11. ASSUME NEW b \in 1..taken
       PROVE  (\E i \in 1..Len(given') : given'[i] = b) \/ (\E i \in 1..held' : inBuf(i)' = b)
  <2>1. CASE \E i \in 1..Len(given) : given[i] = b
    <3>1. PICK i \in 1..Len(given) : given[i] = b
      BY <2>1
    <3>2. i \in 1..Len(given')
      BY <1>4, <1>6, Lengths
    <3> QED BY <1>6, <3>1, <3>2
  <2>2. CASE \E i \in 1..held : inBuf(i) = b
    <3>1. PICK i \in 1..held : inBuf(i) = b
      BY <2>2
    <3>2. CASE i <= k
      <4>1. i \in 1..k /\ Len(given) + i \in 1..Len(given')
        BY <1>4, <1>6, <3>2, Lengths
      <4> QED BY <1>6, <3>1, <4>1
    <3>3. CASE ~(i <= k)
      <4>1. i - k \in 1..held' /\ (i - k) + k = i
        BY <1>4, <1>7, <3>3
      <4> QED BY <1>10, <3>1, <4>1
    <3> QED BY <3>2, <3>3
  <2> QED BY <1>3, <2>1, <2>2
<1>12. ~skipped => /\ \A i \in 1..held' : inBuf(i)' = Len(given') + i
                   /\ \A i \in 1..Len(given') : given'[i] = i
  <2> SUFFICES ASSUME ~skipped
               PROVE  /\ \A i \in 1..held' : inBuf(i)' = Len(given') + i
                      /\ \A i \in 1..Len(given') : given'[i] = i
    OBVIOUS
  <2>1. ASSUME NEW i \in 1..held' PROVE inBuf(i)' = Len(given') + i
    <3>1. inBuf(i)' = Len(given) + (i + k)
      BY <1>3, <1>10
    <3>2. Len(given) + (i + k) = Len(given') + i
      BY <1>4, <1>6, <1>7, Lengths
    <3> QED BY <3>1, <3>2
  <2>2. ASSUME NEW i \in 1..Len(given') PROVE given'[i] = i
    <3>1. CASE i <= Len(given)
      <4>1. i \in 1..Len(given)
        BY <3>1, Lengths
      <4> QED BY <1>2, <1>6, <4>1
    <3>2. CASE ~(i <= Len(given))
      <4>1. i - Len(given) \in 1..k /\ i - Len(given) \in 1..held /\ Len(given) + (i - Len(given)) = i
        BY <1>4, <1>6, <3>2, Lengths
      <4> QED BY <1>3, <1>6, <4>1
    <3> QED BY <3>1, <3>2
  <2> QED BY <2>1, <2>2
<1>13. \A i \in 1..held' : inBuf(i)' \in Byte
  BY <1>3, <1>10
<1>14. BufferInOrder'
  BY <1>8, <1>9, <1>11, <1>12, <1>13 DEF BufferInOrder
<1>15. InTurn'
  BY <1>12 DEF InTurn
<1> QED BY <1>2, <1>6, <1>7, <1>8, <1>14, <1>15 DEF RioTyped, GivenInOrder

LEMMA RefillStep == ASSUME RioInv, NEW k \in 1..RIO_BUFSIZE, Refill(k) PROVE RioInv'
<1>1. /\ k <= RIO_BUFSIZE /\ k <= unread /\ refilling /\ rio_cnt <= 0
      /\ rio_buf' = [i \in 1..RIO_BUFSIZE |-> IF i <= k THEN wire[taken + i] ELSE rio_buf[i]]
      /\ rio_cnt' = k /\ rio_bufptr' = 1 /\ taken' = taken + k
      /\ UNCHANGED <<writer, wire, call, res, given, skipped, nl, intr>>
  BY DEF Refill, refilling
<1>2. /\ rio_buf \in [1..RIO_BUFSIZE -> Byte \cup {0}] /\ wire \in Seq(Byte)
      /\ intr \in 0..MaxIntr /\ given \in Seq(Byte) /\ skipped \in BOOLEAN
  BY DEF RioInv, TypeOK
<1>3. held = 0 /\ taken = Len(given)
  BY <1>1, Lengths DEF held, RioInv, BufferInOrder
<1>4. \A i \in 1..k : taken + i \in 1..Len(wire) /\ taken + i \in Byte
  BY <1>1, Lengths DEF unread, Byte
<1>5. \A i \in 1..k : wire[taken + i] = taken + i
  BY <1>4 DEF RioInv, WireInOrder
<1>6. rio_buf' \in [1..RIO_BUFSIZE -> Byte \cup {0}]
  <2>1. \A i \in 1..RIO_BUFSIZE :
           (IF i <= k THEN wire[taken + i] ELSE rio_buf[i]) \in Byte \cup {0}
    <3> SUFFICES ASSUME NEW i \in 1..RIO_BUFSIZE
                 PROVE  (IF i <= k THEN wire[taken + i] ELSE rio_buf[i]) \in Byte \cup {0}
      OBVIOUS
    <3>1. CASE i <= k
      <4>1. i \in 1..k
        BY <3>1, Lengths
      <4> QED BY <1>4, <1>5, <3>1, <4>1
    <3>2. CASE ~(i <= k)
      BY <1>2, <3>2
    <3> QED BY <3>1, <3>2
  <2> QED BY <1>1, <2>1
<1>7. RioTyped'
  <2>1. rio_cnt' \in -1..RIO_BUFSIZE /\ rio_bufptr' \in 1..(RIO_BUFSIZE + 1)
    BY <1>1, Lengths
  <2> QED BY <1>6, <2>1 DEF RioTyped
<1>8. BufferInOrder'
  <2>1. held' = k /\ rio_bufptr' + rio_cnt' <= RIO_BUFSIZE + 1
    BY <1>1, Lengths DEF held
  <2>2. taken' = Len(given') + held'
    BY <1>1, <1>3, <2>1, Lengths
  <2>3. ASSUME NEW i \in 1..held' PROVE inBuf(i)' = taken + i /\ inBuf(i)' \in Byte
    <3>1. i \in 1..k /\ i \in 1..RIO_BUFSIZE /\ i <= k /\ rio_bufptr' + i - 1 = i
      BY <1>1, <2>1, <2>3, Lengths
    <3>2. rio_buf'[i] = wire[taken + i]
      BY <1>1, <3>1
    <3>3. inBuf(i)' = rio_buf'[rio_bufptr' + i - 1]
      BY DEF inBuf
    <3>4. inBuf(i)' = taken + i
      BY <1>5, <3>1, <3>2, <3>3
    <3> QED BY <1>4, <3>1, <3>4
  <2>4. ASSUME NEW b \in 1..taken'
        PROVE  (\E i \in 1..Len(given') : given'[i] = b) \/ (\E i \in 1..held' : inBuf(i)' = b)
    <3>1. CASE b <= taken
      <4>1. b \in 1..taken /\ 1..held = {}
        BY <1>3, <3>1, Lengths
      <4>2. \E i \in 1..Len(given) : given[i] = b
        BY <4>1 DEF RioInv, BufferInOrder
      <4> QED BY <1>1, <4>2
    <3>2. CASE ~(b <= taken)
      <4>1. b - taken \in 1..held' /\ taken + (b - taken) = b
        BY <1>1, <2>1, <3>2, Lengths
      <4> QED BY <2>3, <4>1
    <3> QED BY <3>1, <3>2
  <2>5. \A i \in 1..held' : inBuf(i)' = Len(given') + i
    BY <1>1, <1>3, <2>3
  <2>6. rpc' # "direct"
    BY <1>1 DEF refilling, call
  <2> QED BY <2>1, <2>2, <2>3, <2>4, <2>5, <2>6 DEF BufferInOrder
<1>9. CallTyped' /\ GivenInOrder'
  BY <1>1 DEF RioInv, TypeOK, CallTyped, GivenInOrder, InTurn, call
<1>10. CallInOrder'
  <2>1. rpc' = rpc /\ rpc # "direct" /\ usrbuf' = usrbuf /\ want' = want /\ n' = n /\ nl' = nl
    BY <1>1 DEF refilling, call
  <2> QED BY <2>1 DEF RioInv, CallInOrder
<1>11. taken' \in 0..Len(wire)
  BY <1>1, Lengths DEF unread
<1> QED BY <1>1, <1>2, <1>7, <1>8, <1>9, <1>10, <1>11, ReaderFrame

\* A read that brings nothing, and the calls.
LEMMA QuietStep ==
  ASSUME RioInv,
         \/ RefillInterrupted \/ ReadFails \/ ReadDirectInterrupted
         \/ \E m \in Sizes : CallLine(m) \/ CallBlock("block", m) \/ CallBlock("direct", m)
  PROVE  RioInv'
<1>1. /\ UNCHANGED <<writer, wire, taken, rio_bufptr, rio_buf, usrbuf, res, given, nl>>
      /\ rio_cnt' = rio_cnt \/ (rio_cnt <= 0 /\ rio_cnt' = -1)
      /\ skipped' \in BOOLEAN /\ (~skipped' => ~skipped)
      /\ ~skipped' /\ rpc' = "direct" => rio_cnt <= 0
  <2>0. skipped \in BOOLEAN /\ rio_cnt \in Int
    BY Lengths DEF RioInv, TypeOK
  <2>1. CASE RefillInterrupted
    BY <2>0, <2>1 DEF RefillInterrupted, refilling, call
  <2>2. CASE ReadFails
    BY <2>0, <2>2 DEF ReadFails, refilling
  <2>3. CASE ReadDirectInterrupted
    BY <2>0, <2>3 DEF ReadDirectInterrupted, call, rio, RioInv, BufferInOrder
  <2>4. ASSUME NEW m \in Sizes, CallLine(m) \/ CallBlock("block", m) \/ CallBlock("direct", m)
        PROVE  /\ UNCHANGED <<writer, wire, taken, rio, usrbuf, res, given, nl>>
               /\ skipped' \in BOOLEAN /\ (~skipped' => ~skipped)
               /\ ~skipped' /\ rpc' = "direct" => rio_cnt <= 0
    <3>1. CASE CallLine(m)
      BY <2>0, <3>1 DEF CallLine
    <3>2. ASSUME NEW c \in {"block", "direct"}, CallBlock(c, m)
          PROVE  /\ UNCHANGED <<writer, wire, taken, rio, usrbuf, res, given, nl>>
                 /\ skipped' \in BOOLEAN /\ (~skipped' => ~skipped)
                 /\ ~skipped' /\ rpc' = "direct" => rio_cnt <= 0
      <4>1. /\ UNCHANGED <<writer, wire, taken, rio, usrbuf, res, given, nl>>
            /\ rpc' = c /\ skipped' = (skipped \/ (c = "direct" /\ rio_cnt > 0))
        BY <3>2 DEF CallBlock
      <4>2. CASE c = "direct" /\ rio_cnt > 0
        BY <4>1, <4>2
      <4>3. CASE ~(c = "direct" /\ rio_cnt > 0)
        <5>1. skipped' = skipped
          BY <2>0, <4>1, <4>3
        <5>2. c = "direct" => rio_cnt <= 0
          BY <2>0, <4>3
        <5> QED BY <2>0, <4>1, <5>1, <5>2
      <4> QED BY <4>2, <4>3
    <3> QED BY <2>4, <3>1, <3>2
  <2> QED BY <2>1, <2>2, <2>3, <2>4 DEF rio
<1>2. /\ given \in Seq(Byte) /\ usrbuf \in Seq(Byte) /\ rio_cnt \in -1..RIO_BUFSIZE
      /\ intr \in 0..MaxIntr /\ taken \in 0..Len(wire)
  BY DEF RioInv, TypeOK
<1>3. intr' \in 0..MaxIntr
  <2>1. intr' = intr \/ (intr > 0 /\ intr' = intr - 1)
    BY DEF RefillInterrupted, ReadFails, ReadDirectInterrupted, CallLine, CallBlock
  <2> QED BY <1>2, <2>1, RioAssumption
<1>4. held' = held /\ rio_cnt' \in -1..RIO_BUFSIZE
  BY <1>1, <1>2, Lengths DEF held
<1>5. RioTyped'
  BY <1>1, <1>4 DEF RioInv, TypeOK, RioTyped
<1>6. BufferInOrder'
  <2>1. rio_cnt' > 0 => rio_cnt' = rio_cnt
    BY <1>1
  <2>2. rio_cnt <= 0 => rio_cnt' <= 0
    BY <1>1
  <2>3. \A i : inBuf(i)' = inBuf(i)
    BY <1>1 DEF inBuf
  <2> QED BY <1>1, <1>4, <2>1, <2>2, <2>3 DEF RioInv, BufferInOrder
<1>7. GivenInOrder'
  BY <1>1, <1>2 DEF RioInv, GivenInOrder, InTurn
<1>8. CallTyped' /\ CallInOrder'
  <2>1. CASE rpc' = "failed" /\ want' = want /\ n' = n
    BY <1>1, <2>1 DEF RioInv, TypeOK, CallTyped, CallInOrder
  <2>2. CASE UNCHANGED call
    BY <1>1, <2>2 DEF RioInv, TypeOK, CallTyped, CallInOrder, call
  <2>3. ASSUME NEW m \in Sizes, rpc = "idle", want' = m,
               \/ rpc' = "line" /\ n' = 1
               \/ rpc' \in {"block", "direct"} /\ n' = m
        PROVE  CallTyped' /\ CallInOrder'
    <3>1. m \in Nat /\ m > 0
      BY RioAssumption
    <3>2. usrbuf' = <<>> /\ Len(usrbuf') = 0 /\ 1..Len(usrbuf') = {}
      BY <1>1, <2>3, EmptySeq DEF RioInv, CallInOrder
    <3>3. CallTyped'
      BY <1>1, <2>3, <3>1 DEF RioInv, TypeOK, CallTyped
    <3>4. CallInOrder'
      BY <2>3, <3>1, <3>2 DEF CallInOrder
    <3> QED BY <3>3, <3>4
  <2>4. CASE RefillInterrupted \/ ReadFails \/ ReadDirectInterrupted
    BY <2>1, <2>2, <2>4 DEF RefillInterrupted, ReadFails, ReadDirectInterrupted
  <2>5. ASSUME NEW m \in Sizes, CallLine(m) \/ CallBlock("block", m) \/ CallBlock("direct", m)
        PROVE  CallTyped' /\ CallInOrder'
    BY <2>3, <2>5 DEF CallLine, CallBlock
  <2> QED BY <2>4, <2>5
<1> QED BY <1>1, <1>2, <1>3, <1>5, <1>6, <1>7, <1>8, ReaderFrame

LEMMA EndStep == ASSUME RioInv, RefillEof \/ ReadDirectEof \/ Full PROVE RioInv'
<1>1. /\ UNCHANGED <<writer, wire, taken, rio_bufptr, rio_buf, given, skipped, nl, intr>>
      /\ rio_cnt' = rio_cnt \/ (rio_cnt <= 0 /\ rio_cnt' = 0)
      /\ rpc \in {"line", "block", "direct"}
  BY DEF RefillEof, ReadDirectEof, Full, refilling, rio
<1>2. /\ given \in Seq(Byte) /\ usrbuf \in Seq(Byte) /\ rio_cnt \in -1..RIO_BUFSIZE
      /\ intr \in 0..MaxIntr /\ taken \in 0..Len(wire) /\ n \in Nat /\ want \in Nat
  BY DEF RioInv, TypeOK
<1>3. want - n \in Nat \/ rpc = "line"
  <2>1. rpc = "line" \/ n + Len(usrbuf) = want
    BY <1>1 DEF RioInv, CallInOrder
  <2> QED BY <1>2, <2>1, Lengths
<1>4. CallTyped' /\ CallInOrder' /\ rpc' = "idle"
  <2>1. \E v \in Nat : Return(v, usrbuf)
    <3>1. CASE RefillEof \/ ReadDirectEof
      <4>1. PICK v : Return(v, usrbuf) /\ v \in {0, n, want - n} /\ (rpc = "line" => v # want - n \/ v = n \/ v = 0)
        BY <3>1 DEF RefillEof, ReadDirectEof
      <4> QED BY <1>2, <1>3, <4>1
    <3>2. CASE Full
      BY <1>2, <3>2 DEF Full
    <3> QED BY <3>1, <3>2
  <2> QED BY <1>1, <1>2, <2>1, CallReturns
<1>5. held' = held /\ rio_cnt' \in -1..RIO_BUFSIZE
  BY <1>1, <1>2, Lengths DEF held
<1>6. RioTyped' /\ GivenInOrder'
  BY <1>1, <1>5 DEF RioInv, TypeOK, RioTyped, GivenInOrder, InTurn
<1>7. BufferInOrder'
  <2>1. rio_cnt' > 0 => rio_cnt' = rio_cnt
    BY <1>1
  <2>2. \A i : inBuf(i)' = inBuf(i)
    BY <1>1 DEF inBuf
  <2> QED BY <1>1, <1>4, <1>5, <2>1, <2>2 DEF RioInv, BufferInOrder
<1> QED BY <1>1, <1>2, <1>4, <1>6, <1>7, ReaderFrame

LEMMA TakeByteStep == ASSUME RioInv, TakeByte PROVE RioInv'
<1>1. /\ rpc = "line" /\ n < want /\ rio_cnt > 0 /\ Consume(1)
      /\ UNCHANGED <<writer, wire, taken, rio_buf, skipped, nl, intr>>
  BY DEF TakeByte, wanting
<1>2. 1 \in 1..held /\ 1 \in 0..held /\ Len(usrbuf) \in Nat
  BY <1>1, Lengths DEF held
<1>3. PICK t \in Seq(Byte) : t = buffered(1) /\ Len(t) = 1 /\ t[1] = rio_buf[rio_bufptr]
  <2>1. /\ buffered(1) \in Seq(Byte) /\ Len(buffered(1)) = 1
        /\ \A j \in 1..1 : buffered(1)[j] = inBuf(j)
    BY <1>2, BufferPiece
  <2>2. rio_bufptr + 1 - 1 = rio_bufptr
    BY DEF RioInv, TypeOK
  <2> QED BY <2>1, <2>2 DEF inBuf
<1>4. /\ usrbuf \o t \in Seq(Byte)
      /\ Len(usrbuf \o t) = Len(usrbuf) + 1
      /\ \A i \in 1..Len(usrbuf) : (usrbuf \o t)[i] = usrbuf[i]
      /\ (usrbuf \o t)[Len(usrbuf) + 1] = t[1]
  <2>1. usrbuf \in Seq(Byte) /\ 1 \in 1..1
    BY DEF RioInv, TypeOK
  <2>2. /\ usrbuf \o t \in Seq(Byte) /\ Len(usrbuf \o t) = Len(usrbuf) + Len(t)
        /\ \A i \in 1..Len(usrbuf) : (usrbuf \o t)[i] = usrbuf[i]
        /\ \A i \in 1..Len(t) : (usrbuf \o t)[Len(usrbuf) + i] = t[i]
    BY <2>1, Appended
  <2> QED BY <1>3, <2>1, <2>2
<1>5. intr \in 0..MaxIntr /\ taken \in 0..Len(wire) /\ n \in Nat /\ want \in Nat
  BY DEF RioInv, TypeOK
<1>6. n = Len(usrbuf) + 1 /\ \A i \in 1..Len(usrbuf) : usrbuf[i] \notin nl
  BY <1>1 DEF RioInv, CallInOrder
<1>7. CASE rio_buf[rio_bufptr] \in nl
  <2>1. Return(n, usrbuf \o t)
    BY <1>3, <1>7 DEF TakeByte
  <2>2. rpc' = "idle"
    BY <2>1 DEF Return
  <2>3. RioTyped' /\ GivenInOrder' /\ BufferInOrder'
    BY <1>1, <1>2, <2>2, ConsumeKeeps
  <2>4. CallTyped' /\ CallInOrder'
    BY <1>1, <1>4, <1>5, <2>1, CallReturns
  <2> QED BY <1>1, <1>5, <2>3, <2>4, ReaderFrame
<1>8. CASE rio_buf[rio_bufptr] \notin nl
  <2>1. usrbuf' = usrbuf \o t /\ n' = n + 1 /\ UNCHANGED <<rpc, want, res>>
    BY <1>3, <1>8 DEF TakeByte, Store
  <2>2. RioTyped' /\ GivenInOrder' /\ BufferInOrder'
    BY <1>1, <1>2, <2>1, ConsumeKeeps
  <2>3. CallTyped'
    BY <1>4, <1>5, <2>1 DEF RioInv, TypeOK, CallTyped
  <2>4. \A i \in 1..Len(usrbuf') : usrbuf'[i] \notin nl
    <3> SUFFICES ASSUME NEW i \in 1..Len(usrbuf') PROVE usrbuf'[i] \notin nl
      OBVIOUS
    <3>1. i \in 1..Len(usrbuf) \/ i = Len(usrbuf) + 1
      BY <1>2, <1>4, <2>1
    <3> QED BY <1>3, <1>4, <1>6, <1>8, <2>1, <3>1
  <2>5. n' = Len(usrbuf') + 1 /\ n' <= want
    BY <1>1, <1>2, <1>4, <1>5, <1>6, <2>1
  <2>6. CallInOrder'
    BY <1>1, <2>1, <2>4, <2>5 DEF CallInOrder
  <2> QED BY <1>1, <1>5, <2>2, <2>3, <2>6, ReaderFrame
<1> QED BY <1>7, <1>8

\* rio_readnb and rio_readn store k more of the bytes asked for.
LEMMA BlockGrows ==
  ASSUME RioInv, rpc \in {"block", "direct"}, NEW k \in 1..n,
         NEW t \in Seq(Byte), Len(t) = k, Store(t), n' = n - k,
         rpc = "direct" => taken' = taken + k /\ \A j \in 1..k : t[j] = taken + j
  PROVE  CallTyped' /\ CallInOrder'
<1>1. usrbuf' = usrbuf \o t /\ UNCHANGED <<rpc, want, res>>
  BY DEF Store
<1>2. n \in Nat /\ want \in Nat /\ k \in Nat /\ taken \in Nat
  BY Lengths DEF RioInv, TypeOK
<1>3. n + Len(usrbuf) = want /\ (rpc = "direct" => \A i \in 1..Len(usrbuf) : usrbuf[i] = taken - Len(usrbuf) + i)
  BY DEF RioInv, CallInOrder
<1>4. /\ usrbuf' \in Seq(Byte) /\ Len(usrbuf') = Len(usrbuf) + k
      /\ \A i \in 1..Len(usrbuf) : usrbuf'[i] = usrbuf[i]
      /\ \A i \in 1..k : usrbuf'[Len(usrbuf) + i] = t[i]
  <2>1. usrbuf \in Seq(Byte)
    BY DEF RioInv, TypeOK
  <2>2. /\ usrbuf \o t \in Seq(Byte) /\ Len(usrbuf \o t) = Len(usrbuf) + Len(t)
        /\ \A i \in 1..Len(usrbuf) : (usrbuf \o t)[i] = usrbuf[i]
        /\ \A i \in 1..Len(t) : (usrbuf \o t)[Len(usrbuf) + i] = t[i]
    BY <2>1, Appended
  <2> QED BY <1>1, <2>2
<1>5. n' \in Nat /\ n' + Len(usrbuf') = want
  <2>1. Len(usrbuf') = Len(usrbuf) + k
    BY <1>4
  <2>2. Len(usrbuf) \in Nat /\ n \in Nat /\ k \in Nat /\ k <= n /\ n' = n - k
    BY <1>2, Lengths
  <2>3. n' \in Nat
    BY <2>2
  <2> QED BY <1>3, <2>1, <2>2, <2>3
<1>6. ASSUME rpc = "direct", NEW i \in 1..Len(usrbuf') PROVE usrbuf'[i] = taken' - Len(usrbuf') + i
  <2>1. taken' - Len(usrbuf') = taken - Len(usrbuf) /\ Len(usrbuf) \in Nat
    BY <1>2, <1>4, <1>6, Lengths
  <2>2. CASE i <= Len(usrbuf)
    <3>1. i \in 1..Len(usrbuf)
      BY <2>1, <2>2
    <3> QED BY <1>3, <1>4, <1>6, <2>1, <3>1
  <2>3. CASE ~(i <= Len(usrbuf))
    <3>1. i - Len(usrbuf) \in 1..k /\ Len(usrbuf) + (i - Len(usrbuf)) = i
      BY <1>2, <1>4, <2>1, <2>3
    <3>2. usrbuf'[i] = taken + (i - Len(usrbuf))
      BY <1>4, <1>6, <3>1
    <3>3. taken + (i - Len(usrbuf)) = taken - Len(usrbuf) + i
      BY <1>2, <2>1, <3>1
    <3> QED BY <2>1, <3>2, <3>3
  <2> QED BY <2>2, <2>3
<1>7. CallTyped'
  BY <1>1, <1>4, <1>5 DEF RioInv, TypeOK, CallTyped
<1>8. CallInOrder'
  BY <1>1, <1>5, <1>6 DEF CallInOrder
<1> QED BY <1>7, <1>8

LEMMA TakeBlockStep == ASSUME RioInv, TakeBlock PROVE RioInv'
<1> DEFINE k == Smaller(n, rio_cnt)
<1>1. /\ rpc = "block" /\ n > 0 /\ rio_cnt > 0 /\ Consume(k)
      /\ Store(buffered(k)) /\ n' = n - k
      /\ UNCHANGED <<writer, wire, taken, rio_buf, skipped, nl, intr>>
  BY DEF TakeBlock, wanting
<1>2. k \in 1..held /\ k \in 0..held /\ k \in 1..n
  BY <1>1, Lengths DEF held, Smaller, RioInv, TypeOK
<1> HIDE DEF k
<1>3. rpc' = "block"
  BY <1>1 DEF Store
<1>4. RioTyped' /\ GivenInOrder' /\ BufferInOrder'
  BY <1>1, <1>2, <1>3, ConsumeKeeps
<1>5. buffered(k) \in Seq(Byte) /\ Len(buffered(k)) = k
  BY <1>2, BufferPiece
<1>6. CallTyped' /\ CallInOrder'
  BY <1>1, <1>2, <1>5, BlockGrows
<1>7. intr' \in 0..MaxIntr /\ taken' \in 0..Len(wire)
  BY <1>1 DEF RioInv, TypeOK
<1> QED BY <1>1, <1>4, <1>6, <1>7, ReaderFrame

LEMMA ReadDirectStep == ASSUME RioInv, NEW k \in 1..Total, ReadDirect(k) PROVE RioInv'
<1>1. PICK t \in Seq(Byte) : /\ t = Piece(wire, taken, k) /\ Len(t) = k
                             /\ \A j \in 1..k : t[j] = taken + j
  BY WirePiece DEF ReadDirect
<1>2. /\ rpc = "direct" /\ n > 0 /\ k <= n /\ k <= unread
      /\ given' = given \o t /\ taken' = taken + k
      /\ Store(t) /\ n' = n - k
      /\ UNCHANGED <<writer, wire, rio, skipped, nl, intr>>
  BY <1>1 DEF ReadDirect, wanting
<1>3. held' = held /\ rpc' = "direct" /\ \A i : inBuf(i)' = inBuf(i)
  BY <1>2 DEF held, rio, Store, inBuf
<1>4. /\ given \in Seq(Byte) /\ Len(given) \in Nat /\ k \in Nat /\ taken \in Nat
      /\ taken = Len(given) + held /\ held \in Nat
  BY Lengths DEF RioInv, TypeOK, BufferInOrder
<1>5. /\ given' \in Seq(Byte) /\ Len(given') = Len(given) + k
      /\ \A i \in 1..Len(given) : given'[i] = given[i]
      /\ \A i \in 1..k : given'[Len(given) + i] = taken + i
  <2>1. /\ given \o t \in Seq(Byte) /\ Len(given \o t) = Len(given) + Len(t)
        /\ \A i \in 1..Len(given) : (given \o t)[i] = given[i]
        /\ \A j \in 1..Len(t) : (given \o t)[Len(given) + j] = t[j]
    BY <1>4, Appended
  <2> QED BY <1>1, <1>2, <2>1
<1>6. k \in 1..n /\ taken' \in 0..Len(wire)
  <2>1. n \in Nat
    BY DEF RioInv, TypeOK
  <2> QED BY <1>2, <1>4, <2>1, Lengths DEF unread
<1>7. CallTyped' /\ CallInOrder'
  BY <1>1, <1>2, <1>6, BlockGrows
<1>8. ~skipped => held = 0 /\ rio_cnt <= 0 /\ \A i \in 1..Len(given) : given[i] = i
  <2>1. ~skipped => rio_cnt <= 0
    BY <1>2 DEF RioInv, BufferInOrder
  <2>2. ~skipped => \A i \in 1..Len(given) : given[i] = i
    BY DEF RioInv, InTurn
  <2>3. rio_cnt \in Int /\ (rio_cnt <= 0 => held = 0)
    BY Lengths DEF held
  <2> QED BY <2>1, <2>2, <2>3
<1>9. GivenInOrder'
  <2>1. ASSUME ~skipped, NEW i \in 1..Len(given') PROVE given'[i] = i
    <3>1. CASE i <= Len(given)
      <4>1. i \in 1..Len(given)
        BY <1>4, <3>1
      <4> QED BY <1>5, <1>8, <2>1, <4>1
    <3>2. CASE ~(i <= Len(given))
      <4>1. i - Len(given) \in 1..k /\ Len(given) + (i - Len(given)) = i
        BY <1>4, <1>5, <3>2
      <4>2. taken = Len(given)
        BY <1>4, <1>8, <2>1
      <4> QED BY <1>5, <4>1, <4>2
    <3> QED BY <3>1, <3>2
  <2>2. InTurn'
    BY <1>2, <2>1 DEF InTurn
  <2> QED BY <1>2, <1>5, <2>2 DEF GivenInOrder, RioInv, TypeOK
<1>10. RioTyped'
  BY <1>2 DEF RioInv, TypeOK, RioTyped, rio
<1>11. BufferInOrder'
  <2>1. taken' = Len(given') + held'
    BY <1>2, <1>3, <1>4, <1>5
  <2>2. ASSUME NEW b \in 1..taken'
        PROVE  (\E i \in 1..Len(given') : given'[i] = b) \/ (\E i \in 1..held' : inBuf(i)' = b)
    <3>1. CASE b <= taken
      <4>1. b \in 1..taken
        BY <1>4, <3>1
      <4>2. (\E i \in 1..Len(given) : given[i] = b) \/ (\E i \in 1..held : inBuf(i) = b)
        BY <4>1 DEF RioInv, BufferInOrder
      <4>3. ASSUME NEW i \in 1..Len(given), given[i] = b PROVE \E j \in 1..Len(given') : given'[j] = b
        <5>1. i \in 1..Len(given')
          BY <1>4, <1>5
        <5> QED BY <1>5, <4>3, <5>1
      <4> QED BY <1>3, <4>2, <4>3
    <3>2. CASE ~(b <= taken)
      <4>1. /\ b - taken \in 1..k /\ taken + (b - taken) = b
            /\ Len(given) + (b - taken) \in 1..Len(given')
        BY <1>2, <1>4, <1>5, <3>2
      <4> QED BY <1>5, <4>1
    <3> QED BY <3>1, <3>2
  <2>3. rio_cnt' = rio_cnt /\ rio_bufptr' = rio_bufptr /\ skipped' = skipped
    BY <1>2 DEF rio
  <2>4. ~skipped => held' = 0 /\ 1..held' = {} /\ rio_cnt' <= 0
    BY <1>3, <1>8, <2>3
  <2> QED BY <1>3, <2>1, <2>2, <2>3, <2>4 DEF RioInv, BufferInOrder
<1>12. intr' \in 0..MaxIntr
  BY <1>2 DEF RioInv, TypeOK
<1> QED BY <1>2, <1>6, <1>7, <1>9, <1>10, <1>11, <1>12, ReaderFrame

-----------------------------------------------------------------------------
(* The specification.                                                       *)

LEMMA RioInit == Init => RioInv
<1> SUFFICES ASSUME Init PROVE RioInv
  OBVIOUS
<1>1. /\ wpc = "idle" /\ bufp = 1 /\ wleft = 0 /\ wire = <<>> /\ taken = 0
      /\ rio_cnt = 0 /\ rio_bufptr = 1 /\ rio_buf = [i \in 1..RIO_BUFSIZE |-> 0]
      /\ rpc = "idle" /\ want = 0 /\ n = 0 /\ usrbuf = <<>>
      /\ res = [call |-> "none", want |-> 0, ret |-> 0, bytes |-> <<>>]
      /\ given = <<>> /\ skipped = FALSE /\ nl \in SUBSET Byte /\ intr = MaxIntr
  BY DEF Init
<1>2. <<>> \in Seq(Byte) /\ Len(<<>>) = 0
  BY EmptySeq
<1>3. Len(wire) = 0 /\ Len(given) = 0 /\ Len(usrbuf) = 0 /\ held = 0
  BY <1>1, <1>2 DEF held
<1>4. TypeOK
  <2>1. /\ wpc \in {"idle", "writing", "closed", "failed"} /\ bufp \in 1..(Total + 1) /\ wleft \in 0..Total
        /\ wire \in Seq(Byte) /\ taken \in 0..Len(wire) /\ intr \in 0..MaxIntr
    BY <1>1, <1>2, <1>3, RioAssumption
  <2>2. /\ rio_cnt \in -1..RIO_BUFSIZE /\ rio_bufptr \in 1..(RIO_BUFSIZE + 1)
        /\ rio_buf \in [1..RIO_BUFSIZE -> Byte \cup {0}]
    BY <1>1, RioAssumption
  <2>3. /\ rpc \in {"idle", "line", "block", "direct", "failed"} /\ want \in Nat /\ n \in Nat
        /\ usrbuf \in Seq(Byte) /\ given \in Seq(Byte) /\ skipped \in BOOLEAN /\ nl \subseteq Byte
        /\ res \in [call : {"none", "line", "block", "direct"}, want : Nat, ret : Nat, bytes : Seq(Byte)]
    BY <1>1, <1>2
  <2> QED BY <2>1, <2>2, <2>3 DEF TypeOK
<1>5. WireInOrder /\ BufferInOrder /\ CallInOrder /\ InTurn
  BY <1>1, <1>3, RioAssumption DEF WireInOrder, BufferInOrder, CallInOrder, InTurn
<1> QED BY <1>4, <1>5 DEF RioInv

LEMMA RioStep == RioInv /\ [Next]_vars => RioInv'
<1> SUFFICES ASSUME RioInv, [Next]_vars PROVE RioInv'
  OBVIOUS
<1>1. CASE UNCHANGED vars
  BY <1>1 DEF vars, RioInv, TypeOK, WireInOrder, BufferInOrder, CallInOrder, InTurn, held, inBuf
<1>2. CASE WriterStep
  BY <1>2, PeerStep DEF WriterStep
<1>3. CASE ReaderStep
  BY <1>3, RefillStep, EndStep, TakeByteStep, TakeBlockStep, ReadDirectStep DEF ReaderStep
<1>4. CASE Calls
  BY <1>4, PeerStep, QuietStep DEF Calls
<1>5. CASE Faults
  BY <1>5, PeerStep, QuietStep DEF Faults
<1> QED BY <1>1, <1>2, <1>3, <1>4, <1>5 DEF Next, Done

\* TypeOK holds in every reachable state.
THEOREM TypeCorrect == Spec => []TypeOK
<1>1. RioInv => TypeOK
  BY DEF RioInv
<1> QED BY <1>1, RioInit, RioStep, PTL DEF Spec

\* For every size of buffer, socket and requests, and whatever the kernel
\* makes of read() and write(), every byte that was read is in a caller's
\* hands or in the buffer, once; callers get the bytes in the order of the
\* stream until a rio_readn is called while bytes are in the buffer.
THEOREM BytesInOrder == Spec => []InOrder
<1>1. RioInv => InOrder
  <2> SUFFICES ASSUME RioInv PROVE InOrder
    OBVIOUS
  <2>1. held \in 0..held
    BY Lengths
  <2>2. Len(inBuffer) = held /\ \A j \in 1..held : inBuffer[j] = inBuf(j)
    BY <2>1, BufferPiece DEF inBuffer
  <2> QED BY <2>2 DEF RioInv, BufferInOrder, InTurn, InOrder
<1> QED BY <1>1, RioInit, RioStep, PTL DEF Spec

-----------------------------------------------------------------------------
(* The answer 0.                                                            *)

Active == rpc \in {"line", "block", "direct"}

EofInv == RioInv /\ (Active => want \in Sizes) /\ ZeroMeansEof

\* What is stored when a call returns is empty only if nothing was counted.
LEMMA NothingStored ==
  ASSUME RioInv, Active
  PROVE  /\ rpc = "line" => n > 0 /\ (n = 1 => usrbuf = <<>>)
         /\ rpc # "line" => (want - n = 0 => usrbuf = <<>>)
<1>1. n \in Nat /\ want \in Nat /\ usrbuf \in Seq(Byte)
  BY DEF RioInv, TypeOK
<1>2. rpc = "line" => n = Len(usrbuf) + 1
  BY DEF RioInv, CallInOrder
<1>3. rpc # "line" => n + Len(usrbuf) = want
  BY DEF RioInv, CallInOrder, Active
<1>4. Len(usrbuf) = 0 => usrbuf = <<>>
  BY <1>1, EmptySeq
<1>5. Len(usrbuf) \in Nat
  BY Lengths
<1>6. rpc = "line" => n > 0 /\ (n = 1 => Len(usrbuf) = 0)
  BY <1>1, <1>2, <1>5
<1>7. rpc # "line" => (want - n = 0 => Len(usrbuf) = 0)
  BY <1>1, <1>3, <1>5
<1> QED BY <1>4, <1>6, <1>7

\* Once the peer has ended it takes no step, so an answer 0 stays true.
LEMMA PeerKeepsEof ==
  ASSUME EofInv,
         \/ \E k \in 1..Total : WriteCall(k) \/ Write(k)
         \/ WriteInterrupted \/ WriteFails \/ WriteReturns \/ CloseEnd
  PROVE  (Active => want \in Sizes)' /\ ZeroMeansEof'
<1>1. UNCHANGED <<taken, rio, call, res>> /\ ~ended
  BY DEF WriteCall, Write, WriteInterrupted, WriteFails, WriteReturns, CloseEnd, ended
<1>2. ~(rpc = "idle" /\ res.call # "none" /\ res.ret = 0)
  BY <1>1 DEF EofInv, ZeroMeansEof
<1>3. rpc' = rpc /\ want' = want /\ res' = res
  BY <1>1 DEF call
<1> QED BY <1>2, <1>3 DEF EofInv, ZeroMeansEof, Active

\* A step after which the call is still, or newly, in progress.
LEMMA BusyKeepsEof ==
  ASSUME EofInv,
         \/ \E k \in 1..RIO_BUFSIZE : Refill(k)
         \/ \E k \in 1..Total : ReadDirect(k)
         \/ TakeBlock \/ RefillInterrupted \/ ReadDirectInterrupted \/ ReadFails
         \/ TakeByte /\ rio_buf[rio_bufptr] \notin nl
         \/ \E m \in Sizes : CallLine(m) \/ CallBlock("block", m) \/ CallBlock("direct", m)
  PROVE  (Active => want \in Sizes)' /\ ZeroMeansEof'
<1>1. CASE \E m \in Sizes : CallLine(m) \/ CallBlock("block", m) \/ CallBlock("direct", m)
  <2>1. PICK m \in Sizes : CallLine(m) \/ CallBlock("block", m) \/ CallBlock("direct", m)
    BY <1>1
  <2>2. want' = m /\ rpc' # "idle"
    BY <2>1 DEF CallLine, CallBlock
  <2> QED BY <2>2 DEF ZeroMeansEof
<1>2. CASE ReadFails
  BY <1>2 DEF ReadFails, ZeroMeansEof, Active
<1>3. CASE \/ \E k \in 1..RIO_BUFSIZE : Refill(k)
           \/ \E k \in 1..Total : ReadDirect(k)
           \/ TakeBlock \/ RefillInterrupted \/ ReadDirectInterrupted
           \/ TakeByte /\ rio_buf[rio_bufptr] \notin nl
  <2>1. rpc' = rpc /\ want' = want /\ Active
    BY <1>3 DEF Refill, ReadDirect, TakeBlock, RefillInterrupted, ReadDirectInterrupted,
                TakeByte, Store, refilling, call, Active
  <2> QED BY <2>1 DEF EofInv, ZeroMeansEof, Active
<1> QED BY <1>1, <1>2, <1>3

LEMMA ReturnKeepsEof ==
  ASSUME EofInv,
         \/ RefillEof \/ ReadDirectEof \/ Full
         \/ TakeByte /\ rio_buf[rio_bufptr] \in nl
  PROVE  (Active => want \in Sizes)' /\ ZeroMeansEof'
<1>0. RioInv /\ (Active => want \in Sizes)
  BY DEF EofInv
<1>1. CASE RefillEof
  <2>1. /\ ended /\ unread = 0 /\ rio_cnt' = 0 /\ Active
        /\ rpc' = "idle" /\ res'.bytes = usrbuf
        /\ res'.ret = IF rpc = "line" THEN IF n = 1 THEN 0 ELSE n ELSE want - n
        /\ UNCHANGED <<writer, wire, taken>>
    BY <1>1 DEF RefillEof, Return, refilling, Active
  <2>2. ended' /\ unread' = 0
    BY <2>1 DEF ended, unread, writer
  <2>3. res'.ret = 0 => usrbuf = <<>>
    <3>1. rpc = "line" => n # 0
      BY <1>0, <2>1, NothingStored DEF RioInv, TypeOK
    <3> QED BY <1>0, <2>1, <3>1, NothingStored
  <2> QED BY <2>1, <2>2, <2>3 DEF ZeroMeansEof, Active
<1>2. CASE ReadDirectEof
  <2>1. /\ ended /\ unread = 0 /\ rio_cnt' = rio_cnt /\ rpc = "direct" /\ Active
        /\ rpc' = "idle" /\ res'.bytes = usrbuf /\ res'.ret = want - n
        /\ UNCHANGED <<writer, wire, taken>>
    BY <1>2 DEF ReadDirectEof, Return, Active, rio
  <2>2. ended' /\ unread' = 0
    BY <2>1 DEF ended, unread, writer
  <2>3. rio_cnt' <= 0 \/ (res'.call = "direct" /\ skipped')
    <3>1. res'.call = "direct" /\ skipped' = skipped /\ (skipped \/ rio_cnt <= 0)
      BY <1>0, <1>2, <2>1 DEF ReadDirectEof, Return, RioInv, BufferInOrder
    <3> QED BY <2>1, <3>1
  <2>4. res'.ret = 0 => usrbuf = <<>>
    BY <1>0, <2>1, NothingStored
  <2> QED BY <2>1, <2>2, <2>3, <2>4 DEF ZeroMeansEof, Active
<1>3. CASE Full
  <2>1. Active /\ rpc' = "idle" /\ res'.ret = IF rpc = "line" THEN n ELSE want
    BY <1>3 DEF Full, Return, Active
  <2>2. res'.ret # 0
    <3>1. n \in Nat /\ want \in Nat
      BY <1>0 DEF RioInv, TypeOK
    <3>2. rpc = "line" => n > 0
      BY <1>0, <2>1, NothingStored
    <3>3. want \in Nat \ {0}
      BY <1>0, <2>1, RioAssumption
    <3> QED BY <2>1, <3>1, <3>2, <3>3
  <2> QED BY <2>1, <2>2 DEF ZeroMeansEof, Active
<1>4. CASE TakeByte /\ rio_buf[rio_bufptr] \in nl
  <2>1. rpc = "line" /\ Active /\ rpc' = "idle" /\ res'.ret = n
    BY <1>4 DEF TakeByte, Return, Active
  <2>2. n \in Nat /\ n > 0
    BY <1>0, <2>1, NothingStored DEF RioInv, TypeOK
  <2> QED BY <2>1, <2>2 DEF ZeroMeansEof, Active
<1> QED BY <1>1, <1>2, <1>3, <1>4

LEMMA InitEof == Init => EofInv
<1> SUFFICES ASSUME Init PROVE EofInv
  OBVIOUS
<1>1. rpc = "idle" /\ res.call = "none"
  BY DEF Init
<1> QED BY <1>1, RioInit DEF EofInv, Active, ZeroMeansEof

LEMMA EofStep == EofInv /\ [Next]_vars => EofInv'
<1> SUFFICES ASSUME EofInv, [Next]_vars PROVE EofInv'
  OBVIOUS
<1>0. RioInv'
  BY RioStep DEF EofInv
<1>1. CASE UNCHANGED vars
  BY <1>0, <1>1 DEF vars, EofInv, ZeroMeansEof, Active, ended, unread
<1>2. CASE WriterStep
  BY <1>0, <1>2, PeerKeepsEof DEF WriterStep, EofInv
<1>3. CASE ReaderStep
  BY <1>0, <1>3, BusyKeepsEof, ReturnKeepsEof DEF ReaderStep, EofInv
<1>4. CASE Calls
  BY <1>0, <1>4, PeerKeepsEof, BusyKeepsEof DEF Calls, EofInv
<1>5. CASE Faults
  BY <1>0, <1>5, PeerKeepsEof, BusyKeepsEof DEF Faults, EofInv
<1> QED BY <1>1, <1>2, <1>3, <1>4, <1>5 DEF Next, Done

\* An answer 0, on which every server of the repository closes the connection,
\* is given only when the peer has ended and each of its bytes was given.
THEOREM ZeroOnlyAtEnd == Spec => []ZeroMeansEof
<1>1. EofInv => ZeroMeansEof
  BY DEF EofInv
<1> QED BY <1>1, InitEof, EofStep, PTL DEF Spec
-----------------------------------------------------------------------------
(* The answers of the reading functions.                                    *)

\* A call that does not return leaves the last answer alone.
LEMMA AnswerStays ==
  ASSUME [Next]_vars, ~(RefillEof \/ ReadDirectEof \/ Full), ~(TakeByte /\ rio_buf[rio_bufptr] \in nl)
  PROVE  UNCHANGED <<res, nl>>
<1>1. CASE UNCHANGED vars
  BY <1>1 DEF vars
<1>2. CASE WriterStep
  BY <1>2 DEF WriterStep, WriteReturns, Write
<1>3. CASE ReaderStep
  BY <1>3 DEF ReaderStep, Refill, TakeByte, TakeBlock, ReadDirect, Store
<1>4. CASE Calls
  BY <1>4 DEF Calls, CallLine, CallBlock, WriteCall, CloseEnd
<1>5. CASE Faults
  BY <1>5 DEF Faults, WriteInterrupted, WriteFails, RefillInterrupted, ReadDirectInterrupted, ReadFails
<1> QED BY <1>1, <1>2, <1>3, <1>4, <1>5 DEF Next, Done

\* A line that is cut has no newline, and n is one more than it holds; what
\* is left of a block is what was not stored.
LEMMA CutCounts ==
  ASSUME RioInv, RefillEof \/ ReadDirectEof \/ Full
  PROVE  CountIsLength'
<1>1. n \in Nat /\ want \in Nat /\ usrbuf \in Seq(Byte) /\ Len(usrbuf) \in Nat
  BY Lengths DEF RioInv, TypeOK
<1>2. rpc = "line" => n = Len(usrbuf) + 1 /\ \A i \in 1..Len(usrbuf) : usrbuf[i] \notin nl
  BY DEF RioInv, CallInOrder
<1>3. rpc \in {"block", "direct"} => n + Len(usrbuf) = want
  BY DEF RioInv, CallInOrder
<1>4. /\ rpc \in {"line", "block", "direct"} /\ nl' = nl
      /\ res'.call = rpc /\ res'.bytes = usrbuf
      /\ rpc = "line" => res'.ret = n \/ (n = 1 /\ res'.ret = 0)
      /\ rpc # "line" => res'.ret = want - n \/ (n = 0 /\ res'.ret = want)
  <2>1. CASE RefillEof
    BY <2>1 DEF RefillEof, refilling, Return
  <2>2. CASE ReadDirectEof
    BY <2>2 DEF ReadDirectEof, Return
  <2>3. CASE Full
    BY <1>1, <2>3 DEF Full, wanting, Return
  <2> QED BY <2>1, <2>2, <2>3
<1>5. CASE rpc = "line"
  <2>1. ~(Len(usrbuf) > 0 /\ usrbuf[Len(usrbuf)] \in nl)
    BY <1>1, <1>2, <1>5
  <2>2. CASE res'.ret = n
    BY <1>2, <1>4, <1>5, <2>1, <2>2 DEF CountIsLength
  <2>3. CASE n = 1 /\ res'.ret = 0
    <3>1. Len(usrbuf) = 0
      BY <1>1, <1>2, <1>5, <2>3
    <3>2. usrbuf = <<>>
      BY <1>1, <3>1, EmptySeq
    <3> QED BY <1>4, <1>5, <2>3, <3>2 DEF CountIsLength
  <2> QED BY <1>4, <1>5, <2>2, <2>3
<1>6. CASE rpc # "line"
  <2>1. res'.ret = Len(usrbuf)
    BY <1>1, <1>3, <1>4, <1>6
  <2> QED BY <1>4, <1>6, <2>1 DEF CountIsLength
<1> QED BY <1>5, <1>6

\* The newline is counted with the bytes before it.
LEMMA NewlineCounts ==
  ASSUME RioInv, TakeByte, rio_buf[rio_bufptr] \in nl
  PROVE  CountIsLength'
<1>1. rpc = "line" /\ rio_cnt > 0 /\ nl' = nl /\ Return(n, usrbuf \o buffered(1))
  BY DEF TakeByte
<1>2. 1 \in 0..held
  BY <1>1, Lengths DEF held
<1>3. /\ buffered(1) \in Seq(Byte) /\ Len(buffered(1)) = 1
      /\ \A j \in 1..1 : buffered(1)[j] = inBuf(j)
  BY <1>2, BufferPiece
<1>4. buffered(1)[1] \in nl
  <2>1. rio_bufptr + 1 - 1 = rio_bufptr
    BY DEF RioInv, TypeOK
  <2> QED BY <1>3, <2>1 DEF inBuf
<1>5. n = Len(usrbuf) + 1 /\ usrbuf \in Seq(Byte) /\ Len(usrbuf) \in Nat
  BY <1>1, Lengths DEF RioInv, TypeOK, CallInOrder
<1>6. PICK t \in Seq(Byte) : t = buffered(1)
  BY <1>3
<1> DEFINE line == usrbuf \o t
<1>7. Len(line) = n /\ line[n] = t[1]
  <2>1. /\ Len(usrbuf \o t) = Len(usrbuf) + Len(t)
        /\ \A i \in 1..(Len(usrbuf) + Len(t)) :
              (usrbuf \o t)[i] = IF i <= Len(usrbuf) THEN usrbuf[i] ELSE t[i - Len(usrbuf)]
    BY <1>5, <1>6, ConcatProperties
  <2>2. Len(t) = 1
    BY <1>3, <1>6
  <2>3. n \in 1..(Len(usrbuf) + 1) /\ ~(n <= Len(usrbuf)) /\ n - Len(usrbuf) = 1
    BY <1>5
  <2> QED BY <1>5, <2>1, <2>2, <2>3
<1>8. res'.call = "line" /\ res'.ret = n /\ res'.bytes = line
  BY <1>1, <1>6 DEF Return
<1> HIDE DEF line
<1>9. n > 0 /\ n + 0 = n
  BY <1>5
<1>10. t[1] \in nl
  BY <1>4, <1>6
<1> QED BY <1>1, <1>7, <1>8, <1>9, <1>10 DEF CountIsLength

\* What the reading functions answer is the number of bytes they stored; it
\* is one more for a line that the end of the stream or maxlen has cut.
THEOREM AnswersCountBytes == Spec => []CountIsLength
<1> DEFINE CountInv == RioInv /\ CountIsLength
<1>1. Init => CountInv
  BY RioInit DEF Init, CountIsLength
<1>2. CountInv /\ [Next]_vars => CountInv'
  <2> SUFFICES ASSUME CountInv, [Next]_vars PROVE CountInv'
    OBVIOUS
  <2>1. CASE RefillEof \/ ReadDirectEof \/ Full
    BY <2>1, CutCounts, RioStep
  <2>2. CASE TakeByte /\ rio_buf[rio_bufptr] \in nl
    BY <2>2, NewlineCounts, RioStep
  <2>3. CASE ~(RefillEof \/ ReadDirectEof \/ Full) /\ ~(TakeByte /\ rio_buf[rio_bufptr] \in nl)
    <3>1. res' = res /\ nl' = nl
      BY <2>3, AnswerStays
    <3> QED BY <3>1, RioStep DEF CountIsLength
  <2> QED BY <2>1, <2>2, <2>3
<1>3. CountInv => CountIsLength
  OBVIOUS
<1> QED BY <1>1, <1>2, <1>3, PTL DEF Spec

-----------------------------------------------------------------------------
(* Rio implements ByteStream.                                               *)

\* What read() has brought and no copy has taken yet.
LEMMA InBuffer ==
  ASSUME RioInv
  PROVE  /\ inBuffer \in Seq(Byte) /\ Len(inBuffer) = held
         /\ \A j \in 1..held : inBuffer[j] = inBuf(j)
<1>1. held \in 0..held
  BY Lengths
<1> QED BY <1>1, BufferPiece DEF inBuffer

\* Two sequences one after the other, and each of them again.
LEMMA Halves ==
  ASSUME NEW s \in Seq(Byte), NEW t \in Seq(Byte)
  PROVE  /\ SubSeq(s \o t, 1, Len(s)) = s
         /\ SubSeq(s \o t, Len(s) + 1, Len(s \o t)) = t
<1> DEFINE a == Len(s)
           b == Len(t)
           u == s \o t
<1>1. a \in Nat /\ b \in Nat
  BY LenProperties
<1>2. /\ u \in Seq(Byte) /\ Len(u) = a + b
      /\ \A i \in 1..(a + b) : u[i] = IF i <= a THEN s[i] ELSE t[i - a]
  BY ConcatProperties
<1>3. (\A i \in 1..a : s[i] \in Byte) /\ (\A i \in 1..b : t[i] \in Byte)
  OBVIOUS
<1> HIDE DEF a, b, u
<1>4. \A i \in 1..a : u[i] = s[i]
  <2> SUFFICES ASSUME NEW i \in 1..a PROVE u[i] = s[i]
    OBVIOUS
  <2>1. i \in 1..(a + b) /\ i <= a
    BY <1>1
  <2> QED BY <1>2, <2>1
<1>5. \A i \in 1..b : u[a + i] = t[i]
  <2> SUFFICES ASSUME NEW i \in 1..b PROVE u[a + i] = t[i]
    OBVIOUS
  <2>1. a + i \in 1..(a + b) /\ ~(a + i <= a) /\ (a + i) - a = i
    BY <1>1
  <2> QED BY <1>2, <2>1
<1>6. SubSeq(u, 1, a) = s
  <2>1. \A i \in 1..a : u[0 + i] \in Byte
    BY <1>1, <1>3, <1>4
  <2>2. /\ Piece(u, 0, a) \in Seq(Byte) /\ Len(Piece(u, 0, a)) = a
        /\ \A i \in 1..a : Piece(u, 0, a)[i] = u[0 + i]
    BY <1>1, <2>1, PieceTaken
  <2>3. ASSUME NEW i \in 1..a PROVE Piece(u, 0, a)[i] = s[i]
    <3>1. 0 + i = i
      BY <1>1
    <3> QED BY <1>4, <2>2, <3>1
  <2>4. Piece(u, 0, a) = s
    BY <2>2, <2>3, SeqEqual DEF a
  <2>5. 0 + 1 = 1 /\ 0 + a = a
    BY <1>1
  <2> QED BY <2>4, <2>5 DEF Piece
<1>7. SubSeq(u, a + 1, a + b) = t
  <2>1. \A i \in 1..b : u[a + i] \in Byte
    BY <1>3, <1>5
  <2>2. /\ Piece(u, a, b) \in Seq(Byte) /\ Len(Piece(u, a, b)) = b
        /\ \A i \in 1..b : Piece(u, a, b)[i] = u[a + i]
    BY <1>1, <2>1, PieceTaken
  <2>3. Piece(u, a, b) = t
    BY <1>5, <2>2, SeqEqual DEF b
  <2> QED BY <2>3 DEF Piece
<1> QED BY <1>2, <1>6, <1>7 DEF a, b, u

\* What a copy takes is the beginning of what is in the buffer.
LEMMA ConsumeSplits ==
  ASSUME RioInv, NEW k \in 1..held, Consume(k), rio_buf' = rio_buf
  PROVE  inBuffer' \in Seq(Byte) /\ inBuffer = buffered(k) \o inBuffer'
<1> DEFINE b == rio_bufptr - 1
           rest == Piece(rio_buf, b + k, held - k)
<1>1. b \in Nat /\ k \in Nat /\ held \in Nat /\ held - k \in Nat /\ rio_bufptr = b + 1
      /\ rio_cnt = held /\ b + k \in Nat
  BY Lengths DEF held, RioInv, TypeOK
<1>2. rio_bufptr' - 1 = b + k /\ held' = held - k
  BY <1>1 DEF Consume, held
<1>3. inBuffer' = rest
  BY <1>2 DEF inBuffer, buffered
<1> HIDE DEF b
<1>4. ASSUME NEW j \in 1..(held - k) PROVE rio_buf[(b + k) + j] = inBuf(k + j) /\ inBuf(k + j) \in Byte
  <2>1. k + j \in 1..held /\ rio_bufptr + (k + j) - 1 = (b + k) + j
    BY <1>1
  <2> QED BY <2>1 DEF RioInv, BufferInOrder, inBuf
<1>5. /\ rest \in Seq(Byte) /\ Len(rest) = held - k
      /\ \A j \in 1..(held - k) : rest[j] = inBuf(k + j)
  <2>1. \A j \in 1..(held - k) : rio_buf[(b + k) + j] \in Byte
    BY <1>4
  <2>2. /\ rest \in Seq(Byte) /\ Len(rest) = held - k
        /\ \A j \in 1..(held - k) : rest[j] = rio_buf[(b + k) + j]
    BY <1>1, <2>1, PieceTaken
  <2> QED BY <1>4, <2>2
<1> HIDE DEF rest
<1>6. k \in 0..held
  BY <1>1
<1>7. PICK t \in Seq(Byte) : t = buffered(k) /\ Len(t) = k /\ \A j \in 1..k : t[j] = inBuf(j)
  BY <1>6, BufferPiece
<1>8. PICK all \in Seq(Byte) : all = inBuffer /\ Len(all) = held /\ \A j \in 1..held : all[j] = inBuf(j)
  BY InBuffer
<1>9. /\ t \o rest \in Seq(Byte) /\ Len(t \o rest) = held
      /\ \A i \in 1..k : (t \o rest)[i] = t[i]
      /\ \A i \in 1..(held - k) : (t \o rest)[k + i] = rest[i]
  <2>1. k + (held - k) = held
    BY <1>1
  <2>2. /\ t \o rest \in Seq(Byte) /\ Len(t \o rest) = Len(t) + Len(rest)
        /\ \A i \in 1..Len(t) : (t \o rest)[i] = t[i]
        /\ \A i \in 1..Len(rest) : (t \o rest)[Len(t) + i] = rest[i]
    BY <1>5, Appended
  <2> QED BY <1>5, <1>7, <2>1, <2>2
<1>10. ASSUME NEW i \in 1..held PROVE all[i] = (t \o rest)[i]
  <2>1. CASE i <= k
    <3>1. i \in 1..k
      BY <1>1, <2>1
    <3> QED BY <1>7, <1>8, <1>9, <3>1
  <2>2. CASE ~(i <= k)
    <3>1. i - k \in 1..(held - k) /\ k + (i - k) = i
      BY <1>1, <2>2
    <3>2. (t \o rest)[k + (i - k)] = rest[i - k]
      BY <1>9, <3>1
    <3> QED BY <1>5, <1>8, <3>1, <3>2
  <2> QED BY <2>1, <2>2
<1>11. all = t \o rest
  BY <1>8, <1>9, <1>10, SeqEqual
<1> QED BY <1>3, <1>5, <1>7, <1>8, <1>11

\* The buffer stays as it is where rio_cnt only says in another way that it
\* is empty.
LEMMA InBufferStays ==
  ASSUME RioInv, UNCHANGED <<rio_bufptr, rio_buf>>,
         rio_cnt' = rio_cnt \/ (rio_cnt <= 0 /\ rio_cnt' \in {-1, 0})
  PROVE  inBuffer' = inBuffer
<1>1. held' = held
  BY Lengths DEF held
<1> QED BY <1>1 DEF inBuffer, buffered

\* The mapping, call by call.
ahead ==
  IF rpc = "direct" THEN inBuffer
  ELSE IF rpc = "failed" THEN inBuffer \o usrbuf
  ELSE usrbuf \o inBuffer
pos == IF rpc = "direct" THEN taken - Len(usrbuf) ELSE taken
out == [call |-> res.call, want |-> res.want, bytes |-> res.bytes]

\* Numbered bytes that come next are what the stream hands out.
LEMMA SameBytes ==
  ASSUME NEW b \in Seq(Byte), NEW p, \A i \in 1..Len(b) : b[i] = p + i
  PROVE  b = [i \in 1..Len(b) |-> p + i]
<1>1. b \in [1..Len(b) -> Byte]
  BY LenProperties
<1>2. b = [i \in 1..Len(b) |-> b[i]]
  BY <1>1
<1> QED BY <1>2

\* A buffered call that returns takes its bytes from those fetched ahead.
LEMMA AnswerIsTake ==
  ASSUME RioInv, rpc \in {"line", "block"}, NEW v, NEW b \in Seq(Byte), NEW rest \in Seq(Byte),
         Return(v, b), usrbuf \o inBuffer = b \o rest, inBuffer' = rest,
         UNCHANGED <<writer, wire, taken, nl>>
  PROVE  Stream!Take(rpc, want, Len(b)) /\ ahead = b \o rest /\ pos = taken
<1>1. /\ usrbuf' = <<>> /\ rpc' = "idle"
      /\ res' = [call |-> rpc, want |-> want, ret |-> v, bytes |-> b]
  BY DEF Return
<1>2. ahead = b \o rest /\ pos = taken /\ pos' = taken /\ ahead' = rest
  <2>1. <<>> \o rest = rest
    BY ConcatEmptySeq
  <2> QED BY <1>1, <2>1 DEF ahead, pos
<1>3. SubSeq(ahead, 1, Len(b)) = b /\ SubSeq(ahead, Len(b) + 1, Len(ahead)) = rest
  BY <1>2, Halves
<1>4. out' = [call |-> rpc, want |-> want, bytes |-> SubSeq(ahead, 1, Len(b))]
  BY <1>1, <1>3 DEF out
<1>5. Len(wire)' = Len(wire) /\ ended' = ended /\ nl' = nl
  BY DEF writer, ended
<1> QED BY <1>2, <1>3, <1>4, <1>5 DEF Stream!Take, ahead, pos, out

\* The steps of the peer.
LEMMA PeerIsStream ==
  ASSUME RioInv, RioInv',
         \/ \E k \in 1..Total : WriteCall(k) \/ Write(k)
         \/ WriteInterrupted \/ WriteFails \/ WriteReturns \/ CloseEnd
  PROVE  [Stream!Next]_(Stream!vars)
<1>1. UNCHANGED <<taken, rio, call, res, nl>>
  BY DEF WriteCall, Write, WriteInterrupted, WriteFails, WriteReturns, CloseEnd
<1>2. UNCHANGED <<pos, ahead, out>>
  <2>1. inBuffer' = inBuffer
    BY <1>1 DEF inBuffer, buffered, held, rio
  <2> QED BY <1>1, <2>1 DEF pos, ahead, out, call
<1>3. ASSUME NEW k \in 1..Total, Write(k) PROVE Stream!Arrive
  <2>1. ~ended /\ ended' = ended
    BY <1>3 DEF Write, ended
  <2>2. Len(wire') \in Nat /\ Len(wire') <= Total
    <3>1. wire' \in Seq(Byte) /\ bufp' = Len(wire') + 1 /\ bufp' \in 1..(Total + 1)
      BY DEF RioInv, TypeOK, WireInOrder
    <3>2. Len(wire') \in Nat
      BY <3>1, LenProperties
    <3> QED BY <3>1, <3>2, Lengths
  <2>3. Len(wire') = Len(wire) + k
    <3>1. bufp' = bufp + k
      BY <1>3 DEF Write
    <3>2. bufp = Len(wire) + 1 /\ bufp' = Len(wire') + 1
      BY DEF RioInv, WireInOrder
    <3> QED BY <2>2, <3>1, <3>2, Lengths
  <2>4. Len(wire') \in (Len(wire) + 1)..Total
    BY <2>2, <2>3, Lengths
  <2> QED BY <1>1, <1>2, <2>1, <2>4 DEF Stream!Arrive, pos, ahead, out
<1>4. CASE WriteFails \/ CloseEnd
  <2>1. ended' /\ wire' = wire
    BY <1>4 DEF WriteFails, CloseEnd, ended
  <2> QED BY <1>1, <1>2, <2>1 DEF Stream!Next, Stream!End, pos, ahead, out
<1>5. CASE WriteInterrupted \/ WriteReturns \/ \E k \in 1..Total : WriteCall(k)
  <2>1. ended' = ended /\ wire' = wire
    BY <1>5 DEF WriteInterrupted, WriteReturns, WriteCall, ended, writer
  <2> QED BY <1>1, <1>2, <2>1 DEF Stream!vars, pos, ahead, out
<1> QED BY <1>3, <1>4, <1>5 DEF Stream!Next

\* A refill fetches ahead.
LEMMA RefillIsFetch ==
  ASSUME RioInv, NEW k \in 1..RIO_BUFSIZE, Refill(k)
  PROVE  Stream!Fetch
<1>1. /\ rpc \in {"line", "block"} /\ rio_cnt <= 0 /\ k <= RIO_BUFSIZE /\ k <= unread
      /\ rio_buf' = [i \in 1..RIO_BUFSIZE |-> IF i <= k THEN wire[taken + i] ELSE rio_buf[i]]
      /\ rio_cnt' = k /\ rio_bufptr' = 1 /\ taken' = taken + k
      /\ UNCHANGED <<writer, wire, call, res, given, skipped, nl, intr>>
  BY DEF Refill, refilling
<1>2. k \in 1..(Len(wire) - taken) /\ held = 0 /\ held' = k
  BY <1>1, Lengths DEF unread, held
<1>3. \A i \in 1..k : taken + i \in 1..Len(wire) /\ taken + i \in Byte
  BY <1>2, Lengths DEF Byte
<1>4. ASSUME NEW i \in 1..k PROVE rio_buf'[0 + i] = taken + i
  <2>1. i \in 1..RIO_BUFSIZE /\ i <= k /\ 0 + i = i
    BY <1>1, Lengths
  <2>2. wire[taken + i] = taken + i
    BY <1>3 DEF RioInv, WireInOrder
  <2> QED BY <1>1, <2>1, <2>2
<1>5. inBuffer' = [i \in 1..k |-> taken + i]
  <2>1. inBuffer' = Piece(rio_buf', 0, k)
    <3>1. rio_bufptr' - 1 = 0
      BY <1>1
    <3> QED BY <1>2, <3>1 DEF inBuffer, buffered
  <2>2. 0 \in Nat /\ k \in Nat /\ \A i \in 1..k : rio_buf'[0 + i] \in Byte
    BY <1>3, <1>4
  <2>3. /\ Piece(rio_buf', 0, k) \in Seq(Byte) /\ Len(Piece(rio_buf', 0, k)) = k
        /\ \A i \in 1..k : Piece(rio_buf', 0, k)[i] = rio_buf'[0 + i]
    BY <2>2, PieceTaken
  <2>4. PICK p \in Seq(Byte) : p = Piece(rio_buf', 0, k) /\ Len(p) = k /\ \A i \in 1..k : p[i] = taken + i
    BY <1>4, <2>3
  <2> QED BY <2>1, <2>4, SameBytes
<1>6. usrbuf \o inBuffer = usrbuf
  <2>1. inBuffer = <<>> /\ usrbuf \in Seq(Byte)
    BY <1>2, InBuffer, EmptySeq DEF RioInv, TypeOK
  <2> QED BY <2>1, ConcatEmptySeq
<1>7. rpc' = rpc /\ usrbuf' = usrbuf /\ ended' = ended
  BY <1>1 DEF call, ended, writer
<1>8. pos = taken /\ pos' = pos + k /\ ahead' = ahead \o [i \in 1..k |-> pos + i]
  BY <1>1, <1>5, <1>6, <1>7 DEF pos, ahead
<1> QED BY <1>1, <1>2, <1>7, <1>8 DEF Stream!Fetch, Stream!Following, pos, ahead, out

\* A step after which the call is still in progress changes nothing for
\* the stream: what it stores is not taken yet.
LEMMA BusyIsStutter ==
  ASSUME RioInv,
         \/ \E k \in 1..Total : ReadDirect(k)
         \/ TakeBlock \/ RefillInterrupted \/ ReadDirectInterrupted
         \/ TakeByte /\ rio_buf[rio_bufptr] \notin nl
         \/ \E m \in Sizes : CallLine(m) \/ CallBlock("block", m) \/ CallBlock("direct", m)
  PROVE  UNCHANGED Stream!vars
<1>1. UNCHANGED <<wpc, wire, res, nl>>
  BY DEF ReadDirect, TakeBlock, RefillInterrupted, ReadDirectInterrupted,
         TakeByte, CallLine, CallBlock, Store, call, writer
<1>2. usrbuf \in Seq(Byte) /\ inBuffer \in Seq(Byte)
  BY InBuffer DEF RioInv, TypeOK
<1>3. ASSUME NEW k \in 1..held, Consume(k), rio_buf' = rio_buf, Store(buffered(k)),
             rpc \in {"line", "block"}, taken' = taken
      PROVE  UNCHANGED <<pos, ahead>>
  <2>1. k \in 0..held
    BY Lengths
  <2>2. PICK t \in Seq(Byte) : t = buffered(k)
    BY <2>1, BufferPiece
  <2>3. PICK rest \in Seq(Byte) : rest = inBuffer' /\ inBuffer = t \o rest
    BY <1>3, <2>2, ConsumeSplits
  <2>4. (usrbuf \o t) \o rest = usrbuf \o (t \o rest)
    BY <1>2, ConcatAssociative
  <2>5. usrbuf' = usrbuf \o t /\ rpc' = rpc
    BY <1>3, <2>2 DEF Store
  <2> QED BY <1>3, <2>3, <2>4, <2>5 DEF pos, ahead
<1>4. UNCHANGED <<pos, ahead>>
  <2>1. ASSUME NEW k \in 1..Total, ReadDirect(k) PROVE UNCHANGED <<pos, ahead>>
    <3>1. PICK t \in Seq(Byte) : t = Piece(wire, taken, k) /\ Len(t) = k
      BY <2>1, WirePiece DEF ReadDirect
    <3>2. rpc = "direct" /\ rpc' = rpc /\ usrbuf' = usrbuf \o t /\ taken' = taken + k /\ UNCHANGED rio
      BY <2>1, <3>1 DEF ReadDirect, Store
    <3>3. Len(usrbuf') = Len(usrbuf) + k
      <4>1. usrbuf \in Seq(Byte)
        BY DEF RioInv, TypeOK
      <4>2. Len(usrbuf \o t) = Len(usrbuf) + Len(t)
        BY <4>1, Appended
      <4> QED BY <3>1, <3>2, <4>2
    <3>4. taken' - Len(usrbuf') = taken - Len(usrbuf)
      BY <3>2, <3>3, Lengths
    <3>5. inBuffer' = inBuffer
      BY <3>2 DEF inBuffer, buffered, held, rio
    <3> QED BY <3>2, <3>4, <3>5 DEF pos, ahead
  <2>2. CASE TakeBlock
    <3> DEFINE k == Smaller(n, rio_cnt)
    <3>1. k \in 1..held
      BY <2>2, Lengths DEF TakeBlock, wanting, held, Smaller, RioInv, TypeOK
    <3>2. Consume(k) /\ Store(buffered(k)) /\ rpc = "block" /\ taken' = taken /\ rio_buf' = rio_buf
      BY <2>2 DEF TakeBlock
    <3> HIDE DEF k
    <3> QED BY <1>3, <3>1, <3>2
  <2>3. CASE TakeByte /\ rio_buf[rio_bufptr] \notin nl
    <3>1. 1 \in 1..held
      BY <2>3, Lengths DEF TakeByte, held
    <3>2. Consume(1) /\ Store(buffered(1)) /\ rpc = "line" /\ taken' = taken /\ rio_buf' = rio_buf
      BY <2>3 DEF TakeByte
    <3> QED BY <1>3, <3>1, <3>2
  <2>4. CASE RefillInterrupted \/ ReadDirectInterrupted
    <3>1. UNCHANGED <<taken, call, rio_bufptr, rio_buf>> /\ (rio_cnt' = rio_cnt \/ (rio_cnt <= 0 /\ rio_cnt' = -1))
      BY <2>4 DEF RefillInterrupted, ReadDirectInterrupted, refilling, rio
    <3>2. inBuffer' = inBuffer
      BY <3>1, InBufferStays
    <3> QED BY <3>1, <3>2 DEF pos, ahead, call
  <2>5. ASSUME NEW m \in Sizes, CallLine(m) \/ CallBlock("block", m) \/ CallBlock("direct", m)
        PROVE  UNCHANGED <<pos, ahead>>
    <3>1. /\ UNCHANGED <<taken, rio, usrbuf>> /\ rpc = "idle" /\ rpc' \in {"line", "block", "direct"}
          /\ usrbuf = <<>>
      BY <2>5 DEF CallLine, CallBlock, RioInv, CallInOrder
    <3>2. inBuffer' = inBuffer
      BY <3>1 DEF inBuffer, buffered, held, rio
    <3>3. usrbuf \o inBuffer = inBuffer /\ Len(usrbuf) = 0 /\ taken - 0 = taken
      BY <1>2, <3>1, ConcatEmptySeq, EmptySeq, Lengths
    <3> QED BY <3>1, <3>2, <3>3 DEF pos, ahead
  <2> QED BY <2>1, <2>2, <2>3, <2>4, <2>5
<1> QED BY <1>1, <1>4 DEF Stream!vars, ended, pos, ahead

\* A call that fails has taken nothing: what it stored was fetched for nobody.
LEMMA FailIsFetch ==
  ASSUME RioInv, ReadFails
  PROVE  [Stream!Next]_(Stream!vars)
<1>1. /\ rpc' = "failed" /\ UNCHANGED <<writer, wire, taken, rio_bufptr, rio_buf, usrbuf, res, nl>>
      /\ \/ rpc \in {"line", "block"} /\ rio_cnt <= 0 /\ rio_cnt' = -1
         \/ rpc = "direct" /\ rio_cnt' = rio_cnt
  BY DEF ReadFails, refilling
<1>2. usrbuf \in Seq(Byte) /\ inBuffer \in Seq(Byte) /\ inBuffer' = inBuffer /\ ended' = ended
  BY <1>1, InBuffer, InBufferStays DEF RioInv, TypeOK, ended, writer
<1>3. pos' = taken /\ ahead' = inBuffer \o usrbuf /\ out' = out
  BY <1>1, <1>2 DEF pos, ahead, out
<1>4. CASE rpc \in {"line", "block"}
  <2>1. inBuffer = <<>>
    <3>1. Len(inBuffer) = 0
      BY <1>1, <1>4, InBuffer DEF held
    <3> QED BY <1>2, <3>1, EmptySeq
  <2>2. <<>> \o usrbuf = usrbuf /\ usrbuf \o <<>> = usrbuf
    BY <1>2, ConcatEmptySeq
  <2>3. UNCHANGED <<pos, ahead>>
    BY <1>3, <1>4, <2>1, <2>2 DEF pos, ahead
  <2> QED BY <1>1, <1>2, <1>3, <2>3 DEF Stream!vars, pos, ahead, out
<1>5. CASE rpc = "direct"
  <2> DEFINE k == Len(usrbuf)
  <2>1. pos = taken - k /\ ahead = inBuffer /\ \A i \in 1..k : usrbuf[i] = taken - k + i
    BY <1>5 DEF pos, ahead, RioInv, CallInOrder
  <2>2. usrbuf = [i \in 1..k |-> pos + i]
    BY <1>2, <2>1, SameBytes
  <2>3. CASE k = 0
    <3>1. usrbuf = <<>> /\ inBuffer \o <<>> = inBuffer /\ taken - 0 = taken
      BY <1>2, <2>3, EmptySeq, ConcatEmptySeq, Lengths
    <3>2. UNCHANGED <<pos, ahead>>
      BY <1>3, <2>1, <2>3, <3>1
    <3> QED BY <1>1, <1>2, <1>3, <3>2 DEF Stream!vars, pos, ahead, out
  <2>4. CASE k # 0
    <3>1. pos' = pos + k /\ k \in 1..(Len(wire) - pos)
      BY <1>3, <2>1, <2>4, Lengths
    <3>2. ahead' = ahead \o [i \in 1..k |-> pos + i]
      BY <1>3, <2>1, <2>2
    <3> HIDE DEF k
    <3>3. Stream!Fetch
      BY <1>1, <1>2, <1>3, <3>1, <3>2 DEF Stream!Fetch, Stream!Following, pos, ahead, out
    <3> QED BY <3>3 DEF Stream!Next
  <2> QED BY <2>3, <2>4
<1> QED BY <1>1, <1>4, <1>5

\* A line that ends with its newline.
LEMMA NewlineIsLine ==
  ASSUME EofInv, TakeByte, rio_buf[rio_bufptr] \in nl
  PROVE  Stream!Next
<1>0. RioInv /\ rpc = "line" /\ want \in Sizes
  BY DEF EofInv, Active, TakeByte
<1>1. /\ n < want /\ rio_cnt > 0 /\ Return(n, usrbuf \o buffered(1)) /\ Consume(1)
      /\ UNCHANGED <<writer, wire, taken, rio_buf, nl>>
  BY DEF TakeByte, wanting
<1>2. 1 \in 1..held /\ 1 \in 0..held
  BY <1>0, <1>1, Lengths DEF held
<1>3. PICK t \in Seq(Byte) : t = buffered(1) /\ Len(t) = 1 /\ t[1] \in nl
  <2>1. /\ buffered(1) \in Seq(Byte) /\ Len(buffered(1)) = 1
        /\ \A j \in 1..1 : buffered(1)[j] = inBuf(j)
    BY <1>0, <1>2, BufferPiece
  <2>2. rio_bufptr + 1 - 1 = rio_bufptr
    BY <1>0 DEF RioInv, TypeOK
  <2> QED BY <2>1, <2>2 DEF inBuf
<1>4. PICK rest \in Seq(Byte) : rest = inBuffer' /\ inBuffer = t \o rest
  BY <1>0, <1>1, <1>2, <1>3, ConsumeSplits
<1> DEFINE b == usrbuf \o t
           k == Len(b)
<1>5. /\ b \in Seq(Byte) /\ k = Len(usrbuf) + 1
      /\ \A i \in 1..Len(usrbuf) : b[i] = usrbuf[i]
      /\ b[k] \in nl
  <2>1. usrbuf \in Seq(Byte) /\ 1 \in 1..1
    BY <1>0 DEF RioInv, TypeOK
  <2>2. /\ usrbuf \o t \in Seq(Byte) /\ Len(usrbuf \o t) = Len(usrbuf) + Len(t)
        /\ \A i \in 1..Len(usrbuf) : (usrbuf \o t)[i] = usrbuf[i]
        /\ \A i \in 1..Len(t) : (usrbuf \o t)[Len(usrbuf) + i] = t[i]
    BY <2>1, Appended
  <2> QED BY <1>3, <2>1, <2>2
<1>6. usrbuf \o inBuffer = b \o rest
  <2>1. usrbuf \in Seq(Byte)
    BY <1>0 DEF RioInv, TypeOK
  <2>2. usrbuf \o (t \o rest) = (usrbuf \o t) \o rest
    BY <2>1, ConcatAssociative
  <2> QED BY <1>4, <2>2
<1>7. Return(n, b)
  BY <1>1, <1>3
<1>8. n = Len(usrbuf) + 1 /\ \A i \in 1..Len(usrbuf) : usrbuf[i] \notin nl
  BY <1>0 DEF RioInv, CallInOrder
<1>9. Len(usrbuf) \in Nat
  BY <1>0, Lengths
<1> HIDE DEF b
<1>10. Stream!Take("line", want, k) /\ ahead = b \o rest
  BY <1>0, <1>1, <1>4, <1>5, <1>6, <1>7, AnswerIsTake
<1>11. Len(ahead) = k + Len(rest) /\ \A i \in 1..k : ahead[i] = b[i]
  <2>1. /\ Len(b \o rest) = k + Len(rest)
        /\ \A i \in 1..(k + Len(rest)) : (b \o rest)[i] = IF i <= k THEN b[i] ELSE rest[i - k]
    BY <1>5, ConcatProperties
  <2>2. Len(rest) \in Nat
    BY LenProperties
  <2>3. ASSUME NEW i \in 1..k PROVE ahead[i] = b[i]
    <3>1. i \in 1..(k + Len(rest)) /\ i <= k
      BY <1>5, <1>9, <2>2
    <3> QED BY <1>10, <2>1, <3>1
  <2> QED BY <1>10, <2>1, <2>3
<1>12. k \in 0..Len(ahead) /\ k < want /\ k > 0
  <2>1. Len(rest) \in Nat
    BY LenProperties
  <2> QED BY <1>1, <1>5, <1>8, <1>9, <1>11, <2>1
<1>13. \A j \in 1..(k - 1) : ahead[j] \notin nl
  <2> SUFFICES ASSUME NEW j \in 1..(k - 1) PROVE ahead[j] \notin nl
    OBVIOUS
  <2>1. j \in 1..Len(usrbuf) /\ j \in 1..k
    BY <1>5, <1>9
  <2> QED BY <1>5, <1>8, <1>11, <2>1
<1>14. ahead[k] \in nl
  <2>1. k \in 1..k
    BY <1>5, <1>9
  <2> QED BY <1>5, <1>11, <2>1
<1> HIDE DEF k
<1>15. Stream!Line(want)
  BY <1>10, <1>12, <1>13, <1>14 DEF Stream!Line, ahead
<1> QED BY <1>0, <1>15 DEF Stream!Next

\* A buffered call that ends at the end of the stream or because it has what
\* it was asked for.
LEMMA EndIsAnswer ==
  ASSUME EofInv, RefillEof \/ Full, rpc \in {"line", "block"}
  PROVE  Stream!Next
<1>0. /\ RioInv /\ want \in Sizes
      /\ UNCHANGED <<writer, wire, taken, rio_bufptr, rio_buf, nl>>
      /\ rio_cnt' = rio_cnt \/ (rio_cnt <= 0 /\ rio_cnt' = 0)
  BY DEF EofInv, Active, RefillEof, Full, refilling, rio
<1>1. PICK v : Return(v, usrbuf)
  BY DEF RefillEof, Full
<1> DEFINE k == Len(usrbuf)
<1>2. /\ usrbuf \in Seq(Byte) /\ n \in Nat /\ want \in Nat /\ k \in Nat
      /\ rpc = "line" => n = k + 1 /\ n <= want /\ \A j \in 1..k : usrbuf[j] \notin nl
      /\ rpc = "block" => n + k = want
  BY <1>0, Lengths DEF RioInv, TypeOK, CallInOrder
<1>3. inBuffer \in Seq(Byte) /\ inBuffer' = inBuffer /\ Len(inBuffer) = held
  BY <1>0, InBuffer, InBufferStays
<1>4. Stream!Take(rpc, want, k) /\ ahead = usrbuf \o inBuffer /\ pos = taken
  BY <1>0, <1>1, <1>2, <1>3, AnswerIsTake
<1>5. /\ k \in 0..Len(ahead) /\ (held = 0 => k = Len(ahead))
      /\ \A i \in 1..k : ahead[i] = usrbuf[i]
  <2>1. /\ Len(usrbuf \o inBuffer) = k + held
        /\ \A i \in 1..(k + held) : (usrbuf \o inBuffer)[i] = IF i <= k THEN usrbuf[i] ELSE inBuffer[i - k]
    BY <1>2, <1>3, ConcatProperties
  <2>2. held \in Nat
    BY <1>0, Lengths
  <2>3. ASSUME NEW i \in 1..k PROVE ahead[i] = usrbuf[i]
    <3>1. i \in 1..(k + held) /\ i <= k
      BY <1>2, <2>2
    <3> QED BY <1>4, <2>1, <3>1
  <2> QED BY <1>2, <1>4, <2>1, <2>2, <2>3
<1>6. rpc = "line" => \A j \in 1..(k - 1) : ahead[j] \notin nl
  <2> SUFFICES ASSUME rpc = "line", NEW j \in 1..(k - 1) PROVE ahead[j] \notin nl
    OBVIOUS
  <2>1. j \in 1..k
    BY <1>2
  <2> QED BY <1>2, <1>5, <2>1
<1>7. CASE RefillEof
  <2>1. ended /\ unread = 0 /\ held = 0 /\ wanting
    <3>1. ended /\ unread = 0 /\ rio_cnt <= 0 /\ wanting
      BY <1>7 DEF RefillEof, refilling
    <3> QED BY <1>0, <3>1, Lengths DEF held
  <2>2. taken = Len(wire)
    BY <1>0, <2>1, Lengths DEF unread
  <2>3. CASE rpc = "line"
    <3>1. k < want
      BY <1>2, <2>1, <2>3 DEF wanting
    <3> HIDE DEF k
    <3>2. Stream!Line(want)
      BY <1>4, <1>5, <1>6, <2>1, <2>2, <2>3, <3>1 DEF Stream!Line, Stream!atEnd, ahead, pos
    <3> QED BY <1>0, <3>2 DEF Stream!Next
  <2>4. CASE rpc = "block"
    <3>1. k <= want
      BY <1>2, <2>4
    <3> HIDE DEF k
    <3>2. Stream!Block(want)
      BY <1>4, <1>5, <2>1, <2>2, <2>4, <3>1 DEF Stream!Block, Stream!atEnd, ahead, pos
    <3> QED BY <1>0, <3>2 DEF Stream!Next
  <2> QED BY <2>3, <2>4
<1>8. CASE Full
  <2>1. ~wanting
    BY <1>8 DEF Full
  <2>2. CASE rpc = "line"
    <3>1. k < want /\ k = want - 1
      BY <1>2, <2>1, <2>2 DEF wanting
    <3> HIDE DEF k
    <3>2. Stream!Line(want)
      BY <1>4, <1>5, <1>6, <2>2, <3>1 DEF Stream!Line, ahead
    <3> QED BY <1>0, <3>2 DEF Stream!Next
  <2>3. CASE rpc = "block"
    <3>1. k = want
      BY <1>2, <2>1, <2>3 DEF wanting
    <3>2. k <= want
      BY <1>2, <3>1
    <3> HIDE DEF k
    <3>3. Stream!Block(want)
      BY <1>4, <1>5, <2>3, <3>1, <3>2 DEF Stream!Block, ahead
    <3> QED BY <1>0, <3>3 DEF Stream!Next
  <2> QED BY <2>2, <2>3
<1> QED BY <1>7, <1>8

\* An unbuffered call that ends so.
LEMMA EndIsDirect ==
  ASSUME EofInv, ReadDirectEof \/ Full, rpc = "direct"
  PROVE  Stream!Next
<1>0. RioInv /\ want \in Sizes /\ UNCHANGED <<writer, wire, taken, rio, nl>>
  BY DEF EofInv, Active, ReadDirectEof, Full
<1>1. PICK v : Return(v, usrbuf)
  BY DEF ReadDirectEof, Full
<1> DEFINE k == Len(usrbuf)
<1>2. /\ usrbuf \in Seq(Byte) /\ n \in Nat /\ want \in Nat /\ k \in Nat /\ n + k = want
      /\ \A i \in 1..k : usrbuf[i] = taken - k + i
  BY <1>0, Lengths DEF RioInv, TypeOK, CallInOrder
<1>3. inBuffer \in Seq(Byte) /\ inBuffer' = inBuffer
  BY <1>0, InBuffer DEF inBuffer, buffered, held, rio
<1>4. /\ usrbuf' = <<>> /\ rpc' = "idle"
      /\ res' = [call |-> "direct", want |-> want, ret |-> v, bytes |-> usrbuf]
  BY <1>1 DEF Return
<1>5. pos = taken - k /\ pos' = taken /\ pos' = pos + k /\ UNCHANGED ahead
  <2>1. <<>> \o inBuffer = inBuffer
    BY <1>3, ConcatEmptySeq
  <2>2. pos = taken - k /\ pos' = taken /\ UNCHANGED ahead
    BY <1>0, <1>3, <1>4, <2>1 DEF pos, ahead
  <2> QED BY <1>0, <1>2, <2>2, Lengths
<1>6. out' = [call |-> "direct", want |-> want, bytes |-> [i \in 1..k |-> pos + i]]
  <2>1. usrbuf = [i \in 1..k |-> pos + i]
    BY <1>2, <1>5, SameBytes
  <2> QED BY <1>4, <2>1 DEF out
<1>7. k \in 0..(Len(wire) - pos) /\ k <= want
  BY <1>0, <1>2, <1>5, Lengths
<1>8. k = want \/ (ended /\ pos + k = Len(wire))
  <2>1. CASE ReadDirectEof
    <3>1. ended /\ unread = 0
      BY <2>1 DEF ReadDirectEof
    <3> QED BY <1>0, <1>5, <3>1, Lengths DEF unread
  <2>2. CASE Full
    <3>1. ~(n > 0)
      BY <2>2 DEF Full, wanting
    <3> QED BY <1>2, <3>1
  <2> QED BY <2>1, <2>2
<1>9. UNCHANGED <<Len(wire), ended, nl>>
  BY <1>0 DEF ended, writer
<1> HIDE DEF k
<1>10. Stream!Direct(want)
  BY <1>5, <1>6, <1>7, <1>8, <1>9 DEF Stream!Direct, Stream!Following, pos, ahead, out
<1> QED BY <1>0, <1>10 DEF Stream!Next

LEMMA StepIsStream == EofInv /\ [Next]_vars => [Stream!Next]_(Stream!vars)
<1> SUFFICES ASSUME EofInv, [Next]_vars PROVE [Stream!Next]_(Stream!vars)
  OBVIOUS
<1>0. RioInv /\ RioInv'
  BY RioStep DEF EofInv
<1>1. CASE UNCHANGED vars
  BY <1>1 DEF vars, Stream!vars, ended, inBuffer, buffered, held
<1>2. CASE WriterStep
  BY <1>0, <1>2, PeerIsStream DEF WriterStep
<1>3. CASE ReaderStep
  <2>1. CASE \E k \in 1..RIO_BUFSIZE : Refill(k)
    BY <1>0, <2>1, RefillIsFetch DEF Stream!Next
  <2>2. CASE RefillEof
    BY <2>2, EndIsAnswer DEF RefillEof, refilling
  <2>3. CASE ReadDirectEof
    BY <2>3, EndIsDirect DEF ReadDirectEof
  <2>4. CASE Full
    BY <2>4, EndIsAnswer, EndIsDirect DEF Full
  <2> QED BY <1>0, <1>3, <2>1, <2>2, <2>3, <2>4, BusyIsStutter, NewlineIsLine DEF ReaderStep
<1>4. CASE Calls
  BY <1>0, <1>4, PeerIsStream, BusyIsStutter DEF Calls
<1>5. CASE Faults
  BY <1>0, <1>5, PeerIsStream, BusyIsStutter, FailIsFetch DEF Faults
<1> QED BY <1>1, <1>2, <1>3, <1>4, <1>5 DEF Next, Done

\* The reading functions of csapp.c implement the stream of bytes of which
\* each call takes the next line or the next n bytes in one step, for every
\* size of buffer, socket and requests; also where rio_readn is mixed with
\* the others and takes what comes after the buffer.
THEOREM RioIsByteStream == Spec => ImplementsByteStream
<1>1. Init => Stream!Init
  <2> SUFFICES ASSUME Init PROVE Stream!Init
    OBVIOUS
  <2>1. rpc = "idle" /\ taken = 0 /\ Len(wire) = 0 /\ ended = FALSE /\ usrbuf = <<>> /\ Len(inBuffer) = 0
    <3>1. Len(<<>>) = 0 /\ wire = <<>>
      BY EmptySeq DEF Init
    <3>2. Len(inBuffer) = 0
      BY RioInit, InBuffer DEF Init, held
    <3> QED BY <3>1, <3>2 DEF Init, ended
  <2>3. usrbuf \o inBuffer = <<>>
    <3>1. inBuffer = <<>> /\ <<>> \in Seq(Byte)
      BY <2>1, RioInit, InBuffer, EmptySeq
    <3> QED BY <2>1, <3>1, ConcatEmptySeq
  <2>2. res = [call |-> "none", want |-> 0, ret |-> 0, bytes |-> <<>>] /\ nl \in SUBSET (1..Total)
    BY DEF Init, Byte
  <2> QED BY <2>1, <2>2, <2>3 DEF Stream!Init
<1>2. Init => EofInv
  BY InitEof
<1> QED BY <1>1, <1>2, EofStep, StepIsStream, PTL DEF Spec, ImplementsByteStream, Stream!Spec
=============================================================================
