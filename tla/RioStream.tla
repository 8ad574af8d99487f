----------------------------- MODULE RioStream -----------------------------
(***************************************************************************)
(* Rio as an implementation of ByteStream: a call takes effect when it     *)
(* returns.  Before that, what a buffered call has stored still counts as  *)
(* fetched ahead, and what rio_readn has stored as not fetched; if that    *)
(* fails, its bytes count as fetched for nobody.                           *)
(***************************************************************************)
EXTENDS Rio

Stream == INSTANCE ByteStream WITH
    pos   <- IF rpc = "direct" THEN taken - Len(usrbuf) ELSE taken,
    ahead <- IF rpc = "direct" THEN inBuffer
             ELSE IF rpc = "failed" THEN inBuffer \o usrbuf
             ELSE usrbuf \o inBuffer,
    avail <- Len(wire),
    eof   <- ended,
    out   <- [call |-> res.call, want |-> res.want, bytes |-> res.bytes],
    nl    <- nl

\* rio_readlineb, rio_readnb and rio_readn are robust: each call takes the
\* next line or the next n bytes, fewer only at the end of the stream.  Mixed
\* on one descriptor, rio_readn takes what comes after the buffer, and the
\* others go on with the buffer.
ImplementsByteStream == Stream!Spec
=============================================================================
