--------------------------- MODULE BufferedWriter ---------------------------
(***************************************************************************)
(* posixc_buffered_writable (fileio.c): a buffer in front of a descriptor. *)
(*                                                                         *)
(* A call runs in steps: one for what happens in memory, then one per      *)
(* write() system call, which may write less than it was asked to, or      *)
(* fail.  EINTR and a write of nothing leave everything as it was.         *)
(*                                                                         *)
(* A byte is named by its place in the stream of all bytes ever given.     *)
(***************************************************************************)
EXTENDS Integers, Sequences

CONSTANTS
  buffered_writable_size,
  MaxBytes,      \* bound: bytes given in all
  MaxWrite       \* bound: bytes given by one call

ASSUME WriterAssumption ==
  buffered_writable_size \in Nat \ {0} /\ MaxBytes \in Nat /\ MaxWrite \in Nat

VARIABLES
  buf,      \* bw->buf up to bw->pos
  file,     \* contents of the file
  chunk,    \* what posixc_unbuffered_write has still to write
  rest,     \* what posixc_buffered_write has still to place after its flush
  op,       \* the call that is running, or "none"
  given,    \* history: bytes given so far
  failed    \* history: some write() failed

writerVars == <<buf, file, chunk, rest, op, given, failed>>

Bytes(m, n) == [i \in 1 .. n - m |-> m + i]

\* posixc_buffered_writable_init_from: pos = 0 and a file opened with O_TRUNC.
WriterInit ==
  /\ buf = <<>> /\ file = <<>> /\ chunk = <<>> /\ rest = <<>>
  /\ op = "none" /\ given = 0 /\ failed = FALSE

\* How much of size bytes fits into the buffer: posixc_min(size, room).
room_off_by_one(size) ==                    \* mutant: the buffer overflows
  IF size < buffered_writable_size - Len(buf) + 1
  THEN size ELSE buffered_writable_size - Len(buf) + 1
fits(size) ==
  IF size < buffered_writable_size - Len(buf)
  THEN size ELSE buffered_writable_size - Len(buf)

\* posixc_flush takes the whole buffer (pos = 0) and writes it.
flush_keeps(b) == b                         \* mutant: pos is not reset
flushed(b) == <<>>

\* posixc_buffered_write, up to its first write(): fill the buffer; when the
\* data does not fit, flush it and keep the rest for later.
posixc_buffered_write(n) ==
  /\ op = "none" /\ given + n <= MaxBytes
  /\ given' = given + n
  /\ LET filled == buf \o Bytes(given, given + fits(n)) IN
     IF fits(n) = n
     THEN /\ buf' = filled
          /\ UNCHANGED <<chunk, rest, op>>
     ELSE /\ chunk' = filled /\ buf' = flushed(filled)
          /\ rest' = Bytes(given + fits(n), given + n)
          /\ op' = "write"
  /\ UNCHANGED <<file, failed>>

\* posixc_flush, up to its first write(); an empty buffer needs none.
posixc_flush ==
  /\ op = "none" /\ buf # <<>>
  /\ chunk' = buf /\ buf' = flushed(buf)
  /\ op' = "flush"
  /\ UNCHANGED <<file, rest, given, failed>>

\* write() took k bytes of chunk.
advance_all(k) == <<>>                      \* mutant: a short write is taken for all
advance(k) == SubSeq(chunk, k + 1, Len(chunk))

\* Where the rest goes once the flush is done: back into the buffer when it is
\* smaller than the buffer, else straight to the file.
into_buffer(r) == Len(r) < buffered_writable_size

\* posixc_unbuffered_write: one write() that wrote k bytes.  When it was the
\* last one, the call goes on after its flush, or returns.
write_some_for_ever(k) ==                   \* mutant: while (size >= 0)
  /\ op # "none" /\ k \in 1 .. Len(chunk)
  /\ file' = file \o SubSeq(chunk, 1, k) /\ chunk' = advance(k)
  /\ UNCHANGED <<buf, rest, op, given, failed>>
write_some(k) ==
  /\ op # "none" /\ k \in 1 .. Len(chunk)
  /\ file' = file \o SubSeq(chunk, 1, k)
  /\ \/ /\ advance(k) # <<>>
        /\ chunk' = advance(k)
        /\ UNCHANGED <<buf, rest, op>>
     \/ /\ advance(k) = <<>> /\ into_buffer(rest)
        /\ buf' = (IF rest = <<>> THEN buf ELSE rest) /\ chunk' = <<>> /\ rest' = <<>>
        /\ op' = "none"
     \/ /\ advance(k) = <<>> /\ ~into_buffer(rest)
        /\ chunk' = rest /\ rest' = <<>>
        /\ UNCHANGED <<buf, op>>
  /\ UNCHANGED <<given, failed>>

\* write() failed, and not with EINTR: the call returns false.
write_error ==
  /\ op # "none"
  /\ chunk' = <<>> /\ rest' = <<>> /\ op' = "none"
  /\ failed' = TRUE
  /\ UNCHANGED <<buf, file, given>>

WriterNext ==
  \/ \E n \in 0 .. MaxWrite : posixc_buffered_write(n)
  \/ posixc_flush
  \/ \E k \in 1 .. MaxBytes : write_some(k)
  \/ write_error

WriterSpec == WriterInit /\ [][WriterNext]_writerVars

\* A write() that is called returns, and not for ever with nothing written.
WriterProgress == WF_writerVars(\E k \in 1 .. MaxBytes : write_some(k))

WriterFairSpec == WriterSpec /\ WriterProgress

-----------------------------------------------------------------------------
(* Properties.                                                             *)

\* The type invariant, with the bound that matters: bw->pos never exceeds
\* buffered_writable_size.  Outside a call nothing is on its way.
WriterTypeOK ==
  /\ buf \in Seq(Nat) /\ file \in Seq(Nat) /\ chunk \in Seq(Nat) /\ rest \in Seq(Nat)
  /\ Len(buf) <= buffered_writable_size
  /\ op \in {"none", "write", "flush"}
  /\ given \in Nat /\ failed \in BOOLEAN
  /\ op = "none" => chunk = <<>> /\ rest = <<>>
  /\ op # "none" => chunk # <<>> /\ buf = <<>>
  /\ op = "flush" => rest = <<>>

\* The writer implements the byte stream: what is in the buffer, in the current
\* write() loop and behind it is the pending part of the stream, in this order.
Stream == INSTANCE ByteStream WITH pending <- chunk \o rest \o buf, durable <- file
ImplementsByteStream == Stream!Spec

\* As long as no write() has failed, every byte given is in the file or on its
\* way there, once and in order.
NothingLost == ~failed => file \o (chunk \o rest \o buf) = Bytes(0, given)

\* A flush that returns true has put every byte ever given into the file, when
\* no earlier write has failed.
FlushIsComplete ==
  [][op = "flush" /\ op' = "none" /\ ~failed' => file' = Bytes(0, given)]_writerVars

\* Every call returns.
CallReturns == op # "none" ~> op = "none"
=============================================================================
