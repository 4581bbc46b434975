----------------------------- MODULE ByteStream -----------------------------
(***************************************************************************)
(* What a writer promises: the bytes it was given reach the file in order, *)
(* each at most once; those not yet there are pending; a failed write      *)
(* gives up what is pending and nothing else.                              *)
(*                                                                         *)
(* A byte is named by its place in the stream of all bytes ever given.     *)
(***************************************************************************)
EXTENDS Integers, Sequences

CONSTANT MaxBytes    \* bound: bytes given in all

VARIABLES
  given,      \* how many bytes the writer was given
  pending,    \* accepted, not yet in the file
  durable,    \* the contents of the file
  failed      \* a write has failed

vars == <<given, pending, durable, failed>>

\* The bytes m+1 .. n of the stream.
Bytes(m, n) == [i \in 1 .. n - m |-> m + i]

Init == given = 0 /\ pending = <<>> /\ durable = <<>> /\ failed = FALSE

Write(n) ==
  /\ given + n <= MaxBytes
  /\ given' = given + n
  /\ pending' = pending \o Bytes(given, given + n)
  /\ UNCHANGED <<durable, failed>>

Sync(k) ==
  /\ k \in 1 .. Len(pending)
  /\ durable' = durable \o SubSeq(pending, 1, k)
  /\ pending' = SubSeq(pending, k + 1, Len(pending))
  /\ UNCHANGED <<given, failed>>

Fail ==
  /\ pending' = <<>> /\ failed' = TRUE
  /\ UNCHANGED <<given, durable>>

Next ==
  \/ \E n \in 0 .. MaxBytes : Write(n)
  \/ \E k \in 1 .. MaxBytes : Sync(k)
  \/ Fail

Spec == Init /\ [][Next]_vars
=============================================================================
