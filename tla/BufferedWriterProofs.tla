----------------------- MODULE BufferedWriterProofs -----------------------
(***************************************************************************)
(* The buffered writer implements the byte stream, for every size of the   *)
(* buffer, of the calls and of what write() takes at a time.               *)
(***************************************************************************)
EXTENDS BufferedWriter, SequenceTheorems, TLAPS

-----------------------------------------------------------------------------
(* Lemmas about pieces of the stream.                                      *)

\* What concatenation gives, element by element.
LEMMA Concat ==
  ASSUME NEW s \in Seq(Nat), NEW t \in Seq(Nat)
  PROVE  /\ Len(s) \in Nat /\ Len(t) \in Nat
         /\ s \o t \in Seq(Nat) /\ Len(s \o t) = Len(s) + Len(t)
         /\ \A i \in 1 .. Len(s) : (s \o t)[i] = s[i]
         /\ \A i \in 1 .. Len(t) : (s \o t)[Len(s) + i] = t[i]
  OBVIOUS

\* The first k elements of s, and the others.
LEMMA Cut ==
  ASSUME NEW s \in Seq(Nat), NEW k \in Nat, k <= Len(s)
  PROVE  /\ SubSeq(s, 1, k) \in Seq(Nat) /\ Len(SubSeq(s, 1, k)) = k
         /\ \A i \in 1 .. k : SubSeq(s, 1, k)[i] = s[i]
         /\ SubSeq(s, k + 1, Len(s)) \in Seq(Nat)
         /\ Len(SubSeq(s, k + 1, Len(s))) = Len(s) - k
         /\ \A i \in 1 .. Len(s) - k : SubSeq(s, k + 1, Len(s))[i] = s[k + i]
  OBVIOUS

\* A sequence that agrees with s on its first elements and with t after them is
\* s \o t.
LEMMA ConcatIs ==
  ASSUME NEW s \in Seq(Nat), NEW t \in Seq(Nat), NEW u \in Seq(Nat),
         Len(u) = Len(s) + Len(t),
         \A i \in 1 .. Len(s) : u[i] = s[i],
         \A i \in 1 .. Len(t) : u[Len(s) + i] = t[i]
  PROVE  u = s \o t
  <1> DEFINE c == s \o t
  <1>1. /\ Len(s) \in Nat /\ Len(t) \in Nat /\ c \in Seq(Nat) /\ Len(c) = Len(u)
        /\ \A i \in 1 .. Len(s) : c[i] = s[i]
        /\ \A i \in 1 .. Len(t) : c[Len(s) + i] = t[i]
    BY Concat
  <1> HIDE DEF c
  <1>2. ASSUME NEW i \in 1 .. Len(u) PROVE u[i] = c[i]
    <2>1. CASE i \in 1 .. Len(s)
      BY <1>1, <2>1
    <2>2. CASE i \notin 1 .. Len(s)
      <3>1. PICK j \in 1 .. Len(t) : i = Len(s) + j
        <4>1. Len(s) \in Nat /\ Len(t) \in Nat /\ Len(u) = Len(s) + Len(t)
          BY <1>1
        <4>2. i - Len(s) \in 1 .. Len(t) /\ i = Len(s) + (i - Len(s))
          BY <2>2, <4>1
        <4> QED
          BY <4>2
      <3> QED
        BY <1>1, <3>1
    <2> QED
      BY <2>1, <2>2
  <1>3. u = c
    BY <1>1, <1>2, SeqEqual
  <1> QED
    BY <1>3 DEF c

\* A piece of the stream is a sequence of numbers.
LEMMA BytesType ==
  ASSUME NEW m \in Nat, NEW n \in Nat, m <= n
  PROVE  /\ Bytes(m, n) \in Seq(Nat) /\ Len(Bytes(m, n)) = n - m
         /\ \A i \in 1 .. n - m : Bytes(m, n)[i] = m + i
  <1>1. n - m \in Nat
    OBVIOUS
  <1>2. \A i \in 1 .. n - m : m + i \in Nat
    OBVIOUS
  <1> QED
    BY <1>1, <1>2 DEF Bytes

\* Neighbouring pieces join to one.
LEMMA BytesJoin ==
  ASSUME NEW l \in Nat, NEW m \in Nat, NEW n \in Nat, l <= m, m <= n
  PROVE  Bytes(l, m) \o Bytes(m, n) = Bytes(l, n)
  <1> DEFINE a == Bytes(l, m)
             b == Bytes(m, n)
             t == Bytes(l, n)
  <1>1. a \in Seq(Nat) /\ Len(a) = m - l /\ \A i \in 1 .. m - l : a[i] = l + i
    BY BytesType
  <1>2. b \in Seq(Nat) /\ Len(b) = n - m /\ \A i \in 1 .. n - m : b[i] = m + i
    BY BytesType
  <1>3. t \in Seq(Nat) /\ Len(t) = n - l /\ \A i \in 1 .. n - l : t[i] = l + i
    BY BytesType
  <1> HIDE DEF a, b, t
  <1>4. Len(t) = Len(a) + Len(b)
    BY <1>1, <1>2, <1>3
  <1>5. \A i \in 1 .. Len(a) : t[i] = a[i]
    BY <1>1, <1>3
  <1>6. ASSUME NEW i \in 1 .. Len(b) PROVE t[Len(a) + i] = b[i]
    <2>1. (m - l) + i \in 1 .. n - l /\ i \in 1 .. n - m
      BY <1>2
    <2>2. t[(m - l) + i] = l + ((m - l) + i) /\ b[i] = m + i
      BY <1>2, <1>3, <2>1
    <2> QED
      BY <1>1, <2>2
  <1>7. t = a \o b
    BY <1>1, <1>2, <1>3, <1>4, <1>5, <1>6, ConcatIs
  <1> QED
    BY <1>7 DEF a, b, t

\* Taking k elements off the front of s \o t, with k within s.
LEMMA SplitFront ==
  ASSUME NEW s \in Seq(Nat), NEW t \in Seq(Nat), NEW k \in 1 .. Len(s)
  PROVE  /\ SubSeq(s \o t, 1, k) = SubSeq(s, 1, k)
         /\ SubSeq(s \o t, k + 1, Len(s \o t)) = SubSeq(s, k + 1, Len(s)) \o t
         /\ SubSeq(s, 1, k) \o SubSeq(s, k + 1, Len(s)) = s
  <1> DEFINE p == SubSeq(s, 1, k)
             r == SubSeq(s, k + 1, Len(s))
             u == s \o t
             q == SubSeq(u, 1, k)
             v == SubSeq(u, k + 1, Len(u))
  <1>1. /\ Len(s) \in Nat /\ Len(t) \in Nat /\ u \in Seq(Nat) /\ Len(u) = Len(s) + Len(t)
        /\ \A i \in 1 .. Len(s) : u[i] = s[i]
        /\ \A i \in 1 .. Len(t) : u[Len(s) + i] = t[i]
    BY Concat
  <1> HIDE DEF u
  <1>2. k \in Nat /\ k <= Len(s) /\ k <= Len(u)
    BY <1>1
  <1>3. /\ p \in Seq(Nat) /\ Len(p) = k /\ \A i \in 1 .. k : p[i] = s[i]
        /\ r \in Seq(Nat) /\ Len(r) = Len(s) - k
        /\ \A i \in 1 .. Len(s) - k : r[i] = s[k + i]
    BY <1>2, Cut
  <1>4. /\ q \in Seq(Nat) /\ Len(q) = k /\ \A i \in 1 .. k : q[i] = u[i]
        /\ v \in Seq(Nat) /\ Len(v) = Len(u) - k
        /\ \A i \in 1 .. Len(u) - k : v[i] = u[k + i]
    BY <1>1, <1>2, Cut
  <1> HIDE DEF p, r, q, v
  <1>5. q = p
    <2>1. ASSUME NEW i \in 1 .. k PROVE q[i] = p[i]
      <3>1. i \in 1 .. Len(s)
        BY <1>1
      <3> QED
        BY <1>1, <1>3, <1>4, <3>1
    <2> QED
      BY <1>3, <1>4, <2>1, SeqEqual
  <1>6. s = p \o r
    <2>1. Len(s) = Len(p) + Len(r)
      BY <1>1, <1>2, <1>3
    <2>2. \A i \in 1 .. Len(p) : s[i] = p[i]
      BY <1>3
    <2>3. ASSUME NEW i \in 1 .. Len(r) PROVE s[Len(p) + i] = r[i]
      BY <1>3
    <2> QED
      BY <1>3, <2>1, <2>2, <2>3, ConcatIs
  <1>7. v = r \o t
    <2>1. Len(v) = Len(r) + Len(t)
      BY <1>1, <1>2, <1>3, <1>4
    <2>2. ASSUME NEW i \in 1 .. Len(r) PROVE v[i] = r[i]
      <3>1. i \in 1 .. Len(s) - k /\ i \in 1 .. Len(u) - k /\ k + i \in 1 .. Len(s)
        BY <1>1, <1>2, <1>3
      <3> QED
        BY <1>1, <1>3, <1>4, <3>1
    <2>3. ASSUME NEW i \in 1 .. Len(t) PROVE v[Len(r) + i] = t[i]
      <3>1. Len(r) + i \in 1 .. Len(u) - k /\ k + (Len(r) + i) = Len(s) + i
        BY <1>1, <1>2, <1>3
      <3> QED
        BY <1>1, <1>4, <3>1, ZenonT(30)
    <2> QED
      BY <1>3, <1>4, <2>1, <2>2, <2>3, ConcatIs
  <1> QED
    BY <1>5, <1>6, <1>7 DEF p, r, u, q, v

-----------------------------------------------------------------------------
(* The type invariant.                                                     *)

\* How much fits is between nothing and both what is given and the room left.
LEMMA FitsBounds ==
  ASSUME WriterTypeOK, NEW n \in Nat
  PROVE  /\ fits(n) \in 0 .. n /\ Len(buf) + fits(n) <= buffered_writable_size
         /\ fits(n) # n => Len(buf) + fits(n) = buffered_writable_size
  BY WriterAssumption DEF WriterTypeOK, fits

\* Every step of the writer keeps its type, and the buffer within its bound.
LEMMA WriterTypeNext == WriterTypeOK /\ [WriterNext]_writerVars => WriterTypeOK'
  <1> SUFFICES ASSUME WriterTypeOK, [WriterNext]_writerVars PROVE WriterTypeOK'
    OBVIOUS
  <1> USE WriterAssumption
  <1>1. ASSUME NEW n \in 0 .. MaxWrite, posixc_buffered_write(n) PROVE WriterTypeOK'
    <2> DEFINE g == given + fits(n)
               a == Bytes(given, g)
    <2>1. /\ fits(n) \in 0 .. n /\ Len(buf) + fits(n) <= buffered_writable_size
          /\ fits(n) # n => Len(buf) + fits(n) = buffered_writable_size
      BY FitsBounds
    <2>2. given \in Nat /\ g \in Nat /\ given <= g /\ g <= given + n /\ given + n \in Nat
      BY <2>1, SMTT(30) DEF WriterTypeOK
    <2>3. a \in Seq(Nat) /\ Len(a) = fits(n)
      <3>1. a \in Seq(Nat) /\ Len(a) = g - given
        BY <2>2, BytesType
      <3> QED
        BY <2>1, <2>2, <3>1
    <2>5. Bytes(g, given + n) \in Seq(Nat)
      BY <2>2, BytesType
    <2> HIDE DEF a
    <2>b. buf \in Seq(Nat)
      BY DEF WriterTypeOK
    <2>4. buf \o a \in Seq(Nat) /\ Len(buf \o a) = Len(buf) + fits(n)
      BY <2>3, <2>b, Concat
    <2>6. CASE fits(n) = n
      <3>1. buf' = buf \o a /\ UNCHANGED <<chunk, rest, op, file, failed>> /\ given' \in Nat
        BY <1>1, <2>2, <2>6 DEF posixc_buffered_write, a
      <3>2. op = "none"
        BY <1>1 DEF posixc_buffered_write
      <3> QED
        BY <2>1, <2>4, <3>1, <3>2 DEF WriterTypeOK
    <2>7. CASE fits(n) # n
      <3>1. /\ chunk' = buf \o a /\ buf' = <<>> /\ rest' = Bytes(g, given + n)
            /\ op' = "write" /\ UNCHANGED <<file, failed>> /\ given' \in Nat
        BY <1>1, <2>2, <2>7 DEF posixc_buffered_write, flushed, a
      <3>2. chunk' # <<>>
        BY <2>1, <2>4, <2>7, <3>1 DEF WriterTypeOK
      <3> QED
        BY <2>4, <2>5, <3>1, <3>2 DEF WriterTypeOK
    <2> QED
      BY <2>6, <2>7
  <1>2. CASE posixc_flush
    BY <1>2 DEF posixc_flush, flushed, WriterTypeOK
  <1>3. ASSUME NEW k \in 1 .. MaxBytes, write_some(k) PROVE WriterTypeOK'
    <2>1. k \in Nat /\ k <= Len(chunk) /\ op # "none" /\ buf = <<>>
      BY <1>3 DEF write_some, WriterTypeOK
    <2>2. SubSeq(chunk, 1, k) \in Seq(Nat) /\ advance(k) \in Seq(Nat)
      BY <2>1, Cut DEF WriterTypeOK, advance
    <2>3. file' \in Seq(Nat)
      BY <1>3, <2>2, Concat DEF write_some, WriterTypeOK
    <2>4. CASE advance(k) # <<>> /\ chunk' = advance(k) /\ UNCHANGED <<buf, rest, op>>
      BY <1>3, <2>2, <2>3, <2>4 DEF write_some, WriterTypeOK
    <2>5. CASE into_buffer(rest) /\ buf' = (IF rest = <<>> THEN buf ELSE rest) /\ chunk' = <<>>
               /\ rest' = <<>> /\ op' = "none"
      BY <1>3, <2>1, <2>3, <2>5 DEF write_some, into_buffer, WriterTypeOK
    <2>6. CASE ~into_buffer(rest) /\ chunk' = rest /\ rest' = <<>> /\ UNCHANGED <<buf, op>>
      <3>1. rest # <<>>
        BY <2>6 DEF into_buffer
      <3> QED
        BY <1>3, <2>1, <2>3, <2>6, <3>1 DEF write_some, WriterTypeOK
    <2> QED
      BY <1>3, <2>4, <2>5, <2>6 DEF write_some
  <1>4. CASE write_error
    BY <1>4 DEF write_error, WriterTypeOK
  <1>5. CASE UNCHANGED writerVars
    BY <1>5 DEF writerVars, WriterTypeOK
  <1> QED
    BY <1>1, <1>2, <1>3, <1>4, <1>5 DEF WriterNext

\* bw->pos stays within the buffer for every sequence of calls, every size of the
\* buffer and every way write() may split or fail.
THEOREM WriterTypeCorrect == WriterSpec => []WriterTypeOK
  <1>1. WriterInit => failed \in BOOLEAN
    BY DEF WriterInit
  <1>2. WriterInit => WriterTypeOK
    BY <1>1, WriterAssumption DEF WriterInit, WriterTypeOK
  <1> QED
    BY <1>2, WriterTypeNext, PTL DEF WriterSpec

-----------------------------------------------------------------------------
(* Refinement.                                                             *)

\* The pending part of the stream.
Pending == chunk \o rest \o buf

\* Sequences joined with empty ones, and in another order of joining.
LEMMA Joined ==
  ASSUME NEW o \in Seq(Nat), NEW r \in Seq(Nat), NEW b \in Seq(Nat)
  PROVE  /\ o \o r \o b \in Seq(Nat) /\ o \o r \in Seq(Nat)
         /\ o = <<>> /\ r = <<>> => o \o r \o b = b
         /\ b = <<>> => o \o r \o b = o \o r
         /\ (o \o r) \o b = o \o (r \o b)
  <1>1. o \o r \in Seq(Nat)
    BY Concat
  <1>2. (o \o r) \o b \in Seq(Nat)
    BY <1>1, Concat
  <1>3. b = <<>> => (o \o r) \o b = o \o r
    BY <1>1, ConcatEmptySeq
  <1>4. o = <<>> /\ r = <<>> => (o \o r) \o b = b
    BY ConcatEmptySeq
  <1>5. (o \o r) \o b = o \o (r \o b)
    BY ConcatAssociative, SMTT(30)
  <1> QED
    BY <1>1, <1>2, <1>3, <1>4, <1>5

\* Inside a call the buffer is empty, outside it nothing else is pending.
LEMMA PendingShape ==
  ASSUME WriterTypeOK
  PROVE  /\ op = "none" => Pending = buf
         /\ op # "none" => Pending = chunk \o rest
  <1>1. /\ chunk \in Seq(Nat) /\ rest \in Seq(Nat) /\ buf \in Seq(Nat)
        /\ op = "none" => chunk = <<>> /\ rest = <<>>
        /\ op # "none" => buf = <<>>
    BY DEF WriterTypeOK
  <1>2. chunk = <<>> /\ rest = <<>> => chunk \o rest \o buf = buf
    BY <1>1, Joined
  <1>3. buf = <<>> => chunk \o rest \o buf = chunk \o rest
    BY <1>1, Joined
  <1> QED
    BY <1>1, <1>2, <1>3 DEF Pending

\* The same of the next state.
LEMMA PendingShapeNext ==
  ASSUME WriterTypeOK'
  PROVE  /\ op' = "none" => Pending' = buf'
         /\ op' # "none" => Pending' = chunk' \o rest'
  <1>1. /\ chunk' \in Seq(Nat) /\ rest' \in Seq(Nat) /\ buf' \in Seq(Nat)
        /\ op' = "none" => chunk' = <<>> /\ rest' = <<>>
        /\ op' # "none" => buf' = <<>>
    BY DEF WriterTypeOK
  <1>2. chunk' = <<>> /\ rest' = <<>> => chunk' \o rest' \o buf' = buf'
    BY <1>1, Joined
  <1>3. buf' = <<>> => chunk' \o rest' \o buf' = chunk' \o rest'
    BY <1>1, Joined
  <1> QED
    BY <1>1, <1>2, <1>3 DEF Pending

\* A call of posixc_buffered_write appends its bytes to what is pending.
LEMMA WriteRefines ==
  ASSUME WriterTypeOK, WriterTypeOK', NEW n \in 0 .. MaxWrite, posixc_buffered_write(n)
  PROVE  Pending' = Pending \o Bytes(given, given + n)
  <1> USE WriterAssumption
  <1> DEFINE g == given + fits(n)
             a == Bytes(given, g)
             b == Bytes(g, given + n)
  <1>1. op = "none" /\ Pending = buf /\ buf \in Seq(Nat)
    BY PendingShape DEF posixc_buffered_write, WriterTypeOK
  <1>2. fits(n) \in 0 .. n
    BY FitsBounds
  <1>a. given \in Nat /\ n \in Nat
    BY DEF WriterTypeOK
  <1>3. g \in Nat /\ given <= g /\ g <= given + n /\ given + n \in Nat
    BY <1>2, <1>a
  <1>4. a \in Seq(Nat) /\ b \in Seq(Nat) /\ a \o b = Bytes(given, given + n)
    BY <1>3, <1>a, BytesType, BytesJoin
  <1>5. CASE fits(n) = n
    <2>1. buf' = buf \o Bytes(given, given + n) /\ op' = "none"
      BY <1>1, <1>5 DEF posixc_buffered_write
    <2>2. Pending' = buf'
      BY <2>1, PendingShapeNext
    <2> QED
      BY <1>1, <2>1, <2>2
  <1>6. CASE fits(n) # n
    <2>1. chunk' = buf \o a /\ rest' = b /\ op' = "write"
      BY <1>6 DEF posixc_buffered_write
    <2>2. Pending' = chunk' \o rest'
      BY <2>1, PendingShapeNext
    <2>t. buf \in Seq(Nat) /\ a \in Seq(Nat) /\ b \in Seq(Nat)
      BY <1>1, <1>4
    <2> HIDE DEF a, b
    <2>3. (buf \o a) \o b = buf \o (a \o b)
      BY <2>t, Joined, SMTT(30)
    <2> QED
      BY <1>1, <1>4, <2>1, <2>2, <2>3
  <1> QED
    BY <1>5, <1>6

\* A write() of k bytes moves the first k pending bytes to the file.
LEMMA WriteSomeRefines ==
  ASSUME WriterTypeOK, WriterTypeOK', NEW k \in 1 .. MaxBytes, write_some(k)
  PROVE  /\ k \in 1 .. Len(Pending)
         /\ file' = file \o SubSeq(Pending, 1, k)
         /\ Pending' = SubSeq(Pending, k + 1, Len(Pending))
  <1> USE WriterAssumption
  <1>1. /\ k \in 1 .. Len(chunk) /\ op # "none" /\ buf = <<>>
        /\ chunk \in Seq(Nat) /\ rest \in Seq(Nat)
    BY DEF write_some, WriterTypeOK
  <1>2. Pending = chunk \o rest
    BY <1>1, PendingShape
  <1>3. Len(Pending) = Len(chunk) + Len(rest) /\ Len(chunk) \in Nat /\ Len(rest) \in Nat
    BY <1>1, <1>2, Concat
  <1>4. k \in 1 .. Len(Pending)
    BY <1>1, <1>3
  <1>5. /\ SubSeq(Pending, 1, k) = SubSeq(chunk, 1, k)
        /\ SubSeq(Pending, k + 1, Len(Pending)) = advance(k) \o rest
    <2>1. /\ SubSeq(chunk \o rest, 1, k) = SubSeq(chunk, 1, k)
          /\ SubSeq(chunk \o rest, k + 1, Len(chunk \o rest))
               = SubSeq(chunk, k + 1, Len(chunk)) \o rest
      BY <1>1, SplitFront
    <2> QED
      BY <1>2, <2>1 DEF advance
  <1>6. file' = file \o SubSeq(Pending, 1, k)
    BY <1>5 DEF write_some
  <1>7. Pending' = advance(k) \o rest
    <2>1. CASE advance(k) # <<>> /\ chunk' = advance(k) /\ UNCHANGED <<buf, rest, op>>
      BY <1>1, <2>1, PendingShapeNext
    <2>2. CASE advance(k) = <<>> /\ buf' = (IF rest = <<>> THEN buf ELSE rest)
               /\ op' = "none"
      <3>1. Pending' = buf' /\ buf' = rest
        BY <1>1, <2>2, PendingShapeNext
      <3> QED
        BY <1>1, <2>2, <3>1, ConcatEmptySeq
    <2>3. CASE advance(k) = <<>> /\ chunk' = rest /\ rest' = <<>> /\ UNCHANGED <<buf, op>>
      <3>1. Pending' = chunk' \o rest'
        BY <1>1, <2>3, PendingShapeNext
      <3> QED
        BY <1>1, <2>3, <3>1, ConcatEmptySeq
    <2> QED
      BY <2>1, <2>2, <2>3 DEF write_some
  <1> QED
    BY <1>4, <1>5, <1>6, <1>7

\* Every step of the writer is a step of the byte stream, or leaves it alone.
LEMMA StepRefines ==
  WriterTypeOK /\ WriterTypeOK' /\ [WriterNext]_writerVars => [Stream!Next]_(Stream!vars)
  <1> SUFFICES ASSUME WriterTypeOK, WriterTypeOK', [WriterNext]_writerVars
               PROVE  [Stream!Next]_(Stream!vars)
    OBVIOUS
  <1> USE WriterAssumption
  <1>1. ASSUME NEW n \in 0 .. MaxWrite, posixc_buffered_write(n) PROVE Stream!Next
    <2>1. Pending' = Pending \o Bytes(given, given + n)
      BY <1>1, WriteRefines
    <2>2. n \in 0 .. MaxBytes
      BY <1>1 DEF posixc_buffered_write, WriterTypeOK
    <2>3. Stream!Write(n)
      BY <1>1, <2>1 DEF posixc_buffered_write, Stream!Write, Stream!Bytes, Bytes, Pending
    <2> QED
      BY <2>2, <2>3 DEF Stream!Next
  <1>2. CASE posixc_flush
    <2>1. Pending' = chunk' \o rest' /\ Pending = buf /\ chunk' = buf /\ rest' = <<>>
      BY <1>2, PendingShape, PendingShapeNext DEF posixc_flush, WriterTypeOK
    <2>2. Pending' = Pending
      BY <2>1, ConcatEmptySeq DEF WriterTypeOK
    <2> QED
      BY <1>2, <2>2 DEF posixc_flush, Stream!vars, Pending
  <1>3. ASSUME NEW k \in 1 .. MaxBytes, write_some(k) PROVE Stream!Next
    <2>1. Stream!Sync(k)
      BY <1>3, WriteSomeRefines DEF write_some, Stream!Sync, Pending
    <2> QED
      BY <2>1 DEF Stream!Next
  <1>4. CASE write_error
    <2>1. Pending' = buf' /\ buf' = <<>>
      BY <1>4, PendingShape, PendingShapeNext DEF write_error, WriterTypeOK
    <2>2. Stream!Fail
      BY <1>4, <2>1 DEF write_error, Stream!Fail, Pending
    <2> QED
      BY <2>2 DEF Stream!Next
  <1>5. CASE UNCHANGED writerVars
    BY <1>5 DEF writerVars, Stream!vars
  <1> QED
    BY <1>1, <1>2, <1>3, <1>4, <1>5 DEF WriterNext

\* The buffered writer implements the byte stream: nothing given to it is lost,
\* duplicated or reordered, except what is pending when a write() fails.
THEOREM WriterRefines == WriterSpec => ImplementsByteStream
  <1>1. WriterInit => Stream!Init
    BY ConcatEmptySeq DEF WriterInit, Stream!Init
  <1> QED
    BY <1>1, StepRefines, WriterTypeCorrect, PTL DEF WriterSpec, ImplementsByteStream, Stream!Spec

-----------------------------------------------------------------------------
(* Nothing is lost.                                                        *)

\* Every step keeps file and pending together equal to the stream so far.
LEMMA NothingLostNext ==
  WriterTypeOK /\ WriterTypeOK' /\ NothingLost /\ [WriterNext]_writerVars => NothingLost'
  <1> SUFFICES ASSUME WriterTypeOK, WriterTypeOK', NothingLost, [WriterNext]_writerVars, ~failed'
               PROVE  file' \o Pending' = Bytes(0, given')
    BY DEF NothingLost, Pending
  <1> USE WriterAssumption
  <1>t. /\ file \in Seq(Nat) /\ given \in Nat
        /\ chunk \in Seq(Nat) /\ rest \in Seq(Nat) /\ buf \in Seq(Nat)
    BY DEF WriterTypeOK
  <1>p. Pending \in Seq(Nat)
    BY <1>t, Joined DEF Pending
  <1>i. ~failed => file \o Pending = Bytes(0, given)
    BY DEF NothingLost, Pending
  <1>1. ASSUME NEW n \in 0 .. MaxWrite, posixc_buffered_write(n)
        PROVE  file' \o Pending' = Bytes(0, given')
    <2>1. Pending' = Pending \o Bytes(given, given + n)
      BY <1>1, WriteRefines
    <2>2. file' = file /\ given' = given + n /\ file \o Pending = Bytes(0, given)
      BY <1>1, <1>i DEF posixc_buffered_write
    <2>3. n \in Nat /\ given + n \in Nat /\ given <= given + n
      BY <1>t
    <2>4. Bytes(given, given + n) \in Seq(Nat)
      BY <1>t, <2>3, BytesType
    <2>5. (file \o Pending) \o Bytes(given, given + n)
            = file \o (Pending \o Bytes(given, given + n))
      <3> DEFINE b == Bytes(given, given + n)
      <3>1. file \in Seq(Nat) /\ Pending \in Seq(Nat) /\ b \in Seq(Nat)
        BY <1>t, <1>p, <2>4
      <3> HIDE DEF b
      <3>2. (file \o Pending) \o b = file \o (Pending \o b)
        BY <3>1, ConcatAssociative, SMTT(30)
      <3> QED
        BY <3>2 DEF b
    <2>6. Bytes(0, given) \o Bytes(given, given + n) = Bytes(0, given + n)
      <3>1. given \in Nat /\ 0 \in Nat /\ 0 <= given
        BY <1>t
      <3> QED
        BY <3>1, <2>3, BytesJoin
    <2> QED
      BY <2>1, <2>2, <2>5, <2>6
  <1>2. CASE posixc_flush
    <2>1. Pending' = chunk' \o rest' /\ Pending = buf /\ chunk' = buf /\ rest' = <<>>
      BY <1>2, PendingShape, PendingShapeNext DEF posixc_flush, WriterTypeOK
    <2>2. Pending' = Pending
      BY <1>t, <2>1, ConcatEmptySeq
    <2> QED
      BY <1>2, <1>i, <2>2 DEF posixc_flush
  <1>3. ASSUME NEW k \in 1 .. MaxBytes, write_some(k)
        PROVE  file' \o Pending' = Bytes(0, given')
    <2> DEFINE p == SubSeq(Pending, 1, k)
               r == SubSeq(Pending, k + 1, Len(Pending))
    <2>1. k \in 1 .. Len(Pending) /\ file' = file \o p /\ Pending' = r
      BY <1>3, WriteSomeRefines
    <2>2. k \in Nat /\ k <= Len(Pending)
      BY <1>p, <2>1
    <2>3. p \in Seq(Nat) /\ r \in Seq(Nat)
      BY <1>p, <2>2, Cut
    <2>4. p \o r = Pending
      BY <1>p, <2>1, EmptySeq, SplitFront
    <2> HIDE DEF p, r
    <2>5. (file \o p) \o r = file \o (p \o r)
      <3>1. file \in Seq(Nat)
        BY <1>t
      <3> QED
        BY <3>1, <2>3, Joined
    <2>6. given' = given /\ ~failed
      BY <1>3 DEF write_some
    <2> QED
      BY <1>i, <2>1, <2>4, <2>5, <2>6
  <1>4. CASE write_error
    BY <1>4 DEF write_error
  <1>5. CASE UNCHANGED writerVars
    BY <1>5, <1>i DEF writerVars, Pending
  <1> QED
    BY <1>1, <1>2, <1>3, <1>4, <1>5 DEF WriterNext

\* Without a failed write(), every byte given is in the file or pending, once and
\* in order, whatever the sizes involved.
THEOREM NothingIsLost == WriterSpec => []NothingLost
  <1>1. WriterInit => NothingLost
    <2> SUFFICES ASSUME WriterInit PROVE NothingLost
      OBVIOUS
    <2>1. Bytes(0, 0) \in Seq(Nat) /\ Len(Bytes(0, 0)) = 0
      BY BytesType
    <2>2. Bytes(0, 0) = <<>>
      BY <2>1, EmptySeq
    <2>3. file \o (chunk \o rest \o buf) = <<>>
      BY ConcatEmptySeq DEF WriterInit
    <2> QED
      BY <2>2, <2>3 DEF WriterInit, NothingLost
  <1> QED
    BY <1>1, NothingLostNext, WriterTypeCorrect, PTL DEF WriterSpec

\* A posixc_flush that returns true, with no write() failed so far, leaves the
\* whole stream in the file.
THEOREM FlushCompletes == WriterSpec => FlushIsComplete
  <1> DEFINE A == op = "flush" /\ op' = "none" /\ ~failed' => file' = Bytes(0, given)
  <1>1. WriterTypeOK /\ WriterTypeOK' /\ NothingLost' /\ [WriterNext]_writerVars => [A]_writerVars
    <2> SUFFICES ASSUME WriterTypeOK, WriterTypeOK', NothingLost', [WriterNext]_writerVars,
                        op = "flush", op' = "none", ~failed'
                 PROVE  file' = Bytes(0, given)
      BY DEF writerVars
    <2>1. PICK k \in 1 .. MaxBytes : write_some(k)
      BY DEF WriterNext, writerVars, posixc_buffered_write, posixc_flush, write_error
    <2>2. rest = <<>> /\ buf = <<>> /\ given' = given /\ buf' = <<>> /\ file' \in Seq(Nat)
      BY <2>1 DEF write_some, WriterTypeOK
    <2>3. Pending' = <<>>
      BY <2>2, PendingShapeNext
    <2>4. file' \o Pending' = Bytes(0, given)
      BY <2>2 DEF NothingLost, Pending
    <2> QED
      BY <2>2, <2>3, <2>4, ConcatEmptySeq
  <1> QED
    BY <1>1, WriterTypeCorrect, NothingIsLost, PTL DEF WriterSpec, FlushIsComplete
=============================================================================
