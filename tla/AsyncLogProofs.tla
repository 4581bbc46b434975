--------------------------- MODULE AsyncLogProofs ---------------------------
(***************************************************************************)
(* Proofs about the asynchronous logger for any number of clients, any     *)
(* sizes and any number of restarts: the types with the sizes of datagram  *)
(* and buffer, the order of the lines, and what is never lost.             *)
(***************************************************************************)
EXTENDS AsyncLog, SequenceTheorems, TLAPS

-----------------------------------------------------------------------------
(* The lines in a sequence.                                                *)

LEMMA ElemsOfConcat ==
  ASSUME NEW S, NEW s \in Seq(S), NEW t \in Seq(S)
  PROVE  Elems(s \o t) = Elems(s) \union Elems(t)
  <1> s \o t \in Seq(S) /\ Len(s) \in Nat /\ Len(t) \in Nat
    OBVIOUS
  <1>1. ASSUME NEW x \in Elems(s \o t) PROVE x \in Elems(s) \union Elems(t)
    <2> PICK i \in 1 .. Len(s \o t) : x = (s \o t)[i]
      BY <1>1 DEF Elems
    <2>1. CASE i <= Len(s)
      BY <2>1 DEF Elems
    <2>2. CASE ~(i <= Len(s))
      <3>1. i - Len(s) \in 1 .. Len(t) /\ x = t[i - Len(s)]
        BY <2>2
      <3> QED
        BY <3>1 DEF Elems
    <2> QED
      BY <2>1, <2>2
  <1>2. ASSUME NEW x \in Elems(s) PROVE x \in Elems(s \o t)
    <2> PICK i \in 1 .. Len(s) : x = s[i]
      BY <1>2 DEF Elems
    <2>1. i \in 1 .. Len(s \o t) /\ x = (s \o t)[i]
      OBVIOUS
    <2> QED
      BY <2>1 DEF Elems
  <1>3. ASSUME NEW x \in Elems(t) PROVE x \in Elems(s \o t)
    <2> PICK i \in 1 .. Len(t) : x = t[i]
      BY <1>3 DEF Elems
    <2>1. Len(s) + i \in 1 .. Len(s \o t) /\ x = (s \o t)[Len(s) + i]
      OBVIOUS
    <2> QED
      BY <2>1 DEF Elems
  <1> QED
    BY <1>1, <1>2, <1>3

LEMMA ElemsOfOne ==
  ASSUME NEW S, NEW x \in S
  PROVE  Elems(<<x>>) = {x}
  <1>1. Len(<<x>>) = 1 /\ <<x>>[1] = x
    OBVIOUS
  <1> QED
    BY <1>1 DEF Elems

LEMMA ElemsOfAppend ==
  ASSUME NEW S, NEW s \in Seq(S), NEW x \in S
  PROVE  Elems(Append(s, x)) = Elems(s) \union {x}
  <1>1. Append(s, x) = s \o <<x>> /\ <<x>> \in Seq(S)
    BY AppendIsConcat
  <1>2. Elems(s \o <<x>>) = Elems(s) \union Elems(<<x>>)
    BY <1>1, ElemsOfConcat, ZenonT(30)
  <1> QED
    BY <1>1, <1>2, ElemsOfOne

LEMMA ElemsOfEmpty ==
  Elems(<<>>) = {}
  BY DEF Elems

LEMMA ElemsOfPrefix ==
  ASSUME NEW S, NEW s \in Seq(S), NEW k \in 0 .. Len(s)
  PROVE  /\ SubSeq(s, 1, k) \in Seq(S)
         /\ Elems(SubSeq(s, 1, k)) \subseteq Elems(s)
         /\ k = Len(s) => SubSeq(s, 1, k) = s
  <1>1. /\ SubSeq(s, 1, k) \in Seq(S) /\ Len(SubSeq(s, 1, k)) = k
        /\ \A i \in 1 .. k : SubSeq(s, 1, k)[i] = s[i]
    BY SubSeqProperties
  <1>2. 1 .. k \subseteq 1 .. Len(s)
    OBVIOUS
  <1>3. k = Len(s) => SubSeq(s, 1, k) = s
    BY <1>1, SeqEqual
  <1> QED
    BY <1>1, <1>2, <1>3 DEF Elems

LEMMA ElemsOfTail ==
  ASSUME NEW S, NEW s \in Seq(S), s # <<>>
  PROVE  /\ Head(s) \in S /\ Tail(s) \in Seq(S)
         /\ Elems(s) = {Head(s)} \union Elems(Tail(s))
  <1>1. /\ Len(s) \in Nat /\ Len(s) > 0 /\ Head(s) = s[1] /\ Head(s) \in S
        /\ Tail(s) \in Seq(S) /\ Len(Tail(s)) = Len(s) - 1
        /\ \A i \in 1 .. Len(s) - 1 : Tail(s)[i] = s[i + 1]
    BY HeadTailProperties
  <1>2. ASSUME NEW x \in Elems(s) PROVE x = Head(s) \/ x \in Elems(Tail(s))
    <2> PICK i \in 1 .. Len(s) : x = s[i]
      BY <1>2 DEF Elems
    <2>1. CASE i = 1
      BY <1>1, <2>1
    <2>2. CASE i # 1
      <3>1. i - 1 \in 1 .. Len(Tail(s)) /\ Tail(s)[i - 1] = x
        BY <1>1, <2>2
      <3> QED
        BY <3>1 DEF Elems
    <2> QED
      BY <2>1, <2>2
  <1>3. Head(s) \in Elems(s)
    BY <1>1 DEF Elems
  <1>4. ASSUME NEW x \in Elems(Tail(s)) PROVE x \in Elems(s)
    <2> PICK i \in 1 .. Len(Tail(s)) : x = Tail(s)[i]
      BY <1>4 DEF Elems
    <2>1. i + 1 \in 1 .. Len(s) /\ x = s[i + 1]
      BY <1>1
    <2> QED
      BY <2>1 DEF Elems
  <1> QED
    BY <1>1, <1>2, <1>3, <1>4

-----------------------------------------------------------------------------
(* The type invariant.                                                     *)

LEMMA Sizes ==
  /\ LOG_LEVEL_NONE \in Nat /\ lowest_log_level \in Nat /\ max_file_size \in Nat
  /\ header \in Nat /\ one_page \in Nat /\ header + 1 < one_page
  /\ buffered_writable_size \in Nat /\ one_page <= buffered_writable_size
  /\ sock_room \in Nat /\ MaxLogs \in Nat /\ MaxStarts \in Nat /\ MaxTime \in Nat
  /\ Len1 \subseteq Nat
  BY LogAssumption

LEMMA DgramSize ==
  ASSUME NEW len \in Nat
  PROVE  dgram_size(len) \in 1 .. one_page
  BY Sizes DEF dgram_size

\* write() leaves lines in the files, whatever it manages to write.
LEMMA PutType ==
  ASSUME LogTypeOK, NEW ls \in Seq(Line), NEW ok \in BOOLEAN, put(ls, ok)
  PROVE  file' \in [Time -> Seq(Line)] /\ failed' \in BOOLEAN
  <1> PICK k \in 0 .. Len(ls) : file' = [file EXCEPT ![opened] = @ \o SubSeq(ls, 1, k)]
    BY DEF put
  <1>1. SubSeq(ls, 1, k) \in Seq(Line)
    BY ElemsOfPrefix
  <1>2. file[opened] \o SubSeq(ls, 1, k) \in Seq(Line)
    BY <1>1 DEF LogTypeOK
  <1> QED
    BY <1>2 DEF LogTypeOK, put

LEMMA FlushType ==
  ASSUME LogTypeOK, posixc_flush
  PROVE  /\ pos' \in 0 .. buffered_writable_size /\ pending' \in Seq(Line)
         /\ file' \in [Time -> Seq(Line)] /\ failed' \in BOOLEAN
  BY PutType, Sizes DEF posixc_flush, LogTypeOK

LEMMA BufferedWriteType ==
  ASSUME LogTypeOK, NEW line \in Line, posixc_buffered_write(line)
  PROVE  /\ pos' \in 0 .. buffered_writable_size /\ pending' \in Seq(Line)
         /\ file' \in [Time -> Seq(Line)] /\ failed' \in BOOLEAN
  <1> USE Sizes DEF LogTypeOK
  <1> DEFINE over == pos + line.size - buffered_writable_size
  <1>1. line.size \in 1 .. one_page
    BY DEF Line
  <1>2. Append(pending, line) \in Seq(Line) /\ <<line>> \in Seq(Line)
    OBVIOUS
  <1>3. CASE over <= 0
    <2>1. /\ pending' = Append(pending, line) /\ pos' = pos + line.size
          /\ UNCHANGED <<file, failed>>
      BY <1>3 DEF posixc_buffered_write
    <2>2. pos' \in 0 .. buffered_writable_size
      <3>1. pos \in Nat
        OBVIOUS
      <3> HIDE DEF LogTypeOK
      <3> QED
        BY <1>1, <1>3, <2>1, <3>1
    <2> QED
      BY <1>2, <2>1, <2>2
  <1>4. CASE ~(over <= 0)
    <2> DEFINE through == over >= buffered_writable_size
               ls == IF through THEN Append(pending, line) ELSE pending
    <2> PICK ok \in BOOLEAN :
            /\ put(ls, ok)
            /\ pending' = IF ok /\ ~through THEN <<line>> ELSE <<>>
            /\ pos' = IF ok /\ ~through THEN over ELSE 0
      BY <1>4 DEF posixc_buffered_write
    <2>1. ls \in Seq(Line)
      BY <1>2
    <2>2. file' \in [Time -> Seq(Line)] /\ failed' \in BOOLEAN
      BY <2>1, PutType
    <2>3. pos' \in 0 .. buffered_writable_size
      <3>1. pos \in 0 .. buffered_writable_size /\ pos' = IF ok /\ ~through THEN over ELSE 0
        OBVIOUS
      <3> HIDE DEF LogTypeOK
      <3> QED
        BY <1>1, <1>4, <3>1
    <2> QED
      BY <1>2, <2>2, <2>3
  <1> QED
    BY <1>3, <1>4

\* One step keeps the types; on_dgram needs that it never runs while rolling.
LEMMA LogTypeNext ==
  ASSUME LogTypeOK, [Next]_vars
  PROVE  LogTypeOK'
  <1> USE Sizes DEF LogTypeOK, SvrEvents, Time
  <1>1. ASSUME NEW c \in Client, posixc_asynclogcli_init(c) PROVE LogTypeOK'
    BY <1>1 DEF posixc_asynclogcli_init, svrVars
  <1>2. ASSUME NEW c \in Client, NEW len \in Len1, NEW level \in 0 .. LOG_LEVEL_NONE,
               posixc_asynclogcli_log(c, len, level)
        PROVE  LogTypeOK'
    <2>1. [n |-> logs + 1, size |-> dgram_size(len)] \in Line
      BY <1>2, DgramSize DEF posixc_asynclogcli_log, Line
    <2> PICK line \in Line : \/ queue' = queue
                             \/ queue' = Append(queue, line) /\ Len(queue) < sock_room
      BY <1>2, <2>1 DEF posixc_asynclogcli_log, posixc_ipc_send_dgram
    <2>2. queue' \in Seq(Line) /\ Len(queue') <= sock_room
      <3>1. /\ queue \in Seq(Line) /\ Len(queue) \in Nat /\ Len(queue) <= sock_room
            /\ Append(queue, line) \in Seq(Line) /\ Len(Append(queue, line)) = Len(queue) + 1
        BY AppendProperties
      <3>2. CASE queue' = queue
        BY <3>1, <3>2
      <3>3. CASE queue' = Append(queue, line) /\ Len(queue) < sock_room
        BY <3>1, <3>3
      <3> QED
        BY <3>2, <3>3
    <2> QED
      BY <1>2, <2>2 DEF posixc_asynclogcli_log, svrVars
  <1>3. CASE posixc_asynclogsvr_init
    <2>1. todo' \in Seq(SvrEvents)
      BY <1>3 DEF posixc_asynclogsvr_init
    <2>2. file' \in [Time -> Seq(Line)]
      BY <1>3 DEF posixc_asynclogsvr_init, timestr_logfile
    <2> QED
      BY <1>3, <2>1, <2>2 DEF posixc_asynclogsvr_init, timestr_logfile
  <1>4. CASE init_submit
    <2>1. Head(todo) \in SvrEvents /\ Tail(todo) \in Seq(SvrEvents)
      BY <1>4, HeadTailProperties DEF init_submit
    <2> QED
      BY <1>4, <2>1 DEF init_submit, outVars
  <1>5. CASE on_dgram
    <2>1. Head(queue) \in Line /\ Tail(queue) \in Seq(Line) /\ Len(Tail(queue)) <= sock_room
      BY <1>5, HeadTailProperties DEF on_dgram
    <2>2. /\ pos' \in 0 .. buffered_writable_size /\ pending' \in Seq(Line)
          /\ file' \in [Time -> Seq(Line)] /\ failed' \in BOOLEAN
      BY <1>5, <2>1, BufferedWriteType DEF on_dgram
    <2>3. bytes_written' \in 0 .. max_file_size + one_page
      <3>1. Head(queue).size \in 1 .. one_page
        BY <2>1 DEF Line
      <3>2. /\ bytes_written <= max_file_size
            /\ bytes_written' = bytes_written + Head(queue).size
        BY <1>5 DEF on_dgram, may_run, rolling
      <3>3. bytes_written \in Nat
        OBVIOUS
      <3> HIDE DEF LogTypeOK
      <3> QED
        BY <3>1, <3>2, <3>3
    <2> QED
      BY <1>5, <2>1, <2>2, <2>3 DEF on_dgram
  <1>6. CASE on_dgram_roll
    <2>1. /\ pos' \in 0 .. buffered_writable_size /\ pending' \in Seq(Line)
          /\ file' \in [Time -> Seq(Line)] /\ failed' \in BOOLEAN
      BY <1>6, FlushType DEF on_dgram_roll, posixc_asynclogsvr_roll
    <2> QED
      BY <1>6, <2>1 DEF on_dgram_roll, posixc_asynclogsvr_roll, timestr_logfile
  <1>7. CASE on_clock
    <2>1. /\ pos' \in 0 .. buffered_writable_size /\ pending' \in Seq(Line)
          /\ file' \in [Time -> Seq(Line)] /\ failed' \in BOOLEAN
      BY <1>7, FlushType DEF on_clock, clock_flush
    <2> QED
      BY <1>7, <2>1 DEF on_clock
  <1>8. CASE on_sigint
    <2>1. /\ pos' \in 0 .. buffered_writable_size /\ pending' \in Seq(Line)
          /\ file' \in [Time -> Seq(Line)] /\ failed' \in BOOLEAN
      BY <1>8, FlushType DEF on_sigint, sigint_flush
    <2> QED
      BY <1>8, <2>1 DEF on_sigint
  <1>9. CASE posixc_asynclogsvr_destroy
    BY <1>9 DEF posixc_asynclogsvr_destroy
  <1>10. CASE posixc_asynclogsvr_flush
    <2>1. /\ pos' \in 0 .. buffered_writable_size /\ pending' \in Seq(Line)
          /\ file' \in [Time -> Seq(Line)] /\ failed' \in BOOLEAN
      BY <1>10, FlushType DEF posixc_asynclogsvr_flush
    <2> QED
      BY <1>10, <2>1 DEF posixc_asynclogsvr_flush
  <1>11. CASE raise("timer") \/ raise("sigint")
    BY <1>11 DEF raise, outVars
  <1>12. CASE tick
    BY <1>12 DEF tick, svrVars
  <1>13. CASE kill
    BY <1>13 DEF kill
  <1>14. CASE UNCHANGED vars
    BY <1>14 DEF vars, svrVars, outVars
  <1> QED
    BY <1>1, <1>2, <1>3, <1>4, <1>5, <1>6, <1>7, <1>8, <1>9, <1>10, <1>11, <1>12, <1>13,
       <1>14 DEF Next

\* Types and sizes for every number of clients and every size: no datagram of
\* posixc_asynclogcli_log is longer than the page on_dgram reads into, pos stays
\* inside buf, and bytes_written exceeds max_file_size by one datagram at most.
THEOREM LogTypeCorrect == Spec => []LogTypeOK
  <1>1. Init => LogTypeOK
    BY Sizes DEF Init, LogTypeOK, Time, SvrEvents
  <1> QED
    BY <1>1, LogTypeNext, PTL DEF Spec

-----------------------------------------------------------------------------
(* The order of the lines.  A step moves lines on from the socket to the   *)
(* buffer and from there to the file, or drops them on the way, so it is   *)
(* enough that each of the three is in order and no line is behind one of  *)
(* the part before it.                                                     *)

Sorted(s) == \A i, j \in 1 .. Len(s) : i < j => s[i].n < s[j].n
Below(s, t) == \A a \in Elems(s), b \in Elems(t) : a.n < b.n
InOrder(f, p, q, m) ==
  /\ Sorted(f) /\ Sorted(p) /\ Sorted(q)
  /\ Below(f, p) /\ Below(f, q) /\ Below(p, q)
  /\ \A x \in Elems(f) \union Elems(p) \union Elems(q) : x.n <= m

OrderInv == srv = "up" => InOrder(file[opened], pending, queue, logs)

LEMMA ElemOfIndex ==
  ASSUME NEW s, NEW i \in 1 .. Len(s)
  PROVE  s[i] \in Elems(s)
  BY DEF Elems

LEMMA ElemsTyped ==
  ASSUME NEW s \in Seq(Line)
  PROVE  Elems(s) \subseteq Line /\ \A x \in Elems(s) : x.n \in Nat
  <1>1. Elems(s) \subseteq Line
    BY DEF Elems
  <1> QED
    BY <1>1 DEF Line

LEMMA SortedConcat ==
  ASSUME NEW s \in Seq(Line), NEW t \in Seq(Line), Sorted(s), Sorted(t), Below(s, t)
  PROVE  Sorted(s \o t)
  <1> SUFFICES ASSUME NEW i \in 1 .. Len(s \o t), NEW j \in 1 .. Len(s \o t), i < j
               PROVE  (s \o t)[i].n < (s \o t)[j].n
    BY DEF Sorted
  <1> Len(s) \in Nat /\ Len(t) \in Nat /\ Len(s \o t) = Len(s) + Len(t)
    OBVIOUS
  <1>1. CASE j <= Len(s)
    <2>1. (s \o t)[i] = s[i] /\ (s \o t)[j] = s[j]
      BY <1>1
    <2> QED
      BY <1>1, <2>1 DEF Sorted
  <1>2. CASE i <= Len(s) /\ ~(j <= Len(s))
    <2>1. (s \o t)[i] = s[i] /\ (s \o t)[j] = t[j - Len(s)] /\ j - Len(s) \in 1 .. Len(t)
      BY <1>2
    <2>2. s[i] \in Elems(s) /\ t[j - Len(s)] \in Elems(t)
      BY <1>2, <2>1, ElemOfIndex
    <2> QED
      BY <2>1, <2>2 DEF Below
  <1>3. CASE ~(i <= Len(s))
    <2>1. /\ (s \o t)[i] = t[i - Len(s)] /\ (s \o t)[j] = t[j - Len(s)]
          /\ i - Len(s) \in 1 .. Len(t) /\ j - Len(s) \in 1 .. Len(t)
          /\ i - Len(s) < j - Len(s)
      BY <1>3
    <2> QED
      BY <2>1 DEF Sorted
  <1> QED
    BY <1>1, <1>2, <1>3

LEMMA SortedPrefix ==
  ASSUME NEW s \in Seq(Line), Sorted(s), NEW k \in 0 .. Len(s)
  PROVE  Sorted(SubSeq(s, 1, k))
  <1>1. Len(SubSeq(s, 1, k)) = k /\ \A i \in 1 .. k : SubSeq(s, 1, k)[i] = s[i]
    BY SubSeqProperties
  <1> QED
    BY <1>1 DEF Sorted

LEMMA SortedTail ==
  ASSUME NEW s \in Seq(Line), Sorted(s), s # <<>>
  PROVE  Sorted(Tail(s)) /\ Below(<<Head(s)>>, Tail(s)) /\ Sorted(<<Head(s)>>)
  <1>1. /\ Len(s) \in Nat /\ Len(s) > 0 /\ Head(s) = s[1] /\ Head(s) \in Line
        /\ Len(Tail(s)) = Len(s) - 1
        /\ \A i \in 1 .. Len(s) - 1 : Tail(s)[i] = s[i + 1]
    BY HeadTailProperties
  <1>2. Sorted(Tail(s))
    BY <1>1 DEF Sorted
  <1>3. ASSUME NEW b \in Elems(Tail(s)) PROVE Head(s).n < b.n
    <2> PICK i \in 1 .. Len(Tail(s)) : b = Tail(s)[i]
      BY <1>3 DEF Elems
    <2>1. b = s[i + 1] /\ i + 1 \in 1 .. Len(s) /\ 1 \in 1 .. Len(s) /\ 1 < i + 1
      BY <1>1
    <2> QED
      BY <1>1, <2>1 DEF Sorted
  <1>4. Below(<<Head(s)>>, Tail(s))
    BY <1>1, <1>3, ElemsOfOne DEF Below
  <1> QED
    BY <1>2, <1>4 DEF Sorted

\* The three things that happen to the lines of a server.
LEMMA OrderWritten ==
  ASSUME NEW f \in Seq(Line), NEW p \in Seq(Line), NEW q \in Seq(Line), NEW m,
         InOrder(f, p, q, m), NEW k \in 0 .. Len(p)
  PROVE  InOrder(f \o SubSeq(p, 1, k), <<>>, q, m)
  <1> DEFINE w == SubSeq(p, 1, k)
  <1>1. w \in Seq(Line) /\ Elems(w) \subseteq Elems(p) /\ Sorted(w)
    BY ElemsOfPrefix, SortedPrefix DEF InOrder
  <1>2. Elems(f \o w) = Elems(f) \union Elems(w)
    BY <1>1, ElemsOfConcat, ZenonT(30)
  <1>3. Below(f, w)
    BY <1>1 DEF InOrder, Below
  <1>4. Sorted(f \o w)
    BY <1>1, <1>3, SortedConcat DEF InOrder
  <1> HIDE DEF w
  <1>5. Sorted(<<>>) /\ Elems(<<>>) = {}
    BY ElemsOfEmpty DEF Sorted
  <1>6. InOrder(f \o w, <<>>, q, m)
    BY <1>1, <1>2, <1>4, <1>5 DEF InOrder, Below
  <1> QED
    BY <1>6 DEF w

LEMMA OrderBuffered ==
  ASSUME NEW f \in Seq(Line), NEW p \in Seq(Line), NEW q \in Seq(Line), NEW m,
         InOrder(f, p, q, m), q # <<>>
  PROVE  /\ InOrder(f, Append(p, Head(q)), Tail(q), m)
         /\ InOrder(f, p, Tail(q), m)
  <1>1. /\ Head(q) \in Line /\ Tail(q) \in Seq(Line)
        /\ Elems(q) = {Head(q)} \union Elems(Tail(q))
    BY ElemsOfTail
  <1>2. Sorted(Tail(q)) /\ Below(<<Head(q)>>, Tail(q)) /\ Sorted(<<Head(q)>>)
    BY SortedTail DEF InOrder
  <1>3. Elems(<<Head(q)>>) = {Head(q)} /\ <<Head(q)>> \in Seq(Line)
    BY <1>1, ElemsOfOne
  <1>4. Elems(Append(p, Head(q))) = Elems(p) \union {Head(q)}
    BY <1>1, ElemsOfAppend
  <1>5. Append(p, Head(q)) = p \o <<Head(q)>>
    BY <1>1, AppendIsConcat
  <1>6. Below(p, <<Head(q)>>)
    BY <1>1, <1>3 DEF InOrder, Below
  <1>7. Sorted(Append(p, Head(q)))
    BY <1>2, <1>3, <1>5, <1>6, SortedConcat DEF InOrder
  <1>8. /\ Below(f, Append(p, Head(q))) /\ Below(f, Tail(q)) /\ Below(p, Tail(q))
        /\ Below(Append(p, Head(q)), Tail(q))
    BY <1>1, <1>2, <1>3, <1>4 DEF InOrder, Below
  <1> QED
    BY <1>1, <1>2, <1>4, <1>7, <1>8 DEF InOrder

LEMMA OrderQueued ==
  ASSUME NEW f \in Seq(Line), NEW p \in Seq(Line), NEW q \in Seq(Line), NEW m \in Nat,
         InOrder(f, p, q, m)
  PROVE  /\ InOrder(f, p, q, m + 1)
         /\ \A x \in Line : x.n = m + 1 => InOrder(f, p, Append(q, x), m + 1)
  <1>1. \A x \in Elems(f) \union Elems(p) \union Elems(q) : x.n \in Nat /\ x.n <= m
    BY ElemsTyped DEF InOrder
  <1>2. InOrder(f, p, q, m + 1)
    BY <1>1 DEF InOrder
  <1>3. ASSUME NEW x \in Line, x.n = m + 1 PROVE InOrder(f, p, Append(q, x), m + 1)
    <2>1. /\ Elems(Append(q, x)) = Elems(q) \union {x} /\ Append(q, x) = q \o <<x>>
          /\ Elems(<<x>>) = {x} /\ <<x>> \in Seq(Line) /\ Sorted(<<x>>)
      BY ElemsOfAppend, ElemsOfOne, AppendIsConcat DEF Sorted
    <2>2. \A a \in Elems(f) \union Elems(p) \union Elems(q) : a.n < x.n
      BY <1>1, <1>3
    <2>3. Below(q, <<x>>)
      BY <2>1, <2>2 DEF Below
    <2>4. Sorted(Append(q, x))
      BY <2>1, <2>3, SortedConcat DEF InOrder
    <2>5. Below(f, Append(q, x)) /\ Below(p, Append(q, x))
      BY <2>1, <2>2 DEF InOrder, Below
    <2>6. \A a \in Elems(f) \union Elems(p) \union Elems(Append(q, x)) : a.n <= m + 1
      BY <1>1, <1>3, <2>1
    <2> QED
      BY <2>4, <2>5, <2>6 DEF InOrder
  <1> QED
    BY <1>2, <1>3

\* A flush, and a buffered write, as steps of the lines.
LEMMA FlushOrder ==
  ASSUME LogTypeOK, OrderInv, srv = "up", posixc_flush, opened' = opened
  PROVE  InOrder(file'[opened'], pending', queue, logs)
  <1> USE DEF LogTypeOK
  <1> PICK k \in 0 .. Len(pending) :
             file' = [file EXCEPT ![opened] = @ \o SubSeq(pending, 1, k)]
    BY DEF posixc_flush, put
  <1>1. file'[opened'] = file[opened] \o SubSeq(pending, 1, k) /\ pending' = <<>>
    BY DEF posixc_flush
  <1>2. InOrder(file[opened] \o SubSeq(pending, 1, k), <<>>, queue, logs)
    BY OrderWritten DEF OrderInv
  <1> QED
    BY <1>1, <1>2

LEMMA BufferedWriteOrder ==
  ASSUME LogTypeOK, OrderInv, srv = "up", queue # <<>>,
         posixc_buffered_write(Head(queue)), opened' = opened
  PROVE  InOrder(file'[opened'], pending', Tail(queue), logs)
  <1> USE DEF LogTypeOK
  <1> DEFINE line == Head(queue)
             over == pos + line.size - buffered_writable_size
             through == over >= buffered_writable_size
             f == file[opened]
             more == Append(pending, line)
  <1>1. /\ line \in Line /\ Tail(queue) \in Seq(Line) /\ f \in Seq(Line)
        /\ more \in Seq(Line) /\ <<line>> = Append(<<>>, line)
    BY ElemsOfTail
  <1>2. InOrder(f, more, Tail(queue), logs)
    BY OrderBuffered DEF OrderInv
  <1>3. CASE over <= 0
    <2>1. pending' = more /\ file' = file
      BY <1>3 DEF posixc_buffered_write
    <2> QED
      BY <1>2, <2>1
  <1>4. CASE ~(over <= 0)
    <2> PICK ok \in BOOLEAN :
            /\ put(IF through THEN more ELSE pending, ok)
            /\ pending' = IF ok /\ ~through THEN <<line>> ELSE <<>>
      BY <1>4 DEF posixc_buffered_write
    <2> HIDE DEF over, through
    <2>1. CASE through
      <3> PICK k \in 0 .. Len(more) : file' = [file EXCEPT ![opened] = @ \o SubSeq(more, 1, k)]
        BY <2>1 DEF put
      <3>1. file'[opened'] = f \o SubSeq(more, 1, k) /\ pending' = <<>>
        BY <2>1
      <3>2. InOrder(f \o SubSeq(more, 1, k), <<>>, Tail(queue), logs)
        BY <1>1, <1>2, OrderWritten
      <3> QED
        BY <3>1, <3>2
    <2>2. CASE ~through
      <3> PICK k \in 0 .. Len(pending) :
                 file' = [file EXCEPT ![opened] = @ \o SubSeq(pending, 1, k)]
        BY <2>2 DEF put
      <3> DEFINE g == f \o SubSeq(pending, 1, k)
      <3>1. file'[opened'] = g /\ g \in Seq(Line)
        BY <1>1, ElemsOfPrefix
      <3>2. InOrder(g, <<>>, queue, logs)
        BY <1>1, OrderWritten DEF OrderInv
      <3> HIDE DEF g
      <3>3. /\ InOrder(g, <<line>>, Tail(queue), logs)
            /\ InOrder(g, <<>>, Tail(queue), logs)
        <4>1. <<>> \in Seq(Line) /\ queue \in Seq(Line)
          OBVIOUS
        <4>2. InOrder(g, Append(<<>>, Head(queue)), Tail(queue), logs)
          BY <3>1, <3>2, <4>1, OrderBuffered
        <4>3. InOrder(g, <<>>, Tail(queue), logs)
          BY <3>1, <3>2, <4>1, OrderBuffered
        <4> QED
          BY <1>1, <4>2, <4>3
      <3> QED
        BY <2>2, <3>1, <3>3
    <2> QED
      BY <2>1, <2>2
  <1> QED
    BY <1>3, <1>4

LEMMA OrderNext ==
  ASSUME LogTypeOK, OrderInv, [Next]_vars
  PROVE  OrderInv'
  <1>1. ASSUME NEW c \in Client, NEW len \in Len1, NEW level \in 0 .. LOG_LEVEL_NONE,
               posixc_asynclogcli_log(c, len, level), srv = "up"
        PROVE  InOrder(file[opened], pending, queue', logs')
    <2> DEFINE x == [n |-> logs + 1, size |-> dgram_size(len)]
    <2>1. x \in Line /\ x.n = logs + 1
      BY <1>1, Sizes, DgramSize DEF posixc_asynclogcli_log, Line, LogTypeOK
    <2>2. logs' = logs + 1 /\ (queue' = queue \/ queue' = Append(queue, x))
      BY <1>1 DEF posixc_asynclogcli_log, posixc_ipc_send_dgram
    <2>3. InOrder(file[opened], pending, queue, logs)
      BY <1>1 DEF OrderInv
    <2>4. /\ logs \in Nat /\ file[opened] \in Seq(Line) /\ pending \in Seq(Line)
          /\ queue \in Seq(Line)
      BY DEF LogTypeOK
    <2> HIDE DEF x
    <2>5. /\ InOrder(file[opened], pending, queue, logs + 1)
          /\ InOrder(file[opened], pending, Append(queue, x), logs + 1)
      BY <2>1, <2>3, <2>4, OrderQueued
    <2> QED
      BY <2>2, <2>5
  <1>2. ASSUME posixc_asynclogsvr_init PROVE OrderInv'
    <2>1. file'[opened'] = <<>> /\ pending' = <<>> /\ queue' = <<>>
      BY <1>2 DEF posixc_asynclogsvr_init, timestr_logfile, LogTypeOK
    <2>2. InOrder(<<>>, <<>>, <<>>, logs')
      BY ElemsOfEmpty DEF InOrder, Sorted, Below
    <2> QED
      BY <2>1, <2>2 DEF OrderInv
  <1>3. ASSUME on_dgram PROVE OrderInv'
    BY <1>3, BufferedWriteOrder DEF on_dgram, may_run, OrderInv
  <1>4. ASSUME on_dgram_roll PROVE OrderInv'
    BY <1>4, FlushOrder DEF on_dgram_roll, posixc_asynclogsvr_roll, OrderInv
  <1>5. ASSUME on_clock PROVE OrderInv'
    BY <1>5, FlushOrder DEF on_clock, clock_flush, may_run, OrderInv
  <1>6. CASE srv' # "up"
    BY <1>6 DEF OrderInv
  <1>7. CASE srv' = srv /\ UNCHANGED <<file, opened, pending, queue, logs>>
    BY <1>7 DEF OrderInv
  <1>8. ASSUME NEW c \in Client, NEW len \in Len1, NEW level \in 0 .. LOG_LEVEL_NONE,
               posixc_asynclogcli_log(c, len, level)
        PROVE  OrderInv'
    <2>1. UNCHANGED <<srv, file, opened, pending>>
      BY <1>8 DEF posixc_asynclogcli_log, svrVars
    <2> QED
      BY <1>1, <1>8, <2>1 DEF OrderInv
  <1> QED
    BY <1>2, <1>3, <1>4, <1>5, <1>6, <1>7, <1>8 DEF Next, vars, svrVars, outVars,
       posixc_asynclogcli_init, init_submit, on_sigint, posixc_asynclogsvr_destroy,
       posixc_asynclogsvr_flush, raise, tick, kill

\* Whatever the clients send and wherever write() fails, what a running server has
\* in its file, its buffer and its socket is in the order of the calls of
\* posixc_asynclogcli_log, and no line is there twice.
THEOREM LinesInOrder == Spec => []LoggedInOrder
  <1>1. Init => OrderInv
    BY DEF Init, OrderInv
  <1>2. LogTypeOK /\ OrderInv /\ [Next]_vars => OrderInv'
    BY OrderNext
  <1>3. ASSUME LogTypeOK, OrderInv PROVE LoggedInOrder
    <2> SUFFICES ASSUME srv = "up" PROVE Sorted(file[opened] \o pending \o queue)
      BY DEF LoggedInOrder, Sorted
    <2>1. /\ file[opened] \in Seq(Line) /\ pending \in Seq(Line) /\ queue \in Seq(Line)
          /\ file[opened] \o pending \in Seq(Line)
      BY <1>3 DEF LogTypeOK
    <2>2. Sorted(file[opened] \o pending)
      BY <1>3, <2>1, SortedConcat DEF OrderInv, InOrder
    <2>3. Below(file[opened] \o pending, queue)
      BY <1>3, <2>1, ElemsOfConcat DEF OrderInv, InOrder, Below
    <2> QED
      BY <1>3, <2>1, <2>2, <2>3, SortedConcat DEF OrderInv, InOrder
  <1> QED
    BY <1>1, <1>2, <1>3, LogTypeCorrect, PTL DEF Spec

-----------------------------------------------------------------------------
(* What is never lost.                                                     *)

\* What write() puts into the file: the lines that were there stay in front, and
\* all of the new ones follow unless it fails.
LEMMA PutKeeps ==
  ASSUME LogTypeOK, NEW ls \in Seq(Line), NEW ok \in BOOLEAN, put(ls, ok)
  PROVE  /\ \A t \in Time :
              /\ Len(file[t]) <= Len(file'[t])
              /\ SubSeq(file'[t], 1, Len(file[t])) = file[t]
              /\ Elems(file[t]) \subseteq Elems(file'[t])
         /\ ~failed' => Elems(ls) \subseteq Elems(file'[opened])
  <1> USE DEF LogTypeOK
  <1> PICK k \in 0 .. Len(ls) :
         (ok => k = Len(ls)) /\ file' = [file EXCEPT ![opened] = @ \o SubSeq(ls, 1, k)]
    BY DEF put
  <1> DEFINE w == SubSeq(ls, 1, k)
  <1>1. w \in Seq(Line) /\ (k = Len(ls) => w = ls)
    BY ElemsOfPrefix
  <1> HIDE DEF w
  <1>2. /\ file'[opened] = file[opened] \o w
        /\ \A t \in Time \ {opened} : file'[t] = file[t]
    BY DEF w
  <1>3. Elems(file'[opened]) = Elems(file[opened]) \union Elems(w)
    <2>1. file[opened] \in Seq(Line)
      OBVIOUS
    <2>2. Elems(file[opened] \o w) = Elems(file[opened]) \union Elems(w)
      BY <1>1, <2>1, ElemsOfConcat
    <2> QED
      BY <1>2, <2>2
  <1>4. ~failed' => Elems(ls) \subseteq Elems(file'[opened])
    BY <1>1, <1>3 DEF put
  <1>5. ASSUME NEW t \in Time
        PROVE  /\ Len(file[t]) <= Len(file'[t])
               /\ SubSeq(file'[t], 1, Len(file[t])) = file[t]
               /\ Elems(file[t]) \subseteq Elems(file'[t])
    <2>1. CASE t = opened
      <3>1. file[t] \in Seq(Line) /\ file'[t] = file[t] \o w
        BY <1>2, <2>1
      <3>2. Len(file[t]) <= Len(file'[t]) /\ SubSeq(file'[t], 1, Len(file[t])) = file[t]
        BY <1>1, <3>1, SubSeqOfConcat1, SubSeqFull
      <3> QED
        BY <1>3, <2>1, <3>2
    <2>2. CASE t # opened
      <3>1. file[t] \in Seq(Line) /\ file'[t] = file[t]
        BY <1>2, <2>2
      <3>2. SubSeq(file[t], 1, Len(file[t])) = file[t] /\ Len(file[t]) \in Nat
        BY <3>1, SubSeqFull
      <3>3. Len(file[t]) <= Len(file[t])
        BY <3>2
      <3> QED
        BY <3>1, <3>2, <3>3, Zenon
    <2> QED
      BY <2>1, <2>2
  <1> QED
    BY <1>4, <1>5

\* posixc_flush, and posixc_buffered_write of a line from the socket.
LEMMA FlushKeeps ==
  ASSUME LogTypeOK, posixc_flush
  PROVE  /\ \A t \in Time :
              /\ Len(file[t]) <= Len(file'[t])
              /\ SubSeq(file'[t], 1, Len(file[t])) = file[t]
              /\ Elems(file[t]) \subseteq Elems(file'[t])
         /\ ~failed' => Elems(pending) \subseteq Elems(file'[opened])
  <1>1. PICK ok \in BOOLEAN : put(pending, ok)
    BY DEF posixc_flush
  <1>2. pending \in Seq(Line)
    BY DEF LogTypeOK
  <1> QED
    BY <1>1, <1>2, PutKeeps

LEMMA BufferedWriteKeeps ==
  ASSUME LogTypeOK, NEW line \in Line, posixc_buffered_write(line)
  PROVE  /\ \A t \in Time :
              /\ Len(file[t]) <= Len(file'[t])
              /\ SubSeq(file'[t], 1, Len(file[t])) = file[t]
              /\ Elems(file[t]) \subseteq Elems(file'[t])
         /\ ~failed' => Elems(pending) \union {line}
                         \subseteq Elems(pending') \union Elems(file'[opened])
  <1> DEFINE over == pos + line.size - buffered_writable_size
             through == over >= buffered_writable_size
             more == Append(pending, line)
  <1>1. /\ pending \in Seq(Line) /\ more \in Seq(Line)
        /\ Elems(more) = Elems(pending) \union {line} /\ Elems(<<line>>) = {line}
    BY ElemsOfAppend, ElemsOfOne DEF LogTypeOK
  <1>2. CASE over <= 0
    <2>1. pending' = more /\ file' = file
      BY <1>2 DEF posixc_buffered_write
    <2>2. \A t \in Time : SubSeq(file[t], 1, Len(file[t])) = file[t] /\ Len(file[t]) \in Nat
      BY SubSeqFull DEF LogTypeOK
    <2>3. \A t \in Time : Len(file[t]) <= Len(file[t])
      BY <2>2
    <2> QED
      BY <1>1, <2>1, <2>2, <2>3, Zenon
  <1>3. CASE ~(over <= 0)
    <2> PICK ok \in BOOLEAN :
            /\ put(IF through THEN more ELSE pending, ok)
            /\ pending' = IF ok /\ ~through THEN <<line>> ELSE <<>>
      BY <1>3 DEF posixc_buffered_write
    <2> HIDE DEF over, through, more
    <2>1. CASE through
      <3>1. put(more, ok)
        BY <2>1
      <3> QED
        BY <1>1, <3>1, PutKeeps
    <2>2. CASE ~through
      <3>1. put(pending, ok)
        BY <2>2
      <3>2. ~failed' => pending' = <<line>>
        BY <2>2, <3>1 DEF put
      <3> QED
        BY <1>1, <3>1, <3>2, PutKeeps
    <2> QED
      BY <2>1, <2>2
  <1> QED
    BY <1>2, <1>3

\* As long as the server runs and no write() has failed, every line the socket has
\* taken is in the socket, in the buffer or in a file: neither on_dgram nor a roll
\* nor a flush loses one, in whatever order they run.
THEOREM NoLineLost == Spec => NothingLostWhileUp
  <1>1. ASSUME LogTypeOK, [Next]_vars, srv = "up", srv' = "up", ~failed'
        PROVE  Held \subseteq Held'
    <2> DEFINE Kept ==
          /\ \A t \in Time : Elems(file[t]) \subseteq Elems(file'[t])
          /\ Elems(queue) \union Elems(pending) \subseteq
                Elems(queue') \union Elems(pending') \union Elems(file'[opened])
    <2>1. SUFFICES Kept
      BY <1>1 DEF Held, LogTypeOK
    <2>2. ASSUME NEW c \in Client, NEW len \in Len1, NEW level \in 0 .. LOG_LEVEL_NONE,
                 posixc_asynclogcli_log(c, len, level)
          PROVE  Kept
      <3>1. [n |-> logs + 1, size |-> dgram_size(len)] \in Line
        BY <1>1, <2>2, Sizes, DgramSize DEF posixc_asynclogcli_log, Line, LogTypeOK
      <3>2. PICK x \in Line : queue' = queue \/ queue' = Append(queue, x)
        BY <2>2, <3>1 DEF posixc_asynclogcli_log, posixc_ipc_send_dgram
      <3>3. Elems(Append(queue, x)) = Elems(queue) \union {x}
        BY <1>1, ElemsOfAppend DEF LogTypeOK
      <3>4. file' = file /\ pending' = pending
        BY <2>2 DEF posixc_asynclogcli_log, svrVars
      <3> QED
        BY <3>2, <3>3, <3>4, Zenon
    <2>3. CASE on_dgram
      <3>1. /\ Head(queue) \in Line /\ queue' = Tail(queue)
            /\ Elems(queue) = {Head(queue)} \union Elems(queue')
        BY <1>1, <2>3, ElemsOfTail DEF on_dgram, LogTypeOK
      <3>2. posixc_buffered_write(Head(queue))
        BY <2>3 DEF on_dgram
      <3>3. /\ \A t \in Time : Elems(file[t]) \subseteq Elems(file'[t])
            /\ Elems(pending) \union {Head(queue)}
                 \subseteq Elems(pending') \union Elems(file'[opened])
        BY <1>1, <3>1, <3>2, BufferedWriteKeeps
      <3> QED
        BY <3>1, <3>3, Zenon
    <2>4. CASE posixc_flush /\ queue' = queue
      <3>1. /\ \A t \in Time : Elems(file[t]) \subseteq Elems(file'[t])
            /\ Elems(pending) \subseteq Elems(file'[opened])
        BY <1>1, <2>4, FlushKeeps
      <3> QED
        BY <2>4, <3>1, Zenon
    <2>5. CASE file' = file /\ pending' = pending /\ queue' = queue
      BY <2>5, Zenon
    <2> HIDE DEF Kept
    <2> QED
      BY <1>1, <2>2, <2>3, <2>4, <2>5 DEF Next, vars, svrVars, outVars,
         posixc_asynclogcli_init, posixc_asynclogsvr_init, init_submit, on_dgram_roll,
         posixc_asynclogsvr_roll, on_clock, clock_flush, on_sigint,
         posixc_asynclogsvr_destroy, posixc_asynclogsvr_flush, raise, tick, kill
  <1>2. LogTypeOK /\ [Next]_vars =>
          [srv = "up" /\ srv' = "up" /\ ~failed' => Held \subseteq Held']_vars
    BY <1>1
  <1> QED
    BY <1>2, LogTypeCorrect, PTL DEF Spec, NothingLostWhileUp

\* When on_sigint ends the process, the lines in the buffer are in the file, unless
\* write() failed: "tries to exit gracefully".
THEOREM GracefulExit == Spec => ExitsGracefully
  <1>1. ASSUME LogTypeOK, [Next]_vars, srv = "up", srv' = "exited", ~failed'
        PROVE  Elems(pending) \subseteq Elems(file'[opened])
    <2>1. on_sigint
      BY <1>1 DEF Next, vars, svrVars, outVars, posixc_asynclogcli_init,
         posixc_asynclogcli_log, posixc_asynclogsvr_init, init_submit, on_dgram,
         on_dgram_roll, on_clock, posixc_asynclogsvr_destroy, posixc_asynclogsvr_flush,
         raise, tick, kill
    <2> QED
      BY <1>1, <2>1, FlushKeeps DEF on_sigint, sigint_flush
  <1>2. LogTypeOK /\ [Next]_vars =>
          [srv = "up" /\ srv' = "exited" /\ ~failed'
             => Elems(pending) \subseteq Elems(file'[opened])]_vars
    BY <1>1
  <1> QED
    BY <1>2, LogTypeCorrect, PTL DEF Spec, ExitsGracefully

\* No step takes a line out of a log file, except the start of a server within the
\* second in which the file was opened before (O_TRUNC).
THEOREM FilesKept == Spec => FilesOnlyGrow
  <1> DEFINE Grows(t) ==
        Len(file[t]) <= Len(file'[t]) /\ SubSeq(file'[t], 1, Len(file[t])) = file[t]
  <1>1. ASSUME LogTypeOK, [Next]_vars, NEW t \in Time
        PROVE  Grows(t) \/ (starts' # starts /\ t = now)
    <2>1. CASE file' = file
      <3>1. SubSeq(file[t], 1, Len(file[t])) = file[t] /\ Len(file[t]) \in Nat
        BY <1>1, SubSeqFull DEF LogTypeOK
      <3>2. Len(file[t]) <= Len(file[t])
        BY <3>1
      <3> QED
        BY <2>1, <3>1, <3>2, Zenon
    <2>2. CASE posixc_flush
      BY <1>1, <2>2, FlushKeeps
    <2>3. CASE on_dgram
      <3>1. Head(queue) \in Line /\ posixc_buffered_write(Head(queue))
        BY <1>1, <2>3, ElemsOfTail DEF on_dgram, LogTypeOK
      <3> QED
        BY <1>1, <3>1, BufferedWriteKeeps
    <2>4. CASE posixc_asynclogsvr_init
      <3>1. starts' # starts
        BY <1>1, <2>4 DEF posixc_asynclogsvr_init, LogTypeOK
      <3>2. t # now => file'[t] = file[t]
        BY <1>1, <2>4 DEF posixc_asynclogsvr_init, timestr_logfile, LogTypeOK
      <3>3. SubSeq(file[t], 1, Len(file[t])) = file[t] /\ Len(file[t]) \in Nat
        BY <1>1, SubSeqFull DEF LogTypeOK
      <3>4. Len(file[t]) <= Len(file[t])
        BY <3>3
      <3> QED
        BY <3>1, <3>2, <3>3, <3>4, Zenon
    <2> QED
      BY <1>1, <2>1, <2>2, <2>3, <2>4 DEF Next, vars, svrVars, outVars,
         posixc_asynclogcli_init, posixc_asynclogcli_log, init_submit, on_dgram_roll,
         posixc_asynclogsvr_roll, on_clock, clock_flush, on_sigint, sigint_flush,
         posixc_asynclogsvr_destroy, posixc_asynclogsvr_flush, raise, tick, kill
  <1>2. LogTypeOK /\ [Next]_vars =>
          [\A t \in Time :
             \/ Len(file[t]) <= Len(file'[t]) /\ SubSeq(file'[t], 1, Len(file[t])) = file[t]
             \/ starts' # starts /\ t = now]_vars
    BY <1>1
  <1> QED
    BY <1>2, LogTypeCorrect, PTL DEF Spec, FilesOnlyGrow
=============================================================================
