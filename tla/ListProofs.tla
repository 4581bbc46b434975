----------------------------- MODULE ListProofs -----------------------------
(***************************************************************************)
(* Proofs about list.h for any number of heads and entries: the pointers   *)
(* are those of the lists the calls describe, and the safe loop meets      *)
(* every entry once.                                                       *)
(***************************************************************************)
EXTENDS List, SequenceTheorems, TLAPS

-----------------------------------------------------------------------------
(* Sequences, by their indices.                                            *)

Distinct(s) == \A i, j \in 1 .. Len(s) : s[i] = s[j] => i = j

\* t is s with e behind the k-th place; t is s without the k-th place.
IsIns(t, s, k, e) ==
  /\ t \in Seq(Entry) /\ Len(t) = Len(s) + 1
  /\ \A i \in 1 .. Len(t) :
       t[i] = IF i <= k THEN s[i] ELSE IF i = k + 1 THEN e ELSE s[i - 1]
IsDel(t, s, k) ==
  /\ t \in Seq(Entry) /\ Len(t) = Len(s) - 1
  /\ \A i \in 1 .. Len(t) : t[i] = IF i < k THEN s[i] ELSE s[i + 1]

LEMMA AddFront ==
  ASSUME NEW s \in Seq(Entry), NEW e \in Entry
  PROVE  IsIns(<<e>> \o s, s, 0, e)
  <1>1. <<e>> \in Seq(Entry) /\ Len(<<e>>) = 1 /\ <<e>>[1] = e /\ Len(s) \in Nat
    OBVIOUS
  <1>2. /\ <<e>> \o s \in Seq(Entry) /\ Len(<<e>> \o s) = Len(<<e>>) + Len(s)
        /\ \A i \in 1 .. Len(<<e>>) + Len(s) :
             (<<e>> \o s)[i] = IF i <= Len(<<e>>) THEN <<e>>[i] ELSE s[i - Len(<<e>>)]
    BY <1>1, ConcatProperties
  <1> QED
    BY <1>1, <1>2 DEF IsIns

LEMMA AddBack ==
  ASSUME NEW s \in Seq(Entry), NEW e \in Entry
  PROVE  IsIns(s \o <<e>>, s, Len(s), e)
  <1>1. <<e>> \in Seq(Entry) /\ Len(<<e>>) = 1 /\ <<e>>[1] = e /\ Len(s) \in Nat
    OBVIOUS
  <1>2. /\ s \o <<e>> \in Seq(Entry) /\ Len(s \o <<e>>) = Len(s) + Len(<<e>>)
        /\ \A i \in 1 .. Len(s) + Len(<<e>>) :
             (s \o <<e>>)[i] = IF i <= Len(s) THEN s[i] ELSE <<e>>[i - Len(s)]
    BY <1>1, ConcatProperties
  <1> QED
    BY <1>1, <1>2 DEF IsIns

LEMMA TakeOut ==
  ASSUME NEW s \in Seq(Entry), NEW k \in 1 .. Len(s), Distinct(s)
  PROVE  IsDel(Without(s, s[k]), s, k)
  <1>1. Len(s) \in Nat /\ s[k] \in Elems(s)
    BY DEF Elems
  <1>2. (CHOOSE i \in 1 .. Len(s) : s[i] = s[k]) = k
    BY DEF Distinct
  <1>3. PICK a : a = SubSeq(s, 1, k - 1)
    OBVIOUS
  <1>4. PICK b : b = SubSeq(s, k + 1, Len(s))
    OBVIOUS
  <1>5. a \in Seq(Entry) /\ Len(a) = k - 1 /\ \A i \in 1 .. k - 1 : a[i] = s[i]
    BY <1>1, <1>3, SubSeqProperties
  <1>6. b \in Seq(Entry) /\ Len(b) = Len(s) - k /\ \A i \in 1 .. Len(s) - k : b[i] = s[k + i]
    BY <1>1, <1>4, SubSeqProperties
  <1>7. Without(s, s[k]) = a \o b
    BY <1>1, <1>2, <1>3, <1>4 DEF Without
  <1>8. /\ a \o b \in Seq(Entry) /\ Len(a \o b) = Len(a) + Len(b)
        /\ \A i \in 1 .. Len(a) + Len(b) :
             (a \o b)[i] = IF i <= Len(a) THEN a[i] ELSE b[i - Len(a)]
    BY <1>5, <1>6, ConcatProperties
  <1>9. ASSUME NEW i \in 1 .. Len(a \o b)
        PROVE  (a \o b)[i] = IF i < k THEN s[i] ELSE s[i + 1]
    <2>1. i \in 1 .. Len(a) + Len(b) /\ Len(a) + Len(b) = Len(s) - 1
      BY <1>1, <1>5, <1>6, <1>8
    <2>2. CASE i < k
      BY <1>5, <1>8, <2>1, <2>2
    <2>3. CASE i >= k
      <3>1. i - Len(a) \in 1 .. Len(s) - k /\ k + (i - Len(a)) = i + 1 /\ ~(i <= Len(a))
        BY <1>1, <1>5, <1>6, <2>1, <2>3
      <3>2. PICK j \in 1 .. Len(s) - k : j = i - Len(a) /\ k + j = i + 1
        BY <3>1
      <3>3. (a \o b)[i] = b[j] /\ b[j] = s[k + j]
        BY <1>6, <1>8, <2>1, <3>1, <3>2
      <3> QED
        BY <1>1, <2>1, <2>3, <3>2, <3>3
    <2> QED
      BY <2>1, <2>2, <2>3
  <1> QED
    BY <1>1, <1>5, <1>6, <1>7, <1>8, <1>9 DEF IsDel

LEMMA NotIn ==
  ASSUME NEW s, NEW e, e \notin Elems(s)
  PROVE  Without(s, e) = s
  BY DEF Without

-----------------------------------------------------------------------------
(* Rings.  Nd(h, s, i) is the i-th node of the ring of head h with the     *)
(* entries s: h itself is the first, and the one behind the last.          *)

Nd(h, s, i) == IF i \in 1 .. Len(s) THEN s[i] ELSE h

Rep(m, h, s) ==
  \A i \in 0 .. Len(s) :
    m.next[Nd(h, s, i)] = Nd(h, s, i + 1) /\ m.prev[Nd(h, s, i + 1)] = Nd(h, s, i)

Mem == [next : [Node -> Node \union {NULL}], prev : [Node -> Node \union {NULL}]]

LEMMA NdFacts ==
  ASSUME NEW h \in ListHead, NEW s \in Seq(Entry), Distinct(s)
  PROVE  /\ Len(s) \in Nat
         /\ \A i \in Int : Nd(h, s, i) \in Node
         /\ \A i \in 1 .. Len(s) : Nd(h, s, i) = s[i] /\ s[i] \in Entry /\ s[i] # h
         /\ Nd(h, s, 0) = h /\ Nd(h, s, Len(s) + 1) = h
         /\ \A i, j \in 0 .. Len(s) : Nd(h, s, i) = Nd(h, s, j) => i = j
         /\ \A i, j \in 1 .. Len(s) + 1 : Nd(h, s, i) = Nd(h, s, j) => i = j
  <1>1. Len(s) \in Nat /\ \A i \in 1 .. Len(s) : s[i] \in Entry
    OBVIOUS
  <1>2. h \notin Entry
    BY ListAssumption
  <1> QED
    BY <1>1, <1>2 DEF Nd, Node, Distinct

\* The functions give memories, and change no pointers but those they name.
LEMMA Linked ==
  ASSUME NEW m \in Mem, NEW a \in Node, NEW b \in Node, NEW c \in Node
  PROVE  /\ link(m, a, b, c) \in Mem
         /\ \A x \in Node :
              /\ link(m, a, b, c).next[x] = IF x = b THEN a ELSE IF x = a THEN c ELSE m.next[x]
              /\ link(m, a, b, c).prev[x] = IF x = a THEN b ELSE IF x = c THEN a ELSE m.prev[x]
  BY DEF link, Mem

LEMMA Unlinked ==
  ASSUME NEW m \in Mem, NEW b \in Node, NEW c \in Node
  PROVE  /\ unlink(m, b, c) \in Mem
         /\ \A x \in Node :
              /\ unlink(m, b, c).next[x] = IF x = b THEN c ELSE m.next[x]
              /\ unlink(m, b, c).prev[x] = IF x = c THEN b ELSE m.prev[x]
  BY DEF unlink, Mem

LEMMA Initialised ==
  ASSUME NEW m \in Mem, NEW a \in Node
  PROVE  /\ INIT_LIST_HEAD(m, a) \in Mem
         /\ \A x \in Node :
              /\ INIT_LIST_HEAD(m, a).next[x] = IF x = a THEN a ELSE m.next[x]
              /\ INIT_LIST_HEAD(m, a).prev[x] = IF x = a THEN a ELSE m.prev[x]
  BY DEF INIT_LIST_HEAD, Mem

\* A ring whose nodes keep their pointers stays a ring.
LEMMA RepFrame ==
  ASSUME NEW m, NEW r, NEW h \in ListHead, NEW s \in Seq(Entry), Rep(m, h, s),
         r.next[h] = m.next[h], r.prev[h] = m.prev[h],
         \A i \in 1 .. Len(s) : r.next[s[i]] = m.next[s[i]] /\ r.prev[s[i]] = m.prev[s[i]]
  PROVE  Rep(r, h, s)
  <1>1. ASSUME NEW i \in 0 .. Len(s) + 1
        PROVE  r.next[Nd(h, s, i)] = m.next[Nd(h, s, i)] /\ r.prev[Nd(h, s, i)] = m.prev[Nd(h, s, i)]
    BY DEF Nd
  <1>2. ASSUME NEW i \in 0 .. Len(s)
        PROVE  /\ r.next[Nd(h, s, i)] = Nd(h, s, i + 1)
               /\ r.prev[Nd(h, s, i + 1)] = Nd(h, s, i)
    <2>1. i \in 0 .. Len(s) + 1 /\ i + 1 \in 0 .. Len(s) + 1
      OBVIOUS
    <2> QED
      BY <1>1, <2>1 DEF Rep
  <1> QED
    BY <1>2 DEF Rep

LEMMA RepInsert ==
  ASSUME NEW m \in Mem, NEW h \in ListHead, NEW s \in Seq(Entry), Distinct(s), Rep(m, h, s),
         NEW e \in Entry, e \notin Elems(s), NEW k \in 0 .. Len(s), NEW t, IsIns(t, s, k, e)
  PROVE  Rep(link(m, e, Nd(h, s, k), Nd(h, s, k + 1)), h, t)
  <1>1. PICK b \in Node : b = Nd(h, s, k)
    BY NdFacts
  <1>2. PICK c \in Node : c = Nd(h, s, k + 1)
    BY NdFacts
  <1>3. PICK r : r = link(m, e, b, c)
    OBVIOUS
  <1>4. e \in Node /\ e # h /\ Len(s) \in Nat /\ \A i \in 0 .. Len(s) + 1 : Nd(h, s, i) # e
    <2>1. e \in Node /\ e # h /\ Len(s) \in Nat
      BY ListAssumption DEF Node
    <2> QED
      BY <2>1 DEF Nd, Elems
  <1>5. \A x \in Node :
          /\ r.next[x] = IF x = b THEN e ELSE IF x = e THEN c ELSE m.next[x]
          /\ r.prev[x] = IF x = e THEN b ELSE IF x = c THEN e ELSE m.prev[x]
    <2>1. e \in Node
      BY <1>4
    <2> QED
      BY <1>3, <2>1 DEF link, Mem
  <1>6. /\ Len(t) = Len(s) + 1
        /\ \A i \in 0 .. Len(s) + 2 :
             Nd(h, t, i) = IF i <= k THEN Nd(h, s, i)
                           ELSE IF i = k + 1 THEN e ELSE Nd(h, s, i - 1)
    BY <1>4 DEF IsIns, Nd
  <1>7. /\ \A i \in 0 .. Len(s) + 1 : Nd(h, s, i) \in Node
        /\ \A i \in 0 .. Len(s) : i # k => Nd(h, s, i) # b
        /\ \A i \in 1 .. Len(s) + 1 : i # k + 1 => Nd(h, s, i) # c
    BY <1>1, <1>2, <1>4, NdFacts
  <1>8. ASSUME NEW i \in 0 .. Len(t)
        PROVE  r.next[Nd(h, t, i)] = Nd(h, t, i + 1) /\ r.prev[Nd(h, t, i + 1)] = Nd(h, t, i)
    <2>1. CASE i < k
      <3>1. /\ Nd(h, t, i) = Nd(h, s, i) /\ Nd(h, t, i + 1) = Nd(h, s, i + 1)
            /\ i \in 0 .. Len(s) /\ i # k /\ i + 1 \in 1 .. Len(s) + 1 /\ i + 1 # k + 1
        BY <1>4, <1>6, <2>1
      <3>2. m.next[Nd(h, s, i)] = Nd(h, s, i + 1) /\ m.prev[Nd(h, s, i + 1)] = Nd(h, s, i)
        BY <3>1 DEF Rep
      <3> QED
        BY <1>4, <1>5, <1>7, <3>1, <3>2
    <2>2. CASE i = k
      <3>1. Nd(h, t, i) = b /\ Nd(h, t, i + 1) = e
        BY <1>1, <1>4, <1>6, <2>2
      <3> QED
        BY <1>4, <1>5, <3>1
    <2>3. CASE i = k + 1
      <3>1. Nd(h, t, i) = e /\ Nd(h, t, i + 1) = c
        BY <1>2, <1>4, <1>6, <2>3
      <3>2. b # e /\ c # e
        BY <1>1, <1>2, <1>4
      <3> QED
        BY <1>4, <1>5, <3>1, <3>2
    <2>4. CASE i > k + 1
      <3>1. /\ Nd(h, t, i) = Nd(h, s, i - 1) /\ Nd(h, t, i + 1) = Nd(h, s, i)
            /\ i - 1 \in 0 .. Len(s) /\ i - 1 # k /\ i \in 1 .. Len(s) + 1 /\ i # k + 1
        BY <1>4, <1>6, <2>4
      <3>2. m.next[Nd(h, s, i - 1)] = Nd(h, s, i) /\ m.prev[Nd(h, s, i)] = Nd(h, s, i - 1)
        BY <3>1 DEF Rep
      <3> QED
        BY <1>4, <1>5, <1>7, <3>1, <3>2
    <2> QED
      BY <1>4, <1>6, <2>1, <2>2, <2>3, <2>4
  <1> QED
    BY <1>1, <1>2, <1>3, <1>8 DEF Rep

LEMMA RepDelete ==
  ASSUME NEW m \in Mem, NEW h \in ListHead, NEW s \in Seq(Entry), Distinct(s), Rep(m, h, s),
         NEW k \in 1 .. Len(s), NEW t, IsDel(t, s, k)
  PROVE  Rep(unlink(m, Nd(h, s, k - 1), Nd(h, s, k + 1)), h, t)
  <1>1. PICK b \in Node : b = Nd(h, s, k - 1)
    BY NdFacts
  <1>2. PICK c \in Node : c = Nd(h, s, k + 1)
    BY NdFacts
  <1>3. PICK r : r = unlink(m, b, c)
    OBVIOUS
  <1>4. Len(s) \in Nat
    OBVIOUS
  <1>5. \A x \in Node :
          /\ r.next[x] = IF x = b THEN c ELSE m.next[x]
          /\ r.prev[x] = IF x = c THEN b ELSE m.prev[x]
    BY <1>3, Unlinked
  <1>6. /\ Len(t) = Len(s) - 1
        /\ \A i \in 0 .. Len(s) :
             Nd(h, t, i) = IF i < k THEN Nd(h, s, i) ELSE Nd(h, s, i + 1)
    BY <1>4 DEF IsDel, Nd
  <1>7. /\ \A i \in 0 .. Len(s) + 1 : Nd(h, s, i) \in Node
        /\ \A i \in 0 .. Len(s) : i # k - 1 => Nd(h, s, i) # b
        /\ \A i \in 1 .. Len(s) + 1 : i # k + 1 => Nd(h, s, i) # c
    BY <1>1, <1>2, <1>4, NdFacts
  <1>8. ASSUME NEW i \in 0 .. Len(t)
        PROVE  r.next[Nd(h, t, i)] = Nd(h, t, i + 1) /\ r.prev[Nd(h, t, i + 1)] = Nd(h, t, i)
    <2>1. CASE i < k - 1
      <3>1. /\ Nd(h, t, i) = Nd(h, s, i) /\ Nd(h, t, i + 1) = Nd(h, s, i + 1)
            /\ i \in 0 .. Len(s) /\ i # k - 1 /\ i + 1 \in 1 .. Len(s) + 1 /\ i + 1 # k + 1
        BY <1>4, <1>6, <2>1
      <3>2. m.next[Nd(h, s, i)] = Nd(h, s, i + 1) /\ m.prev[Nd(h, s, i + 1)] = Nd(h, s, i)
        BY <3>1 DEF Rep
      <3> QED
        BY <1>4, <1>5, <1>7, <3>1, <3>2
    <2>2. CASE i = k - 1
      <3>1. Nd(h, t, i) = b /\ Nd(h, t, i + 1) = c
        BY <1>1, <1>2, <1>4, <1>6, <2>2
      <3> QED
        BY <1>5, <3>1
    <2>3. CASE i >= k
      <3>1. /\ Nd(h, t, i) = Nd(h, s, i + 1) /\ Nd(h, t, i + 1) = Nd(h, s, i + 2)
            /\ i + 1 \in 0 .. Len(s) /\ i + 1 # k - 1 /\ i + 2 \in 1 .. Len(s) + 1 /\ i + 2 # k + 1
        BY <1>4, <1>6, <2>3
      <3>2. /\ m.next[Nd(h, s, i + 1)] = Nd(h, s, i + 2)
            /\ m.prev[Nd(h, s, i + 2)] = Nd(h, s, i + 1)
        BY <3>1 DEF Rep
      <3> QED
        BY <1>4, <1>5, <1>7, <3>1, <3>2
    <2> QED
      BY <1>4, <1>6, <2>1, <2>2, <2>3
  <1> QED
    BY <1>1, <1>2, <1>3, <1>8 DEF Rep

LEMMA RepSplice ==
  ASSUME NEW m \in Mem, NEW a \in ListHead, NEW h \in ListHead, a # h,
         NEW s \in Seq(Entry), NEW t \in Seq(Entry), s # <<>>, Distinct(s), Distinct(t),
         Rep(m, a, s), Rep(m, h, t),
         \A i \in 1 .. Len(s), j \in 1 .. Len(t) : s[i] # t[j]
  PROVE  /\ splice(m, a, h) \in Mem
         /\ Rep(splice(m, a, h), h, s \o t)
         /\ \A x \in Node :
              x # h /\ x \notin Elems(s) /\ x \notin Elems(t) =>
                splice(m, a, h).next[x] = m.next[x] /\ splice(m, a, h).prev[x] = m.prev[x]
  <1>1. Len(s) \in Nat /\ Len(s) >= 1 /\ Len(t) \in Nat /\ h \in Node /\ h \notin Entry
    BY ListAssumption, EmptySeq DEF Node
  <1>2. PICK n \in Nat : n = Len(s) /\ n >= 1
    BY <1>1
  <1>3. PICK first \in Entry : first = s[1] /\ m.next[a] = first
    BY <1>1, NdFacts DEF Rep
  <1>4. PICK last \in Entry : last = s[n] /\ m.prev[a] = last
    BY <1>1, <1>2, NdFacts DEF Rep
  <1>5. PICK at \in Node : at = Nd(h, t, 1) /\ m.next[h] = at
    BY <1>1, NdFacts DEF Rep
  <1>6. PICK r : r = splice(m, a, h)
    OBVIOUS
  <1>7. first \in Node /\ last \in Node /\ first # h /\ last # h
    BY <1>1 DEF Node
  <1>8. \A i \in 0 .. Len(t) + 1 : Nd(h, t, i) \in Node /\ \A j \in 1 .. n : Nd(h, t, i) # s[j]
    BY <1>1, <1>2, NdFacts DEF Nd
  <1>9. at # first /\ at # last
    BY <1>1, <1>2, <1>3, <1>4, <1>5, <1>8
  <1>10. /\ r \in Mem
         /\ \A x \in Node :
              /\ r.next[x] = IF x = h THEN first ELSE IF x = last THEN at ELSE m.next[x]
              /\ r.prev[x] = IF x = first THEN h ELSE IF x = at THEN last ELSE m.prev[x]
    BY <1>1, <1>3, <1>4, <1>5, <1>6, <1>7, <1>9 DEF splice, Mem
  <1>11. PICK u : u = s \o t
    OBVIOUS
  <1>12. /\ Len(u) = n + Len(t)
         /\ \A i \in 1 .. n + Len(t) : u[i] = IF i <= n THEN s[i] ELSE t[i - n]
    BY <1>2, <1>11, ConcatProperties
  <1>13. \A i \in 0 .. n + Len(t) + 1 :
           Nd(h, u, i) = IF i = 0 THEN h ELSE IF i <= n THEN s[i] ELSE Nd(h, t, i - n)
    BY <1>1, <1>2, <1>12 DEF Nd
  <1>14. /\ \A i \in 1 .. n : s[i] \in Node /\ s[i] # h /\ s[i] # at
         /\ \A i \in 1 .. n : i # 1 => s[i] # first
         /\ \A i \in 1 .. n : i # n => s[i] # last
    BY <1>1, <1>2, <1>3, <1>4, <1>5, <1>8 DEF Distinct, Node
  <1>15. \A i \in 1 .. n - 1 : m.next[s[i]] = s[i + 1] /\ m.prev[s[i + 1]] = s[i]
    BY <1>2 DEF Rep, Nd
  <1>16. ASSUME NEW i \in 0 .. Len(u)
         PROVE  r.next[Nd(h, u, i)] = Nd(h, u, i + 1) /\ r.prev[Nd(h, u, i + 1)] = Nd(h, u, i)
    <2>1. CASE i = 0
      <3>1. Nd(h, u, i) = h /\ Nd(h, u, i + 1) = first
        BY <1>1, <1>2, <1>3, <1>13, <2>1
      <3> QED
        BY <1>1, <1>7, <1>10, <3>1
    <2>2. CASE 1 <= i /\ i < n
      <3>1. /\ Nd(h, u, i) = s[i] /\ Nd(h, u, i + 1) = s[i + 1]
            /\ i \in 1 .. n /\ i + 1 \in 1 .. n /\ i # n /\ i + 1 # 1 /\ i \in 1 .. n - 1
        BY <1>1, <1>2, <1>12, <1>13, <2>2
      <3> QED
        <4>1. /\ s[i] \in Node /\ s[i + 1] \in Node /\ s[i] # h /\ s[i] # last
              /\ s[i + 1] # first /\ s[i + 1] # at
          BY <1>14, <3>1
        <4>2. m.next[s[i]] = s[i + 1] /\ m.prev[s[i + 1]] = s[i]
          BY <1>15, <3>1
        <4> QED
          BY <1>10, <3>1, <4>1, <4>2
    <2>3. CASE i = n
      <3>0. /\ i \in 0 .. n + Len(t) + 1 /\ i # 0 /\ i <= n /\ i + 1 \in 0 .. n + Len(t) + 1
            /\ i + 1 # 0 /\ ~(i + 1 <= n) /\ (i + 1) - n = 1
        BY <1>1, <1>2, <2>3
      <3>1. Nd(h, u, i) = last /\ Nd(h, u, i + 1) = at
        BY <1>4, <1>5, <1>13, <2>3, <3>0
      <3> QED
        BY <1>7, <1>9, <1>10, <3>1
    <2>4. CASE i > n
      <3>0. i \in Int /\ i - n \in 1 .. Len(t)
        <4>1. PICK l \in Nat : l = Len(t)
          BY <1>1
        <4>2. i \in 0 .. n + l
          BY <1>12, <4>1
        <4> QED
          BY <2>4, <4>1, <4>2
      <3>j. PICK j \in 1 .. Len(t) : j = i - n
        BY <3>0, Zenon
      <3>1. j = i - n /\ i + 1 - n = j + 1
        BY <1>2, <3>0, <3>j
      <3>2. Nd(h, u, i) = Nd(h, t, j) /\ Nd(h, u, i + 1) = Nd(h, t, j + 1)
        BY <1>1, <1>2, <1>12, <1>13, <2>4, <3>1
      <3>3. m.next[Nd(h, t, j)] = Nd(h, t, j + 1) /\ m.prev[Nd(h, t, j + 1)] = Nd(h, t, j)
        BY <1>1, <3>1 DEF Rep
      <3>4. /\ Nd(h, t, j) \in Node /\ Nd(h, t, j + 1) \in Node
            /\ Nd(h, t, j) # h /\ Nd(h, t, j) # last
            /\ Nd(h, t, j + 1) # first /\ Nd(h, t, j + 1) # at
        <4>1. j \in 0 .. Len(t) + 1 /\ j + 1 \in 0 .. Len(t) + 1 /\ 1 \in 1 .. n /\ n \in 1 .. n
          BY <1>1, <1>2
        <4>2. Nd(h, t, j) # h
          BY <1>1, NdFacts
        <4>3. Nd(h, t, j + 1) # at
          BY <1>1, <1>5, NdFacts
        <4> QED
          BY <1>3, <1>4, <1>8, <4>1, <4>2, <4>3
      <3> QED
        BY <1>10, <3>2, <3>3, <3>4
    <2> QED
      BY <1>1, <1>2, <1>12, <2>1, <2>2, <2>3, <2>4
  <1>17. Rep(r, h, u)
    BY <1>16 DEF Rep
  <1>18. ASSUME NEW x \in Node, x # h, x \notin Elems(s), x \notin Elems(t)
         PROVE  r.next[x] = m.next[x] /\ r.prev[x] = m.prev[x]
    <2>1. x # first /\ x # last
      BY <1>1, <1>2, <1>3, <1>4, <1>18 DEF Elems
    <2>2. x # at
      BY <1>1, <1>5, <1>18 DEF Elems, Nd
    <2> QED
      BY <1>10, <1>18, <2>1, <2>2
  <1> QED
    BY <1>6, <1>10, <1>11, <1>17, <1>18

-----------------------------------------------------------------------------
(* All lists of a program: memory m, lists ls, initialised heads ini.  No  *)
(* entry is on two lists, or on one of them twice.                         *)

On(x, ls) == \E h \in ListHead : x \in Elems(ls[h])

Once(ls) ==
  \A h, g \in ListHead : \A i \in 1 .. Len(ls[h]), j \in 1 .. Len(ls[g]) :
    ls[h][i] = ls[g][j] => h = g /\ i = j

Good(m, ls, ini) ==
  /\ m \in Mem /\ ls \in [ListHead -> Seq(Entry)] /\ ini \subseteq ListHead
  /\ \A h \in ListHead \ ini : ls[h] = <<>>
  /\ Once(ls)
  /\ \A h \in ini : Rep(m, h, ls[h])

\* The entries on no list keep their pointers, and are none but those of before.
SpareKept(m, ls, r, new) ==
  \A x \in Entry : ~On(x, new) => /\ ~On(x, ls)
                                  /\ r.next[x] = m.next[x] /\ r.prev[x] = m.prev[x]

LEMMA GoodFacts ==
  ASSUME NEW m, NEW ls, NEW ini, Good(m, ls, ini)
  PROVE  /\ m \in Mem /\ \A h \in ListHead : ls[h] \in Seq(Entry) /\ Distinct(ls[h])
         /\ \A h \in ListHead : Len(ls[h]) \in Nat
         /\ \A h, g \in ListHead : h # g =>
              \A i \in 1 .. Len(ls[h]) : ls[h][i] # g /\ ls[h][i] \notin Elems(ls[g])
  <1>1. \A h \in ListHead : ls[h] \in Seq(Entry)
    BY DEF Good
  <1>2. \A h \in ListHead : Len(ls[h]) \in Nat /\ \A i \in 1 .. Len(ls[h]) : ls[h][i] \in Entry
    <2>1. ASSUME NEW h \in ListHead
          PROVE  Len(ls[h]) \in Nat /\ \A i \in 1 .. Len(ls[h]) : ls[h][i] \in Entry
      <3>1. PICK s \in Seq(Entry) : s = ls[h]
        BY <1>1
      <3>2. Len(s) \in Nat /\ \A i \in 1 .. Len(s) : s[i] \in Entry
        OBVIOUS
      <3> QED
        BY <3>1, <3>2
    <2> QED
      BY <2>1
  <1>3. \A h \in ListHead : Distinct(ls[h])
    BY DEF Good, Once, Distinct
  <1>4. ASSUME NEW h \in ListHead, NEW g \in ListHead, h # g, NEW i \in 1 .. Len(ls[h])
        PROVE  ls[h][i] # g /\ ls[h][i] \notin Elems(ls[g])
    <2>1. ls[h][i] # g
      BY <1>2, ListAssumption
    <2>2. ls[h][i] \notin Elems(ls[g])
      BY <1>4 DEF Good, Once, Elems
    <2> QED
      BY <2>1, <2>2
  <1> QED
    BY <1>1, <1>2, <1>3, <1>4 DEF Good

\* Rings of other heads do not notice a change of pointers in the rings of the
\* heads H or in entries that are on no list.
Untouched(m, r, X) == \A x \in Node \ X : r.next[x] = m.next[x] /\ r.prev[x] = m.prev[x]

RingsOf(ls, H) == H \union {x \in Entry : ~On(x, ls) \/ \E h \in H : x \in Elems(ls[h])}

LEMMA OtherRings ==
  ASSUME NEW m, NEW ls, NEW ini, Good(m, ls, ini), NEW H, H \subseteq ListHead,
         NEW r, NEW X, X \subseteq RingsOf(ls, H), Untouched(m, r, X), NEW g \in ini, g \notin H
  PROVE  Rep(r, g, ls[g])
  <1>1. g \in ListHead /\ ls[g] \in Seq(Entry) /\ Rep(m, g, ls[g])
    BY DEF Good
  <1>2. g \in Node \ X
    BY <1>1, ListAssumption DEF Node, RingsOf
  <1>3. ASSUME NEW i \in 1 .. Len(ls[g])
        PROVE  ls[g][i] \in Node \ X
    <2>1. ls[g][i] \in Entry
      BY <1>1
    <2>2. ls[g][i] \in Node /\ ls[g][i] \notin H
      BY <2>1, ListAssumption DEF Node
    <2>3. On(ls[g][i], ls)
      BY <1>1 DEF On, Elems
    <2>4. \A h \in H : ls[g][i] \notin Elems(ls[h])
      BY <1>1, GoodFacts
    <2> QED
      BY <2>2, <2>3, <2>4 DEF RingsOf
  <1> QED
    BY <1>1, <1>2, <1>3, RepFrame DEF Untouched

\* Pointers of an entry that is on no list may be anything.
LEMMA GoodSpare ==
  ASSUME NEW m, NEW ls, NEW ini, Good(m, ls, ini), NEW e \in Entry, ~On(e, ls),
         NEW r \in Mem,
         \A x \in Node \ {e} : r.next[x] = m.next[x] /\ r.prev[x] = m.prev[x]
  PROVE  Good(r, ls, ini)
  <1>1. ASSUME NEW g \in ini PROVE Rep(r, g, ls[g])
    <2>1. g \in ListHead /\ ls[g] \in Seq(Entry) /\ Rep(m, g, ls[g])
      BY DEF Good
    <2>2. g \in Node /\ g # e
      BY <2>1, ListAssumption DEF Node
    <2>3. \A i \in 1 .. Len(ls[g]) : ls[g][i] \in Node /\ ls[g][i] # e
      BY <2>1 DEF On, Elems, Node
    <2> QED
      BY <2>1, <2>2, <2>3, RepFrame
  <1> QED
    BY <1>1 DEF Good

\* INIT_LIST_HEAD of a head that is not in use.
LEMMA GoodInit ==
  ASSUME NEW m, NEW ls, NEW ini, Good(m, ls, ini), NEW h \in ListHead \ ini
  PROVE  /\ Good(INIT_LIST_HEAD(m, h), ls, ini \union {h})
         /\ SpareKept(m, ls, INIT_LIST_HEAD(m, h), ls)
  <1>1. m \in Mem /\ h \in Node /\ h \notin Entry /\ ls[h] = <<>>
    BY ListAssumption DEF Good, Node
  <1>2. PICK r : r = INIT_LIST_HEAD(m, h)
    OBVIOUS
  <1>3. /\ r \in Mem
        /\ \A x \in Node : /\ r.next[x] = IF x = h THEN h ELSE m.next[x]
                           /\ r.prev[x] = IF x = h THEN h ELSE m.prev[x]
    BY <1>1, <1>2 DEF INIT_LIST_HEAD, Mem
  <1>4. Rep(r, h, ls[h])
    <2>1. Len(<<>>) = 0
      BY EmptySeq
    <2> QED
      BY <1>1, <1>3, <2>1 DEF Rep, Nd
  <1>5. ASSUME NEW g \in ini PROVE Rep(r, g, ls[g])
    <2>1. g \in ListHead /\ ls[g] \in Seq(Entry) /\ Rep(m, g, ls[g]) /\ g \in Node /\ g # h
      BY DEF Good, Node
    <2>2. \A i \in 1 .. Len(ls[g]) : ls[g][i] \in Node /\ ls[g][i] # h
      BY <1>1, <2>1 DEF Node
    <2> QED
      BY <1>3, <2>1, <2>2, RepFrame
  <1>6. SpareKept(m, ls, r, ls)
    BY <1>1, <1>3 DEF SpareKept, Node
  <1> QED
    BY <1>2, <1>3, <1>4, <1>5, <1>6 DEF Good

\* __list_add of an entry that is on no list.
LEMMA GoodAdd ==
  ASSUME NEW m, NEW ls, NEW ini, Good(m, ls, ini), NEW e \in Entry, ~On(e, ls),
         NEW h \in ini, NEW k \in 0 .. Len(ls[h]), NEW t, IsIns(t, ls[h], k, e),
         NEW r, r = link(m, e, Nd(h, ls[h], k), Nd(h, ls[h], k + 1))
  PROVE  /\ Good(r, [ls EXCEPT ![h] = t], ini)
         /\ SpareKept(m, ls, r, [ls EXCEPT ![h] = t])
         /\ On(e, [ls EXCEPT ![h] = t])
  <1>1. PICK s : s = ls[h]
    OBVIOUS
  <1>2. /\ h \in ListHead /\ s \in Seq(Entry) /\ Distinct(s) /\ Rep(m, h, s) /\ m \in Mem
        /\ Len(s) \in Nat /\ ls \in [ListHead -> Seq(Entry)] /\ e \notin Elems(s)
        /\ k \in 0 .. Len(s)
    <2>1. h \in ListHead
      BY DEF Good
    <2> QED
      BY <1>1, <2>1, GoodFacts DEF Good, On
  <1>3. PICK new : new = [ls EXCEPT ![h] = t]
    OBVIOUS
  <1>4. /\ new \in [ListHead -> Seq(Entry)] /\ new[h] = t
        /\ \A g \in ListHead \ {h} : new[g] = ls[g]
    BY <1>2, <1>3 DEF IsIns
  <1>5. /\ Len(t) = Len(s) + 1
        /\ \A i \in 1 .. Len(t) :
             t[i] = IF i <= k THEN s[i] ELSE IF i = k + 1 THEN e ELSE s[i - 1]
    BY <1>1 DEF IsIns
  <1>6. Rep(r, h, t)
    BY <1>1, <1>2, RepInsert
  <1>7. PICK b \in Node : b = Nd(h, s, k)
    BY <1>2, NdFacts
  <1>8. PICK c \in Node : c = Nd(h, s, k + 1)
    BY <1>2, NdFacts
  <1>9. e \in Node /\ b \in {h} \union Elems(s) /\ c \in {h} \union Elems(s) /\ e \notin ListHead
    BY <1>2, <1>7, <1>8, ListAssumption DEF Nd, Elems, Node
  <1>10. /\ r \in Mem
         /\ \A x \in Node : x # e /\ x # h /\ x \notin Elems(s) =>
                              r.next[x] = m.next[x] /\ r.prev[x] = m.prev[x]
    <2>1. r = link(m, e, b, c)
      BY <1>1, <1>7, <1>8
    <2>2. /\ r \in Mem
          /\ \A x \in Node : x # e /\ x # b /\ x # c =>
                              r.next[x] = m.next[x] /\ r.prev[x] = m.prev[x]
      <3>1. m \in Mem /\ e \in Node
        BY <1>2, <1>9
      <3>2. link(m, e, b, c) \in Mem
        BY <3>1, Linked
      <3>3. \A x \in Node :
              /\ link(m, e, b, c).next[x] =
                   IF x = b THEN e ELSE IF x = e THEN c ELSE m.next[x]
              /\ link(m, e, b, c).prev[x] =
                   IF x = e THEN b ELSE IF x = c THEN e ELSE m.prev[x]
        BY <3>1 DEF link, Mem
      <3> QED
        BY <2>1, <3>2, <3>3
    <2> QED
      BY <1>9, <2>2
  <1>11. ASSUME NEW g \in ini PROVE Rep(r, g, new[g])
    <2>1. CASE g = h
      BY <1>4, <1>6, <2>1
    <2>2. CASE g # h
      <3>0. PICK X : X = {e, h} \union Elems(ls[h])
        OBVIOUS
      <3>1. Rep(r, g, ls[g])
        <4>1. Untouched(m, r, X)
          BY <1>1, <1>10, <3>0 DEF Untouched
        <4>2. Elems(ls[h]) \subseteq Entry
          BY <1>1, <1>2 DEF Elems
        <4>3. {h} \subseteq ListHead /\ X \subseteq RingsOf(ls, {h}) /\ g \notin {h}
          BY <1>2, <2>2, <3>0, <4>2 DEF RingsOf
        <4> QED
          BY <4>1, <4>3, OtherRings
      <3>2. g \in ListHead
        BY DEF Good
      <3> QED
        BY <1>4, <2>2, <3>1, <3>2
    <2> QED
      BY <2>1, <2>2
  <1>12. \A i \in 1 .. Len(t) : t[i] = e \/ \E j \in 1 .. Len(s) : t[i] = s[j]
    BY <1>2, <1>5
  <1>13. Distinct(t)
    <2>1. \A j \in 1 .. Len(s) : s[j] # e
      BY <1>2 DEF Elems
    <2>2. ASSUME NEW i \in 1 .. Len(t), NEW j \in 1 .. Len(t), i < j PROVE t[i] # t[j]
      <3>1. i \in Nat /\ j \in Nat /\ k \in Nat
        BY <1>2
      <3>2. CASE i <= k /\ j <= k
        <4>1. i \in 1 .. Len(s) /\ j \in 1 .. Len(s) /\ t[i] = s[i] /\ t[j] = s[j]
          BY <1>2, <1>5, <3>1, <3>2
        <4> QED
          BY <1>2, <2>2, <3>1, <4>1 DEF Distinct
      <3>3. CASE i <= k /\ j > k + 1
        <4>1. /\ i \in 1 .. Len(s) /\ j - 1 \in 1 .. Len(s) /\ i # j - 1
              /\ t[i] = s[i] /\ t[j] = s[j - 1]
          BY <1>2, <1>5, <3>1, <3>3
        <4> QED
          BY <1>2, <4>1 DEF Distinct
      <3>4. CASE i > k + 1
        <4>1. /\ i - 1 \in 1 .. Len(s) /\ j - 1 \in 1 .. Len(s) /\ i - 1 # j - 1
              /\ t[i] = s[i - 1] /\ t[j] = s[j - 1]
          BY <1>2, <1>5, <2>2, <3>1, <3>4
        <4> QED
          BY <1>2, <4>1 DEF Distinct
      <3>5. CASE i = k + 1
        <4>1. t[i] = e /\ t[j] = s[j - 1] /\ j - 1 \in 1 .. Len(s)
          BY <1>2, <1>5, <2>2, <3>1, <3>5
        <4> QED
          BY <2>1, <4>1
      <3>6. CASE j = k + 1
        <4>1. t[j] = e /\ t[i] = s[i] /\ i \in 1 .. Len(s)
          BY <1>2, <1>5, <2>2, <3>1, <3>6
        <4> QED
          BY <2>1, <4>1
      <3> QED
        BY <2>2, <3>1, <3>2, <3>3, <3>4, <3>5, <3>6
    <2> QED
      BY <1>2, <1>5, <2>2 DEF Distinct
  <1>14. Once(new)
    <2>1. ASSUME NEW f \in ListHead, NEW g \in ListHead,
                 NEW i \in 1 .. Len(new[f]), NEW j \in 1 .. Len(new[g]), new[f][i] = new[g][j]
          PROVE  f = g /\ i = j
      <3>0. ASSUME NEW x \in ListHead, x # h, NEW u \in 1 .. Len(ls[x]), NEW v \in 1 .. Len(t)
            PROVE  ls[x][u] # t[v]
        <4>1. ls[x][u] # e
          BY DEF On, Elems
        <4>2. ls[x][u] \notin Elems(s)
          BY <1>1, <1>2, <3>0, GoodFacts
        <4> QED
          BY <1>12, <4>1, <4>2 DEF Elems
      <3>1. CASE f = h /\ g = h
        BY <1>4, <1>13, <2>1, <3>1 DEF Distinct
      <3>2. CASE f # h /\ g # h
        BY <1>4, <2>1, <3>2 DEF Good, Once
      <3>3. CASE (f = h) # (g = h)
        BY <1>4, <2>1, <3>0, <3>3
      <3> QED
        BY <3>1, <3>2, <3>3
    <2> QED
      BY <2>1 DEF Once
  <1>15. \A g \in ListHead \ ini : new[g] = <<>>
    BY <1>4 DEF Good
  <1>16. \A x \in Elems(s) \union {e} : x \in Elems(t)
    <2>1. \A j \in 1 .. Len(s) : s[j] = t[IF j <= k THEN j ELSE j + 1]
      BY <1>2, <1>5
    <2>2. \A j \in 1 .. Len(s) : (IF j <= k THEN j ELSE j + 1) \in 1 .. Len(t)
      BY <1>2, <1>5
    <2>3. e = t[k + 1] /\ k + 1 \in 1 .. Len(t)
      BY <1>2, <1>5
    <2> QED
      BY <2>1, <2>2, <2>3 DEF Elems
  <1>17. SpareKept(m, ls, r, new)
    <2>1. ASSUME NEW x \in Entry, ~On(x, new)
          PROVE  ~On(x, ls) /\ r.next[x] = m.next[x] /\ r.prev[x] = m.prev[x]
      <3>1. x \notin Elems(t) /\ \A g \in ListHead \ {h} : x \notin Elems(ls[g])
        BY <1>2, <1>4, <2>1 DEF On
      <3>2. x # e /\ x \notin Elems(s) /\ x # h /\ x \in Node
        BY <1>2, <1>16, <3>1, ListAssumption DEF Node
      <3> QED
        BY <1>1, <1>10, <3>1, <3>2 DEF On
    <2> QED
      BY <2>1 DEF SpareKept
  <1>18. On(e, new)
    BY <1>2, <1>4, <1>16 DEF On
  <1> QED
    BY <1>3, <1>4, <1>10, <1>11, <1>14, <1>15, <1>17, <1>18 DEF Good

\* Taking an entry off changes the one list it is on.
LEMMA OffFacts ==
  ASSUME NEW m, NEW ls, NEW ini, Good(m, ls, ini), NEW h \in ListHead,
         NEW k \in 1 .. Len(ls[h]), NEW e, e = ls[h][k]
  PROVE  /\ IsDel(Off(e, ls)[h], ls[h], k)
         /\ \A g \in ListHead : g # h => Off(e, ls)[g] = ls[g]
         /\ h \in ini
  <1>1. ls[h] \in Seq(Entry) /\ Distinct(ls[h])
    BY GoodFacts
  <1>2. IsDel(Without(ls[h], e), ls[h], k)
    BY <1>1, TakeOut
  <1>3. ASSUME NEW g \in ListHead, g # h PROVE Without(ls[g], e) = ls[g]
    <2>1. e \notin Elems(ls[g])
      BY <1>3, GoodFacts
    <2> QED
      BY <2>1, NotIn
  <1>4. h \in ini
    <2>1. ls[h] # <<>>
      BY EmptySeq
    <2> QED
      BY <2>1 DEF Good
  <1> QED
    BY <1>2, <1>3, <1>4 DEF Off

LEMMA NotOn ==
  ASSUME NEW m, NEW ls, NEW ini, Good(m, ls, ini), NEW e, ~On(e, ls)
  PROVE  Off(e, ls) = ls
  <1>1. \A g \in ListHead : Without(ls[g], e) = ls[g]
    BY NotIn DEF On
  <1> QED
    BY <1>1 DEF Off, Good

\* __list_del of an entry that is on a list.
LEMMA GoodDrop ==
  ASSUME NEW m, NEW ls, NEW ini, Good(m, ls, ini), NEW e \in Entry, On(e, ls),
         NEW r, r = unlink(m, m.prev[e], m.next[e]), NEW new, new = Off(e, ls)
  PROVE  /\ Good(r, new, ini) /\ ~On(e, new)
         /\ \A x \in Entry \ {e} : ~On(x, new) =>
              ~On(x, ls) /\ r.next[x] = m.next[x] /\ r.prev[x] = m.prev[x]
  <1>1. PICK h \in ListHead : e \in Elems(ls[h])
    BY DEF On
  <1>2. PICK k \in 1 .. Len(ls[h]) : e = ls[h][k]
    BY <1>1 DEF Elems
  <1>3. PICK s : s = ls[h]
    OBVIOUS
  <1>4. PICK t : t = new[h]
    OBVIOUS
  <1>5. h \in ini /\ IsDel(t, s, k) /\ \A g \in ListHead : g # h => new[g] = ls[g]
    BY <1>2, <1>3, <1>4, OffFacts
  <1>6. /\ s \in Seq(Entry) /\ Distinct(s) /\ Rep(m, h, s) /\ m \in Mem /\ Len(s) \in Nat
        /\ k \in 1 .. Len(s) /\ e = s[k] /\ ls \in [ListHead -> Seq(Entry)]
    BY <1>2, <1>3, <1>5, GoodFacts DEF Good
  <1>7. PICK b \in Node : b = Nd(h, s, k - 1)
    BY <1>6, NdFacts
  <1>8. PICK c \in Node : c = Nd(h, s, k + 1)
    BY <1>6, NdFacts
  <1>9. m.prev[e] = b /\ m.next[e] = c
    <2>1. Nd(h, s, k) = e /\ k \in 0 .. Len(s) /\ k - 1 \in 0 .. Len(s) /\ (k - 1) + 1 = k
      BY <1>6 DEF Nd
    <2>2. m.next[Nd(h, s, k)] = Nd(h, s, k + 1)
      BY <1>6, <2>1 DEF Rep
    <2>3. m.prev[Nd(h, s, (k - 1) + 1)] = Nd(h, s, k - 1)
      BY <1>6, <2>1 DEF Rep
    <2> QED
      BY <1>7, <1>8, <2>1, <2>2, <2>3
  <1>10. Rep(r, h, t)
    BY <1>5, <1>6, <1>7, <1>8, <1>9, RepDelete
  <1>11. b \in {h} \union Elems(s) /\ c \in {h} \union Elems(s)
    BY <1>6, <1>7, <1>8 DEF Nd, Elems
  <1>12. /\ r \in Mem
         /\ \A x \in Node : x # b /\ x # c => r.next[x] = m.next[x] /\ r.prev[x] = m.prev[x]
    <2>1. r = unlink(m, b, c)
      BY <1>9
    <2> QED
      <3>1. m \in Mem
        BY <1>6
      <3>2. unlink(m, b, c) \in Mem
        BY <3>1, Unlinked
      <3>3. \A x \in Node :
              /\ unlink(m, b, c).next[x] = IF x = b THEN c ELSE m.next[x]
              /\ unlink(m, b, c).prev[x] = IF x = c THEN b ELSE m.prev[x]
        BY <3>1 DEF unlink, Mem
      <3> QED
        BY <2>1, <3>2, <3>3
  <1>13. new \in [ListHead -> Seq(Entry)]
    <2>1. \A g \in ListHead : new[g] \in Seq(Entry)
      BY <1>4, <1>5, <1>6 DEF IsDel
    <2> QED
      BY <2>1 DEF Off
  <1>14. ASSUME NEW g \in ini PROVE Rep(r, g, new[g])
    <2>1. CASE g = h
      BY <1>4, <1>10, <2>1
    <2>2. CASE g # h
      <3>1. Untouched(m, r, {b, c})
        BY <1>12 DEF Untouched
      <3>2. Elems(ls[h]) \subseteq Entry
        BY <1>3, <1>6 DEF Elems
      <3>3. {h} \subseteq ListHead /\ {b, c} \subseteq RingsOf(ls, {h}) /\ g \notin {h}
        BY <1>3, <1>11, <2>2, <3>2 DEF RingsOf
      <3>4. Rep(r, g, ls[g])
        BY <3>1, <3>3, OtherRings
      <3> QED
        BY <1>5, <2>2, <3>4 DEF Good
    <2> QED
      BY <2>1, <2>2
  <1>15. /\ Len(t) = Len(s) - 1
         /\ \A i \in 1 .. Len(t) : t[i] = IF i < k THEN s[i] ELSE s[i + 1]
    BY <1>5 DEF IsDel
  <1>16. \A g \in ListHead \ ini : new[g] = <<>>
    BY <1>5 DEF Good
  <1>17. \A i \in 1 .. Len(t) : t[i] # e /\ \E j \in 1 .. Len(s) : t[i] = s[j]
    <2>1. ASSUME NEW i \in 1 .. Len(t)
          PROVE  t[i] # e /\ \E j \in 1 .. Len(s) : t[i] = s[j]
      <3>1. PICK j \in 1 .. Len(s) : j = (IF i < k THEN i ELSE i + 1)
        BY <1>6, <1>15
      <3>2. t[i] = s[j] /\ j # k
        BY <1>6, <1>15, <3>1
      <3> QED
        BY <1>6, <3>2 DEF Distinct
    <2> QED
      BY <2>1
  <1>18. \A i, j \in 1 .. Len(t) : t[i] = t[j] => i = j
    BY <1>6, <1>15 DEF Distinct
  <1>19. Once(new)
    <2>1. ASSUME NEW f \in ListHead, NEW g \in ListHead,
                 NEW i \in 1 .. Len(new[f]), NEW j \in 1 .. Len(new[g]), new[f][i] = new[g][j]
          PROVE  f = g /\ i = j
      <3>0. ASSUME NEW x \in ListHead, x # h, NEW u \in 1 .. Len(ls[x]), NEW v \in 1 .. Len(t)
            PROVE  ls[x][u] # t[v]
        <4>1. ls[x][u] \notin Elems(s)
          BY <1>3, <3>0, GoodFacts
        <4> QED
          BY <1>17, <4>1 DEF Elems
      <3>1. CASE f = h /\ g = h
        BY <1>4, <1>18, <2>1, <3>1
      <3>2. CASE f # h /\ g # h
        BY <1>5, <2>1, <3>2 DEF Good, Once
      <3>3. CASE (f = h) # (g = h)
        BY <1>4, <1>5, <2>1, <3>0, <3>3
      <3> QED
        BY <3>1, <3>2, <3>3
    <2> QED
      BY <2>1 DEF Once
  <1>20. ~On(e, new)
    <2>1. e \notin Elems(t)
      BY <1>17 DEF Elems
    <2>2. \A g \in ListHead : g # h => e \notin Elems(ls[g])
      BY <1>2, GoodFacts
    <2> QED
      BY <1>4, <1>5, <2>1, <2>2 DEF On
  <1>21. ASSUME NEW x \in Entry, x # e, ~On(x, new)
         PROVE  ~On(x, ls) /\ r.next[x] = m.next[x] /\ r.prev[x] = m.prev[x]
    <2>1. x \notin Elems(t) /\ \A g \in ListHead : g # h => x \notin Elems(ls[g])
      BY <1>4, <1>5, <1>21 DEF On
    <2>2. ASSUME NEW j \in 1 .. Len(s), x = s[j] PROVE FALSE
      <3>1. j # k
        BY <1>6, <1>21, <2>2
      <3>2. CASE j < k
        <4>1. j \in 1 .. Len(t) /\ t[j] = s[j]
          BY <1>6, <1>15, <3>2
        <4> QED
          BY <2>1, <2>2, <4>1 DEF Elems
      <3>3. CASE j > k
        <4>1. j - 1 \in 1 .. Len(t) /\ t[j - 1] = s[j]
          BY <1>6, <1>15, <3>3
        <4> QED
          BY <2>1, <2>2, <4>1 DEF Elems
      <3> QED
        BY <1>6, <3>1, <3>2, <3>3
    <2>3. x \notin Elems(s)
      BY <2>2 DEF Elems
    <2>4. x \in Node /\ x # h
      BY ListAssumption DEF Node
    <2>5. ~On(x, ls)
      BY <1>3, <2>1, <2>3 DEF On
    <2> QED
      BY <1>11, <1>12, <2>3, <2>4, <2>5
  <1> QED
    BY <1>12, <1>13, <1>14, <1>16, <1>19, <1>20, <1>21 DEF Good

\* __list_del of an entry that is on a list or initialised.
LEMMA GoodUnlink ==
  ASSUME NEW m, NEW ls, NEW ini, Good(m, ls, ini), NEW e \in Entry,
         On(e, ls) \/ (m.next[e] = e /\ m.prev[e] = e),
         NEW r, r = unlink(m, m.prev[e], m.next[e]), NEW new, new = Off(e, ls)
  PROVE  /\ Good(r, new, ini) /\ ~On(e, new)
         /\ \A x \in Entry \ {e} : ~On(x, new) =>
              ~On(x, ls) /\ r.next[x] = m.next[x] /\ r.prev[x] = m.prev[x]
  <1>1. CASE On(e, ls)
    BY <1>1, GoodDrop
  <1>2. CASE ~On(e, ls)
    <2>1. new = ls
      BY <1>2, NotOn
    <2>2. e \in Node /\ m \in Mem
      BY DEF Good, Node
    <2>3. /\ r \in Mem
          /\ \A x \in Node \ {e} : r.next[x] = m.next[x] /\ r.prev[x] = m.prev[x]
      <3>1. r = unlink(m, e, e)
        BY <1>2
      <3> QED
        BY <2>2, <3>1, Unlinked
    <2>4. Good(r, ls, ini)
      BY <1>2, <2>3, GoodSpare
    <2> QED
      BY <1>2, <2>1, <2>3, <2>4 DEF Node
  <1> QED
    BY <1>1, <1>2

LEMMA EmptyRing ==
  ASSUME NEW m, NEW ls, NEW ini, Good(m, ls, ini), NEW h \in ini
  PROVE  list_empty(m, h) <=> ls[h] = <<>>
  <1>1. PICK s \in Seq(Entry) : s = ls[h]
    BY DEF Good
  <1>2. Rep(m, h, s) /\ h \in ListHead
    BY <1>1 DEF Good
  <1>3. Len(s) \in Nat /\ (s = <<>> <=> Len(s) = 0)
    BY EmptySeq
  <1>4. m.next[h] = Nd(h, s, 1)
    <2>1. m.next[Nd(h, s, 0)] = Nd(h, s, 0 + 1)
      BY <1>2, <1>3 DEF Rep
    <2> QED
      BY <2>1 DEF Nd
  <1>5. Len(s) # 0 => s[1] \in Entry /\ Nd(h, s, 1) = s[1]
    BY <1>3 DEF Nd
  <1>6. Len(s) = 0 => Nd(h, s, 1) = h
    BY DEF Nd
  <1> QED
    BY <1>1, <1>2, <1>3, <1>4, <1>5, <1>6, ListAssumption DEF list_empty

\* __list_splice: the head a is left with pointers into the list of h.
LEMMA GoodJoin ==
  ASSUME NEW m, NEW ls, NEW ini, Good(m, ls, ini), NEW a \in ini, NEW h \in ini, a # h,
         ls[a] # <<>>, NEW r, r = splice(m, a, h),
         NEW new, new = [ls EXCEPT ![h] = ls[a] \o @, ![a] = <<>>]
  PROVE  Good(r, new, ini \ {a}) /\ SpareKept(m, ls, r, new)
  <1>1. a \in ListHead /\ h \in ListHead
    BY DEF Good
  <1>2. PICK s \in Seq(Entry) : s = ls[a]
    BY <1>1 DEF Good
  <1>3. PICK t \in Seq(Entry) : t = ls[h]
    BY <1>1 DEF Good
  <1>4. PICK u : u = s \o t
    OBVIOUS
  <1>5. /\ Distinct(s) /\ Distinct(t) /\ Rep(m, a, s) /\ Rep(m, h, t) /\ m \in Mem
        /\ Len(s) \in Nat /\ Len(t) \in Nat /\ s # <<>>
    BY <1>1, <1>2, <1>3, GoodFacts DEF Good
  <1>6. \A i \in 1 .. Len(s), j \in 1 .. Len(t) : s[i] # t[j]
    BY <1>1, <1>2, <1>3, GoodFacts DEF Elems
  <1>7. /\ r \in Mem /\ Rep(r, h, u)
        /\ \A x \in Node :
             x # h /\ x \notin Elems(s) /\ x \notin Elems(t) =>
               r.next[x] = m.next[x] /\ r.prev[x] = m.prev[x]
    BY <1>1, <1>4, <1>5, <1>6, RepSplice
  <1>8. /\ u \in Seq(Entry) /\ Len(u) = Len(s) + Len(t)
        /\ \A i \in 1 .. Len(s) + Len(t) : u[i] = IF i <= Len(s) THEN s[i] ELSE t[i - Len(s)]
    BY <1>4, ConcatProperties
  <1>9. /\ new \in [ListHead -> Seq(Entry)] /\ new[h] = u /\ new[a] = <<>>
        /\ \A g \in ListHead : g # a /\ g # h => new[g] = ls[g]
    <2>1. ls \in [ListHead -> Seq(Entry)] /\ <<>> \in Seq(Entry)
      BY DEF Good
    <2> QED
      BY <1>1, <1>2, <1>3, <1>4, <1>8, <2>1
  <1>10. Elems(u) = Elems(s) \union Elems(t)
    <2>1. ASSUME NEW x \in Elems(u) PROVE x \in Elems(s) \union Elems(t)
      <3>1. PICK i \in 1 .. Len(u) : x = u[i]
        BY DEF Elems
      <3>2. CASE i <= Len(s)
        <4>1. i \in 1 .. Len(s) /\ x = s[i]
          BY <1>5, <1>8, <3>1, <3>2
        <4> QED
          BY <4>1 DEF Elems
      <3>3. CASE i > Len(s)
        <4>1. i - Len(s) \in 1 .. Len(t) /\ x = t[i - Len(s)]
          BY <1>5, <1>8, <3>1, <3>3
        <4> QED
          BY <4>1 DEF Elems
      <3> QED
        BY <1>5, <3>2, <3>3
    <2>2. ASSUME NEW i \in 1 .. Len(s) PROVE s[i] \in Elems(u)
      <3>1. i \in 1 .. Len(u) /\ u[i] = s[i]
        BY <1>5, <1>8
      <3> QED
        BY <3>1 DEF Elems
    <2>3. ASSUME NEW i \in 1 .. Len(t) PROVE t[i] \in Elems(u)
      <3>1. PICK j \in 1 .. Len(s) + Len(t) : j = i + Len(s)
        BY <1>5
      <3>2. j \in 1 .. Len(u) /\ u[j] = t[i]
        BY <1>5, <1>8, <3>1
      <3> QED
        BY <3>2 DEF Elems
    <2> QED
      BY <2>1, <2>2, <2>3 DEF Elems
  <1>11. ASSUME NEW g \in ini \ {a} PROVE Rep(r, g, new[g])
    <2>1. CASE g = h
      BY <1>7, <1>9, <2>1
    <2>2. CASE g # h
      <3>0. PICK X : X = {h} \union Elems(s) \union Elems(t)
        OBVIOUS
      <3>1. Untouched(m, r, X)
        BY <1>7, <3>0 DEF Untouched
      <3>2. Elems(s) \subseteq Entry /\ Elems(t) \subseteq Entry
        BY DEF Elems
      <3>3. {a, h} \subseteq ListHead /\ X \subseteq RingsOf(ls, {a, h}) /\ g \notin {a, h}
        BY <1>1, <1>2, <1>3, <2>2, <3>0, <3>2 DEF RingsOf
      <3>4. Rep(r, g, ls[g])
        BY <3>1, <3>3, OtherRings
      <3> QED
        BY <1>9, <2>2, <3>4 DEF Good
    <2> QED
      BY <2>1, <2>2
  <1>12. \A i, j \in 1 .. Len(u) : u[i] = u[j] => i = j
    <2>1. ASSUME NEW i \in 1 .. Len(u), NEW j \in 1 .. Len(u), i < j PROVE u[i] # u[j]
      <3>1. i \in Nat /\ j \in Nat
        BY <1>5, <1>8
      <3>2. CASE j <= Len(s)
        BY <1>5, <1>8, <2>1, <3>1, <3>2 DEF Distinct
      <3>3. CASE i > Len(s)
        <4>1. PICK p \in 1 .. Len(t) : p = i - Len(s)
          BY <1>5, <1>8, <2>1, <3>1, <3>3
        <4>2. PICK q \in 1 .. Len(t) : q = j - Len(s)
          BY <1>5, <1>8, <2>1, <3>1, <3>3
        <4>3. u[i] = t[p] /\ u[j] = t[q] /\ p # q
          BY <1>5, <1>8, <2>1, <3>1, <3>3, <4>1, <4>2
        <4> QED
          BY <1>5, <4>3 DEF Distinct
      <3>4. CASE i <= Len(s) /\ j > Len(s)
        <4>1. i \in 1 .. Len(s) /\ u[i] = s[i] /\ j - Len(s) \in 1 .. Len(t) /\ u[j] = t[j - Len(s)]
          BY <1>5, <1>8, <2>1, <3>1, <3>4
        <4> QED
          BY <1>6, <4>1
      <3> QED
        BY <1>5, <3>1, <3>2, <3>3, <3>4
    <2> QED
      BY <1>5, <1>8, <2>1
  <1>13. Once(new)
    <2>1. ASSUME NEW f \in ListHead, NEW g \in ListHead,
                 NEW i \in 1 .. Len(new[f]), NEW j \in 1 .. Len(new[g]), new[f][i] = new[g][j]
          PROVE  f = g /\ i = j
      <3>0. ASSUME NEW x \in ListHead, x # h, x # a,
                   NEW p \in 1 .. Len(ls[x]), NEW q \in 1 .. Len(u)
            PROVE  ls[x][p] # u[q]
        <4>1. ls[x][p] \notin Elems(s) /\ ls[x][p] \notin Elems(t)
          BY <1>1, <1>2, <1>3, <3>0, GoodFacts
        <4>2. u[q] \in Elems(u)
          BY DEF Elems
        <4> QED
          BY <1>10, <4>1, <4>2
      <3>1. f # a /\ g # a
        <4>1. Len(<<>>) = 0 /\ ~(1 <= 0)
          BY EmptySeq
        <4>2. Len(new[a]) = 0
          BY <1>9, <4>1
        <4>3. 1 .. Len(new[a]) = {}
          BY <4>2
        <4> QED
          BY <4>3
      <3>2. CASE f = h /\ g = h
        BY <1>9, <1>12, <2>1, <3>2
      <3>3. CASE f # h /\ g # h
        BY <1>9, <2>1, <3>1, <3>3 DEF Good, Once
      <3>4. CASE f = h /\ g # h
        <4>1. new[g] = ls[g] /\ new[f] = u
          BY <1>9, <3>1, <3>4
        <4> QED
          BY <2>1, <3>0, <3>1, <3>4, <4>1
      <3>5. CASE f # h /\ g = h
        <4>1. new[f] = ls[f] /\ new[g] = u
          BY <1>9, <3>1, <3>5
        <4> QED
          BY <2>1, <3>0, <3>1, <3>5, <4>1
      <3> QED
        BY <3>2, <3>3, <3>4, <3>5
    <2> QED
      BY <2>1 DEF Once
  <1>14. \A g \in ListHead \ (ini \ {a}) : new[g] = <<>>
    BY <1>9 DEF Good
  <1>15. ASSUME NEW x \in Entry, ~On(x, new)
         PROVE  ~On(x, ls) /\ r.next[x] = m.next[x] /\ r.prev[x] = m.prev[x]
    <2>1. x \notin Elems(u) /\ \A g \in ListHead : g # a /\ g # h => x \notin Elems(ls[g])
      BY <1>1, <1>9, <1>15 DEF On
    <2>2. x \notin Elems(s) /\ x \notin Elems(t) /\ x \in Node /\ x # h
      BY <1>1, <1>10, <2>1, ListAssumption DEF Node
    <2>3. ~On(x, ls)
      BY <1>2, <1>3, <2>1, <2>2 DEF On
    <2> QED
      BY <1>7, <2>2, <2>3
  <1> QED
    BY <1>7, <1>9, <1>11, <1>13, <1>14, <1>15 DEF Good, SpareKept

-----------------------------------------------------------------------------
(* The calls.  list_del and list_move also work on an entry that was only  *)
(* initialised: with next its prev leads to itself too.  SpareBut says so  *)
(* of all entries but e, which a call has in hand.                         *)

SpareBut(m, ls, e) ==
  \A x \in Entry \ {e} : ~On(x, ls) /\ m.next[x] = x => m.prev[x] = x

Whole(m, ls, ini) ==
  /\ Good(m, ls, ini)
  /\ \A x \in Entry : ~On(x, ls) /\ m.next[x] = x => m.prev[x] = x

LEMMA WholeAdd ==
  ASSUME NEW m, NEW ls, NEW ini, Good(m, ls, ini), NEW e \in Entry, ~On(e, ls),
         SpareBut(m, ls, e), NEW h \in ini
  PROVE  /\ Whole(list_add(m, e, h), [ls EXCEPT ![h] = <<e>> \o @], ini)
         /\ Whole(list_add_tail(m, e, h), [ls EXCEPT ![h] = @ \o <<e>>], ini)
  <1>1. h \in ListHead
    BY DEF Good
  <1>2. PICK s \in Seq(Entry) : s = ls[h]
    BY <1>1 DEF Good
  <1>3. Rep(m, h, s) /\ Distinct(s) /\ Len(s) \in Nat
    BY <1>1, <1>2, GoodFacts DEF Good
  <1>4. Nd(h, s, 0) = h /\ Nd(h, s, Len(s) + 1) = h
    BY <1>1, <1>3, NdFacts
  <1>5. ASSUME NEW k \in 0 .. Len(s), NEW t, IsIns(t, s, k, e), NEW r, NEW new,
               r = link(m, e, Nd(h, s, k), Nd(h, s, k + 1)), new = [ls EXCEPT ![h] = t]
        PROVE  Whole(r, new, ini)
    <2>1. Good(r, new, ini) /\ SpareKept(m, ls, r, new) /\ On(e, new)
      BY <1>2, <1>5, GoodAdd
    <2> QED
      BY <2>1 DEF Whole, SpareKept, SpareBut
  <1>6. Whole(list_add(m, e, h), [ls EXCEPT ![h] = <<e>> \o @], ini)
    <2>1. IsIns(<<e>> \o s, s, 0, e) /\ 0 \in 0 .. Len(s)
      BY <1>3, AddFront
    <2>2. m.next[h] = Nd(h, s, 0 + 1)
      BY <1>3, <1>4, <2>1 DEF Rep
    <2>3. list_add(m, e, h) = link(m, e, Nd(h, s, 0), Nd(h, s, 0 + 1))
      BY <1>4, <2>2 DEF list_add
    <2>4. [ls EXCEPT ![h] = <<e>> \o @] = [ls EXCEPT ![h] = <<e>> \o s]
      BY <1>2
    <2> QED
      BY <1>5, <2>1, <2>3, <2>4
  <1>7. Whole(list_add_tail(m, e, h), [ls EXCEPT ![h] = @ \o <<e>>], ini)
    <2>1. IsIns(s \o <<e>>, s, Len(s), e) /\ Len(s) \in 0 .. Len(s)
      BY <1>3, AddBack
    <2>2. m.prev[h] = Nd(h, s, Len(s))
      BY <1>3, <1>4, <2>1 DEF Rep
    <2>3. list_add_tail(m, e, h) = link(m, e, Nd(h, s, Len(s)), Nd(h, s, Len(s) + 1))
      BY <1>4, <2>2 DEF list_add_tail
    <2>4. [ls EXCEPT ![h] = @ \o <<e>>] = [ls EXCEPT ![h] = s \o <<e>>]
      BY <1>2
    <2> QED
      BY <1>5, <2>1, <2>3, <2>4
  <1> QED
    BY <1>6, <1>7

LEMMA WholeUnlink ==
  ASSUME NEW m, NEW ls, NEW ini, Whole(m, ls, ini), NEW e \in Entry,
         On(e, ls) \/ m.next[e] = e,
         NEW r, r = unlink(m, m.prev[e], m.next[e]), NEW new, new = Off(e, ls)
  PROVE  Good(r, new, ini) /\ ~On(e, new) /\ SpareBut(r, new, e)
  <1>1. On(e, ls) \/ (m.next[e] = e /\ m.prev[e] = e)
    BY DEF Whole
  <1>2. /\ Good(r, new, ini) /\ ~On(e, new)
        /\ \A x \in Entry \ {e} : ~On(x, new) =>
             ~On(x, ls) /\ r.next[x] = m.next[x] /\ r.prev[x] = m.prev[x]
    BY <1>1, GoodUnlink DEF Whole
  <1> QED
    BY <1>2 DEF Whole, SpareBut

LEMMA WholeDel ==
  ASSUME NEW m, NEW ls, NEW ini, Whole(m, ls, ini), NEW e \in Entry,
         On(e, ls) \/ m.next[e] = e
  PROVE  /\ Whole(list_del(m, e), Off(e, ls), ini)
         /\ Whole(list_del_init(m, e), Off(e, ls), ini)
  <1>1. PICK u : u = unlink(m, m.prev[e], m.next[e])
    OBVIOUS
  <1>2. PICK new : new = Off(e, ls)
    OBVIOUS
  <1>3. Good(u, new, ini) /\ ~On(e, new) /\ SpareBut(u, new, e)
    BY <1>1, <1>2, WholeUnlink
  <1>4. u \in Mem /\ e \in Node /\ NULL # e
    BY <1>3, ListAssumption DEF Good, Node
  <1>5. ASSUME NEW r \in Mem, r.next[e] = e => r.prev[e] = e,
               \A x \in Node \ {e} : r.next[x] = u.next[x] /\ r.prev[x] = u.prev[x]
        PROVE  Whole(r, new, ini)
    <2>1. Good(r, new, ini)
      BY <1>3, <1>5, GoodSpare
    <2> QED
      BY <1>3, <1>5, <2>1 DEF Whole, SpareBut, Node
  <1>6. Whole(list_del(m, e), new, ini)
    <2>1. PICK r : r = list_del(m, e)
      OBVIOUS
    <2>2. r = [next |-> [u.next EXCEPT ![e] = NULL], prev |-> [u.prev EXCEPT ![e] = NULL]]
      BY <1>1, <2>1 DEF list_del
    <2>3. /\ r \in Mem /\ r.next[e] # e
          /\ \A x \in Node \ {e} : r.next[x] = u.next[x] /\ r.prev[x] = u.prev[x]
      BY <1>4, <2>2 DEF Mem
    <2> QED
      BY <1>5, <2>1, <2>3
  <1>7. Whole(list_del_init(m, e), new, ini)
    <2>1. PICK r : r = list_del_init(m, e)
      OBVIOUS
    <2>2. r = INIT_LIST_HEAD(u, e)
      BY <1>1, <2>1 DEF list_del_init
    <2>3. /\ r \in Mem /\ r.prev[e] = e
          /\ \A x \in Node \ {e} : r.next[x] = u.next[x] /\ r.prev[x] = u.prev[x]
      BY <1>4, <2>2, Initialised
    <2> QED
      BY <1>5, <2>1, <2>3
  <1> QED
    BY <1>2, <1>6, <1>7

LEMMA WholeMove ==
  ASSUME NEW m, NEW ls, NEW ini, Whole(m, ls, ini), NEW e \in Entry,
         On(e, ls) \/ m.next[e] = e, NEW h \in ini
  PROVE  /\ Whole(list_move(m, e, h), [Off(e, ls) EXCEPT ![h] = <<e>> \o @], ini)
         /\ Whole(list_move_tail(m, e, h), [Off(e, ls) EXCEPT ![h] = @ \o <<e>>], ini)
  <1>1. PICK u : u = unlink(m, m.prev[e], m.next[e])
    OBVIOUS
  <1>2. PICK new : new = Off(e, ls)
    OBVIOUS
  <1>3. Good(u, new, ini) /\ ~On(e, new) /\ SpareBut(u, new, e)
    BY <1>1, <1>2, WholeUnlink
  <1>4. /\ Whole(list_add(u, e, h), [new EXCEPT ![h] = <<e>> \o @], ini)
        /\ Whole(list_add_tail(u, e, h), [new EXCEPT ![h] = @ \o <<e>>], ini)
    BY <1>3, WholeAdd
  <1> QED
    BY <1>1, <1>2, <1>4 DEF list_move, list_move_tail

LEMMA WholeJoin ==
  ASSUME NEW m, NEW ls, NEW ini, Whole(m, ls, ini), NEW a \in ini, NEW h \in ini, a # h,
         NEW new, new = [ls EXCEPT ![h] = ls[a] \o @, ![a] = <<>>]
  PROVE  /\ Whole(list_splice_init(m, a, h), new, ini)
         /\ Whole(list_splice(m, a, h), new, IF ls[a] = <<>> THEN ini ELSE ini \ {a})
  <1>1. Good(m, ls, ini) /\ a \in ListHead /\ h \in ListHead
    BY DEF Whole, Good
  <1>2. CASE ls[a] = <<>>
    <2>1. list_splice_init(m, a, h) = m /\ list_splice(m, a, h) = m
      BY <1>1, <1>2, EmptyRing DEF list_splice_init, list_splice
    <2>2. ls \in [ListHead -> Seq(Entry)] /\ ls[h] \in Seq(Entry)
      BY <1>1 DEF Good
    <2>3. <<>> \o ls[h] = ls[h]
      BY <2>2, ConcatEmptySeq
    <2>4. new = ls
      BY <1>1, <1>2, <2>2, <2>3
    <2> QED
      BY <1>2, <2>1, <2>4
  <1>3. CASE ls[a] # <<>>
    <2>1. PICK r : r = splice(m, a, h)
      OBVIOUS
    <2>2. Good(r, new, ini \ {a}) /\ SpareKept(m, ls, r, new)
      BY <1>1, <1>3, <2>1, GoodJoin
    <2>3. list_splice_init(m, a, h) = INIT_LIST_HEAD(r, a) /\ list_splice(m, a, h) = r
      BY <1>1, <1>3, <2>1, EmptyRing DEF list_splice_init, list_splice
    <2>4. a \in ListHead \ (ini \ {a}) /\ (ini \ {a}) \union {a} = ini
      BY <1>1
    <2>5. Good(INIT_LIST_HEAD(r, a), new, ini) /\ SpareKept(r, new, INIT_LIST_HEAD(r, a), new)
      BY <2>2, <2>4, GoodInit
    <2>6. Whole(r, new, ini \ {a})
      BY <2>2 DEF Whole, SpareKept
    <2>7. Whole(INIT_LIST_HEAD(r, a), new, ini)
      BY <2>5, <2>6 DEF Whole, SpareKept
    <2> QED
      BY <1>3, <2>3, <2>6, <2>7
  <1> QED
    BY <1>2, <1>3

-----------------------------------------------------------------------------
(* The safe loop w over the list of w.head: the rest of what the list had  *)
(* at first still is its end, behind the entries the body has left on it.  *)

Loop == [head : ListHead, pos : Node, n : Node, seen : Seq(Entry), all : Seq(Entry)]

WalkOK(w, ls, ini) ==
  /\ w \in Loop /\ w.head \in ini
  /\ Len(w.seen) <= Len(w.all)
  /\ \A i \in 1 .. Len(w.seen) : w.seen[i] = w.all[i]
  /\ w.pos = Nd(w.head, w.all, Len(w.seen) + 1)
  /\ Len(w.seen) < Len(w.all) => w.n = Nd(w.head, w.all, Len(w.seen) + 2)
  /\ \E d \in 0 .. Len(w.seen) :
       /\ Len(ls[w.head]) = d + (Len(w.all) - Len(w.seen))
       /\ \A i \in 1 .. Len(w.all) - Len(w.seen) : ls[w.head][d + i] = w.all[Len(w.seen) + i]

ListInv ==
  /\ Whole(mem, lists, inited)
  /\ walk # NULL => WalkOK(walk, lists, inited)

LEMMA WalkBegins ==
  ASSUME NEW m, NEW ls, NEW ini, Good(m, ls, ini), NEW h \in ini, NEW w,
         w = [head |-> h, pos |-> m.next[h], n |-> m.next[m.next[h]],
              seen |-> <<>>, all |-> ls[h]]
  PROVE  WalkOK(w, ls, ini)
  <1>1. h \in ListHead
    BY DEF Good
  <1>2. PICK s \in Seq(Entry) : s = ls[h]
    BY <1>1 DEF Good
  <1>3. Rep(m, h, s) /\ Distinct(s) /\ Len(s) \in Nat
    BY <1>1, <1>2, GoodFacts DEF Good
  <1>4. m.next[h] = Nd(h, s, 1) /\ Nd(h, s, 1) \in Node
    <2>1. m.next[Nd(h, s, 0)] = Nd(h, s, 0 + 1)
      BY <1>3 DEF Rep
    <2> QED
      BY <1>1, <1>3, <2>1, NdFacts
  <1>5. Len(s) > 0 => m.next[Nd(h, s, 1)] = Nd(h, s, 2) /\ Nd(h, s, 2) \in Node
    <2>1. Len(s) > 0 => m.next[Nd(h, s, 1)] = Nd(h, s, 1 + 1)
      BY <1>3 DEF Rep
    <2> QED
      BY <1>1, <1>3, <2>1, NdFacts
  <1>6. Len(s) = 0 => Nd(h, s, 1) = h
    BY DEF Nd
  <1>7. <<>> \in Seq(Entry) /\ Len(<<>>) = 0
    BY EmptySeq
  <1>8. /\ w.head = h /\ w.pos = Nd(h, s, 1) /\ w.n = m.next[Nd(h, s, 1)]
        /\ w.seen = <<>> /\ w.all = s /\ w \in Loop
    <2>1. m.next[Nd(h, s, 1)] \in Node
      BY <1>1, <1>3, <1>4, <1>5, <1>6 DEF Node
    <2> QED
      BY <1>1, <1>2, <1>4, <1>7, <2>1 DEF Loop
  <1>9. /\ Len(ls[w.head]) = 0 + (Len(w.all) - Len(w.seen))
        /\ \A i \in 1 .. Len(w.all) - Len(w.seen) : ls[w.head][0 + i] = w.all[Len(w.seen) + i]
    BY <1>2, <1>3, <1>7, <1>8
  <1>10. \E d \in 0 .. Len(w.seen) :
           /\ Len(ls[w.head]) = d + (Len(w.all) - Len(w.seen))
           /\ \A i \in 1 .. Len(w.all) - Len(w.seen) : ls[w.head][d + i] = w.all[Len(w.seen) + i]
    <2>1. 0 \in 0 .. Len(w.seen)
      BY <1>7, <1>8
    <2> QED
      BY <1>9, <2>1
  <1> QED
    BY <1>1, <1>3, <1>5, <1>7, <1>8, <1>10 DEF WalkOK

\* The loop is at an entry of the list, behind those it left there.
LEMMA WalkPos ==
  ASSUME NEW m, NEW ls, NEW ini, Good(m, ls, ini), NEW w, WalkOK(w, ls, ini), w.pos # w.head
  PROVE  /\ w.pos \in Entry /\ On(w.pos, ls)
         /\ \E k \in 1 .. Len(ls[w.head]) : ls[w.head][k] = w.pos
  <1>1. PICK hd \in ListHead : hd = w.head
    BY DEF WalkOK, Loop
  <1>2. PICK all \in Seq(Entry) : all = w.all
    BY DEF WalkOK, Loop
  <1>3. PICK c \in Nat : c = Len(w.seen)
    BY DEF WalkOK, Loop
  <1>4. PICK s \in Seq(Entry) : s = ls[hd]
    BY DEF Good
  <1>5. Len(all) \in Nat /\ Len(s) \in Nat
    OBVIOUS
  <1>6. c + 1 \in 1 .. Len(all) /\ w.pos = all[c + 1]
    <2>1. w.pos = Nd(hd, all, c + 1)
      BY <1>1, <1>2, <1>3 DEF WalkOK
    <2> QED
      BY <1>1, <2>1 DEF Nd
  <1>7. PICK d \in 0 .. c : /\ Len(s) = d + (Len(all) - c)
                           /\ \A i \in 1 .. Len(all) - c : s[d + i] = all[c + i]
    BY <1>1, <1>2, <1>3, <1>4 DEF WalkOK
  <1>8. d + 1 \in 1 .. Len(s) /\ s[d + 1] = w.pos
    <2>1. d \in Nat /\ Len(s) = d + (Len(all) - c) /\ c + 1 <= Len(all)
      BY <1>5, <1>6, <1>7
    <2>2. 1 \in 1 .. Len(all) - c
      BY <1>5, <2>1
    <2> QED
      BY <1>5, <1>6, <1>7, <2>1, <2>2
  <1>9. s[d + 1] \in Entry
    BY <1>8
  <1>10. \E k \in 1 .. Len(s) : s[k] = w.pos
    BY <1>8
  <1> QED
    BY <1>1, <1>4, <1>8, <1>9, <1>10 DEF On, Elems

LEMMA WalkGoesOn ==
  ASSUME NEW ls, NEW ini, NEW w, WalkOK(w, ls, ini), w.pos # w.head,
         NEW r, NEW new, Good(r, new, ini), ls \in [ListHead -> Seq(Entry)],
         Distinct(ls[w.head]),
         \/ new[w.head] = ls[w.head]
         \/ \E k \in 1 .. Len(ls[w.head]) :
              ls[w.head][k] = w.pos /\ IsDel(new[w.head], ls[w.head], k)
  PROVE  WalkOK(step(w, r), new, ini)
  <1>1. PICK hd \in ListHead : hd = w.head
    BY DEF WalkOK, Loop
  <1>2. PICK all \in Seq(Entry) : all = w.all
    BY DEF WalkOK, Loop
  <1>3. PICK seen \in Seq(Entry) : seen = w.seen
    BY DEF WalkOK, Loop
  <1>4. PICK s \in Seq(Entry) : s = ls[hd]
    OBVIOUS
  <1>5. PICK t \in Seq(Entry) : t = new[hd]
    BY DEF Good
  <1>6. PICK c \in Nat : c = Len(seen)
    OBVIOUS
  <1>7. PICK l \in Nat : l = Len(all)
    OBVIOUS
  <1>8. Len(s) \in Nat /\ Len(t) \in Nat /\ hd \in ini
    BY <1>1 DEF WalkOK
  <1>9. c + 1 \in 1 .. l /\ w.pos = all[c + 1] /\ w.pos \in Entry
    <2>1. w.pos = Nd(hd, all, c + 1)
      BY <1>1, <1>2, <1>3, <1>6 DEF WalkOK
    <2> QED
      BY <1>1, <1>7, <2>1 DEF Nd
  <1>10. w.n = Nd(hd, all, c + 2) /\ w.n \in Node
    <2>1. c < l
      BY <1>9
    <2> QED
      BY <1>1, <1>2, <1>3, <1>6, <1>7, <2>1 DEF WalkOK, Loop
  <1>11. PICK d \in 0 .. c : /\ Len(s) = d + (l - c)
                            /\ \A i \in 1 .. l - c : s[d + i] = all[c + i]
    BY <1>1, <1>2, <1>3, <1>4, <1>6, <1>7 DEF WalkOK
  <1>11d. d \in Nat /\ d <= c /\ Len(s) = d + (l - c)
    BY <1>11
  <1>12. PICK x \in 0 .. c + 1 : /\ Len(t) = x + (l - (c + 1))
                                /\ \A i \in 1 .. l - (c + 1) : t[x + i] = all[c + 1 + i]
    <2>1. CASE t = s
      <3>1. d + 1 \in 0 .. c + 1 /\ Len(t) = (d + 1) + (l - (c + 1))
        <4>1. c + 1 <= l
          BY <1>9
        <4> QED
          BY <1>11d, <2>1, <4>1
      <3>2. ASSUME NEW i \in 1 .. l - (c + 1) PROVE t[(d + 1) + i] = all[c + 1 + i]
        <4>1. PICK j \in 1 .. l - c : j = i + 1
          BY <1>9
        <4>a. s[d + j] = all[c + j]
          BY <1>11
        <4>b. d + j = (d + 1) + i /\ c + j = c + 1 + i
          BY <1>11d, <4>1
        <4>2. s[d + j] = all[c + j] /\ d + j = (d + 1) + i /\ c + j = c + 1 + i
          BY <4>a, <4>b
        <4> QED
          BY <2>1, <4>2
      <3> QED
        BY <3>1, <3>2
    <2>2. CASE t # s
      <3>1. PICK k \in 1 .. Len(s) : s[k] = w.pos /\ IsDel(t, s, k)
        BY <1>1, <1>4, <1>5, <2>2
      <3>2. d + 1 \in 1 .. Len(s) /\ s[d + 1] = w.pos
        BY <1>8, <1>9, <1>11
      <3>3. k = d + 1
        BY <1>1, <1>4, <3>1, <3>2 DEF Distinct
      <3>4. d \in 0 .. c + 1 /\ Len(t) = d + (l - (c + 1))
        BY <1>8, <1>9, <1>11, <3>1 DEF IsDel
      <3>5. ASSUME NEW i \in 1 .. l - (c + 1) PROVE t[d + i] = all[c + 1 + i]
        <4>1. PICK j \in 1 .. l - c : j = i + 1
          BY <1>9
        <4>a. s[d + j] = all[c + j]
          BY <1>11
        <4>b. d + j = (d + i) + 1 /\ c + j = c + 1 + i
          BY <1>11d, <4>1
        <4>2. s[d + j] = all[c + j] /\ d + j = (d + i) + 1 /\ c + j = c + 1 + i
          BY <4>a, <4>b
        <4>3. d + i \in 1 .. Len(t) /\ ~(d + i < k)
          BY <1>9, <1>11, <3>3, <3>4
        <4>4. t[d + i] = s[(d + i) + 1]
          BY <3>1, <4>3 DEF IsDel
        <4> QED
          BY <4>2, <4>4
      <3> QED
        BY <3>4, <3>5
    <2> QED
      BY <2>1, <2>2
  <1>13. Rep(r, hd, t) /\ Distinct(t)
    BY <1>5, <1>8, GoodFacts DEF Good
  <1>14. /\ r.next[w.n] \in Node
         /\ c + 1 < l => r.next[w.n] = Nd(hd, all, c + 3)
    <2>1. CASE c + 1 < l
      <3>1. w.n = all[c + 2]
        BY <1>7, <1>10, <2>1 DEF Nd
      <3>2. 1 \in 1 .. l - (c + 1) /\ c + 1 + 1 = c + 2 /\ x + 1 \in 1 .. Len(t)
        BY <1>8, <1>12, <2>1
      <3>3. t[x + 1] = all[c + 2]
        BY <1>12, <3>2
      <3>4. w.n = Nd(hd, t, x + 1)
        BY <3>1, <3>2, <3>3 DEF Nd
      <3>5. r.next[Nd(hd, t, x + 1)] = Nd(hd, t, x + 1 + 1) /\ x + 1 + 1 = x + 2
        BY <1>8, <1>13, <3>2 DEF Rep
      <3>6. CASE c + 3 <= l
        <4>1. 2 \in 1 .. l - (c + 1) /\ c + 1 + 2 = c + 3 /\ x + 2 \in 1 .. Len(t)
          <5>1. x \in Nat /\ Len(t) = x + (l - (c + 1))
            BY <1>12
          <5>2. 2 \in 1 .. l - (c + 1) /\ c + 1 + 2 = c + 3
            BY <3>6
          <5>3. x + 2 <= Len(t)
            BY <3>6, <5>1
          <5>4. x + 2 \in 1 .. Len(t)
            BY <1>8, <5>1, <5>3
          <5> QED
            BY <5>2, <5>4
        <4>2. t[x + 2] = all[c + 3]
          BY <1>12, <4>1
        <4>3. Nd(hd, t, x + 2) = Nd(hd, all, c + 3) /\ Nd(hd, t, x + 2) \in Node
          BY <1>7, <3>6, <4>1, <4>2 DEF Nd, Node
        <4> QED
          BY <3>4, <3>5, <4>3
      <3>7. CASE c + 3 > l
        <4>1. Nd(hd, t, x + 2) = hd /\ Nd(hd, all, c + 3) = hd
          BY <1>7, <1>8, <1>12, <2>1, <3>7 DEF Nd
        <4> QED
          BY <3>4, <3>5, <4>1 DEF Node
      <3> QED
        BY <3>6, <3>7
    <2>2. CASE c + 1 = l
      <3>1. w.n = hd
        BY <1>7, <1>10, <2>2 DEF Nd
      <3>2. r.next[Nd(hd, t, 0)] = Nd(hd, t, 0 + 1)
        BY <1>8, <1>13 DEF Rep
      <3>3. Nd(hd, t, 0) = hd /\ Nd(hd, t, 0 + 1) \in Node
        BY <1>13, NdFacts
      <3> QED
        BY <2>2, <3>1, <3>2, <3>3
    <2> QED
      BY <1>9, <2>1, <2>2
  <1>15. PICK v : v = step(w, r)
    OBVIOUS
  <1>16. w \in Loop
    BY DEF WalkOK
  <1>17. Append(seen, w.pos) \in Seq(Entry) /\ Len(Append(seen, w.pos)) = c + 1
    BY <1>6, <1>9
  <1>18. /\ v \in Loop /\ v.head = hd /\ v.all = all /\ v.pos = w.n /\ v.n = r.next[w.n]
         /\ v.seen = Append(seen, w.pos)
    BY <1>1, <1>2, <1>3, <1>10, <1>14, <1>15, <1>16, <1>17 DEF step, Loop
  <1>19. \A i \in 1 .. c + 1 : v.seen[i] = all[i]
    <2>1. \A i \in 1 .. c : seen[i] = all[i]
      BY <1>2, <1>3, <1>6 DEF WalkOK
    <2>2. \A i \in 1 .. c + 1 : v.seen[i] = IF i <= c THEN seen[i] ELSE w.pos
      BY <1>6, <1>9, <1>18
    <2> QED
      BY <1>9, <2>1, <2>2
  <1>20. Len(v.seen) = c + 1 /\ Len(v.all) = l /\ c + 1 <= l
    BY <1>7, <1>9, <1>17, <1>18
  <1>21. /\ v.pos = Nd(v.head, v.all, Len(v.seen) + 1)
         /\ Len(v.seen) < Len(v.all) => v.n = Nd(v.head, v.all, Len(v.seen) + 2)
    <2>1. Len(v.seen) + 1 = c + 2 /\ Len(v.seen) + 2 = c + 3
      BY <1>20
    <2> QED
      BY <1>10, <1>14, <1>18, <1>20, <2>1
  <1>22. \E y \in 0 .. Len(v.seen) :
           /\ Len(new[v.head]) = y + (Len(v.all) - Len(v.seen))
           /\ \A i \in 1 .. Len(v.all) - Len(v.seen) : new[v.head][y + i] = v.all[Len(v.seen) + i]
    <2>1. x \in 0 .. Len(v.seen) /\ new[v.head] = t /\ v.all = all
      BY <1>5, <1>18, <1>20
    <2>2. Len(v.all) - Len(v.seen) = l - (c + 1) /\ Len(v.seen) = c + 1
      BY <1>20
    <2>3. /\ Len(new[v.head]) = x + (Len(v.all) - Len(v.seen))
          /\ \A i \in 1 .. Len(v.all) - Len(v.seen) : new[v.head][x + i] = v.all[Len(v.seen) + i]
      BY <1>12, <2>1, <2>2, Zenon
    <2> QED
      BY <2>1, <2>3
  <1> QED
    BY <1>8, <1>15, <1>18, <1>19, <1>20, <1>21, <1>22 DEF WalkOK

-----------------------------------------------------------------------------
(* The steps of a program.                                                 *)

LEMMA OnListIsOn ==
  ASSUME Good(mem, lists, inited), NEW e
  PROVE  OnList(e) <=> On(e, lists)
  <1>1. ASSUME NEW h \in ListHead, e \in Elems(lists[h]) PROVE h \in inited
    <2>1. CASE h \notin inited
      <3>1. lists[h] = <<>> /\ Len(<<>>) = 0
        BY <2>1, EmptySeq DEF Good
      <3>2. 1 .. Len(lists[h]) = {}
        BY <3>1
      <3> QED
        BY <1>1, <3>2 DEF Elems
    <2> QED
      BY <2>1
  <1>2. inited \subseteq ListHead
    BY DEF Good
  <1> QED
    BY <1>1, <1>2 DEF OnList, On

LEMMA InitHeadStep ==
  ASSUME ListInv, NEW h \in ListHead, init_head(h)
  PROVE  ListInv'
  <1>1. Good(mem, lists, inited) /\ h \in ListHead \ inited
    BY DEF ListInv, Whole, init_head
  <1>2. Good(mem', lists', inited') /\ SpareKept(mem, lists, mem', lists')
    BY <1>1, GoodInit DEF init_head
  <1>3. Whole(mem', lists', inited')
    BY <1>2 DEF ListInv, Whole, SpareKept
  <1>4. walk # NULL => WalkOK(walk, lists, inited')
    BY DEF ListInv, init_head, WalkOK
  <1> QED
    BY <1>3, <1>4 DEF ListInv, init_head

LEMMA InitEntryStep ==
  ASSUME ListInv, NEW e \in Entry, init_entry(e)
  PROVE  ListInv'
  <1>1. Good(mem, lists, inited) /\ ~On(e, lists) /\ mem \in Mem /\ e \in Node
    BY OnListIsOn DEF ListInv, Whole, init_entry, Good, Node
  <1>2. PICK r : r = mem'
    OBVIOUS
  <1>3. /\ r \in Mem /\ r.prev[e] = e
        /\ \A x \in Node \ {e} : r.next[x] = mem.next[x] /\ r.prev[x] = mem.prev[x]
    <2>1. r = INIT_LIST_HEAD(mem, e)
      BY <1>2 DEF init_entry
    <2> QED
      BY <1>1, <2>1, Initialised
  <1>4. Good(r, lists, inited)
    BY <1>1, <1>3, GoodSpare
  <1>5. Whole(r, lists, inited)
    BY <1>3, <1>4 DEF ListInv, Whole, Node
  <1> QED
    BY <1>2, <1>5 DEF ListInv, init_entry

LEMMA AddStep ==
  ASSUME ListInv, NEW e \in Entry, NEW h \in ListHead, add(e, h)
  PROVE  ListInv'
  <1>1. Good(mem, lists, inited) /\ walk' = NULL
    BY DEF ListInv, Whole, add
  <1>2. ~On(e, lists) /\ SpareBut(mem, lists, e) /\ h \in inited
    BY <1>1, OnListIsOn DEF add, ListInv, Whole, SpareBut
  <1>3. /\ Whole(list_add(mem, e, h), [lists EXCEPT ![h] = <<e>> \o @], inited)
        /\ Whole(list_add_tail(mem, e, h), [lists EXCEPT ![h] = @ \o <<e>>], inited)
    BY <1>1, <1>2, WholeAdd
  <1> QED
    BY <1>1, <1>3 DEF add, ListInv

LEMMA DelStep ==
  ASSUME ListInv, NEW e \in Entry, del(e)
  PROVE  ListInv'
  <1>1. Good(mem, lists, inited) /\ walk' = NULL
    BY DEF ListInv, Whole, del
  <1>2. On(e, lists) \/ mem.next[e] = e
    BY <1>1, OnListIsOn DEF del, Deletable
  <1>3. /\ Whole(list_del(mem, e), Off(e, lists), inited)
        /\ Whole(list_del_init(mem, e), Off(e, lists), inited)
    BY <1>2, WholeDel DEF ListInv
  <1> QED
    BY <1>1, <1>3 DEF del, ListInv

LEMMA MoveStep ==
  ASSUME ListInv, NEW e \in Entry, NEW h \in ListHead, move(e, h)
  PROVE  ListInv'
  <1>1. Good(mem, lists, inited) /\ walk' = NULL
    BY DEF ListInv, Whole, move
  <1>2. (On(e, lists) \/ mem.next[e] = e) /\ h \in inited
    BY <1>1, OnListIsOn DEF move, Deletable
  <1>3. /\ Whole(list_move(mem, e, h), [Off(e, lists) EXCEPT ![h] = <<e>> \o @], inited)
        /\ Whole(list_move_tail(mem, e, h), [Off(e, lists) EXCEPT ![h] = @ \o <<e>>], inited)
    BY <1>2, WholeMove DEF ListInv
  <1> QED
    BY <1>1, <1>3 DEF move, ListInv

LEMMA JoinStep ==
  ASSUME ListInv, NEW a \in ListHead, NEW h \in ListHead, join(a, h)
  PROVE  ListInv'
  <1>1. walk' = NULL /\ a \in inited /\ h \in inited /\ a # h
    BY DEF join
  <1>2. PICK new : new = [lists EXCEPT ![h] = lists[a] \o @, ![a] = <<>>]
    OBVIOUS
  <1>3. /\ Whole(list_splice_init(mem, a, h), new, inited)
        /\ Whole(list_splice(mem, a, h), new, IF lists[a] = <<>> THEN inited ELSE inited \ {a})
    BY <1>1, <1>2, WholeJoin DEF ListInv
  <1> QED
    BY <1>1, <1>2, <1>3 DEF join, ListInv

LEMMA BeginStep ==
  ASSUME ListInv, NEW h \in ListHead, for_each_safe(h)
  PROVE  ListInv'
  <1>1. Good(mem, lists, inited) /\ h \in inited
    BY DEF ListInv, Whole, for_each_safe
  <1>2. PICK w : w = walk'
    OBVIOUS
  <1>3. w = [head |-> h, pos |-> mem.next[h], n |-> mem.next[mem.next[h]],
             seen |-> <<>>, all |-> lists[h]]
    BY <1>2 DEF for_each_safe
  <1>4. WalkOK(w, lists, inited)
    BY <1>1, <1>3, WalkBegins
  <1> QED
    BY <1>2, <1>4 DEF ListInv, for_each_safe

LEMMA WalkStep ==
  ASSUME ListInv, walk_body
  PROVE  ListInv'
  <1>1. /\ Whole(mem, lists, inited) /\ Good(mem, lists, inited)
        /\ WalkOK(walk, lists, inited) /\ walk.pos # walk.head
    BY DEF ListInv, Whole, walk_body
  <1>2. PICK e \in Entry : e = walk.pos /\ On(e, lists)
    BY <1>1, WalkPos
  <1>3. PICK hd \in ListHead : hd = walk.head
    BY <1>1 DEF WalkOK, Loop
  <1>4. PICK k \in 1 .. Len(lists[hd]) : e = lists[hd][k]
    BY <1>1, <1>2, <1>3, WalkPos
  <1>5. IsDel(Off(e, lists)[hd], lists[hd], k)
    BY <1>1, <1>4, OffFacts
  <1>6. /\ Whole(mem', lists', inited)
        /\ lists'[hd] = lists[hd] \/ IsDel(lists'[hd], lists[hd], k)
    <2>1. CASE UNCHANGED <<mem, lists>>
      BY <1>1, <2>1
    <2>2. CASE /\ mem' \in {list_del(mem, e), list_del_init(mem, e)}
               /\ lists' = Off(e, lists)
      <3>1. /\ Whole(list_del(mem, e), Off(e, lists), inited)
            /\ Whole(list_del_init(mem, e), Off(e, lists), inited)
        BY <1>1, <1>2, WholeDel
      <3> QED
        BY <1>5, <2>2, <3>1
    <2>3. ASSUME NEW h \in inited \ {hd}, mem' = list_move_tail(mem, e, h),
                 lists' = [Off(e, lists) EXCEPT ![h] = @ \o <<e>>]
          PROVE  Whole(mem', lists', inited) /\ IsDel(lists'[hd], lists[hd], k)
      <3>1. Whole(list_move_tail(mem, e, h), [Off(e, lists) EXCEPT ![h] = @ \o <<e>>], inited)
        BY <1>1, <1>2, WholeMove
      <3>2. lists'[hd] = Off(e, lists)[hd]
        BY <2>3 DEF Off
      <3> QED
        BY <1>5, <2>3, <3>1, <3>2
    <2> QED
      BY <1>2, <1>3, <2>1, <2>2, <2>3 DEF walk_body
  <1>7. lists \in [ListHead -> Seq(Entry)] /\ Distinct(lists[hd]) /\ Good(mem', lists', inited)
    BY <1>1, <1>6, GoodFacts DEF Whole, Good
  <1>8. WalkOK(step(walk, mem'), lists', inited)
    <2>1. \/ lists'[hd] = lists[hd]
          \/ \E j \in 1 .. Len(lists[hd]) :
               lists[hd][j] = walk.pos /\ IsDel(lists'[hd], lists[hd], j)
      BY <1>2, <1>4, <1>6
    <2> QED
      BY <1>1, <1>3, <1>7, <2>1, WalkGoesOn
  <1> QED
    BY <1>6, <1>8 DEF ListInv, walk_body

LEMMA ListNext ==
  ListInv /\ [Next]_vars => ListInv'
  <1> SUFFICES ASSUME ListInv, [Next]_vars PROVE ListInv'
    OBVIOUS
  <1>1. CASE walk_end
    BY <1>1 DEF ListInv, walk_end
  <1>2. CASE UNCHANGED vars
    BY <1>2 DEF ListInv, vars
  <1>3. CASE Next
    BY <1>1, <1>3, InitHeadStep, BeginStep, InitEntryStep, DelStep, AddStep, MoveStep,
       JoinStep, WalkStep DEF Next
  <1> QED
    BY <1>2, <1>3

LEMMA ListInit ==
  Init => ListInv
  <1> SUFFICES ASSUME Init PROVE ListInv
    OBVIOUS
  <1>1. mem \in Mem /\ lists \in [ListHead -> Seq(Entry)] /\ inited = {} /\ walk = NULL
    BY DEF Init, Mem
  <1>2. \A h \in ListHead : lists[h] = <<>>
    BY DEF Init
  <1>3. Once(lists)
    <2>1. \A h \in ListHead : 1 .. Len(lists[h]) = {}
      <3>1. Len(<<>>) = 0
        BY EmptySeq
      <3>2. 1 .. Len(<<>>) = {}
        BY <3>1
      <3> QED
        BY <1>2, <3>2
    <2> QED
      BY <2>1 DEF Once
  <1>4. \A x \in Entry : mem.next[x] # x
    BY ListAssumption DEF Init, Node
  <1> QED
    BY <1>1, <1>2, <1>3, <1>4 DEF ListInv, Whole, Good

\* The invariant is kept by every function of list.h and every turn of the safe loop.
THEOREM ListCorrect == Spec => []ListInv
  BY ListInit, ListNext, PTL DEF Spec

-----------------------------------------------------------------------------
(* What the invariant gives.                                               *)

\* The pointers of all nodes are nodes or NULL, the history has sequences of entries,
\* and the loop's variables never leave the nodes (a pos or n of NULL would be followed).
THEOREM ListTypeCorrect == Spec => []ListTypeOK
  <1>1. ListInv => ListTypeOK
    BY DEF ListInv, Whole, Good, WalkOK, Loop, Mem, ListTypeOK
  <1> QED
    BY <1>1, ListCorrect, PTL

\* After any calls of list.h that keep to its contract, however many heads and entries
\* there are, next leads through each list in the order the calls describe and prev back.
THEOREM PointersRight == Spec => []Represents
  <1>1. ListInv => Represents
    <2> SUFFICES ASSUME ListInv, NEW h \in inited, NEW i \in 1 .. Len(lists[h]) + 1
                 PROVE  /\ mem.next[Ring(h)[i]] = Ring(h)[i + 1]
                        /\ mem.prev[Ring(h)[i + 1]] = Ring(h)[i]
      BY DEF Represents
    <2>1. h \in ListHead /\ h \in Node
      BY DEF ListInv, Whole, Good, Node
    <2>2. PICK s \in Seq(Entry) : s = lists[h]
      BY <2>1 DEF ListInv, Whole, Good
    <2>3. Rep(mem, h, s) /\ Len(s) \in Nat
      BY <2>2 DEF ListInv, Whole, Good
    <2>4. s \in Seq(Node) /\ <<h>> \in Seq(Node) /\ Len(<<h>>) = 1 /\ <<h>>[1] = h
      BY <2>1 DEF Node
    <2>5. /\ <<h>> \o s \in Seq(Node) /\ Len(<<h>> \o s) = 1 + Len(s)
          /\ \A j \in 1 .. 1 + Len(s) : (<<h>> \o s)[j] = IF j <= 1 THEN <<h>>[j] ELSE s[j - 1]
      BY <2>4, ConcatProperties
    <2>6. \A j \in 1 .. (1 + Len(s)) + 1 :
            ((<<h>> \o s) \o <<h>>)[j] =
              IF j <= 1 + Len(s) THEN (<<h>> \o s)[j] ELSE <<h>>[j - (1 + Len(s))]
      BY <2>4, <2>5, ConcatProperties
    <2>7. ASSUME NEW j \in 1 .. Len(s) + 2 PROVE Ring(h)[j] = Nd(h, s, j - 1)
      <3>1. Ring(h) = (<<h>> \o s) \o <<h>>
        BY <2>2 DEF Ring
      <3>2. CASE j = 1
        BY <2>3, <2>4, <2>5, <2>6, <3>1, <3>2 DEF Nd
      <3>3. CASE 1 < j /\ j <= 1 + Len(s)
        BY <2>3, <2>5, <2>6, <3>1, <3>3 DEF Nd
      <3>4. CASE j = Len(s) + 2
        BY <2>3, <2>4, <2>6, <3>1, <3>4 DEF Nd
      <3> QED
        BY <2>3, <3>2, <3>3, <3>4
    <2>8. i \in 1 .. Len(s) + 2 /\ i + 1 \in 1 .. Len(s) + 2 /\ i - 1 \in 0 .. Len(s)
      BY <2>2, <2>3
    <2>9. Ring(h)[i] = Nd(h, s, i - 1) /\ Ring(h)[i + 1] = Nd(h, s, (i - 1) + 1)
      <3>1. (i + 1) - 1 = (i - 1) + 1
        BY <2>8
      <3>2. Ring(h)[i + 1] = Nd(h, s, (i + 1) - 1)
        BY <2>7, <2>8
      <3> QED
        BY <2>7, <2>8, <3>1, <3>2
    <2> QED
      BY <2>3, <2>8, <2>9 DEF Rep
  <1> QED
    BY <1>1, ListCorrect, PTL

\* list_for_each_safe meets the entries the list had when the loop began, each once and
\* in order, whether its body leaves them, deletes them or moves them to another list.
THEOREM WalkIsSound == Spec => []WalkSound
  <1>1. ListInv => WalkSound
    <2> SUFFICES ASSUME ListInv, walk # NULL
                 PROVE  /\ Len(walk.seen) <= Len(walk.all)
                        /\ walk.seen \o <<walk.pos>> =
                             SubSeq(walk.all \o <<walk.head>>, 1, Len(walk.seen) + 1)
      BY DEF WalkSound
    <2>1. WalkOK(walk, lists, inited)
      BY DEF ListInv
    <2>2. PICK seen \in Seq(Entry) : seen = walk.seen
      BY <2>1 DEF WalkOK, Loop
    <2>3. PICK all \in Seq(Entry) : all = walk.all
      BY <2>1 DEF WalkOK, Loop
    <2>4. PICK hd \in ListHead : hd = walk.head
      BY <2>1 DEF WalkOK, Loop
    <2>5. PICK pos \in Node : pos = walk.pos
      BY <2>1 DEF WalkOK, Loop
    <2>6. PICK c \in Nat : c = Len(seen)
      OBVIOUS
    <2>7. PICK l \in Nat : l = Len(all)
      OBVIOUS
    <2>8. c <= l /\ pos = Nd(hd, all, c + 1) /\ \A i \in 1 .. c : seen[i] = all[i]
      BY <2>1, <2>2, <2>3, <2>4, <2>5, <2>6, <2>7 DEF WalkOK
    <2>9. /\ seen \in Seq(Node) /\ all \in Seq(Node)
          /\ <<pos>> \in Seq(Node) /\ Len(<<pos>>) = 1 /\ <<pos>>[1] = pos
          /\ <<hd>> \in Seq(Node) /\ Len(<<hd>>) = 1 /\ <<hd>>[1] = hd
      BY DEF Node
    <2>10. PICK x : x = seen \o <<pos>>
      OBVIOUS
    <2>11. PICK y : y = all \o <<hd>>
      OBVIOUS
    <2>12. /\ x \in Seq(Node) /\ Len(x) = c + 1
           /\ \A i \in 1 .. c + 1 : x[i] = IF i <= c THEN seen[i] ELSE <<pos>>[i - c]
      BY <2>6, <2>9, <2>10, ConcatProperties
    <2>13. /\ y \in Seq(Node) /\ Len(y) = l + 1
           /\ \A i \in 1 .. l + 1 : y[i] = IF i <= l THEN all[i] ELSE <<hd>>[i - l]
      BY <2>7, <2>9, <2>11, ConcatProperties
    <2>14. PICK z : z = SubSeq(y, 1, c + 1)
      OBVIOUS
    <2>15. z \in Seq(Node) /\ Len(z) = c + 1 /\ \A i \in 1 .. c + 1 : z[i] = y[i]
      <3>1. \A i \in 1 .. c + 1 : y[i] \in Node
        BY <2>8, <2>13
      <3>2. 1 \in Int /\ c + 1 \in Int /\ 1 <= c + 1 /\ c + 1 - 1 + 1 = c + 1
        OBVIOUS
      <3>3. /\ z \in Seq(Node) /\ Len(z) = c + 1 - 1 + 1
            /\ \A i \in 1 .. c + 1 - 1 + 1 : z[i] = y[1 + i - 1]
        BY <2>14, <3>1, <3>2, SubSeqProperties
      <3> QED
        BY <3>2, <3>3
    <2>16. ASSUME NEW i \in 1 .. c + 1 PROVE x[i] = z[i]
      <3>1. z[i] = y[i] /\ i \in 1 .. l + 1
        BY <2>8, <2>15
      <3>2. CASE i <= c
        BY <2>8, <2>12, <2>13, <3>1, <3>2
      <3>3. CASE i = c + 1
        <4>1. x[i] = pos
          BY <2>9, <2>12, <3>3
        <4>2. CASE i <= l
          BY <2>7, <2>8, <2>13, <3>1, <3>3, <4>1, <4>2 DEF Nd
        <4>3. CASE i = l + 1
          BY <2>7, <2>8, <2>9, <2>13, <3>1, <3>3, <4>1, <4>3 DEF Nd
        <4> QED
          BY <3>1, <4>2, <4>3
      <3> QED
        BY <3>2, <3>3
    <2>17. x = z
      BY <2>12, <2>15, <2>16, SeqEqual
    <2> QED
      BY <2>2, <2>3, <2>4, <2>5, <2>6, <2>7, <2>8, <2>10, <2>11, <2>14, <2>17
  <1> QED
    BY <1>1, ListCorrect, PTL
=============================================================================
