---------------------------- MODULE SliceProofs ----------------------------
(***************************************************************************)
(* Proofs about posixc_slice for any number of slices and blocks, any      *)
(* inline_cap and any strings: storage is never overrun or shared, slices  *)
(* hold what they should, and memory leaks in two ways only.  Two facts    *)
(* about the numbers of a program are hypotheses, see Slice: RoomForNUL,   *)
(* which is up to the program, and NumbersRight, which is up to utils.c.   *)
(***************************************************************************)
EXTENDS Slice, SequenceTheorems, TLAPS

-----------------------------------------------------------------------------
(* Memory.                                                                 *)

LEMMA SizeFacts ==
  /\ inline_cap \in Nat /\ MaxSize \in Nat /\ inline_cap <= MaxSize /\ 0 < inline_cap
  /\ uninit = -1 /\ junk \in Int
  /\ \A b \in Block : b \notin {"none", "inline", "NULL", "stack"}
  BY SliceAssumption DEF uninit, junk

LEMMA SeqFun ==
  ASSUME NEW n \in Nat, NEW f, f = [k \in 1 .. n |-> f[k]], \A k \in 1 .. n : f[k] \in Int
  PROVE  f \in Seq(Int) /\ Len(f) = n
  <1>1. f \in [1 .. n -> Int]
    OBVIOUS
  <1> QED
    BY <1>1

LEMMA Copied ==
  ASSUME NEW m \in Seq(Int), NEW off \in Nat, NEW data \in Seq(Int)
  PROVE  /\ memcpy(m, off, data) \in Seq(Int) /\ Len(memcpy(m, off, data)) = Len(m)
         /\ \A k \in 1 .. Len(m) :
              memcpy(m, off, data)[k] = IF k - off \in 1 .. Len(data) THEN data[k - off] ELSE m[k]
  <1>1. PICK f : f = memcpy(m, off, data)
    OBVIOUS
  <1>2. Len(m) \in Nat /\ Len(data) \in Nat
    OBVIOUS
  <1>3. f = [k \in 1 .. Len(m) |-> IF k - off \in 1 .. Len(data) THEN data[k - off] ELSE m[k]]
    BY <1>1 DEF memcpy
  <1>4. \A k \in 1 .. Len(m) :
          /\ f[k] = IF k - off \in 1 .. Len(data) THEN data[k - off] ELSE m[k]
          /\ f[k] \in Int
    BY <1>3
  <1>5. f \in Seq(Int) /\ Len(f) = Len(m)
    BY <1>2, <1>3, <1>4, SeqFun
  <1> QED
    BY <1>1, <1>4, <1>5

\* The beginning of a storage that data was copied to.
LEMMA Written ==
  ASSUME NEW m \in Seq(Int), NEW data \in Seq(Int)
  PROVE  /\ memcpy(m, 0, data) \in Seq(Int) /\ Len(memcpy(m, 0, data)) = Len(m)
         /\ \A k \in 1 .. Len(m) : k \in 1 .. Len(data) => memcpy(m, 0, data)[k] = data[k]
  <1>1. /\ memcpy(m, 0, data) \in Seq(Int) /\ Len(memcpy(m, 0, data)) = Len(m)
        /\ \A k \in 1 .. Len(m) :
             memcpy(m, 0, data)[k] = IF k - 0 \in 1 .. Len(data) THEN data[k - 0] ELSE m[k]
    BY Copied
  <1> QED
    BY <1>1

LEMMA ResizedFacts ==
  ASSUME NEW m \in Seq(Int), NEW n \in Nat
  PROVE  /\ Resized(m, n) \in Seq(Int) /\ Len(Resized(m, n)) = n
         /\ \A k \in 1 .. n : Resized(m, n)[k] = IF k <= Len(m) THEN m[k] ELSE junk
  <1>1. PICK f : f = Resized(m, n)
    OBVIOUS
  <1>2. f = [k \in 1 .. n |-> IF k <= Len(m) THEN m[k] ELSE junk]
    BY <1>1 DEF Resized
  <1>3. \A k \in 1 .. n : f[k] = (IF k <= Len(m) THEN m[k] ELSE junk) /\ f[k] \in Int
    BY <1>2, SizeFacts
  <1>4. f \in Seq(Int) /\ Len(f) = n
    BY <1>2, <1>3, SeqFun
  <1> QED
    BY <1>1, <1>3, <1>4

LEMMA BlankFacts ==
  blank \in Seq(Int) /\ Len(blank) = inline_cap
  <1>1. blank = [k \in 1 .. inline_cap |-> junk]
    BY DEF blank
  <1>2. blank = [k \in 1 .. inline_cap |-> blank[k]] /\ \A k \in 1 .. inline_cap : blank[k] \in Int
    BY <1>1, SizeFacts
  <1> QED
    BY <1>2, SizeFacts, SeqFun

LEMMA Malloc ==
  ASSUME live \subseteq Block, NEW p \in malloc, p # "NULL"
  PROVE  p \in Block \ live
  BY DEF malloc

-----------------------------------------------------------------------------
(* The invariant.  A slice with buf b, size z, inlinebuf i and string st,  *)
(* with H and L for heap and live: its storage holds st, a block has       *)
(* inline_cap bytes at least, and more when its size was not set.          *)

Holds(m, z, st) == Len(st) = z /\ \A k \in 1 .. z : m[k] = st[k]

SliceOK(b, z, i, H, L, st) ==
  /\ i \in Seq(Int) /\ Len(i) = inline_cap
  /\ b \in {"inline", "stack"} => z \in 0 .. inline_cap
  /\ b = "inline" => Holds(i, z, st)
  /\ b \in Block => /\ b \in L
                     /\ IF z = uninit THEN Len(H[b]) > inline_cap
                        ELSE z = Len(H[b]) /\ z >= inline_cap /\ Holds(H[b], z, st)

Typed ==
  /\ buf \in [SliceVar -> {"none", "inline", "NULL", "stack"} \union Block]
  /\ size \in [SliceVar -> uninit .. MaxSize]
  /\ inl \in [SliceVar -> Seq(Int)] /\ heap \in [Block -> Seq(Int)]
  /\ live \subseteq Block /\ lost \subseteq Block
  /\ str \in [SliceVar -> Seq(Int)]
  /\ undef \in {"no", "null", "uninit", "dangling"}

Apart == \A s, t \in SliceVar : buf[s] \in Block /\ buf[t] = buf[s] => s = t

Owned ==
  \A b \in live \ lost : (\E s \in SliceVar : buf[s] = b) \/ Len(heap[b]) = inline_cap

SliceInv ==
  /\ Typed /\ Apart /\ Owned
  /\ \A s \in SliceVar : SliceOK(buf[s], size[s], inl[s], heap, live, str[s])

LEMMA SliceFrame ==
  ASSUME NEW b, NEW z, NEW i, NEW H, NEW L, NEW st, SliceOK(b, z, i, H, L, st),
         NEW G, NEW K, b \in Block => b \in K /\ G[b] = H[b]
  PROVE  SliceOK(b, z, i, G, K, st)
  BY DEF SliceOK

LEMMA Reads ==
  ASSUME SliceInv, NEW s \in SliceVar, Readable(s)
  PROVE  /\ contents(s) = str[s] /\ str[s] \in Seq(Int) /\ Len(str[s]) = size[s]
         /\ size[s] \in 0 .. MaxSize /\ size[s] <= Len(storage(s)) /\ storage(s) \in Seq(Int)
         /\ Holds(storage(s), size[s], str[s])
  <1>1. SliceOK(buf[s], size[s], inl[s], heap, live, str[s]) /\ str[s] \in Seq(Int)
    BY DEF SliceInv, Typed
  <1>2. size[s] \in 0 .. MaxSize
    BY SizeFacts DEF SliceInv, Typed, Readable
  <1>3. /\ storage(s) \in Seq(Int) /\ size[s] <= Len(storage(s))
        /\ Holds(storage(s), size[s], str[s])
    <2>1. CASE buf[s] = "inline"
      BY <1>1, <1>2, <2>1, SizeFacts DEF SliceOK, storage
    <2>2. CASE buf[s] \in Block
      <3>1. storage(s) = heap[buf[s]] /\ heap[buf[s]] \in Seq(Int)
        BY <2>2, SizeFacts DEF storage, SliceInv, Typed
      <3>2. size[s] = Len(heap[buf[s]]) /\ Holds(heap[buf[s]], size[s], str[s])
        BY <1>1, <2>2 DEF SliceOK, Readable
      <3> QED
        BY <1>2, <3>1, <3>2
    <2> QED
      BY <2>1, <2>2 DEF Readable
  <1>4. Len(str[s]) = size[s]
    BY <1>3 DEF Holds
  <1>5. PICK m \in Seq(Int) : m = storage(s)
    BY <1>3
  <1>6. PICK z \in Nat : z = size[s]
    BY <1>2, SizeFacts
  <1>7. z <= Len(m) /\ Len(m) \in Nat /\ \A k \in 1 .. z : m[k] = str[s][k]
    BY <1>3, <1>5, <1>6 DEF Holds
  <1>8. PICK c : c = SubSeq(m, 1, z)
    OBVIOUS
  <1>9. c \in Seq(Int) /\ Len(c) = z /\ \A k \in 1 .. z : c[k] = m[k]
    BY <1>7, <1>8, SubSeqProperties
  <1>10. c = str[s]
    BY <1>1, <1>4, <1>6, <1>7, <1>9, SeqEqual
  <1> QED
    BY <1>1, <1>2, <1>3, <1>4, <1>5, <1>6, <1>8, <1>10 DEF contents

-----------------------------------------------------------------------------
(* The steps.                                                              *)

LEMMA UndefinedStep ==
  ASSUME NEW why \in {"null", "uninit", "dangling"}, Undefined(why)
  PROVE  SliceInv'
  <1>1. Typed'
    BY BlankFacts, SizeFacts DEF Undefined, Typed, Every
  <1>2. \A s \in SliceVar : buf'[s] = "none" /\ inl'[s] = blank
    BY DEF Undefined, Every
  <1>3. Apart' /\ Owned'
    BY <1>2, SizeFacts DEF Apart, Owned, Undefined
  <1>4. \A s \in SliceVar : SliceOK(buf[s], size[s], inl[s], heap, live, str[s])'
    BY <1>2, BlankFacts, SizeFacts DEF SliceOK
  <1> QED
    BY <1>1, <1>3, <1>4 DEF SliceInv

\* A slice gets a storage that begins with its string.
LEMMA PlacedStep ==
  ASSUME SliceInv, NEW s \in SliceVar, buf[s] = "none", NEW data \in Seq(Int), NEW p, NEW n,
         \/ p \in {"inline", "stack"} /\ n = Len(data) /\ n <= inline_cap
         \/ p \in Block \ live /\ n = uninit /\ Len(data) > inline_cap
         \/ p \in Block \ live /\ n = Len(data) /\ n >= inline_cap /\ n <= MaxSize,
         NEW i \in Seq(Int), Len(i) = inline_cap,
         \A k \in 1 .. inline_cap : k \in 1 .. Len(data) => i[k] = data[k],
         buf' = [buf EXCEPT ![s] = p], size' = [size EXCEPT ![s] = n],
         inl' = IF p = "inline" THEN [inl EXCEPT ![s] = i] ELSE inl,
         heap' = IF p \in Block THEN [heap EXCEPT ![p] = data] ELSE heap,
         live' = live \union ({p} \intersect Block),
         str' = [str EXCEPT ![s] = data], lost' = lost, undef' = undef
  PROVE  SliceInv'
  <1>1. Typed /\ inl[s] \in Seq(Int) /\ Len(inl[s]) = inline_cap /\ Len(data) \in Nat
    <2>1. Typed /\ SliceOK(buf[s], size[s], inl[s], heap, live, str[s])
      BY DEF SliceInv
    <2>2. inl[s] \in Seq(Int) /\ Len(inl[s]) = inline_cap
      BY <2>1 DEF SliceOK
    <2> QED
      BY <2>1, <2>2, LenProperties
  <1>2. n \in uninit .. MaxSize
    BY <1>1, SizeFacts
  <1>4. /\ i \in Seq(Int) /\ Len(i) = inline_cap
        /\ \A k \in 1 .. inline_cap : k \in 1 .. Len(data) => i[k] = data[k]
    OBVIOUS
  <1>5. /\ buf' = [buf EXCEPT ![s] = p] /\ size' = [size EXCEPT ![s] = n]
        /\ inl' = IF p = "inline" THEN [inl EXCEPT ![s] = i] ELSE inl
        /\ heap' = IF p \in Block THEN [heap EXCEPT ![p] = data] ELSE heap
        /\ live' = live \union ({p} \intersect Block)
        /\ str' = [str EXCEPT ![s] = data] /\ lost' = lost /\ undef' = undef
    OBVIOUS
  <1>6. Typed'
    BY <1>1, <1>2, <1>4, <1>5, SMTT(30) DEF Typed
  <1>7. \A t \in SliceVar \ {s} :
          /\ buf'[t] = buf[t] /\ size'[t] = size[t] /\ inl'[t] = inl[t] /\ str'[t] = str[t]
          /\ buf[t] \in Block => buf[t] \in live /\ buf[t] # p /\ heap'[buf[t]] = heap[buf[t]]
    <2>1. \A t \in SliceVar : buf[t] \in Block => buf[t] \in live
      BY DEF SliceInv, SliceOK
    <2>2. \A t \in SliceVar : buf[t] \in Block => buf[t] # p
      BY <2>1, SizeFacts
    <2> QED
      BY <1>1, <1>5, <2>1, <2>2 DEF Typed
  <1>8. /\ buf'[s] = p /\ size'[s] = n /\ str'[s] = data
        /\ inl'[s] = IF p = "inline" THEN i ELSE inl[s]
        /\ p \in Block => heap'[p] = data /\ p \in live'
    BY <1>1, <1>5 DEF Typed
  <1>9. Apart'
    BY <1>7, <1>8 DEF Apart, SliceInv
  <1>10. Owned'
    <2>1. ASSUME NEW b \in live' \ lost'
          PROVE  (\E t \in SliceVar : buf'[t] = b) \/ Len(heap'[b]) = inline_cap
      <3>1. CASE b = p
        BY <1>8, <3>1
      <3>2. CASE b # p
        <4>1. b \in live \ lost /\ heap'[b] = heap[b] /\ b \in Block
          BY <1>1, <1>5, <2>1, <3>2 DEF Typed
        <4>2. CASE \E t \in SliceVar : buf[t] = b
          <5>1. PICK t \in SliceVar : buf[t] = b
            BY <4>2
          <5>2. t # s
            BY <4>1, <5>1, SizeFacts
          <5> QED
            BY <1>7, <5>1, <5>2
        <4>3. CASE Len(heap[b]) = inline_cap
          BY <4>1, <4>3
        <4> QED
          BY <4>1, <4>2, <4>3 DEF SliceInv, Owned
      <3> QED
        BY <3>1, <3>2
    <2> QED
      BY <2>1 DEF Owned
  <1>11. ASSUME NEW t \in SliceVar
         PROVE  SliceOK(buf'[t], size'[t], inl'[t], heap', live', str'[t])
    <2>1. CASE t = s
      <3>1. CASE p = "inline"
        BY <1>1, <1>4, <1>8, <2>1, <3>1, SizeFacts DEF SliceOK, Holds
      <3>2. CASE p \in Block
        <4>1. p \notin {"inline", "stack"}
          BY <3>2, SizeFacts
        <4>2. /\ p \in live' /\ heap'[p] = data /\ inl'[s] = inl[s]
              /\ IF n = uninit THEN Len(data) > inline_cap ELSE n = Len(data) /\ n >= inline_cap
          BY <1>1, <1>8, <3>2, <4>1, SizeFacts
        <4> QED
          BY <1>1, <1>8, <2>1, <4>1, <4>2 DEF SliceOK, Holds
      <3>3. CASE p = "stack"
        BY <1>1, <1>8, <2>1, <3>3, SizeFacts DEF SliceOK
      <3> QED
        BY <3>1, <3>2, <3>3
    <2>2. CASE t # s
      <3>1. SliceOK(buf[t], size[t], inl[t], heap, live, str[t])
        BY DEF SliceInv
      <3>2. buf[t] \in Block => buf[t] \in live' /\ heap'[buf[t]] = heap[buf[t]]
        BY <1>5, <1>7, <2>2
      <3>3. SliceOK(buf[t], size[t], inl[t], heap', live', str[t])
        BY <3>1, <3>2, SliceFrame
      <3> QED
        BY <1>7, <2>2, <3>3
    <2> QED
      BY <2>1, <2>2
  <1> QED
    BY <1>6, <1>9, <1>10, <1>11 DEF SliceInv

LEMMA PlaceStep ==
  ASSUME SliceInv, NEW s \in SliceVar, buf[s] = "none", NEW data \in Seq(Int), NEW p, NEW n,
         \/ p = "inline" /\ n = Len(data) /\ n <= inline_cap
         \/ p \in Block \ live /\ n = uninit /\ Len(data) > inline_cap
         \/ p \in Block \ live /\ n = Len(data) /\ n >= inline_cap /\ n <= MaxSize,
         Place(s, p, n, data)
  PROVE  SliceInv'
  <1>1. inl[s] \in Seq(Int) /\ Len(inl[s]) = inline_cap /\ Len(data) \in Nat
    BY DEF SliceInv, SliceOK
  <1>2. PICK i : i = memcpy(inl[s], 0, data)
    OBVIOUS
  <1>3. /\ i \in Seq(Int) /\ Len(i) = inline_cap
        /\ \A k \in 1 .. inline_cap : k \in 1 .. Len(data) => i[k] = data[k]
    BY <1>1, <1>2, Written
  <1>4. /\ buf' = [buf EXCEPT ![s] = p] /\ size' = [size EXCEPT ![s] = n]
        /\ inl' = IF p = "inline" THEN [inl EXCEPT ![s] = i] ELSE inl
        /\ heap' = IF p \in Block THEN [heap EXCEPT ![p] = data] ELSE heap
        /\ live' = live \union ({p} \intersect Block)
        /\ str' = [str EXCEPT ![s] = data] /\ lost' = lost /\ undef' = undef
    BY <1>2 DEF Place
  <1> QED
    BY <1>3, <1>4, PlacedStep

\* A suffix goes behind the string, in a storage that has room for it.
LEMMA AppendStep ==
  ASSUME SliceInv, NEW s \in SliceVar, Readable(s), NEW suffix \in Seq(Int),
         size[s] + Len(suffix) <= MaxSize, NEW m \in Seq(Int), NEW p,
         \A k \in 1 .. size[s] : m[k] = str[s][k],
         \/ p = "inline" /\ Len(m) = inline_cap /\ size[s] + Len(suffix) <= inline_cap
         \/ /\ p \in Block /\ (p = buf[s] \/ (p \notin live /\ buf[s] = "inline"))
            /\ Len(m) = size[s] + Len(suffix) /\ Len(m) >= inline_cap,
         p = "inline" => buf[s] = "inline",
         AppendAt(s, p, m, suffix)
  PROVE  SliceInv'
  <1>1. /\ Typed /\ inl[s] \in Seq(Int) /\ Len(inl[s]) = inline_cap
        /\ str[s] \in Seq(Int) /\ Len(suffix) \in Nat
    BY DEF SliceInv, Typed, SliceOK
  <1>2. PICK z \in Nat : z = size[s] /\ Len(str[s]) = z /\ z + Len(suffix) <= MaxSize
    BY <1>1, Reads, SizeFacts
  <1>3. PICK n \in Nat : n = z + Len(suffix) /\ n <= MaxSize /\ n <= Len(m)
    BY <1>1, <1>2
  <1>4. PICK st : st = str[s] \o suffix
    OBVIOUS
  <1>5. /\ st \in Seq(Int) /\ Len(st) = n
        /\ \A k \in 1 .. n : st[k] = IF k <= z THEN str[s][k] ELSE suffix[k - z]
    <2>1. /\ st \in Seq(Int) /\ Len(st) = Len(str[s]) + Len(suffix)
          /\ \A k \in 1 .. Len(str[s]) + Len(suffix) :
               st[k] = IF k <= Len(str[s]) THEN str[s][k] ELSE suffix[k - Len(str[s])]
      BY <1>1, <1>4, ConcatProperties
    <2> QED
      BY <1>2, <1>3, <2>1
  <1>6. PICK new : new = memcpy(m, z, suffix)
    OBVIOUS
  <1>7. /\ new \in Seq(Int) /\ Len(new) = Len(m)
        /\ \A k \in 1 .. Len(m) :
             new[k] = IF k - z \in 1 .. Len(suffix) THEN suffix[k - z] ELSE m[k]
    BY <1>6, Copied
  <1>8. Holds(new, n, st)
    <2>1. ASSUME NEW k \in 1 .. n PROVE new[k] = st[k]
      <3>1. k \in 1 .. Len(m)
        BY <1>3
      <3>2. CASE k <= z
        BY <1>2, <1>3, <1>5, <1>7, <3>1, <3>2, SMTT(30)
      <3>3. CASE k > z
        <4>1. k - z \in 1 .. Len(suffix) /\ ~(k <= z)
          <5>1. PICK l \in Nat : l = Len(suffix)
            BY <1>1
          <5>2. k \in Nat /\ k <= z + l
            BY <1>3, <5>1
          <5>3. k - z \in 1 .. l
            BY <3>3, <5>2
          <5> QED
            BY <3>3, <5>1, <5>2, <5>3
        <4> QED
          BY <1>5, <1>7, <3>1, <4>1
      <3> QED
        BY <1>2, <3>2, <3>3
    <2> QED
      BY <1>5, <2>1 DEF Holds
  <1>9. /\ buf' = [buf EXCEPT ![s] = p] /\ size' = [size EXCEPT ![s] = n]
        /\ inl' = [inl EXCEPT ![s] = IF p = "inline" THEN new ELSE blank]
        /\ heap' = IF p \in Block THEN [heap EXCEPT ![p] = new] ELSE heap
        /\ live' = live \union ({p} \intersect Block)
        /\ str' = [str EXCEPT ![s] = st] /\ lost' = lost
    BY <1>2, <1>3, <1>4, <1>6 DEF AppendAt, grown
  <1>10. undef' = undef
    <2>1. ~(size[s] + Len(suffix) > Len(m))
      BY <1>1, <1>2, <1>3
    <2> QED
      BY <2>1 DEF AppendAt
  <1>11. Typed'
    <2>1. n \in uninit .. MaxSize
      BY <1>3, SizeFacts
    <2>2. buf' \in [SliceVar -> {"none", "inline", "NULL", "stack"} \union Block]
      BY <1>1, <1>9 DEF Typed
    <2>3. size' \in [SliceVar -> uninit .. MaxSize] /\ str' \in [SliceVar -> Seq(Int)]
      BY <1>1, <1>5, <1>9, <2>1 DEF Typed
    <2>4. inl' \in [SliceVar -> Seq(Int)] /\ heap' \in [Block -> Seq(Int)]
      BY <1>1, <1>7, <1>9, BlankFacts DEF Typed
    <2>5. live' \subseteq Block /\ lost' \subseteq Block
      BY <1>1, <1>9 DEF Typed
    <2> QED
      BY <1>1, <1>10, <2>2, <2>3, <2>4, <2>5 DEF Typed
  <1>12. \A t \in SliceVar \ {s} :
          /\ buf'[t] = buf[t] /\ size'[t] = size[t] /\ inl'[t] = inl[t] /\ str'[t] = str[t]
          /\ buf[t] \in Block => buf[t] \in live /\ buf[t] # p /\ heap'[buf[t]] = heap[buf[t]]
    <2>1. \A t \in SliceVar : buf[t] \in Block => buf[t] \in live
      BY DEF SliceInv, SliceOK
    <2>2. \A t \in SliceVar \ {s} : buf[t] \in Block => buf[t] # p
      BY <2>1, SizeFacts DEF SliceInv, Apart
    <2> QED
      BY <1>1, <1>9, <2>1, <2>2 DEF Typed
  <1>13. /\ buf'[s] = p /\ size'[s] = n /\ str'[s] = st
         /\ inl'[s] = IF p = "inline" THEN new ELSE blank
         /\ p \in Block => heap'[p] = new /\ p \in live'
    BY <1>1, <1>9 DEF Typed
  <1>14. Apart'
    BY <1>12, <1>13 DEF Apart, SliceInv
  <1>15. Owned'
    <2>1. ASSUME NEW b \in live' \ lost'
          PROVE  (\E t \in SliceVar : buf'[t] = b) \/ Len(heap'[b]) = inline_cap
      <3>1. CASE b = p
        BY <1>13, <3>1
      <3>2. CASE b # p
        <4>1. b \in live \ lost /\ heap'[b] = heap[b] /\ b \in Block
          BY <1>1, <1>9, <2>1, <3>2 DEF Typed
        <4>2. CASE \E t \in SliceVar : buf[t] = b
          <5>1. PICK t \in SliceVar : buf[t] = b
            BY <4>2
          <5>2. t # s
            BY <3>2, <4>1, <5>1, SizeFacts
          <5> QED
            BY <1>12, <5>1, <5>2
        <4>3. CASE Len(heap[b]) = inline_cap
          BY <4>1, <4>3
        <4> QED
          BY <4>1, <4>2, <4>3 DEF SliceInv, Owned
      <3> QED
        BY <3>1, <3>2
    <2> QED
      BY <2>1 DEF Owned
  <1>16. ASSUME NEW t \in SliceVar
         PROVE  SliceOK(buf'[t], size'[t], inl'[t], heap', live', str'[t])
    <2>1. CASE t = s
      <3>1. CASE p = "inline"
        <4>1. n \in 0 .. inline_cap /\ Len(new) = inline_cap /\ p \notin Block
          BY <1>2, <1>3, <1>7, <3>1, SizeFacts
        <4> QED
          BY <1>7, <1>8, <1>13, <2>1, <3>1, <4>1 DEF SliceOK
      <3>2. CASE p \in Block
        <4>1. n = Len(new) /\ n >= inline_cap /\ n # uninit /\ p \notin {"inline", "stack"}
          BY <1>2, <1>3, <1>7, <3>2, SizeFacts
        <4> QED
          BY <1>8, <1>13, <2>1, <3>2, <4>1, BlankFacts DEF SliceOK
      <3> QED
        BY <3>1, <3>2
    <2>2. CASE t # s
      <3>1. SliceOK(buf[t], size[t], inl[t], heap, live, str[t])
        BY DEF SliceInv
      <3>2. buf[t] \in Block => buf[t] \in live' /\ heap'[buf[t]] = heap[buf[t]]
        BY <1>9, <1>12, <2>2
      <3>3. SliceOK(buf[t], size[t], inl[t], heap', live', str[t])
        BY <3>1, <3>2, SliceFrame
      <3> QED
        BY <1>12, <2>2, <3>3
    <2> QED
      BY <2>1, <2>2
  <1> QED
    BY <1>11, <1>14, <1>15, <1>16 DEF SliceInv

\* A slice gives up its storage: the blocks of L remain.
LEMMA DropStep ==
  ASSUME SliceInv, NEW s \in SliceVar, NEW p \in {"none", "NULL"}, NEW L,
         L = live \/ L = live \ {buf[s]},
         NEW x \in Seq(Int), x = inl[s] \/ x = blank, NEW n \in uninit .. MaxSize,
         NEW st \in Seq(Int),
         buf' = [buf EXCEPT ![s] = p], size' = [size EXCEPT ![s] = n], live' = L,
         heap' = Dropped(s, L), inl' = [inl EXCEPT ![s] = x], str' = [str EXCEPT ![s] = st],
         undef' = undef, lost' \subseteq Block, lost \subseteq lost',
         buf[s] \in L \ lost' => Len(heap[buf[s]]) = inline_cap
  PROVE  SliceInv'
  <1>1. Typed /\ L \subseteq live /\ Len(x) = inline_cap
    BY BlankFacts DEF SliceInv, Typed, SliceOK
  <1>2. ASSUME NEW b \in L
        PROVE  /\ heap'[b] \in Seq(Int) /\ Len(heap'[b]) = Len(heap[b])
               /\ b # buf[s] => heap'[b] = heap[b]
    <2>1. b \in Block /\ heap[b] \in Seq(Int) /\ <<>> \in Seq(Int) /\ Len(heap[b]) \in Nat
      BY <1>1 DEF Typed
    <2>2. heap'[b] = IF b = buf[s] THEN Resized(<<>>, Len(heap[b])) ELSE heap[b]
      BY <2>1 DEF Dropped
    <2>3. Resized(<<>>, Len(heap[b])) \in Seq(Int) /\ Len(Resized(<<>>, Len(heap[b]))) = Len(heap[b])
      BY <2>1, ResizedFacts
    <2> QED
      BY <2>1, <2>2, <2>3
  <1>3. heap' \in [Block -> Seq(Int)]
    <2>1. \A b \in Block : heap'[b] \in Seq(Int)
      <3>1. ASSUME NEW b \in Block \ L PROVE heap'[b] \in Seq(Int)
        BY DEF Dropped
      <3> QED
        BY <1>2, <3>1
    <2> QED
      BY <2>1 DEF Dropped
  <1>4. Typed'
    BY <1>1, <1>3 DEF Typed
  <1>5. \A t \in SliceVar \ {s} :
          /\ buf'[t] = buf[t] /\ size'[t] = size[t] /\ inl'[t] = inl[t] /\ str'[t] = str[t]
          /\ buf[t] \in Block => buf[t] \in L /\ buf[t] # buf[s]
    <2>1. \A t \in SliceVar : buf[t] \in Block => buf[t] \in live
      BY DEF SliceInv, SliceOK
    <2>2. \A t \in SliceVar \ {s} : buf[t] \in Block => buf[t] # buf[s]
      BY DEF SliceInv, Apart
    <2> QED
      BY <1>1, <2>1, <2>2 DEF Typed
  <1>6. buf'[s] = p /\ inl'[s] = x /\ p \notin Block
    BY <1>1, SizeFacts DEF Typed
  <1>7. Apart'
    BY <1>5, <1>6 DEF Apart, SliceInv
  <1>8. Owned'
    <2>1. ASSUME NEW b \in L \ lost'
          PROVE  (\E t \in SliceVar : buf'[t] = b) \/ Len(heap'[b]) = inline_cap
      <3>1. CASE b = buf[s]
        BY <1>2, <3>1
      <3>2. CASE b # buf[s]
        <4>1. b \in live \ lost
          BY <1>1
        <4>2. CASE \E t \in SliceVar : buf[t] = b
          BY <1>5, <3>2, <4>2
        <4>3. CASE Len(heap[b]) = inline_cap
          BY <1>2, <4>3
        <4> QED
          BY <4>1, <4>2, <4>3 DEF SliceInv, Owned
      <3> QED
        BY <3>1, <3>2
    <2> QED
      BY <2>1 DEF Owned
  <1>9. ASSUME NEW t \in SliceVar
        PROVE  SliceOK(buf'[t], size'[t], inl'[t], heap', live', str'[t])
    <2>1. CASE t = s
      BY <1>1, <1>6, <2>1 DEF SliceOK
    <2>2. CASE t # s
      <3>1. SliceOK(buf[t], size[t], inl[t], heap, live, str[t])
        BY DEF SliceInv
      <3>2. buf[t] \in Block => buf[t] \in live' /\ heap'[buf[t]] = heap[buf[t]]
        BY <1>2, <1>5, <2>2
      <3>3. SliceOK(buf[t], size[t], inl[t], heap', live', str[t])
        BY <3>1, <3>2, SliceFrame
      <3> QED
        BY <1>5, <2>2, <3>3
    <2> QED
      BY <2>1, <2>2
  <1> QED
    BY <1>4, <1>7, <1>8, <1>9 DEF SliceInv

-----------------------------------------------------------------------------
(* The functions.                                                          *)

LEMMA InitStep ==
  ASSUME SliceInv, NEW s \in SliceVar, buf[s] = "none", NEW data \in Seq(Int),
         slice_init(s, data)
  PROVE  SliceInv'
  <1>1. Len(data) \in Nat /\ live \subseteq Block
    BY DEF SliceInv, Typed
  <1>2. CASE Len(data) <= inline_cap
    <2>1. Place(s, "inline", Len(data), data)
      BY <1>2 DEF slice_init
    <2> QED
      BY <1>2, <2>1, PlaceStep
  <1>3. CASE Len(data) > inline_cap
    <2>1. PICK p \in malloc : IF p = "NULL" THEN Undefined("null") ELSE Place(s, p, uninit, data)
      BY <1>1, <1>3, SizeFacts DEF slice_init
    <2>2. CASE p = "NULL"
      BY <2>1, <2>2, UndefinedStep
    <2>3. CASE p # "NULL"
      <3>1. p \in Block \ live /\ Place(s, p, uninit, data)
        BY <1>1, <2>1, <2>3, Malloc
      <3> QED
        BY <1>3, <3>1, PlaceStep
    <2> QED
      BY <2>2, <2>3
  <1> QED
    BY <1>1, <1>2, <1>3, SizeFacts

LEMMA InitFromStep ==
  ASSUME SliceInv, NEW s \in SliceVar, NEW data \in Strings, posixc_slice_init_from(s, data)
  PROVE  SliceInv'
  BY InitStep, SliceAssumption DEF posixc_slice_init_from

LEMMA WhyFacts ==
  ASSUME NEW s
  PROVE  WhyUnreadable(s) \in {"null", "uninit", "dangling"}
  BY DEF WhyUnreadable

LEMMA AggregationStep ==
  ASSUME SliceInv, NEW s \in SliceVar, NEW a \in SliceVar, NEW b \in SliceVar,
         posixc_slice_init_as_aggregation(s, a, b)
  PROVE  SliceInv'
  <1>1. CASE Readable(a) /\ Readable(b)
    <2>1. contents(a) = str[a] /\ str[a] \in Seq(Int) /\ contents(b) = str[b] /\ str[b] \in Seq(Int)
      BY <1>1, Reads
    <2>2. contents(a) \o contents(b) \in Seq(Int)
      BY <2>1, ConcatProperties
    <2> QED
      BY <1>1, <2>2, InitStep DEF posixc_slice_init_as_aggregation
  <1>2. CASE ~(Readable(a) /\ Readable(b))
    <2>1. PICK why \in {"null", "uninit", "dangling"} : Undefined(why)
      BY <1>2, WhyFacts DEF posixc_slice_init_as_aggregation
    <2> QED
      BY <2>1, UndefinedStep
  <1> QED
    BY <1>1, <1>2

LEMMA CopyStep ==
  ASSUME SliceInv, NEW d \in SliceVar, NEW s \in SliceVar, posixc_slice_copy(d, s)
  PROVE  SliceInv'
  <1>1. CASE ~Readable(s)
    <2>1. PICK why \in {"null", "uninit", "dangling"} : Undefined(why)
      BY <1>1, WhyFacts DEF posixc_slice_copy
    <2> QED
      BY <2>1, UndefinedStep
  <1>2. CASE Readable(s)
    <2>1. /\ contents(s) = str[s] /\ str[s] \in Seq(Int) /\ Len(str[s]) = size[s]
          /\ size[s] \in 0 .. MaxSize /\ live \subseteq Block /\ buf[d] = "none"
      BY <1>2, Reads DEF SliceInv, Typed, posixc_slice_copy
    <2>2. PICK data \in Seq(Int) : data = contents(s)
      BY <2>1
    <2>3. PICK n \in Nat : n = size[s] /\ n = Len(data) /\ n <= MaxSize
      BY <2>1, <2>2, SizeFacts
    <2>4. CASE n < inline_cap
      <3>1. Place(d, "inline", n, data)
        BY <1>2, <2>2, <2>3, <2>4 DEF posixc_slice_copy, copy_inline
      <3> QED
        BY <2>1, <2>3, <2>4, <3>1, SizeFacts, PlaceStep
    <2>5. CASE n >= inline_cap
      <3>1. PICK p \in malloc : IF p = "NULL" THEN Undefined("null") ELSE Place(d, p, n, data)
        BY <1>2, <2>2, <2>3, <2>5, SizeFacts DEF posixc_slice_copy, copy_inline
      <3>2. CASE p = "NULL"
        BY <3>1, <3>2, UndefinedStep
      <3>3. CASE p # "NULL"
        <4>1. p \in Block \ live /\ Place(d, p, n, data)
          BY <2>1, <3>1, <3>3, Malloc
        <4> QED
          BY <2>1, <2>3, <2>5, <4>1, PlaceStep
      <3> QED
        BY <3>2, <3>3
    <2> QED
      BY <2>4, <2>5, SizeFacts
  <1> QED
    BY <1>1, <1>2

LEMMA SuffixStep ==
  ASSUME SliceInv, NEW s \in SliceVar, NEW suffix \in Suffixes, posixc_slice_append(s, suffix)
  PROVE  SliceInv'
  <1>1. suffix \in Seq(Int) /\ Len(suffix) \in Nat /\ size[s] + Len(suffix) <= MaxSize
    BY SliceAssumption DEF posixc_slice_append
  <1>2. CASE ~Readable(s)
    <2>1. PICK why \in {"null", "uninit", "dangling"} : Undefined(why)
      BY <1>2, WhyFacts DEF posixc_slice_append
    <2> QED
      BY <2>1, UndefinedStep
  <1>3. CASE Readable(s) /\ buf[s] = "inline"
    <2>1. /\ contents(s) = str[s] /\ str[s] \in Seq(Int) /\ Len(str[s]) = size[s]
          /\ size[s] \in 0 .. MaxSize /\ live \subseteq Block
          /\ Holds(inl[s], size[s], str[s]) /\ inl[s] \in Seq(Int) /\ Len(inl[s]) = inline_cap
      BY <1>3, Reads DEF SliceInv, Typed, SliceOK, storage
    <2>2. PICK z \in Nat : z = size[s] /\ z = Len(str[s])
      BY <2>1, SizeFacts
    <2>3. PICK n \in Nat : n = z + Len(suffix)
      BY <1>1
    <2>4. CASE n <= inline_cap
      <3>1. AppendAt(s, "inline", inl[s], suffix)
        BY <1>3, <2>2, <2>3, <2>4, SizeFacts DEF posixc_slice_append, moves_out
      <3>2. \A k \in 1 .. size[s] : inl[s][k] = str[s][k]
        BY <2>1 DEF Holds
      <3>3. size[s] + Len(suffix) <= inline_cap
        BY <2>2, <2>3, <2>4
      <3> QED
        BY <1>1, <1>3, <2>1, <3>1, <3>2, <3>3, AppendStep
    <2>5. CASE n > inline_cap
      <3>1. PICK m \in Seq(Int) : m = Resized(carried(s), n)
        BY <2>1, ResizedFacts DEF carried
      <3>a. PICK st \in Seq(Int) : st = str[s]
        BY <2>1
      <3>b. m = Resized(st, n) /\ Len(st) = z
        BY <2>1, <2>2, <3>1, <3>a DEF carried
      <3>2. Len(m) = n /\ \A k \in 1 .. n : m[k] = IF k <= z THEN st[k] ELSE junk
        BY <3>b, ResizedFacts
      <3>3. \A k \in 1 .. size[s] : m[k] = str[s][k]
        <4>1. \A k \in 1 .. z : k \in 1 .. n /\ k <= z
          BY <1>1, <2>3
        <4> QED
          BY <2>2, <3>2, <3>a, <4>1
      <3>4. PICK p \in malloc : IF p = "NULL" THEN Undefined("null") ELSE AppendAt(s, p, m, suffix)
        BY <1>3, <2>2, <2>3, <2>5, <3>1, SizeFacts DEF posixc_slice_append, moves_out
      <3>5. CASE p = "NULL"
        BY <3>4, <3>5, UndefinedStep
      <3>6. CASE p # "NULL"
        <4>1. p \in Block \ live /\ AppendAt(s, p, m, suffix) /\ p # "inline"
          BY <2>1, <3>4, <3>6, Malloc, SizeFacts
        <4>2. Len(m) = size[s] + Len(suffix) /\ Len(m) >= inline_cap
          BY <2>2, <2>3, <2>5, <3>2, SizeFacts
        <4> QED
          BY <1>1, <1>3, <3>3, <4>1, <4>2, AppendStep
      <3> QED
        BY <3>5, <3>6
    <2> QED
      BY <2>4, <2>5, SizeFacts
  <1>4. CASE Readable(s) /\ buf[s] \in Block
    <2>1. /\ str[s] \in Seq(Int) /\ Len(str[s]) = size[s] /\ size[s] \in 0 .. MaxSize
          /\ Typed /\ heap[buf[s]] \in Seq(Int) /\ buf[s] \in live /\ buf[s] # "inline"
          /\ size[s] = Len(heap[buf[s]]) /\ size[s] >= inline_cap
          /\ Holds(heap[buf[s]], size[s], str[s])
      BY <1>4, Reads, SizeFacts DEF SliceInv, Typed, SliceOK, Readable
    <2>2. PICK z \in Nat : z = size[s] /\ z = Len(heap[buf[s]]) /\ z >= inline_cap
      BY <2>1, SizeFacts
    <2>3. PICK n \in Nat : n = z + Len(suffix)
      BY <1>1
    <2>4. CASE AppendAt(s, buf[s], Resized(heap[buf[s]], n), suffix)
      <3>1. PICK m \in Seq(Int) : m = Resized(heap[buf[s]], n)
        BY <2>1, ResizedFacts
      <3>2. Len(m) = n /\ \A k \in 1 .. n : m[k] = IF k <= z THEN heap[buf[s]][k] ELSE junk
        <4>1. PICK c \in Seq(Int) : c = heap[buf[s]] /\ Len(c) = z
          BY <2>1, <2>2
        <4>2. m = Resized(c, n)
          BY <3>1, <4>1
        <4>3. Len(m) = n /\ \A k \in 1 .. n : m[k] = IF k <= Len(c) THEN c[k] ELSE junk
          BY <4>2, ResizedFacts
        <4> QED
          BY <4>1, <4>3
      <3>3. \A k \in 1 .. size[s] : m[k] = str[s][k]
        <4>1. \A k \in 1 .. z : k \in 1 .. n /\ k <= z
          BY <1>1, <2>3
        <4> QED
          BY <2>1, <2>2, <3>2, <4>1 DEF Holds
      <3>4. Len(m) = size[s] + Len(suffix) /\ Len(m) >= inline_cap
        BY <1>1, <2>2, <2>3, <3>2, SizeFacts
      <3> QED
        BY <1>1, <1>4, <2>1, <2>4, <3>1, <3>3, <3>4, AppendStep
    <2>5. CASE /\ buf' = [buf EXCEPT ![s] = "NULL"] /\ lost' = lost \union {buf[s]}
               /\ heap' = Dropped(s, live) /\ UNCHANGED <<size, inl, live, str, undef>>
      <3>1. /\ size' = [size EXCEPT ![s] = size[s]] /\ inl' = [inl EXCEPT ![s] = inl[s]]
            /\ str' = [str EXCEPT ![s] = str[s]]
        BY <2>1, <2>5 DEF Typed
      <3>2. lost' \subseteq Block /\ lost \subseteq lost' /\ ~(buf[s] \in live \ lost')
        BY <1>4, <2>1, <2>5 DEF Typed
      <3>3. size[s] \in uninit .. MaxSize /\ inl[s] \in Seq(Int) /\ live' = live /\ undef' = undef
        BY <2>1, <2>5 DEF Typed
      <3> QED
        BY <2>1, <2>5, <3>1, <3>2, <3>3, DropStep
    <2> QED
      BY <1>4, <2>1, <2>2, <2>3, <2>4, <2>5 DEF posixc_slice_append
  <1> QED
    BY <1>2, <1>3, <1>4 DEF Readable

LEMMA DestroyStep ==
  ASSUME SliceInv, NEW s \in SliceVar, posixc_slice_destroy(s)
  PROVE  SliceInv'
  <1>1. CASE size[s] = uninit
    BY <1>1, UndefinedStep DEF posixc_slice_destroy
  <1>2. CASE size[s] # uninit
    <2>1. Typed /\ size[s] \in uninit .. MaxSize
      BY DEF SliceInv, Typed
    <2>2. PICK L : L = (IF frees(size[s]) THEN live \ {buf[s]} ELSE live)
      OBVIOUS
    <2>3. /\ live' = L /\ heap' = Dropped(s, L) /\ buf' = [buf EXCEPT ![s] = "none"]
          /\ size' = [size EXCEPT ![s] = uninit] /\ inl' = [inl EXCEPT ![s] = blank]
          /\ str' = [str EXCEPT ![s] = <<>>] /\ lost' = lost /\ undef' = undef
      BY <1>2, <2>2 DEF posixc_slice_destroy
    <2>4. buf[s] \in L \ lost' => Len(heap[buf[s]]) = inline_cap
      <3>1. SUFFICES ASSUME buf[s] \in L PROVE Len(heap[buf[s]]) = inline_cap
        OBVIOUS
      <3>2. buf[s] \in Block /\ ~(size[s] > inline_cap)
        BY <2>1, <2>2, <3>1 DEF Typed, frees
      <3>3. size[s] = Len(heap[buf[s]]) /\ size[s] >= inline_cap
        BY <1>2, <3>2 DEF SliceInv, SliceOK
      <3> QED
        BY <2>1, <3>2, <3>3, SizeFacts
    <2>5. uninit \in uninit .. MaxSize /\ <<>> \in Seq(Int) /\ blank \in Seq(Int)
      BY SizeFacts, BlankFacts
    <2>6. L = live \/ L = live \ {buf[s]}
      BY <2>2
    <2>7. lost' \subseteq Block /\ lost \subseteq lost'
      BY <2>1, <2>3 DEF Typed
    <2> QED
      BY <2>3, <2>4, <2>5, <2>6, <2>7, DropStep
  <1> QED
    BY <1>1, <1>2

\* The posixc_slice_parse functions.
LEMMA ReturnedStep ==
  ASSUME SliceInv, NEW s \in SliceVar, NEW text \in Seq(Int), Len(text) <= inline_cap,
         NEW n \in 0 .. Len(text), Returned(s, text, n, SubSeq(text, 1, n))
  PROVE  SliceInv'
  <1>1. PICK data : data = SubSeq(text, 1, n)
    OBVIOUS
  <1>2. data \in Seq(Int) /\ Len(data) = n /\ \A k \in 1 .. n : data[k] = text[k]
    BY <1>1, SubSeqProperties
  <1>3. /\ inl[s] \in Seq(Int) /\ Len(inl[s]) = inline_cap /\ inline_cap \in Nat
        /\ Len(text) \in Nat
    BY SizeFacts DEF SliceInv, SliceOK
  <1>4. PICK i : i = memcpy(inl[s], 0, text)
    OBVIOUS
  <1>5. i \in Seq(Int) /\ Len(i) = inline_cap
    BY <1>3, <1>4, Written
  <1>6. \A k \in 1 .. inline_cap : k \in 1 .. Len(data) => i[k] = data[k]
    <2>1. \A k \in 1 .. inline_cap : k \in 1 .. Len(text) => i[k] = text[k]
      BY <1>3, <1>4, Written
    <2>2. ASSUME NEW k \in 1 .. inline_cap, k \in 1 .. Len(data) PROVE i[k] = data[k]
      <3>1. k \in 1 .. n
        BY <1>2, <2>2
      <3>2. k \in 1 .. Len(text)
        BY <1>3, <3>1
      <3> QED
        BY <1>2, <2>1, <3>1, <3>2
    <2> QED
      BY <2>2
  <1>7. PICK p \in {"inline", "stack"} :
          /\ buf' = [buf EXCEPT ![s] = p]
          /\ inl' = IF p = "inline" THEN [inl EXCEPT ![s] = i] ELSE inl
    BY <1>4 DEF Returned
  <1>8. p \notin Block
    BY SizeFacts
  <1>9. /\ size' = [size EXCEPT ![s] = n] /\ str' = [str EXCEPT ![s] = data]
        /\ heap' = heap /\ live' = live /\ lost' = lost /\ undef' = undef /\ buf[s] = "none"
    BY <1>1, <1>3 DEF Returned
  <1>10. /\ heap' = IF p \in Block THEN [heap EXCEPT ![p] = data] ELSE heap
         /\ live' = live \union ({p} \intersect Block)
         /\ n = Len(data) /\ n <= inline_cap
    BY <1>2, <1>3, <1>8, <1>9
  <1> QED
    BY <1>2, <1>5, <1>6, <1>7, <1>9, <1>10, PlacedStep

LEMMA NumberStep ==
  ASSUME RoomForNUL, NumbersRight, SliceInv, NEW s \in SliceVar,
         \/ \E x \in Ints : posixc_slice_parse_int(s, x)
         \/ \E q \in Sixteenths, a \in AfterPoints :
              posixc_slice_parse_float(s, q, a) \/ posixc_slice_parse_double(s, q, a)
  PROVE  SliceInv'
  <1>1. ASSUME NEW x \in Ints, posixc_slice_parse_int(s, x) PROVE SliceInv'
    <2>1. PICK text : text = posixc_itoa(x)
      OBVIOUS
    <2>2. text \in Seq(Int) /\ Len(text) <= inline_cap /\ size_itoa(x) = Len(text) - 1
      BY <2>1, InlineSufficient DEF NumbersRight, size_itoa
    <2>3. PICK n : n = size_itoa(x)
      OBVIOUS
    <2>4. n \in 0 .. Len(text)
      <3>1. n \in Nat
        BY <2>3 DEF NumbersRight
      <3> QED
        BY <2>2, <2>3, <3>1
    <2>5. ExpectedInt(x) = SubSeq(text, 1, n)
      BY <2>1, <2>3 DEF NumbersRight
    <2>6. Returned(s, text, n, SubSeq(text, 1, n))
      BY <1>1, <2>1, <2>3, <2>5 DEF posixc_slice_parse_int
    <2> QED
      BY <2>2, <2>4, <2>6, ReturnedStep
  <1>2. ASSUME NEW q \in Sixteenths, NEW a \in AfterPoints,
               posixc_slice_parse_float(s, q, a) \/ posixc_slice_parse_double(s, q, a)
        PROVE  SliceInv'
    <2>1. PICK r \in posixc_ftoa_within_given_bytes(q, a, inline_cap) :
            Returned(s, r.str, r.size, ExpectedDecimal(q, r))
      BY <1>2 DEF posixc_slice_parse_float, posixc_slice_parse_double,
                  posixc_dtoa_within_given_bytes
    <2>2. /\ r.str \in Seq(Int) /\ Len(r.str) <= inline_cap /\ r.size \in 0 .. Len(r.str)
          /\ ExpectedDecimal(q, r) = SubSeq(r.str, 1, r.size)
      BY <2>1 DEF NumbersRight, RoomForNUL
    <2>3. Returned(s, r.str, r.size, SubSeq(r.str, 1, r.size))
      BY <2>1, <2>2
    <2> QED
      BY <2>2, <2>3, ReturnedStep
  <1> QED
    BY <1>1, <1>2

LEMMA SliceStep ==
  ASSUME RoomForNUL, NumbersRight
  PROVE  SliceInv /\ [SliceNext]_sliceVars => SliceInv'
  <1> SUFFICES ASSUME SliceInv, [SliceNext]_sliceVars PROVE SliceInv'
    OBVIOUS
  <1>1. CASE UNCHANGED sliceVars
    BY <1>1 DEF sliceVars, SliceInv, Typed, Apart, Owned
  <1>2. CASE SliceNext
    BY <1>2, InitFromStep, AggregationStep, CopyStep, SuffixStep, DestroyStep, NumberStep
       DEF SliceNext
  <1> QED
    BY <1>1, <1>2

LEMMA SliceBegins ==
  SliceInit => SliceInv
  <1> SUFFICES ASSUME SliceInit PROVE SliceInv
    OBVIOUS
  <1>1. Typed
    BY BlankFacts, SizeFacts DEF SliceInit, Typed, Every
  <1>2. \A s \in SliceVar : buf[s] = "none" /\ inl[s] = blank
    BY DEF SliceInit, Every
  <1>3. Apart /\ Owned
    BY <1>2, SizeFacts DEF Apart, Owned, SliceInit
  <1>4. \A s \in SliceVar : SliceOK(buf[s], size[s], inl[s], heap, live, str[s])
    BY <1>2, BlankFacts, SizeFacts DEF SliceOK
  <1> QED
    BY <1>1, <1>3, <1>4 DEF SliceInv

\* The invariant is kept by every function of slice.c, with and without memory to be had.
THEOREM SliceCorrect == RoomForNUL /\ NumbersRight => (SliceSpec => []SliceInv)
  <1> SUFFICES ASSUME RoomForNUL, NumbersRight PROVE SliceSpec => []SliceInv
    OBVIOUS
  <1> QED
    BY SliceBegins, SliceStep, PTL DEF SliceSpec

-----------------------------------------------------------------------------
(* What the invariant gives.                                               *)

\* The types of slices, heap and histories; in particular a size is never beyond MaxSize.
THEOREM SliceTypeCorrect == RoomForNUL /\ NumbersRight => (SliceSpec => []SliceTypeOK)
  <1>1. SliceInv => SliceTypeOK
    BY DEF SliceInv, Typed, SliceTypeOK
  <1> QED
    BY <1>1, SliceCorrect, PTL

\* No call writes behind the storage of its slice, and no two slices share a block, whatever
\* the sequence of calls and whichever malloc fails; for a program that asks for a number only
\* with digits that leave room for the NUL.  Without RoomForNUL posixc_slice_parse_float
\* writes behind inlinebuf.
THEOREM StorageKept == RoomForNUL /\ NumbersRight => (SliceSpec => []StorageSound)
  <1>1. SliceInv => StorageSound
    <2> SUFFICES ASSUME SliceInv PROVE StorageSound
      OBVIOUS
    <2>1. undef # "overflow"
      BY DEF SliceInv, Typed
    <2>2. ASSUME NEW s \in SliceVar, buf[s] = "inline" PROVE size[s] <= inline_cap
      BY <2>2, SizeFacts DEF SliceInv, SliceOK
    <2>3. ASSUME NEW s \in SliceVar, buf[s] \in Block
          PROVE  /\ buf[s] \in live /\ size[s] <= Len(heap[buf[s]])
                 /\ \A t \in SliceVar : buf[t] = buf[s] => t = s
      <3>1. SliceOK(buf[s], size[s], inl[s], heap, live, str[s])
        BY DEF SliceInv
      <3>2. Len(heap[buf[s]]) \in Nat
        BY <2>3 DEF SliceInv, Typed
      <3>3. buf[s] \in live /\ size[s] <= Len(heap[buf[s]])
        BY <2>3, <3>1, <3>2, SizeFacts DEF SliceOK
      <3> QED
        BY <2>3, <3>3 DEF SliceInv, Apart
    <2> QED
      BY <2>1, <2>2, <2>3 DEF StorageSound
  <1> QED
    BY <1>1, SliceCorrect, PTL

\* A slice that can be read holds the string its calls describe, inline or on the heap.  That
\* the conversions give the decimal numerals is the hypothesis NumbersRight.
THEOREM ContentsKept == RoomForNUL /\ NumbersRight => (SliceSpec => []ContentsRight)
  <1>1. SliceInv => ContentsRight
    BY Reads DEF ContentsRight
  <1> QED
    BY <1>1, SliceCorrect, PTL

\* A block that no slice has any more was left behind by a failed realloc, or has exactly
\* the inline_cap bytes for which copy and destroy disagree.
THEOREM LeaksAtCap == RoomForNUL /\ NumbersRight => (SliceSpec => []LeaksOnlyAtCap)
  <1>1. SliceInv => LeaksOnlyAtCap
    BY DEF SliceInv, Owned, LeaksOnlyAtCap
  <1> QED
    BY <1>1, SliceCorrect, PTL
============================================================================
