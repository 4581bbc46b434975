------------------------------- MODULE Slice -------------------------------
(***************************************************************************)
(* posixc_slice (common/slice.c): a string of known size that is stored    *)
(* inside the struct as long as it has inline_cap bytes at most, and on    *)
(* the heap beyond that.                                                   *)
(*                                                                         *)
(* Memory is explicit: the inlinebuf of every slice and the heap blocks,   *)
(* each a sequence as long as its storage; bytes that no call can read any *)
(* more are junk.  Where C leaves the behaviour undefined, undef says why  *)
(* and the program ends.  str is a history variable: the string that the   *)
(* calls so far should have left in a slice.                               *)
(*                                                                         *)
(* Clients initialise a slice before they use it, do not initialise it     *)
(* again before they destroyed it, and give up one whose append failed.    *)
(***************************************************************************)
EXTENDS Numbers

CONSTANTS
  SliceVar,      \* the posixc_slice variables of the program
  Block,         \* bound: heap blocks
  inline_cap,
  Suffixes,      \* strings given to posixc_slice_append
  Strings,       \* strings given to posixc_slice_init_from
  Ints, Sixteenths, AfterPoints,   \* numbers given to posixc_slice_parse_*
  MaxSize        \* bound: size of a string

ASSUME SliceAssumption ==
  /\ inline_cap \in Nat \ {0} /\ MaxSize \in Nat /\ inline_cap <= MaxSize
  /\ Suffixes \subseteq Seq(Int) /\ Strings \subseteq Seq(Int) \ {<<>>}
  /\ Ints \subseteq INT_MIN .. INT_MAX /\ Sixteenths \subseteq Int /\ AfterPoints \subseteq Nat
  /\ Block \intersect {"none", "inline", "NULL", "stack"} = {}

\* "10^48 > 2^64, inline space is always sufficient" (slice.c): for an int and
\* the NUL behind it.
ASSUME InlineSufficient ==
  /\ \A x \in Ints : Len(posixc_itoa(x)) <= inline_cap
  /\ \A q \in Sixteenths : \A x \in to_int(Trunc(q, 16)) : Len(posixc_itoa(x)) <= inline_cap

VARIABLES
  buf,     \* slice->buf: "inline", a block, "NULL", "stack" (a frame that is
           \* gone), or "none" for a slice that is not in use
  size,    \* slice->size, or uninit
  inl,     \* slice->inlinebuf
  heap,    \* contents of each block
  live,    \* blocks that are allocated
  lost,    \* history: blocks that a failed realloc left behind
  str,     \* history: the string each slice should hold
  undef    \* "no", or why the behaviour is undefined

sliceVars == <<buf, size, inl, heap, live, lost, str, undef>>

uninit == -1
junk   == -100

blank  == [k \in 1 .. inline_cap |-> junk]

Every(x) == [s \in SliceVar |-> x]

SliceInit ==
  /\ buf = Every("none") /\ size = Every(uninit) /\ inl = Every(blank)
  /\ heap = [b \in Block |-> <<>>] /\ live = {} /\ lost = {}
  /\ str = Every(<<>>) /\ undef = "no"

-----------------------------------------------------------------------------
(* Memory.                                                                 *)

storage(s) == IF buf[s] = "inline" THEN inl[s] ELSE heap[buf[s]]
contents(s) == SubSeq(storage(s), 1, size[s])

\* memcpy of data to offset off of a storage m.
memcpy(m, off, data) ==
  [k \in 1 .. Len(m) |-> IF k - off \in 1 .. Len(data) THEN data[k - off] ELSE m[k]]

\* What malloc returns: some block, as long as there is one, or NULL.
malloc == {"NULL"} \union
          (IF live = Block THEN {} ELSE {CHOOSE b \in Block : b \notin live})

\* n bytes that begin with those of m.
Resized(m, n) == [k \in 1 .. n |-> IF k <= Len(m) THEN m[k] ELSE junk]

\* The blocks when those of L are allocated and slice s has no buf any more.
Dropped(s, L) ==
  [b \in Block |-> IF b \notin L THEN <<>>
                   ELSE IF b = buf[s] THEN Resized(<<>>, Len(heap[b])) ELSE heap[b]]

\* The process ends, and its memory with it.
Undefined(why) ==
  /\ buf' = Every("none") /\ size' = Every(uninit) /\ inl' = Every(blank)
  /\ heap' = [b \in Block |-> <<>>] /\ live' = {} /\ lost' = {}
  /\ str' = Every(<<>>) /\ undef' = why

\* The functions read size and *buf without a check.
Readable(s) == size[s] # uninit /\ buf[s] \in {"inline"} \union Block
WhyUnreadable(s) == IF size[s] = uninit THEN "uninit" ELSE "dangling"

\* Slice s gets storage p of exactly n bytes, or its inlinebuf, with data in it.
Place(s, p, n, data) ==
  /\ buf' = [buf EXCEPT ![s] = p] /\ size' = [size EXCEPT ![s] = n]
  /\ inl' = IF p = "inline" THEN [inl EXCEPT ![s] = memcpy(@, 0, data)] ELSE inl
  /\ heap' = IF p \in Block THEN [heap EXCEPT ![p] = data] ELSE heap
  /\ live' = live \union ({p} \intersect Block)
  /\ str' = [str EXCEPT ![s] = data]
  /\ UNCHANGED <<lost, undef>>

-----------------------------------------------------------------------------
(* The functions of slice.c.                                               *)

\* posixc_slice_init for the size of data, and the memcpy of its callers.  The
\* size of a slice on the heap is not set.
slice_init(s, data) ==
  IF Len(data) <= inline_cap THEN Place(s, "inline", Len(data), data)
  ELSE \E p \in malloc :
         IF p = "NULL" THEN Undefined("null") ELSE Place(s, p, uninit, data)

posixc_slice_init_from(s, data) ==
  buf[s] = "none" /\ slice_init(s, data)

\* Two slices, or one of them twice; assert(size>0).
posixc_slice_init_as_aggregation(s, a, b) ==
  /\ buf[s] = "none" /\ buf[a] # "none" /\ buf[b] # "none"
  /\ IF Readable(a) /\ Readable(b)
     THEN /\ size[a] + size[b] \in 1 .. MaxSize
          /\ slice_init(s, contents(a) \o contents(b))
     ELSE Undefined(WhyUnreadable(IF Readable(a) THEN b ELSE a))

\* Where posixc_slice_copy puts the bytes.
copy_inline_always(n) == TRUE              \* mutant: no heap block is taken
copy_inline(n) == n < inline_cap

posixc_slice_copy(dst, src) ==
  /\ buf[dst] = "none" /\ buf[src] # "none"
  /\ IF ~Readable(src) THEN Undefined(WhyUnreadable(src))
     ELSE IF copy_inline(size[src]) THEN Place(dst, "inline", size[src], contents(src))
     ELSE \E p \in malloc :
            IF p = "NULL" THEN Undefined("null")
            ELSE Place(dst, p, size[src], contents(src))

\* Does an inline slice of n bytes have to move out to take k more?
moves_out_late(n, k) == n > inline_cap     \* mutant: the suffix is not counted
moves_out(n, k) == n + k > inline_cap

\* What an inline slice takes along to its block.
carried_nothing(s) == <<>>                 \* mutant: no memcpy of inlinebuf
carried(s) == contents(s)

\* The size after an append.
grown_with_NUL(n, k) == n + k + 1          \* mutant: the NUL is counted
grown(n, k) == n + k

\* The suffix goes behind the string in storage p, whose bytes so far are m.
AppendAt(s, p, m, suffix) ==
  LET new == memcpy(m, size[s], suffix) IN
  /\ buf' = [buf EXCEPT ![s] = p]
  /\ size' = [size EXCEPT ![s] = grown(@, Len(suffix))]
  /\ IF size[s] + Len(suffix) > Len(m) THEN undef' = "overflow" ELSE UNCHANGED undef
  /\ inl'  = [inl EXCEPT ![s] = IF p = "inline" THEN new ELSE blank]
  /\ heap' = IF p \in Block THEN [heap EXCEPT ![p] = new] ELSE heap
  /\ live' = live \union ({p} \intersect Block)
  /\ str'  = [str EXCEPT ![s] = @ \o suffix]
  /\ UNCHANGED lost

posixc_slice_append(s, suffix) ==
  /\ buf[s] \notin {"none", "NULL"} /\ size[s] + Len(suffix) <= MaxSize
  /\ LET n == size[s] + Len(suffix) IN
     IF ~Readable(s) THEN Undefined(WhyUnreadable(s))
     ELSE IF buf[s] = "inline" /\ ~moves_out(size[s], Len(suffix))
     THEN AppendAt(s, "inline", inl[s], suffix)
     ELSE IF buf[s] = "inline"
     THEN \E p \in malloc :
            IF p = "NULL" THEN Undefined("null")
            ELSE AppendAt(s, p, Resized(carried(s), n), suffix)
     ELSE \/ AppendAt(s, buf[s], Resized(heap[buf[s]], n), suffix)
          \/ /\ buf' = [buf EXCEPT ![s] = "NULL"]           \* realloc fails: -1
             /\ lost' = lost \union {buf[s]}
             /\ heap' = Dropped(s, live)
             /\ UNCHANGED <<size, inl, live, str, undef>>

\* posixc_slice_destroy goes by the size.
frees_never(n) == FALSE                    \* mutant
frees(n) == n > inline_cap

posixc_slice_destroy(s) ==
  /\ buf[s] # "none"
  /\ IF size[s] = uninit THEN Undefined("uninit")
     ELSE /\ live' = IF frees(size[s]) THEN live \ {buf[s]} ELSE live
          /\ heap' = Dropped(s, live')
          /\ buf'  = [buf EXCEPT ![s] = "none"]
          /\ size' = [size EXCEPT ![s] = uninit]
          /\ inl'  = [inl EXCEPT ![s] = blank]
          /\ str'  = [str EXCEPT ![s] = <<>>]
          /\ UNCHANGED <<lost, undef>>

\* A slice returned by value: buf points to the inlinebuf of the variable s of
\* the callee, which is the caller's only where the compiler elides the copy.
\* All of text was written to that inlinebuf, n is the size that was returned.
Returned(s, text, n, expected) ==
  /\ buf[s] = "none"
  /\ \E p \in {"inline", "stack"} :
       /\ buf' = [buf EXCEPT ![s] = p]
       /\ inl' = IF p = "inline" THEN [inl EXCEPT ![s] = memcpy(@, 0, text)] ELSE inl
  /\ IF Len(text) > inline_cap THEN undef' = "overflow" ELSE UNCHANGED undef
  /\ size' = [size EXCEPT ![s] = n]
  /\ str' = [str EXCEPT ![s] = expected]
  /\ UNCHANGED <<heap, live, lost>>

\* Zero becomes the empty string and a negative number has no digits: for these
\* nothing is expected but what the code gives.
ExpectedInt(x) == IF x > 0 THEN Numeral(x) ELSE SubSeq(posixc_itoa(x), 1, size_itoa(x))

posixc_slice_parse_int(s, x) == Returned(s, posixc_itoa(x), size_itoa(x), ExpectedInt(x))

\* As for the whole part, for a number without digits after the point, and where
\* the whole part or the digits after the point exceed an int.
ExpectedDecimal(q, r) ==
  LET ipart == Trunc(q, 16)
      a     == r.size - size_itoa(ipart) - 1
  IN  IF ipart \in 1 .. INT_MAX /\ a > 0 /\ Fraction(q, ipart, a) <= INT_MAX
      THEN Decimal(q, a) ELSE SubSeq(r.str, 1, r.size)

posixc_slice_parse_float(s, q, afterpoints) ==
  \E r \in posixc_ftoa_within_given_bytes(q, afterpoints, inline_cap) :
    Returned(s, r.str, r.size, ExpectedDecimal(q, r))
posixc_slice_parse_double(s, q, afterpoints) ==
  \E r \in posixc_dtoa_within_given_bytes(q, afterpoints, inline_cap) :
    Returned(s, r.str, r.size, ExpectedDecimal(q, r))

-----------------------------------------------------------------------------

SliceNext ==
  /\ undef = "no"
  /\ \E s \in SliceVar :
       \/ \E data \in Strings : posixc_slice_init_from(s, data)
       \/ \E a, b \in SliceVar : posixc_slice_init_as_aggregation(s, a, b)
       \/ \E src \in SliceVar : posixc_slice_copy(s, src)
       \/ \E suffix \in Suffixes : posixc_slice_append(s, suffix)
       \/ posixc_slice_destroy(s)
       \/ \E x \in Ints : posixc_slice_parse_int(s, x)
       \/ \E q \in Sixteenths, a \in AfterPoints :
            posixc_slice_parse_float(s, q, a) \/ posixc_slice_parse_double(s, q, a)

SliceSpec == SliceInit /\ [][SliceNext]_sliceVars

-----------------------------------------------------------------------------
(* Properties.                                                             *)

\* What the properties ask of a program: it wants no more digits than an
\* inlinebuf has room for, with the NUL behind them.
RoomForNUL ==
  \A q \in Sixteenths, a \in AfterPoints :
    \A r \in posixc_ftoa_within_given_bytes(q, a, inline_cap) :
      Len(r.str) <= inline_cap

\* What they ask of the conversions of utils.c: the strings are as long as is
\* said, and the ones they should be.
NumbersRight ==
  /\ \A x \in Ints :
       /\ posixc_itoa(x) \in Seq(Int) /\ size_itoa(x) \in Nat
       /\ SubSeq(posixc_itoa(x), 1, size_itoa(x)) = ExpectedInt(x)
  /\ \A q \in Sixteenths, a \in AfterPoints :
       \A r \in posixc_ftoa_within_given_bytes(q, a, inline_cap) :
         /\ r.str \in Seq(Int) /\ r.size \in 0 .. Len(r.str)
         /\ SubSeq(r.str, 1, r.size) = ExpectedDecimal(q, r)

\* The type invariant of the slices, the heap and the histories; no size exceeds
\* that of the strings in use.
SliceTypeOK ==
  /\ buf \in [SliceVar -> {"none", "inline", "NULL", "stack"} \union Block]
  /\ size \in [SliceVar -> uninit .. MaxSize]
  /\ inl \in [SliceVar -> Seq(Int)] /\ heap \in [Block -> Seq(Int)]
  /\ live \subseteq Block /\ lost \subseteq Block
  /\ str \in [SliceVar -> Seq(Int)]
  /\ undef \in {"no", "null", "uninit", "dangling", "overflow"}

\* "make sure space is enough" (slice.c): no byte is written behind the storage
\* it belongs to.  Whatever sequence of init, copy, append, parse and destroy led
\* here, a slice in its inlinebuf fits there, one on the heap has a block of its
\* own that is allocated and large enough.  It needs RoomForNUL.
StorageSound ==
  /\ undef # "overflow"
  /\ \A s \in SliceVar :
       /\ buf[s] = "inline" => size[s] <= inline_cap
       /\ buf[s] \in Block =>
            /\ buf[s] \in live /\ size[s] <= Len(heap[buf[s]])
            /\ \A t \in SliceVar : buf[t] = buf[s] => t = s

\* Every slice that can be read holds the string its calls describe, also when
\* an append has moved it from its inlinebuf to the heap; positive numbers are
\* held as their decimal numerals, if what is behind the point fits an int.
ContentsRight ==
  undef = "no" => \A s \in SliceVar : Readable(s) => contents(s) = str[s]

\* Memory leaks in two ways only: a failed realloc, and a copy of exactly
\* inline_cap bytes, which posixc_slice_copy puts on the heap and
\* posixc_slice_destroy takes for inline.
LeaksOnlyAtCap ==
  undef = "no" =>
    \A b \in live \ lost : (\E s \in SliceVar : buf[s] = b) \/ Len(heap[b]) = inline_cap
=============================================================================
