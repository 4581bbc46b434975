------------------------- MODULE StringSearchProofs -------------------------
(***************************************************************************)
(* Proofs about the string searches for texts and queries of any length    *)
(* over any alphabet: Boyer and Moore's search jumps over no occurrence    *)
(* and answers right, the table of kmp_failure is right, and the binary    *)
(* search answers right.                                                   *)
(***************************************************************************)
EXTENDS StringSearch, WellFoundedInduction, TLAPS

-----------------------------------------------------------------------------
(* Least and greatest numbers, and the comparison of letters.              *)

LEMMA LeastOf ==
  ASSUME NEW X, X \subseteq Nat, X # {}
  PROVE  Least(X) \in X /\ \A y \in X : Least(X) <= y
  <1>1. \E x \in X : \A y \in X : ~(<<y, x>> \in OpToRel(<, Nat))
    BY NatLessThanWellFounded, WFMin
  <1>2. PICK x \in X : \A y \in X : ~(<<y, x>> \in OpToRel(<, Nat))
    BY <1>1
  <1>3. ASSUME NEW y \in X, y < x PROVE <<y, x>> \in OpToRel(<, Nat)
    <2>1. <<y, x>> \in Nat \X Nat /\ <<y, x>>[1] < <<y, x>>[2]
      BY <1>3
    <2> QED
      BY <2>1, Zenon DEF OpToRel
  <1>4. \A y \in X : ~(y < x)
    BY <1>2, <1>3, Zenon
  <1>5. \A y \in X : x <= y
    BY <1>4
  <1> QED
    BY <1>5 DEF Least

LEMMA GreatestOf ==
  ASSUME NEW n \in Nat, NEW X, X \subseteq 0 .. n, X # {}
  PROVE  Greatest(X) \in X /\ \A y \in X : y <= Greatest(X)
  <1> DEFINE Y == {n - x : x \in X}
  <1>1. Y \subseteq Nat /\ Y # {}
    <2>1. \A x \in X : n - x \in Nat
      OBVIOUS
    <2> QED
      BY <2>1, Zenon
  <1>2. Least(Y) \in Y /\ \A y \in Y : Least(Y) <= y
    BY <1>1, LeastOf
  <1>3. PICK x \in X : Least(Y) = n - x
    BY <1>2
  <1>4. ASSUME NEW y \in X PROVE y <= x
    <2>1. n - y \in Y
      OBVIOUS
    <2>2. n - x <= n - y
      BY <1>2, <1>3, <2>1
    <2> QED
      BY <2>2
  <1> QED
    BY <1>4 DEF Greatest

LEMMA SameIsEquivalence ==
  ASSUME NEW a, NEW b, NEW c
  PROVE  /\ same(a, a)
         /\ same(a, b) => same(b, a)
         /\ same(a, b) /\ same(b, c) => same(a, c)
  BY DEF same

-----------------------------------------------------------------------------
(* kmp_failure.  While the loop looks for the border that ends at i, j is   *)
(* the length of a border that ends at i - 1, and no longer one can be     *)
(* extended by the character at i.                                         *)

Longest(k, n) == Border(k, n) /\ \A b \in n + 1 .. k : ~Border(k, b)

TableInv ==
  phase \in {"failure", "search"} =>
    /\ query.len \in Nat /\ query.len >= 2
    /\ P \in [0 .. query.len - 1 -> Nat] /\ P[0] = 0
    /\ \A k \in 1 .. query.len - 1 : (phase = "search" \/ k < i) => Longest(k, P[k])
    /\ phase = "failure" =>
         /\ i \in 1 .. query.len /\ j \in 0 .. i - 1
         /\ Border(i - 1, j) /\ \A b \in j + 2 .. i : ~Border(i, b)

LEMMA TableBack ==
  ASSUME TableInv, failure_back
  PROVE  TableInv'
  <1>1. /\ phase = "failure" /\ i \in 1 .. query.len - 1 /\ j \in 1 .. i - 1
        /\ query.len \in Nat /\ query.at[i] # query.at[j]
        /\ Border(i - 1, j) /\ \A b \in j + 2 .. i : ~Border(i, b)
    BY DEF failure_back, TableInv
  <1>2. PICK m \in Nat : m = P[j - 1] /\ j' = m
    BY <1>1 DEF failure_back, shorter, TableInv
  <1>3. j = 1 => m = 0
    BY <1>2 DEF failure_back, TableInv
  <1>4. j > 1 => Longest(j - 1, m)
    BY <1>1, <1>2 DEF failure_back, TableInv
  <1>5. m < j
    BY <1>1, <1>3, <1>4 DEF Longest, Border
  <1>6. Border(i - 1, m)
    <2>1. CASE j = 1
      BY <1>1, <1>3, <2>1 DEF Border
    <2>2. CASE j > 1
      <3> SUFFICES ASSUME NEW x \in 0 .. m - 1
                   PROVE  query.at[x] = query.at[i - 1 - m + 1 + x]
        BY <1>1, <1>5 DEF Border
      <3>1. query.at[x] = query.at[j - 1 - m + 1 + x]
        BY <1>4, <2>2 DEF Longest, Border
      <3>2. PICK y \in 0 .. j - 1 : y = j - m + x
        BY <1>1, <1>5
      <3>3. query.at[y] = query.at[i - 1 - j + 1 + y]
        BY <1>1 DEF Border
      <3>4. j - 1 - m + 1 + x = y /\ i - 1 - j + 1 + y = i - 1 - m + 1 + x
        BY <1>1, <3>2
      <3> QED
        BY <3>1, <3>3, <3>4
    <2> QED
      BY <1>1, <2>1, <2>2
  <1>7. ASSUME NEW b \in m + 2 .. i, Border(i, b) PROVE FALSE
    <2>1. CASE b >= j + 2
      BY <1>1, <1>7, <2>1
    <2>2. CASE b = j + 1
      <3>1. query.at[j] = query.at[i - b + 1 + j] /\ i - b + 1 + j = i
        BY <1>1, <1>7, <2>2 DEF Border
      <3> QED
        BY <1>1, <3>1
    <2>3. CASE b <= j
      <3>1. j > 1 /\ b - 1 \in m + 1 .. j - 1
        BY <1>1, <2>3
      <3>2. ASSUME NEW x \in 0 .. b - 2
            PROVE  query.at[x] = query.at[j - 1 - (b - 1) + 1 + x]
        <4>1. query.at[x] = query.at[i - b + 1 + x]
          BY <1>7 DEF Border
        <4>2. PICK y \in 0 .. j - 1 : y = j - b + 1 + x
          BY <1>1, <2>3
        <4>3. query.at[y] = query.at[i - 1 - j + 1 + y]
          BY <1>1 DEF Border
        <4>4. j - 1 - (b - 1) + 1 + x = y /\ i - 1 - j + 1 + y = i - b + 1 + x
          BY <1>1, <4>2
        <4> QED
          BY <4>1, <4>3, <4>4
      <3>3. Border(j - 1, b - 1)
        BY <1>1, <3>1, <3>2 DEF Border
      <3> QED
        BY <1>4, <3>1, <3>3 DEF Longest
    <2> QED
      BY <1>1, <2>1, <2>2, <2>3
  <1>8. UNCHANGED <<query, phase, P, i>>
    BY DEF failure_back, args
  <1>9. \A k \in 1 .. query.len - 1 : (phase = "search" \/ k < i) => Longest(k, P[k])
    BY <1>1 DEF TableInv
  <1>10. \A k, n : /\ Longest(k, n)' <=> Longest(k, n)
                   /\ Border(k, n)' <=> Border(k, n)
    BY <1>8 DEF Longest, Border
  <1>11. j' \in 0 .. i - 1 /\ \A b \in j' + 2 .. i : ~Border(i, b)
    BY <1>1, <1>2, <1>5, <1>7
  <1>12. P \in [0 .. query.len - 1 -> Nat] /\ P[0] = 0 /\ query.len >= 2
    BY <1>1 DEF TableInv
  <1> QED
    BY <1>1, <1>2, <1>6, <1>8, <1>9, <1>10, <1>11, <1>12 DEF TableInv

LEMMA TableStep ==
  ASSUME TableInv, failure_next
  PROVE  TableInv'
  <1>1. /\ phase = "failure" /\ i \in 1 .. query.len - 1 /\ j \in 0 .. i - 1
        /\ query.len \in Nat /\ (j = 0 \/ query.at[i] = query.at[j])
        /\ Border(i - 1, j) /\ \A b \in j + 2 .. i : ~Border(i, b)
    BY DEF failure_next, TableInv
  <1>2. PICK m \in 0 .. i : j' = m /\ m = IF query.at[i] = query.at[j] THEN j + 1 ELSE j
    BY <1>1 DEF failure_next, extend
  <1>3. Border(i, m)
    <2>1. CASE query.at[i] = query.at[j]
      <3>1. m = j + 1
        BY <1>2, <2>1
      <3>2. ASSUME NEW x \in 0 .. j PROVE query.at[x] = query.at[i - m + 1 + x]
        <4>1. CASE x = j
          BY <1>1, <2>1, <3>1, <4>1
        <4>2. CASE x < j
          <5>1. query.at[x] = query.at[i - 1 - j + 1 + x]
            BY <1>1, <4>2 DEF Border
          <5>2. i - 1 - j + 1 + x = i - m + 1 + x
            BY <1>1, <3>1
          <5> QED
            BY <5>1, <5>2
        <4> QED
          BY <1>1, <4>1, <4>2
      <3> QED
        BY <1>1, <3>1, <3>2 DEF Border
    <2>2. CASE query.at[i] # query.at[j]
      BY <1>1, <1>2, <2>2 DEF Border
    <2> QED
      BY <2>1, <2>2
  <1>4. ASSUME NEW b \in m + 1 .. i, Border(i, b) PROVE FALSE
    <2>1. CASE b >= j + 2
      BY <1>1, <1>4, <2>1
    <2>2. CASE b = j + 1
      <3>1. query.at[i] # query.at[j] /\ j = 0
        BY <1>1, <1>2, <2>2
      <3>2. query.at[0] = query.at[i - b + 1 + 0] /\ i - b + 1 + 0 = i
        BY <1>1, <1>4, <2>2, <3>1 DEF Border
      <3> QED
        BY <3>1, <3>2
    <2> QED
      BY <1>1, <1>2, <2>1, <2>2
  <1>5. ASSUME NEW b \in m + 2 .. i + 1, Border(i + 1, b) PROVE FALSE
    <2>i. i \in Int /\ b \in Int
      BY <1>1
    <2>0. \A x \in 0 .. b - 1 : query.at[x] = query.at[i + 1 - b + 1 + x]
      BY <1>5, <2>i DEF Border
    <2>1. ASSUME NEW x \in 0 .. b - 2
          PROVE  query.at[x] = query.at[i - (b - 1) + 1 + x]
      <3>0. x \in 0 .. b - 1
        BY <2>i
      <3>1. query.at[x] = query.at[i + 1 - b + 1 + x]
        BY <2>0, <3>0, Zenon
      <3>2. i + 1 - b + 1 + x = i - (b - 1) + 1 + x
        BY <1>1
      <3> QED
        BY <3>1, <3>2
    <2>2. Border(i, b - 1) /\ b - 1 \in m + 1 .. i
      BY <1>1, <2>1 DEF Border
    <2> QED
      BY <1>4, <2>2
  <1>6. Longest(i, m)
    BY <1>3, <1>4 DEF Longest
  <1>7. UNCHANGED <<query, phase>> /\ P' = [P EXCEPT ![i] = m] /\ i' = i + 1
    BY <1>2 DEF failure_next, args
  <1>8. \A k, n : /\ Longest(k, n)' <=> Longest(k, n)
                  /\ Border(k, n)' <=> Border(k, n)
    BY <1>7 DEF Longest, Border
  <1>9. /\ P' \in [0 .. query.len - 1 -> Nat] /\ P'[0] = 0 /\ P'[i] = m
        /\ \A k \in 1 .. query.len - 1 : k < i => P'[k] = P[k] /\ Longest(k, P[k])
    BY <1>1, <1>7 DEF TableInv
  <1>10. \A k \in 1 .. query.len - 1 : k < i + 1 => Longest(k, P'[k])
    BY <1>1, <1>6, <1>9
  <1> QED
    BY <1>1, <1>2, <1>3, <1>5, <1>7, <1>8, <1>9, <1>10 DEF TableInv

LEMMA TableNext ==
  ASSUME TableInv, [SearchNext]_searchVars
  PROVE  TableInv'
  <1>1. CASE failure_back
    BY <1>1, TableBack
  <1>2. CASE failure_next
    BY <1>2, TableStep
  <1>3. CASE UNCHANGED <<query, P>> /\ phase' = "search" /\
             (phase = "search" \/ (phase = "failure" /\ i = query.len))
    <2>1. \A k, n : Longest(k, n)' <=> Longest(k, n)
      BY <1>3 DEF Longest, Border
    <2>2. \A k \in 1 .. query.len - 1 : Longest(k, P[k])
      BY <1>3 DEF TableInv
    <2> QED
      BY <1>3, <2>1, <2>2 DEF TableInv
  <1>4. CASE phase' \notin {"failure", "search"}
    BY <1>4 DEF TableInv
  <1>5. CASE UNCHANGED searchVars
    <2>1. \A k, n : /\ Longest(k, n)' <=> Longest(k, n)
                    /\ Border(k, n)' <=> Border(k, n)
      BY <1>5 DEF Longest, Border, searchVars, args
    <2> QED
      BY <1>5, <2>1 DEF TableInv, searchVars, args
  <1>6. CASE failure_end \/ search_back \/ search_next \/ search_end
    BY <1>3, <1>4, <1>6 DEF failure_end, search_back, search_next, search_end, args
  <1> QED
    BY <1>1, <1>2, <1>4, <1>5, <1>6 DEF SearchNext, compare, found, skip, not_found, binary_half,
       binary_found, binary_absent

\* The table that kmp_failure writes is right for every needle: P[k] is the length
\* of the longest border of its first k + 1 characters.
THEOREM TableRight == SearchSpec => []PrefixTable
  <1>1. SearchInit => TableInv
    <2> SUFFICES ASSUME SearchInit, phase \in {"failure", "search"} PROVE TableInv
      BY DEF TableInv
    <2>1. /\ query \in Texts(1, MaxQuery, {"lower"}) /\ phase = "failure" /\ query.len > 1
          /\ i = 1 /\ j = 0
      BY DEF SearchInit, boyermoore_call, kmp_call, binary_call, InP
    <2>2. query.len \in Nat
      BY <2>1, SearchAssumption DEF Texts
    <2>3. P \in [0 .. query.len - 1 -> Nat] /\ P[0] = 0
      BY <2>1, <2>2 DEF SearchInit
    <2>4. Border(i - 1, j) /\ j + 2 .. i = {}
      BY <2>1 DEF Border
    <2> QED
      BY <2>1, <2>2, <2>3, <2>4 DEF TableInv
  <1>2. TableInv => PrefixTable
    BY DEF TableInv, PrefixTable, Longest
  <1> QED
    BY <1>1, <1>2, TableNext, PTL DEF SearchSpec

-----------------------------------------------------------------------------
(* Boyer and Moore's search.  With the query laid at pos - i, its end       *)
(* agrees with the text behind i.                                          *)

Lowered == \A x \in 0 .. query.len - 1 : tolower(query.at[x]) = query.at[x]

Agree == \A x \in i + 1 .. query.len - 1 : same(text.at[pos - i + x], query.at[x])

CompareInv ==
  phase = "compare" =>
    /\ query.len \in Nat \ {0} /\ text.len \in Nat /\ Lowered
    /\ i \in -1 .. query.len - 1 /\ pos \in Int /\ pos - i >= 0 /\ result = -1
    /\ i < query.len - 1 => pos - i + query.len <= text.len
    /\ Agree
    /\ \A p \in 0 .. pos - i - 1 : ~Occurs(p)

\* The test in the loop compares as the tables do, since the query is lowered.
LEMMA MatchIsSame ==
  ASSUME Lowered, i \in 0 .. query.len - 1
  PROVE  matches <=> same(text.at[pos], query.at[i])
  BY DEF matches, same, Lowered

\* What the search knows when two characters differ: where the query occurs
\* further on, it agrees with its own end shifted by s, and not at i.
LEMMA Shifted ==
  ASSUME query.len \in Nat \ {0}, i \in 0 .. query.len - 1, pos \in Int, Agree,
         ~same(text.at[pos], query.at[i]),
         NEW s \in Nat, Occurs(pos - i + s)
  PROVE  /\ s > 0
         /\ \A y \in i + 1 .. query.len - 1 :
              s <= y => same(query.at[y - s], query.at[y])
         /\ s <= i => ~same(query.at[i - s], query.at[i])
  <1>1. ASSUME NEW y \in 0 .. query.len - 1, s <= y
        PROVE  same(text.at[pos - i + y], query.at[y - s])
    <2>1. y - s \in 0 .. query.len - 1 /\ pos - i + s + (y - s) = pos - i + y
      BY <1>1
    <2>2. same(text.at[pos - i + s + (y - s)], query.at[y - s])
      BY <2>1 DEF Occurs
    <2> QED
      BY <2>1, <2>2
  <1>2. pos - i + i = pos
    OBVIOUS
  <1>3. s > 0
    <2>1. CASE s = 0
      <3>1. same(text.at[pos - i + i], query.at[i - s]) /\ i - s = i
        BY <1>1, <2>1
      <3> QED
        BY <1>2, <3>1
    <2> QED
      BY <2>1
  <1>4. ASSUME NEW y \in i + 1 .. query.len - 1, s <= y
        PROVE  same(query.at[y - s], query.at[y])
    <2>1. same(text.at[pos - i + y], query.at[y - s])
      BY <1>1, <1>4
    <2>2. same(text.at[pos - i + y], query.at[y])
      BY DEF Agree
    <2> QED
      BY <2>1, <2>2, SameIsEquivalence
  <1>5. ASSUME s <= i, same(query.at[i - s], query.at[i]) PROVE FALSE
    <2>1. same(text.at[pos - i + i], query.at[i - s])
      BY <1>1, <1>5
    <2> QED
      BY <1>2, <1>5, <2>1, SameIsEquivalence
  <1> QED
    BY <1>3, <1>4, <1>5

\* alpha_skip never leads past an occurrence.
LEMMA AlphaSkipSafe ==
  ASSUME query.len \in Nat \ {0}, i \in 0 .. query.len - 1, pos \in Int,
         NEW s \in Nat, s > 0, Occurs(pos - i + s)
  PROVE  /\ generate_alpha_skip(text.at[pos]) \in Int
         /\ pos - i + s > pos + generate_alpha_skip(text.at[pos]) - query.len
  <1> DEFINE occ == {x \in 0 .. query.len - 2 : same(query.at[x], text.at[pos])}
             A == generate_alpha_skip(text.at[pos])
  <1>1. A = IF occ = {} THEN query.len ELSE query.len - 1 - Greatest(occ)
    BY DEF generate_alpha_skip
  <1>2. CASE query.len = 1
    <2>1. occ = {} /\ i = 0
      BY <1>2
    <2> QED
      BY <1>1, <1>2, <2>1
  <1>3. CASE query.len > 1
    <2>1. occ # {} => Greatest(occ) \in occ /\ \A y \in occ : y <= Greatest(occ)
      <3>1. query.len - 2 \in Nat /\ occ \subseteq 0 .. query.len - 2
        BY <1>3
      <3> HIDE DEF occ
      <3> QED
        BY <3>1, GreatestOf
    <2>2. CASE s > i
      BY <1>1, <2>1, <2>2
    <2>3. CASE s <= i
      <3>1. same(text.at[pos - i + s + (i - s)], query.at[i - s]) /\ pos - i + s + (i - s) = pos
        BY <2>3 DEF Occurs
      <3>2. i - s \in occ
        BY <2>3, <3>1, SameIsEquivalence
      <3>3. A = query.len - 1 - Greatest(occ) /\ i - s <= Greatest(occ) /\ Greatest(occ) \in Nat
        BY <1>1, <2>1, <3>2
      <3> QED
        BY <3>3
    <2> QED
      BY <2>2, <2>3
  <1> QED
    BY <1>2, <1>3

LEMMA SuffixLen ==
  ASSUME query.len \in Nat, NEW p \in 0 .. query.len - 1
  PROVE  /\ suffix_len(p) \in 0 .. p
         /\ \A x \in 0 .. p :
              /\ x = p \/ ~same(query.at[p - x], query.at[query.len - x - 1])
              /\ \A y \in 0 .. x - 1 : same(query.at[p - y], query.at[query.len - y - 1])
              => suffix_len(p) = x
  <1> DEFINE X == {x \in 0 .. p : x = p \/ ~same(query.at[p - x], query.at[query.len - x - 1])}
  <1>1. X \subseteq Nat /\ p \in X
    OBVIOUS
  <1>2. suffix_len(p) = Least(X)
    BY DEF suffix_len
  <1>3. Least(X) \in X /\ \A y \in X : Least(X) <= y
    <2> HIDE DEF X
    <2> QED
      BY <1>1, LeastOf
  <1>4. ASSUME NEW x \in 0 .. p,
               x = p \/ ~same(query.at[p - x], query.at[query.len - x - 1]),
               \A y \in 0 .. x - 1 : same(query.at[p - y], query.at[query.len - y - 1])
        PROVE  Least(X) = x
    <2>1. x \in X
      BY <1>4
    <2>2. Least(X) <= x /\ Least(X) \in 0 .. p
      BY <1>3, <2>1
    <2>3. Least(X) = p \/ ~(Least(X) \in 0 .. x - 1)
      BY <1>3, <1>4
    <2> HIDE DEF X
    <2> QED
      BY <2>2, <2>3
  <1>5. Least(X) \in 0 .. p
    BY <1>3
  <1> HIDE DEF X
  <1> QED
    BY <1>2, <1>4, <1>5

LEMMA LastPrefix ==
  ASSUME query.len \in Nat, NEW k \in 0 .. query.len - 1
  PROVE  /\ last_prefix(k) \in k + 1 .. query.len
         /\ \A p \in k + 1 .. query.len : is_prefix(p) => last_prefix(k) <= p
  <1> DEFINE X == {p \in k + 1 .. query.len : is_prefix(p)}
  <1>1. is_prefix(query.len)
    BY DEF is_prefix
  <1>2. X \subseteq Nat /\ query.len \in X
    BY <1>1
  <1>3. Least(X) \in X /\ \A y \in X : Least(X) <= y
    <2> HIDE DEF X
    <2> QED
      BY <1>2, LeastOf
  <1>4. last_prefix(k) = Least(X)
    BY DEF last_prefix
  <1>5. Least(X) \in k + 1 .. query.len
    BY <1>3
  <1>6. \A p \in k + 1 .. query.len : is_prefix(p) => Least(X) <= p
    BY <1>3
  <1> HIDE DEF X
  <1> QED
    BY <1>4, <1>5, <1>6

\* Nor does find_skip.
LEMMA FindSkipSafe ==
  ASSUME query.len \in Nat \ {0}, i \in 0 .. query.len - 1, pos \in Int, Agree,
         ~same(text.at[pos], query.at[i]),
         NEW s \in Nat, Occurs(pos - i + s)
  PROVE  /\ generate_find_skip(i) \in Int
         /\ pos - i + s > pos + generate_find_skip(i) - query.len
  <1> DEFINE F == generate_find_skip(i)
             W == writers(i)
  <1>1. /\ s > 0
        /\ \A y \in i + 1 .. query.len - 1 : s <= y => same(query.at[y - s], query.at[y])
        /\ s <= i => ~same(query.at[i - s], query.at[i])
    BY Shifted
  <1>2. \A p \in W : p \in 0 .. query.len - 1 /\ suffix_len(p) = query.len - 1 - i
    BY SuffixLen DEF writers
  <1>3. W # {} => Greatest(W) \in W /\ \A y \in W : y <= Greatest(W)
    <2>1. query.len - 1 \in Nat /\ W \subseteq 0 .. query.len - 1
      BY <1>2
    <2> HIDE DEF W
    <2> QED
      BY <2>1, GreatestOf
  <1>4. last_prefix(i) \in i + 1 .. query.len
    BY LastPrefix
  <1>5. CASE s > i
    <2>1. last_prefix(i) <= s
      <3>1. CASE s <= query.len
        <4>1. is_prefix(s)
          <5> SUFFICES ASSUME NEW x \in 0 .. query.len - s - 1
                       PROVE  same(query.at[x], query.at[x + s])
            BY DEF is_prefix
          <5>1. x + s \in i + 1 .. query.len - 1 /\ x + s - s = x
            BY <1>5
          <5>2. same(query.at[x + s - s], query.at[x + s])
            BY <1>1, <5>1
          <5> QED
            BY <5>1, <5>2
        <4> QED
          BY <1>5, <3>1, <4>1, LastPrefix
      <3>2. CASE s > query.len
        BY <1>4, <3>2
      <3> QED
        BY <3>1, <3>2
    <2>2. CASE W = {}
      <3>1. F = last_prefix(i) + (query.len - i - 1)
        BY <2>2 DEF generate_find_skip
      <3> QED
        BY <1>4, <2>1, <3>1
    <2>3. CASE W # {}
      <3>1. PICK q : q = Greatest(W)
        OBVIOUS
      <3>2. F = query.len - 1 - q + suffix_len(q)
        BY <2>3, <3>1 DEF generate_find_skip
      <3>3. q \in 0 .. query.len - 1 /\ suffix_len(q) = query.len - 1 - i
        BY <1>2, <1>3, <2>3, <3>1
      <3>4. suffix_len(q) <= q
        BY <3>3, SuffixLen
      <3> QED
        BY <1>5, <3>2, <3>3, <3>4
    <2> QED
      BY <2>2, <2>3
  <1>6. CASE s <= i
    <2>1. PICK p \in 0 .. query.len - 1 : p = query.len - 1 - s
      BY <1>6
    <2>2. PICK x \in 0 .. p : x = query.len - 1 - i
      BY <1>6, <2>1
    <2>3. /\ p - x = i - s /\ query.len - x - 1 = i
          /\ query.len - 1 - x = i
      BY <2>1, <2>2
    <2>4. ASSUME NEW y \in 0 .. x - 1
          PROVE  same(query.at[p - y], query.at[query.len - y - 1])
      <3>1. /\ query.len - y - 1 \in i + 1 .. query.len - 1 /\ s <= query.len - y - 1
            /\ query.len - y - 1 - s = p - y
        BY <1>6, <2>1, <2>2
      <3>2. same(query.at[query.len - y - 1 - s], query.at[query.len - y - 1])
        BY <1>1, <3>1
      <3> QED
        BY <3>1, <3>2
    <2>5. ~same(query.at[p - x], query.at[query.len - x - 1])
      BY <1>1, <1>6, <2>3
    <2>6. suffix_len(p) = x
      BY <2>4, <2>5, SuffixLen
    <2>7. query.at[p - x] # query.at[query.len - 1 - x]
      BY <2>3, <2>5, SameIsEquivalence
    <2>8. p \in W
      BY <2>3, <2>6, <2>7 DEF writers
    <2>9. PICK q : q = Greatest(W)
      OBVIOUS
    <2>10. F = query.len - 1 - q + suffix_len(q)
      BY <2>8, <2>9 DEF generate_find_skip
    <2>11. p <= q /\ q \in 0 .. query.len - 1 /\ suffix_len(q) = query.len - 1 - i
      BY <1>2, <1>3, <2>8, <2>9
    <2> QED
      BY <2>1, <2>10, <2>11
  <1> QED
    BY <1>5, <1>6

\* The query never moves back.
LEMMA SkipsForward ==
  ASSUME query.len \in Nat \ {0}, i \in 0 .. query.len - 1, NEW c
  PROVE  /\ generate_alpha_skip(c) \in Int
         /\ generate_find_skip(i) \in Int /\ generate_find_skip(i) >= query.len - 1 - i
  <1>1. generate_alpha_skip(c) \in Int
    <2> DEFINE occ == {x \in 0 .. query.len - 2 : same(query.at[x], c)}
    <2>1. occ # {} => Greatest(occ) \in Int
      <3>1. occ \subseteq 0 .. query.len - 1 /\ query.len - 1 \in Nat
        OBVIOUS
      <3> HIDE DEF occ
      <3>2. occ # {} => Greatest(occ) \in occ
        BY <3>1, GreatestOf
      <3>3. \A x \in 0 .. query.len - 1 : x \in Int
        OBVIOUS
      <3> QED
        BY <3>1, <3>2, <3>3, Zenon
    <2> QED
      BY <2>1 DEF generate_alpha_skip
  <1>2. generate_find_skip(i) \in Int /\ generate_find_skip(i) >= query.len - 1 - i
    <2>1. CASE writers(i) = {}
      <3>1. generate_find_skip(i) = last_prefix(i) + (query.len - i - 1)
        BY <2>1 DEF generate_find_skip
      <3>2. last_prefix(i) \in i + 1 .. query.len
        BY LastPrefix
      <3> QED
        BY <3>1, <3>2
    <2>2. CASE writers(i) # {}
      <3>1. PICK q : q = Greatest(writers(i))
        OBVIOUS
      <3>2. writers(i) \subseteq 0 .. query.len - 1 /\ query.len - 1 \in Nat
        BY DEF writers
      <3>3. q \in writers(i)
        BY <2>2, <3>1, <3>2, GreatestOf
      <3>4. q \in 0 .. query.len - 1 /\ suffix_len(q) = query.len - 1 - i
        BY <3>3, SuffixLen DEF writers
      <3>5. generate_find_skip(i) = query.len - 1 - q + suffix_len(q)
        BY <2>2, <3>1 DEF generate_find_skip
      <3> QED
        BY <3>4, <3>5
    <2> QED
      BY <2>1, <2>2
  <1> QED
    BY <1>1, <1>2

LEMMA SkipKeeps ==
  ASSUME CompareInv, skip
  PROVE  CompareInv'
  <1>1. /\ query.len \in Nat \ {0} /\ text.len \in Nat /\ Lowered
        /\ i \in 0 .. query.len - 1 /\ pos \in Int /\ pos - i >= 0 /\ result = -1
        /\ Agree /\ ~same(text.at[pos], query.at[i])
        /\ \A p \in 0 .. pos - i - 1 : ~Occurs(p)
    <2>1. phase = "compare" /\ i >= 0 /\ ~matches
      BY DEF skip
    <2>2. query.len \in Nat \ {0} /\ i \in 0 .. query.len - 1 /\ Lowered
      BY <2>1 DEF CompareInv
    <2> QED
      BY <2>1, <2>2, MatchIsSame DEF CompareInv
  <1>2. PICK A, F : /\ A = generate_alpha_skip(text.at[pos])
                    /\ F = generate_find_skip(i)
    OBVIOUS
  <1>3. A \in Int /\ F \in Int /\ F >= query.len - 1 - i
    BY <1>1, <1>2, SkipsForward
  <1>4. pos' = pos + (IF A > F THEN A ELSE F) /\ i' = query.len - 1
    BY <1>2 DEF skip
  <1>5. UNCHANGED <<text, query, case_sensitive, phase, result>>
    BY DEF skip, args
  <1>6. ASSUME NEW p \in 0 .. pos' - i' - 1, Occurs(p) PROVE FALSE
    <2>1. p \in Nat /\ p <= pos + (IF A > F THEN A ELSE F) - query.len
      BY <1>1, <1>3, <1>4
    <2>2. p >= pos - i
      BY <1>1, <1>6, <2>1
    <2>3. PICK s \in Nat : p = pos - i + s
      BY <1>1, <2>1, <2>2
    <2>4. Occurs(pos - i + s)
      BY <1>6, <2>3
    <2>5. s > 0
      BY <1>1, <2>4, Shifted
    <2>6. p > pos + A - query.len
      BY <1>1, <1>2, <2>3, <2>4, <2>5, AlphaSkipSafe
    <2>7. p > pos + F - query.len
      BY <1>1, <1>2, <2>3, <2>4, FindSkipSafe
    <2> QED
      BY <1>1, <1>3, <2>1, <2>6, <2>7
  <1>7. pos' \in Int /\ i' \in 0 .. query.len - 1 /\ pos' - i' >= 0
    BY <1>1, <1>3, <1>4
  <1>8. Lowered' /\ \A p : Occurs(p)' <=> Occurs(p)
    BY <1>1, <1>5 DEF Lowered, Occurs, same
  <1>9. Agree'
    BY <1>1, <1>4, <1>5 DEF Agree
  <1>10. \A p \in 0 .. pos' - i' - 1 : ~Occurs(p)'
    BY <1>6, <1>8
  <1> QED
    BY <1>1, <1>4, <1>5, <1>7, <1>8, <1>9, <1>10 DEF CompareInv

LEMMA CompareKeeps ==
  ASSUME CompareInv, compare
  PROVE  CompareInv'
  <1>1. /\ query.len \in Nat \ {0} /\ text.len \in Nat /\ Lowered
        /\ i \in 0 .. query.len - 1 /\ pos \in Int /\ pos - i >= 0 /\ result = -1
        /\ Agree /\ same(text.at[pos], query.at[i])
        /\ \A p \in 0 .. pos - i - 1 : ~Occurs(p)
        /\ i < query.len - 1 => pos - i + query.len <= text.len
        /\ pos < text.len
    <2>1. phase = "compare" /\ i >= 0 /\ matches /\ pos < text.len
      BY DEF compare
    <2>2. query.len \in Nat \ {0} /\ i \in 0 .. query.len - 1 /\ Lowered
      BY <2>1 DEF CompareInv
    <2> QED
      BY <2>1, <2>2, MatchIsSame DEF CompareInv
  <1>2. /\ pos' = pos - 1 /\ i' = i - 1 /\ pos' - i' = pos - i
        /\ UNCHANGED <<text, query, case_sensitive, phase, result>>
    BY <1>1 DEF compare, args
  <1>3. Lowered' /\ \A p : Occurs(p)' <=> Occurs(p)
    BY <1>1, <1>2 DEF Lowered, Occurs, same
  <1>4. \A a, b : same(a, b)' <=> same(a, b)
    BY <1>2 DEF same
  <1>5. ASSUME NEW x \in i .. query.len - 1 PROVE same(text.at[pos - i + x], query.at[x])
    <2>1. CASE x = i
      <3>1. pos - i + x = pos
        BY <1>1, <2>1
      <3> QED
        BY <1>1, <2>1, <3>1
    <2>2. CASE x > i
      BY <1>1, <2>2 DEF Agree
    <2> QED
      BY <1>1, <2>1, <2>2
  <1>6. Agree'
    <2> SUFFICES ASSUME NEW x \in i' + 1 .. query.len - 1
                 PROVE  same(text.at[pos - i + x], query.at[x])'
      BY <1>2 DEF Agree
    <2>1. x \in i .. query.len - 1
      BY <1>1, <1>2
    <2>2. same(text.at[pos - i + x], query.at[x])
      BY <1>5, <2>1
    <2> QED
      BY <1>2, <2>2 DEF same
  <1>7. pos' - i' + query.len <= text.len
    BY <1>1, <1>2
  <1> QED
    BY <1>1, <1>2, <1>3, <1>6, <1>7 DEF CompareInv

LEMMA CompareNext ==
  ASSUME CompareInv, [SearchNext]_searchVars
  PROVE  CompareInv'
  <1>1. CASE skip
    BY <1>1, SkipKeeps
  <1>2. CASE compare
    BY <1>2, CompareKeeps
  <1>3. CASE phase' # "compare"
    BY <1>3 DEF CompareInv
  <1>4. CASE UNCHANGED searchVars
    <2>1. /\ Lowered' <=> Lowered
          /\ Agree' <=> Agree
          /\ \A p : Occurs(p)' <=> Occurs(p)
      BY <1>4 DEF searchVars, args, Lowered, Agree, Occurs, same
    <2> QED
      BY <1>4, <2>1 DEF CompareInv, searchVars, args
  <1> QED
    BY <1>1, <1>2, <1>3, <1>4 DEF SearchNext, found, not_found, failure_back, failure_next,
       failure_end, search_back, search_next, search_end, binary_half, binary_found,
       binary_absent

LEMMA StringsLen ==
  ASSUME NEW hi \in Nat, NEW cases, NEW t \in Texts(0, hi, cases)
  PROVE  t.len \in Nat
  <1>1. PICK n \in 0 .. hi : t \in [len : {n}, at : [0 .. n - 1 -> Letter \X cases]]
    BY DEF Texts
  <1> QED
    BY <1>1

LEMMA CompareInit ==
  SearchInit => CompareInv
  <1> SUFFICES ASSUME SearchInit, phase = "compare" PROVE CompareInv
    BY DEF CompareInv
  <1>1. /\ query \in Texts(1, MaxQuery, {"lower"}) /\ boyermoore_call /\ result = -1
    BY DEF SearchInit, kmp_call, binary_call
  <1>2. PICK n \in 1 .. MaxQuery : query \in [len : {n}, at : [0 .. n - 1 -> Letter \X {"lower"}]]
    BY <1>1 DEF Texts
  <1>3. query.len = n /\ n \in Nat \ {0} /\ query.at \in [0 .. n - 1 -> Letter \X {"lower"}]
    BY <1>2, SearchAssumption
  <1>4. Lowered
    BY <1>3 DEF Lowered, tolower
  <1>5. text.len \in Nat
    <2>1. \/ text \in Texts(0, MaxText, {"lower"})
          \/ text \in Texts(0, MaxMixed, {"lower", "upper"})
      BY <1>1 DEF boyermoore_call
    <2> QED
      BY <2>1, StringsLen, SearchAssumption
  <1>6. pos = query.len - 1 /\ i = query.len - 1
    BY <1>1 DEF boyermoore_call
  <1>7. Agree
    BY <1>3, <1>6 DEF Agree
  <1> QED
    BY <1>1, <1>3, <1>4, <1>5, <1>6, <1>7 DEF CompareInv

\* For every text, query and alphabet, with case and without: the jumps of
\* posixc_boyermoore_search_in lead past no occurrence of the query.
THEOREM SkipsNone == SearchSpec => []NoneSkipped
  <1>1. CompareInv => NoneSkipped
    BY DEF CompareInv, NoneSkipped
  <1> QED
    BY <1>1, CompareInit, CompareNext, PTL DEF SearchSpec

-----------------------------------------------------------------------------
(* The answers.                                                            *)

\* When posixc_boyermoore_search_in returns, it returns the first occurrence of the
\* query in the text, or NULL when there is none.
THEOREM BoyerMooreRight == SearchSpec => [][phase = "compare" /\ phase' = "done" => Right']_searchVars
  <1>1. ASSUME CompareInv, [SearchNext]_searchVars, phase = "compare", phase' = "done"
        PROVE  Right'
    <2>1. found \/ not_found
      BY <1>1 DEF SearchNext, searchVars, compare, skip, failure_back, failure_next, failure_end,
         search_back, search_next, search_end, binary_half, binary_found, binary_absent
    <2>2. UNCHANGED <<text, query, case_sensitive>>
      BY <2>1 DEF found, not_found, args
    <2>3. \A p : Occurs(p)' <=> Occurs(p)
      BY <2>2 DEF Occurs, same
    <2>4. CASE found
      <3>1. /\ i = -1 /\ result' = pos + 1 /\ pos \in Int /\ pos + 1 >= 0
            /\ query.len \in Nat \ {0} /\ pos - i + query.len <= text.len
            /\ pos - i = pos + 1
        BY <1>1, <2>4 DEF found, CompareInv
      <3>2. \A x \in 0 .. query.len - 1 : same(text.at[pos + 1 + x], query.at[x])
        BY <1>1, <3>1 DEF CompareInv, Agree
      <3>3. Occurs(pos + 1)
        BY <3>1, <3>2 DEF Occurs
      <3>4. \A p \in 0 .. pos + 1 - 1 : ~Occurs(p)
        BY <1>1, <3>1 DEF CompareInv
      <3> HIDE DEF Occurs
      <3>5. Occurs(result)' /\ \A p \in 0 .. result' - 1 : ~Occurs(p)'
        <4>1. \A p \in 0 .. result' - 1 : ~Occurs(p)'
          BY <2>3, <3>1, <3>4
        <4>2. Occurs(result)'
          BY <2>2, <3>1, <3>3 DEF Occurs, same
        <4> QED
          BY <4>1, <4>2
      <3> QED
        BY <3>1, <3>5 DEF Right
    <2>5. CASE not_found
      <3>1. /\ result' = -1 /\ pos >= text.len /\ i \in 0 .. query.len - 1
            /\ query.len \in Nat \ {0} /\ text.len \in Nat /\ pos \in Int
            /\ \A p \in 0 .. pos - i - 1 : ~Occurs(p)
        BY <1>1, <2>5 DEF not_found, CompareInv
      <3>2. ASSUME NEW p \in 0 .. text.len, Occurs(p) PROVE FALSE
        <4>1. p + query.len <= text.len
          BY <3>2 DEF Occurs
        <4>2. p \in 0 .. pos - i - 1
          BY <3>1, <4>1
        <4> QED
          BY <3>1, <3>2, <4>2
      <3> QED
        BY <2>2, <2>3, <3>1, <3>2 DEF Right
    <2> QED
      BY <2>1, <2>4, <2>5
  <1>2. CompareInv /\ [SearchNext]_searchVars => [phase = "compare" /\ phase' = "done" => Right']_searchVars
    BY <1>1
  <1> QED
    BY <1>2, CompareInit, CompareNext, PTL DEF SearchSpec

\* What is left of the haystack: before i the words are smaller than the needle,
\* from j on they are greater.
HalveInv ==
  phase = "halve" =>
    /\ case_sensitive /\ query.len = 1 /\ query.at[0] \in Int
    /\ text.len \in Nat /\ text.at \in [0 .. text.len - 1 -> Int]
    /\ \A x, y \in 0 .. text.len - 1 : x <= y => text.at[x] <= text.at[y]
    /\ i \in 0 .. text.len /\ j \in i .. text.len /\ result = -1
    /\ \A x \in 0 .. i - 1 : text.at[x] < query.at[0]
    /\ \A x \in j .. text.len - 1 : query.at[0] < text.at[x]

LEMMA HalveNext ==
  ASSUME HalveInv, [SearchNext]_searchVars
  PROVE  HalveInv'
  <1>1. CASE binary_half
    <2>1. /\ phase = "halve" /\ i # j /\ text.at[mid] # query.at[0]
          /\ query.at[0] \in Int /\ text.len \in Nat
          /\ i \in 0 .. text.len /\ j \in i .. text.len
      BY <1>1 DEF binary_half, HalveInv
    <2>2. \A x \in 0 .. text.len - 1 : text.at[x] \in Int
      BY <2>1 DEF HalveInv
    <2>3. \A x, y \in 0 .. text.len - 1 : x <= y => text.at[x] <= text.at[y]
      BY <2>1 DEF HalveInv
    <2>4. PICK m \in i .. j - 1 : m = mid
      BY <2>1 DEF mid
    <2>5. m \in 0 .. text.len - 1
      BY <2>1
    <2>6. UNCHANGED <<text, query, case_sensitive, phase, result>>
      BY <1>1 DEF binary_half, args
    <2>7. CASE query.at[0] < text.at[m]
      <3>1. j' = m /\ i' = i
        BY <1>1, <2>4, <2>7 DEF binary_half
      <3>2. ASSUME NEW x \in m .. text.len - 1 PROVE query.at[0] < text.at[x]
        <4>1. x \in 0 .. text.len - 1 /\ m <= x
          BY <2>1, <2>5
        <4>2. text.at[m] <= text.at[x]
          BY <2>3, <2>5, <4>1
        <4> QED
          BY <2>1, <2>2, <2>5, <2>7, <4>1, <4>2
      <3> QED
        BY <2>1, <2>5, <2>6, <3>1, <3>2 DEF HalveInv
    <2>8. CASE ~(query.at[0] < text.at[m])
      <3>1. i' = m + 1 /\ j' = j
        BY <1>1, <2>4, <2>8 DEF binary_half
      <3>2. text.at[m] < query.at[0]
        BY <2>1, <2>2, <2>4, <2>5, <2>8
      <3>3. ASSUME NEW x \in 0 .. m PROVE text.at[x] < query.at[0]
        <4>1. x \in 0 .. text.len - 1 /\ x <= m
          BY <2>1, <2>5
        <4>2. text.at[x] <= text.at[m]
          BY <2>3, <2>5, <4>1
        <4> QED
          BY <2>1, <2>2, <2>5, <3>2, <4>1, <4>2
      <3> QED
        BY <2>1, <2>5, <2>6, <3>1, <3>3 DEF HalveInv
    <2> QED
      BY <2>7, <2>8
  <1>2. CASE phase' # "halve"
    BY <1>2 DEF HalveInv
  <1>3. CASE UNCHANGED searchVars
    BY <1>3 DEF HalveInv, searchVars, args
  <1> QED
    BY <1>1, <1>2, <1>3 DEF SearchNext, compare, found, skip, not_found, failure_back,
       failure_next, failure_end, search_back, search_next, search_end, binary_found,
       binary_absent

LEMMA HalveInit ==
  SearchInit => HalveInv
  <1> SUFFICES ASSUME SearchInit, phase = "halve" PROVE HalveInv
    BY DEF HalveInv
  <1>1. binary_call /\ result = -1
    BY DEF SearchInit, boyermoore_call, kmp_call
  <1>2. case_sensitive /\ query.len = 1 /\ query.at[0] \in Int
    BY <1>1, SearchAssumption DEF binary_call
  <1>3. PICK n \in 0 .. MaxText : \E a \in [0 .. n - 1 -> Words] :
          /\ text = [len |-> n, at |-> a]
          /\ \A x, y \in 0 .. n - 1 : x <= y => a[x] <= a[y]
    BY <1>1 DEF binary_call
  <1>4. PICK a \in [0 .. n - 1 -> Words] :
          /\ text = [len |-> n, at |-> a]
          /\ \A x, y \in 0 .. n - 1 : x <= y => a[x] <= a[y]
    BY <1>3
  <1>5. text.len = n /\ text.at = a /\ n \in Nat /\ a \in [0 .. n - 1 -> Int]
    <2>1. text.len = n /\ text.at = a /\ n \in Nat
      BY <1>4, SearchAssumption
    <2>2. \A x \in 0 .. n - 1 : a[x] \in Int
      BY SearchAssumption
    <2> QED
      BY <2>1, <2>2
  <1>6. i = 0 /\ j = text.len
    BY <1>1 DEF binary_call
  <1> QED
    BY <1>1, <1>2, <1>4, <1>5, <1>6 DEF HalveInv

\* When posixc_binary_search of a sorted haystack returns, it returns a place of the
\* needle, or -1 when the needle is not in the haystack.
THEOREM BinaryRight ==
  SearchSpec => [][phase = "halve" /\ phase' = "done" =>
               IF result' = -1 THEN \A p \in 0 .. text.len : ~Occurs(p)
                               ELSE Occurs(result')]_searchVars
  <1>1. ASSUME HalveInv, [SearchNext]_searchVars, phase = "halve", phase' = "done"
        PROVE  IF result' = -1 THEN \A p \in 0 .. text.len : ~Occurs(p)
                               ELSE Occurs(result')
    <2> USE <1>1 DEF HalveInv
    <2>1. binary_found \/ binary_absent
      BY DEF SearchNext, searchVars, compare, found, skip, not_found, failure_back, failure_next,
         failure_end, search_back, search_next, search_end, binary_half
    <2>2. \A p \in 0 .. text.len :
            Occurs(p) <=> p < text.len /\ text.at[p] = query.at[0]
      <3> SUFFICES ASSUME NEW p \in 0 .. text.len
                   PROVE  Occurs(p) <=> p < text.len /\ text.at[p] = query.at[0]
        OBVIOUS
      <3>1. query.len = 1 /\ (p + query.len <= text.len <=> p < text.len)
        OBVIOUS
      <3>2. \A x \in 0 .. query.len - 1 : x = 0 /\ p + x = p
        BY <3>1
      <3>3. 0 \in 0 .. query.len - 1
        BY <3>1
      <3>4. (\A x \in 0 .. query.len - 1 : same(text.at[p + x], query.at[x]))
              <=> same(text.at[p], query.at[0])
        BY <3>2, <3>3
      <3>5. same(text.at[p], query.at[0]) <=> text.at[p] = query.at[0]
        BY DEF same
      <3> QED
        BY <3>1, <3>4, <3>5 DEF Occurs
    <2>3. CASE binary_found
      <3>1. /\ mid \in 0 .. text.len /\ mid < text.len /\ mid # -1
            /\ result' = mid /\ text.at[mid] = query.at[0]
        BY <2>3 DEF binary_found, mid
      <3> QED
        BY <2>2, <3>1
    <2>4. CASE binary_absent
      <3>1. i = j /\ result' = -1
        BY <2>4 DEF binary_absent
      <3>2. \A x \in 0 .. text.len - 1 : text.at[x] # query.at[0]
        BY <3>1
      <3> QED
        BY <2>2, <3>1, <3>2
    <2> QED
      BY <2>1, <2>3, <2>4
  <1>2. HalveInv /\ [SearchNext]_searchVars =>
          [phase = "halve" /\ phase' = "done" =>
               IF result' = -1 THEN \A p \in 0 .. text.len : ~Occurs(p)
                               ELSE Occurs(result')]_searchVars
    BY <1>1
  <1> QED
    BY <1>2, HalveInit, HalveNext, PTL DEF SearchSpec
=============================================================================
