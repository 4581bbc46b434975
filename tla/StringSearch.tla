---------------------------- MODULE StringSearch ----------------------------
(***************************************************************************)
(* posixc_kmp_contains (common/kmp.c), posixc_boyermoore_contains and      *)
(* posixc_boyermoore_contains_case_ignored (common/boyermoore.c), between  *)
(* which posixc_slice_contains chooses, and posixc_binary_search           *)
(* (common/utils.c).  A call takes one step per turn of a loop, or per     *)
(* recursive call; the tables of Boyer and Moore are operators.  Arrays    *)
(* start at 0, as in C.  An access outside P is undefined behaviour: the   *)
(* call ends in the phase "undefined".                                     *)
(*                                                                         *)
(* Letters come in two cases: <<c, "lower">> and <<c, "upper">>.  The      *)
(* words of a haystack are numbers, ordered as strcmp orders the words.    *)
(***************************************************************************)
EXTENDS Integers

CONSTANTS
  Algos,                         \* algorithms called: "kmp", "boyermoore", "binary"
  Letter, Words,
  MaxText, MaxMixed, MaxQuery    \* bounds: lengths of texts in lower case, of
                                 \* texts of mixed case, and of queries

ASSUME SearchAssumption ==
  /\ Algos \subseteq {"kmp", "boyermoore", "binary"} /\ Words \subseteq Int
  /\ MaxText \in Nat /\ MaxMixed \in Nat /\ MaxQuery \in Nat

VARIABLES
  text, query,       \* the arguments, [len, at]
  case_sensitive,
  phase,             \* "compare" (Boyer and Moore), "failure", "search" (KMP),
                     \* "halve" (binary search), "done", "undefined"
  P, i, j, pos,
  result             \* the index returned, -1 for NULL

args == <<text, query, case_sensitive>>
searchVars == <<args, phase, P, i, j, pos, result>>

Texts(lo, hi, cases) ==
  UNION {[len : {n}, at : [0 .. n - 1 -> Letter \X cases]] : n \in lo .. hi}

Least(X)    == CHOOSE x \in X : \A y \in X : x <= y
Greatest(X) == CHOOSE x \in X : \A y \in X : y <= x

-----------------------------------------------------------------------------
(* The tables of Boyer and Moore's search: each operator gives what the    *)
(* last turn of the loop that writes an entry leaves there.                *)

tolower(c) == <<c[1], "lower">>
same(a, b) == IF case_sensitive THEN a = b ELSE tolower(a) = tolower(b)

is_prefix(p) == \A x \in 0 .. query.len - p - 1 : same(query.at[x], query.at[x + p])

\* How far the query's characters up to p agree with its end.
suffix_len(p) ==
  Least({x \in 0 .. p : x = p \/ ~same(query.at[p - x], query.at[query.len - x - 1])})

\* First loop: the first prefix start beyond k.
last_prefix(k) == Least({p \in k + 1 .. query.len : is_prefix(p)})

\* Second loop: the p that write entry k.
writers(k) ==
  {p \in 0 .. query.len - 1 :
     /\ query.len - 1 - suffix_len(p) = k
     /\ query.at[p - suffix_len(p)] # query.at[query.len - 1 - suffix_len(p)]}

find_skip_plain(k) == query.len - 1 - k     \* mutant: last_prefix is left out
generate_find_skip(k) ==
  IF writers(k) = {} THEN last_prefix(k) + (query.len - k - 1)
  ELSE LET p == Greatest(writers(k)) IN query.len - 1 - p + suffix_len(p)

\* Distance of the last occurrence of c before the query's last character.
alpha_raw(c) ==                      \* mutant: only one case is entered
  LET occ == {x \in 0 .. query.len - 2 : query.at[x] = c} IN
  IF occ = {} THEN query.len ELSE query.len - 1 - Greatest(occ)
generate_alpha_skip(c) ==
  LET occ == {x \in 0 .. query.len - 2 : same(query.at[x], c)} IN
  IF occ = {} THEN query.len ELSE query.len - 1 - Greatest(occ)

-----------------------------------------------------------------------------
(* Calls.                                                                  *)

\* posixc_boyermoore_init, then posixc_boyermoore_search_in.  Queries are in
\* lower case: an upper case letter of the query matches nothing when case is
\* ignored, because only the text is lowered.
boyermoore_call ==
  /\ "boyermoore" \in Algos
  /\ case_sensitive \in BOOLEAN
  /\ text \in Texts(0, MaxText, {"lower"}) \union
              (IF case_sensitive THEN {} ELSE Texts(0, MaxMixed, {"lower", "upper"}))
  /\ phase = "compare" /\ pos = query.len - 1 /\ i = query.len - 1

\* Is k an index of P, which has one entry per character of the needle?
InP(k) == k < query.len

\* posixc_kmp_contains, then kmp_failure as far as its loop: P[0] = P[1] = 0.
kmp_call ==
  /\ "kmp" \in Algos
  /\ case_sensitive = TRUE
  /\ text \in Texts(0, MaxText, {"lower"})
  /\ phase = IF InP(1) THEN "failure" ELSE "undefined"
  /\ pos = 0 /\ i = 1

\* posixc_binary_search of a word in all of a sorted haystack; i and j are start
\* and end.
binary_call ==
  /\ "binary" \in Algos
  /\ case_sensitive = TRUE
  /\ query \in [len : {1}, at : [{0} -> Words]]
  /\ \E n \in 0 .. MaxText :
       text \in {[len |-> n, at |-> a] : a \in {a \in [0 .. n - 1 -> Words] :
                    \A x, y \in 0 .. n - 1 : x <= y => a[x] <= a[y]}}
  /\ phase = "halve" /\ pos = 0 /\ i = 0 /\ j = text.len

SearchInit ==
  /\ \/ query \in Texts(1, MaxQuery, {"lower"}) /\ (boyermoore_call \/ kmp_call) /\ j = 0
     \/ binary_call
  /\ P = [k \in 0 .. query.len - 1 |-> 0] /\ result = -1

-----------------------------------------------------------------------------
(* posixc_boyermoore_search_in.                                            *)

matches == (IF case_sensitive THEN text.at[pos] ELSE tolower(text.at[pos])) = query.at[i]

\* One turn of the inner loop: pos--, i--.  At -1 the unsigned pos wraps, and
\* pos + 1 wraps back.
compare ==
  /\ phase = "compare" /\ pos < text.len /\ i >= 0
  /\ matches
  /\ pos' = pos - 1 /\ i' = i - 1
  /\ UNCHANGED <<args, phase, P, j, result>>

found ==
  /\ phase = "compare" /\ i < 0
  /\ phase' = "done" /\ result' = pos + 1
  /\ UNCHANGED <<args, P, i, j, pos>>

\* posixc_max of both skips.
skip ==
  /\ phase = "compare" /\ pos < text.len /\ i >= 0
  /\ ~matches
  /\ LET a == generate_alpha_skip(text.at[pos])
         f == generate_find_skip(i)
     IN  pos' = pos + (IF a > f THEN a ELSE f)
  /\ i' = query.len - 1
  /\ UNCHANGED <<args, phase, P, j, result>>

not_found ==
  /\ phase = "compare" /\ i >= 0 /\ pos >= text.len
  /\ phase' = "done"
  /\ UNCHANGED <<args, P, i, j, pos, result>>

-----------------------------------------------------------------------------
(* kmp_failure.                                                            *)

\* The next shorter border, and what the next character makes of a border.
shorter_same(k) == P[k]                     \* mutant: P[j]
shorter(k) == P[k - 1]
extend_always(k) == k + 1                   \* mutant: no comparison
extend(k) == IF query.at[i] = query.at[k] THEN k + 1 ELSE k

failure_back ==
  /\ phase = "failure" /\ i < query.len
  /\ j > 0 /\ query.at[i] # query.at[j]
  /\ j' = shorter(j)
  /\ UNCHANGED <<args, phase, P, i, pos, result>>

failure_next ==
  /\ phase = "failure" /\ i < query.len
  /\ j = 0 \/ query.at[i] = query.at[j]
  /\ j' = extend(j)
  /\ P' = [P EXCEPT ![i] = j']
  /\ i' = i + 1
  /\ UNCHANGED <<args, phase, pos, result>>

failure_end ==
  /\ phase = "failure" /\ i = query.len
  /\ phase' = "search" /\ i' = 0 /\ j' = 0
  /\ UNCHANGED <<args, P, pos, result>>

-----------------------------------------------------------------------------
(* kmp_prefix_search.                                                      *)

Mismatch == j > 0 /\ text.at[i] # query.at[j]

search_back ==
  /\ phase = "search" /\ i < text.len /\ Mismatch
  /\ IF InP(j + 1) THEN j' = P[j + 1] /\ UNCHANGED phase
                   ELSE phase' = "undefined" /\ UNCHANGED j
  /\ UNCHANGED <<args, P, i, pos, result>>

search_next ==
  /\ phase = "search" /\ i < text.len /\ ~Mismatch
  /\ j' = IF query.at[j] = text.at[i] THEN j + 1 ELSE j
  /\ IF j' = query.len
     THEN phase' = "done" /\ result' = i - query.len + 1 /\ UNCHANGED i
     ELSE i' = i + 1 /\ UNCHANGED <<phase, result>>
  /\ UNCHANGED <<args, P, pos>>

search_end ==
  /\ phase = "search" /\ i = text.len
  /\ phase' = "done"
  /\ UNCHANGED <<args, P, i, j, pos, result>>

-----------------------------------------------------------------------------
(* posixc_binary_search.                                                   *)

mid == i + (j - i) \div 2

binary_half ==
  /\ phase = "halve" /\ i # j /\ text.at[mid] # query.at[0]
  /\ IF query.at[0] < text.at[mid] THEN j' = mid /\ UNCHANGED i
                                   ELSE i' = mid + 1 /\ UNCHANGED j
  /\ UNCHANGED <<args, phase, P, pos, result>>

binary_found ==
  /\ phase = "halve" /\ i # j /\ text.at[mid] = query.at[0]
  /\ phase' = "done" /\ result' = mid
  /\ UNCHANGED <<args, P, i, j, pos>>

binary_absent ==
  /\ phase = "halve" /\ i = j
  /\ phase' = "done"
  /\ UNCHANGED <<args, P, i, j, pos, result>>

SearchNext ==
  \/ compare \/ found \/ skip \/ not_found
  \/ failure_back \/ failure_next \/ failure_end
  \/ search_back \/ search_next \/ search_end
  \/ binary_half \/ binary_found \/ binary_absent

\* The call is not abandoned.
SearchGoesOn == WF_searchVars(SearchNext)

SearchSpec == SearchInit /\ [][SearchNext]_searchVars /\ SearchGoesOn

-----------------------------------------------------------------------------
(* Properties.                                                             *)

Occurs(p) == p + query.len <= text.len /\ \A x \in 0 .. query.len - 1 :
               same(text.at[p + x], query.at[x])

\* The answer a caller expects: the first occurrence, NULL when there is none.
Right ==
  IF result = -1 THEN \A p \in 0 .. text.len : ~Occurs(p)
  ELSE Occurs(result) /\ \A p \in 0 .. result - 1 : ~Occurs(p)

\* Boyer and Moore's search, while it runs, has jumped over no occurrence: every
\* start before the current alignment of the query is none.
NoneSkipped ==
  phase = "compare" => \A p \in 0 .. pos - i - 1 : ~Occurs(p)

\* It ends, and its answer is right.  So does the binary search of a sorted
\* haystack: it returns some place of the needle, or -1 when there is none.
SearchAnswers ==
  /\ phase = "compare" ~> phase = "done" /\ Right
  /\ phase = "halve" ~>
       /\ phase = "done"
       /\ IF result = -1 THEN \A p \in 0 .. text.len : ~Occurs(p) ELSE Occurs(result)

\* The prefix of length b of the query also ends at position k.
Border(k, b) == b <= k /\ \A x \in 0 .. b - 1 : query.at[x] = query.at[k - b + 1 + x]

\* The table of kmp_failure is right: P[k] is the length of the longest border
\* of the query's first k+1 characters, for all k the loop has come past.
PrefixTable ==
  phase \in {"failure", "search"} =>
    \A k \in 1 .. query.len - 1 :
      (phase = "search" \/ k < i) =>
        Border(k, P[k]) /\ \A b \in P[k] + 1 .. k : ~Border(k, b)

\* The table is finished.
FailureEnds == phase = "failure" ~> phase = "search"

\* "kmp works better when the pattern is small" (slice.c): it answers, as Boyer
\* and Moore's search does, unless it leaves its table.
KmpAnswers == phase = "search" ~> phase = "undefined" \/ (phase = "done" /\ Right)
=============================================================================
