-------------------------------- MODULE List --------------------------------
(***************************************************************************)
(* The intrusive doubly linked lists of common/list.h: a ring of next and  *)
(* prev pointers through a head and its entries.                           *)
(*                                                                         *)
(* mem is the memory the code works on.  lists is a history variable that  *)
(* says, as a sequence, what the calls so far should have made of the list *)
(* of each head; Represents relates the two.                               *)
(***************************************************************************)
EXTENDS Integers, Sequences

CONSTANTS
  ListHead,     \* list heads
  Entry,    \* list_node members of the objects that are put on lists
  NULL

Node == ListHead \union Entry

ASSUME ListAssumption == ListHead \intersect Entry = {} /\ NULL \notin Node

VARIABLES
  mem,      \* [next, prev]: the pointers of every node
  lists,    \* history: the sequence of entries each head should have
  inited,   \* history: heads that are initialised and not spliced away
  walk      \* list_for_each_safe: [head, pos, n, seen, all], or NULL

vars == <<mem, lists, inited, walk>>

-----------------------------------------------------------------------------
(* The functions of list.h, on a memory m.                                 *)

INIT_LIST_HEAD(m, p) ==
  [next |-> [m.next EXCEPT ![p] = p], prev |-> [m.prev EXCEPT ![p] = p]]

\* __list_add and __list_del
link(m, cur, pv, nx) ==
  [next |-> [m.next EXCEPT ![cur] = nx, ![pv] = cur],
   prev |-> [m.prev EXCEPT ![nx] = cur, ![cur] = pv]]
unlink_one_way(m, pv, nx) == [m EXCEPT !.next[pv] = nx]    \* mutant: prev is not mended
unlink(m, pv, nx) ==
  [next |-> [m.next EXCEPT ![pv] = nx], prev |-> [m.prev EXCEPT ![nx] = pv]]

list_add(m, cur, head)      == link(m, cur, head, m.next[head])
list_add_tail(m, cur, head) == link(m, cur, m.prev[head], head)
list_del(m, e) ==
  LET u == unlink(m, m.prev[e], m.next[e]) IN
  [next |-> [u.next EXCEPT ![e] = NULL], prev |-> [u.prev EXCEPT ![e] = NULL]]
list_del_init(m, e) == INIT_LIST_HEAD(unlink(m, m.prev[e], m.next[e]), e)
list_move(m, e, head)      == list_add(unlink(m, m.prev[e], m.next[e]), e, head)
list_move_tail(m, e, head) == list_add_tail(unlink(m, m.prev[e], m.next[e]), e, head)
list_empty(m, head) == m.next[head] = head

\* __list_splice, for a list that is not empty
splice(m, list, head) ==
  LET first == m.next[list]
      last  == m.prev[list]
      at    == m.next[head]
  IN  [next |-> [m.next EXCEPT ![head] = first, ![last] = at],
       prev |-> [m.prev EXCEPT ![first] = head, ![at] = last]]
list_splice(m, list, head) == IF list_empty(m, list) THEN m ELSE splice(m, list, head)
list_splice_init(m, list, head) ==
  IF list_empty(m, list) THEN m ELSE INIT_LIST_HEAD(splice(m, list, head), list)

-----------------------------------------------------------------------------
(* How a client uses them.                                                 *)

Elems(s) == {s[i] : i \in 1 .. Len(s)}
\* s without e, which is in it once at most.
Without(s, e) ==
  LET i == CHOOSE i \in 1 .. Len(s) : s[i] = e IN
  IF e \in Elems(s) THEN SubSeq(s, 1, i - 1) \o SubSeq(s, i + 1, Len(s)) ELSE s
Off(e, ls) == [h \in ListHead |-> Without(ls[h], e)]

OnList(e) == \E h \in inited : e \in Elems(lists[h])

\* Memory before use: pointers the functions never follow, NULL for short.
Init ==
  /\ mem = [next |-> [p \in Node |-> NULL], prev |-> [p \in Node |-> NULL]]
  /\ lists = [h \in ListHead |-> <<>>] /\ inited = {} /\ walk = NULL

\* A head that was spliced away is as good as uninitialised; one that is in
\* use would leave its entries behind.
init_head(h) ==
  /\ h \notin inited
  /\ mem' = INIT_LIST_HEAD(mem, h)
  /\ inited' = inited \union {h}
  /\ UNCHANGED <<lists, walk>>

init_entry(e) ==
  /\ ~OnList(e)
  /\ mem' = INIT_LIST_HEAD(mem, e)
  /\ UNCHANGED <<lists, inited, walk>>

\* An entry may be added when it is on no list.
add(e, h) ==
  /\ h \in inited /\ ~OnList(e) /\ walk = NULL
  /\ \/ /\ mem' = list_add(mem, e, h)
        /\ lists' = [lists EXCEPT ![h] = <<e>> \o @]
     \/ /\ mem' = list_add_tail(mem, e, h)
        /\ lists' = [lists EXCEPT ![h] = @ \o <<e>>]
  /\ UNCHANGED <<inited, walk>>

\* An entry may be deleted when it is on a list or initialised.
Deletable(e) == OnList(e) \/ mem.next[e] = e

del(e) ==
  /\ Deletable(e) /\ walk = NULL
  /\ mem' \in {list_del(mem, e), list_del_init(mem, e)}
  /\ lists' = Off(e, lists)
  /\ UNCHANGED <<inited, walk>>

move(e, h) ==
  /\ h \in inited /\ Deletable(e) /\ walk = NULL
  /\ \/ /\ mem' = list_move(mem, e, h)
        /\ lists' = [Off(e, lists) EXCEPT ![h] = <<e>> \o @]
     \/ /\ mem' = list_move_tail(mem, e, h)
        /\ lists' = [Off(e, lists) EXCEPT ![h] = @ \o <<e>>]
  /\ UNCHANGED <<inited, walk>>

\* After list_splice the head of the list that was joined must not be used,
\* unless that list was empty.
join(a, h) ==
  /\ {a, h} \subseteq inited /\ a # h /\ walk = NULL
  /\ lists' = [lists EXCEPT ![h] = lists[a] \o @, ![a] = <<>>]
  /\ \/ mem' = list_splice_init(mem, a, h) /\ UNCHANGED inited
     \/ /\ mem' = list_splice(mem, a, h)
        /\ inited' = IF lists[a] = <<>> THEN inited ELSE inited \ {a}
  /\ UNCHANGED walk

-----------------------------------------------------------------------------
(* list_for_each_entry_safe, the loop of posixc_reactor_gc.                *)

for_each_safe(h) ==
  /\ h \in inited /\ walk = NULL
  /\ walk' = [head |-> h, pos |-> mem.next[h], n |-> mem.next[mem.next[h]],
              seen |-> <<>>, all |-> lists[h]]
  /\ UNCHANGED <<mem, lists, inited>>

\* pos = n, n = n->next: after the body, in memory m.
step_unsafe(w, m) ==                \* mutant: pos = pos->next
  [w EXCEPT !.pos = m.next[w.pos], !.n = m.next[w.n], !.seen = Append(@, w.pos)]
step_stuck(w, m) == w               \* mutant: pos is not moved on
step(w, m) ==
  [w EXCEPT !.pos = w.n, !.n = m.next[w.n], !.seen = Append(@, w.pos)]

\* The body may take its own entry off the list, or put it on another one.
walk_body ==
  /\ walk # NULL /\ walk.pos # walk.head
  /\ \/ UNCHANGED <<mem, lists>>
     \/ /\ mem' \in {list_del(mem, walk.pos), list_del_init(mem, walk.pos)}
        /\ lists' = Off(walk.pos, lists)
     \/ \E h \in inited \ {walk.head} :
          /\ mem' = list_move_tail(mem, walk.pos, h)
          /\ lists' = [Off(walk.pos, lists) EXCEPT ![h] = @ \o <<walk.pos>>]
  /\ walk' = step(walk, mem')
  /\ UNCHANGED inited

walk_end ==
  /\ walk # NULL /\ walk.pos = walk.head
  /\ walk' = NULL
  /\ UNCHANGED <<mem, lists, inited>>

Next ==
  \/ \E h \in ListHead : init_head(h) \/ for_each_safe(h)
  \/ \E e \in Entry : init_entry(e) \/ del(e)
  \/ \E e \in Entry, h \in ListHead : add(e, h) \/ move(e, h)
  \/ \E a, h \in ListHead : join(a, h)
  \/ walk_body \/ walk_end

Spec == Init /\ [][Next]_vars

\* A loop that was entered goes on.
LoopGoesOn == WF_vars(walk_body \/ walk_end)
FairSpec == Spec /\ LoopGoesOn

-----------------------------------------------------------------------------
(* Properties.                                                             *)

\* The type invariant of the memory, the history and the loop's variables.
ListTypeOK ==
  /\ mem \in [next : [Node -> Node \union {NULL}], prev : [Node -> Node \union {NULL}]]
  /\ lists \in [ListHead -> Seq(Entry)]
  /\ inited \subseteq ListHead
  /\ walk # NULL => /\ walk.head \in inited /\ walk.pos \in Node /\ walk.n \in Node
                    /\ walk.seen \in Seq(Entry) /\ walk.all \in Seq(Entry)

\* The ring of a head: head, entries, head again.
Ring(h) == <<h>> \o lists[h] \o <<h>>

\* The pointers are those of the list the calls should have made: next leads
\* from each node of the ring to the one after it, and prev back.
Represents ==
  \A h \in inited : \A i \in 1 .. Len(lists[h]) + 1 :
    /\ mem.next[Ring(h)[i]] = Ring(h)[i + 1]
    /\ mem.prev[Ring(h)[i + 1]] = Ring(h)[i]

\* The safe loop meets every entry the list had when the loop began, once and
\* in order, whatever its body does with the entry it is given.
WalkSound ==
  walk # NULL =>
    /\ Len(walk.seen) <= Len(walk.all)
    /\ walk.seen \o <<walk.pos>> = SubSeq(walk.all \o <<walk.head>>, 1, Len(walk.seen) + 1)

\* The loop comes to its end.
WalkEnds == walk # NULL ~> walk = NULL
=============================================================================
