------------------------------ MODULE Reactor ------------------------------
(***************************************************************************)
(* The one-shot reactor: posixc_reactor and posixc_event on kqueue         *)
(* (event.c, reactor.c, mac/event_kq.c, mac/reactor_kq.c).                 *)
(*                                                                         *)
(* Threads are the reactor's background thread and the user threads.  A    *)
(* step of a thread is a maximal stretch of its code that touches shared   *)
(* state once: a read of `closing`, one critical section of e->mtx or      *)
(* reactor->mtx, one kevent() call.  The code is modelled with the data    *)
(* races it has (`closing` is read and written without a lock).            *)
(*                                                                         *)
(* The kernel's side of kqueue is external: a knote per (event, filter)    *)
(* that is absent, disabled, enabled, or enabled with EV_ONESHOT, and a    *)
(* readiness bit that EV_CLEAR resets on delivery.                         *)
(*                                                                         *)
(* How the client uses the library is given by constants: who holds a      *)
(* reference to an event, which masks are submitted, which events are left *)
(* to their callbacks, which are kept for ever, who destroys the reactor.  *)
(***************************************************************************)
EXTENDS Integers, Sequences, FiniteSets

CONSTANTS
  Event,          \* addresses of posixc_event objects, each allocated at most once
  User,           \* user threads
  ReactorThread,  \* the background thread, reactor->thread
  None,           \* no thread, no event
  EventType,      \* [Event -> Types], the `type` given to posixc_event_create
  Holders,        \* [Event -> SUBSET User], who gets a reference on creation
  CbOwned,        \* events handed to their callback with the first submit
  Kept,           \* events the client never destroys
  Masks,          \* [Event -> SUBSET SUBSET Filter], evmask arguments in use
  Destroyers,     \* users that may call posixc_reactor_destroy
  max_events,     \* room for kevents in one batch
  loops_per_gc    \* the loop collects garbage every so many turns

Types  == {"SOCK_EV", "TIMER_EV", "USER_EV", "SIG_EV"}

\* A filter stands for its POSIXC_EVENT_* bit too: READ for IN, WRITE for OUT.
Filter == {"READ", "WRITE", "TIMER", "USER", "SIGNAL"}

ASSUME ReactorAssumption ==
  /\ ReactorThread \notin User
  /\ None \notin User \union Event \union {ReactorThread} \union (Event \X Filter)
  /\ EventType \in [Event -> Types]
  /\ Holders \in [Event -> SUBSET User]
  /\ CbOwned \subseteq Event
  /\ Kept \subseteq Event
  /\ Masks \in [Event -> SUBSET (SUBSET Filter)]
  /\ Destroyers \subseteq User
  /\ max_events \in Nat \ {0}
  /\ loops_per_gc \in Nat \ {0}

VARIABLES
  rstate,     \* the posixc_reactor: "none", "up", "retired" (destroy called), "freed"
  rclosing,   \* reactor->closing
  mtx,        \* owner of reactor->mtx, or None
  gc_events,  \* reactor->gc_events, head first
  final,      \* the loop has ended, the next collection is the last one
  iter,       \* the loop counter i, modulo loops_per_gc
  batch,      \* kevents returned by kevent() and not yet handled
  firing,     \* the kevent whose callback is running, or None
  alloc,      \* memory of each event: "none", "live", "freed"
  closing,    \* e->closing
  evmask,     \* e->evmask
  data_1,     \* e->data_1, 1 for a timer that fires once
  knote,      \* kernel: state of the knote of each event and filter
  ready,      \* kernel: filters of each event whose condition is met
  pc,         \* where each thread is
  arg,        \* the event the thread's current call works on
  held,       \* <<u, e>>: user u still holds its reference to e
  asked       \* history: filters a successful submit named since the last delivery

reactorVars == <<rstate, rclosing, mtx, gc_events>>
loopVars    == <<final, iter, batch, firing>>
eventVars   == <<alloc, closing, evmask, data_1>>
kernelVars  == <<knote, ready, asked>>
threadVars  == <<pc, arg, held>>
vars == <<reactorVars, loopVars, eventVars, kernelVars, threadVars>>

Thread == User \union {ReactorThread}

FiltersOf(e) ==
  CASE EventType[e] = "SOCK_EV"  -> {"READ", "WRITE"}
    [] EventType[e] = "SIG_EV"   -> {"SIGNAL"}
    [] EventType[e] = "USER_EV"  -> {"USER"}
    [] EventType[e] = "TIMER_EV" -> {"TIMER"}

KnoteState == {"absent", "disabled", "enabled", "oneshot"}
Armed      == {"enabled", "oneshot"}

\* Calls that are using the event arg[t].
InCall == {"s_lock", "d_mark", "d_plat", "d_gc", "d_release"}

UserPC    == InCall \union {"idle", "gc_lock", "gc_next", "rd_close", "rd_join"}
ReactorPC == InCall \union {"unborn", "loop", "kevent", "dispatch", "cb",
                            "gc_lock", "gc_next", "exited"}

Init ==
  /\ rstate = "none" /\ rclosing = FALSE /\ mtx = None /\ gc_events = <<>>
  /\ final = FALSE /\ iter = 0 /\ batch = {} /\ firing = None
  /\ alloc   = [e \in Event |-> "none"]
  /\ closing = [e \in Event |-> FALSE]
  /\ evmask  = [e \in Event |-> {}]
  /\ data_1  = [e \in Event |-> 0]
  /\ knote   = [e \in Event |-> [f \in Filter |-> "absent"]]
  /\ ready   = [e \in Event |-> {}]
  /\ asked   = [e \in Event |-> {}]
  /\ pc      = [t \in Thread |-> IF t = ReactorThread THEN "unborn" ELSE "idle"]
  /\ arg     = [t \in Thread |-> None]
  /\ held    = {}

-----------------------------------------------------------------------------
(* Where a thread goes when a call returns.                                *)

\* posixc_event_destroy is called from the gc loop exactly when its thread
\* holds reactor->mtx.  A callback that destroyed its event has to return.
AfterDestroy(t) ==
  IF mtx = t THEN "gc_next" ELSE IF t = ReactorThread THEN "dispatch" ELSE "idle"

AfterSubmit(t) == IF t = ReactorThread THEN "cb" ELSE "idle"

AfterGc(t) ==
  IF t # ReactorThread THEN "rd_close" ELSE IF final THEN "exited" ELSE "loop"

Goto(t, l) == pc' = [pc EXCEPT ![t] = l]

\* Enter a call on event e, go on at l inside it, or return from it to l.
Call(t, e, l) == Goto(t, l) /\ arg' = [arg EXCEPT ![t] = e]
Return(t, l)  == Goto(t, l) /\ arg' = [arg EXCEPT ![t] = None]

\* The client may call into the library for e from thread t now: from a user
\* thread that holds a reference, as long as the reactor is not being destroyed,
\* or from the callback of e itself.
MayUse(t, e) ==
  \/ t \in User /\ pc[t] = "idle" /\ <<t, e>> \in held /\ rstate = "up"
  \/ t = ReactorThread /\ pc[t] = "cb" /\ firing[1] = e

-----------------------------------------------------------------------------
(* Creation.                                                               *)

\* posixc_reactor_create: kqueue(), malloc, pthread_create.  The paths that
\* return NULL change nothing a thread can see.
posixc_reactor_create(u) ==
  /\ rstate = "none" /\ pc[u] = "idle"
  /\ rstate' = "up"
  /\ Goto(ReactorThread, "loop")
  /\ UNCHANGED <<rclosing, mtx, gc_events, loopVars, eventVars, kernelVars, arg, held>>

\* The filters whose knotes go when posixc_event_release closes e->fd: those of a
\* socket.  The fd of a timer, signal or user event is an id.
close_drops_none(e) == {}                      \* mutant: fd is not closed
close_drops(e) == IF EventType[e] = "SOCK_EV" THEN FiltersOf(e) ELSE {}

\* posixc_event_create: init and registration touch only memory that no other
\* thread knows yet, and disabled knotes.  Registration stops at the first filter
\* that fails, of a socket perhaps with READ registered; posixc_event_release
\* follows.
posixc_event_create(u, e) ==
  /\ rstate = "up" /\ pc[u] = "idle"
  /\ u \in Holders[e] /\ alloc[e] = "none"
  /\ \/ /\ alloc'   = [alloc EXCEPT ![e] = "live"]
        /\ closing' = [closing EXCEPT ![e] = FALSE]
        /\ evmask'  = [evmask EXCEPT ![e] = {}]
        /\ data_1'  = [data_1 EXCEPT ![e] = 0]
        /\ knote'   = [knote EXCEPT ![e] = [f \in Filter |->
                         IF f \in FiltersOf(e) THEN "disabled" ELSE "absent"]]
        /\ held'    = held \union (Holders[e] \X {e})
     \/ /\ \E F \in SUBSET (FiltersOf(e) \intersect {"READ"}) :
             knote' = [knote EXCEPT ![e] = [f \in Filter |->
                         IF f \in F \ close_drops(e) THEN "disabled" ELSE "absent"]]
        /\ alloc' = [alloc EXCEPT ![e] = "freed"]
        /\ UNCHANGED <<closing, evmask, data_1, held>>
  /\ UNCHANGED <<reactorVars, loopVars, ready, asked, pc, arg>>

\* posixc_timer_event_set_interval: the interval itself is left to the kernel.
posixc_timer_event_set_interval(u, e, is_periodic) ==
  /\ u \in User /\ MayUse(u, e) /\ EventType[e] = "TIMER_EV"
  /\ data_1' = [data_1 EXCEPT ![e] = IF is_periodic THEN 0 ELSE 1]
  /\ UNCHANGED <<reactorVars, loopVars, alloc, closing, evmask, kernelVars, threadVars>>

-----------------------------------------------------------------------------
(* posixc_event_submit.                                                    *)

\* The unlocked test of e->closing.  Submitting an event that belongs to its
\* callback is the last thing a user thread does with it.
posixc_event_submit(t, e) ==
  /\ MayUse(t, e)
  /\ IF closing[e]
     THEN UNCHANGED <<pc, arg>>
     ELSE Call(t, e, "s_lock")
  /\ held' = IF e \in CbOwned THEN held \ {<<t, e>>} ELSE held
  /\ UNCHANGED <<reactorVars, loopVars, eventVars, kernelVars>>

\* What EV_ENABLE leaves of a knote: a timer with data_1 = 1 also gets EV_ONESHOT.
submit_knote_no_enable(e, f) == knote[e][f]    \* mutant: no EV_ENABLE
submit_knote(e, f) ==
  IF f = "TIMER" /\ data_1[e] = 1 THEN "oneshot" ELSE "enabled"

\* posixc_event_plat_submit enables a knote for every bit of the mask that the
\* type knows; with no bit, or with a knote that is gone (ENOENT), it fails.
plat_submit_else(e, mask) ==      \* mutant: WRITE only when READ is not asked for
  IF "READ" \in mask THEN {"READ"} ELSE mask \intersect FiltersOf(e)
plat_submit_all(e, mask) == FiltersOf(e)    \* mutant: the mask is not looked at
plat_submit_set(e, mask) == mask \intersect FiltersOf(e)

plat_submit_ok(e, mask) ==
  /\ plat_submit_set(e, mask) # {}
  /\ \A f \in plat_submit_set(e, mask) : knote[e][f] # "absent"

\* Merge the mask, enable the knotes.
submit_mask(e, m) ==
  LET mask == evmask[e] \union m IN
  /\ evmask' = [evmask EXCEPT ![e] = mask]
  /\ IF plat_submit_ok(e, mask)
     THEN /\ knote' = [knote EXCEPT ![e] = [f \in Filter |->
                         IF f \in plat_submit_set(e, mask)
                         THEN submit_knote(e, f) ELSE knote[e][f]]]
          /\ asked' = [asked EXCEPT ![e] = @ \union (m \intersect FiltersOf(e))]
     ELSE UNCHANGED <<knote, asked>>

\* The critical section of e->mtx.
submit_locked(t) ==
  /\ pc[t] = "s_lock"
  /\ \E m \in Masks[arg[t]] : submit_mask(arg[t], m)
  /\ Return(t, AfterSubmit(t))
  /\ UNCHANGED <<reactorVars, loopVars, alloc, closing, data_1, ready, held>>

-----------------------------------------------------------------------------
(* posixc_event_destroy.                                                   *)

\* Entry of the call: the unlocked test of e->closing, and the branch on it.
enter_destroy_anyone(t, e) ==     \* mutant: no test of is_reactor
  Call(t, e, IF closing[e] THEN "d_release" ELSE "d_mark")
enter_destroy(t, e) ==
  IF ~closing[e] THEN Call(t, e, "d_mark")
  ELSE IF t = ReactorThread THEN Call(t, e, "d_release")
  ELSE Return(t, AfterDestroy(t))

\* The client destroys e: from a user thread, which gives up its reference, or
\* from the callback that owns e.
posixc_event_destroy(t, e) ==
  /\ MayUse(t, e) /\ e \notin Kept
  /\ t = ReactorThread => e \in CbOwned
  /\ enter_destroy(t, e)
  /\ held' = held \ {<<t, e>>}
  /\ UNCHANGED <<reactorVars, loopVars, eventVars, kernelVars>>

\* e->closing = true, unlocked.
destroy_mark(t) ==
  /\ pc[t] = "d_mark"
  /\ closing' = [closing EXCEPT ![arg[t]] = TRUE]
  /\ Goto(t, "d_plat")
  /\ UNCHANGED <<reactorVars, loopVars, alloc, evmask, data_1, kernelVars, arg, held>>

\* The knotes posixc_event_plat_destroy deletes.
plat_destroy_no_write(e) == FiltersOf(e) \ {"WRITE"}    \* mutant: no del_write
plat_destroy_no_user(e) == FiltersOf(e) \ {"USER"}      \* mutant: no del_user
plat_destroy_set(e) == FiltersOf(e)

\* Who frees a destroyed event: the reactor thread at once, any other thread
\* puts it on the gc list.
after_shutdown_frees(t) == "d_release"         \* mutant: any thread frees
after_shutdown_forgets(t) ==                   \* mutant: not put on the list
  IF t = ReactorThread THEN "d_release" ELSE "idle"
after_shutdown(t) == IF t = ReactorThread THEN "d_release" ELSE "d_gc"

\* Remove the knotes of the filters F of e from the kqueue.
DropKnotes(e, F) ==
  /\ knote' = [knote EXCEPT ![e] = [f \in Filter |->
                  IF f \in F THEN "absent" ELSE knote[e][f]]]
  /\ ready' = [ready EXCEPT ![e] = @ \ F]
  /\ asked' = [asked EXCEPT ![e] = @ \ F]

\* posixc_event_plat_destroy deletes the knotes; shutdown() follows.
posixc_event_plat_destroy(t) ==
  /\ pc[t] = "d_plat"
  /\ DropKnotes(arg[t], plat_destroy_set(arg[t]))
  /\ Goto(t, after_shutdown(t))
  /\ UNCHANGED <<reactorVars, loopVars, eventVars, arg, held>>

\* add_to_gc_list, under reactor->mtx.
add_to_gc_list(t) ==
  /\ pc[t] = "d_gc" /\ mtx = None
  /\ gc_events' = Append(gc_events, arg[t])
  /\ Return(t, AfterDestroy(t))
  /\ UNCHANGED <<rstate, rclosing, mtx, loopVars, eventVars, kernelVars, held>>

\* posixc_event_release: close(fd) and free.
posixc_event_release(t) ==
  /\ pc[t] = "d_release"
  /\ alloc' = [alloc EXCEPT ![arg[t]] = "freed"]
  /\ DropKnotes(arg[t], close_drops(arg[t]))
  /\ firing' = IF t = ReactorThread THEN None ELSE firing
  /\ Return(t, AfterDestroy(t))
  /\ UNCHANGED <<reactorVars, final, iter, batch, closing, evmask, data_1, held>>

-----------------------------------------------------------------------------
(* posixc_reactor_gc, called by the loop and by posixc_reactor_destroy.    *)

\* Lock; an empty list is unlocked again at once.
posixc_reactor_gc(t) ==
  /\ pc[t] = "gc_lock" /\ mtx = None
  /\ IF gc_events = <<>>
     THEN Goto(t, AfterGc(t)) /\ UNCHANGED mtx
     ELSE Goto(t, "gc_next") /\ mtx' = t
  /\ UNCHANGED <<rstate, rclosing, gc_events, loopVars, eventVars, kernelVars, arg, held>>

\* One turn of list_for_each_entry_safe: list_del, then posixc_event_destroy.
gc_next(t) ==
  /\ pc[t] = "gc_next" /\ gc_events # <<>>
  /\ gc_events' = Tail(gc_events)
  /\ enter_destroy(t, Head(gc_events))
  /\ UNCHANGED <<rstate, rclosing, mtx, loopVars, eventVars, kernelVars, held>>

gc_unlock(t) ==
  /\ pc[t] = "gc_next" /\ gc_events = <<>>
  /\ mtx' = None
  /\ Goto(t, AfterGc(t))
  /\ UNCHANGED <<rstate, rclosing, gc_events, loopVars, eventVars, kernelVars, arg, held>>

-----------------------------------------------------------------------------
(* posixc_reactor_destroy, when all threads are through with the reactor:  *)
(* of the events only those that are never destroyed are left.             *)

posixc_reactor_destroy(u) ==
  /\ u \in Destroyers /\ rstate = "up" /\ \A r \in held : r[2] \in Kept
  /\ \A v \in User : pc[v] = "idle"
  /\ rstate' = "retired"
  /\ Goto(u, "gc_lock")
  /\ UNCHANGED <<rclosing, mtx, gc_events, loopVars, eventVars, kernelVars, arg, held>>

destroy_no_flag(u) ==                          \* mutant: closing is not set
  /\ pc[u] = "rd_close"
  /\ Goto(u, "rd_join")
  /\ UNCHANGED <<reactorVars, loopVars, eventVars, kernelVars, arg, held>>

destroy_set_closing(u) ==
  /\ pc[u] = "rd_close"
  /\ rclosing' = TRUE
  /\ Goto(u, "rd_join")
  /\ UNCHANGED <<rstate, mtx, gc_events, loopVars, eventVars, kernelVars, arg, held>>

\* pthread_join, then close, pthread_mutex_destroy and free.
destroy_join(u) ==
  /\ pc[u] = "rd_join" /\ pc[ReactorThread] = "exited"
  /\ rstate' = "freed"
  /\ Goto(u, "idle")
  /\ UNCHANGED <<rclosing, mtx, gc_events, loopVars, eventVars, kernelVars, arg, held>>

-----------------------------------------------------------------------------
(* The loop of posixc_reactor_plat_threadfn.                               *)

\* The test of !reactor->closing; when it fails the final gc follows.
loop_test ==
  /\ pc[ReactorThread] = "loop"
  /\ IF rclosing
     THEN Goto(ReactorThread, "gc_lock") /\ final' = TRUE
     ELSE Goto(ReactorThread, "kevent") /\ UNCHANGED final
  /\ UNCHANGED <<reactorVars, iter, batch, firing, eventVars, kernelVars, arg, held>>

\* The kevents the kernel can return: an armed knote whose condition is met.
Deliverable ==
  {k \in Event \X Filter : knote[k[1]][k[2]] \in Armed /\ k[2] \in ready[k[1]]}

\* The knote after delivery.  EV_DISPATCH (sockets, user events) disables it.
\* Signals and timers are submitted without EV_DISPATCH and stay enabled.
\* EV_ONESHOT deletes a timer where the kernel honours it; doc/kq.md and a
\* Fixme in submit_timer report that macOS does not.
delivered_no_dispatch(f, s, honoured) ==    \* mutant: EV_DISPATCH for sockets only
  IF f \in {"READ", "WRITE"} THEN "disabled"
  ELSE IF s = "oneshot" /\ honoured THEN "absent" ELSE s
delivered_knote(f, s, honoured) ==
  IF f \in {"READ", "WRITE", "USER"} THEN "disabled"
  ELSE IF s = "oneshot" /\ honoured THEN "absent" ELSE s

\* kevent() with no timeout: blocks until something can be delivered, returns
\* as much of it as fits.  EV_CLEAR resets the readiness of what is returned.
kevent_deliver ==
  /\ pc[ReactorThread] = "kevent"
  /\ Deliverable # {}
  /\ \E B \in SUBSET Deliverable :
       /\ Cardinality(B) = IF Cardinality(Deliverable) <= max_events
                           THEN Cardinality(Deliverable) ELSE max_events
       /\ batch' = B
       /\ ready' = [e \in Event |-> {f \in ready[e] : <<e, f>> \notin B}]
       /\ asked' = [e \in Event |-> {f \in asked[e] : <<e, f>> \notin B}]
       /\ \E honoured \in BOOLEAN :
            knote' = [e \in Event |-> [f \in Filter |->
                        IF <<e, f>> \in B
                        THEN delivered_knote(f, knote[e][f], honoured)
                        ELSE knote[e][f]]]
  /\ Goto(ReactorThread, "dispatch")
  /\ UNCHANGED <<reactorVars, final, iter, firing, eventVars, arg, held>>

\* kevent(), asleep with nothing to deliver, fails with EINTR: the turn handles
\* no event.
kevent_interrupted ==
  /\ pc[ReactorThread] = "kevent"
  /\ Deliverable = {}
  /\ Goto(ReactorThread, "dispatch")
  /\ UNCHANGED <<reactorVars, loopVars, eventVars, kernelVars, arg, held>>

\* The mask bits a kevent consumes: timers are periodic and keep theirs.
consumed_mask(f) == IF f = "TIMER" THEN {} ELSE {f}

\* consume_ev: ev->udata is dereferenced, the mask is cleared under e->mtx and
\* the callback is entered.  An event without callback is one whose callback
\* returns at once.
consume_ev ==
  /\ pc[ReactorThread] = "dispatch"
  /\ \E k \in batch :
       /\ batch' = batch \ {k}
       /\ firing' = k
       /\ evmask' = [evmask EXCEPT ![k[1]] = @ \ consumed_mask(k[2])]
  /\ Goto(ReactorThread, "cb")
  /\ UNCHANGED <<reactorVars, final, iter, alloc, closing, data_1, kernelVars, arg, held>>

\* The callback returns to consume_ev.
callback_return ==
  /\ pc[ReactorThread] = "cb"
  /\ firing' = None
  /\ Goto(ReactorThread, "dispatch")
  /\ UNCHANGED <<reactorVars, final, iter, batch, eventVars, kernelVars, arg, held>>

next_turn_unreduced(i) == i + 1    \* mutant: the turn is not taken modulo
next_turn(i) == (i + 1) % loops_per_gc

\* All of the batch is handled: if(i%loops_per_gc == 0) posixc_reactor_gc, i++.
end_batch ==
  /\ pc[ReactorThread] = "dispatch" /\ batch = {}
  /\ Goto(ReactorThread, IF iter = 0 THEN "gc_lock" ELSE "loop")
  /\ iter' = next_turn(iter)
  /\ UNCHANGED <<reactorVars, final, batch, firing, eventVars, kernelVars, arg, held>>

\* External: the condition of a registered filter is met (data arrives, a
\* timer expires, a signal is sent).
kernel_ready(e, f) ==
  /\ knote[e][f] # "absent" /\ f \notin ready[e]
  /\ ready' = [ready EXCEPT ![e] = @ \union {f}]
  /\ UNCHANGED <<reactorVars, loopVars, eventVars, knote, asked, threadVars>>

-----------------------------------------------------------------------------

\* What thread t does inside a call it has made.
CallStep(t) ==
  \/ submit_locked(t)
  \/ destroy_mark(t)
  \/ posixc_event_plat_destroy(t)
  \/ add_to_gc_list(t)
  \/ posixc_event_release(t)
  \/ posixc_reactor_gc(t)
  \/ gc_next(t)
  \/ gc_unlock(t)

ReactorDestroyStep(u) == destroy_set_closing(u) \/ destroy_join(u)

LoopStep == loop_test \/ kevent_deliver \/ consume_ev \/ end_batch

Next ==
  \/ \E u \in User :
       \/ posixc_reactor_create(u)
       \/ posixc_reactor_destroy(u)
       \/ ReactorDestroyStep(u)
  \/ \E u \in User, e \in Event :
       \/ posixc_event_create(u, e)
       \/ \E is_periodic \in BOOLEAN :
            posixc_timer_event_set_interval(u, e, is_periodic)
  \/ \E t \in Thread, e \in Event :
       \/ posixc_event_submit(t, e)
       \/ posixc_event_destroy(t, e)
  \/ \E t \in Thread : CallStep(t)
  \/ LoopStep
  \/ kevent_interrupted
  \/ callback_return
  \/ \E e \in Event, f \in Filter : kernel_ready(e, f)

Spec == Init /\ [][Next]_vars

(***************************************************************************)
(* Fairness: both kinds of threads keep running, callbacks return, a       *)
(* thread that waits for reactor->mtx gets it in the end, and a timer that *)
(* is registered expires.  Nothing is assumed of sockets and signals, nor  *)
(* that a client makes any call, nor that kevent() is ever interrupted.    *)
(***************************************************************************)
Fairness ==
  /\ WF_vars(LoopStep)
  /\ SF_vars(callback_return)
  /\ \A t \in Thread : WF_vars(CallStep(t)) /\ SF_vars(add_to_gc_list(t))
  /\ \A u \in User : WF_vars(ReactorDestroyStep(u))
  /\ \A e \in Event : WF_vars(kernel_ready(e, "TIMER"))

FairSpec == Spec /\ Fairness

-----------------------------------------------------------------------------
(* Properties.                                                             *)

ReactorTypeOK ==
  /\ rstate \in {"none", "up", "retired", "freed"}
  /\ rclosing \in BOOLEAN
  /\ mtx \in Thread \union {None}
  /\ gc_events \in Seq(Event)
LoopTypeOK ==
  /\ final \in BOOLEAN
  /\ iter \in 0 .. loops_per_gc - 1
  /\ batch \subseteq Event \X Filter
  /\ firing \in (Event \X Filter) \union {None}
EventTypeOK ==
  /\ alloc \in [Event -> {"none", "live", "freed"}]
  /\ closing \in [Event -> BOOLEAN]
  /\ evmask \in [Event -> SUBSET Filter]
  /\ data_1 \in [Event -> {0, 1}]
KernelTypeOK ==
  /\ knote \in [Event -> [Filter -> KnoteState]]
  /\ ready \in [Event -> SUBSET Filter]
  /\ asked \in [Event -> SUBSET Filter]
ThreadTypeOK ==
  /\ pc \in [Thread -> UserPC \union ReactorPC]
  /\ arg \in [Thread -> Event \union {None}]
  /\ held \subseteq User \X Event

\* The type invariant: every variable of the reactor, its loop, its events, the
\* kqueue and the threads that call the library stays in its type.
TypeOK == ReactorTypeOK /\ LoopTypeOK /\ EventTypeOK /\ KernelTypeOK /\ ThreadTypeOK

\* "the reactor won't process already destroyed posixc_events which point to
\* garbage data" (event.c): neither a kevent still to be handled nor the one
\* whose callback is running refers to an event that was freed.
ReactorNeverSeesFreed ==
  /\ \A k \in batch : alloc[k[1]] = "live"
  /\ firing # None => alloc[firing[1]] = "live"

\* No caller is left with a dead event: a reference that was not given up, and
\* the event any thread is working on inside submit or destroy, is allocated.
CallersNeverSeeFreed ==
  /\ \A r \in held : alloc[r[2]] = "live"
  /\ \A t \in Thread : pc[t] \in InCall => alloc[arg[t]] = "live"

\* What waits on gc_events is there once, still allocated, marked closing and
\* already out of the kqueue, so that the collector may free it.
GcListSound ==
  \A i \in 1 .. Len(gc_events) :
    LET e == gc_events[i] IN
    /\ alloc[e] = "live" /\ closing[e]
    /\ \A f \in Filter : knote[e][f] = "absent"
    /\ \A j \in 1 .. Len(gc_events) : gc_events[j] = e => j = i

\* The kqueue never holds a udata pointer to memory that is not a live event.
NoDanglingUdata ==
  \A e \in Event, f \in Filter : knote[e][f] # "absent" => alloc[e] = "live"

\* A closing event is not forgotten: until it is freed it is on gc_events or in
\* the hands of a thread inside posixc_event_destroy.
ClosingAccounted ==
  \A e \in Event :
    closing[e] /\ alloc[e] = "live" =>
      \/ \E i \in 1 .. Len(gc_events) : gc_events[i] = e
      \/ \E t \in Thread : pc[t] \in {"d_plat", "d_gc", "d_release"} /\ arg[t] = e

\* A submit that returned true is not lost: every filter it named stays armed
\* in the kqueue until the kernel has delivered it or the event is destroyed.
SubmitArms ==
  \A e \in Event : \A f \in asked[e] : knote[e][f] \in Armed

\* The filters F are delivered only when a submit named them since they were
\* last delivered.
OncePerSubmitOf(F) == \A k \in batch' \ batch : k[2] \in F => k[2] \in asked[k[1]]

\* Sockets and user events, which ev_submit submits with EV_DISPATCH, are
\* triggered once per submit.
DispatchedOncePerSubmit == [][OncePerSubmitOf({"READ", "WRITE", "USER"})]_vars

\* "Every event is triggered exactly once. If you want to continue watching
\* this event, resubmit it." (event.h): signals too; only timers may be periodic
\* by their interface.
TriggeredOncePerSubmit == [][OncePerSubmitOf(Filter \ {"TIMER"})]_vars

\* While a periodic timer that nobody destroys keeps the loop turning, every
\* event that was marked closing is collected in the end; not so once
\* posixc_reactor_destroy has taken it off gc_events on its own thread.
Ticking == \E e \in Kept : knote[e]["TIMER"] = "enabled"
Collected ==
  (<>[]Ticking) =>
    \A e \in Event : closing[e] ~> (alloc[e] = "freed" \/ rstate # "up")

\* A submit is answered: once a filter that was asked for is ready, its
\* callback runs, unless the event or the reactor is destroyed first.
Served ==
  \A e \in Event : \A f \in FiltersOf(e) :
    (f \in asked[e] /\ f \in ready[e]) ~>
      (firing = <<e, f>> \/ closing[e] \/ rstate # "up")

\* posixc_reactor_destroy joins the loop, which looks at closing between two
\* calls of kevent() only and is not woken: it returns while a periodic timer
\* that is still submitted keeps the loop turning.
DestroyReturns ==
  (<>[]Ticking) => ((rstate = "retired") ~> (rstate = "freed"))
=============================================================================
