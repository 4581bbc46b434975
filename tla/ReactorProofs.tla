--------------------------- MODULE ReactorProofs ---------------------------
(***************************************************************************)
(* Proofs about the reactor for any number of events, threads, masks and   *)
(* kevents per batch: the type invariant, what a submit arms, how often a  *)
(* one-shot knote is delivered, and that no event in destruction is        *)
(* forgotten.  None of these asks the program to use the events with care; *)
(* what does is in ReactorSafetyProofs.                                    *)
(***************************************************************************)
EXTENDS Reactor, SequenceTheorems, TLAPS

-----------------------------------------------------------------------------
(* Lemmas about the operators of the model.                                *)

\* The knotes registered for a type are knotes the kernel knows.
LEMMA FiltersOfType ==
  \A e \in Event : FiltersOf(e) \subseteq Filter
  BY ReactorAssumption DEF FiltersOf, Filter, Types

LEMMA CloseDropsType ==
  \A e \in Event : close_drops(e) \in SUBSET Filter
  BY FiltersOfType DEF close_drops

\* Whatever a failed posixc_event_create had registered is gone with its fd.
LEMMA FailedCreate ==
  ASSUME NEW e \in Event, NEW F \in SUBSET (FiltersOf(e) \intersect {"READ"})
  PROVE  F \ close_drops(e) = {}
  <1>1. CASE EventType[e] = "SOCK_EV"
    BY <1>1 DEF close_drops
  <1>2. CASE EventType[e] # "SOCK_EV"
    <2>1. "READ" \notin FiltersOf(e)
      BY <1>2, ReactorAssumption DEF FiltersOf, Types
    <2> QED
      BY <2>1
  <1> QED
    BY <1>1, <1>2

\* The two ways out of posixc_event_create, as far as the knotes go.
LEMMA CreateKnotes ==
  ASSUME NEW u \in User, NEW e \in Event, posixc_event_create(u, e)
  PROVE  \/ /\ alloc'   = [alloc EXCEPT ![e] = "live"]
            /\ closing' = [closing EXCEPT ![e] = FALSE]
            /\ evmask'  = [evmask EXCEPT ![e] = {}]
            /\ data_1'  = [data_1 EXCEPT ![e] = 0]
            /\ knote'   = [knote EXCEPT ![e] = [f \in Filter |->
                             IF f \in FiltersOf(e) THEN "disabled" ELSE "absent"]]
            /\ held'    = held \union (Holders[e] \X {e})
         \/ /\ alloc' = [alloc EXCEPT ![e] = "freed"]
            /\ knote' = [knote EXCEPT ![e] = [f \in Filter |-> "absent"]]
            /\ UNCHANGED <<closing, evmask, data_1, held>>
  <1>1. CASE \E F \in SUBSET (FiltersOf(e) \intersect {"READ"}) :
               knote' = [knote EXCEPT ![e] = [f \in Filter |->
                           IF f \in F \ close_drops(e) THEN "disabled" ELSE "absent"]]
    <2>1. PICK F \in SUBSET (FiltersOf(e) \intersect {"READ"}) :
               knote' = [knote EXCEPT ![e] = [f \in Filter |->
                           IF f \in F \ close_drops(e) THEN "disabled" ELSE "absent"]]
      BY <1>1
    <2>2. F \ close_drops(e) = {}
      BY FailedCreate
    <2>3. [f \in Filter |-> IF f \in F \ close_drops(e) THEN "disabled" ELSE "absent"]
            = [f \in Filter |-> "absent"]
      BY <2>2
    <2>4. knote' = [knote EXCEPT ![e] = [f \in Filter |-> "absent"]]
      BY <2>1, <2>3
    <2> QED
      BY <2>4 DEF posixc_event_create
  <1> QED
    BY <1>1 DEF posixc_event_create

\* EV_ENABLE and delivery leave a knote in one of its states.
LEMMA KnoteStates ==
  /\ \A e \in Event, f \in Filter : submit_knote(e, f) \in KnoteState \ {"absent"}
  /\ \A f \in Filter, s \in KnoteState, h \in BOOLEAN :
       /\ delivered_knote(f, s, h) \in KnoteState
       /\ s = "absent" /\ f \notin {"READ", "WRITE", "USER"}
            => delivered_knote(f, s, h) = "absent"
  BY DEF submit_knote, delivered_knote, KnoteState

-----------------------------------------------------------------------------
(* The type invariant.                                                     *)

\* A thread inside submit or destroy works on an event; without this the types
\* of what it writes would not be known.
ArgOK == \A t \in Thread : pc[t] \in InCall => arg[t] \in Event

TypeInv == TypeOK /\ ArgOK

PCs == UserPC \union ReactorPC

\* A thread that goes on at l, in the same call, in a new call on an event or
\* out of a call, stays well typed.
LEMMA MoveTypes ==
  ASSUME TypeInv, NEW t \in Thread, NEW l \in PCs, NEW x \in Event \union {None},
         Goto(t, l), held' \subseteq User \X Event,
         \/ arg' = arg /\ (l \in InCall => pc[t] \in InCall)
         \/ arg' = [arg EXCEPT ![t] = x] /\ (l \in InCall => x # None)
  PROVE  ThreadTypeOK' /\ ArgOK'
  <1> USE DEF TypeInv, TypeOK, ThreadTypeOK, PCs, Goto
  <1>1. pc' \in [Thread -> PCs] /\ arg' \in [Thread -> Event \union {None}]
    OBVIOUS
  <1>2. ASSUME NEW s \in Thread, pc'[s] \in InCall PROVE arg'[s] \in Event
    BY <1>1, <1>2 DEF ArgOK
  <1> QED
    BY <1>1, <1>2 DEF ArgOK

\* What a step leaves alone keeps its type.
LEMMA UnchangedTypes ==
  ASSUME TypeInv
  PROVE  /\ UNCHANGED reactorVars => ReactorTypeOK'
         /\ UNCHANGED loopVars => LoopTypeOK'
         /\ UNCHANGED eventVars => EventTypeOK'
         /\ UNCHANGED kernelVars => KernelTypeOK'
         /\ UNCHANGED <<pc, arg, held>> => ThreadTypeOK' /\ ArgOK'
  <1> USE DEF TypeInv, TypeOK
  <1>1. UNCHANGED reactorVars => ReactorTypeOK'
    BY DEF ReactorTypeOK, reactorVars
  <1>2. UNCHANGED loopVars => LoopTypeOK'
    BY DEF LoopTypeOK, loopVars
  <1>3. UNCHANGED eventVars => EventTypeOK'
    BY DEF EventTypeOK, eventVars
  <1>4. UNCHANGED kernelVars => KernelTypeOK'
    BY DEF KernelTypeOK, kernelVars
  <1>5. UNCHANGED <<pc, arg, held>> => ThreadTypeOK' /\ ArgOK'
    BY DEF ThreadTypeOK, ArgOK
  <1> QED
    BY <1>1, <1>2, <1>3, <1>4, <1>5

\* Removing knotes keeps the kqueue well typed.
LEMMA DropKnotesTypes ==
  ASSUME KernelTypeOK, NEW e \in Event, NEW F \in SUBSET Filter, DropKnotes(e, F)
  PROVE  KernelTypeOK'
  BY DEF DropKnotes, KernelTypeOK, KnoteState

\* The initial state is well typed.
LEMMA TypeInit == Init => TypeInv
  <1> SUFFICES ASSUME Init PROVE TypeInv
    OBVIOUS
  <1> USE ReactorAssumption DEF Init
  <1>1. ReactorTypeOK
    <2>1. gc_events \in Seq(Event)
      OBVIOUS
    <2>2. rclosing \in BOOLEAN
      OBVIOUS
    <2> QED
      BY <2>1, <2>2 DEF ReactorTypeOK
  <1>2. LoopTypeOK
    <2>1. iter \in 0 .. loops_per_gc - 1
      OBVIOUS
    <2>2. final \in BOOLEAN
      OBVIOUS
    <2> QED
      BY <2>1, <2>2 DEF LoopTypeOK
  <1>3. EventTypeOK
    BY DEF EventTypeOK
  <1>4. KernelTypeOK
    BY DEF KernelTypeOK, KnoteState
  <1>5. ThreadTypeOK
    BY DEF ThreadTypeOK, UserPC, ReactorPC
  <1>6. ArgOK
    BY DEF ArgOK, InCall
  <1> QED
    BY <1>1, <1>2, <1>3, <1>4, <1>5, <1>6 DEF TypeInv, TypeOK

\* Steps inside submit, destroy and the collector keep the types.
LEMMA CallStepTypes ==
  ASSUME TypeInv, NEW t \in Thread, CallStep(t)
  PROVE  TypeInv'
  <1> USE ReactorAssumption, UnchangedTypes, FiltersOfType DEF TypeInv, TypeOK
  <1>t. /\ AfterDestroy(t) \in PCs /\ AfterDestroy(t) \notin InCall
        /\ AfterSubmit(t) \in PCs /\ AfterSubmit(t) \notin InCall
        /\ AfterGc(t) \in PCs /\ AfterGc(t) \notin InCall
    BY DEF AfterDestroy, AfterSubmit, AfterGc, PCs, UserPC, ReactorPC, InCall
  <1>a. pc[t] \in InCall => arg[t] \in Event
    BY DEF ArgOK
  <1>c. InCall \subseteq PCs /\ "gc_next" \in PCs /\ "gc_next" \notin InCall
    BY DEF PCs, UserPC, ReactorPC, InCall
  <1>h. held \subseteq User \X Event
    BY DEF ThreadTypeOK
  <1>1. CASE submit_locked(t)
    <2> DEFINE e == arg[t]
    <2>1. e \in Event
      BY <1>1, <1>a DEF submit_locked, InCall
    <2>2. PICK m \in Masks[e] : submit_mask(e, m)
      BY <1>1 DEF submit_locked
    <2> DEFINE mask == evmask[e] \union m
    <2>3. m \subseteq Filter /\ mask \subseteq Filter
      BY <2>1 DEF EventTypeOK
    <2>4. EventTypeOK'
      BY <1>1, <2>1, <2>2, <2>3 DEF submit_locked, submit_mask, EventTypeOK
    <2>5. KernelTypeOK'
      <3>1. ready' = ready
        BY <1>1 DEF submit_locked
      <3>2. CASE plat_submit_ok(e, mask)
        <4> DEFINE K == [f \in Filter |-> IF f \in plat_submit_set(e, mask)
                                          THEN submit_knote(e, f) ELSE knote[e][f]]
        <4>1. knote[e] \in [Filter -> KnoteState]
          BY <2>1 DEF KernelTypeOK
        <4>2. K \in [Filter -> KnoteState]
          BY <2>1, <4>1, KnoteStates
        <4>3. knote' = [knote EXCEPT ![e] = K]
          BY <2>2, <3>2 DEF submit_mask
        <4>4. asked' = [asked EXCEPT ![e] = @ \union (m \intersect FiltersOf(e))]
          BY <2>2, <3>2 DEF submit_mask
        <4> HIDE DEF K
        <4> QED
          BY <3>1, <4>2, <4>3, <4>4, <2>1, <2>3 DEF KernelTypeOK
      <3>3. CASE ~plat_submit_ok(e, mask)
        BY <2>2, <3>1, <3>3 DEF submit_mask, KernelTypeOK
      <3> QED
        BY <3>2, <3>3
    <2>6. ThreadTypeOK' /\ ArgOK'
      BY <1>1, <1>t, <1>h, MoveTypes DEF submit_locked, Return
    <2> QED
      BY <1>1, <2>4, <2>5, <2>6 DEF submit_locked
  <1>2. CASE destroy_mark(t)
    <2>1. EventTypeOK'
      BY <1>2 DEF destroy_mark, EventTypeOK
    <2>2. ThreadTypeOK' /\ ArgOK'
      BY <1>2, <1>c, <1>h, MoveTypes DEF destroy_mark, InCall
    <2>3. UNCHANGED kernelVars
      BY <1>2 DEF destroy_mark
    <2> QED
      BY <1>2, <2>1, <2>2, <2>3 DEF destroy_mark
  <1>3. CASE posixc_event_plat_destroy(t)
    <2>1. arg[t] \in Event
      BY <1>3, <1>a DEF posixc_event_plat_destroy, InCall
    <2>2. KernelTypeOK'
      BY <1>3, <2>1, DropKnotesTypes DEF posixc_event_plat_destroy, plat_destroy_set
    <2>3. ThreadTypeOK' /\ ArgOK'
      BY <1>3, <1>c, <1>h, MoveTypes
         DEF posixc_event_plat_destroy, after_shutdown, InCall
    <2> QED
      BY <1>3, <2>2, <2>3 DEF posixc_event_plat_destroy
  <1>4. CASE add_to_gc_list(t)
    <2>1. arg[t] \in Event
      BY <1>4, <1>a DEF add_to_gc_list, InCall
    <2>2. ReactorTypeOK'
      BY <1>4, <2>1 DEF add_to_gc_list, ReactorTypeOK
    <2>3. ThreadTypeOK' /\ ArgOK'
      BY <1>4, <1>t, <1>h, MoveTypes DEF add_to_gc_list, Return
    <2> QED
      BY <1>4, <2>2, <2>3 DEF add_to_gc_list
  <1>5. CASE posixc_event_release(t)
    <2>1. arg[t] \in Event
      BY <1>5, <1>a DEF posixc_event_release, InCall
    <2>2. KernelTypeOK'
      BY <1>5, <2>1, DropKnotesTypes, CloseDropsType DEF posixc_event_release
    <2>3. LoopTypeOK'
      BY <1>5 DEF posixc_event_release, LoopTypeOK
    <2>4. EventTypeOK'
      BY <1>5, <2>1 DEF posixc_event_release, EventTypeOK
    <2>5. ThreadTypeOK' /\ ArgOK'
      BY <1>5, <1>t, <1>h, MoveTypes DEF posixc_event_release, Return
    <2> QED
      BY <1>5, <2>2, <2>3, <2>4, <2>5 DEF posixc_event_release
  <1>6. CASE posixc_reactor_gc(t)
    <2>1. ReactorTypeOK'
      BY <1>6 DEF posixc_reactor_gc, ReactorTypeOK
    <2>2. ThreadTypeOK' /\ ArgOK'
      BY <1>6, <1>t, <1>c, <1>h, MoveTypes DEF posixc_reactor_gc
    <2> QED
      BY <1>6, <2>1, <2>2 DEF posixc_reactor_gc
  <1>7. CASE gc_next(t)
    <2>1. Head(gc_events) \in Event /\ Tail(gc_events) \in Seq(Event)
      BY <1>7 DEF gc_next, ReactorTypeOK
    <2>2. ReactorTypeOK'
      BY <1>7, <2>1 DEF gc_next, ReactorTypeOK
    <2>3. ThreadTypeOK' /\ ArgOK'
      <3>1. \E l \in PCs, x \in Event \union {None} :
              /\ Goto(t, l) /\ arg' = [arg EXCEPT ![t] = x]
              /\ l \in InCall => x # None
        BY <1>7, <1>t, <1>c, <2>1 DEF gc_next, enter_destroy, Call, Return, InCall
      <3> QED
        BY <1>7, <3>1, <1>h, MoveTypes DEF gc_next
    <2> QED
      BY <1>7, <2>2, <2>3 DEF gc_next
  <1>8. CASE gc_unlock(t)
    <2>1. ReactorTypeOK'
      BY <1>8 DEF gc_unlock, ReactorTypeOK
    <2>2. ThreadTypeOK' /\ ArgOK'
      BY <1>8, <1>t, <1>h, MoveTypes DEF gc_unlock
    <2> QED
      BY <1>8, <2>1, <2>2 DEF gc_unlock
  <1> QED
    BY <1>1, <1>2, <1>3, <1>4, <1>5, <1>6, <1>7, <1>8 DEF CallStep

\* Calls a client makes keep the types.
LEMMA ApiTypes ==
  ASSUME TypeInv,
         \/ \E u \in User :
              \/ posixc_reactor_create(u)
              \/ posixc_reactor_destroy(u)
              \/ ReactorDestroyStep(u)
         \/ \E u \in User, e \in Event :
              \/ posixc_event_create(u, e)
              \/ \E is_periodic \in BOOLEAN :
                   posixc_timer_event_set_interval(u, e, is_periodic)
         \/ \E t \in Thread, e \in Event :
              posixc_event_submit(t, e) \/ posixc_event_destroy(t, e)
  PROVE  TypeInv'
  <1> USE ReactorAssumption, UnchangedTypes, FiltersOfType DEF TypeInv, TypeOK
  <1>c. /\ {"gc_lock", "rd_join", "idle", "loop", "s_lock", "d_mark", "d_release"}
             \subseteq PCs
        /\ {"gc_lock", "rd_join", "idle", "loop"} \intersect InCall = {}
    BY DEF PCs, UserPC, ReactorPC, InCall
  <1>h. held \subseteq User \X Event
    BY DEF ThreadTypeOK
  <1>r. ReactorThread \in Thread /\ User \subseteq Thread
    BY DEF Thread
  <1>1. ASSUME NEW u \in User, posixc_reactor_create(u) PROVE TypeInv'
    <2>1. ReactorTypeOK'
      BY <1>1 DEF posixc_reactor_create, ReactorTypeOK
    <2>2. ThreadTypeOK' /\ ArgOK'
      BY <1>1, <1>c, <1>h, <1>r, MoveTypes DEF posixc_reactor_create
    <2> QED
      BY <1>1, <2>1, <2>2 DEF posixc_reactor_create
  <1>2. ASSUME NEW u \in User, posixc_reactor_destroy(u) PROVE TypeInv'
    <2>1. ReactorTypeOK'
      BY <1>2 DEF posixc_reactor_destroy, ReactorTypeOK
    <2>2. ThreadTypeOK' /\ ArgOK'
      BY <1>2, <1>c, <1>h, <1>r, MoveTypes DEF posixc_reactor_destroy
    <2> QED
      BY <1>2, <2>1, <2>2 DEF posixc_reactor_destroy
  <1>3. ASSUME NEW u \in User, destroy_set_closing(u) PROVE TypeInv'
    <2>1. rclosing' \in BOOLEAN
      BY <1>3 DEF destroy_set_closing
    <2>2. ReactorTypeOK'
      BY <1>3, <2>1 DEF destroy_set_closing, ReactorTypeOK
    <2>3. ThreadTypeOK' /\ ArgOK'
      BY <1>3, <1>c, <1>h, <1>r, MoveTypes DEF destroy_set_closing
    <2> QED
      BY <1>3, <2>2, <2>3 DEF destroy_set_closing
  <1>4. ASSUME NEW u \in User, destroy_join(u) PROVE TypeInv'
    <2>1. ReactorTypeOK'
      BY <1>4 DEF destroy_join, ReactorTypeOK
    <2>2. ThreadTypeOK' /\ ArgOK'
      BY <1>4, <1>c, <1>h, <1>r, MoveTypes DEF destroy_join
    <2> QED
      BY <1>4, <2>1, <2>2 DEF destroy_join
  <1>5. ASSUME NEW u \in User, NEW e \in Event, posixc_event_create(u, e)
        PROVE  TypeInv'
    <2>1. CASE /\ alloc' = [alloc EXCEPT ![e] = "freed"]
               /\ knote' = [knote EXCEPT ![e] = [f \in Filter |-> "absent"]]
               /\ UNCHANGED <<closing, evmask, data_1, held>>
      <3>1. EventTypeOK' /\ KernelTypeOK'
        BY <1>5, <2>1 DEF posixc_event_create, EventTypeOK, KernelTypeOK, KnoteState
      <3> QED
        BY <1>5, <2>1, <3>1 DEF posixc_event_create
    <2>2. CASE /\ alloc'   = [alloc EXCEPT ![e] = "live"]
               /\ closing' = [closing EXCEPT ![e] = FALSE]
               /\ evmask'  = [evmask EXCEPT ![e] = {}]
               /\ data_1'  = [data_1 EXCEPT ![e] = 0]
               /\ knote'   = [knote EXCEPT ![e] = [f \in Filter |->
                                IF f \in FiltersOf(e) THEN "disabled" ELSE "absent"]]
               /\ held'    = held \union (Holders[e] \X {e})
      <3>1. EventTypeOK'
        BY <2>2 DEF EventTypeOK
      <3>2. KernelTypeOK'
        BY <1>5, <2>2 DEF posixc_event_create, KernelTypeOK, KnoteState
      <3>3. ThreadTypeOK' /\ ArgOK'
        BY <1>5, <2>2, <1>h DEF posixc_event_create, ThreadTypeOK, ArgOK
      <3> QED
        BY <1>5, <3>1, <3>2, <3>3 DEF posixc_event_create
    <2> QED
      BY <1>5, <2>1, <2>2, CreateKnotes
  <1>6. ASSUME NEW u \in User, NEW e \in Event, NEW is_periodic \in BOOLEAN,
               posixc_timer_event_set_interval(u, e, is_periodic)
        PROVE  TypeInv'
    <2>1. EventTypeOK'
      BY <1>6 DEF posixc_timer_event_set_interval, EventTypeOK
    <2>2. UNCHANGED <<pc, arg, held>>
      BY <1>6 DEF posixc_timer_event_set_interval, threadVars
    <2> QED
      BY <1>6, <2>1, <2>2 DEF posixc_timer_event_set_interval
  <1>7. ASSUME NEW t \in Thread, NEW e \in Event, posixc_event_submit(t, e)
        PROVE  TypeInv'
    <2>1. held' \subseteq User \X Event
      BY <1>7, <1>h DEF posixc_event_submit
    <2>2. ThreadTypeOK' /\ ArgOK'
      <3>1. CASE closing[e]
        BY <1>7, <2>1, <3>1 DEF posixc_event_submit, ThreadTypeOK, ArgOK
      <3>2. CASE ~closing[e]
        BY <1>7, <2>1, <3>2, <1>c, MoveTypes DEF posixc_event_submit, Call
      <3> QED
        BY <3>1, <3>2
    <2> QED
      BY <1>7, <2>2 DEF posixc_event_submit
  <1>8. ASSUME NEW t \in Thread, NEW e \in Event, posixc_event_destroy(t, e)
        PROVE  TypeInv'
    <2>1. held' \subseteq User \X Event
      BY <1>8, <1>h DEF posixc_event_destroy
    <2>2. AfterDestroy(t) \in PCs /\ AfterDestroy(t) \notin InCall
      BY DEF AfterDestroy, PCs, UserPC, ReactorPC, InCall
    <2>3. \E l \in PCs, x \in Event \union {None} :
            /\ Goto(t, l) /\ arg' = [arg EXCEPT ![t] = x]
            /\ l \in InCall => x # None
      BY <1>8, <1>c, <2>2 DEF posixc_event_destroy, enter_destroy, Call, Return
    <2>4. ThreadTypeOK' /\ ArgOK'
      BY <2>1, <2>3, MoveTypes
    <2> QED
      BY <1>8, <2>4 DEF posixc_event_destroy
  <1> QED
    BY <1>1, <1>2, <1>3, <1>4, <1>5, <1>6, <1>7, <1>8 DEF ReactorDestroyStep

\* Steps of the loop and of the kernel keep the types.
LEMMA LoopTypes ==
  ASSUME TypeInv,
         \/ LoopStep
         \/ kevent_interrupted
         \/ callback_return
         \/ \E e \in Event, f \in Filter : kernel_ready(e, f)
  PROVE  TypeInv'
  <1> USE ReactorAssumption, UnchangedTypes, FiltersOfType DEF TypeInv, TypeOK
  <1>c. /\ {"gc_lock", "kevent", "dispatch", "cb", "loop"} \subseteq PCs
        /\ {"gc_lock", "kevent", "dispatch", "cb", "loop"} \intersect InCall = {}
    BY DEF PCs, UserPC, ReactorPC, InCall
  <1>h. held \subseteq User \X Event /\ ReactorThread \in Thread
    BY DEF ThreadTypeOK, Thread
  <1>1. CASE loop_test
    <2>1. final' \in BOOLEAN
      BY <1>1 DEF loop_test, LoopTypeOK
    <2>2. LoopTypeOK'
      BY <1>1, <2>1 DEF loop_test, LoopTypeOK
    <2>3. ThreadTypeOK' /\ ArgOK'
      BY <1>1, <1>c, <1>h, MoveTypes DEF loop_test
    <2> QED
      BY <1>1, <2>2, <2>3 DEF loop_test
  <1>2. CASE kevent_deliver
    <2>1. PICK B \in SUBSET Deliverable :
            /\ batch' = B
            /\ ready' = [e \in Event |-> {f \in ready[e] : <<e, f>> \notin B}]
            /\ asked' = [e \in Event |-> {f \in asked[e] : <<e, f>> \notin B}]
            /\ \E honoured \in BOOLEAN :
                 knote' = [e \in Event |-> [f \in Filter |->
                             IF <<e, f>> \in B
                             THEN delivered_knote(f, knote[e][f], honoured)
                             ELSE knote[e][f]]]
      BY <1>2 DEF kevent_deliver
    <2>2. LoopTypeOK'
      BY <1>2, <2>1 DEF kevent_deliver, LoopTypeOK, Deliverable
    <2>3. KernelTypeOK'
      <3>1. ready' \in [Event -> SUBSET Filter] /\ asked' \in [Event -> SUBSET Filter]
        BY <2>1 DEF KernelTypeOK
      <3>2. knote' \in [Event -> [Filter -> KnoteState]]
        BY <2>1, KnoteStates DEF KernelTypeOK
      <3> QED
        BY <3>1, <3>2 DEF KernelTypeOK
    <2>4. ThreadTypeOK' /\ ArgOK'
      BY <1>2, <1>c, <1>h, MoveTypes DEF kevent_deliver
    <2> QED
      BY <1>2, <2>2, <2>3, <2>4 DEF kevent_deliver
  <1>3. CASE consume_ev
    <2>1. PICK k \in batch :
            /\ batch' = batch \ {k}
            /\ firing' = k
            /\ evmask' = [evmask EXCEPT ![k[1]] = @ \ consumed_mask(k[2])]
      BY <1>3 DEF consume_ev
    <2>2. LoopTypeOK'
      BY <1>3, <2>1 DEF consume_ev, LoopTypeOK
    <2>3. EventTypeOK'
      BY <1>3, <2>1 DEF consume_ev, EventTypeOK
    <2>4. ThreadTypeOK' /\ ArgOK'
      BY <1>3, <1>c, <1>h, MoveTypes DEF consume_ev
    <2> QED
      BY <1>3, <2>2, <2>3, <2>4 DEF consume_ev
  <1>4. CASE end_batch
    <2>1. iter' \in 0 .. loops_per_gc - 1
      BY <1>4 DEF end_batch, next_turn, LoopTypeOK
    <2>2. LoopTypeOK'
      BY <1>4, <2>1 DEF end_batch, LoopTypeOK
    <2>3. ThreadTypeOK' /\ ArgOK'
      BY <1>4, <1>c, <1>h, MoveTypes DEF end_batch
    <2> QED
      BY <1>4, <2>2, <2>3 DEF end_batch
  <1>5. CASE kevent_interrupted
    <2>1. ThreadTypeOK' /\ ArgOK'
      BY <1>5, <1>c, <1>h, MoveTypes DEF kevent_interrupted
    <2> QED
      BY <1>5, <2>1 DEF kevent_interrupted
  <1>6. CASE callback_return
    <2>1. LoopTypeOK'
      BY <1>6 DEF callback_return, LoopTypeOK
    <2>2. ThreadTypeOK' /\ ArgOK'
      BY <1>6, <1>c, <1>h, MoveTypes DEF callback_return
    <2> QED
      BY <1>6, <2>1, <2>2 DEF callback_return
  <1>7. ASSUME NEW e \in Event, NEW f \in Filter, kernel_ready(e, f) PROVE TypeInv'
    <2>1. KernelTypeOK'
      BY <1>7 DEF kernel_ready, KernelTypeOK
    <2>2. UNCHANGED <<pc, arg, held>>
      BY <1>7 DEF kernel_ready, threadVars
    <2> QED
      BY <1>7, <2>1, <2>2 DEF kernel_ready
  <1> QED
    BY <1>1, <1>2, <1>3, <1>4, <1>5, <1>6, <1>7 DEF LoopStep

\* Every step keeps the types.
LEMMA TypeNext == TypeInv /\ [Next]_vars => TypeInv'
  <1> SUFFICES ASSUME TypeInv, [Next]_vars PROVE TypeInv'
    OBVIOUS
  <1>1. CASE UNCHANGED vars
    BY <1>1, UnchangedTypes DEF vars, threadVars, TypeInv, TypeOK
  <1>2. CASE Next
    BY <1>2, CallStepTypes, ApiTypes, LoopTypes DEF Next
  <1> QED
    BY <1>1, <1>2

\* Whatever events, threads and masks a client uses, the reactor and its events
\* stay well typed.
THEOREM TypeCorrect == Spec => []TypeOK
  <1>1. Spec => []TypeInv
    BY TypeInit, TypeNext, PTL DEF Spec
  <1>2. TypeInv => TypeOK
    BY DEF TypeInv
  <1> QED
    BY <1>1, <1>2, PTL

-----------------------------------------------------------------------------
(* Submits and deliveries, for any client: several threads may share an    *)
(* event, and callbacks may destroy theirs.                                *)

\* Nothing refers to an event before posixc_event_create has returned it.
KnownInv ==
  /\ \A r \in held : alloc[r[2]] # "none"
  /\ \A k \in batch : alloc[k[1]] # "none"
  /\ firing # None => alloc[firing[1]] # "none"
  /\ pc[ReactorThread] \in {"cb", "s_lock"} => firing # None
  /\ \A t \in Thread : pc[t] \in InCall => alloc[arg[t]] # "none"
  /\ \A i \in 1 .. Len(gc_events) : alloc[gc_events[i]] # "none"
  /\ \A e \in Event : alloc[e] = "none" =>
       asked[e] = {} /\ \A f \in Filter : knote[e][f] = "absent"

\* Once created, an event is never again as if it had not been.
LEMMA CreatedForGood ==
  ASSUME TypeInv, [Next]_vars, NEW e \in Event, alloc[e] # "none"
  PROVE  alloc'[e] # "none"
  <1> USE DEF TypeInv, TypeOK, EventTypeOK
  <1>1. CASE UNCHANGED alloc
    BY <1>1
  <1>2. ASSUME NEW u \in User, NEW x \in Event, posixc_event_create(u, x)
        PROVE  alloc'[e] # "none"
    BY <1>2 DEF posixc_event_create
  <1>3. ASSUME NEW t \in Thread, posixc_event_release(t) PROVE alloc'[e] # "none"
    BY <1>3 DEF posixc_event_release
  <1> QED
    BY <1>1, <1>2, <1>3 DEF Next, vars, eventVars, CallStep, ReactorDestroyStep, LoopStep,
       posixc_reactor_create, posixc_reactor_destroy, destroy_set_closing, destroy_join,
       posixc_timer_event_set_interval, posixc_event_submit, posixc_event_destroy,
       submit_locked, destroy_mark, posixc_event_plat_destroy, add_to_gc_list,
       posixc_reactor_gc, gc_next, gc_unlock, loop_test, kevent_deliver, consume_ev,
       end_batch, kevent_interrupted, callback_return, kernel_ready

\* A submit that found its knotes has armed every filter it was asked for; the
\* next delivery, or the deletion of the knote, takes the filter off again.
ArmInv == TypeInv /\ KnownInv /\ SubmitArms

\* Deleted knotes are no longer asked for.
LEMMA DropKnotesArms ==
  ASSUME KernelTypeOK, SubmitArms, NEW e \in Event, NEW F \in SUBSET Filter,
         DropKnotes(e, F)
  PROVE  /\ SubmitArms'
         /\ \A x \in Event :
              /\ asked[x] = {} => asked'[x] = {}
              /\ \A f \in Filter : knote[x][f] = "absent" => knote'[x][f] = "absent"
  BY DEF DropKnotes, KernelTypeOK, SubmitArms, Armed

LEMMA ArmCallStep ==
  ASSUME ArmInv, TypeInv', NEW t \in Thread, CallStep(t),
         \A e \in Event : alloc[e] # "none" => alloc'[e] # "none"
  PROVE  KnownInv' /\ SubmitArms'
  <1> USE ReactorAssumption, FiltersOfType DEF ArmInv, TypeInv, TypeOK, ThreadTypeOK, Thread,
      Goto, Call, Return, reactorVars, loopVars, eventVars, kernelVars
  <1>a. pc[t] \in InCall => arg[t] \in Event /\ alloc[arg[t]] # "none"
    BY DEF ArgOK, KnownInv
  <1>1. CASE submit_locked(t)
    <2> DEFINE e == arg[t]
    <2>1. e \in Event /\ alloc[e] # "none"
      BY <1>1, <1>a DEF submit_locked, InCall
    <2>2. PICK m \in Masks[e] : submit_mask(e, m)
      BY <1>1 DEF submit_locked
    <2>3. m \subseteq Filter
      BY <2>1
    <2>4. \A x \in Event \ {e} : asked'[x] = asked[x] /\ knote'[x] = knote[x]
      BY <2>2 DEF submit_mask, KernelTypeOK
    <2>5. \A f \in asked'[e] : knote'[e][f] \in Armed
      <3>1. CASE plat_submit_ok(e, evmask[e] \union m)
        <4>1. ASSUME NEW f \in asked'[e] PROVE f \in Filter /\ (f \in asked[e] \/ f \in m \intersect FiltersOf(e))
          BY <2>1, <2>2, <2>3, <3>1 DEF submit_mask, KernelTypeOK
        <4>2. ASSUME NEW f \in Filter PROVE submit_knote(e, f) \in Armed
          BY DEF submit_knote, Armed
        <4> QED
          BY <2>1, <2>2, <3>1, <4>1, <4>2, SMTT(30)
             DEF submit_mask, plat_submit_set, SubmitArms, KernelTypeOK
      <3>2. CASE ~plat_submit_ok(e, evmask[e] \union m)
        BY <2>1, <2>2, <3>2 DEF submit_mask, SubmitArms
      <3> QED
        BY <3>1, <3>2
    <2>6. SubmitArms'
      BY <2>4, <2>5 DEF SubmitArms
    <2>7. KnownInv'
      BY <1>1, <2>1, <2>4 DEF submit_locked, KnownInv, AfterSubmit, InCall
    <2> QED
      BY <2>6, <2>7
  <1>2. CASE destroy_mark(t)
    BY <1>2, <1>a DEF destroy_mark, KnownInv, SubmitArms, InCall
  <1>3. CASE posixc_event_plat_destroy(t)
    <2>1. arg[t] \in Event
      BY <1>3, <1>a DEF posixc_event_plat_destroy, InCall
    <2>2. /\ SubmitArms'
          /\ \A x \in Event :
               /\ asked[x] = {} => asked'[x] = {}
               /\ \A f \in Filter : knote[x][f] = "absent" => knote'[x][f] = "absent"
      BY <1>3, <2>1, DropKnotesArms DEF posixc_event_plat_destroy, plat_destroy_set
    <2>3. KnownInv'
      BY <1>3, <1>a, <2>2 DEF posixc_event_plat_destroy, after_shutdown, KnownInv, InCall
    <2> QED
      BY <2>2, <2>3
  <1>4. CASE add_to_gc_list(t)
    <2>1. arg[t] \in Event /\ alloc[arg[t]] # "none"
      BY <1>4, <1>a DEF add_to_gc_list, InCall
    <2>2. \A i \in 1 .. Len(gc_events') : alloc[gc_events'[i]] # "none"
      BY <1>4, <2>1 DEF add_to_gc_list, KnownInv, ReactorTypeOK
    <2>3. KnownInv'
      BY <1>4, <2>2 DEF add_to_gc_list, AfterDestroy, KnownInv, InCall
    <2> QED
      BY <1>4, <2>3 DEF add_to_gc_list, SubmitArms
  <1>5. CASE posixc_event_release(t)
    <2>1. arg[t] \in Event /\ alloc[arg[t]] # "none"
      BY <1>5, <1>a DEF posixc_event_release, InCall
    <2>2. /\ SubmitArms'
          /\ \A x \in Event :
               /\ asked[x] = {} => asked'[x] = {}
               /\ \A f \in Filter : knote[x][f] = "absent" => knote'[x][f] = "absent"
      BY <1>5, <2>1, DropKnotesArms, CloseDropsType DEF posixc_event_release
    <2>3. alloc' = [alloc EXCEPT ![arg[t]] = "freed"]
      BY <1>5 DEF posixc_event_release
    <2>4. \A x \in Event : alloc'[x] = "none" => alloc[x] = "none"
      BY <2>1, <2>3 DEF EventTypeOK
    <2>5. /\ \A r \in held' : alloc'[r[2]] # "none"
          /\ \A k \in batch' : alloc'[k[1]] # "none"
          /\ \A i \in 1 .. Len(gc_events') : alloc'[gc_events'[i]] # "none"
      BY <1>5, <2>4 DEF posixc_event_release, KnownInv, LoopTypeOK, ReactorTypeOK
    <2>6. firing' # None => alloc'[firing'[1]] # "none"
      BY <1>5, <2>4 DEF posixc_event_release, KnownInv, LoopTypeOK
    <2>7. pc'[ReactorThread] \in {"cb", "s_lock"} => firing' # None
      BY <1>5 DEF posixc_event_release, KnownInv, AfterDestroy
    <2>8. \A s \in Thread : pc'[s] \in InCall => alloc'[arg'[s]] # "none"
      BY <1>5, <2>4 DEF posixc_event_release, KnownInv, AfterDestroy, InCall, ArgOK
    <2>9. KnownInv'
      BY <2>2, <2>4, <2>5, <2>6, <2>7, <2>8 DEF KnownInv
    <2> QED
      BY <2>2, <2>9
  <1>6. CASE posixc_reactor_gc(t)
    BY <1>6 DEF posixc_reactor_gc, AfterGc, KnownInv, SubmitArms, InCall
  <1>7. CASE gc_next(t)
    <2>1. /\ Head(gc_events) \in Event /\ alloc[Head(gc_events)] # "none"
          /\ \A i \in 1 .. Len(Tail(gc_events)) : alloc[Tail(gc_events)[i]] # "none"
      BY <1>7 DEF gc_next, KnownInv, ReactorTypeOK
    <2>2. \A s \in Thread : pc'[s] \in InCall => alloc[arg'[s]] # "none"
      BY <1>7, <2>1 DEF gc_next, enter_destroy, AfterDestroy, KnownInv, InCall
    <2>3. KnownInv'
      BY <1>7, <2>1, <2>2 DEF gc_next, enter_destroy, AfterDestroy, KnownInv
    <2> QED
      BY <1>7, <2>3 DEF gc_next, SubmitArms
  <1>8. CASE gc_unlock(t)
    BY <1>8 DEF gc_unlock, AfterGc, KnownInv, SubmitArms, InCall
  <1> QED
    BY <1>1, <1>2, <1>3, <1>4, <1>5, <1>6, <1>7, <1>8 DEF CallStep

LEMMA ArmApi ==
  ASSUME ArmInv, TypeInv',
         \A e \in Event : alloc[e] # "none" => alloc'[e] # "none",
         \/ \E u \in User :
              \/ posixc_reactor_create(u)
              \/ posixc_reactor_destroy(u)
              \/ ReactorDestroyStep(u)
         \/ \E u \in User, e \in Event :
              \/ posixc_event_create(u, e)
              \/ \E is_periodic \in BOOLEAN :
                   posixc_timer_event_set_interval(u, e, is_periodic)
         \/ \E t \in Thread, e \in Event :
              posixc_event_submit(t, e) \/ posixc_event_destroy(t, e)
  PROVE  KnownInv' /\ SubmitArms'
  <1> USE ReactorAssumption, FiltersOfType DEF ArmInv, TypeInv, TypeOK, ThreadTypeOK, Thread,
      Goto, Call, Return, reactorVars, loopVars, eventVars, kernelVars, threadVars
  <1>1. ASSUME NEW u \in User,
               \/ posixc_reactor_create(u)
               \/ posixc_reactor_destroy(u)
               \/ ReactorDestroyStep(u)
        PROVE  KnownInv' /\ SubmitArms'
    BY <1>1 DEF posixc_reactor_create, posixc_reactor_destroy, ReactorDestroyStep,
       destroy_set_closing, destroy_join, KnownInv, SubmitArms, InCall
  <1>2. ASSUME NEW u \in User, NEW e \in Event, NEW p \in BOOLEAN,
               posixc_timer_event_set_interval(u, e, p)
        PROVE  KnownInv' /\ SubmitArms'
    BY <1>2 DEF posixc_timer_event_set_interval, KnownInv, SubmitArms
  <1>3. ASSUME NEW u \in User, NEW e \in Event, posixc_event_create(u, e)
        PROVE  KnownInv' /\ SubmitArms'
    <2>1. alloc[e] = "none" /\ alloc'[e] # "none" /\ asked' = asked /\ asked[e] = {}
      BY <1>3 DEF posixc_event_create, KnownInv, EventTypeOK
    <2>2. \A x \in Event \ {e} : alloc'[x] = alloc[x] /\ knote'[x] = knote[x]
      BY <1>3 DEF posixc_event_create, EventTypeOK, KernelTypeOK
    <2>3. SubmitArms'
      BY <2>1, <2>2 DEF SubmitArms
    <2>4. \A r \in held' : alloc'[r[2]] # "none"
      BY <1>3, <2>1 DEF posixc_event_create, KnownInv
    <2>5. \A t \in Thread : pc[t] \in InCall => alloc'[arg[t]] # "none"
      BY DEF KnownInv, ArgOK
    <2>6. \A i \in 1 .. Len(gc_events) : alloc'[gc_events[i]] # "none"
      BY DEF KnownInv, ReactorTypeOK
    <2>7. /\ \A k \in batch : alloc'[k[1]] # "none"
          /\ firing # None => alloc'[firing[1]] # "none"
      BY DEF KnownInv, LoopTypeOK
    <2>8. KnownInv'
      BY <1>3, <2>1, <2>2, <2>4, <2>5, <2>6, <2>7 DEF posixc_event_create, KnownInv
    <2> QED
      BY <2>3, <2>8
  <1>4. ASSUME NEW t \in Thread, NEW e \in Event,
               posixc_event_submit(t, e) \/ posixc_event_destroy(t, e)
        PROVE  KnownInv' /\ SubmitArms'
    <2>1. alloc[e] # "none"
      BY <1>4 DEF posixc_event_submit, posixc_event_destroy, MayUse, KnownInv
    <2>2. t = ReactorThread => firing # None
      BY <1>4 DEF posixc_event_submit, posixc_event_destroy, MayUse, KnownInv
    <2>3. held' \subseteq held
      BY <1>4 DEF posixc_event_submit, posixc_event_destroy
    <2>4. UNCHANGED <<reactorVars, loopVars, eventVars, kernelVars>>
      BY <1>4 DEF posixc_event_submit, posixc_event_destroy
    <2>5. \A s \in Thread : pc'[s] \in InCall => alloc[arg'[s]] # "none"
      BY <1>4, <2>1 DEF posixc_event_submit, posixc_event_destroy, enter_destroy,
         AfterDestroy, KnownInv, InCall
    <2>6. pc'[ReactorThread] \in {"cb", "s_lock"} => firing # None
      BY <1>4, <2>2 DEF posixc_event_submit, posixc_event_destroy, enter_destroy,
         AfterDestroy, KnownInv
    <2> QED
      BY <2>3, <2>4, <2>5, <2>6 DEF KnownInv, SubmitArms
  <1> QED
    BY <1>1, <1>2, <1>3, <1>4

LEMMA ArmLoop ==
  ASSUME ArmInv, TypeInv',
         \/ LoopStep
         \/ kevent_interrupted
         \/ callback_return
         \/ \E e \in Event, f \in Filter : kernel_ready(e, f)
  PROVE  KnownInv' /\ SubmitArms'
  <1> USE ReactorAssumption DEF ArmInv, TypeInv, TypeOK, ThreadTypeOK, Thread,
      Goto, reactorVars, loopVars, eventVars, kernelVars, threadVars
  <1>1. CASE loop_test \/ end_batch \/ kevent_interrupted \/ callback_return
    BY <1>1 DEF loop_test, end_batch, kevent_interrupted, callback_return, KnownInv,
       SubmitArms, InCall
  <1>2. CASE consume_ev
    BY <1>2 DEF consume_ev, KnownInv, SubmitArms, InCall, LoopTypeOK
  <1>3. CASE kevent_deliver
    <2>1. /\ batch' \subseteq Deliverable
          /\ asked' = [e \in Event |-> {f \in asked[e] : <<e, f>> \notin batch'}]
          /\ \E honoured \in BOOLEAN :
               knote' = [e \in Event |-> [f \in Filter |->
                           IF <<e, f>> \in batch'
                           THEN delivered_knote(f, knote[e][f], honoured)
                           ELSE knote[e][f]]]
      BY <1>3 DEF kevent_deliver
    <2>2. SubmitArms'
      BY <2>1 DEF SubmitArms, KernelTypeOK
    <2>3. \A k \in batch' : alloc[k[1]] # "none"
      BY <2>1 DEF Deliverable, Armed, KnownInv
    <2>4. ASSUME NEW e \in Event, alloc[e] = "none"
          PROVE  asked'[e] = {} /\ \A f \in Filter : knote'[e][f] = "absent"
      BY <2>1, <2>3, <2>4 DEF KnownInv
    <2>5. KnownInv'
      BY <1>3, <2>3, <2>4 DEF kevent_deliver, KnownInv, InCall
    <2> QED
      BY <2>2, <2>5
  <1>4. ASSUME NEW e \in Event, NEW f \in Filter, kernel_ready(e, f)
        PROVE  KnownInv' /\ SubmitArms'
    BY <1>4 DEF kernel_ready, KnownInv, SubmitArms
  <1> QED
    BY <1>1, <1>2, <1>3, <1>4 DEF LoopStep

\* A submit that returned true is not lost, whoever else submits, destroys or
\* collects at the same time: every filter it named stays armed in the kqueue
\* until the kernel has delivered it or the event is taken out.
THEOREM SubmitsStayArmed == Spec => []SubmitArms
  <1>1. Init => ArmInv
    <2> SUFFICES ASSUME Init PROVE KnownInv /\ SubmitArms
      BY TypeInit DEF ArmInv
    <2> QED
      BY ReactorAssumption DEF Init, KnownInv, SubmitArms, InCall, Thread
  <1>2. ArmInv /\ [Next]_vars => ArmInv'
    <2> SUFFICES ASSUME ArmInv, [Next]_vars PROVE ArmInv'
      OBVIOUS
    <2>1. TypeInv'
      BY TypeNext DEF ArmInv
    <2>2. \A e \in Event : alloc[e] # "none" => alloc'[e] # "none"
      BY CreatedForGood DEF ArmInv
    <2>3. CASE UNCHANGED vars
      BY <2>1, <2>3 DEF ArmInv, KnownInv, SubmitArms, vars, reactorVars, loopVars,
         eventVars, kernelVars, threadVars
    <2>4. CASE Next
      BY <2>1, <2>2, <2>4, ArmCallStep, ArmApi, ArmLoop DEF Next, ArmInv
    <2> QED
      BY <2>3, <2>4
  <1>3. ArmInv => SubmitArms
    BY DEF ArmInv
  <1> QED
    BY <1>1, <1>2, <1>3, PTL DEF Spec

-----------------------------------------------------------------------------
(* One delivery per submit, for clients that watch one filter per event.   *)

\* Every submit of an event names the same filter.
OneFilter == \A e \in Event : \E f \in Filter : Masks[e] \subseteq {{f}}

OneShot == {"READ", "WRITE", "USER"}

\* The mask that is merged into a submit holds no other filter, and a one-shot
\* knote is armed only when a submit has asked for it since its last delivery.
OnceInv ==
  /\ \A e \in Event : \A m \in Masks[e] : evmask[e] \subseteq m
  /\ \A e \in Event, f \in OneShot : knote[e][f] \in Armed => f \in asked[e]

\* The knotes of a new event are disabled, and only its own filters have one.
LEMMA CreateQuiet ==
  ASSUME TypeInv, NEW u \in User, NEW e \in Event, posixc_event_create(u, e)
  PROVE  /\ \A f \in Filter : knote'[e][f] \in {"disabled", "absent"}
         /\ \A f \in Filter \ FiltersOf(e) : knote'[e][f] = "absent"
         /\ \A x \in Event \ {e} : knote'[x] = knote[x]
  <1>1. knote \in [Event -> [Filter -> KnoteState]]
    BY DEF TypeInv, TypeOK, KernelTypeOK
  <1>2. CASE knote' = [knote EXCEPT ![e] = [f \in Filter |->
                         IF f \in FiltersOf(e) THEN "disabled" ELSE "absent"]]
    BY <1>1, <1>2
  <1>3. CASE knote' = [knote EXCEPT ![e] = [f \in Filter |-> "absent"]]
    BY <1>1, <1>3
  <1> QED
    BY <1>2, <1>3, CreateKnotes

LEMMA OnceFrame ==
  ASSUME OnceInv, UNCHANGED <<evmask, knote, asked>>
  PROVE  OnceInv'
  BY DEF OnceInv

\* Deleting knotes arms none.
LEMMA DropKnotesOnce ==
  ASSUME TypeInv, OnceInv, NEW e \in Event, NEW F \in SUBSET Filter, DropKnotes(e, F),
         UNCHANGED evmask
  PROVE  OnceInv'
  <1> USE DEF TypeInv, TypeOK, KernelTypeOK, OnceInv, DropKnotes
  <1>1. ASSUME NEW x \in Event, NEW f \in OneShot, knote'[x][f] \in Armed
        PROVE  f \in asked'[x]
    BY <1>1 DEF OneShot, Filter, Armed
  <1> QED
    BY <1>1

LEMMA OnceNext ==
  ASSUME OneFilter, TypeInv, OnceInv, [Next]_vars
  PROVE  OnceInv'
  <1> USE ReactorAssumption, FiltersOfType DEF TypeInv, TypeOK, reactorVars, loopVars,
      eventVars, kernelVars, threadVars
  <1>a. \A t \in Thread : pc[t] \in InCall => arg[t] \in Event
    BY DEF ArgOK
  <1>o. OneShot \subseteq Filter
    BY DEF OneShot, Filter
  <1>1. ASSUME NEW t \in Thread, submit_locked(t) PROVE OnceInv'
    <2> DEFINE e == arg[t]
    <2>1. e \in Event
      BY <1>1, <1>a DEF submit_locked, InCall
    <2>2. PICK m \in Masks[e] : submit_mask(e, m)
      BY <1>1 DEF submit_locked
    <2>3. evmask[e] \union m = m /\ m \subseteq Filter
      BY <2>1 DEF OnceInv
    <2>4. evmask' = [evmask EXCEPT ![e] = m]
      BY <2>2, <2>3 DEF submit_mask
    <2>5. \A n \in Masks[e] : n = m
      <3>1. PICK f \in Filter : Masks[e] \subseteq {{f}}
        BY <2>1 DEF OneFilter
      <3> QED
        BY <3>1
    <2>6. \A x \in Event : \A n \in Masks[x] : evmask'[x] \subseteq n
      BY <2>1, <2>4, <2>5 DEF OnceInv, EventTypeOK
    <2>7. CASE plat_submit_ok(e, m)
      <3>1. /\ asked' = [asked EXCEPT ![e] = @ \union (m \intersect FiltersOf(e))]
            /\ knote' = [knote EXCEPT ![e] = [f \in Filter |->
                           IF f \in m \intersect FiltersOf(e)
                           THEN submit_knote(e, f) ELSE knote[e][f]]]
        BY <2>2, <2>3, <2>7, ZenonT(30) DEF submit_mask, plat_submit_set
      <3>2. ASSUME NEW x \in Event, NEW f \in OneShot, knote'[x][f] \in Armed
            PROVE  f \in asked'[x]
        <4>1. CASE x = e /\ f \in m \intersect FiltersOf(e)
          BY <2>1, <3>1, <4>1 DEF KernelTypeOK
        <4>2. CASE x = e /\ f \notin m \intersect FiltersOf(e)
          BY <1>o, <2>1, <3>1, <3>2, <4>2 DEF KernelTypeOK, OnceInv
        <4>3. CASE x # e
          BY <2>1, <3>1, <3>2, <4>3 DEF KernelTypeOK, OnceInv
        <4> QED
          BY <4>1, <4>2, <4>3
      <3> QED
        BY <2>6, <3>2 DEF OnceInv
    <2>8. CASE ~plat_submit_ok(e, m)
      <3>1. UNCHANGED <<knote, asked>>
        BY <2>2, <2>3, <2>8 DEF submit_mask
      <3> QED
        BY <2>6, <3>1 DEF OnceInv
    <2> QED
      BY <2>7, <2>8
  <1>2. ASSUME NEW t \in Thread, posixc_event_plat_destroy(t) PROVE OnceInv'
    <2>1. arg[t] \in Event
      BY <1>2, <1>a DEF posixc_event_plat_destroy, InCall
    <2> QED
      BY <1>2, <2>1, DropKnotesOnce DEF posixc_event_plat_destroy, plat_destroy_set
  <1>3. ASSUME NEW t \in Thread, posixc_event_release(t) PROVE OnceInv'
    <2>1. arg[t] \in Event
      BY <1>3, <1>a DEF posixc_event_release, InCall
    <2> QED
      BY <1>3, <2>1, DropKnotesOnce, CloseDropsType DEF posixc_event_release
  <1>4. ASSUME NEW u \in User, NEW e \in Event, posixc_event_create(u, e) PROVE OnceInv'
    <2>1. ASSUME NEW x \in Event, NEW f \in OneShot, knote'[x][f] \in Armed
          PROVE  knote[x][f] \in Armed
      <3>1. CASE x = e
        BY <1>4, <1>o, <2>1, <3>1, CreateQuiet DEF Armed
      <3>2. CASE x # e
        BY <1>4, <2>1, <3>2, CreateQuiet
      <3> QED
        BY <3>1, <3>2
    <2>2. asked' = asked
      BY <1>4 DEF posixc_event_create
    <2>3. \A x \in Event : evmask'[x] \subseteq evmask[x]
      BY <1>4, CreateKnotes DEF EventTypeOK
    <2> QED
      BY <2>1, <2>2, <2>3 DEF OnceInv
  <1>5. CASE kevent_deliver
    <2>1. /\ asked' = [e \in Event |-> {f \in asked[e] : <<e, f>> \notin batch'}]
          /\ \E honoured \in BOOLEAN :
               knote' = [e \in Event |-> [f \in Filter |->
                           IF <<e, f>> \in batch'
                           THEN delivered_knote(f, knote[e][f], honoured)
                           ELSE knote[e][f]]]
      BY <1>5 DEF kevent_deliver
    <2>2. ASSUME NEW x \in Event, NEW f \in OneShot, knote'[x][f] \in Armed
          PROVE  f \in asked'[x]
      BY <1>o, <2>1, <2>2 DEF OnceInv, OneShot, delivered_knote, Armed
    <2> QED
      BY <1>5, <2>2 DEF kevent_deliver, OnceInv
  <1>6. CASE consume_ev
    <2>1. \A e \in Event : evmask'[e] \subseteq evmask[e]
      BY <1>6 DEF consume_ev, EventTypeOK
    <2> QED
      BY <1>6, <2>1 DEF consume_ev, OnceInv
  <1>7. CASE UNCHANGED <<evmask, knote, asked>>
    BY <1>7, OnceFrame
  <1> QED
    BY <1>1, <1>2, <1>3, <1>4, <1>5, <1>6, <1>7 DEF Next, vars, CallStep,
       ReactorDestroyStep, LoopStep, posixc_reactor_create, posixc_reactor_destroy,
       destroy_set_closing, destroy_join, posixc_timer_event_set_interval,
       posixc_event_submit, posixc_event_destroy, destroy_mark, add_to_gc_list,
       posixc_reactor_gc, gc_next, gc_unlock, loop_test, end_batch,
       kevent_interrupted, callback_return, kernel_ready

\* A batch grows only by what the kqueue had armed and ready.
LEMMA Delivered ==
  ASSUME [Next]_vars, NEW k \in batch' \ batch
  PROVE  k \in Deliverable
  <1>1. CASE kevent_deliver
    BY <1>1 DEF kevent_deliver
  <1>2. CASE batch' \subseteq batch
    BY <1>2
  <1> QED
    BY <1>1, <1>2 DEF Next, vars, loopVars, threadVars, CallStep,
       ReactorDestroyStep, LoopStep, posixc_reactor_create, posixc_reactor_destroy,
       destroy_set_closing, destroy_join, posixc_timer_event_set_interval,
       posixc_event_submit, posixc_event_destroy, posixc_event_create, submit_locked,
       destroy_mark, posixc_event_plat_destroy, posixc_event_release, add_to_gc_list,
       posixc_reactor_gc, gc_next, gc_unlock, loop_test, consume_ev, end_batch,
       kevent_interrupted, callback_return, kernel_ready

LEMMA OnceInit == Init => TypeInv /\ OnceInv
  <1> SUFFICES ASSUME Init PROVE OnceInv
    BY TypeInit
  <1> QED
    BY DEF Init, OnceInv, OneShot, Filter, Armed

\* "Every event is triggered exactly once.  If you want to continue watching this
\* event, resubmit it." (event.h) holds of the sockets and user events of every
\* client that watches one filter per event, also when callbacks destroy or
\* resubmit their events.  It says nothing of signals.
THEOREM OncePerSubmit == OneFilter => (Spec => DispatchedOncePerSubmit)
  <1> SUFFICES ASSUME OneFilter PROVE Spec => DispatchedOncePerSubmit
    OBVIOUS
  <1>1. TypeInv /\ OnceInv /\ [Next]_vars => (TypeInv /\ OnceInv)'
    BY TypeNext, OnceNext
  <1>2. ASSUME TypeInv, OnceInv, [Next]_vars
        PROVE  OncePerSubmitOf({"READ", "WRITE", "USER"})
    BY <1>2, Delivered DEF OncePerSubmitOf, Deliverable, OnceInv, OneShot
  <1>3. TypeInv /\ OnceInv /\ [Next]_vars =>
          [OncePerSubmitOf({"READ", "WRITE", "USER"})]_vars
    BY <1>2
  <1> QED
    BY OnceInit, <1>1, <1>3, PTL DEF Spec, DispatchedOncePerSubmit

\* The kqueue holds a signal knote only for a signal event.
NoSignals == \A e \in Event : EventType[e] # "SIG_EV"
SilentInv == \A e \in Event : knote[e]["SIGNAL"] = "absent"

LEMMA SilentNext ==
  ASSUME NoSignals, TypeInv, SilentInv, [Next]_vars
  PROVE  SilentInv'
  <1> USE ReactorAssumption DEF TypeInv, TypeOK, reactorVars, loopVars, eventVars,
      kernelVars, threadVars
  <1>a. \A t \in Thread : pc[t] \in InCall => arg[t] \in Event
    BY DEF ArgOK
  <1>b. "SIGNAL" \in Filter
    BY DEF Filter
  <1>c. \A e \in Event : "SIGNAL" \notin FiltersOf(e)
    BY DEF NoSignals, FiltersOf, Types
  <1>1. ASSUME NEW t \in Thread, submit_locked(t) PROVE SilentInv'
    <2>1. arg[t] \in Event
      BY <1>1, <1>a DEF submit_locked, InCall
    <2>2. PICK m \in Masks[arg[t]] : submit_mask(arg[t], m)
      BY <1>1 DEF submit_locked
    <2> QED
      BY <1>b, <1>c, <2>1, <2>2 DEF submit_mask, plat_submit_set, SilentInv, KernelTypeOK
  <1>2. ASSUME NEW e \in Event, NEW F \in SUBSET Filter, DropKnotes(e, F)
        PROVE  SilentInv'
    BY <1>2, <1>b DEF DropKnotes, SilentInv, KernelTypeOK
  <1>3. ASSUME NEW t \in Thread, posixc_event_plat_destroy(t) PROVE SilentInv'
    <2>1. arg[t] \in Event
      BY <1>3, <1>a DEF posixc_event_plat_destroy, InCall
    <2> QED
      BY <1>2, <1>3, <2>1, FiltersOfType DEF posixc_event_plat_destroy, plat_destroy_set
  <1>4. ASSUME NEW t \in Thread, posixc_event_release(t) PROVE SilentInv'
    <2>1. arg[t] \in Event
      BY <1>4, <1>a DEF posixc_event_release, InCall
    <2> QED
      BY <1>2, <1>4, <2>1, CloseDropsType DEF posixc_event_release
  <1>5. ASSUME NEW u \in User, NEW e \in Event, posixc_event_create(u, e)
        PROVE  SilentInv'
    BY <1>5, <1>b, <1>c, CreateQuiet DEF SilentInv
  <1>6. CASE kevent_deliver
    <2>1. \E honoured \in BOOLEAN :
            knote' = [e \in Event |-> [f \in Filter |->
                        IF <<e, f>> \in batch'
                        THEN delivered_knote(f, knote[e][f], honoured)
                        ELSE knote[e][f]]]
      BY <1>6 DEF kevent_deliver
    <2> QED
      BY <1>b, <2>1 DEF SilentInv, delivered_knote
  <1>7. CASE UNCHANGED knote
    BY <1>7 DEF SilentInv
  <1> QED
    BY <1>1, <1>3, <1>4, <1>5, <1>6, <1>7 DEF Next, vars, CallStep,
       ReactorDestroyStep, LoopStep, posixc_reactor_create, posixc_reactor_destroy,
       destroy_set_closing, destroy_join, posixc_timer_event_set_interval,
       posixc_event_submit, posixc_event_destroy, destroy_mark, add_to_gc_list,
       posixc_reactor_gc, gc_next, gc_unlock, loop_test, consume_ev, end_batch,
       kevent_interrupted, callback_return, kernel_ready

\* The whole promise of event.h, signals included, holds of a client that watches
\* one filter per event and no signal; submit_sig is the one submit that would
\* break it.
THEOREM OnceWithoutSignals == OneFilter /\ NoSignals => (Spec => TriggeredOncePerSubmit)
  <1> SUFFICES ASSUME OneFilter, NoSignals PROVE Spec => TriggeredOncePerSubmit
    OBVIOUS
  <1> DEFINE I == TypeInv /\ OnceInv /\ SilentInv
  <1>1. Init => I
    BY OnceInit DEF Init, SilentInv, Filter
  <1>2. I /\ [Next]_vars => I'
    BY TypeNext, OnceNext, SilentNext
  <1>3. ASSUME I, [Next]_vars
        PROVE  OncePerSubmitOf(Filter \ {"TIMER"})
    BY <1>3, Delivered DEF OncePerSubmitOf, Deliverable, OnceInv, SilentInv, OneShot,
       Filter, Armed
  <1>4. I /\ [Next]_vars => [OncePerSubmitOf(Filter \ {"TIMER"})]_vars
    BY <1>3
  <1> QED
    BY <1>1, <1>2, <1>4, PTL DEF Spec, TriggeredOncePerSubmit

-----------------------------------------------------------------------------
(* No closing event is forgotten before the reactor is destroyed.          *)

\* Until then only the reactor thread collects.
CollectorInv ==
  /\ rstate = "none" => pc[ReactorThread] = "unborn"
  /\ \A u \in User : mtx # u /\ pc[u] \notin {"gc_lock", "gc_next", "rd_close", "rd_join"}

ClosingInv == rstate \in {"none", "up"} => CollectorInv /\ ClosingAccounted

InHand(e, t) == pc[t] \in {"d_plat", "d_gc", "d_release"} /\ arg[t] = e
Listed(e) == \E i \in 1 .. Len(gc_events) : gc_events[i] = e

\* A closing event that nobody has in hand is not touched by a step that leaves
\* the list alone, and what another thread has in hand it keeps.
LEMMA ClosingFrame ==
  ASSUME TypeInv, ClosingAccounted, NEW t \in Thread,
         \A s \in Thread \ {t} : pc'[s] = pc[s] /\ arg'[s] = arg[s],
         \A e \in Event : closing'[e] /\ alloc'[e] = "live" =>
           \/ closing[e] /\ alloc[e] = "live" /\ (InHand(e, t) => InHand(e, t)')
           \/ InHand(e, t)',
         gc_events' = gc_events
  PROVE  ClosingAccounted'
  <1> SUFFICES ASSUME NEW e \in Event, closing'[e], alloc'[e] = "live"
               PROVE  Listed(e)' \/ \E s \in Thread : InHand(e, s)'
    BY DEF ClosingAccounted, Listed, InHand
  <1>1. CASE InHand(e, t)'
    BY <1>1
  <1>2. CASE closing[e] /\ alloc[e] = "live" /\ (InHand(e, t) => InHand(e, t)')
    <2>1. Listed(e) \/ \E s \in Thread : InHand(e, s)
      BY <1>2 DEF ClosingAccounted, Listed, InHand
    <2>2. CASE Listed(e)
      BY <2>2 DEF Listed
    <2>3. ASSUME NEW s \in Thread, InHand(e, s) PROVE InHand(e, s)'
      BY <1>2, <2>3 DEF InHand
    <2> QED
      BY <2>1, <2>2, <2>3
  <1> QED
    BY <1>1, <1>2

LEMMA ClosingCallStep ==
  ASSUME TypeInv, TypeInv', CollectorInv, ClosingAccounted, rstate \in {"none", "up"},
         NEW t \in Thread, CallStep(t)
  PROVE  CollectorInv' /\ ClosingAccounted'
  <1> USE ReactorAssumption DEF TypeInv, TypeOK, ThreadTypeOK, Thread, Goto, Call, Return,
      reactorVars, loopVars, eventVars, kernelVars
  <1>a. pc[t] \in InCall => arg[t] \in Event
    BY DEF ArgOK
  <1>1. CASE submit_locked(t)
    <2>1. CollectorInv'
      BY <1>1 DEF submit_locked, AfterSubmit, CollectorInv
    <2>2. ClosingAccounted'
      BY <1>1, ClosingFrame DEF submit_locked, AfterSubmit, InHand
    <2> QED
      BY <2>1, <2>2
  <1>2. CASE destroy_mark(t)
    <2>1. CollectorInv'
      BY <1>2 DEF destroy_mark, CollectorInv
    <2>2. ClosingAccounted'
      BY <1>2, ClosingFrame DEF destroy_mark, InHand, EventTypeOK
    <2> QED
      BY <2>1, <2>2
  <1>3. CASE posixc_event_plat_destroy(t)
    <2>1. CollectorInv'
      BY <1>3 DEF posixc_event_plat_destroy, after_shutdown, CollectorInv
    <2>2. ClosingAccounted'
      BY <1>3, ClosingFrame DEF posixc_event_plat_destroy, after_shutdown, InHand
    <2> QED
      BY <2>1, <2>2
  <1>4. CASE add_to_gc_list(t)
    <2>1. CollectorInv'
      BY <1>4 DEF add_to_gc_list, AfterDestroy, CollectorInv
    <2> PICK x : x = arg[t]
      OBVIOUS
    <2>2. x \in Event
      BY <1>4, <1>a DEF add_to_gc_list, InCall
    <2>3. Listed(x)' /\ \A e \in Event : Listed(e) => Listed(e)'
      <3>1. /\ Len(gc_events) \in Nat /\ Len(gc_events') = Len(gc_events) + 1
            /\ \A i \in 1 .. Len(gc_events) : gc_events'[i] = gc_events[i]
            /\ gc_events'[Len(gc_events) + 1] = x
        BY <1>4, <2>2 DEF add_to_gc_list, ReactorTypeOK
      <3>2. /\ Len(gc_events) + 1 \in 1 .. Len(gc_events')
            /\ \A i \in 1 .. Len(gc_events) : i \in 1 .. Len(gc_events')
        BY <3>1
      <3>3. Listed(x)'
        BY <3>1, <3>2 DEF Listed
      <3>4. ASSUME NEW e \in Event, Listed(e) PROVE Listed(e)'
        BY <3>1, <3>2, <3>4 DEF Listed
      <3> QED
        BY <3>3, <3>4
    <2>4. ASSUME NEW e \in Event, closing'[e], alloc'[e] = "live"
          PROVE  Listed(e)' \/ \E s \in Thread : InHand(e, s)'
      <3>1. Listed(e) \/ \E s \in Thread : InHand(e, s)
        BY <1>4, <2>4 DEF add_to_gc_list, ClosingAccounted, Listed, InHand
      <3>2. CASE Listed(e)
        BY <2>3, <3>2
      <3>3. ASSUME NEW s \in Thread \ {t}, InHand(e, s) PROVE InHand(e, s)'
        BY <1>4, <3>3 DEF add_to_gc_list, InHand
      <3>4. CASE InHand(e, t)
        <4>1. e = x
          BY <3>4 DEF InHand
        <4> QED
          BY <2>3, <4>1
      <3> QED
        BY <3>1, <3>2, <3>3, <3>4
    <2>5. ClosingAccounted'
      BY <2>4 DEF ClosingAccounted, Listed, InHand
    <2> QED
      BY <2>1, <2>5
  <1>5. CASE posixc_event_release(t)
    <2>1. CollectorInv'
      BY <1>5 DEF posixc_event_release, AfterDestroy, CollectorInv
    <2>2. arg[t] \in Event
      BY <1>5, <1>a DEF posixc_event_release, InCall
    <2>3. alloc' = [alloc EXCEPT ![arg[t]] = "freed"]
      BY <1>5 DEF posixc_event_release
    <2>4. \A e \in Event : alloc'[e] = "live" => alloc[e] = "live" /\ e # arg[t]
      BY <2>2, <2>3 DEF EventTypeOK
    <2>5. ClosingAccounted'
      BY <1>5, <2>4, ClosingFrame DEF posixc_event_release, InHand
    <2> QED
      BY <2>1, <2>5
  <1>6. CASE posixc_reactor_gc(t)
    <2>1. CollectorInv'
      BY <1>6 DEF posixc_reactor_gc, AfterGc, CollectorInv
    <2>2. ClosingAccounted'
      BY <1>6, ClosingFrame DEF posixc_reactor_gc, InHand
    <2> QED
      BY <2>1, <2>2
  <1>7. CASE gc_next(t)
    <2> PICK x : x = Head(gc_events)
      OBVIOUS
    <2>1. t = ReactorThread
      BY <1>7 DEF gc_next, CollectorInv
    <2>2. CollectorInv'
      BY <1>7, <2>1 DEF gc_next, enter_destroy, CollectorInv
    <2>3. x \in Event /\ \A e \in Event : Listed(e) => Listed(e)' \/ e = x
      <3>1. /\ gc_events' = Tail(gc_events) /\ gc_events # <<>> /\ gc_events \in Seq(Event)
        BY <1>7 DEF gc_next, ReactorTypeOK
      <3>2. /\ Len(gc_events) \in Nat /\ Len(gc_events') = Len(gc_events) - 1
            /\ \A i \in 1 .. Len(gc_events') : gc_events'[i] = gc_events[i + 1]
            /\ x = gc_events[1] /\ x \in Event
        BY <3>1
      <3>3. ASSUME NEW i \in 1 .. Len(gc_events), gc_events[i] # x
            PROVE  i - 1 \in 1 .. Len(gc_events') /\ gc_events'[i - 1] = gc_events[i]
        BY <3>2, <3>3
      <3> QED
        BY <3>2, <3>3 DEF Listed
    <2>4. closing[x] => InHand(x, t)'
      BY <1>7, <2>1 DEF gc_next, enter_destroy, InHand
    <2>5. ASSUME NEW e \in Event, closing'[e], alloc'[e] = "live"
          PROVE  Listed(e)' \/ \E s \in Thread : InHand(e, s)'
      <3>1. closing[e] /\ (Listed(e) \/ \E s \in Thread : InHand(e, s))
        BY <1>7, <2>5 DEF gc_next, ClosingAccounted, Listed, InHand
      <3>2. ASSUME NEW s \in Thread, InHand(e, s) PROVE InHand(e, s)'
        BY <1>7, <3>2 DEF gc_next, enter_destroy, InHand
      <3> QED
        BY <2>3, <2>4, <3>1, <3>2
    <2>6. ClosingAccounted'
      BY <2>5 DEF ClosingAccounted, Listed, InHand
    <2> QED
      BY <2>2, <2>6
  <1>8. CASE gc_unlock(t)
    <2>1. CollectorInv'
      BY <1>8 DEF gc_unlock, AfterGc, CollectorInv
    <2>2. ClosingAccounted'
      BY <1>8, ClosingFrame DEF gc_unlock, InHand
    <2> QED
      BY <2>1, <2>2
  <1> QED
    BY <1>1, <1>2, <1>3, <1>4, <1>5, <1>6, <1>7, <1>8 DEF CallStep

LEMMA ClosingNext ==
  ASSUME TypeInv, TypeInv', ClosingInv, [Next]_vars
  PROVE  ClosingInv'
  <1> USE ReactorAssumption DEF TypeInv, TypeOK, ThreadTypeOK, Thread, Goto, Call, Return,
      reactorVars, loopVars, eventVars, kernelVars, threadVars
  <1> SUFFICES ASSUME rstate' \in {"none", "up"}
               PROVE  CollectorInv' /\ ClosingAccounted'
    BY DEF ClosingInv
  <1>1. ASSUME NEW t \in Thread, CallStep(t) PROVE CollectorInv' /\ ClosingAccounted'
    <2>1. rstate \in {"none", "up"}
      BY <1>1 DEF CallStep, submit_locked, destroy_mark, posixc_event_plat_destroy,
         add_to_gc_list, posixc_event_release, posixc_reactor_gc, gc_next, gc_unlock
    <2> QED
      BY <1>1, <2>1, ClosingCallStep DEF ClosingInv
  <1>2. ASSUME NEW u \in User, posixc_reactor_create(u)
        PROVE  CollectorInv' /\ ClosingAccounted'
    <2>1. CollectorInv /\ ClosingAccounted
      BY <1>2 DEF posixc_reactor_create, ClosingInv
    <2>2. CollectorInv'
      BY <1>2, <2>1 DEF posixc_reactor_create, CollectorInv
    <2>3. ~ \E e \in Event : InHand(e, ReactorThread)
      BY <1>2, <2>1 DEF posixc_reactor_create, CollectorInv, InHand
    <2>4. ClosingAccounted'
      BY <1>2, <2>1, <2>3, ClosingFrame DEF posixc_reactor_create
    <2> QED
      BY <2>2, <2>4
  <1>3. ASSUME NEW u \in User, posixc_reactor_destroy(u) \/ ReactorDestroyStep(u)
        PROVE  CollectorInv' /\ ClosingAccounted'
    BY <1>3 DEF posixc_reactor_destroy, ReactorDestroyStep, destroy_set_closing, destroy_join,
       ClosingInv, CollectorInv
  <1>4. ASSUME NEW u \in User, NEW e \in Event, posixc_event_create(u, e)
        PROVE  CollectorInv' /\ ClosingAccounted'
    <2>1. CollectorInv /\ ClosingAccounted /\ UNCHANGED <<reactorVars, pc, arg>>
      BY <1>4 DEF posixc_event_create, ClosingInv
    <2>2. ASSUME NEW x \in Event, closing'[x], alloc'[x] = "live"
          PROVE  closing[x] /\ alloc[x] = "live"
      BY <1>4, <2>2 DEF posixc_event_create, EventTypeOK
    <2> QED
      BY <2>1, <2>2 DEF CollectorInv, ClosingAccounted
  <1>5. ASSUME NEW t \in Thread, NEW e \in Event,
               posixc_event_submit(t, e) \/ posixc_event_destroy(t, e)
        PROVE  CollectorInv' /\ ClosingAccounted'
    <2>1. /\ CollectorInv /\ ClosingAccounted /\ UNCHANGED <<reactorVars, eventVars>>
          /\ pc[t] \in {"idle", "cb"}
      BY <1>5 DEF posixc_event_submit, posixc_event_destroy, MayUse, ClosingInv
    <2>2. /\ \A s \in Thread \ {t} : pc'[s] = pc[s] /\ arg'[s] = arg[s]
          /\ pc'[t] = pc[t] \/ pc'[t] \notin {"gc_lock", "gc_next", "rd_close", "rd_join", "unborn"}
      BY <1>5, <2>1 DEF posixc_event_submit, posixc_event_destroy, enter_destroy, AfterDestroy,
         CollectorInv, MayUse
    <2>3. CollectorInv'
      BY <2>1, <2>2 DEF CollectorInv
    <2>4. ClosingAccounted'
      BY <2>1, <2>2, ClosingFrame DEF InHand
    <2> QED
      BY <2>3, <2>4
  <1>6. CASE LoopStep \/ kevent_interrupted \/ callback_return
    <2>1. /\ CollectorInv /\ ClosingAccounted /\ UNCHANGED <<reactorVars, alloc, closing, arg>>
          /\ pc[ReactorThread] \in {"loop", "kevent", "dispatch", "cb"}
      BY <1>6 DEF LoopStep, loop_test, kevent_deliver, consume_ev, end_batch,
         kevent_interrupted, callback_return, ClosingInv
    <2>2. \E l : pc' = [pc EXCEPT ![ReactorThread] = l]
      BY <1>6 DEF LoopStep, loop_test, kevent_deliver, consume_ev, end_batch,
         kevent_interrupted, callback_return
    <2>3. CollectorInv'
      BY <2>1, <2>2 DEF CollectorInv
    <2>4. ClosingAccounted'
      BY <2>1, <2>2, ClosingFrame DEF InHand
    <2> QED
      BY <2>3, <2>4
  <1>7. CASE UNCHANGED <<reactorVars, alloc, closing, pc, arg>>
    BY <1>7 DEF ClosingInv, CollectorInv, ClosingAccounted
  <1> QED
    BY <1>1, <1>2, <1>3, <1>4, <1>5, <1>6, <1>7 DEF Next, vars,
       posixc_timer_event_set_interval, kernel_ready

\* Whatever threads share an event and destroy it: until the reactor itself is
\* destroyed, an event that is marked closing stays on gc_events or in the hands
\* of a thread inside posixc_event_destroy until it is freed.
THEOREM NoClosingForgotten ==
  Spec => [](rstate \in {"none", "up"} => ClosingAccounted)
  <1>1. Init => TypeInv /\ ClosingInv
    <2> SUFFICES ASSUME Init PROVE ClosingInv
      BY TypeInit
    <2> QED
      BY ReactorAssumption DEF Init, ClosingInv, CollectorInv, ClosingAccounted, Thread
  <1>2. TypeInv /\ ClosingInv /\ [Next]_vars => (TypeInv /\ ClosingInv)'
    BY TypeNext, ClosingNext
  <1>3. ClosingInv => (rstate \in {"none", "up"} => ClosingAccounted)
    BY DEF ClosingInv
  <1> QED
    BY <1>1, <1>2, <1>3, PTL DEF Spec
=============================================================================
