------------------------ MODULE ReactorSafetyProofs ------------------------
(***************************************************************************)
(* Memory safety of posixc_event_destroy and of the collector, for clients *)
(* in which one user thread owns each event and destroys it: no kevent, no *)
(* callback, no caller and no knote ever refers to a freed event.          *)
(*                                                                         *)
(* The argument follows the one reference to an event: its owner holds it, *)
(* gives it to posixc_event_destroy, which marks the event, takes it out   *)
(* of the kqueue and passes it to gc_events, from where the reactor thread *)
(* takes it under reactor->mtx and, with no batch in hand, frees it.       *)
(***************************************************************************)
EXTENDS ReactorProofs

\* The client's discipline: nobody destroys an event from its callback, and no
\* two threads hold a reference to the same event.
UserOwned ==
  /\ CbOwned = {}
  /\ \A e \in Event : \A u, v \in Holders[e] : u = v

Destroying == {"d_mark", "d_plat", "d_gc", "d_release"}

OnGcList(e) == \E i \in 1 .. Len(gc_events) : gc_events[i] = e

\* The thread that runs the collector holds reactor->mtx, and no other does.
MutexInv ==
  \A t \in Thread : mtx = t <=> pc[t] \in {"gc_next", "d_release"}

\* Which calls a thread can be in.  Only the reactor thread frees; what it
\* submits is the event whose callback runs; a user submits what it holds.
CallInv ==
  /\ rstate = "none" => pc[ReactorThread] = "unborn"
  /\ pc[ReactorThread] \notin {"d_mark", "d_plat", "d_gc"}
  /\ pc[ReactorThread] = "s_lock" => firing # None /\ arg[ReactorThread] = firing[1]
  /\ \A u \in User : pc[u] # "d_release"
  /\ \A u \in User : pc[u] = "s_lock" => <<u, arg[u]>> \in held

\* A batch is in hand only while it is dispatched, hence never while collecting.
LoopInv ==
  /\ pc[ReactorThread] \notin {"dispatch", "cb", "s_lock"} => batch = {}
  /\ firing # None <=> pc[ReactorThread] \in {"cb", "s_lock"}

\* Everything the reactor, the kqueue and a holder can reach is allocated.
LiveInv ==
  /\ ReactorNeverSeesFreed
  /\ \A r \in held : alloc[r[2]] = "live"
  /\ \A e \in Event, f \in Filter :
       knote[e][f] # "absent" => alloc[e] = "live" /\ f \in FiltersOf(e)

\* How far posixc_event_destroy has got with the event of each thread.
DestroyInv ==
  \A t \in Thread : pc[t] \in Destroying =>
    /\ alloc[arg[t]] = "live"
    /\ closing[arg[t]] <=> pc[t] # "d_mark"
    /\ pc[t] \in {"d_gc", "d_release"} => \A f \in Filter : knote[arg[t]][f] = "absent"
    /\ t \in User => t \in Holders[arg[t]]

\* There is one reference to an event: it is held, or in the hands of one
\* thread inside destroy, or on gc_events.
OwnInv ==
  /\ \A r \in held : r[1] \in Holders[r[2]] /\ ~closing[r[2]]
  /\ \A t \in Thread : pc[t] \in Destroying =>
       /\ ~OnGcList(arg[t])
       /\ \A r \in held : r[2] # arg[t]
       /\ \A s \in Thread : pc[s] \in Destroying /\ arg[s] = arg[t] => s = t

SafetyInv ==
  /\ TypeInv /\ MutexInv /\ CallInv /\ LoopInv
  /\ LiveInv /\ DestroyInv /\ OwnInv /\ GcListSound

\* Nothing is created, so there is nothing to refer to.
LEMMA SafetyInit == UserOwned /\ Init => SafetyInv
  <1> SUFFICES ASSUME UserOwned, Init PROVE SafetyInv
    OBVIOUS
  <1> USE ReactorAssumption DEF Init
  <1>1. TypeInv
    BY TypeInit
  <1>2. MutexInv /\ CallInv /\ LoopInv
    BY DEF MutexInv, CallInv, LoopInv, Thread
  <1>3. LiveInv /\ DestroyInv /\ OwnInv
    BY DEF LiveInv, ReactorNeverSeesFreed, DestroyInv, OwnInv, OnGcList, Destroying, Thread
  <1>4. GcListSound
    BY DEF GcListSound
  <1> QED
    BY <1>1, <1>2, <1>3, <1>4 DEF SafetyInv

\* What each part depends on.
LEMMA Frame ==
  ASSUME SafetyInv
  PROVE  /\ UNCHANGED <<mtx, pc>> => MutexInv'
         /\ UNCHANGED <<rstate, pc, arg, firing, held>> => CallInv'
         /\ UNCHANGED <<pc, batch, firing>> => LoopInv'
         /\ UNCHANGED <<batch, firing, alloc, held, knote>> => LiveInv'
         /\ UNCHANGED <<pc, arg, alloc, closing, knote>> => DestroyInv'
         /\ UNCHANGED <<pc, arg, held, closing, gc_events>> => OwnInv'
         /\ UNCHANGED <<gc_events, alloc, closing, knote>> => GcListSound'
  <1> USE DEF SafetyInv
  <1>1. UNCHANGED <<mtx, pc>> => MutexInv'
    BY DEF MutexInv
  <1>2. UNCHANGED <<rstate, pc, arg, firing, held>> => CallInv'
    BY DEF CallInv
  <1>3. UNCHANGED <<pc, batch, firing>> => LoopInv'
    BY DEF LoopInv
  <1>4. UNCHANGED <<batch, firing, alloc, held, knote>> => LiveInv'
    BY DEF LiveInv, ReactorNeverSeesFreed
  <1>5. UNCHANGED <<pc, arg, alloc, closing, knote>> => DestroyInv'
    BY DEF DestroyInv, Destroying
  <1>6. UNCHANGED <<pc, arg, held, closing, gc_events>> => OwnInv'
    BY DEF OwnInv, OnGcList, Destroying
  <1>7. UNCHANGED <<gc_events, alloc, closing, knote>> => GcListSound'
    BY DEF GcListSound
  <1> QED
    BY <1>1, <1>2, <1>3, <1>4, <1>5, <1>6, <1>7

\* posixc_reactor_create starts the loop, with no batch in hand.
LEMMA CreateReactorSafe ==
  ASSUME UserOwned, SafetyInv, TypeInv', NEW u \in User,
         posixc_reactor_create(u)
  PROVE  SafetyInv'
  <1> USE ReactorAssumption DEF SafetyInv, TypeInv, TypeOK, ThreadTypeOK,
      Thread, Goto, reactorVars, loopVars, eventVars, kernelVars,
      posixc_reactor_create
  <1>1. MutexInv'
    BY DEF MutexInv, CallInv
  <1>2. CallInv'
    BY DEF CallInv
  <1>3. LoopInv'
    BY DEF LoopInv, CallInv
  <1>4. DestroyInv'
    BY DEF DestroyInv, Destroying, CallInv
  <1>5. OwnInv'
    BY DEF OwnInv, OnGcList, Destroying, CallInv
  <1>6. LiveInv' /\ GcListSound'
    BY Frame
  <1> QED
    BY <1>1, <1>2, <1>3, <1>4, <1>5, <1>6

\* posixc_reactor_destroy, up to its call of the collector.
LEMMA DestroyReactorSafe ==
  ASSUME UserOwned, SafetyInv, TypeInv', NEW u \in User,
         posixc_reactor_destroy(u)
  PROVE  SafetyInv'
  <1> USE ReactorAssumption DEF SafetyInv, TypeInv, TypeOK, ThreadTypeOK,
      Thread, Goto, reactorVars, loopVars, eventVars, kernelVars,
      posixc_reactor_destroy
  <1>1. MutexInv'
    BY DEF MutexInv
  <1>2. CallInv'
    BY DEF CallInv
  <1>3. LoopInv'
    BY DEF LoopInv
  <1>4. DestroyInv'
    BY DEF DestroyInv, Destroying
  <1>5. OwnInv'
    BY DEF OwnInv, OnGcList, Destroying
  <1>6. LiveInv' /\ GcListSound'
    BY Frame
  <1> QED
    BY <1>1, <1>2, <1>3, <1>4, <1>5, <1>6

\* reactor->closing = true touches no event.
LEMMA SetClosingSafe ==
  ASSUME UserOwned, SafetyInv, TypeInv', NEW u \in User,
         destroy_set_closing(u)
  PROVE  SafetyInv'
  <1> USE ReactorAssumption DEF SafetyInv, TypeInv, TypeOK, ThreadTypeOK,
      Thread, Goto, reactorVars, loopVars, eventVars, kernelVars,
      destroy_set_closing
  <1>1. MutexInv'
    BY DEF MutexInv
  <1>2. CallInv'
    BY DEF CallInv
  <1>3. LoopInv'
    BY DEF LoopInv
  <1>4. DestroyInv'
    BY DEF DestroyInv, Destroying
  <1>5. OwnInv'
    BY DEF OwnInv, OnGcList, Destroying
  <1>6. LiveInv' /\ GcListSound'
    BY Frame
  <1> QED
    BY <1>1, <1>2, <1>3, <1>4, <1>5, <1>6

\* The join, and the release of the reactor.
LEMMA JoinSafe ==
  ASSUME UserOwned, SafetyInv, TypeInv', NEW u \in User, destroy_join(u)
  PROVE  SafetyInv'
  <1> USE ReactorAssumption DEF SafetyInv, TypeInv, TypeOK, ThreadTypeOK,
      Thread, Goto, reactorVars, loopVars, eventVars, kernelVars, destroy_join
  <1>1. MutexInv'
    BY DEF MutexInv
  <1>2. CallInv'
    BY DEF CallInv
  <1>3. LoopInv'
    BY DEF LoopInv
  <1>4. DestroyInv'
    BY DEF DestroyInv, Destroying
  <1>5. OwnInv'
    BY DEF OwnInv, OnGcList, Destroying
  <1>6. LiveInv' /\ GcListSound'
    BY Frame
  <1> QED
    BY <1>1, <1>2, <1>3, <1>4, <1>5, <1>6

\* posixc_timer_event_set_interval writes only data_1 (and the interval).
LEMMA IntervalSafe ==
  ASSUME UserOwned, SafetyInv, TypeInv', NEW u \in User, NEW e \in Event, NEW
         p \in BOOLEAN, posixc_timer_event_set_interval(u, e, p)
  PROVE  SafetyInv'
  <1> USE ReactorAssumption DEF SafetyInv, TypeInv, TypeOK, ThreadTypeOK,
      Thread, Goto, reactorVars, loopVars, eventVars, kernelVars,
      posixc_timer_event_set_interval, threadVars
  <1>1. MutexInv' /\ CallInv' /\ LoopInv' /\ LiveInv' /\ DestroyInv' /\ OwnInv' /\ GcListSound'
    BY Frame
  <1> QED
    BY <1>1

\* Marking an event closing: nobody else destroys, holds or collects it.
LEMMA MarkSafe ==
  ASSUME UserOwned, SafetyInv, TypeInv', NEW t \in Thread, destroy_mark(t)
  PROVE  SafetyInv'
  <1> USE ReactorAssumption DEF SafetyInv, TypeInv, TypeOK, ThreadTypeOK,
      Thread, Goto, reactorVars, loopVars, eventVars, kernelVars, destroy_mark
  <1>1. MutexInv'
    BY DEF MutexInv
  <1>2. CallInv'
    BY DEF CallInv, Destroying
  <1>3. LoopInv'
    BY DEF LoopInv, CallInv
  <1>4. DestroyInv'
    BY DEF DestroyInv, Destroying, OwnInv, InCall, ArgOK, EventTypeOK
  <1>5. OwnInv'
    BY DEF OwnInv, OnGcList, Destroying, DestroyInv, InCall, ArgOK,
       EventTypeOK
  <1>6. GcListSound'
    BY DEF GcListSound, InCall, ArgOK, EventTypeOK
  <1>7. LiveInv'
    BY Frame
  <1> QED
    BY <1>1, <1>2, <1>3, <1>4, <1>5, <1>6, <1>7

\* EV_DELETE takes every knote of the event out of the kqueue.
LEMMA PlatDestroySafe ==
  ASSUME UserOwned, SafetyInv, TypeInv', NEW t \in Thread,
         posixc_event_plat_destroy(t)
  PROVE  SafetyInv'
  <1> USE ReactorAssumption DEF SafetyInv, TypeInv, TypeOK, ThreadTypeOK,
      Thread, Goto, reactorVars, loopVars, eventVars, kernelVars,
      posixc_event_plat_destroy, after_shutdown, DropKnotes, plat_destroy_set
  <1>1. MutexInv'
    BY DEF MutexInv, CallInv
  <1>2. CallInv'
    BY DEF CallInv
  <1>3. LoopInv'
    BY DEF LoopInv, CallInv
  <1>4. LiveInv'
    BY DEF LiveInv, ReactorNeverSeesFreed, InCall, ArgOK, KernelTypeOK
  <1>5. DestroyInv'
    BY DEF DestroyInv, Destroying, LiveInv, CallInv, OwnInv, InCall, ArgOK,
       KernelTypeOK
  <1>6. OwnInv'
    BY DEF OwnInv, OnGcList, Destroying, CallInv
  <1>7. GcListSound'
    BY DEF GcListSound, InCall, ArgOK, KernelTypeOK
  <1> QED
    BY <1>1, <1>2, <1>3, <1>4, <1>5, <1>6, <1>7

\* The reactor thread frees an event: it holds reactor->mtx, so it has no batch.
LEMMA ReleaseSafe ==
  ASSUME UserOwned, SafetyInv, TypeInv', NEW t \in Thread,
         posixc_event_release(t)
  PROVE  SafetyInv'
  <1> USE ReactorAssumption DEF SafetyInv, TypeInv, TypeOK, ThreadTypeOK,
      Thread, Goto, reactorVars, loopVars, eventVars, kernelVars,
      posixc_event_release, Return, AfterDestroy, DropKnotes
  <1>1. MutexInv'
    BY DEF MutexInv
  <1>2. CallInv'
    BY DEF CallInv, MutexInv, LoopInv
  <1>3. LoopInv'
    BY DEF LoopInv, CallInv, MutexInv
  <1>4. LiveInv'
    BY DEF LiveInv, ReactorNeverSeesFreed, CallInv, LoopInv, OwnInv,
       DestroyInv, Destroying, InCall, ArgOK, EventTypeOK, KernelTypeOK
  <1>5. DestroyInv'
    BY DEF DestroyInv, Destroying, OwnInv, CallInv, InCall, ArgOK,
       EventTypeOK, KernelTypeOK
  <1>6. OwnInv'
    BY DEF OwnInv, OnGcList, Destroying
  <1>7. GcListSound'
    <2>1. arg[t] \in Event /\ ~OnGcList(arg[t])
      BY DEF OwnInv, Destroying, ArgOK, InCall
    <2>2. ASSUME NEW i \in 1 .. Len(gc_events) PROVE gc_events[i] # arg[t]
      BY <2>1 DEF OnGcList
    <2>3. ASSUME NEW i \in 1 .. Len(gc_events)
          PROVE  /\ gc_events[i] \in Event
                 /\ alloc'[gc_events[i]] = "live" /\ closing'[gc_events[i]]
                 /\ \A f \in Filter : knote'[gc_events[i]][f] = "absent"
      BY <2>1, <2>2 DEF GcListSound, ReactorTypeOK, EventTypeOK, KernelTypeOK
    <2> QED
      BY <2>3 DEF GcListSound
  <1> QED
    BY <1>1, <1>2, <1>3, <1>4, <1>5, <1>6, <1>7

\* The collector locks reactor->mtx, or finds the list empty.
LEMMA GcSafe ==
  ASSUME UserOwned, SafetyInv, TypeInv', NEW t \in Thread,
         posixc_reactor_gc(t)
  PROVE  SafetyInv'
  <1> USE ReactorAssumption DEF SafetyInv, TypeInv, TypeOK, ThreadTypeOK,
      Thread, Goto, reactorVars, loopVars, eventVars, kernelVars,
      posixc_reactor_gc, AfterGc
  <1>1. MutexInv'
    BY DEF MutexInv
  <1>2. CallInv'
    BY DEF CallInv
  <1>3. LoopInv'
    BY DEF LoopInv
  <1>4. DestroyInv'
    BY DEF DestroyInv, Destroying
  <1>5. OwnInv'
    BY DEF OwnInv, OnGcList, Destroying
  <1>6. LiveInv' /\ GcListSound'
    BY Frame
  <1> QED
    BY <1>1, <1>2, <1>3, <1>4, <1>5, <1>6

\* The collector is done.
LEMMA GcUnlockSafe ==
  ASSUME UserOwned, SafetyInv, TypeInv', NEW t \in Thread, gc_unlock(t)
  PROVE  SafetyInv'
  <1> USE ReactorAssumption DEF SafetyInv, TypeInv, TypeOK, ThreadTypeOK,
      Thread, Goto, reactorVars, loopVars, eventVars, kernelVars, gc_unlock,
      AfterGc
  <1>1. MutexInv'
    BY DEF MutexInv
  <1>2. CallInv'
    BY DEF CallInv
  <1>3. LoopInv'
    BY DEF LoopInv
  <1>4. DestroyInv'
    BY DEF DestroyInv, Destroying
  <1>5. OwnInv'
    BY DEF OwnInv, OnGcList, Destroying
  <1>6. LiveInv' /\ GcListSound'
    BY Frame
  <1> QED
    BY <1>1, <1>2, <1>3, <1>4, <1>5, <1>6

\* The test of reactor->closing.
LEMMA LoopTestSafe ==
  ASSUME UserOwned, SafetyInv, TypeInv', loop_test
  PROVE  SafetyInv'
  <1> USE ReactorAssumption DEF SafetyInv, TypeInv, TypeOK, ThreadTypeOK,
      Thread, Goto, reactorVars, loopVars, eventVars, kernelVars, loop_test
  <1>1. MutexInv'
    BY DEF MutexInv
  <1>2. CallInv'
    BY DEF CallInv
  <1>3. LoopInv'
    BY DEF LoopInv
  <1>4. DestroyInv'
    BY DEF DestroyInv, Destroying
  <1>5. OwnInv'
    BY DEF OwnInv, OnGcList, Destroying
  <1>6. LiveInv' /\ GcListSound'
    BY Frame
  <1> QED
    BY <1>1, <1>2, <1>3, <1>4, <1>5, <1>6

\* consume_ev enters the callback of a kevent of the batch.
LEMMA ConsumeSafe ==
  ASSUME UserOwned, SafetyInv, TypeInv', consume_ev
  PROVE  SafetyInv'
  <1> USE ReactorAssumption DEF SafetyInv, TypeInv, TypeOK, ThreadTypeOK,
      Thread, Goto, reactorVars, loopVars, eventVars, kernelVars, consume_ev
  <1>1. MutexInv'
    BY DEF MutexInv
  <1>2. CallInv'
    BY DEF CallInv, LoopTypeOK
  <1>3. LoopInv'
    BY DEF LoopInv, LoopTypeOK
  <1>4. LiveInv'
    BY DEF LiveInv, ReactorNeverSeesFreed, LoopTypeOK
  <1>5. DestroyInv'
    BY DEF DestroyInv, Destroying
  <1>6. OwnInv'
    BY DEF OwnInv, OnGcList, Destroying
  <1>7. GcListSound'
    BY Frame
  <1> QED
    BY <1>1, <1>2, <1>3, <1>4, <1>5, <1>6, <1>7

\* The loop goes on to the collector only with an empty batch.
LEMMA EndBatchSafe ==
  ASSUME UserOwned, SafetyInv, TypeInv', end_batch
  PROVE  SafetyInv'
  <1> USE ReactorAssumption DEF SafetyInv, TypeInv, TypeOK, ThreadTypeOK,
      Thread, Goto, reactorVars, loopVars, eventVars, kernelVars, end_batch
  <1>1. MutexInv'
    BY DEF MutexInv
  <1>2. CallInv'
    BY DEF CallInv
  <1>3. LoopInv'
    BY DEF LoopInv
  <1>4. DestroyInv'
    BY DEF DestroyInv, Destroying
  <1>5. OwnInv'
    BY DEF OwnInv, OnGcList, Destroying
  <1>6. LiveInv' /\ GcListSound'
    BY Frame
  <1> QED
    BY <1>1, <1>2, <1>3, <1>4, <1>5, <1>6

\* A turn without kevents.
LEMMA InterruptedSafe ==
  ASSUME UserOwned, SafetyInv, TypeInv', kevent_interrupted
  PROVE  SafetyInv'
  <1> USE ReactorAssumption DEF SafetyInv, TypeInv, TypeOK, ThreadTypeOK,
      Thread, Goto, reactorVars, loopVars, eventVars, kernelVars,
      kevent_interrupted
  <1>1. MutexInv'
    BY DEF MutexInv
  <1>2. CallInv'
    BY DEF CallInv
  <1>3. LoopInv'
    BY DEF LoopInv
  <1>4. DestroyInv'
    BY DEF DestroyInv, Destroying
  <1>5. OwnInv'
    BY DEF OwnInv, OnGcList, Destroying
  <1>6. LiveInv' /\ GcListSound'
    BY Frame
  <1> QED
    BY <1>1, <1>2, <1>3, <1>4, <1>5, <1>6

\* The callback is done with its event.
LEMMA CallbackReturnSafe ==
  ASSUME UserOwned, SafetyInv, TypeInv', callback_return
  PROVE  SafetyInv'
  <1> USE ReactorAssumption DEF SafetyInv, TypeInv, TypeOK, ThreadTypeOK,
      Thread, Goto, reactorVars, loopVars, eventVars, kernelVars,
      callback_return
  <1>1. MutexInv'
    BY DEF MutexInv
  <1>2. CallInv'
    BY DEF CallInv
  <1>3. LoopInv'
    BY DEF LoopInv
  <1>4. LiveInv'
    BY DEF LiveInv, ReactorNeverSeesFreed
  <1>5. DestroyInv'
    BY DEF DestroyInv, Destroying
  <1>6. OwnInv'
    BY DEF OwnInv, OnGcList, Destroying
  <1>7. GcListSound'
    BY Frame
  <1> QED
    BY <1>1, <1>2, <1>3, <1>4, <1>5, <1>6, <1>7

\* Readiness refers to no memory.
LEMMA ReadySafe ==
  ASSUME UserOwned, SafetyInv, TypeInv', NEW e \in Event, NEW f \in Filter,
         kernel_ready(e, f)
  PROVE  SafetyInv'
  <1> USE ReactorAssumption DEF SafetyInv, TypeInv, TypeOK, ThreadTypeOK,
      Thread, Goto, reactorVars, loopVars, eventVars, kernelVars,
      kernel_ready, threadVars
  <1>1. MutexInv' /\ CallInv' /\ LoopInv' /\ LiveInv' /\ DestroyInv' /\ OwnInv' /\ GcListSound'
    BY Frame
  <1> QED
    BY <1>1

\* A submit that finds no knote arms none: a destroyed event stays out of the
\* kqueue.
LEMMA SubmitLockedSafe ==
  ASSUME UserOwned, SafetyInv, TypeInv', NEW t \in Thread, submit_locked(t)
  PROVE  SafetyInv'
  <1> USE ReactorAssumption DEF SafetyInv, TypeInv, TypeOK, ThreadTypeOK,
      Thread, Goto, reactorVars, loopVars, eventVars, kernelVars,
      submit_locked, submit_mask, plat_submit_ok, plat_submit_set, Return,
      AfterSubmit
  <1>1. MutexInv'
    BY DEF MutexInv
  <1>2. CallInv'
    BY DEF CallInv, LoopInv
  <1>3. LoopInv'
    BY DEF LoopInv, CallInv
  <1>4. LiveInv'
    BY DEF LiveInv, ReactorNeverSeesFreed, InCall, ArgOK, KernelTypeOK
  <1>5. DestroyInv'
    BY SMTT(30) DEF DestroyInv, Destroying, InCall, ArgOK, KernelTypeOK
  <1>6. OwnInv'
    BY DEF OwnInv, OnGcList, Destroying
  <1>7. GcListSound'
    <2>1. arg[t] \in Event
      BY DEF ArgOK, InCall
    <2>2. ASSUME NEW e \in Event, \A f \in Filter : knote[e][f] = "absent"
          PROVE  \A f \in Filter : knote'[e][f] = "absent"
      <3>1. PICK m \in Masks[arg[t]] : submit_mask(arg[t], m)
        OBVIOUS
      <3>2. CASE e = arg[t]
        <4>1. ~plat_submit_ok(e, evmask[e] \union m)
          BY <2>1, <2>2, FiltersOfType
        <4> QED
          BY <2>2, <3>1, <3>2, <4>1
      <3>3. CASE e # arg[t]
        BY <2>1, <2>2, <3>1, <3>3 DEF KernelTypeOK
      <3> QED
        BY <3>2, <3>3
    <2>3. ASSUME NEW i \in 1 .. Len(gc_events)
          PROVE  /\ gc_events[i] \in Event
                 /\ alloc'[gc_events[i]] = "live" /\ closing'[gc_events[i]]
                 /\ \A f \in Filter : knote'[gc_events[i]][f] = "absent"
      BY <2>2 DEF GcListSound, ReactorTypeOK
    <2> QED
      BY <2>3 DEF GcListSound
  <1> QED
    BY <1>1, <1>2, <1>3, <1>4, <1>5, <1>6, <1>7

\* The collector takes the head of gc_events, which is nobody else's.
LEMMA GcNextSafe ==
  ASSUME UserOwned, SafetyInv, TypeInv', NEW t \in Thread, gc_next(t)
  PROVE  SafetyInv'
  <1> USE ReactorAssumption DEF SafetyInv, TypeInv, TypeOK, ThreadTypeOK, Thread,
      Goto, reactorVars, loopVars, eventVars, kernelVars, Call, Return
  <1>0. Head(gc_events) \in Event
    BY DEF gc_next, ReactorTypeOK
  <1> PICK h \in Event : h = Head(gc_events)
    BY <1>0
  <1>1. /\ Len(gc_events) \in Nat \ {0} /\ h \in Event /\ h = gc_events[1]
        /\ gc_events' = Tail(gc_events) /\ Len(gc_events') = Len(gc_events) - 1
        /\ \A i \in 1 .. Len(gc_events') : gc_events'[i] = gc_events[i + 1]
    BY DEF gc_next, ReactorTypeOK
  <1>2. /\ alloc[h] = "live" /\ closing[h] /\ OnGcList(h)
        /\ \A f \in Filter : knote[h][f] = "absent"
    BY <1>1 DEF GcListSound, OnGcList
  <1>3. ~OnGcList(h)'
    BY <1>1 DEF GcListSound, OnGcList
  <1>4. \A e \in Event : OnGcList(e)' => OnGcList(e)
    BY <1>1 DEF OnGcList
  <1>5. /\ pc[t] = "gc_next" /\ mtx = t
        /\ UNCHANGED <<rstate, rclosing, mtx, loopVars, eventVars, kernelVars, held>>
        /\ arg' = [arg EXCEPT ![t] = IF t = ReactorThread THEN h ELSE None]
        /\ pc' = [pc EXCEPT ![t] = IF t = ReactorThread THEN "d_release" ELSE "gc_next"]
    BY <1>2 DEF gc_next, enter_destroy, AfterDestroy, MutexInv
  <1>6. MutexInv'
    BY <1>5 DEF MutexInv
  <1>7. CallInv'
    BY <1>5 DEF CallInv
  <1>8. LoopInv'
    BY <1>5 DEF LoopInv
  <1>9. LiveInv'
    BY <1>5, Frame
  <1>10. DestroyInv'
    BY <1>2, <1>5 DEF DestroyInv, Destroying
  <1>11. OwnInv'
    <2>1. \A r \in held' : r[1] \in Holders[r[2]] /\ ~closing'[r[2]]
      BY <1>5 DEF OwnInv
    <2>2. ASSUME NEW s \in Thread, pc'[s] \in Destroying
          PROVE  /\ s = t => arg'[s] = h
                 /\ s # t => /\ pc[s] \in Destroying /\ arg'[s] = arg[s]
                             /\ arg[s] \in Event /\ ~OnGcList(arg[s])
      BY <1>5, <2>2 DEF OwnInv, Destroying, ArgOK, InCall
    <2>3. ASSUME NEW s \in Thread, pc'[s] \in Destroying
          PROVE  /\ ~OnGcList(arg[s])'
                 /\ \A r \in held' : r[2] # arg'[s]
      <3>1. CASE s = t
        BY <1>2, <1>3, <1>5, <2>2, <2>3, <3>1 DEF OwnInv, OnGcList
      <3>2. CASE s # t
        BY <1>4, <1>5, <2>2, <2>3, <3>2 DEF OwnInv, OnGcList
      <3> QED
        BY <3>1, <3>2
    <2>4. ASSUME NEW r \in Thread, NEW s \in Thread, pc'[r] \in Destroying,
                 pc'[s] \in Destroying, arg'[r] = arg'[s]
          PROVE  r = s
      BY <1>2, <2>2, <2>4 DEF OwnInv
    <2> QED
      BY <2>1, <2>3, <2>4 DEF OwnInv
  <1>12. GcListSound'
    <2> SUFFICES ASSUME NEW i \in 1 .. Len(gc_events'),
                        NEW e, e = gc_events'[i]
                 PROVE  /\ alloc[e] = "live" /\ closing[e]
                        /\ \A f \in Filter : knote[e][f] = "absent"
                        /\ \A j \in 1 .. Len(gc_events') : gc_events'[j] = e => j = i
      BY <1>5 DEF GcListSound
    <2>1. i + 1 \in 1 .. Len(gc_events) /\ e = gc_events[i + 1]
      BY <1>1
    <2>2. /\ alloc[e] = "live" /\ closing[e]
          /\ \A f \in Filter : knote[e][f] = "absent"
          /\ \A j \in 1 .. Len(gc_events) : gc_events[j] = e => j = i + 1
      BY <2>1 DEF GcListSound
    <2>3. ASSUME NEW j \in 1 .. Len(gc_events'), gc_events'[j] = e PROVE j = i
      <3>1. j + 1 \in 1 .. Len(gc_events) /\ gc_events[j + 1] = e
        BY <1>1, <2>3
      <3> QED
        BY <2>2, <3>1
    <2> QED
      BY <2>2, <2>3
  <1> QED
    BY <1>6, <1>7, <1>8, <1>9, <1>10, <1>11, <1>12

\* A new event is one that nothing referred to.
LEMMA CreateSafe ==
  ASSUME UserOwned, SafetyInv, TypeInv', NEW u \in User, NEW e \in Event,
         posixc_event_create(u, e)
  PROVE  SafetyInv'
  <1> USE ReactorAssumption DEF SafetyInv, TypeInv, TypeOK, ThreadTypeOK, Thread,
      reactorVars, loopVars
  <1>1. /\ alloc[e] = "none" /\ UNCHANGED <<reactorVars, loopVars, pc, arg>>
        /\ \E a \in {"live", "freed"} : alloc' = [alloc EXCEPT ![e] = a]
        /\ \A x \in Event \ {e} : closing'[x] = closing[x] /\ knote'[x] = knote[x]
    BY DEF posixc_event_create, EventTypeOK, KernelTypeOK
  <1>2. /\ held' \subseteq held \union (Holders[e] \X {e})
        /\ held' # held => alloc'[e] = "live" /\ closing'[e] = FALSE
    BY DEF posixc_event_create, EventTypeOK
  <1>3. MutexInv' /\ LoopInv'
    BY <1>1, Frame
  <1>4. CallInv'
    BY DEF posixc_event_create, CallInv
  <1>5. LiveInv'
    <2>1. ReactorNeverSeesFreed'
      BY <1>1 DEF LiveInv, ReactorNeverSeesFreed, EventTypeOK, LoopTypeOK
    <2>2. \A r \in held' : alloc'[r[2]] = "live"
      <3>1. \A r \in held : r[2] # e /\ alloc'[r[2]] = "live"
        BY <1>1 DEF LiveInv, EventTypeOK
      <3> QED
        BY <1>2, <3>1
    <2>3. \A x \in Event, f \in Filter :
            knote'[x][f] # "absent" => alloc'[x] = "live" /\ f \in FiltersOf(x)
      <3>1. ASSUME NEW x \in Event, NEW f \in Filter, x # e, knote'[x][f] # "absent"
            PROVE  alloc'[x] = "live" /\ f \in FiltersOf(x)
        BY <1>1, <3>1 DEF LiveInv, EventTypeOK
      <3>2. ASSUME NEW f \in Filter, knote'[e][f] # "absent"
            PROVE  alloc'[e] = "live" /\ f \in FiltersOf(e)
        BY <3>2, CreateKnotes DEF EventTypeOK, KernelTypeOK
      <3> QED
        BY <3>1, <3>2
    <2> QED
      BY <2>1, <2>2, <2>3 DEF LiveInv
  <1>6. \A t \in Thread : pc[t] \in Destroying => arg[t] \in Event \ {e}
    BY <1>1 DEF DestroyInv, Destroying, ArgOK, InCall
  <1>7. DestroyInv'
    BY <1>1, <1>6 DEF DestroyInv, EventTypeOK
  <1>8. OwnInv'
    <2>1. \A r \in held : r[2] # e
      BY <1>1 DEF LiveInv
    <2>2. \A r \in held' : r[1] \in Holders[r[2]] /\ ~closing'[r[2]]
      BY <1>1, <1>2, <2>1 DEF OwnInv
    <2> QED
      BY <1>1, <1>2, <1>6, <2>2 DEF OwnInv, OnGcList
  <1>9. GcListSound'
    <2>1. ASSUME NEW i \in 1 .. Len(gc_events)
          PROVE  gc_events[i] \in Event \ {e}
      BY <1>1 DEF GcListSound, ReactorTypeOK
    <2>2. ASSUME NEW i \in 1 .. Len(gc_events)
          PROVE  /\ alloc'[gc_events[i]] = "live" /\ closing'[gc_events[i]]
                 /\ \A f \in Filter : knote'[gc_events[i]][f] = "absent"
      BY <1>1, <2>1 DEF GcListSound, EventTypeOK
    <2> QED
      BY <1>1, <2>2 DEF GcListSound
  <1> QED
    BY <1>3, <1>4, <1>5, <1>7, <1>8, <1>9

\* A submit that passes the test of closing works on what its caller holds.
LEMMA SubmitSafe ==
  ASSUME UserOwned, SafetyInv, TypeInv', NEW t \in Thread, NEW e \in Event,
         posixc_event_submit(t, e)
  PROVE  SafetyInv'
  <1> USE ReactorAssumption DEF SafetyInv, TypeInv, TypeOK, ThreadTypeOK, Thread,
      Goto, reactorVars, loopVars, eventVars, kernelVars
  <1>1. held' = held
    BY DEF posixc_event_submit, UserOwned
  <1>2. CASE closing[e]
    BY <1>1, <1>2, Frame DEF posixc_event_submit
  <1>3. CASE ~closing[e]
    <2>1. /\ pc' = [pc EXCEPT ![t] = "s_lock"] /\ arg' = [arg EXCEPT ![t] = e]
          /\ UNCHANGED <<reactorVars, loopVars, eventVars, kernelVars>>
          /\ MayUse(t, e)
      BY <1>3 DEF posixc_event_submit, Call
    <2>2. MutexInv'
      BY <2>1 DEF MutexInv, MayUse
    <2>3. CallInv'
      BY <1>1, <2>1 DEF CallInv, LoopInv, MayUse
    <2>4. LoopInv'
      BY <2>1 DEF LoopInv, MayUse
    <2>5. DestroyInv'
      BY <2>1 DEF DestroyInv, Destroying
    <2>6. OwnInv'
      BY <1>1, <2>1 DEF OwnInv, OnGcList, Destroying
    <2>7. LiveInv' /\ GcListSound'
      BY <1>1, <2>1, Frame
    <2> QED
      BY <2>2, <2>3, <2>4, <2>5, <2>6, <2>7
  <1> QED
    BY <1>2, <1>3

\* posixc_event_destroy is entered with the only reference there is.
LEMMA DestroySafe ==
  ASSUME UserOwned, SafetyInv, TypeInv', NEW t \in Thread, NEW e \in Event,
         posixc_event_destroy(t, e)
  PROVE  SafetyInv'
  <1> USE ReactorAssumption DEF SafetyInv, TypeInv, TypeOK, ThreadTypeOK, Thread,
      Goto, reactorVars, loopVars, eventVars, kernelVars
  <1>1. t \in User /\ <<t, e>> \in held /\ pc[t] = "idle"
    BY DEF posixc_event_destroy, MayUse, UserOwned
  <1>2. /\ t \in Holders[e] /\ ~closing[e] /\ alloc[e] = "live"
        /\ \A s \in Thread : pc[s] \in Destroying => arg[s] # e
    BY <1>1 DEF OwnInv, LiveInv
  <1>3. /\ pc' = [pc EXCEPT ![t] = "d_mark"] /\ arg' = [arg EXCEPT ![t] = e]
        /\ held' = held \ {<<t, e>>}
        /\ UNCHANGED <<reactorVars, loopVars, eventVars, kernelVars>>
    BY <1>2 DEF posixc_event_destroy, enter_destroy, Call
  <1>4. \A r \in held' : r \in held /\ r[2] # e
    BY <1>2, <1>3 DEF OwnInv, UserOwned
  <1>5. ~OnGcList(e)
    BY <1>2 DEF GcListSound, OnGcList
  <1>6. MutexInv'
    BY <1>1, <1>3 DEF MutexInv
  <1>7. CallInv'
    BY <1>1, <1>3 DEF CallInv
  <1>8. LoopInv'
    BY <1>1, <1>3 DEF LoopInv
  <1>9. LiveInv'
    BY <1>3 DEF LiveInv, ReactorNeverSeesFreed
  <1>10. DestroyInv'
    BY <1>1, <1>2, <1>3 DEF DestroyInv, Destroying
  <1>11. OwnInv'
    BY <1>1, <1>2, <1>3, <1>4, <1>5 DEF OwnInv, OnGcList, Destroying
  <1>12. GcListSound'
    BY <1>3, Frame
  <1> QED
    BY <1>6, <1>7, <1>8, <1>9, <1>10, <1>11, <1>12

\* The event passes from its destroyer to gc_events.
LEMMA AddToGcListSafe ==
  ASSUME UserOwned, SafetyInv, TypeInv', NEW t \in Thread, add_to_gc_list(t)
  PROVE  SafetyInv'
  <1> USE ReactorAssumption DEF SafetyInv, TypeInv, TypeOK, ThreadTypeOK, Thread,
      Goto, reactorVars, loopVars, eventVars, kernelVars
  <1> PICK e : e = arg[t]
    OBVIOUS
  <1>1. /\ pc[t] = "d_gc" /\ t \in User /\ e \in Event /\ mtx = None
        /\ gc_events' = Append(gc_events, e)
        /\ pc' = [pc EXCEPT ![t] = "idle"] /\ arg' = [arg EXCEPT ![t] = None]
        /\ UNCHANGED <<rstate, rclosing, mtx, loopVars, eventVars, kernelVars, held>>
    BY ZenonT(30) DEF add_to_gc_list, Return, AfterDestroy, CallInv, ArgOK, InCall
  <1>2. /\ alloc[e] = "live" /\ closing[e] /\ ~OnGcList(e)
        /\ \A f \in Filter : knote[e][f] = "absent"
    BY <1>1 DEF DestroyInv, OwnInv, Destroying
  <1>3. /\ Len(gc_events) \in Nat /\ Len(gc_events') = Len(gc_events) + 1
        /\ \A i \in 1 .. Len(gc_events) : gc_events'[i] = gc_events[i]
        /\ gc_events'[Len(gc_events) + 1] = e
    BY <1>1 DEF ReactorTypeOK
  <1>4. \A x \in Event : OnGcList(x)' => OnGcList(x) \/ x = e
    BY <1>3 DEF OnGcList
  <1>5. MutexInv'
    BY <1>1 DEF MutexInv
  <1>6. CallInv' /\ LoopInv'
    BY <1>1 DEF CallInv, LoopInv
  <1>7. LiveInv'
    BY <1>1, Frame
  <1>8. DestroyInv'
    BY <1>1 DEF DestroyInv, Destroying
  <1>9. OwnInv'
    <2>1. ASSUME NEW s \in Thread, pc'[s] \in Destroying
          PROVE  /\ pc[s] \in Destroying /\ arg'[s] = arg[s]
                 /\ arg[s] \in Event \ {e} /\ ~OnGcList(arg[s])
      BY <1>1, <2>1 DEF OwnInv, Destroying, ArgOK, InCall
    <2>2. ASSUME NEW s \in Thread, pc'[s] \in Destroying
          PROVE  ~OnGcList(arg[s])'
      BY <1>4, <2>1, <2>2 DEF OnGcList
    <2> QED
      BY <1>1, <2>1, <2>2 DEF OwnInv
  <1>10. GcListSound'
    <2>1. ASSUME NEW i \in 1 .. Len(gc_events')
          PROVE  LET x == gc_events'[i] IN
                 /\ alloc[x] = "live" /\ closing[x]
                 /\ \A f \in Filter : knote[x][f] = "absent"
                 /\ \A j \in 1 .. Len(gc_events') : gc_events'[j] = x => j = i
      <3>1. CASE i = Len(gc_events) + 1
        BY <1>2, <1>3, <3>1 DEF OnGcList
      <3>2. CASE i \in 1 .. Len(gc_events)
        <4>1. gc_events'[i] = gc_events[i] /\ gc_events[i] # e
          BY <1>2, <1>3, <3>2 DEF OnGcList
        <4>2. ASSUME NEW j \in 1 .. Len(gc_events'), gc_events'[j] = gc_events[i]
              PROVE  j \in 1 .. Len(gc_events) /\ gc_events[j] = gc_events[i]
          BY <1>3, <4>1, <4>2
        <4> QED
          BY <3>2, <4>1, <4>2 DEF GcListSound
      <3> QED
        BY <1>3, <3>1, <3>2
    <2> QED
      BY <1>1, <2>1 DEF GcListSound
  <1> QED
    BY <1>5, <1>6, <1>7, <1>8, <1>9, <1>10

\* The kqueue returns kevents of armed knotes, which are knotes of live events.
LEMMA DeliverSafe ==
  ASSUME UserOwned, SafetyInv, TypeInv', kevent_deliver
  PROVE  SafetyInv'
  <1> USE ReactorAssumption DEF SafetyInv, TypeInv, TypeOK, ThreadTypeOK, Thread,
      Goto, reactorVars, loopVars, eventVars, kernelVars
  <1>1. /\ pc[ReactorThread] = "kevent"
        /\ pc' = [pc EXCEPT ![ReactorThread] = "dispatch"]
        /\ UNCHANGED <<reactorVars, final, iter, firing, eventVars, arg, held>>
    BY DEF kevent_deliver
  <1>2. /\ batch' \subseteq Deliverable
        /\ \E honoured \in BOOLEAN :
             knote' = [e \in Event |-> [f \in Filter |->
                         IF <<e, f>> \in batch'
                         THEN delivered_knote(f, knote[e][f], honoured)
                         ELSE knote[e][f]]]
    BY DEF kevent_deliver
  <1>3. ASSUME NEW e \in Event, NEW f \in Filter, knote[e][f] = "absent"
        PROVE  knote'[e][f] = "absent"
    <2>1. <<e, f>> \notin batch'
      BY <1>2, <1>3 DEF Deliverable, Armed
    <2> QED
      BY <1>2, <1>3, <2>1
  <1>4. MutexInv'
    BY <1>1 DEF MutexInv
  <1>5. CallInv' /\ LoopInv'
    BY <1>1 DEF CallInv, LoopInv
  <1>6. LiveInv'
    <2>1. \A k \in batch' : alloc[k[1]] = "live"
      BY <1>2, SMTT(30) DEF Deliverable, Armed, LiveInv
    <2>2. ReactorNeverSeesFreed'
      BY <1>1, <2>1 DEF LiveInv, ReactorNeverSeesFreed
    <2> QED
      BY <1>1, <1>3, <2>2 DEF LiveInv
  <1>7. DestroyInv'
    BY <1>1, <1>3 DEF DestroyInv, Destroying, ArgOK, InCall
  <1>8. OwnInv'
    BY <1>1 DEF OwnInv, OnGcList, Destroying
  <1>9. GcListSound'
    <2>1. ASSUME NEW i \in 1 .. Len(gc_events)
          PROVE  /\ alloc[gc_events[i]] = "live" /\ closing[gc_events[i]]
                 /\ \A f \in Filter : knote'[gc_events[i]][f] = "absent"
      BY <1>3 DEF GcListSound, ReactorTypeOK
    <2> QED
      BY <1>1, <2>1 DEF GcListSound
  <1> QED
    BY <1>4, <1>5, <1>6, <1>7, <1>8, <1>9

\* Every step of every thread keeps the invariant.
LEMMA SafetyNext == UserOwned /\ SafetyInv /\ [Next]_vars => SafetyInv'
  <1> SUFFICES ASSUME UserOwned, SafetyInv, [Next]_vars PROVE SafetyInv'
    OBVIOUS
  <1>1. TypeInv'
    BY TypeNext DEF SafetyInv
  <1>2. CASE UNCHANGED vars
    BY <1>1, <1>2, Frame DEF vars, reactorVars, loopVars, eventVars, kernelVars,
       threadVars, SafetyInv
  <1>3. ASSUME NEW t \in Thread, CallStep(t) PROVE SafetyInv'
    BY <1>1, <1>3, SubmitLockedSafe, MarkSafe, PlatDestroySafe, AddToGcListSafe,
       ReleaseSafe, GcSafe, GcNextSafe, GcUnlockSafe DEF CallStep
  <1>4. CASE LoopStep \/ kevent_interrupted \/ callback_return
    BY <1>1, <1>4, LoopTestSafe, DeliverSafe, ConsumeSafe, EndBatchSafe,
       InterruptedSafe, CallbackReturnSafe DEF LoopStep
  <1>5. ASSUME NEW u \in User, posixc_reactor_create(u) \/ posixc_reactor_destroy(u)
                                 \/ ReactorDestroyStep(u)
        PROVE  SafetyInv'
    BY <1>1, <1>5, CreateReactorSafe, DestroyReactorSafe, SetClosingSafe, JoinSafe
       DEF ReactorDestroyStep
  <1>6. ASSUME NEW u \in User, NEW e \in Event,
               \/ posixc_event_create(u, e)
               \/ \E p \in BOOLEAN : posixc_timer_event_set_interval(u, e, p)
        PROVE  SafetyInv'
    BY <1>1, <1>6, CreateSafe, IntervalSafe
  <1>7. ASSUME NEW t \in Thread, NEW e \in Event,
               posixc_event_submit(t, e) \/ posixc_event_destroy(t, e)
        PROVE  SafetyInv'
    BY <1>1, <1>7, SubmitSafe, DestroySafe
  <1>8. ASSUME NEW e \in Event, NEW f \in Filter, kernel_ready(e, f) PROVE SafetyInv'
    BY <1>1, <1>8, ReadySafe
  <1> QED
    BY <1>2, <1>3, <1>4, <1>5, <1>6, <1>7, <1>8 DEF Next

\* With one owner thread per event, whatever the number of threads, events and
\* kevents per batch and however calls, callbacks, the collector and reactor
\* shutdown interleave, the invariant above holds.
THEOREM SafetyCorrect == UserOwned => (Spec => []SafetyInv)
  <1> SUFFICES ASSUME UserOwned PROVE Spec => []SafetyInv
    OBVIOUS
  <1> QED
    BY SafetyInit, SafetyNext, PTL DEF Spec

\* "the reactor won't process already destroyed posixc_events" (event.c): no
\* kevent in a batch and no running callback is of an event that was freed.
THEOREM ReactorSafe == UserOwned => (Spec => []ReactorNeverSeesFreed)
  <1>1. SafetyInv => ReactorNeverSeesFreed
    BY DEF SafetyInv, LiveInv
  <1> QED
    BY <1>1, SafetyCorrect, PTL

\* No thread inside posixc_event_submit or posixc_event_destroy, and no holder of
\* a reference, is left with a freed event.
THEOREM CallersSafe == UserOwned => (Spec => []CallersNeverSeeFreed)
  <1>1. SafetyInv => CallersNeverSeeFreed
    <2> SUFFICES ASSUME SafetyInv, NEW t \in Thread, pc[t] \in InCall
                 PROVE  alloc[arg[t]] = "live"
      BY DEF CallersNeverSeeFreed, SafetyInv, LiveInv
    <2>1. CASE pc[t] \in Destroying
      BY <2>1 DEF SafetyInv, DestroyInv
    <2>2. CASE pc[t] = "s_lock" /\ t \in User
      BY <2>2 DEF SafetyInv, CallInv, LiveInv
    <2>3. CASE pc[t] = "s_lock" /\ t = ReactorThread
      BY <2>3 DEF SafetyInv, CallInv, LiveInv, ReactorNeverSeesFreed
    <2> QED
      BY <2>1, <2>2, <2>3 DEF InCall, Destroying, Thread
  <1> QED
    BY <1>1, SafetyCorrect, PTL

\* What the collector finds on gc_events is there once, allocated, marked and out
\* of the kqueue: posixc_reactor_gc frees each event once.
THEOREM CollectorSafe == UserOwned => (Spec => []GcListSound)
  <1>1. SafetyInv => GcListSound
    BY DEF SafetyInv
  <1> QED
    BY <1>1, SafetyCorrect, PTL

\* posixc_event_plat_destroy has taken every knote of an event out of the kqueue
\* before posixc_event_release frees it: no kevent points to freed memory.
THEOREM KqueueSafe == UserOwned => (Spec => []NoDanglingUdata)
  <1>1. SafetyInv => NoDanglingUdata
    BY DEF SafetyInv, LiveInv, NoDanglingUdata
  <1> QED
    BY <1>1, SafetyCorrect, PTL
=============================================================================
