------------------------------ MODULE TimerQueue ------------------------------
(***************************************************************************)
(* TimerQueue.muduo: TimerQueue, Timer, TimerId and the counter behind     *)
(* timer sequence numbers.  Threads add and cancel timers through the      *)
(* loop's functor queue (a FIFO: EventLoop.tla), the loop thread does so   *)
(* directly, also from timer callbacks; the timerfd is the only thing that *)
(* makes the loop look at the queue.                                       *)
(*                                                                         *)
(* Times are ticks: one tick stands for the 100 microseconds that          *)
(* howMuchTimeFromNow() waits at least.                                    *)
(***************************************************************************)
EXTENDS Naturals, FiniteSets, Sequences

CONSTANTS Addrs,          \* heap addresses for Timer objects
          Threads,        \* threads that use the loop, the loop's own included
          Loop,           \* the loop thread
          MaxTime,        \* bound on the clock
          MaxCreated,     \* bound on the number of timers
          MaxPending      \* bound on the functor queue

ASSUME TimerAssumption ==
    /\ Loop \in Threads
    /\ MaxTime \in Nat /\ MaxCreated \in Nat /\ MaxPending \in Nat

VARIABLES
    clock,                   \* Timestamp::now()
    heap,                    \* address -> [sequence_, expiration_, interval_] of live Timers
    rep_,                    \* s_numCreated_
    adding,                  \* thread -> the Timer it is constructing
    timers_,                 \* set of <<expiration, address>>
    activeTimers_,           \* set of <<address, sequence>>
    cancelingTimers_,
    callingExpiredTimers_,
    expired_,                \* set of <<expiration, address>>
    toRun,                   \* those that the loop of handleRead() has not reached
    pc,                      \* the loop thread: "idle", "polled", "running", "callback", "gone"
    pollReturnTime, now,     \* the argument and the local of handleRead()
    armed,                   \* when the timerfd becomes readable, Never if disarmed
    pending,                 \* functors [op, timer] queued for the loop
    ids, cancelled, finished, \* history: TimerIds returned, cancelled (but for a cancel that
                             \* came before addTimerInLoop()), run for the last time
    created                  \* history: number of Timers built

timerVars == <<timers_, activeTimers_>>
handleVars == <<cancelingTimers_, callingExpiredTimers_, expired_, toRun, pc, pollReturnTime, now>>
createVars == <<rep_, adding, created, ids>>
vars == <<clock, heap, createVars, timerVars, handleVars, armed, pending, cancelled, finished>>

Never == 0
Nobody == [timer |-> <<>>]
Max2(a, b) == IF a > b THEN a ELSE b

Init ==
    /\ clock = 1
    /\ heap = [a \in {} |-> 0]
    /\ rep_ = 0
    /\ adding = [t \in Threads |-> Nobody]
    /\ timers_ = {} /\ activeTimers_ = {} /\ cancelingTimers_ = {}
    /\ callingExpiredTimers_ = FALSE
    /\ expired_ = {} /\ toRun = {}
    /\ pc = "idle"
    /\ pollReturnTime = 1 /\ now = 1
    /\ armed = Never
    /\ pending = <<>>
    /\ ids = {} /\ cancelled = {} /\ finished = {}
    /\ created = 0

\* Threads other than the loop's run at any time; the loop thread runs user code
\* in functors, in callbacks of other channels and in timer callbacks.
InUserCode(t) ==
    /\ pc # "gone"
    /\ adding[t] = Nobody
    /\ t = Loop => pc \in {"idle", "polled", "callback"}

\* The loop thread goes on only when the user code it runs has returned.
LoopRuns == adding[Loop] = Nobody

-----------------------------------------------------------------------------
(* The timerfd and the two sets.                                           *)

\* resetTimerfd(): howMuchTimeFromNow() is at least one tick.
ArmedFor(when) == Max2(when, clock + 1)

Earliest(entries) == CHOOSE e \in entries : \A f \in entries : e[1] <= f[1]

\* insert(): whether the new entry is the earliest one.
EarliestChanged(when) == timers_ = {} \/ when < Earliest(timers_)[1]

\* addTimerInLoop()
AddTimerInLoop(a) ==
    LET when == heap[a].expiration_ IN
    /\ timers_' = timers_ \cup {<<when, a>>}
    /\ activeTimers_' = activeTimers_ \cup {<<a, heap[a].sequence_>>}
    /\ armed' = IF EarliestChanged(when) THEN ArmedFor(when) ELSE armed

\* Mutant: the Timer is forgotten without a delete.
Free_Nothing(h, addrs) == h

\* delete
Free(h, addrs) == [a \in DOMAIN h \ addrs |-> h[a]]

\* Mutant: the sequence number is not looked at.
Found_ByAddress(id) == {t \in activeTimers_ : t[1] = id[1]}

\* activeTimers_.find(timer)
Found(id) == {t \in activeTimers_ : t = id}

\* The functor that adds the timer has not run yet: a cancel finds nothing.
AddPending(id) == \E i \in DOMAIN pending : pending[i] = [op |-> "add", timer |-> id]

\* cancelInLoop()
CancelInLoop(id) ==
    /\ cancelled' = IF AddPending(id) THEN cancelled ELSE cancelled \cup {id}
    /\ IF Found(id) # {}
       THEN /\ timers_' = timers_ \ {<<heap[id[1]].expiration_, id[1]>>}
            /\ activeTimers_' = activeTimers_ \ Found(id)
            /\ heap' = Free(heap, {id[1]})
            /\ UNCHANGED cancelingTimers_
       ELSE /\ cancelingTimers_' = IF callingExpiredTimers_
                                   THEN cancelingTimers_ \cup {id} ELSE cancelingTimers_
            /\ UNCHANGED <<timers_, activeTimers_, heap>>

-----------------------------------------------------------------------------
(* addTimer() and cancel(), in any thread.                                 *)

\* What runAt(), runAfter() and runEvery() of the EventLoop ask for: a time may
\* already be past, a delay may be zero
RunAt == [when : 1..MaxTime, interval : {0}]
RunAfter == [when : {clock + delay : delay \in 0..(MaxTime - clock)}, interval : {0}]
RunEvery == {[when |-> clock + interval, interval |-> interval] : interval \in {1}}

\* new Timer, up to the load in incrementAndGet().
AddTimerLoad(t) ==
    /\ InUserCode(t)
    /\ created < MaxCreated /\ clock < MaxTime
    /\ \E a \in Addrs \ DOMAIN heap, r \in RunAt \cup RunAfter \cup RunEvery :
          /\ heap' = [b \in DOMAIN heap \cup {a} |->
                        IF b = a
                        THEN [sequence_ |-> rep_ + 1, expiration_ |-> r.when, interval_ |-> r.interval]
                        ELSE heap[b]]
          /\ adding' = [adding EXCEPT ![t] = [timer |-> <<a, rep_ + 1>>]]
    /\ created' = created + 1
    /\ UNCHANGED <<clock, rep_, ids, timerVars, handleVars, armed, pending, cancelled, finished>>

\* The store of incrementAndGet(), runInLoop() and the TimerId that is returned.
AddTimerStore(t) ==
    LET id == adding[t].timer IN
    /\ pc # "gone"
    /\ adding[t] # Nobody
    /\ t # Loop => Len(pending) < MaxPending
    /\ rep_' = id[2]
    /\ adding' = [adding EXCEPT ![t] = Nobody]
    /\ ids' = ids \cup {id}
    /\ IF t = Loop
       THEN AddTimerInLoop(id[1]) /\ UNCHANGED pending
       ELSE /\ pending' = Append(pending, [op |-> "add", timer |-> id])
            /\ UNCHANGED <<timerVars, armed>>
    /\ UNCHANGED <<clock, heap, created, handleVars, cancelled, finished>>

\* cancel(): the loop thread does it on the spot.
Cancel(t) ==
    /\ InUserCode(t)
    /\ \E id \in ids :
          IF t = Loop
          THEN CancelInLoop(id) /\ UNCHANGED pending
          ELSE /\ Len(pending) < MaxPending
               /\ pending' = Append(pending, [op |-> "cancel", timer |-> id])
               /\ UNCHANGED <<timerVars, cancelingTimers_, heap, cancelled>>
    /\ UNCHANGED <<clock, createVars, callingExpiredTimers_, expired_, toRun, pc,
                   pollReturnTime, now, armed, finished>>

\* doPendingFunctors()
RunFunctor ==
    /\ pc = "idle" /\ LoopRuns
    /\ pending # <<>>
    /\ pending' = Tail(pending)
    /\ LET f == Head(pending) IN
          \/ f.op = "add" /\ AddTimerInLoop(f.timer[1]) /\ UNCHANGED <<heap, cancelingTimers_, cancelled>>
          \/ f.op = "cancel" /\ CancelInLoop(f.timer) /\ UNCHANGED armed
    /\ UNCHANGED <<clock, createVars, callingExpiredTimers_, expired_, toRun, pc,
                   pollReturnTime, now, finished>>

-----------------------------------------------------------------------------
(* The loop thread: poll() and handleRead().                               *)

\* Mutant: the time that poll() returned is not kept.
ReturnTime_Stale == pollReturnTime

\* pollReturnTime_ = poller_->poll(...)
ReturnTime == clock

\* poll() returns because the timerfd is readable; callbacks of other channels
\* may run before handleRead() does.
PollReturns ==
    /\ pc = "idle" /\ LoopRuns
    /\ armed # Never /\ armed <= clock
    /\ pollReturnTime' = ReturnTime
    /\ pc' = "polled"
    /\ UNCHANGED <<clock, heap, createVars, timerVars, cancelingTimers_, callingExpiredTimers_,
                   expired_, toRun, now, armed, pending, cancelled, finished>>

Expired(time) == {e \in timers_ : e[1] <= time}

\* ActiveTimer(entry.second, entry.second->sequence())
IdOf(e) == <<e[2], heap[e[2]].sequence_>>

\* activeTimers_ without the expired timers
StillActive(entries) == activeTimers_ \ {IdOf(e) : e \in entries}

\* handleRead() up to its loop: readTimerfd(), which finds nothing if the timerfd
\* was armed again meanwhile, and getExpired().
HandleRead ==
    /\ pc = "polled" /\ LoopRuns
    /\ now' = clock
    /\ armed' = IF armed <= clock THEN Never ELSE armed
    /\ expired_' = Expired(pollReturnTime)
    /\ toRun' = expired_'
    /\ timers_' = timers_ \ expired_'
    /\ activeTimers_' = StillActive(expired_')
    /\ callingExpiredTimers_' = TRUE
    /\ cancelingTimers_' = {}
    /\ pc' = "running"
    /\ UNCHANGED <<clock, heap, createVars, pollReturnTime, pending, cancelled, finished>>

\* it->second->run(), in the order of expiration
RunTimer ==
    /\ pc = "running"
    /\ toRun # {}
    /\ \E e \in toRun : /\ \A f \in toRun : e[1] <= f[1]
                        /\ toRun' = toRun \ {e}
                        /\ finished' = IF heap[e[2]].interval_ = 0
                                       THEN finished \cup {IdOf(e)} ELSE finished
    /\ pc' = "callback"
    /\ UNCHANGED <<clock, heap, createVars, timerVars, cancelingTimers_, callingExpiredTimers_,
                   expired_, pollReturnTime, now, armed, pending, cancelled>>

CallbackReturns ==
    /\ pc = "callback" /\ LoopRuns
    /\ pc' = "running"
    /\ UNCHANGED <<clock, heap, createVars, timerVars, cancelingTimers_, callingExpiredTimers_,
                   expired_, toRun, pollReturnTime, now, armed, pending, cancelled, finished>>

\* The expired timers that reset() puts back.
Restarted ==
    {e \in expired_ : heap[e[2]].interval_ > 0 /\ IdOf(e) \notin cancelingTimers_}

\* Mutant: the timerfd is armed again only for timers put back.
ResetArms_IfRestarted == Restarted # {}

\* if (nextExpire.valid())
ResetArms == timers_' # {}

\* reset(): Timer::restart(), insert(), delete and resetTimerfd()
Reset ==
    LET restarted == {e[2] : e \in Restarted}
        deleted == {e[2] : e \in expired_ \ Restarted}
    IN
    /\ pc = "running"
    /\ toRun = {}
    /\ callingExpiredTimers_' = FALSE
    /\ heap' = [a \in DOMAIN heap \ deleted |->
                  IF a \in restarted
                  THEN [heap[a] EXCEPT !.expiration_ = now + heap[a].interval_] ELSE heap[a]]
    /\ timers_' = timers_ \cup {<<heap'[a].expiration_, a>> : a \in restarted}
    /\ activeTimers_' = activeTimers_ \cup {IdOf(e) : e \in Restarted}
    /\ armed' = IF ResetArms THEN ArmedFor(Earliest(timers_')[1]) ELSE armed
    /\ pc' = "idle"
    /\ UNCHANGED <<clock, createVars, cancelingTimers_, expired_, toRun, pollReturnTime, now,
                   pending, cancelled, finished>>

\* ~TimerQueue(), after the loop has stopped.
Destroy ==
    /\ pc = "idle" /\ LoopRuns
    /\ heap' = Free(heap, {e[2] : e \in timers_})
    /\ timers_' = {} /\ activeTimers_' = {}
    /\ armed' = Never
    /\ pc' = "gone"
    /\ UNCHANGED <<clock, createVars, cancelingTimers_, callingExpiredTimers_, expired_, toRun,
                   pollReturnTime, now, pending, cancelled, finished>>

\* Timers that the loop has not inserted yet.
PendingAdds == {pending[i].timer : i \in {j \in DOMAIN pending : pending[j].op = "add"}}
Adding == {adding[t].timer : t \in {u \in Threads : adding[u] # Nobody}}

\* Time passes.  The last tick of the bounded clock waits for an idle loop and
\* for the timers on their way to it, so that what the timerfd is armed for is
\* still within the bound.
Tick ==
    /\ clock < MaxTime
    /\ clock + 1 = MaxTime => pc = "idle" /\ PendingAdds \cup Adding = {}
    /\ clock' = clock + 1
    /\ UNCHANGED <<heap, createVars, timerVars, handleVars, armed, pending, cancelled, finished>>

LoopStep == PollReturns \/ HandleRead \/ RunTimer \/ CallbackReturns \/ Reset

Next ==
    \/ \E t \in Threads : AddTimerLoad(t) \/ AddTimerStore(t) \/ Cancel(t)
    \/ RunFunctor
    \/ LoopStep
    \/ Destroy
    \/ Tick

Spec == Init /\ [][Next]_vars

\* The loop keeps running, time passes, and addTimer() returns.
FairSpec ==
    /\ Spec
    /\ WF_vars(LoopStep)
    /\ WF_vars(RunFunctor)
    /\ WF_vars(Tick)
    /\ \A t \in Threads : WF_vars(AddTimerStore(t))

-----------------------------------------------------------------------------
(* Properties.                                                             *)

\* Timers that belong to the batch handleRead() is running.
Batch == IF callingExpiredTimers_ THEN expired_ ELSE {}

\* Timer.h:58 and AtomicPointer_temp.h:31, "adds 1 and returns rep_": no two
\* timers ever built have the same TimerId, also when they had the same address
\* one after the other.  incrementAndGet() is not atomic, and with enough timers
\* two threads inside it break this.
TimerIdsDistinct == Cardinality(ids \cup Adding) = created

\* TimerQueue.h:52: activeTimers_ holds the same timers as timers_, and each
\* entry agrees with the live Timer it points to.  Every live Timer has exactly
\* one owner that will delete it (timers_, the batch being run, a queued
\* addTimerInLoop(), a constructor) and every owner's pointer is to a live Timer:
\* no leak, no double delete, no use after free, whatever callbacks, functors and
\* reset() did in between.
OwnedOnce ==
    LET owned(a) == Cardinality({e \in timers_ : e[2] = a})
                    + Cardinality({e \in Batch : e[2] = a})
                    + Cardinality({id \in PendingAdds \cup Adding : id[1] = a})
    IN  /\ \A a \in DOMAIN heap : owned(a) = 1
        /\ \A a \in Addrs \ DOMAIN heap : owned(a) = 0
        /\ \A e \in timers_ : heap[e[2]].expiration_ = e[1]
        /\ activeTimers_ = {IdOf(e) : e \in timers_}

\* While a timer waits, the timerfd will wake the loop no later than it expires
\* (or one tick from now, if it already has): no order of insertions, cancels
\* and late callbacks leaves the timerfd disarmed or armed too late.
TimerfdArmed ==
    pc = "idle" /\ timers_ # {} =>
        armed # Never /\ armed <= Max2(Earliest(timers_)[1], clock + 1)

\* A timer goes away only by its own cancel() or after its last run, and once
\* cancelled it is not put back (TimerQueue.cpp:234): a TimerId kept after its
\* timer is gone does no harm to a later timer at the same address, as long as
\* no two timers have the same one.  A cancel() in the loop thread that overtakes
\* the queued addTimerInLoop() has no effect (TimerQueue.cpp:159).
CancelIsExact ==
    TimerIdsDistinct =>
    /\ activeTimers_ \cap cancelled = {}
    /\ \/ pc = "gone"
       \/ \A id \in ids : \/ id \in activeTimers_ \cup PendingAdds \cup finished \cup cancelled
                          \/ \E e \in Batch : IdOf(e) = id

\* A timer whose time comes is run, unless it is cancelled first or the queue
\* goes away; also one whose cancel() came too early to find it.
InsertedTimerRuns ==
    \A id \in Addrs \X (1..MaxCreated) :
        id \in activeTimers_ /\ heap[id[1]].interval_ = 0 /\ clock < MaxTime
            ~> id \in finished \cup cancelled \/ pc = "gone"
=============================================================================
