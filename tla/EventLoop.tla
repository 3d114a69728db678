------------------------------ MODULE EventLoop ------------------------------
(***************************************************************************)
(* reactor.muduo/EventLoop.cpp: one loop thread that polls, runs the       *)
(* handlers of the active channels and then the functors other threads     *)
(* (and its own callbacks) have queued.  Threads interleave between any    *)
(* two accesses to shared state: the while test and the poll, the push of  *)
(* a functor and the write to the eventfd, quit_ = true and that write.    *)
(* The two critical sections of mutex_ (push_back, swap) contain no call   *)
(* that blocks, so each is one step.                                       *)
(*                                                                         *)
(* User code (channel callbacks, functors) is any sequence of calls of the *)
(* public operations; it is where pc is one of UserPoints.                 *)
(***************************************************************************)
EXTENDS Naturals, Sequences, Functions

CONSTANTS LoopThread,     \* the thread that created the EventLoop (pid_)
          Others,         \* the other threads that hold a pointer to it
          Functors,       \* the functors submitted, each at most once
          Channels,       \* channels other than wakeupChannel_
          MaxLoops,       \* bound: calls of loop()
          MaxWakeups      \* bound: user code calls quit() while wakeupFd_ < this

ASSUME LoopAssumption ==
    /\ LoopThread \notin Others
    /\ MaxLoops \in Nat
    /\ MaxWakeups \in Nat

VARIABLES
    pc,                       \* where the loop thread is
    looping_, quit_, callingPendingFunctors_,
    pendingFunctors_,         \* guarded by mutex_
    functors,                 \* the local vector of doPendingFunctors, from i on
    wakeupFd_,                \* the eventfd's counter
    ready,                    \* channels with a readiness event in the kernel
    toHandle,                 \* the part of activeChannels_ still to be handled
    wakeupActive,             \* wakeupChannel_ is among them
    op,                       \* a thread inside quit()/queueInLoop() before wakeup()
    queued,                   \* history: functors in the order they were pushed
    executed,                 \* history: functors in the order doPendingFunctors ran them
    inlined,                  \* history: functors runInLoop ran in place
    quiet,                    \* history: functors the loop thread queued outside loop()
    loops                     \* history: calls of loop()

queueVars == <<pendingFunctors_, functors, queued, executed>>
eventVars == <<ready, toHandle, wakeupActive>>
vars == <<pc, looping_, quit_, callingPendingFunctors_, queueVars, wakeupFd_,
          eventVars, op, inlined, quiet, loops>>

Threads == Others \cup {LoopThread}

\* The loop thread runs user code here: before and after loop(), inside a
\* channel's callback and inside a functor.
UserPoints == {"idle", "callback", "functor"}
LoopPoints == UserPoints \cup {"entered", "test", "poll", "handle", "swap", "run"}

Init ==
    /\ pc = "idle"
    /\ looping_ = FALSE
    /\ quit_ = FALSE
    /\ callingPendingFunctors_ = FALSE
    /\ pendingFunctors_ = <<>>
    /\ functors = <<>>
    /\ wakeupFd_ = 0
    /\ ready = {}
    /\ toHandle = {}
    /\ wakeupActive = FALSE
    /\ op = [t \in Threads |-> "none"]
    /\ queued = <<>>
    /\ executed = <<>>
    /\ inlined = {}
    /\ quiet = {}
    /\ loops = 0

-----------------------------------------------------------------------------
(* The operations any thread may call.                                     *)

InUserCode(t) ==
    /\ op[t] = "none"
    /\ t = LoopThread => pc \in UserPoints

Fresh(f) == f \notin Range(queued) \cup inlined

\* Mutants: a functor that queues another one does not wake the loop;
\* quit() leaves the loop in poll().
QueueWakes_NotFromFunctors(t) == t # LoopThread
QuitWakes_Never(t) == FALSE

\* The conditions under which queueInLoop() and quit() write to the eventfd.
QueueWakes(t) == t # LoopThread \/ callingPendingFunctors_
QuitWakes(t) == t # LoopThread

\* queueInLoop: push under the lock, then decide whether to wake the loop.
QueueInLoop(t, f) ==
    /\ InUserCode(t)
    /\ Fresh(f)
    /\ pendingFunctors_' = Append(pendingFunctors_, f)
    /\ queued' = Append(queued, f)
    /\ op' = IF QueueWakes(t) THEN [op EXCEPT ![t] = "wakeup"] ELSE op
    /\ quiet' = IF t = LoopThread /\ pc = "idle" THEN quiet \cup {f} ELSE quiet
    /\ UNCHANGED <<pc, looping_, quit_, callingPendingFunctors_, functors,
                   executed, wakeupFd_, eventVars, inlined, loops>>

\* runInLoop: queued from another thread, run in place in the loop thread.
RunInLoop(t, f) ==
    IF t = LoopThread
    THEN /\ InUserCode(t)
         /\ Fresh(f)
         /\ inlined' = inlined \cup {f}
         /\ UNCHANGED <<pc, looping_, quit_, callingPendingFunctors_, queueVars,
                        wakeupFd_, eventVars, op, quiet, loops>>
    ELSE QueueInLoop(t, f)

\* quit(): the flag first, the wakeup as a second step.
Quit(t) ==
    /\ InUserCode(t)
    /\ quit_' = TRUE
    /\ op' = IF QuitWakes(t) THEN [op EXCEPT ![t] = "wakeup"] ELSE op
    /\ UNCHANGED <<pc, looping_, callingPendingFunctors_, queueVars, wakeupFd_,
                   eventVars, inlined, quiet, loops>>

\* wakeup(): the eventfd write that ends queueInLoop() and quit().
Wakeup(t) ==
    /\ op[t] = "wakeup"
    /\ op' = [op EXCEPT ![t] = "none"]
    /\ wakeupFd_' = wakeupFd_ + 1
    /\ UNCHANGED <<pc, looping_, quit_, callingPendingFunctors_, queueVars,
                   eventVars, inlined, quiet, loops>>

-----------------------------------------------------------------------------
(* The loop thread.                                                        *)

\* The loop thread goes on only when the calls made by its user code returned.
Goto(from, to) ==
    /\ pc = from
    /\ op[LoopThread] = "none"
    /\ pc' = to

\* loop(): assert(!looping_); looping_ = true;
LoopEnter ==
    /\ Goto("idle", "entered")
    /\ loops < MaxLoops
    /\ loops' = loops + 1
    /\ looping_' = TRUE
    /\ UNCHANGED <<quit_, callingPendingFunctors_, queueVars, wakeupFd_,
                   eventVars, op, inlined, quiet>>

\* quit_ = false;
LoopResetQuit ==
    /\ Goto("entered", "test")
    /\ quit_' = FALSE
    /\ UNCHANGED <<looping_, callingPendingFunctors_, queueVars, wakeupFd_,
                   eventVars, op, inlined, quiet, loops>>

\* while (quit_ == false)
LoopTest ==
    /\ ~quit_
    /\ Goto("test", "poll")
    /\ UNCHANGED <<looping_, quit_, callingPendingFunctors_, queueVars, wakeupFd_,
                   eventVars, op, inlined, quiet, loops>>

LoopExit ==
    /\ quit_
    /\ Goto("test", "idle")
    /\ looping_' = FALSE
    /\ UNCHANGED <<quit_, callingPendingFunctors_, queueVars, wakeupFd_,
                   eventVars, op, inlined, quiet, loops>>

\* poll() returns the channels that are ready (fewer than EPollPoller's events_).
PollReady ==
    /\ ready # {} \/ wakeupFd_ > 0
    /\ Goto("poll", "handle")
    /\ toHandle' = ready
    /\ wakeupActive' = (wakeupFd_ > 0)
    /\ UNCHANGED <<looping_, quit_, callingPendingFunctors_, queueVars, wakeupFd_,
                   ready, op, inlined, quiet, loops>>

\* poll() returns after kPollTimeMs with nothing.
PollTimeout ==
    /\ ready = {} /\ wakeupFd_ = 0
    /\ Goto("poll", "handle")
    /\ UNCHANGED <<looping_, quit_, callingPendingFunctors_, queueVars, wakeupFd_,
                   eventVars, op, inlined, quiet, loops>>

\* handleRead(): the wakeup channel's handler resets the eventfd.
HandleWakeup ==
    /\ wakeupActive
    /\ Goto("handle", "handle")
    /\ wakeupActive' = FALSE
    /\ wakeupFd_' = 0
    /\ UNCHANGED <<looping_, quit_, callingPendingFunctors_, queueVars, ready,
                   toHandle, op, inlined, quiet, loops>>

\* currentActiveChannel_->handleEvent(): the callback consumes the event.
HandleEvent(c) ==
    /\ c \in toHandle
    /\ Goto("handle", "callback")
    /\ toHandle' = toHandle \ {c}
    /\ ready' = ready \ {c}
    /\ UNCHANGED <<looping_, quit_, callingPendingFunctors_, queueVars, wakeupFd_,
                   wakeupActive, op, inlined, quiet, loops>>

CallbackReturns ==
    /\ Goto("callback", "handle")
    /\ UNCHANGED <<looping_, quit_, callingPendingFunctors_, queueVars, wakeupFd_,
                   eventVars, op, inlined, quiet, loops>>

\* doPendingFunctors(): callingPendingFunctors_ = true;
FunctorsBegin ==
    /\ toHandle = {} /\ ~wakeupActive
    /\ Goto("handle", "swap")
    /\ callingPendingFunctors_' = TRUE
    /\ UNCHANGED <<looping_, quit_, queueVars, wakeupFd_,
                   eventVars, op, inlined, quiet, loops>>

\* Mutant: the pending functors are copied, not swapped out.
FunctorsSwap_Copy ==
    /\ Goto("swap", "run")
    /\ functors' = pendingFunctors_
    /\ UNCHANGED <<looping_, quit_, callingPendingFunctors_, pendingFunctors_, queued,
                   executed, wakeupFd_, eventVars, op, inlined, quiet, loops>>

\* functors.swap(pendingFunctors_) under the lock
FunctorsSwap ==
    /\ Goto("swap", "run")
    /\ functors' = pendingFunctors_
    /\ pendingFunctors_' = <<>>
    /\ UNCHANGED <<looping_, quit_, callingPendingFunctors_, queued, executed,
                   wakeupFd_, eventVars, op, inlined, quiet, loops>>

\* functors[i]()
RunFunctor ==
    /\ functors # <<>>
    /\ Goto("run", "functor")
    /\ executed' = Append(executed, Head(functors))
    /\ functors' = Tail(functors)
    /\ UNCHANGED <<looping_, quit_, callingPendingFunctors_, pendingFunctors_, queued,
                   wakeupFd_, eventVars, op, inlined, quiet, loops>>

FunctorReturns ==
    /\ Goto("functor", "run")
    /\ UNCHANGED <<looping_, quit_, callingPendingFunctors_, queueVars, wakeupFd_,
                   eventVars, op, inlined, quiet, loops>>

\* callingPendingFunctors_ = false;
FunctorsEnd ==
    /\ functors = <<>>
    /\ Goto("run", "test")
    /\ callingPendingFunctors_' = FALSE
    /\ UNCHANGED <<looping_, quit_, queueVars, wakeupFd_,
                   eventVars, op, inlined, quiet, loops>>

\* The kernel reports a new event on a channel.
EventArrives(c) ==
    /\ c \notin ready
    /\ ready' = ready \cup {c}
    /\ UNCHANGED <<pc, looping_, quit_, callingPendingFunctors_, queueVars, wakeupFd_,
                   toHandle, wakeupActive, op, inlined, quiet, loops>>

-----------------------------------------------------------------------------

\* The steps the loop thread takes on its own between two user points.
LoopStep ==
    \/ LoopResetQuit \/ LoopTest \/ LoopExit
    \/ PollReady
    \/ HandleWakeup \/ (\E c \in Channels : HandleEvent(c)) \/ CallbackReturns
    \/ FunctorsBegin \/ FunctorsSwap \/ RunFunctor \/ FunctorReturns \/ FunctorsEnd

CallStep(t) ==
    \/ \E f \in Functors : QueueInLoop(t, f) \/ RunInLoop(t, f)
    \/ wakeupFd_ < MaxWakeups /\ Quit(t)
    \/ Wakeup(t)

Next ==
    \/ LoopEnter
    \/ LoopStep
    \/ PollTimeout
    \/ \E t \in Threads : CallStep(t)
    \/ \E c \in Channels : EventArrives(c)

\* A thread that is scheduled finishes the call it is in; callbacks and
\* functors return.  PollTimeout gets no fairness: nothing below may depend
\* on the ten-second timeout of poll().
Fairness ==
    /\ WF_vars(LoopStep)
    /\ \A t \in Threads : WF_vars(Wakeup(t))

Spec == Init /\ [][Next]_vars

FairSpec == Spec /\ Fairness

-----------------------------------------------------------------------------
(* Properties.                                                             *)

\* Types; looping_ and callingPendingFunctors_ are true exactly while the loop
\* thread is inside loop() and inside doPendingFunctors() (EventLoop.cpp:94,
\* 118, 175, 186).
TypeOK ==
    /\ pc \in LoopPoints
    /\ looping_ \in BOOLEAN
    /\ looping_ <=> pc # "idle"
    /\ quit_ \in BOOLEAN
    /\ callingPendingFunctors_ \in BOOLEAN
    /\ callingPendingFunctors_ <=> pc \in {"swap", "run", "functor"}
    /\ pendingFunctors_ \in Seq(Functors)
    /\ functors \in Seq(Functors)
    /\ wakeupFd_ \in Nat
    /\ ready \subseteq Channels
    /\ toHandle \subseteq Channels
    /\ wakeupActive \in BOOLEAN
    /\ op \in [Threads -> {"none", "wakeup"}]
    /\ queued \in Seq(Functors)
    /\ executed \in Seq(Functors)
    /\ inlined \subseteq Functors
    /\ quiet \subseteq Functors
    /\ loops \in Nat

\* A wakeup has been written to the eventfd, or some thread is about to write it.
WakeupUnderway == wakeupFd_ > 0 \/ \E t \in Threads : op[t] = "wakeup"

\* No wakeup is lost (EventLoop.cpp:213): when the loop thread is in poll(),
\* every functor still pending was either queued by the loop thread itself
\* before it called loop(), or a write to the eventfd is there or on its way.
NoLostWakeup ==
    pc = "poll" => Range(pendingFunctors_) \subseteq quiet \/ WakeupUnderway

\* No quit is lost once loop() has reset quit_ (EventLoop.cpp:121): a loop
\* thread in poll() never has quit_ set without a wakeup there or on its way.
NoLostQuit ==
    pc = "poll" /\ quit_ => WakeupUnderway

\* The inductive strengthening of NoLostWakeup: it holds wherever the loop
\* thread is, except on the way from poll() to the swap, where whatever is
\* pending is about to be taken.
WakeupInv ==
    pc \notin {"handle", "callback", "swap"} =>
        Range(pendingFunctors_) \subseteq quiet \/ WakeupUnderway

\* Every functor pushed is in exactly one place and in the order it was
\* pushed: run already, in the local vector of doPendingFunctors, or pending.
\* Nothing is lost, duplicated or reordered by the swap (EventLoop.cpp:179).
FunctorsInOrder ==
    queued = executed \o functors \o pendingFunctors_

\* The inductive strengthening of FunctorsInOrder: the local vector is empty
\* when doPendingFunctors swaps.
FunctorsInv ==
    /\ FunctorsInOrder
    /\ pc \notin {"run", "functor"} => functors = <<>>

\* queueInLoop implements a serial executor: functors run one at a time, once
\* each, in the order the pushes took the lock.
Executor == INSTANCE SerialExecutor WITH accepted <- queued, done <- executed
ImplementsExecutor == Executor!Spec

\* A functor queued from another thread, or by user code running inside
\* loop(), runs without waiting for the poll timeout, unless the loop stops.
QueuedFunctorRuns ==
    \A f \in Functors :
        f \in Range(pendingFunctors_) \ quiet ~> f \in Range(executed) \/ ~looping_

\* quit() stops the loop once loop() is past the statement that resets quit_.
QuitStopsLoop ==
    (quit_ /\ looping_ /\ pc # "entered") ~> ~looping_

=============================================================================
