--------------------------- MODULE EventLoopProofs ---------------------------
(***************************************************************************)
(* Proofs about EventLoop and EventLoopThread for every set of threads,    *)
(* functors and channels and every value of the bounds.                    *)
(***************************************************************************)
EXTENDS EventLoopThread, SequenceTheorems, TLAPS

\* Next without the bound on the calls of quit() by user code.  The destructor of
\* EventLoopThread is such a call: see DestroyQuit below.
LoopNext == Next \/ \E t \in Threads : Quit(t)

\* Pushing a functor adds it, and nothing else, to the pending ones.
LEMMA RangeOfAppend ==
    ASSUME NEW S, NEW s \in Seq(S), NEW e \in S
    PROVE  Range(Append(s, e)) = Range(s) \cup {e}
  <1>1. DOMAIN Append(s, e) = 1 .. Len(s) + 1 /\ DOMAIN s = 1 .. Len(s)
    OBVIOUS
  <1>2. Append(s, e)[Len(s) + 1] = e /\ \A i \in 1 .. Len(s) : Append(s, e)[i] = s[i]
    OBVIOUS
  <1>3. Len(s) \in Nat
    OBVIOUS
  <1>4. QED
    BY <1>1, <1>2, <1>3 DEF Range

\* Every step keeps the types.
LEMMA TypeStep ==
    ASSUME TypeOK, [LoopNext]_vars
    PROVE  TypeOK'
  <1> USE DEF TypeOK, LoopPoints, UserPoints, queueVars, eventVars
  <1>1. CASE LoopEnter
    BY <1>1 DEF LoopEnter, Goto
  <1>2. CASE LoopResetQuit
    BY <1>2 DEF LoopResetQuit, Goto
  <1>3. CASE LoopTest
    BY <1>3 DEF LoopTest, Goto
  <1>4. CASE LoopExit
    BY <1>4 DEF LoopExit, Goto
  <1>5. CASE PollReady
    BY <1>5 DEF PollReady, Goto
  <1>6. CASE PollTimeout
    BY <1>6 DEF PollTimeout, Goto
  <1>7. CASE HandleWakeup
    BY <1>7 DEF HandleWakeup, Goto
  <1>8. ASSUME NEW c \in Channels, HandleEvent(c)
        PROVE  TypeOK'
    BY <1>8 DEF HandleEvent, Goto
  <1>9. CASE CallbackReturns
    BY <1>9 DEF CallbackReturns, Goto
  <1>10. CASE FunctorsBegin
    BY <1>10 DEF FunctorsBegin, Goto
  <1>11. CASE FunctorsSwap
    BY <1>11 DEF FunctorsSwap, Goto
  <1>12. CASE RunFunctor
    BY <1>12 DEF RunFunctor, Goto
  <1>13. CASE FunctorReturns
    BY <1>13 DEF FunctorReturns, Goto
  <1>14. CASE FunctorsEnd
    BY <1>14 DEF FunctorsEnd, Goto
  <1>15. ASSUME NEW t \in Threads, NEW f \in Functors, QueueInLoop(t, f)
         PROVE  TypeOK'
    BY <1>15 DEF QueueInLoop, InUserCode
  <1>16. ASSUME NEW t \in Threads, NEW f \in Functors, RunInLoop(t, f)
         PROVE  TypeOK'
    BY <1>15, <1>16 DEF RunInLoop, InUserCode
  <1>17. ASSUME NEW t \in Threads, Quit(t)
         PROVE  TypeOK'
    BY <1>17 DEF Quit, InUserCode
  <1>18. ASSUME NEW t \in Threads, Wakeup(t)
         PROVE  TypeOK'
    BY <1>18 DEF Wakeup
  <1>19. ASSUME NEW c \in Channels, EventArrives(c)
         PROVE  TypeOK'
    BY <1>19 DEF EventArrives
  <1>20. CASE UNCHANGED vars
    BY <1>20 DEF vars
  <1>21. QED
    BY <1>1, <1>2, <1>3, <1>4, <1>5, <1>6, <1>7, <1>8, <1>9, <1>10, <1>11, <1>12,
       <1>13, <1>14, <1>15, <1>16, <1>17, <1>18, <1>19, <1>20
       DEF LoopNext, Next, LoopStep, CallStep

\* The loop starts in a state of the right type.
LEMMA InitTypeOK == Init => TypeOK
  <1> SUFFICES ASSUME Init PROVE TypeOK
    OBVIOUS
  <1>1. /\ pc \in LoopPoints
        /\ looping_ \in BOOLEAN /\ (looping_ <=> pc # "idle")
        /\ quit_ \in BOOLEAN /\ wakeupActive \in BOOLEAN
        /\ callingPendingFunctors_ \in BOOLEAN
        /\ callingPendingFunctors_ <=> pc \in {"swap", "run", "functor"}
    BY DEF Init, LoopPoints, UserPoints
  <1>2. op \in [Threads -> {"none", "wakeup"}]
    BY DEF Init
  <1>3. /\ pendingFunctors_ \in Seq(Functors) /\ functors \in Seq(Functors)
        /\ queued \in Seq(Functors) /\ executed \in Seq(Functors)
        /\ wakeupFd_ \in Nat /\ loops \in Nat
        /\ ready \subseteq Channels /\ toHandle \subseteq Channels
        /\ inlined \subseteq Functors /\ quiet \subseteq Functors
    BY DEF Init
  <1>4. QED
    BY <1>1, <1>2, <1>3 DEF TypeOK

\* Type correctness: in particular looping_ and callingPendingFunctors_ say
\* where the loop thread is.
THEOREM TypeCorrect == Spec => []TypeOK
  <1>1. Init => TypeOK
    BY InitTypeOK
  <1>2. TypeOK /\ [Next]_vars => TypeOK'
    BY TypeStep DEF LoopNext
  <1>3. QED
    BY <1>1, <1>2, PTL DEF Spec

-----------------------------------------------------------------------------

\* A step that changes neither the eventfd nor the calls in progress keeps a
\* wakeup underway.
LEMMA WakeupUnderwayKept ==
    ASSUME UNCHANGED <<wakeupFd_, op>>
    PROVE  WakeupUnderway' <=> WakeupUnderway
  BY DEF WakeupUnderway

\* A call that is about to write, or has just written, is a wakeup underway.
LEMMA WakeupUnderwayMade ==
    ASSUME TypeOK, NEW t \in Threads,
           \/ op' = [op EXCEPT ![t] = "wakeup"]
           \/ wakeupFd_' = wakeupFd_ + 1
    PROVE  WakeupUnderway'
  BY DEF WakeupUnderway, TypeOK

\* Every step keeps WakeupInv, which is inductive given TypeOK.
LEMMA WakeupStep ==
    ASSUME TypeOK, WakeupInv, [LoopNext]_vars
    PROVE  WakeupInv'
  <1>1. CASE LoopEnter \/ LoopResetQuit \/ LoopTest \/ LoopExit \/ FunctorReturns
    BY <1>1, WakeupUnderwayKept
       DEF LoopEnter, LoopResetQuit, LoopTest, LoopExit, FunctorReturns, Goto,
           WakeupInv, queueVars
  <1>2. CASE PollReady \/ PollTimeout \/ HandleWakeup \/ CallbackReturns \/ FunctorsBegin
    BY <1>2 DEF PollReady, PollTimeout, HandleWakeup, CallbackReturns, FunctorsBegin,
                Goto, WakeupInv
  <1>3. ASSUME NEW c \in Channels, HandleEvent(c)
        PROVE  WakeupInv'
    BY <1>3 DEF HandleEvent, Goto, WakeupInv
  <1>4. CASE FunctorsSwap
    <2>1. Range(pendingFunctors_') = {}
      BY <1>4 DEF FunctorsSwap, Range
    <2>2. QED
      BY <2>1 DEF WakeupInv
  <1>5. CASE RunFunctor \/ FunctorsEnd
    BY <1>5, WakeupUnderwayKept DEF RunFunctor, FunctorsEnd, Goto, WakeupInv, queueVars
  <1>6. ASSUME NEW t \in Threads, NEW f \in Functors, QueueInLoop(t, f)
        PROVE  WakeupInv'
    <2>1. CASE QueueWakes(t)
      <3>1. WakeupUnderway'
        BY <1>6, <2>1, WakeupUnderwayMade DEF QueueInLoop
      <3>2. QED
        BY <3>1 DEF WakeupInv
    <2>2. CASE ~QueueWakes(t) /\ pc = "callback"
      BY <1>6, <2>2 DEF QueueInLoop, WakeupInv
    <2>3. CASE ~QueueWakes(t) /\ pc # "callback"
      \* the loop thread, outside loop(): the functor is quiet
      <3>1. t = LoopThread /\ pc = "idle"
        BY <1>6, <2>3 DEF QueueInLoop, QueueWakes, InUserCode, UserPoints, TypeOK
      <3>2. quiet' = quiet \cup {f} /\ UNCHANGED <<wakeupFd_, op>>
        BY <1>6, <2>3, <3>1 DEF QueueInLoop
      <3>3. Range(pendingFunctors_') = Range(pendingFunctors_) \cup {f}
        BY <1>6, RangeOfAppend DEF QueueInLoop, TypeOK
      <3>4. Range(pendingFunctors_) \subseteq quiet \/ WakeupUnderway
        BY <3>1 DEF WakeupInv
      <3>5. QED
        BY <3>2, <3>3, <3>4, WakeupUnderwayKept DEF WakeupInv
    <2>4. QED
      BY <2>1, <2>2, <2>3
  <1>7. ASSUME NEW t \in Threads, NEW f \in Functors, RunInLoop(t, f)
        PROVE  WakeupInv'
    <2>1. CASE t = LoopThread
      BY <1>7, <2>1, WakeupUnderwayKept DEF RunInLoop, WakeupInv, queueVars
    <2>2. CASE t # LoopThread
      BY <1>6, <1>7, <2>2 DEF RunInLoop
    <2>3. QED
      BY <2>1, <2>2
  <1>8. ASSUME NEW t \in Threads, Quit(t)
        PROVE  WakeupInv'
    <2>1. CASE QuitWakes(t)
      <3>1. WakeupUnderway'
        BY <1>8, <2>1, WakeupUnderwayMade DEF Quit
      <3>2. QED
        BY <3>1 DEF WakeupInv
    <2>2. CASE ~QuitWakes(t)
      BY <1>8, <2>2, WakeupUnderwayKept DEF Quit, WakeupInv, queueVars
    <2>3. QED
      BY <2>1, <2>2
  <1>9. ASSUME NEW t \in Threads, Wakeup(t)
        PROVE  WakeupInv'
    <2>1. WakeupUnderway'
      BY <1>9, WakeupUnderwayMade DEF Wakeup
    <2>2. QED
      BY <2>1 DEF WakeupInv
  <1>10. ASSUME NEW c \in Channels, EventArrives(c)
         PROVE  WakeupInv'
    BY <1>10, WakeupUnderwayKept DEF EventArrives, WakeupInv, queueVars
  <1>11. CASE UNCHANGED vars
    BY <1>11, WakeupUnderwayKept DEF vars, WakeupInv, queueVars
  <1>12. QED
    BY <1>1, <1>2, <1>3, <1>4, <1>5, <1>6, <1>7, <1>8, <1>9, <1>10, <1>11
       DEF LoopNext, Next, LoopStep, CallStep

\* Nothing is pending at first.
LEMMA InitWakeupInv == Init => WakeupInv
  <1> SUFFICES ASSUME Init PROVE Range(pendingFunctors_) = {}
    BY DEF WakeupInv
  <1> QED
    BY DEF Init, Range

\* No wakeup is lost: whenever the loop thread is in poll(), every functor
\* pending was queued by the loop thread itself before loop(), or a write to
\* the eventfd is there or on its way.  WakeupInv is inductive given TypeOK.
THEOREM WakeupNeverLost == Spec => []NoLostWakeup
  <1>1. Init => WakeupInv
    BY InitWakeupInv
  <1>2. TypeOK /\ WakeupInv /\ [Next]_vars => WakeupInv'
    BY WakeupStep DEF LoopNext
  <1>3. WakeupInv => NoLostWakeup
    BY DEF WakeupInv, NoLostWakeup
  <1>4. QED
    BY <1>1, <1>2, <1>3, TypeCorrect, PTL DEF Spec

-----------------------------------------------------------------------------

\* Every step keeps NoLostQuit: only the test of quit_ leads to poll().
LEMMA QuitStep ==
    ASSUME TypeOK, NoLostQuit, [LoopNext]_vars
    PROVE  NoLostQuit'
  <1>1. CASE LoopEnter \/ LoopStep \/ PollTimeout
    \* only LoopTest leads to poll(), and it requires ~quit_
    <2>1. pc' = "poll" => ~quit_ /\ quit_' = quit_
      BY <1>1 DEF LoopEnter, LoopStep, PollTimeout, LoopResetQuit, LoopTest, LoopExit,
                  PollReady, HandleWakeup, HandleEvent, CallbackReturns, FunctorsBegin,
                  FunctorsSwap, RunFunctor, FunctorReturns, FunctorsEnd, Goto
    <2>2. QED
      BY <2>1 DEF NoLostQuit
  <1>2. ASSUME NEW t \in Threads, NEW f \in Functors, QueueInLoop(t, f)
        PROVE  NoLostQuit'
    <2>1. CASE QueueWakes(t)
      BY <1>2, <2>1, WakeupUnderwayMade DEF QueueInLoop, NoLostQuit
    <2>2. CASE ~QueueWakes(t)
      BY <1>2, <2>2, WakeupUnderwayKept DEF QueueInLoop, NoLostQuit
    <2>3. QED
      BY <2>1, <2>2
  <1>3. ASSUME NEW t \in Threads, NEW f \in Functors, RunInLoop(t, f)
        PROVE  NoLostQuit'
    <2>1. CASE t = LoopThread
      BY <1>3, <2>1, WakeupUnderwayKept DEF RunInLoop, NoLostQuit
    <2>2. CASE t # LoopThread
      BY <1>2, <1>3, <2>2 DEF RunInLoop
    <2>3. QED
      BY <2>1, <2>2
  <1>4. ASSUME NEW t \in Threads, Quit(t)
        PROVE  NoLostQuit'
    <2>1. CASE QuitWakes(t)
      BY <1>4, <2>1, WakeupUnderwayMade DEF Quit, NoLostQuit
    <2>2. CASE ~QuitWakes(t)
      \* the loop thread itself, which is not in poll()
      BY <1>4, <2>2 DEF Quit, QuitWakes, InUserCode, UserPoints, NoLostQuit
    <2>3. QED
      BY <2>1, <2>2
  <1>5. ASSUME NEW t \in Threads, Wakeup(t)
        PROVE  NoLostQuit'
    BY <1>5, WakeupUnderwayMade DEF Wakeup, NoLostQuit
  <1>6. ASSUME NEW c \in Channels, EventArrives(c)
        PROVE  NoLostQuit'
    BY <1>6, WakeupUnderwayKept DEF EventArrives, NoLostQuit
  <1>7. CASE UNCHANGED vars
    BY <1>7, WakeupUnderwayKept DEF vars, NoLostQuit
  <1>8. QED
    BY <1>1, <1>2, <1>3, <1>4, <1>5, <1>6, <1>7 DEF LoopNext, Next, CallStep

\* No quit is lost after loop() has reset quit_: in poll() with quit_ set, a
\* write to the eventfd is there or on its way.
THEOREM QuitNeverLost == Spec => []NoLostQuit
  <1>1. Init => NoLostQuit
    BY DEF Init, NoLostQuit
  <1>2. TypeOK /\ NoLostQuit /\ [Next]_vars => NoLostQuit'
    BY QuitStep DEF LoopNext
  <1>3. QED
    BY <1>1, <1>2, TypeCorrect, PTL DEF Spec

-----------------------------------------------------------------------------

\* Running the first functor moves it from the vector to the executed ones.
LEMMA MoveHead ==
    ASSUME NEW S, NEW s \in Seq(S), NEW t \in Seq(S), t # <<>>
    PROVE  Append(s, Head(t)) \o Tail(t) = s \o t
  <1>1. Head(t) \in S /\ Tail(t) \in Seq(S) /\ Len(Tail(t)) = Len(t) - 1
    BY HeadTailProperties
  <1>2. Append(s, Head(t)) \in Seq(S) /\ Len(Append(s, Head(t))) = Len(s) + 1
    BY <1>1
  <1>3. /\ Append(s, Head(t)) \o Tail(t) \in Seq(S)
        /\ s \o t \in Seq(S)
        /\ Len(Append(s, Head(t)) \o Tail(t)) = Len(s \o t)
    BY <1>1, <1>2, ConcatProperties, LenProperties
  <1>4. ASSUME NEW i \in 1 .. Len(s \o t)
        PROVE  (Append(s, Head(t)) \o Tail(t))[i] = (s \o t)[i]
    BY <1>1, <1>2, ConcatProperties, LenProperties, HeadTailProperties
  <1>5. QED
    BY <1>3, <1>4, SeqEqual

\* Pushing at the end of the last part pushes at the end of the whole.
LEMMA AppendToLast ==
    ASSUME NEW S, NEW s \in Seq(S), NEW t \in Seq(S), NEW e \in S
    PROVE  s \o Append(t, e) = Append(s \o t, e)
  <1>1. <<e>> \in Seq(S) /\ s \o t \in Seq(S)
    BY ConcatProperties
  <1>2. Append(t, e) = t \o <<e>> /\ Append(s \o t, e) = (s \o t) \o <<e>>
    BY <1>1, AppendIsConcat
  <1>3. QED
    BY <1>1, <1>2, ConcatAssociative

\* Every step keeps FunctorsInv: the swap is into an empty vector.
LEMMA FunctorsStep ==
    ASSUME TypeOK, FunctorsInv, [LoopNext]_vars
    PROVE  FunctorsInv'
  <1>1. CASE FunctorsSwap
    <2>1. functors = <<>>
      BY <1>1 DEF FunctorsSwap, Goto, FunctorsInv
    <2>2. executed \o functors = executed /\ executed \o pendingFunctors_ \in Seq(Functors)
      BY <2>1, ConcatEmptySeq, ConcatProperties DEF TypeOK
    <2>3. queued = (executed \o pendingFunctors_) \o <<>>
      BY <2>2, ConcatEmptySeq DEF FunctorsInv, FunctorsInOrder
    <2>4. QED
      BY <1>1, <2>3 DEF FunctorsSwap, Goto, FunctorsInv, FunctorsInOrder
  <1>2. CASE RunFunctor
    <2>1. executed' \o functors' = executed \o functors
      BY <1>2, MoveHead DEF RunFunctor, TypeOK
    <2>2. QED
      BY <1>2, <2>1 DEF RunFunctor, Goto, FunctorsInv, FunctorsInOrder
  <1>3. ASSUME NEW t \in Threads, NEW f \in Functors, QueueInLoop(t, f)
        PROVE  FunctorsInv'
    <2>1. executed \o functors \in Seq(Functors)
      BY ConcatProperties DEF TypeOK
    <2>2. (executed \o functors) \o Append(pendingFunctors_, f)
             = Append((executed \o functors) \o pendingFunctors_, f)
      BY <2>1, AppendToLast DEF TypeOK
    <2>3. QED
      BY <1>3, <2>2 DEF QueueInLoop, FunctorsInv, FunctorsInOrder
  <1>4. ASSUME NEW t \in Threads, NEW f \in Functors, RunInLoop(t, f)
        PROVE  FunctorsInv'
    BY <1>3, <1>4 DEF RunInLoop, FunctorsInv, FunctorsInOrder, queueVars
  <1>5. CASE \/ LoopEnter \/ LoopResetQuit \/ LoopTest \/ LoopExit \/ PollReady
             \/ PollTimeout \/ HandleWakeup \/ CallbackReturns \/ FunctorsBegin
             \/ FunctorReturns \/ FunctorsEnd
    BY <1>5 DEF LoopEnter, LoopResetQuit, LoopTest, LoopExit, PollReady, PollTimeout,
                HandleWakeup, CallbackReturns, FunctorsBegin, FunctorReturns,
                FunctorsEnd, Goto, FunctorsInv, FunctorsInOrder, queueVars
  <1>6. ASSUME NEW c \in Channels, HandleEvent(c) \/ EventArrives(c)
        PROVE  FunctorsInv'
    BY <1>6 DEF HandleEvent, EventArrives, Goto, FunctorsInv, FunctorsInOrder, queueVars
  <1>7. ASSUME NEW t \in Threads, Quit(t) \/ Wakeup(t)
        PROVE  FunctorsInv'
    BY <1>7 DEF Quit, Wakeup, FunctorsInv, FunctorsInOrder, queueVars
  <1>8. CASE UNCHANGED vars
    BY <1>8 DEF vars, FunctorsInv, FunctorsInOrder, queueVars
  <1>9. QED
    BY <1>1, <1>2, <1>3, <1>4, <1>5, <1>6, <1>7, <1>8 DEF LoopNext, Next, LoopStep, CallStep

\* The inductive form of FunctorsInOrder: doPendingFunctors() swaps into an empty
\* vector.
LEMMA FunctorsInvariant == Spec => []FunctorsInv
  <1>1. Init => FunctorsInv
    BY DEF Init, FunctorsInv, FunctorsInOrder
  <1>2. TypeOK /\ FunctorsInv /\ [Next]_vars => FunctorsInv'
    BY FunctorsStep DEF LoopNext
  <1>3. QED
    BY <1>1, <1>2, TypeCorrect, PTL DEF Spec

\* Functors run in the order they were pushed, each once, and none is dropped
\* between queueInLoop() and doPendingFunctors().
THEOREM FunctorsRunInOrder == Spec => []FunctorsInOrder
  <1>1. FunctorsInv => FunctorsInOrder
    BY DEF FunctorsInv
  <1>2. QED
    BY <1>1, FunctorsInvariant, PTL

\* Every step is a step of the serial executor, or one it does not see.
LEMMA ExecutorStep ==
    ASSUME TypeOK, FunctorsInv, [LoopNext]_vars
    PROVE  [Executor!Next]_<<queued, executed>>
  <1>1. CASE RunFunctor
    <2>1. functors # <<>> /\ functors \in Seq(Functors) /\ executed \in Seq(Functors)
          /\ pendingFunctors_ \in Seq(Functors)
      BY <1>1 DEF RunFunctor, TypeOK
    <2>2. Len(functors) \in Nat \ {0} /\ Head(functors) = functors[1]
      BY <2>1, EmptySeq
    <2>3. /\ executed \o functors \in Seq(Functors)
          /\ Len(executed \o functors) = Len(executed) + Len(functors)
          /\ (executed \o functors)[Len(executed) + 1] = functors[1]
      BY <2>1, <2>2, ConcatProperties, LenProperties
    <2>4. /\ Len(queued) = Len(executed \o functors) + Len(pendingFunctors_)
          /\ queued[Len(executed) + 1] = (executed \o functors)[Len(executed) + 1]
      BY <2>1, <2>2, <2>3, ConcatProperties, LenProperties
         DEF FunctorsInv, FunctorsInOrder
    <2>5. Len(executed) < Len(queued) /\ queued[Len(executed) + 1] = Head(functors)
      BY <2>1, <2>2, <2>3, <2>4, LenProperties
    <2>6. Executor!Run
      BY <1>1, <2>5 DEF RunFunctor, Executor!Run
    <2>7. QED
      BY <2>6 DEF Executor!Next
  <1>2. ASSUME NEW t \in Threads, NEW f \in Functors, QueueInLoop(t, f)
        PROVE  Executor!Next
    BY <1>2 DEF QueueInLoop, Executor!Next, Executor!Accept
  <1>3. ASSUME NEW t \in Threads, NEW f \in Functors, RunInLoop(t, f)
        PROVE  [Executor!Next]_<<queued, executed>>
    BY <1>2, <1>3 DEF RunInLoop, queueVars
  <1>4. CASE \/ LoopEnter \/ LoopResetQuit \/ LoopTest \/ LoopExit \/ PollReady
             \/ PollTimeout \/ HandleWakeup \/ CallbackReturns \/ FunctorsBegin
             \/ FunctorsSwap \/ FunctorReturns \/ FunctorsEnd
    BY <1>4 DEF LoopEnter, LoopResetQuit, LoopTest, LoopExit, PollReady, PollTimeout,
                HandleWakeup, CallbackReturns, FunctorsBegin, FunctorsSwap,
                FunctorReturns, FunctorsEnd, queueVars
  <1>5. ASSUME NEW c \in Channels, HandleEvent(c) \/ EventArrives(c)
        PROVE  UNCHANGED <<queued, executed>>
    BY <1>5 DEF HandleEvent, EventArrives, queueVars
  <1>6. ASSUME NEW t \in Threads, Quit(t) \/ Wakeup(t)
        PROVE  UNCHANGED <<queued, executed>>
    BY <1>6 DEF Quit, Wakeup, queueVars
  <1>7. CASE UNCHANGED vars
    BY <1>7 DEF vars, queueVars
  <1>8. QED
    BY <1>1, <1>2, <1>3, <1>4, <1>5, <1>6, <1>7 DEF LoopNext, Next, LoopStep, CallStep

\* The loop implements a serial executor: the detailed specification, with its
\* threads, its mutex and its two vectors, refines SerialExecutor.
THEOREM LoopImplementsExecutor == Spec => ImplementsExecutor
  <1>1. Init => Executor!Init
    BY DEF Init, Executor!Init
  <1>2. TypeOK /\ FunctorsInv /\ [Next]_vars => [Executor!Next]_<<queued, executed>>
    BY ExecutorStep DEF LoopNext
  <1>3. QED
    BY <1>1, <1>2, TypeCorrect, FunctorsInvariant, PTL
       DEF Spec, ImplementsExecutor, Executor!Spec, Executor!executorVars


-----------------------------------------------------------------------------
(* EventLoopThread.  The steps of the owner and of threadFunc() are steps  *)
(* of EventLoop, so what is shown of a loop holds of the loop in a thread. *)

\* Where the owner and the thread can be at the same time: loop_ is set exactly
\* while the thread is inside loop(); an owner that has been told of the loop
\* has seen it run; an owner that is done has seen loop_ == NULL or joined.
ThreadInv ==
    /\ own \in OwnerPoints
    /\ thr \in ThreadPoints
    /\ own = "new" <=> thr = "none"
    /\ loop_ = IF thr = "looping" THEN "loop" ELSE "NULL"
    /\ own \notin {"new", "check", "asleep"} => thr \in {"looping", "unwind", "done"}
    /\ NoMemberUseAfterDestroy

\* Every step of the owner and of the thread keeps ThreadInv.
LEMMA ThreadInvStep ==
    ASSUME ThreadInv, [NextThread]_allVars
    PROVE  ThreadInv'
  <1> USE DEF ThreadInv, OwnerPoints, ThreadPoints, NoMemberUseAfterDestroy
  <1>1. CASE StartLoop \/ StartLoopCheck
    BY <1>1 DEF StartLoop, StartLoopCheck, ThreadStart
  <1>2. CASE Destroy
    \* loop_ is NULL only if the thread has left loop()
    BY <1>2 DEF Destroy
  <1>3. CASE DestroyQuit \/ DestroyJoin \/ JoinReturns \/ OwnerCrash
    BY <1>3 DEF DestroyQuit, DestroyJoin, JoinReturns, OwnerCrash
  <1>4. CASE RunInThread \/ Construct \/ ClearLoop \/ Unwind
    BY <1>4 DEF RunInThread, Construct, ClearLoop, Unwind
  <1>5. CASE Publish
    BY <1>5 DEF Publish
  <1>6. CASE OwnerUses \/ OwnerWakeup \/ ThreadLoops \/ ThreadUserCode
    BY <1>6 DEF OwnerUses, OwnerWakeup, ThreadLoops, ThreadUserCode, threadVars
  <1>7. ASSUME NEW c \in Channels, thr = "looping" /\ EventArrives(c) /\ UNCHANGED threadVars
        PROVE  ThreadInv'
    BY <1>7 DEF threadVars
  <1>8. CASE UNCHANGED allVars
    BY <1>8 DEF allVars, threadVars
  <1>9. QED
    BY <1>1, <1>2, <1>3, <1>4, <1>5, <1>6, <1>7, <1>8 DEF NextThread

\* The thread never touches a member of an EventLoopThread that has been
\* destroyed: a destructor that does not join has read loop_ == NULL, which the
\* thread writes as its last access (EventLoopThread.cpp:22-27, 58).
THEOREM ThreadOutlivesNoMember == SpecThread => []NoMemberUseAfterDestroy
  <1>1. InitThread => ThreadInv
    BY DEF InitThread, ThreadInv, OwnerPoints, ThreadPoints, NoMemberUseAfterDestroy
  <1>2. ThreadInv => NoMemberUseAfterDestroy
    BY DEF ThreadInv
  <1>3. QED
    BY <1>1, <1>2, ThreadInvStep, PTL DEF SpecThread

-----------------------------------------------------------------------------

\* Every step of the composition is a step of the loop, of a thread that uses
\* it, or changes nothing of the loop.
LEMMA ThreadStepIsLoopStep ==
    ASSUME [NextThread]_allVars
    PROVE  [LoopNext]_vars
  <1>1. Owner \in Threads /\ LoopThread \in Threads
    BY ThreadAssumption DEF Threads
  <1>2. CASE StartLoop \/ StartLoopCheck \/ Destroy \/ DestroyJoin \/ JoinReturns \/ OwnerCrash
    BY <1>2 DEF StartLoop, StartLoopCheck, Destroy, DestroyJoin, JoinReturns, OwnerCrash
  <1>3. CASE RunInThread \/ Construct \/ Publish \/ ClearLoop \/ Unwind
    BY <1>3 DEF RunInThread, Construct, Publish, ClearLoop, Unwind
  <1>4. CASE DestroyQuit
    BY <1>1, <1>4 DEF DestroyQuit, LoopNext
  <1>5. CASE OwnerUses
    BY <1>1, <1>5 DEF OwnerUses, LoopNext, Next, CallStep
  <1>6. CASE OwnerWakeup
    BY <1>1, <1>6 DEF OwnerWakeup, LoopNext, Next, CallStep
  <1>7. CASE ThreadLoops
    BY <1>7 DEF ThreadLoops, LoopNext, Next
  <1>8. CASE ThreadUserCode
    BY <1>1, <1>8 DEF ThreadUserCode, LoopNext, Next, CallStep
  <1>9. ASSUME NEW c \in Channels, EventArrives(c)
        PROVE  LoopNext
    BY <1>9 DEF LoopNext, Next
  <1>10. CASE UNCHANGED allVars
    BY <1>10 DEF allVars
  <1>11. QED
    BY <1>2, <1>3, <1>4, <1>5, <1>6, <1>7, <1>8, <1>9, <1>10 DEF NextThread

\* The loop of an EventLoopThread loses no wakeup and no quit() made while it
\* runs, the destructor's included, and runs the functors in the order they were
\* queued, wherever the owner is between startLoop() and the end of join().
THEOREM ThreadLoopIsReliable == SpecThread => [](NoLostWakeup /\ NoLostQuit /\ FunctorsInOrder)
  <1> DEFINE LoopInv == TypeOK /\ WakeupInv /\ NoLostQuit /\ FunctorsInv
  <1>1. InitThread => LoopInv
    BY InitTypeOK, InitWakeupInv
       DEF InitThread, Init, NoLostQuit, FunctorsInv, FunctorsInOrder
  <1>2. LoopInv /\ [NextThread]_allVars => LoopInv'
    BY ThreadStepIsLoopStep, TypeStep, WakeupStep, QuitStep, FunctorsStep
  <1>3. LoopInv => NoLostWakeup /\ NoLostQuit /\ FunctorsInOrder
    BY DEF WakeupInv, NoLostWakeup, FunctorsInv
  <1> HIDE DEF LoopInv
  <1>4. QED
    BY <1>1, <1>2, <1>3, PTL DEF SpecThread

\* The composition implements the serial executor too: the owner may rely on it
\* up to and during the destruction of the EventLoopThread.
THEOREM ThreadImplementsExecutor == SpecThread => ImplementsExecutor
  <1> DEFINE Inv == TypeOK /\ FunctorsInv
  <1>1. InitThread => Inv /\ Executor!Init
    BY InitTypeOK DEF InitThread, Init, FunctorsInv, FunctorsInOrder, Executor!Init
  <1>2. Inv /\ [NextThread]_allVars => Inv' /\ [Executor!Next]_<<queued, executed>>
    BY ThreadStepIsLoopStep, TypeStep, FunctorsStep, ExecutorStep
  <1> HIDE DEF Inv
  <1>3. QED
    BY <1>1, <1>2, PTL
       DEF SpecThread, ImplementsExecutor, Executor!Spec, Executor!executorVars
=============================================================================
