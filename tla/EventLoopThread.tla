--------------------------- MODULE EventLoopThread ---------------------------
(***************************************************************************)
(* reactor.muduo/EventLoopThread.cpp with thread.muduo/Thread.cpp: an      *)
(* owner thread starts a thread whose function has an EventLoop on its     *)
(* stack, waits until that loop is published in loop_, uses it, and        *)
(* destroys the EventLoopThread.  The loop itself is module EventLoop,     *)
(* every step of which is interleaved with the owner's.                    *)
(***************************************************************************)
EXTENDS EventLoop

CONSTANT Owner      \* the thread that owns the EventLoopThread

ASSUME ThreadAssumption == Owner \in Others

VARIABLES
    loop_,    \* "NULL" or "loop"
    thr,      \* where threadFunc() is
    own       \* where the owner is

threadVars == <<loop_, thr, own>>
allVars == <<vars, threadVars>>

\* Owner: new -> check/asleep (startLoop) -> using -> quit -> quitting -> join
\*        -> gone, or using -> gone when ~EventLoopThread finds loop_ == NULL.
\* "crashed" is one outcome of a call on an EventLoop that no longer exists.
OwnerPoints == {"new", "check", "asleep", "using", "quit", "quitting", "join", "gone",
                "crashed"}
\* Thread: threadFunc's EventLoop is alive from "callback" up to "unwind".
ThreadPoints == {"none", "created", "construct", "callback", "looping", "unwind", "done"}

InitThread ==
    /\ Init
    /\ loop_ = "NULL"
    /\ thr = "none"
    /\ own = "new"

-----------------------------------------------------------------------------
(* The owner.                                                              *)

\* Thread::start(): pthread_create() of startThread()
ThreadStart == thr' = "created"

\* startLoop(): assert(!thread_.started()); thread_.start();
StartLoop ==
    /\ own = "new"
    /\ own' = "check"
    /\ ThreadStart
    /\ UNCHANGED <<vars, loop_>>

\* while (loop_ == NULL) cond_.Wait();  under mutex_
StartLoopCheck ==
    /\ own = "check"
    /\ own' = IF loop_ = "NULL" THEN "asleep" ELSE "using"
    /\ UNCHANGED <<vars, loop_, thr>>

\* The owner submits work or stops the loop through the returned pointer, as
\* long as nobody has stopped it.
OwnerUses ==
    /\ own = "using"
    /\ ~quit_
    /\ \/ \E f \in Functors : RunInLoop(Owner, f)
       \/ wakeupFd_ < MaxWakeups /\ Quit(Owner)
    /\ UNCHANGED threadVars

\* ~EventLoopThread(): exiting_ = true; if (loop_ != NULL) ... read without the lock
Destroy ==
    /\ own = "using"
    /\ op[Owner] = "none"
    /\ own' = IF loop_ = "NULL" THEN "gone" ELSE "quit"
    /\ UNCHANGED <<vars, loop_, thr>>

\* loop_->quit();
DestroyQuit ==
    /\ own = "quit"
    /\ own' = "quitting"
    /\ Quit(Owner)
    /\ UNCHANGED <<loop_, thr>>

\* Mutant: the destructor does not join.
DestroyJoin_Skipped ==
    /\ own = "quitting"
    /\ op[Owner] = "none"
    /\ own' = "gone"
    /\ UNCHANGED <<vars, loop_, thr>>

\* quit() has returned: thread_.join() is called
DestroyJoin ==
    /\ own = "quitting"
    /\ op[Owner] = "none"
    /\ own' = "join"
    /\ UNCHANGED <<vars, loop_, thr>>

\* pthread_join returns when the thread has ended
JoinReturns ==
    /\ own = "join"
    /\ thr = "done"
    /\ own' = "gone"
    /\ UNCHANGED <<vars, loop_, thr>>

OwnerWakeup == Wakeup(Owner) /\ UNCHANGED threadVars

\* quit(), or the wakeup() inside quit() or runInLoop(), on the stack frame of a thread
\* that has left threadFunc(): it may crash, or go on as if nothing happened.
OwnerCrash ==
    /\ thr = "done"
    /\ own = "quit" \/ op[Owner] = "wakeup"
    /\ own # "crashed"
    /\ own' = "crashed"
    /\ UNCHANGED <<vars, loop_, thr>>

-----------------------------------------------------------------------------
(* The thread: threadFunc().                                               *)

\* runInThread(): *tid_ = tid(), which is a member of the EventLoopThread; func_()
RunInThread ==
    /\ thr = "created"
    /\ thr' = "construct"
    /\ UNCHANGED <<vars, loop_, own>>

\* EventLoop loop;
Construct ==
    /\ thr = "construct"
    /\ thr' = "callback"
    /\ UNCHANGED <<vars, loop_, own>>

\* Mutant: loop_ is published without cond_.Signal().
Publish_NoSignal ==
    /\ thr = "callback"
    /\ op[LoopThread] = "none"
    /\ thr' = "looping"
    /\ loop_' = "loop"
    /\ UNCHANGED <<vars, own>>

\* loop_ = &loop; cond_.Signal();  under mutex_, then loop.loop()
Publish ==
    /\ thr = "callback"
    /\ op[LoopThread] = "none"
    /\ thr' = "looping"
    /\ loop_' = "loop"
    /\ own' = IF own = "asleep" THEN "check" ELSE own
    /\ UNCHANGED vars

\* The statements of loop(), called once.
ThreadLoops ==
    /\ thr = "looping"
    /\ LoopEnter \/ LoopStep \/ PollTimeout
    /\ UNCHANGED threadVars

\* The init callback, and the callbacks and functors run inside loop().
ThreadUserCode ==
    /\ thr = "callback" \/ (thr = "looping" /\ pc # "idle")
    /\ \/ \E f \in Functors : QueueInLoop(LoopThread, f)
       \/ wakeupFd_ < MaxWakeups /\ Quit(LoopThread)
       \/ Wakeup(LoopThread)
    /\ UNCHANGED threadVars

\* loop() has returned: loop_ = NULL; without the lock
ClearLoop ==
    /\ thr = "looping"
    /\ pc = "idle" /\ loops = 1
    /\ thr' = "unwind"
    /\ loop_' = "NULL"
    /\ UNCHANGED <<vars, own>>

\* ~EventLoop() on return of threadFunc: the thread ends
Unwind ==
    /\ thr = "unwind"
    /\ thr' = "done"
    /\ UNCHANGED <<vars, loop_, own>>

-----------------------------------------------------------------------------

ThreadStep ==
    \/ RunInThread \/ Construct \/ Publish \/ ClearLoop \/ Unwind
    \/ thr = "looping" /\ (LoopEnter \/ LoopStep) /\ UNCHANGED threadVars

OwnerStep ==
    StartLoopCheck \/ DestroyQuit \/ DestroyJoin \/ JoinReturns \/ OwnerWakeup

NextThread ==
    \/ StartLoop \/ StartLoopCheck \/ OwnerUses \/ Destroy \/ DestroyQuit
    \/ DestroyJoin \/ JoinReturns \/ OwnerWakeup \/ OwnerCrash
    \/ RunInThread \/ Construct \/ Publish \/ ThreadLoops \/ ThreadUserCode \/ ClearLoop \/ Unwind
    \/ \E c \in Channels : thr = "looping" /\ EventArrives(c) /\ UNCHANGED threadVars

\* Both threads are scheduled, and the calls and handlers in them return.
\* A spurious wakeup of cond_.Wait() is not needed and not assumed.
SpecThread ==
    /\ InitThread /\ [][NextThread]_allVars
    /\ WF_allVars(ThreadStep)
    /\ WF_allVars(OwnerStep)
    /\ WF_allVars(Wakeup(LoopThread) /\ UNCHANGED threadVars)

-----------------------------------------------------------------------------
(* Properties.                                                             *)

\* The thread does not touch the EventLoopThread object (its mutex_, cond_ and
\* loop_, the tid_ of its Thread) after ~EventLoopThread has finished without or
\* with join().
NoMemberUseAfterDestroy ==
    own = "gone" => thr \in {"unwind", "done"}

\* startLoop() returns once the thread runs, whatever the order of the wait and
\* the signal (EventLoopThread.cpp:36,54); it does not if the loop has been
\* stopped by code of its own thread before startLoop() looked at loop_.
StartLoopReturns ==
    own \in {"check", "asleep"} ~>
        own \notin {"check", "asleep"} \/ (thr = "done" /\ loop_ = "NULL")

\* loop() has passed the statement that resets quit_ (EventLoop.cpp:96).
LoopRunning == loops = 1 /\ pc # "entered"

\* A destructor that calls quit() on a loop that is running does not hang
\* (EventLoopThread.cpp:24-25): the loop stops, the thread ends and join()
\* returns.  A quit() before that is overwritten by quit_ = false.
DestructorEnds ==
    own = "quit" /\ LoopRunning ~> own \in {"gone", "crashed"}
=============================================================================
