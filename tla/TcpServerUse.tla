----------------------------- MODULE TcpServerUse -----------------------------
(***************************************************************************)
(* A TcpServer in use: besides calling send(), shutdown() and forceClose() *)
(* in the callbacks of a connection, a program may keep a TcpConnectionPtr *)
(* and call them in a thread that is not the ioLoop's.  Such a call tests  *)
(* state_ in one thread, and what it queues runs in another.               *)
(***************************************************************************)
EXTENDS TcpServer

CONSTANT MaxCalls    \* bound on the calls of the other thread on each connection

ASSUME UseAssumption == MaxCalls \in Nat

VARIABLES held,      \* connections to which the program has a TcpConnectionPtr
          user,      \* the call that the other thread has begun, [op, conn]
          calls,     \* history: how often the other thread has called on each connection
          late       \* history: connections whose functor of another thread ran after
                     \* handleClose(), or sent after the shutdown of the socket

useVars == <<held, user, calls, late>>
allVars == <<vars, useVars>>
NoCall == Functor("none", NoConn)

InitUse == Init /\ held = {} /\ user = NoCall /\ calls = [c \in Conns |-> 0] /\ late = {}

\* connectionCallback_ copies its argument.
Keep(l) ==
    /\ cb[l].kind = "up" /\ cb[l].conn \in Used /\ ~failed
    /\ held' = held \cup {cb[l].conn}
    /\ UNCHANGED <<vars, user, calls, late>>

\* The program drops its pointer.
Drop(c) ==
    /\ c \in held /\ user.conn # c /\ ~failed
    /\ held' = held \ {c}
    /\ UNCHANGED <<vars, user, calls, late>>

\* The test of state_ in send(), shutdown() or forceClose()
UserTests(op, c) ==
    /\ user = NoCall /\ ~failed
    /\ c \in held /\ calls[c] < MaxCalls
    /\ IF op = "forceClose" THEN IsOpen(c) /\ forced[c] < MaxForces ELSE state_[c] = "kConnected"
    /\ user' = Functor(op, c)
    /\ calls' = [calls EXCEPT ![c] = @ + 1]
    /\ forced' = IF op = "forceClose" THEN [forced EXCEPT ![c] = @ + 1] ELSE forced
    /\ UNCHANGED <<connVars, eof, functors, loopVars, cb, failed, listenning, loops_, next_,
                   connections_, held, late>>

\* setState() and runInLoop() or queueInLoop()
UserQueues ==
    /\ user # NoCall /\ ~failed
    /\ state_' = IF user.op = "send" THEN state_
                 ELSE [state_ EXCEPT ![user.conn] = "kDisconnecting"]
    /\ functors' = Push(functors, loopOf[user.conn], user)
    /\ user' = NoCall
    /\ UNCHANGED <<loopOf, events, added, outputBuffer_, sends, finSent, ups, downs, eof,
                   loopVars, cb, failed, serverVars, held, calls, late>>

Kept(c) == Owned(c) \/ c \in held

\* sendInLoop() and shutdownInLoop() as functors, bound to this: when the connection
\* no longer exists anything may happen.
RunUserFunctor(l) ==
    LET f == Head(functors[l]) IN
    /\ pc[l] = "functors" /\ Idle(l)
    /\ left[l] > 0
    /\ f.op \in {"send", "shutdown"}
    /\ left' = [left EXCEPT ![l] = @ - 1]
    /\ pc' = [pc EXCEPT ![l] = IF left[l] = 1 THEN "poll" ELSE "functors"]
    /\ functors' = [functors EXCEPT ![l] = Tail(@)]
    /\ IF f.op = "send" THEN SendInLoop(f.conn) ELSE ShutdownInLoop(f.conn)
    /\ failed' = ~Kept(f.conn)
    /\ late' = IF Closing(f.conn) \/ (f.op = "send" /\ finSent[f.conn])
               THEN late \cup {f.conn} ELSE late
    /\ UNCHANGED <<loopOf, state_, ups, downs, eof, ready, cb, serverVars, held, user, calls>>

LoopStepUse(l) == (LoopStep(l) /\ UNCHANGED useVars) \/ RunUserFunctor(l)

NextUse ==
    \/ Next /\ UNCHANGED useVars
    \/ \E l \in Loops : Keep(l) \/ RunUserFunctor(l)
    \/ \E c \in Conns : Drop(c) \/ \E op \in {"send", "shutdown", "forceClose"} : UserTests(op, c)
    \/ UserQueues

\* Loops run and callbacks return; a loop takes what poll() reports.
SpecUse ==
    /\ InitUse /\ [][NextUse]_allVars
    /\ \A l \in Loops : WF_allVars(LoopStepUse(l))

-----------------------------------------------------------------------------
(* Properties.                                                             *)

\* No assertion fails (the states connectEstablished(), handleClose() and
\* connectDestroyed() expect, assert(n == 1) of removeConnectionInLoop()), and no
\* functor meets a connection that is gone, but in two cases: a connection that is
\* to be closed twice, by two calls of forceClose() or by one and by its peer
\* (TcpConnection.cpp:79 and :216 leave state_ open for the second), and a call of
\* another thread whose functor comes after handleClose() (TcpConnection.cpp:149).
ClosedTwice(c) == forced[c] > 1 \/ (forced[c] > 0 /\ eof[c])
NoFailure == failed => \E c \in Conns : ClosedTwice(c) \/ c \in late

\* TcpServer.cpp:84: nothing ties the channel to its connection (Channel::tie()
\* is not called), so from connectEstablished() to the end of connectDestroyed()
\* some TcpConnectionPtr must keep the connection, and its channel in the
\* poller, alive.
RegisteredIsAlive == \A c \in Conns \ late : added[c] => Owned(c)

\* TcpServer.cpp:74-75: connectionCallback_ and messageCallback_ of a connection
\* run in its ioLoop: UP once, then messages, then DOWN once.
CallbackProtocol ==
    /\ \A c \in Conns : downs[c] <= ups[c] /\ ups[c] <= 1
    /\ \A l \in Loops : cb[l] # NoCallback =>
          LET c == cb[l].conn IN
          /\ loopOf[c] = l
          /\ ups[c] = 1
          /\ downs[c] = IF cb[l].kind = "down" THEN 1 ELSE 0

\* TcpConnection.cpp:210: the write side is shut down only when everything
\* that was sent has left outputBuffer_; only a send() that another thread began
\* before the shutdown is too late for that.
NothingSentAfterFin == \A c \in Conns \ late : finSent[c] => outputBuffer_[c] = 0

\* A connection whose peer closes is reported DOWN, leaves the poller and the
\* map, and nothing in the server keeps it, whatever the program calls on it.
PeerCloseEndsConnection ==
    \A c \in Used : eof[c] ~> (downs[c] = 1 /\ ~added[c] /\ ~Owned(c)) \/ failed \/ c \in late
=============================================================================
