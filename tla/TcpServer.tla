------------------------------ MODULE TcpServer ------------------------------
(***************************************************************************)
(* tcp.muduo/TcpServer.cpp with Acceptor and EventLoopThreadPool: a base   *)
(* loop accepts connections and hands each to the next of its io loops;    *)
(* a connection that closes goes from its io loop to the base loop, which  *)
(* forgets it, and back to its io loop, which takes it apart.  With no io  *)
(* loops the base loop plays both parts.                                   *)
(*                                                                         *)
(* In this module programs use a connection from its own callbacks only;   *)
(* TcpServerUse.tla adds the other threads, the specification and what it  *)
(* promises.                                                               *)
(***************************************************************************)
EXTENDS TcpConnection

CONSTANTS Base,            \* the loop of the TcpServer
          Pool,            \* the loops an EventLoopThreadPool can start, a sequence
          Listener,        \* the channel of the Acceptor
          Used,            \* bound: the connections on which the program calls something
          MaxForces        \* bound on the calls of forceClose() on each connection

ASSUME ServerAssumption ==
    /\ Base \in Loops
    /\ Pool \in Seq(Loops \ {Base})
    /\ Loops = {Base} \cup {Pool[i] : i \in DOMAIN Pool}
    /\ NoConn \notin Conns \cup Loops
    /\ Listener \notin Conns
    /\ Used \subseteq Conns
    /\ MaxForces \in Nat

VARIABLES
    listenning,     \* TcpServer::start() has run
    loops_, next_,  \* loops_ and next_ of the EventLoopThreadPool
    connections_,   \* ConnectionMap
    forced          \* history: how often forceClose() found the connection open

serverVars == <<listenning, loops_, next_, connections_, forced>>
vars == <<connVars, eof, functors, loopVars, cb, failed, serverVars>>

Init ==
    /\ InitConnections
    /\ listenning = FALSE
    /\ loops_ = <<>>
    /\ next_ = 0
    /\ connections_ = {}
    /\ forced = [c \in Conns |-> 0]

\* EventLoopThreadPool::start() with the number given to setThreadNum()
PoolStart == \E numThreads \in 0..Len(Pool) : loops_' = SubSeq(Pool, 1, numThreads)

\* Acceptor::listen()
Listen == listenning' = TRUE

\* start(), in the base thread
Start ==
    /\ ~listenning /\ ~failed
    /\ pc[Base] = "poll"
    /\ PoolStart
    /\ Listen
    /\ UNCHANGED <<connVars, eof, functors, loopVars, cb, failed, next_, connections_, forced>>

-----------------------------------------------------------------------------
(* Accepting and forgetting connections.                                   *)

\* ++next_ in getNextLoop()
NextIndex == IF next_ + 1 >= Len(loops_) THEN 0 ELSE next_ + 1

GetNextLoop == IF loops_ = <<>> THEN Base ELSE loops_[next_ + 1]

\* newConnection(); runInLoop() calls
\* connectEstablished() at once when the base loop is the ioLoop.
NewConnection(c) ==
    LET io == GetNextLoop IN
    /\ loopOf[c] = NoConn
    /\ loopOf' = [loopOf EXCEPT ![c] = io]
    /\ next_' = IF loops_ = <<>> THEN next_ ELSE NextIndex
    /\ connections_' = connections_ \cup {c}
    /\ IF io = Base
       THEN ConnectEstablished(Base, c) /\ UNCHANGED functors
       ELSE /\ functors' = Push(functors, io, Functor("established", c))
            /\ UNCHANGED <<state_, events, added, outputBuffer_, sends, finSent, ups, downs, cb, failed>>
    /\ UNCHANGED <<eof, listenning, loops_, forced>>

\* Acceptor::handleRead() with a connection to accept
HandleAccept == \E new \in Conns : NewConnection(new)

\* Mutant: connectDestroyed() is queued in the base loop.
DestroyLoop_Base(c) == Base

\* ioLoop of removeConnectionInLoop()
DestroyLoop(c) == loopOf[c]

\* Mutant: the connection stays in the map.
MapWithout_Kept(c) == connections_

\* connections_.erase(conn->name())
MapWithout(c) == connections_ \ {c}

\* removeConnectionInLoop() with its assert(n == 1), on the queues q
RemoveConnectionInLoop(c, q) ==
    /\ failed' = (c \notin connections_)
    /\ connections_' = MapWithout(c)
    /\ functors' = Push(q, DestroyLoop(c), Functor("destroyed", c))

\* closeCallback_, removeConnection(): the base loop does the rest, on the spot
\* if it is the one that runs here.  The assertion of handleClose() comes first.
CloseCallback(l, c, q) ==
    IF ~IsOpen(c)
    THEN failed' = TRUE /\ functors' = q /\ UNCHANGED connections_
    ELSE IF l = Base
    THEN RemoveConnectionInLoop(c, q)
    ELSE /\ functors' = Push(q, Base, Functor("remove", c))
         /\ UNCHANGED <<failed, connections_>>

-----------------------------------------------------------------------------
(* The loops.                                                              *)

Idle(l) == cb[l] = NoCallback /\ ~failed

\* What poll() may report: the listening socket, any channel that waits for
\* input or output, and any hang-up of a channel that waits for something.
Pollable(l) ==
    {c \in Conns : loopOf[c] = l /\ added[c] /\ events[c] # {}}
    \cup (IF l = Base /\ listenning THEN {Listener} ELSE {})

Poll(l) ==
    /\ pc[l] = "poll" /\ Idle(l)
    /\ pc' = [pc EXCEPT ![l] = "dispatch"]
    /\ \E some \in SUBSET Pollable(l) :
          /\ some # {} \/ functors[l] # <<>>
          /\ \A c \in Conns \cap Pollable(l) : eof[c] => c \in some
          /\ ready' = [ready EXCEPT ![l] = some]
    /\ UNCHANGED <<connVars, eof, functors, left, cb, failed, serverVars>>

\* handleEvent() of a connection: data, end of file (or a hang-up that comes
\* without input), or nothing that has a callback ("out", an error).
DispatchConnection(l, c) ==
    \/ /\ "in" \in events[c] /\ ~eof[c]
       /\ HandleMessage(l, c)
       /\ UNCHANGED <<functors, connections_>>
    \/ /\ eof[c] /\ events[c] # {}
       /\ HandleClose(c)
       /\ CloseCallback(l, c, functors)
       /\ UNCHANGED cb
    \/ /\ IsWriting(c) /\ ~eof[c]
       /\ UNCHANGED <<connVars, functors, connections_, cb, failed>>

Dispatch(l) ==
    /\ pc[l] = "dispatch" /\ Idle(l)
    /\ \E c \in ready[l] :
          /\ ready' = [ready EXCEPT ![l] = @ \ {c}]
          /\ \/ c = Listener /\ HandleAccept
             \/ /\ c # Listener
                /\ DispatchConnection(l, c)
                /\ UNCHANGED <<eof, listenning, loops_, next_, forced>>
    /\ UNCHANGED <<pc, left>>

\* accept() finds that the peer has given up.
AcceptFails(l) ==
    /\ l = Base
    /\ pc[Base] = "dispatch" /\ Idle(Base)
    /\ Listener \in ready[Base]
    /\ ready' = [ready EXCEPT ![Base] = @ \ {Listener}]
    /\ UNCHANGED <<connVars, eof, functors, pc, left, cb, failed, serverVars>>

\* doPendingFunctors() takes what is queued at this moment.
DispatchEnds(l) ==
    /\ pc[l] = "dispatch" /\ Idle(l)
    /\ ready[l] = {}
    /\ pc' = [pc EXCEPT ![l] = IF functors[l] = <<>> THEN "poll" ELSE "functors"]
    /\ left' = [left EXCEPT ![l] = Len(functors[l])]
    /\ UNCHANGED <<connVars, eof, functors, ready, cb, failed, serverVars>>

\* One functor.
Run(l, f, q) ==
    \/ /\ f.op = "established"
       /\ ConnectEstablished(l, f.conn)
       /\ functors' = q
       /\ UNCHANGED <<loopOf, connections_>>
    \/ /\ f.op = "remove"
       /\ RemoveConnectionInLoop(f.conn, q)
       /\ UNCHANGED <<connVars, cb>>
    \/ /\ f.op = "destroyed"
       /\ ConnectDestroyed(l, f.conn)
       /\ functors' = q
       /\ UNCHANGED connections_
    \/ /\ f.op = "forceClose"          \* forceCloseInLoop()
       /\ IF IsOpen(f.conn)
          THEN HandleClose(f.conn) /\ CloseCallback(l, f.conn, q)
          ELSE functors' = q /\ UNCHANGED <<connVars, connections_, failed>>
       /\ UNCHANGED cb

RunFunctor(l) ==
    /\ pc[l] = "functors" /\ Idle(l)
    /\ left[l] > 0
    /\ left' = [left EXCEPT ![l] = @ - 1]
    /\ pc' = [pc EXCEPT ![l] = IF left[l] = 1 THEN "poll" ELSE "functors"]
    /\ Run(l, Head(functors[l]), [functors EXCEPT ![l] = Tail(@)])
    /\ UNCHANGED <<eof, ready, listenning, loops_, next_, forced>>

\* What a callback does with its own connection.
UserCall(l) ==
    LET c == cb[l].conn IN
    /\ c \in Used /\ ~failed
    /\ \/ Send(c) /\ UNCHANGED forced
       \/ Shutdown(c) /\ UNCHANGED forced
       \/ /\ forced[c] < MaxForces
          /\ ForceClose(c)
          /\ forced' = [forced EXCEPT ![c] = @ + 1]
    /\ UNCHANGED <<loopOf, ups, downs, eof, loopVars, cb, failed, listenning, loops_, next_,
                   connections_>>

LoopStep(l) ==
    \/ Poll(l) \/ Dispatch(l) \/ AcceptFails(l) \/ DispatchEnds(l)
    \/ RunFunctor(l)
    \/ CallbackReturns(l) /\ UNCHANGED serverVars

Next ==
    \/ Start
    \/ \E l \in Loops : LoopStep(l) \/ UserCall(l)
    \/ \E c \in Conns : PeerCloses(c) /\ UNCHANGED serverVars

-----------------------------------------------------------------------------

\* A TcpConnectionPtr exists somewhere in the server: in the map, in a functor,
\* or on the stack of a callback.
Owned(c) ==
    \/ c \in connections_
    \/ \E l \in Loops : \/ cb[l].conn = c
                        \/ \E i \in DOMAIN functors[l] :
                              functors[l][i].conn = c /\ functors[l][i].op \in OwningFunctors

\* handleClose() of the connection has run, and with it disableAll().
Closing(c) == ups[c] = 1 /\ events[c] = {}
=============================================================================
