---------------------------- MODULE TcpConnection ----------------------------
(***************************************************************************)
(* tcp.muduo/TcpConnection.cpp: what each connection keeps, and its        *)
(* operations as actions on that state.  TcpServer.tla gives the loops     *)
(* that call them.                                                         *)
(*                                                                         *)
(* A functor in a loop's queue is [op, conn]; one iteration of a loop polls, *)
(* calls the channels that are ready, and runs the functors that were      *)
(* queued by then (EventLoop.tla).                                         *)
(***************************************************************************)
EXTENDS Naturals, Sequences, FiniteSets

CONSTANTS Conns,         \* TcpConnection objects
          Loops,         \* event loops, one thread each
          NoConn,        \* no TcpConnection
          MaxSends       \* bound on the messages sent on each connection

VARIABLES
    loopOf,         \* the ioLoop of each connection
    state_,
    events,         \* events_ of channel_
    added,          \* addedToLoop_ of channel_: the poller has a pointer to it
    outputBuffer_,  \* number of messages with unsent bytes
    sends,          \* number of messages given to sendInLoop()
    finSent,        \* shutdownWrite() was called
    eof,            \* the end of the peer's data is what read() meets next
    ups, downs,     \* history: how often connectionCallback_ said UP and DOWN
    functors,       \* loop -> queue of functors
    pc,             \* loop -> "poll", "dispatch" or "functors"
    ready,          \* loop -> channels of activeChannels_ not yet called
    left,           \* loop -> functors of the current batch not yet run
    cb,             \* loop -> the user callback it runs, [kind, conn]
    failed          \* an assertion has failed: the program is over

NoCallback == [kind |-> "none", conn |-> NoConn]

connVars == <<loopOf, state_, events, added, outputBuffer_, sends, finSent, ups, downs>>
loopVars == <<pc, ready, left>>

InitConnections ==
    /\ loopOf = [c \in Conns |-> NoConn]
    /\ state_ = [c \in Conns |-> "kConnecting"]
    /\ events = [c \in Conns |-> {}]
    /\ added = [c \in Conns |-> FALSE]
    /\ outputBuffer_ = [c \in Conns |-> 0]
    /\ sends = [c \in Conns |-> 0]
    /\ finSent = [c \in Conns |-> FALSE]
    /\ eof = [c \in Conns |-> FALSE]
    /\ ups = [c \in Conns |-> 0]
    /\ downs = [c \in Conns |-> 0]
    /\ functors = [l \in Loops |-> <<>>]
    /\ pc = [l \in Loops |-> "poll"]
    /\ ready = [l \in Loops |-> {}]
    /\ left = [l \in Loops |-> 0]
    /\ cb = [l \in Loops |-> NoCallback]
    /\ failed = FALSE

Functor(op, c) == [op |-> op, conn |-> c]
Push(q, l, f) == [q EXCEPT ![l] = Append(@, f)]

\* Mutant: connectDestroyed is bound to a plain pointer.
OwningFunctors_NotDestroyed == {"established", "remove", "forceClose"}

\* Functors bound to a TcpConnectionPtr; send and shutdown are bound to this.
OwningFunctors == {"established", "remove", "destroyed", "forceClose"}

IsOpen(c) == state_[c] \in {"kConnected", "kDisconnecting"}
IsWriting(c) == "out" \in events[c]

\* Channel::update() after a change of events_
SetEvents(c, ev) ==
    /\ events' = [events EXCEPT ![c] = ev]
    /\ added' = [added EXCEPT ![c] = TRUE]

\* connectEstablished(), up to the return of connectionCallback_
ConnectEstablished(l, c) ==
    /\ failed' = (state_[c] # "kConnecting")
    /\ state_' = [state_ EXCEPT ![c] = "kConnected"]
    /\ SetEvents(c, events[c] \cup {"in"})
    /\ ups' = [ups EXCEPT ![c] = @ + 1]
    /\ cb' = [cb EXCEPT ![l] = [kind |-> "up", conn |-> c]]
    /\ UNCHANGED <<outputBuffer_, sends, finSent, downs>>

\* connectDestroyed(), up to the return of connectionCallback_
ConnectDestroyed(l, c) ==
    /\ failed' = ~IsOpen(c)
    /\ state_' = [state_ EXCEPT ![c] = "kDisconnected"]
    /\ SetEvents(c, {})
    /\ downs' = [downs EXCEPT ![c] = @ + 1]
    /\ cb' = [cb EXCEPT ![l] = [kind |-> "down", conn |-> c]]
    /\ UNCHANGED <<loopOf, outputBuffer_, sends, finSent, ups>>

\* connectDestroyed() removes the channel once connectionCallback_ has returned.
ChannelAfter(l) == IF cb[l].kind = "down" THEN [added EXCEPT ![cb[l].conn] = FALSE] ELSE added

\* A callback returns to the loop.
CallbackReturns(l) ==
    /\ cb[l] # NoCallback /\ ~failed
    /\ added' = ChannelAfter(l)
    /\ cb' = [cb EXCEPT ![l] = NoCallback]
    /\ UNCHANGED <<loopOf, state_, events, outputBuffer_, sends, finSent, ups, downs,
                   eof, functors, loopVars, failed>>

\* handleRead() with n > 0
HandleMessage(l, c) ==
    /\ cb' = [cb EXCEPT ![l] = [kind |-> "message", conn |-> c]]
    /\ UNCHANGED <<connVars, failed>>

\* Mutant: the channel still reports the end of file.
EventsAfterClose_Kept(c) == events[c]

\* disableAll() in handleClose()
EventsAfterClose(c) == {}

\* handleClose() up to closeCallback_; state_ does not change.
HandleClose(c) ==
    /\ SetEvents(c, EventsAfterClose(c))
    /\ UNCHANGED <<loopOf, state_, outputBuffer_, sends, finSent, ups, downs>>

\* sendInLoop(): the message is written at once, or some of it stays in
\* outputBuffer_ and the channel is asked for "out"; no write callback is ever
\* installed, so nothing takes it out again.
SendInLoop(c) ==
    /\ sends' = [sends EXCEPT ![c] = @ + 1]
    /\ \/ /\ ~IsWriting(c) /\ outputBuffer_[c] = 0
          /\ UNCHANGED <<outputBuffer_, events, added>>
       \/ /\ outputBuffer_' = [outputBuffer_ EXCEPT ![c] = @ + 1]
          /\ IF IsWriting(c) THEN UNCHANGED <<events, added>> ELSE SetEvents(c, events[c] \cup {"out"})
    /\ UNCHANGED finSent

\* Mutant: the socket is shut down whatever is left to write.
MayShutdown_Always(c) == TRUE

MayShutdown(c) == ~IsWriting(c)

\* shutdownInLoop()
ShutdownInLoop(c) ==
    /\ finSent' = [finSent EXCEPT ![c] = @ \/ MayShutdown(c)]
    /\ UNCHANGED <<events, added, outputBuffer_, sends>>

\* send(), shutdown() and forceClose() called in the ioLoop's thread
Send(c) ==
    /\ state_[c] = "kConnected"
    /\ sends[c] < MaxSends
    /\ SendInLoop(c)
    /\ UNCHANGED <<state_, functors>>

Shutdown(c) ==
    /\ state_[c] = "kConnected"
    /\ state_' = [state_ EXCEPT ![c] = "kDisconnecting"]
    /\ ShutdownInLoop(c)
    /\ UNCHANGED functors

ForceClose(c) ==
    /\ IsOpen(c)
    /\ state_' = [state_ EXCEPT ![c] = "kDisconnecting"]
    /\ functors' = Push(functors, loopOf[c], Functor("forceClose", c))
    /\ UNCHANGED <<events, added, outputBuffer_, sends, finSent>>

\* The peer closes its side of an accepted connection.
PeerCloses(c) ==
    /\ loopOf[c] # NoConn /\ ~failed
    /\ ~eof[c]
    /\ eof' = [eof EXCEPT ![c] = TRUE]
    /\ UNCHANGED <<connVars, functors, loopVars, cb, failed>>
=============================================================================
