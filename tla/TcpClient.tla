------------------------------ MODULE TcpClient ------------------------------
(***************************************************************************)
(* tcp.muduo/TcpClient.cc with its Connector and its connection.           *)
(*                                                                         *)
(* The program calls connect(), stop() and disconnect() in any order and   *)
(* as often as it likes, one at a time, from another thread, from the loop *)
(* thread or from the connection's callbacks, and destroys the client in   *)
(* the loop thread.  A call of the other thread takes one step for each    *)
(* thing it shares with the loop.  Callbacks may take longer than timers.  *)
(* A TcpConnection is named by its descriptor, which it keeps open as long *)
(* as some TcpConnectionPtr exists; conn says what became of it.           *)
(***************************************************************************)
EXTENDS Connector

CONSTANT MaxCalls    \* bound: the calls that the program makes

\* What poll() reports besides descriptors.
ASSUME ClientAssumption == "connector" \notin Fds /\ "timer" \notin Fds /\ MaxCalls \in Nat

VARIABLES
    client,           \* the TcpClient exists
    retry_, cconnect_,\* retry_ and connect_ of the TcpClient
    connection_,
    conn,             \* descriptor -> state_ of its TcpConnection, or "none"
    watched,          \* connections whose channel waits for input
    eof,              \* connections whose peer has closed
    detached,         \* connections with detail::removeConnection as closeCallback_
    cb,               \* the user callback that runs, [kind, fd]
    restarting,       \* removeConnection() is about to call restart()
    other,            \* what is left of the other thread's call
    calls,            \* how many calls the program has made
    stopped,          \* history: stop() was called, and no connect() since
    overruled,        \* history: restart() came after the connect_ = false of that stop()
    careless          \* history: the client was used as it must not be

clientVars == <<client, retry_, cconnect_, connection_>>
connVars == <<conn, watched, eof, detached>>
historyVars == <<calls, stopped, overruled, careless>>
vars == <<connectorVars, open, functors, timers, loopVars, failed,
          clientVars, connVars, cb, restarting, other, historyVars>>

NoCallback == [kind |-> "none", fd |-> NoFd]

Init ==
    /\ InitConnector
    /\ client = TRUE
    /\ retry_ \in BOOLEAN              \* enableRetry()
    /\ cconnect_ = TRUE
    /\ connection_ = NoFd
    /\ conn = [fd \in Fds |-> "none"]
    /\ watched = {} /\ eof = {} /\ detached = {}
    /\ cb = NoCallback
    /\ restarting = FALSE
    /\ other = <<>>
    /\ calls = 0 /\ stopped = FALSE
    /\ overruled = FALSE /\ careless = FALSE

IsOpen(c) == conn[c] \in {"kConnected", "kDisconnecting"}

\* A TcpConnectionPtr to c: the client's, a functor's or the one of a callback.
OwningFunctors == {"destroyed", "forceClose"}
Held(c) ==
    \/ connection_ = c
    \/ cb.fd = c
    \/ \E i \in DOMAIN functors : functors[i].fd = c /\ functors[i].op \in OwningFunctors

\* The connections that nobody holds after this step are deleted and their
\* sockets closed; ~TcpConnection asserts that connectDestroyed() has run.
Release ==
    LET dead == {c \in Fds : conn[c] # "none" /\ ~(Held(c)')} IN
    /\ conn' = [c \in Fds |-> IF c \in dead THEN "none" ELSE conn[c]]
    /\ open' = open \ dead
    /\ watched' = watched \ dead
    /\ eof' = eof \ dead
    /\ detached' = detached \ dead
    /\ failed' = (\E c \in dead : conn[c] # "kDisconnected")

-----------------------------------------------------------------------------
(* The connection.                                                         *)

\* newConnection(): up to the return of connectionCallback_
NewConnection(fd) ==
    /\ connection_' = fd
    /\ conn' = [conn EXCEPT ![fd] = "kConnected"]
    /\ watched' = watched \cup {fd}
    /\ cb' = [kind |-> "up", fd |-> fd]
    /\ failed' = (~client \/ conn[fd] # "none")
    /\ UNCHANGED <<client, retry_, cconnect_, eof, detached, restarting>>

Reconnects == retry_ /\ cconnect_

\* Mutant: the closeCallback_ that the destroyed client leaves behind does nothing.
QueueDestroyed_NotDetached(c, q) ==
    IF c \in detached THEN q ELSE Append(q, Functor("destroyed", c))

\* queueInLoop(connectDestroyed)
QueueDestroyed(c, q) == Append(q, Functor("destroyed", c))

\* handleClose() with either closeCallback_: removeConnection(), up to
\* connector_->restart(), or detail::removeConnection()
HandleClose(c, q) ==
    /\ watched' = watched \ {c}
    /\ functors' = QueueDestroyed(c, q)
    /\ IF c \in detached
       THEN failed' = ~IsOpen(c) /\ UNCHANGED <<connection_, restarting>>
       ELSE /\ failed' = (~IsOpen(c) \/ ~client \/ connection_ # c)
            /\ connection_' = NoFd
            /\ restarting' = Reconnects
    /\ UNCHANGED <<client, retry_, cconnect_, conn, eof, detached, cb>>

\* connectDestroyed() up to the return of connectionCallback_
ConnectDestroyed(c, q) ==
    /\ failed' = ~IsOpen(c)
    /\ conn' = [conn EXCEPT ![c] = "kDisconnected"]
    /\ watched' = watched \ {c}
    /\ cb' = [kind |-> "down", fd |-> c]
    /\ functors' = q
    /\ UNCHANGED <<clientVars, eof, detached, restarting>>

\* A callback returns; connectDestroyed() then removes the channel.
CallbackReturns ==
    /\ cb # NoCallback /\ ~failed /\ ~restarting
    /\ cb' = NoCallback
    /\ UNCHANGED <<functors, connection_>>
    /\ Release
    /\ UNCHANGED <<connectorVars, timers, loopVars, client, retry_, cconnect_,
                   restarting, other, historyVars>>

\* The end of removeConnection(): connector_->restart()
RestartConnector ==
    /\ restarting /\ ~failed
    /\ restarting' = FALSE
    /\ Restart
    /\ overruled' = (overruled \/ (stopped /\ \A i \in DOMAIN other : other[i] # "connect_ = false"))
    /\ UNCHANGED <<functors, loopVars, clientVars, connVars, cb, other, calls, stopped, careless>>

PeerCloses(c) ==
    /\ IsOpen(c) /\ c \notin eof /\ ~failed
    /\ eof' = eof \cup {c}
    /\ UNCHANGED <<connectorVars, open, functors, timers, loopVars, failed, clientVars,
                   conn, watched, detached, cb, restarting, other, historyVars>>

-----------------------------------------------------------------------------
(* The loop.                                                               *)

Idle == cb = NoCallback /\ ~restarting /\ ~failed

\* What poll() may report: any watched descriptor, and the timerfd.
Pollable ==
    watched \cup (IF registered THEN {"connector"} ELSE {})
            \cup (IF timers # <<>> THEN {"timer"} ELSE {})

Poll(some) ==
    /\ pc = "poll" /\ Idle
    /\ some # {} \/ functors # <<>>
    /\ ready' = some
    /\ due' = Len(timers)
    /\ pc' = "dispatch"
    /\ UNCHANGED <<connectorVars, open, functors, timers, left, failed, clientVars, connVars,
                   cb, restarting, other, historyVars>>

\* The Connector is kept by its client and by the timers bound to it, not by the
\* functors.
ConnectorAlive == client \/ timers # <<>>
ConnectorFunctors == {"start", "stop", "reset"}
IsQueued(ops) == \E i \in DOMAIN functors : functors[i].op \in ops
ConnectorIsBound == IsQueued(ConnectorFunctors)

\* After a callback that takes longer than the timer, the timer overtakes a functor:
\* the retry finds the channel of the attempt before, or removeConnector() deletes
\* the Connector that the functor is bound to.
Overtakes(timer) == IF timer = "start" THEN IsQueued({"reset"}) ELSE ConnectorIsBound

\* An expired timer: startInLoop() of a retry, or removeConnector(), which only
\* lets go of the Connector.
RunTimer ==
    \E i \in 1..due :
        LET rest == SubSeq(timers, 1, i-1) \o SubSeq(timers, i+1, Len(timers)) IN
        /\ UNCHANGED <<connect_, functors>>
        /\ careless' = (careless \/ Overtakes(timers[i]))
        /\ \/ timers[i] = "start" /\ StartInLoop(state_, retryDelayMs_, rest)
           \/ /\ timers[i] = "removeConnector"
              /\ timers' = rest
              /\ failed' = (~client /\ rest = <<>> /\ channel_ # NoFd)
              /\ UNCHANGED <<state_, sockfd_, retryDelayMs_, channel_, registered, open, gaveUp>>

Dispatch(r) ==
    /\ pc = "dispatch" /\ Idle /\ r \in ready
    /\ ready' = ready \ {r}
    /\ \/ /\ r \in Fds \ eof                        \* messageCallback_
          /\ cb' = [kind |-> "message", fd |-> r]
          /\ UNCHANGED <<connectorVars, open, functors, timers, failed, clientVars, connVars,
                         restarting, careless>>
       \/ /\ r \in eof
          /\ HandleClose(r, functors)
          /\ UNCHANGED <<connectorVars, open, timers, careless>>
       \/ /\ r = "connector"
          /\ UNCHANGED careless
          /\ \/ Established(functors) /\ NewConnection(sockfd_) /\ UNCHANGED open
             \/ /\ Abandoned(functors) \/ HandleFailure(functors)
                /\ UNCHANGED <<clientVars, connVars, cb, restarting>>
       \/ /\ r = "timer"
          /\ RunTimer
          /\ UNCHANGED <<clientVars, connVars, cb, restarting>>
    /\ UNCHANGED <<pc, left, due, other, calls, stopped, overruled>>

DispatchEnds ==
    /\ pc = "dispatch" /\ Idle /\ ready = {}
    /\ pc' = "functors"
    /\ left' = Len(functors)
    /\ due' = 0
    /\ UNCHANGED <<connectorVars, open, functors, timers, ready, failed, clientVars,
                   connVars, cb, restarting, other, historyVars>>

\* forceCloseInLoop() after the handleClose() of a peer that has closed first
ClosesAgain == LET f == Head(functors) IN
    f.op = "forceClose" /\ IsOpen(f.fd) /\ f.fd \notin watched

RunFunctor ==
    /\ pc = "functors" /\ Idle /\ left > 0
    /\ left' = left - 1
    /\ LET f == Head(functors)
           q == Tail(functors) IN
       \/ /\ \/ /\ f.op = "start" /\ UNCHANGED connect_
                /\ StartInLoop(state_, retryDelayMs_, timers)
                /\ functors' = q
             \/ f.op = "stop" /\ StopInLoop(q)
             \/ f.op = "reset" /\ ResetChannel(q)
          /\ UNCHANGED <<clientVars, connVars, cb, restarting>>
       \/ /\ \/ f.op = "destroyed" /\ ConnectDestroyed(f.fd, q)
             \/ f.op = "forceClose" /\ IsOpen(f.fd) /\ HandleClose(f.fd, q)
          /\ UNCHANGED <<connectorVars, open, timers>>
       \/ /\ \/ f.op = "forceClose" /\ ~IsOpen(f.fd)
             \/ f.op = "shutdown"                   \* shutdownInLoop()
          /\ functors' = q
          /\ UNCHANGED <<clientVars, cb, restarting>>
          /\ Release
          /\ UNCHANGED <<connectorVars, timers>>
    /\ careless' = (careless \/ ClosesAgain)
    /\ UNCHANGED <<pc, ready, due, other, calls, stopped, overruled>>

IterationEnds ==
    /\ pc = "functors" /\ Idle /\ left = 0
    /\ pc' = "poll"
    /\ UNCHANGED <<connectorVars, open, functors, timers, ready, left, due, failed, clientVars,
                   connVars, cb, restarting, other, historyVars>>

-----------------------------------------------------------------------------
(* The program's calls.                                                    *)

\* Code of the program runs in the loop thread: in a callback, a task or a timer.
InLoopThread == pc # "poll" /\ ~restarting

\* connect() is for a Connector that has nothing to do: startInLoop() wants it
\* disconnected, connecting() without a channel, and a retry comes back to it.
Busy ==
    \/ state_ # "kDisconnected"
    \/ IsQueued({"start", "reset"})
    \/ \E i \in DOMAIN timers : timers[i] = "start"

Calls == {"connect", "stop", "disconnect"}

\* One call of the program begins.
Call(name) ==
    /\ client /\ other = <<>> /\ ~failed
    /\ calls < MaxCalls
    /\ calls' = calls + 1
    /\ stopped' = (name = "stop" \/ (stopped /\ name # "connect"))
    /\ overruled' = (overruled /\ name # "stop")
    /\ careless' = (careless \/ (name = "connect" /\ Busy))

\* TcpConnection::shutdown() from the loop thread or, through a functor, from
\* another thread
Shutdown(inLoop) ==
    IF connection_ # NoFd /\ conn[connection_] = "kConnected"
    THEN /\ conn' = [conn EXCEPT ![connection_] = "kDisconnecting"]
         /\ functors' = IF inLoop THEN functors
                        ELSE Append(functors, Functor("shutdown", connection_))
    ELSE UNCHANGED <<conn, functors>>

CallInLoop(name) ==
    /\ InLoopThread /\ Call(name)
    /\ cconnect_' = (name = "connect")
    /\ \/ /\ name = "connect"
          /\ connect_' = TRUE
          /\ StartInLoop(state_, retryDelayMs_, timers)
          /\ UNCHANGED <<functors, conn>>
       \/ /\ name = "stop"
          /\ connect_' = FALSE
          /\ functors' = Append(functors, Functor("stop", NoFd))
          /\ UNCHANGED <<state_, sockfd_, retryDelayMs_, channel_, registered, gaveUp, timers,
                         open, failed, conn>>
       \/ /\ name = "disconnect"
          /\ Shutdown(TRUE)
          /\ UNCHANGED <<connectorVars, timers, open, failed>>
    /\ UNCHANGED <<loopVars, client, retry_, connection_, watched, eof, detached, cb,
                   restarting, other>>

\* What a call of the other thread does, one access to shared state at a time.
StepsOf(name) ==
    CASE name = "connect" -> <<"want", "connect_ = true", "queue start">>
      [] name = "stop" -> <<"do not want", "connect_ = false", "queue stop">>
      [] name = "disconnect" -> <<"do not want", "shutdown">>

CallFromOther(name) ==
    /\ Call(name)
    /\ other' = StepsOf(name)
    /\ UNCHANGED <<connectorVars, open, functors, timers, loopVars, failed, clientVars,
                   connVars, cb, restarting>>

OtherStep ==
    /\ other # <<>> /\ ~failed
    /\ other' = Tail(other)
    /\ LET s == Head(other) IN
       /\ cconnect_' = CASE s = "want" -> TRUE [] s = "do not want" -> FALSE [] OTHER -> cconnect_
       /\ connect_' = CASE s = "connect_ = true" -> TRUE
                        [] s = "connect_ = false" -> FALSE
                        [] OTHER -> connect_
       /\ CASE s = "queue start" -> functors' = Append(functors, Functor("start", NoFd)) /\ UNCHANGED conn
            [] s = "queue stop" -> functors' = Append(functors, Functor("stop", NoFd)) /\ UNCHANGED conn
            [] s = "shutdown" -> Shutdown(FALSE)
            [] OTHER -> UNCHANGED <<functors, conn>>
    /\ UNCHANGED <<state_, sockfd_, retryDelayMs_, channel_, registered, gaveUp, open, timers,
                   loopVars, failed, client, retry_, connection_, watched, eof, detached, cb,
                   restarting, historyVars>>

Unique == cb.fd # connection_ /\ \A i \in DOMAIN functors :
              ~(functors[i].op \in OwningFunctors /\ functors[i].fd = connection_)

\* runAfter(1, removeConnector)
KeepConnector == Append(timers, "removeConnector")

\* ~TcpClient in the loop thread
Destroy ==
    /\ InLoopThread /\ client /\ other = <<>> /\ ~failed
    /\ client' = FALSE
    /\ connection_' = NoFd
    /\ \/ /\ connection_ # NoFd
          /\ detached' = detached \cup {connection_}
          /\ IF Unique                                    \* forceClose()
             THEN /\ functors' = Append(functors, Functor("forceClose", connection_))
                  /\ conn' = [conn EXCEPT ![connection_] = "kDisconnecting"]
             ELSE UNCHANGED <<functors, conn>>
          /\ careless' = (careless \/ ~Unique \/ ConnectorIsBound)
          /\ failed' = (timers = <<>> /\ channel_ # NoFd) \* ~Connector
          /\ UNCHANGED <<connect_, timers>>
       \/ /\ connection_ = NoFd
          /\ connect_' = FALSE                            \* connector_->stop()
          /\ functors' = Append(functors, Functor("stop", NoFd))
          /\ timers' = KeepConnector
          /\ failed' = (timers' = <<>> /\ channel_ # NoFd)
          /\ UNCHANGED <<detached, conn, careless>>
    /\ UNCHANGED <<state_, sockfd_, retryDelayMs_, channel_, registered, gaveUp, open, loopVars,
                   retry_, cconnect_, watched, eof, cb, restarting, other, calls, stopped, overruled>>

-----------------------------------------------------------------------------
LoopStep ==
    \/ \E r \in Fds \cup {"connector", "timer"} : Dispatch(r)
    \/ DispatchEnds \/ RunFunctor \/ IterationEnds
    \/ CallbackReturns \/ RestartConnector
PollAny == \E some \in SUBSET (Fds \cup {"connector", "timer"}) :
               some \subseteq Pollable /\ Poll(some)
PollTimer == \E some \in SUBSET (Fds \cup {"connector", "timer"}) :
               some \subseteq Pollable /\ "timer" \in some /\ Poll(some)

Next ==
    \/ LoopStep
    \/ PollAny
    \/ \E c \in Fds : PeerCloses(c)
    \/ \E name \in Calls : CallInLoop(name) \/ CallFromOther(name)
    \/ OtherStep
    \/ Destroy

\* The loop runs on and returns from poll() while it has something to do, the
\* program's callbacks return, and a timer that is set expires.
Fairness == WF_vars(LoopStep) /\ WF_vars(PollAny) /\ SF_vars(PollTimer) /\ WF_vars(OtherStep)

Spec == Init /\ [][Next]_vars /\ Fairness

-----------------------------------------------------------------------------
(* Properties.                                                             *)

\* No assertion of Connector.cpp, TcpClient.cc and TcpConnection.cpp fails,
\* whenever connect(), stop() and disconnect() are called and whenever the
\* client is destroyed, but after these:
\*  - connect() of a Connector that is Busy (Connector.cpp:37, :119);
\*  - a callback so long that a timer Overtakes a functor (Connector.cpp:25, :119);
\*  - three ways to destroy the client while it has a connection: inside a
\*    callback of that connection, with a functor of the Connector still queued,
\*    and just when the peer closes too (TcpClient.cc:69, TcpConnection.cpp:226).
ClientAssertionsHold == failed => careless

\* Every descriptor is open exactly as long as it has one owner: the attempt
\* that is under way, or a TcpConnection.  None leaks, none is closed twice.
\* And what is bound to a raw this exists when it runs: the functors and the
\* channel of the Connector ("FIXME: unsafe"), shutdownInLoop() of a connection.
OwnersAreLive ==
    /\ ~failed => open = {c \in Fds : conn[c] # "none"} \cup
                         (IF state_ = "kConnecting" THEN {sockfd_} ELSE {})
    /\ ~careless =>
        /\ ConnectorIsBound \/ registered => ConnectorAlive
        /\ \A i \in DOMAIN functors : functors[i].op = "shutdown" => conn[functors[i].fd] # "none"

\* Once stop() has returned and stopInLoop() has run nothing is connecting and
\* nothing will be until the next connect(), unless a restart() of the loop thread
\* came after the connect_ = false of a stop() of another thread.
StopIsFinal ==
    /\ stopped /\ other = <<>> /\ ~overruled
    /\ \A i \in DOMAIN functors : functors[i].op # "stop"
    => state_ # "kConnecting" /\ ~connect_

\* A connector that should connect and has not given up has an attempt ahead
\* of it: a functor, a timer or a restart() that is about to run.
KeepsTrying ==
    connect_ /\ state_ = "kDisconnected" /\ ~gaveUp /\ ~failed =>
        \/ restarting
        \/ other = <<"queue start">>
        \/ \E i \in DOMAIN functors : functors[i].op = "start"
        \/ \E i \in DOMAIN timers : timers[i] = "start"

\* Once the client is destroyed, its Connector, its connection and their
\* sockets go too.
EverythingReleased == (~client /\ ~careless) ~> (careless \/ (open = {} /\ ~ConnectorAlive))
=============================================================================
