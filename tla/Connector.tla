------------------------------ MODULE Connector ------------------------------
(***************************************************************************)
(* tcp.muduo/Connector.cpp: a nonblocking connect() that is tried again    *)
(* with a growing delay, and the loop that runs its handlers, functors and *)
(* timers.  TcpClient.tla adds the client that owns it.                    *)
(*                                                                         *)
(* All of it runs in the loop thread but start() and stop().  A functor is *)
(* [op, fd]; q is the queue without the functor that runs.                 *)
(***************************************************************************)
EXTENDS Naturals, Sequences, FiniteSets

CONSTANTS Fds,                \* descriptors
          NoFd,
          kInitRetryDelayMs, kMaxRetryDelayMs

ASSUME ConnectorAssumption ==
    /\ NoFd \notin Fds
    /\ kInitRetryDelayMs \in Nat \ {0} /\ kMaxRetryDelayMs \in Nat
    /\ kInitRetryDelayMs <= kMaxRetryDelayMs

VARIABLES
    connect_, state_, sockfd_, retryDelayMs_,
    channel_,         \* the descriptor of channel_, or NoFd after reset()
    registered,       \* channel_ is in the poller
    open,             \* the descriptors in use in the process
    functors,         \* pendingFunctors_ of the loop
    timers,           \* what the timers that are set will run
    pc, ready, left,  \* the loop: "poll", "dispatch" or "functors"; as in TcpServer
    due,              \* the timers that were set when poll() returned
    gaveUp,           \* history: the last connect() met an error that is not tried again
    failed            \* an assertion has failed

connectorVars == <<connect_, state_, sockfd_, retryDelayMs_, channel_, registered, gaveUp>>
loopVars == <<pc, ready, left, due>>

Functor(op, fd) == [op |-> op, fd |-> fd]

InitConnector ==
    /\ connect_ = FALSE
    /\ state_ = "kDisconnected"
    /\ sockfd_ = NoFd
    /\ retryDelayMs_ = kInitRetryDelayMs
    /\ channel_ = NoFd
    /\ registered = FALSE
    /\ open = {}
    /\ functors = <<>>
    /\ timers = <<>>
    /\ pc = "poll" /\ ready = {} /\ left = 0 /\ due = 0
    /\ gaveUp = FALSE
    /\ failed = FALSE

-----------------------------------------------------------------------------
(* Connecting.                                                             *)

NextDelay(d) == IF 2 * d < kMaxRetryDelayMs THEN 2 * d ELSE kMaxRetryDelayMs

\* Mutant: no timer is set once the delay has reached its limit.
RetryTimer_NotAtMax(d, ts) == IF d < kMaxRetryDelayMs THEN Append(ts, "start") ELSE ts

\* runAfter(d, startInLoop)
RetryTimer(d, ts) == Append(ts, "start")

\* retry() with the delay d and the timers ts, after close(sockfd)
Retry(d, ts) ==
    /\ state_' = "kDisconnected"
    /\ IF connect_'
       THEN timers' = RetryTimer(d, ts) /\ retryDelayMs_' = NextDelay(d)
       ELSE timers' = ts /\ retryDelayMs_' = d

\* connect(): under way, tried again later, or given up.  A descriptor that is
\* closed again at once leaves open as it was.
Connect(d, ts) ==
    \E fd \in Fds \ open :
        /\ sockfd_' = fd
        /\ \/ /\ failed' = (channel_ # NoFd)        \* connecting()
              /\ state_' = "kConnecting"
              /\ channel_' = fd
              /\ registered' = TRUE
              /\ open' = open \cup {fd}
              /\ retryDelayMs_' = d
              /\ timers' = ts
              /\ gaveUp' = FALSE
           \/ /\ Retry(d, ts)
              /\ gaveUp' = FALSE
              /\ UNCHANGED <<channel_, registered, open, failed>>
           \/ /\ gaveUp' = TRUE
              /\ state_' = "kDisconnected"
              /\ retryDelayMs_' = d
              /\ timers' = ts
              /\ UNCHANGED <<channel_, registered, open, failed>>

\* Mutant: an attempt is made whether or not it is still wanted.
StartInLoop_Always(st, d, ts) == st = "kDisconnected" /\ Connect(d, ts)

\* startInLoop() in state st; connect_' is what it finds in connect_.
StartInLoop(st, d, ts) ==
    \/ st = "kDisconnected" /\ connect_' /\ Connect(d, ts)
    \/ /\ st # "kDisconnected" \/ ~connect_'
       /\ failed' = (st # "kDisconnected")
       /\ state_' = st /\ retryDelayMs_' = d /\ timers' = ts
       /\ UNCHANGED <<sockfd_, channel_, registered, open, gaveUp>>

Restart == connect_' = TRUE /\ StartInLoop("kDisconnected", kInitRetryDelayMs, timers)

-----------------------------------------------------------------------------
(* The end of an attempt.                                                  *)

\* Mutant: the channel is removed and kept.
RemoveAndResetChannel_NoReset(q) ==
    /\ registered' = FALSE
    /\ functors' = q
    /\ UNCHANGED channel_

\* removeAndResetChannel(): the channel is deleted by a functor
RemoveAndResetChannel(q) ==
    /\ registered' = FALSE
    /\ functors' = Append(q, Functor("reset", NoFd))
    /\ UNCHANGED channel_

\* close(sockfd_) of a descriptor that is not open is a failure of the model.
CloseSocket ==
    /\ failed' = (sockfd_ \notin open)
    /\ open' = open \ {sockfd_}

\* stopInLoop()
StopInLoop(q) ==
    IF state_ = "kConnecting"
    THEN /\ RemoveAndResetChannel(q)
         /\ CloseSocket
         /\ UNCHANGED <<connect_, sockfd_, gaveUp>>
         /\ Retry(retryDelayMs_, timers)
    ELSE functors' = q /\ UNCHANGED <<connectorVars, timers, open, failed>>

\* handleError(), and handleWrite() that finds an error or a self-connection
HandleFailure(q) ==
    /\ state_ = "kConnecting"
    /\ RemoveAndResetChannel(q)
    /\ CloseSocket
    /\ UNCHANGED <<connect_, sockfd_, gaveUp>>
    /\ Retry(retryDelayMs_, timers)

\* Mutant: the socket is kept open although nobody wants it any more.
Abandon_Open == UNCHANGED <<open, failed>>

\* handleWrite() with a connection that nobody wants any more
Abandon == CloseSocket
Abandoned(q) ==
    /\ state_ = "kConnecting" /\ ~connect_
    /\ RemoveAndResetChannel(q)
    /\ state_' = "kConnected"
    /\ Abandon
    /\ UNCHANGED <<connect_, sockfd_, retryDelayMs_, gaveUp, timers>>

\* handleWrite() up to newConnectionCallback_(sockfd_)
Established(q) ==
    /\ state_ = "kConnecting" /\ connect_
    /\ RemoveAndResetChannel(q)
    /\ state_' = "kConnected"
    /\ UNCHANGED <<connect_, sockfd_, retryDelayMs_, gaveUp, timers>>

\* resetChannel()
ResetChannel(q) ==
    /\ channel_' = NoFd
    /\ failed' = registered
    /\ functors' = q
    /\ UNCHANGED <<connect_, state_, sockfd_, retryDelayMs_, registered, gaveUp, timers, open>>
=============================================================================
