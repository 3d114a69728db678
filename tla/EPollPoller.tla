----------------------------- MODULE EPollPoller -----------------------------
(***************************************************************************)
(* reactor.muduo/EPollPoller.cpp: the interest list lives in the kernel,   *)
(* and index_ of each channel says what the poller believes about it.      *)
(***************************************************************************)
EXTENDS Channel

kNew == -1
kAdded == 1
kDeleted == 2

VARIABLE
    epoll         \* the kernel's interest list: descriptor -> [ptr, events]

epollVars == <<index_, channels_, epoll>>
allEPollVars == <<channelVars, dispatchVars, failed, epollVars>>

EPollInit ==
    /\ InitChannels
    /\ epoll = [fd \in {} |-> [ptr |-> NoChannel, events |-> {}]]

Without(f, x) == Restrict(f, DOMAIN f \ {x})

\* epoll_ctl as the kernel does it: ADD of a known descriptor, MOD or DEL of an
\* unknown one fail; so does an event mask with EPOLLEXCLUSIVE among other bits.
EpollCtlFails(op, fd, ev) ==
    \/ op = "ADD" /\ fd \in DOMAIN epoll
    \/ op # "ADD" /\ fd \notin DOMAIN epoll
    \/ op # "DEL" /\ "rest" \in ev

\* update(): the result of epoll_ctl; a failed DEL is only logged.
Update(op, c, ev, ok) ==
    LET fd == Fd[c] IN
    /\ epoll' = IF EpollCtlFails(op, fd, ev) THEN epoll
                ELSE IF op = "DEL" THEN Without(epoll, fd)
                ELSE With(epoll, fd, [ptr |-> c, events |-> ev])
    /\ failed' = (~ok \/ (op # "DEL" /\ EpollCtlFails(op, fd, ev)))

\* Mutant: a channel deleted from the kernel's list still counts as kAdded.
IndexAfter_StaysAdded(ev) == kAdded

\* The index_ of a channel known to the kernel, after an update to events ev.
IndexAfter(ev) == IF ev = kNoneEvent THEN kDeleted ELSE kAdded

\* updateChannel(); the conditions under ok are the code's assertions.
EPollUpdateChannel(c, ev) ==
    LET fd == Fd[c] IN
    \/ /\ index_[c] = kNew
       /\ channels_' = With(channels_, fd, c)
       /\ index_' = [index_ EXCEPT ![c] = kAdded]
       /\ Update("ADD", c, ev, fd \notin DOMAIN channels_)
    \/ /\ index_[c] = kDeleted
       /\ index_' = [index_ EXCEPT ![c] = kAdded]
       /\ Update("ADD", c, ev, fd \in DOMAIN channels_ /\ channels_[fd] = c)
       /\ UNCHANGED channels_
    \/ /\ index_[c] = kAdded
       /\ index_' = [index_ EXCEPT ![c] = IndexAfter(ev)]
       /\ Update(IF ev = kNoneEvent THEN "DEL" ELSE "MOD", c, ev, fd \in DOMAIN channels_)
       /\ channels_' = IF fd \in DOMAIN channels_ THEN [channels_ EXCEPT ![fd] = c] ELSE channels_

\* enableReading() ... disableAll(): events_, addedToLoop_ and the poller.
EPollChannelCall(c, call) ==
    /\ InUserCode
    /\ life[c] = "alive" /\ OwnsFd(c)
    /\ events_' = [events_ EXCEPT ![c] = NewEvents(call, @)]
    /\ asked' = [asked EXCEPT ![c] = NewAsked(call, @)]
    /\ addedToLoop_' = [addedToLoop_ EXCEPT ![c] = TRUE]
    /\ EPollUpdateChannel(c, events_'[c])
    /\ UNCHANGED <<life, dispatchVars>>

\* Channel::remove(), EventLoop::removeChannel() and EPollPoller::removeChannel().
\* Every caller has called disableAll() before.
EPollRemoveChannel(c) ==
    LET fd == Fd[c]
        ok == fd \in DOMAIN channels_ /\ channels_[fd] = c /\ index_[c] \in {kAdded, kDeleted}
    IN
    /\ InUserCode
    /\ life[c] = "alive" /\ addedToLoop_[c] /\ events_[c] = kNoneEvent
    /\ RemoveAllowed(c)
    /\ addedToLoop_' = [addedToLoop_ EXCEPT ![c] = FALSE]
    /\ channels_' = Without(channels_, fd)
    /\ index_' = [index_ EXCEPT ![c] = kNew]
    /\ IF index_[c] = kAdded
       THEN Update("DEL", c, kNoneEvent, ok)
       ELSE failed' = ~ok /\ UNCHANGED epoll
    /\ UNCHANGED <<life, events_, asked, dispatchVars>>

\* poll(): the kernel reports channels that wait for something, or that have an
\* error or a hang-up, which it reports without being asked.
\* fillActiveChannels() asserts that it knows each of them.
EPollPoll ==
    /\ phase = "user" /\ ~failed
    /\ \E fds \in SUBSET DOMAIN epoll :
          /\ returned' = {epoll[fd].ptr : fd \in fds}
          /\ failed' = ~(\A fd \in fds : fd \in DOMAIN channels_ /\ channels_[fd] = epoll[fd].ptr)
    /\ active' = returned'
    /\ phase' = "dispatch"
    /\ UNCHANGED <<channelVars, current, epollVars>>

EPollNext ==
    \/ \E c \in Channels :
          \/ Construct(c) /\ UNCHANGED epollVars
          \/ Destroy(c) /\ UNCHANGED epollVars
          \/ HandleEvent(c) /\ UNCHANGED epollVars
          \/ \E call \in Calls : EPollChannelCall(c, call)
          \/ EPollRemoveChannel(c)
    \/ EPollPoll
    \/ HandleEventReturns /\ UNCHANGED epollVars
    \/ DispatchEnds /\ UNCHANGED epollVars

EPollSpec == EPollInit /\ [][EPollNext]_allEPollVars

-----------------------------------------------------------------------------
(* Properties.                                                             *)

\* EPollPoller.cpp:20-22 and 154: kNew channels are nowhere, kAdded ones are in
\* channels_ and in the kernel with their own events_, kDeleted ones are in
\* channels_ only; nothing else is in either.  No assertion fails and LOG_FATAL is
\* not reached, but for the masks that disableReading() and disableWriting() make
\* of events_ (Channel.h:30,31), which the kernel refuses.
KernelAgrees ==
    /\ failed => \E c \in Channels : events_[c] \ (kReadEvent \cup kWriteEvent) # {}
    /\ ~failed =>
       /\ \A c \in Channels :
             /\ index_[c] # kNew <=> Fd[c] \in DOMAIN channels_ /\ channels_[Fd[c]] = c
             /\ index_[c] = kAdded <=> Fd[c] \in DOMAIN epoll /\ epoll[Fd[c]].ptr = c
             /\ index_[c] = kAdded => epoll[Fd[c]].events = events_[c]
       /\ DOMAIN epoll \subseteq DOMAIN channels_
       /\ \A c \in Channels : life[c] = "alive" => events_[c] = asked[c]

=============================================================================
