------------------------------ MODULE PollPoller ------------------------------
(***************************************************************************)
(* reactor.muduo/PollPoller.cpp: the array given to poll(2) is pollfds_,   *)
(* and index_ of each channel is its position in it.  Removing a channel   *)
(* moves the last entry into its place.                                    *)
(***************************************************************************)
EXTENDS Channel, SequencesExt

VARIABLES
    pollfds_,      \* a sequence of [fd, events]; position index_ + 1
    past           \* history: what has been called on each channel, see PastAfter

pollerVars == <<index_, channels_, pollfds_, past>>
vars == <<channelVars, dispatchVars, failed, pollerVars>>

Init ==
    /\ InitChannels
    /\ pollfds_ = <<>>
    /\ past = [c \in Channels |-> "new"]

\* The descriptor that poll(2) ignores and from which fd can be got back.
Ignored(fd) == -fd - 1
FdOf(n) == IF n < 0 THEN Ignored(n) ELSE n

\* A channel is "new" until its first call and "used" from then on; disableAll()
\* makes a used one "muted", and remove() a muted one "removed".  It is "misused"
\* when it is called after remove(), or removed when its only disableAll() was its
\* first call, as ~Acceptor() does without a listen() (Acceptor.cpp:24).
PastAfter(c, call) ==
    CASE past[c] = "new" -> "used"
      [] past[c] = "used" -> IF call = "disableAll" THEN "muted" ELSE "used"
      [] past[c] = "muted" -> "muted"
      [] OTHER -> "misused"

\* What pollfds_[idx].fd becomes; nothing ever turns it back.
FdFor(c, ev, old) == IF ev = kNoneEvent THEN Ignored(Fd[c]) ELSE old

\* updateChannel()
UpdateChannel(c, ev) ==
    \/ /\ index_[c] < 0
       /\ index_' = [index_ EXCEPT ![c] = Len(pollfds_)]
       /\ pollfds_' = Append(pollfds_, [fd |-> Fd[c], events |-> ev])
       /\ channels_' = With(channels_, Fd[c], c)
       /\ UNCHANGED failed
    \/ /\ index_[c] >= 0
       /\ LET i == index_[c] + 1
              ok == i <= Len(pollfds_) /\ FdOf(pollfds_[i].fd) = Fd[c]
          IN  /\ failed' = ~ok
              /\ pollfds_' = IF ok
                             THEN [pollfds_ EXCEPT ![i] = [fd |-> FdFor(c, ev, @.fd), events |-> ev]]
                             ELSE pollfds_
       /\ UNCHANGED <<index_, channels_>>

\* enableReading() ... disableAll(): events_, addedToLoop_ and the poller.
ChannelCall(c, call) ==
    /\ InUserCode
    /\ life[c] = "alive" /\ OwnsFd(c)
    /\ events_' = [events_ EXCEPT ![c] = NewEvents(call, @)]
    /\ asked' = [asked EXCEPT ![c] = NewAsked(call, @)]
    /\ addedToLoop_' = [addedToLoop_ EXCEPT ![c] = TRUE]
    /\ UpdateChannel(c, events_'[c])
    /\ past' = [past EXCEPT ![c] = PastAfter(c, call)]
    /\ UNCHANGED <<life, dispatchVars>>

\* Mutant: the channel that moves into the hole keeps its old index_.
IndexAfterRemove_NotMoved(c) == index_

\* removeChannel() gives the channel of the last entry the index of the hole;
\* the removed channel keeps its own.
IndexAfterRemove(c) ==
    LET moved == channels_[FdOf(Last(pollfds_).fd)]
    IN  IF index_[c] + 1 = Len(pollfds_) THEN index_ ELSE [index_ EXCEPT ![moved] = index_[c]]

\* Channel::remove(), EventLoop::removeChannel() and PollPoller::removeChannel().
\* Its assertions: a valid index, an entry that poll(2) ignores, one Channel of
\* this descriptor.
RemoveChannel(c) ==
    LET i == index_[c] + 1
        ok == /\ i \in 1..Len(pollfds_)
              /\ pollfds_[i] = [fd |-> Ignored(Fd[c]), events |-> events_[c]]
              /\ Fd[c] \in DOMAIN channels_
              /\ FdOf(Last(pollfds_).fd) \in DOMAIN channels_
    IN
    /\ InUserCode
    /\ life[c] = "alive" /\ addedToLoop_[c] /\ events_[c] = kNoneEvent
    /\ RemoveAllowed(c)
    /\ addedToLoop_' = [addedToLoop_ EXCEPT ![c] = FALSE]
    /\ failed' = ~ok
    /\ IF ok
       THEN /\ index_' = IndexAfterRemove(c)
            /\ channels_' = Restrict(channels_, DOMAIN channels_ \ {Fd[c]})
            /\ pollfds_' = Front([pollfds_ EXCEPT ![i] = Last(pollfds_)])
       ELSE UNCHANGED <<index_, channels_, pollfds_>>
    /\ past' = [past EXCEPT ![c] = IF @ = "muted" THEN "removed" ELSE "misused"]
    /\ UNCHANGED <<life, events_, asked, dispatchVars>>

\* poll(): entries with a negative descriptor are ignored; the others may report
\* events, errors and hang-ups.  fillActiveChannels() looks each one up.
Poll ==
    /\ phase = "user" /\ ~failed
    /\ \E fds \in SUBSET {n \in {pollfds_[i].fd : i \in DOMAIN pollfds_} : n >= 0} :
          /\ failed' = ~(fds \subseteq DOMAIN channels_)
          /\ returned' = {channels_[fd] : fd \in fds \cap DOMAIN channels_}
    /\ active' = returned'
    /\ phase' = "dispatch"
    /\ UNCHANGED <<channelVars, current, pollerVars>>

Next ==
    \/ \E c \in Channels :
          \/ Construct(c) /\ UNCHANGED pollerVars
          \/ Destroy(c) /\ UNCHANGED pollerVars
          \/ HandleEvent(c) /\ UNCHANGED pollerVars
          \/ \E call \in Calls : ChannelCall(c, call)
          \/ RemoveChannel(c)
    \/ Poll
    \/ HandleEventReturns /\ UNCHANGED pollerVars
    \/ DispatchEnds /\ UNCHANGED pollerVars

Spec == Init /\ [][Next]_vars

-----------------------------------------------------------------------------
(* Properties.                                                             *)

\* The channels of pollfds_.
Registered == {c \in Channels : addedToLoop_[c]}

\* The events poll(2) reports to the channel.
Watched(c) ==
    UNION {pollfds_[i].events : i \in {j \in DOMAIN pollfds_ : pollfds_[j].fd = Fd[c]}}

\* Channel.h:63 and the "???" at PollPoller.cpp:136: after any sequence of
\* updates and removals, index_ of each registered channel is the position of
\* its own entry, ChannelMap finds the same channels, and pollfds_ has no other
\* entry.  An assertion fails exactly when a channel is misused.  What poll(2) is
\* asked for is what the owner of the channel asked for until its disableAll() and
\* nothing after it, since PollPoller.cpp:107 negates the descriptor and no call
\* turns it back: a channel that is enabled again is silently not watched.  (The
\* masks that disableReading() and disableWriting() make are left out here.)
IndexAgrees ==
    /\ failed <=> \E c \in Channels : past[c] = "misused"
    /\ ~failed =>
       /\ Len(pollfds_) = Cardinality(Registered)
       /\ DOMAIN channels_ = {Fd[c] : c \in Registered}
       /\ \A c \in Registered :
             /\ index_[c] + 1 \in DOMAIN pollfds_
             /\ FdOf(pollfds_[index_[c] + 1].fd) = Fd[c]
             /\ channels_[Fd[c]] = c
             /\ events_[c] \subseteq kReadEvent \cup kWriteEvent =>
                   Watched(c) = IF past[c] = "muted" THEN {} ELSE asked[c]
=============================================================================
