---------------------------- MODULE PollerProofs ----------------------------
(***************************************************************************)
(* Proofs about PollPoller and EPollPoller, for every set of channels,     *)
(* every assignment of descriptors to them and every set of member         *)
(* functions in use.                                                       *)
(***************************************************************************)
EXTENDS PollPoller, EPollPoller, FiniteSetTheorems, SequenceTheorems, TLAPS

PollFd == [fd : Int, events : SUBSET AllBits]
Pasts == {"new", "used", "muted", "removed", "misused"}

\* The types.  A channel asks for nothing but kReadEvent and kWriteEvent.
PollTypes ==
    /\ life \in [Channels -> {"unborn", "alive", "dead"}]
    /\ events_ \in [Channels -> SUBSET AllBits]
    /\ asked \in [Channels -> SUBSET (kReadEvent \cup kWriteEvent)]
    /\ addedToLoop_ \in [Channels -> BOOLEAN]
    /\ index_ \in [Channels -> Int]
    /\ past \in [Channels -> Pasts]
    /\ failed \in BOOLEAN
    /\ pollfds_ \in Seq(PollFd)
    /\ phase \in {"user", "dispatch", "callback"}

\* The channel an entry of pollfds_ belongs to, as fillActiveChannels() and
\* removeChannel() find it.
OwnerOf(i) == channels_[FdOf(pollfds_[i].fd)]

\* The entry of a channel: a disableAll() negated its descriptor for good, and its
\* events are kept up to date all the same.
EntryFor(c) == [fd |-> IF past[c] = "muted" THEN Ignored(Fd[c]) ELSE Fd[c],
                events |-> events_[c]]

\* A registered channel has its entry at its index_ and is the one ChannelMap has
\* for its descriptor, and each entry is that of its owner.  Its past tells
\* whether it is registered, and whether index_ was ever set.
EntriesInv ==
    /\ \A c \in Registered :
          /\ index_[c] \in 0 .. Len(pollfds_) - 1
          /\ pollfds_[index_[c] + 1] = EntryFor(c)
          /\ Fd[c] \in DOMAIN channels_
          /\ channels_[Fd[c]] = c
    /\ \A fd \in DOMAIN channels_ : channels_[fd] \in Registered /\ Fd[channels_[fd]] = fd
    /\ \A i \in 1 .. Len(pollfds_) :
          /\ FdOf(pollfds_[i].fd) \in DOMAIN channels_
          /\ index_[OwnerOf(i)] = i - 1
    /\ \A c \in Channels :
          /\ events_[c] \subseteq kReadEvent \cup kWriteEvent => events_[c] = asked[c]
          /\ past[c] \in {"used", "muted"} <=> addedToLoop_[c]
          /\ past[c] = "new" <=> index_[c] < 0
          /\ past[c] # "misused"

\* As many entries as registered channels.
CountInv == IsFiniteSet(Registered) /\ Len(pollfds_) = Cardinality(Registered)

\* Where the dispatch is: what handleEvent() has still to reach is part of what
\* poll() returned, is registered, and is not the channel whose callback runs.
DispatchInv ==
    /\ active \subseteq returned
    /\ returned \subseteq Channels
    /\ phase = "user" => returned = {}
    /\ phase = "callback" <=> current # NoChannel
    /\ current # NoChannel => current \in returned \ active /\ life[current] = "alive"
    /\ active \subseteq Registered
    /\ \A c \in Registered : life[c] = "alive"

\* The inductive invariant.
PollInv ==
    /\ PollTypes
    /\ DispatchInv
    /\ failed => \E c \in Channels : past[c] = "misused"
    /\ ~failed => EntriesInv /\ CountInv

-----------------------------------------------------------------------------

\* Channel.h:28-32: unless a call sets bits that no caller asked for, events_ is
\* what has been asked for; it is empty only after disableAll().
LEMMA NewEventsAreAsked ==
    ASSUME NEW call \in AllCalls, NEW ev \in SUBSET AllBits,
           NEW a \in SUBSET (kReadEvent \cup kWriteEvent),
           ev \subseteq kReadEvent \cup kWriteEvent => ev = a
    PROVE  /\ NewEvents(call, ev) \in SUBSET AllBits
           /\ NewAsked(call, a) \in SUBSET (kReadEvent \cup kWriteEvent)
           /\ NewEvents(call, ev) \subseteq kReadEvent \cup kWriteEvent
                 => NewEvents(call, ev) = NewAsked(call, a)
           /\ NewEvents(call, ev) = kNoneEvent <=> call = "disableAll"
  <1> USE DEF kReadEvent, kWriteEvent, kNoneEvent, AllBits
  <1>1. CASE call = "enableReading"
    BY <1>1 DEF NewEvents, NewAsked
  <1>2. CASE call = "enableWriting"
    BY <1>2 DEF NewEvents, NewAsked
  <1>3. CASE call = "disableReading"
    BY <1>3 DEF NewEvents, NewAsked
  <1>4. CASE call = "disableWriting"
    BY <1>4 DEF NewEvents, NewAsked
  <1>5. CASE call = "disableAll"
    BY <1>5 DEF NewEvents, NewAsked
  <1>6. QED
    BY <1>1, <1>2, <1>3, <1>4, <1>5 DEF AllCalls

\* The descriptor of an entry, ignored by poll(2) or not, is the channel's: the
\* trick -fd-1 is its own inverse (PollPoller.cpp:110, 124).
LEMMA FdOfEntry ==
    ASSUME NEW c \in Channels
    PROVE  /\ FdOf(EntryFor(c).fd) = Fd[c]
           /\ EntryFor(c).fd >= 0 <=> past[c] # "muted"
           /\ EntryFor(c).fd \in Int
  <1>1. Fd[c] \in Nat
    BY ChannelAssumption
  <1>2. Ignored(Fd[c]) < 0 /\ Ignored(Fd[c]) \in Int /\ Ignored(Ignored(Fd[c])) = Fd[c]
    BY <1>1 DEF Ignored
  <1>3. QED
    BY <1>1, <1>2 DEF FdOf, EntryFor

\* Nothing is registered at first.
LEMMA InitPollInv == Init => PollInv
  <1> SUFFICES ASSUME Init PROVE PollInv
    OBVIOUS
  <1> USE DEF Init, InitChannels
  <1>1. Registered = {}
    BY DEF Registered
  <1>2. PollTypes
    <2>1. past \in [Channels -> Pasts] /\ failed \in BOOLEAN
      BY DEF Pasts
    <2>2. /\ life \in [Channels -> {"unborn", "alive", "dead"}]
          /\ events_ \in [Channels -> SUBSET AllBits]
          /\ asked \in [Channels -> SUBSET (kReadEvent \cup kWriteEvent)]
          /\ addedToLoop_ \in [Channels -> BOOLEAN]
          /\ index_ \in [Channels -> Int]
      BY DEF kNoneEvent
    <2>3. QED
      BY <2>1, <2>2 DEF PollTypes
  <1>3. EntriesInv
    BY <1>1 DEF EntriesInv, kNoneEvent
  <1>4. CountInv
    BY <1>1, FS_EmptySet DEF CountInv
  <1>5. DispatchInv
    BY <1>1, ChannelAssumption DEF DispatchInv
  <1>6. QED
    BY <1>2, <1>3, <1>4, <1>5 DEF PollInv

\* What the registration of the channels is made of does not change.
LEMMA SamePoller ==
    ASSUME PollTypes, EntriesInv, CountInv,
           UNCHANGED <<events_, addedToLoop_, asked, pollerVars>>
    PROVE  EntriesInv' /\ CountInv'
  BY DEF EntriesInv, CountInv, EntryFor, OwnerOf, Registered, pollerVars

\* Building a channel: nothing points to it yet.
LEMMA ConstructKeepsInv ==
    ASSUME PollInv, NEW c \in Channels, Construct(c), UNCHANGED pollerVars
    PROVE  PollInv'
  <1> USE DEF Construct, InUserCode, dispatchVars
  <1>1. PollTypes'
    BY DEF PollInv, PollTypes, pollerVars
  <1>2. EntriesInv' /\ CountInv'
    BY SamePoller DEF PollInv
  <1>3. DispatchInv'
    BY DEF PollInv, PollTypes, DispatchInv, Registered
  <1>4. QED
    BY <1>1, <1>2, <1>3 DEF PollInv

\* Destroying a channel: it has no entry, so nothing points to it.
LEMMA DestroyKeepsInv ==
    ASSUME PollInv, NEW c \in Channels, Destroy(c), UNCHANGED pollerVars
    PROVE  PollInv'
  <1> USE DEF Destroy, InUserCode, dispatchVars
  <1>1. PollTypes'
    BY DEF PollInv, PollTypes, pollerVars
  <1>2. EntriesInv' /\ CountInv'
    BY SamePoller DEF PollInv
  <1>3. DispatchInv'
    BY DEF PollInv, PollTypes, DispatchInv, Registered
  <1>4. QED
    BY <1>1, <1>2, <1>3 DEF PollInv

\* The dispatch of one event, its return and the end of the dispatch.
LEMMA DispatchKeepsInv ==
    ASSUME PollInv,
           (\E c \in Channels : HandleEvent(c)) \/ HandleEventReturns \/ DispatchEnds,
           UNCHANGED pollerVars
    PROVE  PollInv'
  <1>1. UNCHANGED <<channelVars, failed>>
    BY DEF HandleEvent, HandleEventReturns, DispatchEnds
  <1>2. PollTypes'
    BY <1>1 DEF PollInv, PollTypes, channelVars, pollerVars, HandleEvent,
                HandleEventReturns, DispatchEnds
  <1>3. DispatchInv'
    <2> USE <1>1, ChannelAssumption DEF PollInv, DispatchInv, Registered, channelVars
    <2>1. ASSUME NEW c \in Channels, HandleEvent(c) PROVE DispatchInv'
      BY <2>1 DEF HandleEvent
    <2>2. CASE HandleEventReturns
      BY <2>2 DEF HandleEventReturns
    <2>3. CASE DispatchEnds
      BY <2>3 DEF DispatchEnds
    <2>4. QED
      BY <2>1, <2>2, <2>3
  <1>4. CASE failed
    BY <1>1, <1>2, <1>3, <1>4 DEF PollInv, pollerVars
  <1>5. CASE ~failed
    <2>1. EntriesInv' /\ CountInv'
      BY <1>1, <1>5, SamePoller DEF PollInv, channelVars
    <2>2. QED
      BY <1>1, <1>2, <1>3, <1>5, <2>1 DEF PollInv
  <1>6. QED
    BY <1>4, <1>5

\* poll(): every descriptor with events is that of a registered channel.
LEMMA PollKeepsInv ==
    ASSUME PollInv, Poll
    PROVE  PollInv'
  <1>0. EntriesInv /\ PollTypes /\ CountInv /\ DispatchInv /\ ~failed /\ phase = "user"
    BY DEF Poll, PollInv
  <1>1. PICK fds \in SUBSET {n \in {pollfds_[i].fd : i \in DOMAIN pollfds_} : n >= 0} :
          /\ failed' = ~(fds \subseteq DOMAIN channels_)
          /\ returned' = {channels_[fd] : fd \in fds \cap DOMAIN channels_}
    BY DEF Poll
  <1>2. ASSUME NEW n \in fds PROVE n \in DOMAIN channels_
    <2>1. PICK i \in DOMAIN pollfds_ : n = pollfds_[i].fd /\ n >= 0
      BY <1>2
    <2>2. i \in 1 .. Len(pollfds_)
      BY <1>0, LenProperties DEF PollTypes
    <2>3. pollfds_[i] \in PollFd
      BY <1>0, <2>2, ElementOfSeq DEF PollTypes
    <2>4. FdOf(n) = n
      BY <2>1, <2>3 DEF FdOf, PollFd
    <2>5. QED
      BY <1>0, <2>1, <2>2, <2>4 DEF EntriesInv
  <1>3. failed' = FALSE
    BY <1>1, <1>2
  <1>4. returned' \subseteq Registered /\ Registered \subseteq Channels
    BY <1>0, <1>1 DEF EntriesInv, Registered
  <1>5. UNCHANGED <<channelVars, pollerVars, current>> /\ active' = returned' /\ phase' = "dispatch"
    BY DEF Poll
  <1>6. PollTypes'
    BY <1>0, <1>3, <1>5 DEF PollTypes, channelVars, pollerVars
  <1>7. DispatchInv'
    BY <1>0, <1>4, <1>5 DEF DispatchInv, Registered, channelVars
  <1>8. EntriesInv' /\ CountInv'
    BY <1>0, <1>5, SamePoller DEF channelVars
  <1>9. QED
    BY <1>3, <1>6, <1>7, <1>8 DEF PollInv

-----------------------------------------------------------------------------

\* updateChannel() of a channel that has no entry yet appends one.
LEMMA FirstUpdate ==
    ASSUME PollInv, ~failed, NEW c \in Channels, OwnsFd(c), index_[c] < 0,
           NEW ev \in SUBSET AllBits,
           UpdateChannel(c, ev),
           NEW a, asked' = [asked EXCEPT ![c] = a],
           ev \subseteq kReadEvent \cup kWriteEvent => ev = a,
           events_' = [events_ EXCEPT ![c] = ev],
           addedToLoop_' = [addedToLoop_ EXCEPT ![c] = TRUE],
           past' = [past EXCEPT ![c] = "used"]
    PROVE  failed' = FALSE /\ pollfds_' \in Seq(PollFd) /\ EntriesInv' /\ CountInv'
  <1> DEFINE n == Len(pollfds_)
             e == [fd |-> Fd[c], events |-> ev]
  <1>0. PollTypes /\ EntriesInv /\ CountInv
    BY DEF PollInv
  <1>1. c \notin Registered /\ Registered' = Registered \cup {c}
    BY <1>0 DEF EntriesInv, PollTypes, Registered
  <1>2. Fd[c] \notin DOMAIN channels_
    BY <1>0, <1>1 DEF EntriesInv, Registered, OwnsFd
  <1>3. /\ index_' = [index_ EXCEPT ![c] = n]
        /\ pollfds_' = Append(pollfds_, e)
        /\ channels_' = With(channels_, Fd[c], c)
        /\ failed' = FALSE
    BY <1>0 DEF UpdateChannel, PollTypes
  <1>4. e \in PollFd /\ Fd[c] \in Nat /\ n \in Nat
    BY <1>0, ChannelAssumption, LenProperties DEF PollFd, PollTypes
  <1>5. /\ pollfds_' \in Seq(PollFd) /\ Len(pollfds_') = n + 1
        /\ \A i \in 1 .. n : pollfds_'[i] = pollfds_[i]
        /\ pollfds_'[n + 1] = e
    BY <1>0, <1>3, <1>4, AppendProperties DEF PollTypes
  <1>6. /\ DOMAIN channels_' = DOMAIN channels_ \cup {Fd[c]}
        /\ channels_'[Fd[c]] = c
        /\ \A fd \in DOMAIN channels_ : channels_'[fd] = channels_[fd]
    BY <1>2, <1>3 DEF With
  <1>7. CountInv'
    BY <1>0, <1>1, <1>5, FS_AddElement DEF CountInv
  <1>8. EntriesInv'
    <2>1. /\ events_'[c] = ev /\ index_'[c] = n /\ past'[c] = "used"
          /\ \A d \in Channels \ {c} : /\ events_'[d] = events_[d] /\ index_'[d] = index_[d]
                                        /\ asked'[d] = asked[d] /\ past'[d] = past[d]
                                        /\ addedToLoop_'[d] = addedToLoop_[d]
          /\ asked'[c] = a /\ addedToLoop_'[c]
      BY <1>0, <1>3 DEF PollTypes
    <2>3. ASSUME NEW d \in Registered'
          PROVE  /\ index_'[d] \in 0 .. Len(pollfds_') - 1
                 /\ pollfds_'[index_'[d] + 1] = EntryFor(d)'
                 /\ Fd[d] \in DOMAIN channels_'
                 /\ channels_'[Fd[d]] = d
      <3>1. CASE d = c
        <4>1. EntryFor(c)' = e
          BY <2>1 DEF EntryFor
        <4>2. QED
          BY <1>4, <1>5, <1>6, <2>1, <3>1, <4>1
      <3>2. CASE d # c
        <4>1. d \in Registered /\ d \in Channels \ {c}
          <5>1. d \in Registered
            BY <1>1, <3>2
          <5>2. QED
            BY <3>2, <5>1 DEF Registered
        <4>2. /\ index_[d] \in 0 .. n - 1
              /\ pollfds_[index_[d] + 1] = EntryFor(d)
              /\ Fd[d] \in DOMAIN channels_ /\ channels_[Fd[d]] = d
          BY <1>0, <4>1 DEF EntriesInv
        <4>3. EntryFor(d)' = EntryFor(d)
          BY <2>1, <4>1 DEF EntryFor
        <4>4. index_[d] + 1 \in 1 .. n /\ index_[d] \in 0 .. (n + 1) - 1
          BY <1>4, <4>2
        <4>5. pollfds_'[index_'[d] + 1] = EntryFor(d)'
          BY <1>5, <2>1, <4>1, <4>2, <4>3, <4>4
        <4>6. QED
          BY <1>5, <1>6, <2>1, <4>1, <4>2, <4>4, <4>5
      <3>3. QED
        BY <3>1, <3>2
    <2>4. \A fd \in DOMAIN channels_' : channels_'[fd] \in Registered' /\ Fd[channels_'[fd]] = fd
      BY <1>0, <1>1, <1>6 DEF EntriesInv
    <2>5. ASSUME NEW i \in 1 .. Len(pollfds_')
          PROVE  /\ FdOf(pollfds_'[i].fd) \in DOMAIN channels_'
                 /\ index_'[OwnerOf(i)'] = i - 1
      <3>1. CASE i = n + 1
        <4>1. FdOf(pollfds_'[i].fd) = Fd[c]
          BY <1>4, <1>5, <3>1 DEF FdOf
        <4>2. QED
          BY <1>4, <1>6, <2>1, <3>1, <4>1 DEF OwnerOf
      <3>2. CASE i # n + 1
        <4>1. i \in 1 .. n /\ pollfds_'[i] = pollfds_[i]
          BY <1>4, <1>5, <3>2
        <4>2. FdOf(pollfds_[i].fd) \in DOMAIN channels_ /\ index_[OwnerOf(i)] = i - 1
          BY <1>0, <4>1 DEF EntriesInv
        <4>3. OwnerOf(i)' = OwnerOf(i) /\ OwnerOf(i) \in Registered
          BY <1>0, <1>6, <4>1, <4>2 DEF OwnerOf, EntriesInv
        <4>4. OwnerOf(i) \in Channels \ {c}
          BY <1>1, <4>3 DEF Registered
        <4>5. QED
          BY <1>6, <2>1, <4>1, <4>2, <4>3, <4>4
      <3>3. QED
        BY <3>1, <3>2
    <2>6. ASSUME NEW d \in Channels
          PROVE  /\ events_'[d] \subseteq kReadEvent \cup kWriteEvent => events_'[d] = asked'[d]
                 /\ past'[d] \in {"used", "muted"} <=> addedToLoop_'[d]
                 /\ past'[d] = "new" <=> index_'[d] < 0
                 /\ past'[d] # "misused"
      BY <1>0, <1>4, <2>1 DEF EntriesInv
    <2>7. QED
      BY <2>3, <2>4, <2>5, <2>6 DEF EntriesInv
  <1>9. QED
    BY <1>3, <1>5, <1>7, <1>8

\* updateChannel() of a registered channel rewrites its own entry; the
\* assertions on its index_ and descriptor hold.
LEMMA LaterUpdate ==
    ASSUME PollInv, ~failed, NEW c \in Registered, ~(index_[c] < 0),
           NEW ev \in SUBSET AllBits, NEW p,
           p = (IF ev = kNoneEvent \/ past[c] = "muted" THEN "muted" ELSE "used"),
           UpdateChannel(c, ev), past' = [past EXCEPT ![c] = p],
           NEW a, asked' = [asked EXCEPT ![c] = a],
           ev \subseteq kReadEvent \cup kWriteEvent => ev = a,
           events_' = [events_ EXCEPT ![c] = ev],
           addedToLoop_' = [addedToLoop_ EXCEPT ![c] = TRUE]
    PROVE  failed' = FALSE /\ pollfds_' \in Seq(PollFd) /\ EntriesInv' /\ CountInv'
  <1> DEFINE n == Len(pollfds_)
             i == index_[c] + 1
             e == [fd |-> FdFor(c, ev, pollfds_[i].fd), events |-> ev]
  <1>0. PollTypes /\ EntriesInv /\ CountInv /\ c \in Channels
    BY DEF PollInv, Registered
  <1>1. Registered' = Registered /\ addedToLoop_' = addedToLoop_
    BY <1>0 DEF PollTypes, Registered
  <1>2. i \in 1 .. n /\ pollfds_[i] = EntryFor(c) /\ n \in Nat
    BY <1>0, LenProperties DEF EntriesInv, PollTypes
  <1>3. i <= n /\ FdOf(pollfds_[i].fd) = Fd[c]
    BY <1>0, <1>2, FdOfEntry
  <1>4. /\ pollfds_' = [pollfds_ EXCEPT ![i] = e]
        /\ failed' = FALSE
        /\ UNCHANGED <<index_, channels_>>
    BY <1>0, <1>3 DEF UpdateChannel, PollTypes
  <1>5. e.fd = (IF p = "muted" THEN Ignored(Fd[c]) ELSE Fd[c]) /\ e.events = ev
    BY <1>2 DEF FdFor, EntryFor
  <1>6. e \in PollFd
    BY <1>0, <1>5, ChannelAssumption DEF PollFd, Ignored, FdFor
  <1>7. /\ pollfds_' \in Seq(PollFd) /\ Len(pollfds_') = n
        /\ \A j \in 1 .. n : pollfds_'[j] = IF j = i THEN e ELSE pollfds_[j]
    BY <1>0, <1>2, <1>4, <1>6, ExceptSeq DEF PollTypes
  <1>8. CountInv'
    BY <1>0, <1>1, <1>7 DEF CountInv
  <1> HIDE DEF e, i
  <1>9. EntriesInv'
    <2>1. /\ events_'[c] = ev /\ asked'[c] = a /\ past'[c] = p
          /\ \A d \in Channels \ {c} : /\ events_'[d] = events_[d] /\ asked'[d] = asked[d]
                                        /\ past'[d] = past[d]
      BY <1>0 DEF PollTypes
    <2>2. EntryFor(c)' = e
      BY <1>5, <2>1 DEF EntryFor, e
    <2>3. FdOf(e.fd) = Fd[c]
      BY <1>5, ChannelAssumption, <1>0 DEF FdOf, Ignored
    <2>4. ASSUME NEW d \in Registered
          PROVE  pollfds_'[index_[d] + 1] = EntryFor(d)'
      <3>1. CASE d = c
        BY <1>2, <1>7, <2>2, <3>1 DEF i
      <3>2. CASE d # c
        <4>1. d \in Channels \ {c} /\ index_[d] + 1 \in 1 .. n
              /\ pollfds_[index_[d] + 1] = EntryFor(d)
          BY <1>0, <1>2, <3>2 DEF EntriesInv, Registered
        <4>2. index_[d] + 1 # i
          <5>1. channels_[Fd[d]] = d /\ channels_[Fd[c]] = c
            BY <1>0 DEF EntriesInv
          <5>2. FdOf(EntryFor(d).fd) = Fd[d]
            BY <4>1, FdOfEntry
          <5>3. QED
            BY <1>3, <3>2, <4>1, <5>1, <5>2
        <4>3. EntryFor(d)' = EntryFor(d)
          BY <2>1, <4>1 DEF EntryFor
        <4>4. QED
          BY <1>7, <4>1, <4>2, <4>3
      <3>3. QED
        BY <3>1, <3>2
    <2>5. ASSUME NEW j \in 1 .. Len(pollfds_')
          PROVE  FdOf(pollfds_'[j].fd) = FdOf(pollfds_[j].fd)
      BY <1>3, <1>7, <2>3 DEF i
    <2>6. \A d \in Channels :
             /\ events_'[d] \subseteq kReadEvent \cup kWriteEvent => events_'[d] = asked'[d]
             /\ past'[d] \in {"used", "muted"} <=> addedToLoop_'[d]
             /\ past'[d] = "new" <=> index_'[d] < 0
             /\ past'[d] # "misused"
      BY <1>0, <1>1, <1>4, <2>1 DEF EntriesInv, Registered
    <2>7. \A j \in 1 .. n : OwnerOf(j)' = OwnerOf(j)
      BY <1>4, <1>7, <2>5 DEF OwnerOf
    <2>8. \A j \in 1 .. Len(pollfds_') :
             FdOf(pollfds_'[j].fd) \in DOMAIN channels_' /\ index_'[OwnerOf(j)'] = j - 1
      BY <1>0, <1>4, <1>7, <2>5, <2>7 DEF EntriesInv
    <2>9. \A d \in Registered' :
             /\ index_'[d] \in 0 .. Len(pollfds_') - 1
             /\ pollfds_'[index_'[d] + 1] = EntryFor(d)'
             /\ Fd[d] \in DOMAIN channels_' /\ channels_'[Fd[d]] = d
      BY <1>0, <1>1, <1>4, <1>7, <2>4 DEF EntriesInv
    <2>10. QED
      BY <1>0, <1>1, <1>4, <2>6, <2>8, <2>9 DEF EntriesInv
  <1>10. QED
    BY <1>4, <1>7, <1>8, <1>9

\* updateChannel() of a channel that has been removed: its index_ points nowhere or
\* at an entry of another descriptor, and an assertion fails.
LEMMA RemovedUpdate ==
    ASSUME PollInv, ~failed, NEW c \in Channels, OwnsFd(c), ~(index_[c] < 0),
           c \notin Registered, NEW ev, UpdateChannel(c, ev)
    PROVE  failed' = TRUE /\ UNCHANGED <<index_, pollfds_>>
  <1> DEFINE i == index_[c] + 1
             ok == i <= Len(pollfds_) /\ FdOf(pollfds_[i].fd) = Fd[c]
  <1>0. PollTypes /\ EntriesInv /\ index_[c] \in Int
    BY DEF PollInv, PollTypes
  <1>1. /\ failed' = ~ok /\ (~ok => pollfds_' = pollfds_)
        /\ UNCHANGED index_
    BY <1>0 DEF UpdateChannel
  <1>2. ASSUME ok PROVE FALSE
    <2>1. i \in 1 .. Len(pollfds_)
      BY <1>0, <1>2, LenProperties DEF PollTypes
    <2>2. Fd[c] \in DOMAIN channels_
      BY <1>0, <1>2, <2>1 DEF EntriesInv
    <2>3. channels_[Fd[c]] \in Registered /\ Fd[channels_[Fd[c]]] = Fd[c]
      BY <1>0, <2>2 DEF EntriesInv
    <2>4. QED
      BY <2>3 DEF OwnsFd, Registered
  <1> HIDE DEF ok
  <1>3. QED
    BY <1>1, <1>2

\* enableReading() ... disableAll(): an assertion fails when the channel was
\* removed before, and then only.
LEMMA ChannelCallKeepsInv ==
    ASSUME PollInv, NEW c \in Channels, NEW call \in Calls, ChannelCall(c, call)
    PROVE  PollInv'
  <1> DEFINE ev == NewEvents(call, events_[c])
             a == NewAsked(call, asked[c])
             p == PastAfter(c, call)
  <1>0. /\ PollTypes /\ EntriesInv /\ CountInv /\ DispatchInv /\ ~failed
        /\ life[c] = "alive" /\ OwnsFd(c)
    BY DEF ChannelCall, PollInv, InUserCode
  <1>1. /\ ev \in SUBSET AllBits
        /\ a \in SUBSET (kReadEvent \cup kWriteEvent)
        /\ ev \subseteq kReadEvent \cup kWriteEvent => ev = a
        /\ ev = kNoneEvent <=> call = "disableAll"
    <2>1. call \in AllCalls /\ events_[c] \in SUBSET AllBits
          /\ asked[c] \in SUBSET (kReadEvent \cup kWriteEvent)
          /\ (events_[c] \subseteq kReadEvent \cup kWriteEvent => events_[c] = asked[c])
      BY <1>0, ChannelAssumption DEF PollTypes, EntriesInv
    <2>2. QED
      BY <2>1, NewEventsAreAsked
  <1>2. /\ events_' = [events_ EXCEPT ![c] = ev]
        /\ asked' = [asked EXCEPT ![c] = a]
        /\ addedToLoop_' = [addedToLoop_ EXCEPT ![c] = TRUE]
        /\ UNCHANGED <<life, active, returned, current, phase>>
    BY <1>0 DEF ChannelCall, PollTypes, dispatchVars
  <1>3. UpdateChannel(c, ev)
    BY <1>0, <1>2 DEF ChannelCall, PollTypes
  <1>4. past' = [past EXCEPT ![c] = p] /\ past'[c] = p /\ p \in Pasts
    BY <1>0 DEF ChannelCall, PollTypes, PastAfter, Pasts
  <1> HIDE DEF ev, a
  <1>5. /\ failed' \in BOOLEAN /\ pollfds_' \in Seq(PollFd) /\ index_' \in [Channels -> Int]
        /\ failed' => p = "misused"
        /\ ~failed' => EntriesInv' /\ CountInv'
    <2>0. index_' \in [Channels -> Int]
      BY <1>0, <1>3, LenProperties DEF UpdateChannel, PollTypes
    <2>1. CASE index_[c] < 0
      <3>1. p = "used"
        BY <1>0, <2>1 DEF EntriesInv, PastAfter
      <3>2. past' = [past EXCEPT ![c] = "used"]
        BY <1>4, <3>1
      <3>3. failed' = FALSE /\ pollfds_' \in Seq(PollFd) /\ EntriesInv' /\ CountInv'
        BY <1>0, <1>1, <1>2, <1>3, <2>1, <3>2, FirstUpdate
      <3>4. QED
        BY <2>0, <3>3
    <2>2. CASE ~(index_[c] < 0) /\ c \in Registered
      <3>1. p = IF ev = kNoneEvent \/ past[c] = "muted" THEN "muted" ELSE "used"
        BY <1>0, <1>1, <2>2 DEF EntriesInv, PastAfter, Registered
      <3>2. failed' = FALSE /\ pollfds_' \in Seq(PollFd) /\ EntriesInv' /\ CountInv'
        BY <1>0, <1>1, <1>2, <1>3, <1>4, <2>2, <3>1, LaterUpdate
      <3>3. QED
        BY <2>0, <3>2
    <2>3. CASE ~(index_[c] < 0) /\ c \notin Registered
      <3>1. p = "misused"
        BY <1>0, <2>3 DEF EntriesInv, PastAfter, Registered
      <3>2. failed' = TRUE /\ UNCHANGED <<index_, pollfds_>>
        BY <1>0, <1>3, <2>3, RemovedUpdate
      <3>3. QED
        BY <1>0, <2>0, <3>1, <3>2 DEF PollTypes
    <2>4. QED
      BY <2>1, <2>2, <2>3
  <1> HIDE DEF p
  <1>6. PollTypes'
    BY <1>0, <1>1, <1>2, <1>4, <1>5 DEF PollTypes
  <1>7. DispatchInv'
    BY <1>0, <1>2 DEF DispatchInv, Registered, PollTypes
  <1>8. QED
    BY <1>4, <1>5, <1>6, <1>7 DEF PollInv

-----------------------------------------------------------------------------

\* The owner of the entry at a channel's index_ is that channel.
LEMMA OwnerAtIndex ==
    ASSUME PollTypes, EntriesInv, NEW c \in Registered
    PROVE  OwnerOf(index_[c] + 1) = c
  <1>1. c \in Channels /\ pollfds_[index_[c] + 1] = EntryFor(c) /\ channels_[Fd[c]] = c
    BY DEF EntriesInv, Registered
  <1>2. QED
    BY <1>1, FdOfEntry DEF OwnerOf

\* Every entry has a registered owner, and is the one at its owner's index_.
LEMMA OwnerOfEntry ==
    ASSUME PollTypes, EntriesInv, NEW i \in 1 .. Len(pollfds_)
    PROVE  /\ OwnerOf(i) \in Registered
           /\ index_[OwnerOf(i)] = i - 1
           /\ pollfds_[i] = EntryFor(OwnerOf(i))
           /\ FdOf(pollfds_[i].fd) = Fd[OwnerOf(i)]
  <1>1. /\ OwnerOf(i) \in Registered /\ index_[OwnerOf(i)] = i - 1
        /\ Fd[OwnerOf(i)] = FdOf(pollfds_[i].fd)
    BY DEF EntriesInv, OwnerOf
  <1>2. pollfds_[(i - 1) + 1] = EntryFor(OwnerOf(i))
    BY <1>1 DEF EntriesInv
  <1>3. QED
    BY <1>1, <1>2

\* removeChannel(): its assertions hold, the last entry fills the hole and the
\* channel it belongs to, found through ChannelMap, gets the index of the hole.
LEMMA RemoveKeepsEntries ==
    ASSUME PollInv, NEW c \in Channels, RemoveChannel(c), past[c] = "muted"
    PROVE  /\ failed' = FALSE /\ pollfds_' \in Seq(PollFd)
           /\ index_' \in [Channels -> Int] /\ EntriesInv' /\ CountInv'
  <1> DEFINE n == Len(pollfds_)
             i == index_[c] + 1
             last == OwnerOf(n)
             q == [pollfds_ EXCEPT ![i] = pollfds_[n]]
  <1>0. /\ PollTypes /\ EntriesInv /\ CountInv /\ c \in Registered
        /\ events_[c] = kNoneEvent
        /\ addedToLoop_' = [addedToLoop_ EXCEPT ![c] = FALSE]
        /\ past' = [past EXCEPT ![c] = "removed"]
        /\ UNCHANGED <<events_, asked>>
    BY DEF PollInv, RemoveChannel, Registered, InUserCode
  <1>1. n \in Nat /\ i \in 1 .. n /\ pollfds_[i] = EntryFor(c)
    BY <1>0, LenProperties DEF EntriesInv, PollTypes
  <1>2. /\ last \in Registered /\ index_[last] = n - 1
        /\ pollfds_[n] = EntryFor(last) /\ FdOf(pollfds_[n].fd) = Fd[last]
    <2>1. n \in 1 .. n
      BY <1>1
    <2>2. QED
      BY <1>0, <2>1, OwnerOfEntry
  <1>3. /\ failed' = FALSE
        /\ index_' = IndexAfterRemove(c)
        /\ channels_' = Restrict(channels_, DOMAIN channels_ \ {Fd[c]})
        /\ pollfds_' = Front(q)
    <2>1. pollfds_[i] = [fd |-> Ignored(Fd[c]), events |-> events_[c]]
      BY <1>0, <1>1 DEF EntryFor
    <2>2. Fd[c] \in DOMAIN channels_ /\ FdOf(Last(pollfds_).fd) \in DOMAIN channels_
      BY <1>0, <1>2 DEF EntriesInv, Last
    <2>3. QED
      BY <1>1, <2>1, <2>2 DEF RemoveChannel, Last
  <1>4. /\ pollfds_' \in Seq(PollFd) /\ Len(pollfds_') = n - 1
        /\ \A j \in 1 .. n - 1 : pollfds_'[j] = IF j = i THEN pollfds_[n] ELSE pollfds_[j]
    <2>1. pollfds_[n] \in PollFd
      BY <1>0, <1>1, ElementOfSeq DEF PollTypes
    <2>2. /\ q \in Seq(PollFd) /\ Len(q) = n
          /\ \A j \in 1 .. n : q[j] = IF j = i THEN pollfds_[n] ELSE pollfds_[j]
      BY <1>0, <1>1, <2>1, ExceptSeq DEF PollTypes
    <2> HIDE DEF q
    <2>3. \A j \in 1 .. n - 1 : q[j] \in PollFd
      BY <1>1, <2>2, ElementOfSeq
    <2>4. pollfds_' = SubSeq(q, 1, n - 1)
      BY <1>3, <2>2 DEF Front
    <2>5. /\ SubSeq(q, 1, n - 1) \in Seq(PollFd)
          /\ Len(SubSeq(q, 1, n - 1)) = (IF 1 <= n - 1 THEN (n - 1) - 1 + 1 ELSE 0)
          /\ \A j \in 1 .. (n - 1) - 1 + 1 : SubSeq(q, 1, n - 1)[j] = q[1 + j - 1]
      BY <1>1, <2>3, SubSeqProperties
    <2>6. QED
      BY <1>1, <2>2, <2>4, <2>5
  <1>5. /\ DOMAIN channels_' = DOMAIN channels_ \ {Fd[c]}
        /\ \A fd \in DOMAIN channels_' : channels_'[fd] = channels_[fd]
    BY <1>3 DEF Restrict
  <1>6. /\ index_' \in [Channels -> Int]
        /\ \A d \in Registered \ {c} : index_'[d] = IF d = last THEN index_[c] ELSE index_[d]
    <2>1. last \in Channels /\ index_[c] \in Int
      BY <1>0, <1>2 DEF Registered, PollTypes
    <2>2. CASE i = n
      <3>1. index_' = index_ /\ last = c
        BY <1>0, <1>3, <2>2, OwnerAtIndex DEF IndexAfterRemove
      <3>2. QED
        BY <1>0, <3>1 DEF PollTypes
    <2>3. CASE i # n
      <3>1. index_' = [index_ EXCEPT ![last] = index_[c]]
        BY <1>3, <2>3 DEF IndexAfterRemove, OwnerOf, Last
      <3>2. QED
        BY <1>0, <2>1, <3>1 DEF PollTypes, Registered
    <2>4. QED
      BY <2>2, <2>3
  <1>14. \A d \in Channels : index_'[d] < 0 <=> index_[d] < 0
    <2>1. /\ last \in Channels /\ index_ \in [Channels -> Int]
          /\ ~(index_[c] < 0) /\ ~(index_[last] < 0)
      BY <1>0, <1>1, <1>2 DEF EntriesInv, Registered, PollTypes
    <2> HIDE DEF last
    <2>2. index_' = index_ \/ index_' = [index_ EXCEPT ![last] = index_[c]]
      BY <1>3 DEF IndexAfterRemove, OwnerOf, Last, last
    <2>3. \A d \in Channels : index_'[d] = index_[d] \/ (d = last /\ index_'[d] = index_[c])
      BY <2>1, <2>2
    <2>4. QED
      BY <2>1, <2>3
  <1>7. Registered' = Registered \ {c}
    BY <1>0 DEF Registered, PollTypes
  <1>8. CountInv'
    BY <1>0, <1>4, <1>7, FS_RemoveElement DEF CountInv
  <1> HIDE DEF n, i, last, q
  <1>9. \A d \in Registered \ {c} : Fd[d] # Fd[c] /\ d \in Channels
    BY <1>0 DEF EntriesInv, Registered
  <1>10. ASSUME NEW d \in Registered \ {c}
         PROVE  /\ index_'[d] \in 0 .. Len(pollfds_') - 1
                /\ pollfds_'[index_'[d] + 1] = EntryFor(d)'
                /\ Fd[d] \in DOMAIN channels_'
                /\ channels_'[Fd[d]] = d
    <2>1. /\ index_[d] \in 0 .. n - 1
          /\ pollfds_[index_[d] + 1] = EntryFor(d)
          /\ Fd[d] \in DOMAIN channels_ /\ channels_[Fd[d]] = d
      BY <1>0 DEF EntriesInv, n
    <2>2. EntryFor(d)' = EntryFor(d)
      BY <1>0, <1>9 DEF EntryFor, PollTypes
    <2>3. Fd[d] \in DOMAIN channels_' /\ channels_'[Fd[d]] = d
      BY <1>5, <1>9, <2>1
    <2>4. CASE d = last
      <3>1. i # n
        BY <1>0, <2>4, OwnerAtIndex DEF i, last
      <3>2. index_'[d] = i - 1 /\ i \in 1 .. n - 1
        BY <1>0, <1>1, <1>6, <2>4, <3>1 DEF i, PollTypes
      <3>3. pollfds_'[i] = EntryFor(d)
        BY <1>2, <1>4, <2>4, <3>2
      <3>4. QED
        BY <1>0, <1>1, <1>4, <2>1, <2>2, <2>3, <3>2, <3>3
    <2>5. CASE d # last
      <3>1. index_'[d] = index_[d]
        BY <1>6, <2>5
      <3>2. index_[d] + 1 # n /\ index_[d] + 1 # i
        BY <1>0, <2>5, OwnerAtIndex DEF i, last
      <3>3. index_[d] + 1 \in 1 .. n - 1 /\ index_[d] \in 0 .. (n - 1) - 1
        BY <1>1, <2>1, <3>2
      <3>4. pollfds_'[index_[d] + 1] = EntryFor(d)
        BY <1>4, <2>1, <3>2, <3>3
      <3>5. QED
        BY <1>0, <1>4, <2>1, <2>2, <2>3, <3>1, <3>3, <3>4
    <2>6. QED
      BY <2>4, <2>5
  <1>11. ASSUME NEW j \in 1 .. Len(pollfds_')
         PROVE  /\ FdOf(pollfds_'[j].fd) \in DOMAIN channels_'
                /\ index_'[OwnerOf(j)'] = j - 1
    <2>1. j \in 1 .. n - 1 /\ j \in 1 .. n /\ j # n
      BY <1>1, <1>4
    <2>2. CASE j = i
      <3>1. pollfds_'[j] = pollfds_[n] /\ last # c
        BY <1>0, <1>1, <1>2, <1>4, <2>1, <2>2 DEF i, PollTypes
      <3>2. FdOf(pollfds_'[j].fd) = Fd[last] /\ last \in Registered \ {c}
        BY <1>2, <3>1
      <3>3. OwnerOf(j)' = last
        BY <1>10, <3>2 DEF OwnerOf
      <3>4. QED
        BY <1>0, <1>1, <1>6, <1>10, <2>1, <2>2, <3>2, <3>3 DEF i, PollTypes
    <2>3. CASE j # i
      <3>1. pollfds_'[j] = pollfds_[j]
        BY <1>4, <2>1, <2>3
      <3>2. /\ OwnerOf(j) \in Registered /\ index_[OwnerOf(j)] = j - 1
            /\ FdOf(pollfds_[j].fd) = Fd[OwnerOf(j)]
        BY <1>0, <2>1, OwnerOfEntry DEF n
      <3>3. OwnerOf(j) # c /\ OwnerOf(j) # last
        BY <1>0, <1>1, <1>2, <2>1, <2>3, <3>2 DEF i, PollTypes
      <3>4. OwnerOf(j)' = OwnerOf(j)
        BY <1>10, <3>1, <3>2, <3>3 DEF OwnerOf
      <3>5. QED
        BY <1>6, <1>10, <3>1, <3>2, <3>3, <3>4
    <2>4. QED
      BY <2>2, <2>3
  <1>12. EntriesInv'
    <2>1. \A fd \in DOMAIN channels_' : channels_'[fd] \in Registered' /\ Fd[channels_'[fd]] = fd
      BY <1>0, <1>5, <1>7 DEF EntriesInv
    <2>2. \A d \in Channels :
             /\ events_'[d] \subseteq kReadEvent \cup kWriteEvent => events_'[d] = asked'[d]
             /\ past'[d] \in {"used", "muted"} <=> addedToLoop_'[d]
             /\ past'[d] # "misused"
      BY <1>0 DEF EntriesInv, PollTypes
    <2>3. \A d \in Channels : past'[d] = "new" <=> index_'[d] < 0
      BY <1>0, <1>14 DEF EntriesInv, PollTypes
    <2>4. QED
      BY <1>7, <1>10, <1>11, <2>1, <2>2, <2>3 DEF EntriesInv
  <1>13. QED
    BY <1>3, <1>4, <1>6, <1>8, <1>12

\* removeChannel() of a channel that is watched for nothing since its first call:
\* its descriptor is not negated, and the assertion on it fails.
LEMMA RemoveOfUsedFails ==
    ASSUME PollInv, NEW c \in Channels, RemoveChannel(c), past[c] # "muted"
    PROVE  failed' = TRUE /\ UNCHANGED <<index_, pollfds_>>
  <1>0. PollTypes /\ EntriesInv /\ c \in Registered
    BY DEF PollInv, RemoveChannel, Registered, InUserCode
  <1>1. pollfds_[index_[c] + 1] = EntryFor(c) /\ EntryFor(c).fd >= 0
    BY <1>0, FdOfEntry DEF EntriesInv
  <1>2. Ignored(Fd[c]) < 0
    BY ChannelAssumption DEF Ignored
  <1>3. pollfds_[index_[c] + 1] # [fd |-> Ignored(Fd[c]), events |-> events_[c]]
    <2>1. [fd |-> Ignored(Fd[c]), events |-> events_[c]].fd < 0
      BY <1>2
    <2>2. EntryFor(c).fd \in Int
      BY FdOfEntry
    <2>3. QED
      BY <1>1, <2>1, <2>2
  <1>4. QED
    BY <1>3 DEF RemoveChannel

\* Channel::remove(): a channel still to be handled is not removed.
LEMMA RemoveKeepsInv ==
    ASSUME PollInv, NEW c \in Channels, RemoveChannel(c)
    PROVE  PollInv'
  <1>0. /\ PollTypes /\ DispatchInv
        /\ past' = [past EXCEPT ![c] = IF past[c] = "muted" THEN "removed" ELSE "misused"]
        /\ addedToLoop_' = [addedToLoop_ EXCEPT ![c] = FALSE]
        /\ UNCHANGED <<life, events_, asked, active, returned, current, phase>>
    BY DEF PollInv, RemoveChannel, dispatchVars
  <1>1. /\ failed' \in BOOLEAN /\ pollfds_' \in Seq(PollFd) /\ index_' \in [Channels -> Int]
        /\ failed' => past'[c] = "misused"
        /\ ~failed' => EntriesInv' /\ CountInv'
    <2>1. CASE past[c] = "muted"
      BY <2>1, RemoveKeepsEntries
    <2>2. CASE past[c] # "muted"
      <3>1. failed' = TRUE /\ UNCHANGED <<index_, pollfds_>>
        BY <2>2, RemoveOfUsedFails
      <3>2. QED
        BY <1>0, <2>2, <3>1 DEF PollTypes
    <2>3. QED
      BY <2>1, <2>2
  <1>2. PollTypes'
    BY <1>0, <1>1 DEF PollTypes, Pasts
  <1>3. c \notin active
    BY <1>0 DEF RemoveChannel, RemoveAllowed, InUserCode, DispatchInv
  <1>4. DispatchInv'
    BY <1>0, <1>3 DEF DispatchInv, Registered, PollTypes
  <1>5. QED
    BY <1>1, <1>2, <1>4 DEF PollInv

-----------------------------------------------------------------------------

\* The inductive invariant holds of every behaviour.
LEMMA PollInvariant == Spec => []PollInv
  <1>1. PollInv /\ [Next]_vars => PollInv'
    <2> SUFFICES ASSUME PollInv, [Next]_vars PROVE PollInv'
      OBVIOUS
    <2>1. CASE UNCHANGED vars
      <3>1. PollTypes' /\ DispatchInv' /\ failed' = failed /\ past' = past
        BY <2>1 DEF vars, channelVars, dispatchVars, pollerVars, PollInv, PollTypes,
                    DispatchInv, Registered
      <3>2. ~failed => EntriesInv' /\ CountInv'
        BY <2>1, SamePoller DEF vars, channelVars, PollInv
      <3>3. QED
        BY <3>1, <3>2 DEF PollInv
    <2>2. ASSUME NEW c \in Channels,
                 \/ Construct(c) /\ UNCHANGED pollerVars
                 \/ Destroy(c) /\ UNCHANGED pollerVars
                 \/ HandleEvent(c) /\ UNCHANGED pollerVars
                 \/ RemoveChannel(c)
          PROVE  PollInv'
      BY <2>2, ConstructKeepsInv, DestroyKeepsInv, DispatchKeepsInv, RemoveKeepsInv
    <2>3. ASSUME NEW c \in Channels, NEW call \in Calls, ChannelCall(c, call)
          PROVE  PollInv'
      BY <2>3, ChannelCallKeepsInv
    <2>4. CASE Poll
      BY <2>4, PollKeepsInv
    <2>5. CASE (HandleEventReturns \/ DispatchEnds) /\ UNCHANGED pollerVars
      BY <2>5, DispatchKeepsInv
    <2>6. QED
      BY <2>1, <2>2, <2>3, <2>4, <2>5 DEF Next
  <1>2. QED
    BY <1>1, InitPollInv, PTL DEF Spec

\* poll(2) is asked on behalf of a channel for exactly what its owner asked for,
\* through its own entry and no other, and for nothing once it was disabled.
LEMMA WatchedIsAsked ==
    ASSUME PollInv, ~failed, NEW c \in Registered,
           events_[c] \subseteq kReadEvent \cup kWriteEvent
    PROVE  Watched(c) = IF past[c] = "muted" THEN {} ELSE asked[c]
  <1> DEFINE at == {j \in DOMAIN pollfds_ : pollfds_[j].fd = Fd[c]}
  <1>0. /\ PollTypes /\ EntriesInv /\ events_[c] = asked[c] /\ Fd[c] \in Nat
        /\ DOMAIN pollfds_ = 1 .. Len(pollfds_) /\ c \in Channels
    BY ChannelAssumption, LenProperties DEF PollInv, EntriesInv, PollTypes, Registered
  <1>1. ASSUME NEW j \in at
        PROVE  j = index_[c] + 1 /\ past[c] # "muted"
    <2>1. /\ j \in 1 .. Len(pollfds_) /\ FdOf(pollfds_[j].fd) = Fd[c]
          /\ pollfds_[j].fd = Fd[c]
      BY <1>0, <1>1 DEF FdOf
    <2>2. /\ OwnerOf(j) \in Registered /\ index_[OwnerOf(j)] = j - 1
          /\ pollfds_[j] = EntryFor(OwnerOf(j)) /\ Fd[OwnerOf(j)] = Fd[c]
      BY <1>0, <2>1, OwnerOfEntry
    <2>3. OwnerOf(j) = c
      BY <1>0, <2>2 DEF EntriesInv, Registered
    <2>4. QED
      BY <1>0, <2>1, <2>2, <2>3, FdOfEntry
  <1>2. CASE past[c] # "muted"
    <2>1. /\ index_[c] + 1 \in 1 .. Len(pollfds_)
          /\ pollfds_[index_[c] + 1] = [fd |-> Fd[c], events |-> events_[c]]
      BY <1>0, <1>2, LenProperties DEF EntriesInv, EntryFor, PollTypes
    <2>2. at = {index_[c] + 1}
      BY <1>0, <1>1, <2>1
    <2>3. Watched(c) = UNION {events_[c]}
      BY <2>1, <2>2 DEF Watched
    <2>4. QED
      BY <1>0, <1>2, <2>3
  <1>3. CASE past[c] = "muted"
    <2>1. at = {}
      BY <1>1, <1>3
    <2>2. Watched(c) = {}
      BY <2>1 DEF Watched
    <2>3. QED
      BY <1>3, <2>2
  <1>4. QED
    BY <1>2, <1>3

\* index_ is right after any sequence of updates and removals, the move of the
\* last entry into the hole included; an assertion of PollPoller fails exactly
\* when a channel is misused, and poll(2) watches what was asked for until the
\* channel's first disableAll() as a registered one, and nothing from then on.
THEOREM IndexAlwaysAgrees == Spec => []IndexAgrees
  <1>1. PollInv => IndexAgrees
    <2> SUFFICES ASSUME PollInv, ~failed PROVE IndexAgrees
      BY DEF PollInv, IndexAgrees
    <2>0. PollTypes /\ EntriesInv /\ CountInv
      BY DEF PollInv
    <2>1. DOMAIN channels_ = {Fd[c] : c \in Registered}
      <3>1. \A c \in Registered : Fd[c] \in DOMAIN channels_
        BY <2>0 DEF EntriesInv
      <3>2. \A fd \in DOMAIN channels_ : channels_[fd] \in Registered /\ Fd[channels_[fd]] = fd
        BY <2>0 DEF EntriesInv
      <3>3. QED
        BY <3>1, <3>2
    <2>2. ASSUME NEW c \in Registered
          PROVE  /\ index_[c] + 1 \in DOMAIN pollfds_
                 /\ FdOf(pollfds_[index_[c] + 1].fd) = Fd[c]
                 /\ channels_[Fd[c]] = c
      <3>1. /\ c \in Channels /\ index_[c] \in 0 .. Len(pollfds_) - 1
            /\ pollfds_[index_[c] + 1] = EntryFor(c) /\ channels_[Fd[c]] = c
        BY <2>0 DEF EntriesInv, Registered
      <3>2. index_[c] + 1 \in 1 .. Len(pollfds_) /\ DOMAIN pollfds_ = 1 .. Len(pollfds_)
        BY <2>0, <3>1, LenProperties DEF PollTypes
      <3>3. QED
        BY <3>1, <3>2, FdOfEntry
    <2>3. \A c \in Registered :
             events_[c] \subseteq kReadEvent \cup kWriteEvent =>
                 Watched(c) = IF past[c] = "muted" THEN {} ELSE asked[c]
      BY WatchedIsAsked
    <2>4. ~\E c \in Channels : past[c] = "misused"
      BY <2>0 DEF EntriesInv
    <2>5. QED
      BY <2>0, <2>1, <2>2, <2>3, <2>4 DEF CountInv, IndexAgrees
  <1>2. QED
    BY <1>1, PollInvariant, PTL

\* With PollPoller too the loop never calls handleEvent() on a destroyed channel.
THEOREM DispatchedChannelsLive == Spec => []NoDanglingChannel
  <1>1. PollInv => NoDanglingChannel
    BY ChannelAssumption DEF PollInv, DispatchInv, Registered, NoDanglingChannel
  <1>2. QED
    BY <1>1, PollInvariant, PTL

-----------------------------------------------------------------------------
(* The EPollPoller: the kernel's interest list in the place of pollfds_.   *)

\* The types.  A channel asks for nothing but kReadEvent and kWriteEvent.
EPollTypes ==
    /\ life \in [Channels -> {"unborn", "alive", "dead"}]
    /\ events_ \in [Channels -> SUBSET AllBits]
    /\ asked \in [Channels -> SUBSET (kReadEvent \cup kWriteEvent)]
    /\ addedToLoop_ \in [Channels -> BOOLEAN]
    /\ index_ \in [Channels -> {kNew, kAdded, kDeleted}]
    /\ failed \in BOOLEAN
    /\ phase \in {"user", "dispatch", "callback"}

\* ChannelMap and the interest list hold living channels under their own
\* descriptor, as index_ says.
PollerInv ==
    /\ \A c \in Channels :
          /\ addedToLoop_[c] <=> index_[c] # kNew
          /\ index_[c] # kNew => life[c] = "alive"
          /\ index_[c] # kNew <=> Fd[c] \in DOMAIN channels_ /\ channels_[Fd[c]] = c
          /\ index_[c] = kAdded <=> Fd[c] \in DOMAIN epoll /\ epoll[Fd[c]].ptr = c
          /\ index_[c] = kAdded => epoll[Fd[c]].events = events_[c]
          /\ events_[c] = asked[c]
    /\ \A fd \in DOMAIN channels_ : channels_[fd] \in Channels /\ Fd[channels_[fd]] = fd
    /\ \A fd \in DOMAIN epoll : epoll[fd].ptr \in Channels /\ Fd[epoll[fd].ptr] = fd

\* Where the dispatch is: what handleEvent() has still to reach is part of what
\* poll() returned, the channel whose callback runs is not to be reached again,
\* and all of them are registered.
EPollDispatchInv ==
    /\ active \subseteq returned
    /\ returned \subseteq Channels
    /\ phase = "user" => returned = {}
    /\ phase = "callback" <=> current # NoChannel
    /\ current # NoChannel => current \in returned \ active
    /\ ~failed => \A c \in active : addedToLoop_[c]
    /\ NoDanglingChannel

\* The inductive invariant.  The one way to fail is a mask epoll_ctl() refuses.
EPollInv ==
    /\ EPollTypes
    /\ EPollDispatchInv
    /\ ~failed => PollerInv
    /\ failed => \E c \in Channels : "rest" \in events_[c]

-----------------------------------------------------------------------------

\* No channel exists, nothing is registered.
LEMMA InitEPollInv == EPollInit => EPollInv
  <1> SUFFICES ASSUME EPollInit PROVE EPollInv
    OBVIOUS
  <1> USE DEF EPollInit, InitChannels
  <1>1. EPollTypes
    BY DEF EPollTypes, kNoneEvent, kNew
  <1>2. EPollDispatchInv
    BY ChannelAssumption DEF EPollDispatchInv, NoDanglingChannel
  <1>3. PollerInv
    BY DEF PollerInv, kNew, kAdded, kNoneEvent
  <1>4. QED
    BY <1>1, <1>2, <1>3 DEF EPollInv

\* Building a channel: nothing points to it yet.
LEMMA EPollConstructKeepsInv ==
    ASSUME EPollInv, NEW c \in Channels, Construct(c), UNCHANGED epollVars
    PROVE  EPollInv'
  <1> USE DEF Construct, InUserCode, dispatchVars, epollVars
  <1>1. EPollTypes'
    BY DEF EPollInv, EPollTypes
  <1>2. EPollDispatchInv'
    BY DEF EPollInv, EPollTypes, EPollDispatchInv, NoDanglingChannel
  <1>3. PollerInv'
    BY DEF EPollInv, EPollTypes, PollerInv
  <1>4. QED
    BY <1>1, <1>2, <1>3 DEF EPollInv

\* Destroying a channel: it is registered nowhere, so nothing points to it.
LEMMA EPollDestroyKeepsInv ==
    ASSUME EPollInv, NEW c \in Channels, Destroy(c), UNCHANGED epollVars
    PROVE  EPollInv'
  <1> USE DEF Destroy, InUserCode, dispatchVars, epollVars
  <1>1. EPollTypes'
    BY DEF EPollInv, EPollTypes
  <1>2. EPollDispatchInv'
    BY DEF EPollInv, EPollTypes, EPollDispatchInv, NoDanglingChannel
  <1>3. PollerInv'
    BY DEF EPollInv, EPollTypes, PollerInv
  <1>4. QED
    BY <1>1, <1>2, <1>3 DEF EPollInv

\* The dispatch of one event, its return and the end of the dispatch.
LEMMA EPollDispatchKeepsInv ==
    ASSUME EPollInv,
           (\E c \in Channels : HandleEvent(c)) \/ HandleEventReturns \/ DispatchEnds,
           UNCHANGED epollVars
    PROVE  EPollInv'
  <1> USE DEF HandleEvent, HandleEventReturns, DispatchEnds, channelVars, epollVars
  <1>1. EPollTypes'
    BY DEF EPollInv, EPollTypes
  <1>2. EPollDispatchInv'
    <2>1. ASSUME NEW c \in Channels, HandleEvent(c) PROVE EPollDispatchInv'
      BY <2>1, ChannelAssumption DEF EPollInv, EPollTypes, EPollDispatchInv, NoDanglingChannel
    <2>2. CASE HandleEventReturns
      BY <2>2, ChannelAssumption DEF EPollInv, EPollTypes, EPollDispatchInv, NoDanglingChannel
    <2>3. CASE DispatchEnds
      BY <2>3 DEF EPollInv, EPollTypes, EPollDispatchInv, NoDanglingChannel
    <2>4. QED
      BY <2>1, <2>2, <2>3
  <1>3. PollerInv => PollerInv'
    BY DEF PollerInv
  <1>4. QED
    BY <1>1, <1>2, <1>3 DEF EPollInv

\* poll(): every pointer the kernel hands back is a registered, living channel.
LEMMA EPollPollKeepsInv ==
    ASSUME EPollInv, EPollPoll
    PROVE  EPollInv'
  <1>0. PollerInv /\ ~failed /\ phase = "user"
    BY DEF EPollPoll, EPollInv
  <1>1. PICK fds \in SUBSET DOMAIN epoll :
          /\ returned' = {epoll[fd].ptr : fd \in fds}
          /\ failed' = ~(\A fd \in fds : fd \in DOMAIN channels_ /\ channels_[fd] = epoll[fd].ptr)
    BY DEF EPollPoll
  <1>2. \A fd \in fds : /\ epoll[fd].ptr \in Channels /\ Fd[epoll[fd].ptr] = fd
                        /\ index_[epoll[fd].ptr] = kAdded
    BY <1>0 DEF PollerInv
  <1>3. \A fd \in fds : fd \in DOMAIN channels_ /\ channels_[fd] = epoll[fd].ptr
    BY <1>0, <1>2 DEF PollerInv, kAdded, kNew
  <1>4. failed' = FALSE
    BY <1>1, <1>3
  <1>5. \A c \in returned' : c \in Channels /\ addedToLoop_[c] /\ life[c] = "alive"
    BY <1>0, <1>1, <1>2 DEF PollerInv, kAdded, kNew
  <1>6. EPollTypes'
    BY <1>4 DEF EPollPoll, channelVars, epollVars, EPollInv, EPollTypes
  <1>7. PollerInv'
    BY <1>0 DEF EPollPoll, channelVars, epollVars, PollerInv
  <1>8. EPollDispatchInv'
    BY <1>0, <1>4, <1>5, ChannelAssumption
       DEF EPollPoll, channelVars, EPollInv, EPollDispatchInv, NoDanglingChannel
  <1>9. QED
    BY <1>4, <1>6, <1>7, <1>8 DEF EPollInv

-----------------------------------------------------------------------------

\* A channel that is not registered, and whose descriptor no other one is
\* registered for, finds it free, in ChannelMap and in the kernel.
LEMMA FreshDescriptor ==
    ASSUME PollerInv, NEW c \in Channels, OwnsFd(c), index_[c] = kNew
    PROVE  Fd[c] \notin DOMAIN channels_ /\ Fd[c] \notin DOMAIN epoll
  <1>1. Fd[c] \notin DOMAIN channels_
    BY DEF PollerInv, OwnsFd
  <1>2. Fd[c] \notin DOMAIN epoll
    BY DEF PollerInv, OwnsFd, kNew, kAdded
  <1>3. QED
    BY <1>1, <1>2

\* A channel the kernel does not watch any more is not in its list, and its
\* descriptor is nobody else's there.
LEMMA DeletedDescriptor ==
    ASSUME PollerInv, NEW c \in Channels, index_[c] = kDeleted
    PROVE  /\ Fd[c] \in DOMAIN channels_ /\ channels_[Fd[c]] = c
           /\ Fd[c] \notin DOMAIN epoll
  <1>1. Fd[c] \in DOMAIN channels_ /\ channels_[Fd[c]] = c
    BY DEF PollerInv, kNew, kDeleted
  <1>2. ASSUME Fd[c] \in DOMAIN epoll PROVE FALSE
    <2>1. epoll[Fd[c]].ptr \in Channels /\ Fd[epoll[Fd[c]].ptr] = Fd[c]
      BY <1>2 DEF PollerInv
    <2>2. index_[epoll[Fd[c]].ptr] = kAdded
      BY <1>2, <2>1 DEF PollerInv
    <2>3. epoll[Fd[c]].ptr = c
      BY <1>1, <2>1, <2>2 DEF PollerInv, kAdded, kNew
    <2>4. QED
      BY <2>2, <2>3 DEF kAdded, kDeleted
  <1>3. QED
    BY <1>1, <1>2

\* A call whose mask epoll_ctl() refuses is a LOG_FATAL, whatever the index_.
LEMMA RefusedMaskFails ==
    ASSUME NEW c \in Channels, NEW ev, "rest" \in ev, EPollUpdateChannel(c, ev)
    PROVE  failed' = TRUE
  <1>1. ev # kNoneEvent
    BY DEF kNoneEvent
  <1>2. EpollCtlFails("ADD", Fd[c], ev) /\ EpollCtlFails("MOD", Fd[c], ev)
    BY DEF EpollCtlFails
  <1>3. QED
    BY <1>1, <1>2 DEF EPollUpdateChannel, Update

\* A call whose mask epoll_ctl() takes: no assertion of updateChannel() fails, and
\* ChannelMap, the kernel and index_ still agree.
LEMMA UpdateKeepsPollerInv ==
    ASSUME EPollTypes, PollerInv, ~failed,
           NEW c \in Channels, life[c] = "alive", OwnsFd(c),
           NEW ev \in SUBSET (kReadEvent \cup kWriteEvent),
           EPollUpdateChannel(c, ev),
           events_' = [events_ EXCEPT ![c] = ev],
           asked' = [asked EXCEPT ![c] = ev],
           addedToLoop_' = [addedToLoop_ EXCEPT ![c] = TRUE],
           UNCHANGED life
    PROVE  PollerInv' /\ failed' = FALSE
  <1>0. "rest" \notin ev
    BY DEF kReadEvent, kWriteEvent
  <1> USE DEF EPollTypes, kNew, kAdded, kDeleted
  <1>1. CASE index_[c] = kNew
    <2>1. Fd[c] \notin DOMAIN channels_ /\ Fd[c] \notin DOMAIN epoll
      BY <1>1, FreshDescriptor
    <2>2. ~EpollCtlFails("ADD", Fd[c], ev)
      BY <1>0, <2>1 DEF EpollCtlFails
    <2>3. /\ channels_' = With(channels_, Fd[c], c)
          /\ index_' = [index_ EXCEPT ![c] = kAdded]
          /\ epoll' = With(epoll, Fd[c], [ptr |-> c, events |-> ev])
          /\ failed' = FALSE
      BY <1>1, <2>1, <2>2 DEF EPollUpdateChannel, Update
    <2>4. QED
      BY <2>1, <2>3 DEF PollerInv, With
  <1>2. CASE index_[c] = kDeleted
    <2>1. /\ Fd[c] \in DOMAIN channels_ /\ channels_[Fd[c]] = c
          /\ Fd[c] \notin DOMAIN epoll
      BY <1>2, DeletedDescriptor
    <2>2. ~EpollCtlFails("ADD", Fd[c], ev)
      BY <1>0, <2>1 DEF EpollCtlFails
    <2>3. /\ channels_' = channels_
          /\ index_' = [index_ EXCEPT ![c] = kAdded]
          /\ epoll' = With(epoll, Fd[c], [ptr |-> c, events |-> ev])
          /\ failed' = FALSE
      BY <1>2, <2>1, <2>2 DEF EPollUpdateChannel, Update
    <2>4. QED
      BY <1>2, <2>1, <2>3 DEF PollerInv, With
  <1>3. CASE index_[c] = kAdded
    <2>1. /\ Fd[c] \in DOMAIN channels_ /\ channels_[Fd[c]] = c
          /\ Fd[c] \in DOMAIN epoll /\ epoll[Fd[c]].ptr = c
      BY <1>3 DEF PollerInv
    <2>2. ~EpollCtlFails("MOD", Fd[c], ev) /\ ~EpollCtlFails("DEL", Fd[c], ev)
      BY <1>0, <2>1 DEF EpollCtlFails
    <2>3. /\ channels_' = [channels_ EXCEPT ![Fd[c]] = c]
          /\ index_' = [index_ EXCEPT ![c] = IndexAfter(ev)]
          /\ failed' = FALSE
      BY <1>3, <2>1, <2>2 DEF EPollUpdateChannel, Update
    <2>4. CASE ev = kNoneEvent
      <3>1. epoll' = Without(epoll, Fd[c]) /\ index_' = [index_ EXCEPT ![c] = kDeleted]
        BY <1>3, <2>2, <2>3, <2>4 DEF EPollUpdateChannel, Update, IndexAfter
      <3>2. QED
        BY <1>3, <2>1, <2>3, <3>1 DEF PollerInv, Without, Restrict
    <2>5. CASE ev # kNoneEvent
      <3>1. /\ epoll' = With(epoll, Fd[c], [ptr |-> c, events |-> ev])
            /\ index_' = [index_ EXCEPT ![c] = kAdded]
        BY <1>3, <2>2, <2>3, <2>5 DEF EPollUpdateChannel, Update, IndexAfter
      <3>2. QED
        BY <1>3, <2>1, <2>3, <3>1 DEF PollerInv, With
    <2>6. QED
      BY <2>4, <2>5
  <1>4. QED
    BY <1>1, <1>2, <1>3

\* enableReading() ... disableAll() keep the invariant.
LEMMA EPollChannelCallKeepsInv ==
    ASSUME EPollInv, NEW c \in Channels, NEW call \in Calls, EPollChannelCall(c, call)
    PROVE  EPollInv'
  <1> DEFINE ev == NewEvents(call, events_[c])
  <1>0. /\ ~failed /\ PollerInv /\ EPollTypes /\ EPollDispatchInv
        /\ life[c] = "alive" /\ OwnsFd(c)
    BY DEF EPollChannelCall, InUserCode, EPollInv
  <1>1. events_[c] = asked[c] /\ events_[c] \in SUBSET (kReadEvent \cup kWriteEvent)
    BY <1>0 DEF PollerInv, EPollTypes
  <1>2. /\ ev \in SUBSET AllBits
        /\ NewAsked(call, asked[c]) \in SUBSET (kReadEvent \cup kWriteEvent)
        /\ "rest" \notin ev => ev = NewAsked(call, asked[c])
    BY <1>1, ChannelAssumption, NewEventsAreAsked DEF kReadEvent, kWriteEvent, AllBits
  <1>3. /\ events_' = [events_ EXCEPT ![c] = ev]
        /\ asked' = [asked EXCEPT ![c] = NewAsked(call, asked[c])]
        /\ addedToLoop_' = [addedToLoop_ EXCEPT ![c] = TRUE]
        /\ UNCHANGED <<life, active, returned, current, phase>>
    BY <1>0 DEF EPollChannelCall, EPollTypes, dispatchVars
  <1>4. events_'[c] = ev
    BY <1>0, <1>3 DEF EPollTypes
  <1>5. EPollUpdateChannel(c, ev)
    BY <1>4 DEF EPollChannelCall
  <1> HIDE DEF ev
  <1>6. index_' \in [Channels -> {kNew, kAdded, kDeleted}] /\ failed' \in BOOLEAN
    BY <1>0, <1>5 DEF EPollUpdateChannel, Update, IndexAfter, EPollTypes
  <1>7. EPollTypes'
    BY <1>0, <1>2, <1>3, <1>6 DEF EPollTypes
  <1>8. EPollDispatchInv'
    BY <1>0, <1>3 DEF EPollTypes, EPollDispatchInv, NoDanglingChannel
  <1>9. CASE "rest" \in ev
    <2>1. failed' = TRUE
      BY <1>5, <1>9, RefusedMaskFails
    <2>2. QED
      BY <1>4, <1>7, <1>8, <1>9, <2>1 DEF EPollInv
  <1>10. CASE "rest" \notin ev
    <2>1. ev \in SUBSET (kReadEvent \cup kWriteEvent) /\ asked' = [asked EXCEPT ![c] = ev]
      BY <1>2, <1>3, <1>10
    <2>2. PollerInv' /\ failed' = FALSE
      BY <1>0, <1>3, <1>5, <2>1, UpdateKeepsPollerInv
    <2>3. QED
      BY <1>7, <1>8, <2>2 DEF EPollInv
  <1>11. QED
    BY <1>9, <1>10

\* Channel::remove(): no assertion fails, and a channel still to be handled is
\* not removed.
LEMMA EPollRemoveKeepsInv ==
    ASSUME EPollInv, NEW c \in Channels, EPollRemoveChannel(c)
    PROVE  EPollInv'
  <1>0. /\ ~failed /\ PollerInv /\ EPollTypes /\ EPollDispatchInv
        /\ life[c] = "alive" /\ index_[c] # kNew
    BY DEF EPollRemoveChannel, InUserCode, EPollInv, PollerInv
  <1>1. Fd[c] \in DOMAIN channels_ /\ channels_[Fd[c]] = c /\ index_[c] \in {kAdded, kDeleted}
    BY <1>0 DEF PollerInv, EPollTypes
  <1>2. /\ addedToLoop_' = [addedToLoop_ EXCEPT ![c] = FALSE]
        /\ channels_' = Without(channels_, Fd[c])
        /\ index_' = [index_ EXCEPT ![c] = kNew]
        /\ UNCHANGED <<life, events_, asked, active, returned, current, phase>>
    BY DEF EPollRemoveChannel, dispatchVars
  <1>3. /\ failed' = FALSE
        /\ DOMAIN epoll' = DOMAIN epoll \ {Fd[c]}
        /\ \A fd \in DOMAIN epoll' : epoll'[fd] = epoll[fd]
    <2>1. CASE index_[c] = kAdded
      <3>1. ~EpollCtlFails("DEL", Fd[c], kNoneEvent)
        BY <1>0, <2>1 DEF EpollCtlFails, PollerInv
      <3>2. Update("DEL", c, kNoneEvent, TRUE)
        BY <1>1, <2>1 DEF EPollRemoveChannel
      <3>3. QED
        BY <3>1, <3>2 DEF Update, Without, Restrict
    <2>2. CASE index_[c] # kAdded
      <3>1. Fd[c] \notin DOMAIN epoll
        BY <1>0, <1>1, <2>2, DeletedDescriptor
      <3>2. failed' = FALSE /\ epoll' = epoll
        BY <1>1, <2>2 DEF EPollRemoveChannel
      <3>3. QED
        BY <3>1, <3>2
    <2>3. QED
      BY <2>1, <2>2
  <1>4. EPollTypes'
    BY <1>0, <1>2, <1>3 DEF EPollTypes
  <1>5. PollerInv'
    BY <1>0, <1>1, <1>2, <1>3 DEF PollerInv, EPollTypes, Without, Restrict, kNew, kAdded
  <1>6. EPollDispatchInv'
    <2>1. c \notin active
      BY <1>0 DEF EPollRemoveChannel, RemoveAllowed, InUserCode, EPollDispatchInv
    <2>2. QED
      BY <1>0, <1>2, <2>1 DEF EPollDispatchInv, NoDanglingChannel, EPollTypes
  <1>7. QED
    BY <1>3, <1>4, <1>5, <1>6 DEF EPollInv

-----------------------------------------------------------------------------

\* The inductive invariant holds of every behaviour.
LEMMA EPollInvariant == EPollSpec => []EPollInv
  <1>1. EPollInv /\ [EPollNext]_allEPollVars => EPollInv'
    <2> SUFFICES ASSUME EPollInv, [EPollNext]_allEPollVars PROVE EPollInv'
      OBVIOUS
    <2>1. CASE UNCHANGED allEPollVars
      BY <2>1 DEF allEPollVars, channelVars, dispatchVars, epollVars, EPollInv, EPollTypes,
                  PollerInv, EPollDispatchInv, NoDanglingChannel
    <2>2. ASSUME NEW c \in Channels,
                 \/ Construct(c) /\ UNCHANGED epollVars
                 \/ Destroy(c) /\ UNCHANGED epollVars
                 \/ HandleEvent(c) /\ UNCHANGED epollVars
                 \/ EPollRemoveChannel(c)
          PROVE  EPollInv'
      BY <2>2, EPollConstructKeepsInv, EPollDestroyKeepsInv, EPollDispatchKeepsInv,
         EPollRemoveKeepsInv
    <2>3. ASSUME NEW c \in Channels, NEW call \in Calls, EPollChannelCall(c, call)
          PROVE  EPollInv'
      BY <2>3, EPollChannelCallKeepsInv
    <2>4. CASE EPollPoll
      BY <2>4, EPollPollKeepsInv
    <2>5. CASE (HandleEventReturns \/ DispatchEnds) /\ UNCHANGED epollVars
      BY <2>5, EPollDispatchKeepsInv
    <2>6. QED
      BY <2>1, <2>2, <2>3, <2>4, <2>5 DEF EPollNext
  <1>2. QED
    BY <1>1, InitEPollInv, PTL DEF EPollSpec

\* index_ of each channel tells what ChannelMap and the kernel's interest list
\* hold, and the kernel is asked for what the channel's owner asked for; nothing
\* but a mask made by disableReading() or disableWriting() makes the poller fail.
THEOREM KernelAlwaysAgrees == EPollSpec => []KernelAgrees
  <1>1. EPollInv => KernelAgrees
    <2> SUFFICES ASSUME EPollInv PROVE KernelAgrees
      OBVIOUS
    <2>1. ASSUME failed
          PROVE  \E c \in Channels : events_[c] \ (kReadEvent \cup kWriteEvent) # {}
      BY <2>1 DEF EPollInv, kReadEvent, kWriteEvent
    <2>2. ASSUME ~failed PROVE DOMAIN epoll \subseteq DOMAIN channels_
      BY <2>2 DEF EPollInv, PollerInv, kNew, kAdded
    <2>3. QED
      BY <2>1, <2>2 DEF EPollInv, PollerInv, KernelAgrees
  <1>2. QED
    BY <1>1, EPollInvariant, PTL

\* The loop never calls handleEvent() on a channel that has been destroyed, and
\* no channel is destroyed inside its own callback.
THEOREM EPollDispatchedChannelsLive == EPollSpec => []NoDanglingChannel
  <1>1. EPollInv => NoDanglingChannel
    BY DEF EPollInv, EPollDispatchInv
  <1>2. QED
    BY <1>1, EPollInvariant, PTL
=============================================================================
