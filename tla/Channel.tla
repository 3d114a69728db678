------------------------------- MODULE Channel -------------------------------
(***************************************************************************)
(* reactor.muduo/Channel.{h,cpp} and the part of EventLoop::loop() that    *)
(* dispatches events to channels.  What a channel is registered with is    *)
(* the poller's business: EPollPoller and PollPoller extend this module    *)
(* and give updateChannel and removeChannel.                               *)
(*                                                                         *)
(* All of this runs in the loop thread; what is hard is the order of calls *)
(* callbacks and functors make on channels that live, die and share file   *)
(* descriptors one after the other.                                        *)
(***************************************************************************)
EXTENDS Integers, FiniteSets, Functions

CONSTANTS Channels,     \* Channel objects, those built later included
          Fd,           \* the descriptor each one is built with
          Calls,        \* the member functions of Channel that callers use
          NoChannel     \* NULL

\* The bits of events_ that matter: kReadEvent, kWriteEvent, and all others.
kReadEvent == {"in"}
kWriteEvent == {"out"}
kNoneEvent == {}
AllBits == {"in", "out", "rest"}

AllCalls == {"enableReading", "enableWriting", "disableReading", "disableWriting",
             "disableAll"}

ASSUME ChannelAssumption ==
    /\ Fd \in [Channels -> Nat]
    /\ Calls \subseteq AllCalls
    /\ NoChannel \notin Channels

VARIABLES
    life,            \* "unborn", "alive" or "dead" Channel objects
    events_,         \* the events a channel cares about
    addedToLoop_,
    index_,          \* what the poller notes in a channel
    channels_,       \* ChannelMap of the poller: descriptor -> Channel
    asked,           \* history: what the callers asked to be told about
    active,          \* channels poll() returned that handleEvent has not reached
    returned,        \* all channels of activeChannels_
    current,         \* currentActiveChannel_ while its callbacks run
    phase,           \* the loop thread: "user" (functors), "dispatch", "callback"
    failed           \* an assertion failed or LOG_FATAL was reached

channelVars == <<life, events_, addedToLoop_, asked>>
dispatchVars == <<active, returned, current, phase>>

\* channels_[x] = y of a map
With(f, x, y) == [z \in DOMAIN f \cup {x} |-> IF z = x THEN y ELSE f[z]]

InitChannels ==
    /\ life = [c \in Channels |-> "unborn"]
    /\ events_ = [c \in Channels |-> kNoneEvent]
    /\ addedToLoop_ = [c \in Channels |-> FALSE]
    /\ asked = [c \in Channels |-> {}]
    /\ active = {}
    /\ returned = {}
    /\ current = NoChannel
    /\ phase = "user"
    /\ failed = FALSE
    /\ index_ = [c \in Channels |-> -1]
    /\ channels_ = [fd \in {} |-> NoChannel]

\* Callbacks and functors run here.
InUserCode == phase \in {"user", "callback"} /\ ~failed

\* The new value of events_ for each member function.  disableReading and
\* disableWriting are written events_ |= ~k: they set every other bit and
\* clear none.
NewEvents(call, ev) ==
    CASE call = "enableReading"  -> ev \cup kReadEvent
      [] call = "enableWriting"  -> ev \cup kWriteEvent
      [] call = "disableReading" -> ev \cup (AllBits \ kReadEvent)
      [] call = "disableWriting" -> ev \cup (AllBits \ kWriteEvent)
      [] call = "disableAll"     -> kNoneEvent

\* What the name of the member function says.
NewAsked(call, a) ==
    CASE call = "enableReading"  -> a \cup kReadEvent
      [] call = "enableWriting"  -> a \cup kWriteEvent
      [] call = "disableReading" -> a \ kReadEvent
      [] call = "disableWriting" -> a \ kWriteEvent
      [] call = "disableAll"     -> {}

\* No other Channel is registered for the descriptor of c.  A descriptor that the
\* kernel has just handed out is nobody's; Connector removes its own Channel
\* (Connector.cpp:129) before it hands its socket to a TcpConnection, but keeps
\* the object until resetChannel() runs: two Channels of a descriptor may live.
OwnsFd(c) == \A d \in Channels \ {c} : addedToLoop_[d] => Fd[d] # Fd[c]

Construct(c) ==
    /\ InUserCode
    /\ life[c] = "unborn"
    /\ OwnsFd(c)
    /\ life' = [life EXCEPT ![c] = "alive"]
    /\ UNCHANGED <<events_, addedToLoop_, asked, dispatchVars, failed>>

\* ~Channel(): both assertions; the owner closes the descriptor.
Destroy(c) ==
    /\ InUserCode
    /\ life[c] = "alive"
    /\ ~addedToLoop_[c] /\ current # c
    /\ life' = [life EXCEPT ![c] = "dead"]
    /\ UNCHANGED <<events_, addedToLoop_, asked, dispatchVars, failed>>

\* handleEvent() of the next active channel; its callbacks are user code.
HandleEvent(c) ==
    /\ phase = "dispatch"
    /\ c \in active
    /\ active' = active \ {c}
    /\ current' = c
    /\ phase' = "callback"
    /\ UNCHANGED <<channelVars, returned, failed>>

HandleEventReturns ==
    /\ phase = "callback"
    /\ ~failed
    /\ current' = NoChannel
    /\ phase' = "dispatch"
    /\ UNCHANGED <<channelVars, active, returned, failed>>

\* currentActiveChannel_ = NULL; eventHandling_ = false; functors come next.
DispatchEnds ==
    /\ phase = "dispatch"
    /\ active = {}
    /\ returned' = {}
    /\ phase' = "user"
    /\ UNCHANGED <<channelVars, active, current, failed>>

\* Mutant: removeChannel does not look at the active channels.
RemoveAllowed_Always(c) == TRUE

\* The assertion of EventLoop::removeChannel, and how callers meet it: a
\* channel is removed in its own callback or outside the dispatch.
RemoveAllowed(c) == phase = "callback" => current = c \/ c \notin returned

\* Every channel the loop is about to call handleEvent() on still exists, and
\* so does the one whose callback is running (EventLoop.cpp:150, Channel.cpp:32).
NoDanglingChannel == \A c \in active \cup ({current} \cap Channels) : life[c] = "alive"
=============================================================================
