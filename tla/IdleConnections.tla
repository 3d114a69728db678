--------------------------- MODULE IdleConnections ---------------------------
(***************************************************************************)
(* idleconnection/: two echo servers that close connections from which     *)
(* nothing has come for some seconds.  echo.cc keeps them in a wheel of    *)
(* buckets, one per second; sortedlist.cc in a list ordered by the time of *)
(* the last message.  Both run in one loop thread with a timer every       *)
(* second.  The library they use is not in this directory: what it does    *)
(* with a connection is taken from how it is called.                       *)
(* Time is in units of 1/Second s.  The loop takes the time when poll()    *)
(* returns and hands it to the message callbacks; up to Skew passes before *)
(* the last handler of the round has run.  Timers are points of the wall   *)
(* clock, as in TimerQueue.cpp:36: when it is set back, they are late.     *)
(***************************************************************************)
EXTENDS Integers, Sequences, SequencesExt

CONSTANTS Conns, Second,
          idleSeconds,   \* in seconds
          Delay,         \* of forceCloseWithDelay()
          Skew,          \* bound: how long a round of the loop takes
          StepBack,      \* bound: how far the wall clock may be set back in all
          MaxTime        \* bound

ASSUME IdleAssumption ==
    /\ {Second, idleSeconds, Delay, Skew} \subseteq Nat \ {0} /\ StepBack \in Nat
    /\ "tick" \notin Conns   \* it names the timer of every second

VARIABLES
    server,              \* which of the two servers runs
    now, back,           \* the time, and by how much the wall clock is behind it
    round,               \* when poll() returned, or -1 while the loop is in poll()
    pollReturnTime_,     \* what the wall clock showed then
    ready,               \* the timers that poll() found due: "tick" is the one of every second
    nextTick,            \* wall clock at which the timer of every second is due
    conn,                \* of each connection: none, up, shut (kDisconnecting), gone
    heard, shutAt,       \* history: time of the last message; of shutdown()
    closeAt,             \* wall clock at which forceCloseWithDelay() is due, or -1
    connectionBuckets_,  \* echo.cc: a bucket is the set of connections whose Entry it holds
    connectionList_, lastReceiveTime   \* sortedlist.cc

connVars == <<conn, heard, shutAt, closeAt>>
dataVars == <<connectionBuckets_, connectionList_, lastReceiveTime>>
loopVars == <<server, now, back, round, pollReturnTime_, ready, nextTick>>
vars == <<loopVars, connVars, dataVars>>

\* The two constructors
InitWheel == connectionBuckets_ = [i \in 1..idleSeconds |-> {}]
InitList == connectionList_ = <<>> /\ lastReceiveTime = [c \in Conns |-> 0]

Init ==
    /\ server \in {"wheel", "list"}
    /\ now = 0 /\ back = 0 /\ round = -1 /\ pollReturnTime_ = 0
    /\ ready = {} /\ nextTick = StepBack + Second
    /\ conn = [c \in Conns |-> "none"]
    /\ heard = [c \in Conns |-> 0] /\ shutAt = heard
    /\ closeAt = [c \in Conns |-> -1]
    /\ InitWheel /\ InitList

InRound == round >= 0

-----------------------------------------------------------------------------
(* The clock and the loop.                                                 *)

\* Timestamp::now(); it shows StepBack at the start, so that it is never negative.
WallAt(t) == t + StepBack - back
Wall == WallAt(now)

\* getExpired() compares with the wall clock.
DueTimers == (IF nextTick <= Wall THEN {"tick"} ELSE {})
             \union {c \in Conns : closeAt[c] \in 0..Wall}

\* No time passes in poll() past a timer that is due, nor more than Skew in a round.
Tick ==
    /\ now < MaxTime
    /\ IF InRound THEN now < round + Skew ELSE DueTimers = {}
    /\ now' = now + 1
    /\ UNCHANGED <<server, back, round, pollReturnTime_, ready, nextTick, connVars, dataVars>>

\* gettimeofday() goes back when somebody sets the clock.
SetClockBack ==
    /\ back' \in (back + 1)..StepBack
    /\ UNCHANGED <<server, now, round, pollReturnTime_, ready, nextTick, connVars, dataVars>>

PollReturns ==
    /\ ~InRound
    /\ round' = now
    /\ pollReturnTime_' = Wall
    /\ ready' = DueTimers
    /\ UNCHANGED <<server, now, back, nextTick, connVars, dataVars>>

\* A timer that poll() woke up for and that is no longer due is armed again.
RoundEnds ==
    /\ InRound /\ ready \cap DueTimers = {}
    /\ round' = -1
    /\ ready' = {}
    /\ UNCHANGED <<server, now, back, pollReturnTime_, nextTick, connVars, dataVars>>

-----------------------------------------------------------------------------
(* echo.cc: the timing wheel.                                              *)

\* Mutant: the bucket that goes next takes the Entry.
InsertInLast_First(c) ==
    connectionBuckets_' = [connectionBuckets_ EXCEPT ![1] = @ \union {c}]

\* connectionBuckets_.back().insert(ep)
InsertInLast(c) ==
    connectionBuckets_' = [connectionBuckets_ EXCEPT ![idleSeconds] = @ \union {c}]

\* wp.lock(): the Entry is alive as long as a bucket holds it
EntryLives(c) == \E i \in 1..idleSeconds : c \in connectionBuckets_[i]

\* onConnection() and onMessage(), which also echoes: send() to a connection that is
\* shut does nothing
WheelUp(c) == InsertInLast(c) /\ UNCHANGED <<connectionList_, lastReceiveTime>>
WheelMessage(c) ==
    /\ IF EntryLives(c) THEN InsertInLast(c) ELSE UNCHANGED connectionBuckets_
    /\ UNCHANGED <<connectionList_, lastReceiveTime>>

\* push_back(Bucket()) of a full circular_buffer overwrites the first bucket
Advance == Tail(connectionBuckets_) \o <<{}>>

\* ~Entry of the connections that were only in the first bucket: weakConn_.lock() finds
\* those that still exist, and shutdown() acts on those that are connected
Released == connectionBuckets_[1] \ UNION {Advance[i] : i \in 1..idleSeconds}
OnTimerWheel ==
    LET down == {c \in Released : conn[c] = "up"} IN
    /\ connectionBuckets_' = Advance
    /\ conn' = [c \in Conns |-> IF c \in down THEN "shut" ELSE conn[c]]
    /\ shutAt' = [c \in Conns |-> IF c \in down THEN now ELSE shutAt[c]]
    /\ UNCHANGED <<heard, closeAt, connectionList_, lastReceiveTime>>

-----------------------------------------------------------------------------
(* sortedlist.cc: the list ordered by the time of the last message.        *)

Age(c) == Wall - lastReceiveTime[c]
Old(c) == Age(c) > idleSeconds * Second

\* The loop of onTimer() stops at the first connection whose age is neither negative nor
\* above the limit; it never meets an expired one, onConnection() has taken it out.
Stops(i) == Age(connectionList_[i]) \in 0..(idleSeconds * Second)
Scanned == {connectionList_[i] : i \in {i \in 1..Len(connectionList_) :
                                          \A j \in 1..i : ~Stops(j)}}
OnTimerList ==
    LET down == {c \in Scanned : Old(c) /\ conn[c] = "up"} IN
    /\ lastReceiveTime' = [c \in Conns |-> IF c \in Scanned /\ Age(c) < 0 THEN Wall
                                           ELSE lastReceiveTime[c]]
    /\ conn' = [c \in Conns |-> IF c \in down THEN "shut" ELSE conn[c]]
    /\ shutAt' = [c \in Conns |-> IF c \in down THEN now ELSE shutAt[c]]
    /\ closeAt' = [c \in Conns |-> IF c \in down THEN Wall + Delay ELSE closeAt[c]]
    /\ UNCHANGED <<heard, connectionBuckets_, connectionList_>>

\* Node::position, an iterator of the list
position(c) == CHOOSE i \in 1..Len(connectionList_) : connectionList_[i] = c

\* Mutant: the message is noted and the connection stays where it is in the list.
MoveToEnd_Stays(c) == connectionList_

\* connectionList_.splice(end, connectionList_, node->position)
MoveToEnd(c) == Append(RemoveAt(connectionList_, position(c)), c)

\* onConnection() takes the time itself, onMessage() the one at which poll() returned
ListUp(c) ==
    /\ connectionList_' = Append(connectionList_, c)
    /\ lastReceiveTime' = [lastReceiveTime EXCEPT ![c] = Wall]
    /\ UNCHANGED connectionBuckets_
ListMessage(c) ==
    /\ connectionList_' = MoveToEnd(c)
    /\ lastReceiveTime' = [lastReceiveTime EXCEPT ![c] = pollReturnTime_]
    /\ UNCHANGED connectionBuckets_

-----------------------------------------------------------------------------
(* The callbacks, in a round of the loop.                                  *)

\* onConnection(), connected
OnConnectionUp(c) ==
    /\ InRound /\ conn[c] = "none"
    /\ conn' = [conn EXCEPT ![c] = "up"]
    /\ heard' = [heard EXCEPT ![c] = now]
    /\ IF server = "wheel" THEN WheelUp(c) ELSE ListUp(c)
    /\ UNCHANGED <<loopVars, shutAt, closeAt>>

\* onMessage(); after shutdown() messages may still come.
OnMessage(c) ==
    /\ InRound /\ conn[c] \in {"up", "shut"}
    /\ heard' = [heard EXCEPT ![c] = IF server = "wheel" THEN now ELSE round]
    /\ IF server = "wheel" THEN WheelMessage(c) ELSE ListMessage(c)
    /\ UNCHANGED <<loopVars, conn, shutAt, closeAt>>

\* Mutant: the connection is not taken out of the list.
Erase_Not(c) == connectionList_

\* connectionList_.erase(node.position)
Erase(c) == RemoveAt(connectionList_, position(c))

\* onConnection(), no longer connected: the peer has closed, or forceClose() is due
Down(c) ==
    /\ conn' = [conn EXCEPT ![c] = "gone"]
    /\ closeAt' = [closeAt EXCEPT ![c] = -1]
    /\ connectionList_' = IF server = "list" THEN Erase(c) ELSE connectionList_
    /\ UNCHANGED <<heard, shutAt, connectionBuckets_, lastReceiveTime>>
OnConnectionDown(c) ==
    /\ InRound /\ conn[c] \in {"up", "shut"}
    /\ ready' = ready \ {c}
    /\ Down(c)
    /\ UNCHANGED <<server, now, back, round, pollReturnTime_, nextTick>>
ForceClose(c) ==
    /\ c \in ready \cap DueTimers
    /\ ready' = ready \ {c}
    /\ Down(c)
    /\ UNCHANGED <<server, now, back, round, pollReturnTime_, nextTick>>

\* onTimer(); runEvery() counts the next second from when the timer is handled
OnTimer ==
    /\ "tick" \in ready \cap DueTimers
    /\ ready' = ready \ {"tick"}
    /\ nextTick' = Wall + Second
    /\ IF server = "wheel" THEN OnTimerWheel ELSE OnTimerList
    /\ UNCHANGED <<server, now, back, round, pollReturnTime_>>

Next ==
    \/ Tick \/ SetClockBack \/ PollReturns \/ RoundEnds \/ OnTimer
    \/ \E c \in Conns : OnConnectionUp(c) \/ OnMessage(c) \/ OnConnectionDown(c) \/ ForceClose(c)
Spec == Init /\ [][Next]_vars

-----------------------------------------------------------------------------
(* Properties.                                                             *)

\* Between two calls of onTimer() there is a second, the rest of the round in which the
\* timer becomes due (less than Skew) and the round that handles it.
Period == Second + (Skew - 1) + Skew

\* A connection that stays silent is shut down: the wheel does it within idleSeconds such
\* periods, the list one period after idleSeconds, and both later by what the clock was
\* set back: it delays the timer, and makes a connection of the list look younger, but
\* these two do not add up.  The list keeps this bound although it is not always in
\* order: a connection that opens in a round stands before one whose message bears the
\* time the round began (echo.cc:82, sortedlist.cc:115).
SilentIsShut ==
    \A c \in Conns : conn[c] = "up" =>
        now - heard[c] <= back + IF server = "wheel" THEN idleSeconds * Period
                                 ELSE idleSeconds * Second + Period + Skew

\* No connection is shut down early: its last message is at least idleSeconds - 1 back with
\* the wheel, more than idleSeconds with the list (echo.cc:73, sortedlist.cc:102).  A clock
\* set back only makes this later; none is set forward here.
OnlySilentIsShut ==
    [][\A c \in Conns : conn[c] = "up" /\ conn'[c] = "shut" =>
        now - heard[c] >= IF server = "wheel" THEN (idleSeconds - 1) * Second
                          ELSE idleSeconds * Second + 1]_vars

\* Every connection of the list server is in the list once, and no other: the iterator of
\* its Node is valid whenever a callback uses it, and after shutdown() it is gone after
\* the delay, and what the clock was set back, even if the peer keeps its side open.
ListMatchesConnections ==
    server = "list" =>
        /\ ToSet(connectionList_) = {c \in Conns : conn[c] \in {"up", "shut"}}
        /\ IsInjective(connectionList_)
        /\ \A c \in Conns : conn[c] = "shut" => now - shutAt[c] <= Delay + (Skew - 1) + Skew + back
=============================================================================
