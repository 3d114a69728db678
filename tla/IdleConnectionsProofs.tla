------------------------ MODULE IdleConnectionsProofs ------------------------
(***************************************************************************)
(* Proofs about the two servers of idleconnection/, for any connections,   *)
(* any idle time, any length of a second and of a round of the loop, and a *)
(* wall clock that is set back by any amount.                              *)
(***************************************************************************)
EXTENDS IdleConnections, SequenceTheorems, TLAPS

Live == {c \in Conns : conn[c] \in {"up", "shut"}}

LoopTypes ==
    /\ server \in {"wheel", "list"}
    /\ now \in Nat /\ back \in 0..StepBack /\ nextTick \in Nat
    /\ round \in Nat \cup {-1} /\ pollReturnTime_ \in Int
    /\ ready \subseteq Conns \cup {"tick"}
ConnTypes ==
    /\ conn \in [Conns -> {"none", "up", "shut", "gone"}]
    /\ heard \in [Conns -> Nat] /\ shutAt \in [Conns -> Nat]
    /\ closeAt \in [Conns -> Nat \cup {-1}]
DataTypes ==
    /\ connectionBuckets_ \in [1..idleSeconds -> SUBSET Conns]
    /\ connectionList_ \in Seq(Conns)
    /\ lastReceiveTime \in [Conns -> Int]
Types == LoopTypes /\ ConnTypes /\ DataTypes

\* A timer that is due when the wall clock shows t is late, on that clock, by less than a
\* round before poll() reports it, and by another one until it is handled.
OnTime(timer, t) ==
    /\ ~InRound => Wall <= t + Skew - 1
    /\ InRound /\ timer \notin ready => WallAt(round) < t
    /\ InRound /\ timer \in ready => WallAt(round) <= t + Skew - 1

\* The loop: a round takes Skew at most, and the next call of onTimer() is at most a
\* second away, or as much longer as the clock was set back, or late within bounds.
LoopInv ==
    /\ InRound => /\ round <= now /\ now <= round + Skew
                  /\ WallAt(round) <= pollReturnTime_ /\ pollReturnTime_ <= round + StepBack
    /\ ~InRound => ready = {}
    /\ nextTick <= now + StepBack + Second
    /\ OnTime("tick", nextTick)

\* A connection is forced to close only after shutdown(), when the delay is over.
CloseInv ==
    \A c \in Conns :
        /\ heard[c] <= now
        /\ closeAt[c] # -1 => conn[c] = "shut" /\ OnTime(c, closeAt[c])
        /\ closeAt[c] = -1 => c \notin ready
        /\ server = "list" /\ conn[c] = "shut" =>
               closeAt[c] # -1 /\ closeAt[c] <= shutAt[c] + StepBack + Delay

\* i is the last bucket with the Entry of c.
LastIn(c, i) == c \in connectionBuckets_[i] /\ \A j \in (i + 1)..idleSeconds : c \notin connectionBuckets_[j]

\* The last bucket with the Entry of a connection tells how long it has been silent.
WheelInv ==
    server = "wheel" =>
        \A c \in Conns : conn[c] = "up" =>
            \E i \in 1..idleSeconds :
                /\ LastIn(c, i)
                /\ nextTick - Second - StepBack - heard[c] <= (idleSeconds - i) * Period
                /\ i = idleSeconds \/ nextTick + back - StepBack - heard[c] >= (idleSeconds - i) * Second

\* The list holds what is connected, in the order of the last messages, but for what
\* happened in one round, and lastReceiveTime is behind by what the clock was set back.
Silence == idleSeconds * Second + Skew
ListInv ==
    server = "list" =>
        /\ ToSet(connectionList_) = Live
        /\ IsInjective(connectionList_)
        /\ \A j, k \in 1..Len(connectionList_) :
               j < k => heard[connectionList_[j]] <= heard[connectionList_[k]] + Skew
        /\ \A c \in Live : /\ WallAt(heard[c]) <= lastReceiveTime[c]
                           /\ lastReceiveTime[c] <= heard[c] + StepBack
        /\ \A c \in Conns : conn[c] = "up" => nextTick - Second - StepBack - heard[c] <= Silence

IdleInv == Types /\ LoopInv /\ CloseInv /\ WheelInv /\ ListInv

-----------------------------------------------------------------------------
(* Constants, the wheel and the list.                                      *)

\* What the bounds of SilentIsShut and OnlySilentIsShut are made of.
LEMMA Bounds ==
    /\ Second \in Nat /\ Second > 0 /\ idleSeconds \in Nat /\ idleSeconds > 0
    /\ Delay \in Nat /\ Delay > 0 /\ Skew \in Nat /\ Skew > 0
    /\ StepBack \in Nat /\ "tick" \notin Conns
    /\ Period \in Nat /\ Period = Second + Skew + Skew - 1
    /\ idleSeconds * Second \in Nat /\ idleSeconds * Period \in Nat
  <1>1. /\ Second \in Nat /\ Second > 0 /\ idleSeconds \in Nat /\ idleSeconds > 0
        /\ Delay \in Nat /\ Delay > 0 /\ Skew \in Nat /\ Skew > 0
        /\ StepBack \in Nat /\ "tick" \notin Conns
    BY IdleAssumption
  <1>2. Period \in Nat /\ Period = Second + Skew + Skew - 1
    BY <1>1 DEF Period
  <1>3. \A a, b \in Nat : a * b \in Nat
    OBVIOUS
  <1>4. QED
    BY <1>1, <1>2, <1>3

\* Each call of onTimer() moves an Entry one bucket on.
LEMMA Buckets ==
    ASSUME NEW i \in 1..idleSeconds
    PROVE  /\ (idleSeconds - i) * Period \in Nat /\ (idleSeconds - i) * Second \in Nat
           /\ (idleSeconds - (i - 1)) * Period = (idleSeconds - i) * Period + Period
           /\ (idleSeconds - (i - 1)) * Second = (idleSeconds - i) * Second + Second
           /\ (idleSeconds - i) * Period + Period <= idleSeconds * Period
  <1>1. /\ idleSeconds \in Nat /\ i \in Nat /\ i >= 1 /\ idleSeconds - i \in Nat
        /\ Period \in Nat /\ Second \in Nat
    BY Bounds
  <1>2. \A n, m \in Nat : n * m \in Nat
    OBVIOUS
  <1>3. \A n, m \in Nat : (n + 1) * m = n * m + m
    OBVIOUS
  <1>4. \A k, n, m \in Nat : k <= n => k * m <= n * m
    OBVIOUS
  <1>5. idleSeconds - (i - 1) = (idleSeconds - i) + 1 /\ (idleSeconds - i) + 1 <= idleSeconds
    BY <1>1
  <1>6. ((idleSeconds - i) + 1) * Period <= idleSeconds * Period
    BY <1>1, <1>4, <1>5
  <1>7. QED
    BY <1>1, <1>2, <1>3, <1>5, <1>6

\* push_back(Bucket()) of the full circular_buffer
LEMMA AdvanceShifts ==
    ASSUME connectionBuckets_ \in [1..idleSeconds -> SUBSET Conns]
    PROVE  /\ Advance \in [1..idleSeconds -> SUBSET Conns]
           /\ \A i \in 1..idleSeconds :
                  Advance[i] = IF i = idleSeconds THEN {} ELSE connectionBuckets_[i + 1]
  <1>1. idleSeconds \in Nat /\ idleSeconds > 0
    BY Bounds
  <1>2. connectionBuckets_ \in Seq(SUBSET Conns) /\ Len(connectionBuckets_) = idleSeconds
    BY <1>1
  <1>3. /\ Tail(connectionBuckets_) \in Seq(SUBSET Conns)
        /\ Len(Tail(connectionBuckets_)) = idleSeconds - 1
        /\ \A i \in 1..(idleSeconds - 1) : Tail(connectionBuckets_)[i] = connectionBuckets_[i + 1]
    BY <1>1, <1>2
  <1>4. <<{}>> \in Seq(SUBSET Conns) /\ Len(<<{}>>) = 1 /\ <<{}>>[1] = {}
    OBVIOUS
  <1> DEFINE t == Tail(connectionBuckets_)
             e == <<{}>>
  <1>5. /\ t \o e \in Seq(SUBSET Conns)
        /\ Len(t \o e) = idleSeconds
        /\ \A i \in 1..idleSeconds : (t \o e)[i] = IF i <= idleSeconds - 1 THEN t[i] ELSE e[i - (idleSeconds - 1)]
    <2> HIDE DEF t, e
    <2>1. t \in Seq(SUBSET Conns) /\ e \in Seq(SUBSET Conns) /\ Len(t) = idleSeconds - 1 /\ Len(e) = 1
      BY <1>3, <1>4 DEF t, e
    <2>2. /\ t \o e \in Seq(SUBSET Conns)
          /\ Len(t \o e) = Len(t) + Len(e)
          /\ \A i \in 1..(Len(t) + Len(e)) : (t \o e)[i] = IF i <= Len(t) THEN t[i] ELSE e[i - Len(t)]
      BY <2>1, ConcatProperties, Zenon
    <2>3. Len(t) + Len(e) = idleSeconds
      BY <2>1, <1>1
    <2>4. QED
      BY <2>1, <2>2, <2>3
  <1> HIDE DEF t, e
  <1>6. Advance = t \o e
    BY DEF Advance, t, e
  <1>7. Advance \in [1..idleSeconds -> SUBSET Conns]
    <2>1. Advance \in Seq(SUBSET Conns) /\ Len(Advance) = idleSeconds
      BY <1>5, <1>6
    <2>2. QED
      BY <2>1, LenProperties
  <1>8. ASSUME NEW i \in 1..idleSeconds
        PROVE  Advance[i] = IF i = idleSeconds THEN {} ELSE connectionBuckets_[i + 1]
    <2>1. CASE i = idleSeconds
      BY <2>1, <1>1, <1>4, <1>5, <1>6 DEF e
    <2>2. CASE i # idleSeconds
      BY <2>2, <1>1, <1>3, <1>5, <1>6 DEF t
    <2>3. QED
      BY <2>1, <2>2
  <1>9. QED
    BY <1>7, <1>8

\* Erasing an element of a list keeps the others in their order.
LEMMA RemoveAtKeeps ==
    ASSUME NEW S, NEW s \in Seq(S), NEW p \in 1..Len(s)
    PROVE  /\ RemoveAt(s, p) \in Seq(S)
           /\ Len(RemoveAt(s, p)) = Len(s) - 1
           /\ \A i \in 1..(Len(s) - 1) : RemoveAt(s, p)[i] = IF i < p THEN s[i] ELSE s[i + 1]
  <1> DEFINE a == SubSeq(s, 1, p - 1)
             b == SubSeq(s, p + 1, Len(s))
  <1>1. Len(s) \in Nat /\ \A i \in 1..Len(s) : s[i] \in S
    OBVIOUS
  <1>2. a \in Seq(S) /\ Len(a) = p - 1 /\ \A i \in 1..(p - 1) : a[i] = s[i]
    BY <1>1, SubSeqProperties
  <1>3. b \in Seq(S) /\ Len(b) = Len(s) - p /\ \A i \in 1..(Len(s) - p) : b[i] = s[p + i]
    <2>1. b \in Seq(S) /\ Len(b) = IF p + 1 <= Len(s) THEN Len(s) - (p + 1) + 1 ELSE 0
      BY <1>1, SubSeqProperties
    <2>2. \A i \in 1..(Len(s) - (p + 1) + 1) : b[i] = s[(p + 1) + i - 1]
      BY <1>1, SubSeqProperties
    <2>3. QED
      BY <1>1, <2>1, <2>2
  <1> HIDE DEF a, b
  <1>4. /\ a \o b \in Seq(S) /\ Len(a \o b) = Len(s) - 1
        /\ \A i \in 1..(Len(s) - 1) : (a \o b)[i] = IF i <= p - 1 THEN a[i] ELSE b[i - (p - 1)]
    <2>1. /\ a \o b \in Seq(S) /\ Len(a \o b) = Len(a) + Len(b)
          /\ \A i \in 1..(Len(a) + Len(b)) : (a \o b)[i] = IF i <= Len(a) THEN a[i] ELSE b[i - Len(a)]
      BY <1>2, <1>3, ConcatProperties, Zenon
    <2>2. Len(a) + Len(b) = Len(s) - 1
      BY <1>1, <1>2, <1>3
    <2>3. QED
      BY <1>2, <2>1, <2>2
  <1>5. ASSUME NEW i \in 1..(Len(s) - 1) PROVE (a \o b)[i] = IF i < p THEN s[i] ELSE s[i + 1]
    <2>1. CASE i < p
      BY <2>1, <1>1, <1>2, <1>4
    <2>2. CASE ~(i < p)
      <3>1. i - (p - 1) \in 1..(Len(s) - p) /\ p + (i - (p - 1)) = i + 1
        BY <2>2, <1>1
      <3>2. ~(i <= p - 1)
        BY <2>2
      <3>3. QED
        BY <3>1, <3>2, <2>2, <1>3, <1>4
    <2>3. QED
      BY <2>1, <2>2, <1>1
  <1>6. QED
    BY <1>4, <1>5 DEF RemoveAt, a, b

-----------------------------------------------------------------------------
(* The clock and the loop.                                                 *)

\* Timestamp::now() is never negative and at most StepBack ahead of the time.
LEMMA WallClock ==
    ASSUME Types
    PROVE  /\ now \in Nat /\ back \in Nat /\ back <= StepBack
           /\ Wall \in Nat /\ Wall = now + StepBack - back
  BY Bounds DEF Types, LoopTypes, Wall, WallAt

\* The two constructors give a consistent server.
LEMMA IdleInit == Init => IdleInv
  <1> SUFFICES ASSUME Init PROVE IdleInv
    OBVIOUS
  <1> USE DEF Init, InitWheel, InitList
  <1>1. Types
    BY Bounds, EmptySeq DEF Types, LoopTypes, ConnTypes, DataTypes
  <1>2. LoopInv
    BY Bounds DEF LoopInv, OnTime, InRound, Wall, WallAt
  <1>3. CloseInv
    BY Bounds DEF CloseInv
  <1>4. WheelInv
    BY DEF WheelInv
  <1>5. ListInv
    <2>1. Live = {} /\ \A c \in Conns : conn[c] # "up"
      BY DEF Live
    <2>2. ToSet(connectionList_) = {} /\ IsInjective(connectionList_) /\ Len(connectionList_) = 0
      BY DEF ToSet, IsInjective
    <2>3. QED
      BY <2>1, <2>2 DEF ListInv
  <1>6. QED
    BY <1>1, <1>2, <1>3, <1>4, <1>5 DEF IdleInv

\* Time passes: in poll() up to the next timer, in a round up to Skew.
LEMMA TickKeeps == ASSUME IdleInv, Tick PROVE IdleInv'
  <1> USE DEF IdleInv
  <1>0. now \in Nat /\ round \in Nat \cup {-1} /\ nextTick \in Nat /\ closeAt \in [Conns -> Nat \cup {-1}]
        /\ heard \in [Conns -> Nat] /\ back \in Nat /\ Wall \in Nat
    BY WallClock DEF Types, LoopTypes, ConnTypes
  <1>1. Types'
    BY <1>0 DEF Tick, Types, LoopTypes, ConnTypes, DataTypes, connVars, dataVars
  <1>2. /\ now' = now + 1
        /\ UNCHANGED <<server, back, round, pollReturnTime_, ready, nextTick, conn, heard, shutAt, closeAt>>
    BY DEF Tick, connVars
  <1>3. ASSUME ~InRound PROVE nextTick > Wall /\ \A c \in Conns : closeAt[c] # -1 => closeAt[c] > Wall
    <2>1. DueTimers = {}
      BY <1>3 DEF Tick
    <2>2. QED
      BY <2>1, <1>0 DEF DueTimers
  <1>4. InRound => now < round + Skew
    BY DEF Tick
  <1>5. LoopInv'
    BY <1>0, <1>2, <1>3, <1>4, Bounds DEF LoopInv, OnTime, InRound, Wall, WallAt
  <1>6. CloseInv'
    <2> SUFFICES ASSUME NEW c \in Conns
                 PROVE  /\ heard[c] <= now'
                        /\ closeAt[c] # -1 => conn[c] = "shut" /\ OnTime(c, closeAt[c])'
                        /\ closeAt[c] = -1 => c \notin ready
      BY <1>2 DEF CloseInv, OnTime, InRound, Wall, WallAt
    <2>1. closeAt[c] # -1 => OnTime(c, closeAt[c])
      BY DEF CloseInv
    <2>2. closeAt[c] # -1 => OnTime(c, closeAt[c])'
      BY <2>1, <1>0, <1>2, <1>3, <1>4, Bounds DEF OnTime, InRound, Wall, WallAt
    <2>3. heard[c] \in Nat /\ heard[c] <= now
      BY <1>0 DEF CloseInv
    <2>4. QED
      BY <2>2, <2>3, <1>0, <1>2 DEF CloseInv
  <1>7. WheelInv' /\ ListInv'
    BY DEF Tick, connVars, dataVars, WheelInv, LastIn, ListInv, Live, Silence, WallAt
  <1>8. QED
    BY <1>1, <1>5, <1>6, <1>7

\* gettimeofday() goes back: lastReceiveTime may lie in the future, and the timers are
\* further away.
LEMMA SetClockBackKeeps == ASSUME IdleInv, SetClockBack PROVE IdleInv'
  <1> USE DEF IdleInv
  <1>0. /\ now \in Nat /\ back \in Nat /\ nextTick \in Nat /\ round \in Nat \cup {-1} /\ pollReturnTime_ \in Int
        /\ heard \in [Conns -> Nat] /\ lastReceiveTime \in [Conns -> Int]
        /\ closeAt \in [Conns -> Nat \cup {-1}]
    BY WallClock DEF Types, LoopTypes, ConnTypes, DataTypes
  <1>1. back' \in 0..StepBack /\ back' \in Nat /\ back <= back'
    BY <1>0, Bounds DEF SetClockBack
  <1>2. UNCHANGED <<server, now, round, pollReturnTime_, ready, nextTick, conn, heard, shutAt, closeAt,
                    connectionBuckets_, connectionList_, lastReceiveTime>>
    BY DEF SetClockBack, connVars, dataVars
  <1>3. Types'
    BY <1>1, <1>2 DEF Types, LoopTypes, ConnTypes, DataTypes
  <1>3a. /\ Wall \in Int /\ Wall' \in Int /\ Wall' <= Wall
         /\ WallAt(round) \in Int /\ WallAt(round)' \in Int /\ WallAt(round)' <= WallAt(round)
    <2>1. /\ round \in Int /\ now \in Int /\ StepBack \in Int
          /\ back \in Int /\ back' \in Int /\ back <= back'
      BY <1>0, <1>1, Bounds
    <2>2. \A t \in Int : /\ t + StepBack - back \in Int /\ t + StepBack - back' \in Int
                         /\ t + StepBack - back' <= t + StepBack - back
      <3>1. \A a, b, k, t \in Int : a <= b => /\ t + k - a \in Int /\ t + k - b \in Int
                                              /\ t + k - b <= t + k - a
        OBVIOUS
      <3>2. QED
        BY <2>1, <3>1, Zenon
    <2>3. QED
      BY <2>1, <2>2, <1>2 DEF Wall, WallAt
  <1>4. ASSUME NEW timer, NEW t \in Int, OnTime(timer, t)
        PROVE  /\ ~InRound' => Wall' <= t + Skew - 1
               /\ InRound' /\ timer \notin ready' => WallAt(round)' < t
               /\ InRound' /\ timer \in ready' => WallAt(round)' <= t + Skew - 1
    BY <1>2, <1>3a, <1>4, Bounds DEF OnTime, InRound
  <1>5. LoopInv'
    <2>1. OnTime("tick", nextTick)'
      BY <1>0, <1>2, <1>4 DEF LoopInv, OnTime
    <2>2. InRound' => WallAt(round)' <= pollReturnTime_
      BY <1>0, <1>2, <1>3a DEF LoopInv, InRound
    <2>3. QED
      BY <1>2, <2>1, <2>2 DEF LoopInv, InRound
  <1>6. CloseInv'
    <2> SUFFICES ASSUME NEW c \in Conns, closeAt[c] # -1 PROVE OnTime(c, closeAt[c])'
      BY <1>2 DEF CloseInv, OnTime
    <2>1. OnTime(c, closeAt[c]) /\ closeAt[c] \in Int
      BY <1>0 DEF CloseInv
    <2>2. QED
      BY <2>1, <1>2, <1>4 DEF OnTime
  <1>7. WheelInv'
    <2> SUFFICES ASSUME server = "wheel", NEW c \in Conns, conn[c] = "up"
                 PROVE  \E i \in 1..idleSeconds :
                           /\ LastIn(c, i)'
                           /\ nextTick - Second - StepBack - heard[c] <= (idleSeconds - i) * Period
                           /\ i = idleSeconds
                              \/ nextTick + back' - StepBack - heard[c] >= (idleSeconds - i) * Second
      BY <1>2 DEF WheelInv
    <2>1. PICK i \in 1..idleSeconds :
                 /\ LastIn(c, i)
                 /\ nextTick - Second - StepBack - heard[c] <= (idleSeconds - i) * Period
                 /\ i = idleSeconds
                    \/ nextTick + back - StepBack - heard[c] >= (idleSeconds - i) * Second
      BY DEF WheelInv
    <2>2. LastIn(c, i)'
      BY <2>1, <1>2 DEF LastIn
    <2> DEFINE least == (idleSeconds - i) * Second
    <2>3. least \in Nat
      BY Buckets
    <2>4. i = idleSeconds \/ nextTick + back - StepBack - heard[c] >= least
      BY <2>1
    <2> HIDE DEF least
    <2>5. i = idleSeconds \/ nextTick + back' - StepBack - heard[c] >= least
      BY <2>3, <2>4, <1>0, <1>1, Bounds
    <2>6. QED
      BY <2>1, <2>2, <2>5 DEF least
  <1>8. ListInv'
    <2> SUFFICES ASSUME server = "list" PROVE ListInv'
      BY <1>2 DEF ListInv
    <2>1. Live' = Live
      BY <1>2 DEF Live
    <2>2. ASSUME NEW c \in Live
          PROVE  WallAt(heard[c])' <= lastReceiveTime[c] /\ lastReceiveTime[c] <= heard[c] + StepBack
      <3>1. c \in Conns
        BY DEF Live
      <3>2. WallAt(heard[c]) <= lastReceiveTime[c] /\ lastReceiveTime[c] <= heard[c] + StepBack
        BY DEF ListInv
      <3>3. QED
        BY <3>1, <3>2, <1>0, <1>1, <1>2, Bounds DEF WallAt
    <2>3. QED
      BY <1>2, <2>1, <2>2 DEF ListInv, Silence
  <1>9. QED
    BY <1>3, <1>5, <1>6, <1>7, <1>8

\* poll() returns with the timers that are due.
LEMMA PollReturnsKeeps == ASSUME IdleInv, PollReturns PROVE IdleInv'
  <1> USE DEF IdleInv
  <1>0. /\ now \in Nat /\ round \in Nat \cup {-1} /\ nextTick \in Nat /\ closeAt \in [Conns -> Nat \cup {-1}]
        /\ back \in Nat /\ Wall \in Nat /\ Wall = now + StepBack - back
    BY WallClock DEF Types, LoopTypes, ConnTypes
  <1>1. /\ ~InRound /\ round' = now /\ pollReturnTime_' = Wall /\ ready' = DueTimers /\ ready = {}
        /\ UNCHANGED <<server, now, back, nextTick, conn, heard, shutAt, closeAt,
                       connectionBuckets_, connectionList_, lastReceiveTime>>
    BY DEF PollReturns, connVars, dataVars, LoopInv
  <1>2. /\ DueTimers \subseteq Conns \cup {"tick"}
        /\ "tick" \in DueTimers <=> nextTick <= Wall
        /\ \A c \in Conns : c \in DueTimers <=> closeAt[c] \in 0..Wall
    BY <1>0, Bounds DEF DueTimers
  <1>3. Types'
    BY <1>0, <1>1, <1>2 DEF Types, LoopTypes, ConnTypes, DataTypes
  <1>3a. /\ Wall' = Wall /\ WallAt(round)' = Wall /\ InRound'
    BY <1>0, <1>1 DEF Wall, WallAt, InRound
  <1>4. LoopInv'
    BY <1>0, <1>1, <1>2, <1>3a, Bounds DEF LoopInv, OnTime
  <1>5. CloseInv'
    <2> SUFFICES ASSUME NEW c \in Conns
                 PROVE  /\ closeAt[c] # -1 => conn[c] = "shut" /\ OnTime(c, closeAt[c])'
                        /\ closeAt[c] = -1 => c \notin ready'
      BY <1>1 DEF CloseInv, OnTime
    <2>1. closeAt[c] # -1 => conn[c] = "shut" /\ OnTime(c, closeAt[c])
      BY DEF CloseInv
    <2>2. QED
      BY <2>1, <1>0, <1>1, <1>2, <1>3a, Bounds DEF OnTime
  <1>6. WheelInv' /\ ListInv'
    BY <1>1 DEF WheelInv, LastIn, ListInv, Live, Silence, WallAt
  <1>7. QED
    BY <1>3, <1>4, <1>5, <1>6

\* Back to poll(): what is due since the round began is late by less than a round.
LEMMA RoundEndsKeeps == ASSUME IdleInv, RoundEnds PROVE IdleInv'
  <1> USE DEF IdleInv
  <1>0. /\ now \in Nat /\ round \in Nat \cup {-1} /\ nextTick \in Nat /\ closeAt \in [Conns -> Nat \cup {-1}]
        /\ back \in Nat /\ Wall \in Nat /\ Wall = now + StepBack - back
    BY WallClock DEF Types, LoopTypes, ConnTypes
  <1>1. /\ InRound /\ ready \cap DueTimers = {} /\ round' = -1 /\ ready' = {}
        /\ UNCHANGED <<server, now, back, pollReturnTime_, nextTick, conn, heard, shutAt, closeAt,
                       connectionBuckets_, connectionList_, lastReceiveTime>>
    BY DEF RoundEnds, connVars, dataVars
  <1>2. Types'
    BY <1>1 DEF Types, LoopTypes, ConnTypes, DataTypes
  <1>3. /\ now <= round + Skew /\ round \in Nat /\ WallAt(round) = round + StepBack - back
        /\ ~InRound' /\ Wall' = Wall
    BY <1>0, <1>1 DEF LoopInv, InRound, Wall, WallAt
  <1>4. LoopInv'
    <2>1. "tick" \in ready => Wall < nextTick
      BY <1>0, <1>1 DEF DueTimers
    <2>2. Wall <= nextTick + Skew - 1
      BY <2>1, <1>0, <1>1, <1>3, Bounds DEF LoopInv, OnTime
    <2>3. QED
      BY <2>2, <1>1, <1>3 DEF LoopInv, OnTime
  <1>5. CloseInv'
    <2> SUFFICES ASSUME NEW c \in Conns, closeAt[c] # -1 PROVE Wall <= closeAt[c] + Skew - 1
      BY <1>1, <1>3 DEF CloseInv, OnTime
    <2>1. OnTime(c, closeAt[c])
      BY DEF CloseInv
    <2>2. c \in ready => Wall < closeAt[c]
      BY <1>0, <1>1 DEF DueTimers
    <2>3. QED
      BY <2>1, <2>2, <1>0, <1>1, <1>3, Bounds DEF OnTime
  <1>6. WheelInv' /\ ListInv'
    BY <1>1 DEF WheelInv, LastIn, ListInv, Live, Silence, WallAt
  <1>7. QED
    BY <1>2, <1>4, <1>5, <1>6

-----------------------------------------------------------------------------
(* onTimer().                                                              *)

\* The next second is counted from now: the timer is not due in this round again.
LEMMA NextSecond ==
    ASSUME IdleInv, OnTimer
    PROVE  /\ InRound /\ "tick" \in ready /\ ready' = ready \ {"tick"} /\ nextTick' = Wall + Second
           /\ UNCHANGED <<server, now, back, round, pollReturnTime_>>
           /\ LoopTypes' /\ LoopInv'
           /\ now \in Nat /\ back \in Nat /\ Wall \in Nat /\ Wall = now + StepBack - back
           /\ nextTick <= Wall /\ Wall - (nextTick - Second) <= Period
  <1> USE DEF IdleInv
  <1>0. /\ now \in Nat /\ round \in Nat \cup {-1} /\ nextTick \in Nat /\ ready \subseteq Conns \cup {"tick"}
        /\ back \in Nat /\ back <= StepBack /\ Wall \in Nat /\ Wall = now + StepBack - back
    BY WallClock DEF Types, LoopTypes
  <1>1. /\ "tick" \in ready /\ ready' = ready \ {"tick"} /\ nextTick' = Wall + Second
        /\ UNCHANGED <<server, now, back, round, pollReturnTime_>> /\ nextTick <= Wall
    BY <1>0, Bounds DEF OnTimer, DueTimers
  <1>2. /\ InRound /\ round \in Nat /\ WallAt(round) <= nextTick + Skew - 1
        /\ round <= now /\ now <= round + Skew /\ WallAt(round) = round + StepBack - back
    BY <1>0, <1>1 DEF LoopInv, OnTime, InRound, WallAt
  <1>3. LoopTypes'
    BY <1>0, <1>1, Bounds DEF Types, LoopTypes
  <1>4. LoopInv'
    <2>1. InRound' /\ WallAt(round)' = WallAt(round)
      BY <1>1, <1>2 DEF InRound, WallAt
    <2>2. OnTime("tick", nextTick)'
      BY <2>1, <1>0, <1>1, <1>2, Bounds DEF OnTime
    <2>3. nextTick' <= now' + StepBack + Second
      BY <1>0, <1>1, Bounds
    <2>4. QED
      BY <2>1, <2>2, <2>3, <1>1, <1>2 DEF LoopInv
  <1>5. Wall - (nextTick - Second) <= Period
    BY <1>0, <1>2, Bounds
  <1>6. QED
    BY <1>0, <1>1, <1>2, <1>3, <1>4, <1>5

\* The wheel: an Entry that was only in the first bucket shuts its connection down,
\* every other is one bucket nearer to the end.
LEMMA OnTimerWheelKeeps == ASSUME IdleInv, OnTimer, server = "wheel" PROVE IdleInv'
  <1> USE DEF IdleInv
  <1>1. OnTimerWheel
    BY DEF OnTimer
  <1> DEFINE down == {c \in Released : conn[c] = "up"}
  <1>2. /\ connectionBuckets_' = Advance
        /\ conn' = [c \in Conns |-> IF c \in down THEN "shut" ELSE conn[c]]
        /\ shutAt' = [c \in Conns |-> IF c \in down THEN now ELSE shutAt[c]]
        /\ UNCHANGED <<heard, closeAt, connectionList_, lastReceiveTime>>
    BY <1>1 DEF OnTimerWheel
  <1>3. connectionBuckets_ \in [1..idleSeconds -> SUBSET Conns]
    BY DEF Types, DataTypes
  <1>4. /\ Advance \in [1..idleSeconds -> SUBSET Conns]
        /\ \A i \in 1..idleSeconds :
              Advance[i] = IF i = idleSeconds THEN {} ELSE connectionBuckets_[i + 1]
    BY <1>3, AdvanceShifts
  <1> HIDE DEF down
  <1>5. /\ now \in Nat /\ nextTick \in Nat /\ heard \in [Conns -> Nat] /\ shutAt \in [Conns -> Nat]
        /\ conn \in [Conns -> {"none", "up", "shut", "gone"}]
    BY DEF Types, LoopTypes, ConnTypes
  <1>6. Types'
    <2>1. conn' \in [Conns -> {"none", "up", "shut", "gone"}] /\ shutAt' \in [Conns -> Nat]
      BY <1>2, <1>5
    <2>2. QED
      BY <2>1, <1>2, <1>4, NextSecond DEF Types, ConnTypes, DataTypes
  <1>7. CloseInv'
    <2> SUFFICES ASSUME NEW c \in Conns
                 PROVE  /\ closeAt[c] # -1 => conn'[c] = "shut" /\ OnTime(c, closeAt[c])'
                        /\ closeAt[c] = -1 => c \notin ready'
      BY <1>2, NextSecond DEF CloseInv, OnTime, InRound, Wall, WallAt
    <2>1. closeAt[c] # -1 => conn[c] = "shut" /\ OnTime(c, closeAt[c])
      BY DEF CloseInv
    <2>2. conn[c] = "shut" => conn'[c] = "shut"
      BY <1>2
    <2>3. c \in ready' <=> c \in ready
      BY NextSecond, Bounds
    <2>4. closeAt[c] = -1 => c \notin ready
      BY DEF CloseInv
    <2>5. QED
      BY <1>2, <2>1, <2>2, <2>3, <2>4, NextSecond DEF OnTime, InRound, Wall, WallAt
  <1>8. WheelInv'
    <2> SUFFICES ASSUME NEW c \in Conns, conn'[c] = "up"
                 PROVE  \E i \in 1..idleSeconds :
                           /\ LastIn(c, i)'
                           /\ nextTick' - Second - StepBack - heard[c] <= (idleSeconds - i) * Period
                           /\ i = idleSeconds \/ nextTick' + back - StepBack - heard[c] >= (idleSeconds - i) * Second
      BY <1>2, NextSecond DEF WheelInv
    <2>1. conn[c] = "up" /\ c \notin Released
      BY <1>2, <1>5 DEF down
    <2>2. PICK i \in 1..idleSeconds :
                 /\ LastIn(c, i)
                 /\ nextTick - Second - StepBack - heard[c] <= (idleSeconds - i) * Period
                 /\ i = idleSeconds \/ nextTick + back - StepBack - heard[c] >= (idleSeconds - i) * Second
      BY <2>1 DEF WheelInv
    <2>3. i # 1
      <3> SUFFICES ASSUME i = 1 PROVE c \in Released
        BY <2>1
      <3>1. c \in connectionBuckets_[1] /\ \A j \in 2..idleSeconds : c \notin connectionBuckets_[j]
        BY <2>2 DEF LastIn
      <3>2. ASSUME NEW k \in 1..idleSeconds PROVE c \notin Advance[k]
        BY <3>1, <1>4, Bounds
      <3>3. QED
        BY <3>1, <3>2 DEF Released
    <2>4. i - 1 \in 1..idleSeconds /\ i - 1 # idleSeconds
      BY <2>2, <2>3, Bounds
    <2>5. LastIn(c, i - 1)'
      <3>1. c \in connectionBuckets_[i] /\ \A j \in (i + 1)..idleSeconds : c \notin connectionBuckets_[j]
        BY <2>2 DEF LastIn
      <3>2. c \in Advance[i - 1]
        BY <3>1, <2>4, <1>4, Bounds
      <3>3. ASSUME NEW j \in ((i - 1) + 1)..idleSeconds PROVE c \notin Advance[j]
        BY <3>1, <1>4, Bounds
      <3>4. QED
        BY <3>2, <3>3, <1>2 DEF LastIn
    <2>6. heard[c] \in Nat /\ heard[c] <= now
      BY <1>5 DEF CloseInv
    <2>7. nextTick' - Second - StepBack - heard[c] <= (idleSeconds - (i - 1)) * Period
      BY <2>2, <2>6, <1>5, NextSecond, Bounds, Buckets
    <2>8. nextTick' + back - StepBack - heard[c] >= (idleSeconds - (i - 1)) * Second
      <3>1. now - heard[c] >= (idleSeconds - i) * Second
        <4>1. CASE i = idleSeconds
          BY <4>1, <2>6, <1>5, Bounds
        <4>2. CASE nextTick + back - StepBack - heard[c] >= (idleSeconds - i) * Second
          <5> DEFINE least == (idleSeconds - i) * Second
          <5>1. least \in Nat /\ nextTick + back - StepBack - heard[c] >= least /\ StepBack \in Nat
            BY <4>2, Buckets, Bounds
          <5> HIDE DEF least
          <5>2. now - heard[c] >= least
            BY <5>1, <2>6, <1>5, NextSecond
          <5>3. QED
            BY <5>2 DEF least
        <4>3. QED
          BY <4>1, <4>2, <2>2
      <3>2. QED
        BY <3>1, <2>6, <1>5, NextSecond, Bounds, Buckets
    <2>9. QED
      BY <2>4, <2>5, <2>7, <2>8
  <1>9. QED
    BY <1>6, <1>7, <1>8, NextSecond DEF WheelInv, ListInv

\* The list: whoever is still connected after the scan was heard not long ago, or stands
\* behind a connection that was.
LEMMA OnTimerListKeeps == ASSUME IdleInv, OnTimer, server = "list" PROVE IdleInv'
  <1> USE DEF IdleInv
  <1>1. OnTimerList
    BY DEF OnTimer
  <1> DEFINE down == {c \in Scanned : Old(c) /\ conn[c] = "up"}
  <1>2. /\ lastReceiveTime' = [c \in Conns |-> IF c \in Scanned /\ Age(c) < 0 THEN Wall
                                               ELSE lastReceiveTime[c]]
        /\ conn' = [c \in Conns |-> IF c \in down THEN "shut" ELSE conn[c]]
        /\ shutAt' = [c \in Conns |-> IF c \in down THEN now ELSE shutAt[c]]
        /\ closeAt' = [c \in Conns |-> IF c \in down THEN Wall + Delay ELSE closeAt[c]]
        /\ UNCHANGED <<heard, connectionBuckets_, connectionList_>>
    BY <1>1 DEF OnTimerList
  <1> HIDE DEF down
  <1>3. /\ now \in Nat /\ back \in Nat /\ nextTick \in Nat /\ round \in Nat \cup {-1}
        /\ heard \in [Conns -> Nat] /\ shutAt \in [Conns -> Nat]
        /\ conn \in [Conns -> {"none", "up", "shut", "gone"}] /\ closeAt \in [Conns -> Nat \cup {-1}]
        /\ lastReceiveTime \in [Conns -> Int] /\ connectionList_ \in Seq(Conns)
    BY WallClock DEF Types, LoopTypes, ConnTypes, DataTypes
  <1>4. /\ Wall \in Nat /\ Wall = now + StepBack - back /\ back <= StepBack
        /\ \A c \in Conns : Age(c) \in Int /\ Age(c) = Wall - lastReceiveTime[c]
    BY <1>3, WallClock DEF Age
  <1>5. Types'
    <2>1. conn' \in [Conns -> {"none", "up", "shut", "gone"}] /\ shutAt' \in [Conns -> Nat]
      BY <1>2, <1>3
    <2>2. closeAt' \in [Conns -> Nat \cup {-1}] /\ lastReceiveTime' \in [Conns -> Int]
      BY <1>2, <1>3, <1>4, Bounds
    <2>3. QED
      BY <2>1, <2>2, <1>2, NextSecond DEF Types, ConnTypes, DataTypes
  <1>6. \A c \in Conns : /\ c \in down => conn[c] = "up" /\ conn'[c] = "shut"
                         /\ c \notin down => conn'[c] = conn[c]
    BY <1>2 DEF down
  <1>7. CloseInv'
    <2> SUFFICES ASSUME NEW c \in Conns
                 PROVE  /\ closeAt'[c] # -1 => conn'[c] = "shut" /\ OnTime(c, closeAt[c])'
                        /\ closeAt'[c] = -1 => c \notin ready'
                        /\ conn'[c] = "shut" =>
                               closeAt'[c] # -1 /\ closeAt'[c] <= shutAt'[c] + StepBack + Delay
      BY <1>2, NextSecond DEF CloseInv, OnTime, InRound, Wall, WallAt
    <2>1. c \in ready' <=> c \in ready
      BY NextSecond, Bounds
    <2>2. CASE c \in down
      <3>1. closeAt'[c] = Wall + Delay /\ shutAt'[c] = now /\ conn'[c] = "shut" /\ closeAt[c] = -1
        BY <2>2, <1>2, <1>6 DEF CloseInv
      <3>2. c \notin ready /\ round <= now /\ InRound
        BY <3>1, NextSecond DEF CloseInv, LoopInv
      <3>3. InRound' /\ c \notin ready' /\ WallAt(round)' < Wall + Delay
        BY <3>2, <2>1, <1>3, <1>4, NextSecond, Bounds DEF InRound, WallAt
      <3>4. Wall + Delay # -1 /\ Wall + Delay <= now + StepBack + Delay
        BY <1>3, <1>4, Bounds
      <3>5. OnTime(c, closeAt[c])'
        BY <3>1, <3>3 DEF OnTime
      <3>6. QED
        BY <3>1, <3>4, <3>5
    <2>3. CASE c \notin down
      <3>1. closeAt'[c] = closeAt[c] /\ shutAt'[c] = shutAt[c] /\ conn'[c] = conn[c]
        BY <2>3, <1>2
      <3>2. QED
        BY <3>1, <2>1, NextSecond DEF CloseInv, OnTime, InRound, Wall, WallAt
    <2>4. QED
      BY <2>2, <2>3
  <1>8. ListInv'
    <2>1. Live' = Live
      BY <1>6, <1>3 DEF Live
    <2>2. ASSUME NEW c \in Live
          PROVE  WallAt(heard[c]) <= lastReceiveTime'[c] /\ lastReceiveTime'[c] <= heard[c] + StepBack
      <3>1. c \in Conns /\ heard[c] \in Nat /\ lastReceiveTime[c] \in Int
        BY <1>3 DEF Live
      <3>2. /\ heard[c] <= now /\ WallAt(heard[c]) <= lastReceiveTime[c]
            /\ lastReceiveTime[c] <= heard[c] + StepBack
        BY <3>1 DEF CloseInv, ListInv
      <3>3. lastReceiveTime'[c] = lastReceiveTime[c] \/ (Age(c) < 0 /\ lastReceiveTime'[c] = Wall)
        BY <3>1, <1>2
      <3>4. QED
        BY <3>1, <3>2, <3>3, <1>3, <1>4, Bounds DEF WallAt
    <2>3. ASSUME NEW c \in Conns, conn'[c] = "up" PROVE nextTick' - Second - StepBack - heard[c] <= Silence'
      <3>1. conn[c] = "up" /\ c \notin down /\ c \in Live
        BY <2>3, <1>2, <1>3 DEF Live
      <3>2. heard[c] \in Nat /\ lastReceiveTime[c] \in Int
            /\ WallAt(heard[c]) <= lastReceiveTime[c] /\ lastReceiveTime[c] <= heard[c] + StepBack
        BY <3>1, <1>3 DEF ListInv
      <3>3. Wall - StepBack - heard[c] <= Silence
        <4>1. CASE c \in Scanned
          <5>1. ~(Age(c) > idleSeconds * Second)
            BY <4>1, <3>1 DEF down, Old
          <5>2. QED
            BY <5>1, <3>2, <1>4, Bounds DEF Silence
        <4>2. CASE c \notin Scanned
          <5>0. /\ ToSet(connectionList_) = Live /\ DOMAIN connectionList_ = 1..Len(connectionList_)
                /\ Len(connectionList_) \in Nat
            BY <1>3, LenProperties DEF ListInv
          <5>1. PICK k \in 1..Len(connectionList_) : connectionList_[k] = c
            BY <3>1, <5>0 DEF ToSet
          <5>2. PICK j \in 1..k : Stops(j)
            BY <4>2, <5>1 DEF Scanned
          <5> DEFINE d == connectionList_[j]
          <5>3. j \in 1..Len(connectionList_) /\ d \in Live /\ d \in Conns
            <6>1. j \in 1..Len(connectionList_)
              BY <5>0, <5>1, <5>2
            <6>2. d \in Live
              BY <6>1, <5>0 DEF ToSet
            <6>3. QED
              BY <6>1, <6>2 DEF Live
          <5>4. Age(d) <= idleSeconds * Second
            BY <5>2, Bounds DEF Stops
          <5>5. heard[d] \in Nat /\ lastReceiveTime[d] \in Int /\ lastReceiveTime[d] <= heard[d] + StepBack
            BY <5>3, <1>3 DEF ListInv
          <5>6. heard[d] <= heard[c] + Skew
            <6>1. CASE j = k
              BY <6>1, <5>1, <3>2, Bounds
            <6>2. CASE j < k
              BY <6>2, <5>1, <5>3 DEF ListInv
            <6>3. QED
              BY <6>1, <6>2, <5>1, <5>2
          <5> HIDE DEF d
          <5>7. QED
            <6> DEFINE limit == idleSeconds * Second
            <6>1. Wall - lastReceiveTime[d] <= limit
              BY <5>4 DEF Age
            <6>2. Silence = limit + Skew /\ limit \in Nat /\ Skew \in Nat /\ StepBack \in Nat
              BY Bounds DEF Silence
            <6>3. Wall \in Nat /\ heard[c] \in Nat
              BY <3>2, <1>4
            <6> HIDE DEF limit
            <6>4. Wall - StepBack - heard[d] <= limit
              <7>1. \A w, r, h, b, m \in Int : w - r <= m /\ r <= h + b => w - b - h <= m
                OBVIOUS
              <7>2. /\ Wall \in Int /\ limit \in Int /\ StepBack \in Int
                    /\ lastReceiveTime[d] \in Int /\ heard[d] \in Int
                BY <6>2, <6>3, <5>5
              <7>3. QED
                BY <7>1, <7>2, <6>1, <5>5, Zenon
            <6>5. Wall - StepBack - heard[c] <= limit + Skew
              BY <6>2, <6>3, <6>4, <5>5, <5>6
            <6>6. QED
              BY <6>2, <6>5
        <4>3. QED
          BY <4>1, <4>2
      <3>4. QED
        BY <3>2, <3>3, <1>3, NextSecond, Bounds DEF Silence
    <2>4. QED
      BY <1>2, <2>1, <2>2, <2>3, NextSecond DEF ListInv, WallAt
  <1>9. QED
    BY <1>5, <1>7, <1>8, NextSecond DEF WheelInv

-----------------------------------------------------------------------------
(* onConnection() and onMessage().                                         *)

\* In a round of the loop "now" is at most Skew after its begin, and the last onTimer()
\* was before it.
LEMMA InThisRound ==
    ASSUME IdleInv, InRound
    PROVE  /\ now \in Nat /\ round \in Nat /\ back \in Nat /\ nextTick \in Nat
           /\ round <= now /\ now <= round + Skew /\ nextTick - Second - StepBack <= now
           /\ Wall = WallAt(now) /\ Wall \in Int /\ Wall <= now + StepBack
           /\ pollReturnTime_ \in Int /\ WallAt(round) <= pollReturnTime_
           /\ pollReturnTime_ <= round + StepBack
           /\ heard \in [Conns -> Nat] /\ lastReceiveTime \in [Conns -> Int]
           /\ connectionBuckets_ \in [1..idleSeconds -> SUBSET Conns]
           /\ connectionList_ \in Seq(Conns) /\ Len(connectionList_) \in Nat
           /\ DOMAIN connectionList_ = 1..Len(connectionList_)
           /\ conn \in [Conns -> {"none", "up", "shut", "gone"}]
  <1>1. connectionList_ \in Seq(Conns)
    BY DEF IdleInv, Types, DataTypes
  <1>2. Len(connectionList_) \in Nat /\ DOMAIN connectionList_ = 1..Len(connectionList_)
    BY <1>1, LenProperties
  <1>3. Wall = WallAt(now) /\ Wall \in Int /\ Wall <= now + StepBack
    BY WallClock, Bounds DEF Wall, IdleInv
  <1>4. QED
    BY <1>1, <1>2, <1>3, Bounds DEF IdleInv, Types, LoopTypes, ConnTypes, DataTypes, LoopInv, InRound

\* An Entry in the last bucket: the connection has just been heard.
LEMMA InsertedLast ==
    ASSUME IdleInv, InRound, NEW c \in Conns, InsertInLast(c), UNCHANGED <<server, nextTick, back>>,
           heard' = [heard EXCEPT ![c] = now],
           \A d \in Conns : d # c => conn'[d] = conn[d]
    PROVE  connectionBuckets_' \in [1..idleSeconds -> SUBSET Conns] /\ WheelInv'
  <1> DEFINE last == idleSeconds
  <1>1. last \in 1..idleSeconds
    BY Bounds
  <1>2. connectionBuckets_ \in [1..idleSeconds -> SUBSET Conns] /\ heard \in [Conns -> Nat]
    BY InThisRound
  <1>3. connectionBuckets_' = [connectionBuckets_ EXCEPT ![idleSeconds] = @ \union {c}]
    BY DEF InsertInLast
  <1>4. connectionBuckets_' \in [1..idleSeconds -> SUBSET Conns]
    BY <1>1, <1>2, <1>3
  <1>5. ASSUME server = "wheel", NEW d \in Conns, conn'[d] = "up"
        PROVE  \E i \in 1..idleSeconds :
                  /\ LastIn(d, i)'
                  /\ nextTick' - Second - StepBack - heard'[d] <= (idleSeconds - i) * Period
                  /\ i = idleSeconds \/ nextTick' + back - StepBack - heard'[d] >= (idleSeconds - i) * Second
    <2>1. CASE d = c
      <3>1. LastIn(c, last)'
        BY <1>1, <1>2, <1>3, Bounds DEF LastIn
      <3>2. heard'[c] = now /\ nextTick' - Second - StepBack <= now
        BY <1>2, InThisRound
      <3>3. (idleSeconds - last) * Period = 0
        BY Bounds
      <3>4. nextTick' - Second - StepBack - heard'[c] <= (idleSeconds - last) * Period
        <4>1. nextTick' - Second - StepBack - heard'[c] <= 0
          <5>1. /\ nextTick' \in Int /\ now \in Int /\ Second \in Int /\ StepBack \in Int
            BY InThisRound, Bounds
          <5>2. QED
            BY <5>1, <3>2
        <4>2. QED
          BY <4>1, <3>3
      <3>5. QED
        BY <1>1, <2>1, <3>1, <3>4
    <2>2. CASE d # c
      <3>1. conn[d] = "up" /\ heard'[d] = heard[d]
        BY <1>2, <1>5, <2>2
      <3>2. PICK i \in 1..idleSeconds :
                 /\ LastIn(d, i)
                 /\ nextTick - Second - StepBack - heard[d] <= (idleSeconds - i) * Period
                 /\ i = idleSeconds \/ nextTick + back - StepBack - heard[d] >= (idleSeconds - i) * Second
        BY <1>5, <3>1 DEF IdleInv, WheelInv
      <3>3. \A j \in 1..idleSeconds : d \in connectionBuckets_'[j] <=> d \in connectionBuckets_[j]
        BY <1>2, <1>3, <2>2
      <3>4. LastIn(d, i)'
        BY <3>2, <3>3, Bounds DEF LastIn
      <3>5. QED
        BY <3>1, <3>2, <3>4
    <2>3. QED
      BY <2>1, <2>2
  <1>6. QED
    BY <1>4, <1>5 DEF WheelInv

\* Node::position points at the connection; without it the list is as it was.
LEMMA TakenOut ==
    ASSUME IdleInv, server = "list", NEW c \in Live
    PROVE  LET rest == RemoveAt(connectionList_, position(c)) IN
           /\ rest \in Seq(Conns) /\ Len(rest) \in Nat
           /\ DOMAIN rest = 1..Len(rest)
           /\ ToSet(rest) = Live \ {c}
           /\ IsInjective(rest)
           /\ \A j, k \in 1..Len(rest) : j < k => heard[rest[j]] <= heard[rest[k]] + Skew
  <1> DEFINE s == connectionList_
             p == position(c)
             rest == RemoveAt(s, p)
  <1>1. /\ s \in Seq(Conns) /\ Len(s) \in Nat /\ DOMAIN s = 1..Len(s)
    BY LenProperties DEF IdleInv, Types, DataTypes
  <1>2. /\ ToSet(s) = Live /\ IsInjective(s)
        /\ \A j, k \in 1..Len(s) : j < k => heard[s[j]] <= heard[s[k]] + Skew
    BY DEF IdleInv, ListInv
  <1>3. p \in 1..Len(s) /\ s[p] = c
    <2>1. \E i \in 1..Len(s) : s[i] = c
      BY <1>1, <1>2 DEF ToSet
    <2>2. QED
      BY <2>1 DEF position
  <1> HIDE DEF s, p
  <1>4. /\ rest \in Seq(Conns) /\ Len(rest) = Len(s) - 1
        /\ \A i \in 1..(Len(s) - 1) : rest[i] = IF i < p THEN s[i] ELSE s[i + 1]
    BY <1>1, <1>3, RemoveAtKeeps
  <1>5. Len(rest) \in Nat /\ DOMAIN rest = 1..Len(rest)
    BY <1>4, LenProperties
  <1> HIDE DEF rest
  <1> DEFINE from(i) == IF i < p THEN i ELSE i + 1
  <1>6. ASSUME NEW i \in 1..Len(rest) PROVE from(i) \in 1..Len(s) /\ from(i) # p /\ rest[i] = s[from(i)]
    BY <1>1, <1>3, <1>4, <1>5
  <1>7. ASSUME NEW i \in 1..Len(rest), NEW j \in 1..Len(rest)
        PROVE  (from(i) = from(j) => i = j) /\ (i < j => from(i) < from(j))
    BY <1>3, <1>1, <1>5
  <1>8. ASSUME NEW k \in 1..Len(s), k # p PROVE \E i \in 1..Len(rest) : from(i) = k
    <2>1. CASE k < p
      <3>1. k \in 1..Len(rest) /\ from(k) = k
        BY <2>1, <1>1, <1>3, <1>4
      <3>2. QED
        BY <3>1
    <2>2. CASE k > p
      <3>1. k - 1 \in 1..Len(rest) /\ from(k - 1) = k
        BY <2>2, <1>1, <1>3, <1>4
      <3>2. QED
        BY <3>1
    <2>3. QED
      BY <2>1, <2>2, <1>8, <1>1, <1>3
  <1> HIDE DEF from
  <1>9. IsInjective(rest)
    <2> SUFFICES ASSUME NEW i \in 1..Len(rest), NEW j \in 1..Len(rest), rest[i] = rest[j] PROVE i = j
      BY <1>5 DEF IsInjective
    <2>1. from(i) = from(j)
      BY <1>1, <1>2, <1>6 DEF IsInjective
    <2>2. QED
      BY <2>1, <1>7
  <1>10. \A j, k \in 1..Len(rest) : j < k => heard[rest[j]] <= heard[rest[k]] + Skew
    BY <1>2, <1>6, <1>7
  <1>11. ToSet(rest) = Live \ {c}
    <2>1. ASSUME NEW i \in 1..Len(rest) PROVE rest[i] \in Live \ {c}
      <3>1. s[from(i)] \in Live
        BY <1>1, <1>2, <1>6 DEF ToSet
      <3>2. s[from(i)] # c
        BY <1>1, <1>2, <1>3, <1>6 DEF IsInjective
      <3>3. QED
        BY <3>1, <3>2, <1>6
    <2>2. ASSUME NEW d \in Live \ {c} PROVE \E i \in 1..Len(rest) : rest[i] = d
      <3>1. PICK k \in 1..Len(s) : s[k] = d
        BY <1>1, <1>2 DEF ToSet
      <3>2. k # p
        BY <3>1, <1>3
      <3>3. PICK i \in 1..Len(rest) : from(i) = k
        BY <3>2, <1>8
      <3>4. QED
        BY <3>1, <3>3, <1>6
    <2>3. QED
      BY <2>1, <2>2, <1>5 DEF ToSet
  <1>12. QED
    BY <1>4, <1>5, <1>9, <1>10, <1>11 DEF rest, s, p

\* A connection is put at the end of the list, with a time of this round, whether it is
\* new or was taken out from where it was.
LEMMA PutLast ==
    ASSUME IdleInv, InRound, server = "list", NEW c \in Conns,
           NEW rest \in Seq(Conns), NEW t \in {now, round},
           NEW w \in Int, WallAt(t) <= w, w <= t + StepBack,
           DOMAIN rest = 1..Len(rest), Len(rest) \in Nat,
           ToSet(rest) = Live \ {c}, IsInjective(rest),
           \A j, k \in 1..Len(rest) : j < k => heard[rest[j]] <= heard[rest[k]] + Skew,
           connectionList_' = Append(rest, c),
           heard' = [heard EXCEPT ![c] = t],
           lastReceiveTime' = [lastReceiveTime EXCEPT ![c] = w],
           UNCHANGED <<server, back, nextTick>>,
           conn'[c] \in {"up", "shut"},
           \A d \in Conns : d # c => conn'[d] = conn[d]
    PROVE  /\ connectionList_' \in Seq(Conns) /\ lastReceiveTime' \in [Conns -> Int]
           /\ ListInv'
  <1> DEFINE s == Append(rest, c)
  <1>1. /\ now \in Nat /\ back \in Nat /\ nextTick \in Nat /\ t \in Nat /\ t <= now /\ now <= t + Skew
        /\ nextTick - Second - StepBack <= now /\ Skew \in Nat /\ Second \in Nat /\ StepBack \in Nat
        /\ heard \in [Conns -> Nat] /\ lastReceiveTime \in [Conns -> Int]
    <2>1. Skew \in Nat /\ Second \in Nat /\ StepBack \in Nat
      BY Bounds
    <2>2. now \in Nat /\ round \in Nat /\ round <= now /\ now <= round + Skew
      BY InThisRound
    <2>3. t \in Nat /\ t <= now /\ now <= t + Skew
      <3>1. CASE t = now
        BY <3>1, <2>1, <2>2
      <3>2. CASE t = round
        BY <3>2, <2>2
      <3>3. QED
        BY <3>1, <3>2
    <2>4. QED
      BY <2>1, <2>3, InThisRound
  <1>2. /\ s \in Seq(Conns) /\ Len(s) = Len(rest) + 1 /\ DOMAIN s = 1..Len(s)
        /\ \A i \in 1..Len(rest) : s[i] = rest[i]
        /\ s[Len(rest) + 1] = c
    BY AppendProperties
  <1> HIDE DEF s
  <1>3. Live' = Live \cup {c}
    BY DEF Live
  <1>4. \A i \in 1..Len(rest) : rest[i] \in Live /\ rest[i] # c /\ rest[i] \in Conns
    BY DEF ToSet, Live
  <1>5. ToSet(s) = Live'
    <2>1. ToSet(s) = ToSet(rest) \cup {c}
      <3>1. \A i \in 1..Len(s) : i \in 1..Len(rest) \/ i = Len(rest) + 1
        BY <1>2
      <3>2. 1..Len(rest) \subseteq 1..Len(s) /\ Len(rest) + 1 \in 1..Len(s)
        BY <1>2
      <3>3. \A d \in ToSet(s) : d \in ToSet(rest) \cup {c}
        BY <3>1, <1>2 DEF ToSet
      <3>4. \A d \in ToSet(rest) \cup {c} : d \in ToSet(s)
        BY <3>2, <1>2 DEF ToSet
      <3>5. QED
        BY <3>3, <3>4
    <2>2. QED
      BY <2>1, <1>3
  <1>6. IsInjective(s)
    <2> SUFFICES ASSUME NEW i \in 1..Len(s), NEW j \in 1..Len(s), s[i] = s[j] PROVE i = j
      BY <1>2 DEF IsInjective
    <2>1. CASE i \in 1..Len(rest) /\ j \in 1..Len(rest)
      BY <2>1, <1>2 DEF IsInjective
    <2>2. CASE i = Len(rest) + 1 \/ j = Len(rest) + 1
      BY <2>2, <1>2, <1>4
    <2>3. QED
      BY <2>1, <2>2, <1>2
  <1>7. ASSUME NEW d \in Conns, d # c PROVE heard'[d] = heard[d] /\ lastReceiveTime'[d] = lastReceiveTime[d]
    BY <1>1, <1>7
  <1>8. heard'[c] = t /\ lastReceiveTime'[c] = w
    BY <1>1
  <1>9. ASSUME NEW j \in 1..Len(s), NEW k \in 1..Len(s), j < k
        PROVE  heard'[s[j]] <= heard'[s[k]] + Skew
    <2>1. j \in 1..Len(rest) /\ s[j] = rest[j] /\ heard'[s[j]] = heard[rest[j]] /\ rest[j] \in Conns
      BY <1>2, <1>4, <1>7, <1>9
    <2>2. CASE k \in 1..Len(rest)
      BY <2>1, <2>2, <1>2, <1>4, <1>7, <1>9
    <2>3. CASE k = Len(rest) + 1
      <3>1. heard[rest[j]] <= now /\ heard[rest[j]] \in Nat
        BY <2>1, <1>1 DEF IdleInv, CloseInv
      <3>2. heard'[s[k]] = t
        BY <2>3, <1>2, <1>8
      <3>3. heard[rest[j]] <= t + Skew
        <4>1. now \in Nat /\ t \in Nat /\ Skew \in Nat /\ now <= t + Skew
          BY <1>1
        <4>2. QED
          BY <4>1, <3>1
      <3>4. QED
        BY <3>2, <3>3, <2>1
    <2>4. QED
      BY <2>2, <2>3, <1>2
  <1>10. ASSUME NEW d \in Live'
         PROVE  WallAt(heard[d])' <= lastReceiveTime'[d] /\ lastReceiveTime'[d] <= heard'[d] + StepBack
    <2>1. CASE d = c
      BY <2>1, <1>1, <1>8 DEF WallAt
    <2>2. CASE d # c
      <3>1. d \in Live /\ d \in Conns
        BY <2>2, <1>3 DEF Live
      <3>2. QED
        BY <2>2, <3>1, <1>7 DEF IdleInv, ListInv, WallAt
    <2>3. QED
      BY <2>1, <2>2
  <1>11. ASSUME NEW d \in Conns, conn'[d] = "up" PROVE nextTick' - Second - StepBack - heard'[d] <= Silence'
    <2>1. CASE d = c
      <3> DEFINE limit == idleSeconds * Second
      <3>1. limit \in Nat /\ Silence' = limit + Skew
        BY Bounds DEF Silence
      <3> HIDE DEF limit
      <3>2. heard'[d] = t
        BY <2>1, <1>8
      <3>3. nextTick' - Second - StepBack - t <= limit + Skew
        BY <3>1, <1>1
      <3>4. QED
        BY <3>1, <3>2, <3>3
    <2>2. CASE d # c
      BY <2>2, <1>7, <1>11 DEF IdleInv, ListInv, Silence
    <2>3. QED
      BY <2>1, <2>2
  <1>12. lastReceiveTime' \in [Conns -> Int]
    BY <1>1
  <1>13. QED
    BY <1>2, <1>5, <1>6, <1>9, <1>10, <1>11, <1>12 DEF ListInv, s

\* A step of a handler that leaves the timers alone keeps what is said about them.
LEMMA HandlerKeepsLoop ==
    ASSUME IdleInv, InRound, UNCHANGED loopVars, UNCHANGED <<shutAt, closeAt>>,
           heard' \in [Conns -> Nat], \A c \in Conns : heard'[c] <= now,
           \A c \in Conns : conn'[c] = conn[c] \/ (conn[c] = "none" /\ conn'[c] = "up")
    PROVE  LoopTypes' /\ LoopInv' /\ CloseInv'
  <1>1. LoopTypes' /\ LoopInv'
    BY DEF IdleInv, Types, LoopTypes, LoopInv, OnTime, InRound, loopVars, Wall, WallAt
  <1>2. CloseInv'
    <2> SUFFICES ASSUME NEW c \in Conns
                 PROVE  /\ closeAt[c] # -1 => conn'[c] = "shut" /\ OnTime(c, closeAt[c])
                        /\ closeAt[c] = -1 => c \notin ready
                        /\ server = "list" /\ conn'[c] = "shut" =>
                               closeAt[c] # -1 /\ closeAt[c] <= shutAt[c] + StepBack + Delay
      BY DEF CloseInv, OnTime, InRound, loopVars, Wall, WallAt
    <2>1. /\ closeAt[c] # -1 => conn[c] = "shut" /\ OnTime(c, closeAt[c])
          /\ closeAt[c] = -1 => c \notin ready
          /\ server = "list" /\ conn[c] = "shut" =>
                 closeAt[c] # -1 /\ closeAt[c] <= shutAt[c] + StepBack + Delay
      BY DEF IdleInv, CloseInv
    <2>2. QED
      BY <2>1
  <1>3. QED
    BY <1>1, <1>2

\* onConnection(), connected
LEMMA OnConnectionUpKeeps ==
    ASSUME IdleInv, NEW c \in Conns, OnConnectionUp(c) PROVE IdleInv'
  <1>1. /\ InRound /\ conn[c] = "none" /\ conn' = [conn EXCEPT ![c] = "up"]
        /\ heard' = [heard EXCEPT ![c] = now]
        /\ UNCHANGED loopVars /\ UNCHANGED <<shutAt, closeAt>>
        /\ IF server = "wheel" THEN WheelUp(c) ELSE ListUp(c)
    BY DEF OnConnectionUp
  <1>2. conn' \in [Conns -> {"none", "up", "shut", "gone"}] /\ heard' \in [Conns -> Nat]
    BY <1>1, InThisRound
  <1>3. conn'[c] = "up" /\ \A d \in Conns : d # c => conn'[d] = conn[d]
    BY <1>1, InThisRound
  <1>4. \A d \in Conns : heard'[d] <= now
    BY <1>1, InThisRound DEF IdleInv, CloseInv
  <1>5. LoopTypes' /\ LoopInv' /\ CloseInv'
    BY <1>1, <1>2, <1>3, <1>4, HandlerKeepsLoop
  <1>6. ConnTypes'
    BY <1>1, <1>2 DEF IdleInv, Types, ConnTypes
  <1>7. server' = server /\ nextTick' = nextTick /\ back' = back /\ server \in {"wheel", "list"}
    BY <1>1 DEF loopVars, IdleInv, Types, LoopTypes
  <1>8. CASE server = "wheel"
    <2>1. InsertInLast(c) /\ UNCHANGED <<connectionList_, lastReceiveTime>>
      BY <1>1, <1>8 DEF WheelUp
    <2>2. connectionBuckets_' \in [1..idleSeconds -> SUBSET Conns] /\ WheelInv'
      BY <2>1, <1>1, <1>3, <1>7, InsertedLast
    <2>3. DataTypes'
      BY <2>1, <2>2 DEF IdleInv, Types, DataTypes
    <2>4. ListInv'
      BY <1>7, <1>8 DEF ListInv
    <2>5. QED
      BY <2>2, <2>3, <2>4, <1>5, <1>6 DEF IdleInv, Types
  <1>9. CASE server = "list"
    <2>1. /\ connectionList_' = Append(connectionList_, c)
          /\ lastReceiveTime' = [lastReceiveTime EXCEPT ![c] = Wall]
          /\ UNCHANGED connectionBuckets_
      BY <1>1, <1>9 DEF ListUp
    <2>2. c \notin Live /\ ToSet(connectionList_) = Live \ {c}
      BY <1>1, <1>9 DEF Live, IdleInv, ListInv
    <2>3. /\ IsInjective(connectionList_)
          /\ \A j, k \in 1..Len(connectionList_) :
                 j < k => heard[connectionList_[j]] <= heard[connectionList_[k]] + Skew
      BY <1>9 DEF IdleInv, ListInv
    <2>4. connectionList_' \in Seq(Conns) /\ lastReceiveTime' \in [Conns -> Int] /\ ListInv'
      <3>1. Wall \in Int /\ WallAt(now) <= Wall /\ Wall <= now + StepBack
        BY <1>1, InThisRound
      <3>2. QED
        BY <3>1, <2>1, <2>2, <2>3, <1>1, <1>3, <1>7, <1>9, InThisRound, PutLast
    <2>5. DataTypes'
      BY <2>1, <2>4 DEF IdleInv, Types, DataTypes
    <2>6. WheelInv'
      BY <1>7, <1>9 DEF WheelInv
    <2>7. QED
      BY <2>4, <2>5, <2>6, <1>5, <1>6 DEF IdleInv, Types
  <1>10. QED
    BY <1>7, <1>8, <1>9

\* onMessage(), also of a connection that has been shut down
LEMMA OnMessageKeeps ==
    ASSUME IdleInv, NEW c \in Conns, OnMessage(c) PROVE IdleInv'
  <1>1. /\ InRound /\ conn[c] \in {"up", "shut"}
        /\ heard' = [heard EXCEPT ![c] = IF server = "wheel" THEN now ELSE round]
        /\ UNCHANGED loopVars /\ UNCHANGED <<conn, shutAt, closeAt>>
        /\ IF server = "wheel" THEN WheelMessage(c) ELSE ListMessage(c)
    BY DEF OnMessage
  <1>2. heard' \in [Conns -> Nat] /\ \A d \in Conns : heard'[d] <= now
    BY <1>1, InThisRound DEF IdleInv, CloseInv
  <1>3. LoopTypes' /\ LoopInv' /\ CloseInv'
    BY <1>1, <1>2, HandlerKeepsLoop
  <1>4. ConnTypes'
    BY <1>1, <1>2 DEF IdleInv, Types, ConnTypes
  <1>5. server' = server /\ nextTick' = nextTick /\ back' = back /\ server \in {"wheel", "list"}
    BY <1>1 DEF loopVars, IdleInv, Types, LoopTypes
  <1>6. CASE server = "wheel"
    <2>1. UNCHANGED <<connectionList_, lastReceiveTime>>
      BY <1>1, <1>6 DEF WheelMessage
    <2>2. heard' = [heard EXCEPT ![c] = now]
      BY <1>1, <1>6
    <2>3. CASE EntryLives(c)
      <3>1. InsertInLast(c)
        BY <2>3, <1>1, <1>6 DEF WheelMessage
      <3>2. connectionBuckets_' \in [1..idleSeconds -> SUBSET Conns] /\ WheelInv'
        BY <3>1, <2>2, <1>1, <1>5, InsertedLast
      <3>3. QED
        BY <3>2, <2>1, <1>3, <1>4, <1>5, <1>6 DEF IdleInv, Types, DataTypes, ListInv
    <2>4. CASE ~EntryLives(c)
      <3>1. UNCHANGED connectionBuckets_
        BY <2>4, <1>1, <1>6 DEF WheelMessage
      <3>2. conn[c] # "up"
        BY <2>4, <1>6 DEF IdleInv, WheelInv, LastIn, EntryLives
      <3>3. \A d \in Conns : conn'[d] = "up" => conn[d] = "up" /\ heard'[d] = heard[d]
        BY <3>2, <2>2, <1>1, InThisRound
      <3>4. WheelInv'
        BY <3>1, <3>3, <1>5 DEF IdleInv, WheelInv, LastIn
      <3>5. QED
        BY <3>1, <3>4, <2>1, <1>3, <1>4, <1>5, <1>6 DEF IdleInv, Types, DataTypes, ListInv
    <2>5. QED
      BY <2>3, <2>4
  <1>7. CASE server = "list"
    <2> DEFINE rest == RemoveAt(connectionList_, position(c))
    <2>1. /\ connectionList_' = Append(rest, c)
          /\ lastReceiveTime' = [lastReceiveTime EXCEPT ![c] = pollReturnTime_]
          /\ UNCHANGED connectionBuckets_ /\ heard' = [heard EXCEPT ![c] = round]
      BY <1>1, <1>7 DEF ListMessage, MoveToEnd
    <2>2. c \in Live
      BY <1>1 DEF Live
    <2>3. /\ rest \in Seq(Conns) /\ Len(rest) \in Nat /\ DOMAIN rest = 1..Len(rest)
          /\ ToSet(rest) = Live \ {c} /\ IsInjective(rest)
          /\ \A j, k \in 1..Len(rest) : j < k => heard[rest[j]] <= heard[rest[k]] + Skew
      BY <2>2, <1>7, TakenOut
    <2> HIDE DEF rest
    <2>4. connectionList_' \in Seq(Conns) /\ lastReceiveTime' \in [Conns -> Int] /\ ListInv'
      <3>1. /\ pollReturnTime_ \in Int /\ WallAt(round) <= pollReturnTime_
            /\ pollReturnTime_ <= round + StepBack
        BY <1>1, InThisRound
      <3>2. QED
        BY <3>1, <2>1, <2>3, <1>1, <1>5, <1>7, PutLast
    <2>5. QED
      BY <2>1, <2>4, <1>3, <1>4, <1>5, <1>7 DEF IdleInv, Types, DataTypes, WheelInv
  <1>8. QED
    BY <1>5, <1>6, <1>7

\* onConnection(), no longer connected: what is left of the list and of the timers
LEMMA DownKeeps ==
    ASSUME IdleInv, NEW c \in Live, InRound, Down(c), ready' = ready \ {c},
           UNCHANGED <<server, now, back, round, pollReturnTime_, nextTick>>
    PROVE  IdleInv'
  <1>1. /\ conn' = [conn EXCEPT ![c] = "gone"] /\ closeAt' = [closeAt EXCEPT ![c] = -1]
        /\ connectionList_' = IF server = "list" THEN Erase(c) ELSE connectionList_
        /\ UNCHANGED <<heard, shutAt, connectionBuckets_, lastReceiveTime>>
    BY DEF Down
  <1>2. c \in Conns /\ c # "tick"
    BY Bounds DEF Live
  <1>3. conn \in [Conns -> {"none", "up", "shut", "gone"}] /\ closeAt \in [Conns -> Nat \cup {-1}]
    BY DEF IdleInv, Types, ConnTypes
  <1>4. \A d \in Conns : d # c => conn'[d] = conn[d] /\ closeAt'[d] = closeAt[d]
    BY <1>1, <1>3
  <1>5. conn'[c] = "gone" /\ closeAt'[c] = -1
    BY <1>1, <1>2, <1>3
  <1>6. LoopTypes' /\ ConnTypes'
    BY <1>1, <1>3 DEF IdleInv, Types, LoopTypes, ConnTypes
  <1>7. LoopInv'
    BY <1>2 DEF IdleInv, LoopInv, OnTime, InRound, Wall, WallAt
  <1>8. CloseInv'
    <2> SUFFICES ASSUME NEW d \in Conns
                 PROVE  /\ heard[d] <= now
                        /\ closeAt'[d] # -1 => conn'[d] = "shut" /\ OnTime(d, closeAt[d])'
                        /\ closeAt'[d] = -1 => d \notin ready'
                        /\ server = "list" /\ conn'[d] = "shut" =>
                               closeAt'[d] # -1 /\ closeAt'[d] <= shutAt[d] + StepBack + Delay
      BY <1>1 DEF CloseInv
    <2>1. /\ heard[d] <= now
          /\ closeAt[d] # -1 => conn[d] = "shut" /\ OnTime(d, closeAt[d])
          /\ closeAt[d] = -1 => d \notin ready
          /\ server = "list" /\ conn[d] = "shut" =>
                 closeAt[d] # -1 /\ closeAt[d] <= shutAt[d] + StepBack + Delay
      BY DEF IdleInv, CloseInv
    <2>2. CASE d = c
      BY <2>1, <2>2, <1>5
    <2>3. CASE d # c
      BY <2>1, <2>3, <1>4 DEF OnTime, InRound, Wall, WallAt
    <2>4. QED
      BY <2>2, <2>3
  <1>9. WheelInv'
    <2>1. \A d \in Conns : conn'[d] = "up" => conn[d] = "up"
      BY <1>4, <1>5
    <2>2. QED
      BY <2>1, <1>1 DEF IdleInv, WheelInv, LastIn
  <1>10. connectionList_' \in Seq(Conns) /\ ListInv'
    <2>1. CASE server # "list"
      BY <2>1, <1>1 DEF IdleInv, Types, DataTypes, ListInv
    <2>2. CASE server = "list"
      <3> DEFINE rest == RemoveAt(connectionList_, position(c))
      <3>1. connectionList_' = rest
        BY <2>2, <1>1 DEF Erase
      <3>2. /\ rest \in Seq(Conns) /\ Len(rest) \in Nat /\ DOMAIN rest = 1..Len(rest)
            /\ ToSet(rest) = Live \ {c} /\ IsInjective(rest)
            /\ \A j, k \in 1..Len(rest) : j < k => heard[rest[j]] <= heard[rest[k]] + Skew
        BY <2>2, TakenOut
      <3> HIDE DEF rest
      <3>3. Live' = Live \ {c}
        BY <1>4, <1>5 DEF Live
      <3>4. \A d \in Live : /\ WallAt(heard[d]) <= lastReceiveTime[d]
                            /\ lastReceiveTime[d] <= heard[d] + StepBack
        BY <2>2 DEF IdleInv, ListInv
      <3>5. \A d \in Conns : conn'[d] = "up" => nextTick - Second - StepBack - heard[d] <= Silence
        BY <2>2, <1>4, <1>5 DEF IdleInv, ListInv
      <3>6. QED
        BY <3>1, <3>2, <3>3, <3>4, <3>5, <1>1 DEF ListInv, Silence, WallAt
    <2>3. QED
      BY <2>1, <2>2
  <1>11. QED
    BY <1>1, <1>6, <1>7, <1>8, <1>9, <1>10 DEF IdleInv, Types, DataTypes

\* forceClose() finds the connection as shutdown() left it.
LEMMA ForceCloseKeeps ==
    ASSUME IdleInv, NEW c \in Conns, ForceClose(c) PROVE IdleInv'
  <1>1. c \in Live
    BY DEF ForceClose, IdleInv, CloseInv, Live
  <1>2. InRound
    BY DEF ForceClose, IdleInv, LoopInv
  <1>3. QED
    BY <1>1, <1>2, DownKeeps DEF ForceClose

-----------------------------------------------------------------------------
(* The theorems.                                                           *)

\* Every step of the loop, of the clock and of either server
LEMMA IdleNext == IdleInv /\ [Next]_vars => IdleInv'
  <1> SUFFICES ASSUME IdleInv, [Next]_vars PROVE IdleInv'
    OBVIOUS
  <1>1. CASE Tick
    BY <1>1, TickKeeps
  <1>2. CASE SetClockBack
    BY <1>2, SetClockBackKeeps
  <1>3. CASE PollReturns
    BY <1>3, PollReturnsKeeps
  <1>4. CASE RoundEnds
    BY <1>4, RoundEndsKeeps
  <1>5. CASE OnTimer
    <2>1. server \in {"wheel", "list"}
      BY DEF IdleInv, Types, LoopTypes
    <2>2. QED
      BY <2>1, <1>5, OnTimerWheelKeeps, OnTimerListKeeps
  <1>6. ASSUME NEW c \in Conns, OnConnectionUp(c) PROVE IdleInv'
    BY <1>6, OnConnectionUpKeeps
  <1>7. ASSUME NEW c \in Conns, OnMessage(c) PROVE IdleInv'
    BY <1>7, OnMessageKeeps
  <1>8. ASSUME NEW c \in Conns, OnConnectionDown(c) PROVE IdleInv'
    <2>1. c \in Live
      BY <1>8 DEF OnConnectionDown, Live
    <2>2. QED
      BY <1>8, <2>1, DownKeeps DEF OnConnectionDown
  <1>9. ASSUME NEW c \in Conns, ForceClose(c) PROVE IdleInv'
    BY <1>9, ForceCloseKeeps
  <1>10. CASE UNCHANGED vars
    BY <1>10 DEF vars, loopVars, connVars, dataVars, IdleInv, Types, LoopTypes, ConnTypes, DataTypes,
                 LoopInv, CloseInv, WheelInv, ListInv, OnTime, InRound, LastIn, Live, Silence,
                 Wall, WallAt
  <1>11. QED
    BY <1>1, <1>2, <1>3, <1>4, <1>5, <1>6, <1>7, <1>8, <1>9, <1>10 DEF Next

\* The inductive invariant of both servers
THEOREM IdleAlwaysConsistent == Spec => []IdleInv
  BY IdleInit, IdleNext, PTL DEF Spec

\* The last onTimer() is at most a period ago.
LEMMA SinceLastTimer ==
    ASSUME IdleInv
    PROVE  /\ now \in Nat /\ back \in Nat /\ nextTick \in Nat /\ Wall \in Nat /\ Wall = now + StepBack - back
           /\ Wall - (nextTick - Second) <= Period
  <1>1. /\ now \in Nat /\ back \in Nat /\ nextTick \in Nat /\ Wall \in Nat /\ Wall = now + StepBack - back
        /\ round \in Nat \cup {-1}
    BY WallClock DEF IdleInv, Types, LoopTypes
  <1>2. /\ InRound => now <= round + Skew /\ round \in Nat /\ WallAt(round) = round + StepBack - back
        /\ OnTime("tick", nextTick)
    BY <1>1 DEF IdleInv, LoopInv, InRound, WallAt
  <1>3. QED
    BY <1>1, <1>2, Bounds DEF OnTime

\* A connection that stays silent is shut down in time, by the wheel and by the list, also
\* when the list is out of order or the clock is set back.
THEOREM SilentAlwaysShut == Spec => []SilentIsShut
  <1>1. IdleInv => SilentIsShut
    <2> SUFFICES ASSUME IdleInv, NEW c \in Conns, conn[c] = "up"
                 PROVE  now - heard[c] <= back + IF server = "wheel" THEN idleSeconds * Period
                                                 ELSE idleSeconds * Second + Period + Skew
      BY DEF SilentIsShut
    <2>1. heard[c] \in Nat /\ StepBack \in Nat /\ server \in {"wheel", "list"}
      BY Bounds DEF IdleInv, Types, LoopTypes, ConnTypes
    <2>2. CASE server = "wheel"
      <3>1. PICK i \in 1..idleSeconds :
                 nextTick - Second - StepBack - heard[c] <= (idleSeconds - i) * Period
        BY <2>2 DEF IdleInv, WheelInv
      <3> DEFINE silent == (idleSeconds - i) * Period
                 limit == idleSeconds * Period
      <3>2. silent \in Nat /\ limit \in Nat /\ silent + Period <= limit /\ Period \in Nat /\ Second \in Nat
        BY Buckets, Bounds
      <3>3. nextTick - Second - StepBack - heard[c] <= silent
        BY <3>1
      <3> HIDE DEF silent, limit
      <3>4. now - heard[c] <= back + limit
        BY <3>2, <3>3, <2>1, SinceLastTimer
      <3>5. QED
        BY <3>4, <2>2 DEF limit
    <2>3. CASE server = "list"
      <3> DEFINE limit == idleSeconds * Second
      <3>1. nextTick - Second - StepBack - heard[c] <= limit + Skew
        BY <2>3 DEF IdleInv, ListInv, Silence
      <3>2. limit \in Nat /\ Skew \in Nat /\ Second \in Nat /\ Period \in Nat
        BY Bounds
      <3> HIDE DEF limit
      <3>3. now - heard[c] <= back + (limit + Period + Skew)
        BY <3>1, <3>2, <2>1, SinceLastTimer
      <3>4. QED
        BY <3>3, <2>3 DEF limit
    <2>4. QED
      BY <2>1, <2>2, <2>3
  <1>2. QED
    BY <1>1, IdleAlwaysConsistent, PTL

\* onTimer() shuts down no connection that was heard too recently.
THEOREM OnlySilentAlwaysShut == Spec => OnlySilentIsShut
  <1> DEFINE Silent(c) == now - heard[c] >= IF server = "wheel" THEN (idleSeconds - 1) * Second
                                            ELSE idleSeconds * Second + 1
             Step == \A c \in Conns : conn[c] = "up" /\ conn'[c] = "shut" => Silent(c)
  <1>1. IdleInv /\ [Next]_vars => [Step]_vars
    <2> SUFFICES ASSUME IdleInv, Next, NEW c \in Conns, conn[c] = "up", conn'[c] = "shut"
                 PROVE  Silent(c)
      BY DEF vars
    <2>0. /\ server \in {"wheel", "list"} /\ conn \in [Conns -> {"none", "up", "shut", "gone"}]
          /\ now \in Nat /\ nextTick \in Nat /\ back \in Nat
          /\ heard[c] \in Nat /\ heard[c] <= now /\ lastReceiveTime[c] \in Int
      BY WallClock DEF IdleInv, Types, LoopTypes, ConnTypes, DataTypes, CloseInv
    <2>1. OnTimer
      <3>1. ~(Tick \/ SetClockBack \/ PollReturns \/ RoundEnds)
        BY DEF Tick, SetClockBack, PollReturns, RoundEnds, connVars
      <3>2. ASSUME NEW d \in Conns, OnConnectionUp(d) \/ OnMessage(d) PROVE FALSE
        BY <3>2, <2>0 DEF OnConnectionUp, OnMessage
      <3>3. ASSUME NEW d \in Conns, OnConnectionDown(d) \/ ForceClose(d) PROVE FALSE
        BY <3>3, <2>0 DEF OnConnectionDown, ForceClose, Down
      <3>4. QED
        BY <3>1, <3>2, <3>3 DEF Next
    <2>2. CASE server = "wheel"
      <3>1. OnTimerWheel
        BY <2>1, <2>2 DEF OnTimer
      <3>2. c \in Released
        BY <3>1, <2>0 DEF OnTimerWheel
      <3>3. PICK i \in 1..idleSeconds :
                 /\ LastIn(c, i)
                 /\ i = idleSeconds \/ nextTick + back - StepBack - heard[c] >= (idleSeconds - i) * Second
        BY <2>2 DEF IdleInv, WheelInv
      <3>4. i = 1
        <4> SUFFICES ASSUME i # 1 PROVE FALSE
          OBVIOUS
        <4>1. i - 1 \in 1..idleSeconds /\ i - 1 # idleSeconds
          BY <3>3, Bounds
        <4>2. connectionBuckets_ \in [1..idleSeconds -> SUBSET Conns]
          BY DEF IdleInv, Types, DataTypes
        <4>3. Advance[i - 1] = connectionBuckets_[i]
          BY <4>1, <4>2, AdvanceShifts
        <4>4. c \in Advance[i - 1]
          BY <4>3, <3>3 DEF LastIn
        <4>5. QED
          BY <4>1, <4>4, <3>2 DEF Released
      <3> DEFINE least == (idleSeconds - 1) * Second
      <3>5. least \in Nat /\ (idleSeconds = 1 => least = 0)
        BY Bounds, Buckets
      <3>6. idleSeconds = 1 \/ nextTick + back - StepBack - heard[c] >= least
        BY <3>3, <3>4
      <3> HIDE DEF least
      <3>7. nextTick <= Wall /\ Wall = now + StepBack - back /\ StepBack \in Nat
        BY <2>1, NextSecond, Bounds
      <3>8. now - heard[c] >= least
        BY <3>5, <3>6, <3>7, <2>0
      <3>9. QED
        BY <3>8, <2>2 DEF least
    <2>3. CASE server = "list"
      <3>1. OnTimerList
        BY <2>1, <2>3 DEF OnTimer
      <3>2. Old(c)
        BY <3>1, <2>0 DEF OnTimerList
      <3>3. heard[c] + StepBack - back <= lastReceiveTime[c] /\ StepBack \in Nat
        BY <2>3, Bounds DEF IdleInv, ListInv, Live, WallAt
      <3> DEFINE limit == idleSeconds * Second
      <3>4. limit \in Nat
        BY Bounds
      <3>5. Wall - lastReceiveTime[c] > limit
        BY <3>2 DEF Old, Age
      <3> HIDE DEF limit
      <3>5a. Wall = now + StepBack - back
        BY DEF Wall, WallAt
      <3>6. now - heard[c] >= limit + 1
        BY <3>3, <3>4, <3>5, <3>5a, <2>0
      <3>7. QED
        BY <3>6, <2>3 DEF limit
    <2>4. QED
      BY <2>0, <2>2, <2>3
  <1>2. QED
    BY <1>1, IdleAlwaysConsistent, PTL DEF Spec, OnlySilentIsShut

\* The list of sortedlist.cc holds every connection once, so that each iterator in a Node
\* is valid, and forceCloseWithDelay() ends a connection that the peer keeps open.
THEOREM ListAlwaysMatches == Spec => []ListMatchesConnections
  <1>1. IdleInv => ListMatchesConnections
    <2> SUFFICES ASSUME IdleInv, server = "list" PROVE ListMatchesConnections
      BY DEF ListMatchesConnections
    <2>1. /\ ToSet(connectionList_) = {c \in Conns : conn[c] \in {"up", "shut"}}
          /\ IsInjective(connectionList_)
      BY DEF IdleInv, ListInv, Live
    <2>2. ASSUME NEW c \in Conns, conn[c] = "shut" PROVE now - shutAt[c] <= Delay + (Skew - 1) + Skew + back
      <3>1. /\ shutAt[c] \in Nat /\ now \in Nat /\ round \in Nat \cup {-1} /\ closeAt[c] \in Int
            /\ back \in Nat /\ Wall = now + StepBack - back
        BY WallClock DEF IdleInv, Types, LoopTypes, ConnTypes
      <3>2. /\ closeAt[c] # -1 /\ closeAt[c] <= shutAt[c] + StepBack + Delay
            /\ Delay \in Nat /\ Skew \in Nat /\ StepBack \in Nat
        BY <2>2, Bounds DEF IdleInv, CloseInv
      <3>3. OnTime(c, closeAt[c])
        BY <3>2 DEF IdleInv, CloseInv
      <3>4. InRound => now <= round + Skew /\ round \in Nat /\ WallAt(round) = round + StepBack - back
        BY <3>1 DEF IdleInv, LoopInv, InRound, WallAt
      <3>5. QED
        BY <3>1, <3>2, <3>3, <3>4 DEF OnTime
    <2>3. QED
      BY <2>1, <2>2 DEF ListMatchesConnections
  <1>2. QED
    BY <1>1, IdleAlwaysConsistent, PTL
=============================================================================
