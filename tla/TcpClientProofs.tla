--------------------------- MODULE TcpClientProofs ---------------------------
(***************************************************************************)
(* Proofs about TcpClient and its Connector, for every set of descriptors  *)
(* and every pair of retry delays.                                         *)
(***************************************************************************)
EXTENDS TcpClient, SequenceTheorems, TLAPS

\* What a queue of functors or timers holds: something, at most once, nothing of
\* it after something else, only among the first n.
Has(q, f) == \E i \in DOMAIN q : q[i] = f
Once(q, f) == \A i, j \in DOMAIN q : q[i] = f /\ q[j] = f => i = j
Precedes(q, f, g) == \A i, j \in DOMAIN q : q[i] = f /\ q[j] = g => i < j
Within(q, f, n) == \A i \in DOMAIN q : q[i] = f => i <= n

\* A functor of the Connector, or of the connection c, is queued.
Bound(op) == Has(functors, Functor(op, NoFd))
Queued(op, c) == Has(functors, Functor(op, c))

ConnOps == {"destroyed", "forceClose", "shutdown"}
ConnectorFuncs == {Functor(op, NoFd) : op \in ConnectorFunctors}
ConnFuncs == {Functor(op, c) : op \in ConnOps, c \in Fds}
ClientFunctors == ConnectorFuncs \cup ConnFuncs
TimerKinds == {"start", "removeConnector"}

\* What may be left of a connect(), a stop() and a disconnect() of the other thread.
Connect3 == <<"want", "connect_ = true", "queue start">>
Connect2 == <<"connect_ = true", "queue start">>
Connect1 == <<"queue start">>
Stop3 == <<"do not want", "connect_ = false", "queue stop">>
Stop2 == <<"connect_ = false", "queue stop">>
Stop1 == <<"queue stop">>
Disconnect2 == <<"do not want", "shutdown">>
Disconnect1 == <<"shutdown">>
Remains == {<<>>, Connect3, Connect2, Connect1, Stop3, Stop2, Stop1, Disconnect2, Disconnect1}
StartsLater == other \in {Connect3, Connect2, Connect1}
StopsLater == other \in {Stop3, Stop2}

ConnectorTypes ==
    /\ connect_ \in BOOLEAN /\ registered \in BOOLEAN /\ failed \in BOOLEAN
    /\ state_ \in {"kDisconnected", "kConnecting", "kConnected"}
    /\ sockfd_ \in Fds \cup {NoFd} /\ channel_ \in Fds \cup {NoFd} /\ open \subseteq Fds

QueueTypes ==
    /\ functors \in Seq(ClientFunctors)
    /\ left \in Nat /\ left <= Len(functors)

LoopTypes ==
    /\ timers \in Seq(TimerKinds)
    /\ pc \in {"poll", "dispatch", "functors"}
    /\ ready \subseteq Fds \cup {"connector", "timer"} /\ (pc # "dispatch" => ready = {})
    /\ due \in Nat /\ ("timer" \in ready => due <= Len(timers))

ConnStates == {"none", "kConnected", "kDisconnecting", "kDisconnected"}
ClientTypes ==
    /\ client \in BOOLEAN /\ cconnect_ \in BOOLEAN
    /\ connection_ \in Fds \cup {NoFd}
    /\ conn \in [Fds -> ConnStates]
    /\ watched \subseteq Fds /\ eof \subseteq Fds /\ detached \subseteq Fds
    /\ restarting \in BOOLEAN
    /\ other \in Remains
    /\ careless \in BOOLEAN /\ stopped \in BOOLEAN /\ overruled \in BOOLEAN

Types == ConnectorTypes /\ QueueTypes /\ LoopTypes /\ ClientTypes

\* Who has a descriptor, as long as no assertion has failed; the client has a
\* connection, or has lost it and calls restart(), while the Connector is connected.
Attempted == IF state_ = "kConnecting" THEN {sockfd_} ELSE {}
OpenInv ==
    /\ open = {c \in Fds : conn[c] # "none"} \cup Attempted
    /\ state_ = "kConnecting" => sockfd_ \in Fds /\ conn[sockfd_] = "none"
    /\ connection_ # NoFd => conn[connection_] # "none" /\ state_ = "kConnected"
    /\ restarting => connection_ = NoFd /\ state_ = "kConnected"
    /\ ~client => connection_ = NoFd /\ ~restarting /\ other = <<>>
    /\ \A c \in Fds : Queued("forceClose", c) => ~client

\* connect() is still to start the Connector, which has nothing else to do.
Starting == StartsLater \/ Bound("start")
StartInv ==
    /\ Starting => /\ state_ = "kDisconnected" /\ channel_ = NoFd
                   /\ ~Bound("reset") /\ ~Has(timers, "start")
    /\ StartsLater => ~Bound("start")
    /\ Once(functors, Functor("start", NoFd))

\* What state_ of the Connector says about its channel, its functors and timers and
\* the connection of the client.
AttemptInv ==
    /\ registered <=> state_ = "kConnecting"
    /\ state_ = "kConnecting" => channel_ = sockfd_ /\ ~Bound("reset")
    /\ channel_ # NoFd => state_ = "kConnecting" \/ Bound("reset")
    /\ Once(functors, Functor("reset", NoFd))
    /\ Has(timers, "start") => state_ = "kDisconnected"
    /\ Once(timers, "start")
    /\ restarting => ~Bound("reset")
    /\ state_ = "kConnected" =>
          /\ pc = "poll" => ~Bound("reset")
          /\ pc = "functors" => Within(functors, Functor("reset", NoFd), left)

\* poll() reports timers that are set; removeConnector() is one of ~TcpClient.
TimerInv ==
    /\ Has(timers, "removeConnector") => ~client
    /\ "timer" \in ready => 1 <= due

\* After ~TcpClient the Connector does not connect again, and removeConnector()
\* keeps it as long as a functor or an attempt needs it.
GoneInv ==
    ~client =>
        /\ connect_ => state_ # "kConnecting" /\ ~Has(timers, "start") /\ ~Bound("start")
        /\ ~Bound("stop") => state_ # "kConnecting"
        /\ state_ = "kConnecting" => Has(timers, "removeConnector")
        /\ \A op \in ConnectorFunctors : Bound(op) => Has(timers, "removeConnector")

\* A connection is watched until it closes, then connectDestroyed() is queued once;
\* shutdownInLoop() comes before it.
ConnInv(c) ==
    /\ c \in watched => /\ IsOpen(c) /\ ~Queued("destroyed", c)
                        /\ connection_ = c \/ (c \in detached /\ Queued("forceClose", c))
    /\ connection_ = c => c \in watched /\ c \notin detached
    /\ Queued("destroyed", c) => IsOpen(c) /\ Once(functors, Functor("destroyed", c))
    /\ IsOpen(c) => connection_ = c \/ Queued("destroyed", c) \/ Queued("forceClose", c)
    /\ Queued("forceClose", c) => c \in detached
    /\ Queued("shutdown", c) => IsOpen(c)
    /\ Precedes(functors, Functor("shutdown", c), Functor("destroyed", c))
    /\ c \in ready => c \in watched /\ (connection_ = c => ~Bound("reset"))
    /\ c \in detached => conn[c] # "none"

LifeInv == StartInv /\ AttemptInv /\ TimerInv /\ GoneInv /\ \A c \in Fds : ConnInv(c)

\* A stop() whose connect_ = false has not been overruled stays in force until the next
\* connect(), and ends the attempt that is under way.
StopInv ==
    stopped =>
        /\ ~StartsLater
        /\ ~overruled /\ ~StopsLater =>
               ~connect_ /\ (state_ = "kConnecting" => Bound("stop") \/ other = Stop1)

\* KeepsTrying, in terms of what is queued.
TryInv ==
    connect_ /\ state_ = "kDisconnected" /\ ~gaveUp /\ ~failed =>
        restarting \/ other = Connect1 \/ Bound("start") \/ Has(timers, "start")

\* The inductive invariant.  A failed assertion is the last step.
ClientInv ==
    /\ Types
    /\ failed => careless
    /\ ~failed => OpenInv
    /\ ~careless => LifeInv
    /\ StopInv
    /\ TryInv

-----------------------------------------------------------------------------
(* Queues.                                                                 *)

\* A functor is what it does and the descriptor it does it to.
LEMMA FunctorIsPair ==
    /\ \A op, c : Functor(op, c).op = op /\ Functor(op, c).fd = c
    /\ \A op, p, c, d : Functor(op, c) = Functor(p, d) <=> op = p /\ c = d
    /\ \A op \in ConnectorFunctors : Functor(op, NoFd) \in ClientFunctors
    /\ \A op \in ConnOps, c \in Fds : Functor(op, c) \in ClientFunctors
    /\ \A f \in ClientFunctors : \/ \E op \in ConnectorFunctors : f = Functor(op, NoFd)
                                 \/ \E op \in ConnOps, c \in Fds : f = Functor(op, c)
  <1>1. \A op, c : Functor(op, c).op = op /\ Functor(op, c).fd = c
    BY DEF Functor
  <1>2. \A op, p, c, d : Functor(op, c) = Functor(p, d) <=> op = p /\ c = d
    BY DEF Functor
  <1>3. QED
    BY <1>1, <1>2 DEF ClientFunctors, ConnectorFuncs, ConnFuncs

\* queueInLoop(), or runAfter()
LEMMA HasAfterAppend ==
    ASSUME NEW S, NEW q \in Seq(S), NEW f \in S
    PROVE  /\ Append(q, f) \in Seq(S) /\ Len(Append(q, f)) = Len(q) + 1
           /\ \A i \in 1 .. Len(q) : Append(q, f)[i] = q[i]
           /\ \A x : Has(Append(q, f), x) <=> Has(q, x) \/ x = f
           /\ \A x : x # f /\ Once(q, x) => Once(Append(q, f), x)
           /\ ~Has(q, f) => Once(Append(q, f), f)
           /\ \A x, y : x # f /\ Precedes(q, x, y) => Precedes(Append(q, f), x, y)
           /\ \A y : y # f /\ ~Has(q, y) => Precedes(Append(q, f), f, y)
           /\ \A x, n : x # f /\ Within(q, x, n) => Within(Append(q, f), x, n)
  <1>0. PICK n \in Nat : n = Len(q)
    BY LenProperties
  <1>1. /\ Append(q, f) \in Seq(S) /\ Len(Append(q, f)) = n + 1
        /\ \A i \in 1 .. n : Append(q, f)[i] = q[i]
        /\ Append(q, f)[n + 1] = f
    BY <1>0, AppendProperties
  <1>2. DOMAIN q = 1 .. n /\ DOMAIN Append(q, f) = 1 .. n + 1
    BY <1>0, <1>1, LenProperties
  <1>3. /\ n + 1 \in 1 .. n + 1 /\ \A i \in 1 .. n : i \in 1 .. n + 1 /\ i < n + 1
        /\ \A i \in 1 .. n + 1 : i = n + 1 \/ i \in 1 .. n
    OBVIOUS
  <1>4. ASSUME NEW x PROVE Has(Append(q, f), x) <=> Has(q, x) \/ x = f
    BY <1>1, <1>2, <1>3 DEF Has
  <1>5. ASSUME NEW x, x # f, Once(q, x) PROVE Once(Append(q, f), x)
    BY <1>1, <1>2, <1>3, <1>5 DEF Once
  <1>6. ~Has(q, f) => Once(Append(q, f), f)
    BY <1>1, <1>2, <1>3 DEF Once, Has
  <1>7. ASSUME NEW x, NEW y, x # f, Precedes(q, x, y) PROVE Precedes(Append(q, f), x, y)
    BY <1>1, <1>2, <1>3, <1>7 DEF Precedes
  <1>8. ASSUME NEW y, y # f, ~Has(q, y) PROVE Precedes(Append(q, f), f, y)
    BY <1>1, <1>2, <1>3, <1>8 DEF Precedes, Has
  <1>9. ASSUME NEW x, NEW m, x # f, Within(q, x, m) PROVE Within(Append(q, f), x, m)
    BY <1>1, <1>2, <1>3, <1>9 DEF Within
  <1>10. QED
    BY <1>0, <1>1, <1>4, <1>5, <1>6, <1>7, <1>8, <1>9

\* One functor of doPendingFunctors()
LEMMA HasAfterTail ==
    ASSUME NEW S, NEW q \in Seq(S), q # <<>>
    PROVE  /\ Tail(q) \in Seq(S) /\ Len(Tail(q)) = Len(q) - 1 /\ Head(q) \in S
           /\ \A x : Has(q, x) <=> x = Head(q) \/ Has(Tail(q), x)
           /\ \A x : Once(q, x) => Once(Tail(q), x)
           /\ Once(q, Head(q)) => ~Has(Tail(q), Head(q))
           /\ \A x, y : Precedes(q, x, y) => Precedes(Tail(q), x, y)
           /\ \A x : Precedes(q, x, Head(q)) => ~Has(q, x)
           /\ \A x : \A n \in Nat : Within(q, x, n) => Within(Tail(q), x, n - 1)
  <1>1. /\ Head(q) \in S /\ Tail(q) \in Seq(S)
        /\ Len(Tail(q)) = Len(q) - 1 /\ \A i \in 1 .. Len(Tail(q)) : Tail(q)[i] = q[i + 1]
    BY HeadTailProperties
  <1>2. PICK n \in Nat \ {0} : n = Len(q)
    BY EmptySeq, LenProperties
  <1>3. DOMAIN q = 1 .. n /\ DOMAIN Tail(q) = 1 .. n - 1 /\ Head(q) = q[1]
    BY <1>1, <1>2, LenProperties
  <1>4. /\ 1 \in DOMAIN q /\ DOMAIN q \subseteq Nat \ {0} /\ DOMAIN Tail(q) \subseteq Nat
        /\ \A i \in DOMAIN Tail(q) : i + 1 \in DOMAIN q /\ i + 1 # 1 /\ Tail(q)[i] = q[i + 1]
        /\ \A i \in DOMAIN q : i # 1 => i - 1 \in DOMAIN Tail(q) /\ Tail(q)[i - 1] = q[i]
    BY <1>1, <1>2, <1>3
  <1>6. ASSUME NEW x PROVE Has(q, x) <=> x = Head(q) \/ Has(Tail(q), x)
    BY <1>3, <1>4 DEF Has
  <1>7. ASSUME NEW x, Precedes(q, x, Head(q)) PROVE ~Has(q, x)
    <2>1. ASSUME NEW i \in DOMAIN q, q[i] = x PROVE FALSE
      <3>1. i < 1
        BY <1>3, <1>4, <1>7, <2>1 DEF Precedes
      <3>2. QED
        BY <1>4, <3>1
    <2>2. QED
      BY <2>1 DEF Has
  <1>8. ASSUME NEW x, Once(q, x) PROVE Once(Tail(q), x)
    <2>1. ASSUME NEW i \in DOMAIN Tail(q), NEW j \in DOMAIN Tail(q), Tail(q)[i] = x, Tail(q)[j] = x
          PROVE  i = j
      <3>1. i + 1 = j + 1
        BY <1>4, <1>8, <2>1 DEF Once
      <3>2. QED
        BY <1>4, <3>1
    <2>2. QED
      BY <2>1 DEF Once
  <1>9. Once(q, Head(q)) => ~Has(Tail(q), Head(q))
    BY <1>3, <1>4 DEF Once, Has
  <1>10. ASSUME NEW x, NEW y, Precedes(q, x, y) PROVE Precedes(Tail(q), x, y)
    <2>1. ASSUME NEW i \in DOMAIN Tail(q), NEW j \in DOMAIN Tail(q), Tail(q)[i] = x, Tail(q)[j] = y
          PROVE  i < j
      <3>1. i + 1 < j + 1
        BY <1>4, <1>10, <2>1 DEF Precedes
      <3>2. QED
        BY <1>4, <3>1
    <2>2. QED
      BY <2>1 DEF Precedes
  <1>11. ASSUME NEW x, NEW m \in Nat, Within(q, x, m) PROVE Within(Tail(q), x, m - 1)
    <2>1. ASSUME NEW i \in DOMAIN Tail(q), Tail(q)[i] = x PROVE i <= m - 1
      <3>1. i + 1 <= m
        BY <1>4, <1>11, <2>1 DEF Within
      <3>2. QED
        BY <1>4, <3>1
    <2>2. QED
      BY <2>1 DEF Within
  <1>12. QED
    BY <1>1, <1>6, <1>7, <1>8, <1>9, <1>10, <1>11

\* What a step does to the queue of the loop: gone was at its head, new is at its
\* end.
QueueStep(gone, new) ==
    /\ QueueTypes'
    /\ \A x \in gone : Has(functors, x) /\ (Once(functors, x) => ~Has(functors', x))
    /\ \A x \in new : Has(functors', x) /\ (~Has(functors, x) => Once(functors', x))
    /\ \A x : Has(functors', x) => Has(functors, x) \/ x \in new
    /\ \A x : x \notin gone /\ Has(functors, x) => Has(functors', x)
    /\ \A x : x \notin new =>
          /\ Once(functors, x) => Once(functors', x)
          /\ Within(functors, x, left) => Within(functors', x, left')
          /\ \A y : Precedes(functors, x, y) => Precedes(functors', x, y)
    /\ \A x \in new : \A y : y # x /\ ~Has(functors, y) => Precedes(functors', x, y)
    /\ \A x : \A y \in gone : Precedes(functors, x, y) => ~Has(functors, x)

\* The step queues nothing and runs no functor.
LEMMA QueueSame ==
    ASSUME QueueTypes, UNCHANGED <<functors, left>>
    PROVE  QueueStep({}, {})
  BY DEF QueueStep, QueueTypes

\* queueInLoop()
LEMMA QueueAppend ==
    ASSUME QueueTypes, NEW f \in ClientFunctors, functors' = Append(functors, f), left' = left
    PROVE  QueueStep({}, {f})
  <1>1. PICK q \in Seq(ClientFunctors) : q = functors
    BY DEF QueueTypes
  <1>2. /\ Append(q, f) \in Seq(ClientFunctors) /\ Len(Append(q, f)) = Len(q) + 1
        /\ \A x : Has(Append(q, f), x) <=> Has(q, x) \/ x = f
        /\ \A x : x # f /\ Once(q, x) => Once(Append(q, f), x)
        /\ ~Has(q, f) => Once(Append(q, f), f)
        /\ \A x, y : x # f /\ Precedes(q, x, y) => Precedes(Append(q, f), x, y)
        /\ \A y : y # f /\ ~Has(q, y) => Precedes(Append(q, f), f, y)
        /\ \A x, n : x # f /\ Within(q, x, n) => Within(Append(q, f), x, n)
    BY HasAfterAppend
  <1>3. Len(q) \in Nat
    BY LenProperties
  <1>4. QueueTypes'
    BY <1>1, <1>2, <1>3 DEF QueueTypes
  <1>5. QED
    BY <1>1, <1>2, <1>4 DEF QueueStep

\* doPendingFunctors() runs a functor that queues nothing.
LEMMA QueuePop ==
    ASSUME QueueTypes, functors # <<>>, left > 0, functors' = Tail(functors), left' = left - 1
    PROVE  QueueStep({Head(functors)}, {})
  <1>1. PICK q \in Seq(ClientFunctors) : q = functors
    BY DEF QueueTypes
  <1>2. /\ Tail(q) \in Seq(ClientFunctors) /\ Len(Tail(q)) = Len(q) - 1
        /\ \A x : Has(q, x) <=> x = Head(q) \/ Has(Tail(q), x)
        /\ \A x : Once(q, x) => Once(Tail(q), x)
        /\ Once(q, Head(q)) => ~Has(Tail(q), Head(q))
        /\ \A x, y : Precedes(q, x, y) => Precedes(Tail(q), x, y)
        /\ \A x : Precedes(q, x, Head(q)) => ~Has(q, x)
        /\ \A x : \A n \in Nat : Within(q, x, n) => Within(Tail(q), x, n - 1)
    BY <1>1, HasAfterTail
  <1>3. Len(q) \in Nat /\ left \in Nat
    BY LenProperties DEF QueueTypes
  <1>4. QueueTypes'
    BY <1>1, <1>2, <1>3 DEF QueueTypes
  <1>5. QED
    BY <1>1, <1>2, <1>3, <1>4 DEF QueueStep

\* doPendingFunctors() runs a functor that queues another.
LEMMA QueuePopAppend ==
    ASSUME QueueTypes, functors # <<>>, left > 0, left' = left - 1,
           NEW f \in ClientFunctors, f # Head(functors), functors' = Append(Tail(functors), f)
    PROVE  QueueStep({Head(functors)}, {f})
  <1>1. PICK q \in Seq(ClientFunctors) : q = functors
    BY DEF QueueTypes
  <1>2. /\ Tail(q) \in Seq(ClientFunctors) /\ Len(Tail(q)) = Len(q) - 1
        /\ \A x : Has(q, x) <=> x = Head(q) \/ Has(Tail(q), x)
        /\ \A x : Once(q, x) => Once(Tail(q), x)
        /\ Once(q, Head(q)) => ~Has(Tail(q), Head(q))
        /\ \A x, y : Precedes(q, x, y) => Precedes(Tail(q), x, y)
        /\ \A x : Precedes(q, x, Head(q)) => ~Has(q, x)
        /\ \A x : \A n \in Nat : Within(q, x, n) => Within(Tail(q), x, n - 1)
    BY <1>1, HasAfterTail
  <1>3. Len(q) \in Nat /\ left \in Nat
    BY LenProperties DEF QueueTypes
  <1>4. PICK r \in Seq(ClientFunctors) : r = Tail(q)
    BY <1>2
  <1>5. /\ Append(r, f) \in Seq(ClientFunctors) /\ Len(Append(r, f)) = Len(r) + 1
        /\ \A x : Has(Append(r, f), x) <=> Has(r, x) \/ x = f
        /\ \A x : x # f /\ Once(r, x) => Once(Append(r, f), x)
        /\ ~Has(r, f) => Once(Append(r, f), f)
        /\ \A x, y : x # f /\ Precedes(r, x, y) => Precedes(Append(r, f), x, y)
        /\ \A y : y # f /\ ~Has(r, y) => Precedes(Append(r, f), f, y)
        /\ \A x, n : x # f /\ Within(r, x, n) => Within(Append(r, f), x, n)
    BY HasAfterAppend
  <1>6. QueueTypes'
    BY <1>1, <1>2, <1>3, <1>4, <1>5 DEF QueueTypes
  <1>7. PICK s : s = functors'
    OBVIOUS
  <1>8. s = Append(r, f) /\ left' = left - 1 /\ f # Head(q)
    BY <1>1, <1>4, <1>7
  <1>9. /\ \A x : x # f /\ Within(q, x, left) => Within(s, x, left')
        /\ \A x, y : x # f /\ Precedes(q, x, y) => Precedes(s, x, y)
        /\ \A x : x # f /\ Once(q, x) => Once(s, x)
    BY <1>2, <1>3, <1>4, <1>5, <1>8
  <1>10. /\ \A x : Has(s, x) => Has(q, x) \/ x = f
         /\ Has(s, f) /\ (~Has(q, f) => Once(s, f))
         /\ \A x : x # Head(q) /\ Has(q, x) => Has(s, x)
         /\ Has(q, Head(q)) /\ (Once(q, Head(q)) => ~Has(s, Head(q)))
         /\ \A y : y # f /\ ~Has(q, y) => Precedes(s, f, y)
    BY <1>2, <1>4, <1>5, <1>8
  <1>11. QED
    BY <1>1, <1>2, <1>6, <1>7, <1>9, <1>10 DEF QueueStep

\* What TcpClient asks about the queue, in terms of Bound and Queued.
LEMMA QueueMeaning ==
    functors \in Seq(ClientFunctors) =>
        /\ \A op \in ConnectorFunctors : Bound(op) <=> \E i \in DOMAIN functors : functors[i].op = op
        /\ ConnectorIsBound <=> \E op \in ConnectorFunctors : Bound(op)
        /\ IsQueued({"reset"}) <=> Bound("reset")
        /\ IsQueued({"start", "reset"}) <=> Bound("start") \/ Bound("reset")
        /\ \A c \in Fds : Held(c) <=> \/ connection_ = c \/ cb.fd = c
                                      \/ Queued("destroyed", c) \/ Queued("forceClose", c)
        /\ connection_ \in Fds => (Unique <=> /\ cb.fd # connection_
                                              /\ ~Queued("destroyed", connection_)
                                              /\ ~Queued("forceClose", connection_))
        /\ \A i \in DOMAIN functors : functors[i].op = "shutdown" =>
              functors[i].fd \in Fds /\ Queued("shutdown", functors[i].fd)
  <1> SUFFICES ASSUME functors \in Seq(ClientFunctors)
               PROVE  /\ \A op \in ConnectorFunctors : Bound(op) <=> \E i \in DOMAIN functors : functors[i].op = op
                      /\ ConnectorIsBound <=> \E op \in ConnectorFunctors : Bound(op)
                      /\ IsQueued({"reset"}) <=> Bound("reset")
                      /\ IsQueued({"start", "reset"}) <=> Bound("start") \/ Bound("reset")
                      /\ \A c \in Fds : Held(c) <=> \/ connection_ = c \/ cb.fd = c
                                                    \/ Queued("destroyed", c) \/ Queued("forceClose", c)
                      /\ connection_ \in Fds => (Unique <=> /\ cb.fd # connection_
                                                            /\ ~Queued("destroyed", connection_)
                                                            /\ ~Queued("forceClose", connection_))
                      /\ \A i \in DOMAIN functors : functors[i].op = "shutdown" =>
                            functors[i].fd \in Fds /\ Queued("shutdown", functors[i].fd)
    OBVIOUS
  <1>1. \A i \in DOMAIN functors : functors[i] \in ClientFunctors
    BY ElementOfSeq, LenProperties
  <1>2. ASSUME NEW i \in DOMAIN functors
        PROVE  /\ functors[i] = Functor(functors[i].op, functors[i].fd)
               /\ \/ functors[i].op \in ConnectorFunctors /\ functors[i].fd = NoFd
                  \/ functors[i].op \in ConnOps /\ functors[i].fd \in Fds
    BY <1>1, FunctorIsPair
  <1>3. ConnectorFunctors \cap ConnOps = {} /\ OwningFunctors \subseteq ConnOps
    BY DEF ConnectorFunctors, ConnOps, OwningFunctors
  <1>4. \A op \in ConnectorFunctors : Bound(op) <=> \E i \in DOMAIN functors : functors[i].op = op
    BY <1>2, <1>3, FunctorIsPair DEF Bound, Has
  <1>5. ConnectorIsBound <=> \E op \in ConnectorFunctors : Bound(op)
    BY <1>4 DEF ConnectorIsBound, IsQueued
  <1>6. ASSUME NEW c \in Fds
        PROVE  (\E i \in DOMAIN functors : functors[i].fd = c /\ functors[i].op \in OwningFunctors)
               <=> Queued("destroyed", c) \/ Queued("forceClose", c)
    BY <1>2, FunctorIsPair DEF Queued, Has, OwningFunctors
  <1>7. \A i \in DOMAIN functors : functors[i].op = "shutdown" =>
              functors[i].fd \in Fds /\ Queued("shutdown", functors[i].fd)
    BY <1>2 DEF Queued, Has, ConnectorFunctors
  <1>8. /\ IsQueued({"reset"}) <=> Bound("reset")
        /\ IsQueued({"start", "reset"}) <=> Bound("start") \/ Bound("reset")
    BY <1>4 DEF IsQueued, ConnectorFunctors
  <1>9. QED
    BY <1>4, <1>5, <1>6, <1>7, <1>8 DEF Held, Unique

\* A step that does not touch the functors of the Connector, or those of c.
SameConnectorQueue ==
    /\ \A op \in ConnectorFunctors : Bound(op)' <=> Bound(op)
    /\ Once(functors, Functor("start", NoFd)) => Once(functors', Functor("start", NoFd))
    /\ Once(functors, Functor("reset", NoFd)) => Once(functors', Functor("reset", NoFd))
    /\ Within(functors, Functor("reset", NoFd), left) => Within(functors', Functor("reset", NoFd), left')
SameConnQueue(c) ==
    /\ \A op \in ConnOps : Queued(op, c)' <=> Queued(op, c)
    /\ Once(functors, Functor("destroyed", c)) => Once(functors', Functor("destroyed", c))
    /\ Precedes(functors, Functor("shutdown", c), Functor("destroyed", c)) =>
           Precedes(functors', Functor("shutdown", c), Functor("destroyed", c))

\* Functors of connections leave those of the Connector alone.
LEMMA ConnectorQueueKept ==
    ASSUME NEW gone, NEW new, QueueStep(gone, new), \A x \in gone \cup new : x.fd # NoFd
    PROVE  SameConnectorQueue
  <1>1. \A op : Functor(op, NoFd) \notin gone /\ Functor(op, NoFd) \notin new
    BY FunctorIsPair
  <1>2. QED
    BY <1>1 DEF QueueStep, SameConnectorQueue, Bound

\* Functors of the Connector, and of other connections, leave those of c alone.
LEMMA ConnQueueKept ==
    ASSUME NEW c, NEW gone, NEW new, QueueStep(gone, new), \A x \in gone \cup new : x.fd # c
    PROVE  SameConnQueue(c)
  <1>1. \A op : Functor(op, c) \notin gone /\ Functor(op, c) \notin new
    BY FunctorIsPair
  <1>2. QED
    BY <1>1 DEF QueueStep, SameConnQueue, Queued

-----------------------------------------------------------------------------
(* What a step leaves alone.                                               *)

\* The Connector, in a step of the connections: handleClose() may have a restart()
\* follow.
LEMMA ConnectorUntouched ==
    ASSUME StartInv, AttemptInv, TimerInv, GoneInv, SameConnectorQueue,
           UNCHANGED <<connect_, state_, sockfd_, channel_, registered, timers, due, pc, client, stopped, other>>,
           "timer" \in ready' => "timer" \in ready,
           restarting' => restarting \/ ~Bound("reset")
    PROVE  StartInv' /\ AttemptInv' /\ TimerInv' /\ GoneInv'
  <1>1. /\ Bound("start")' <=> Bound("start")
        /\ Bound("stop")' <=> Bound("stop")
        /\ Bound("reset")' <=> Bound("reset")
    BY DEF SameConnectorQueue, ConnectorFunctors
  <1>2. StartInv'
    <2>1. Starting' <=> Starting
      BY <1>1 DEF Starting, StartsLater
    <2>2. QED
      BY <1>1, <2>1 DEF StartInv, SameConnectorQueue, StartsLater
  <1>3. AttemptInv'
    BY <1>1 DEF AttemptInv, SameConnectorQueue
  <1>4. TimerInv'
    BY <1>1 DEF TimerInv, SameConnectorQueue
  <1>5. GoneInv'
    BY <1>1 DEF GoneInv, SameConnectorQueue
  <1>6. QED
    BY <1>2, <1>3, <1>4, <1>5

\* What stop() and connect() promise.
LEMMA PromisesUntouched ==
    ASSUME StopInv, TryInv, failed = FALSE, SameConnectorQueue,
           UNCHANGED <<connect_, state_, gaveUp, timers, stopped, other, overruled>>,
           restarting => restarting'
    PROVE  StopInv' /\ TryInv'
  <1>1. /\ Bound("start")' <=> Bound("start")
        /\ Bound("stop")' <=> Bound("stop")
    BY DEF SameConnectorQueue, ConnectorFunctors
  <1>2. StopInv'
    BY <1>1 DEF StopInv, StartsLater, StopsLater
  <1>3. TryInv'
    BY <1>1 DEF TryInv
  <1>4. QED
    BY <1>2, <1>3

\* A connection, in a step of another one or of the Connector.
LEMMA ConnUntouched ==
    ASSUME NEW c \in Fds, ConnInv(c), SameConnQueue(c), conn'[c] = conn[c],
           c \in watched' <=> c \in watched, c \in detached' <=> c \in detached,
           connection_' = c <=> connection_ = c, c \in ready' => c \in ready,
           connection_ = c /\ c \in ready' /\ Bound("reset")' => Bound("reset")
    PROVE  ConnInv(c)'
  <1>1. /\ Queued("destroyed", c)' <=> Queued("destroyed", c)
        /\ Queued("forceClose", c)' <=> Queued("forceClose", c)
        /\ Queued("shutdown", c)' <=> Queued("shutdown", c)
    BY DEF SameConnQueue, ConnOps
  <1>2. IsOpen(c)' <=> IsOpen(c)
    BY DEF IsOpen
  <1>3. QED
    BY <1>1, <1>2 DEF ConnInv, SameConnQueue

\* A call of the other thread goes on with the next of its steps.
LEMMA TailOfOne == ASSUME NEW a PROVE Tail(<<a>>) = <<>> /\ Head(<<a>>) = a
  OBVIOUS
\* The same, for two steps.
LEMMA TailOfTwo == ASSUME NEW a, NEW b PROVE Tail(<<a, b>>) = <<b>> /\ Head(<<a, b>>) = a
  OBVIOUS
\* The same, for three steps.
LEMMA TailOfThree ==
    ASSUME NEW a, NEW b, NEW c PROVE Tail(<<a, b, c>>) = <<b, c>> /\ Head(<<a, b, c>>) = a
  OBVIOUS

\* What the other thread has left to do.
LEMMA OtherRemains ==
    /\ <<>> \notin {Connect3, Connect2, Connect1, Stop3, Stop2, Stop1, Disconnect2, Disconnect1}
    /\ Head(Connect3) = "want" /\ Tail(Connect3) = Connect2
    /\ Head(Connect2) = "connect_ = true" /\ Tail(Connect2) = Connect1
    /\ Head(Connect1) = "queue start" /\ Tail(Connect1) = <<>>
    /\ Head(Stop3) = "do not want" /\ Tail(Stop3) = Stop2
    /\ Head(Stop2) = "connect_ = false" /\ Tail(Stop2) = Stop1
    /\ Head(Stop1) = "queue stop" /\ Tail(Stop1) = <<>>
    /\ Head(Disconnect2) = "do not want" /\ Tail(Disconnect2) = Disconnect1
    /\ Head(Disconnect1) = "shutdown" /\ Tail(Disconnect1) = <<>>
    /\ {Stop3, Stop2, Stop1, Disconnect2, Disconnect1} \cap {Connect3, Connect2, Connect1} = {}
    /\ {<<>>, Disconnect2, Disconnect1, Stop1} \cap {Stop3, Stop2} = {}
    /\ Connect1 # Connect2 /\ Connect1 # Connect3
    /\ StepsOf("connect") = Connect3 /\ StepsOf("stop") = Stop3 /\ StepsOf("disconnect") = Disconnect2
  <1> USE DEF Connect3, Connect2, Connect1, Stop3, Stop2, Stop1, Disconnect2, Disconnect1
  <1>1. <<>> \notin {Connect3, Connect2, Connect1, Stop3, Stop2, Stop1, Disconnect2, Disconnect1}
    OBVIOUS
  <1>2. Head(Connect3) = "want" /\ Tail(Connect3) = Connect2
    BY TailOfThree
  <1>3. Head(Connect2) = "connect_ = true" /\ Tail(Connect2) = Connect1
    BY TailOfTwo
  <1>4. Head(Connect1) = "queue start" /\ Tail(Connect1) = <<>>
    BY TailOfOne
  <1>5. Head(Stop3) = "do not want" /\ Tail(Stop3) = Stop2
    BY TailOfThree
  <1>6. Head(Stop2) = "connect_ = false" /\ Tail(Stop2) = Stop1
    BY TailOfTwo
  <1>7. Head(Stop1) = "queue stop" /\ Tail(Stop1) = <<>>
    BY TailOfOne
  <1>8. Head(Disconnect2) = "do not want" /\ Tail(Disconnect2) = Disconnect1
    BY TailOfTwo
  <1>9. Head(Disconnect1) = "shutdown" /\ Tail(Disconnect1) = <<>>
    BY TailOfOne
  <1>10. {Stop3, Stop2, Stop1, Disconnect2, Disconnect1} \cap {Connect3, Connect2, Connect1} = {}
    OBVIOUS
  <1>11. {<<>>, Disconnect2, Disconnect1, Stop1} \cap {Stop3, Stop2} = {}
    OBVIOUS
  <1>12. Connect1 # Connect2 /\ Connect1 # Connect3
    OBVIOUS
  <1>13. StepsOf("connect") = Connect3 /\ StepsOf("stop") = Stop3 /\ StepsOf("disconnect") = Disconnect2
    BY DEF StepsOf
  <1>14. QED
    BY <1>1, <1>2, <1>3, <1>4, <1>5, <1>6, <1>7, <1>8, <1>9, <1>10, <1>11, <1>12, <1>13

-----------------------------------------------------------------------------
(* Steps of the connections.                                               *)

\* What a state that has not failed is known to be.
LEMMA LivingState ==
    ASSUME ClientInv, failed = FALSE
    PROVE  /\ ConnectorTypes /\ QueueTypes /\ LoopTypes /\ ClientTypes /\ OpenInv /\ StopInv /\ TryInv
           /\ ~careless => /\ StartInv /\ AttemptInv /\ TimerInv /\ GoneInv
                           /\ \A c \in Fds : ConnInv(c)
  BY DEF ClientInv, Types, LifeInv

\* Nothing happens but that a callback begins, a peer closes or a channel has been
\* handled.
LEMMA QuietStep ==
    ASSUME ClientInv, failed = FALSE,
           UNCHANGED <<connectorVars, open, functors, timers, pc, left, due, failed, clientVars, conn,
                       watched, detached, restarting, other, historyVars>>,
           ready' \subseteq ready, eof' \subseteq Fds
    PROVE  ClientInv'
  <1>0. /\ ConnectorTypes /\ QueueTypes /\ LoopTypes /\ ClientTypes /\ OpenInv /\ StopInv /\ TryInv
        /\ ~careless => /\ StartInv /\ AttemptInv /\ TimerInv /\ GoneInv
                        /\ \A c \in Fds : ConnInv(c)
    BY LivingState
  <1>1. /\ UNCHANGED <<connect_, state_, sockfd_, channel_, registered, gaveUp, open, functors, timers, pc, left,
                       due, failed, client, cconnect_, connection_, conn, watched, detached, restarting, other,
                       stopped, overruled, careless>>
    BY DEF connectorVars, clientVars, historyVars
  <1>2. Types'
    BY <1>0, <1>1 DEF Types, ConnectorTypes, QueueTypes, LoopTypes, ClientTypes
  <1>3. OpenInv' /\ failed' = FALSE
    BY <1>0, <1>1 DEF OpenInv, Attempted, Queued
  <1>4. QueueStep({}, {})
    BY <1>0, <1>1, QueueSame
  <1>5. SameConnectorQueue /\ \A c \in Fds : SameConnQueue(c)
    BY <1>4, ConnectorQueueKept, ConnQueueKept
  <1>6. StopInv' /\ TryInv'
    <2>1. restarting => restarting'
      BY <1>1
    <2>2. QED
      BY <1>0, <1>1, <1>5, <2>1, PromisesUntouched
  <1>7. ASSUME ~careless PROVE LifeInv'
    <2>1. StartInv' /\ AttemptInv' /\ TimerInv' /\ GoneInv'
      <3>1. restarting' => restarting
        BY <1>1
      <3>2. QED
        BY <1>0, <1>1, <1>5, <1>7, <3>1, ConnectorUntouched
    <2>2. ASSUME NEW c \in Fds PROVE ConnInv(c)'
      <3>1. Bound("reset")' => Bound("reset")
        BY <1>5 DEF SameConnectorQueue, ConnectorFunctors
      <3>2. QED
        BY <1>0, <1>1, <1>5, <1>7, <3>1, ConnUntouched
    <2>3. QED
      BY <2>1, <2>2 DEF LifeInv
  <1>8. QED
    BY <1>1, <1>2, <1>3, <1>6, <1>7 DEF ClientInv

\* The last TcpConnectionPtr of some connections is gone: only of those whose
\* connectDestroyed() has run.  A functor of another connection, or one that found
\* its connection closed, may have been the one that had it.
LEMMA ReleaseStep ==
    ASSUME ClientInv, failed = FALSE, Release, QueueTypes', SameConnectorQueue,
           UNCHANGED <<connectorVars, timers, pc, due, ready, clientVars, restarting, other, historyVars>>,
           \A c \in Fds :
              /\ Queued("destroyed", c)' <=> Queued("destroyed", c)
              /\ Queued("forceClose", c)' => Queued("forceClose", c)
              /\ IsOpen(c) /\ Queued("forceClose", c) => Queued("forceClose", c)'
              /\ Queued("shutdown", c)' => Queued("shutdown", c)
              /\ Once(functors, Functor("destroyed", c)) => Once(functors', Functor("destroyed", c))
              /\ Precedes(functors, Functor("shutdown", c), Functor("destroyed", c)) =>
                     Precedes(functors', Functor("shutdown", c), Functor("destroyed", c))
    PROVE  ClientInv'
  <1> DEFINE Dead(c) == conn[c] # "none" /\ ~(Held(c)')
  <1>0. /\ ConnectorTypes /\ QueueTypes /\ LoopTypes /\ ClientTypes /\ OpenInv /\ StopInv /\ TryInv
        /\ ~careless => /\ StartInv /\ AttemptInv /\ TimerInv /\ GoneInv
                        /\ \A c \in Fds : ConnInv(c)
    BY LivingState
  <1>1. /\ UNCHANGED <<connect_, state_, sockfd_, channel_, registered, gaveUp, timers, pc, due, ready, client,
                       cconnect_, connection_, restarting, other, stopped, overruled, careless>>
    BY DEF connectorVars, clientVars, historyVars
  <1>2. /\ conn' \in [Fds -> ConnStates]
        /\ \A c \in Fds : conn'[c] = IF Dead(c) THEN "none" ELSE conn[c]
        /\ open' = {c \in open : ~(c \in Fds /\ Dead(c))}
        /\ \A c \in Fds : c \in watched' <=> c \in watched /\ ~Dead(c)
        /\ \A c \in Fds : c \in detached' <=> c \in detached /\ ~Dead(c)
        /\ watched' \subseteq watched /\ eof' \subseteq eof /\ detached' \subseteq detached
        /\ failed' = (\E c \in Fds : Dead(c) /\ conn[c] # "kDisconnected")
    BY <1>0 DEF Release, ClientTypes, ConnStates
  <1>3. \A c \in Fds : Held(c)' <=> \/ connection_ = c \/ cb'.fd = c
                                    \/ Queued("destroyed", c)' \/ Queued("forceClose", c)'
    <2>1. functors' \in Seq(ClientFunctors)
      BY DEF QueueTypes
    <2>2. (functors \in Seq(ClientFunctors) =>
               \A c \in Fds : Held(c) <=> \/ connection_ = c \/ cb.fd = c
                                          \/ Queued("destroyed", c) \/ Queued("forceClose", c))'
      <3>1. functors \in Seq(ClientFunctors) =>
               \A c \in Fds : Held(c) <=> \/ connection_ = c \/ cb.fd = c
                                          \/ Queued("destroyed", c) \/ Queued("forceClose", c)
        BY QueueMeaning
      <3>2. QED
        BY QueueMeaning, PTL
    <2>3. QED
      BY <1>1, <2>1, <2>2
  <1>4. \A c \in Fds : Dead(c) => /\ conn[c] # "none" /\ connection_ # c /\ ~Queued("destroyed", c)
                                  /\ ~Queued("forceClose", c)' /\ (Queued("forceClose", c) => ~IsOpen(c))
    BY <1>3
  <1> HIDE DEF Dead
  <1>5. Types'
    <2>1. open' \subseteq open /\ failed' \in BOOLEAN
      BY <1>2
    <2>2. QED
      BY <1>0, <1>1, <1>2, <2>1 DEF Types, ConnectorTypes, LoopTypes, ClientTypes
  <1>6. OpenInv'
    <2>1. \A c \in Fds : conn'[c] # "none" <=> conn[c] # "none" /\ ~Dead(c)
      BY <1>2
    <2>2. state_ = "kConnecting" => sockfd_ \in Fds /\ conn'[sockfd_] = "none" /\ ~Dead(sockfd_)
      BY <1>0, <1>2, <1>4 DEF OpenInv
    <2>3. Attempted' = Attempted
      BY <1>1 DEF Attempted
    <2>4. open' = {c \in Fds : conn'[c] # "none"} \cup Attempted'
      BY <1>0, <1>2, <2>1, <2>2, <2>3 DEF OpenInv, Attempted
    <2>5. connection_ # NoFd => connection_ \in Fds /\ conn'[connection_] # "none"
      BY <1>0, <1>4, <2>1 DEF OpenInv, ClientTypes
    <2>6. QED
      BY <1>0, <1>1, <2>2, <2>4, <2>5 DEF OpenInv
  <1>7. StopInv' /\ TryInv'
    <2>1. restarting => restarting'
      BY <1>1
    <2>2. QED
      BY <1>0, <1>1, <2>1, PromisesUntouched
  <1>8. ASSUME ~careless PROVE LifeInv' /\ failed' = FALSE
    <2>0. \A c \in Fds : Dead(c) => ~IsOpen(c) /\ c \notin watched /\ ~Queued("shutdown", c) /\ c \notin ready
      BY <1>0, <1>4, <1>8 DEF ConnInv
    <2>1. failed' = FALSE
      BY <1>0, <1>2, <1>4, <2>0 DEF IsOpen, ClientTypes, ConnStates
    <2>2. StartInv' /\ AttemptInv' /\ TimerInv' /\ GoneInv'
      <3>1. restarting' => restarting
        BY <1>1
      <3>2. QED
        BY <1>0, <1>1, <1>8, <3>1, ConnectorUntouched
    <2>3. ASSUME NEW c \in Fds PROVE ConnInv(c)'
      <3>1. ConnInv(c) /\ (Bound("reset")' => Bound("reset"))
        BY <1>0, <1>8 DEF SameConnectorQueue, ConnectorFunctors
      <3>2. CASE Dead(c)
        <4>1. /\ conn'[c] = "none" /\ c \notin watched' /\ c \notin detached' /\ connection_' # c
              /\ ~Queued("destroyed", c)' /\ ~Queued("forceClose", c)' /\ ~Queued("shutdown", c)'
              /\ c \notin ready'
          BY <1>1, <1>2, <1>4, <2>0, <3>2
        <4>2. QED
          BY <3>1, <4>1 DEF ConnInv, IsOpen
      <3>3. CASE ~Dead(c)
        <4>1. /\ conn'[c] = conn[c] /\ (c \in watched' <=> c \in watched)
              /\ (c \in detached' <=> c \in detached) /\ connection_' = connection_ /\ ready' = ready
          BY <1>1, <1>2, <3>3
        <4>2. IsOpen(c)' <=> IsOpen(c)
          BY <4>1 DEF IsOpen
        <4>3. QED
          BY <3>1, <4>1, <4>2 DEF ConnInv
      <3>4. QED
        BY <3>2, <3>3
    <2>4. QED
      BY <2>1, <2>2, <2>3 DEF LifeInv
  <1>9. failed' \in BOOLEAN
    BY <1>2
  <1>10. QED
    BY <1>1, <1>5, <1>6, <1>7, <1>8, <1>9 DEF ClientInv

\* handleClose(), by the peer's close or by forceCloseInLoop(): the client lets go
\* of the connection, if it still has it, and connectDestroyed() is queued.
LEMMA CloseStep ==
    ASSUME ClientInv, failed = FALSE, restarting = FALSE, NEW c \in Fds, NEW gone,
           QueueStep(gone, {Functor("destroyed", c)}),
           \/ gone = {} /\ c \in ready
           \/ gone = {Functor("forceClose", c)},
           UNCHANGED <<connectorVars, open, timers, pc, due, client, cconnect_, conn, eof, detached, other,
                       stopped, overruled>>,
           ready' \subseteq ready \ {c}, watched' = watched \ {c},
           IF c \in detached
           THEN failed' = ~IsOpen(c) /\ UNCHANGED <<connection_, restarting>>
           ELSE /\ failed' = (~IsOpen(c) \/ ~client \/ connection_ # c)
                /\ connection_' = NoFd /\ restarting' = Reconnects,
           careless' \in BOOLEAN, ~careless' => ~careless /\ c \in watched
    PROVE  ClientInv'
  <1>0. /\ ConnectorTypes /\ QueueTypes /\ LoopTypes /\ ClientTypes /\ OpenInv /\ StopInv /\ TryInv
        /\ ~careless => /\ StartInv /\ AttemptInv /\ TimerInv /\ GoneInv
                        /\ \A d \in Fds : ConnInv(d)
    BY LivingState
  <1>1. UNCHANGED <<connect_, state_, sockfd_, channel_, registered, gaveUp, open, timers, pc, due, client,
                    cconnect_, conn, eof, detached, other, stopped, overruled>>
    BY DEF connectorVars
  <1>2. /\ failed' \in BOOLEAN /\ restarting' \in BOOLEAN
        /\ connection_' = connection_ \/ connection_' = NoFd
    BY DEF Reconnects
  <1>3. Types'
    <2>1. QueueTypes'
      BY DEF QueueStep
    <2>2. QED
      BY <1>0, <1>1, <1>2, <2>1 DEF Types, ConnectorTypes, LoopTypes, ClientTypes
  <1>4. \A x \in gone \cup {Functor("destroyed", c)} : x.fd = c
    BY FunctorIsPair
  <1>5. SameConnectorQueue /\ \A d \in Fds \ {c} : SameConnQueue(d)
    <2>1. c # NoFd
      BY ConnectorAssumption
    <2>2. SameConnectorQueue
      BY <1>4, <2>1, ConnectorQueueKept
    <2>3. ASSUME NEW d \in Fds \ {c} PROVE SameConnQueue(d)
      BY <1>4, ConnQueueKept
    <2>4. QED
      BY <2>2, <2>3
  <1>6. /\ \A d \in Fds : Queued("forceClose", d)' => Queued("forceClose", d)
        /\ Queued("shutdown", c)' => Queued("shutdown", c)
        /\ Queued("destroyed", c)'
        /\ ~Queued("destroyed", c) => Once(functors', Functor("destroyed", c))
        /\ Precedes(functors, Functor("shutdown", c), Functor("destroyed", c)) =>
              Precedes(functors', Functor("shutdown", c), Functor("destroyed", c))
        /\ gone = {} \/ Queued("forceClose", c)
    <2>1. \A d : Functor("forceClose", d) \notin {Functor("destroyed", c)}
      BY FunctorIsPair
    <2>2. Functor("shutdown", c) \notin {Functor("destroyed", c)}
      BY FunctorIsPair
    <2>3. QED
      BY <2>1, <2>2 DEF QueueStep, Queued
  <1>7. StopInv' /\ TryInv'
    BY <1>0, <1>1, <1>5, PromisesUntouched
  <1>8. ~failed' => OpenInv'
    <2>1. Attempted' = Attempted
      BY <1>1 DEF Attempted
    <2>2. ~failed' /\ ~client => connection_' = NoFd /\ restarting' = FALSE
      BY <1>0 DEF OpenInv
    <2>3. /\ connection_' # NoFd => connection_' = connection_
          /\ ~failed' /\ restarting' => connection_' = NoFd /\ connection_ = c /\ c # NoFd
      BY <1>2, ConnectorAssumption
    <2>4. QED
      BY <1>0, <1>1, <1>6, <2>1, <2>2, <2>3 DEF OpenInv
  <1>9. ASSUME ~careless' PROVE LifeInv' /\ failed' = FALSE
    <2>0. /\ StartInv /\ AttemptInv /\ TimerInv /\ GoneInv
          /\ \A d \in Fds : ConnInv(d)
      BY <1>0, <1>9
    <2>1. /\ IsOpen(c) /\ ~Queued("destroyed", c)
          /\ connection_ = c \/ c \in detached
          /\ connection_ = c => c \notin detached
      BY <1>9, <2>0 DEF ConnInv
    <2>2. connection_ = c => client /\ c # NoFd
      BY <1>0, ConnectorAssumption DEF OpenInv
    <2>3. failed' = FALSE
      BY <2>1, <2>2
    <2>5. restarting' => ~Bound("reset")
      <3>1. CASE c \in detached
        BY <3>1
      <3>2. CASE c \notin detached
        <4>1. connection_ = c /\ connection_' = NoFd
          BY <2>1, <3>2
        <4>2. gone = {}
          BY <1>6, <2>0, <3>2 DEF ConnInv
        <4>3. c \in ready
          BY <4>2
        <4>4. ~Bound("reset")
          BY <2>0, <4>1, <4>3 DEF ConnInv
        <4>5. QED
          BY <4>4
      <3>3. QED
        BY <3>1, <3>2
    <2>6. StartInv' /\ AttemptInv' /\ TimerInv' /\ GoneInv'
      BY <1>1, <1>5, <2>0, <2>5, ConnectorUntouched
    <2>7. ConnInv(c)'
      <3>1. IsOpen(c)' /\ c \notin watched' /\ connection_' # c /\ c \notin ready'
        BY <1>1, <2>1, ConnectorAssumption DEF IsOpen
      <3>2. QED
        BY <1>1, <1>6, <2>0, <2>1, <3>1 DEF ConnInv
    <2>8. ASSUME NEW d \in Fds \ {c} PROVE ConnInv(d)'
      <3>1. Bound("reset")' => Bound("reset")
        BY <1>5 DEF SameConnectorQueue, ConnectorFunctors
      <3>2. connection_' = d <=> connection_ = d
        BY <2>1, ConnectorAssumption
      <3>3. QED
        BY <1>1, <1>5, <2>0, <3>1, <3>2, ConnUntouched
    <2>9. QED
      BY <2>3, <2>6, <2>7, <2>8 DEF LifeInv
  <1>10. QED
    BY <1>2, <1>3, <1>7, <1>8, <1>9 DEF ClientInv

\* connectDestroyed(): the functor that was queued once
LEMMA DestroyedStep ==
    ASSUME ClientInv, failed = FALSE, NEW c \in Fds, QueueStep({Functor("destroyed", c)}, {}),
           UNCHANGED <<connectorVars, open, timers, pc, due, ready, clientVars, eof, detached, restarting, other,
                       historyVars>>,
           ready = {}, failed' = ~IsOpen(c), watched' = watched \ {c},
           conn' = [conn EXCEPT ![c] = "kDisconnected"]
    PROVE  ClientInv'
  <1>0. /\ ConnectorTypes /\ QueueTypes /\ LoopTypes /\ ClientTypes /\ OpenInv /\ StopInv /\ TryInv
        /\ ~careless => /\ StartInv /\ AttemptInv /\ TimerInv /\ GoneInv
                        /\ \A d \in Fds : ConnInv(d)
    BY LivingState
  <1>1. UNCHANGED <<connect_, state_, sockfd_, channel_, registered, gaveUp, open, timers, pc, due, ready, client,
                    cconnect_, connection_, eof, detached, restarting, other, stopped, overruled, careless>>
    BY DEF connectorVars, clientVars, historyVars
  <1>2. /\ conn' \in [Fds -> ConnStates] /\ conn'[c] = "kDisconnected"
        /\ \A d \in Fds \ {c} : conn'[d] = conn[d]
    BY <1>0 DEF ClientTypes, ConnStates
  <1>3. Types'
    <2>1. QueueTypes' /\ failed' \in BOOLEAN
      BY DEF QueueStep
    <2>2. QED
      BY <1>0, <1>1, <1>2, <2>1 DEF Types, ConnectorTypes, LoopTypes, ClientTypes
  <1>4. SameConnectorQueue /\ \A d \in Fds \ {c} : SameConnQueue(d)
    <2>1. c # NoFd /\ \A x \in {Functor("destroyed", c)} \cup {} : x.fd = c
      BY ConnectorAssumption, FunctorIsPair
    <2>2. SameConnectorQueue
      BY <2>1, ConnectorQueueKept
    <2>3. ASSUME NEW d \in Fds \ {c} PROVE SameConnQueue(d)
      BY <2>1, ConnQueueKept
    <2>4. QED
      BY <2>2, <2>3
  <1>5. /\ \A op, d : Queued(op, d)' => Queued(op, d)
        /\ Queued("destroyed", c)
        /\ Once(functors, Functor("destroyed", c)) => ~Queued("destroyed", c)'
        /\ Precedes(functors, Functor("shutdown", c), Functor("destroyed", c)) =>
              /\ ~Queued("shutdown", c)
              /\ Precedes(functors', Functor("shutdown", c), Functor("destroyed", c))
    BY DEF QueueStep, Queued
  <1>6. StopInv' /\ TryInv'
    <2>1. restarting => restarting'
      BY <1>1
    <2>2. QED
      BY <1>0, <1>1, <1>4, <2>1, PromisesUntouched
  <1>7. ~failed' => OpenInv'
    <2>1. SUFFICES ASSUME IsOpen(c) PROVE OpenInv'
      OBVIOUS
    <2>2. Attempted' = Attempted
      BY <1>1 DEF Attempted
    <2>3. \A d \in Fds : conn'[d] = "none" <=> conn[d] = "none"
      BY <1>2, <2>1 DEF IsOpen
    <2>4. connection_ # NoFd => connection_ \in Fds
      BY <1>0 DEF ClientTypes
    <2>5. QED
      BY <1>0, <1>1, <1>5, <2>2, <2>3, <2>4 DEF OpenInv
  <1>8. ASSUME ~careless PROVE LifeInv' /\ failed' = FALSE
    <2>0. /\ StartInv /\ AttemptInv /\ TimerInv /\ GoneInv
          /\ \A d \in Fds : ConnInv(d)
      BY <1>0, <1>8
    <2>1. IsOpen(c) /\ Once(functors, Functor("destroyed", c)) /\ c \notin watched /\ connection_ # c
      BY <1>5, <2>0 DEF ConnInv
    <2>3. StartInv' /\ AttemptInv' /\ TimerInv' /\ GoneInv'
      <3>1. restarting' => restarting
        BY <1>1
      <3>2. QED
        BY <1>1, <1>4, <2>0, <3>1, ConnectorUntouched
    <2>4. ConnInv(c)'
      <3>1. ~IsOpen(c)' /\ conn'[c] # "none"
        BY <1>2 DEF IsOpen
      <3>2. QED
        BY <1>1, <1>5, <2>0, <2>1, <3>1 DEF ConnInv
    <2>5. ASSUME NEW d \in Fds \ {c} PROVE ConnInv(d)'
      <3>1. Bound("reset")' => Bound("reset")
        BY <1>4 DEF SameConnectorQueue, ConnectorFunctors
      <3>2. QED
        BY <1>1, <1>2, <1>4, <2>0, <3>1, ConnUntouched
    <2>6. QED
      BY <2>1, <2>3, <2>4, <2>5 DEF LifeInv
  <1>9. failed' \in BOOLEAN
    OBVIOUS
  <1>10. QED
    BY <1>1, <1>3, <1>6, <1>7, <1>8, <1>9 DEF ClientInv

-----------------------------------------------------------------------------
(* Steps of the Connector.                                                 *)

\* removeAndResetChannel(): only resetChannel is queued; stopInLoop() was the
\* functor that ran.
LEMMA QueueWithReset ==
    ASSUME NEW gone, QueueStep(gone, {Functor("reset", NoFd)}),
           gone = {} \/ gone = {Functor("stop", NoFd)}
    PROVE  /\ QueueTypes' /\ \A c \in Fds : SameConnQueue(c)
           /\ Bound("reset")' /\ (Bound("start")' <=> Bound("start"))
           /\ Bound("stop")' => Bound("stop")
           /\ gone = {} => (Bound("stop")' <=> Bound("stop"))
           /\ Once(functors, Functor("start", NoFd)) => Once(functors', Functor("start", NoFd))
           /\ ~Bound("reset") => Once(functors', Functor("reset", NoFd))
           /\ \A c \in Fds : Queued("forceClose", c)' <=> Queued("forceClose", c)
  <1>1. \A x \in gone \cup {Functor("reset", NoFd)} : x.fd = NoFd
    BY FunctorIsPair
  <1>2. ASSUME NEW c \in Fds PROVE SameConnQueue(c)
    BY <1>1, ConnectorAssumption, ConnQueueKept
  <1>3. /\ Functor("start", NoFd) \notin gone /\ Functor("start", NoFd) # Functor("reset", NoFd)
        /\ Functor("stop", NoFd) # Functor("reset", NoFd)
    BY FunctorIsPair
  <1>4. /\ Bound("reset")' /\ (Bound("start")' <=> Bound("start"))
        /\ Bound("stop")' => Bound("stop")
        /\ gone = {} => (Bound("stop")' <=> Bound("stop"))
        /\ Once(functors, Functor("start", NoFd)) => Once(functors', Functor("start", NoFd))
        /\ ~Bound("reset") => Once(functors', Functor("reset", NoFd))
    BY <1>3 DEF QueueStep, Bound
  <1>5. \A c \in Fds : Queued("forceClose", c)' <=> Queued("forceClose", c)
    BY <1>2 DEF SameConnQueue, ConnOps
  <1>6. QED
    BY <1>2, <1>4, <1>5 DEF QueueStep

\* runAfter(delay, startInLoop), if another attempt is wanted
LEMMA RetryTimers ==
    ASSUME NEW ts \in Seq(TimerKinds), NEW more, more = ts \/ more = Append(ts, "start")
    PROVE  /\ more \in Seq(TimerKinds) /\ Len(ts) <= Len(more) /\ Len(ts) \in Nat
           /\ \A x : Has(ts, x) => Has(more, x)
           /\ Has(more, "removeConnector") => Has(ts, "removeConnector")
           /\ ~Has(ts, "start") => Once(more, "start")
           /\ more = Append(ts, "start") => Has(more, "start")
  <1>1. Len(ts) \in Nat /\ "start" \in TimerKinds
    BY LenProperties DEF TimerKinds
  <1>2. /\ Append(ts, "start") \in Seq(TimerKinds) /\ Len(Append(ts, "start")) = Len(ts) + 1
        /\ \A x : Has(Append(ts, "start"), x) <=> Has(ts, x) \/ x = "start"
        /\ ~Has(ts, "start") => Once(Append(ts, "start"), "start")
    BY <1>1, HasAfterAppend
  <1>3. CASE more = ts
    BY <1>1, <1>2, <1>3 DEF Has, Once
  <1>4. CASE more = Append(ts, "start")
    BY <1>1, <1>2, <1>4
  <1>5. QED
    BY <1>3, <1>4

\* handleWrite() with a connection that is wanted, and newConnection()
LEMMA NewConnectionStep ==
    ASSUME ClientInv, failed = FALSE, restarting = FALSE, pc = "dispatch",
           Established(functors), NewConnection(sockfd_), UNCHANGED open, left' = left,
           UNCHANGED <<pc, due, other, historyVars>>, ready' \subseteq ready
    PROVE  ClientInv'
  <1>0. /\ ConnectorTypes /\ QueueTypes /\ LoopTypes /\ ClientTypes /\ OpenInv /\ StopInv /\ TryInv
        /\ ~careless => /\ StartInv /\ AttemptInv /\ TimerInv /\ GoneInv
                        /\ \A d \in Fds : ConnInv(d)
    BY LivingState
  <1>1. /\ state_ = "kConnecting" /\ connect_ /\ registered' = FALSE /\ state_' = "kConnected"
        /\ functors' = Append(functors, Functor("reset", NoFd))
        /\ connection_' = sockfd_ /\ watched' = watched \cup {sockfd_}
        /\ conn' = [conn EXCEPT ![sockfd_] = "kConnected"]
        /\ failed' = (~client \/ conn[sockfd_] # "none")
        /\ UNCHANGED <<connect_, sockfd_, channel_, gaveUp, timers, open, pc, due, client, cconnect_, eof, detached,
                       restarting, other, stopped, overruled, careless>>
    BY DEF Established, RemoveAndResetChannel, NewConnection, historyVars
  <1>2. /\ sockfd_ \in Fds /\ conn[sockfd_] = "none" /\ failed' = ~client
        /\ sockfd_ # NoFd
    BY <1>0, <1>1, ConnectorAssumption DEF OpenInv
  <1>3. /\ conn' \in [Fds -> ConnStates] /\ conn'[sockfd_] = "kConnected"
        /\ \A d \in Fds \ {sockfd_} : conn'[d] = conn[d]
    BY <1>0, <1>1, <1>2 DEF ClientTypes, ConnStates
  <1>4. QueueStep({}, {Functor("reset", NoFd)})
    <2>1. Functor("reset", NoFd) \in ClientFunctors
      BY FunctorIsPair DEF ConnectorFunctors
    <2>2. QED
      BY <1>0, <1>1, <2>1, QueueAppend
  <1>5. /\ QueueTypes' /\ \A c \in Fds : SameConnQueue(c)
        /\ Bound("reset")' /\ (Bound("start")' <=> Bound("start"))
        /\ (Bound("stop")' <=> Bound("stop"))
        /\ Once(functors, Functor("start", NoFd)) => Once(functors', Functor("start", NoFd))
        /\ ~Bound("reset") => Once(functors', Functor("reset", NoFd))
        /\ \A c \in Fds : Queued("forceClose", c)' <=> Queued("forceClose", c)
    BY <1>4, QueueWithReset
  <1>6. Types'
    BY <1>0, <1>1, <1>2, <1>3, <1>5 DEF Types, ConnectorTypes, LoopTypes, ClientTypes
  <1>7. ~failed' => OpenInv'
    <2>1. Attempted = {sockfd_} /\ Attempted' = {}
      BY <1>1 DEF Attempted
    <2>2. \A d \in Fds : conn'[d] # "none" <=> conn[d] # "none" \/ d = sockfd_
      BY <1>2, <1>3
    <2>3. open' = {d \in Fds : conn'[d] # "none"} \cup Attempted'
      BY <1>0, <1>1, <1>2, <2>1, <2>2 DEF OpenInv
    <2>4. QED
      BY <1>0, <1>1, <1>2, <1>3, <1>5, <2>3 DEF OpenInv
  <1>8. StopInv' /\ TryInv'
    BY <1>0, <1>1, <1>5 DEF StopInv, TryInv, StartsLater, StopsLater
  <1>9. ASSUME ~careless PROVE LifeInv' /\ failed' = FALSE
    <2>0. /\ StartInv /\ AttemptInv /\ TimerInv /\ GoneInv
          /\ \A d \in Fds : ConnInv(d)
      BY <1>0, <1>9
    <2>1. client /\ failed' = FALSE
      BY <1>0, <1>1, <1>2, <2>0 DEF GoneInv, ClientTypes
    <2>2. ~Bound("reset") /\ connection_ = NoFd /\ ~Has(timers, "start") /\ ~Starting
      BY <1>0, <1>1, <2>0 DEF AttemptInv, StartInv, OpenInv
    <2>3. StartInv'
      <3>1. ~Starting'
        BY <1>1, <1>5, <2>2 DEF Starting, StartsLater
      <3>2. QED
        BY <1>1, <1>5, <2>0, <2>2, <3>1 DEF StartInv, Starting
    <2>4. AttemptInv'
      BY <1>1, <1>2, <1>5, <2>0, <2>2 DEF AttemptInv
    <2>5. TimerInv' /\ GoneInv'
      BY <1>1, <2>0, <2>1 DEF TimerInv, GoneInv
    <2>6. ConnInv(sockfd_)'
      <3>1. /\ sockfd_ \notin watched /\ ~Queued("destroyed", sockfd_) /\ ~Queued("forceClose", sockfd_)
            /\ ~Queued("shutdown", sockfd_) /\ sockfd_ \notin detached /\ sockfd_ \notin ready
            /\ Precedes(functors, Functor("shutdown", sockfd_), Functor("destroyed", sockfd_))
        BY <1>2, <2>0 DEF ConnInv, IsOpen
      <3>2. /\ ~Queued("destroyed", sockfd_)' /\ ~Queued("forceClose", sockfd_)'
            /\ ~Queued("shutdown", sockfd_)' /\ sockfd_ \notin detached' /\ sockfd_ \notin ready'
            /\ Precedes(functors', Functor("shutdown", sockfd_), Functor("destroyed", sockfd_))
            /\ sockfd_ \in watched' /\ connection_' = sockfd_ /\ UNCHANGED sockfd_
        BY <1>1, <1>2, <1>5, <3>1 DEF SameConnQueue, ConnOps, Queued
      <3>3. PICK fd \in Fds : fd = sockfd_
        BY <1>2
      <3>4. ConnInv(fd)'
        BY <1>2, <1>3, <3>2, <3>3 DEF ConnInv, IsOpen, Queued
      <3>5. QED
        BY <3>2, <3>3, <3>4
    <2>7. ASSUME NEW d \in Fds, d # sockfd_ PROVE ConnInv(d)'
      <3>1. connection_ # d /\ connection_' # d
        BY <1>1, <2>2, <2>7, ConnectorAssumption
      <3>2. conn'[d] = conn[d] /\ (d \in watched' <=> d \in watched)
        BY <1>1, <1>3, <2>7
      <3>3. QED
        BY <1>1, <1>5, <2>0, <3>1, <3>2, ConnUntouched
    <2>8. ASSUME NEW d \in Fds PROVE ConnInv(d)'
      <3>1. CASE d = sockfd_
        <4>1. sockfd_' = d
          BY <1>1, <3>1
        <4>2. QED
          BY <2>6, <3>1, <4>1
      <3>2. QED
        BY <2>7, <3>1
    <2>9. QED
      BY <2>1, <2>3, <2>4, <2>5, <2>8 DEF LifeInv
  <1>10. failed' \in BOOLEAN
    BY <1>1
  <1>11. QED
    BY <1>1, <1>6, <1>7, <1>8, <1>9, <1>10 DEF ClientInv

\* The attempt is over without a connection: handleWrite() that nobody waits for,
\* an error, or stopInLoop(); the last two go on to retry().
LEMMA AttemptEnds ==
    ASSUME ClientInv, failed = FALSE, restarting = FALSE, state_ = "kConnecting",
           NEW gone, QueueStep(gone, {Functor("reset", NoFd)}),
           gone = {} \/ gone = {Functor("stop", NoFd)},
           registered' = FALSE, CloseSocket,
           \/ state_' = "kConnected" /\ pc = "dispatch" /\ timers' = timers
           \/ state_' = "kDisconnected" /\ timers' = IF connect_ THEN Append(timers, "start") ELSE timers,
           UNCHANGED <<connect_, sockfd_, channel_, gaveUp, pc, due, clientVars, connVars, restarting,
                       other, historyVars>>,
           ready' \subseteq ready
    PROVE  ClientInv'
  <1>0. /\ ConnectorTypes /\ QueueTypes /\ LoopTypes /\ ClientTypes /\ OpenInv /\ StopInv /\ TryInv
        /\ ~careless => /\ StartInv /\ AttemptInv /\ TimerInv /\ GoneInv
                        /\ \A d \in Fds : ConnInv(d)
    BY LivingState
  <1>1. /\ UNCHANGED <<connect_, sockfd_, channel_, gaveUp, pc, due, client, cconnect_, connection_,
                       conn, watched, eof, detached, restarting, other, stopped, overruled, careless>>
        /\ failed' = (sockfd_ \notin open) /\ open' = open \ {sockfd_}
    BY DEF clientVars, connVars, historyVars, CloseSocket
  <1>2. sockfd_ \in Fds /\ conn[sockfd_] = "none" /\ Attempted = {sockfd_} /\ Attempted' = {}
    BY <1>0 DEF OpenInv, Attempted
  <1>3. failed' = FALSE
    BY <1>0, <1>1, <1>2 DEF OpenInv
  <1>4. /\ QueueTypes' /\ \A c \in Fds : SameConnQueue(c)
        /\ Bound("reset")' /\ (Bound("start")' <=> Bound("start"))
        /\ Bound("stop")' => Bound("stop")
        /\ Once(functors, Functor("start", NoFd)) => Once(functors', Functor("start", NoFd))
        /\ ~Bound("reset") => Once(functors', Functor("reset", NoFd))
        /\ \A c \in Fds : Queued("forceClose", c)' <=> Queued("forceClose", c)
    BY QueueWithReset
  <1>5. PICK more : more = timers'
    OBVIOUS
  <1>6. timers \in Seq(TimerKinds) /\ (more = timers \/ (more = Append(timers, "start") /\ connect_))
    BY <1>0, <1>5 DEF LoopTypes
  <1>7. /\ more \in Seq(TimerKinds) /\ Len(timers) <= Len(more) /\ Len(timers) \in Nat
        /\ \A x : Has(timers, x) => Has(more, x)
        /\ Has(more, "removeConnector") => Has(timers, "removeConnector")
        /\ ~Has(timers, "start") => Once(more, "start")
        /\ more = Append(timers, "start") => Has(more, "start")
    BY <1>6, RetryTimers
  <1>8. Types'
    <2>1. "timer" \in ready' => due <= Len(more)
      <3>1. Len(more) \in Nat
        BY <1>7, LenProperties
      <3>2. QED
        BY <1>0, <1>7, <3>1 DEF LoopTypes
    <2>2. ConnectorTypes'
      BY <1>0, <1>1, <1>3 DEF ConnectorTypes
    <2>3. LoopTypes'
      BY <1>0, <1>1, <1>5, <1>7, <2>1 DEF LoopTypes
    <2>4. ClientTypes'
      BY <1>0, <1>1 DEF ClientTypes
    <2>5. QED
      BY <1>4, <2>2, <2>3, <2>4 DEF Types
  <1>9. OpenInv'
    <2>1. open' = {d \in Fds : conn'[d] # "none"} \cup Attempted'
      BY <1>0, <1>1, <1>2 DEF OpenInv
    <2>2. QED
      BY <1>0, <1>1, <1>4, <2>1 DEF OpenInv
  <1>10. StopInv'
    BY <1>0, <1>1 DEF StopInv, StartsLater, StopsLater
  <1>11. TryInv'
    BY <1>0, <1>1, <1>5, <1>7 DEF TryInv
  <1>12. ASSUME ~careless PROVE LifeInv'
    <2>0. /\ StartInv /\ AttemptInv /\ TimerInv /\ GoneInv
          /\ \A d \in Fds : ConnInv(d)
      BY <1>0, <1>12
    <2>1. ~Bound("reset") /\ connection_ = NoFd /\ ~Has(timers, "start") /\ ~Starting
      BY <1>0, <2>0 DEF AttemptInv, StartInv, OpenInv
    <2>2. StartInv'
      <3>1. ~Starting'
        BY <1>1, <1>4, <2>1 DEF Starting, StartsLater
      <3>2. QED
        BY <1>1, <1>4, <2>0, <2>1, <3>1 DEF StartInv, Starting
    <2>3. AttemptInv'
      <3>1. Has(more, "start") => state_' = "kDisconnected"
        BY <1>5, <2>1
      <3>2. Once(timers', "start")
        BY <1>5, <1>7, <2>1
      <3>3. state_' = "kConnected" => pc' = "dispatch"
        BY <1>1
      <3>4. QED
        BY <1>1, <1>4, <1>5, <2>0, <2>1, <3>1, <3>2, <3>3 DEF AttemptInv
    <2>4. TimerInv'
      BY <1>1, <1>5, <1>7, <2>0, <2>1 DEF TimerInv
    <2>5. GoneInv'
      <3>1. ~client => ~connect_ /\ Has(timers', "removeConnector")
        BY <1>5, <1>7, <2>0 DEF GoneInv
      <3>2. QED
        BY <1>1, <3>1 DEF GoneInv
    <2>6. ASSUME NEW d \in Fds PROVE ConnInv(d)'
      <3>1. connection_ # d
        BY <2>1, ConnectorAssumption
      <3>2. QED
        BY <1>1, <1>4, <2>0, <3>1, ConnUntouched
    <2>7. QED
      BY <2>2, <2>3, <2>4, <2>5, <2>6 DEF LifeInv
  <1>13. QED
    BY <1>1, <1>3, <1>8, <1>9, <1>10, <1>11, <1>12 DEF ClientInv

\* What startInLoop() comes to: an attempt, no attempt, or a failed assertion.
LEMMA StartOutcome ==
    ASSUME failed = FALSE, NEW st, NEW d, NEW ts, StartInLoop(st, d, ts)
    PROVE  \/ /\ st = "kDisconnected" /\ connect_' /\ state_' = "kConnecting"
              /\ sockfd_' \in Fds \ open /\ open' = open \cup {sockfd_'}
              /\ channel_' = sockfd_' /\ registered' = TRUE /\ timers' = ts
              /\ failed' = (channel_ # NoFd)
           \/ /\ st = "kDisconnected" /\ state_' = "kDisconnected"
              /\ timers' = ts \/ (timers' = Append(ts, "start") /\ connect_')
              /\ gaveUp' \/ ~connect_' \/ timers' = Append(ts, "start")
              /\ UNCHANGED <<open, channel_, registered>> /\ failed' = FALSE
              /\ sockfd_' \in Fds \cup {sockfd_}
           \/ /\ st # "kDisconnected" /\ state_' = st /\ timers' = ts /\ failed' = TRUE
              /\ UNCHANGED <<open, channel_, registered, sockfd_>>
  <1>1. CASE st = "kDisconnected" /\ connect_' /\ Connect(d, ts)
    BY <1>1 DEF Connect, Retry, RetryTimer
  <1>2. CASE /\ st # "kDisconnected" \/ ~connect_'
             /\ failed' = (st # "kDisconnected")
             /\ state_' = st /\ retryDelayMs_' = d /\ timers' = ts
             /\ UNCHANGED <<sockfd_, channel_, registered, open, gaveUp>>
    BY <1>2
  <1>3. QED
    BY <1>1, <1>2 DEF StartInLoop

\* startInLoop(), called by connect() or restart(), queued by connect() or run by a
\* retry timer: always in a Connector that has nothing under way.
LEMMA AttemptStarts ==
    ASSUME ClientInv, failed = FALSE, NEW st, NEW d, NEW ts \in Seq(TimerKinds), StartInLoop(st, d, ts),
           st = state_ \/ (restarting /\ st = "kDisconnected"),
           NEW gone, QueueStep(gone, {}), gone = {} \/ gone = {Functor("start", NoFd)},
           UNCHANGED <<pc, due, client, connection_, connVars, other>>,
           stopped' \in BOOLEAN, overruled' \in BOOLEAN, careless' \in BOOLEAN, careless => careless',
           connect_' \in BOOLEAN, cconnect_' \in BOOLEAN, ready' \subseteq ready, restarting' = FALSE,
           stopped' => stopped,
           stopped' /\ ~overruled' /\ ~StopsLater => ~overruled /\ connect_' = connect_,
           Has(ts, "removeConnector") <=> Has(timers, "removeConnector"), "timer" \in ready' => ts = timers,
           ~careless' => /\ st = "kDisconnected" /\ channel_ = NoFd /\ ~Bound("reset")
                         /\ ~Has(ts, "start") /\ ~Starting' /\ (~client => ~connect_')
    PROVE  ClientInv'
  <1>0. /\ ConnectorTypes /\ QueueTypes /\ LoopTypes /\ ClientTypes /\ OpenInv /\ StopInv /\ TryInv
        /\ ~careless => /\ StartInv /\ AttemptInv /\ TimerInv /\ GoneInv
                        /\ \A c \in Fds : ConnInv(c)
    BY LivingState
  <1>1. UNCHANGED <<pc, due, client, connection_, conn, watched, eof, detached, other>>
    BY DEF connVars
  <1>2. \/ /\ st = "kDisconnected" /\ connect_' /\ state_' = "kConnecting"
           /\ sockfd_' \in Fds \ open /\ open' = open \cup {sockfd_'}
           /\ channel_' = sockfd_' /\ registered' = TRUE /\ timers' = ts
           /\ failed' = (channel_ # NoFd)
        \/ /\ st = "kDisconnected" /\ state_' = "kDisconnected"
           /\ timers' = ts \/ (timers' = Append(ts, "start") /\ connect_')
           /\ gaveUp' \/ ~connect_' \/ timers' = Append(ts, "start")
           /\ UNCHANGED <<open, channel_, registered>> /\ failed' = FALSE
           /\ sockfd_' \in Fds \cup {sockfd_}
        \/ /\ st # "kDisconnected" /\ state_' = st /\ timers' = ts /\ failed' = TRUE
           /\ UNCHANGED <<open, channel_, registered, sockfd_>>
    BY StartOutcome
  <1>3. st = "kDisconnected" => Attempted = {} /\ state_ # "kConnecting" /\ connection_ = NoFd
    BY <1>0 DEF OpenInv, Attempted
  <1>4. /\ QueueTypes' /\ \A c \in Fds : SameConnQueue(c)
        /\ Bound("reset")' => Bound("reset")
        /\ Bound("stop")' <=> Bound("stop")
        /\ Bound("start")' => Bound("start")
        /\ Once(functors, Functor("start", NoFd)) => Once(functors', Functor("start", NoFd))
        /\ Once(functors, Functor("reset", NoFd)) => Once(functors', Functor("reset", NoFd))
        /\ \A c \in Fds : Queued("forceClose", c)' <=> Queued("forceClose", c)
    <2>1. \A x \in gone \cup {} : x.fd = NoFd
      BY FunctorIsPair
    <2>2. ASSUME NEW c \in Fds PROVE SameConnQueue(c)
      BY <2>1, ConnectorAssumption, ConnQueueKept
    <2>3. Functor("stop", NoFd) \notin gone
      BY FunctorIsPair
    <2>4. /\ Bound("reset")' => Bound("reset")
          /\ Bound("stop")' <=> Bound("stop")
          /\ Bound("start")' => Bound("start")
          /\ Once(functors, Functor("start", NoFd)) => Once(functors', Functor("start", NoFd))
          /\ Once(functors, Functor("reset", NoFd)) => Once(functors', Functor("reset", NoFd))
          /\ QueueTypes'
      BY <2>3 DEF QueueStep, Bound
    <2>5. \A c \in Fds : Queued("forceClose", c)' <=> Queued("forceClose", c)
      BY <2>2 DEF SameConnQueue, ConnOps
    <2>6. QED
      BY <2>2, <2>4, <2>5
  <1>5. PICK more : more = timers'
    OBVIOUS
  <1>6. /\ more \in Seq(TimerKinds) /\ Len(ts) <= Len(more) /\ Len(ts) \in Nat
        /\ Has(more, "removeConnector") <=> Has(timers, "removeConnector")
        /\ ~Has(ts, "start") => Once(more, "start")
        /\ more = Append(ts, "start") => Has(more, "start")
    <2>1. more = ts \/ more = Append(ts, "start")
      BY <1>2, <1>5
    <2>2. QED
      BY <2>1, RetryTimers
  <1>7. Types'
    <2>1. ConnectorTypes'
      BY <1>0, <1>2 DEF ConnectorTypes
    <2>2. LoopTypes'
      <3>1. Len(more) \in Nat
        BY <1>6, LenProperties
      <3>2. "timer" \in ready' => due <= Len(more)
        BY <1>0, <1>6, <3>1 DEF LoopTypes
      <3>3. QED
        BY <1>0, <1>1, <1>5, <1>6, <3>2 DEF LoopTypes
    <2>3. ClientTypes'
      BY <1>0, <1>1 DEF ClientTypes
    <2>4. QED
      BY <1>4, <2>1, <2>2, <2>3 DEF Types
  <1>8. ~failed' => OpenInv'
    <2>1. SUFFICES ASSUME ~failed' PROVE OpenInv'
      OBVIOUS
    <2>2. st = "kDisconnected" /\ Attempted = {} /\ connection_ = NoFd
      BY <1>2, <1>3, <2>1
    <2>3. open' = {c \in Fds : conn'[c] # "none"} \cup Attempted'
      BY <1>0, <1>1, <1>2, <2>2 DEF OpenInv, Attempted
    <2>4. state_' = "kConnecting" => sockfd_' \in Fds /\ conn'[sockfd_'] = "none"
      BY <1>0, <1>1, <1>2, <2>2 DEF OpenInv
    <2>5. QED
      BY <1>0, <1>1, <1>4, <2>2, <2>3, <2>4 DEF OpenInv
  <1>9. StopInv'
    <2>1. (StartsLater' <=> StartsLater) /\ (StopsLater' <=> StopsLater)
      BY <1>1 DEF StartsLater, StopsLater
    <2>2. SUFFICES ASSUME stopped'
                   PROVE  /\ ~StartsLater
                          /\ ~overruled' /\ ~StopsLater =>
                                 ~connect_' /\ (state_' = "kConnecting" => Bound("stop") \/ other = Stop1)
      BY <1>1, <1>4, <2>1 DEF StopInv
    <2>3. stopped /\ ~StartsLater
      BY <1>0, <2>2 DEF StopInv
    <2>4. ASSUME ~overruled', ~StopsLater
          PROVE  ~connect_' /\ (state_' = "kConnecting" => Bound("stop") \/ other = Stop1)
      BY <1>0, <1>2, <2>2, <2>3, <2>4 DEF StopInv
    <2>5. QED
      BY <2>3, <2>4
  <1>10. TryInv'
    BY <1>2, <1>5, <1>6 DEF TryInv
  <1>11. ASSUME ~careless' PROVE LifeInv' /\ failed' = FALSE
    <2>0. /\ StartInv /\ AttemptInv /\ TimerInv /\ GoneInv
          /\ \A c \in Fds : ConnInv(c)
      BY <1>0, <1>11
    <2>1. /\ st = "kDisconnected" /\ channel_ = NoFd /\ ~Bound("reset") /\ connection_ = NoFd
          /\ ~Has(ts, "start") /\ ~Starting' /\ (~client => ~connect_')
      BY <1>3, <1>11
    <2>2. failed' = FALSE /\ ~Bound("reset")' /\ ~registered /\ Once(more, "start")
      BY <1>2, <1>3, <1>4, <1>6, <2>0, <2>1 DEF AttemptInv
    <2>3. StartInv'
      BY <1>4, <2>0, <2>1 DEF StartInv, Starting
    <2>4. AttemptInv'
      <3>1. \/ /\ state_' = "kConnecting" /\ channel_' = sockfd_' /\ registered' = TRUE /\ more = ts
            \/ state_' = "kDisconnected" /\ channel_' = NoFd /\ registered' = registered
        BY <1>2, <1>5, <2>1
      <3>2. QED
        BY <1>1, <1>4, <1>5, <2>0, <2>1, <2>2, <3>1 DEF AttemptInv
    <2>5. TimerInv'
      BY <1>1, <1>5, <1>6, <2>0, <2>1 DEF TimerInv
    <2>6. GoneInv'
      <3>1. ~client => ~connect_' /\ state_' # "kConnecting"
        BY <1>2, <2>1
      <3>2. ASSUME ~client, NEW op \in ConnectorFunctors, Bound(op)' PROVE Has(timers', "removeConnector")
        <4>1. Bound(op)
          BY <1>4, <3>2 DEF ConnectorFunctors
        <4>2. QED
          BY <1>5, <1>6, <2>0, <3>2, <4>1 DEF GoneInv
      <3>3. QED
        BY <1>1, <3>1, <3>2 DEF GoneInv
    <2>7. ASSUME NEW c \in Fds PROVE ConnInv(c)'
      <3>1. connection_ # c
        BY <2>1, ConnectorAssumption
      <3>2. QED
        BY <1>1, <1>4, <2>0, <3>1, ConnUntouched
    <2>8. QED
      BY <2>2, <2>3, <2>4, <2>5, <2>6, <2>7 DEF LifeInv
  <1>12. failed' \in BOOLEAN
    BY <1>2
  <1>13. (failed' => careless') /\ (~careless' => LifeInv')
    BY <1>11, <1>12
  <1>14. QED
    BY <1>7, <1>8, <1>9, <1>10, <1>13 DEF ClientInv

\* The queue q without its ith element
Without(q, i) == SubSeq(q, 1, i-1) \o SubSeq(q, i+1, Len(q))

\* A timer that has expired is taken out of the queue.
LEMMA TimerRemoved ==
    ASSUME NEW S, NEW q \in Seq(S), NEW i \in DOMAIN q, NEW r, r = Without(q, i)
    PROVE  /\ r \in Seq(S)
           /\ \A x : Has(r, x) => Has(q, x)
           /\ \A x : x # q[i] /\ Has(q, x) => Has(r, x)
           /\ \A x : Once(q, x) => Once(r, x)
           /\ Once(q, q[i]) => ~Has(r, q[i])
  <1>0. PICK n \in Nat : n = Len(q) /\ DOMAIN q = 1 .. n
    BY LenProperties
  <1>1. i \in Nat /\ 1 <= i /\ i <= n /\ i - 1 \in Nat /\ n - i \in Nat
    BY <1>0
  <1>2. PICK a : a = SubSeq(q, 1, i - 1)
    OBVIOUS
  <1>3. PICK b : b = SubSeq(q, i + 1, n)
    OBVIOUS
  <1>4. \A j \in 1 .. n : q[j] \in S
    BY <1>0, ElementOfSeq
  <1>5. a \in Seq(S) /\ Len(a) = i - 1 /\ \A j \in 1 .. i - 1 : a[j] = q[j]
    <2>1. \A j \in 1 .. i - 1 : q[j] \in S
      BY <1>0, <1>1, <1>4
    <2>2. QED
      BY <1>1, <1>2, <2>1
  <1>6. b \in Seq(S) /\ Len(b) = n - i /\ \A j \in 1 .. n - i : b[j] = q[i + j]
    <2>1. \A j \in i + 1 .. n : q[j] \in S
      BY <1>0, <1>1, <1>4
    <2>2. b \in Seq(S) /\ Len(b) = IF i + 1 <= n THEN n - i ELSE 0
      BY <1>0, <1>1, <1>3, <2>1
    <2>3. \A j \in 1 .. n - i : b[j] = q[i + j]
      BY <1>0, <1>1, <1>3
    <2>4. QED
      BY <1>0, <1>1, <2>2, <2>3
  <1>7. /\ r = a \o b /\ r \in Seq(S) /\ Len(r) = Len(a) + Len(b)
        /\ \A j \in 1 .. Len(a) + Len(b) : r[j] = IF j <= Len(a) THEN a[j] ELSE b[j - Len(a)]
    <2>1. r = a \o b
      BY <1>0, <1>2, <1>3 DEF Without
    <2>2. a \in Seq(S) /\ b \in Seq(S)
      BY <1>5, <1>6
    <2>3. /\ a \o b \in Seq(S) /\ Len(a \o b) = Len(a) + Len(b)
          /\ \A j \in 1 .. Len(a) + Len(b) : (a \o b)[j] = IF j <= Len(a) THEN a[j] ELSE b[j - Len(a)]
      BY <2>2, ConcatProperties
    <2>4. QED
      BY <2>1, <2>3, Zenon
  <1>8. Len(r) = n - 1 /\ DOMAIN r = 1 .. n - 1
    <2>1. Len(r) = (i - 1) + (n - i)
      BY <1>5, <1>6, <1>7
    <2>2. Len(r) = n - 1
      BY <1>0, <1>1, <2>1
    <2>3. DOMAIN r = 1 .. Len(r)
      BY <1>7, LenProperties
    <2>4. QED
      BY <2>2, <2>3
  <1>9. ASSUME NEW j \in 1 .. n - 1, j < i PROVE r[j] = q[j] /\ j \in 1 .. n
    <2>1. j \in 1 .. i - 1 /\ j \in 1 .. n /\ j \in 1 .. (i - 1) + (n - i) /\ j <= i - 1
      BY <1>0, <1>1, <1>9
    <2>2. r[j] = a[j]
      BY <1>5, <1>6, <1>7, <2>1
    <2>3. QED
      BY <1>5, <2>1, <2>2
  <1>10. ASSUME NEW j \in 1 .. n - 1, ~(j < i) PROVE r[j] = q[j + 1] /\ j + 1 \in 1 .. n
    <2>1. /\ ~(j <= i - 1) /\ j \in 1 .. (i - 1) + (n - i)
          /\ j - (i - 1) \in 1 .. n - i /\ i + (j - (i - 1)) = j + 1 /\ j + 1 \in 1 .. n
      BY <1>0, <1>1, <1>10
    <2>2. r[j] = b[j - (i - 1)]
      BY <1>5, <1>6, <1>7, <2>1
    <2>3. QED
      BY <1>6, <2>1, <2>2
  <1>11. ASSUME NEW j \in DOMAIN r
         PROVE  \E k \in DOMAIN q : k # i /\ r[j] = q[k] /\ k = IF j < i THEN j ELSE j + 1
    <2>0. j \in 1 .. n - 1 /\ j \in Nat
      BY <1>0, <1>8
    <2>1. CASE j < i
      <3>1. r[j] = q[j] /\ j \in DOMAIN q
        BY <1>0, <1>9, <2>0, <2>1
      <3>2. j # i
        BY <1>1, <2>0, <2>1
      <3>3. QED
        BY <2>1, <3>1, <3>2
    <2>2. CASE ~(j < i)
      <3>1. j + 1 # i
        BY <1>1, <2>0, <2>2
      <3>2. QED
        BY <1>0, <1>10, <2>0, <2>2, <3>1
    <2>3. QED
      BY <2>1, <2>2
  <1>12. ASSUME NEW k \in DOMAIN q, k # i PROVE \E j \in DOMAIN r : r[j] = q[k]
    <2>0. k \in 1 .. n /\ k \in Nat
      BY <1>0
    <2>1. CASE k < i
      <3>1. k \in 1 .. n - 1
        BY <1>1, <2>0, <2>1
      <3>2. QED
        BY <1>8, <1>9, <2>1, <3>1
    <2>2. CASE ~(k < i)
      <3>1. k - 1 \in 1 .. n - 1 /\ ~(k - 1 < i) /\ (k - 1) + 1 = k
        BY <1>1, <1>12, <2>0, <2>2
      <3>2. r[k - 1] = q[(k - 1) + 1]
        BY <1>10, <3>1
      <3>3. QED
        BY <1>8, <3>1, <3>2
    <2>3. QED
      BY <2>1, <2>2
  <1>13. ASSUME NEW x, Once(q, x) PROVE Once(r, x)
    <2>1. ASSUME NEW j \in DOMAIN r, NEW k \in DOMAIN r, r[j] = x, r[k] = x PROVE j = k
      <3>1. PICK u \in DOMAIN q : r[j] = q[u] /\ u = IF j < i THEN j ELSE j + 1
        BY <1>11
      <3>2. PICK v \in DOMAIN q : r[k] = q[v] /\ v = IF k < i THEN k ELSE k + 1
        BY <1>11
      <3>3. u = v
        BY <1>13, <2>1, <3>1, <3>2 DEF Once
      <3>4. j \in Nat /\ k \in Nat
        BY <1>8
      <3>5. QED
        BY <1>1, <3>1, <3>2, <3>3, <3>4
    <2>2. QED
      BY <2>1 DEF Once
  <1>14. ASSUME NEW x, Has(r, x) PROVE Has(q, x)
    BY <1>11, <1>14 DEF Has
  <1>15. ASSUME NEW x, x # q[i], Has(q, x) PROVE Has(r, x)
    BY <1>12, <1>15 DEF Has
  <1>16. Once(q, q[i]) => ~Has(r, q[i])
    BY <1>11 DEF Once, Has
  <1>17. QED
    BY <1>7, <1>13, <1>14, <1>15, <1>16

\* stopInLoop() with nothing under way, and resetChannel()
LEMMA PopStep ==
    ASSUME ClientInv, failed = FALSE, NEW op \in {"stop", "reset"}, QueueStep({Functor(op, NoFd)}, {}),
           op = "stop" => state_ # "kConnecting" /\ channel_' = channel_ /\ failed' = FALSE,
           op = "reset" => channel_' = NoFd /\ failed' = registered,
           UNCHANGED <<connect_, state_, sockfd_, registered, gaveUp, timers, open, pc, due, ready, clientVars,
                       connVars, restarting, other, historyVars>>
    PROVE  ClientInv'
  <1>0. /\ ConnectorTypes /\ QueueTypes /\ LoopTypes /\ ClientTypes /\ OpenInv /\ StopInv /\ TryInv
        /\ ~careless => /\ StartInv /\ AttemptInv /\ TimerInv /\ GoneInv
                        /\ \A c \in Fds : ConnInv(c)
    BY LivingState
  <1>1. UNCHANGED <<connect_, state_, sockfd_, registered, gaveUp, timers, open, pc, due, ready, client, cconnect_,
                    connection_, conn, watched, eof, detached, restarting, other, stopped, overruled, careless>>
    BY DEF clientVars, connVars, historyVars
  <1>2. failed' \in BOOLEAN /\ channel_' \in Fds \cup {NoFd} /\ (channel_' = channel_ \/ channel_' = NoFd)
    BY <1>0 DEF ConnectorTypes
  <1>3. /\ QueueTypes' /\ \A c \in Fds : SameConnQueue(c)
        /\ Bound("start")' <=> Bound("start")
        /\ \A p \in ConnectorFunctors : Bound(p)' => Bound(p)
        /\ op = "reset" => (Bound("stop")' <=> Bound("stop")) /\ Bound("reset")
        /\ op = "stop" => (Bound("reset")' <=> Bound("reset"))
        /\ Once(functors, Functor("start", NoFd)) => Once(functors', Functor("start", NoFd))
        /\ Once(functors, Functor("reset", NoFd)) => Once(functors', Functor("reset", NoFd))
        /\ Within(functors, Functor("reset", NoFd), left) => Within(functors', Functor("reset", NoFd), left')
        /\ \A c \in Fds : Queued("forceClose", c)' <=> Queued("forceClose", c)
    <2>1. \A x \in {Functor(op, NoFd)} \cup {} : x.fd = NoFd
      BY FunctorIsPair
    <2>2. ASSUME NEW c \in Fds PROVE SameConnQueue(c)
      BY <2>1, ConnectorAssumption, ConnQueueKept
    <2>3. \A p : Functor(p, NoFd) \in {Functor(op, NoFd)} <=> p = op
      BY FunctorIsPair
    <2>4. /\ Bound("start")' <=> Bound("start")
          /\ \A p \in ConnectorFunctors : Bound(p)' => Bound(p)
          /\ op = "reset" => (Bound("stop")' <=> Bound("stop")) /\ Bound("reset")
          /\ op = "stop" => (Bound("reset")' <=> Bound("reset"))
          /\ Once(functors, Functor("start", NoFd)) => Once(functors', Functor("start", NoFd))
          /\ Once(functors, Functor("reset", NoFd)) => Once(functors', Functor("reset", NoFd))
          /\ Within(functors, Functor("reset", NoFd), left) => Within(functors', Functor("reset", NoFd), left')
          /\ QueueTypes'
      BY <2>3 DEF QueueStep, Bound
    <2>5. \A c \in Fds : Queued("forceClose", c)' <=> Queued("forceClose", c)
      BY <2>2 DEF SameConnQueue, ConnOps
    <2>6. QED
      BY <2>2, <2>4, <2>5
  <1>4. Types'
    BY <1>0, <1>1, <1>2, <1>3 DEF Types, ConnectorTypes, LoopTypes, ClientTypes
  <1>5. OpenInv'
    <2>1. Attempted' = Attempted
      BY <1>1 DEF Attempted
    <2>2. QED
      BY <1>0, <1>1, <1>3, <2>1 DEF OpenInv
  <1>6. StopInv' /\ TryInv'
    BY <1>0, <1>1, <1>3 DEF StopInv, TryInv, StartsLater, StopsLater
  <1>7. ASSUME ~careless PROVE LifeInv' /\ failed' = FALSE
    <2>0. /\ StartInv /\ AttemptInv /\ TimerInv /\ GoneInv
          /\ \A c \in Fds : ConnInv(c)
      BY <1>0, <1>7
    <2>1. failed' = FALSE
      BY <1>0, <1>3, <2>0 DEF AttemptInv, ConnectorTypes
    <2>2. Bound("reset")' => Bound("reset")
      BY <1>3 DEF ConnectorFunctors
    <2>3. StartInv'
      <3>1. Starting' <=> Starting
        BY <1>1, <1>3 DEF Starting, StartsLater
      <3>2. QED
        BY <1>1, <1>2, <1>3, <2>0, <2>2, <3>1 DEF StartInv, StartsLater
    <2>4. AttemptInv'
      <3>1. state_ = "kConnecting" => op = "stop"
        BY <1>3, <2>0 DEF AttemptInv
      <3>2. QED
        BY <1>1, <1>2, <1>3, <2>0, <2>2, <3>1 DEF AttemptInv
    <2>5. TimerInv'
      BY <1>1, <1>3, <2>0, <2>2 DEF TimerInv
    <2>6. GoneInv'
      <3>1. ~Bound("stop")' => ~Bound("stop") \/ state_ # "kConnecting"
        BY <1>3
      <3>2. QED
        BY <1>1, <1>3, <2>0, <3>1 DEF GoneInv
    <2>7. ASSUME NEW c \in Fds PROVE ConnInv(c)'
      BY <1>1, <1>3, <2>0, <2>2, ConnUntouched
    <2>8. QED
      BY <2>1, <2>3, <2>4, <2>5, <2>6, <2>7 DEF LifeInv
  <1>8. (careless' <=> careless) /\ (failed' => careless') /\ (~careless' => LifeInv')
    BY <1>1, <1>2, <1>7
  <1>9. QED
    BY <1>4, <1>5, <1>6, <1>8 DEF ClientInv

\* An expired timer that overtakes no functor: startInLoop(), or removeConnector(),
\* which lets go of a Connector without a channel.
LEMMA TimerStep ==
    ASSUME ClientInv, failed = FALSE, restarting = FALSE, "timer" \in ready, RunTimer,
           ready' = ready \ {"timer"},
           UNCHANGED <<pc, left, due, clientVars, connVars, restarting, other, stopped, overruled>>
    PROVE  ClientInv'
  <1>0. /\ ConnectorTypes /\ QueueTypes /\ LoopTypes /\ ClientTypes /\ OpenInv /\ StopInv /\ TryInv
        /\ ~careless => /\ StartInv /\ AttemptInv /\ TimerInv /\ GoneInv
                        /\ \A c \in Fds : ConnInv(c)
    BY LivingState
  <1>1. PICK i \in 1 .. due :
           /\ UNCHANGED <<connect_, functors>>
           /\ careless' = (careless \/ Overtakes(timers[i]))
           /\ \/ timers[i] = "start" /\ StartInLoop(state_, retryDelayMs_, Without(timers, i))
              \/ /\ timers[i] = "removeConnector"
                 /\ timers' = Without(timers, i)
                 /\ failed' = (~client /\ timers' = <<>> /\ channel_ # NoFd)
                 /\ UNCHANGED <<state_, sockfd_, retryDelayMs_, channel_, registered, open, gaveUp>>
    BY DEF RunTimer, Without
  <1>2. PICK rest : rest = Without(timers, i)
    OBVIOUS
  <1>3. timers \in Seq(TimerKinds) /\ i \in DOMAIN timers
    BY <1>1, LenProperties, <1>0 DEF LoopTypes
  <1>4. /\ rest \in Seq(TimerKinds)
        /\ \A x : Has(rest, x) => Has(timers, x)
        /\ \A x : x # timers[i] /\ Has(timers, x) => Has(rest, x)
        /\ \A x : Once(timers, x) => Once(rest, x)
        /\ Once(timers, timers[i]) => ~Has(rest, timers[i])
    BY <1>2, <1>3, TimerRemoved
  <1>5. UNCHANGED <<connect_, functors, pc, left, due, client, cconnect_, connection_, conn, watched, eof, detached,
                    restarting, other, stopped, overruled>>
    BY <1>1 DEF clientVars, connVars
  <1>6. QueueStep({}, {}) /\ functors \in Seq(ClientFunctors)
    BY <1>0, <1>5, QueueSame DEF QueueTypes
  <1>10. /\ careless' \in BOOLEAN /\ (careless => careless')
         /\ ~careless' => ~careless /\ ~Overtakes(timers[i])
    BY <1>0, <1>1 DEF ClientTypes
  <1>7. CASE timers[i] = "start" /\ StartInLoop(state_, retryDelayMs_, rest)
    <2>1. Has(timers, "start") /\ (Has(rest, "removeConnector") <=> Has(timers, "removeConnector"))
      BY <1>3, <1>4, <1>7 DEF Has
    <2>2. ASSUME ~careless'
          PROVE  /\ state_ = "kDisconnected" /\ channel_ = NoFd /\ ~Bound("reset")
                 /\ ~Has(rest, "start") /\ ~Starting' /\ (~client => ~connect_')
      <3>0. ~Bound("reset")
        BY <1>6, <1>7, <1>10, <2>2, QueueMeaning DEF Overtakes
      <3>1. ~Starting /\ state_ = "kDisconnected" /\ ~Bound("reset")
        BY <1>0, <1>10, <2>1, <2>2, <3>0 DEF StartInv, AttemptInv
      <3>2. channel_ = NoFd /\ ~Has(rest, "start") /\ (~client => ~connect_)
        BY <1>0, <1>4, <1>7, <1>10, <2>1, <2>2, <3>1 DEF AttemptInv, GoneInv
      <3>3. ~Starting'
        BY <1>5, <3>1 DEF Starting, StartsLater, Bound
      <3>4. QED
        BY <1>5, <3>1, <3>2, <3>3
    <2>3. connect_' \in BOOLEAN /\ cconnect_' \in BOOLEAN /\ stopped' \in BOOLEAN /\ overruled' \in BOOLEAN
      BY <1>0, <1>5 DEF ConnectorTypes, ClientTypes
    <2>4. /\ "timer" \notin ready' /\ ready' \subseteq ready /\ restarting' = FALSE
          /\ (stopped' => stopped)
          /\ stopped' /\ ~overruled' /\ ~StopsLater => ~overruled /\ connect_' = connect_
      BY <1>5
    <2>5. QED
      BY <1>4, <1>6, <1>7, <1>10, <2>1, <2>2, <2>3, <2>4, AttemptStarts DEF clientVars
  <1>8. CASE /\ timers[i] = "removeConnector" /\ timers' = rest
             /\ failed' = (~client /\ timers' = <<>> /\ channel_ # NoFd)
             /\ UNCHANGED <<state_, sockfd_, retryDelayMs_, channel_, registered, open, gaveUp>>
    <2>1. failed' \in BOOLEAN /\ "timer" \notin ready'
      BY <1>8
    <2>2. Has(rest, "start") <=> Has(timers, "start")
      BY <1>4, <1>8
    <2>3. Types'
      BY <1>0, <1>4, <1>5, <1>8, <1>10, <2>1 DEF Types, ConnectorTypes, QueueTypes, LoopTypes, ClientTypes
    <2>4. OpenInv'
      <3>1. Attempted' = Attempted
        BY <1>8 DEF Attempted
      <3>2. QED
        BY <1>0, <1>5, <1>8, <3>1 DEF OpenInv, Queued
    <2>5. \A op : Bound(op)' <=> Bound(op)
      BY <1>5 DEF Bound
    <2>6. StopInv' /\ TryInv'
      BY <1>0, <1>5, <1>8, <2>2, <2>5 DEF StopInv, TryInv, StartsLater, StopsLater
    <2>7. ASSUME ~careless' PROVE LifeInv' /\ failed' = FALSE
      <3>0. /\ StartInv /\ AttemptInv /\ TimerInv /\ GoneInv
            /\ \A c \in Fds : ConnInv(c)
        BY <1>0, <1>10, <2>7
      <3>1. state_ # "kConnecting" /\ \A op \in ConnectorFunctors : ~Bound(op)
        <4>1. \A op \in ConnectorFunctors : ~Bound(op)
          BY <1>6, <1>8, <1>10, <2>7, QueueMeaning DEF Overtakes
        <4>2. ~client /\ ~Bound("stop")
          BY <1>3, <1>8, <3>0, <4>1 DEF TimerInv, Has, ConnectorFunctors
        <4>3. QED
          BY <3>0, <4>1, <4>2 DEF GoneInv
      <3>2. channel_ = NoFd /\ ~Bound("reset")
        BY <3>0, <3>1 DEF AttemptInv, ConnectorFunctors
      <3>3. failed' = FALSE
        BY <1>8, <3>2
      <3>4. StartInv'
        <4>1. Starting' <=> Starting
          BY <1>5, <2>5 DEF Starting, StartsLater
        <4>2. QED
          BY <1>5, <1>8, <2>2, <2>5, <3>0, <4>1 DEF StartInv, StartsLater
      <3>5. AttemptInv'
        BY <1>4, <1>5, <1>8, <2>2, <2>5, <3>0, <3>2 DEF AttemptInv
      <3>6. TimerInv'
        BY <1>4, <1>5, <1>8, <2>1, <3>0 DEF TimerInv
      <3>7. GoneInv'
        BY <1>5, <1>8, <2>2, <2>5, <3>0, <3>1 DEF GoneInv
      <3>8. ASSUME NEW c \in Fds PROVE ConnInv(c)'
        <4>1. SameConnQueue(c)
          BY <1>6, ConnQueueKept
        <4>2. QED
          BY <1>5, <2>5, <3>0, <4>1, ConnUntouched
      <3>9. QED
        BY <3>3, <3>4, <3>5, <3>6, <3>7, <3>8 DEF LifeInv
    <2>8. (failed' => careless') /\ (~careless' => LifeInv')
      BY <1>10, <2>1, <2>7
    <2>9. QED
      BY <2>3, <2>4, <2>6, <2>8 DEF ClientInv
  <1>9. QED
    BY <1>1, <1>2, <1>7, <1>8 DEF Without

-----------------------------------------------------------------------------
(* The loop.                                                               *)

\* handleEvent() of one channel: a connection's, the Connector's or the timerfd's
LEMMA DispatchStep ==
    ASSUME ClientInv, NEW r \in Fds \cup {"connector", "timer"}, Dispatch(r)
    PROVE  ClientInv'
  <1>0. failed = FALSE /\ restarting = FALSE
    BY DEF Dispatch, Idle, ClientInv, Types, ConnectorTypes, ClientTypes
  <1>1. /\ ConnectorTypes /\ QueueTypes /\ LoopTypes /\ ClientTypes /\ OpenInv /\ StopInv /\ TryInv
        /\ ~careless => /\ StartInv /\ AttemptInv /\ TimerInv /\ GoneInv
                        /\ \A c \in Fds : ConnInv(c)
    BY <1>0, LivingState
  <1>2. /\ pc = "dispatch" /\ r \in ready /\ ready' = ready \ {r}
        /\ UNCHANGED <<pc, left, due, other, calls, stopped, overruled>>
        /\ UNCHANGED careless => UNCHANGED historyVars
    BY DEF Dispatch, historyVars
  <1>3. CASE /\ r \in Fds \ eof
             /\ UNCHANGED <<connectorVars, open, functors, timers, failed, clientVars, connVars, restarting,
                            careless>>
    <2>1. UNCHANGED <<conn, watched, detached>> /\ eof' \subseteq Fds /\ ready' \subseteq ready
      BY <1>1, <1>2, <1>3 DEF connVars, ClientTypes
    <2>2. QED
      BY <1>0, <1>2, <1>3, <2>1, QuietStep
  <1>4. CASE r \in eof /\ HandleClose(r, functors) /\ UNCHANGED <<connectorVars, open, timers, careless>>
    <2>1. r \in Fds
      BY <1>1, <1>4 DEF ClientTypes
    <2>2. /\ watched' = watched \ {r}
          /\ functors' = Append(functors, Functor("destroyed", r))
          /\ IF r \in detached
             THEN failed' = ~IsOpen(r) /\ UNCHANGED <<connection_, restarting>>
             ELSE /\ failed' = (~IsOpen(r) \/ ~client \/ connection_ # r)
                  /\ connection_' = NoFd /\ restarting' = Reconnects
          /\ UNCHANGED <<client, retry_, cconnect_, conn, eof, detached, cb>>
      BY <1>4 DEF HandleClose, QueueDestroyed
    <2>3. QueueStep({}, {Functor("destroyed", r)})
      <3>1. Functor("destroyed", r) \in ClientFunctors
        BY <2>1, FunctorIsPair DEF ConnOps
      <3>2. QED
        BY <1>1, <1>2, <2>2, <3>1, QueueAppend
    <2>5. careless' \in BOOLEAN /\ (~careless' => ~careless /\ r \in watched)
      BY <1>1, <1>2, <1>4, <2>1 DEF ClientTypes, ConnInv
    <2>6. ready' \subseteq ready \ {r}
      BY <1>2
    <2>7. QED
      BY <1>0, <1>2, <1>4, <2>1, <2>2, <2>3, <2>5, <2>6, CloseStep
  <1>5. CASE /\ r = "connector" /\ Established(functors) /\ NewConnection(sockfd_)
             /\ UNCHANGED <<open, careless>>
    BY <1>0, <1>2, <1>5, NewConnectionStep
  <1>6. CASE /\ r = "connector" /\ (Abandoned(functors) \/ HandleFailure(functors))
             /\ UNCHANGED <<clientVars, connVars, cb, restarting, careless>>
    <2>1. /\ state_ = "kConnecting" /\ registered' = FALSE /\ CloseSocket
          /\ functors' = Append(functors, Functor("reset", NoFd))
          /\ \/ state_' = "kConnected" /\ timers' = timers
             \/ state_' = "kDisconnected" /\ timers' = IF connect_ THEN Append(timers, "start") ELSE timers
          /\ UNCHANGED <<connect_, sockfd_, channel_, gaveUp>>
      BY <1>6 DEF Abandoned, HandleFailure, Abandon, RemoveAndResetChannel, Retry, RetryTimer
    <2>2. QueueStep({}, {Functor("reset", NoFd)})
      <3>1. Functor("reset", NoFd) \in ClientFunctors
        BY FunctorIsPair DEF ConnectorFunctors
      <3>2. QED
        BY <1>1, <1>2, <2>1, <3>1, QueueAppend
    <2>3. ready' \subseteq ready
      BY <1>2
    <2>4. QED
      BY <1>0, <1>2, <1>6, <2>1, <2>2, <2>3, AttemptEnds
  <1>7. CASE r = "timer" /\ RunTimer /\ UNCHANGED <<clientVars, connVars, cb, restarting>>
    BY <1>0, <1>2, <1>7, TimerStep
  <1>8. QED
    BY <1>3, <1>4, <1>5, <1>6, <1>7 DEF Dispatch

\* A step that only moves the loop on: poll() has returned, every active channel
\* has been handled, or every functor has run.
LEMMA LoopMoves ==
    ASSUME ClientInv, failed = FALSE,
           UNCHANGED <<connectorVars, open, functors, timers, failed, clientVars, connVars, restarting, other,
                       historyVars>>,
           LoopTypes', left' \in Nat, left' <= Len(functors),
           "timer" \in ready' => 1 <= due',
           ~careless /\ state_ = "kConnected" =>
              /\ pc' = "poll" => ~Bound("reset")
              /\ pc' = "functors" => Within(functors, Functor("reset", NoFd), left'),
           \A c \in Fds : ~careless /\ c \in ready' => c \in watched /\ (connection_ = c => ~Bound("reset"))
    PROVE  ClientInv'
  <1>0. /\ ConnectorTypes /\ QueueTypes /\ LoopTypes /\ ClientTypes /\ OpenInv /\ StopInv /\ TryInv
        /\ ~careless => /\ StartInv /\ AttemptInv /\ TimerInv /\ GoneInv
                        /\ \A c \in Fds : ConnInv(c)
    BY LivingState
  <1>1. /\ UNCHANGED <<connect_, state_, sockfd_, channel_, registered, gaveUp, open, functors, timers, failed,
                       client, cconnect_, connection_, conn, watched, eof, detached, restarting, other, stopped,
                       overruled, careless>>
    BY DEF connectorVars, clientVars, connVars, historyVars
  <1>2. Types'
    BY <1>0, <1>1 DEF Types, ConnectorTypes, QueueTypes, ClientTypes
  <1>3. (\A op : Bound(op)' <=> Bound(op)) /\ (\A op, c : Queued(op, c)' <=> Queued(op, c))
    BY <1>1 DEF Bound, Queued
  <1>4. OpenInv'
    <2>1. Attempted' = Attempted
      BY <1>1 DEF Attempted
    <2>2. QED
      BY <1>0, <1>1, <1>3, <2>1 DEF OpenInv
  <1>5. StopInv' /\ TryInv'
    BY <1>0, <1>1, <1>3 DEF StopInv, TryInv, StartsLater, StopsLater
  <1>6. ASSUME ~careless PROVE LifeInv'
    <2>0. /\ StartInv /\ AttemptInv /\ TimerInv /\ GoneInv
          /\ \A c \in Fds : ConnInv(c)
      BY <1>0, <1>6
    <2>1. StartInv'
      <3>1. Starting' <=> Starting
        BY <1>1, <1>3 DEF Starting, StartsLater
      <3>2. QED
        BY <1>1, <1>3, <2>0, <3>1 DEF StartInv, StartsLater
    <2>2. AttemptInv'
      BY <1>1, <1>3, <1>6, <2>0 DEF AttemptInv
    <2>3. TimerInv'
      BY <1>1, <2>0 DEF TimerInv
    <2>4. GoneInv'
      BY <1>1, <1>3, <2>0 DEF GoneInv
    <2>5. ASSUME NEW c \in Fds PROVE ConnInv(c)'
      <3>1. IsOpen(c)' <=> IsOpen(c)
        BY <1>1 DEF IsOpen
      <3>2. QED
        BY <1>1, <1>3, <1>6, <2>0, <3>1 DEF ConnInv
    <2>6. QED
      BY <2>1, <2>2, <2>3, <2>4, <2>5 DEF LifeInv
  <1>7. QED
    BY <1>1, <1>2, <1>4, <1>5, <1>6 DEF ClientInv

\* poll() returns.  A connection has no event before the Connector has let go of its
\* channel.
LEMMA PollStep ==
    ASSUME ClientInv, NEW some \in SUBSET (Fds \cup {"connector", "timer"}), some \subseteq Pollable, Poll(some)
    PROVE  ClientInv'
  <1>0. failed = FALSE
    BY DEF Poll, Idle, ClientInv, Types, ConnectorTypes
  <1>1. /\ ConnectorTypes /\ QueueTypes /\ LoopTypes /\ ClientTypes /\ OpenInv /\ StopInv /\ TryInv
        /\ ~careless => /\ StartInv /\ AttemptInv /\ TimerInv /\ GoneInv
                        /\ \A c \in Fds : ConnInv(c)
    BY <1>0, LivingState
  <1>2. /\ pc = "poll" /\ ready' = some /\ due' = Len(timers) /\ pc' = "dispatch" /\ left' = left
        /\ UNCHANGED <<connectorVars, open, functors, timers, failed, clientVars, connVars, restarting, other,
                       historyVars>>
    BY DEF Poll
  <1>3. timers \in Seq(TimerKinds) /\ Len(timers) \in Nat
    BY <1>1, LenProperties DEF LoopTypes
  <1>4. LoopTypes'
    BY <1>1, <1>2, <1>3 DEF LoopTypes
  <1>5. left' \in Nat /\ left' <= Len(functors)
    BY <1>1, <1>2 DEF QueueTypes
  <1>6. "timer" \in ready' => 1 <= due'
    <2>1. "timer" \in ready' => timers # <<>>
      BY <1>1, <1>2, ClientAssumption DEF Pollable, ClientTypes
    <2>2. timers # <<>> => 1 <= Len(timers)
      BY <1>3, EmptySeq
    <2>3. QED
      BY <1>2, <2>1, <2>2
  <1>7. ASSUME NEW c \in Fds, ~careless, c \in ready'
        PROVE  c \in watched /\ (connection_ = c => ~Bound("reset"))
    <2>1. c \in watched
      BY <1>2, <1>7, ClientAssumption DEF Pollable
    <2>2. connection_ = c => ~Bound("reset")
      BY <1>1, <1>2, <1>7, ConnectorAssumption DEF AttemptInv, OpenInv
    <2>3. QED
      BY <2>1, <2>2
  <1>8. pc' # "poll" /\ pc' # "functors"
    BY <1>2
  <1>9. QED
    BY <1>0, <1>2, <1>4, <1>5, <1>6, <1>7, <1>8, LoopMoves

\* doPendingFunctors() begins.
LEMMA DispatchEndsStep ==
    ASSUME ClientInv, DispatchEnds
    PROVE  ClientInv'
  <1>0. failed = FALSE
    BY DEF DispatchEnds, Idle, ClientInv, Types, ConnectorTypes
  <1>1. ConnectorTypes /\ QueueTypes /\ LoopTypes /\ ClientTypes
    BY <1>0, LivingState
  <1>2. /\ pc' = "functors" /\ left' = Len(functors) /\ due' = 0 /\ ready' = {}
        /\ UNCHANGED <<connectorVars, open, functors, timers, failed, clientVars, connVars, restarting, other,
                       historyVars>>
    BY DEF DispatchEnds
  <1>3. Len(functors) \in Nat /\ DOMAIN functors = 1 .. Len(functors)
    BY <1>1, LenProperties DEF QueueTypes
  <1>4. LoopTypes' /\ left' \in Nat /\ left' <= Len(functors)
    BY <1>1, <1>2, <1>3 DEF LoopTypes
  <1>5. Within(functors, Functor("reset", NoFd), left')
    BY <1>2, <1>3 DEF Within
  <1>6. QED
    BY <1>0, <1>2, <1>4, <1>5, LoopMoves

\* doPendingFunctors() ends; what it found queued has run, resetChannel() too.
LEMMA IterationEndsStep ==
    ASSUME ClientInv, IterationEnds
    PROVE  ClientInv'
  <1>0. failed = FALSE
    BY DEF IterationEnds, Idle, ClientInv, Types, ConnectorTypes
  <1>1. /\ ConnectorTypes /\ QueueTypes /\ LoopTypes /\ ClientTypes
        /\ ~careless => AttemptInv
    BY <1>0, LivingState
  <1>2. /\ pc = "functors" /\ left = 0 /\ pc' = "poll" /\ ready' = {} /\ left' = left /\ due' = due
        /\ UNCHANGED <<connectorVars, open, functors, timers, failed, clientVars, connVars, restarting, other,
                       historyVars>>
    BY <1>1 DEF IterationEnds, LoopTypes
  <1>3. LoopTypes' /\ left' \in Nat /\ left' <= Len(functors)
    BY <1>1, <1>2 DEF LoopTypes, QueueTypes
  <1>4. ASSUME ~careless, state_ = "kConnected" PROVE ~Bound("reset")
    <2>1. Within(functors, Functor("reset", NoFd), 0)
      BY <1>1, <1>2, <1>4 DEF AttemptInv
    <2>2. DOMAIN functors = 1 .. Len(functors) /\ Len(functors) \in Nat
      BY <1>1, LenProperties DEF QueueTypes
    <2>3. QED
      BY <2>1, <2>2 DEF Within, Bound, Has
  <1>5. QED
    BY <1>0, <1>2, <1>3, <1>4, LoopMoves

\* One functor of doPendingFunctors()
LEMMA RunFunctorStep ==
    ASSUME ClientInv, RunFunctor
    PROVE  ClientInv'
  <1>0. failed = FALSE /\ restarting = FALSE
    BY DEF RunFunctor, Idle, ClientInv, Types, ConnectorTypes, ClientTypes
  <1>1. /\ ConnectorTypes /\ QueueTypes /\ LoopTypes /\ ClientTypes /\ OpenInv /\ StopInv /\ TryInv
        /\ ~careless => /\ StartInv /\ AttemptInv /\ TimerInv /\ GoneInv
                        /\ \A c \in Fds : ConnInv(c)
    BY <1>0, LivingState
  <1>2. /\ pc = "functors" /\ ready = {} /\ left > 0 /\ left' = left - 1
        /\ careless' = (careless \/ ClosesAgain)
        /\ UNCHANGED <<pc, ready, due, other, calls, stopped, overruled>>
    BY <1>1 DEF RunFunctor, LoopTypes
  <1>3. functors \in Seq(ClientFunctors) /\ functors # <<>>
    <2>1. Len(functors) # 0
      BY <1>1, <1>2, LenProperties DEF QueueTypes
    <2>2. QED
      BY <1>1, <2>1, EmptySeq DEF QueueTypes
  <1>4. PICK f \in ClientFunctors : f = Head(functors)
    BY <1>3, HeadTailProperties
  <1>5. PICK q : q = Tail(functors)
    OBVIOUS
  <1>6. functors' = q => QueueStep({f}, {})
    BY <1>1, <1>2, <1>3, <1>4, <1>5, QueuePop
  <1>7. ASSUME NEW g \in ClientFunctors, g # f, functors' = Append(q, g) PROVE QueueStep({f}, {g})
    BY <1>1, <1>2, <1>3, <1>4, <1>5, <1>7, QueuePopAppend
  <1>8. \/ \E op \in ConnectorFunctors : f = Functor(op, NoFd)
        \/ \E op \in ConnOps, c \in Fds : f = Functor(op, c)
    BY FunctorIsPair
  <1>9. Has(functors, f)
    <2>1. 1 \in DOMAIN functors /\ functors[1] = f
      BY <1>3, <1>4, LenProperties, EmptySeq
    <2>2. QED
      BY <2>1 DEF Has
  <1>10. f.op # "forceClose" => careless' = careless
    BY <1>1, <1>2, <1>4 DEF ClosesAgain, ClientTypes
  <1>11. CASE /\ f.op = "start" /\ UNCHANGED connect_ /\ StartInLoop(state_, retryDelayMs_, timers)
              /\ functors' = q /\ UNCHANGED <<clientVars, connVars, cb, restarting>>
    <2>1. f = Functor("start", NoFd) /\ Bound("start")
      <3>1. "start" \notin ConnOps
        BY DEF ConnOps
      <3>2. f = Functor("start", NoFd)
        BY <1>8, <1>11, <3>1, FunctorIsPair
      <3>3. QED
        BY <1>9, <3>2 DEF Bound
    <2>2. QueueStep({f}, {}) /\ careless' = careless
      BY <1>6, <1>10, <1>11
    <2>3. ASSUME ~careless'
          PROVE  /\ state_ = "kDisconnected" /\ channel_ = NoFd /\ ~Bound("reset")
                 /\ ~Has(timers, "start") /\ ~Starting' /\ (~client => ~connect_')
      <3>0. ~careless
        BY <2>2, <2>3
      <3>1. Starting /\ ~StartsLater /\ Once(functors, f)
        BY <1>1, <2>1, <3>0 DEF StartInv, Starting
      <3>2. ~Bound("start")'
        BY <2>1, <2>2, <3>1 DEF QueueStep, Bound
      <3>3. ~Starting'
        BY <1>2, <3>1, <3>2 DEF Starting, StartsLater
      <3>4. ~client => ~connect_'
        BY <1>1, <1>11, <2>1, <3>0 DEF GoneInv
      <3>5. QED
        BY <1>1, <3>0, <3>1, <3>3, <3>4 DEF StartInv
    <2>4. /\ connect_' \in BOOLEAN /\ cconnect_' \in BOOLEAN /\ ready' \subseteq ready /\ restarting' = FALSE
          /\ timers \in Seq(TimerKinds) /\ UNCHANGED <<client, connection_>>
          /\ stopped' \in BOOLEAN /\ overruled' \in BOOLEAN /\ careless' \in BOOLEAN
      BY <1>0, <1>1, <1>2, <1>11, <2>2 DEF ConnectorTypes, ClientTypes, LoopTypes, clientVars
    <2>5. /\ (stopped' => stopped)
          /\ stopped' /\ ~overruled' /\ ~StopsLater => ~overruled /\ connect_' = connect_
      BY <1>2, <1>11
    <2>6. QED
      BY <1>0, <1>2, <1>11, <2>1, <2>2, <2>3, <2>4, <2>5, AttemptStarts
  <1>12. CASE f.op = "stop" /\ StopInLoop(q) /\ UNCHANGED <<clientVars, connVars, cb, restarting>>
    <2>1. f = Functor("stop", NoFd)
      <3>1. "stop" \notin ConnOps
        BY DEF ConnOps
      <3>2. QED
        BY <1>8, <1>12, <3>1, FunctorIsPair
    <2>2. careless' = careless
      BY <1>10, <1>12
    <2>3. CASE state_ = "kConnecting"
      <3>1. /\ registered' = FALSE /\ CloseSocket
            /\ functors' = Append(q, Functor("reset", NoFd))
            /\ state_' = "kDisconnected" /\ timers' = IF connect_ THEN Append(timers, "start") ELSE timers
            /\ UNCHANGED <<connect_, sockfd_, channel_, gaveUp>>
        BY <1>12, <2>3 DEF StopInLoop, RemoveAndResetChannel, Retry, RetryTimer
      <3>2. QueueStep({f}, {Functor("reset", NoFd)})
        <4>1. Functor("reset", NoFd) \in ClientFunctors /\ Functor("reset", NoFd) # f
          BY <2>1, FunctorIsPair DEF ConnectorFunctors
        <4>2. QED
          BY <1>7, <3>1, <4>1
      <3>3. ready' \subseteq ready /\ UNCHANGED historyVars
        BY <1>2, <2>2 DEF historyVars
      <3>4. QED
        BY <1>0, <1>2, <1>12, <2>1, <2>3, <3>1, <3>2, <3>3, AttemptEnds
    <2>4. CASE state_ # "kConnecting"
      <3>1. functors' = q /\ UNCHANGED <<connectorVars, timers, open, failed>>
        BY <1>12, <2>4 DEF StopInLoop
      <3>2. QueueStep({f}, {}) /\ UNCHANGED historyVars
        BY <1>2, <1>6, <2>2, <3>1 DEF historyVars
      <3>3. UNCHANGED <<connect_, state_, sockfd_, channel_, registered, gaveUp>>
        BY <3>1 DEF connectorVars
      <3>4. QED
        BY <1>0, <1>2, <1>12, <2>1, <2>4, <3>1, <3>2, <3>3, PopStep
    <2>5. QED
      BY <2>3, <2>4
  <1>13. CASE f.op = "reset" /\ ResetChannel(q) /\ UNCHANGED <<clientVars, connVars, cb, restarting>>
    <2>1. f = Functor("reset", NoFd)
      <3>1. "reset" \notin ConnOps
        BY DEF ConnOps
      <3>2. QED
        BY <1>8, <1>13, <3>1, FunctorIsPair
    <2>2. careless' = careless
      BY <1>10, <1>13
    <2>3. QueueStep({f}, {}) /\ UNCHANGED historyVars
      BY <1>2, <1>6, <1>13, <2>2 DEF historyVars, ResetChannel
    <2>4. /\ channel_' = NoFd /\ failed' = registered
          /\ UNCHANGED <<connect_, state_, sockfd_, registered, gaveUp, timers, open>>
      BY <1>13 DEF ResetChannel
    <2>5. QED
      BY <1>0, <1>2, <1>13, <2>1, <2>3, <2>4, PopStep
  <1>14. ASSUME f.op \in ConnOps
         PROVE  \E c \in Fds : f.fd = c /\ f = Functor(f.op, c)
    <2>1. f.op \notin ConnectorFunctors
      BY <1>14 DEF ConnOps, ConnectorFunctors
    <2>2. QED
      BY <1>8, <2>1, FunctorIsPair
  <1>15. CASE f.op = "destroyed" /\ ConnectDestroyed(f.fd, q) /\ UNCHANGED <<connectorVars, open, timers>>
    <2>1. PICK c \in Fds : f.fd = c /\ f = Functor("destroyed", c)
      BY <1>14, <1>15 DEF ConnOps
    <2>2. careless' = careless
      BY <1>10, <1>15
    <2>3. /\ failed' = ~IsOpen(c) /\ conn' = [conn EXCEPT ![c] = "kDisconnected"] /\ watched' = watched \ {c}
          /\ functors' = q /\ UNCHANGED <<clientVars, eof, detached, restarting>>
      BY <1>15, <2>1 DEF ConnectDestroyed
    <2>4. QueueStep({f}, {}) /\ UNCHANGED historyVars
      BY <1>2, <1>6, <2>2, <2>3 DEF historyVars
    <2>5. QED
      BY <1>0, <1>2, <1>15, <2>1, <2>3, <2>4, DestroyedStep
  <1>16. CASE /\ f.op = "forceClose" /\ IsOpen(f.fd) /\ HandleClose(f.fd, q)
              /\ UNCHANGED <<connectorVars, open, timers>>
    <2>1. PICK c \in Fds : f.fd = c /\ f = Functor("forceClose", c)
      BY <1>14, <1>16 DEF ConnOps
    <2>2. /\ watched' = watched \ {c}
          /\ functors' = Append(q, Functor("destroyed", c))
          /\ IF c \in detached
             THEN failed' = ~IsOpen(c) /\ UNCHANGED <<connection_, restarting>>
             ELSE /\ failed' = (~IsOpen(c) \/ ~client \/ connection_ # c)
                  /\ connection_' = NoFd /\ restarting' = Reconnects
          /\ UNCHANGED <<client, retry_, cconnect_, conn, eof, detached, cb>>
      BY <1>16, <2>1 DEF HandleClose, QueueDestroyed
    <2>3. QueueStep({f}, {Functor("destroyed", c)})
      <3>1. Functor("destroyed", c) \in ClientFunctors /\ Functor("destroyed", c) # f
        BY <2>1, FunctorIsPair DEF ConnOps
      <3>2. QED
        BY <1>7, <2>2, <3>1
    <2>4. careless' = (careless \/ c \notin watched)
      BY <1>2, <1>4, <1>16, <2>1 DEF ClosesAgain
    <2>6. careless' \in BOOLEAN /\ (~careless' => ~careless /\ c \in watched)
      BY <2>4
    <2>7. ready' \subseteq ready \ {c}
      BY <1>2
    <2>8. QED
      BY <1>0, <1>2, <1>16, <2>1, <2>2, <2>3, <2>6, <2>7, CloseStep
  <1>17. CASE /\ (f.op = "forceClose" /\ ~IsOpen(f.fd)) \/ f.op = "shutdown"
              /\ functors' = q /\ UNCHANGED <<clientVars, cb, restarting>> /\ Release
              /\ UNCHANGED <<connectorVars, timers>>
    <2>1. PICK c \in Fds : f.fd = c /\ f = Functor(f.op, c)
      BY <1>14, <1>17 DEF ConnOps
    <2>2. careless' = careless
      BY <1>1, <1>2, <1>4, <1>10, <1>17 DEF ClosesAgain, ClientTypes
    <2>3. QueueStep({f}, {}) /\ UNCHANGED historyVars
      BY <1>2, <1>6, <1>17, <2>2 DEF historyVars
    <2>4. SameConnectorQueue /\ QueueTypes'
      <3>1. c # NoFd /\ \A x \in {f} \cup {} : x.fd = c
        BY <2>1, ConnectorAssumption
      <3>2. SameConnectorQueue
        BY <2>3, <3>1, ConnectorQueueKept
      <3>3. QED
        BY <2>3, <3>2 DEF QueueStep
    <2>5. ASSUME NEW d \in Fds
          PROVE  /\ Queued("destroyed", d)' <=> Queued("destroyed", d)
                 /\ Queued("forceClose", d)' => Queued("forceClose", d)
                 /\ IsOpen(d) /\ Queued("forceClose", d) => Queued("forceClose", d)'
                 /\ Queued("shutdown", d)' => Queued("shutdown", d)
                 /\ Once(functors, Functor("destroyed", d)) => Once(functors', Functor("destroyed", d))
                 /\ Precedes(functors, Functor("shutdown", d), Functor("destroyed", d)) =>
                        Precedes(functors', Functor("shutdown", d), Functor("destroyed", d))
      <3>1. Functor("destroyed", d) \notin {f}
        BY <1>17, FunctorIsPair
      <3>2. IsOpen(d) => Functor("forceClose", d) \notin {f}
        BY <1>17, FunctorIsPair
      <3>3. QED
        BY <2>3, <3>1, <3>2 DEF QueueStep, Queued
    <2>6. QED
      BY <1>0, <1>2, <1>17, <2>3, <2>4, <2>5, ReleaseStep
  <1>18. QED
    BY <1>4, <1>5, <1>11, <1>12, <1>13, <1>15, <1>16, <1>17 DEF RunFunctor

\* A callback returns; the connection may go with it.
LEMMA CallbackReturnsStep ==
    ASSUME ClientInv, CallbackReturns
    PROVE  ClientInv'
  <1>0. failed = FALSE
    BY DEF CallbackReturns, ClientInv, Types, ConnectorTypes
  <1>1. QueueTypes
    BY <1>0, LivingState
  <1>2. /\ UNCHANGED <<functors, left, pc, ready, due, connectorVars, timers, clientVars, restarting, other,
                       historyVars>>
        /\ Release
    BY DEF CallbackReturns, loopVars, clientVars
  <1>3. QueueStep({}, {})
    BY <1>1, <1>2, QueueSame
  <1>4. SameConnectorQueue /\ QueueTypes'
    <2>1. SameConnectorQueue
      BY <1>3, ConnectorQueueKept
    <2>2. QED
      BY <1>3, <2>1 DEF QueueStep
  <1>5. \A op, c : Queued(op, c)' <=> Queued(op, c)
    BY <1>2 DEF Queued
  <1>6. QED
    BY <1>0, <1>2, <1>4, <1>5, ReleaseStep

\* The steps that a call of the other thread still has to take.
LEMMA ElementOfThree ==
    ASSUME NEW a, NEW b, NEW c, NEW i \in DOMAIN <<a, b, c>>
    PROVE  <<a, b, c>>[i] = a \/ <<a, b, c>>[i] = b \/ <<a, b, c>>[i] = c
  OBVIOUS
\* The same, for two steps.
LEMMA ElementOfTwo ==
    ASSUME NEW a, NEW b, NEW i \in DOMAIN <<a, b>> PROVE <<a, b>>[i] = a \/ <<a, b>>[i] = b
  OBVIOUS
\* The same, for one step.
LEMMA ElementOfOne == ASSUME NEW a, NEW i \in DOMAIN <<a>> PROVE <<a>>[i] = a
  OBVIOUS
\* The same, for no steps.
LEMMA ElementOfNone == ASSUME NEW i \in DOMAIN <<>> PROVE FALSE
  OBVIOUS

\* A stop() of the other thread that has passed its connect_ = false
LEMMA NoMoreFalse ==
    ASSUME other \in Remains, ~StopsLater, NEW i \in DOMAIN other
    PROVE  other[i] # "connect_ = false"
  <1>1. other \in {<<>>, Connect3, Connect2, Connect1, Stop1, Disconnect2, Disconnect1}
    BY DEF Remains, StopsLater
  <1>2. CASE other = <<>>
    BY <1>2, ElementOfNone
  <1>3. CASE other = Connect3
    <2>1. other[i] = "want" \/ other[i] = "connect_ = true" \/ other[i] = "queue start"
      BY <1>3, ElementOfThree, Zenon DEF Connect3
    <2>2. QED
      BY <2>1, Zenon
  <1>4. CASE other = Connect2
    <2>1. other[i] = "connect_ = true" \/ other[i] = "queue start"
      BY <1>4, ElementOfTwo, Zenon DEF Connect2
    <2>2. QED
      BY <2>1, Zenon
  <1>5. CASE other = Connect1
    <2>1. other[i] = "queue start"
      BY <1>5, ElementOfOne, Zenon DEF Connect1
    <2>2. QED
      BY <2>1, Zenon
  <1>6. CASE other = Stop1
    <2>1. other[i] = "queue stop"
      BY <1>6, ElementOfOne, Zenon DEF Stop1
    <2>2. QED
      BY <2>1, Zenon
  <1>7. CASE other = Disconnect2
    <2>1. other[i] = "do not want" \/ other[i] = "shutdown"
      BY <1>7, ElementOfTwo, Zenon DEF Disconnect2
    <2>2. QED
      BY <2>1, Zenon
  <1>8. CASE other = Disconnect1
    <2>1. other[i] = "shutdown"
      BY <1>8, ElementOfOne, Zenon DEF Disconnect1
    <2>2. QED
      BY <2>1, Zenon
  <1>9. QED
    BY <1>1, <1>2, <1>3, <1>4, <1>5, <1>6, <1>7, <1>8

\* connector_->restart() after the connection has closed
LEMMA RestartStep ==
    ASSUME ClientInv, RestartConnector
    PROVE  ClientInv'
  <1>0. failed = FALSE /\ restarting /\ restarting' = FALSE
    BY DEF RestartConnector, ClientInv, Types, ConnectorTypes
  <1>1. /\ ConnectorTypes /\ QueueTypes /\ LoopTypes /\ ClientTypes /\ OpenInv /\ StopInv /\ TryInv
        /\ ~careless => /\ StartInv /\ AttemptInv /\ TimerInv /\ GoneInv
                        /\ \A c \in Fds : ConnInv(c)
    BY <1>0, LivingState
  <1>2. /\ connect_' = TRUE /\ StartInLoop("kDisconnected", kInitRetryDelayMs, timers)
        /\ overruled' = (overruled \/ (stopped /\ \A i \in DOMAIN other : other[i] # "connect_ = false"))
        /\ UNCHANGED <<functors, pc, ready, left, due, client, cconnect_, connection_, connVars, other, stopped,
                       careless>>
    BY DEF RestartConnector, Restart, loopVars, clientVars
  <1>3. client /\ state_ = "kConnected"
    BY <1>0, <1>1 DEF OpenInv
  <1>4. ASSUME ~careless'
        PROVE  channel_ = NoFd /\ ~Bound("reset") /\ ~Has(timers, "start") /\ ~Starting'
    <2>1. ~careless
      BY <1>2, <1>4
    <2>2. ~Bound("reset") /\ channel_ = NoFd /\ ~Starting /\ ~Has(timers, "start")
      BY <1>0, <1>1, <1>3, <2>1 DEF AttemptInv, StartInv
    <2>3. ~Starting'
      BY <1>2, <2>2 DEF Starting, StartsLater, Bound
    <2>4. QED
      BY <2>2, <2>3
  <1>5. QueueStep({}, {})
    BY <1>1, <1>2, QueueSame
  <1>6. stopped /\ ~StopsLater => overruled'
    BY <1>1, <1>2, NoMoreFalse DEF ClientTypes
  <1>7. /\ connect_' \in BOOLEAN /\ cconnect_' \in BOOLEAN /\ ready' \subseteq ready
        /\ stopped' \in BOOLEAN /\ overruled' \in BOOLEAN /\ careless' \in BOOLEAN
        /\ timers \in Seq(TimerKinds) /\ (stopped' => stopped) /\ (careless => careless')
    BY <1>1, <1>2 DEF ClientTypes, LoopTypes
  <1>8. QED
    BY <1>0, <1>2, <1>3, <1>4, <1>5, <1>6, <1>7, AttemptStarts

\* The peer of a connection closes.
LEMMA PeerClosesStep ==
    ASSUME ClientInv, NEW c \in Fds, PeerCloses(c)
    PROVE  ClientInv'
  <1>0. failed = FALSE
    BY DEF PeerCloses, ClientInv, Types, ConnectorTypes
  <1>1. ClientTypes
    BY <1>0, LivingState
  <1>2. /\ UNCHANGED <<connectorVars, open, functors, timers, pc, left, due, failed, clientVars, conn, watched,
                       detached, restarting, other, historyVars>>
        /\ ready' \subseteq ready /\ eof' \subseteq Fds
    BY <1>1 DEF PeerCloses, loopVars, ClientTypes
  <1>3. QED
    BY <1>0, <1>2, QuietStep

-----------------------------------------------------------------------------
(* The program's calls.                                                    *)

\* A Connector that has nothing to do.
Free == state_ = "kDisconnected" /\ ~Bound("reset") /\ ~Has(timers, "start")

\* Busy, in terms of what is queued.
LEMMA BusyMeaning ==
    ASSUME QueueTypes
    PROVE  ~Busy <=> Free /\ ~Bound("start")
  <1>1. functors \in Seq(ClientFunctors)
    BY DEF QueueTypes
  <1>2. IsQueued({"start", "reset"}) <=> Bound("start") \/ Bound("reset")
    BY <1>1, QueueMeaning
  <1>3. QED
    BY <1>2 DEF Busy, Free, Has

\* A call that only leaves a functor behind, or sets connection_ on its way down:
\* TcpConnection::shutdown() finds the connection watched, and so before its
\* connectDestroyed().
LEMMA CallStep ==
    ASSUME ClientInv, failed = FALSE, client = TRUE, NEW new, QueueStep({}, new),
           \/ conn' = conn /\ (new = {} \/ new = {Functor("start", NoFd)} \/ new = {Functor("stop", NoFd)})
           \/ /\ connection_ \in Fds /\ conn[connection_] = "kConnected"
              /\ conn' = [conn EXCEPT ![connection_] = "kDisconnecting"]
              /\ new = {} \/ new = {Functor("shutdown", connection_)},
           UNCHANGED <<state_, sockfd_, channel_, registered, gaveUp, timers, open, pc, ready, due, failed, client,
                       connection_, watched, eof, detached, restarting>>,
           connect_' \in BOOLEAN, cconnect_' \in BOOLEAN, other' \in Remains,
           stopped' \in BOOLEAN, overruled' \in BOOLEAN, careless' \in BOOLEAN, careless => careless',
           ~careless' => /\ Starting' => Starting \/ Free
                         /\ StartsLater' => ~Bound("start")'
                         /\ Functor("start", NoFd) \in new => ~Bound("start"),
           StopInv', TryInv'
    PROVE  ClientInv'
  <1>0. /\ ConnectorTypes /\ QueueTypes /\ LoopTypes /\ ClientTypes /\ OpenInv /\ StopInv /\ TryInv
        /\ ~careless => /\ StartInv /\ AttemptInv /\ TimerInv /\ GoneInv
                        /\ \A c \in Fds : ConnInv(c)
    BY LivingState
  <1>1. /\ conn' \in [Fds -> ConnStates]
        /\ \A c \in Fds : conn'[c] = conn[c] \/ /\ c = connection_ /\ conn[c] = "kConnected"
                                                /\ conn'[c] = "kDisconnecting"
    BY <1>0 DEF ClientTypes, ConnStates
  <1>2. \A c \in Fds : (IsOpen(c)' <=> IsOpen(c)) /\ (conn'[c] = "none" <=> conn[c] = "none")
    BY <1>1 DEF IsOpen
  <1>3. \A op \in {"destroyed", "forceClose", "reset"}, c \in Fds \cup {NoFd} : Functor(op, c) \notin new
    BY FunctorIsPair
  <1>4. /\ Bound("reset")' <=> Bound("reset")
        /\ Once(functors, Functor("reset", NoFd)) => Once(functors', Functor("reset", NoFd))
        /\ Within(functors, Functor("reset", NoFd), left) => Within(functors', Functor("reset", NoFd), left')
        /\ \A c \in Fds : Queued("forceClose", c)' <=> Queued("forceClose", c)
        /\ \A c \in Fds : Queued("destroyed", c)' <=> Queued("destroyed", c)
        /\ \A c \in Fds : Once(functors, Functor("destroyed", c)) => Once(functors', Functor("destroyed", c))
    <2>1. /\ Functor("reset", NoFd) \notin new
          /\ \A c \in Fds : Functor("forceClose", c) \notin new /\ Functor("destroyed", c) \notin new
      BY <1>3
    <2>2. QED
      BY <2>1 DEF QueueStep, Bound, Queued
  <1>5. Types'
    BY <1>0, <1>1 DEF Types, ConnectorTypes, LoopTypes, ClientTypes, QueueStep
  <1>6. OpenInv'
    <2>1. Attempted' = Attempted
      BY DEF Attempted
    <2>2. connection_ # NoFd => connection_ \in Fds
      BY <1>0 DEF ClientTypes
    <2>3. QED
      BY <1>0, <1>2, <1>4, <2>1, <2>2 DEF OpenInv
  <1>7. ASSUME ~careless' PROVE LifeInv'
    <2>0. /\ StartInv /\ AttemptInv /\ TimerInv /\ GoneInv
          /\ \A c \in Fds : ConnInv(c)
      BY <1>0, <1>7
    <2>1. StartInv'
      <3>1. Once(functors', Functor("start", NoFd))
        BY <1>7, <2>0 DEF QueueStep, StartInv, Bound
      <3>2. Free => channel_ = NoFd
        BY <2>0 DEF Free, AttemptInv
      <3>3. QED
        BY <1>4, <1>7, <2>0, <3>1, <3>2 DEF StartInv, Free
    <2>2. AttemptInv'
      BY <1>4, <2>0 DEF AttemptInv
    <2>3. TimerInv' /\ GoneInv'
      BY <2>0 DEF TimerInv, GoneInv
    <2>4. ASSUME NEW c \in Fds PROVE ConnInv(c)'
      <3>1. Functor("shutdown", c) \notin new => /\ Queued("shutdown", c)' => Queued("shutdown", c)
                                                 /\ Precedes(functors', Functor("shutdown", c), Functor("destroyed", c))
        BY <2>0 DEF QueueStep, Queued, ConnInv
      <3>2. ASSUME Functor("shutdown", c) \in new
            PROVE  IsOpen(c) /\ Precedes(functors', Functor("shutdown", c), Functor("destroyed", c))
        <4>1. c = connection_ /\ Functor("destroyed", c) # Functor("shutdown", c)
          BY <3>2, FunctorIsPair
        <4>2. IsOpen(c) /\ ~Queued("destroyed", c)
          BY <2>0, <4>1 DEF ConnInv
        <4>3. QED
          BY <3>2, <4>1, <4>2 DEF QueueStep, Queued
      <3>3. Queued("shutdown", c)' => IsOpen(c)
        BY <2>0, <3>1, <3>2 DEF ConnInv
      <3>4. QED
        BY <1>2, <1>4, <2>0, <3>1, <3>2, <3>3 DEF ConnInv
    <2>5. QED
      BY <2>1, <2>2, <2>3, <2>4 DEF LifeInv
  <1>8. QED
    BY <1>5, <1>6, <1>7 DEF ClientInv

\* Calls of the loop thread
LEMMA CallInLoopStep ==
    ASSUME ClientInv, NEW name \in Calls, CallInLoop(name)
    PROVE  ClientInv'
  <1>0. failed = FALSE /\ client = TRUE /\ restarting = FALSE
    BY DEF CallInLoop, InLoopThread, Call, ClientInv, Types, ConnectorTypes, ClientTypes
  <1>1. /\ ConnectorTypes /\ QueueTypes /\ LoopTypes /\ ClientTypes /\ OpenInv /\ StopInv /\ TryInv
        /\ ~careless => /\ StartInv /\ AttemptInv /\ TimerInv /\ GoneInv
                        /\ \A c \in Fds : ConnInv(c)
    BY <1>0, LivingState
  <1>2. /\ other = <<>> /\ cconnect_' \in BOOLEAN
        /\ stopped' = (name = "stop" \/ (stopped /\ name # "connect"))
        /\ overruled' = (overruled /\ name # "stop")
        /\ careless' = (careless \/ (name = "connect" /\ Busy))
        /\ UNCHANGED <<pc, ready, left, due, client, connection_, watched, eof, detached, restarting, other>>
    BY DEF CallInLoop, Call, loopVars
  <1>3. /\ stopped' \in BOOLEAN /\ overruled' \in BOOLEAN /\ careless' \in BOOLEAN
        /\ careless => careless'
    BY <1>2
  <1>4. ~StartsLater /\ ~StopsLater /\ other # Stop1 /\ other # Connect1 /\ <<>> \in Remains
    BY <1>2, OtherRemains DEF StartsLater, StopsLater, Remains
  <1>5. ~StartsLater' /\ ~StopsLater'
    BY <1>2, <1>4 DEF StartsLater, StopsLater
  <1>6. CASE name = "connect"
    <2>1. /\ connect_' = TRUE /\ StartInLoop(state_, retryDelayMs_, timers)
          /\ UNCHANGED <<functors, conn>>
      BY <1>6 DEF CallInLoop
    <2>2. ASSUME ~careless'
          PROVE  /\ state_ = "kDisconnected" /\ channel_ = NoFd /\ ~Bound("reset")
                 /\ ~Has(timers, "start") /\ ~Starting'
      <3>1. ~careless /\ Free /\ ~Bound("start")
        BY <1>1, <1>2, <1>6, <2>2, BusyMeaning
      <3>2. channel_ = NoFd
        BY <1>1, <3>1 DEF Free, AttemptInv
      <3>3. ~Starting'
        BY <1>5, <2>1, <3>1 DEF Starting, Bound
      <3>4. QED
        BY <3>1, <3>2, <3>3 DEF Free
    <2>3. QueueStep({}, {})
      BY <1>1, <1>2, <2>1, QueueSame
    <2>4. ~stopped'
      BY <1>2, <1>6
    <2>5. /\ connect_' \in BOOLEAN /\ ready' \subseteq ready /\ restarting' = FALSE
          /\ timers \in Seq(TimerKinds) /\ UNCHANGED connVars
      BY <1>0, <1>1, <1>2, <2>1 DEF LoopTypes, connVars
    <2>6. QED
      BY <1>0, <1>2, <1>3, <2>1, <2>2, <2>3, <2>4, <2>5, AttemptStarts
  <1>7. CASE name = "stop"
    <2>1. /\ connect_' = FALSE /\ functors' = Append(functors, Functor("stop", NoFd))
          /\ UNCHANGED <<state_, sockfd_, channel_, registered, gaveUp, timers, open, failed, conn>>
      BY <1>7 DEF CallInLoop
    <2>2. QueueStep({}, {Functor("stop", NoFd)})
      <3>1. Functor("stop", NoFd) \in ClientFunctors
        BY FunctorIsPair DEF ConnectorFunctors
      <3>2. QED
        BY <1>1, <1>2, <2>1, <3>1, QueueAppend
    <2>3. Functor("start", NoFd) # Functor("stop", NoFd)
      BY FunctorIsPair
    <2>4. (Bound("start")' <=> Bound("start")) /\ Bound("stop")'
      BY <2>2, <2>3 DEF QueueStep, Bound
    <2>6. StopInv' /\ TryInv'
      BY <1>5, <2>1, <2>4 DEF StopInv, TryInv
    <2>7. Starting' => Starting
      BY <1>5, <2>4 DEF Starting
    <2>8. connect_' \in BOOLEAN /\ other' \in Remains /\ Functor("start", NoFd) \notin {Functor("stop", NoFd)}
      BY <1>2, <1>4, <2>1, <2>3
    <2>9. QED
      BY <1>0, <1>2, <1>3, <1>5, <2>1, <2>2, <2>6, <2>7, <2>8, CallStep
  <1>8. CASE name = "disconnect"
    <2>1. /\ UNCHANGED <<connect_, state_, sockfd_, channel_, registered, gaveUp, timers, open, failed, functors>>
          /\ \/ conn' = conn
             \/ /\ connection_ # NoFd /\ conn[connection_] = "kConnected"
                /\ conn' = [conn EXCEPT ![connection_] = "kDisconnecting"]
      BY <1>8 DEF CallInLoop, Shutdown, connectorVars
    <2>2. QueueStep({}, {})
      BY <1>1, <1>2, <2>1, QueueSame
    <2>3. \A op : Bound(op)' <=> Bound(op)
      BY <2>1 DEF Bound
    <2>4. (stopped' <=> stopped) /\ (overruled' <=> overruled)
      BY <1>2, <1>8
    <2>5. StopInv' /\ TryInv'
      BY <1>1, <1>2, <1>4, <1>5, <2>1, <2>3, <2>4 DEF StopInv, TryInv
    <2>6. Starting' => Starting
      BY <1>5, <2>3 DEF Starting
    <2>7. connect_' \in BOOLEAN /\ other' \in Remains /\ (connection_ # NoFd => connection_ \in Fds)
      BY <1>1, <1>2, <1>4, <2>1 DEF ConnectorTypes, ClientTypes
    <2>8. QED
      BY <1>0, <1>2, <1>3, <1>5, <2>1, <2>2, <2>5, <2>6, <2>7, CallStep
  <1>9. QED
    BY <1>6, <1>7, <1>8 DEF Calls

\* A call of the other thread begins.
LEMMA CallFromOtherStep ==
    ASSUME ClientInv, NEW name \in Calls, CallFromOther(name)
    PROVE  ClientInv'
  <1>0. failed = FALSE /\ client = TRUE
    BY DEF CallFromOther, Call, ClientInv, Types, ConnectorTypes, ClientTypes
  <1>1. /\ ConnectorTypes /\ QueueTypes /\ LoopTypes /\ ClientTypes /\ OpenInv /\ StopInv /\ TryInv
        /\ ~careless => StartInv
    BY <1>0, LivingState
  <1>2. /\ other = <<>> /\ other' = StepsOf(name)
        /\ stopped' = (name = "stop" \/ (stopped /\ name # "connect"))
        /\ overruled' = (overruled /\ name # "stop")
        /\ careless' = (careless \/ (name = "connect" /\ Busy))
        /\ UNCHANGED <<connect_, state_, sockfd_, channel_, registered, gaveUp, open, functors, timers, pc, ready,
                       left, due, failed, client, cconnect_, connection_, conn, watched, eof, detached, restarting>>
    BY DEF CallFromOther, Call, connectorVars, loopVars, clientVars, connVars
  <1>3. /\ stopped' \in BOOLEAN /\ overruled' \in BOOLEAN /\ careless' \in BOOLEAN
        /\ careless => careless'
    BY <1>2
  <1>4. ~StartsLater /\ ~StopsLater /\ other # Stop1 /\ other # Connect1
    BY <1>2, OtherRemains DEF StartsLater, StopsLater
  <1>5. QueueStep({}, {})
    BY <1>1, <1>2, QueueSame
  <1>6. \A op : Bound(op)' <=> Bound(op)
    BY <1>2 DEF Bound
  <1>7. /\ name = "connect" => other' = Connect3
        /\ name = "stop" => other' = Stop3
        /\ name = "disconnect" => other' = Disconnect2
    BY <1>2, OtherRemains
  <1>8. connect_' \in BOOLEAN /\ cconnect_' \in BOOLEAN
    BY <1>1, <1>2 DEF ConnectorTypes, ClientTypes
  <1>9. /\ other' \in Remains
        /\ StartsLater' <=> name = "connect"
        /\ StopsLater' <=> name = "stop"
    BY <1>7, OtherRemains DEF Calls, StartsLater, StopsLater, Remains
  <1>10. StopInv'
    BY <1>1, <1>2, <1>4, <1>6, <1>9 DEF StopInv
  <1>11. TryInv'
    BY <1>1, <1>2, <1>4, <1>6 DEF TryInv
  <1>12. ASSUME ~careless'
         PROVE  (Starting' => Starting \/ Free) /\ (StartsLater' => ~Bound("start")')
    <2>1. name = "connect" => Free /\ ~Bound("start")
      BY <1>1, <1>2, <1>12, BusyMeaning
    <2>2. QED
      BY <1>6, <1>9, <2>1 DEF Starting
  <1>13. QED
    BY <1>0, <1>2, <1>3, <1>5, <1>8, <1>9, <1>10, <1>11, <1>12, CallStep

\* What a step of the other thread comes to.
LEMMA OtherOutcome ==
    ASSUME other \in Remains, OtherStep
    PROVE  \/ /\ \/ other = Connect3 /\ other' = Connect2
                 \/ other = Stop3 /\ other' = Stop2
                 \/ other = Disconnect2 /\ other' = Disconnect1
              /\ UNCHANGED <<connect_, functors, conn>>
           \/ other = Connect2 /\ other' = Connect1 /\ connect_' = TRUE /\ UNCHANGED <<functors, conn>>
           \/ other = Stop2 /\ other' = Stop1 /\ connect_' = FALSE /\ UNCHANGED <<functors, conn>>
           \/ /\ other = Connect1 /\ other' = <<>> /\ UNCHANGED <<connect_, conn>>
              /\ functors' = Append(functors, Functor("start", NoFd))
           \/ /\ other = Stop1 /\ other' = <<>> /\ UNCHANGED <<connect_, conn>>
              /\ functors' = Append(functors, Functor("stop", NoFd))
           \/ other = Disconnect1 /\ other' = <<>> /\ UNCHANGED connect_ /\ Shutdown(FALSE)
  <1>1. other # <<>> /\ other' = Tail(other)
    BY DEF OtherStep
  <1>2. other \in {Connect3, Connect2, Connect1, Stop3, Stop2, Stop1, Disconnect2, Disconnect1}
    BY <1>1 DEF Remains
  <1>3. PICK s : s = Head(other)
    OBVIOUS
  <1>4. /\ connect_' = CASE s = "connect_ = true" -> TRUE
                         [] s = "connect_ = false" -> FALSE
                         [] OTHER -> connect_
        /\ CASE s = "queue start" -> functors' = Append(functors, Functor("start", NoFd)) /\ UNCHANGED conn
             [] s = "queue stop" -> functors' = Append(functors, Functor("stop", NoFd)) /\ UNCHANGED conn
             [] s = "shutdown" -> Shutdown(FALSE)
             [] OTHER -> UNCHANGED <<functors, conn>>
    BY <1>3, Zenon DEF OtherStep
  <1>5. /\ s = "connect_ = true" => connect_' = TRUE
        /\ s = "connect_ = false" => connect_' = FALSE
        /\ s # "connect_ = true" /\ s # "connect_ = false" => connect_' = connect_
    BY <1>4, Zenon
  <1>6. /\ s = "queue start" => functors' = Append(functors, Functor("start", NoFd)) /\ UNCHANGED conn
        /\ s = "queue stop" => functors' = Append(functors, Functor("stop", NoFd)) /\ UNCHANGED conn
        /\ s = "shutdown" => Shutdown(FALSE)
        /\ s \notin {"queue start", "queue stop", "shutdown"} => UNCHANGED <<functors, conn>>
    BY <1>4, Zenon
  <1>7. CASE other = Connect3
    <2>0. Head(Connect3) = "want" /\ Tail(Connect3) = Connect2
      BY TailOfThree DEF Connect3, Connect2
    <2>1. s = "want"
      BY <1>1, <1>3, <1>7, <2>0, Zenon
    <2>2. other' = Connect2
      BY <1>1, <1>3, <1>7, <2>0, Zenon
    <2>3. UNCHANGED <<connect_, functors, conn>>
      BY <1>5, <1>6, <2>1, Zenon
    <2>4. QED
      BY <1>7, <2>2, <2>3
  <1>8. CASE other = Connect2
    <2>0. Head(Connect2) = "connect_ = true" /\ Tail(Connect2) = Connect1
      BY TailOfTwo DEF Connect2, Connect1
    <2>1. s = "connect_ = true"
      BY <1>1, <1>3, <1>8, <2>0, Zenon
    <2>2. other' = Connect1
      BY <1>1, <1>3, <1>8, <2>0, Zenon
    <2>3. connect_' = TRUE /\ UNCHANGED <<functors, conn>>
      BY <1>5, <1>6, <2>1, Zenon
    <2>4. QED
      BY <1>8, <2>2, <2>3
  <1>9. CASE other = Connect1
    <2>0. Head(Connect1) = "queue start" /\ Tail(Connect1) = <<>>
      BY TailOfOne DEF Connect1
    <2>1. s = "queue start"
      BY <1>1, <1>3, <1>9, <2>0, Zenon
    <2>2. other' = <<>>
      BY <1>1, <1>3, <1>9, <2>0, Zenon
    <2>3. UNCHANGED connect_
      BY <1>5, <2>1, Zenon
    <2>4. functors' = Append(functors, Functor("start", NoFd)) /\ UNCHANGED conn
      BY <1>6, <2>1, Zenon
    <2>5. QED
      BY <1>9, <2>2, <2>3, <2>4
  <1>10. CASE other = Stop3
    <2>0. Head(Stop3) = "do not want" /\ Tail(Stop3) = Stop2
      BY TailOfThree DEF Stop3, Stop2
    <2>1. s = "do not want"
      BY <1>1, <1>3, <1>10, <2>0, Zenon
    <2>2. other' = Stop2
      BY <1>1, <1>3, <1>10, <2>0, Zenon
    <2>3. UNCHANGED <<connect_, functors, conn>>
      BY <1>5, <1>6, <2>1, Zenon
    <2>4. QED
      BY <1>10, <2>2, <2>3
  <1>11. CASE other = Stop2
    <2>0. Head(Stop2) = "connect_ = false" /\ Tail(Stop2) = Stop1
      BY TailOfTwo DEF Stop2, Stop1
    <2>1. s = "connect_ = false"
      BY <1>1, <1>3, <1>11, <2>0, Zenon
    <2>2. other' = Stop1
      BY <1>1, <1>3, <1>11, <2>0, Zenon
    <2>3. connect_' = FALSE /\ UNCHANGED <<functors, conn>>
      BY <1>5, <1>6, <2>1, Zenon
    <2>4. QED
      BY <1>11, <2>2, <2>3
  <1>12. CASE other = Stop1
    <2>0. Head(Stop1) = "queue stop" /\ Tail(Stop1) = <<>>
      BY TailOfOne DEF Stop1
    <2>1. s = "queue stop"
      BY <1>1, <1>3, <1>12, <2>0, Zenon
    <2>2. other' = <<>>
      BY <1>1, <1>3, <1>12, <2>0, Zenon
    <2>3. UNCHANGED connect_
      BY <1>5, <2>1, Zenon
    <2>4. functors' = Append(functors, Functor("stop", NoFd)) /\ UNCHANGED conn
      BY <1>6, <2>1, Zenon
    <2>5. QED
      BY <1>12, <2>2, <2>3, <2>4
  <1>13. CASE other = Disconnect2
    <2>0. Head(Disconnect2) = "do not want" /\ Tail(Disconnect2) = Disconnect1
      BY TailOfTwo DEF Disconnect2, Disconnect1
    <2>1. s = "do not want"
      BY <1>1, <1>3, <1>13, <2>0, Zenon
    <2>2. other' = Disconnect1
      BY <1>1, <1>3, <1>13, <2>0, Zenon
    <2>3. UNCHANGED <<connect_, functors, conn>>
      BY <1>5, <1>6, <2>1, Zenon
    <2>4. QED
      BY <1>13, <2>2, <2>3
  <1>14. CASE other = Disconnect1
    <2>0. Head(Disconnect1) = "shutdown" /\ Tail(Disconnect1) = <<>>
      BY TailOfOne DEF Disconnect1
    <2>1. s = "shutdown"
      BY <1>1, <1>3, <1>14, <2>0, Zenon
    <2>2. other' = <<>>
      BY <1>1, <1>3, <1>14, <2>0, Zenon
    <2>3. UNCHANGED connect_
      BY <1>5, <2>1, Zenon
    <2>4. Shutdown(FALSE)
      BY <1>6, <2>1, Zenon
    <2>5. QED
      BY <1>14, <2>2, <2>3, <2>4
  <1>15. QED
    BY <1>2, <1>7, <1>8, <1>9, <1>10, <1>11, <1>12, <1>13, <1>14

\* A step of the other thread's call.  The client exists until it has returned.
LEMMA OtherStepStep ==
    ASSUME ClientInv, OtherStep
    PROVE  ClientInv'
  <1>0. failed = FALSE /\ other # <<>>
    BY Zenon DEF OtherStep, ClientInv, Types, ConnectorTypes
  <1>1. /\ ConnectorTypes /\ QueueTypes /\ LoopTypes /\ ClientTypes /\ OpenInv /\ StopInv /\ TryInv
        /\ ~careless => StartInv
    BY <1>0, LivingState
  <1>2. client = TRUE /\ (~careless => StartInv)
    BY <1>0, <1>1 DEF OpenInv, ClientTypes
  <1>3. UNCHANGED <<state_, sockfd_, retryDelayMs_, channel_, registered, gaveUp, open, timers, loopVars, failed,
                    client, retry_, connection_, watched, eof, detached, cb, restarting, historyVars>>
    BY Zenon DEF OtherStep
  <1>4. UNCHANGED <<state_, sockfd_, channel_, registered, gaveUp, timers, open, pc, ready, left, due, failed, client,
                    connection_, watched, eof, detached, restarting, stopped, overruled, careless>>
    BY <1>3 DEF loopVars, historyVars
  <1>5. cconnect_' \in BOOLEAN
    <2>1. PICK s : s = Head(other)
      OBVIOUS
    <2>2. cconnect_' = CASE s = "want" -> TRUE [] s = "do not want" -> FALSE [] OTHER -> cconnect_
      BY <2>1, Zenon DEF OtherStep
    <2>3. QED
      BY <1>1, <2>2 DEF ClientTypes
  <1>6. other \in Remains
    BY <1>1 DEF ClientTypes
  <1>7. /\ stopped' \in BOOLEAN /\ overruled' \in BOOLEAN /\ careless' \in BOOLEAN
        /\ careless <=> careless'
    BY <1>1, <1>4 DEF ClientTypes
  <1>8. connect_ \in BOOLEAN
    BY <1>1 DEF ConnectorTypes
  <1>9. CASE /\ \/ other = Connect3 /\ other' = Connect2
                \/ other = Stop3 /\ other' = Stop2
                \/ other = Disconnect2 /\ other' = Disconnect1
             /\ UNCHANGED <<connect_, functors, conn>>
    <2>1. /\ other' \in Remains /\ other # Connect1 /\ other # Stop1
          /\ StartsLater' <=> StartsLater
          /\ StopsLater' <=> StopsLater
      <3>1. other' \in Remains
        BY <1>9 DEF Remains
      <3>2. CASE other = Connect3 /\ other' = Connect2
        BY <3>1, <3>2, OtherRemains DEF StartsLater, StopsLater
      <3>3. CASE other = Stop3 /\ other' = Stop2
        BY <3>1, <3>3, OtherRemains DEF StartsLater, StopsLater
      <3>4. CASE other = Disconnect2 /\ other' = Disconnect1
        BY <3>1, <3>4, OtherRemains DEF StartsLater, StopsLater
      <3>5. QED
        BY <1>9, <3>2, <3>3, <3>4
    <2>2. QueueStep({}, {})
      BY <1>1, <1>4, <1>9, QueueSame
    <2>3. \A op : Bound(op)' <=> Bound(op)
      BY <1>9 DEF Bound
    <2>4. StopInv' /\ TryInv'
      BY <1>1, <1>4, <1>9, <2>1, <2>3 DEF StopInv, TryInv
    <2>5. ~careless' => (Starting' => Starting) /\ (StartsLater' => ~Bound("start")')
      BY <1>2, <1>4, <2>1, <2>3 DEF Starting, StartInv
    <2>6. QED
      BY <1>0, <1>2, <1>4, <1>5, <1>7, <1>8, <1>9, <2>1, <2>2, <2>4, <2>5, CallStep
  <1>10. CASE other = Connect2 /\ other' = Connect1 /\ connect_' = TRUE /\ UNCHANGED <<functors, conn>>
    <2>1. other' \in Remains /\ StartsLater' /\ StartsLater
      BY <1>10 DEF Remains, StartsLater
    <2>2. QueueStep({}, {})
      BY <1>1, <1>4, <1>10, QueueSame
    <2>3. \A op : Bound(op)' <=> Bound(op)
      BY <1>10 DEF Bound
    <2>4. StopInv' /\ TryInv'
      BY <1>1, <1>4, <1>10, <2>1 DEF StopInv, TryInv
    <2>5. Starting /\ (~careless' => ~Bound("start")')
      BY <1>2, <1>4, <2>1, <2>3 DEF Starting, StartInv
    <2>6. QED
      BY <1>0, <1>2, <1>4, <1>5, <1>7, <1>10, <2>1, <2>2, <2>4, <2>5, CallStep
  <1>11. CASE other = Stop2 /\ other' = Stop1 /\ connect_' = FALSE /\ UNCHANGED <<functors, conn>>
    <2>1. other' \in Remains /\ ~StartsLater'
      BY <1>11, OtherRemains DEF Remains, StartsLater
    <2>2. QueueStep({}, {})
      BY <1>1, <1>4, <1>11, QueueSame
    <2>3. \A op : Bound(op)' <=> Bound(op)
      BY <1>11 DEF Bound
    <2>4. StopInv' /\ TryInv'
      BY <1>1, <1>4, <1>11, <2>1 DEF StopInv, TryInv
    <2>5. Starting' => Starting
      BY <2>1, <2>3 DEF Starting
    <2>6. QED
      BY <1>0, <1>2, <1>4, <1>5, <1>7, <1>11, <2>1, <2>2, <2>4, <2>5, CallStep
  <1>12. CASE /\ other = Connect1 /\ other' = <<>> /\ UNCHANGED <<connect_, conn>>
              /\ functors' = Append(functors, Functor("start", NoFd))
    <2>1. /\ other' \in Remains /\ StartsLater /\ ~StartsLater'
      BY <1>12, OtherRemains DEF Remains, StartsLater
    <2>2. QueueStep({}, {Functor("start", NoFd)})
      <3>1. Functor("start", NoFd) \in ClientFunctors
        BY FunctorIsPair DEF ConnectorFunctors
      <3>2. QED
        BY <1>1, <1>4, <1>12, <3>1, QueueAppend
    <2>3. Bound("start")' /\ (~careless' => ~Bound("start")) /\ Starting
      BY <1>2, <1>4, <2>1, <2>2 DEF QueueStep, Bound, StartInv, Starting
    <2>4. StopInv' /\ TryInv'
      BY <1>1, <1>4, <2>1, <2>3 DEF StopInv, TryInv
    <2>5. QED
      BY <1>0, <1>2, <1>4, <1>5, <1>7, <1>8, <1>12, <2>1, <2>2, <2>3, <2>4, CallStep
  <1>13. CASE /\ other = Stop1 /\ other' = <<>> /\ UNCHANGED <<connect_, conn>>
              /\ functors' = Append(functors, Functor("stop", NoFd))
    <2>1. other' \in Remains /\ ~StartsLater' /\ ~StopsLater
      BY <1>13, OtherRemains DEF Remains, StartsLater, StopsLater
    <2>2. QueueStep({}, {Functor("stop", NoFd)})
      <3>1. Functor("stop", NoFd) \in ClientFunctors
        BY FunctorIsPair DEF ConnectorFunctors
      <3>2. QED
        BY <1>1, <1>4, <1>13, <3>1, QueueAppend
    <2>3. Functor("start", NoFd) # Functor("stop", NoFd) /\ other # Connect1
      <3>1. Functor("start", NoFd) # Functor("stop", NoFd)
        BY FunctorIsPair
      <3>2. other # Connect1
        BY <1>13, OtherRemains
      <3>3. QED
        BY <3>1, <3>2
    <2>4. (Bound("start")' <=> Bound("start")) /\ Bound("stop")'
      BY <2>2, <2>3 DEF QueueStep, Bound
    <2>5. StopInv'
      BY <1>1, <1>4, <1>13, <2>1, <2>4 DEF StopInv
    <2>6. TryInv'
      BY <1>1, <1>4, <1>13, <2>3, <2>4 DEF TryInv
    <2>7. Starting' => Starting
      BY <2>1, <2>4 DEF Starting
    <2>8. QED
      BY <1>0, <1>2, <1>4, <1>5, <1>7, <1>8, <1>13, <2>1, <2>2, <2>3, <2>5, <2>6, <2>7, CallStep
  <1>14. CASE other = Disconnect1 /\ other' = <<>> /\ UNCHANGED connect_ /\ Shutdown(FALSE)
    <2>1. /\ other' \in Remains /\ ~StartsLater' /\ ~StopsLater /\ other # Connect1 /\ other # Stop1
      BY <1>14, OtherRemains DEF Remains, StartsLater, StopsLater
    <2>2. \/ conn' = conn /\ functors' = functors
          \/ /\ connection_ # NoFd /\ conn[connection_] = "kConnected"
             /\ conn' = [conn EXCEPT ![connection_] = "kDisconnecting"]
             /\ functors' = Append(functors, Functor("shutdown", connection_))
      BY <1>14 DEF Shutdown
    <2>3. ASSUME NEW new, QueueStep({}, new), \A op : Functor(op, NoFd) \notin new,
                 \/ conn' = conn /\ new = {}
                 \/ /\ connection_ \in Fds /\ conn[connection_] = "kConnected"
                    /\ conn' = [conn EXCEPT ![connection_] = "kDisconnecting"]
                    /\ new = {Functor("shutdown", connection_)}
          PROVE  ClientInv'
      <3>1. \A op : Bound(op)' <=> Bound(op)
        BY <2>3 DEF QueueStep, Bound
      <3>2. StopInv'
        BY <1>1, <1>4, <1>14, <2>1, <3>1 DEF StopInv
      <3>3. TryInv'
        BY <1>1, <1>4, <1>14, <2>1, <3>1 DEF TryInv
      <3>4. Starting' => Starting
        BY <2>1, <3>1 DEF Starting
      <3>5. QED
        BY <1>0, <1>2, <1>4, <1>5, <1>7, <1>8, <1>14, <2>1, <2>3, <3>2, <3>3, <3>4, CallStep
    <2>4. CASE conn' = conn /\ functors' = functors
      <3>1. QueueStep({}, {})
        BY <1>1, <1>4, <2>4, QueueSame
      <3>2. QED
        BY <2>3, <2>4, <3>1
    <2>5. CASE /\ connection_ # NoFd /\ conn[connection_] = "kConnected"
               /\ conn' = [conn EXCEPT ![connection_] = "kDisconnecting"]
               /\ functors' = Append(functors, Functor("shutdown", connection_))
      <3>1. connection_ \in Fds
        BY <1>1, <2>5 DEF ClientTypes
      <3>2. Functor("shutdown", connection_) \in ClientFunctors
        BY <3>1, FunctorIsPair DEF ConnOps
      <3>3. PICK f \in ClientFunctors : f = Functor("shutdown", connection_)
        BY <3>2
      <3>4. QueueStep({}, {f})
        BY <1>1, <1>4, <2>5, <3>3, QueueAppend
      <3>5. \A op : Functor(op, NoFd) \notin {f}
        BY <2>5, <3>3, FunctorIsPair
      <3>6. QED
        BY <2>3, <2>5, <3>1, <3>3, <3>4, <3>5
    <2>6. QED
      BY <2>2, <2>4, <2>5
  <1>15. QED
    BY <1>6, <1>9, <1>10, <1>11, <1>12, <1>13, <1>14, OtherOutcome

\* ~TcpClient with a connection: when it is the only one to have it, and nothing of
\* the Connector is queued, forceClose() closes the connection.
LEMMA DestroyConnected ==
    ASSUME ClientInv, Destroy, connection_ # NoFd
    PROVE  ClientInv'
  <1>0. failed = FALSE /\ client = TRUE /\ restarting = FALSE /\ other = <<>>
    BY DEF Destroy, InLoopThread, ClientInv, Types, ConnectorTypes, ClientTypes
  <1>1. /\ ConnectorTypes /\ QueueTypes /\ LoopTypes /\ ClientTypes /\ OpenInv /\ StopInv /\ TryInv
        /\ ~careless => /\ StartInv /\ AttemptInv /\ TimerInv /\ GoneInv
                        /\ \A c \in Fds : ConnInv(c)
    BY <1>0, LivingState
  <1>3. PICK c \in Fds : c = connection_
    BY <1>1 DEF ClientTypes
  <1>4. /\ client' = FALSE /\ connection_' = NoFd /\ detached' = detached \cup {c}
        /\ IF Unique
           THEN /\ functors' = Append(functors, Functor("forceClose", c))
                /\ conn' = [conn EXCEPT ![c] = "kDisconnecting"]
           ELSE UNCHANGED <<functors, conn>>
        /\ careless' = (careless \/ ~Unique \/ ConnectorIsBound)
        /\ failed' = (timers = <<>> /\ channel_ # NoFd)
        /\ UNCHANGED <<connect_, timers, state_, sockfd_, channel_, registered, gaveUp, open, pc, ready, left, due,
                       cconnect_, watched, eof, restarting, other, stopped, overruled>>
    BY <1>3 DEF Destroy, loopVars
  <1>5. conn[c] # "none" /\ state_ = "kConnected" /\ c # NoFd
    BY <1>1, <1>3, ConnectorAssumption DEF OpenInv
  <1>6. /\ conn' \in [Fds -> ConnStates] /\ conn'[c] # "none" /\ (IsOpen(c) => IsOpen(c)')
        /\ \A d \in Fds \ {c} : conn'[d] = conn[d]
    BY <1>1, <1>4, <1>5 DEF ClientTypes, ConnStates, IsOpen
  <1>7. \A d \in Fds : conn'[d] = "none" <=> conn[d] = "none"
    BY <1>5, <1>6
  <1>8. PICK new : QueueStep({}, new) /\ new = IF Unique THEN {Functor("forceClose", c)} ELSE {}
    <2>1. CASE Unique
      <3>1. PICK f \in ClientFunctors : f = Functor("forceClose", c)
        BY FunctorIsPair DEF ConnOps
      <3>2. QueueStep({}, {f})
        BY <1>1, <1>4, <2>1, <3>1, QueueAppend
      <3>3. QED
        BY <2>1, <3>1, <3>2
    <2>2. CASE ~Unique
      <3>1. QueueStep({}, {})
        BY <1>1, <1>4, <2>2, QueueSame
      <3>2. QED
        BY <2>2, <3>1
    <2>3. QED
      BY <2>1, <2>2
  <1>9. \A x \in {} \cup new : x.fd = c
    BY <1>8, FunctorIsPair
  <1>10. SameConnectorQueue
    BY <1>5, <1>8, <1>9, ConnectorQueueKept
  <1>11. /\ Bound("start")' <=> Bound("start")
         /\ Bound("stop")' <=> Bound("stop")
         /\ Bound("reset")' <=> Bound("reset")
    BY <1>10 DEF SameConnectorQueue, ConnectorFunctors
  <1>12. failed' \in BOOLEAN /\ careless' \in BOOLEAN
    BY <1>4
  <1>13. Types'
    <2>1. QueueTypes'
      BY <1>8 DEF QueueStep
    <2>2. QED
      <3>1. ConnectorTypes'
        BY <1>1, <1>4, <1>12 DEF ConnectorTypes
      <3>2. LoopTypes'
        BY <1>1, <1>4 DEF LoopTypes
      <3>3. ClientTypes'
        BY <1>1, <1>4, <1>6, <1>12 DEF ClientTypes
      <3>4. QED
        BY <2>1, <3>1, <3>2, <3>3 DEF Types
  <1>14. OpenInv'
    <2>1. Attempted' = Attempted
      BY <1>4 DEF Attempted
    <2>2. QED
      BY <1>0, <1>1, <1>4, <1>7, <2>1 DEF OpenInv
  <1>15. StopInv' /\ TryInv'
    BY <1>0, <1>1, <1>4, <1>11 DEF StopInv, TryInv, StartsLater, StopsLater
  <1>16. ASSUME ~careless' PROVE LifeInv' /\ failed' = FALSE
    <2>0. /\ StartInv /\ AttemptInv /\ TimerInv /\ GoneInv
          /\ \A d \in Fds : ConnInv(d)
      BY <1>1, <1>4, <1>16
    <2>1. /\ Unique /\ ~ConnectorIsBound /\ ~Starting
          /\ c \in watched /\ c \notin detached /\ IsOpen(c) /\ IsOpen(c)'
          /\ ~Queued("destroyed", c) /\ ~Queued("forceClose", c)
      BY <1>3, <1>4, <1>5, <1>6, <1>16, <2>0 DEF ConnInv, StartInv
    <2>2. \A op \in ConnectorFunctors : ~Bound(op) /\ ~Bound(op)'
      <3>1. functors \in Seq(ClientFunctors)
        BY <1>1 DEF QueueTypes
      <3>2. \A op \in ConnectorFunctors : ~Bound(op)
        BY <2>1, <3>1, QueueMeaning
      <3>3. QED
        BY <1>10, <3>2 DEF SameConnectorQueue
    <2>3. ~Bound("start") /\ ~Bound("stop") /\ ~Bound("reset")
      BY <2>2 DEF ConnectorFunctors
    <2>4. channel_ = NoFd /\ failed' = FALSE
      BY <2>0, <1>4, <1>5, <2>3 DEF AttemptInv
    <2>5. StartInv'
      <3>1. ~Starting'
        BY <1>4, <1>11, <2>1 DEF Starting, StartsLater
      <3>2. QED
        BY <2>0, <1>10, <3>1 DEF StartInv, Starting, SameConnectorQueue
    <2>6. AttemptInv'
      BY <1>0, <2>0, <1>4, <1>10, <1>11 DEF AttemptInv, SameConnectorQueue
    <2>7. TimerInv'
      BY <2>0, <1>4, <1>11, <2>2 DEF TimerInv
    <2>8. GoneInv'
      BY <2>0, <1>4, <1>5, <1>11, <2>2, <2>3 DEF GoneInv, AttemptInv
    <2>9. ConnInv(c)'
      <3>1. /\ Functor("destroyed", c) # Functor("forceClose", c) /\ Functor("shutdown", c) # Functor("forceClose", c)
            /\ new = {Functor("forceClose", c)}
        BY <1>8, <2>1, FunctorIsPair
      <3>2. /\ ~Queued("destroyed", c)' /\ Queued("forceClose", c)'
            /\ Precedes(functors, Functor("shutdown", c), Functor("destroyed", c)) =>
                  Precedes(functors', Functor("shutdown", c), Functor("destroyed", c))
        BY <1>8, <2>1, <3>1 DEF QueueStep, Queued
      <3>3. c \in watched' /\ c \in detached' /\ connection_' # c /\ conn'[c] # "none"
        BY <1>4, <1>5, <1>6, <2>1
      <3>4. QED
        BY <2>0, <2>1, <3>2, <3>3 DEF ConnInv
    <2>10. ASSUME NEW d \in Fds \ {c} PROVE ConnInv(d)'
      <3>1. SameConnQueue(d)
        BY <1>8, <1>9, ConnQueueKept
      <3>2. connection_ # d /\ connection_' # d /\ conn'[d] = conn[d] /\ (d \in detached' <=> d \in detached)
        BY <1>3, <1>4, <1>6, ConnectorAssumption
      <3>3. QED
        BY <2>0, <1>4, <3>1, <3>2, ConnUntouched
    <2>11. QED
      BY <2>4, <2>5, <2>6, <2>7, <2>8, <2>9, <2>10 DEF LifeInv
  <1>17. QED
    BY <1>12, <1>13, <1>14, <1>15, <1>16 DEF ClientInv

\* ~TcpClient without a connection: the Connector stops, and removeConnector()
\* keeps it until then.
LEMMA DestroyUnconnected ==
    ASSUME ClientInv, Destroy, connection_ = NoFd
    PROVE  ClientInv'
  <1>0. failed = FALSE /\ client = TRUE /\ restarting = FALSE /\ other = <<>>
    BY DEF Destroy, InLoopThread, ClientInv, Types, ConnectorTypes, ClientTypes
  <1>1. /\ ConnectorTypes /\ QueueTypes /\ LoopTypes /\ ClientTypes /\ OpenInv /\ StopInv /\ TryInv
        /\ ~careless => /\ StartInv /\ AttemptInv /\ TimerInv /\ GoneInv
                        /\ \A c \in Fds : ConnInv(c)
    BY <1>0, LivingState
  <1>3. /\ client' = FALSE /\ connect_' = FALSE /\ functors' = Append(functors, Functor("stop", NoFd))
        /\ timers' = Append(timers, "removeConnector")
        /\ failed' = (timers' = <<>> /\ channel_ # NoFd)
        /\ connection_' = connection_
        /\ UNCHANGED <<detached, conn, careless, state_, sockfd_, channel_, registered, gaveUp, open, pc, ready, left,
                       due, cconnect_, watched, eof, restarting, other, stopped, overruled>>
    BY DEF Destroy, KeepConnector, loopVars
  <1>4. PICK more : more = timers'
    OBVIOUS
  <1>5. timers \in Seq(TimerKinds) /\ more = Append(timers, "removeConnector")
    BY <1>1, <1>3, <1>4 DEF LoopTypes
  <1>6. /\ more \in Seq(TimerKinds) /\ Len(timers) <= Len(more) /\ Len(timers) \in Nat
        /\ \A i \in 1 .. Len(timers) : more[i] = timers[i]
        /\ Has(timers, "start") => Has(more, "start")
        /\ Has(more, "start") => Has(timers, "start")
        /\ Once(timers, "start") => Once(more, "start")
        /\ Has(more, "removeConnector")
    <2>1. PICK ts \in Seq(TimerKinds) : ts = timers /\ more = Append(ts, "removeConnector")
      BY <1>5
    <2>2. PICK k \in TimerKinds : k = "removeConnector"
      BY DEF TimerKinds
    <2>3. /\ Append(ts, k) \in Seq(TimerKinds) /\ Len(Append(ts, k)) = Len(ts) + 1
          /\ \A i \in 1 .. Len(ts) : Append(ts, k)[i] = ts[i]
          /\ \A x : Has(Append(ts, k), x) <=> Has(ts, x) \/ x = k
          /\ \A x : x # k /\ Once(ts, x) => Once(Append(ts, k), x)
      BY HasAfterAppend
    <2>4. Len(ts) \in Nat /\ "start" # k
      BY <2>2, LenProperties
    <2>5. QED
      BY <2>1, <2>2, <2>3, <2>4
  <1>7. failed' = FALSE
    <2>1. DOMAIN more # {}
      BY <1>6 DEF Has
    <2>2. more # <<>>
      BY <2>1
    <2>3. QED
      BY <1>3, <1>4, <2>2
  <1>8. QueueStep({}, {Functor("stop", NoFd)})
    <2>1. Functor("stop", NoFd) \in ClientFunctors
      BY FunctorIsPair DEF ConnectorFunctors
    <2>2. QED
      BY <1>1, <1>3, <2>1, QueueAppend
  <1>9. /\ Bound("start")' <=> Bound("start")
        /\ Bound("reset")' <=> Bound("reset")
        /\ Bound("stop")'
        /\ Once(functors, Functor("start", NoFd)) => Once(functors', Functor("start", NoFd))
        /\ Once(functors, Functor("reset", NoFd)) => Once(functors', Functor("reset", NoFd))
        /\ Within(functors, Functor("reset", NoFd), left) => Within(functors', Functor("reset", NoFd), left')
    <2>1. Functor("start", NoFd) # Functor("stop", NoFd) /\ Functor("reset", NoFd) # Functor("stop", NoFd)
      BY FunctorIsPair
    <2>2. QED
      BY <1>8, <2>1 DEF QueueStep, Bound
  <1>10. Types'
    <2>1. QueueTypes'
      BY <1>8 DEF QueueStep
    <2>2. "timer" \in ready' => due' <= Len(timers')
      <3>1. Len(more) \in Nat
        BY <1>6, LenProperties
      <3>2. QED
        BY <1>1, <1>3, <1>4, <1>6, <3>1 DEF LoopTypes
    <2>3. ConnectorTypes'
      BY <1>1, <1>3, <1>7 DEF ConnectorTypes
    <2>4. LoopTypes'
      BY <1>1, <1>3, <1>4, <1>6, <2>2 DEF LoopTypes
    <2>5. ClientTypes'
      BY <1>1, <1>3 DEF ClientTypes
    <2>6. QED
      BY <2>1, <2>3, <2>4, <2>5 DEF Types
  <1>11. OpenInv'
    <2>1. Attempted' = Attempted
      BY <1>3 DEF Attempted
    <2>2. QED
      BY <1>0, <1>1, <1>3, <1>9, <2>1 DEF OpenInv
  <1>12. StopInv' /\ TryInv'
    BY <1>1, <1>3, <1>9 DEF StopInv, TryInv, StartsLater
  <1>13. ASSUME ~careless' PROVE LifeInv'
    <2>0. /\ StartInv /\ AttemptInv /\ TimerInv /\ GoneInv
          /\ \A c \in Fds : ConnInv(c)
      BY <1>1, <1>3, <1>13
    <2>1. StartInv'
      <3>1. Starting' <=> Starting
        BY <1>3, <1>9 DEF Starting, StartsLater
      <3>2. QED
        BY <2>0, <1>3, <1>4, <1>6, <1>9, <3>1 DEF StartInv, StartsLater
    <2>2. AttemptInv'
      BY <2>0, <1>3, <1>4, <1>6, <1>9 DEF AttemptInv
    <2>3. TimerInv'
      BY <1>3, <2>0 DEF TimerInv
    <2>4. GoneInv'
      BY <1>3, <1>4, <1>6, <1>9 DEF GoneInv
    <2>5. ASSUME NEW c \in Fds PROVE ConnInv(c)'
      <3>1. c # NoFd /\ \A x \in {} \cup {Functor("stop", NoFd)} : x.fd # c
        BY FunctorIsPair, ConnectorAssumption
      <3>2. SameConnQueue(c)
        BY <1>8, <3>1, ConnQueueKept
      <3>3. QED
        BY <2>0, <1>3, <1>9, <3>2, ConnUntouched
    <2>6. QED
      BY <2>1, <2>2, <2>3, <2>4, <2>5 DEF LifeInv
  <1>14. QED
    BY <1>7, <1>10, <1>11, <1>12, <1>13 DEF ClientInv

-----------------------------------------------------------------------------
(* The invariant and what it says.                                         *)

\* A client before connect(): nothing is queued and nothing is open.
LEMMA ClientInit == Init => ClientInv
  <1> SUFFICES ASSUME Init PROVE ClientInv
    OBVIOUS
  <1>1. InitConnector
    BY DEF Init
  <1>2. functors = <<>> /\ timers = <<>> /\ conn = [fd \in Fds |-> "none"] /\ other = <<>>
    BY <1>1 DEF Init, InitConnector
  <1>3. \A x : ~Has(functors, x) /\ ~Has(timers, x) /\ Once(functors, x) /\ Once(timers, x)
    BY <1>2 DEF Has, Once
  <1>4. \A x, y : Precedes(functors, x, y)
    BY <1>2 DEF Precedes
  <1>5. Types
    <2>1. ConnectorTypes
      BY <1>1 DEF InitConnector, ConnectorTypes
    <2>2. QueueTypes
      BY <1>1, <1>2 DEF InitConnector, QueueTypes
    <2>3. LoopTypes
      BY <1>1, <1>2 DEF InitConnector, LoopTypes
    <2>4. ClientTypes
      BY <1>2 DEF Init, ClientTypes, ConnStates, Remains
    <2>5. QED
      BY <2>1, <2>2, <2>3, <2>4 DEF Types
  <1>6. OpenInv
    BY <1>1, <1>2, <1>3 DEF Init, InitConnector, OpenInv, Attempted, Queued
  <1>7. StopInv /\ TryInv
    BY <1>1 DEF Init, InitConnector, StopInv, TryInv
  <1>8. StartInv
    BY <1>1, <1>2, <1>3 DEF Init, InitConnector, StartInv, Bound
  <1>9. AttemptInv
    BY <1>1, <1>3 DEF Init, InitConnector, AttemptInv, Bound
  <1>10. TimerInv /\ GoneInv
    BY <1>1, <1>3 DEF Init, InitConnector, TimerInv, GoneInv
  <1>11. ASSUME NEW c \in Fds PROVE ConnInv(c)
    <2>1. connection_ # c
      BY ConnectorAssumption DEF Init
    <2>2. QED
      BY <1>1, <1>2, <1>3, <1>4, <2>1 DEF Init, InitConnector, ConnInv, Queued, IsOpen
  <1>12. failed = FALSE
    BY <1>1 DEF InitConnector
  <1>13. QED
    BY <1>5, <1>6, <1>7, <1>8, <1>9, <1>10, <1>11, <1>12 DEF ClientInv, LifeInv

\* Every step of the loop, of the program and of the other thread keeps the invariant.
LEMMA ClientNext == ClientInv /\ [Next]_vars => ClientInv'
  <1> SUFFICES ASSUME ClientInv, [Next]_vars PROVE ClientInv'
    OBVIOUS
  <1>1. ASSUME NEW r \in Fds \cup {"connector", "timer"}, Dispatch(r) PROVE ClientInv'
    BY <1>1, DispatchStep
  <1>2. CASE DispatchEnds
    BY <1>2, DispatchEndsStep
  <1>3. CASE RunFunctor
    BY <1>3, RunFunctorStep
  <1>4. CASE IterationEnds
    BY <1>4, IterationEndsStep
  <1>5. CASE CallbackReturns
    BY <1>5, CallbackReturnsStep
  <1>6. CASE RestartConnector
    BY <1>6, RestartStep
  <1>7. CASE PollAny
    BY <1>7, PollStep DEF PollAny
  <1>8. ASSUME NEW c \in Fds, PeerCloses(c) PROVE ClientInv'
    BY <1>8, PeerClosesStep
  <1>9. ASSUME NEW name \in Calls, CallInLoop(name) PROVE ClientInv'
    BY <1>9, CallInLoopStep
  <1>10. ASSUME NEW name \in Calls, CallFromOther(name) PROVE ClientInv'
    BY <1>10, CallFromOtherStep
  <1>11. CASE OtherStep
    BY <1>11, OtherStepStep
  <1>12. CASE Destroy
    BY <1>12, DestroyConnected, DestroyUnconnected
  <1>13. CASE UNCHANGED vars
    <2>1. UNCHANGED <<connect_, state_, sockfd_, channel_, registered, gaveUp, open, functors, timers, pc, ready, left,
                      due, failed, client, cconnect_, connection_, conn, watched, eof, detached, restarting, other,
                      stopped, overruled, careless>>
      BY <1>13 DEF vars, connectorVars, loopVars, clientVars, connVars, historyVars
    <2>2. Types'
      BY <2>1 DEF ClientInv, Types, ConnectorTypes, QueueTypes, LoopTypes, ClientTypes
    <2>3. (OpenInv' <=> OpenInv) /\ (StopInv' <=> StopInv) /\ (TryInv' <=> TryInv)
      BY <2>1 DEF OpenInv, Attempted, StopInv, TryInv, StartsLater, StopsLater, Bound, Queued
    <2>4. LifeInv => LifeInv'
      <3>1. /\ \A op : Bound(op)' <=> Bound(op)
            /\ \A op, c : Queued(op, c)' <=> Queued(op, c)
            /\ \A c \in Fds : IsOpen(c)' <=> IsOpen(c)
            /\ StartsLater' <=> StartsLater
        BY <2>1 DEF Bound, Queued, IsOpen, StartsLater
      <3>2. StartInv => StartInv'
        BY <2>1, <3>1 DEF StartInv, Starting
      <3>3. AttemptInv => AttemptInv'
        BY <2>1, <3>1 DEF AttemptInv
      <3>4. TimerInv /\ GoneInv => TimerInv' /\ GoneInv'
        BY <2>1, <3>1 DEF TimerInv, GoneInv
      <3>5. ASSUME NEW c \in Fds PROVE ConnInv(c) => ConnInv(c)'
        BY <2>1, <3>1 DEF ConnInv
      <3>6. QED
        BY <3>2, <3>3, <3>4, <3>5 DEF LifeInv
    <2>5. QED
      BY <2>1, <2>2, <2>3, <2>4 DEF ClientInv
  <1>14. QED
    BY <1>1, <1>2, <1>3, <1>4, <1>5, <1>6, <1>7, <1>8, <1>9, <1>10, <1>11, <1>12, <1>13 DEF Next, LoopStep

\* The inductive invariant of TcpClient and its Connector
THEOREM ClientAlwaysConsistent == Spec => []ClientInv
  BY ClientInit, ClientNext, PTL DEF Spec

\* No assertion of Connector.cpp, TcpClient.cc and TcpConnection.cpp fails, however
\* often and in whatever order connect(), stop() and disconnect() are called, unless
\* the client was used in one of the ways that careless names.
THEOREM AssertionsAlwaysHold == Spec => []ClientAssertionsHold
  <1>1. ClientInv => ClientAssertionsHold
    BY DEF ClientInv, ClientAssertionsHold
  <1>2. QED
    BY <1>1, ClientAlwaysConsistent, PTL

\* Every descriptor has one owner for as long as it is open, and the Connector and
\* the connections outlive the functors and the channels bound to their raw this.
THEOREM OwnersAlwaysLive == Spec => []OwnersAreLive
  <1>1. ClientInv => OwnersAreLive
    <2> SUFFICES ASSUME ClientInv PROVE OwnersAreLive
      OBVIOUS
    <2>1. functors \in Seq(ClientFunctors)
      BY DEF ClientInv, Types, QueueTypes
    <2>2. ~failed => open = {c \in Fds : conn[c] # "none"} \cup
                            (IF state_ = "kConnecting" THEN {sockfd_} ELSE {})
      BY DEF ClientInv, OpenInv, Attempted
    <2>3. ASSUME ~careless, ConnectorIsBound \/ registered PROVE ConnectorAlive
      <3>1. AttemptInv /\ GoneInv
        BY <2>3 DEF ClientInv, LifeInv
      <3>2. ConnectorIsBound => \E op \in ConnectorFunctors : Bound(op)
        BY <2>1, QueueMeaning
      <3>3. client \/ Has(timers, "removeConnector")
        BY <2>3, <3>1, <3>2 DEF AttemptInv, GoneInv
      <3>4. Has(timers, "removeConnector") => timers # <<>>
        BY ElementOfNone DEF Has
      <3>5. QED
        BY <3>3, <3>4 DEF ConnectorAlive
    <2>4. ASSUME ~careless, NEW i \in DOMAIN functors, functors[i].op = "shutdown"
          PROVE  conn[functors[i].fd] # "none"
      <3>1. functors[i].fd \in Fds /\ Queued("shutdown", functors[i].fd)
        BY <2>1, <2>4, QueueMeaning
      <3>2. PICK c \in Fds : c = functors[i].fd
        BY <3>1
      <3>3. IsOpen(c)
        BY <2>4, <3>1, <3>2 DEF ClientInv, LifeInv, ConnInv
      <3>4. QED
        BY <3>2, <3>3 DEF IsOpen
    <2>5. QED
      BY <2>2, <2>3, <2>4 DEF OwnersAreLive
  <1>2. QED
    BY <1>1, ClientAlwaysConsistent, PTL

\* After stop() and stopInLoop() nothing is connecting and nothing will be, unless a
\* restart() of the loop thread came after the connect_ = false.
THEOREM StopAlwaysFinal == Spec => []StopIsFinal
  <1>1. ClientInv => StopIsFinal
    <2> SUFFICES ASSUME ClientInv PROVE StopIsFinal
      OBVIOUS
    <2>1. SUFFICES ASSUME stopped, other = <<>>, ~overruled,
                          \A i \in DOMAIN functors : functors[i].op # "stop"
                   PROVE  state_ # "kConnecting" /\ ~connect_
      BY DEF StopIsFinal
    <2>2. functors \in Seq(ClientFunctors) /\ StopInv
      BY DEF ClientInv, Types, QueueTypes
    <2>3. "stop" \in ConnectorFunctors
      BY DEF ConnectorFunctors
    <2>4. ~Bound("stop")
      BY <2>1, <2>2, <2>3, QueueMeaning
    <2>5. ~StopsLater /\ other # Stop1
      BY <2>1, OtherRemains DEF StopsLater
    <2>6. QED
      BY <2>1, <2>2, <2>4, <2>5 DEF StopInv
  <1>2. QED
    BY <1>1, ClientAlwaysConsistent, PTL

\* A Connector that should connect has an attempt ahead of it, whatever connect(),
\* stop(), retries and restarts came before.
THEOREM AlwaysKeepsTrying == Spec => []KeepsTrying
  <1>1. ClientInv => KeepsTrying
    <2> SUFFICES ASSUME ClientInv PROVE KeepsTrying
      OBVIOUS
    <2>1. SUFFICES ASSUME connect_, state_ = "kDisconnected", ~gaveUp, ~failed
                   PROVE  \/ restarting
                          \/ other = <<"queue start">>
                          \/ \E i \in DOMAIN functors : functors[i].op = "start"
                          \/ \E i \in DOMAIN timers : timers[i] = "start"
      BY DEF KeepsTrying
    <2>2. functors \in Seq(ClientFunctors) /\ TryInv
      BY DEF ClientInv, Types, QueueTypes
    <2>3. "start" \in ConnectorFunctors
      BY DEF ConnectorFunctors
    <2>4. Bound("start") => \E i \in DOMAIN functors : functors[i].op = "start"
      BY <2>2, <2>3, QueueMeaning
    <2>5. restarting \/ other = Connect1 \/ Bound("start") \/ Has(timers, "start")
      BY <2>1, <2>2 DEF TryInv
    <2>6. other = Connect1 => other = <<"queue start">>
      BY DEF Connect1
    <2>7. Has(timers, "start") => \E i \in DOMAIN timers : timers[i] = "start"
      BY DEF Has
    <2>8. QED
      BY <2>4, <2>5, <2>6, <2>7
  <1>2. QED
    BY <1>1, ClientAlwaysConsistent, PTL
=============================================================================
