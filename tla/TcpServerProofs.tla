--------------------------- MODULE TcpServerProofs ---------------------------
(***************************************************************************)
(* Proofs about TcpServerUse, for every number of connections and io loops *)
(* and every sequence of calls of the program.                             *)
(***************************************************************************)
EXTENDS TcpServerUse, SequenceTheorems, TLAPS

FunctorOps == {"established", "remove", "destroyed", "forceClose", "send", "shutdown"}
ConnFunctors == [op : FunctorOps, conn : Conns]
UserCalls == [op : {"send", "shutdown", "forceClose"}, conn : Conns]
Callbacks == [kind : {"up", "message", "down"}, conn : Conns]

\* A functor is in a queue, and in it at most once.
Has(q, f) == \E i \in DOMAIN q : q[i] = f
Once(q, f) == \A i, j \in DOMAIN q : q[i] = f /\ q[j] = f => i = j
Queued(l, op, c) == Has(functors[l], Functor(op, c))

Queues == [Loops -> Seq(ConnFunctors)]
EventSets == SUBSET {"in", "out"}

ConnTypes ==
    /\ loopOf \in [Conns -> Loops \cup {NoConn}]
    /\ state_ \in [Conns -> {"kConnecting", "kConnected", "kDisconnecting", "kDisconnected"}]
    /\ events \in [Conns -> EventSets]
    /\ added \in [Conns -> BOOLEAN] /\ finSent \in [Conns -> BOOLEAN] /\ eof \in [Conns -> BOOLEAN]
    /\ outputBuffer_ \in [Conns -> Nat] /\ sends \in [Conns -> Nat]
    /\ ups \in [Conns -> Nat] /\ downs \in [Conns -> Nat]

\* A loop has at least as many functors as it is going to run.
QueueTypes ==
    /\ functors \in Queues
    /\ left \in [Loops -> Nat] /\ \A l \in Loops : left[l] <= Len(functors[l])

\* The base loop listens.
LoopTypes ==
    /\ cb \in [Loops -> Callbacks \cup {NoCallback}]
    /\ ready \in [Loops -> SUBSET (Conns \cup {Listener})]
    /\ \A l \in Loops : Listener \in ready[l] => l = Base
    /\ failed \in BOOLEAN

\* next_ is an index of loops_.
PoolTypes ==
    /\ loops_ \in Seq(Loops) /\ next_ \in Nat
    /\ IF loops_ = <<>> THEN next_ = 0 ELSE next_ + 1 \in DOMAIN loops_
    /\ ~listenning => loops_ = <<>>
    /\ connections_ \subseteq Conns
    /\ forced \in [Conns -> Nat]

UserTypes == user \in UserCalls \cup {NoCall} /\ held \subseteq Conns

ServerTypes == ConnTypes /\ QueueTypes /\ LoopTypes /\ PoolTypes /\ UserTypes

\* The two ways to a failure that NoFailure names.
Excused(c) == ClosedTwice(c) \/ c \in late

\* Before connectEstablished() nobody but the map and its functor know of the
\* connection.
BeforeUp(c) ==
    /\ loopOf[c] = NoConn => ups[c] = 0
    /\ ups[c] = 0 =>
          /\ state_[c] = "kConnecting" /\ events[c] = {} /\ ~added[c]
          /\ downs[c] = 0 /\ outputBuffer_[c] = 0 /\ ~finSent[c]
          /\ c \notin held /\ user.conn # c
          /\ \A l \in Loops, op \in FunctorOps \ {"established"} : ~Queued(l, op, c)
    /\ \A l \in Loops : Queued(l, "established", c) =>
          /\ l = loopOf[c] /\ ups[c] = 0 /\ c \in connections_
          /\ Once(functors[l], Functor("established", c))

\* Until handleClose() the channel waits for input and the map has the connection;
\* what is in outputBuffer_ waits for the socket.
WhileServing(c) ==
    /\ "in" \in events[c] =>
          /\ ups[c] = 1 /\ downs[c] = 0 /\ c \in connections_ /\ ~Queued(Base, "remove", c)
          /\ "out" \notin events[c] => outputBuffer_[c] = 0
    /\ c \notin late /\ events[c] # {} => "in" \in events[c]
    /\ c \notin late /\ ups[c] = 1 /\ "in" \notin events[c] => eof[c] \/ forced[c] > 0

\* From handleClose() to the end of connectDestroyed() some functor or callback
\* keeps the connection; it is removed once and destroyed once.
WhileClosing(c) ==
    /\ \A l \in Loops : Queued(l, "remove", c) => l = Base
    /\ Queued(Base, "remove", c) /\ ~Excused(c) =>
          c \in connections_ /\ Once(functors[Base], Functor("remove", c))
    /\ \A l \in Loops : Queued(l, "destroyed", c) =>
          /\ l = loopOf[c] /\ Once(functors[l], Functor("destroyed", c))
          /\ ups[c] = 1 /\ downs[c] = 0 /\ c \notin connections_
    /\ ups[c] = 1 /\ downs[c] = 0 /\ c \notin connections_ => Queued(loopOf[c], "destroyed", c)
    /\ c \notin late /\ downs[c] = 1 /\ added[c] =>
          cb[loopOf[c]].conn = c \/ Queued(Base, "remove", c)

\* A forceClose() on its way is the only one and finds the connection open, unless
\* the connection is to be closed twice.
ForceAhead(c) == forced[c] > 0 /\ (Excused(c) \/ "in" \in events[c])
WhileForcing(c) ==
    /\ user = Functor("forceClose", c) => ForceAhead(c)
    /\ \A l \in Loops : Queued(l, "forceClose", c) =>
          /\ l = loopOf[c] /\ ForceAhead(c)
          /\ Excused(c) \/ (/\ Once(functors[l], Functor("forceClose", c))
                            /\ user # Functor("forceClose", c))

\* What state_ says.
States(c) ==
    /\ downs[c] <= ups[c] /\ ups[c] <= 1
    /\ ups[c] = 1 /\ downs[c] = 0 => IsOpen(c)
    /\ downs[c] = 1 => state_[c] # "kConnected" /\ c \notin connections_
    /\ finSent[c] => state_[c] # "kConnected" /\ (c \in late \/ outputBuffer_[c] = 0)
    /\ \A l \in Loops : Queued(l, "shutdown", c) => state_[c] # "kConnected"

\* What the loops are doing with the connection.
InItsLoop(c) ==
    \A l \in Loops :
        /\ c \in ready[l] => loopOf[c] = l
        /\ cb[l].conn = c =>
              /\ loopOf[c] = l /\ ups[c] = 1
              /\ downs[c] = IF cb[l].kind = "down" THEN 1 ELSE 0
              /\ cb[l].kind # "down" => "in" \in events[c]

Life(c) ==
    /\ BeforeUp(c) /\ WhileServing(c) /\ WhileClosing(c) /\ WhileForcing(c) /\ States(c)
    /\ InItsLoop(c)

\* What holds even in the state in which an assertion has failed.
SafeInv == RegisteredIsAlive /\ CallbackProtocol /\ NothingSentAfterFin /\ NoFailure

\* The inductive invariant.
ServerInv ==
    /\ ServerTypes
    /\ ~failed => \A c \in Conns : Life(c)
    /\ failed => SafeInv

-----------------------------------------------------------------------------
(* Queues of functors.                                                     *)

\* A functor is what it does and the connection it does it to.
LEMMA FunctorIsPair ==
    /\ \A op, c : Functor(op, c).op = op /\ Functor(op, c).conn = c
    /\ \A op, p, c, d : Functor(op, c) = Functor(p, d) <=> op = p /\ c = d
    /\ \A op \in FunctorOps, c \in Conns : Functor(op, c) \in ConnFunctors
    /\ \A f \in ConnFunctors : f = Functor(f.op, f.conn) /\ f.op \in FunctorOps /\ f.conn \in Conns
    /\ NoConn \notin Conns /\ NoConn \notin Loops /\ Base \in Loops
  <1>1. \A op, c : Functor(op, c).op = op /\ Functor(op, c).conn = c
    BY DEF Functor
  <1>2. \A op, p, c, d : Functor(op, c) = Functor(p, d) <=> op = p /\ c = d
    BY DEF Functor
  <1>3. \A op \in FunctorOps, c \in Conns : Functor(op, c) \in ConnFunctors
    BY DEF Functor, ConnFunctors
  <1>4. \A f \in ConnFunctors : f = Functor(f.op, f.conn) /\ f.op \in FunctorOps /\ f.conn \in Conns
    BY DEF Functor, ConnFunctors
  <1>5. QED
    BY <1>1, <1>2, <1>3, <1>4, ServerAssumption

\* queueInLoop()
LEMMA HasAfterAppend ==
    ASSUME NEW q \in Seq(ConnFunctors), NEW f \in ConnFunctors
    PROVE  /\ Append(q, f) \in Seq(ConnFunctors) /\ Len(q) <= Len(Append(q, f))
           /\ \A x : Has(Append(q, f), x) <=> Has(q, x) \/ x = f
           /\ \A x : x # f /\ Once(q, x) => Once(Append(q, f), x)
           /\ ~Has(q, f) => Once(Append(q, f), f)
  <1>0. PICK n \in Nat : n = Len(q)
    BY LenProperties
  <1>1. /\ Append(q, f) \in Seq(ConnFunctors) /\ Len(Append(q, f)) = n + 1
        /\ \A i \in 1 .. n : Append(q, f)[i] = q[i]
        /\ Append(q, f)[n + 1] = f
    BY <1>0, AppendProperties
  <1>2. DOMAIN q = 1 .. n /\ DOMAIN Append(q, f) = 1 .. n + 1
    BY <1>0, <1>1, LenProperties
  <1>3. /\ n + 1 \in 1 .. n + 1 /\ \A i \in 1 .. n : i \in 1 .. n + 1
        /\ \A i \in 1 .. n + 1 : i = n + 1 \/ i \in 1 .. n
    OBVIOUS
  <1>4. ASSUME NEW x PROVE Has(Append(q, f), x) <=> Has(q, x) \/ x = f
    BY <1>1, <1>2, <1>3 DEF Has
  <1>5. ASSUME NEW x, x # f, Once(q, x) PROVE Once(Append(q, f), x)
    BY <1>1, <1>2, <1>3, <1>5 DEF Once
  <1>6. ~Has(q, f) => Once(Append(q, f), f)
    BY <1>1, <1>2, <1>3 DEF Once, Has
  <1>7. QED
    BY <1>0, <1>1, <1>4, <1>5, <1>6

\* One functor of doPendingFunctors()
LEMMA HasAfterTail ==
    ASSUME NEW q \in Seq(ConnFunctors), q # <<>>
    PROVE  /\ Tail(q) \in Seq(ConnFunctors) /\ Len(Tail(q)) = Len(q) - 1
           /\ Head(q) \in ConnFunctors /\ Has(q, Head(q))
           /\ \A x : Has(Tail(q), x) => Has(q, x)
           /\ \A x : x # Head(q) /\ Has(q, x) => Has(Tail(q), x)
           /\ \A x : Once(q, x) => Once(Tail(q), x)
           /\ Once(q, Head(q)) => ~Has(Tail(q), Head(q))
  <1>1. /\ Head(q) \in ConnFunctors /\ Tail(q) \in Seq(ConnFunctors)
        /\ Len(Tail(q)) = Len(q) - 1 /\ \A i \in 1 .. Len(Tail(q)) : Tail(q)[i] = q[i + 1]
    BY HeadTailProperties
  <1>2. PICK n \in Nat \ {0} : n = Len(q)
    BY EmptySeq, LenProperties
  <1>3. DOMAIN q = 1 .. n /\ DOMAIN Tail(q) = 1 .. n - 1 /\ Head(q) = q[1]
    BY <1>1, <1>2, LenProperties
  <1>4. /\ 1 \in DOMAIN q /\ DOMAIN q \subseteq Nat /\ DOMAIN Tail(q) \subseteq Nat
        /\ \A i \in DOMAIN Tail(q) : i + 1 \in DOMAIN q /\ i + 1 # 1 /\ Tail(q)[i] = q[i + 1]
        /\ \A i \in DOMAIN q : i # 1 => i - 1 \in DOMAIN Tail(q) /\ Tail(q)[i - 1] = q[i]
    BY <1>1, <1>2, <1>3
  <1>5. Has(q, Head(q))
    BY <1>3, <1>4 DEF Has
  <1>6. ASSUME NEW x PROVE Has(Tail(q), x) => Has(q, x)
    BY <1>4 DEF Has
  <1>7. ASSUME NEW x, x # Head(q), Has(q, x) PROVE Has(Tail(q), x)
    BY <1>3, <1>4, <1>7 DEF Has
  <1>8. ASSUME NEW x, Once(q, x) PROVE Once(Tail(q), x)
    <2>1. ASSUME NEW i \in DOMAIN Tail(q), NEW j \in DOMAIN Tail(q), Tail(q)[i] = x, Tail(q)[j] = x
          PROVE  i = j
      <3>1. i + 1 = j + 1
        BY <1>4, <1>8, <2>1 DEF Once
      <3>2. QED
        BY <1>4, <3>1
    <2>2. QED
      BY <2>1 DEF Once
  <1>9. Once(q, Head(q)) => ~Has(Tail(q), Head(q))
    BY <1>3, <1>4 DEF Once, Has
  <1>10. QED
    BY <1>1, <1>5, <1>6, <1>7, <1>8, <1>9

Pop(q, m) == [q EXCEPT ![m] = Tail(@)]

\* The same for the queues of all loops.
LEMMA HasAfterPush ==
    ASSUME NEW q \in Queues, NEW m \in Loops, NEW f \in ConnFunctors
    PROVE  /\ Push(q, m, f) \in Queues
           /\ \A l \in Loops : Len(q[l]) <= Len(Push(q, m, f)[l])
           /\ \A l \in Loops : \A x : Has(Push(q, m, f)[l], x) <=> Has(q[l], x) \/ (l = m /\ x = f)
           /\ \A l \in Loops : \A x : (x # f \/ l # m) /\ Once(q[l], x) => Once(Push(q, m, f)[l], x)
           /\ ~Has(q[m], f) => Once(Push(q, m, f)[m], f)
  <1>1. q[m] \in Seq(ConnFunctors)
    BY DEF Queues
  <1>2. /\ Push(q, m, f)[m] = Append(q[m], f)
        /\ \A l \in Loops : l # m => Push(q, m, f)[l] = q[l]
    BY DEF Push, Queues
  <1>3. /\ Append(q[m], f) \in Seq(ConnFunctors) /\ Len(q[m]) <= Len(Append(q[m], f))
        /\ \A x : Has(Append(q[m], f), x) <=> Has(q[m], x) \/ x = f
        /\ \A x : x # f /\ Once(q[m], x) => Once(Append(q[m], f), x)
        /\ ~Has(q[m], f) => Once(Append(q[m], f), f)
    BY <1>1, HasAfterAppend
  <1>4. Push(q, m, f) \in Queues
    BY <1>3 DEF Push, Queues
  <1>5. \A l \in Loops : Len(q[l]) \in Nat
    BY LenProperties DEF Queues
  <1>6. ASSUME NEW l \in Loops
        PROVE  /\ Len(q[l]) <= Len(Push(q, m, f)[l])
               /\ \A x : Has(Push(q, m, f)[l], x) <=> Has(q[l], x) \/ (l = m /\ x = f)
               /\ \A x : (x # f \/ l # m) /\ Once(q[l], x) => Once(Push(q, m, f)[l], x)
    <2>1. CASE l = m
      BY <1>2, <1>3, <2>1
    <2>2. CASE l # m
      <3>1. Push(q, m, f)[l] = q[l]
        BY <1>2, <2>2
      <3>2. QED
        BY <1>5, <2>2, <3>1
    <2>3. QED
      BY <2>1, <2>2
  <1>7. QED
    BY <1>2, <1>3, <1>4, <1>6

\* The same for a functor that is taken out.
LEMMA HasAfterPop ==
    ASSUME NEW q \in Queues, NEW m \in Loops, q[m] # <<>>
    PROVE  /\ Pop(q, m) \in Queues
           /\ Head(q[m]) \in ConnFunctors /\ Has(q[m], Head(q[m]))
           /\ Len(Pop(q, m)[m]) = Len(q[m]) - 1
           /\ \A l \in Loops : l # m => Pop(q, m)[l] = q[l]
           /\ \A l \in Loops : \A x : Has(Pop(q, m)[l], x) => Has(q[l], x)
           /\ \A l \in Loops : \A x : (x # Head(q[m]) \/ l # m) /\ Has(q[l], x) => Has(Pop(q, m)[l], x)
           /\ \A l \in Loops : \A x : Once(q[l], x) => Once(Pop(q, m)[l], x)
           /\ Once(q[m], Head(q[m])) => ~Has(Pop(q, m)[m], Head(q[m]))
  <1>1. q[m] \in Seq(ConnFunctors)
    BY DEF Queues
  <1>2. /\ Pop(q, m)[m] = Tail(q[m])
        /\ \A l \in Loops : l # m => Pop(q, m)[l] = q[l]
    BY DEF Pop, Queues
  <1>3. /\ Tail(q[m]) \in Seq(ConnFunctors) /\ Len(Tail(q[m])) = Len(q[m]) - 1
        /\ Head(q[m]) \in ConnFunctors /\ Has(q[m], Head(q[m]))
        /\ \A x : Has(Tail(q[m]), x) => Has(q[m], x)
        /\ \A x : x # Head(q[m]) /\ Has(q[m], x) => Has(Tail(q[m]), x)
        /\ \A x : Once(q[m], x) => Once(Tail(q[m]), x)
        /\ Once(q[m], Head(q[m])) => ~Has(Tail(q[m]), Head(q[m]))
    BY <1>1, HasAfterTail
  <1>4. Pop(q, m) \in Queues
    BY <1>3 DEF Pop, Queues
  <1>5. ASSUME NEW l \in Loops
        PROVE  /\ \A x : Has(Pop(q, m)[l], x) => Has(q[l], x)
               /\ \A x : (x # Head(q[m]) \/ l # m) /\ Has(q[l], x) => Has(Pop(q, m)[l], x)
               /\ \A x : Once(q[l], x) => Once(Pop(q, m)[l], x)
    BY <1>2, <1>3
  <1>6. QED
    BY <1>2, <1>3, <1>4, <1>5

\* The functors of connections after one more was queued, on the queues q.
LEMMA AfterPush ==
    ASSUME NEW q \in Queues, NEW m \in Loops, NEW c \in Conns, NEW op \in FunctorOps,
           functors' = Push(q, m, Functor(op, c))
    PROVE  /\ functors' \in Queues
           /\ \A l \in Loops : Len(q[l]) <= Len(functors'[l])
           /\ \A l \in Loops, p \in FunctorOps, d \in Conns :
                 Queued(l, p, d)' <=> Has(q[l], Functor(p, d)) \/ (l = m /\ p = op /\ d = c)
           /\ \A l \in Loops, p \in FunctorOps, d \in Conns :
                 (l # m \/ p # op \/ d # c) /\ Once(q[l], Functor(p, d))
                     => Once(functors'[l], Functor(p, d))
           /\ ~Has(q[m], Functor(op, c)) => Once(functors'[m], Functor(op, c))
  <1>1. PICK f \in ConnFunctors : f = Functor(op, c)
    BY FunctorIsPair
  <1>2. PICK r : r = Push(q, m, f)
    OBVIOUS
  <1>3. /\ r \in Queues
        /\ \A l \in Loops : Len(q[l]) <= Len(r[l])
        /\ \A l \in Loops : \A x : Has(r[l], x) <=> Has(q[l], x) \/ (l = m /\ x = f)
        /\ \A l \in Loops : \A x : (x # f \/ l # m) /\ Once(q[l], x) => Once(r[l], x)
        /\ ~Has(q[m], f) => Once(r[m], f)
    <2>1. /\ Push(q, m, f) \in Queues
          /\ \A l \in Loops : Len(q[l]) <= Len(Push(q, m, f)[l])
          /\ \A l \in Loops : \A x : Has(Push(q, m, f)[l], x) <=> Has(q[l], x) \/ (l = m /\ x = f)
          /\ \A l \in Loops : \A x : (x # f \/ l # m) /\ Once(q[l], x) => Once(Push(q, m, f)[l], x)
          /\ ~Has(q[m], f) => Once(Push(q, m, f)[m], f)
      BY HasAfterPush, Zenon
    <2>2. QED
      BY <1>2, <2>1, Zenon
  <1>4. ASSUME NEW l \in Loops, NEW p \in FunctorOps, NEW d \in Conns
        PROVE  /\ Queued(l, p, d)' <=> Has(q[l], Functor(p, d)) \/ (l = m /\ p = op /\ d = c)
               /\ (l # m \/ p # op \/ d # c) /\ Once(q[l], Functor(p, d))
                     => Once(functors'[l], Functor(p, d))
    <2>1. Functor(p, d) = f <=> p = op /\ d = c
      BY <1>1, FunctorIsPair
    <2>2. functors' = r
      BY <1>1, <1>2
    <2>3. Queued(l, p, d)' <=> Has(r[l], Functor(p, d))
      BY <2>2 DEF Queued
    <2>4. QED
      BY <1>3, <2>1, <2>2, <2>3
  <1>5. QED
    BY <1>1, <1>2, <1>3, <1>4

\* The queues q after a loop has taken its next functor.
LEMMA AfterPop ==
    ASSUME functors \in Queues, NEW m \in Loops, functors[m] # <<>>, NEW q, q = Pop(functors, m),
           NEW c \in Conns, NEW op \in FunctorOps, Head(functors[m]) = Functor(op, c)
    PROVE  /\ q \in Queues /\ Queued(m, op, c)
           /\ \A l \in Loops, p \in FunctorOps, d \in Conns :
                 /\ Has(q[l], Functor(p, d)) => Queued(l, p, d)
                 /\ (l # m \/ p # op \/ d # c) /\ Queued(l, p, d) => Has(q[l], Functor(p, d))
                 /\ Once(functors[l], Functor(p, d)) => Once(q[l], Functor(p, d))
           /\ Once(functors[m], Functor(op, c)) => ~Has(q[m], Functor(op, c))
  <1>1. PICK f : f = Functor(op, c)
    OBVIOUS
  <1>2. /\ q \in Queues /\ Has(functors[m], f)
        /\ \A l \in Loops : \A x : Has(q[l], x) => Has(functors[l], x)
        /\ \A l \in Loops : \A x : (x # f \/ l # m) /\ Has(functors[l], x) => Has(q[l], x)
        /\ \A l \in Loops : \A x : Once(functors[l], x) => Once(q[l], x)
        /\ Once(functors[m], f) => ~Has(q[m], f)
    <2>1. PICK r : r = functors
      OBVIOUS
    <2>2. /\ q \in Queues /\ Has(r[m], f)
          /\ \A l \in Loops : \A x : Has(q[l], x) => Has(r[l], x)
          /\ \A l \in Loops : \A x : (x # f \/ l # m) /\ Has(r[l], x) => Has(q[l], x)
          /\ \A l \in Loops : \A x : Once(r[l], x) => Once(q[l], x)
          /\ Once(r[m], f) => ~Has(q[m], f)
      <3>1. r \in Queues /\ r[m] # <<>> /\ q = Pop(r, m) /\ f = Head(r[m])
        BY <1>1, <2>1
      <3>2. QED
        BY <3>1, HasAfterPop, ZenonT(60)
    <2>3. QED
      BY <2>1, <2>2, Zenon
  <1>3. ASSUME NEW l \in Loops, NEW p \in FunctorOps, NEW d \in Conns
        PROVE  /\ Has(q[l], Functor(p, d)) => Queued(l, p, d)
               /\ (l # m \/ p # op \/ d # c) /\ Queued(l, p, d) => Has(q[l], Functor(p, d))
               /\ Once(functors[l], Functor(p, d)) => Once(q[l], Functor(p, d))
    <2>1. Functor(p, d) = f <=> p = op /\ d = c
      BY <1>1, FunctorIsPair
    <2>2. QED
      BY <1>2, <2>1 DEF Queued
  <1>4. QED
    BY <1>1, <1>2, <1>3 DEF Queued

-----------------------------------------------------------------------------
(* The types.                                                              *)

\* getNextLoop(): the index stays inside loops_.
LEMMA NextLoopTypes ==
    ASSUME PoolTypes
    PROVE  /\ GetNextLoop \in Loops
           /\ loops_ # <<>> => NextIndex \in Nat /\ NextIndex + 1 \in DOMAIN loops_
  <1>0. PICK n \in Nat : n = Len(loops_) /\ DOMAIN loops_ = 1 .. n
    BY LenProperties DEF PoolTypes
  <1>1. CASE loops_ = <<>>
    BY <1>1, ServerAssumption DEF GetNextLoop
  <1>2. CASE loops_ # <<>>
    <2>1. next_ + 1 \in 1 .. n /\ next_ \in Nat
      BY <1>0, <1>2 DEF PoolTypes
    <2>2. loops_[next_ + 1] \in Loops
      BY <1>0, <2>1, ElementOfSeq DEF PoolTypes
    <2>3. NextIndex \in Nat /\ NextIndex + 1 \in 1 .. n
      BY <1>0, <2>1 DEF NextIndex
    <2>4. QED
      BY <1>0, <1>2, <2>2, <2>3 DEF GetNextLoop
  <1>3. QED
    BY <1>1, <1>2

\* EventLoopThreadPool::start() takes the first threads of the pool.
LEMMA PoolStartTypes ==
    ASSUME NEW n \in 0 .. Len(Pool)
    PROVE  /\ SubSeq(Pool, 1, n) \in Seq(Loops)
           /\ SubSeq(Pool, 1, n) # <<>> => 1 \in DOMAIN SubSeq(Pool, 1, n)
  <1>1. Pool \in Seq(Loops) /\ Len(Pool) \in Nat
    <2>1. Pool \in Seq(Loops \ {Base})
      BY ServerAssumption
    <2>2. QED
      BY <2>1, LenProperties, SeqMonotonic
  <1>2. /\ SubSeq(Pool, 1, n) \in Seq(Loops)
    BY <1>1, SubSeqProperties
  <1>3. PICK k \in Nat : k = Len(SubSeq(Pool, 1, n)) /\ DOMAIN SubSeq(Pool, 1, n) = 1 .. k
    BY <1>2, LenProperties
  <1>4. QED
    BY <1>2, <1>3, EmptySeq

\* What the operations of a connection leave behind has its type.
LEMMA OperationTypes ==
    ASSUME ConnTypes, LoopTypes, NEW l \in Loops, NEW c \in Conns, UNCHANGED eof
    PROVE  /\ ConnectEstablished(l, c) /\ loopOf' \in [Conns -> Loops \cup {NoConn}] =>
                ConnTypes' /\ cb' \in [Loops -> Callbacks \cup {NoCallback}] /\ failed' \in BOOLEAN
           /\ ConnectDestroyed(l, c) =>
                ConnTypes' /\ cb' \in [Loops -> Callbacks \cup {NoCallback}] /\ failed' \in BOOLEAN
           /\ HandleMessage(l, c) =>
                ConnTypes' /\ cb' \in [Loops -> Callbacks \cup {NoCallback}] /\ failed' \in BOOLEAN
           /\ HandleClose(c) => ConnTypes'
           /\ SendInLoop(c) /\ UNCHANGED <<loopOf, state_, ups, downs>> => ConnTypes'
           /\ ShutdownInLoop(c) /\ UNCHANGED <<loopOf, ups, downs>>
                /\ state_' \in [Conns -> {"kConnecting", "kConnected", "kDisconnecting", "kDisconnected"}]
                => ConnTypes'
  <1>0. /\ [kind |-> "up", conn |-> c] \in Callbacks
        /\ [kind |-> "message", conn |-> c] \in Callbacks
        /\ [kind |-> "down", conn |-> c] \in Callbacks
        /\ {} \in EventSets
    BY DEF Callbacks, EventSets
  <1>1. /\ ConnectEstablished(l, c) /\ loopOf' \in [Conns -> Loops \cup {NoConn}] =>
             ConnTypes' /\ cb' \in [Loops -> Callbacks \cup {NoCallback}] /\ failed' \in BOOLEAN
    <2> SUFFICES ASSUME ConnectEstablished(l, c), loopOf' \in [Conns -> Loops \cup {NoConn}]
                 PROVE  /\ ConnTypes' /\ cb' \in [Loops -> Callbacks \cup {NoCallback}]
                        /\ failed' \in BOOLEAN
      OBVIOUS
    <2>1. failed' \in BOOLEAN /\ cb' \in [Loops -> Callbacks \cup {NoCallback}]
      BY <1>0 DEF ConnectEstablished, LoopTypes
    <2>2. events[c] \cup {"in"} \in EventSets
      BY DEF ConnTypes, EventSets
    <2>3. events' \in [Conns -> EventSets] /\ added' \in [Conns -> BOOLEAN]
      BY <2>2 DEF ConnectEstablished, SetEvents, ConnTypes
    <2>4. ups' \in [Conns -> Nat]
      BY DEF ConnectEstablished, ConnTypes
    <2>5. QED
      BY <2>1, <2>3, <2>4 DEF ConnectEstablished, ConnTypes
  <1>2. ConnectDestroyed(l, c) =>
             ConnTypes' /\ cb' \in [Loops -> Callbacks \cup {NoCallback}] /\ failed' \in BOOLEAN
    BY <1>0 DEF ConnectDestroyed, SetEvents, ConnTypes, LoopTypes
  <1>3. HandleMessage(l, c) =>
             ConnTypes' /\ cb' \in [Loops -> Callbacks \cup {NoCallback}] /\ failed' \in BOOLEAN
    BY <1>0 DEF HandleMessage, connVars, ConnTypes, LoopTypes
  <1>4. HandleClose(c) => ConnTypes'
    BY <1>0 DEF HandleClose, SetEvents, EventsAfterClose, ConnTypes
  <1>5. SendInLoop(c) /\ UNCHANGED <<loopOf, state_, ups, downs>> => ConnTypes'
    <2> SUFFICES ASSUME SendInLoop(c), UNCHANGED <<loopOf, state_, ups, downs>> PROVE ConnTypes'
      OBVIOUS
    <2>1. events[c] \cup {"out"} \in EventSets
      BY DEF ConnTypes, EventSets
    <2>2. events' \in [Conns -> EventSets] /\ added' \in [Conns -> BOOLEAN]
      <3>1. \/ UNCHANGED <<events, added>>
            \/ SetEvents(c, events[c] \cup {"out"})
        BY DEF SendInLoop
      <3>2. QED
        BY <2>1, <3>1 DEF SetEvents, ConnTypes
    <2>3. outputBuffer_' \in [Conns -> Nat] /\ sends' \in [Conns -> Nat]
      BY DEF SendInLoop, ConnTypes
    <2>4. QED
      BY <2>2, <2>3 DEF SendInLoop, ConnTypes
  <1>6. ShutdownInLoop(c) /\ UNCHANGED <<loopOf, ups, downs>>
          /\ state_' \in [Conns -> {"kConnecting", "kConnected", "kDisconnecting", "kDisconnected"}]
          => ConnTypes'
    <2>1. MayShutdown(c) \in BOOLEAN
      BY DEF MayShutdown
    <2>2. QED
      BY <2>1 DEF ShutdownInLoop, ConnTypes
  <1>7. QED
    BY <1>1, <1>2, <1>3, <1>4, <1>5, <1>6

\* What closeCallback_ and the removal from the map leave behind, on queues that
\* are long enough.
LEMMA CloseTypes ==
    ASSUME ConnTypes, PoolTypes, failed \in BOOLEAN, NEW l \in Loops, NEW c \in Conns, NEW q \in Queues,
           loopOf[c] \in Loops, RemoveConnectionInLoop(c, q) \/ CloseCallback(l, c, q)
    PROVE  /\ connections_' \subseteq Conns /\ failed' \in BOOLEAN
           /\ functors' \in Queues /\ \A m \in Loops : Len(q[m]) <= Len(functors'[m])
  <1>1. Functor("remove", c) \in ConnFunctors /\ Functor("destroyed", c) \in ConnFunctors /\ Base \in Loops
    BY FunctorIsPair DEF FunctorOps
  <1>2. \A m \in Loops : Len(q[m]) \in Nat
    BY LenProperties DEF Queues
  <1>3. CASE RemoveConnectionInLoop(c, q)
    <2>1. functors' = Push(q, loopOf[c], Functor("destroyed", c)) /\ connections_' = connections_ \ {c}
          /\ failed' = (c \notin connections_)
      BY <1>3 DEF RemoveConnectionInLoop, DestroyLoop, MapWithout
    <2>2. functors' \in Queues /\ \A m \in Loops : Len(q[m]) <= Len(functors'[m])
      <3>1. PICK k \in Loops : k = loopOf[c]
        OBVIOUS
      <3>2. PICK f \in ConnFunctors : f = Functor("destroyed", c)
        BY <1>1
      <3>3. Push(q, k, f) \in Queues /\ \A m \in Loops : Len(q[m]) <= Len(Push(q, k, f)[m])
        BY HasAfterPush
      <3>4. QED
        BY <2>1, <3>1, <3>2, <3>3
    <2>3. QED
      BY <2>1, <2>2 DEF PoolTypes
  <1>4. CASE functors' = Push(q, Base, Functor("remove", c)) /\ UNCHANGED <<failed, connections_>>
    <2>1. PICK f \in ConnFunctors : f = Functor("remove", c)
      BY <1>1
    <2>2. Push(q, Base, f) \in Queues /\ \A m \in Loops : Len(q[m]) <= Len(Push(q, Base, f)[m])
      BY <1>1, HasAfterPush
    <2>3. QED
      BY <1>4, <2>1, <2>2 DEF PoolTypes
  <1>5. CASE failed' = TRUE /\ functors' = q /\ UNCHANGED connections_
    BY <1>2, <1>5 DEF PoolTypes
  <1>6. QED
    BY <1>3, <1>4, <1>5 DEF CloseCallback

\* A connection that has been established, or is queued for it, has its loop.
LEMMA HasLoop ==
    ASSUME ServerTypes, NEW c \in Conns, Life(c)
    PROVE  /\ ups[c] # 0 => loopOf[c] \in Loops
           /\ \A l \in Loops, op \in FunctorOps : Queued(l, op, c) => loopOf[c] \in Loops
           /\ \A l \in Loops : c \in ready[l] \/ cb[l].conn = c => loopOf[c] = l
           /\ user.conn = c \/ c \in held => ups[c] = 1
  <1>1. loopOf[c] = NoConn => ups[c] = 0
    BY DEF Life, BeforeUp
  <1>2. ups[c] # 0 => loopOf[c] \in Loops
    BY <1>1 DEF ServerTypes, ConnTypes
  <1>3. \A l \in Loops, op \in FunctorOps : Queued(l, op, c) => loopOf[c] \in Loops
    BY <1>2 DEF Life, BeforeUp
  <1>4. ups[c] # 0 => ups[c] = 1
    BY DEF Life, States, ServerTypes, ConnTypes
  <1>5. QED
    BY <1>2, <1>3, <1>4 DEF Life, BeforeUp, InItsLoop

\* The functor that a loop runs next.
LEMMA NextFunctor ==
    ASSUME ServerTypes, NEW l \in Loops, left[l] > 0
    PROVE  /\ functors[l] # <<>> /\ Head(functors[l]) \in ConnFunctors
           /\ Has(functors[l], Head(functors[l]))
           /\ Pop(functors, l) \in Queues
           /\ [left EXCEPT ![l] = @ - 1] \in [Loops -> Nat]
           /\ \A m \in Loops : [left EXCEPT ![l] = @ - 1][m] <= Len(Pop(functors, l)[m])
  <1>1. /\ functors \in Queues /\ left \in [Loops -> Nat]
        /\ \A m \in Loops : left[m] <= Len(functors[m])
    BY DEF ServerTypes, QueueTypes
  <1>2. \A m \in Loops : functors[m] \in Seq(ConnFunctors) /\ Len(functors[m]) \in Nat
    BY <1>1, LenProperties DEF Queues
  <1>3. functors[l] # <<>>
    <2>1. Len(functors[l]) # 0
      BY <1>1, <1>2
    <2>2. QED
      BY <1>2, <2>1, EmptySeq
  <1>4. /\ Pop(functors, l) \in Queues
        /\ Head(functors[l]) \in ConnFunctors /\ Has(functors[l], Head(functors[l]))
        /\ Len(Pop(functors, l)[l]) = Len(functors[l]) - 1
        /\ \A m \in Loops : m # l => Pop(functors, l)[m] = functors[m]
    BY <1>1, <1>3, HasAfterPop
  <1>5. [left EXCEPT ![l] = @ - 1] \in [Loops -> Nat]
    BY <1>1
  <1>6. ASSUME NEW m \in Loops PROVE [left EXCEPT ![l] = @ - 1][m] <= Len(Pop(functors, l)[m])
    <2>1. CASE m = l
      BY <1>1, <1>2, <1>4, <2>1
    <2>2. CASE m # l
      BY <1>1, <1>4, <2>2
    <2>3. QED
      BY <2>1, <2>2
  <1>7. QED
    BY <1>3, <1>4, <1>5, <1>6

\* Steps that touch no connection.
LEMMA QuietTypes ==
    ASSUME ServerTypes, NEW l \in Loops,
           \/ /\ \/ Start \/ Poll(l) \/ AcceptFails(l) \/ DispatchEnds(l)
                 \/ (\E c \in Conns : PeerCloses(c)) /\ UNCHANGED serverVars
                 \/ CallbackReturns(l) /\ UNCHANGED serverVars
              /\ UNCHANGED useVars
           \/ Keep(l) \/ (\E c \in Conns : Drop(c))
           \/ \E c \in Conns, op \in {"send", "shutdown", "forceClose"} : UserTests(op, c)
           \/ UNCHANGED allVars
    PROVE  ServerTypes'
  <1>0. ConnTypes /\ QueueTypes /\ LoopTypes /\ PoolTypes /\ UserTypes
    BY DEF ServerTypes
  <1> USE DEF serverVars, useVars, loopVars, connVars
  <1>1. CASE Start /\ UNCHANGED useVars
    <2>1. PICK n \in 0 .. Len(Pool) : loops_' = SubSeq(Pool, 1, n)
      BY <1>1 DEF Start, PoolStart
    <2>2. next_ = 0 /\ next_' = next_ /\ listenning' = TRUE /\ connections_' = connections_
          /\ forced' = forced
      BY <1>0, <1>1 DEF Start, Listen, PoolTypes
    <2>3. PoolTypes'
      BY <1>0, <2>1, <2>2, PoolStartTypes DEF PoolTypes
    <2>4. ConnTypes' /\ QueueTypes' /\ LoopTypes' /\ UserTypes'
      BY <1>0, <1>1 DEF Start, ConnTypes, QueueTypes, LoopTypes, UserTypes
    <2>5. QED
      BY <2>3, <2>4 DEF ServerTypes
  <1>2. CASE Poll(l) /\ UNCHANGED useVars
    <2>1. /\ ready' \in [Loops -> SUBSET (Conns \cup {Listener})]
          /\ \A m \in Loops : Listener \in ready'[m] => m = Base
      <3>1. PICK some \in SUBSET Pollable(l) : ready' = [ready EXCEPT ![l] = some]
        BY <1>2 DEF Poll
      <3>2. some \in SUBSET (Conns \cup {Listener}) /\ (Listener \in some => l = Base)
        BY ServerAssumption DEF Pollable
      <3>3. QED
        BY <1>0, <3>1, <3>2 DEF LoopTypes
    <2>2. QED
      BY <1>0, <1>2, <2>1 DEF Poll, ServerTypes, ConnTypes, QueueTypes, LoopTypes, PoolTypes, UserTypes
  <1>3. CASE AcceptFails(l) /\ UNCHANGED useVars
    <2>1. /\ ready' \in [Loops -> SUBSET (Conns \cup {Listener})]
          /\ \A m \in Loops : Listener \in ready'[m] => m = Base
      BY <1>0, <1>3 DEF AcceptFails, LoopTypes
    <2>2. QED
      BY <1>0, <1>3, <2>1 DEF AcceptFails, ServerTypes, ConnTypes, QueueTypes, LoopTypes, PoolTypes, UserTypes
  <1>4. CASE DispatchEnds(l) /\ UNCHANGED useVars
    <2>1. \A m \in Loops : functors[m] \in Seq(ConnFunctors) /\ Len(functors[m]) \in Nat
      BY <1>0, LenProperties DEF QueueTypes, Queues
    <2>2. QueueTypes'
      BY <1>0, <1>4, <2>1 DEF DispatchEnds, QueueTypes
    <2>3. QED
      BY <1>0, <1>4, <2>2 DEF DispatchEnds, ServerTypes, ConnTypes, LoopTypes, PoolTypes, UserTypes
  <1>5. CASE (\E c \in Conns : PeerCloses(c)) /\ UNCHANGED serverVars /\ UNCHANGED useVars
    <2>0. PICK c \in Conns : PeerCloses(c)
      BY <1>5
    <2>1. eof' \in [Conns -> BOOLEAN]
      BY <1>0, <2>0 DEF PeerCloses, ConnTypes
    <2>2. QED
      BY <1>0, <1>5, <2>0, <2>1 DEF PeerCloses, ServerTypes, ConnTypes, QueueTypes, LoopTypes, PoolTypes, UserTypes
  <1>6. CASE CallbackReturns(l) /\ UNCHANGED serverVars /\ UNCHANGED useVars
    <2>1. added' \in [Conns -> BOOLEAN] /\ cb' \in [Loops -> Callbacks \cup {NoCallback}]
      BY <1>0, <1>6 DEF CallbackReturns, ChannelAfter, ConnTypes, LoopTypes
    <2>2. QED
      BY <1>0, <1>6, <2>1
         DEF CallbackReturns, ServerTypes, ConnTypes, QueueTypes, LoopTypes, PoolTypes, UserTypes
  <1>7. CASE Keep(l) \/ \E c \in Conns : Drop(c)
    <2>1. UNCHANGED <<vars, user>>
      BY <1>7 DEF Keep, Drop
    <2>2. held' \subseteq Conns
      <3>1. CASE Keep(l)
        <4>1. cb[l] \in Callbacks
          BY <1>0, <3>1 DEF Keep, LoopTypes, NoCallback
        <4>2. QED
          BY <1>0, <3>1, <4>1 DEF Keep, UserTypes, Callbacks
      <3>2. QED
        BY <1>0, <1>7, <3>1 DEF Drop, UserTypes
    <2>3. QED
      BY <1>0, <2>1, <2>2 DEF vars, ServerTypes, ConnTypes, QueueTypes, LoopTypes, PoolTypes, UserTypes
  <1>8. ASSUME NEW c \in Conns, NEW op \in {"send", "shutdown", "forceClose"}, UserTests(op, c)
        PROVE  ServerTypes'
    <2>1. user' \in UserCalls
      BY <1>8 DEF UserTests, UserCalls, Functor
    <2>2. forced' \in [Conns -> Nat]
      BY <1>0, <1>8 DEF UserTests, PoolTypes
    <2>3. UserTypes' /\ PoolTypes'
      BY <1>0, <1>8, <2>1, <2>2 DEF UserTests, PoolTypes, UserTypes
    <2>4. ConnTypes' /\ QueueTypes' /\ LoopTypes'
      BY <1>0, <1>8 DEF UserTests, ConnTypes, QueueTypes, LoopTypes
    <2>5. QED
      BY <2>3, <2>4 DEF ServerTypes
  <1>9. CASE UNCHANGED allVars
    BY <1>0, <1>9
       DEF allVars, vars, ServerTypes, ConnTypes, QueueTypes, LoopTypes, PoolTypes, UserTypes
  <1>10. QED
    BY <1>1, <1>2, <1>3, <1>4, <1>5, <1>6, <1>7, <1>8, <1>9

-----------------------------------------------------------------------------
(* Connections that a step does not touch.                                 *)

\* A step leaves what it knows of the connection alone.
SameConn(d) ==
    /\ loopOf'[d] = loopOf[d] /\ state_'[d] = state_[d] /\ events'[d] = events[d]
    /\ added'[d] = added[d] /\ outputBuffer_'[d] = outputBuffer_[d] /\ finSent'[d] = finSent[d]
    /\ ups'[d] = ups[d] /\ downs'[d] = downs[d]

\* It neither queues nor runs a functor of the connection.
SameQueues(d) ==
    \A l \in Loops, op \in FunctorOps :
        /\ Queued(l, op, d)' <=> Queued(l, op, d)
        /\ Once(functors[l], Functor(op, d)) => Once(functors'[l], Functor(op, d))

\* It begins and ends no callback of the connection.
SameCallbacks(d) ==
    \A l \in Loops : /\ cb[l].conn = d \/ cb'[l].conn = d => cb'[l] = cb[l]
                     /\ d \in ready'[l] => d \in ready[l] \/ loopOf[d] = l

\* It leaves the map and the other thread's calls on the connection alone.
SameUse(d) ==
    /\ d \in connections_' <=> d \in connections_
    /\ eof[d] => eof'[d]
    /\ forced'[d] = forced[d]
    /\ d \in late => d \in late'
    /\ d \in held' => d \in held \/ ups[d] # 0
    /\ user'.conn = d => user' = user

\* Then the connection is as it was.
LEMMA Untouched ==
    ASSUME ServerTypes, NEW d \in Conns, Life(d),
           SameConn(d), SameQueues(d), SameCallbacks(d), SameUse(d)
    PROVE  Life(d)'
  <1> ups[d] \in Nat /\ downs[d] \in Nat /\ (ups[d] = 1 => loopOf[d] \in Loops)
    BY HasLoop DEF ServerTypes, ConnTypes
  <1>0. /\ "established" \in FunctorOps /\ "remove" \in FunctorOps /\ "destroyed" \in FunctorOps
        /\ "forceClose" \in FunctorOps /\ "shutdown" \in FunctorOps /\ Base \in Loops
    BY ServerAssumption DEF FunctorOps
  <1>1. BeforeUp(d)'
    BY <1>0 DEF Life, BeforeUp, SameConn, SameQueues, SameUse
  <1>2. WhileServing(d)'
    BY <1>0 DEF Life, WhileServing, SameConn, SameQueues, SameUse
  <1>3. WhileClosing(d)'
    <2>1. Excused(d) => Excused(d)'
      BY DEF Excused, ClosedTwice, SameUse
    <2>2. downs[d] = 1 => ups[d] = 1 /\ loopOf[d] \in Loops
      BY DEF Life, States
    <2>3. QED
      BY <1>0, <2>1, <2>2 DEF Life, WhileClosing, SameConn, SameQueues, SameUse, SameCallbacks
  <1>4. WhileForcing(d)'
    <2>1. ForceAhead(d) => ForceAhead(d)'
      BY DEF ForceAhead, Excused, ClosedTwice, SameConn, SameUse
    <2>2. user' = Functor("forceClose", d) => user' = user
      BY DEF SameUse, Functor
    <2>3. Excused(d) => Excused(d)'
      BY DEF Excused, ClosedTwice, SameUse
    <2>4. QED
      BY <1>0, <2>1, <2>2, <2>3 DEF Life, WhileForcing, SameConn, SameQueues
  <1>5. States(d)'
    BY <1>0 DEF Life, States, IsOpen, SameConn, SameQueues, SameUse
  <1>6. InItsLoop(d)'
    BY DEF Life, InItsLoop, SameConn, SameCallbacks
  <1>7. QED
    BY <1>1, <1>2, <1>3, <1>4, <1>5, <1>6 DEF Life

\* What Life says in the states that NoFailure and the others are about.
LEMMA LifeIsSafe ==
    ServerTypes /\ (\A c \in Conns : Life(c))
        => RegisteredIsAlive /\ CallbackProtocol /\ NothingSentAfterFin
  <1> SUFFICES ASSUME ServerTypes, \A c \in Conns : Life(c)
               PROVE  RegisteredIsAlive /\ CallbackProtocol /\ NothingSentAfterFin
    OBVIOUS
  <1>1. RegisteredIsAlive
    <2> SUFFICES ASSUME NEW c \in Conns \ late, added[c] PROVE Owned(c)
      BY DEF RegisteredIsAlive
    <2>1. Life(c) /\ loopOf[c] \in Loops /\ ups[c] = 1 /\ downs[c] \in {0, 1}
      <3>1. Life(c)
        OBVIOUS
      <3>2. ups[c] # 0 /\ ups[c] <= 1 /\ downs[c] <= ups[c] /\ ups[c] \in Nat /\ downs[c] \in Nat
        BY <3>1 DEF Life, BeforeUp, States, ServerTypes, ConnTypes
      <3>3. QED
        BY <3>1, <3>2, HasLoop
    <2>2. ASSUME NEW l \in Loops, NEW op \in {"remove", "destroyed"}, Queued(l, op, c) PROVE Owned(c)
      <3>1. PICK i \in DOMAIN functors[l] : functors[l][i] = Functor(op, c)
        BY <2>2 DEF Queued, Has
      <3>2. functors[l][i].conn = c /\ functors[l][i].op \in OwningFunctors
        BY <3>1 DEF Functor, OwningFunctors
      <3>3. QED
        BY <3>2 DEF Owned
    <2>3. CASE c \in connections_
      BY <2>3 DEF Owned
    <2>4. CASE c \notin connections_ /\ downs[c] = 0
      <3>1. Queued(loopOf[c], "destroyed", c)
        BY <2>1, <2>4 DEF Life, WhileClosing
      <3>2. QED
        BY <2>1, <2>2, <3>1
    <2>5. CASE downs[c] = 1
      <3>1. cb[loopOf[c]].conn = c \/ Queued(Base, "remove", c)
        BY <2>1, <2>5 DEF Life, WhileClosing
      <3>2. QED
        BY <2>1, <2>2, <3>1, ServerAssumption DEF Owned
    <2>6. QED
      BY <2>1, <2>3, <2>4, <2>5
  <1>2. CallbackProtocol
    <2>1. \A c \in Conns : downs[c] <= ups[c] /\ ups[c] <= 1
      BY DEF Life, States
    <2>2. ASSUME NEW l \in Loops, cb[l] # NoCallback
          PROVE  /\ loopOf[cb[l].conn] = l /\ ups[cb[l].conn] = 1
                 /\ downs[cb[l].conn] = IF cb[l].kind = "down" THEN 1 ELSE 0
      <3>1. cb[l].conn \in Conns
        BY <2>2 DEF ServerTypes, LoopTypes, Callbacks
      <3>2. QED
        BY <3>1 DEF Life, InItsLoop
    <2>3. QED
      BY <2>1, <2>2 DEF CallbackProtocol
  <1>3. NothingSentAfterFin
    BY DEF NothingSentAfterFin, Life, States
  <1>4. QED
    BY <1>1, <1>2, <1>3

\* The same after a step.
LEMMA LifeStaysSafe ==
    ServerTypes' /\ (\A c \in Conns : Life(c)')
        => RegisteredIsAlive' /\ CallbackProtocol' /\ NothingSentAfterFin'
  <1>1. (ServerTypes /\ (\A c \in Conns : Life(c))
            => RegisteredIsAlive /\ CallbackProtocol /\ NothingSentAfterFin)'
    BY LifeIsSafe, PTL
  <1>2. QED
    BY <1>1

\* Who owns a connection, by the functors of the queues
LEMMA OwnedByQueue ==
    functors \in Queues =>
        \A c \in Conns : Owned(c) <=> \/ c \in connections_
                                     \/ \E l \in Loops : \/ cb[l].conn = c
                                                         \/ \E op \in OwningFunctors : Queued(l, op, c)
  <1> SUFFICES ASSUME functors \in Queues, NEW c \in Conns
               PROVE  Owned(c) <=> \/ c \in connections_
                                   \/ \E l \in Loops : \/ cb[l].conn = c
                                                       \/ \E op \in OwningFunctors : Queued(l, op, c)
    OBVIOUS
  <1>1. ASSUME NEW l \in Loops, NEW i \in DOMAIN functors[l],
               functors[l][i].conn = c, functors[l][i].op \in OwningFunctors
        PROVE  \E op \in OwningFunctors : Queued(l, op, c)
    <2>1. functors[l][i] \in ConnFunctors
      BY ElementOfSeq, LenProperties DEF Queues
    <2>2. functors[l][i] = Functor(functors[l][i].op, c)
      BY <1>1, <2>1, FunctorIsPair
    <2>3. QED
      BY <1>1, <2>2 DEF Queued, Has
  <1>2. ASSUME NEW l \in Loops, NEW op \in OwningFunctors, Queued(l, op, c) PROVE Owned(c)
    <2>1. PICK i \in DOMAIN functors[l] : functors[l][i] = Functor(op, c)
      BY <1>2 DEF Queued, Has
    <2>2. functors[l][i].conn = c /\ functors[l][i].op \in OwningFunctors
      BY <2>1, FunctorIsPair
    <2>3. QED
      BY <2>2 DEF Owned
  <1>3. QED
    BY <1>1, <1>2 DEF Owned

\* The same after a step.
LEMMA OwnedByQueueNext ==
    functors' \in Queues =>
        \A c \in Conns : Owned(c)' <=> \/ c \in connections_'
                                      \/ \E l \in Loops : \/ cb'[l].conn = c
                                                          \/ \E op \in OwningFunctors : Queued(l, op, c)'
  <1>1. (functors \in Queues =>
            \A c \in Conns : Owned(c) <=> \/ c \in connections_
                                         \/ \E l \in Loops : \/ cb[l].conn = c
                                                             \/ \E op \in OwningFunctors : Queued(l, op, c))'
    BY OwnedByQueue, PTL
  <1>2. QED
    BY <1>1

\* SafeInv depends on nothing else.
LEMMA SameSafe ==
    ASSUME SafeInv, UNCHANGED <<loopOf, added, outputBuffer_, finSent, ups, downs, functors, cb,
                                failed, connections_, forced, late>>,
           \A c \in Conns : eof[c] => eof'[c]
    PROVE  SafeInv'
  <1>1. \A c \in Conns : Owned(c)' <=> Owned(c)
    BY DEF Owned
  <1>2. QED
    BY <1>1 DEF SafeInv, RegisteredIsAlive, CallbackProtocol, NothingSentAfterFin, NoFailure, ClosedTwice

-----------------------------------------------------------------------------
(* Every step.                                                             *)

\* start(), poll(), the ends of iterations, the peers, and the pointers that the
\* program keeps.
LEMMA QuietSteps ==
    ASSUME ServerInv, NEW l \in Loops,
           \/ /\ \/ Start \/ Poll(l) \/ AcceptFails(l) \/ DispatchEnds(l)
                 \/ (\E c \in Conns : PeerCloses(c)) /\ UNCHANGED serverVars
              /\ UNCHANGED useVars
           \/ Keep(l) \/ (\E c \in Conns : Drop(c)) \/ UNCHANGED allVars
    PROVE  ServerInv'
  <1>0. ServerTypes /\ ServerTypes'
    BY QuietTypes DEF ServerInv
  <1>1. UNCHANGED <<loopOf, state_, events, added, outputBuffer_, finSent, ups, downs, functors, cb,
                    failed, connections_, forced, late, user>>
    BY DEF Start, Poll, AcceptFails, DispatchEnds, PeerCloses, Keep, Drop, connVars, serverVars,
           useVars, allVars, vars
  <1>2. \A d \in Conns : eof[d] => eof'[d]
    <2>1. ASSUME NEW c \in Conns, PeerCloses(c) PROVE \A d \in Conns : eof[d] => eof'[d]
      BY <1>0, <2>1 DEF PeerCloses, ServerTypes, ConnTypes
    <2>2. CASE UNCHANGED eof
      BY <2>2
    <2>3. QED
      BY <2>1, <2>2 DEF Start, Poll, AcceptFails, DispatchEnds, PeerCloses, Keep, Drop, allVars, vars
  <1>3. CASE failed
    <2>1. SafeInv'
      BY <1>1, <1>2, <1>3, SameSafe DEF ServerInv
    <2>2. QED
      BY <1>0, <1>1, <1>3, <2>1 DEF ServerInv
  <1>4. CASE ~failed
    <2>1. ASSUME NEW d \in Conns PROVE Life(d)'
      <3>1. Life(d)
        BY <1>4 DEF ServerInv
      <3>2. SameConn(d) /\ SameQueues(d)
        BY <1>1 DEF SameConn, SameQueues, Queued
      <3>3. SameCallbacks(d)
        <4>1. \A m \in Loops : d \in ready'[m] => d \in ready[m] \/ loopOf[d] = m
          <5>1. CASE Poll(l)
            <6>1. PICK some \in SUBSET Pollable(l) : ready' = [ready EXCEPT ![l] = some]
              BY <5>1 DEF Poll
            <6>2. d \in some => loopOf[d] = l
              BY ServerAssumption DEF Pollable
            <6>3. QED
              BY <1>0, <6>1, <6>2 DEF ServerTypes, LoopTypes
          <5>2. CASE AcceptFails(l)
            BY <1>0, <5>2 DEF AcceptFails, ServerTypes, LoopTypes
          <5>3. CASE UNCHANGED ready
            BY <5>3
          <5>4. QED
            BY <5>1, <5>2, <5>3 DEF Start, DispatchEnds, PeerCloses, Keep, Drop, loopVars, allVars, vars
        <4>2. QED
          BY <1>1, <4>1 DEF SameCallbacks
      <3>4. SameUse(d)
        <4>1. d \in held' => d \in held \/ ups[d] # 0
          <5>1. CASE Keep(l)
            <6>1. held' = held \cup {cb[l].conn}
              BY <5>1 DEF Keep
            <6>2. cb[l].conn = d => ups[d] # 0
              BY <3>1 DEF Life, InItsLoop
            <6>3. QED
              BY <6>1, <6>2
          <5>2. CASE held' \subseteq held
            BY <5>2
          <5>3. QED
            BY <5>1, <5>2 DEF Drop, useVars, allVars
        <4>2. QED
          BY <1>1, <1>2, <4>1 DEF SameUse
      <3>5. QED
        BY <1>0, <3>1, <3>2, <3>3, <3>4, Untouched
    <2>2. QED
      BY <1>0, <1>1, <1>4, <2>1 DEF ServerInv
  <1>5. QED
    BY <1>3, <1>4

\* A callback returns; connectDestroyed() takes the channel out of the poller.
LEMMA CallbackReturnsStep ==
    ASSUME ServerInv, NEW l \in Loops, CallbackReturns(l), UNCHANGED serverVars, UNCHANGED useVars
    PROVE  ServerInv'
  <1>0. ServerTypes /\ ~failed /\ failed' = failed /\ \A d \in Conns : Life(d)
    BY DEF ServerInv, CallbackReturns
  <1>1. PICK c \in Conns : c = cb[l].conn
    <2>1. cb[l] \in Callbacks
      BY <1>0 DEF CallbackReturns, ServerTypes, LoopTypes
    <2>2. QED
      BY <2>1 DEF Callbacks
  <1>2. ServerTypes'
    BY <1>0, <1>1, QuietTypes
  <1>3. UNCHANGED <<loopOf, state_, events, outputBuffer_, finSent, ups, downs, functors,
                    eof, ready, connections_, forced, late, user, held>>
    BY DEF CallbackReturns, loopVars, serverVars, useVars
  <1>4. /\ cb'[l].conn = NoConn /\ \A m \in Loops \ {l} : cb'[m] = cb[m]
        /\ \A d \in Conns \ {c} : added'[d] = added[d]
        /\ added'[c] => added[c] /\ cb[l].kind # "down"
        /\ NoConn \notin Conns
    BY <1>0, <1>1, ServerAssumption
       DEF CallbackReturns, ChannelAfter, ServerTypes, LoopTypes, ConnTypes, NoCallback
  <1>5. \A d \in Conns : SameQueues(d) /\ SameUse(d)
    BY <1>3 DEF SameQueues, SameUse, Queued
  <1>6. ASSUME NEW d \in Conns \ {c} PROVE Life(d)'
    <2>1. SameConn(d) /\ SameCallbacks(d)
      BY <1>1, <1>3, <1>4 DEF SameConn, SameCallbacks
    <2>2. QED
      BY <1>0, <1>5, <2>1, Untouched
  <1>7. Life(c)'
    <2>0. Life(c) /\ ups[c] = 1 /\ (downs[c] = 1 => cb[l].kind = "down")
      BY <1>0, <1>1 DEF Life, InItsLoop
    <2>1. BeforeUp(c)' /\ WhileServing(c)' /\ WhileForcing(c)' /\ States(c)'
      BY <1>3, <2>0 DEF Life, BeforeUp, WhileServing, WhileForcing, ForceAhead, Excused, ClosedTwice, States, IsOpen, Queued
    <2>2. WhileClosing(c)'
      BY <1>3, <1>4, <2>0 DEF Life, WhileClosing, Excused, ClosedTwice, Queued
    <2>3. InItsLoop(c)'
      BY <1>3, <1>4, <2>0 DEF Life, InItsLoop
    <2>4. QED
      BY <2>1, <2>2, <2>3 DEF Life
  <1>8. QED
    BY <1>0, <1>2, <1>6, <1>7 DEF ServerInv

\* The test of state_ in another thread
LEMMA UserTestsStep ==
    ASSUME ServerInv, NEW c \in Conns, NEW op \in {"send", "shutdown", "forceClose"}, UserTests(op, c)
    PROVE  ServerInv'
  <1>0. ServerTypes /\ ~failed /\ failed' = failed /\ \A d \in Conns : Life(d)
    BY DEF ServerInv, UserTests
  <1>1. ServerTypes'
    BY <1>0, ServerAssumption, QuietTypes
  <1>2. UNCHANGED <<loopOf, state_, events, added, outputBuffer_, finSent, ups, downs, functors,
                    eof, cb, ready, connections_, late, held>>
    BY DEF UserTests, connVars, loopVars
  <1>3. /\ user' = Functor(op, c) /\ user'.conn = c
        /\ forced' = (IF op = "forceClose" THEN [forced EXCEPT ![c] = @ + 1] ELSE forced)
        /\ c \in held /\ forced \in [Conns -> Nat]
    BY <1>0 DEF UserTests, Functor, ServerTypes, PoolTypes
  <1>4. \A d \in Conns : SameQueues(d) /\ SameConn(d) /\ SameCallbacks(d)
    BY <1>2 DEF SameQueues, SameConn, SameCallbacks, Queued
  <1>5. ASSUME NEW d \in Conns \ {c} PROVE Life(d)'
    <2>1. SameUse(d)
      BY <1>2, <1>3 DEF SameUse
    <2>2. QED
      BY <1>0, <1>4, <2>1, Untouched
  <1>6. Life(c)'
    <2>0. Life(c) /\ ups[c] = 1
      BY <1>0, <1>3, HasLoop
    <2>1. BeforeUp(c)' /\ States(c)' /\ InItsLoop(c)'
      BY <1>2, <2>0 DEF Life, BeforeUp, States, IsOpen, Queued, InItsLoop
    <2>a. forced[c] \in Nat /\ forced'[c] = IF op = "forceClose" THEN forced[c] + 1 ELSE forced[c]
      BY <1>3
    <2>b. Excused(c) => Excused(c)'
      BY <1>2, <2>a DEF Excused, ClosedTwice
    <2>2. WhileServing(c)' /\ WhileClosing(c)'
      BY <1>2, <2>0, <2>a, <2>b DEF Life, WhileServing, WhileClosing, Queued
    <2>3. WhileForcing(c)'
      <3>1. CASE op = "forceClose"
        <4>1. ForceAhead(c)'
          BY <1>2, <2>0, <2>a, <3>1 DEF ForceAhead, Excused, ClosedTwice, Life, WhileServing
        <4>2. ASSUME NEW m \in Loops, Queued(m, "forceClose", c)
              PROVE  m = loopOf[c] /\ Excused(c)'
          BY <1>2, <2>0, <2>a, <3>1, <4>2 DEF Life, WhileForcing, ForceAhead, Excused, ClosedTwice
        <4>3. QED
          BY <1>2, <4>1, <4>2 DEF WhileForcing, Queued
      <3>2. CASE op # "forceClose"
        <4>1. user' # Functor("forceClose", c)
          BY <1>3, <3>2, FunctorIsPair
        <4>2. QED
          BY <1>2, <2>0, <2>a, <2>b, <3>2, <4>1 DEF Life, WhileForcing, ForceAhead, Excused, ClosedTwice, Queued
      <3>3. QED
        BY <3>1, <3>2
    <2>4. QED
      BY <2>1, <2>2, <2>3 DEF Life
  <1>7. QED
    BY <1>0, <1>1, <1>5, <1>6 DEF ServerInv

\* setState() and the functor that follows, in another thread
LEMMA UserQueuesStep ==
    ASSUME ServerInv, UserQueues
    PROVE  ServerInv'
  <1>0. ServerTypes /\ ~failed /\ failed' = failed /\ \A d \in Conns : Life(d)
    BY DEF ServerInv, UserQueues
  <1>1. PICK c \in Conns : c = user.conn
    BY <1>0 DEF UserQueues, ServerTypes, UserTypes, UserCalls
  <1>2. PICK op \in {"send", "shutdown", "forceClose"} : user = Functor(op, c) /\ op = user.op
    <2>1. user \in UserCalls
      BY <1>0 DEF UserQueues, ServerTypes, UserTypes
    <2>2. user = [op |-> user.op, conn |-> user.conn] /\ user.op \in {"send", "shutdown", "forceClose"}
      BY <2>1 DEF UserCalls
    <2>3. QED
      BY <1>1, <2>2 DEF Functor
  <1>3. user \in ConnFunctors /\ op \in FunctorOps
    BY <1>2, FunctorIsPair DEF FunctorOps
  <1>4. Life(c) /\ ups[c] = 1 /\ loopOf[c] \in Loops
    BY <1>0, <1>1, HasLoop
  <1>5. /\ UNCHANGED <<loopOf, events, added, outputBuffer_, sends, finSent, ups, downs, eof, cb, ready, left,
                       connections_, forced, late, held, loops_, next_, listenning>>
        /\ functors' = Push(functors, loopOf[c], user)
        /\ user' = NoCall
        /\ state_' = (IF op = "send" THEN state_ ELSE [state_ EXCEPT ![c] = "kDisconnecting"])
    BY <1>1, <1>2 DEF UserQueues, loopVars, serverVars
  <1>6. functors \in Queues
    BY <1>0 DEF ServerTypes, QueueTypes
  <1>7. /\ functors' \in Queues
        /\ \A l \in Loops : Len(functors[l]) <= Len(functors'[l])
        /\ \A l \in Loops, p \in FunctorOps, d \in Conns :
              Queued(l, p, d)' <=> Queued(l, p, d) \/ (l = loopOf[c] /\ p = op /\ d = c)
        /\ \A l \in Loops, p \in FunctorOps, d \in Conns :
              (l # loopOf[c] \/ p # op \/ d # c) /\ Once(functors[l], Functor(p, d))
                  => Once(functors'[l], Functor(p, d))
        /\ ~Queued(loopOf[c], op, c) => Once(functors'[loopOf[c]], Functor(op, c))
    <2>1. functors' = Push(functors, loopOf[c], Functor(op, c))
      BY <1>2, <1>5
    <2>2. /\ functors' \in Queues
          /\ \A l \in Loops : Len(functors[l]) <= Len(functors'[l])
          /\ \A l \in Loops, p \in FunctorOps, d \in Conns :
                Queued(l, p, d)' <=> Has(functors[l], Functor(p, d)) \/ (l = loopOf[c] /\ p = op /\ d = c)
          /\ \A l \in Loops, p \in FunctorOps, d \in Conns :
                (l # loopOf[c] \/ p # op \/ d # c) /\ Once(functors[l], Functor(p, d))
                    => Once(functors'[l], Functor(p, d))
          /\ ~Has(functors[loopOf[c]], Functor(op, c)) => Once(functors'[loopOf[c]], Functor(op, c))
      BY <1>3, <1>4, <1>6, <2>1, AfterPush
    <2>3. QED
      BY <2>2 DEF Queued
  <1>8. ServerTypes'
    <2>1. \A l \in Loops : Len(functors[l]) \in Nat /\ Len(functors'[l]) \in Nat
      BY <1>6, <1>7, LenProperties DEF Queues
    <2>2. QueueTypes'
      BY <1>0, <1>5, <1>7, <2>1 DEF ServerTypes, QueueTypes
    <2>3. ConnTypes' /\ LoopTypes' /\ PoolTypes' /\ UserTypes'
      BY <1>0, <1>5 DEF ServerTypes, ConnTypes, LoopTypes, PoolTypes, UserTypes
    <2>4. QED
      BY <2>2, <2>3 DEF ServerTypes
  <1>9. user'.conn \notin Conns /\ user'.conn = NoConn /\ \A d : user' # Functor("forceClose", d)
    BY <1>5, ServerAssumption, FunctorIsPair DEF NoCall
  <1>10. ASSUME NEW d \in Conns \ {c} PROVE Life(d)'
    <2>1. SameQueues(d)
      BY <1>7 DEF SameQueues
    <2>2. SameConn(d) /\ SameCallbacks(d) /\ SameUse(d)
      BY <1>0, <1>5, <1>9 DEF SameConn, SameCallbacks, SameUse, ServerTypes, ConnTypes
    <2>3. QED
      BY <1>0, <2>1, <2>2, Untouched
  <1>11. /\ \A l \in Loops, p \in FunctorOps : p # op => (Queued(l, p, c)' <=> Queued(l, p, c))
         /\ \A l \in Loops : Queued(l, op, c)' => Queued(l, op, c) \/ l = loopOf[c]
         /\ \A l \in Loops, p \in FunctorOps : p # op /\ Once(functors[l], Functor(p, c))
                => Once(functors'[l], Functor(p, c))
    BY <1>3, <1>7, Zenon
  <1>12. /\ "established" \in FunctorOps /\ "remove" \in FunctorOps /\ "destroyed" \in FunctorOps
         /\ "forceClose" \in FunctorOps /\ "shutdown" \in FunctorOps /\ Base \in Loops
         /\ op # "established" /\ op # "remove" /\ op # "destroyed"
    BY <1>2, ServerAssumption DEF FunctorOps
  <1>13. Life(c)'
    <2>1. BeforeUp(c)' /\ WhileServing(c)' /\ WhileClosing(c)' /\ InItsLoop(c)'
      <3>1. BeforeUp(c)'
        BY <1>4, <1>5, <1>11, <1>12 DEF Life, BeforeUp
      <3>2. WhileServing(c)'
        BY <1>4, <1>5, <1>11, <1>12 DEF Life, WhileServing
      <3>3. WhileClosing(c)'
        BY <1>4, <1>5, <1>11, <1>12 DEF Life, WhileClosing, Excused, ClosedTwice
      <3>4. QED
        BY <1>4, <1>5, <3>1, <3>2, <3>3 DEF Life, InItsLoop
    <2>2. WhileForcing(c)'
      <3>1. CASE op = "forceClose"
        <4>1. ForceAhead(c) /\ (Excused(c) \/ \A m \in Loops : ~Queued(m, "forceClose", c))
          BY <1>2, <1>4, <3>1 DEF Life, WhileForcing
        <4>2. ForceAhead(c)' /\ (Excused(c) => Excused(c)')
          BY <1>5, <4>1 DEF ForceAhead, Excused, ClosedTwice
        <4>3. Excused(c)' \/ Once(functors'[loopOf[c]], Functor("forceClose", c))
          BY <1>4, <1>7, <3>1, <4>1, <4>2
        <4>4. \A m \in Loops : Queued(m, "forceClose", c)' => m = loopOf[c]
          BY <1>4, <1>11, <3>1 DEF Life, WhileForcing
        <4>5. QED
          BY <1>5, <1>9, <4>2, <4>3, <4>4 DEF WhileForcing
      <3>2. CASE op # "forceClose"
        <4>1. (ForceAhead(c) => ForceAhead(c)') /\ (Excused(c) => Excused(c)')
          BY <1>5 DEF ForceAhead, Excused, ClosedTwice
        <4>2. QED
          BY <1>4, <1>5, <1>9, <1>11, <1>12, <3>2, <4>1 DEF Life, WhileForcing
      <3>3. QED
        BY <3>1, <3>2
    <2>3. States(c)'
      <3>1. CASE op = "send"
        BY <1>4, <1>5, <1>11, <1>12, <3>1 DEF Life, States, IsOpen
      <3>2. CASE op # "send"
        <4>1. state_'[c] = "kDisconnecting"
          BY <1>0, <1>5, <3>2 DEF ServerTypes, ConnTypes
        <4>2. QED
          BY <1>4, <1>5, <4>1 DEF Life, States, IsOpen
      <3>3. QED
        BY <3>1, <3>2
    <2>4. QED
      BY <2>1, <2>2, <2>3 DEF Life
  <1>14. QED
    BY <1>0, <1>8, <1>10, <1>13 DEF ServerInv

\* Around sendInLoop() and shutdownInLoop(): at most a functor of theirs is gone,
\* and a connection that is closing is noted in late.
AroundCall(c) ==
    /\ UNCHANGED <<loopOf, ups, downs, eof, cb, ready, connections_, forced, held, user>>
    /\ \A l \in Loops, op \in FunctorOps :
          /\ Queued(l, op, c)' => Queued(l, op, c)
          /\ op \notin {"send", "shutdown"} /\ Queued(l, op, c) => Queued(l, op, c)'
          /\ Once(functors[l], Functor(op, c)) => Once(functors'[l], Functor(op, c))
    /\ late \subseteq late'
    /\ events[c] = {} => c \in late'

\* sendInLoop() on a connection that has been established and whose socket is
\* not shut down
LEMMA SendInLoopLife ==
    ASSUME ServerTypes, NEW c \in Conns, Life(c), ups[c] = 1, AroundCall(c),
           SendInLoop(c), state_' = state_, finSent[c] => c \in late'
    PROVE  Life(c)'
  <1>0. /\ "established" \in FunctorOps /\ "remove" \in FunctorOps /\ "destroyed" \in FunctorOps
        /\ "forceClose" \in FunctorOps /\ "shutdown" \in FunctorOps /\ Base \in Loops
        /\ loopOf[c] \in Loops
    BY HasLoop, ServerAssumption DEF FunctorOps
  <1>1. /\ finSent' = finSent
        /\ \/ UNCHANGED <<outputBuffer_, events, added>>
           \/ /\ "out" \in events'[c] /\ "in" \in events'[c] <=> "in" \in events[c]
              /\ events'[c] = events[c] \cup {"out"}
    BY DEF SendInLoop, SetEvents, IsWriting, ServerTypes, ConnTypes
  <1>2. /\ "in" \in events'[c] <=> "in" \in events[c]
        /\ "out" \in events[c] => "out" \in events'[c]
        /\ "out" \notin events'[c] => outputBuffer_'[c] = outputBuffer_[c]
        /\ events'[c] = {} => events[c] = {}
    BY <1>1
  <1>3. c \notin late' => c \notin late /\ events[c] # {} /\ "in" \in events[c] /\ downs[c] = 0
    BY DEF AroundCall, Life, WhileServing
  <1>4. BeforeUp(c)'
    BY <1>0 DEF Life, BeforeUp, AroundCall
  <1>5. WhileServing(c)'
    BY <1>0, <1>2, <1>3 DEF Life, WhileServing, AroundCall
  <1>6. WhileClosing(c)'
    <2>1. Excused(c) => Excused(c)'
      BY DEF Excused, ClosedTwice, AroundCall
    <2>2. QED
      BY <1>0, <1>3, <2>1 DEF Life, WhileClosing, AroundCall
  <1>7. WhileForcing(c)'
    <2>1. ForceAhead(c) => ForceAhead(c)'
      BY <1>2 DEF ForceAhead, Excused, ClosedTwice, AroundCall
    <2>2. Excused(c) => Excused(c)'
      BY DEF Excused, ClosedTwice, AroundCall
    <2>3. QED
      BY <1>0, <2>1, <2>2 DEF Life, WhileForcing, AroundCall
  <1>8. States(c)'
    BY <1>0, <1>1 DEF Life, States, IsOpen, AroundCall
  <1>9. InItsLoop(c)'
    BY <1>2 DEF Life, InItsLoop, AroundCall
  <1>10. QED
    BY <1>4, <1>5, <1>6, <1>7, <1>8, <1>9 DEF Life

\* shutdownInLoop() on a connection that is kDisconnecting by now
LEMMA ShutdownInLoopLife ==
    ASSUME ServerTypes, NEW c \in Conns, Life(c), ups[c] = 1, AroundCall(c),
           ShutdownInLoop(c), state_'[c] # "kConnected",
           state_'[c] = state_[c] \/ state_'[c] = "kDisconnecting"
    PROVE  Life(c)'
  <1>0. /\ "established" \in FunctorOps /\ "remove" \in FunctorOps /\ "destroyed" \in FunctorOps
        /\ "forceClose" \in FunctorOps /\ "shutdown" \in FunctorOps /\ Base \in Loops
        /\ loopOf[c] \in Loops
    BY HasLoop, ServerAssumption DEF FunctorOps
  <1>1. /\ UNCHANGED <<events, added, outputBuffer_>>
        /\ finSent'[c] => finSent[c] \/ "out" \notin events[c]
    BY DEF ShutdownInLoop, MayShutdown, IsWriting, ServerTypes, ConnTypes
  <1>3. c \notin late' => c \notin late /\ events[c] # {} /\ "in" \in events[c] /\ downs[c] = 0
    BY DEF AroundCall, Life, WhileServing
  <1>4. BeforeUp(c)'
    BY <1>0 DEF Life, BeforeUp, AroundCall
  <1>5. WhileServing(c)'
    BY <1>0, <1>1, <1>3 DEF Life, WhileServing, AroundCall
  <1>6. WhileClosing(c)'
    <2>1. Excused(c) => Excused(c)'
      BY DEF Excused, ClosedTwice, AroundCall
    <2>2. QED
      BY <1>0, <1>3, <2>1 DEF Life, WhileClosing, AroundCall
  <1>7. WhileForcing(c)'
    <2>1. ForceAhead(c) => ForceAhead(c)'
      BY <1>1 DEF ForceAhead, Excused, ClosedTwice, AroundCall
    <2>2. Excused(c) => Excused(c)'
      BY DEF Excused, ClosedTwice, AroundCall
    <2>3. QED
      BY <1>0, <2>1, <2>2 DEF Life, WhileForcing, AroundCall
  <1>8. States(c)'
    <2>1. finSent'[c] => c \in late' \/ outputBuffer_'[c] = 0
      BY <1>1, <1>3 DEF Life, States, WhileServing
    <2>2. QED
      BY <1>0, <2>1 DEF Life, States, IsOpen, AroundCall
  <1>9. InItsLoop(c)'
    BY <1>1 DEF Life, InItsLoop, AroundCall
  <1>10. QED
    BY <1>4, <1>5, <1>6, <1>7, <1>8, <1>9 DEF Life

\* send(), shutdown() and forceClose() in a callback
LEMMA UserCallStep ==
    ASSUME ServerInv, NEW l \in Loops, UserCall(l), UNCHANGED useVars
    PROVE  ServerInv'
  <1>0. ServerTypes /\ ~failed /\ failed' = failed /\ \A d \in Conns : Life(d)
    BY DEF ServerInv, UserCall
  <1>1. PICK c \in Conns : c = cb[l].conn
    BY ServerAssumption DEF UserCall
  <1>2. Life(c) /\ ups[c] = 1 /\ loopOf[c] = l /\ (downs[c] = 0 => "in" \in events[c])
    BY <1>0, <1>1 DEF Life, InItsLoop
  <1>3. UNCHANGED <<loopOf, ups, downs, eof, cb, ready, left, listenning, loops_, next_, connections_,
                    held, user, calls, late>>
    BY DEF UserCall, loopVars, useVars
  <1>4. LoopTypes' /\ UserTypes' /\ (forced' \in [Conns -> Nat] => PoolTypes')
    BY <1>0, <1>3 DEF ServerTypes, LoopTypes, PoolTypes, UserTypes
  <1>5. ConnTypes /\ LoopTypes /\ functors \in Queues /\ forced \in [Conns -> Nat]
    BY <1>0 DEF ServerTypes, QueueTypes, PoolTypes
  <1>6. CASE Send(c) /\ UNCHANGED forced
    <2>1. SendInLoop(c) /\ state_' = state_ /\ functors' = functors /\ state_[c] = "kConnected"
      BY <1>6 DEF Send
    <2>2. ServerTypes'
      <3>1. ConnTypes'
        BY <1>3, <1>5, <2>1, OperationTypes
      <3>2. QED
        BY <1>0, <1>3, <1>4, <1>5, <1>6, <2>1, <3>1 DEF ServerTypes, QueueTypes
    <2>3. AroundCall(c) /\ ~finSent[c]
      <3>1. ~finSent[c] /\ downs[c] = 0
        BY <1>2, <1>5, <2>1 DEF Life, States, ConnTypes
      <3>2. QED
        BY <1>2, <1>3, <1>6, <2>1, <3>1 DEF AroundCall, Queued
    <2>4. Life(c)'
      BY <1>0, <1>2, <2>1, <2>3, SendInLoopLife
    <2>5. ASSUME NEW d \in Conns \ {c} PROVE Life(d)'
      <3>1. SameConn(d)
        BY <1>3, <1>5, <2>1 DEF SameConn, SendInLoop, SetEvents, ConnTypes
      <3>2. SameQueues(d) /\ SameCallbacks(d) /\ SameUse(d)
        BY <1>3, <1>6, <2>1 DEF SameQueues, SameCallbacks, SameUse, Queued
      <3>3. QED
        BY <1>0, <3>1, <3>2, Untouched
    <2>6. QED
      BY <1>0, <2>2, <2>4, <2>5 DEF ServerInv
  <1>7. CASE Shutdown(c) /\ UNCHANGED forced
    <2>1. /\ ShutdownInLoop(c) /\ state_' = [state_ EXCEPT ![c] = "kDisconnecting"]
          /\ functors' = functors /\ state_[c] = "kConnected"
      BY <1>7 DEF Shutdown
    <2>2. ServerTypes'
      <3>1. state_' \in [Conns -> {"kConnecting", "kConnected", "kDisconnecting", "kDisconnected"}]
        BY <1>5, <2>1 DEF ConnTypes
      <3>2. ConnTypes'
        BY <1>3, <1>5, <2>1, <3>1, OperationTypes
      <3>3. QED
        BY <1>0, <1>3, <1>4, <1>5, <1>7, <2>1, <3>2 DEF ServerTypes, QueueTypes
    <2>3. AroundCall(c) /\ state_'[c] = "kDisconnecting"
      BY <1>2, <1>3, <1>5, <1>7, <2>1 DEF AroundCall, Life, States, Queued, ConnTypes
    <2>4. Life(c)'
      BY <1>0, <1>2, <2>1, <2>3, ShutdownInLoopLife
    <2>5. ASSUME NEW d \in Conns \ {c} PROVE Life(d)'
      <3>1. SameConn(d)
        BY <1>3, <1>5, <2>1 DEF SameConn, ShutdownInLoop, ConnTypes
      <3>2. SameQueues(d) /\ SameCallbacks(d) /\ SameUse(d)
        BY <1>3, <1>7, <2>1 DEF SameQueues, SameCallbacks, SameUse, Queued
      <3>3. QED
        BY <1>0, <3>1, <3>2, Untouched
    <2>6. QED
      BY <1>0, <2>2, <2>4, <2>5 DEF ServerInv
  <1>8. CASE ForceClose(c) /\ forced' = [forced EXCEPT ![c] = @ + 1]
    <2>0. /\ "established" \in FunctorOps /\ "remove" \in FunctorOps /\ "destroyed" \in FunctorOps
          /\ "forceClose" \in FunctorOps /\ "shutdown" \in FunctorOps /\ Base \in Loops
      BY ServerAssumption DEF FunctorOps
    <2>1. /\ UNCHANGED <<events, added, outputBuffer_, sends, finSent>>
          /\ functors' = Push(functors, l, Functor("forceClose", c))
          /\ state_' = [state_ EXCEPT ![c] = "kDisconnecting"]
      BY <1>2, <1>8 DEF ForceClose
    <2>2. /\ functors' \in Queues
          /\ \A m \in Loops : Len(functors[m]) <= Len(functors'[m])
          /\ \A m \in Loops, p \in FunctorOps, d \in Conns :
                Queued(m, p, d)' <=> Queued(m, p, d) \/ (m = l /\ p = "forceClose" /\ d = c)
          /\ \A m \in Loops, p \in FunctorOps, d \in Conns :
                (m # l \/ p # "forceClose" \/ d # c) /\ Once(functors[m], Functor(p, d))
                    => Once(functors'[m], Functor(p, d))
          /\ ~Queued(l, "forceClose", c) => Once(functors'[l], Functor("forceClose", c))
      BY <1>5, <2>0, <2>1, AfterPush DEF Queued
    <2>3. ServerTypes'
      <3>1. \A m \in Loops : Len(functors[m]) \in Nat /\ Len(functors'[m]) \in Nat
        BY <1>5, <2>2, LenProperties DEF Queues
      <3>2. QueueTypes'
        BY <1>0, <1>3, <2>2, <3>1 DEF ServerTypes, QueueTypes
      <3>3. ConnTypes'
        BY <1>3, <1>5, <2>1 DEF ConnTypes
      <3>4. forced' \in [Conns -> Nat]
        BY <1>5, <1>8
      <3>5. QED
        BY <1>4, <3>2, <3>3, <3>4 DEF ServerTypes
    <2>4. ASSUME NEW d \in Conns \ {c} PROVE Life(d)'
      <3>1. SameQueues(d)
        BY <2>2 DEF SameQueues
      <3>2. SameConn(d) /\ SameCallbacks(d) /\ SameUse(d)
        BY <1>3, <1>5, <1>8, <2>1 DEF SameConn, SameCallbacks, SameUse, ConnTypes
      <3>3. QED
        BY <1>0, <3>1, <3>2, Untouched
    <2>5. /\ \A m \in Loops, p \in FunctorOps : p # "forceClose" => (Queued(m, p, c)' <=> Queued(m, p, c))
          /\ \A m \in Loops, p \in FunctorOps : p # "forceClose" /\ Once(functors[m], Functor(p, c))
                 => Once(functors'[m], Functor(p, c))
      BY <2>2, Zenon
    <2>6. state_'[c] = "kDisconnecting"
      BY <1>5, <2>1 DEF ConnTypes
    <2>7. BeforeUp(c)' /\ InItsLoop(c)'
      BY <1>2, <1>3, <2>0, <2>1, <2>5 DEF Life, BeforeUp, InItsLoop
    <2>8. forced[c] \in Nat /\ forced'[c] = forced[c] + 1 /\ (Excused(c) => Excused(c)')
      <3>1. forced[c] \in Nat /\ forced'[c] = forced[c] + 1
        BY <1>5, <1>8
      <3>2. QED
        BY <1>3, <3>1 DEF Excused, ClosedTwice
    <2>9. WhileServing(c)' /\ WhileClosing(c)'
      BY <1>2, <1>3, <2>0, <2>1, <2>5, <2>8 DEF Life, WhileServing, WhileClosing
    <2>10. WhileForcing(c)'
      <3>1. ForceAhead(c)'
        BY <1>2, <1>3, <2>1, <2>8 DEF ForceAhead, Excused, ClosedTwice, Life, WhileServing
      <3>2. forced[c] > 0 => Excused(c)'
        BY <1>3, <2>8 DEF Excused, ClosedTwice
      <3>3. Excused(c)' \/ (/\ user # Functor("forceClose", c)
                            /\ \A m \in Loops : ~Queued(m, "forceClose", c))
        BY <1>2, <3>2 DEF Life, WhileForcing, ForceAhead, Excused, ClosedTwice
      <3>4. \A m \in Loops : Queued(m, "forceClose", c)' =>
               m = l /\ (Excused(c)' \/ Once(functors'[m], Functor("forceClose", c)))
        BY <1>2, <2>0, <2>2, <3>3 DEF Life, WhileForcing
      <3>5. QED
        BY <1>2, <1>3, <3>1, <3>3, <3>4 DEF WhileForcing
    <2>11. States(c)'
      BY <1>2, <1>3, <2>1, <2>6 DEF Life, States, IsOpen
    <2>12. Life(c)'
      BY <2>7, <2>9, <2>10, <2>11 DEF Life
    <2>13. QED
      BY <1>0, <2>3, <2>4, <2>12 DEF ServerInv
  <1>9. QED
    BY <1>1, <1>6, <1>7, <1>8 DEF UserCall

\* sendInLoop() and shutdownInLoop() as functors: the connection is gone only when
\* it is in late.
LEMMA RunUserFunctorStep ==
    ASSUME ServerInv, NEW l \in Loops, RunUserFunctor(l)
    PROVE  ServerInv'
  <1>0. ServerTypes /\ ~failed /\ left[l] > 0 /\ \A d \in Conns : Life(d)
    BY DEF ServerInv, RunUserFunctor, Idle
  <1>1. /\ functors[l] # <<>> /\ Head(functors[l]) \in ConnFunctors
        /\ Pop(functors, l) \in Queues
        /\ [left EXCEPT ![l] = @ - 1] \in [Loops -> Nat]
        /\ \A m \in Loops : [left EXCEPT ![l] = @ - 1][m] <= Len(Pop(functors, l)[m])
    BY <1>0, NextFunctor
  <1>2. PICK op \in FunctorOps, c \in Conns : Head(functors[l]) = Functor(op, c)
    BY <1>1, FunctorIsPair
  <1>3. Head(functors[l]).op = op /\ Head(functors[l]).conn = c
    BY <1>2, FunctorIsPair
  <1>4. /\ op \in {"send", "shutdown"}
        /\ left' = [left EXCEPT ![l] = @ - 1]
        /\ functors' = Pop(functors, l)
        /\ IF op = "send" THEN SendInLoop(c) ELSE ShutdownInLoop(c)
        /\ failed' = ~Kept(c)
        /\ late' = (IF Closing(c) \/ (op = "send" /\ finSent[c]) THEN late \cup {c} ELSE late)
        /\ UNCHANGED <<loopOf, state_, ups, downs, eof, ready, cb, listenning, loops_, next_, connections_,
                       forced, held, user, calls>>
    BY <1>3 DEF RunUserFunctor, Pop, serverVars
  <1>5. ConnTypes /\ LoopTypes /\ functors \in Queues
    BY <1>0 DEF ServerTypes, QueueTypes
  <1>6. /\ Queued(l, op, c)
        /\ \A m \in Loops, p \in FunctorOps, d \in Conns :
              /\ Queued(m, p, d)' => Queued(m, p, d)
              /\ (m # l \/ p # op \/ d # c) /\ Queued(m, p, d) => Queued(m, p, d)'
              /\ Once(functors[m], Functor(p, d)) => Once(functors'[m], Functor(p, d))
    <2>1. PICK q : q = Pop(functors, l)
      OBVIOUS
    <2>2. /\ Queued(l, op, c)
          /\ \A m \in Loops, p \in FunctorOps, d \in Conns :
                /\ Has(q[m], Functor(p, d)) => Queued(m, p, d)
                /\ (m # l \/ p # op \/ d # c) /\ Queued(m, p, d) => Has(q[m], Functor(p, d))
                /\ Once(functors[m], Functor(p, d)) => Once(q[m], Functor(p, d))
      BY <1>1, <1>2, <1>5, <2>1, AfterPop
    <2>3. functors' = q /\ \A m \in Loops, p \in FunctorOps, d \in Conns : Queued(m, p, d)' <=> Has(q[m], Functor(p, d))
      BY <1>4, <2>1 DEF Queued
    <2>4. QED
      BY <2>2, <2>3, Zenon
  <1>7. Life(c) /\ ups[c] = 1 /\ loopOf[c] \in Loops
    <2>1. ups[c] # 0
      BY <1>0, <1>4, <1>6 DEF Life, BeforeUp
    <2>2. Life(c) /\ loopOf[c] \in Loops
      BY <1>0, <2>1, HasLoop
    <2>3. ups[c] = 1
      BY <1>5, <2>1, <2>2 DEF Life, States, ConnTypes
    <2>4. QED
      BY <2>2, <2>3
  <1>8. ServerTypes'
    <2>1. ConnTypes'
      <3>1. UNCHANGED <<eof, loopOf, state_, ups, downs>> /\ (SendInLoop(c) \/ ShutdownInLoop(c))
        BY <1>4
      <3>2. state_' \in [Conns -> {"kConnecting", "kConnected", "kDisconnecting", "kDisconnected"}]
        BY <1>5, <3>1 DEF ConnTypes
      <3>3. QED
        BY <1>5, <3>1, <3>2, OperationTypes
    <2>2. QueueTypes'
      BY <1>1, <1>4 DEF QueueTypes
    <2>3. LoopTypes'
      BY <1>4, <1>5 DEF LoopTypes
    <2>4. QED
      BY <1>0, <1>4, <2>1, <2>2, <2>3 DEF ServerTypes, PoolTypes, UserTypes
  <1>9. AroundCall(c)
    BY <1>4, <1>6, <1>7 DEF AroundCall, Closing
  <1>10. Life(c)'
    <2>1. CASE op = "send"
      BY <1>0, <1>4, <1>7, <1>9, <2>1, SendInLoopLife
    <2>2. CASE op = "shutdown"
      <3>1. state_[c] # "kConnected"
        BY <1>6, <1>7, <2>2 DEF Life, States
      <3>2. QED
        BY <1>0, <1>4, <1>7, <1>9, <2>2, <3>1, ShutdownInLoopLife
    <2>3. QED
      BY <1>4, <2>1, <2>2
  <1>11. ASSUME NEW d \in Conns \ {c} PROVE Life(d)'
    <2>1. SameConn(d)
      BY <1>4, <1>5 DEF SameConn, SendInLoop, ShutdownInLoop, SetEvents, ConnTypes
    <2>2. SameQueues(d)
      BY <1>6 DEF SameQueues
    <2>3. SameCallbacks(d) /\ SameUse(d)
      BY <1>4 DEF SameCallbacks, SameUse
    <2>4. QED
      BY <1>0, <2>1, <2>2, <2>3, Untouched
  <1>12. ~Kept(c) => c \in late'
    <2>1. c \notin connections_ => "in" \notin events[c]
      BY <1>7 DEF Life, WhileServing
    <2>2. "in" \notin events[c] => c \in late'
      BY <1>4, <1>7 DEF Life, WhileServing, Closing
    <2>3. QED
      BY <2>1, <2>2 DEF Kept, Owned
  <1>13. failed' => SafeInv'
    BY <1>4, <1>8, <1>10, <1>11, <1>12, LifeStaysSafe DEF SafeInv, NoFailure
  <1>14. QED
    BY <1>8, <1>10, <1>11, <1>13 DEF ServerInv

-----------------------------------------------------------------------------
(* Closing a connection.                                                   *)

\* The queues q are those of now, but that a forceClose or remove of the connection
\* may have been taken out.
KeepsOthers(q, c) ==
    \A l \in Loops, op \in FunctorOps, d \in Conns :
        /\ Has(q[l], Functor(op, d)) => Queued(l, op, d)
        /\ (d # c \/ op \notin {"forceClose", "remove"}) /\ Queued(l, op, d) => Has(q[l], Functor(op, d))
        /\ Once(functors[l], Functor(op, d)) => Once(q[l], Functor(op, d))

\* handleClose() of the connection, and what follows it in the base loop
Closes(c, q) ==
    /\ UNCHANGED <<loopOf, state_, outputBuffer_, finSent, ups, downs, cb, eof, forced, late, held, user>>
    /\ \A l \in Loops : ready'[l] \subseteq ready[l]
    /\ \A d \in Conns \ {c} : events'[d] = events[d] /\ added'[d] = added[d]
    /\ "in" \notin events'[c] /\ (c \notin late => events'[c] = {})
    /\ KeepsOthers(q, c)
    /\ eof[c] \/ forced[c] > 0 \/ c \in late
    /\ \A l \in Loops : cb[l].conn = c => cb[l].kind = "down"
    /\ user = Functor("forceClose", c) \/ (\E l \in Loops : Has(q[l], Functor("forceClose", c)))
          => forced[c] > 0 /\ Excused(c)
    /\ Excused(c) \/ (c \in connections_ /\ ~Has(q[Base], Functor("remove", c)))

\* closeCallback_ queues removeConnectionInLoop() for the base loop.
LEMMA ToTheBaseLoop ==
    ASSUME ServerTypes, NEW c \in Conns, Life(c), ups[c] = 1, NEW q \in Queues, Closes(c, q),
           functors' = Push(q, Base, Functor("remove", c)), UNCHANGED connections_
    PROVE  Life(c)' /\ \A d \in Conns \ {c} : SameQueues(d)
  <1>0. /\ "established" \in FunctorOps /\ "remove" \in FunctorOps /\ "destroyed" \in FunctorOps
        /\ "forceClose" \in FunctorOps /\ "shutdown" \in FunctorOps /\ Base \in Loops
        /\ loopOf[c] \in Loops
    BY HasLoop, ServerAssumption DEF FunctorOps
  <1>1. /\ \A l \in Loops, p \in FunctorOps, d \in Conns :
              Queued(l, p, d)' <=> Has(q[l], Functor(p, d)) \/ (l = Base /\ p = "remove" /\ d = c)
        /\ \A l \in Loops, p \in FunctorOps, d \in Conns :
              (l # Base \/ p # "remove" \/ d # c) /\ Once(q[l], Functor(p, d))
                  => Once(functors'[l], Functor(p, d))
        /\ ~Has(q[Base], Functor("remove", c)) => Once(functors'[Base], Functor("remove", c))
    BY <1>0, AfterPush
  <1>2. \A d \in Conns \ {c} : SameQueues(d)
    BY <1>1 DEF SameQueues, Closes, KeepsOthers
  <1>3. /\ \A l \in Loops, p \in FunctorOps : p # "remove" =>
              /\ Queued(l, p, c)' => Queued(l, p, c)
              /\ p # "forceClose" /\ Queued(l, p, c) => Queued(l, p, c)'
              /\ Once(functors[l], Functor(p, c)) => Once(functors'[l], Functor(p, c))
        /\ \A l \in Loops : Queued(l, "remove", c)' => Queued(l, "remove", c) \/ l = Base
        /\ Queued(Base, "remove", c)'
        /\ \A l \in Loops : Queued(l, "forceClose", c)' <=> Has(q[l], Functor("forceClose", c))
    BY <1>0, <1>1 DEF Closes, KeepsOthers
  <1>4. BeforeUp(c)'
    BY <1>0, <1>3 DEF Life, BeforeUp, Closes
  <1>5. WhileServing(c)'
    BY DEF WhileServing, Closes
  <1>6. WhileClosing(c)'
    BY <1>0, <1>1, <1>3 DEF Life, WhileClosing, Closes, Excused, ClosedTwice
  <1>7. WhileForcing(c)'
    BY <1>0, <1>3 DEF Life, WhileForcing, ForceAhead, Excused, ClosedTwice, Closes
  <1>8. States(c)'
    BY <1>0, <1>3 DEF Life, States, IsOpen, Closes
  <1>9. InItsLoop(c)'
    BY DEF Life, InItsLoop, Closes
  <1>10. QED
    BY <1>2, <1>4, <1>5, <1>6, <1>7, <1>8, <1>9 DEF Life

\* removeConnectionInLoop() of a connection that is in the map
LEMMA OutOfTheMap ==
    ASSUME ServerTypes, NEW c \in Conns, Life(c), ups[c] = 1, NEW q \in Queues, Closes(c, q),
           functors' = Push(q, loopOf[c], Functor("destroyed", c)),
           c \in connections_, connections_' = connections_ \ {c},
           Excused(c) \/ ~Has(q[Base], Functor("remove", c))
    PROVE  Life(c)' /\ \A d \in Conns \ {c} : SameQueues(d)
  <1>0. /\ "established" \in FunctorOps /\ "remove" \in FunctorOps /\ "destroyed" \in FunctorOps
        /\ "forceClose" \in FunctorOps /\ "shutdown" \in FunctorOps /\ Base \in Loops
        /\ loopOf[c] \in Loops
    BY HasLoop, ServerAssumption DEF FunctorOps
  <1>1. /\ \A l \in Loops, p \in FunctorOps, d \in Conns :
              Queued(l, p, d)' <=> Has(q[l], Functor(p, d)) \/ (l = loopOf[c] /\ p = "destroyed" /\ d = c)
        /\ \A l \in Loops, p \in FunctorOps, d \in Conns :
              (l # loopOf[c] \/ p # "destroyed" \/ d # c) /\ Once(q[l], Functor(p, d))
                  => Once(functors'[l], Functor(p, d))
        /\ ~Has(q[loopOf[c]], Functor("destroyed", c))
              => Once(functors'[loopOf[c]], Functor("destroyed", c))
    BY <1>0, AfterPush
  <1>2. \A d \in Conns \ {c} : SameQueues(d)
    BY <1>1 DEF SameQueues, Closes, KeepsOthers
  <1>3. /\ \A l \in Loops, p \in FunctorOps : p # "destroyed" =>
              /\ Queued(l, p, c)' => Queued(l, p, c)
              /\ p \notin {"forceClose", "remove"} /\ Queued(l, p, c) => Queued(l, p, c)'
              /\ Once(functors[l], Functor(p, c)) => Once(functors'[l], Functor(p, c))
        /\ Queued(Base, "remove", c)' <=> Has(q[Base], Functor("remove", c))
        /\ \A l \in Loops : Queued(l, "destroyed", c)' => Queued(l, "destroyed", c) \/ l = loopOf[c]
        /\ Queued(loopOf[c], "destroyed", c)'
        /\ \A l \in Loops : Queued(l, "forceClose", c)' <=> Has(q[l], Functor("forceClose", c))
    BY <1>0, <1>1 DEF Closes, KeepsOthers
  <1>4. /\ downs[c] = 0 /\ \A l \in Loops : ~Queued(l, "destroyed", c)
        /\ Once(functors'[loopOf[c]], Functor("destroyed", c))
    <2>1. downs[c] = 0
      BY DEF Life, States, ServerTypes, ConnTypes
    <2>2. \A l \in Loops : ~Queued(l, "destroyed", c)
      BY DEF Life, WhileClosing
    <2>3. QED
      BY <1>0, <1>1, <2>1, <2>2 DEF Closes, KeepsOthers
  <1>5. BeforeUp(c)'
    BY <1>0, <1>3 DEF Life, BeforeUp, Closes
  <1>6. WhileServing(c)'
    BY DEF WhileServing, Closes
  <1>7. WhileClosing(c)'
    BY <1>0, <1>3, <1>4 DEF Life, WhileClosing, Closes, Excused, ClosedTwice
  <1>8. WhileForcing(c)'
    BY <1>0, <1>3 DEF Life, WhileForcing, ForceAhead, Excused, ClosedTwice, Closes
  <1>9. States(c)'
    BY <1>0, <1>3, <1>4 DEF Life, States, IsOpen, Closes
  <1>10. InItsLoop(c)'
    BY DEF Life, InItsLoop, Closes
  <1>11. QED
    BY <1>2, <1>5, <1>6, <1>7, <1>8, <1>9, <1>10 DEF Life

\* A second removal: the connection is not in the map any more, and it is one that
\* NoFailure names.
LEMMA RemovedTwice ==
    ASSUME ServerTypes, ServerTypes', \A d \in Conns : Life(d),
           NEW c \in Conns, loopOf[c] \in Loops, NEW q \in Queues, Closes(c, q),
           functors' = Push(q, loopOf[c], Functor("destroyed", c)),
           c \notin connections_, connections_' = connections_ \ {c}
    PROVE  SafeInv'
  <1>0. "destroyed" \in FunctorOps /\ OwningFunctors \subseteq FunctorOps /\ "destroyed" \in OwningFunctors
    BY DEF FunctorOps, OwningFunctors
  <1>1. RegisteredIsAlive /\ CallbackProtocol /\ NothingSentAfterFin
    BY LifeIsSafe
  <1>2. \A l \in Loops, p \in FunctorOps, d \in Conns :
           Queued(l, p, d)' <=> Has(q[l], Functor(p, d)) \/ (l = loopOf[c] /\ p = "destroyed" /\ d = c)
    BY <1>0, AfterPush
  <1>3. functors \in Queues /\ functors' \in Queues
    BY DEF ServerTypes, QueueTypes
  <1>4. \A d \in Conns : Owned(d) => Owned(d)'
    <2> SUFFICES ASSUME NEW d \in Conns, Owned(d) PROVE Owned(d)'
      OBVIOUS
    <2>1. CASE d = c
      BY <1>0, <1>2, <1>3, <2>1, OwnedByQueueNext
    <2>2. CASE d # c
      <3>1. cb' = cb /\ \A l \in Loops, p \in OwningFunctors : Queued(l, p, d) => Queued(l, p, d)'
        BY <1>0, <1>2, <2>2 DEF Closes, KeepsOthers
      <3>2. d \in connections_ => d \in connections_'
        BY <2>2
      <3>3. QED
        BY <1>3, <3>1, <3>2, OwnedByQueue, OwnedByQueueNext
    <2>3. QED
      BY <2>1, <2>2
  <1>5. Owned(c)'
    BY <1>0, <1>2, <1>3, OwnedByQueueNext
  <1>6. RegisteredIsAlive'
    BY <1>1, <1>4, <1>5 DEF RegisteredIsAlive, Closes
  <1>7. CallbackProtocol' /\ NothingSentAfterFin'
    BY <1>1 DEF CallbackProtocol, NothingSentAfterFin, Closes
  <1>8. NoFailure'
    BY DEF NoFailure, Closes, Excused, ClosedTwice
  <1>9. QED
    BY <1>6, <1>7, <1>8 DEF SafeInv

\* Whatever becomes of a connection that closes.
LEMMA CloseStep ==
    ASSUME ServerTypes, ServerTypes', \A d \in Conns : Life(d),
           NEW c \in Conns, ups[c] = 1, NEW q \in Queues, Closes(c, q), failed = FALSE,
           \/ functors' = Push(q, Base, Functor("remove", c)) /\ UNCHANGED <<failed, connections_>>
           \/ /\ functors' = Push(q, loopOf[c], Functor("destroyed", c))
              /\ connections_' = connections_ \ {c} /\ failed' = (c \notin connections_)
    PROVE  ServerInv'
  <1>0. Life(c) /\ loopOf[c] \in Loops
    BY HasLoop
  <1>1. ASSUME NEW d \in Conns \ {c}, SameQueues(d), d \in connections_' <=> d \in connections_
        PROVE  Life(d)'
    <2>1. SameConn(d) /\ SameCallbacks(d) /\ SameUse(d)
      BY <1>1 DEF SameConn, SameCallbacks, SameUse, Closes
    <2>2. QED
      BY <1>1, <2>1, Untouched
  <1>2. CASE functors' = Push(q, Base, Functor("remove", c)) /\ UNCHANGED <<failed, connections_>>
    <2>1. Life(c)' /\ \A d \in Conns \ {c} : SameQueues(d)
      BY <1>0, <1>2, ToTheBaseLoop
    <2>2. QED
      BY <1>1, <1>2, <2>1 DEF ServerInv
  <1>3. CASE /\ functors' = Push(q, loopOf[c], Functor("destroyed", c))
             /\ connections_' = connections_ \ {c} /\ failed' = (c \notin connections_)
    <2>1. CASE c \in connections_
      <3>1. Excused(c) \/ ~Has(q[Base], Functor("remove", c))
        BY DEF Closes
      <3>2. Life(c)' /\ \A d \in Conns \ {c} : SameQueues(d)
        BY <1>0, <1>3, <2>1, <3>1, OutOfTheMap
      <3>3. QED
        BY <1>1, <1>3, <2>1, <3>2 DEF ServerInv
    <2>2. CASE c \notin connections_
      <3>1. SafeInv'
        BY <1>0, <1>3, <2>2, RemovedTwice
      <3>2. QED
        BY <1>3, <2>2, <3>1 DEF ServerInv
    <2>3. QED
      BY <2>1, <2>2
  <1>4. QED
    BY <1>2, <1>3

-----------------------------------------------------------------------------
(* Opening a connection.                                                   *)

\* connectEstablished() of a connection of which nothing else is queued
LEMMA EstablishedLife ==
    ASSUME ServerTypes, NEW c \in Conns, Life(c), ups[c] = 0, NEW l \in Loops,
           ConnectEstablished(l, c), loopOf'[c] = l, c \in connections_', UNCHANGED <<held, user, eof, forced, late>>,
           \A m \in Loops, op \in FunctorOps : ~Queued(m, op, c)',
           \A m \in Loops : c \in ready'[m] => m = l
    PROVE  Life(c)' /\ failed' = FALSE
  <1>0. /\ "established" \in FunctorOps /\ "remove" \in FunctorOps /\ "destroyed" \in FunctorOps
        /\ "forceClose" \in FunctorOps /\ "shutdown" \in FunctorOps /\ Base \in Loops
    BY ServerAssumption DEF FunctorOps
  <1>1. /\ state_[c] = "kConnecting" /\ events[c] = {} /\ downs[c] = 0 /\ outputBuffer_[c] = 0
        /\ ~finSent[c] /\ c \notin held /\ user.conn # c
        /\ \A m \in Loops : cb[m].conn # c
    BY DEF Life, BeforeUp, InItsLoop
  <1>2. /\ state_'[c] = "kConnected" /\ events'[c] = {"in"} /\ ups'[c] = 1
        /\ downs'[c] = 0 /\ outputBuffer_'[c] = 0 /\ ~finSent'[c]
    BY <1>1 DEF ConnectEstablished, SetEvents, ServerTypes, ConnTypes
  <1>3. cb'[l] = [kind |-> "up", conn |-> c] /\ \A m \in Loops \ {l} : cb'[m] = cb[m]
    BY DEF ConnectEstablished, ServerTypes, LoopTypes
  <1>4. cb'[l].kind = "up" /\ l \in Loops /\ NoConn \notin Loops
    BY <1>3, ServerAssumption
  <1>5. user' # Functor("forceClose", c)
    BY <1>1, FunctorIsPair
  <1>6. BeforeUp(c)' /\ WhileForcing(c)'
    BY <1>0, <1>2, <1>4, <1>5 DEF BeforeUp, WhileForcing
  <1>7. WhileServing(c)' /\ WhileClosing(c)'
    BY <1>0, <1>2 DEF WhileServing, WhileClosing
  <1>8. States(c)'
    BY <1>0, <1>2 DEF States, IsOpen
  <1>9. InItsLoop(c)'
    BY <1>1, <1>2, <1>3, <1>4 DEF InItsLoop
  <1>10. failed' = FALSE
    BY <1>1 DEF ConnectEstablished
  <1>11. QED
    BY <1>6, <1>7, <1>8, <1>9, <1>10 DEF Life

\* connectEstablished() leaves every other connection alone.
LEMMA EstablishedOthers ==
    ASSUME ServerTypes, NEW c \in Conns, NEW l \in Loops, ConnectEstablished(l, c), cb[l] = NoCallback,
           NEW d \in Conns \ {c}, Life(d), loopOf'[d] = loopOf[d], SameQueues(d),
           \A m \in Loops : ready'[m] \subseteq ready[m],
           d \in connections_' <=> d \in connections_, UNCHANGED <<held, user, eof, forced, late>>
    PROVE  Life(d)'
  <1>1. SameConn(d)
    BY DEF SameConn, ConnectEstablished, SetEvents, ServerTypes, ConnTypes
  <1>2. cb'[l].conn = c /\ cb[l].conn = NoConn /\ NoConn \notin Conns /\ \A m \in Loops \ {l} : cb'[m] = cb[m]
    BY ServerAssumption DEF ConnectEstablished, ServerTypes, LoopTypes, NoCallback
  <1>3. SameCallbacks(d) /\ SameUse(d)
    BY <1>2 DEF SameCallbacks, SameUse
  <1>4. QED
    BY <1>1, <1>3, Untouched

\* newConnection()
LEMMA AcceptStep ==
    ASSUME ServerInv, failed = FALSE, cb[Base] = NoCallback, NEW c \in Conns, NewConnection(c),
           UNCHANGED useVars, UNCHANGED <<pc, left>>,
           ready' = [ready EXCEPT ![Base] = @ \ {Listener}]
    PROVE  ServerInv'
  <1>0. /\ ServerTypes /\ \A d \in Conns : Life(d)
        /\ UNCHANGED <<eof, listenning, loops_, forced, held, user, calls, late>>
        /\ Base \in Loops
    BY ServerAssumption DEF ServerInv, NewConnection, useVars
  <1>1. PICK io \in Loops : io = GetNextLoop
    BY <1>0, NextLoopTypes DEF ServerTypes
  <1>2. /\ loopOf[c] = NoConn /\ loopOf' = [loopOf EXCEPT ![c] = io]
        /\ next_' = (IF loops_ = <<>> THEN next_ ELSE NextIndex)
        /\ connections_' = connections_ \cup {c}
        /\ IF io = Base
           THEN ConnectEstablished(Base, c) /\ UNCHANGED functors
           ELSE /\ functors' = Push(functors, io, Functor("established", c))
                /\ UNCHANGED <<state_, events, added, outputBuffer_, sends, finSent, ups, downs, cb, failed>>
    BY <1>1 DEF NewConnection
  <1>3. ConnTypes /\ LoopTypes /\ PoolTypes /\ functors \in Queues
    BY <1>0 DEF ServerTypes, QueueTypes
  <1>4. PoolTypes' /\ UserTypes'
    BY <1>0, <1>2, <1>3, NextLoopTypes DEF PoolTypes, UserTypes, ServerTypes
  <1>5. /\ loopOf' \in [Conns -> Loops \cup {NoConn}]
        /\ loopOf'[c] = io /\ \A d \in Conns \ {c} : loopOf'[d] = loopOf[d]
    BY <1>2, <1>3 DEF ConnTypes
  <1>6. /\ ready' \in [Loops -> SUBSET (Conns \cup {Listener})]
        /\ \A m \in Loops : ready'[m] \subseteq ready[m]
        /\ \A m \in Loops : Listener \in ready'[m] => m = Base
    BY <1>3, <1>0 DEF LoopTypes
  <1>7. /\ Life(c) /\ ups[c] = 0 /\ (\A m \in Loops : c \notin ready[m] /\ cb[m].conn # c)
        /\ \A m \in Loops, op \in FunctorOps : ~Queued(m, op, c)
    <2>1. Life(c) /\ ups[c] = 0 /\ NoConn \notin Loops
      BY <1>0, <1>2, ServerAssumption DEF Life, BeforeUp
    <2>2. \A m \in Loops : c \notin ready[m] /\ cb[m].conn # c
      BY <1>2, <2>1 DEF Life, InItsLoop
    <2>3. \A m \in Loops, op \in FunctorOps : ~Queued(m, op, c)
      BY <1>2, <2>1 DEF Life, BeforeUp
    <2>4. QED
      BY <2>1, <2>2, <2>3
  <1>8. CASE io = Base
    <2>1. ConnectEstablished(Base, c) /\ functors' = functors
      BY <1>2, <1>8
    <2>2. ConnTypes' /\ cb' \in [Loops -> Callbacks \cup {NoCallback}] /\ failed' \in BOOLEAN
      BY <1>0, <1>3, <1>5, <2>1, OperationTypes
    <2>3. ServerTypes'
      BY <1>0, <1>4, <1>6, <2>1, <2>2 DEF ServerTypes, QueueTypes, LoopTypes
    <2>4. Life(c)' /\ failed' = FALSE
      <3>1. \A m \in Loops, op \in FunctorOps : ~Queued(m, op, c)'
        BY <1>7, <2>1 DEF Queued
      <3>2. /\ loopOf'[c] = Base /\ c \in connections_' /\ UNCHANGED <<held, user, eof, forced, late>>
            /\ \A m \in Loops : c \in ready'[m] => m = Base
        BY <1>0, <1>2, <1>5, <1>6, <1>7, <1>8
      <3>3. QED
        BY <1>0, <1>7, <2>1, <3>1, <3>2, EstablishedLife
    <2>5. ASSUME NEW d \in Conns \ {c} PROVE Life(d)'
      <3>1. SameQueues(d) /\ loopOf'[d] = loopOf[d] /\ (d \in connections_' <=> d \in connections_)
        BY <1>2, <1>5, <2>1 DEF SameQueues, Queued
      <3>2. QED
        BY <1>0, <1>6, <2>1, <3>1, EstablishedOthers
    <2>6. QED
      BY <2>3, <2>4, <2>5 DEF ServerInv
  <1>9. CASE io # Base
    <2>0. /\ "established" \in FunctorOps /\ "remove" \in FunctorOps /\ "destroyed" \in FunctorOps
          /\ "forceClose" \in FunctorOps /\ "shutdown" \in FunctorOps /\ NoConn \notin Loops
      BY ServerAssumption DEF FunctorOps
    <2>1. /\ functors' = Push(functors, io, Functor("established", c))
          /\ UNCHANGED <<state_, events, added, outputBuffer_, sends, finSent, ups, downs, cb, failed>>
      BY <1>2, <1>9
    <2>2. /\ functors' \in Queues
          /\ \A m \in Loops : Len(functors[m]) <= Len(functors'[m])
          /\ \A m \in Loops, p \in FunctorOps, d \in Conns :
                Queued(m, p, d)' <=> Queued(m, p, d) \/ (m = io /\ p = "established" /\ d = c)
          /\ \A m \in Loops, p \in FunctorOps, d \in Conns :
                (m # io \/ p # "established" \/ d # c) /\ Once(functors[m], Functor(p, d))
                    => Once(functors'[m], Functor(p, d))
          /\ ~Queued(io, "established", c) => Once(functors'[io], Functor("established", c))
      BY <1>3, <2>0, <2>1, AfterPush DEF Queued
    <2>3. ServerTypes'
      <3>1. \A m \in Loops : Len(functors[m]) \in Nat /\ Len(functors'[m]) \in Nat
        BY <1>3, <2>2, LenProperties DEF Queues
      <3>2. QueueTypes'
        BY <1>0, <2>2, <3>1 DEF ServerTypes, QueueTypes
      <3>3. ConnTypes'
        BY <1>0, <1>3, <1>5, <2>1 DEF ConnTypes
      <3>4. LoopTypes'
        BY <1>3, <1>6, <2>1 DEF LoopTypes
      <3>5. QED
        BY <1>4, <3>2, <3>3, <3>4 DEF ServerTypes
    <2>4. ASSUME NEW d \in Conns \ {c} PROVE Life(d)'
      <3>1. SameQueues(d)
        BY <2>2 DEF SameQueues
      <3>2. SameConn(d) /\ SameCallbacks(d) /\ SameUse(d)
        BY <1>0, <1>2, <1>5, <1>6, <2>1 DEF SameConn, SameCallbacks, SameUse
      <3>3. QED
        BY <1>0, <3>1, <3>2, Untouched
    <2>5. /\ \A m \in Loops, p \in FunctorOps : p # "established" => ~Queued(m, p, c)'
          /\ \A m \in Loops : Queued(m, "established", c)' =>
                m = io /\ Once(functors'[m], Functor("established", c))
      BY <1>7, <2>0, <2>2
    <2>6. BeforeUp(c)'
      BY <1>0, <1>2, <1>5, <1>7, <2>0, <2>1, <2>5 DEF Life, BeforeUp
    <2>7. WhileServing(c)' /\ WhileClosing(c)' /\ WhileForcing(c)' /\ States(c)'
      BY <1>0, <1>2, <1>7, <2>0, <2>1, <2>5
         DEF Life, BeforeUp, WhileServing, WhileClosing, WhileForcing, ForceAhead, Excused, ClosedTwice, States, IsOpen
    <2>8. InItsLoop(c)'
      BY <1>6, <1>7, <2>1 DEF InItsLoop
    <2>9. QED
      BY <2>1, <2>3, <2>4, <2>6, <2>7, <2>8 DEF ServerInv, Life
  <1>10. QED
    BY <1>8, <1>9

-----------------------------------------------------------------------------
(* The channels and the functors.                                          *)

\* handleRead() with data
LEMMA MessageStep ==
    ASSUME ServerInv, failed = FALSE, NEW l \in Loops, cb[l] = NoCallback, NEW c \in Conns, c \in ready[l],
           "in" \in events[c], HandleMessage(l, c), UNCHANGED <<functors, connections_>>,
           UNCHANGED <<eof, listenning, loops_, next_, forced>>, UNCHANGED <<pc, left>>, UNCHANGED useVars,
           ready' = [ready EXCEPT ![l] = @ \ {c}]
    PROVE  ServerInv'
  <1>0. /\ ServerTypes /\ \A d \in Conns : Life(d)
        /\ UNCHANGED <<loopOf, state_, events, added, outputBuffer_, sends, finSent, ups, downs, failed,
                       held, user, calls, late>>
    BY DEF ServerInv, HandleMessage, connVars, useVars
  <1>1. /\ ready' \in [Loops -> SUBSET (Conns \cup {Listener})]
        /\ \A m \in Loops : ready'[m] \subseteq ready[m]
    BY <1>0 DEF ServerTypes, LoopTypes
  <1>2. ConnTypes' /\ cb' \in [Loops -> Callbacks \cup {NoCallback}] /\ failed' \in BOOLEAN
    BY <1>0, OperationTypes DEF ServerTypes
  <1>3. ServerTypes'
    BY <1>0, <1>1, <1>2 DEF ServerTypes, QueueTypes, LoopTypes, PoolTypes, UserTypes
  <1>4. /\ cb[l].conn = NoConn /\ NoConn \notin Conns
        /\ cb'[l] = [kind |-> "message", conn |-> c] /\ \A m \in Loops \ {l} : cb'[m] = cb[m]
    BY <1>0, ServerAssumption DEF HandleMessage, ServerTypes, LoopTypes, NoCallback
  <1>5. cb'[l].conn = c /\ cb'[l].kind = "message"
    BY <1>4
  <1>6. \A d \in Conns : SameConn(d) /\ SameQueues(d) /\ SameUse(d)
    BY <1>0 DEF SameConn, SameQueues, SameUse, Queued
  <1>7. ASSUME NEW d \in Conns \ {c} PROVE Life(d)'
    <2>1. SameCallbacks(d)
      BY <1>1, <1>4, <1>5 DEF SameCallbacks
    <2>2. QED
      BY <1>0, <1>6, <2>1, Untouched
  <1>8. Life(c)'
    <2>1. Life(c) /\ ups[c] = 1 /\ downs[c] = 0 /\ loopOf[c] = l
      BY <1>0 DEF Life, WhileServing, InItsLoop
    <2>2. BeforeUp(c)' /\ WhileServing(c)' /\ WhileForcing(c)' /\ States(c)'
      BY <1>0, <2>1 DEF Life, BeforeUp, WhileServing, WhileForcing, ForceAhead, Excused, ClosedTwice, States, IsOpen, Queued
    <2>3. WhileClosing(c)'
      BY <1>0, <2>1 DEF Life, WhileClosing, Excused, ClosedTwice, Queued
    <2>4. InItsLoop(c)'
      BY <1>0, <1>1, <1>4, <1>5, <2>1 DEF Life, InItsLoop
    <2>5. QED
      BY <2>2, <2>3, <2>4 DEF Life
  <1>9. QED
    BY <1>0, <1>3, <1>7, <1>8 DEF ServerInv

\* handleRead() at the end of the peer's data
LEMMA EndOfFileStep ==
    ASSUME ServerInv, failed = FALSE, NEW l \in Loops, cb[l] = NoCallback, NEW c \in Conns, c \in ready[l],
           eof[c], events[c] # {}, HandleClose(c), CloseCallback(l, c, functors), UNCHANGED cb,
           UNCHANGED <<eof, listenning, loops_, next_, forced>>, UNCHANGED <<pc, left>>, UNCHANGED useVars,
           ready' = [ready EXCEPT ![l] = @ \ {c}]
    PROVE  ServerInv'
  <1>0. /\ ServerTypes /\ (\A d \in Conns : Life(d)) /\ ConnTypes /\ QueueTypes /\ LoopTypes /\ PoolTypes
        /\ UNCHANGED <<loopOf, state_, outputBuffer_, sends, finSent, ups, downs, held, user, calls, late>>
    BY DEF ServerInv, ServerTypes, HandleClose, useVars
  <1>1. /\ ready' \in [Loops -> SUBSET (Conns \cup {Listener})]
        /\ \A m \in Loops : ready'[m] \subseteq ready[m]
    BY <1>0 DEF LoopTypes
  <1>2. Life(c) /\ ups[c] = 1 /\ loopOf[c] = l
    <2>0. BeforeUp(c) /\ InItsLoop(c) /\ States(c)
      BY <1>0 DEF Life
    <2>1. ups[c] # 0 /\ loopOf[c] = l
      BY <2>0 DEF BeforeUp, InItsLoop
    <2>2. ups[c] \in Nat /\ ups[c] <= 1
      BY <1>0, <2>0 DEF States, ConnTypes
    <2>3. QED
      BY <1>0, <2>1, <2>2
  <1>3. /\ functors \in Queues /\ failed \in BOOLEAN /\ loopOf[c] \in Loops
        /\ \A m \in Loops : Len(functors[m]) \in Nat
    BY <1>0, <1>2, LenProperties DEF QueueTypes, LoopTypes, Queues
  <1>4. /\ connections_' \subseteq Conns /\ failed' \in BOOLEAN
        /\ functors' \in Queues /\ \A m \in Loops : Len(functors[m]) <= Len(functors'[m])
    BY <1>0, <1>3, CloseTypes
  <1>5. ServerTypes'
    <2>1. ConnTypes'
      BY <1>0, OperationTypes
    <2>2. \A m \in Loops : Len(functors'[m]) \in Nat
      BY <1>4, LenProperties DEF Queues
    <2>3. QueueTypes'
      BY <1>0, <1>3, <1>4, <2>2 DEF QueueTypes
    <2>4. LoopTypes' /\ PoolTypes' /\ UserTypes'
      BY <1>0, <1>1, <1>4 DEF ServerTypes, LoopTypes, PoolTypes, UserTypes
    <2>5. QED
      BY <2>1, <2>3, <2>4 DEF ServerTypes
  <1>6. /\ events'[c] = {} /\ \A d \in Conns \ {c} : events'[d] = events[d] /\ added'[d] = added[d]
    BY <1>0 DEF HandleClose, SetEvents, EventsAfterClose, ConnTypes
  <1>7. c \notin late => "in" \in events[c]
    BY <1>2 DEF Life, WhileServing
  <1>8. CASE ~IsOpen(c)
    <2>1. failed' = TRUE /\ functors' = functors /\ connections_' = connections_
      BY <1>8 DEF CloseCallback
    <2>2. "in" \notin events[c]
      BY <1>2, <1>8 DEF Life, States, WhileServing
    <2>3. RegisteredIsAlive /\ CallbackProtocol /\ NothingSentAfterFin
      BY <1>0, LifeIsSafe
    <2>4. \A d \in Conns : Owned(d)' <=> Owned(d)
      BY <2>1 DEF Owned
    <2>5. RegisteredIsAlive'
      BY <1>0, <1>6, <1>7, <2>2, <2>3, <2>4 DEF RegisteredIsAlive
    <2>6. CallbackProtocol' /\ NothingSentAfterFin'
      BY <1>0, <2>3 DEF CallbackProtocol, NothingSentAfterFin
    <2>7. NoFailure'
      BY <1>0, <1>7, <2>2 DEF NoFailure
    <2>8. QED
      BY <1>5, <2>1, <2>5, <2>6, <2>7 DEF ServerInv, SafeInv
  <1>9. CASE IsOpen(c)
    <2>1. KeepsOthers(functors, c)
      BY DEF KeepsOthers, Queued
    <2>2. \A m \in Loops : cb[m].conn # c
      <3>1. cb[l].conn = NoConn /\ NoConn \notin Conns
        BY ServerAssumption DEF NoCallback
      <3>2. QED
        BY <1>2, <3>1 DEF Life, InItsLoop
    <2>3. user = Functor("forceClose", c) \/ (\E m \in Loops : Has(functors[m], Functor("forceClose", c)))
             => forced[c] > 0 /\ Excused(c)
      BY <1>2 DEF Life, WhileForcing, ForceAhead, Excused, ClosedTwice, Queued
    <2>4. Excused(c) \/ (c \in connections_ /\ ~Has(functors[Base], Functor("remove", c)))
      BY <1>2, <1>7 DEF Life, WhileServing, Excused, ClosedTwice, Queued
    <2>5. Closes(c, functors)
      BY <1>0, <1>1, <1>6, <2>1, <2>2, <2>3, <2>4 DEF Closes
    <2>6. \/ functors' = Push(functors, Base, Functor("remove", c)) /\ UNCHANGED <<failed, connections_>>
          \/ /\ functors' = Push(functors, loopOf[c], Functor("destroyed", c))
             /\ connections_' = connections_ \ {c} /\ failed' = (c \notin connections_)
      BY <1>9 DEF CloseCallback, RemoveConnectionInLoop, DestroyLoop, MapWithout
    <2>7. QED
      BY <1>0, <1>2, <1>3, <1>5, <2>5, <2>6, CloseStep
  <1>10. QED
    BY <1>8, <1>9

\* handleEvent() of a channel that is ready
LEMMA DispatchStep ==
    ASSUME ServerInv, NEW l \in Loops, Dispatch(l), UNCHANGED useVars
    PROVE  ServerInv'
  <1>0. failed = FALSE /\ cb[l] = NoCallback /\ ServerTypes /\ \A d \in Conns : Life(d)
    BY DEF ServerInv, ServerTypes, LoopTypes, Dispatch, Idle
  <1>1. PICK x \in ready[l] :
          /\ ready' = [ready EXCEPT ![l] = @ \ {x}]
          /\ \/ x = Listener /\ HandleAccept
             \/ /\ x # Listener
                /\ DispatchConnection(l, x)
                /\ UNCHANGED <<eof, listenning, loops_, next_, forced>>
    BY DEF Dispatch
  <1>2. UNCHANGED <<pc, left>>
    BY DEF Dispatch
  <1>3. CASE x = Listener /\ HandleAccept
    <2>1. l = Base
      BY <1>0, <1>3 DEF ServerTypes, LoopTypes
    <2>2. PICK c \in Conns : NewConnection(c)
      BY <1>3 DEF HandleAccept
    <2>3. QED
      BY <1>0, <1>1, <1>2, <1>3, <2>1, <2>2, AcceptStep
  <1>4. CASE /\ x # Listener /\ DispatchConnection(l, x)
             /\ UNCHANGED <<eof, listenning, loops_, next_, forced>>
    <2>1. x \in Conns
      BY <1>0, <1>4 DEF ServerTypes, LoopTypes
    <2>2. CASE "in" \in events[x] /\ HandleMessage(l, x) /\ UNCHANGED <<functors, connections_>>
      BY <1>0, <1>1, <1>2, <1>4, <2>1, <2>2, MessageStep
    <2>3. CASE /\ eof[x] /\ events[x] # {} /\ HandleClose(x) /\ CloseCallback(l, x, functors)
               /\ UNCHANGED cb
      BY <1>0, <1>1, <1>2, <1>4, <2>1, <2>3, EndOfFileStep
    <2>4. CASE UNCHANGED <<connVars, functors, connections_, cb, failed>>
      <3>1. /\ UNCHANGED <<loopOf, state_, events, added, outputBuffer_, sends, finSent, ups, downs,
                           functors, connections_, cb, failed, eof, listenning, loops_, next_, forced,
                           held, user, calls, late>>
        BY <1>4, <2>4 DEF connVars, useVars
      <3>2. /\ ready' \in [Loops -> SUBSET (Conns \cup {Listener})]
            /\ \A m \in Loops : ready'[m] \subseteq ready[m]
        BY <1>0, <1>1 DEF ServerTypes, LoopTypes
      <3>3. ServerTypes'
        BY <1>0, <1>2, <3>1, <3>2
           DEF ServerTypes, ConnTypes, QueueTypes, LoopTypes, PoolTypes, UserTypes
      <3>4. ASSUME NEW d \in Conns PROVE Life(d)'
        <4>1. SameConn(d) /\ SameQueues(d) /\ SameCallbacks(d) /\ SameUse(d)
          BY <3>1, <3>2 DEF SameConn, SameQueues, SameCallbacks, SameUse, Queued
        <4>2. QED
          BY <1>0, <4>1, Untouched
      <3>5. QED
        BY <1>0, <3>1, <3>3, <3>4 DEF ServerInv
    <2>5. QED
      BY <1>4, <2>2, <2>3, <2>4 DEF DispatchConnection
  <1>5. QED
    BY <1>1, <1>3, <1>4

\* What a loop meets when it runs a functor: the queues q without it.
Takes(l, op, c, q) ==
    /\ Queued(l, op, c)
    /\ \A m \in Loops, p \in FunctorOps, d \in Conns :
          /\ Has(q[m], Functor(p, d)) => Queued(m, p, d)
          /\ (m # l \/ p # op \/ d # c) /\ Queued(m, p, d) => Has(q[m], Functor(p, d))
          /\ Once(functors[m], Functor(p, d)) => Once(q[m], Functor(p, d))
    /\ Once(functors[l], Functor(op, c)) => ~Has(q[l], Functor(op, c))
    /\ left' \in [Loops -> Nat] /\ \A m \in Loops : left'[m] <= Len(q[m])
    /\ cb[l] = NoCallback
    /\ UNCHANGED <<eof, ready, listenning, loops_, next_, forced, held, user, calls, late>>

\* The types after such a step, when the functor leaves queues that are long enough
LEMMA TakesTypes ==
    ASSUME ServerTypes, NEW l \in Loops, NEW c \in Conns, NEW op \in FunctorOps, NEW q \in Queues,
           Takes(l, op, c, q), ConnTypes', functors' \in Queues,
           \A m \in Loops : Len(q[m]) <= Len(functors'[m]),
           cb' \in [Loops -> Callbacks \cup {NoCallback}], failed' \in BOOLEAN, connections_' \subseteq Conns
    PROVE  ServerTypes'
  <1>1. \A m \in Loops : Len(functors'[m]) \in Nat /\ Len(q[m]) \in Nat
    BY LenProperties DEF Queues
  <1>2. QueueTypes'
    BY <1>1 DEF Takes, QueueTypes
  <1>3. LoopTypes' /\ PoolTypes' /\ UserTypes'
    BY DEF Takes, ServerTypes, LoopTypes, PoolTypes, UserTypes
  <1>4. QED
    BY <1>2, <1>3 DEF ServerTypes

\* connectEstablished() in its loop
LEMMA RunEstablished ==
    ASSUME ServerInv, failed = FALSE, NEW l \in Loops, NEW c \in Conns, NEW q \in Queues,
           Takes(l, "established", c, q), ConnectEstablished(l, c), functors' = q,
           UNCHANGED <<loopOf, connections_>>
    PROVE  ServerInv'
  <1>0. /\ ServerTypes /\ ConnTypes /\ LoopTypes /\ PoolTypes /\ \A d \in Conns : Life(d)
        /\ "established" \in FunctorOps
    BY DEF ServerInv, ServerTypes, FunctorOps
  <1>1. /\ Life(c) /\ l = loopOf[c] /\ ups[c] = 0 /\ c \in connections_
        /\ Once(functors[l], Functor("established", c))
    BY <1>0 DEF Takes, Life, BeforeUp
  <1>2. ServerTypes'
    <2>1. UNCHANGED eof /\ loopOf' \in [Conns -> Loops \cup {NoConn}]
      BY <1>0 DEF Takes, ConnTypes
    <2>2. ConnTypes' /\ cb' \in [Loops -> Callbacks \cup {NoCallback}] /\ failed' \in BOOLEAN
      BY <1>0, <2>1, OperationTypes
    <2>3. \A m \in Loops : Len(q[m]) <= Len(functors'[m])
      BY LenProperties DEF Queues
    <2>4. connections_' \subseteq Conns
      BY <1>0 DEF PoolTypes
    <2>5. QED
      BY <1>0, <2>2, <2>3, <2>4, TakesTypes
  <1>3. \A m \in Loops, p \in FunctorOps, d \in Conns : Queued(m, p, d)' <=> Has(q[m], Functor(p, d))
    BY DEF Queued
  <1>4. Life(c)' /\ failed' = FALSE
    <2>1. \A m \in Loops, p \in FunctorOps : ~Queued(m, p, c)'
      <3>1. \A m \in Loops, p \in FunctorOps : Queued(m, p, c) => m = l /\ p = "established"
        BY <1>0, <1>1 DEF Life, BeforeUp
      <3>2. QED
        BY <1>1, <1>3, <3>1 DEF Takes
    <2>2. /\ loopOf'[c] = l /\ c \in connections_' /\ UNCHANGED <<held, user, eof, forced, late>>
          /\ \A m \in Loops : c \in ready'[m] => m = l
      BY <1>1 DEF Takes, Life, InItsLoop
    <2>3. QED
      BY <1>0, <1>1, <2>1, <2>2, EstablishedLife
  <1>5. ASSUME NEW d \in Conns \ {c} PROVE Life(d)'
    <2>1. SameQueues(d)
      BY <1>3 DEF SameQueues, Takes
    <2>2. /\ cb[l] = NoCallback /\ UNCHANGED <<held, user, eof, forced, late>>
          /\ \A m \in Loops : ready'[m] \subseteq ready[m]
      BY DEF Takes
    <2>3. QED
      BY <1>0, <2>1, <2>2, EstablishedOthers
  <1>6. QED
    BY <1>2, <1>4, <1>5 DEF ServerInv

\* removeConnectionInLoop() as a functor
LEMMA RunRemove ==
    ASSUME ServerInv, failed = FALSE, NEW l \in Loops, NEW c \in Conns, NEW q \in Queues,
           Takes(l, "remove", c, q), RemoveConnectionInLoop(c, q), UNCHANGED <<connVars, cb>>
    PROVE  ServerInv'
  <1>0. /\ ServerTypes /\ ConnTypes /\ LoopTypes /\ PoolTypes /\ \A d \in Conns : Life(d)
        /\ "remove" \in FunctorOps
        /\ UNCHANGED <<loopOf, state_, events, added, outputBuffer_, sends, finSent, ups, downs>>
    BY DEF ServerInv, ServerTypes, FunctorOps, connVars
  <1>1. Life(c) /\ l = Base /\ ups[c] = 1 /\ loopOf[c] \in Loops /\ "in" \notin events[c]
    <2>1. Life(c) /\ l = Base /\ ups[c] # 0
      BY <1>0 DEF Takes, Life, WhileClosing, BeforeUp
    <2>2. ups[c] = 1 /\ "in" \notin events[c]
      BY <1>0, <2>1 DEF Takes, Life, States, WhileServing, ConnTypes
    <2>3. QED
      BY <1>0, <2>1, <2>2, HasLoop
  <1>2. ServerTypes'
    <2>1. /\ connections_' \subseteq Conns /\ failed' \in BOOLEAN
          /\ functors' \in Queues /\ \A m \in Loops : Len(q[m]) <= Len(functors'[m])
      BY <1>0, <1>1, CloseTypes
    <2>2. ConnTypes' /\ cb' \in [Loops -> Callbacks \cup {NoCallback}]
      BY <1>0 DEF ConnTypes, LoopTypes, Takes
    <2>3. QED
      BY <1>0, <2>1, <2>2, TakesTypes
  <1>3. KeepsOthers(q, c)
    BY DEF Takes, KeepsOthers
  <1>4. /\ c \notin late => events[c] = {}
        /\ eof[c] \/ forced[c] > 0 \/ c \in late
        /\ \A m \in Loops : cb[m].conn = c => cb[m].kind = "down"
    BY <1>1 DEF Life, WhileServing, InItsLoop
  <1>5. user = Functor("forceClose", c) \/ (\E m \in Loops : Has(q[m], Functor("forceClose", c)))
           => forced[c] > 0 /\ Excused(c)
    <2>1. "forceClose" \in FunctorOps
      BY DEF FunctorOps
    <2>2. QED
      BY <1>1, <2>1 DEF Life, WhileForcing, ForceAhead, Excused, ClosedTwice, Takes
  <1>6. Excused(c) \/ (c \in connections_ /\ ~Has(q[Base], Functor("remove", c)))
    BY <1>1 DEF Life, WhileClosing, Takes
  <1>7. Closes(c, q)
    BY <1>0, <1>1, <1>3, <1>4, <1>5, <1>6 DEF Closes, Takes
  <1>8. /\ functors' = Push(q, loopOf[c], Functor("destroyed", c))
        /\ connections_' = connections_ \ {c} /\ failed' = (c \notin connections_)
    BY DEF RemoveConnectionInLoop, DestroyLoop, MapWithout
  <1>9. QED
    BY <1>0, <1>1, <1>2, <1>7, <1>8, CloseStep

\* connectDestroyed() finds the connection open.
LEMMA RunDestroyed ==
    ASSUME ServerInv, failed = FALSE, NEW l \in Loops, NEW c \in Conns, NEW q \in Queues,
           Takes(l, "destroyed", c, q), ConnectDestroyed(l, c), functors' = q, UNCHANGED connections_
    PROVE  ServerInv'
  <1>0. /\ ServerTypes /\ ConnTypes /\ LoopTypes /\ PoolTypes /\ (\A d \in Conns : Life(d))
        /\ "established" \in FunctorOps /\ "remove" \in FunctorOps /\ "destroyed" \in FunctorOps
        /\ "forceClose" \in FunctorOps /\ "shutdown" \in FunctorOps /\ Base \in Loops
    BY ServerAssumption DEF ServerInv, ServerTypes, FunctorOps
  <1>1. /\ Life(c) /\ l = loopOf[c] /\ ups[c] = 1 /\ downs[c] = 0 /\ c \notin connections_
        /\ Once(functors[l], Functor("destroyed", c)) /\ "in" \notin events[c]
    BY <1>0 DEF Takes, Life, WhileClosing, WhileServing
  <1>2. ServerTypes'
    <2>1. ConnTypes' /\ cb' \in [Loops -> Callbacks \cup {NoCallback}] /\ failed' \in BOOLEAN
      BY <1>0, OperationTypes DEF Takes
    <2>2. \A m \in Loops : Len(q[m]) <= Len(functors'[m])
      BY LenProperties DEF Queues
    <2>3. connections_' \subseteq Conns
      BY <1>0 DEF PoolTypes
    <2>4. QED
      BY <1>0, <2>1, <2>2, <2>3, TakesTypes
  <1>3. \A m \in Loops, p \in FunctorOps, d \in Conns : Queued(m, p, d)' <=> Has(q[m], Functor(p, d))
    BY DEF Queued
  <1>4. /\ failed' = FALSE
        /\ state_'[c] = "kDisconnected" /\ events'[c] = {} /\ downs'[c] = 1
        /\ UNCHANGED <<loopOf, outputBuffer_, finSent, ups>>
    <2>1. IsOpen(c)
      BY <1>1 DEF Life, States
    <2>2. failed' = FALSE /\ UNCHANGED <<loopOf, outputBuffer_, finSent, ups>>
      BY <2>1 DEF ConnectDestroyed
    <2>3. state_'[c] = "kDisconnected" /\ events'[c] = {} /\ downs'[c] = 1
      BY <1>0, <1>1 DEF ConnectDestroyed, SetEvents, ConnTypes
    <2>4. QED
      BY <2>2, <2>3
  <1>5. /\ cb'[l] = [kind |-> "down", conn |-> c] /\ (\A m \in Loops \ {l} : cb'[m] = cb[m])
        /\ cb[l].conn = NoConn /\ NoConn \notin Conns
    BY <1>0, ServerAssumption DEF ConnectDestroyed, LoopTypes, Takes, NoCallback
  <1>6. cb'[l].kind = "down" /\ cb'[l].conn = c
    BY <1>5
  <1>7. ASSUME NEW d \in Conns \ {c} PROVE Life(d)'
    <2>1. SameQueues(d)
      BY <1>3 DEF SameQueues, Takes
    <2>2. SameConn(d)
      BY <1>0, <1>4 DEF SameConn, ConnectDestroyed, SetEvents, ConnTypes
    <2>3. SameCallbacks(d) /\ SameUse(d)
      BY <1>5, <1>6 DEF SameCallbacks, SameUse, Takes
    <2>4. QED
      BY <1>0, <2>1, <2>2, <2>3, Untouched
  <1>8. /\ \A m \in Loops : ~Queued(m, "destroyed", c)'
        /\ \A m \in Loops, p \in FunctorOps : p # "destroyed" => (Queued(m, p, c)' <=> Queued(m, p, c))
        /\ \A m \in Loops, p \in FunctorOps :
              Once(functors[m], Functor(p, c)) => Once(functors'[m], Functor(p, c))
    <2>1. \A m \in Loops : Queued(m, "destroyed", c) => m = l
      BY <1>1 DEF Life, WhileClosing
    <2>2. QED
      BY <1>0, <1>1, <1>3, <2>1 DEF Takes
  <1>9. BeforeUp(c)' /\ WhileServing(c)'
    BY <1>0, <1>1, <1>4, <1>8 DEF Life, BeforeUp, WhileServing, Takes
  <1>10. WhileClosing(c)'
    BY <1>0, <1>1, <1>4, <1>6, <1>8 DEF Life, WhileClosing, Excused, ClosedTwice, Takes
  <1>11. WhileForcing(c)'
    BY <1>0, <1>1, <1>4, <1>8 DEF Life, WhileForcing, ForceAhead, Excused, ClosedTwice, Takes
  <1>12. States(c)'
    BY <1>0, <1>1, <1>4, <1>8 DEF Life, States, IsOpen, Takes
  <1>13. InItsLoop(c)'
    BY <1>1, <1>4, <1>5, <1>6 DEF Life, InItsLoop, Takes
  <1>14. QED
    BY <1>2, <1>4, <1>7, <1>9, <1>10, <1>11, <1>12, <1>13 DEF ServerInv, Life

\* forceCloseInLoop()
LEMMA RunForceClose ==
    ASSUME ServerInv, failed = FALSE, NEW l \in Loops, NEW c \in Conns, NEW q \in Queues,
           Takes(l, "forceClose", c, q), UNCHANGED cb,
           IF IsOpen(c)
           THEN HandleClose(c) /\ CloseCallback(l, c, q)
           ELSE functors' = q /\ UNCHANGED <<connVars, connections_, failed>>
    PROVE  ServerInv'
  <1>0. /\ ServerTypes /\ ConnTypes /\ LoopTypes /\ PoolTypes /\ (\A d \in Conns : Life(d))
        /\ "established" \in FunctorOps /\ "remove" \in FunctorOps /\ "destroyed" \in FunctorOps
        /\ "forceClose" \in FunctorOps /\ "shutdown" \in FunctorOps /\ Base \in Loops
    BY ServerAssumption DEF ServerInv, ServerTypes, FunctorOps
  <1>1. /\ Life(c) /\ l = loopOf[c] /\ ForceAhead(c) /\ forced[c] > 0
        /\ user = Functor("forceClose", c) \/ (\E m \in Loops : Has(q[m], Functor("forceClose", c)))
              => Excused(c)
    <2>1. /\ Life(c) /\ l = loopOf[c] /\ ForceAhead(c) /\ forced[c] > 0
          /\ Excused(c) \/ (/\ user # Functor("forceClose", c)
                            /\ Once(functors[l], Functor("forceClose", c)))
          /\ \A m \in Loops : Queued(m, "forceClose", c) => m = l
      BY <1>0 DEF Takes, Life, WhileForcing, ForceAhead
    <2>2. QED
      BY <1>0, <2>1 DEF Takes
  <1>2. ups[c] = 1
    <2>1. ups[c] # 0
      BY <1>0, <1>1 DEF Takes, Life, BeforeUp
    <2>2. QED
      BY <1>0, <1>1, <2>1 DEF Life, States, ConnTypes
  <1>3. CASE IsOpen(c)
    <2>1. HandleClose(c) /\ CloseCallback(l, c, q) /\ failed \in BOOLEAN /\ loopOf[c] \in Loops
      BY <1>0, <1>1, <1>3 DEF LoopTypes
    <2>2. UNCHANGED <<loopOf, state_, outputBuffer_, finSent, ups, downs>>
      BY <2>1 DEF HandleClose
    <2>3. ServerTypes'
      <3>1. /\ connections_' \subseteq Conns /\ failed' \in BOOLEAN
            /\ functors' \in Queues /\ \A m \in Loops : Len(q[m]) <= Len(functors'[m])
        BY <1>0, <2>1, CloseTypes
      <3>2. ConnTypes'
        BY <1>0, <2>1, OperationTypes DEF Takes
      <3>3. cb' \in [Loops -> Callbacks \cup {NoCallback}]
        BY <1>0 DEF LoopTypes
      <3>4. QED
        BY <1>0, <3>1, <3>2, <3>3, TakesTypes
    <2>4. /\ events'[c] = {} /\ \A d \in Conns \ {c} : events'[d] = events[d] /\ added'[d] = added[d]
      BY <1>0, <2>1 DEF HandleClose, SetEvents, EventsAfterClose, ConnTypes
    <2>5. KeepsOthers(q, c)
      BY DEF Takes, KeepsOthers
    <2>6. forced[c] > 0 /\ \A m \in Loops : cb[m].conn # c
      <3>1. cb[l].conn = NoConn /\ NoConn \notin Conns
        BY ServerAssumption DEF Takes, NoCallback
      <3>2. QED
        BY <1>1, <3>1 DEF ForceAhead, Excused, ClosedTwice, Life, InItsLoop
    <2>7. Excused(c) \/ (c \in connections_ /\ ~Has(q[Base], Functor("remove", c)))
      BY <1>0, <1>1 DEF ForceAhead, Excused, ClosedTwice, Life, WhileServing, Takes
    <2>8. Closes(c, q)
      BY <1>1, <2>2, <2>4, <2>5, <2>6, <2>7 DEF Closes, Takes
    <2>9. \/ functors' = Push(q, Base, Functor("remove", c)) /\ UNCHANGED <<failed, connections_>>
          \/ /\ functors' = Push(q, loopOf[c], Functor("destroyed", c))
             /\ connections_' = connections_ \ {c} /\ failed' = (c \notin connections_)
      BY <1>3, <2>1 DEF CloseCallback, RemoveConnectionInLoop, DestroyLoop, MapWithout
    <2>10. QED
      BY <1>0, <1>2, <2>3, <2>8, <2>9, CloseStep
  <1>4. CASE ~IsOpen(c)
    <2>1. /\ functors' = q
          /\ UNCHANGED <<loopOf, state_, events, added, outputBuffer_, sends, finSent, ups, downs,
                         connections_, failed, cb>>
      BY <1>4 DEF connVars
    <2>2. ServerTypes'
      <3>1. ConnTypes' /\ cb' \in [Loops -> Callbacks \cup {NoCallback}] /\ failed' \in BOOLEAN
            /\ connections_' \subseteq Conns
        BY <1>0, <2>1 DEF ConnTypes, LoopTypes, PoolTypes, Takes
      <3>2. \A m \in Loops : Len(q[m]) <= Len(functors'[m])
        BY <2>1, LenProperties DEF Queues
      <3>3. QED
        BY <1>0, <2>1, <3>1, <3>2, TakesTypes
    <2>3. \A m \in Loops, p \in FunctorOps, d \in Conns : Queued(m, p, d)' <=> Has(q[m], Functor(p, d))
      BY <2>1 DEF Queued
    <2>4. ASSUME NEW d \in Conns \ {c} PROVE Life(d)'
      <3>1. SameQueues(d)
        BY <2>1, <2>3 DEF SameQueues, Takes
      <3>2. SameConn(d) /\ SameCallbacks(d) /\ SameUse(d)
        BY <2>1 DEF SameConn, SameCallbacks, SameUse, Takes
      <3>3. QED
        BY <1>0, <3>1, <3>2, Untouched
    <2>5. /\ \A m \in Loops : Queued(m, "forceClose", c)' =>
                Queued(m, "forceClose", c) /\ Has(q[m], Functor("forceClose", c))
          /\ \A m \in Loops, p \in FunctorOps : p # "forceClose" => (Queued(m, p, c)' <=> Queued(m, p, c))
          /\ \A m \in Loops, p \in FunctorOps :
                Once(functors[m], Functor(p, c)) => Once(functors'[m], Functor(p, c))
      BY <1>0, <1>1, <2>1, <2>3 DEF Takes
    <2>6. loopOf[c] \in Loops
      BY <1>1
    <2>7. BeforeUp(c)' /\ WhileServing(c)' /\ States(c)' /\ InItsLoop(c)'
      BY <1>0, <1>1, <1>2, <2>1, <2>5
         DEF Life, BeforeUp, WhileServing, States, IsOpen, InItsLoop, Takes
    <2>8. WhileClosing(c)'
      BY <1>0, <1>1, <1>2, <2>1, <2>5, <2>6 DEF Life, WhileClosing, Excused, ClosedTwice, Takes
    <2>9. WhileForcing(c)'
      <3>1. UNCHANGED <<events, eof, forced, late, user, loopOf>>
        BY <2>1 DEF Takes
      <3>2. ForceAhead(c)' /\ (Excused(c) => Excused(c)')
        BY <1>1, <3>1 DEF ForceAhead, Excused, ClosedTwice
      <3>3. \A m \in Loops : Queued(m, "forceClose", c)' => m = loopOf[c] /\ Excused(c)
        BY <1>1, <2>5 DEF Life, WhileForcing
      <3>4. QED
        BY <3>1, <3>2, <3>3 DEF WhileForcing
    <2>10. QED
      BY <2>1, <2>2, <2>4, <2>7, <2>8, <2>9 DEF ServerInv, Life
  <1>5. QED
    BY <1>3, <1>4

\* One functor of doPendingFunctors()
LEMMA RunFunctorStep ==
    ASSUME ServerInv, NEW l \in Loops, RunFunctor(l), UNCHANGED useVars
    PROVE  ServerInv'
  <1>0. /\ failed = FALSE /\ cb[l] = NoCallback /\ left[l] > 0 /\ ServerTypes
    BY DEF ServerInv, ServerTypes, LoopTypes, RunFunctor, Idle
  <1>1. /\ functors[l] # <<>> /\ Head(functors[l]) \in ConnFunctors
        /\ Pop(functors, l) \in Queues
        /\ [left EXCEPT ![l] = @ - 1] \in [Loops -> Nat]
        /\ \A m \in Loops : [left EXCEPT ![l] = @ - 1][m] <= Len(Pop(functors, l)[m])
    BY <1>0, NextFunctor
  <1>2. PICK op \in FunctorOps, c \in Conns : Head(functors[l]) = Functor(op, c)
    BY <1>1, FunctorIsPair
  <1>3. PICK q \in Queues : q = Pop(functors, l)
    BY <1>1
  <1>4. Functor(op, c).op = op /\ Functor(op, c).conn = c
    BY FunctorIsPair
  <1>5. Run(l, Functor(op, c), q)
    BY <1>2, <1>3 DEF RunFunctor, Pop
  <1>6. Takes(l, op, c, q)
    <2>1. /\ q \in Queues /\ Queued(l, op, c)
          /\ \A m \in Loops, p \in FunctorOps, d \in Conns :
                /\ Has(q[m], Functor(p, d)) => Queued(m, p, d)
                /\ (m # l \/ p # op \/ d # c) /\ Queued(m, p, d) => Has(q[m], Functor(p, d))
                /\ Once(functors[m], Functor(p, d)) => Once(q[m], Functor(p, d))
          /\ Once(functors[l], Functor(op, c)) => ~Has(q[l], Functor(op, c))
      <3>1. functors \in Queues
        BY <1>0 DEF ServerTypes, QueueTypes
      <3>2. QED
        BY <1>1, <1>2, <1>3, <3>1, AfterPop
    <2>2. left' \in [Loops -> Nat] /\ \A m \in Loops : left'[m] <= Len(q[m])
      BY <1>1, <1>3 DEF RunFunctor
    <2>3. UNCHANGED <<eof, ready, listenning, loops_, next_, forced, held, user, calls, late>>
      BY DEF RunFunctor, useVars
    <2>4. QED
      BY <1>0, <2>1, <2>2, <2>3 DEF Takes
  <1>7. CASE op = "established"
    BY <1>0, <1>4, <1>5, <1>6, <1>7, RunEstablished DEF Run
  <1>8. CASE op = "remove"
    BY <1>0, <1>4, <1>5, <1>6, <1>8, RunRemove DEF Run
  <1>9. CASE op = "destroyed"
    BY <1>0, <1>4, <1>5, <1>6, <1>9, RunDestroyed DEF Run
  <1>10. CASE op = "forceClose"
    BY <1>0, <1>4, <1>5, <1>6, <1>10, RunForceClose DEF Run
  <1>11. QED
    BY <1>4, <1>5, <1>7, <1>8, <1>9, <1>10 DEF Run

-----------------------------------------------------------------------------
(* The theorems.                                                           *)

\* At the start there are no connections.
LEMMA ServerInvInit == InitUse => ServerInv
  <1> SUFFICES ASSUME InitUse PROVE ServerInv
    OBVIOUS
  <1> USE DEF InitUse, Init, InitConnections
  <1>1. ServerTypes
    <2>1. ConnTypes
      BY DEF ConnTypes, EventSets
    <2>2. QueueTypes
      <3>1. <<>> \in Seq(ConnFunctors) /\ Len(<<>>) = 0
        BY EmptySeq
      <3>2. QED
        BY <3>1 DEF QueueTypes, Queues
    <2>3. LoopTypes /\ UserTypes
      BY DEF LoopTypes, UserTypes
    <2>4. PoolTypes
      BY EmptySeq DEF PoolTypes
    <2>5. QED
      BY <2>1, <2>2, <2>3, <2>4 DEF ServerTypes
  <1>2. ASSUME NEW c \in Conns PROVE Life(c)
    <2>1. \A l \in Loops, op \in FunctorOps : ~Queued(l, op, c)
      <3>1. DOMAIN <<>> = {}
        OBVIOUS
      <3>2. QED
        BY <3>1 DEF Queued, Has
    <2>2. /\ user.conn # c /\ user # Functor("forceClose", c) /\ \A l \in Loops : cb[l].conn # c
      <3>1. NoCall.conn = NoConn /\ NoCallback.conn = NoConn /\ NoConn \notin Conns
        BY ServerAssumption DEF NoCall, NoCallback, Functor
      <3>2. QED
        BY <3>1 DEF Functor
    <2>3. BeforeUp(c) /\ WhileForcing(c) /\ InItsLoop(c)
      BY <2>1, <2>2 DEF BeforeUp, WhileForcing, InItsLoop, FunctorOps
    <2>4. WhileServing(c) /\ WhileClosing(c) /\ States(c)
      BY <2>1, ServerAssumption DEF WhileServing, WhileClosing, States, FunctorOps
    <2>5. QED
      BY <2>3, <2>4 DEF Life
  <1>3. QED
    BY <1>1, <1>2 DEF ServerInv

\* Every step of the server, its peers and the program keeps the invariant.
LEMMA ServerInvNext == ServerInv /\ [NextUse]_allVars => ServerInv'
  <1> SUFFICES ASSUME ServerInv, [NextUse]_allVars PROVE ServerInv'
    OBVIOUS
  <1>1. CASE Next /\ UNCHANGED useVars
    <2>1. CASE Start
      BY <1>1, <2>1, QuietSteps, ServerAssumption
    <2>2. ASSUME NEW l \in Loops, LoopStep(l) PROVE ServerInv'
      <3>1. CASE Poll(l) \/ AcceptFails(l) \/ DispatchEnds(l)
        BY <1>1, <3>1, QuietSteps
      <3>2. CASE Dispatch(l)
        BY <1>1, <3>2, DispatchStep
      <3>3. CASE RunFunctor(l)
        BY <1>1, <3>3, RunFunctorStep
      <3>4. CASE CallbackReturns(l) /\ UNCHANGED serverVars
        BY <1>1, <3>4, CallbackReturnsStep
      <3>5. QED
        BY <2>2, <3>1, <3>2, <3>3, <3>4 DEF LoopStep
    <2>3. ASSUME NEW l \in Loops, UserCall(l) PROVE ServerInv'
      BY <1>1, <2>3, UserCallStep
    <2>4. ASSUME NEW c \in Conns, PeerCloses(c), UNCHANGED serverVars PROVE ServerInv'
      BY <1>1, <2>4, QuietSteps, ServerAssumption
    <2>5. QED
      BY <1>1, <2>1, <2>2, <2>3, <2>4 DEF Next
  <1>2. ASSUME NEW l \in Loops, Keep(l) \/ RunUserFunctor(l) PROVE ServerInv'
    BY <1>2, QuietSteps, RunUserFunctorStep
  <1>3. ASSUME NEW c \in Conns, Drop(c) PROVE ServerInv'
    BY <1>3, QuietSteps, ServerAssumption
  <1>4. ASSUME NEW c \in Conns, NEW op \in {"send", "shutdown", "forceClose"}, UserTests(op, c)
        PROVE  ServerInv'
    BY <1>4, UserTestsStep
  <1>5. CASE UserQueues
    BY <1>5, UserQueuesStep
  <1>6. CASE UNCHANGED allVars
    BY <1>6, QuietSteps, ServerAssumption
  <1>7. QED
    BY <1>1, <1>2, <1>3, <1>4, <1>5, <1>6 DEF NextUse

\* The invariant holds in every state of the server in use.
THEOREM ServerAlwaysSafe == SpecUse => []ServerInv
  <1>1. InitUse => ServerInv
    BY ServerInvInit
  <1>2. ServerInv /\ [NextUse]_allVars => ServerInv'
    BY ServerInvNext
  <1>3. QED
    BY <1>1, <1>2, PTL DEF SpecUse

\* What it says of the properties.
LEMMA ServerInvIsSafe == ServerInv => SafeInv
  <1> SUFFICES ASSUME ServerInv PROVE SafeInv
    OBVIOUS
  <1>1. CASE failed
    BY <1>1 DEF ServerInv
  <1>2. CASE ~failed
    BY <1>2, LifeIsSafe DEF ServerInv, SafeInv, NoFailure
  <1>3. QED
    BY <1>1, <1>2

\* From connectEstablished() to the end of connectDestroyed() some TcpConnectionPtr
\* of the server keeps the connection and its channel, which is in the poller,
\* alive, unless a functor of another thread came after handleClose().
THEOREM RegisteredAlwaysAlive == SpecUse => []RegisteredIsAlive
  <1>1. ServerInv => RegisteredIsAlive
    BY ServerInvIsSafe DEF SafeInv
  <1>2. QED
    BY <1>1, ServerAlwaysSafe, PTL

\* connectionCallback_ and messageCallback_ of a connection run in its ioLoop, UP
\* once, then messages, then DOWN once.
THEOREM CallbacksFollowProtocol == SpecUse => []CallbackProtocol
  <1>1. ServerInv => CallbackProtocol
    BY ServerInvIsSafe DEF SafeInv
  <1>2. QED
    BY <1>1, ServerAlwaysSafe, PTL

\* shutdownInLoop() shuts the write side down only when outputBuffer_ is empty.
THEOREM FinComesLast == SpecUse => []NothingSentAfterFin
  <1>1. ServerInv => NothingSentAfterFin
    BY ServerInvIsSafe DEF SafeInv
  <1>2. QED
    BY <1>1, ServerAlwaysSafe, PTL

\* No assertion of TcpServer and TcpConnection fails, and no functor meets a
\* connection that is gone, but for a forceClose() that meets the peer's own
\* close and a call of another thread that comes after handleClose().
THEOREM FailuresAreExplained == SpecUse => []NoFailure
  <1>1. ServerInv => NoFailure
    BY ServerInvIsSafe DEF SafeInv
  <1>2. QED
    BY <1>1, ServerAlwaysSafe, PTL
=============================================================================
