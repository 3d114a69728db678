--------------------------- MODULE TimerQueueProofs ---------------------------
(***************************************************************************)
(* Proofs about TimerQueue, for every set of addresses and threads and     *)
(* every value of the bounds.                                              *)
(***************************************************************************)
EXTENDS TimerQueue, FiniteSetTheorems, SequenceTheorems, WellFoundedInduction, TLAPS

TimerIds == Addrs \X Nat
Entries == Nat \X Addrs
TimerObjects == [sequence_ : Nat, expiration_ : Nat, interval_ : Nat]
TimerFunctors == [op : {"add", "cancel"}, timer : TimerIds]

\* The types; callingExpiredTimers_ says that handleRead() is in its loop.
TimerTypes ==
    /\ clock \in Nat /\ rep_ \in Nat /\ created \in Nat
    /\ now \in Nat /\ pollReturnTime \in Nat /\ armed \in Nat
    /\ DOMAIN heap \subseteq Addrs
    /\ \A a \in DOMAIN heap : heap[a] \in TimerObjects
    /\ adding \in [Threads -> {Nobody} \cup [timer : TimerIds]]
    /\ pending \in Seq(TimerFunctors)
    /\ ids \subseteq TimerIds
    /\ timers_ \subseteq Entries /\ expired_ \subseteq Entries /\ toRun \subseteq expired_
    /\ pc \in {"idle", "polled", "running", "callback", "gone"}
    /\ callingExpiredTimers_ \in BOOLEAN
    /\ callingExpiredTimers_ <=> pc \in {"running", "callback"}

IsAdd(i) == pending[i].op = "add"
Builds(t) == adding[t] # Nobody

\* What an owner holds is a live Timer, and what it knows of it is true.
OwnersPointToTimers ==
    /\ \A e \in timers_ \cup Batch : e[2] \in DOMAIN heap /\ heap[e[2]].expiration_ = e[1]
    /\ \A i \in DOMAIN pending : IsAdd(i) =>
          pending[i].timer[1] \in DOMAIN heap /\ heap[pending[i].timer[1]].sequence_ = pending[i].timer[2]
    /\ \A t \in Threads : Builds(t) =>
          adding[t].timer[1] \in DOMAIN heap /\ heap[adding[t].timer[1]].sequence_ = adding[t].timer[2]

\* No two owners hold the same Timer.
OwnersAreDisjoint ==
    /\ timers_ \cap Batch = {}
    /\ \A e \in timers_ \cup Batch :
          /\ \A i \in DOMAIN pending : IsAdd(i) => pending[i].timer[1] # e[2]
          /\ \A t \in Threads : Builds(t) => adding[t].timer[1] # e[2]
    /\ \A i, j \in DOMAIN pending :
          IsAdd(i) /\ IsAdd(j) /\ pending[i].timer[1] = pending[j].timer[1] => i = j
    /\ \A t, u \in Threads :
          Builds(t) /\ Builds(u) /\ adding[t].timer[1] = adding[u].timer[1] => t = u
    /\ \A i \in DOMAIN pending, t \in Threads :
          IsAdd(i) /\ Builds(t) => pending[i].timer[1] # adding[t].timer[1]

\* Every Timer has an owner.
TimersAreOwned ==
    \A a \in DOMAIN heap :
        \/ \E e \in timers_ \cup Batch : e[2] = a
        \/ \E i \in DOMAIN pending : IsAdd(i) /\ pending[i].timer[1] = a
        \/ \E t \in Threads : Builds(t) /\ adding[t].timer[1] = a

\* activeTimers_ is timers_ with other keys.
ActiveInv == activeTimers_ = {IdOf(e) : e \in timers_}

\* The inductive invariant behind OwnedOnce.
OwnInv ==
    /\ TimerTypes /\ OwnersPointToTimers /\ OwnersAreDisjoint /\ TimersAreOwned /\ ActiveInv

-----------------------------------------------------------------------------

\* An entry of timers_ or of the batch is determined by its address.
LEMMA EntryIsPair ==
    ASSUME NEW e \in Entries
    PROVE  e = <<e[1], e[2]>> /\ e[1] \in Nat /\ e[2] \in Addrs
  BY DEF Entries

LEMMA IdIsPair ==
    ASSUME NEW id \in TimerIds
    PROVE  id = <<id[1], id[2]>> /\ id[1] \in Addrs /\ id[2] \in Nat
  BY DEF TimerIds

\* A Timer under construction is not nobody.
LEMMA SomeTimer ==
    ASSUME NEW id \in TimerIds
    PROVE  [timer |-> id] # Nobody /\ [timer |-> id].timer = id
  <1>1. id = <<id[1], id[2]>>
    BY IdIsPair
  <1>2. <<id[1], id[2]>> # <<>>
    OBVIOUS
  <1>3. QED
    BY <1>1, <1>2 DEF Nobody

\* The order of the natural numbers is well founded.
LEMMA LessThanWellFounded == IsWellFoundedOn({ss \in Nat \X Nat : ss[1] < ss[2]}, Nat)
  <1>1. OpToRel(<, Nat) = {ss \in Nat \X Nat : ss[1] < ss[2]}
    BY Zenon DEF OpToRel
  <1>2. QED
    BY <1>1, NatLessThanWellFounded, Zenon

\* A set of times has an earliest one.
LEMMA TimesHaveMinimum ==
    ASSUME NEW S \in SUBSET Nat, S # {}
    PROVE  \E x \in S : \A y \in S : x <= y
  <1> DEFINE R == {ss \in Nat \X Nat : ss[1] < ss[2]}
  <1>1. PICK x \in S : \A y \in S : ~(<<y, x>> \in R)
    <2>1. IsWellFoundedOn(R, Nat)
      BY LessThanWellFounded
    <2> HIDE DEF R
    <2>2. \E x \in S : \A y \in S : ~(<<y, x>> \in R)
      BY <2>1, WFMin, Zenon
    <2>3. QED
      BY <2>2
  <1>2. ASSUME NEW y \in S PROVE x <= y
    <2>1. <<y, x>> \in Nat \X Nat /\ <<y, x>>[1] = y /\ <<y, x>>[2] = x
      OBVIOUS
    <2>2. ~(<<y, x>>[1] < <<y, x>>[2])
      BY <1>1, <2>1, Zenon
    <2>3. QED
      BY <2>1, <2>2
  <1>3. QED
    BY <1>2

\* timers_.begin(): an entry that expires no later than any other.
LEMMA EarliestIsFirst ==
    ASSUME NEW S \in SUBSET Entries, S # {}
    PROVE  Earliest(S) \in S /\ \A f \in S : Earliest(S)[1] <= f[1]
  <1> DEFINE T == {e[1] : e \in S}
  <1>1. T \in SUBSET Nat /\ T # {}
    BY EntryIsPair
  <1>2. PICK x \in T : \A y \in T : x <= y
    BY <1>1, TimesHaveMinimum
  <1>3. \E e \in S : \A f \in S : e[1] <= f[1]
    BY <1>2
  <1>4. QED
    BY <1>3 DEF Earliest

\* There is no Timer at first.
LEMMA InitOwnInv == Init => OwnInv
  <1> SUFFICES ASSUME Init PROVE OwnInv
    OBVIOUS
  <1> USE DEF Init
  <1>1. TimerTypes
    <2>1. pending \in Seq(TimerFunctors) /\ DOMAIN heap = {}
      OBVIOUS
    <2>2. /\ callingExpiredTimers_ \in BOOLEAN
          /\ callingExpiredTimers_ <=> pc \in {"running", "callback"}
      OBVIOUS
    <2>3. adding \in [Threads -> {Nobody} \cup [timer : TimerIds]]
      OBVIOUS
    <2>4. QED
      BY <2>1, <2>2, <2>3 DEF TimerTypes, Never
  <1>2. Batch = {}
    BY DEF Batch
  <1>3. OwnersPointToTimers /\ OwnersAreDisjoint /\ TimersAreOwned
    BY <1>2 DEF OwnersPointToTimers, OwnersAreDisjoint, TimersAreOwned, Builds
  <1>4. ActiveInv
    BY DEF ActiveInv
  <1>5. QED
    BY <1>1, <1>3, <1>4 DEF OwnInv

\* A step that leaves the Timers and their owners alone.
LEMMA SameOwners ==
    ASSUME OwnInv, UNCHANGED <<heap, timers_, activeTimers_, pending, adding, Batch>>
    PROVE  OwnersPointToTimers' /\ OwnersAreDisjoint' /\ TimersAreOwned' /\ ActiveInv'
  BY DEF OwnInv, OwnersPointToTimers, OwnersAreDisjoint, TimersAreOwned, ActiveInv, IdOf,
         IsAdd, Builds

\* Time, the return of poll(), the calls of the callbacks and their returns.
LEMMA QuietStepsKeepOwners ==
    ASSUME OwnInv, Tick \/ PollReturns \/ RunTimer \/ CallbackReturns
    PROVE  OwnInv'
  <1>1. UNCHANGED <<heap, timers_, activeTimers_, pending, adding, expired_, callingExpiredTimers_>>
    BY DEF Tick, PollReturns, RunTimer, CallbackReturns, createVars, timerVars, handleVars
  <1>2. UNCHANGED Batch
    BY <1>1 DEF Batch
  <1>3. TimerTypes'
    <2> USE <1>1 DEF OwnInv, TimerTypes
    <2>1. CASE Tick
      BY <2>1 DEF Tick, createVars, handleVars
    <2>2. CASE PollReturns
      BY <2>2 DEF PollReturns, createVars, ReturnTime
    <2>3. CASE RunTimer
      BY <2>3 DEF RunTimer, createVars
    <2>4. CASE CallbackReturns
      BY <2>4 DEF CallbackReturns, createVars
    <2>5. QED
      BY <2>1, <2>2, <2>3, <2>4
  <1>4. QED
    BY <1>1, <1>2, <1>3, SameOwners DEF OwnInv

\* new Timer: the address was free, so nobody holds it yet.
LEMMA AddTimerLoadKeepsOwners ==
    ASSUME OwnInv, NEW t \in Threads, AddTimerLoad(t)
    PROVE  OwnInv'
  <1>0. TimerTypes /\ OwnersPointToTimers /\ OwnersAreDisjoint /\ TimersAreOwned /\ ActiveInv
    BY DEF OwnInv
  <1>1. PICK a \in Addrs \ DOMAIN heap, r \in RunAt \cup RunAfter \cup RunEvery :
          /\ heap' = [b \in DOMAIN heap \cup {a} |->
                        IF b = a
                        THEN [sequence_ |-> rep_ + 1, expiration_ |-> r.when, interval_ |-> r.interval]
                        ELSE heap[b]]
          /\ adding' = [adding EXCEPT ![t] = [timer |-> <<a, rep_ + 1>>]]
    BY DEF AddTimerLoad
  <1>2. /\ UNCHANGED <<timers_, activeTimers_, pending, expired_, callingExpiredTimers_, toRun,
                       pc, clock, now, pollReturnTime, armed, rep_, ids>>
        /\ created' = created + 1
        /\ adding[t] = Nobody
    BY DEF AddTimerLoad, InUserCode, timerVars, handleVars
  <1>3. r.when \in Nat /\ r.interval \in Nat
    BY <1>0, TimerAssumption DEF RunAt, RunAfter, RunEvery, TimerTypes
  <1>4. <<a, rep_ + 1>> \in TimerIds
    BY <1>0 DEF TimerTypes, TimerIds
  <1>5. /\ DOMAIN heap' = DOMAIN heap \cup {a}
        /\ heap'[a] = [sequence_ |-> rep_ + 1, expiration_ |-> r.when, interval_ |-> r.interval]
        /\ \A b \in DOMAIN heap : heap'[b] = heap[b]
    BY <1>1
  <1>6. /\ adding'[t] = [timer |-> <<a, rep_ + 1>>]
        /\ \A u \in Threads \ {t} : adding'[u] = adding[u]
        /\ adding' \in [Threads -> {Nobody} \cup [timer : TimerIds]]
    BY <1>0, <1>1, <1>4 DEF TimerTypes
  <1>7. /\ Builds(t)' /\ adding'[t].timer[1] = a /\ adding'[t].timer[2] = rep_ + 1 /\ ~Builds(t)
        /\ \A u \in Threads \ {t} : Builds(u)' <=> Builds(u)
    BY <1>2, <1>4, <1>6, SomeTimer DEF Builds
  <1>8. Batch' = Batch
    BY <1>2 DEF Batch
  <1>9. TimerTypes'
    <2>1. heap'[a] \in TimerObjects
      BY <1>0, <1>3, <1>5 DEF TimerObjects, TimerTypes
    <2>2. QED
      BY <1>0, <1>2, <1>5, <1>6, <2>1 DEF TimerTypes
  <1>10. OwnersPointToTimers'
    BY <1>0, <1>2, <1>5, <1>6, <1>7, <1>8 DEF OwnersPointToTimers, IsAdd
  <1>11. OwnersAreDisjoint'
    BY <1>0, <1>2, <1>6, <1>7, <1>8 DEF OwnersPointToTimers, OwnersAreDisjoint, IsAdd
  <1>12. TimersAreOwned'
    BY <1>0, <1>2, <1>5, <1>6, <1>7, <1>8 DEF TimersAreOwned, IsAdd
  <1>13. ActiveInv'
    <2>1. \A e \in timers_ : IdOf(e)' = IdOf(e)
      BY <1>0, <1>5 DEF OwnersPointToTimers, IdOf
    <2>2. QED
      BY <1>0, <1>2, <2>1 DEF ActiveInv
  <1>14. QED
    BY <1>9, <1>10, <1>11, <1>12, <1>13 DEF OwnInv

\* insert() of a Timer that is in neither set: both sets and the heap agree.
LEMMA InsertKeepsEntries ==
    ASSUME OwnInv, NEW a \in DOMAIN heap, \A e \in timers_ \cup Batch : e[2] # a,
           AddTimerInLoop(a), UNCHANGED <<heap, Batch>>
    PROVE  /\ timers_' = timers_ \cup {<<heap[a].expiration_, a>>}
           /\ timers_' \subseteq Entries /\ armed' \in (Nat \cup {armed})
           /\ \A e \in timers_' \cup Batch' : e[2] \in DOMAIN heap' /\ heap'[e[2]].expiration_ = e[1]
           /\ timers_' \cap Batch' = {}
           /\ ActiveInv'
  <1> DEFINE x == <<heap[a].expiration_, a>>
  <1>0. TimerTypes /\ OwnersPointToTimers /\ OwnersAreDisjoint /\ ActiveInv
    BY DEF OwnInv
  <1>1. /\ timers_' = timers_ \cup {x}
        /\ activeTimers_' = activeTimers_ \cup {<<a, heap[a].sequence_>>}
    BY DEF AddTimerInLoop
  <1>2. heap[a] \in TimerObjects /\ a \in Addrs
    BY <1>0 DEF TimerTypes
  <1>3. heap[a].expiration_ \in Nat
    BY <1>2 DEF TimerObjects
  <1>4. x \in Entries /\ x[1] = heap[a].expiration_ /\ x[2] = a
    BY <1>2, <1>3 DEF Entries
  <1>5. armed' \in (Nat \cup {armed})
    BY <1>0, <1>3 DEF AddTimerInLoop, ArmedFor, Max2, TimerTypes
  <1>6. IdOf(x) = <<a, heap[a].sequence_>>
    BY <1>4 DEF IdOf
  <1>7. \A e : IdOf(e)' = IdOf(e)
    BY DEF IdOf
  <1> HIDE DEF x
  <1>8. ActiveInv'
    BY <1>0, <1>1, <1>6, <1>7 DEF ActiveInv
  <1>9. \A e \in timers_' \cup Batch' : e[2] \in DOMAIN heap' /\ heap'[e[2]].expiration_ = e[1]
    BY <1>0, <1>1, <1>4 DEF OwnersPointToTimers
  <1>10. timers_' \cap Batch' = {}
    BY <1>0, <1>1, <1>4 DEF OwnersAreDisjoint
  <1>11. QED
    BY <1>0, <1>1, <1>4, <1>5, <1>8, <1>9, <1>10 DEF TimerTypes, x

\* addTimer() returns: the constructor's Timer goes to the queue of functors, or
\* to the two sets if the loop thread is the caller.
LEMMA AddTimerStoreKeepsOwners ==
    ASSUME OwnInv, NEW t \in Threads, AddTimerStore(t)
    PROVE  OwnInv'
  <1> DEFINE id == adding[t].timer
  <1>0. TimerTypes /\ OwnersPointToTimers /\ OwnersAreDisjoint /\ TimersAreOwned /\ ActiveInv
    BY DEF OwnInv
  <1>1. /\ Builds(t)
        /\ adding' = [adding EXCEPT ![t] = Nobody]
        /\ rep_' = id[2] /\ ids' = ids \cup {id}
        /\ UNCHANGED <<heap, clock, created, cancelingTimers_, callingExpiredTimers_, expired_,
                       toRun, pc, pollReturnTime, now>>
    BY DEF AddTimerStore, Builds, handleVars
  <1>2. id \in TimerIds
    BY <1>0, <1>1 DEF TimerTypes, Builds
  <1>3. /\ adding'[t] = Nobody /\ \A u \in Threads \ {t} : adding'[u] = adding[u]
        /\ adding' \in [Threads -> {Nobody} \cup [timer : TimerIds]]
    BY <1>0, <1>1 DEF TimerTypes
  <1>4. ~Builds(t)' /\ \A u \in Threads \ {t} : Builds(u)' <=> Builds(u)
    BY <1>3 DEF Builds
  <1>5. Batch' = Batch
    BY <1>1 DEF Batch
  <1>6. /\ id[1] \in DOMAIN heap /\ heap[id[1]].sequence_ = id[2]
        /\ \A e \in timers_ \cup Batch : e[2] # id[1]
        /\ \A i \in DOMAIN pending : IsAdd(i) => pending[i].timer[1] # id[1]
        /\ \A u \in Threads \ {t} : Builds(u) => adding[u].timer[1] # id[1]
    BY <1>0, <1>1 DEF OwnersPointToTimers, OwnersAreDisjoint
  <1>7. id[2] \in Nat
    BY <1>2, IdIsPair
  <1>8. CASE t = Loop
    <2>1. AddTimerInLoop(id[1]) /\ UNCHANGED pending
      BY <1>8 DEF AddTimerStore
    <2>2. /\ timers_' = timers_ \cup {<<heap[id[1]].expiration_, id[1]>>}
          /\ timers_' \subseteq Entries /\ armed' \in (Nat \cup {armed})
          /\ \A e \in timers_' \cup Batch' : e[2] \in DOMAIN heap' /\ heap'[e[2]].expiration_ = e[1]
          /\ timers_' \cap Batch' = {}
          /\ ActiveInv'
      BY <1>1, <1>5, <1>6, <2>1, InsertKeepsEntries
    <2> HIDE DEF id
    <2>3. TimerTypes'
      BY <1>0, <1>1, <1>2, <1>3, <1>7, <2>1, <2>2 DEF TimerTypes
    <2>4. OwnersPointToTimers'
      BY <1>0, <1>1, <1>3, <1>4, <2>1, <2>2 DEF OwnersPointToTimers, IsAdd
    <2>5. \A e \in timers_' \cup Batch' : e \in timers_ \cup Batch \/ e[2] = id[1]
      BY <1>5, <2>2
    <2>6. OwnersAreDisjoint'
      BY <1>0, <1>3, <1>4, <1>6, <2>1, <2>2, <2>5 DEF OwnersAreDisjoint, IsAdd
    <2>7. \E e \in timers_' : e[2] = id[1]
      <3>1. <<heap[id[1]].expiration_, id[1]>>[2] = id[1]
        OBVIOUS
      <3>2. QED
        BY <2>2, <3>1
    <2>8. TimersAreOwned'
      BY <1>0, <1>1, <1>3, <1>4, <1>5, <2>1, <2>2, <2>7 DEF TimersAreOwned, IsAdd, id
    <2>9. QED
      BY <2>2, <2>3, <2>4, <2>6, <2>8 DEF OwnInv
  <1>9. CASE t # Loop
    <2> DEFINE f == [op |-> "add", timer |-> id]
    <2>0. PICK n \in Nat : n = Len(pending)
      BY <1>0, LenProperties DEF TimerTypes
    <2>1. pending' = Append(pending, f) /\ UNCHANGED <<timers_, activeTimers_, armed>>
      BY <1>9 DEF AddTimerStore, timerVars
    <2>2. f \in TimerFunctors /\ f.op = "add" /\ f.timer = id
      BY <1>2 DEF TimerFunctors
    <2>3. /\ pending' \in Seq(TimerFunctors) /\ Len(pending') = n + 1
          /\ \A i \in 1 .. n : pending'[i] = pending[i]
          /\ pending'[n + 1] = f
      BY <1>0, <2>0, <2>1, <2>2, AppendProperties DEF TimerTypes
    <2>4. DOMAIN pending = 1 .. n /\ DOMAIN pending' = 1 .. n + 1 /\ n + 1 \notin 1 .. n
          /\ 1 .. n + 1 = (1 .. n) \cup {n + 1}
      BY <1>0, <2>0, <2>3, LenProperties DEF TimerTypes
    <2> HIDE DEF f, id
    <2>5. IsAdd(n + 1)' /\ \A i \in 1 .. n : IsAdd(i)' <=> IsAdd(i)
      BY <2>2, <2>3 DEF IsAdd
    <2>6. TimerTypes'
      BY <1>0, <1>1, <1>2, <1>3, <1>7, <2>1, <2>3 DEF TimerTypes
    <2>7. OwnersPointToTimers'
      BY <1>0, <1>1, <1>3, <1>4, <1>5, <1>6, <2>1, <2>2, <2>3, <2>4, <2>5 DEF OwnersPointToTimers
    <2>8. OwnersAreDisjoint'
      BY <1>0, <1>3, <1>4, <1>5, <1>6, <2>1, <2>2, <2>3, <2>4, <2>5 DEF OwnersAreDisjoint
    <2>9. TimersAreOwned'
      BY <1>0, <1>1, <1>3, <1>4, <1>5, <2>1, <2>2, <2>3, <2>4, <2>5 DEF TimersAreOwned, id
    <2>10. ActiveInv'
      BY <1>0, <1>1, <2>1 DEF ActiveInv, IdOf
    <2>11. QED
      BY <2>6, <2>7, <2>8, <2>9, <2>10 DEF OwnInv
  <1>10. QED
    BY <1>8, <1>9

-----------------------------------------------------------------------------

\* The Timers at the addresses D are taken out of timers_ and deleted.
Deletes(D) ==
    /\ \A a \in D : \E e \in timers_ : e[2] = a
    /\ DOMAIN heap' = DOMAIN heap \ D
    /\ \A a \in DOMAIN heap' : heap'[a] = heap[a]
    /\ timers_' = {e \in timers_ : e[2] \notin D}

\* What is deleted belonged to nobody else.
LEMMA DeletesOnlyOwn ==
    ASSUME OwnInv, NEW D, Deletes(D), UNCHANGED Batch
    PROVE  /\ timers_' \subseteq timers_
           /\ \A e \in timers_' \cup Batch' : e[2] \in DOMAIN heap' /\ heap'[e[2]].expiration_ = e[1]
           /\ timers_' \cap Batch' = {}
           /\ \A i \in DOMAIN pending : IsAdd(i) => pending[i].timer[1] \notin D
           /\ \A t \in Threads : Builds(t) => adding[t].timer[1] \notin D
  <1>0. TimerTypes /\ OwnersPointToTimers /\ OwnersAreDisjoint
    BY DEF OwnInv
  <1>1. timers_' \subseteq timers_
    BY DEF Deletes
  <1>2. \A e \in Batch : e[2] \notin D
    <2>1. ASSUME NEW e \in Batch, NEW f \in timers_, f[2] = e[2] PROVE FALSE
      <3>1. e \in Entries /\ f \in Entries
        BY <1>0 DEF TimerTypes, Batch
      <3>2. e[1] = f[1]
        BY <1>0, <2>1 DEF OwnersPointToTimers
      <3>3. e = f
        BY <2>1, <3>1, <3>2, EntryIsPair
      <3>4. QED
        BY <1>0, <3>3 DEF OwnersAreDisjoint
    <2>2. QED
      BY <2>1 DEF Deletes
  <1>3. \A e \in timers_' \cup Batch' : e[2] \in DOMAIN heap' /\ heap'[e[2]].expiration_ = e[1]
    BY <1>0, <1>2 DEF Deletes, OwnersPointToTimers
  <1>4. timers_' \cap Batch' = {}
    BY <1>0, <1>1 DEF OwnersAreDisjoint
  <1>5. QED
    BY <1>0, <1>1, <1>3, <1>4 DEF Deletes, OwnersAreDisjoint

\* cancelInLoop(): what it deletes is the Timer that it found, if it found one.
LEMMA CancelInLoopDeletes ==
    ASSUME OwnInv, NEW id \in TimerIds, CancelInLoop(id)
    PROVE  ActiveInv' /\ \E D \in SUBSET {id[1]} : Deletes(D)
  <1>0. TimerTypes /\ OwnersPointToTimers /\ OwnersAreDisjoint /\ ActiveInv
    BY DEF OwnInv
  <1>1. CASE Found(id) = {}
    <2>1. UNCHANGED <<timers_, activeTimers_, heap>>
      BY <1>1 DEF CancelInLoop
    <2>2. ActiveInv'
      BY <1>0, <2>1 DEF ActiveInv, IdOf
    <2>3. Deletes({})
      BY <2>1 DEF Deletes
    <2>4. QED
      BY <2>2, <2>3
  <1>2. CASE Found(id) # {}
    <2>1. id \in activeTimers_ /\ Found(id) = {id}
      BY <1>2 DEF Found
    <2>2. PICK e \in timers_ : id = IdOf(e)
      BY <1>0, <2>1 DEF ActiveInv
    <2>3. e[2] = id[1] /\ e = <<e[1], e[2]>> /\ heap[e[2]].expiration_ = e[1]
      BY <1>0, <2>2, EntryIsPair DEF IdOf, OwnersPointToTimers, TimerTypes
    <2>4. /\ timers_' = timers_ \ {e} /\ activeTimers_' = activeTimers_ \ {id}
          /\ heap' = Free(heap, {id[1]})
      BY <1>2, <2>1, <2>3 DEF CancelInLoop
    <2>5. ASSUME NEW f \in timers_, f[2] = e[2] PROVE f = e
      <3>1. f = <<f[1], f[2]>> /\ f[1] = heap[f[2]].expiration_
        BY <1>0, EntryIsPair DEF OwnersPointToTimers, TimerTypes
      <3>2. QED
        BY <2>3, <2>5, <3>1
    <2>6. DOMAIN heap' = DOMAIN heap \ {id[1]} /\ \A a \in DOMAIN heap' : heap'[a] = heap[a]
      BY <2>4 DEF Free
    <2>7. Deletes({id[1]})
      BY <2>3, <2>4, <2>5, <2>6 DEF Deletes
    <2>8. ActiveInv'
      <3>1. \A f \in timers_ \ {e} : IdOf(f)' = IdOf(f) /\ IdOf(f) # id
        <4>1. ASSUME NEW f \in timers_ \ {e} PROVE IdOf(f)' = IdOf(f) /\ IdOf(f) # id
          <5>1. f[2] # id[1] /\ f[2] \in DOMAIN heap
            BY <1>0, <2>3, <2>5 DEF OwnersPointToTimers
          <5>2. heap'[f[2]] = heap[f[2]]
            BY <2>6, <5>1
          <5>3. IdOf(f)[1] = f[2]
            BY DEF IdOf
          <5>4. QED
            BY <5>1, <5>2, <5>3 DEF IdOf
        <4>2. QED
          BY <4>1
      <3>2. QED
        BY <1>0, <2>2, <2>4, <3>1 DEF ActiveInv
    <2>9. QED
      BY <2>7, <2>8
  <1>3. QED
    BY <1>1, <1>2

\* A Timer is deleted by its only owner, while the other owners stay.
LEMMA DeleteKeepsOwners ==
    ASSUME OwnInv, NEW D, Deletes(D), UNCHANGED <<Batch, pending, adding>>
    PROVE  OwnersPointToTimers' /\ OwnersAreDisjoint' /\ TimersAreOwned'
  <1>0. TimerTypes /\ OwnersPointToTimers /\ OwnersAreDisjoint /\ TimersAreOwned
    BY DEF OwnInv
  <1>1. /\ timers_' \subseteq timers_
        /\ \A e \in timers_' \cup Batch' : e[2] \in DOMAIN heap' /\ heap'[e[2]].expiration_ = e[1]
        /\ timers_' \cap Batch' = {}
        /\ \A i \in DOMAIN pending : IsAdd(i) => pending[i].timer[1] \notin D
        /\ \A t \in Threads : Builds(t) => adding[t].timer[1] \notin D
    BY DeletesOnlyOwn
  <1>2. OwnersPointToTimers'
    BY <1>0, <1>1 DEF OwnersPointToTimers, Deletes, IsAdd, Builds
  <1>3. OwnersAreDisjoint'
    BY <1>0, <1>1 DEF OwnersAreDisjoint, IsAdd, Builds
  <1>4. TimersAreOwned'
    BY <1>0, <1>1 DEF TimersAreOwned, Deletes, IsAdd, Builds
  <1>5. QED
    BY <1>2, <1>3, <1>4

\* A functor that is queued or run and is no addTimerInLoop() owns nothing: the
\* owners are the same, at positions shifted by one or not at all.
LEMMA OtherFunctorsOwnNothing ==
    ASSUME OwnInv, NEW D, Deletes(D), UNCHANGED <<Batch, adding>>,
           NEW k \in {0, 1},
           \A i \in DOMAIN pending' : pending'[i].op = "add" =>
               i + k \in DOMAIN pending /\ pending[i + k] = pending'[i],
           \A i \in DOMAIN pending : pending[i].op = "add" =>
               i - k \in DOMAIN pending' /\ pending'[i - k] = pending[i],
           DOMAIN pending \subseteq Nat, DOMAIN pending' \subseteq Nat
    PROVE  OwnersPointToTimers' /\ OwnersAreDisjoint' /\ TimersAreOwned'
  <1>0. TimerTypes /\ OwnersPointToTimers /\ OwnersAreDisjoint /\ TimersAreOwned
    BY DEF OwnInv
  <1>1. /\ timers_' \subseteq timers_
        /\ \A e \in timers_' \cup Batch' : e[2] \in DOMAIN heap' /\ heap'[e[2]].expiration_ = e[1]
        /\ timers_' \cap Batch' = {}
        /\ \A i \in DOMAIN pending : IsAdd(i) => pending[i].timer[1] \notin D
        /\ \A t \in Threads : Builds(t) => adding[t].timer[1] \notin D
    BY DeletesOnlyOwn
  <1>2. \A i \in DOMAIN pending' : IsAdd(i)' =>
           i + k \in DOMAIN pending /\ IsAdd(i + k) /\ pending[i + k].timer = pending'[i].timer
    BY DEF IsAdd
  <1>3. OwnersPointToTimers'
    <2>1. \A i \in DOMAIN pending' : IsAdd(i)' => /\ pending'[i].timer[1] \in DOMAIN heap'
             /\ heap'[pending'[i].timer[1]].sequence_ = pending'[i].timer[2]
      BY <1>0, <1>1, <1>2 DEF OwnersPointToTimers, Deletes
    <2>2. QED
      BY <1>0, <1>1, <2>1 DEF OwnersPointToTimers, Deletes, Builds
  <1>4. OwnersAreDisjoint'
    <2>1. \A i, j \in DOMAIN pending' :
            IsAdd(i)' /\ IsAdd(j)' /\ pending'[i].timer[1] = pending'[j].timer[1] => i = j
      <3>1. ASSUME NEW i \in DOMAIN pending', NEW j \in DOMAIN pending',
                   IsAdd(i)', IsAdd(j)', pending'[i].timer[1] = pending'[j].timer[1]
            PROVE  i = j
        <4>1. i + k = j + k
          BY <1>0, <1>2, <3>1 DEF OwnersAreDisjoint
        <4>2. QED
          BY <4>1
      <3>2. QED
        BY <3>1
    <2>2. QED
      BY <1>0, <1>1, <1>2, <2>1 DEF OwnersAreDisjoint, Builds
  <1>5. TimersAreOwned'
    <2>1. ASSUME NEW a \in DOMAIN heap', NEW i \in DOMAIN pending, IsAdd(i), pending[i].timer[1] = a
          PROVE  \E j \in DOMAIN pending' : IsAdd(j)' /\ pending'[j].timer[1] = a
      BY <2>1 DEF IsAdd
    <2>2. QED
      BY <1>0, <1>1, <2>1 DEF TimersAreOwned, Deletes, Builds
  <1>6. QED
    BY <1>3, <1>4, <1>5

\* cancel(), on the spot or as a functor.
LEMMA CancelKeepsOwners ==
    ASSUME OwnInv, NEW t \in Threads, Cancel(t)
    PROVE  OwnInv'
  <1>0. TimerTypes /\ ActiveInv
    BY DEF OwnInv
  <1>1. UNCHANGED <<clock, rep_, adding, created, ids, callingExpiredTimers_, expired_, toRun, pc,
                   pollReturnTime, now, armed, finished>>
    BY DEF Cancel, createVars
  <1>2. Batch' = Batch
    BY <1>1 DEF Batch
  <1>3. PICK id \in ids :
          IF t = Loop
          THEN CancelInLoop(id) /\ UNCHANGED pending
          ELSE /\ Len(pending) < MaxPending
               /\ pending' = Append(pending, [op |-> "cancel", timer |-> id])
               /\ UNCHANGED <<timerVars, cancelingTimers_, heap, cancelled>>
    BY DEF Cancel
  <1>4. id \in TimerIds
    BY <1>0 DEF TimerTypes
  <1>5. CASE t = Loop
    <2>1. ActiveInv' /\ \E D \in SUBSET {id[1]} : Deletes(D)
      BY <1>3, <1>4, <1>5, CancelInLoopDeletes
    <2>2. PICK D \in SUBSET {id[1]} : Deletes(D)
      BY <2>1
    <2>3. UNCHANGED pending
      BY <1>3, <1>5
    <2>4. OwnersPointToTimers' /\ OwnersAreDisjoint' /\ TimersAreOwned'
      BY <1>1, <1>2, <2>2, <2>3, DeleteKeepsOwners
    <2>5. TimerTypes'
      BY <1>0, <1>1, <2>2, <2>3 DEF TimerTypes, Deletes
    <2>6. QED
      BY <2>1, <2>4, <2>5 DEF OwnInv
  <1>6. CASE t # Loop
    <2> DEFINE f == [op |-> "cancel", timer |-> id]
    <2>0. PICK n \in Nat : n = Len(pending)
      BY <1>0, LenProperties DEF TimerTypes
    <2>1. pending' = Append(pending, f) /\ UNCHANGED <<timers_, activeTimers_, heap>>
      BY <1>3, <1>6 DEF timerVars
    <2>2. f \in TimerFunctors /\ f.op # "add"
      BY <1>4 DEF TimerFunctors
    <2>3. /\ pending' \in Seq(TimerFunctors) /\ Len(pending') = n + 1
          /\ \A i \in 1 .. n : pending'[i] = pending[i]
          /\ pending'[n + 1] = f
      BY <1>0, <2>0, <2>1, <2>2, AppendProperties DEF TimerTypes
    <2>4. DOMAIN pending = 1 .. n /\ DOMAIN pending' = 1 .. n + 1
      BY <1>0, <2>0, <2>3, LenProperties DEF TimerTypes
    <2> HIDE DEF f
    <2>5. Deletes({})
      BY <2>1 DEF Deletes
    <2>6. /\ \A i \in DOMAIN pending' : pending'[i].op = "add" =>
               i + 0 \in DOMAIN pending /\ pending[i + 0] = pending'[i]
          /\ \A i \in DOMAIN pending : pending[i].op = "add" =>
               i - 0 \in DOMAIN pending' /\ pending'[i - 0] = pending[i]
          /\ DOMAIN pending \subseteq Nat /\ DOMAIN pending' \subseteq Nat
      BY <2>2, <2>3, <2>4
    <2>7. OwnersPointToTimers' /\ OwnersAreDisjoint' /\ TimersAreOwned'
      BY <1>1, <1>2, <2>5, <2>6, OtherFunctorsOwnNothing
    <2>8. TimerTypes'
      BY <1>0, <1>1, <2>1, <2>3 DEF TimerTypes
    <2>9. ActiveInv'
      BY <1>0, <2>1 DEF ActiveInv, IdOf
    <2>10. QED
      BY <2>7, <2>8, <2>9 DEF OwnInv
  <1>7. QED
    BY <1>5, <1>6

\* The queue without its first functor.
LEMMA TailOfPending ==
    ASSUME NEW q \in Seq(TimerFunctors), q # <<>>
    PROVE  /\ Tail(q) \in Seq(TimerFunctors) /\ Head(q) = q[1] /\ q[1] \in TimerFunctors
           /\ DOMAIN q \subseteq Nat /\ DOMAIN Tail(q) \subseteq Nat /\ 1 \in DOMAIN q
           /\ \A i \in DOMAIN Tail(q) : i + 1 \in DOMAIN q /\ q[i + 1] = Tail(q)[i]
           /\ \A i \in DOMAIN q \ {1} : i - 1 \in DOMAIN Tail(q) /\ Tail(q)[i - 1] = q[i]
  <1>1. /\ Head(q) \in TimerFunctors /\ Tail(q) \in Seq(TimerFunctors)
        /\ Len(Tail(q)) = Len(q) - 1 /\ \A i \in 1 .. Len(Tail(q)) : Tail(q)[i] = q[i + 1]
    BY HeadTailProperties
  <1>2. PICK n \in Nat \ {0} : n = Len(q)
    BY EmptySeq, LenProperties
  <1>3. DOMAIN q = 1 .. n /\ DOMAIN Tail(q) = 1 .. n - 1 /\ Head(q) = q[1]
    BY <1>1, <1>2, LenProperties
  <1>4. QED
    BY <1>1, <1>2, <1>3

\* doPendingFunctors(): an addTimerInLoop() hands its Timer to the two sets.
LEMMA RunFunctorKeepsOwners ==
    ASSUME OwnInv, RunFunctor
    PROVE  OwnInv'
  <1> DEFINE f == pending[1]
  <1>0. TimerTypes /\ OwnersPointToTimers /\ OwnersAreDisjoint /\ TimersAreOwned /\ ActiveInv
    BY DEF OwnInv
  <1>1. /\ UNCHANGED <<clock, rep_, adding, created, ids, callingExpiredTimers_, expired_, toRun,
                       pc, pollReturnTime, now, finished>>
        /\ pending # <<>> /\ pending' = Tail(pending)
    BY DEF RunFunctor, createVars
  <1>2. /\ pending' \in Seq(TimerFunctors) /\ Head(pending) = f /\ f \in TimerFunctors
        /\ DOMAIN pending \subseteq Nat /\ DOMAIN pending' \subseteq Nat /\ 1 \in DOMAIN pending
        /\ \A i \in DOMAIN pending' : i + 1 \in DOMAIN pending /\ pending[i + 1] = pending'[i]
        /\ \A i \in DOMAIN pending \ {1} : i - 1 \in DOMAIN pending' /\ pending'[i - 1] = pending[i]
    BY <1>0, <1>1, TailOfPending DEF TimerTypes
  <1>3. Batch' = Batch
    BY <1>1 DEF Batch
  <1>4. CASE f.op = "add"
    <2> DEFINE a == f.timer[1]
    <2>1. AddTimerInLoop(a) /\ UNCHANGED heap
      BY <1>2, <1>4 DEF RunFunctor
    <2>2. /\ a \in DOMAIN heap
          /\ \A e \in timers_ \cup Batch : e[2] # a
          /\ \A i \in DOMAIN pending \ {1} : IsAdd(i) => pending[i].timer[1] # a
          /\ \A u \in Threads : Builds(u) => adding[u].timer[1] # a
      BY <1>0, <1>2, <1>4 DEF OwnersPointToTimers, OwnersAreDisjoint, IsAdd
    <2>3. /\ timers_' = timers_ \cup {<<heap[a].expiration_, a>>}
          /\ timers_' \subseteq Entries /\ armed' \in (Nat \cup {armed})
          /\ \A e \in timers_' \cup Batch' : e[2] \in DOMAIN heap' /\ heap'[e[2]].expiration_ = e[1]
          /\ timers_' \cap Batch' = {}
          /\ ActiveInv'
      BY <1>3, <2>1, <2>2, InsertKeepsEntries
    <2>4. \A e \in timers_' \cup Batch' : e \in timers_ \cup Batch \/ e[2] = a
      BY <1>3, <2>3
    <2>5. \E e \in timers_' : e[2] = a
      <3>1. <<heap[a].expiration_, a>>[2] = a
        OBVIOUS
      <3>2. QED
        BY <2>3, <3>1
    <2>6. \A i \in DOMAIN pending' : IsAdd(i)' =>
             /\ i + 1 \in DOMAIN pending \ {1} /\ IsAdd(i + 1)
             /\ pending[i + 1].timer = pending'[i].timer
      BY <1>2 DEF IsAdd
    <2>7. \A i \in DOMAIN pending \ {1} : IsAdd(i) =>
             /\ i - 1 \in DOMAIN pending' /\ IsAdd(i - 1)'
             /\ pending'[i - 1].timer = pending[i].timer
      BY <1>2 DEF IsAdd
    <2>8. f.timer = pending[1].timer /\ IsAdd(1)
      BY <1>4 DEF IsAdd
    <2> HIDE DEF a
    <2>9. TimerTypes'
      BY <1>0, <1>1, <1>2, <2>1, <2>3 DEF TimerTypes
    <2>10. OwnersPointToTimers'
      BY <1>0, <1>1, <2>1, <2>3, <2>6 DEF OwnersPointToTimers, Builds
    <2>11. OwnersAreDisjoint'
      <3>1. ASSUME NEW i \in DOMAIN pending', NEW j \in DOMAIN pending',
                   IsAdd(i)', IsAdd(j)', pending'[i].timer[1] = pending'[j].timer[1]
            PROVE  i = j
        <4>1. i + 1 = j + 1
          BY <1>0, <2>6, <3>1 DEF OwnersAreDisjoint
        <4>2. QED
          BY <1>2, <4>1
      <3>2. \A e \in timers_' \cup Batch' :
               /\ \A i \in DOMAIN pending' : IsAdd(i)' => pending'[i].timer[1] # e[2]
               /\ \A t \in Threads : Builds(t)' => adding'[t].timer[1] # e[2]
        BY <1>0, <1>1, <2>2, <2>4, <2>6 DEF OwnersAreDisjoint, Builds
      <3>3. QED
        BY <1>0, <1>1, <2>3, <2>6, <3>1, <3>2 DEF OwnersAreDisjoint, Builds
    <2>12. TimersAreOwned'
      <3>1. ASSUME NEW b \in DOMAIN heap, NEW i \in DOMAIN pending, IsAdd(i), pending[i].timer[1] = b
            PROVE  \/ \E e \in timers_' : e[2] = b
                   \/ \E j \in DOMAIN pending' : IsAdd(j)' /\ pending'[j].timer[1] = b
        <4>1. CASE i = 1
          BY <2>5, <2>8, <3>1, <4>1 DEF a
        <4>2. CASE i # 1
          BY <2>7, <3>1, <4>2
        <4>3. QED
          BY <4>1, <4>2
      <3>2. QED
        BY <1>0, <1>1, <1>3, <2>1, <2>3, <3>1 DEF TimersAreOwned, Builds
    <2>13. QED
      BY <2>3, <2>9, <2>10, <2>11, <2>12 DEF OwnInv
  <1>5. CASE f.op # "add"
    <2>1. CancelInLoop(f.timer) /\ UNCHANGED armed
      BY <1>2, <1>5 DEF RunFunctor
    <2>2. f.timer \in TimerIds
      BY <1>2 DEF TimerFunctors
    <2>3. ActiveInv' /\ \E D \in SUBSET {f.timer[1]} : Deletes(D)
      BY <2>1, <2>2, CancelInLoopDeletes
    <2>4. PICK D : Deletes(D)
      BY <2>3
    <2>5. /\ \A i \in DOMAIN pending' : pending'[i].op = "add" =>
               i + 1 \in DOMAIN pending /\ pending[i + 1] = pending'[i]
          /\ \A i \in DOMAIN pending : pending[i].op = "add" =>
               i - 1 \in DOMAIN pending' /\ pending'[i - 1] = pending[i]
      BY <1>2, <1>5
    <2>6. OwnersPointToTimers' /\ OwnersAreDisjoint' /\ TimersAreOwned'
      BY <1>1, <1>2, <1>3, <2>4, <2>5, OtherFunctorsOwnNothing
    <2>7. TimerTypes'
      BY <1>0, <1>1, <1>2, <2>1, <2>4 DEF TimerTypes, Deletes
    <2>8. QED
      BY <2>3, <2>6, <2>7 DEF OwnInv
  <1>6. QED
    BY <1>4, <1>5

-----------------------------------------------------------------------------

\* No two entries, waiting or in the batch, are of the same Timer.
LEMMA EntryOfAddress ==
    ASSUME TimerTypes, OwnersPointToTimers,
           NEW e \in timers_ \cup Batch, NEW f \in timers_ \cup Batch, e[2] = f[2]
    PROVE  e = f
  <1>1. e \in Entries /\ f \in Entries
    BY DEF TimerTypes, Batch
  <1>2. e[1] = f[1]
    BY DEF OwnersPointToTimers
  <1>3. QED
    BY <1>1, <1>2, EntryIsPair

\* getExpired() moves the expired timers from the two sets to the batch.
LEMMA HandleReadKeepsOwners ==
    ASSUME OwnInv, HandleRead
    PROVE  OwnInv'
  <1>0. TimerTypes /\ OwnersPointToTimers /\ OwnersAreDisjoint /\ TimersAreOwned /\ ActiveInv
    BY DEF OwnInv
  <1>1. /\ UNCHANGED <<clock, heap, rep_, adding, created, ids, pollReturnTime, pending>>
        /\ now' = clock /\ armed' = (IF armed <= clock THEN Never ELSE armed)
        /\ expired_' = Expired(pollReturnTime) /\ toRun' = expired_'
        /\ timers_' = timers_ \ expired_'
        /\ activeTimers_' = StillActive(expired_')
        /\ callingExpiredTimers_' = TRUE
        /\ pc' = "running" /\ pc = "polled"
    BY DEF HandleRead, createVars
  <1>2. Batch = {} /\ Batch' = expired_' /\ expired_' \subseteq timers_
    BY <1>0, <1>1 DEF Batch, TimerTypes, Expired
  <1>3. timers_' \cup Batch' = timers_ \cup Batch /\ timers_' \cap Batch' = {}
    BY <1>1, <1>2
  <1>4. TimerTypes'
    BY <1>0, <1>1, <1>2 DEF TimerTypes, Never
  <1>5. OwnersPointToTimers' /\ OwnersAreDisjoint' /\ TimersAreOwned'
    BY <1>0, <1>1, <1>3
       DEF OwnersPointToTimers, OwnersAreDisjoint, TimersAreOwned, IsAdd, Builds
  <1>6. ActiveInv'
    <2>1. \A e : IdOf(e)' = IdOf(e) /\ IdOf(e)[1] = e[2]
      BY <1>1 DEF IdOf
    <2>2. \A e, f \in timers_ : IdOf(e) = IdOf(f) => e = f
      BY <1>0, <2>1, EntryOfAddress
    <2>3. activeTimers_' = {IdOf(e) : e \in timers_} \ {IdOf(e) : e \in expired_'}
      BY <1>0, <1>1 DEF ActiveInv, StillActive
    <2>4. {IdOf(e) : e \in timers_} \ {IdOf(e) : e \in expired_'} = {IdOf(e) : e \in timers_'}
      BY <1>1, <1>2, <2>2
    <2>5. {IdOf(e) : e \in timers_'} = {IdOf(e)' : e \in timers_'}
      BY <2>1
    <2>6. QED
      BY <2>3, <2>4, <2>5 DEF ActiveInv
  <1>7. QED
    BY <1>4, <1>5, <1>6 DEF OwnInv

\* reset(): of each timer in the batch, either it is put back or it is deleted.
LEMMA ResetKeepsOwners ==
    ASSUME OwnInv, Reset
    PROVE  OwnInv'
  <1> DEFINE restarted == {e[2] : e \in Restarted}
             deleted == {e[2] : e \in expired_ \ Restarted}
             back == {<<heap'[a].expiration_, a>> : a \in restarted}
  <1>0. TimerTypes /\ OwnersPointToTimers /\ OwnersAreDisjoint /\ TimersAreOwned /\ ActiveInv
    BY DEF OwnInv
  <1>1. /\ UNCHANGED <<clock, rep_, adding, created, ids, expired_, toRun, pollReturnTime, now, pending>>
        /\ pc = "running" /\ toRun = {} /\ pc' = "idle"
        /\ callingExpiredTimers_' = FALSE
        /\ heap' = [a \in DOMAIN heap \ deleted |->
                      IF a \in restarted
                      THEN [heap[a] EXCEPT !.expiration_ = now + heap[a].interval_] ELSE heap[a]]
        /\ timers_' = timers_ \cup back
        /\ activeTimers_' = activeTimers_ \cup {IdOf(e) : e \in Restarted}
        /\ armed' = (IF ResetArms THEN ArmedFor(Earliest(timers_')[1]) ELSE armed)
    BY DEF Reset, createVars
  <1>2. Batch = expired_ /\ Batch' = {} /\ Restarted \subseteq Batch
    BY <1>0, <1>1 DEF Batch, TimerTypes, Restarted
  <1>3. restarted \cap deleted = {}
    <2>1. ASSUME NEW e \in Restarted, NEW f \in expired_ \ Restarted, e[2] = f[2] PROVE FALSE
      BY <1>0, <1>2, <2>1, EntryOfAddress
    <2>2. QED
      BY <2>1
  <1>4. restarted \cup deleted = {e[2] : e \in Batch} /\ restarted \cup deleted \subseteq DOMAIN heap
    BY <1>0, <1>2 DEF OwnersPointToTimers
  <1>5. \A e \in timers_ : e[2] \notin restarted \cup deleted
    <2>1. ASSUME NEW e \in timers_, NEW f \in Batch, e[2] = f[2] PROVE FALSE
      <3>1. e = f
        BY <1>0, <2>1, EntryOfAddress
      <3>2. QED
        BY <1>0, <3>1 DEF OwnersAreDisjoint
    <2>2. QED
      BY <1>4, <2>1
  <1>6. /\ \A i \in DOMAIN pending : IsAdd(i) => pending[i].timer[1] \notin restarted \cup deleted
        /\ \A t \in Threads : Builds(t) => adding[t].timer[1] \notin restarted \cup deleted
    BY <1>0, <1>4 DEF OwnersAreDisjoint
  <1> HIDE DEF restarted, deleted
  <1>7. /\ DOMAIN heap' = DOMAIN heap \ deleted
        /\ \A a \in DOMAIN heap \ (restarted \cup deleted) : heap'[a] = heap[a]
        /\ \A a \in restarted : /\ a \in DOMAIN heap'
                                /\ heap'[a] \in TimerObjects
                                /\ heap'[a].sequence_ = heap[a].sequence_
    <2>1. DOMAIN heap' = DOMAIN heap \ deleted
      BY <1>1
    <2>2. ASSUME NEW a \in restarted
          PROVE  /\ a \in DOMAIN heap' /\ heap'[a] \in TimerObjects
                 /\ heap'[a].sequence_ = heap[a].sequence_
      <3>1. a \in DOMAIN heap /\ a \notin deleted /\ heap[a] \in TimerObjects /\ now \in Nat
        BY <1>0, <1>3, <1>4 DEF TimerTypes
      <3>2. heap'[a] = [heap[a] EXCEPT !.expiration_ = now + heap[a].interval_]
        BY <1>1, <3>1
      <3>3. QED
        BY <2>1, <3>1, <3>2 DEF TimerObjects
    <2>3. \A a \in DOMAIN heap \ (restarted \cup deleted) : heap'[a] = heap[a]
      BY <1>1
    <2>4. QED
      BY <2>1, <2>2, <2>3
  <1>8. \A a \in DOMAIN heap' : heap'[a] \in TimerObjects
    BY <1>0, <1>7 DEF TimerTypes
  <1>9. \A x \in back : x[2] \in restarted /\ x[1] = heap'[x[2]].expiration_ /\ x \in Entries
    <2>1. ASSUME NEW a \in restarted
          PROVE  <<heap'[a].expiration_, a>> \in Entries
      BY <1>0, <1>7 DEF Entries, TimerObjects, TimerTypes
    <2>2. QED
      BY <2>1
  <1>10. \A a \in restarted : \E x \in back : x[2] = a
    <2>1. ASSUME NEW a \in restarted PROVE \E x \in back : x[2] = a
      <3>1. <<heap'[a].expiration_, a>>[2] = a
        OBVIOUS
      <3>2. QED
        BY <3>1
    <2>2. QED
      BY <2>1
  <1> HIDE DEF back
  <1>11. timers_' \subseteq Entries
    BY <1>0, <1>1, <1>9 DEF TimerTypes
  <1>12. TimerTypes'
    <2>1. armed' \in Nat
      <3>1. CASE timers_' = {}
        BY <1>0, <1>1, <3>1 DEF ResetArms, TimerTypes
      <3>2. CASE timers_' # {}
        <4>1. Earliest(timers_') \in timers_'
          BY <1>11, <3>2, EarliestIsFirst
        <4>2. Earliest(timers_')[1] \in Nat
          BY <1>11, <4>1, EntryIsPair
        <4>3. QED
          BY <1>0, <1>1, <4>2 DEF ArmedFor, Max2, TimerTypes
      <3>3. QED
        BY <3>1, <3>2
    <2>2. QED
      BY <1>0, <1>1, <1>7, <1>8, <1>11, <2>1 DEF TimerTypes
  <1>13. OwnersPointToTimers'
    <2>1. \A e \in timers_' : e[2] \in DOMAIN heap' /\ heap'[e[2]].expiration_ = e[1]
      BY <1>0, <1>1, <1>5, <1>7, <1>9 DEF OwnersPointToTimers
    <2>2. \A i \in DOMAIN pending' : IsAdd(i)' =>
             pending'[i].timer[1] \in DOMAIN heap' /\ heap'[pending'[i].timer[1]].sequence_ = pending'[i].timer[2]
      BY <1>0, <1>1, <1>2, <1>6, <1>7 DEF OwnersPointToTimers, IsAdd
    <2>3. \A t \in Threads : Builds(t)' =>
             adding'[t].timer[1] \in DOMAIN heap' /\ heap'[adding'[t].timer[1]].sequence_ = adding'[t].timer[2]
      BY <1>0, <1>1, <1>2, <1>6, <1>7 DEF OwnersPointToTimers, Builds
    <2>4. QED
      BY <1>0, <1>1, <1>2, <1>6, <1>7, <2>1, <2>2, <2>3 DEF OwnersPointToTimers
  <1>14. OwnersAreDisjoint'
    <2>1. ASSUME NEW e \in timers_'
          PROVE  /\ \A i \in DOMAIN pending : IsAdd(i) => pending[i].timer[1] # e[2]
                 /\ \A t \in Threads : Builds(t) => adding[t].timer[1] # e[2]
      <3>1. CASE e \in timers_
        BY <1>0, <3>1 DEF OwnersAreDisjoint
      <3>2. CASE e \in back
        BY <1>6, <1>9, <3>2
      <3>3. QED
        BY <1>1, <3>1, <3>2
    <2>2. timers_' \cup Batch' = timers_' /\ timers_' \cap Batch' = {} /\ UNCHANGED <<pending, adding>>
      BY <1>1, <1>2
    <2>3. QED
      BY <1>0, <2>1, <2>2 DEF OwnersAreDisjoint, IsAdd, Builds
  <1>15. TimersAreOwned'
    <2>1. ASSUME NEW a \in DOMAIN heap', NEW e \in Batch, e[2] = a
          PROVE  \E x \in timers_' : x[2] = a
      <3>1. a \in restarted
        BY <1>4, <1>7, <2>1
      <3>2. QED
        BY <1>1, <1>10, <3>1
    <2>2. QED
      BY <1>0, <1>1, <1>7, <2>1 DEF TimersAreOwned, IsAdd, Builds
  <1>16. ActiveInv'
    <2>1. \A e \in timers_ : IdOf(e)' = IdOf(e)
      BY <1>0, <1>5, <1>7 DEF IdOf, OwnersPointToTimers
    <2>2. \A e \in Restarted : e[2] \in restarted
      BY DEF restarted
    <2>3. \A x \in back : \E e \in Restarted : IdOf(x)' = IdOf(e)
      <3>1. ASSUME NEW x \in back PROVE \E e \in Restarted : IdOf(x)' = IdOf(e)
        <4>1. PICK e \in Restarted : e[2] = x[2]
          BY <1>9 DEF restarted
        <4>2. QED
          BY <1>7, <1>9, <4>1 DEF IdOf
      <3>2. QED
        BY <3>1
    <2>4. \A e \in Restarted : \E x \in back : IdOf(x)' = IdOf(e)
      <3>1. ASSUME NEW e \in Restarted PROVE \E x \in back : IdOf(x)' = IdOf(e)
        <4>1. PICK x \in back : e[2] = x[2]
          BY <1>10, <2>2
        <4>2. QED
          BY <1>7, <1>9, <4>1 DEF IdOf
      <3>2. QED
        BY <3>1
    <2>5. {IdOf(e)' : e \in timers_'} = {IdOf(e) : e \in timers_} \cup {IdOf(e) : e \in Restarted}
      BY <1>1, <2>1, <2>3, <2>4
    <2>6. QED
      BY <1>0, <1>1, <2>5 DEF ActiveInv
  <1>17. QED
    BY <1>12, <1>13, <1>14, <1>15, <1>16 DEF OwnInv

\* ~TimerQueue() deletes what timers_ holds.
LEMMA DestroyKeepsOwners ==
    ASSUME OwnInv, Destroy
    PROVE  OwnInv'
  <1> DEFINE D == {e[2] : e \in timers_}
  <1>0. TimerTypes
    BY DEF OwnInv
  <1>1. /\ UNCHANGED <<clock, rep_, adding, created, ids, callingExpiredTimers_, expired_, toRun,
                       pollReturnTime, now, pending>>
        /\ heap' = Free(heap, D) /\ timers_' = {} /\ activeTimers_' = {} /\ armed' = Never
        /\ pc = "idle" /\ pc' = "gone"
    BY DEF Destroy, createVars
  <1>2. DOMAIN heap' = DOMAIN heap \ D /\ \A a \in DOMAIN heap' : heap'[a] = heap[a]
    BY <1>1 DEF Free
  <1>3. Deletes(D)
    BY <1>1, <1>2 DEF Deletes
  <1>4. Batch' = Batch
    BY <1>1 DEF Batch
  <1>5. OwnersPointToTimers' /\ OwnersAreDisjoint' /\ TimersAreOwned'
    BY <1>1, <1>3, <1>4, DeleteKeepsOwners
  <1>6. TimerTypes'
    BY <1>0, <1>1, <1>2 DEF TimerTypes, Never
  <1>7. ActiveInv'
    BY <1>1 DEF ActiveInv
  <1>8. QED
    BY <1>5, <1>6, <1>7 DEF OwnInv

\* Every step keeps the owners.
LEMMA StepKeepsOwners ==
    ASSUME OwnInv, [Next]_vars
    PROVE  OwnInv'
  <1>1. CASE UNCHANGED vars
    <2>1. UNCHANGED <<heap, timers_, activeTimers_, pending, adding, Batch>>
      BY <1>1 DEF vars, createVars, timerVars, handleVars, Batch
    <2>2. TimerTypes'
      BY <1>1 DEF vars, createVars, timerVars, handleVars, OwnInv, TimerTypes
    <2>3. QED
      BY <2>1, <2>2, SameOwners DEF OwnInv
  <1>2. ASSUME NEW t \in Threads, AddTimerLoad(t) \/ AddTimerStore(t) \/ Cancel(t)
        PROVE  OwnInv'
    BY <1>2, AddTimerLoadKeepsOwners, AddTimerStoreKeepsOwners, CancelKeepsOwners
  <1>3. CASE RunFunctor \/ LoopStep \/ Destroy \/ Tick
    BY <1>3, RunFunctorKeepsOwners, QuietStepsKeepOwners, HandleReadKeepsOwners,
       ResetKeepsOwners, DestroyKeepsOwners DEF LoopStep
  <1>4. QED
    BY <1>1, <1>2, <1>3 DEF Next

\* A set of entries of one address, or of ids of one address, has at most one
\* member.
LEMMA OneOrNone ==
    ASSUME NEW S, \A x, y \in S : x = y
    PROVE  Cardinality(S) = IF S = {} THEN 0 ELSE 1
  <1>1. CASE S = {}
    BY <1>1, FS_EmptySet
  <1>2. CASE S # {}
    <2>1. PICK x : x \in S
      BY <1>2
    <2>2. S = {x}
      BY <2>1
    <2>3. QED
      BY <2>2, FS_Singleton
  <1>3. QED
    BY <1>1, <1>2

\* Every live Timer has exactly one owner that will delete it, and no owner has a
\* pointer to a Timer that is gone; timers_ and activeTimers_ hold the same
\* timers.  It does not depend on TimerIds being distinct.
THEOREM TimersOwnedOnce == Spec => []OwnedOnce
  <1>1. OwnInv => OwnedOnce
    <2> SUFFICES ASSUME OwnInv PROVE OwnedOnce
      OBVIOUS
    <2> DEFINE Waiting(a) == {e \in timers_ : e[2] = a}
               Running(a) == {e \in Batch : e[2] = a}
               Coming(a) == {id \in PendingAdds \cup Adding : id[1] = a}
    <2>0. TimerTypes /\ OwnersPointToTimers /\ OwnersAreDisjoint /\ TimersAreOwned /\ ActiveInv
      BY DEF OwnInv
    <2>1. /\ \A id \in PendingAdds :
                \E i \in DOMAIN pending : IsAdd(i) /\ id = pending[i].timer
          /\ \A i \in DOMAIN pending : IsAdd(i) => pending[i].timer \in PendingAdds
          /\ \A id \in Adding : \E t \in Threads : Builds(t) /\ id = adding[t].timer
          /\ \A t \in Threads : Builds(t) => adding[t].timer \in Adding
      BY DEF PendingAdds, Adding, IsAdd, Builds
    <2>2. ASSUME NEW a
          PROVE  /\ Cardinality(Waiting(a)) = IF Waiting(a) = {} THEN 0 ELSE 1
                 /\ Cardinality(Running(a)) = IF Running(a) = {} THEN 0 ELSE 1
                 /\ Cardinality(Coming(a)) = IF Coming(a) = {} THEN 0 ELSE 1
      <3>1. \A x, y \in Waiting(a) : x = y
        BY <2>0, EntryOfAddress
      <3>2. \A x, y \in Running(a) : x = y
        BY <2>0, EntryOfAddress
      <3>3. \A x \in Coming(a) : x \in TimerIds /\ x[1] = a /\ x[2] = heap[a].sequence_
        <4>1. ASSUME NEW i \in DOMAIN pending PROVE pending[i].timer \in TimerIds
          <5>1. pending \in Seq(TimerFunctors)
            BY <2>0 DEF TimerTypes
          <5>2. pending[i] \in TimerFunctors
            BY <5>1, ElementOfSeq, LenProperties
          <5>3. QED
            BY <5>2 DEF TimerFunctors
        <4>2. \A t \in Threads : Builds(t) => adding[t].timer \in TimerIds
          BY <2>0 DEF TimerTypes, Builds
        <4>3. QED
          BY <2>0, <2>1, <4>1, <4>2 DEF OwnersPointToTimers
      <3>4. \A x, y \in Coming(a) : x = y
        BY <3>3, IdIsPair
      <3> HIDE DEF Waiting, Running, Coming
      <3>5. QED
        BY <3>1, <3>2, <3>4, OneOrNone
    <2>3. ASSUME NEW a
          PROVE  /\ Waiting(a) = {} \/ Running(a) = {}
                 /\ Waiting(a) = {} \/ Coming(a) = {}
                 /\ Running(a) = {} \/ Coming(a) = {}
      <3>1. Waiting(a) = {} \/ Running(a) = {}
        <4>1. ASSUME NEW e \in Waiting(a), NEW f \in Running(a) PROVE FALSE
          <5>1. e = f
            BY <2>0, <4>1, EntryOfAddress
          <5>2. QED
            BY <2>0, <4>1, <5>1 DEF OwnersAreDisjoint
        <4>2. QED
          BY <4>1
      <3>2. ASSUME NEW e \in timers_ \cup Batch, NEW id \in PendingAdds \cup Adding, e[2] = id[1]
            PROVE  FALSE
        BY <2>0, <2>1, <3>2 DEF OwnersAreDisjoint
      <3>3. QED
        BY <3>1, <3>2
    <2>4. ASSUME NEW a \in DOMAIN heap
          PROVE  Waiting(a) # {} \/ Running(a) # {} \/ Coming(a) # {}
      <3>1. CASE \E e \in timers_ \cup Batch : e[2] = a
        BY <3>1
      <3>2. CASE \E i \in DOMAIN pending : IsAdd(i) /\ pending[i].timer[1] = a
        BY <2>1, <3>2
      <3>3. CASE \E t \in Threads : Builds(t) /\ adding[t].timer[1] = a
        BY <2>1, <3>3
      <3>4. QED
        BY <2>0, <3>1, <3>2, <3>3 DEF TimersAreOwned
    <2>5. ASSUME NEW a, a \notin DOMAIN heap
          PROVE  Waiting(a) = {} /\ Running(a) = {} /\ Coming(a) = {}
      BY <2>0, <2>1, <2>5 DEF OwnersPointToTimers
    <2> HIDE DEF Waiting, Running, Coming
    <2>6. \A a \in DOMAIN heap :
             Cardinality(Waiting(a)) + Cardinality(Running(a)) + Cardinality(Coming(a)) = 1
      BY <2>2, <2>3, <2>4
    <2>7. \A a \in Addrs \ DOMAIN heap :
             Cardinality(Waiting(a)) + Cardinality(Running(a)) + Cardinality(Coming(a)) = 0
      BY <2>2, <2>5
    <2>8. \A e \in timers_ : heap[e[2]].expiration_ = e[1]
      BY <2>0 DEF OwnersPointToTimers
    <2>9. QED
      BY <2>0, <2>6, <2>7, <2>8 DEF OwnedOnce, ActiveInv, Waiting, Running, Coming
  <1>2. QED
    BY <1>1, InitOwnInv, StepKeepsOwners, PTL DEF Spec

-----------------------------------------------------------------------------

\* An entry that is gone makes the earliest expiration no earlier.
LEMMA FewerEntriesLaterEarliest ==
    ASSUME NEW S \in SUBSET Entries, NEW T \in SUBSET S, T # {}
    PROVE  /\ Earliest(S)[1] \in Nat /\ Earliest(T)[1] \in Nat
           /\ Earliest(S)[1] <= Earliest(T)[1]
  <1>1. S # {} /\ T \in SUBSET Entries
    OBVIOUS
  <1>2. Earliest(S) \in S /\ \A f \in S : Earliest(S)[1] <= f[1]
    BY <1>1, EarliestIsFirst
  <1>3. Earliest(T) \in T
    BY <1>1, EarliestIsFirst
  <1>4. QED
    BY <1>2, <1>3, EntryIsPair

\* The timerfd is armed for at least a tick after now.
LEMMA ArmedForIsLater ==
    ASSUME clock \in Nat, NEW when \in Nat
    PROVE  /\ ArmedFor(when) \in Nat /\ ArmedFor(when) # Never
           /\ ArmedFor(when) = Max2(when, clock + 1)
  BY DEF ArmedFor, Max2, Never

\* addTimerInLoop() arms the timerfd when the new timer is the earliest one, and
\* need not otherwise.
LEMMA InsertArms ==
    ASSUME TimerTypes, NEW a \in Addrs, heap[a] \in TimerObjects,
           timers_ # {} => armed # Never /\ armed <= Max2(Earliest(timers_)[1], clock + 1),
           AddTimerInLoop(a)
    PROVE  armed' # Never /\ armed' <= Max2(Earliest(timers_')[1], clock + 1)
  <1> DEFINE when == heap[a].expiration_
  <1>1. clock \in Nat /\ armed \in Nat /\ when \in Nat /\ timers_ \in SUBSET Entries
    BY DEF TimerTypes, TimerObjects
  <1>2. /\ timers_' = timers_ \cup {<<when, a>>}
        /\ armed' = IF EarliestChanged(when) THEN ArmedFor(when) ELSE armed
    BY DEF AddTimerInLoop
  <1>3. <<when, a>> \in Entries /\ <<when, a>>[1] = when
    BY <1>1 DEF Entries
  <1> HIDE DEF when
  <1>4. timers_' \in SUBSET Entries /\ timers_' # {}
    BY <1>1, <1>2, <1>3
  <1>5. Earliest(timers_') \in timers_' /\ Earliest(timers_')[1] \in Nat
    BY <1>4, EarliestIsFirst, EntryIsPair
  <1>6. CASE EarliestChanged(when)
    <2>1. when <= Earliest(timers_')[1]
      <3>1. CASE Earliest(timers_') = <<when, a>>
        BY <1>1, <1>3, <3>1
      <3>2. CASE Earliest(timers_') \in timers_
        <4>1. timers_ # {} /\ when < Earliest(timers_)[1]
          BY <1>6, <3>2 DEF EarliestChanged
        <4>2. /\ Earliest(timers_) \in timers_
              /\ \A f \in timers_ : Earliest(timers_)[1] <= f[1]
          BY <1>1, <4>1, EarliestIsFirst
        <4>3. Earliest(timers_)[1] \in Nat
          BY <1>1, <4>2, EntryIsPair
        <4>4. Earliest(timers_)[1] <= Earliest(timers_')[1]
          BY <3>2, <4>2
        <4>5. QED
          BY <1>1, <1>5, <4>1, <4>3, <4>4
      <3>3. QED
        BY <1>2, <1>5, <3>1, <3>2
    <2>2. armed' = ArmedFor(when)
      BY <1>2, <1>6
    <2>3. QED
      BY <1>1, <1>5, <2>1, <2>2, ArmedForIsLater DEF Max2
  <1>7. CASE ~EarliestChanged(when)
    <2>1. timers_ # {} /\ ~(when < Earliest(timers_)[1]) /\ armed' = armed
      BY <1>2, <1>7 DEF EarliestChanged
    <2>2. /\ Earliest(timers_) \in timers_
          /\ \A f \in timers_ : Earliest(timers_)[1] <= f[1]
      BY <1>1, <2>1, EarliestIsFirst
    <2>3. Earliest(timers_)[1] \in Nat
      BY <1>1, <2>2, EntryIsPair
    <2>4. Earliest(timers_)[1] <= Earliest(timers_')[1]
      <3>1. CASE Earliest(timers_') = <<when, a>>
        BY <1>1, <1>3, <2>1, <2>3, <3>1
      <3>2. CASE Earliest(timers_') \in timers_
        BY <2>2, <3>2
      <3>3. QED
        BY <1>2, <1>5, <3>1, <3>2
    <2>5. QED
      BY <1>1, <1>5, <2>1, <2>3, <2>4 DEF Max2
  <1>8. QED
    BY <1>6, <1>7

\* A later expiration and a later clock have a later latest wakeup.
LEMMA Max2Monotonic ==
    ASSUME NEW e \in Nat, NEW f \in Nat, NEW c \in Nat, NEW d \in Nat, e <= f, d >= c
    PROVE  /\ Max2(e, c + 1) \in Nat /\ Max2(f, d + 1) \in Nat
           /\ Max2(e, c + 1) <= Max2(f, d + 1)
  BY DEF Max2

\* Cancels and the passing of time do not make the timerfd late.
LEMMA ArmedStaysArmed ==
    ASSUME TimerTypes, TimerTypes', TimerfdArmed, pc = "idle",
           timers_' \subseteq timers_, armed' = armed, clock' >= clock
    PROVE  TimerfdArmed'
  <1> SUFFICES ASSUME timers_' # {}
               PROVE  armed' # Never /\ armed' <= Max2(Earliest(timers_')[1], clock' + 1)
    BY DEF TimerfdArmed, Never
  <1>1. timers_ \in SUBSET Entries /\ clock \in Nat /\ clock' \in Nat /\ armed \in Nat
    BY DEF TimerTypes
  <1>2. /\ Earliest(timers_)[1] \in Nat /\ Earliest(timers_')[1] \in Nat
        /\ Earliest(timers_)[1] <= Earliest(timers_')[1]
    BY <1>1, FewerEntriesLaterEarliest
  <1>3. armed # Never /\ armed <= Max2(Earliest(timers_)[1], clock + 1)
    BY DEF TimerfdArmed
  <1>4. Max2(Earliest(timers_)[1], clock + 1) <= Max2(Earliest(timers_')[1], clock' + 1)
    BY <1>1, <1>2, Max2Monotonic
  <1>5. /\ Max2(Earliest(timers_)[1], clock + 1) \in Nat
        /\ Max2(Earliest(timers_')[1], clock' + 1) \in Nat
    BY <1>1, <1>2, Max2Monotonic
  <1>6. armed <= Max2(Earliest(timers_')[1], clock' + 1)
    BY <1>1, <1>3, <1>4, <1>5
  <1>7. QED
    BY <1>3, <1>6 DEF Never

\* cancelInLoop() leaves the timerfd alone.
LEMMA CancelInLoopRemoves ==
    ASSUME NEW id, CancelInLoop(id)
    PROVE  timers_' \subseteq timers_
  BY DEF CancelInLoop

\* As long as a timer waits and the loop is idle, the timerfd is armed in time:
\* by the insertion of the earliest timer, or by reset() after a batch.
THEOREM TimerfdAlwaysArmed == Spec => []TimerfdArmed
  <1>1. Init => TimerfdArmed
    BY DEF Init, TimerfdArmed
  <1>2. ASSUME OwnInv, OwnInv', TimerfdArmed, [Next]_vars PROVE TimerfdArmed'
    <2>0. TimerTypes /\ TimerTypes' /\ clock \in Nat /\ clock' \in Nat
      BY <1>2 DEF OwnInv, TimerTypes
    <2>1. CASE pc' # "idle"
      BY <2>1 DEF TimerfdArmed
    <2>2. ASSUME pc = "idle", timers_' \subseteq timers_, armed' = armed, clock' >= clock
          PROVE  TimerfdArmed'
      BY <1>2, <2>0, <2>2, ArmedStaysArmed
    <2>3. ASSUME NEW a, a \in DOMAIN heap, AddTimerInLoop(a), clock' = clock, pc = "idle"
          PROVE  TimerfdArmed'
      <3>1. a \in Addrs /\ heap[a] \in TimerObjects
        BY <2>0, <2>3 DEF TimerTypes
      <3>2. timers_ # {} => armed # Never /\ armed <= Max2(Earliest(timers_)[1], clock + 1)
        BY <1>2, <2>3 DEF TimerfdArmed
      <3>3. armed' # Never /\ armed' <= Max2(Earliest(timers_')[1], clock + 1)
        BY <2>0, <2>3, <3>1, <3>2, InsertArms
      <3>4. QED
        BY <2>3, <3>3 DEF TimerfdArmed, Never
    <2>4. CASE UNCHANGED vars
      BY <2>0, <2>1, <2>2, <2>4 DEF vars, timerVars, handleVars
    <2>5. ASSUME NEW t \in Threads, AddTimerLoad(t) PROVE TimerfdArmed'
      BY <2>0, <2>1, <2>2, <2>5 DEF AddTimerLoad, timerVars, handleVars
    <2>6. ASSUME NEW t \in Threads, AddTimerStore(t) PROVE TimerfdArmed'
      <3>1. Builds(t) /\ pc' = pc /\ clock' = clock
        BY <2>6 DEF AddTimerStore, handleVars, Builds
      <3>2. adding[t].timer[1] \in DOMAIN heap
        BY <1>2, <3>1 DEF OwnInv, OwnersPointToTimers
      <3>3. CASE t = Loop
        <4>1. AddTimerInLoop(adding[t].timer[1])
          BY <2>6, <3>3 DEF AddTimerStore
        <4>2. QED
          BY <2>1, <2>3, <3>1, <3>2, <4>1
      <3>4. CASE t # Loop
        BY <2>0, <2>1, <2>2, <2>6, <3>1, <3>4 DEF AddTimerStore, timerVars
      <3>5. QED
        BY <3>3, <3>4
    <2>7. ASSUME NEW t \in Threads, Cancel(t) PROVE TimerfdArmed'
      <3>1. pc' = pc /\ clock' = clock /\ armed' = armed
        BY <2>7 DEF Cancel
      <3>2. timers_' \subseteq timers_
        BY <2>7, CancelInLoopRemoves DEF Cancel, timerVars
      <3>3. QED
        BY <2>0, <2>1, <2>2, <3>1, <3>2
    <2>8. CASE RunFunctor
      <3>1. pc = "idle" /\ clock' = clock /\ pending # <<>>
        BY <2>8 DEF RunFunctor
      <3>2. CASE Head(pending).op = "add" /\ AddTimerInLoop(Head(pending).timer[1])
        <4>1. pending \in Seq(TimerFunctors)
          BY <2>0 DEF TimerTypes
        <4>2. 1 \in DOMAIN pending /\ pending[1] = Head(pending)
          BY <3>1, <4>1
        <4>3. Head(pending).timer[1] \in DOMAIN heap
          BY <1>2, <3>2, <4>2 DEF OwnInv, OwnersPointToTimers, IsAdd
        <4>4. QED
          BY <2>3, <3>1, <3>2, <4>3
      <3>3. CASE CancelInLoop(Head(pending).timer) /\ UNCHANGED armed
        BY <2>0, <2>2, <3>1, <3>3, CancelInLoopRemoves
      <3>4. QED
        BY <2>8, <3>2, <3>3 DEF RunFunctor
    <2>9. CASE Reset
      <3>1. timers_' # {} => armed' = ArmedFor(Earliest(timers_')[1])
        BY <2>9 DEF Reset, ResetArms
      <3>2. clock' = clock
        BY <2>9 DEF Reset
      <3>3. SUFFICES ASSUME timers_' # {}
                     PROVE  armed' # Never /\ armed' <= Max2(Earliest(timers_')[1], clock' + 1)
        BY DEF TimerfdArmed, Never
      <3>4. timers_' \in SUBSET Entries
        BY <2>0 DEF TimerTypes
      <3>5. Earliest(timers_')[1] \in Nat
        BY <3>3, <3>4, EarliestIsFirst, EntryIsPair
      <3>6. /\ ArmedFor(Earliest(timers_')[1]) \in Nat /\ ArmedFor(Earliest(timers_')[1]) # Never
            /\ ArmedFor(Earliest(timers_')[1]) = Max2(Earliest(timers_')[1], clock + 1)
        BY <2>0, <3>5, ArmedForIsLater
      <3>7. QED
        BY <3>1, <3>2, <3>3, <3>6
    <2>10. CASE PollReturns \/ HandleRead \/ RunTimer \/ CallbackReturns \/ Destroy
      BY <2>1, <2>10 DEF PollReturns, HandleRead, RunTimer, CallbackReturns, Destroy
    <2>11. CASE Tick
      BY <2>0, <2>1, <2>2, <2>11 DEF Tick, timerVars, handleVars
    <2>12. QED
      BY <1>2, <2>4, <2>5, <2>6, <2>7, <2>8, <2>9, <2>10, <2>11 DEF Next, LoopStep
  <1>3. QED
    BY <1>1, <1>2, InitOwnInv, StepKeepsOwners, PTL DEF Spec

-----------------------------------------------------------------------------

\* The TimerIds that exist are at most as many as the Timers built, and only
\* those that addTimer() returned are cancelled or queued.
CountInv ==
    /\ IsFiniteSet(ids \cup Adding) /\ Cardinality(ids \cup Adding) <= created
    /\ cancelled \subseteq ids
    /\ \A i \in DOMAIN pending : pending[i].timer \in ids

\* A TimerId that addTimer() returned is accounted for; a timer of the batch that
\* has run and does not repeat is finished; what reset() does not put back because
\* of a cancel() was cancelled.
FateInv ==
    /\ pc # "gone" =>
          \A id \in ids : \/ id \in activeTimers_ \cup PendingAdds \cup finished \cup cancelled
                          \/ \E e \in Batch : IdOf(e) = id
    /\ \A e \in Batch \ toRun : heap[e[2]].interval_ = 0 => IdOf(e) \in finished
    /\ callingExpiredTimers_ => cancelingTimers_ \subseteq cancelled \cup PendingAdds

\* As long as TimerIds are distinct, a cancelled one is of no timer that waits or
\* will, and reset() knows those of the batch.
FreshInv ==
    TimerIdsDistinct =>
        /\ ids \cap Adding = {}
        /\ cancelled \cap (activeTimers_ \cup PendingAdds) = {}
        /\ \A e \in Batch : IdOf(e) \in cancelled => IdOf(e) \in cancelingTimers_

\* The inductive invariant behind CancelIsExact, with OwnInv.
CancelInv == CountInv /\ FateInv /\ FreshInv

\* What the two sets of timers on their way hold.
LEMMA OnTheirWay ==
    /\ \A id : id \in PendingAdds <=> \E i \in DOMAIN pending : IsAdd(i) /\ id = pending[i].timer
    /\ \A id : id \in Adding <=> \E t \in Threads : Builds(t) /\ id = adding[t].timer
  BY DEF PendingAdds, Adding, IsAdd, Builds

\* The same as long as the queue, or the constructors, are left alone.
LEMMA SameOnTheirWay ==
    /\ UNCHANGED pending => UNCHANGED PendingAdds
    /\ UNCHANGED adding => UNCHANGED Adding
  BY DEF PendingAdds, Adding

\* A functor that is queued.
LEMMA AppendToPending ==
    ASSUME TimerTypes, NEW f \in TimerFunctors, pending' = Append(pending, f)
    PROVE  /\ \A i \in DOMAIN pending' : pending'[i] = f \/ (i \in DOMAIN pending /\ pending'[i] = pending[i])
           /\ f.op = "add" => PendingAdds' = PendingAdds \cup {f.timer}
           /\ f.op # "add" => PendingAdds' = PendingAdds
  <1>0. PICK n \in Nat : n = Len(pending)
    BY LenProperties DEF TimerTypes
  <1>1. /\ pending' \in Seq(TimerFunctors) /\ Len(pending') = n + 1
        /\ \A i \in 1 .. n : pending'[i] = pending[i]
        /\ pending'[n + 1] = f
    BY <1>0, AppendProperties DEF TimerTypes
  <1>2. DOMAIN pending = 1 .. n /\ DOMAIN pending' = 1 .. n + 1
    BY <1>0, <1>1, LenProperties DEF TimerTypes
  <1>3. n + 1 \in 1 .. n + 1 /\ \A i \in 1 .. n : i \in 1 .. n + 1
    OBVIOUS
  <1>4. \A i \in 1 .. n + 1 : i = n + 1 \/ i \in 1 .. n
    OBVIOUS
  <1>5. /\ \A i \in DOMAIN pending' : pending'[i] = f \/ (i \in DOMAIN pending /\ pending'[i] = pending[i])
        /\ \A i \in DOMAIN pending : i \in DOMAIN pending' /\ pending'[i] = pending[i]
        /\ n + 1 \in DOMAIN pending'
    <2>1. n + 1 \in DOMAIN pending'
      BY <1>2, <1>3
    <2>2. ASSUME NEW i \in DOMAIN pending PROVE i \in DOMAIN pending' /\ pending'[i] = pending[i]
      <3>1. i \in 1 .. n
        BY <1>2
      <3>2. QED
        BY <1>1, <1>2, <1>3, <3>1
    <2>3. ASSUME NEW i \in DOMAIN pending'
          PROVE  pending'[i] = f \/ (i \in DOMAIN pending /\ pending'[i] = pending[i])
      <3>1. i = n + 1 \/ i \in 1 .. n
        BY <1>2, <1>4
      <3>2. QED
        BY <1>1, <1>2, <3>1
    <2>4. QED
      BY <2>1, <2>2, <2>3
  <1>6. /\ \A id : id \in PendingAdds' <=>
              \E i \in DOMAIN pending' : pending'[i].op = "add" /\ id = pending'[i].timer
        /\ \A id : id \in PendingAdds <=>
              \E i \in DOMAIN pending : pending[i].op = "add" /\ id = pending[i].timer
    BY DEF PendingAdds
  <1>7. CASE f.op = "add"
    <2>1. ASSUME NEW id PROVE id \in PendingAdds' <=> id \in PendingAdds \/ id = f.timer
      BY <1>1, <1>5, <1>6, <1>7
    <2>2. QED
      BY <1>5, <1>7, <2>1
  <1>8. CASE f.op # "add"
    <2>1. ASSUME NEW id PROVE id \in PendingAdds' <=> id \in PendingAdds
      BY <1>5, <1>6, <1>8
    <2>2. QED
      BY <1>5, <1>8, <2>1
  <1>9. QED
    BY <1>7, <1>8

\* A functor that is run.
LEMMA TailOfPendingAdds ==
    ASSUME TimerTypes, pending # <<>>, pending' = Tail(pending)
    PROVE  /\ \A i \in DOMAIN pending' : \E j \in DOMAIN pending : pending'[i] = pending[j]
           /\ PendingAdds' \subseteq PendingAdds
           /\ Head(pending) \in TimerFunctors
           /\ Head(pending).op = "add" => /\ PendingAdds = PendingAdds' \cup {Head(pending).timer}
                                          /\ IsAdd(1) /\ pending[1] = Head(pending) /\ 1 \in DOMAIN pending
           /\ Head(pending).op # "add" => PendingAdds' = PendingAdds
           /\ \E j \in DOMAIN pending : pending[j] = Head(pending)
  <1>1. /\ Head(pending) = pending[1] /\ pending[1] \in TimerFunctors /\ 1 \in DOMAIN pending
        /\ \A i \in DOMAIN pending' : i + 1 \in DOMAIN pending /\ pending[i + 1] = pending'[i]
        /\ \A i \in DOMAIN pending \ {1} : i - 1 \in DOMAIN pending' /\ pending'[i - 1] = pending[i]
    BY TailOfPending DEF TimerTypes
  <1>2. /\ \A i \in DOMAIN pending' : \E j \in DOMAIN pending : pending'[i] = pending[j]
        /\ \A j \in DOMAIN pending : j # 1 => \E i \in DOMAIN pending' : pending'[i] = pending[j]
    BY <1>1
  <1>3. /\ \A id : id \in PendingAdds' <=>
              \E i \in DOMAIN pending' : pending'[i].op = "add" /\ id = pending'[i].timer
        /\ \A id : id \in PendingAdds <=>
              \E i \in DOMAIN pending : pending[i].op = "add" /\ id = pending[i].timer
    BY DEF PendingAdds
  <1>4. PendingAdds' \subseteq PendingAdds
    BY <1>2, <1>3
  <1>5. CASE Head(pending).op = "add"
    <2>1. ASSUME NEW id PROVE id \in PendingAdds <=> id \in PendingAdds' \/ id = Head(pending).timer
      BY <1>1, <1>2, <1>3, <1>5
    <2>2. PendingAdds = PendingAdds' \cup {Head(pending).timer}
      BY <2>1
    <2>3. QED
      BY <1>1, <1>2, <1>4, <1>5, <2>2 DEF IsAdd
  <1>6. CASE Head(pending).op # "add"
    <2>1. ASSUME NEW id PROVE id \in PendingAdds <=> id \in PendingAdds'
      BY <1>1, <1>2, <1>3, <1>6
    <2>2. QED
      BY <1>1, <1>2, <1>4, <1>6, <2>1
  <1>7. QED
    BY <1>5, <1>6

\* The number of TimerIds is what it was.
LEMMA SameTimerIds ==
    ASSUME CountInv, ids' \cup Adding' = ids \cup Adding, created' = created
    PROVE  /\ IsFiniteSet(ids' \cup Adding') /\ Cardinality(ids' \cup Adding') <= created'
           /\ TimerIdsDistinct' <=> TimerIdsDistinct
  BY DEF CountInv, TimerIdsDistinct

\* A step that leaves the batch and its Timers alone loses no TimerId.
LEMMA FateKept ==
    ASSUME FateInv, pc' # "gone" => pc # "gone",
           UNCHANGED <<Batch, toRun, callingExpiredTimers_>>,
           \A e \in Batch : heap'[e[2]] = heap[e[2]],
           ids' \subseteq ids \cup activeTimers_' \cup PendingAdds',
           activeTimers_ \cup PendingAdds \cup cancelled
               \subseteq activeTimers_' \cup PendingAdds' \cup cancelled',
           finished' = finished,
           callingExpiredTimers_ => cancelingTimers_' \subseteq cancelled' \cup PendingAdds'
    PROVE  FateInv'
  <1>1. \A e \in Batch : IdOf(e)' = IdOf(e)
    BY DEF IdOf
  <1>2. ASSUME pc' # "gone", NEW id \in ids'
        PROVE  \/ id \in activeTimers_' \cup PendingAdds' \cup finished' \cup cancelled'
               \/ \E e \in Batch' : IdOf(e)' = id
    BY <1>1, <1>2 DEF FateInv
  <1>3. \A e \in Batch' \ toRun' : heap'[e[2]].interval_ = 0 => IdOf(e)' \in finished'
    BY <1>1 DEF FateInv
  <1>4. QED
    BY <1>2, <1>3 DEF FateInv

\* Neither does it make a cancelled timer come back.
LEMMA FreshKept ==
    ASSUME FreshInv, UNCHANGED Batch, \A e \in Batch : heap'[e[2]] = heap[e[2]],
           TimerIdsDistinct' => TimerIdsDistinct,
           TimerIdsDistinct' => ids' \cap Adding' = {},
           TimerIdsDistinct' => cancelled' \cap (activeTimers_' \cup PendingAdds') = {},
           \A e \in Batch : IdOf(e) \in cancelled' => IdOf(e) \in cancelled \cup cancelingTimers_',
           cancelingTimers_ \subseteq cancelingTimers_'
    PROVE  FreshInv'
  <1>1. \A e \in Batch : IdOf(e)' = IdOf(e)
    BY DEF IdOf
  <1>2. QED
    BY <1>1 DEF FreshInv

\* Time, the return of poll(), the calls of the callbacks and their returns.
LEMMA QuietStepsKeepIds ==
    ASSUME OwnInv, CancelInv, Tick \/ PollReturns \/ RunTimer \/ CallbackReturns \/ UNCHANGED vars
    PROVE  CancelInv'
  <1>0. CountInv /\ FateInv /\ FreshInv
    BY DEF CancelInv
  <1>1. /\ UNCHANGED <<heap, activeTimers_, cancelingTimers_, callingExpiredTimers_, expired_,
                       pending, adding, ids, created, cancelled>>
        /\ pc' # "gone" => pc # "gone"
    BY DEF Tick, PollReturns, RunTimer, CallbackReturns, createVars, timerVars, handleVars, vars
  <1>2. UNCHANGED <<PendingAdds, Adding, Batch>>
    BY <1>1, SameOnTheirWay DEF Batch
  <1>3. CountInv' /\ FreshInv'
    <2>1. \A e : IdOf(e)' = IdOf(e)
      BY <1>1 DEF IdOf
    <2>2. QED
      BY <1>0, <1>1, <1>2, <2>1 DEF CountInv, FreshInv, TimerIdsDistinct
  <1>4. FateInv'
    <2>1. CASE Tick \/ PollReturns \/ CallbackReturns \/ UNCHANGED vars
      <3>1. UNCHANGED <<toRun, finished>>
        BY <2>1 DEF Tick, PollReturns, CallbackReturns, handleVars, vars
      <3>2. callingExpiredTimers_ => cancelingTimers_' \subseteq cancelled' \cup PendingAdds'
        BY <1>0, <1>1, <1>2 DEF FateInv
      <3>3. QED
        BY <1>0, <1>1, <1>2, <3>1, <3>2, FateKept
    <2>2. CASE RunTimer
      <3>1. PICK e \in toRun : /\ toRun' = toRun \ {e}
                               /\ finished' = IF heap[e[2]].interval_ = 0
                                              THEN finished \cup {IdOf(e)} ELSE finished
        BY <2>2 DEF RunTimer
      <3>2. \A f : IdOf(f)' = IdOf(f)
        BY <1>1 DEF IdOf
      <3>3. finished \subseteq finished'
        BY <3>1
      <3>4. \A f \in Batch \ toRun' : heap[f[2]].interval_ = 0 => IdOf(f) \in finished'
        BY <1>0, <3>1 DEF FateInv
      <3>5. QED
        BY <1>0, <1>1, <1>2, <3>2, <3>3, <3>4 DEF FateInv
    <2>3. QED
      BY <2>1, <2>2
  <1>5. QED
    BY <1>3, <1>4 DEF CancelInv

\* new Timer: two timers get the same TimerId only if there are fewer TimerIds
\* than timers from then on.
LEMMA AddTimerLoadKeepsIds ==
    ASSUME OwnInv, CancelInv, NEW t \in Threads, AddTimerLoad(t)
    PROVE  CancelInv'
  <1>0. CountInv /\ FateInv /\ FreshInv /\ TimerTypes /\ OwnersPointToTimers
    BY DEF CancelInv, OwnInv
  <1>1. PICK a \in Addrs \ DOMAIN heap, r \in RunAt \cup RunAfter \cup RunEvery :
          /\ heap' = [b \in DOMAIN heap \cup {a} |->
                        IF b = a
                        THEN [sequence_ |-> rep_ + 1, expiration_ |-> r.when, interval_ |-> r.interval]
                        ELSE heap[b]]
          /\ adding' = [adding EXCEPT ![t] = [timer |-> <<a, rep_ + 1>>]]
    BY DEF AddTimerLoad
  <1>2. /\ UNCHANGED <<activeTimers_, pending, expired_, callingExpiredTimers_, toRun,
                       cancelingTimers_, pc, ids, cancelled, finished>>
        /\ created' = created + 1
        /\ adding[t] = Nobody
    BY DEF AddTimerLoad, InUserCode, timerVars, handleVars
  <1>3. PICK id : id = <<a, rep_ + 1>>
    OBVIOUS
  <1>4. id \in TimerIds
    BY <1>0, <1>3 DEF TimerTypes, TimerIds
  <1>5. /\ adding'[t] = [timer |-> id]
        /\ \A u \in Threads \ {t} : adding'[u] = adding[u]
    BY <1>0, <1>1, <1>3 DEF TimerTypes
  <1>6. Adding' = Adding \cup {id}
    <2>1. /\ adding'[t] # Nobody /\ adding'[t].timer = id
      BY <1>4, <1>5, SomeTimer
    <2>2. \A x : x \in Adding' <=> \E u \in Threads : adding'[u] # Nobody /\ x = adding'[u].timer
      BY DEF Adding
    <2>3. \A x : x \in Adding <=> \E u \in Threads : adding[u] # Nobody /\ x = adding[u].timer
      BY DEF Adding
    <2>4. ASSUME NEW x PROVE x \in Adding' <=> x \in Adding \/ x = id
      BY <1>2, <1>5, <2>1, <2>2, <2>3
    <2>5. QED
      BY <2>4
  <1>7. UNCHANGED <<PendingAdds, Batch>>
    BY <1>2, SameOnTheirWay DEF Batch
  <1>8. \A e \in Batch : heap'[e[2]] = heap[e[2]]
    BY <1>0, <1>1 DEF OwnersPointToTimers
  <1>9. PICK S : S = ids \cup Adding
    OBVIOUS
  <1>10. ids' \cup Adding' = S \cup {id}
    BY <1>2, <1>6, <1>9
  <1>11. IsFiniteSet(S) /\ Cardinality(S) \in Nat /\ Cardinality(S) <= created
    BY <1>0, <1>9, FS_CardinalityType DEF CountInv
  <1>12. /\ IsFiniteSet(S \cup {id})
         /\ id \in S => Cardinality(S \cup {id}) = Cardinality(S)
         /\ id \notin S => Cardinality(S \cup {id}) = Cardinality(S) + 1
    BY <1>11, FS_AddElement
  <1>13. CountInv'
    <2>1. Cardinality(S \cup {id}) <= created + 1
      BY <1>0, <1>11, <1>12 DEF TimerTypes
    <2>2. QED
      BY <1>0, <1>2, <1>10, <1>12, <2>1 DEF CountInv
  <1>14. TimerIdsDistinct' => TimerIdsDistinct /\ id \notin S
    <2>1. TimerIdsDistinct' => Cardinality(S \cup {id}) = created + 1
      BY <1>2, <1>10 DEF TimerIdsDistinct
    <2>2. TimerIdsDistinct' => id \notin S /\ Cardinality(S) = created
      BY <1>0, <1>11, <1>12, <2>1 DEF TimerTypes
    <2>3. QED
      BY <1>9, <2>2 DEF TimerIdsDistinct
  <1>15. FateInv'
    <2>1. callingExpiredTimers_ => cancelingTimers_' \subseteq cancelled' \cup PendingAdds'
      BY <1>0, <1>2, <1>7 DEF FateInv
    <2>2. QED
      BY <1>0, <1>2, <1>7, <1>8, <2>1, FateKept
  <1>16. FreshInv'
    <2>1. /\ TimerIdsDistinct' => ids' \cap Adding' = {}
          /\ TimerIdsDistinct' => cancelled' \cap (activeTimers_' \cup PendingAdds') = {}
      BY <1>0, <1>2, <1>6, <1>7, <1>9, <1>14 DEF FreshInv
    <2>2. QED
      BY <1>0, <1>2, <1>7, <1>8, <1>14, <2>1, FreshKept
  <1>17. QED
    BY <1>13, <1>15, <1>16 DEF CancelInv

\* The TimerId that addTimer() returns goes from the constructor to activeTimers_
\* or to the queue.
LEMMA AddTimerStoreKeepsIds ==
    ASSUME OwnInv, CancelInv, NEW t \in Threads, AddTimerStore(t)
    PROVE  CancelInv'
  <1>0. CountInv /\ FateInv /\ FreshInv /\ TimerTypes /\ OwnersPointToTimers /\ OwnersAreDisjoint
    BY DEF CancelInv, OwnInv
  <1>1. PICK id : id = adding[t].timer
    OBVIOUS
  <1>2. /\ Builds(t)
        /\ adding' = [adding EXCEPT ![t] = Nobody]
        /\ ids' = ids \cup {id}
        /\ UNCHANGED <<heap, created, cancelingTimers_, callingExpiredTimers_, expired_,
                       toRun, pc, cancelled, finished>>
    BY <1>1 DEF AddTimerStore, Builds, handleVars
  <1>3. id \in TimerIds /\ id[1] \in DOMAIN heap /\ id[2] = heap[id[1]].sequence_
    BY <1>0, <1>1, <1>2 DEF TimerTypes, Builds, OwnersPointToTimers
  <1>4. id \in Adding /\ Adding' = Adding \ {id}
    <2>1. adding'[t] = Nobody /\ \A u \in Threads \ {t} : adding'[u] = adding[u]
      BY <1>0, <1>2 DEF TimerTypes
    <2>2. /\ \A x : x \in Adding' <=> \E u \in Threads : adding'[u] # Nobody /\ x = adding'[u].timer
          /\ \A x : x \in Adding <=> \E u \in Threads : adding[u] # Nobody /\ x = adding[u].timer
      BY DEF Adding
    <2>3. \A u \in Threads : adding[u] # Nobody /\ adding[u].timer = id => u = t
      BY <1>0, <1>1, <1>2 DEF OwnersAreDisjoint, Builds
    <2>4. id \in Adding
      BY <1>1, <1>2, <2>2 DEF Builds
    <2>5. ASSUME NEW x PROVE x \in Adding' <=> x \in Adding /\ x # id
      BY <1>1, <2>1, <2>2, <2>3
    <2>6. QED
      BY <2>4, <2>5
  <1>5. Batch' = Batch /\ \A e \in Batch : heap'[e[2]] = heap[e[2]]
    BY <1>2 DEF Batch
  <1>6. ids' \cup Adding' = ids \cup Adding
    BY <1>2, <1>4
  <1>7. /\ IsFiniteSet(ids' \cup Adding') /\ Cardinality(ids' \cup Adding') <= created'
        /\ TimerIdsDistinct' <=> TimerIdsDistinct
    BY <1>0, <1>2, <1>6, SameTimerIds
  <1>8. /\ activeTimers_' \cup PendingAdds' = activeTimers_ \cup PendingAdds \cup {id}
        /\ PendingAdds \subseteq PendingAdds'
        /\ \A i \in DOMAIN pending' : pending'[i].timer \in ids'
    <2>1. CASE t = Loop
      <3>1. AddTimerInLoop(id[1]) /\ UNCHANGED pending
        BY <1>1, <2>1 DEF AddTimerStore
      <3>2. activeTimers_' = activeTimers_ \cup {id}
        BY <1>3, <3>1, IdIsPair DEF AddTimerInLoop
      <3>3. UNCHANGED PendingAdds
        BY <3>1, SameOnTheirWay
      <3>4. QED
        BY <1>0, <1>2, <3>1, <3>2, <3>3 DEF CountInv
    <2>2. CASE t # Loop
      <3>1. PICK f : f = [op |-> "add", timer |-> id]
        OBVIOUS
      <3>2. f \in TimerFunctors /\ f.op = "add" /\ f.timer = id
        BY <1>3, <3>1 DEF TimerFunctors
      <3>3. pending' = Append(pending, f) /\ UNCHANGED activeTimers_
        BY <1>1, <2>2, <3>1 DEF AddTimerStore, timerVars
      <3>4. /\ PendingAdds' = PendingAdds \cup {id}
            /\ \A i \in DOMAIN pending' : pending'[i] = f \/ (i \in DOMAIN pending /\ pending'[i] = pending[i])
        BY <1>0, <3>2, <3>3, AppendToPending
      <3>5. \A i \in DOMAIN pending' : pending'[i].timer \in ids'
        BY <1>0, <1>2, <3>2, <3>4 DEF CountInv
      <3>6. QED
        BY <3>3, <3>4, <3>5
    <2>3. QED
      BY <2>1, <2>2
  <1>9. CountInv'
    BY <1>0, <1>2, <1>7, <1>8 DEF CountInv
  <1>10. FateInv'
    <2>1. callingExpiredTimers_ => cancelingTimers_' \subseteq cancelled' \cup PendingAdds'
      BY <1>0, <1>2, <1>8 DEF FateInv
    <2>2. /\ ids' \subseteq ids \cup activeTimers_' \cup PendingAdds'
          /\ activeTimers_ \cup PendingAdds \cup cancelled
                 \subseteq activeTimers_' \cup PendingAdds' \cup cancelled'
      BY <1>2, <1>8
    <2>3. QED
      BY <1>0, <1>2, <1>5, <2>1, <2>2, FateKept
  <1>11. FreshInv'
    <2>1. TimerIdsDistinct' => id \notin ids /\ ids \cap Adding = {}
      BY <1>0, <1>4, <1>7 DEF FreshInv
    <2>2. TimerIdsDistinct' => ids' \cap Adding' = {}
      BY <1>2, <1>4, <2>1
    <2>3. TimerIdsDistinct' => cancelled' \cap (activeTimers_' \cup PendingAdds') = {}
      BY <1>0, <1>2, <1>7, <1>8, <2>1 DEF FreshInv, CountInv
    <2>4. QED
      BY <1>0, <1>2, <1>5, <1>7, <2>2, <2>3, FreshKept
  <1>12. QED
    BY <1>9, <1>10, <1>11 DEF CancelInv

\* cancelInLoop(): what it takes away is cancelled, and a timer of the batch is
\* remembered for reset().
LEMMA CancelInLoopKeepsIds ==
    ASSUME OwnInv, CancelInv, NEW id \in ids, CancelInLoop(id),
           UNCHANGED <<PendingAdds, Adding, Batch, ids, created, callingExpiredTimers_, toRun, pc,
                       finished>>,
           \A i \in DOMAIN pending' : pending'[i].timer \in ids
    PROVE  CancelInv'
  <1>0. CountInv /\ FateInv /\ FreshInv /\ TimerTypes /\ OwnersPointToTimers /\ OwnersAreDisjoint
        /\ ActiveInv
    BY DEF CancelInv, OwnInv
  <1>1. id \in TimerIds /\ id = <<id[1], id[2]>>
    BY <1>0, IdIsPair DEF TimerTypes
  <1>2. /\ AddPending(id) => cancelled' = cancelled /\ id \in PendingAdds
        /\ ~AddPending(id) => cancelled' = cancelled \cup {id} /\ id \notin PendingAdds
    <2>1. id \in PendingAdds <=> \E i \in DOMAIN pending : pending[i].op = "add" /\ pending[i].timer = id
      BY DEF PendingAdds
    <2>2. \A i \in DOMAIN pending : pending[i] \in TimerFunctors
      BY <1>0, ElementOfSeq, LenProperties DEF TimerTypes
    <2>3. \A i \in DOMAIN pending :
             pending[i] = [op |-> "add", timer |-> id] <=> pending[i].op = "add" /\ pending[i].timer = id
      BY <2>2 DEF TimerFunctors
    <2>4. AddPending(id) <=> id \in PendingAdds
      BY <2>1, <2>3 DEF AddPending
    <2>5. QED
      BY <2>4 DEF CancelInLoop
  <1>3. activeTimers_' = activeTimers_ \ {id}
    BY DEF CancelInLoop, Found
  <1>4. \A e \in Batch : heap'[e[2]] = heap[e[2]]
    <2>1. PICK D \in SUBSET {id[1]} : Deletes(D)
      BY <1>1, CancelInLoopDeletes
    <2>2. \A e \in timers_' \cup Batch' : e[2] \in DOMAIN heap'
      BY <2>1, DeletesOnlyOwn
    <2>3. QED
      BY <2>1, <2>2 DEF Deletes
  <1>5. \A e \in Batch : IdOf(e) \notin activeTimers_ \cup PendingAdds
    <2>1. ASSUME NEW e \in Batch, IdOf(e) \in activeTimers_ PROVE FALSE
      <3>1. PICK f \in timers_ : IdOf(f) = IdOf(e)
        BY <1>0, <2>1 DEF ActiveInv
      <3>2. f[2] = e[2]
        BY <3>1 DEF IdOf
      <3>3. f = e
        BY <1>0, <3>2, EntryOfAddress
      <3>4. QED
        BY <1>0, <3>3 DEF OwnersAreDisjoint
    <2>2. ASSUME NEW e \in Batch, IdOf(e) \in PendingAdds PROVE FALSE
      <3>1. PICK i \in DOMAIN pending : IsAdd(i) /\ pending[i].timer = IdOf(e)
        BY <2>2, OnTheirWay
      <3>2. IdOf(e)[1] = e[2]
        BY DEF IdOf
      <3>3. QED
        BY <1>0, <3>1, <3>2 DEF OwnersAreDisjoint
    <2>3. QED
      BY <2>1, <2>2
  <1>6. /\ cancelingTimers_ \subseteq cancelingTimers_'
        /\ cancelingTimers_' \subseteq cancelingTimers_ \cup {id}
        /\ \A e \in Batch : IdOf(e) = id => id \in cancelingTimers_'
    <2>1. \A e \in Batch : callingExpiredTimers_
      BY DEF Batch
    <2>2. \A e \in Batch : IdOf(e) = id => Found(id) = {}
      BY <1>5 DEF Found
    <2>3. QED
      BY <2>1, <2>2 DEF CancelInLoop
  <1>7. /\ IsFiniteSet(ids' \cup Adding') /\ Cardinality(ids' \cup Adding') <= created'
        /\ TimerIdsDistinct' <=> TimerIdsDistinct
    BY <1>0, SameTimerIds
  <1>8. CountInv'
    BY <1>0, <1>2, <1>7 DEF CountInv
  <1>9. FateInv'
    <2>1. callingExpiredTimers_ => cancelingTimers_' \subseteq cancelled' \cup PendingAdds'
      BY <1>0, <1>2, <1>6 DEF FateInv
    <2>2. activeTimers_ \cup PendingAdds \cup cancelled
              \subseteq activeTimers_' \cup PendingAdds' \cup cancelled'
      BY <1>2, <1>3
    <2>3. QED
      BY <1>0, <1>4, <2>1, <2>2, FateKept
  <1>10. FreshInv'
    <2>1. TimerIdsDistinct' => ids' \cap Adding' = {}
      BY <1>0, <1>7 DEF FreshInv
    <2>2. TimerIdsDistinct' => cancelled' \cap (activeTimers_' \cup PendingAdds') = {}
      BY <1>0, <1>2, <1>3, <1>7 DEF FreshInv
    <2>3. \A e \in Batch : IdOf(e) \in cancelled' => IdOf(e) \in cancelled \cup cancelingTimers_'
      BY <1>2, <1>6
    <2>4. QED
      BY <1>0, <1>4, <1>6, <1>7, <2>1, <2>2, <2>3, FreshKept
  <1>11. QED
    BY <1>8, <1>9, <1>10 DEF CancelInv

\* cancel(), on the spot or as a functor.
LEMMA CancelKeepsIds ==
    ASSUME OwnInv, CancelInv, NEW t \in Threads, Cancel(t)
    PROVE  CancelInv'
  <1>0. CountInv /\ FateInv /\ FreshInv /\ TimerTypes
    BY DEF CancelInv, OwnInv
  <1>1. UNCHANGED <<adding, created, ids, callingExpiredTimers_, expired_, toRun, pc, finished>>
    BY DEF Cancel, createVars
  <1>2. UNCHANGED <<Adding, Batch>>
    BY <1>1, SameOnTheirWay DEF Batch
  <1>3. PICK id \in ids :
          IF t = Loop
          THEN CancelInLoop(id) /\ UNCHANGED pending
          ELSE /\ Len(pending) < MaxPending
               /\ pending' = Append(pending, [op |-> "cancel", timer |-> id])
               /\ UNCHANGED <<timerVars, cancelingTimers_, heap, cancelled>>
    BY DEF Cancel
  <1>4. CASE t = Loop
    <2>1. CancelInLoop(id) /\ UNCHANGED pending
      BY <1>3, <1>4
    <2>2. UNCHANGED PendingAdds /\ \A i \in DOMAIN pending' : pending'[i].timer \in ids
      BY <1>0, <2>1, SameOnTheirWay DEF CountInv
    <2>3. QED
      BY <1>1, <1>2, <2>1, <2>2, CancelInLoopKeepsIds
  <1>5. CASE t # Loop
    <2>1. PICK f : f = [op |-> "cancel", timer |-> id]
      OBVIOUS
    <2>2. f \in TimerFunctors /\ f.op # "add" /\ f.timer = id
      BY <1>0, <2>1 DEF TimerFunctors, TimerTypes
    <2>3. pending' = Append(pending, f) /\ UNCHANGED <<activeTimers_, cancelingTimers_, heap, cancelled>>
      BY <1>3, <1>5, <2>1 DEF timerVars
    <2>4. /\ UNCHANGED PendingAdds
          /\ \A i \in DOMAIN pending' : pending'[i] = f \/ (i \in DOMAIN pending /\ pending'[i] = pending[i])
      BY <1>0, <2>2, <2>3, AppendToPending
    <2>5. \A i \in DOMAIN pending' : pending'[i].timer \in ids
      BY <1>0, <2>2, <2>4 DEF CountInv
    <2>6. \A e : IdOf(e)' = IdOf(e)
      BY <2>3 DEF IdOf
    <2>7. QED
      BY <1>0, <1>1, <1>2, <2>3, <2>4, <2>5, <2>6
         DEF CancelInv, CountInv, FateInv, FreshInv, TimerIdsDistinct
  <1>6. QED
    BY <1>4, <1>5

\* doPendingFunctors(): an addTimerInLoop() moves its TimerId from the queue to
\* activeTimers_.
LEMMA RunFunctorKeepsIds ==
    ASSUME OwnInv, CancelInv, RunFunctor
    PROVE  CancelInv'
  <1>0. CountInv /\ FateInv /\ FreshInv /\ TimerTypes /\ OwnersPointToTimers
    BY DEF CancelInv, OwnInv
  <1>1. /\ UNCHANGED <<adding, created, ids, callingExpiredTimers_, expired_, toRun, pc, finished>>
        /\ pending # <<>> /\ pending' = Tail(pending) /\ pc = "idle"
    BY DEF RunFunctor, createVars
  <1>2. UNCHANGED <<Adding, Batch>> /\ Batch = {} /\ ~callingExpiredTimers_
    BY <1>0, <1>1, SameOnTheirWay DEF Batch, TimerTypes
  <1>3. PICK f : f = Head(pending)
    OBVIOUS
  <1>4. /\ \A i \in DOMAIN pending' : \E j \in DOMAIN pending : pending'[i] = pending[j]
        /\ f \in TimerFunctors
        /\ f.op = "add" => /\ PendingAdds = PendingAdds' \cup {f.timer}
                           /\ IsAdd(1) /\ pending[1] = f /\ 1 \in DOMAIN pending
        /\ f.op # "add" => PendingAdds' = PendingAdds
        /\ \E j \in DOMAIN pending : pending[j] = f
    BY <1>0, <1>1, <1>3, TailOfPendingAdds
  <1>5. f.timer \in ids /\ \A i \in DOMAIN pending' : pending'[i].timer \in ids
    BY <1>0, <1>4 DEF CountInv
  <1>6. CASE f.op = "add"
    <2>1. AddTimerInLoop(f.timer[1]) /\ UNCHANGED <<heap, cancelingTimers_, cancelled>>
      BY <1>3, <1>6 DEF RunFunctor
    <2>2. f.timer \in TimerIds /\ f.timer[2] = heap[f.timer[1]].sequence_
      BY <1>0, <1>4, <1>6 DEF OwnersPointToTimers, TimerFunctors
    <2>3. activeTimers_' = activeTimers_ \cup {f.timer}
      BY <2>1, <2>2, IdIsPair DEF AddTimerInLoop
    <2>4. activeTimers_' \cup PendingAdds' = activeTimers_ \cup PendingAdds
      BY <1>4, <1>6, <2>3
    <2>5. /\ IsFiniteSet(ids' \cup Adding') /\ Cardinality(ids' \cup Adding') <= created'
          /\ TimerIdsDistinct' <=> TimerIdsDistinct
      BY <1>0, <1>1, <1>2, SameTimerIds
    <2>6. CountInv'
      BY <1>0, <1>1, <1>5, <2>1, <2>5 DEF CountInv
    <2>7. FateInv'
      BY <1>0, <1>1, <1>2, <2>1, <2>4, FateKept
    <2>8. FreshInv'
      <3>1. /\ TimerIdsDistinct' => ids' \cap Adding' = {}
            /\ TimerIdsDistinct' => cancelled' \cap (activeTimers_' \cup PendingAdds') = {}
        BY <1>0, <1>1, <1>2, <2>1, <2>4, <2>5 DEF FreshInv
      <3>2. QED
        BY <1>0, <1>2, <2>1, <2>5, <3>1, FreshKept
    <2>9. QED
      BY <2>6, <2>7, <2>8 DEF CancelInv
  <1>7. CASE f.op # "add"
    <2>1. CancelInLoop(f.timer)
      BY <1>3, <1>7 DEF RunFunctor
    <2>2. QED
      BY <1>1, <1>2, <1>4, <1>5, <1>7, <2>1, CancelInLoopKeepsIds
  <1>8. QED
    BY <1>6, <1>7

\* getExpired(): the batch starts with timers that were active, so none of them
\* has been cancelled.
LEMMA HandleReadKeepsIds ==
    ASSUME OwnInv, CancelInv, HandleRead
    PROVE  CancelInv'
  <1>0. CountInv /\ FateInv /\ FreshInv /\ TimerTypes /\ ActiveInv
    BY DEF CancelInv, OwnInv
  <1>1. /\ UNCHANGED <<heap, adding, created, ids, pending, cancelled, finished>>
        /\ expired_' = Expired(pollReturnTime) /\ toRun' = expired_'
        /\ activeTimers_' = StillActive(expired_')
        /\ callingExpiredTimers_' = TRUE /\ cancelingTimers_' = {}
        /\ pc' = "running" /\ pc = "polled"
    BY DEF HandleRead, createVars
  <1>2. Batch = {} /\ Batch' = expired_' /\ expired_' \subseteq timers_
    BY <1>0, <1>1 DEF Batch, TimerTypes, Expired
  <1>3. UNCHANGED <<PendingAdds, Adding>>
    BY <1>1, SameOnTheirWay
  <1>4. \A e : IdOf(e)' = IdOf(e)
    BY <1>1 DEF IdOf
  <1>5. \A e \in expired_' : IdOf(e) \in activeTimers_
    BY <1>0, <1>2 DEF ActiveInv
  <1>6. /\ activeTimers_' \subseteq activeTimers_
        /\ \A id \in activeTimers_ : id \in activeTimers_' \/ \E e \in expired_' : id = IdOf(e)
    BY <1>1 DEF StillActive
  <1>7. CountInv' /\ (TimerIdsDistinct' <=> TimerIdsDistinct)
    BY <1>0, <1>1, <1>3, SameTimerIds DEF CountInv
  <1>8. FateInv'
    BY <1>0, <1>1, <1>2, <1>3, <1>4, <1>6 DEF FateInv
  <1>9. FreshInv'
    BY <1>0, <1>1, <1>2, <1>3, <1>4, <1>5, <1>6, <1>7 DEF FreshInv
  <1>10. QED
    BY <1>7, <1>8, <1>9 DEF CancelInv

\* reset(): what is put back was not cancelled, and what is deleted has run for
\* the last time or was.
LEMMA ResetKeepsIds ==
    ASSUME OwnInv, CancelInv, Reset
    PROVE  CancelInv'
  <1>0. CountInv /\ FateInv /\ FreshInv /\ TimerTypes /\ OwnersPointToTimers /\ OwnersAreDisjoint
    BY DEF CancelInv, OwnInv
  <1>1. /\ UNCHANGED <<adding, created, ids, pending, cancelled, finished, toRun>>
        /\ pc = "running" /\ toRun = {} /\ pc' = "idle"
        /\ callingExpiredTimers_' = FALSE
        /\ activeTimers_' = activeTimers_ \cup {IdOf(e) : e \in Restarted}
    BY DEF Reset, createVars
  <1>2. Batch = expired_ /\ Batch' = {} /\ callingExpiredTimers_
    BY <1>0, <1>1 DEF Batch, TimerTypes
  <1>3. UNCHANGED <<PendingAdds, Adding>>
    BY <1>1, SameOnTheirWay
  <1>4. \A e \in Batch : IdOf(e) \notin PendingAdds
    <2>1. ASSUME NEW e \in Batch, IdOf(e) \in PendingAdds PROVE FALSE
      <3>1. PICK i \in DOMAIN pending : IsAdd(i) /\ pending[i].timer = IdOf(e)
        BY <2>1, OnTheirWay
      <3>2. IdOf(e)[1] = e[2]
        BY DEF IdOf
      <3>3. QED
        BY <1>0, <3>1, <3>2 DEF OwnersAreDisjoint
    <2>2. QED
      BY <2>1
  <1>5. \A e \in Batch : e \in Restarted \/ IdOf(e) \in finished \cup cancelled
    <2>1. ASSUME NEW e \in Batch, e \notin Restarted PROVE IdOf(e) \in finished \cup cancelled
      <3>1. heap[e[2]].interval_ \in Nat
        BY <1>0 DEF OwnersPointToTimers, TimerTypes, TimerObjects
      <3>2. heap[e[2]].interval_ = 0 \/ IdOf(e) \in cancelingTimers_
        BY <1>2, <2>1, <3>1 DEF Restarted
      <3>3. CASE heap[e[2]].interval_ = 0
        BY <1>0, <1>1, <3>3 DEF FateInv
      <3>4. CASE IdOf(e) \in cancelingTimers_
        BY <1>0, <1>2, <1>4, <3>4 DEF FateInv
      <3>5. QED
        BY <3>2, <3>3, <3>4
    <2>2. QED
      BY <2>1
  <1>6. CountInv' /\ (TimerIdsDistinct' <=> TimerIdsDistinct)
    BY <1>0, <1>1, <1>3, SameTimerIds DEF CountInv
  <1>7. FateInv'
    <2>1. ASSUME NEW id \in ids PROVE id \in activeTimers_' \cup PendingAdds \cup finished \cup cancelled
      <3>1. CASE \E e \in Batch : IdOf(e) = id
        BY <1>1, <1>5, <3>1
      <3>2. QED
        BY <1>0, <1>1, <3>1 DEF FateInv
    <2>2. QED
      BY <1>1, <1>2, <1>3, <2>1 DEF FateInv
  <1>8. FreshInv'
    <2>1. TimerIdsDistinct => \A e \in Restarted : IdOf(e) \notin cancelled
      BY <1>0, <1>2 DEF FreshInv, Restarted
    <2>2. QED
      BY <1>0, <1>1, <1>2, <1>3, <1>6, <2>1 DEF FreshInv
  <1>9. QED
    BY <1>6, <1>7, <1>8 DEF CancelInv

\* A timer that is cancelled never runs from the queue again and no other timer is
\* taken for it, and every TimerId that addTimer() returned is accounted for, as
\* long as TimerIds are distinct: whatever the callbacks, the other threads and
\* reset() do in between.
THEOREM CancelAlwaysExact == Spec => []CancelIsExact
  <1>1. Init => CancelInv
    <2>1. ASSUME Init PROVE CancelInv
      <3>1. ids = {} /\ PendingAdds = {} /\ Adding = {} /\ Batch = {} /\ DOMAIN pending = {}
        BY <2>1 DEF Init, PendingAdds, Adding, Batch
      <3>2. IsFiniteSet({}) /\ Cardinality({}) = 0
        BY FS_EmptySet
      <3>3. QED
        BY <2>1, <3>1, <3>2 DEF Init, CancelInv, CountInv, FateInv, FreshInv
    <2>2. QED
      BY <2>1
  <1>2. ASSUME OwnInv, CancelInv, Destroy PROVE CancelInv'
    <2>1. /\ UNCHANGED <<adding, created, ids, pending, cancelled, finished, callingExpiredTimers_>>
          /\ pc = "idle" /\ pc' = "gone" /\ activeTimers_' = {}
      BY <1>2 DEF Destroy, createVars
    <2>2. ~callingExpiredTimers_ /\ Batch' = {}
      BY <1>2, <2>1 DEF OwnInv, TimerTypes, Batch
    <2>3. UNCHANGED <<PendingAdds, Adding>>
      BY <2>1, SameOnTheirWay
    <2>4. QED
      BY <1>2, <2>1, <2>2, <2>3 DEF CancelInv, CountInv, FateInv, FreshInv, TimerIdsDistinct
  <1>3. ASSUME OwnInv, CancelInv, [Next]_vars PROVE CancelInv'
    <2>1. ASSUME NEW t \in Threads, AddTimerLoad(t) \/ AddTimerStore(t) \/ Cancel(t) PROVE CancelInv'
      BY <1>3, <2>1, AddTimerLoadKeepsIds, AddTimerStoreKeepsIds, CancelKeepsIds
    <2>2. QED
      BY <1>2, <1>3, <2>1, QuietStepsKeepIds, RunFunctorKeepsIds, HandleReadKeepsIds, ResetKeepsIds
         DEF Next, LoopStep
  <1>4. CancelInv => CancelIsExact
    BY DEF CancelInv, FateInv, FreshInv, CancelIsExact
  <1>5. QED
    BY <1>1, <1>3, <1>4, InitOwnInv, StepKeepsOwners, PTL DEF Spec
=============================================================================
