-------------------------- MODULE AsyncLoggingProofs --------------------------
(***************************************************************************)
(* Proofs about AsyncLogging with its LogFile and LogStream, for any       *)
(* lines, any sizes of the buffers and any size and period of the files.   *)
(***************************************************************************)
EXTENDS AsyncLogging, SequenceTheorems, NaturalsInduction, WellFoundedInduction, TLAPS

-----------------------------------------------------------------------------
(* Induction over the natural numbers, for sets.                           *)

\* A set of natural numbers has a least one: the well-founded order of the library.
LEMMA LeastNumber ==
    ASSUME NEW T \in SUBSET Nat, T # {}
    PROVE  \E n \in T : \A m \in T : n <= m
  <1>1. IsWellFoundedOn(OpToRel(<, Nat), Nat)
    BY NatLessThanWellFounded
  <1>2. PICK n \in T : \A m \in T : <<m, n>> \notin OpToRel(<, Nat)
    BY <1>1, WFMin
  <1>3. ASSUME NEW m \in T PROVE n <= m
    <2>1. <<m, n>> \notin OpToRel(<, Nat)
      BY <1>2, Zenon
    <2>2. m \in Nat /\ n \in Nat
      OBVIOUS
    <2>3. ~(m < n)
      BY <2>1, <2>2, Zenon DEF OpToRel
    <2>4. QED
      BY <2>2, <2>3
  <1>4. QED
    BY <1>2, <1>3

\* A set with 0 and with the successor of each of its numbers holds all of them.
LEMMA NumbersByInduction ==
    ASSUME NEW S \in SUBSET Nat, 0 \in S, \A n \in S : n + 1 \in S
    PROVE  S = Nat
  <1> SUFFICES ASSUME Nat \ S # {} PROVE FALSE
    OBVIOUS
  <1>1. PICK n \in Nat \ S : \A m \in Nat \ S : n <= m
    BY LeastNumber
  <1>2. n # 0 /\ n - 1 \in Nat /\ n - 1 \in S
    BY <1>1
  <1>3. QED
    BY <1>1, <1>2

-----------------------------------------------------------------------------
(* FlattenSeq, by which the model speaks of the text of several lines,     *)
(* buffers or files.                                                       *)

\* The recursive function inside FlattenSeq.
Flattens(g, s) == g = [i \in 1..Len(s) |-> IF i = 1 THEN s[i] ELSE g[i - 1] \o s[i]]

\* The first n values of two functions.
Agree(g, h, n) == \A i \in 1..n : g[i] = h[i]

\* Sequences that begin alike are flattened alike.
LEMMA FlattensAgree ==
    ASSUME NEW S, NEW s \in Seq(S), NEW t \in Seq(S),
           Len(s) <= Len(t), Agree(s, t, Len(s)),
           NEW g, Flattens(g, s), NEW h, Flattens(h, t)
    PROVE  Agree(g, h, Len(s))
  <1> DEFINE n == Len(s)
             T == {k \in Nat : k \in 1..n => g[k] = h[k]}
  <1>1. 0 \in T
    OBVIOUS
  <1>2. ASSUME NEW k \in T PROVE k + 1 \in T
    <2> SUFFICES ASSUME k + 1 \in 1..n PROVE g[k + 1] = h[k + 1]
      OBVIOUS
    <2>1. k + 1 \in 1..Len(s) /\ k + 1 \in 1..Len(t) /\ k \in Nat
      OBVIOUS
    <2>2. /\ g[k + 1] = IF k + 1 = 1 THEN s[k + 1] ELSE g[(k + 1) - 1] \o s[k + 1]
          /\ h[k + 1] = IF k + 1 = 1 THEN t[k + 1] ELSE h[(k + 1) - 1] \o t[k + 1]
      BY <2>1, Zenon DEF Flattens
    <2>3. (k + 1) - 1 = k /\ s[k + 1] = t[k + 1] /\ (k + 1 # 1 => k \in 1..n)
      BY <2>1 DEF Agree
    <2>4. k + 1 # 1 => g[k] = h[k]
      BY <2>3
    <2>5. QED
      BY <2>2, <2>3, <2>4
  <1> HIDE DEF T
  <1>3. T = Nat
    <2>1. T \in SUBSET Nat
      BY DEF T
    <2>2. QED
      BY <1>1, <1>2, <2>1, NumbersByInduction
  <1>4. QED
    BY <1>3 DEF T, Agree

\* There is such a function, and its values are sequences.
LEMMA FlattensExists ==
    ASSUME NEW S, NEW s \in Seq(Seq(S))
    PROVE  \E g \in [1..Len(s) -> Seq(S)] : Flattens(g, s)
  <1> DEFINE Def(g, i) == IF i = 1 THEN s[i] ELSE g[i - 1] \o s[i]
             Exists(k) == \E g \in [1..k -> Seq(S)] : \A i \in 1..k : g[i] = Def(g, i)
             T == {k \in Nat : k <= Len(s) => Exists(k)}
  <1>1. 0 \in T
    <2> DEFINE g == [i \in 1..0 |-> s[i]]
    <2>1. g \in [1..0 -> Seq(S)] /\ \A i \in 1..0 : g[i] = Def(g, i)
      BY SMT
    <2> HIDE DEF g
    <2>2. QED
      BY <2>1
  <1>2. ASSUME NEW k \in T PROVE k + 1 \in T
    <2> HIDE DEF Exists
    <2> SUFFICES ASSUME k + 1 <= Len(s) PROVE Exists(k + 1)
      BY <1>2
    <2>0. k \in Nat /\ k <= Len(s) /\ Len(s) \in Nat /\ Exists(k)
      BY <1>2
    <2> USE DEF Exists
    <2>1. PICK g \in [1..k -> Seq(S)] : \A i \in 1..k : g[i] = Def(g, i)
      BY <1>2, <2>0
    <2> DEFINE h == [i \in 1..(k + 1) |-> IF i = k + 1 THEN Def(g, k + 1) ELSE g[i]]
    <2>2. \A i \in 1..(k + 1) : i \in 1..Len(s) /\ s[i] \in Seq(S)
      BY <2>0
    <2>3. Def(g, k + 1) \in Seq(S)
      <3>1. CASE k = 0
        BY <2>2, <3>1
      <3>2. CASE k # 0
        <4>1. (k + 1) - 1 = k /\ k \in 1..k /\ g[k] \in Seq(S) /\ s[k + 1] \in Seq(S)
          BY <2>0, <2>1, <2>2, <3>2
        <4>2. g[k] \o s[k + 1] \in Seq(S)
          BY <4>1, ConcatProperties, Zenon
        <4>3. QED
          BY <2>0, <3>2, <4>1, <4>2
      <3>3. QED
        BY <3>1, <3>2
    <2>4. h \in [1..(k + 1) -> Seq(S)]
      BY <2>0, <2>1, <2>3
    <2>5. ASSUME NEW i \in 1..(k + 1) PROVE h[i] = Def(h, i)
      <3>1. CASE i = k + 1
        <4>1. k # 0 => h[(k + 1) - 1] = g[(k + 1) - 1]
          BY <2>0
        <4>2. QED
          BY <2>0, <3>1, <4>1
      <3>2. CASE i # k + 1
        <4>1. i \in 1..k /\ (i # 1 => i - 1 \in 1..k /\ i - 1 # k + 1 /\ i - 1 \in 1..(k + 1))
          BY <2>0, <3>2
        <4>2. h[i] = g[i] /\ (i # 1 => h[i - 1] = g[i - 1])
          BY <3>2, <4>1
        <4>3. g[i] = Def(g, i)
          BY <2>1, <4>1
        <4>4. QED
          BY <4>2, <4>3
      <3>3. QED
        BY <3>1, <3>2
    <2> HIDE DEF h
    <2>6. QED
      BY <2>4, <2>5
  <1> HIDE DEF T
  <1>3. T = Nat
    <2>1. T \in SUBSET Nat
      BY DEF T
    <2>2. QED
      BY <1>1, <1>2, <2>1, NumbersByInduction
  <1>4. Len(s) \in T /\ Len(s) <= Len(s)
    <2>1. Len(s) \in Nat
      OBVIOUS
    <2>2. QED
      BY <1>3, <2>1
  <1>5. PICK g \in [1..Len(s) -> Seq(S)] : \A i \in 1..Len(s) : g[i] = Def(g, i)
    BY <1>4 DEF T
  <1>6. g = [i \in 1..Len(s) |-> Def(g, i)]
    BY <1>5, Zenon
  <1>7. QED
    BY <1>5, <1>6 DEF Flattens

\* What FlattenSeq gives is a sequence: the last value of the function.
LEMMA FlattenIs ==
    ASSUME NEW S, NEW s \in Seq(Seq(S))
    PROVE  /\ FlattenSeq(s) \in Seq(S)
           /\ s = <<>> => FlattenSeq(s) = <<>>
           /\ s # <<>> => \E g \in [1..Len(s) -> Seq(S)] :
                              Flattens(g, s) /\ FlattenSeq(s) = g[Len(s)]
  <1>1. CASE s = <<>>
    <2>1. Len(s) = 0 /\ <<>> \in Seq(S)
      BY <1>1, EmptySeq
    <2>2. FlattenSeq(s) = s
      BY <2>1 DEF FlattenSeq
    <2>3. QED
      BY <1>1, <2>1, <2>2
  <1>2. CASE s # <<>>
    <2>1. Len(s) \in Nat \ {0}
      BY <1>2, EmptySeq
    <2> DEFINE f == CHOOSE g : Flattens(g, s)
    <2>2. FlattenSeq(s) = f[Len(s)]
      BY <2>1, Zenon DEF FlattenSeq, Flattens
    <2>3. PICK g \in [1..Len(s) -> Seq(S)] : Flattens(g, s)
      BY FlattensExists
    <2>4. Flattens(f, s)
      BY <2>3, Zenon
    <2> HIDE DEF f
    <2>5. Agree(f, g, Len(s))
      <3>1. Len(s) <= Len(s) /\ Agree(s, s, Len(s))
        BY <2>1 DEF Agree
      <3>2. QED
        BY <2>3, <2>4, <3>1, FlattensAgree
    <2>6. Len(s) \in 1..Len(s) /\ f[Len(s)] = g[Len(s)]
      BY <2>1, <2>5 DEF Agree
    <2>7. QED
      BY <1>2, <2>2, <2>3, <2>6
  <1>3. QED
    BY <1>1, <1>2

\* One more sequence at the end.
LEMMA FlattenAppend ==
    ASSUME NEW S, NEW s \in Seq(Seq(S)), NEW x \in Seq(S)
    PROVE  FlattenSeq(Append(s, x)) = FlattenSeq(s) \o x
  <1> DEFINE t == Append(s, x)
  <1>1. /\ t \in Seq(Seq(S)) /\ Len(t) = Len(s) + 1 /\ Len(s) \in Nat
        /\ t[Len(s) + 1] = x /\ \A i \in 1..Len(s) : t[i] = s[i]
    BY AppendProperties
  <1> HIDE DEF t
  <1>2. t # <<>>
    BY <1>1, EmptySeq
  <1>3. PICK h \in [1..Len(t) -> Seq(S)] : Flattens(h, t) /\ FlattenSeq(t) = h[Len(t)]
    BY <1>1, <1>2, FlattenIs
  <1>4. h[Len(t)] = IF Len(t) = 1 THEN t[Len(t)] ELSE h[Len(t) - 1] \o t[Len(t)]
    <2>1. Len(t) \in 1..Len(t)
      BY <1>1
    <2>2. QED
      BY <1>3, <2>1, Zenon DEF Flattens
  <1>5. CASE s = <<>>
    <2>1. Len(s) = 0 /\ FlattenSeq(s) = <<>> /\ <<>> \o x = x
      BY <1>5, FlattenIs, EmptySeq, ConcatEmptySeq
    <2>2. FlattenSeq(t) = x
      BY <1>1, <1>3, <1>4, <2>1
    <2>3. QED
      BY <2>1, <2>2 DEF t
  <1>6. CASE s # <<>>
    <2>1. PICK g \in [1..Len(s) -> Seq(S)] : Flattens(g, s) /\ FlattenSeq(s) = g[Len(s)]
      BY <1>6, FlattenIs
    <2>2. Len(s) # 0 /\ Len(t) # 1 /\ Len(t) - 1 = Len(s)
      BY <1>1, <1>6, EmptySeq
    <2>3. Agree(g, h, Len(s))
      <3>1. Len(s) <= Len(t) /\ Agree(s, t, Len(s))
        BY <1>1 DEF Agree
      <3>2. t \in Seq(Seq(S)) /\ Flattens(g, s) /\ Flattens(h, t)
        BY <1>1, <1>3, <2>1
      <3>3. QED
        BY <3>1, <3>2, FlattensAgree
    <2>4. QED
      <3>1. h[Len(s)] = g[Len(s)] /\ Len(t) = Len(s) + 1
        BY <1>1, <2>2, <2>3 DEF Agree
      <3>2. FlattenSeq(t) = g[Len(s)] \o x
        BY <1>1, <1>3, <1>4, <2>2, <3>1
      <3>3. QED
        BY <2>1, <3>2 DEF t
  <1>7. QED
    BY <1>5, <1>6

-----------------------------------------------------------------------------
(* Sequences of sequences.                                                 *)

\* Induction over sequences, for sets.
LEMMA SequencesByInduction ==
    ASSUME NEW S, NEW P \in SUBSET Seq(S), <<>> \in P,
           \A s \in P, e \in S : Append(s, e) \in P
    PROVE  P = Seq(S)
  <1> DEFINE T == {n \in Nat : \A s \in Seq(S) : Len(s) = n => s \in P}
  <1>1. 0 \in T
    BY EmptySeq
  <1>2. ASSUME NEW n \in T PROVE n + 1 \in T
    <2> SUFFICES ASSUME NEW t \in Seq(S), Len(t) = n + 1 PROVE t \in P
      BY <1>2
    <2>1. t # <<>>
      BY EmptySeq
    <2>2. PICK s \in Seq(S), e \in S : t = Append(s, e)
      BY <2>1, SequenceEmptyOrAppend
    <2>3. Len(s) = n
      <3>1. Len(t) = Len(s) + 1 /\ Len(s) \in Nat
        BY <2>2, AppendProperties
      <3>2. QED
        BY <3>1
    <2>4. s \in P
      BY <1>2, <2>3
    <2>5. QED
      BY <2>2, <2>4
  <1> HIDE DEF T
  <1>3. T = Nat
    <2>1. T \in SUBSET Nat
      BY DEF T
    <2>2. QED
      BY <1>1, <1>2, <2>1, NumbersByInduction
  <1>4. \A s \in Seq(S) : Len(s) \in Nat
    OBVIOUS
  <1>5. QED
    BY <1>3, <1>4 DEF T

\* Three sequences put together in either order; one more element at the end of two.
Associates(a, b, c) == (a \o b) \o c = a \o (b \o c)
AppendsLast(s, t, e) == s \o Append(t, e) = Append(s \o t, e)

\* Sequences are put together from left to right.
LEMMA ConcatAssociates ==
    ASSUME NEW S, NEW a \in Seq(S), NEW b \in Seq(S), NEW c \in Seq(S)
    PROVE  Associates(a, b, c)
  BY ConcatAssociative DEF Associates

\* Appending is associative with \o.
LEMMA ConcatAppend ==
    ASSUME NEW S, NEW s \in Seq(S), NEW t \in Seq(S), NEW e \in S
    PROVE  AppendsLast(s, t, e)
  <1>1. <<e>> \in Seq(S) /\ s \o t \in Seq(S)
    OBVIOUS
  <1>2. Append(t, e) = t \o <<e>> /\ Append(s \o t, e) = (s \o t) \o <<e>>
    BY <1>1, AppendIsConcat
  <1>3. Associates(s, t, <<e>>)
    BY <1>1, ConcatAssociates
  <1>4. QED
    BY <1>2, <1>3 DEF Associates, AppendsLast

\* After its first n values, r goes on like q.
GoesOn(r, n, q) == \A i \in 1..Len(q) : r[n + i] = q[i]

\* A sequence is p \o q if p is its beginning and q the rest.
LEMMA IsConcat ==
    ASSUME NEW S, NEW p \in Seq(S), NEW q \in Seq(S), NEW r \in Seq(S),
           Len(r) = Len(p) + Len(q), Agree(r, p, Len(p)), GoesOn(r, Len(p), q)
    PROVE  r = p \o q
  <1>1. /\ p \o q \in Seq(S) /\ Len(p \o q) = Len(p) + Len(q)
        /\ \A i \in 1..Len(p) + Len(q) : (p \o q)[i] = IF i <= Len(p) THEN p[i] ELSE q[i - Len(p)]
    BY ConcatProperties
  <1>2. ASSUME NEW i \in 1..Len(r) PROVE r[i] = (p \o q)[i]
    <2>1. Len(p) \in Nat /\ Len(q) \in Nat
      OBVIOUS
    <2>2. CASE i <= Len(p)
      BY <1>1, <2>1, <2>2 DEF Agree
    <2>3. CASE ~(i <= Len(p))
      <3>1. i - Len(p) \in 1..Len(q) /\ Len(p) + (i - Len(p)) = i
        BY <2>1, <2>3
      <3>2. r[i] = q[i - Len(p)]
        BY <3>1 DEF GoesOn
      <3>3. QED
        BY <1>1, <2>3, <3>2
    <2>4. QED
      BY <2>2, <2>3
  <1>3. QED
    BY <1>1, <1>2, SeqEqual

\* A function on 1..n is a sequence of length n.
LEMMA FunctionIsSequence ==
    ASSUME NEW S, NEW n \in Nat, NEW h \in [1..n -> S]
    PROVE  h \in Seq(S) /\ Len(h) = n
  OBVIOUS

\* No sequence at all, and one.
LEMMA FlattenOne ==
    ASSUME NEW S, NEW x \in Seq(S)
    PROVE  FlattenSeq(<<x>>) = x
  <1>1. <<>> \in Seq(Seq(S)) /\ Append(<<>>, x) = <<x>>
    OBVIOUS
  <1>2. FlattenSeq(<<>>) = <<>> /\ FlattenSeq(Append(<<>>, x)) = FlattenSeq(<<>>) \o x
    BY <1>1, FlattenIs, FlattenAppend
  <1>3. <<>> \o x = x
    BY ConcatEmptySeq
  <1>4. QED
    BY <1>1, <1>2, <1>3

\* The buffers of two vectors one after the other.
LEMMA FlattenConcat ==
    ASSUME NEW S, NEW s \in Seq(Seq(S)), NEW t \in Seq(Seq(S))
    PROVE  FlattenSeq(s \o t) = FlattenSeq(s) \o FlattenSeq(t)
  <1> DEFINE P == {u \in Seq(Seq(S)) : FlattenSeq(s \o u) = FlattenSeq(s) \o FlattenSeq(u)}
  <1>1. <<>> \in P
    <2>1. <<>> \in Seq(Seq(S)) /\ FlattenSeq(<<>>) = <<>> /\ FlattenSeq(s) \in Seq(S)
      BY EmptySeq, FlattenIs
    <2>2. s \o <<>> = s /\ FlattenSeq(s) \o <<>> = FlattenSeq(s)
      BY <2>1, ConcatEmptySeq
    <2>3. QED
      BY <2>1, <2>2
  <1>2. ASSUME NEW u \in P, NEW x \in Seq(S) PROVE Append(u, x) \in P
    <2>1. u \in Seq(Seq(S)) /\ FlattenSeq(s \o u) = FlattenSeq(s) \o FlattenSeq(u)
      OBVIOUS
    <2> HIDE DEF P
    <2>2. s \o Append(u, x) = Append(s \o u, x) /\ s \o u \in Seq(Seq(S))
          /\ Append(u, x) \in Seq(Seq(S))
      <3> DEFINE I == Seq(S)
      <3>1. s \in Seq(I) /\ u \in Seq(I) /\ x \in I
        BY <2>1
      <3> HIDE DEF I
      <3>2. s \o u \in Seq(I)
        BY <3>1, ConcatProperties
      <3>3. Append(u, x) \in Seq(I)
        BY <3>1, AppendProperties
      <3>4. s \o Append(u, x) = Append(s \o u, x)
        <4>1. AppendsLast(s, u, x)
          BY <3>1, ConcatAppend
        <4>2. QED
          BY <4>1 DEF AppendsLast
      <3>5. QED
        BY <3>2, <3>3, <3>4 DEF I
    <2>3. FlattenSeq(Append(s \o u, x)) = (FlattenSeq(s) \o FlattenSeq(u)) \o x
      <3> DEFINE w == s \o u
      <3>1. w \in Seq(Seq(S)) /\ FlattenSeq(w) = FlattenSeq(s) \o FlattenSeq(u)
        BY <2>1, <2>2
      <3> HIDE DEF w
      <3>2. FlattenSeq(Append(w, x)) = FlattenSeq(w) \o x
        BY <3>1, FlattenAppend
      <3>3. QED
        BY <3>1, <3>2 DEF w
    <2>4. FlattenSeq(Append(u, x)) = FlattenSeq(u) \o x
      BY <2>1, FlattenAppend
    <2>5. FlattenSeq(s) \in Seq(S) /\ FlattenSeq(u) \in Seq(S)
      BY <2>1, FlattenIs
    <2>6. (FlattenSeq(s) \o FlattenSeq(u)) \o x = FlattenSeq(s) \o (FlattenSeq(u) \o x)
      <3>1. Associates(FlattenSeq(s), FlattenSeq(u), x)
        BY <2>5, ConcatAssociates
      <3>2. QED
        BY <3>1 DEF Associates
    <2>7. QED
      BY <2>2, <2>3, <2>4, <2>6 DEF P
  <1> HIDE DEF P
  <1>3. P = Seq(Seq(S))
    <2>1. P \in SUBSET Seq(Seq(S))
      BY DEF P
    <2>2. QED
      BY <1>1, <1>2, <2>1, SequencesByInduction
  <1>4. QED
    BY <1>3 DEF P

\* Empty buffers, lines and files contribute nothing.
LEMMA FlattenEmpty ==
    ASSUME NEW S, NEW s \in Seq(Seq(S)), \A i \in 1..Len(s) : s[i] = <<>>
    PROVE  FlattenSeq(s) = <<>>
  <1> DEFINE P == {u \in Seq(Seq(S)) : (\A i \in 1..Len(u) : u[i] = <<>>) => FlattenSeq(u) = <<>>}
  <1>1. <<>> \in P
    BY EmptySeq, FlattenIs
  <1>2. ASSUME NEW u \in P, NEW x \in Seq(S) PROVE Append(u, x) \in P
    <2>1. Append(u, x) \in Seq(Seq(S)) /\ u \in Seq(Seq(S))
      OBVIOUS
    <2> SUFFICES ASSUME \A i \in 1..Len(Append(u, x)) : Append(u, x)[i] = <<>>
                 PROVE  FlattenSeq(Append(u, x)) = <<>>
      BY <2>1
    <2>2. x = <<>> /\ \A i \in 1..Len(u) : u[i] = <<>>
      BY <2>1, AppendProperties
    <2>3. FlattenSeq(Append(u, x)) = <<>> \o <<>>
      <3>1. FlattenSeq(u) = <<>>
        BY <2>2
      <3> HIDE DEF P
      <3>2. FlattenSeq(Append(u, x)) = FlattenSeq(u) \o x
        BY <2>1, FlattenAppend
      <3>3. QED
        BY <2>2, <3>1, <3>2
    <2>4. QED
      BY <2>3
  <1> HIDE DEF P
  <1>3. P = Seq(Seq(S))
    <2>1. P \in SUBSET Seq(Seq(S))
      BY DEF P
    <2>2. QED
      BY <1>1, <1>2, <2>1, SequencesByInduction
  <1>4. QED
    BY <1>3 DEF P

\* What is in a vector of buffers is what is in one of them.
LEMMA FlattenRange ==
    ASSUME NEW S, NEW s \in Seq(Seq(S))
    PROVE  ToSet(FlattenSeq(s)) = UNION {ToSet(s[i]) : i \in 1..Len(s)}
  <1> DEFINE P == {u \in Seq(Seq(S)) :
                     ToSet(FlattenSeq(u)) = UNION {ToSet(u[i]) : i \in 1..Len(u)}}
  <1>1. <<>> \in P
    <2>1. FlattenSeq(<<>>) = <<>> /\ <<>> \in Seq(Seq(S)) /\ Len(<<>>) = 0
      BY EmptySeq, FlattenIs
    <2>2. ToSet(<<>>) = {}
      BY DEF ToSet
    <2>3. QED
      BY <2>1, <2>2
  <1>2. ASSUME NEW u \in P, NEW x \in Seq(S) PROVE Append(u, x) \in P
    <2> DEFINE v == Append(u, x)
    <2>1. /\ u \in Seq(Seq(S)) /\ v \in Seq(Seq(S)) /\ Len(v) = Len(u) + 1 /\ Len(u) \in Nat
          /\ v[Len(u) + 1] = x /\ \A i \in 1..Len(u) : v[i] = u[i]
          /\ ToSet(FlattenSeq(u)) = UNION {ToSet(u[i]) : i \in 1..Len(u)}
      BY AppendProperties
    <2> HIDE DEF P
    <2>2. FlattenSeq(v) = FlattenSeq(u) \o x /\ FlattenSeq(u) \in Seq(S)
      BY <2>1, FlattenAppend, FlattenIs
    <2>3. ToSet(FlattenSeq(u) \o x) = ToSet(FlattenSeq(u)) \union ToSet(x)
      <3>1. \A a : ToSet(a) = Range(a)
        BY DEF ToSet, Range
      <3>2. \A a, b \in Seq(S) : Range(a \o b) = Range(a) \union Range(b)
        BY RangeConcatenation
      <3>3. QED
        BY <2>2, <3>1, <3>2, Zenon
    <2> HIDE DEF v
    <2>4. UNION {ToSet(v[i]) : i \in 1..Len(v)}
            = (UNION {ToSet(u[i]) : i \in 1..Len(u)}) \union ToSet(x)
      <3>1. 1..Len(v) = 1..Len(u) \union {Len(u) + 1}
        BY <2>1
      <3>2. {ToSet(v[i]) : i \in 1..Len(v)} = {ToSet(u[i]) : i \in 1..Len(u)} \union {ToSet(x)}
        BY <2>1, <3>1, Zenon
      <3>3. QED
        BY <3>2, Zenon
    <2>5. QED
      BY <2>1, <2>2, <2>3, <2>4 DEF v, P
  <1> HIDE DEF P
  <1>3. P = Seq(Seq(S))
    <2>1. P \in SUBSET Seq(Seq(S))
      BY DEF P
    <2>2. QED
      BY <1>1, <1>2, <2>1, SequencesByInduction
  <1>4. QED
    BY <1>3 DEF P

-----------------------------------------------------------------------------
(* The text of lines and buffers, for any lines w.                         *)

Block == [kind : {"block"}, val : Nat]
Line == [val : Loggable \union Block, text : Seq(Int)]
TextIn(w, b) == FlattenSeq([i \in 1..Len(b) |-> w[b[i]].text])
TextOfIn(w, bs) == FlattenSeq([i \in 1..Len(bs) |-> TextIn(w, bs[i])])
KeptIn(w, d, n) == FlattenSeq([i \in 1..n |-> IF i \in d THEN <<>> ELSE w[i].text])

\* The lines after line n, up to line m.
Ids(n, m) == [i \in 1..(m - n) |-> n + i]

\* Two buffers one after the other.
LEMMA TextConcat ==
    ASSUME NEW w \in Seq(Line), NEW b \in Seq(1..Len(w)), NEW c \in Seq(1..Len(w))
    PROVE  /\ TextIn(w, b) \in Seq(Int)
           /\ TextIn(w, b \o c) = TextIn(w, b) \o TextIn(w, c)
  <1> DEFINE texts(x) == [i \in 1..Len(x) |-> w[x[i]].text]
  <1>1. ASSUME NEW x \in Seq(1..Len(w))
        PROVE  /\ texts(x) \in Seq(Seq(Int)) /\ Len(texts(x)) = Len(x)
               /\ \A i \in 1..Len(x) : texts(x)[i] = w[x[i]].text
    <2>1. Len(x) \in Nat /\ \A i \in 1..Len(x) : w[x[i]].text \in Seq(Int)
      <3>1. Len(x) \in Nat /\ \A i \in 1..Len(x) : x[i] \in 1..Len(w)
        BY ElementOfSeq
      <3>2. \A i \in 1..Len(w) : w[i] \in Line
        BY ElementOfSeq
      <3>3. \A l \in Line : l.text \in Seq(Int)
        BY DEF Line
      <3>4. QED
        BY <3>1, <3>2, <3>3
    <2>2. QED
      BY <2>1
  <1>2. /\ b \o c \in Seq(1..Len(w)) /\ Len(b \o c) = Len(b) + Len(c)
        /\ \A i \in 1..Len(b) + Len(c) : (b \o c)[i] = IF i <= Len(b) THEN b[i] ELSE c[i - Len(b)]
        /\ Len(b) \in Nat /\ Len(c) \in Nat
    BY ConcatProperties
  <1>3. /\ texts(b) \in Seq(Seq(Int)) /\ Len(texts(b)) = Len(b)
        /\ texts(c) \in Seq(Seq(Int)) /\ Len(texts(c)) = Len(c)
        /\ texts(b \o c) \in Seq(Seq(Int)) /\ Len(texts(b \o c)) = Len(b) + Len(c)
    BY <1>1, <1>2
  <1>4. texts(b \o c) = texts(b) \o texts(c)
    <2>1. \A i \in 1..Len(b) : texts(b \o c)[i] = texts(b)[i]
      BY <1>2
    <2>2. ASSUME NEW i \in 1..Len(c) PROVE texts(b \o c)[Len(b) + i] = texts(c)[i]
      <3>1. /\ Len(b) + i \in 1..Len(b) + Len(c) /\ ~(Len(b) + i <= Len(b))
            /\ (Len(b) + i) - Len(b) = i
        BY <1>2
      <3>2. (b \o c)[Len(b) + i] = c[i]
        BY <1>2, <3>1
      <3>3. QED
        BY <1>2, <3>1, <3>2
    <2> DEFINE p == texts(b)  q == texts(c)  r == texts(b \o c)
    <2>3. /\ p \in Seq(Seq(Int)) /\ q \in Seq(Seq(Int)) /\ r \in Seq(Seq(Int))
          /\ Len(r) = Len(p) + Len(q) /\ Agree(r, p, Len(p)) /\ GoesOn(r, Len(p), q)
      BY <1>3, <2>1, <2>2 DEF Agree, GoesOn
    <2> HIDE DEF p, q, r
    <2>4. r = p \o q
      BY <2>3, IsConcat
    <2>5. QED
      BY <2>4 DEF p, q, r
  <1>5. /\ FlattenSeq(texts(b)) \in Seq(Int)
        /\ FlattenSeq(texts(b) \o texts(c)) = FlattenSeq(texts(b)) \o FlattenSeq(texts(c))
    <2> HIDE DEF texts
    <2>1. QED
      BY <1>3, FlattenIs, FlattenConcat
  <1>6. QED
    BY <1>4, <1>5 DEF TextIn

\* The text of some buffers is that of the lines in them.
LEMMA TextOfFlatten ==
    ASSUME NEW w \in Seq(Line), NEW bs \in Seq(Seq(1..Len(w)))
    PROVE  TextOfIn(w, bs) = TextIn(w, FlattenSeq(bs))
  <1> DEFINE Id == 1..Len(w)
             texts(x) == [i \in 1..Len(x) |-> TextIn(w, x[i])]
             P == {x \in Seq(Seq(Id)) : TextOfIn(w, x) = TextIn(w, FlattenSeq(x))}
  <1>1. <<>> \in P
    <2>1. <<>> \in Seq(Seq(Id)) /\ FlattenSeq(<<>>) = <<>> /\ Len(<<>>) = 0
      BY EmptySeq, FlattenIs
    <2>2. TextOfIn(w, <<>>) = FlattenSeq([i \in 1..0 |-> TextIn(w, <<>>[i])])
          /\ TextIn(w, <<>>) = FlattenSeq([i \in 1..0 |-> w[<<>>[i]].text])
      BY <2>1 DEF TextOfIn, TextIn
    <2>3. [i \in 1..0 |-> TextIn(w, <<>>[i])] = [i \in 1..0 |-> w[<<>>[i]].text]
      OBVIOUS
    <2>4. QED
      BY <2>1, <2>2, <2>3
  <1>2. ASSUME NEW x \in P, NEW b \in Seq(Id) PROVE Append(x, b) \in P
    <2>1. x \in Seq(Seq(Id)) /\ TextOfIn(w, x) = TextIn(w, FlattenSeq(x))
      OBVIOUS
    <2> HIDE DEF P
    <2>2. /\ Append(x, b) \in Seq(Seq(Id)) /\ Len(Append(x, b)) = Len(x) + 1 /\ Len(x) \in Nat
          /\ Append(x, b)[Len(x) + 1] = b /\ \A i \in 1..Len(x) : Append(x, b)[i] = x[i]
      BY <2>1, AppendProperties
    <2>3. ASSUME NEW y \in Seq(Id) PROVE TextIn(w, y) \in Seq(Int)
      BY TextConcat
    <2>4. ASSUME NEW y \in Seq(Seq(Id))
          PROVE  texts(y) \in Seq(Seq(Int)) /\ Len(texts(y)) = Len(y)
      <3>1. Len(y) \in Nat /\ \A i \in 1..Len(y) : TextIn(w, y[i]) \in Seq(Int)
        BY <2>3
      <3>2. QED
        BY <3>1
    <2>5. texts(Append(x, b)) = Append(texts(x), TextIn(w, b))
      <3>1. /\ Append(texts(x), TextIn(w, b)) \in Seq(Seq(Int))
            /\ Len(Append(texts(x), TextIn(w, b))) = Len(x) + 1
            /\ Append(texts(x), TextIn(w, b))[Len(x) + 1] = TextIn(w, b)
            /\ \A i \in 1..Len(x) : Append(texts(x), TextIn(w, b))[i] = TextIn(w, x[i])
        <4> DEFINE y == texts(x)
                   z == TextIn(w, b)
        <4>1. /\ y \in Seq(Seq(Int)) /\ Len(y) = Len(x) /\ z \in Seq(Int)
              /\ \A i \in 1..Len(x) : y[i] = TextIn(w, x[i])
          BY <2>1, <2>3, <2>4
        <4> HIDE DEF y, z
        <4>2. /\ Append(y, z) \in Seq(Seq(Int)) /\ Len(Append(y, z)) = Len(y) + 1
              /\ Append(y, z)[Len(y) + 1] = z /\ \A i \in 1..Len(y) : Append(y, z)[i] = y[i]
          BY <4>1, AppendProperties
        <4>3. QED
          BY <4>1, <4>2 DEF y, z
      <3>2. \A i \in 1..Len(x) + 1 : texts(Append(x, b))[i] = Append(texts(x), TextIn(w, b))[i]
        BY <2>2, <3>1
      <3>3. texts(Append(x, b)) \in Seq(Seq(Int)) /\ Len(texts(Append(x, b))) = Len(x) + 1
        BY <2>2, <2>4
      <3> HIDE DEF texts
      <3>4. QED
        BY <3>1, <3>2, <3>3, SeqEqual
    <2>6. TextOfIn(w, Append(x, b)) = TextOfIn(w, x) \o TextIn(w, b)
      <3>1. FlattenSeq(Append(texts(x), TextIn(w, b))) = FlattenSeq(texts(x)) \o TextIn(w, b)
        <4> HIDE DEF texts
        <4>1. QED
          BY <2>1, <2>3, <2>4, FlattenAppend
      <3>2. QED
        BY <2>5, <3>1 DEF TextOfIn
    <2>7. /\ FlattenSeq(Append(x, b)) = FlattenSeq(x) \o b
          /\ FlattenSeq(x) \in Seq(Id)
      BY <2>1, FlattenAppend, FlattenIs
    <2>8. TextIn(w, FlattenSeq(x) \o b) = TextIn(w, FlattenSeq(x)) \o TextIn(w, b)
      BY <2>7, TextConcat
    <2>9. QED
      BY <2>1, <2>2, <2>6, <2>7, <2>8 DEF P
  <1> HIDE DEF P
  <1>3. P = Seq(Seq(Id))
    <2>1. P \in SUBSET Seq(Seq(Id))
      BY DEF P
    <2> HIDE DEF Id
    <2>2. QED
      BY <1>1, <1>2, <2>1, SequencesByInduction
  <1>4. QED
    BY <1>3 DEF P

\* append() adds a line; those before it keep their text.
LEMMA TextGrows ==
    ASSUME NEW w \in Seq(Line), NEW l \in Line
    PROVE  /\ \A b \in Seq(1..Len(w)) : TextIn(Append(w, l), b) = TextIn(w, b)
           /\ \A bs \in Seq(Seq(1..Len(w))) : TextOfIn(Append(w, l), bs) = TextOfIn(w, bs)
           /\ \A d, n : n \in 0..Len(w) => KeptIn(Append(w, l), d, n) = KeptIn(w, d, n)
  <1>1. Len(w) \in Nat /\ \A i \in 1..Len(w) : Append(w, l)[i] = w[i]
    BY AppendProperties
  <1>2. ASSUME NEW b \in Seq(1..Len(w)) PROVE TextIn(Append(w, l), b) = TextIn(w, b)
    <2>1. \A i \in 1..Len(b) : Append(w, l)[b[i]] = w[b[i]]
      BY <1>1, ElementOfSeq
    <2>2. [i \in 1..Len(b) |-> Append(w, l)[b[i]].text] = [i \in 1..Len(b) |-> w[b[i]].text]
      BY <2>1
    <2>3. QED
      BY <2>2 DEF TextIn
  <1>3. ASSUME NEW bs \in Seq(Seq(1..Len(w))) PROVE TextOfIn(Append(w, l), bs) = TextOfIn(w, bs)
    <2>1. \A i \in 1..Len(bs) : bs[i] \in Seq(1..Len(w))
      BY ElementOfSeq
    <2>2. [i \in 1..Len(bs) |-> TextIn(Append(w, l), bs[i])] = [i \in 1..Len(bs) |-> TextIn(w, bs[i])]
      BY <1>2, <2>1
    <2>3. QED
      BY <2>2 DEF TextOfIn
  <1>4. ASSUME NEW d, NEW n \in 0..Len(w) PROVE KeptIn(Append(w, l), d, n) = KeptIn(w, d, n)
    <2>1. \A i \in 1..n : Append(w, l)[i] = w[i]
      BY <1>1
    <2>2. [i \in 1..n |-> IF i \in d THEN <<>> ELSE Append(w, l)[i].text]
          = [i \in 1..n |-> IF i \in d THEN <<>> ELSE w[i].text]
      BY <2>1
    <2>3. QED
      BY <2>2 DEF KeptIn
  <1>5. QED
    BY <1>2, <1>3, <1>4

\* What is kept of the lines up to hi if those after mid are dropped.
LEMMA KeptDrop ==
    ASSUME NEW w \in Seq(Line), NEW lo \in 0..Len(w), NEW mid \in lo..Len(w), NEW hi \in mid..Len(w),
           NEW d \in SUBSET (1..lo)
    PROVE  /\ KeptIn(w, d, lo) \in Seq(Int)
           /\ Ids(lo, mid) \in Seq(1..Len(w))
           /\ KeptIn(w, d \union ((mid + 1)..hi), hi) = KeptIn(w, d, lo) \o TextIn(w, Ids(lo, mid))
  <1> DEFINE e == d \union ((mid + 1)..hi)
             A == [i \in 1..lo |-> IF i \in d THEN <<>> ELSE w[i].text]
             B == [i \in 1..(mid - lo) |-> w[lo + i].text]
             C == [i \in 1..(hi - mid) |-> <<>>]
             K == [i \in 1..hi |-> IF i \in e THEN <<>> ELSE w[i].text]
             M == [i \in 1..mid |-> IF i \in e THEN <<>> ELSE w[i].text]
  <1>0. /\ Len(w) \in Nat /\ lo \in Nat /\ mid \in Nat /\ hi \in Nat
        /\ lo <= mid /\ mid <= hi /\ hi <= Len(w)
    OBVIOUS
  <1>1. \A i \in 1..Len(w) : w[i].text \in Seq(Int)
    <2>1. \A i \in 1..Len(w) : w[i] \in Line
      BY ElementOfSeq
    <2>2. QED
      BY <2>1 DEF Line
  <1>2. <<>> \in Seq(Int)
    BY EmptySeq
  <1>3. A \in Seq(Seq(Int)) /\ Len(A) = lo
    <2>1. \A i \in 1..lo : (IF i \in d THEN <<>> ELSE w[i].text) \in Seq(Int)
      BY <1>0, <1>1, <1>2
    <2>2. QED
      BY <1>0, <2>1
  <1>4. B \in Seq(Seq(Int)) /\ Len(B) = mid - lo
    <2>1. mid - lo \in Nat /\ \A i \in 1..(mid - lo) : w[lo + i].text \in Seq(Int)
      BY <1>0, <1>1
    <2>2. QED
      BY <2>1
  <1>5. C \in Seq(Seq(Int)) /\ Len(C) = hi - mid /\ FlattenSeq(C) = <<>>
    <2>1. hi - mid \in Nat
      BY <1>0
    <2>2. C \in Seq(Seq(Int)) /\ Len(C) = hi - mid /\ \A i \in 1..(hi - mid) : C[i] = <<>>
      BY <1>2, <2>1
    <2> HIDE DEF C
    <2>3. QED
      BY <2>2, FlattenEmpty
  <1>6. M \in Seq(Seq(Int)) /\ Len(M) = mid
    <2>1. \A i \in 1..mid : (IF i \in e THEN <<>> ELSE w[i].text) \in Seq(Int)
      BY <1>0, <1>1, <1>2
    <2> HIDE DEF e
    <2>2. QED
      BY <1>0, <2>1
  <1>7. K \in Seq(Seq(Int)) /\ Len(K) = hi
    <2>1. \A i \in 1..hi : (IF i \in e THEN <<>> ELSE w[i].text) \in Seq(Int)
      BY <1>0, <1>1, <1>2
    <2> HIDE DEF e
    <2>2. QED
      BY <1>0, <2>1
  <1>8. M = A \o B
    <2>1. \A i \in 1..lo : i \in 1..mid /\ (i \in e <=> i \in d)
      BY <1>0
    <2>2. \A i \in 1..lo : M[i] = A[i]
      BY <2>1
    <2>3. \A i \in 1..(mid - lo) : lo + i \in 1..mid /\ lo + i \notin e
      BY <1>0
    <2>4. \A i \in 1..(mid - lo) : M[lo + i] = B[i]
      BY <2>3
    <2>5. Len(M) = Len(A) + Len(B) /\ Agree(M, A, Len(A)) /\ GoesOn(M, Len(A), B)
      BY <1>0, <1>3, <1>4, <1>6, <2>2, <2>4 DEF Agree, GoesOn
    <2> HIDE DEF M, A, B
    <2>6. QED
      BY <1>3, <1>4, <1>6, <2>5, IsConcat
  <1>9. K = M \o C
    <2>1. \A i \in 1..mid : i \in 1..hi /\ K[i] = M[i]
      BY <1>0
    <2>2. \A i \in 1..(hi - mid) : mid + i \in 1..hi /\ mid + i \in e
      BY <1>0
    <2>3. \A i \in 1..(hi - mid) : K[mid + i] = C[i]
      BY <2>2
    <2>4. Len(K) = Len(M) + Len(C) /\ Agree(K, M, Len(M)) /\ GoesOn(K, Len(M), C)
      BY <1>0, <1>5, <1>6, <1>7, <2>1, <2>3 DEF Agree, GoesOn
    <2> HIDE DEF M, K, C
    <2>5. QED
      BY <1>5, <1>6, <1>7, <2>4, IsConcat
  <1>10. Ids(lo, mid) \in Seq(1..Len(w)) /\ TextIn(w, Ids(lo, mid)) = FlattenSeq(B)
    <2>1. mid - lo \in Nat /\ \A i \in 1..(mid - lo) : lo + i \in 1..Len(w)
      BY <1>0
    <2>2. Ids(lo, mid) \in Seq(1..Len(w)) /\ Len(Ids(lo, mid)) = mid - lo
      BY <2>1 DEF Ids
    <2>3. \A i \in 1..(mid - lo) : Ids(lo, mid)[i] = lo + i
      BY DEF Ids
    <2>4. [i \in 1..Len(Ids(lo, mid)) |-> w[Ids(lo, mid)[i]].text] = B
      BY <2>2, <2>3
    <2>5. QED
      BY <2>2, <2>4 DEF TextIn
  <1>11. KeptIn(w, d, lo) = FlattenSeq(A) /\ KeptIn(w, e, hi) = FlattenSeq(K)
    BY DEF KeptIn
  <1> HIDE DEF A, B, C, M, K, e
  <1>12. FlattenSeq(A) \in Seq(Int) /\ FlattenSeq(M) \in Seq(Int)
    BY <1>3, <1>6, FlattenIs
  <1>13. FlattenSeq(K) = FlattenSeq(M) \o <<>> /\ FlattenSeq(M) = FlattenSeq(A) \o FlattenSeq(B)
    BY <1>3, <1>4, <1>5, <1>6, <1>8, <1>9, FlattenConcat
  <1>14. FlattenSeq(K) = FlattenSeq(A) \o FlattenSeq(B)
    BY <1>12, <1>13, ConcatEmptySeq
  <1>15. QED
    BY <1>10, <1>11, <1>12, <1>14 DEF e

-----------------------------------------------------------------------------
(* The files of a LogFile.                                                 *)

Disks == UNION {[D -> Seq(Int)] : D \in SUBSET Nat}
LogFiles == [disk : Disks, name : Nat, buffer : Seq(Int), writtenBytes_ : Nat, count_ : Int,
             checkEveryN_ : Int, startOfPeriod_ : Int, lastFlush_ : Int, faults : {0, 1}]
FileOK(f, t) ==
    /\ f \in LogFiles
    /\ f.name \in DOMAIN f.disk /\ DOMAIN f.disk \subseteq 0..f.name /\ f.name <= t
DiskSeq(d, n) == [i \in 1..(1 + n) |-> IF i - 1 \in DOMAIN d THEN d[i - 1] ELSE <<>>]
OpenDisk(d, n) ==
    IF n \in DOMAIN d THEN d ELSE [m \in DOMAIN d \union {n} |-> IF m = n THEN <<>> ELSE d[m]]
WriteDisk(d, n, s) == [d EXCEPT ![n] = @ \o s]
\* What has gone into the file: what is on disk and what the FILE holds.
Contents(f) == OnDisk(f) \o f.buffer

\* The values of a disk, and those of a disk that a buffer is written to.
LEMMA DiskFacts ==
    ASSUME NEW d \in Disks, NEW n \in DOMAIN d, NEW s \in Seq(Int)
    PROVE  /\ DOMAIN d \subseteq Nat /\ \A m \in DOMAIN d : d[m] \in Seq(Int)
           /\ WriteDisk(d, n, s) \in Disks /\ DOMAIN WriteDisk(d, n, s) = DOMAIN d
           /\ WriteDisk(d, n, s)[n] = d[n] \o s
           /\ \A m \in DOMAIN d : m # n => WriteDisk(d, n, s)[m] = d[m]
  <1>1. PICK D \in SUBSET Nat : d \in [D -> Seq(Int)]
    BY DEF Disks
  <1>2. DOMAIN d = D /\ \A m \in D : d[m] \in Seq(Int)
    BY <1>1
  <1>3. d[n] \o s \in Seq(Int)
    BY <1>2, ConcatProperties
  <1>4. WriteDisk(d, n, s) \in [D -> Seq(Int)]
    BY <1>1, <1>2, <1>3 DEF WriteDisk
  <1>5. /\ WriteDisk(d, n, s)[n] = d[n] \o s
        /\ \A m \in DOMAIN d : m # n => WriteDisk(d, n, s)[m] = d[m]
    BY <1>1, <1>2 DEF WriteDisk
  <1>6. WriteDisk(d, n, s) \in Disks
    BY <1>1, <1>4, Zenon DEF Disks
  <1>7. QED
    BY <1>1, <1>2, <1>4, <1>5, <1>6

\* The files in the order of their names are a sequence of texts.
LEMMA DiskSeqType ==
    ASSUME NEW d \in Disks, NEW n \in Nat
    PROVE  DiskSeq(d, n) \in Seq(Seq(Int)) /\ Len(DiskSeq(d, n)) = 1 + n
  <1>1. PICK D \in SUBSET Nat : d \in [D -> Seq(Int)]
    BY DEF Disks
  <1>2. \A i \in 1..(1 + n) : (IF i - 1 \in DOMAIN d THEN d[i - 1] ELSE <<>>) \in Seq(Int)
    BY <1>1
  <1>3. QED
    BY <1>2 DEF DiskSeq

\* What is written to the last file comes after all that is on disk.
LEMMA DiskWrite ==
    ASSUME NEW d \in Disks, NEW n \in DOMAIN d, DOMAIN d \subseteq 0..n, NEW s \in Seq(Int)
    PROVE  /\ FlattenSeq(DiskSeq(d, n)) \in Seq(Int)
           /\ FlattenSeq(DiskSeq(WriteDisk(d, n, s), n)) = FlattenSeq(DiskSeq(d, n)) \o s
  <1> DEFINE w == WriteDisk(d, n, s)
             H == [i \in 1..n |-> IF i - 1 \in DOMAIN d THEN d[i - 1] ELSE <<>>]
  <1>1. /\ n \in Nat /\ \A m \in DOMAIN d : d[m] \in Seq(Int)
        /\ w \in Disks /\ DOMAIN w = DOMAIN d /\ w[n] = d[n] \o s
        /\ \A m \in DOMAIN d : m # n => w[m] = d[m]
    BY DiskFacts
  <1> HIDE DEF w
  <1>2. H \in Seq(Seq(Int)) /\ Len(H) = n /\ d[n] \in Seq(Int) /\ w[n] \in Seq(Int)
    <2>1. \A i \in 1..n : (IF i - 1 \in DOMAIN d THEN d[i - 1] ELSE <<>>) \in Seq(Int)
      BY <1>1
    <2>2. d[n] \o s \in Seq(Int)
      BY <1>1, ConcatProperties
    <2>3. H \in [1..n -> Seq(Int)]
      BY <2>1
    <2> HIDE DEF H
    <2>4. H \in Seq(Seq(Int)) /\ Len(H) = n
      BY <1>1, <2>3, FunctionIsSequence
    <2>5. QED
      BY <1>1, <2>2, <2>4
  <1>3. ASSUME NEW e \in Disks, DOMAIN e = DOMAIN d, e[n] \in Seq(Int),
               \A m \in DOMAIN d : m # n => e[m] = d[m]
        PROVE  DiskSeq(e, n) = Append(H, e[n])
    <2>1. DiskSeq(e, n) \in Seq(Seq(Int)) /\ Len(DiskSeq(e, n)) = 1 + n
      BY <1>1, DiskSeqType
    <2>2. /\ Append(H, e[n]) \in Seq(Seq(Int)) /\ Len(Append(H, e[n])) = n + 1
          /\ Append(H, e[n])[n + 1] = e[n] /\ \A i \in 1..n : Append(H, e[n])[i] = H[i]
      <3> HIDE DEF H
      <3>1. QED
        BY <1>2, <1>3, AppendProperties
    <2>3. ASSUME NEW i \in 1..(1 + n) PROVE DiskSeq(e, n)[i] = Append(H, e[n])[i]
      <3>1. DiskSeq(e, n)[i] = IF i - 1 \in DOMAIN e THEN e[i - 1] ELSE <<>>
        BY DEF DiskSeq
      <3>2. CASE i = n + 1
        BY <1>1, <1>3, <2>2, <3>1, <3>2
      <3>3. CASE i # n + 1
        <4>1. i \in 1..n /\ i - 1 # n
          BY <1>1, <3>3
        <4>2. H[i] = IF i - 1 \in DOMAIN d THEN d[i - 1] ELSE <<>>
          BY <4>1
        <4>3. QED
          BY <1>3, <2>2, <3>1, <4>1, <4>2
      <3>4. QED
        BY <3>2, <3>3
    <2> DEFINE a == DiskSeq(e, n)
               b == Append(H, e[n])
    <2>4. a \in Seq(Seq(Int)) /\ b \in Seq(Seq(Int)) /\ Len(a) = Len(b)
          /\ \A i \in 1..Len(a) : a[i] = b[i]
      BY <1>1, <2>1, <2>2, <2>3
    <2> HIDE DEF a, b
    <2>5. a = b
      BY <2>4, SeqEqual
    <2>6. QED
      BY <2>5 DEF a, b
  <1> HIDE DEF H
  <1>4. DiskSeq(d, n) = Append(H, d[n]) /\ DiskSeq(w, n) = Append(H, w[n])
    BY <1>1, <1>2, <1>3
  <1>5. /\ FlattenSeq(DiskSeq(d, n)) = FlattenSeq(H) \o d[n]
        /\ FlattenSeq(DiskSeq(w, n)) = FlattenSeq(H) \o w[n]
    BY <1>2, <1>4, FlattenAppend
  <1>6. FlattenSeq(H) \in Seq(Int)
    BY <1>2, FlattenIs
  <1>7. FlattenSeq(H) \o (d[n] \o s) = (FlattenSeq(H) \o d[n]) \o s
    <2>1. Associates(FlattenSeq(H), d[n], s)
      BY <1>2, <1>6, ConcatAssociates
    <2>2. QED
      BY <2>1 DEF Associates
  <1>8. FlattenSeq(H) \o d[n] \in Seq(Int)
    BY <1>2, <1>6, ConcatProperties
  <1>9. QED
    BY <1>1, <1>5, <1>7, <1>8 DEF w

\* A file that is opened, new or again, adds nothing to what is on disk.
LEMMA DiskOpen ==
    ASSUME NEW d \in Disks, NEW n \in Nat, DOMAIN d \subseteq 0..n, NEW t \in Nat, n <= t
    PROVE  /\ OpenDisk(d, t) \in Disks /\ DOMAIN OpenDisk(d, t) = DOMAIN d \union {t}
           /\ FlattenSeq(DiskSeq(OpenDisk(d, t), t)) = FlattenSeq(DiskSeq(d, n))
  <1> DEFINE o == OpenDisk(d, t)
             C == [i \in 1..(t - n) |-> <<>>]
             p == DiskSeq(d, n)
             r == DiskSeq(o, t)
  <1>1. PICK D \in SUBSET Nat : d \in [D -> Seq(Int)]
    BY DEF Disks
  <1>2. o \in [D \union {t} -> Seq(Int)] /\ D \union {t} \in SUBSET Nat
    <2>1. CASE t \in D
      <3>1. D \union {t} = D
        BY <2>1
      <3>2. QED
        BY <1>1, <2>1, <3>1 DEF OpenDisk
    <2>2. CASE t \notin D
      BY <1>1, <2>2 DEF OpenDisk
    <2>3. QED
      BY <2>1, <2>2
  <1>3. o \in Disks
    BY <1>2, Zenon DEF Disks
  <1>4. DOMAIN d = D /\ DOMAIN o = D \union {t} /\ \A m \in D : o[m] = d[m]
    <2>1. \A m \in D : o[m] = d[m]
      BY <1>1 DEF OpenDisk
    <2>2. QED
      BY <1>1, <1>2, <2>1
  <1>5. t \notin D => o[t] = <<>>
    BY <1>1 DEF OpenDisk
  <1> HIDE DEF o
  <1>6. /\ p \in Seq(Seq(Int)) /\ Len(p) = 1 + n /\ r \in Seq(Seq(Int)) /\ Len(r) = 1 + t
    BY <1>3, DiskSeqType
  <1>7. C \in Seq(Seq(Int)) /\ Len(C) = t - n /\ FlattenSeq(C) = <<>>
    <2>1. t - n \in Nat
      OBVIOUS
    <2>2. C \in Seq(Seq(Int)) /\ Len(C) = t - n /\ \A i \in 1..(t - n) : C[i] = <<>>
      BY <2>1
    <2> HIDE DEF C
    <2>3. QED
      BY <2>2, FlattenEmpty
  <1>8. \A i \in 1..(1 + t) : r[i] = IF i - 1 \in DOMAIN o THEN o[i - 1] ELSE <<>>
    BY DEF DiskSeq
  <1>9. \A i \in 1..(1 + n) : p[i] = IF i - 1 \in DOMAIN d THEN d[i - 1] ELSE <<>>
    BY DEF DiskSeq
  <1> HIDE DEF p, r
  <1>10. Agree(r, p, Len(p))
    <2> SUFFICES ASSUME NEW i \in 1..(1 + n) PROVE r[i] = p[i]
      BY <1>6 DEF Agree
    <2>1. i \in 1..(1 + t)
      OBVIOUS
    <2>2. QED
      BY <1>4, <1>5, <1>8, <1>9, <2>1
  <1>11. GoesOn(r, Len(p), C)
    <2> SUFFICES ASSUME NEW i \in 1..(t - n) PROVE r[(1 + n) + i] = <<>>
      BY <1>6, <1>7 DEF GoesOn
    <2>1. (1 + n) + i \in 1..(1 + t) /\ ((1 + n) + i) - 1 \notin D
      BY <1>4
    <2>2. QED
      BY <1>4, <1>5, <1>8, <2>1
  <1>12. r = p \o C
    <2>1. Len(r) = Len(p) + Len(C)
      BY <1>6, <1>7
    <2> HIDE DEF C
    <2>2. QED
      BY <1>6, <1>7, <1>10, <1>11, <2>1, IsConcat
  <1> HIDE DEF C
  <1>13. FlattenSeq(r) = FlattenSeq(p) \o <<>> /\ FlattenSeq(p) \in Seq(Int)
    <2>1. FlattenSeq(p \o C) = FlattenSeq(p) \o FlattenSeq(C)
      BY <1>6, <1>7, FlattenConcat
    <2>2. FlattenSeq(p) \in Seq(Int)
      BY <1>6, FlattenIs
    <2>3. QED
      BY <1>7, <1>12, <2>1, <2>2
  <1>14. FlattenSeq(r) = FlattenSeq(p)
    BY <1>13, ConcatEmptySeq
  <1>15. QED
    BY <1>3, <1>4, <1>14 DEF o, p, r

\* flush(): what the FILE held is on disk.
LEMMA FlushKeeps ==
    ASSUME NEW t \in Nat, NEW f, FileOK(f, t)
    PROVE  /\ FileOK(FlushFile(f), t) /\ FlushFile(f).buffer = <<>>
           /\ FlushFile(f).faults = f.faults
           /\ Contents(FlushFile(f)) = Contents(f) /\ Contents(f) \in Seq(Int)
  <1> DEFINE d == WriteDisk(f.disk, f.name, f.buffer)
             g == FlushFile(f)
  <1>1. /\ f \in LogFiles /\ f.disk \in Disks /\ f.name \in DOMAIN f.disk
        /\ DOMAIN f.disk \subseteq 0..f.name /\ f.buffer \in Seq(Int) /\ f.name \in Nat
    BY DEF FileOK, LogFiles
  <1>2. d \in Disks /\ DOMAIN d = DOMAIN f.disk
    <2> DEFINE k == f.disk  n == f.name  s == f.buffer
    <2>1. k \in Disks /\ n \in DOMAIN k /\ s \in Seq(Int)
      BY <1>1
    <2> HIDE DEF k, n, s
    <2>2. WriteDisk(k, n, s) \in Disks /\ DOMAIN WriteDisk(k, n, s) = DOMAIN k
      BY <2>1, DiskFacts
    <2>3. QED
      BY <2>2 DEF k, n, s
  <1>3. /\ FlattenSeq(DiskSeq(f.disk, f.name)) \in Seq(Int)
        /\ FlattenSeq(DiskSeq(d, f.name)) = FlattenSeq(DiskSeq(f.disk, f.name)) \o f.buffer
    BY <1>1, DiskWrite
  <1>4. g = [f EXCEPT !.disk = d, !.buffer = <<>>]
    BY <1>1 DEF FlushFile, WriteDisk, LogFiles
  <1> HIDE DEF d, g
  <1>5. /\ g \in LogFiles /\ g.disk = d /\ g.name = f.name /\ g.buffer = <<>>
        /\ g.faults = f.faults
    <2>1. <<>> \in Seq(Int)
      BY EmptySeq
    <2>2. QED
      BY <1>1, <1>2, <1>4, <2>1 DEF LogFiles
  <1>6. OnDisk(g) = FlattenSeq(DiskSeq(d, f.name)) /\ OnDisk(f) = FlattenSeq(DiskSeq(f.disk, f.name))
    BY <1>5 DEF OnDisk, DiskSeq
  <1>7. OnDisk(f) \o f.buffer \in Seq(Int)
    BY <1>1, <1>3, <1>6, ConcatProperties
  <1>8. OnDisk(g) \o <<>> = OnDisk(f) \o f.buffer
    BY <1>3, <1>6, <1>7, ConcatEmptySeq
  <1>9. FileOK(g, t)
    BY <1>1, <1>2, <1>5 DEF FileOK
  <1>10. QED
    BY <1>5, <1>7, <1>8, <1>9 DEF Contents, g

\* rollFile(): the old file gets what its FILE held, and the new one is empty or goes on
\* where the same file ended.
LEMMA RollKeeps ==
    ASSUME NEW t \in Nat, NEW f, FileOK(f, t)
    PROVE  /\ FileOK(rollFile(f, t), t) /\ rollFile(f, t).faults = f.faults
           /\ Contents(rollFile(f, t)) = Contents(f)
  <1> DEFINE d == WriteDisk(f.disk, f.name, f.buffer)
             o == OpenDisk(f.disk, t)
             e == OpenDisk(d, t)
             r == rollFile(f, t)
  <1>1. /\ f \in LogFiles /\ f.disk \in Disks /\ f.name \in DOMAIN f.disk
        /\ DOMAIN f.disk \subseteq 0..f.name /\ f.buffer \in Seq(Int) /\ f.name \in Nat
        /\ f.name <= t
    BY DEF FileOK, LogFiles
  <1>2. /\ d \in Disks /\ DOMAIN d = DOMAIN f.disk
        /\ \A m \in DOMAIN f.disk :
             d[m] = IF m = f.name THEN f.disk[f.name] \o f.buffer ELSE f.disk[m]
    <2>1. ASSUME NEW c \in Disks, NEW n \in DOMAIN c, NEW u \in Seq(Int)
          PROVE  \A m \in DOMAIN c : WriteDisk(c, n, u)[m] = IF m = n THEN c[n] \o u ELSE c[m]
      <3>1. /\ WriteDisk(c, n, u)[n] = c[n] \o u
            /\ \A m \in DOMAIN c : m # n => WriteDisk(c, n, u)[m] = c[m]
        BY DiskFacts
      <3>2. QED
        BY <3>1
    <2>2. d \in Disks /\ DOMAIN d = DOMAIN f.disk
      <3> DEFINE k == f.disk  n == f.name  s == f.buffer
      <3>1. k \in Disks /\ n \in DOMAIN k /\ s \in Seq(Int)
        BY <1>1
      <3> HIDE DEF k, n, s
      <3>2. WriteDisk(k, n, s) \in Disks /\ DOMAIN WriteDisk(k, n, s) = DOMAIN k
        BY <3>1, DiskFacts
      <3>3. QED
        BY <3>2 DEF k, n, s
    <2>3. QED
      BY <1>1, <2>1, <2>2
  <1>3. /\ FlattenSeq(DiskSeq(f.disk, f.name)) \in Seq(Int)
        /\ FlattenSeq(DiskSeq(d, f.name)) = FlattenSeq(DiskSeq(f.disk, f.name)) \o f.buffer
    BY <1>1, DiskWrite
  <1>4. /\ o \in Disks /\ DOMAIN o = DOMAIN f.disk \union {t}
    BY <1>1, DiskOpen
  <1>5. /\ e \in Disks /\ DOMAIN e = DOMAIN f.disk \union {t}
        /\ FlattenSeq(DiskSeq(e, t)) = FlattenSeq(DiskSeq(d, f.name))
    <2> DEFINE n == f.name
    <2>1. d \in Disks /\ n \in Nat /\ DOMAIN d \subseteq 0..n /\ n <= t
      BY <1>1, <1>2
    <2> HIDE DEF d, n
    <2>2. /\ OpenDisk(d, t) \in Disks /\ DOMAIN OpenDisk(d, t) = DOMAIN d \union {t}
          /\ FlattenSeq(DiskSeq(OpenDisk(d, t), t)) = FlattenSeq(DiskSeq(d, n))
      BY <2>1, DiskOpen
    <2>3. QED
      BY <1>2, <2>2 DEF n
  <1>6. WriteDisk(o, f.name, f.buffer) = e
    <2> HIDE DEF d
    <2>1. CASE t \in DOMAIN f.disk
      <3>1. o = f.disk /\ e = d
        BY <1>2, <2>1 DEF OpenDisk
      <3>2. QED
        BY <3>1 DEF d
    <2>2. CASE t \notin DOMAIN f.disk
      <3>1. /\ o = [m \in DOMAIN f.disk \union {t} |-> IF m = t THEN <<>> ELSE f.disk[m]]
            /\ e = [m \in DOMAIN f.disk \union {t} |-> IF m = t THEN <<>> ELSE d[m]]
        BY <1>2, <2>2 DEF OpenDisk
      <3>2. WriteDisk(o, f.name, f.buffer)
              = [m \in DOMAIN f.disk \union {t} |->
                   IF m = f.name THEN o[f.name] \o f.buffer ELSE o[m]]
        BY <1>1, <3>1 DEF WriteDisk
      <3>3. \A m \in DOMAIN f.disk \union {t} :
              (IF m = f.name THEN o[f.name] \o f.buffer ELSE o[m]) = IF m = t THEN <<>> ELSE d[m]
        BY <1>1, <1>2, <2>2, <3>1
      <3> HIDE DEF o, e
      <3>4. QED
        BY <3>1, <3>2, <3>3
    <2>3. QED
      BY <2>1, <2>2
  <1>7. PeriodOf(t) \in Int
    BY FileAssumption DEF PeriodOf
  <1>8. Len(o[t]) \in Nat
    <2>1. o[t] \in Seq(Int)
      BY <1>4, DiskFacts, EmptySeq
    <2>2. QED
      BY <2>1
  <1>9. OpenFile(f, t) = [f EXCEPT !.disk = o, !.name = t, !.buffer = <<>>,
                                   !.writtenBytes_ = Len(o[t])]
    BY DEF OpenFile, OpenDisk
  <1> HIDE DEF o
  <1>10. /\ OpenFile(f, t) \in LogFiles /\ OpenFile(f, t).disk = o /\ OpenFile(f, t).name = t
         /\ OpenFile(f, t).buffer = <<>> /\ OpenFile(f, t).faults = f.faults
    <2>1. <<>> \in Seq(Int)
      BY EmptySeq
    <2> DEFINE l == Len(o[t])
    <2> HIDE DEF l
    <2>2. l \in Nat
      BY <1>8 DEF l
    <2>3. OpenFile(f, t) = [f EXCEPT !.disk = o, !.name = t, !.buffer = <<>>, !.writtenBytes_ = l]
      BY <1>9 DEF l
    <2>4. QED
      BY <1>1, <1>4, <2>1, <2>2, <2>3 DEF LogFiles
  <1>11. r = [OpenFile(f, t) EXCEPT !.disk = WriteDisk(o, f.name, f.buffer),
                                    !.startOfPeriod_ = PeriodOf(t)]
    BY <1>10 DEF rollFile, WriteDisk, LogFiles
  <1> HIDE DEF d, e, r
  <1>12. /\ r \in LogFiles /\ r.disk = e /\ r.name = t /\ r.buffer = <<>> /\ r.faults = f.faults
    BY <1>5, <1>6, <1>7, <1>10, <1>11 DEF LogFiles
  <1>13. OnDisk(r) = FlattenSeq(DiskSeq(e, t)) /\ OnDisk(f) = FlattenSeq(DiskSeq(f.disk, f.name))
    BY <1>12 DEF OnDisk, DiskSeq
  <1>14. OnDisk(f) \o f.buffer \in Seq(Int)
    BY <1>1, <1>3, <1>13, ConcatProperties
  <1>15. OnDisk(r) \o <<>> = OnDisk(f) \o f.buffer
    BY <1>3, <1>5, <1>13, <1>14, ConcatEmptySeq
  <1>16. FileOK(r, t)
    BY <1>1, <1>5, <1>12 DEF FileOK
  <1>17. QED
    BY <1>12, <1>15, <1>16 DEF Contents, r

\* append_unlocked() after the append: whatever it decides, the text is the same.
LEMMA AfterAppendKeeps ==
    ASSUME NEW t \in Nat, NEW f, FileOK(f, t)
    PROVE  /\ FileOK(AfterAppend(f, t), t) /\ AfterAppend(f, t).faults = f.faults
           /\ Contents(AfterAppend(f, t)) = Contents(f)
  <1> DEFINE due == f.count_ + 1 >= f.checkEveryN_
             c == IF due THEN 0 ELSE f.count_ + 1
             g == [f EXCEPT !.count_ = c]
             Same(h) == FileOK(h, t) /\ h.faults = f.faults /\ Contents(h) = Contents(f)
  <1>1. f \in LogFiles /\ f.count_ \in Int
    BY DEF FileOK, LogFiles
  <1>2. /\ g \in LogFiles /\ g.disk = f.disk /\ g.name = f.name /\ g.buffer = f.buffer
        /\ g.faults = f.faults
    <2>1. c \in Int
      BY <1>1
    <2> HIDE DEF c
    <2>2. QED
      BY <1>1, <2>1 DEF LogFiles
  <1> HIDE DEF g
  <1>3. Same(g)
    BY <1>2 DEF FileOK, Contents, OnDisk
  <1>4. Same(rollFile(f, t)) /\ Same(rollFile(g, t))
    BY <1>3, RollKeeps
  <1>5. Same([FlushFile(g) EXCEPT !.lastFlush_ = t])
    <2> DEFINE h == FlushFile(g)
    <2>1. Same(h)
      BY <1>3, FlushKeeps
    <2>2. h \in LogFiles
      BY <2>1 DEF FileOK
    <2> HIDE DEF h
    <2> DEFINE k == [h EXCEPT !.lastFlush_ = t]
    <2>3. /\ k \in LogFiles /\ k.disk = h.disk /\ k.name = h.name /\ k.buffer = h.buffer
          /\ k.faults = h.faults
      <3>1. k \in LogFiles
        BY <2>2 DEF LogFiles
      <3>2. k.disk = h.disk /\ k.name = h.name /\ k.buffer = h.buffer
        BY <2>2 DEF LogFiles
      <3>3. k.faults = h.faults
        BY <2>2 DEF LogFiles
      <3>4. QED
        BY <3>1, <3>2, <3>3
    <2> HIDE DEF k
    <2>4. Same(k)
      BY <2>1, <2>3 DEF FileOK, Contents, OnDisk
    <2>5. QED
      BY <2>4 DEF k, h
  <1> HIDE DEF Same
  <1>6. Same(AfterAppend(f, t))
    BY <1>3, <1>4, <1>5 DEF AfterAppend, g
  <1>7. QED
    BY <1>6 DEF Same

\* append() of the LogFile: without a failing fwrite() the text is added at the end.
LEMMA AppendKeeps ==
    ASSUME NEW t \in Nat, NEW f, FileOK(f, t), NEW s \in Seq(Int),
           NEW h \in LogFileAppend(f, s, t)
    PROVE  /\ FileOK(h, t)
           /\ h.faults = 0 => f.faults = 0 /\ Contents(h) = Contents(f) \o s
  <1> DEFINE Same(g, k) == FileOK(k, t) /\ k.faults = g.faults /\ Contents(k) = Contents(g)
             Good(k) == FileOK(k, t) /\ (k.faults = 0 => f.faults = 0 /\ Contents(k) = Contents(f) \o s)
  <1>1. PICK g \in AppendFile(f, s) : h = AfterAppend(g, t)
    BY DEF LogFileAppend
  <1>2. PICK k \in Fwritten(f, s) : g = k \/ g = FlushFile(k)
    BY <1>1 DEF AppendFile
  <1>3. /\ f \in LogFiles /\ f.buffer \in Seq(Int) /\ f.writtenBytes_ \in Nat /\ f.faults \in {0, 1}
        /\ f.disk \in Disks /\ f.name \in DOMAIN f.disk /\ DOMAIN f.disk \subseteq 0..f.name
    BY DEF FileOK, LogFiles
  <1>4. Good(k)
    <2> DEFINE short == UNION {{SubSeq(s, 1, n), SubSeq(s, 1, n) \o SubSeq(s, 1, Len(s) - n)} :
                                 n \in {0, 1} \intersect 0..(Len(s) - 1)}
               taken == {s} \union (IF f.faults = 1 THEN {} ELSE short)
               With(u) == [f EXCEPT !.buffer = @ \o u, !.writtenBytes_ = @ + Len(u),
                                    !.faults = IF u = s THEN @ ELSE 1]
    <2>1. \A u \in short : u \in Seq(Int)
      <3> SUFFICES ASSUME NEW n \in {0, 1} \intersect 0..(Len(s) - 1),
                          NEW u \in {SubSeq(s, 1, n), SubSeq(s, 1, n) \o SubSeq(s, 1, Len(s) - n)}
                   PROVE  u \in Seq(Int)
        BY Zenon
      <3>1. n \in Int /\ Len(s) \in Nat /\ n <= Len(s) /\ Len(s) - n \in Int
        OBVIOUS
      <3>2. SubSeq(s, 1, n) \in Seq(Int) /\ SubSeq(s, 1, Len(s) - n) \in Seq(Int)
        BY <3>1
      <3>3. SubSeq(s, 1, n) \o SubSeq(s, 1, Len(s) - n) \in Seq(Int)
        BY <3>2, ConcatProperties
      <3>4. QED
        BY <3>2, <3>3
    <2>2. Fwritten(f, s) = {With(u) : u \in taken}
      BY DEF Fwritten
    <2> HIDE DEF short
    <2>3. PICK u \in taken : k = With(u)
      BY <1>2, <2>2
    <2>4. u \in Seq(Int)
      BY <2>1, <2>3
    <2>5. f.buffer \o u \in Seq(Int) /\ f.writtenBytes_ + Len(u) \in Nat
      <3>1. f.buffer \o u \in Seq(Int)
        BY <1>3, <2>4, ConcatProperties
      <3>2. Len(u) \in Nat
        BY <2>4
      <3>3. QED
        BY <1>3, <3>1, <3>2
    <2>6. /\ k \in LogFiles /\ k.disk = f.disk /\ k.name = f.name /\ k.buffer = f.buffer \o u
          /\ k.faults = IF u = s THEN f.faults ELSE 1
      BY <1>3, <2>3, <2>5 DEF LogFiles
    <2>7. FileOK(k, t) /\ OnDisk(k) = OnDisk(f)
      BY <2>6 DEF FileOK, OnDisk
    <2>8. OnDisk(f) \in Seq(Int)
      <3>1. FlattenSeq(DiskSeq(f.disk, f.name)) \in Seq(Int)
        BY <1>3, DiskWrite
      <3>2. QED
        BY <3>1 DEF OnDisk, DiskSeq
    <2>9. (OnDisk(f) \o f.buffer) \o s = OnDisk(f) \o (f.buffer \o s)
      <3>1. Associates(OnDisk(f), f.buffer, s)
        BY <1>3, <2>8, ConcatAssociates
      <3>2. QED
        BY <3>1 DEF Associates
    <2>10. k.faults = 0 => u = s /\ f.faults = 0
      BY <2>6
    <2>11. QED
      BY <2>6, <2>7, <2>9, <2>10 DEF Contents
  <1>5. Same(k, g)
    BY <1>2, <1>4, FlushKeeps
  <1>6. Same(g, h)
    BY <1>1, <1>5, AfterAppendKeeps
  <1>7. QED
    BY <1>4, <1>5, <1>6

-----------------------------------------------------------------------------
(* The digits of a number.                                                 *)

Abs(i) == IF i < 0 THEN -i ELSE i
Bases == {10, 16}

\* Division towards zero, and what digits[] holds for each remainder.
LEMMA Division ==
    ASSUME NEW base \in Bases, NEW i \in Int
    PROVE  /\ Quotient(i, base) \in Int /\ Remainder(i, base) \in Int
           /\ Abs(i) = base * Abs(Quotient(i, base)) + Abs(Remainder(i, base))
           /\ Abs(Remainder(i, base)) \in 0..(base - 1)
           /\ Quotient(i, base) # 0 => Abs(Quotient(i, base)) < Abs(i)
           /\ i >= 0 => Quotient(i, base) >= 0 /\ Remainder(i, base) >= 0
  <1>1. CASE base = 10
    BY <1>1 DEF Quotient, Remainder, Abs
  <1>2. CASE base = 16
    BY <1>2 DEF Quotient, Remainder, Abs
  <1>3. QED
    BY <1>1, <1>2 DEF Bases

\* zero[lsd] is the digit of lsd without its sign.
LEMMA DigitIs ==
    ASSUME NEW base \in Bases, NEW i \in Int
    PROVE  /\ digit(Remainder(i, base), base) \in Int
           /\ base = 10 \/ i >= 0 => digit(Remainder(i, base), base) = Abs(Remainder(i, base))
  <1>1. /\ Remainder(i, base) \in Int /\ Abs(Remainder(i, base)) \in 0..(base - 1)
        /\ i >= 0 => Remainder(i, base) >= 0
    BY Division
  <1> DEFINE r == Remainder(i, base)
  <1> HIDE DEF r
  <1>2. CASE base = 10
    <2>1. r \in -9..9
      BY <1>1, <1>2 DEF Abs, r
    <2>2. r \in 0..9 => zero(r) = r
      BY DEF zero
    <2>3. r \in -9..-1 => zero(r) = -r
      BY DEF zero
    <2>4. QED
      BY <1>2, <2>1, <2>2, <2>3 DEF digit, Abs, r
  <1>3. CASE base = 16
    BY <1>1, <1>3 DEF digit, Abs
  <1>4. QED
    BY <1>2, <1>3 DEF Bases

\* Induction over the integers by their size.
LEMMA IntegersByInduction ==
    ASSUME NEW P \in SUBSET Int,
           \A i \in Int : (\A j \in Int : Abs(j) < Abs(i) => j \in P) => i \in P
    PROVE  P = Int
  <1> SUFFICES ASSUME NEW k \in Int \ P PROVE FALSE
    OBVIOUS
  <1> DEFINE T == {n \in Nat : \E i \in Int \ P : n = Abs(i)}
  <1>1. Abs(k) \in T
    BY DEF Abs
  <1>2. T \in SUBSET Nat /\ T # {}
    BY <1>1
  <1>3. PICK n \in T : \A m \in T : n <= m
    BY <1>2, LeastNumber
  <1>4. PICK i \in Int \ P : n = Abs(i)
    BY <1>3
  <1>5. ASSUME NEW j \in Int, Abs(j) < Abs(i), j \notin P PROVE FALSE
    <2>1. Abs(j) \in T /\ Abs(j) \in Nat /\ n \in Nat
      BY <1>3, <1>5 DEF Abs
    <2>2. QED
      BY <1>3, <1>4, <1>5, <2>1
  <1>6. QED
    BY <1>4, <1>5

\* One round of the loop, and a function that gives what the loop puts.
Round(g, base, i) ==
    <<digit(Remainder(i, base), base)>>
    \o (IF Quotient(i, base) # 0 THEN g[Quotient(i, base)] ELSE <<>>)
PutsUpTo(g, base, n) == \A i \in Int : Abs(i) <= n => g[i] = Round(g, base, i)

\* Two such functions agree where both are defined.
LEMMA PutsAgree ==
    ASSUME NEW base \in Bases, NEW g, NEW h, NEW n \in Nat, NEW m \in Nat,
           PutsUpTo(g, base, n), PutsUpTo(h, base, m)
    PROVE  \A i \in Int : Abs(i) <= n /\ Abs(i) <= m => g[i] = h[i]
  <1> DEFINE P == {i \in Int : Abs(i) <= n /\ Abs(i) <= m => g[i] = h[i]}
  <1>1. ASSUME NEW i \in Int, \A j \in Int : Abs(j) < Abs(i) => j \in P PROVE i \in P
    <2> SUFFICES ASSUME Abs(i) <= n, Abs(i) <= m PROVE g[i] = h[i]
      OBVIOUS
    <2> DEFINE q == Quotient(i, base)
    <2>1. q \in Int /\ (q # 0 => Abs(q) < Abs(i))
      BY Division
    <2>2. q # 0 => q \in P /\ Abs(q) <= n /\ Abs(q) <= m
      <3>1. Abs(q) \in Int /\ Abs(i) \in Int
        BY <2>1 DEF Abs
      <3>2. QED
        BY <1>1, <2>1, <3>1
    <2>3. q # 0 => g[q] = h[q]
      BY <2>2
    <2>4. g[i] = Round(g, base, i) /\ h[i] = Round(h, base, i)
      BY DEF PutsUpTo
    <2>5. QED
      BY <2>3, <2>4 DEF Round
  <1> HIDE DEF P
  <1>2. P = Int
    <2>1. P \in SUBSET Int
      BY DEF P
    <2>2. QED
      BY <1>1, <2>1, IntegersByInduction
  <1>3. QED
    BY <1>2 DEF P

\* The loop ends: there is such a function up to every number.
LEMMA PutsExists ==
    ASSUME NEW base \in Bases, NEW n \in Nat
    PROVE  \E g \in [Int -> Seq(Int)] : PutsUpTo(g, base, n)
  <1> DEFINE T == {k \in Nat : \E g \in [Int -> Seq(Int)] : PutsUpTo(g, base, k)}
  <1>1. ASSUME NEW k \in Nat, NEW g \in [Int -> Seq(Int)],
               \A i \in Int : Abs(i) < k => g[i] = Round(g, base, i)
        PROVE  k \in T
    <2> DEFINE h == [i \in Int |-> IF Abs(i) = k THEN Round(g, base, i) ELSE g[i]]
    <2>1. ASSUME NEW i \in Int PROVE Round(g, base, i) \in Seq(Int)
      <3> DEFINE a == <<digit(Remainder(i, base), base)>>
                 b == IF Quotient(i, base) # 0 THEN g[Quotient(i, base)] ELSE <<>>
      <3>1. a \in Seq(Int)
        BY DigitIs
      <3>2. b \in Seq(Int)
        BY Division, EmptySeq
      <3> HIDE DEF a, b
      <3>3. a \o b \in Seq(Int)
        BY <3>1, <3>2, ConcatProperties
      <3>4. QED
        BY <3>3 DEF Round, a, b
    <2>2. h \in [Int -> Seq(Int)]
      BY <2>1
    <2>3. ASSUME NEW i \in Int, Abs(i) <= k PROVE h[i] = Round(h, base, i)
      <3> DEFINE q == Quotient(i, base)
      <3>1. q \in Int /\ Abs(q) \in Int /\ Abs(i) \in Int /\ (q # 0 => Abs(q) < Abs(i))
        BY Division DEF Abs
      <3>2. q # 0 => Abs(q) < k
        BY <2>3, <3>1
      <3>3. q # 0 => h[q] = g[q]
        BY <3>1, <3>2
      <3> HIDE DEF q
      <3>4. Round(h, base, i) = Round(g, base, i)
        BY <3>3 DEF Round, q
      <3>5. g[i] = Round(g, base, i) \/ Abs(i) = k
        BY <1>1, <2>3, <3>1
      <3>6. QED
        BY <3>4, <3>5
    <2> HIDE DEF h
    <2>4. PutsUpTo(h, base, k)
      BY <2>3 DEF PutsUpTo
    <2>5. QED
      BY <2>2, <2>4
  <1>2. 0 \in T
    <2> DEFINE g == [i \in Int |-> <<>>]
    <2>1. g \in [Int -> Seq(Int)]
      BY EmptySeq
    <2>2. \A i \in Int : ~(Abs(i) < 0)
      BY DEF Abs
    <2> HIDE DEF g, T
    <2>3. QED
      BY <1>1, <2>1, <2>2
  <1>3. ASSUME NEW k \in T PROVE k + 1 \in T
    <2>1. PICK g \in [Int -> Seq(Int)] : PutsUpTo(g, base, k)
      BY <1>3
    <2>2. k \in Nat /\ k + 1 \in Nat
      OBVIOUS
    <2>3. \A i \in Int : Abs(i) < k + 1 => g[i] = Round(g, base, i)
      <3>1. \A i \in Int : Abs(i) \in Int
        BY DEF Abs
      <3>2. QED
        BY <2>1, <2>2, <3>1 DEF PutsUpTo
    <2> HIDE DEF T
    <2>4. QED
      BY <1>1, <2>1, <2>2, <2>3
  <1> HIDE DEF T
  <1>4. T = Nat
    <2>1. T \in SUBSET Nat
      BY DEF T
    <2>2. QED
      BY <1>2, <1>3, <2>1, NumbersByInduction
  <1>5. QED
    BY <1>4 DEF T

\* Digits puts the last digit and then those of the quotient.
LEMMA DigitsIs ==
    ASSUME NEW base \in Bases, NEW v \in Int
    PROVE  /\ Digits(v, base) \in Seq(Int)
           /\ Digits(v, base) = <<digit(Remainder(v, base), base)>>
                \o (IF Quotient(v, base) # 0 THEN Digits(Quotient(v, base), base) ELSE <<>>)
  <1> DEFINE G(n) == CHOOSE g \in [Int -> Seq(Int)] : PutsUpTo(g, base, n)
             f == [i \in Int |-> G(Abs(i))[i]]
             E(h) == h = [i \in Int |-> Round(h, base, i)]
             D == CHOOSE h : E(h)
  <1>1. ASSUME NEW n \in Nat PROVE G(n) \in [Int -> Seq(Int)] /\ PutsUpTo(G(n), base, n)
    BY PutsExists
  <1>2. \A i \in Int : Abs(i) \in Nat
    BY DEF Abs
  <1> HIDE DEF G
  <1>3. ASSUME NEW i \in Int PROVE f[i] = Round(f, base, i)
    <2> DEFINE q == Quotient(i, base)
    <2>1. q \in Int /\ (q # 0 => Abs(q) < Abs(i))
      BY Division
    <2>2. q # 0 => G(Abs(i))[q] = G(Abs(q))[q]
      <3>1. ASSUME q # 0 PROVE G(Abs(i))[q] = G(Abs(q))[q]
        <4>1. Abs(q) \in Nat /\ Abs(i) \in Nat /\ Abs(q) <= Abs(i) /\ Abs(q) <= Abs(q)
          BY <1>2, <2>1, <3>1
        <4>2. \A j \in Int : Abs(j) <= Abs(i) /\ Abs(j) <= Abs(q) => G(Abs(i))[j] = G(Abs(q))[j]
          <5> DEFINE n == Abs(i)  m == Abs(q)  a == G(n)  b == G(m)
          <5>1. /\ n \in Nat /\ m \in Nat
                /\ PutsUpTo(a, base, n) /\ PutsUpTo(b, base, m)
            BY <1>1, <4>1
          <5> HIDE DEF n, m, a, b, q
          <5>2. \A j \in Int : Abs(j) <= n /\ Abs(j) <= m => a[j] = b[j]
            BY <5>1, PutsAgree
          <5>3. QED
            BY <5>2 DEF n, m, a, b
        <4>3. QED
          BY <2>1, <4>1, <4>2
      <3>2. QED
        BY <3>1
    <2>3. G(Abs(i))[i] = Round(G(Abs(i)), base, i)
      <3>1. PutsUpTo(G(Abs(i)), base, Abs(i)) /\ Abs(i) <= Abs(i)
        BY <1>1, <1>2
      <3>2. QED
        BY <3>1 DEF PutsUpTo
    <2>4. f[i] = G(Abs(i))[i] /\ (q # 0 => f[q] = G(Abs(q))[q])
      BY <2>1
    <2> HIDE DEF f, q
    <2>5. Round(f, base, i) = Round(G(Abs(i)), base, i)
      BY <2>2, <2>4 DEF Round, q
    <2>6. QED
      BY <2>3, <2>4, <2>5
  <1>4. f = [i \in Int |-> Round(f, base, i)]
    <2>1. f = [i \in Int |-> f[i]]
      OBVIOUS
    <2> HIDE DEF f
    <2>2. QED
      BY <1>3, <2>1
  <1> HIDE DEF f
  <1>5. E(D)
    BY <1>4, Zenon
  <1>6. ASSUME NEW x PROVE Digits(x, base) = D[x]
    BY Zenon DEF Digits, Round
  <1> HIDE DEF D
  <1>7. \A i \in Int : D[i] = Round(D, base, i)
    BY <1>5
  <1>8. Digits(v, base) \in Seq(Int)
    <2>1. PutsUpTo(D, base, Abs(v)) /\ Abs(v) \in Nat /\ Abs(v) <= Abs(v)
      BY <1>2, <1>7 DEF PutsUpTo
    <2>2. G(Abs(v)) \in [Int -> Seq(Int)] /\ PutsUpTo(G(Abs(v)), base, Abs(v))
      BY <1>1, <2>1
    <2>3. D[v] = G(Abs(v))[v]
      <3> DEFINE g == G(Abs(v))  n == Abs(v)
      <3>1. PutsUpTo(D, base, n) /\ PutsUpTo(g, base, n) /\ n \in Nat /\ n <= n
        BY <2>1, <2>2
      <3> HIDE DEF g, G
      <3>2. \A i \in Int : Abs(i) <= n /\ Abs(i) <= n => D[i] = g[i]
        <4> HIDE DEF n
        <4>1. QED
          BY <3>1, PutsAgree
      <3>3. QED
        BY <3>1, <3>2 DEF g
    <2>4. QED
      BY <1>6, <2>2, <2>3
  <1>9. D[v] = Round(D, base, v) /\ Digits(v, base) = D[v]
        /\ Digits(Quotient(v, base), base) = D[Quotient(v, base)]
    BY <1>6, <1>7
  <1>10. QED
    BY <1>8, <1>9, Zenon DEF Round

\* The function by which a reader evaluates digits.
Evaluates(g, ds, base) == g = [i \in 0..Len(ds) |-> IF i = 0 THEN 0 ELSE base * g[i - 1] + ds[i]]

\* g and h give the first n digits the same values.
SameValues(g, h, n) == \A k \in 0..n : g[k] = h[k]

\* Digits that begin alike are evaluated alike.
LEMMA EvaluatesAgree ==
    ASSUME NEW base \in Bases, NEW s \in Seq(Int), NEW t \in Seq(Int),
           Len(s) <= Len(t), Agree(s, t, Len(s)),
           NEW g, Evaluates(g, s, base), NEW h, Evaluates(h, t, base)
    PROVE  SameValues(g, h, Len(s))
  <1> DEFINE T == {k \in Nat : k <= Len(s) => g[k] = h[k]}
  <1>1. \A k \in 0..Len(s) : /\ k \in 0..Len(t)
                             /\ g[k] = IF k = 0 THEN 0 ELSE base * g[k - 1] + s[k]
                             /\ h[k] = IF k = 0 THEN 0 ELSE base * h[k - 1] + t[k]
    <2>1. \A k \in 0..Len(s) : k \in 0..Len(t)
      OBVIOUS
    <2>2. QED
      BY <2>1, Zenon DEF Evaluates
  <1>2. 0 \in T
    <2>1. 0 \in 0..Len(s)
      OBVIOUS
    <2>2. g[0] = 0 /\ h[0] = 0
      BY <1>1, <2>1
    <2>3. QED
      BY <2>2
  <1>3. ASSUME NEW k \in T PROVE k + 1 \in T
    <2> SUFFICES ASSUME k + 1 <= Len(s) PROVE g[k + 1] = h[k + 1]
      OBVIOUS
    <2>1. k \in Nat /\ k + 1 \in 0..Len(s) /\ k + 1 \in 1..Len(s) /\ k + 1 # 0 /\ (k + 1) - 1 = k
      OBVIOUS
    <2>2. g[k] = h[k] /\ s[k + 1] = t[k + 1]
      BY <2>1 DEF Agree
    <2>3. g[k + 1] = base * g[k] + s[k + 1] /\ h[k + 1] = base * h[k] + t[k + 1]
      BY <1>1, <2>1
    <2>4. QED
      BY <2>2, <2>3
  <1> HIDE DEF T
  <1>4. T = Nat
    <2>1. T \in SUBSET Nat
      BY DEF T
    <2>2. QED
      BY <1>2, <1>3, <2>1, NumbersByInduction
  <1>5. QED
    BY <1>4 DEF T, SameValues

\* There is such a function.
LEMMA EvaluatesExists ==
    ASSUME NEW base \in Bases, NEW s \in Seq(Int)
    PROVE  \E g \in [0..Len(s) -> Int] : Evaluates(g, s, base)
  <1> DEFINE P == {u \in Seq(Int) : \E g \in [0..Len(u) -> Int] : Evaluates(g, u, base)}
  <1>1. <<>> \in P
    <2> DEFINE g == [i \in 0..0 |-> 0]
    <2>1. <<>> \in Seq(Int) /\ Len(<<>>) = 0
      BY EmptySeq
    <2>2. g \in [0..Len(<<>>) -> Int]
      BY <2>1
    <2>3. g = [i \in 0..Len(<<>>) |-> IF i = 0 THEN 0 ELSE base * g[i - 1] + <<>>[i]]
      BY <2>1
    <2> HIDE DEF g
    <2>4. Evaluates(g, <<>>, base)
      BY <2>3, Zenon DEF Evaluates
    <2>5. QED
      BY <2>1, <2>2, <2>4
  <1>2. ASSUME NEW u \in P, NEW x \in Int PROVE Append(u, x) \in P
    <2>1. PICK g \in [0..Len(u) -> Int] : Evaluates(g, u, base)
      BY <1>2
    <2> DEFINE v == Append(u, x)
    <2>2. /\ u \in Seq(Int) /\ v \in Seq(Int) /\ Len(v) = Len(u) + 1 /\ Len(u) \in Nat
          /\ v[Len(u) + 1] = x /\ \A i \in 1..Len(u) : v[i] = u[i]
      BY AppendProperties
    <2> HIDE DEF P, v
    <2> DEFINE n == Len(u)
               h == [i \in 0..(n + 1) |-> IF i = n + 1 THEN base * g[n] + x ELSE g[i]]
    <2>3. \A i \in 0..n : g[i] = IF i = 0 THEN 0 ELSE base * g[i - 1] + u[i]
      BY <2>1, Zenon DEF Evaluates
    <2>4. base * g[n] + x \in Int
      <3> DEFINE y == g[n]
      <3>1. y \in Int
        <4>1. n \in 0..n
          BY <2>2
        <4>2. QED
          BY <2>1, <4>1, Zenon
      <3> HIDE DEF y
      <3>2. base * y + x \in Int
        BY <3>1 DEF Bases
      <3>3. QED
        BY <3>2 DEF y
    <2>5. h \in [0..(n + 1) -> Int]
      BY <2>1, <2>2, <2>4
    <2>6. ASSUME NEW i \in 0..(n + 1)
          PROVE  h[i] = IF i = 0 THEN 0 ELSE base * h[i - 1] + v[i]
      <3>1. CASE i = n + 1
        <4>1. i # 0 /\ i - 1 = n /\ n \in 0..(n + 1) /\ n # n + 1
          BY <2>2, <3>1
        <4>2. h[n] = g[n] /\ h[i] = base * g[n] + x
          BY <3>1, <4>1
        <4>3. QED
          BY <2>2, <3>1, <4>1, <4>2
      <3>2. CASE i # n + 1
        <4>1. i \in 0..n /\ (i # 0 => i \in 1..n /\ i - 1 \in 0..(n + 1) /\ i - 1 # n + 1)
          BY <2>2, <3>2
        <4>2. h[i] = g[i] /\ (i # 0 => h[i - 1] = g[i - 1])
          BY <3>2, <4>1
        <4> HIDE DEF h
        <4>3. QED
          BY <2>2, <2>3, <4>1, <4>2
      <3>3. QED
        BY <3>1, <3>2
    <2>7. h = [i \in 0..(n + 1) |-> h[i]]
      OBVIOUS
    <2> HIDE DEF h
    <2>8. Evaluates(h, v, base)
      <3>1. h = [i \in 0..(n + 1) |-> IF i = 0 THEN 0 ELSE base * h[i - 1] + v[i]]
        BY <2>6, <2>7
      <3>2. QED
        BY <2>2, <3>1 DEF Evaluates
    <2>9. h \in [0..Len(v) -> Int]
      BY <2>2, <2>5
    <2>10. QED
      BY <2>2, <2>8, <2>9 DEF P, v
  <1> HIDE DEF P
  <1>3. P = Seq(Int)
    <2>1. P \in SUBSET Seq(Int)
      BY DEF P
    <2>2. QED
      BY <1>1, <1>2, <2>1, SequencesByInduction
  <1>4. QED
    BY <1>3 DEF P

\* One more digit at the end.
LEMMA ValueAppend ==
    ASSUME NEW base \in Bases, NEW ds \in Seq(Int), NEW x \in Int
    PROVE  /\ Value(ds, base) \in Int
           /\ Value(<<>>, base) = 0
           /\ Value(Append(ds, x), base) = base * Value(ds, base) + x
  <1> DEFINE U(s) == CHOOSE g : Evaluates(g, s, base)
             v == Append(ds, x)
  <1>1. ASSUME NEW s \in Seq(Int)
        PROVE  /\ Value(s, base) = U(s)[Len(s)] /\ Evaluates(U(s), s, base)
               /\ U(s)[Len(s)] \in Int
    <2>1. PICK g \in [0..Len(s) -> Int] : Evaluates(g, s, base)
      BY EvaluatesExists
    <2>2. Evaluates(U(s), s, base)
      BY <2>1, Zenon
    <2>3. Value(s, base) = U(s)[Len(s)]
      BY Zenon DEF Value, Evaluates
    <2> HIDE DEF U
    <2>4. Len(s) <= Len(s) /\ Agree(s, s, Len(s)) /\ Len(s) \in 0..Len(s)
      BY DEF Agree
    <2>5. \A k \in 0..Len(s) : U(s)[k] = g[k]
      <3> DEFINE h == U(s)
      <3>1. Evaluates(h, s, base)
        BY <2>2
      <3> HIDE DEF h
      <3>2. SameValues(h, g, Len(s))
        BY <2>1, <2>4, <3>1, EvaluatesAgree
      <3>3. QED
        BY <3>2 DEF h, SameValues
    <2>6. QED
      BY <2>1, <2>2, <2>3, <2>4, <2>5
  <1>2. /\ v \in Seq(Int) /\ Len(v) = Len(ds) + 1 /\ Len(ds) \in Nat
        /\ v[Len(ds) + 1] = x /\ \A i \in 1..Len(ds) : v[i] = ds[i]
    BY AppendProperties
  <1> HIDE DEF U, v
  <1>3. \A k \in 0..Len(ds) : U(ds)[k] = U(v)[k]
    <2>1. Len(ds) <= Len(v) /\ Agree(ds, v, Len(ds))
      BY <1>2 DEF Agree
    <2>2. Evaluates(U(ds), ds, base) /\ Evaluates(U(v), v, base)
      BY <1>1, <1>2
    <2>3. SameValues(U(ds), U(v), Len(ds))
      BY <1>2, <2>1, <2>2, EvaluatesAgree
    <2>4. QED
      BY <2>3 DEF SameValues
  <1>4. ASSUME NEW s \in Seq(Int), NEW k \in 0..Len(s)
        PROVE  U(s)[k] = IF k = 0 THEN 0 ELSE base * U(s)[k - 1] + s[k]
    BY <1>1, Zenon DEF Evaluates
  <1>5. Len(v) \in 0..Len(v) /\ Len(v) # 0 /\ Len(v) - 1 = Len(ds) /\ Len(ds) \in 0..Len(ds)
    BY <1>2
  <1>6. U(v)[Len(v)] = base * U(ds)[Len(ds)] + x
    <2>1. U(v)[Len(v)] = base * U(v)[Len(v) - 1] + v[Len(v)]
      BY <1>2, <1>4, <1>5
    <2>2. QED
      BY <1>2, <1>3, <1>5, <2>1
  <1>7. Value(<<>>, base) = 0
    <2>1. <<>> \in Seq(Int) /\ Len(<<>>) = 0 /\ 0 \in 0..0
      BY EmptySeq
    <2>2. U(<<>>)[0] = 0
      BY <1>4, <2>1
    <2>3. QED
      BY <1>1, <2>1, <2>2
  <1>8. QED
    BY <1>1, <1>2, <1>6, <1>7 DEF v

\* A digit that comes first comes last after std::reverse, and the other way round.
LEMMA ReverseIs ==
    ASSUME NEW s \in Seq(Int), NEW e \in Int
    PROVE  /\ Reverse(s) \in Seq(Int) /\ Len(Reverse(s)) = Len(s)
           /\ Reverse(<<e>> \o s) = Append(Reverse(s), e)
           /\ Reverse(s \o <<e>>) = <<e>> \o Reverse(s)
  <1>1. ASSUME NEW t \in Seq(Int)
        PROVE  /\ Reverse(t) \in Seq(Int) /\ Len(Reverse(t)) = Len(t)
               /\ \A i \in 1..Len(t) : Reverse(t)[i] = t[(Len(t) - i) + 1]
    <2>1. Len(t) \in Nat /\ \A i \in 1..Len(t) : t[(Len(t) - i) + 1] \in Int
      BY ElementOfSeq
    <2>2. QED
      BY <2>1 DEF Reverse
  <1>2. <<e>> \in Seq(Int) /\ Len(<<e>>) = 1 /\ <<e>>[1] = e /\ Len(s) \in Nat
    OBVIOUS
  <1> DEFINE p == <<e>> \o s
             q == s \o <<e>>
             r == Reverse(s)
             x == Append(r, e)
             y == <<e>> \o r
  <1>3. /\ p \in Seq(Int) /\ Len(p) = Len(s) + 1
        /\ \A i \in 1..(Len(s) + 1) : p[i] = IF i <= 1 THEN <<e>>[i] ELSE s[i - 1]
    BY <1>2, ConcatProperties
  <1>4. /\ q \in Seq(Int) /\ Len(q) = Len(s) + 1
        /\ \A i \in 1..(Len(s) + 1) : q[i] = IF i <= Len(s) THEN s[i] ELSE <<e>>[i - Len(s)]
    BY <1>2, ConcatProperties
  <1>5. /\ r \in Seq(Int) /\ Len(r) = Len(s) /\ \A i \in 1..Len(s) : r[i] = s[(Len(s) - i) + 1]
    BY <1>1
  <1> HIDE DEF r
  <1>6. /\ x \in Seq(Int) /\ Len(x) = Len(s) + 1 /\ x[Len(s) + 1] = e
        /\ \A i \in 1..Len(s) : x[i] = r[i]
    BY <1>5, AppendProperties
  <1>7. /\ y \in Seq(Int) /\ Len(y) = Len(s) + 1
        /\ \A i \in 1..(Len(s) + 1) : y[i] = IF i <= 1 THEN <<e>>[i] ELSE r[i - 1]
    BY <1>2, <1>5, ConcatProperties
  <1> HIDE DEF p, q, x, y
  <1>8. Reverse(p) = x
    <2>1. /\ Reverse(p) \in Seq(Int) /\ Len(Reverse(p)) = Len(s) + 1
          /\ \A i \in 1..(Len(s) + 1) : Reverse(p)[i] = p[((Len(s) + 1) - i) + 1]
      <3>1. p \in Seq(Int) /\ Len(p) = Len(s) + 1
        BY <1>3
      <3>2. /\ Reverse(p) \in Seq(Int) /\ Len(Reverse(p)) = Len(p)
            /\ \A i \in 1..Len(p) : Reverse(p)[i] = p[(Len(p) - i) + 1]
        BY <1>1, <3>1, Zenon
      <3>3. QED
        BY <3>1, <3>2, Zenon
    <2>2. ASSUME NEW i \in 1..(Len(s) + 1) PROVE Reverse(p)[i] = x[i]
      <3>1. CASE i = Len(s) + 1
        <4>1. ((Len(s) + 1) - i) + 1 = 1
          BY <1>2, <3>1
        <4>2. p[1] = e
          BY <1>2, <1>3
        <4>3. QED
          BY <1>6, <2>1, <3>1, <4>1, <4>2
      <3>2. CASE i # Len(s) + 1
        <4> DEFINE j == ((Len(s) + 1) - i) + 1
        <4>1. i \in 1..Len(s) /\ j \in 1..(Len(s) + 1) /\ ~(j <= 1) /\ j - 1 = (Len(s) - i) + 1
          BY <1>2, <3>2
        <4>2. Reverse(p)[i] = p[j]
          BY <2>1
        <4> HIDE DEF j
        <4>3. p[j] = s[j - 1]
          BY <1>3, <4>1
        <4>4. x[i] = s[j - 1]
          BY <1>5, <1>6, <4>1
        <4>5. QED
          BY <4>2, <4>3, <4>4
      <3>3. QED
        BY <3>1, <3>2
    <2>3. QED
      BY <1>2, <1>6, <2>1, <2>2, SeqEqual
  <1>9. Reverse(q) = y
    <2>1. /\ Reverse(q) \in Seq(Int) /\ Len(Reverse(q)) = Len(s) + 1
          /\ \A i \in 1..(Len(s) + 1) : Reverse(q)[i] = q[((Len(s) + 1) - i) + 1]
      <3>1. q \in Seq(Int) /\ Len(q) = Len(s) + 1
        BY <1>4
      <3>2. /\ Reverse(q) \in Seq(Int) /\ Len(Reverse(q)) = Len(q)
            /\ \A i \in 1..Len(q) : Reverse(q)[i] = q[(Len(q) - i) + 1]
        BY <1>1, <3>1, Zenon
      <3>3. QED
        BY <3>1, <3>2, Zenon
    <2>2. ASSUME NEW i \in 1..(Len(s) + 1) PROVE Reverse(q)[i] = y[i]
      <3>1. CASE i = 1
        <4>1. ((Len(s) + 1) - i) + 1 = Len(s) + 1 /\ ~(Len(s) + 1 <= Len(s))
              /\ (Len(s) + 1) - Len(s) = 1 /\ Len(s) + 1 \in 1..(Len(s) + 1)
          BY <1>2, <3>1
        <4>2. q[Len(s) + 1] = e
          BY <1>2, <1>4, <4>1
        <4>3. QED
          BY <1>2, <1>7, <2>1, <3>1, <4>1, <4>2
      <3>2. CASE i # 1
        <4> DEFINE j == ((Len(s) + 1) - i) + 1
                   k == i - 1
        <4>1. /\ k \in 1..Len(s) /\ ~(i <= 1) /\ j \in 1..(Len(s) + 1) /\ j <= Len(s)
              /\ j = (Len(s) - k) + 1
          BY <1>2, <3>2
        <4>2. Reverse(q)[i] = q[j] /\ y[i] = r[k]
          BY <1>7, <2>1, <4>1
        <4> HIDE DEF j, k
        <4>3. q[j] = s[j]
          BY <1>4, <4>1
        <4>4. r[k] = s[j]
          BY <1>5, <4>1
        <4>5. QED
          BY <4>2, <4>3, <4>4
      <3>3. QED
        BY <3>1, <3>2
    <2>3. QED
      BY <1>2, <1>7, <2>1, <2>2, SeqEqual
  <1>10. QED
    BY <1>5, <1>8, <1>9 DEF p, q, r, x, y

\* The digits of v, reversed, read as v without its sign, and only 0 begins with a zero.
LEMMA DigitsReadBack ==
    ASSUME NEW base \in Bases, NEW v \in Int, base = 10 \/ v >= 0
    PROVE  LET ds == Reverse(Digits(v, base))
           IN  /\ Digits(v, base) \in Seq(Int) /\ ds \in Seq(Int)
               /\ NoLeadingZero(ds, base) /\ Value(ds, base) = Abs(v)
  <1> DEFINE R(i) == Reverse(Digits(i, base))
             Good(i) == /\ R(i) \in Seq(Int) /\ Len(R(i)) >= 1
                        /\ \A k \in 1..Len(R(i)) : R(i)[k] \in 0..(base - 1)
                        /\ i # 0 => R(i)[1] # 0
                        /\ i = 0 => Len(R(i)) = 1
                        /\ Value(R(i), base) = Abs(i)
             P == {i \in Int : base = 10 \/ i >= 0 => Good(i)}
  <1>1. ASSUME NEW i \in Int, \A j \in Int : Abs(j) < Abs(i) => j \in P PROVE i \in P
    <2> SUFFICES ASSUME base = 10 \/ i >= 0 PROVE Good(i)
      OBVIOUS
    <2> DEFINE q == Quotient(i, base)
               e == digit(Remainder(i, base), base)
               s == IF q # 0 THEN Digits(q, base) ELSE <<>>
    <2>1. /\ q \in Int /\ (q # 0 => Abs(q) < Abs(i)) /\ (i >= 0 => q >= 0)
          /\ e = Abs(Remainder(i, base)) /\ e \in 0..(base - 1)
          /\ Abs(i) = base * Abs(q) + e
      BY Division, DigitIs
    <2>2. s \in Seq(Int) /\ Digits(i, base) = <<e>> \o s
      BY <2>1, DigitsIs, EmptySeq
    <2> HIDE DEF e, q
    <2>3. R(i) = Append(Reverse(s), e) /\ Reverse(s) \in Seq(Int) /\ Len(Reverse(s)) = Len(s)
          /\ e \in Int
      <3>1. e \in Int
        BY <2>1 DEF Bases
      <3> HIDE DEF s
      <3>2. QED
        BY <2>2, <3>1, ReverseIs
    <2> HIDE DEF R
    <2>4. /\ R(i) \in Seq(Int) /\ Len(R(i)) = Len(Reverse(s)) + 1 /\ Len(Reverse(s)) \in Nat
          /\ R(i)[Len(Reverse(s)) + 1] = e
          /\ \A k \in 1..Len(Reverse(s)) : R(i)[k] = Reverse(s)[k]
      <3> HIDE DEF s
      <3>1. QED
        BY <2>3, AppendProperties
    <2>5. Value(R(i), base) = base * Value(Reverse(s), base) + e
      <3> HIDE DEF s
      <3>1. QED
        BY <2>3, ValueAppend
    <2>6. CASE q = 0
      <3>1. Reverse(s) = <<>> /\ Len(Reverse(s)) = 0
        <4>1. s = <<>> /\ Len(s) = 0
          BY <2>6
        <4>2. QED
          BY <2>3, <4>1, EmptySeq
      <3>2. Value(<<>>, base) = 0
        BY <2>3, ValueAppend
      <3>3. base * 0 = 0 /\ Abs(q) = 0 /\ Abs(i) = e
        BY <2>1, <2>6 DEF Bases, Abs
      <3>4. Value(R(i), base) = Abs(i)
        BY <2>3, <2>5, <3>1, <3>2, <3>3
      <3>5. Len(R(i)) = 1 /\ R(i)[1] = e
        BY <2>4, <3>1
      <3>6. i # 0 => e # 0
        BY <3>3 DEF Abs
      <3>7. \A k \in 1..Len(R(i)) : R(i)[k] \in 0..(base - 1)
        BY <2>1, <3>5
      <3> HIDE DEF s
      <3>8. R(i) \in Seq(Int) /\ Len(R(i)) >= 1 /\ (i # 0 => R(i)[1] # 0)
        BY <2>4, <3>5, <3>6
      <3>9. QED
        BY <3>4, <3>5, <3>7, <3>8
    <2>7. CASE q # 0
      <3>1. s = Digits(q, base) /\ Reverse(s) = R(q)
        BY <2>7 DEF R
      <3>2. Good(q)
        <4>1. q \in P
          BY <1>1, <2>1, <2>7
        <4>2. QED
          BY <2>1, <4>1
      <3>3. Value(R(i), base) = Abs(i)
        BY <2>1, <2>5, <3>1, <3>2
      <3>4. ASSUME NEW k \in 1..Len(R(i)) PROVE R(i)[k] \in 0..(base - 1)
        <4>1. k = Len(Reverse(s)) + 1 \/ k \in 1..Len(Reverse(s))
          BY <2>4
        <4>2. QED
          BY <2>1, <2>4, <3>1, <3>2, <4>1
      <3>5. R(i)[1] # 0
        BY <2>4, <2>7, <3>1, <3>2
      <3>6. i # 0
        BY <2>1, <2>7 DEF Abs
      <3> HIDE DEF s
      <3>7. QED
        BY <2>4, <3>3, <3>4, <3>5, <3>6
    <2>8. QED
      BY <2>6, <2>7
  <1> HIDE DEF P
  <1>2. P = Int
    <2>1. P \in SUBSET Int
      BY DEF P
    <2>2. QED
      BY <1>1, <2>1, IntegersByInduction
  <1> HIDE DEF Good
  <1>3. Good(v)
    BY <1>2 DEF P
  <1>4. NoLeadingZero(R(v), base)
    <2> HIDE DEF R
    <2>1. R(v) # <<>>
      BY <1>3 DEF Good
    <2>2. QED
      BY <1>3, <2>1 DEF Good, NoLeadingZero
  <1>5. Digits(v, base) \in Seq(Int)
    BY DigitsIs
  <1>6. QED
    BY <1>3, <1>4, <1>5 DEF Good

\* A text with one character before it.
LEMMA ConsIs ==
    ASSUME NEW s \in Seq(Int), NEW e \in Int
    PROVE  /\ <<e>> \o s \in Seq(Int) /\ Len(<<e>> \o s) = Len(s) + 1 /\ <<e>> \o s # <<>>
           /\ (<<e>> \o s)[1] = e /\ Tail(<<e>> \o s) = s
  <1> DEFINE p == <<e>> \o s
  <1>1. <<e>> \in Seq(Int) /\ Len(<<e>>) = 1 /\ <<e>>[1] = e /\ Len(s) \in Nat
    OBVIOUS
  <1>2. /\ p \in Seq(Int) /\ Len(p) = 1 + Len(s)
        /\ \A i \in 1..(1 + Len(s)) : p[i] = IF i <= 1 THEN <<e>>[i] ELSE s[i - 1]
    BY <1>1, ConcatProperties
  <1> HIDE DEF p
  <1>3. p # <<>> /\ p[1] = e
    BY <1>1, <1>2
  <1>4. /\ Tail(p) \in Seq(Int) /\ Len(Tail(p)) = Len(p) - 1
        /\ \A i \in 1..Len(Tail(p)) : Tail(p)[i] = p[i + 1]
    BY <1>2, <1>3, HeadTailProperties
  <1>5. ASSUME NEW i \in 1..Len(s) PROVE Tail(p)[i] = s[i]
    <2> DEFINE j == i + 1
    <2>1. i \in 1..Len(Tail(p)) /\ j \in 1..(1 + Len(s)) /\ ~(j <= 1) /\ j - 1 = i
      BY <1>1, <1>2, <1>4
    <2>2. Tail(p)[i] = p[j]
      BY <1>4, <2>1
    <2> HIDE DEF j
    <2>3. p[j] = s[j - 1]
      BY <1>2, <2>1
    <2>4. QED
      BY <2>1, <2>2, <2>3
  <1>6. Tail(p) = s
    <2>1. Len(Tail(p)) = Len(s)
      BY <1>1, <1>2, <1>4
    <2>2. QED
      BY <1>4, <1>5, <2>1, SeqEqual
  <1>7. Len(p) = Len(s) + 1
    BY <1>1, <1>2
  <1>8. QED
    BY <1>2, <1>3, <1>6, <1>7, Zenon DEF p

\* convert() of a number reads as that number.
LEMMA ConvertReadsBack ==
    ASSUME NEW v \in Int
    PROVE  /\ convert(v) \in Seq(Int)
           /\ LET neg == convert(v) # <<>> /\ convert(v)[1] = Minus
                  ds  == IF neg THEN Tail(convert(v)) ELSE convert(v)
              IN  NoLeadingZero(ds, 10) /\ v = IF neg THEN -Value(ds, 10) ELSE Value(ds, 10)
  <1> DEFINE D == Digits(v, 10)
             r == Reverse(D)
             c == convert(v)
  <1>0. 10 \in Bases /\ Minus \in Int
    BY DEF Bases, Minus
  <1>1. D \in Seq(Int) /\ r \in Seq(Int) /\ NoLeadingZero(r, 10) /\ Value(r, 10) = Abs(v)
    BY <1>0, DigitsReadBack
  <1>2. c = Reverse(D \o (IF v < 0 THEN <<Minus>> ELSE <<>>))
    BY DEF convert
  <1> HIDE DEF D, c
  <1>3. CASE v < 0
    <2>1. c = <<Minus>> \o r
      <3>1. Reverse(D \o <<Minus>>) = <<Minus>> \o Reverse(D)
        BY <1>0, <1>1, ReverseIs
      <3>2. QED
        BY <1>2, <1>3, <3>1
    <2> HIDE DEF r
    <2>2. c \in Seq(Int) /\ c # <<>> /\ c[1] = Minus /\ Tail(c) = r
      BY <1>0, <1>1, <2>1, ConsIs
    <2>3. v = -Value(r, 10)
      BY <1>1, <1>3 DEF Abs
    <2>4. QED
      BY <1>1, <2>2, <2>3 DEF c
  <1>4. CASE ~(v < 0)
    <2>1. D \o <<>> = D
      BY <1>1, ConcatEmptySeq
    <2>2. c = r
      BY <1>2, <1>4, <2>1
    <2> HIDE DEF r
    <2>3. 1 \in 1..Len(r) /\ r[1] \in 0..9
      <3>1. Len(r) \in Nat /\ Len(r) # 0
        BY <1>1, EmptySeq DEF NoLeadingZero
      <3>2. 1 \in 1..Len(r) /\ \A i \in 1..Len(r) : r[i] \in 0..(10 - 1)
        BY <1>1, <3>1 DEF NoLeadingZero
      <3>3. QED
        BY <3>2
    <2>4. r[1] # Minus
      BY <2>3 DEF Minus
    <2>5. v = Value(r, 10)
      BY <1>1, <1>4 DEF Abs
    <2>6. QED
      BY <1>1, <2>2, <2>4, <2>5 DEF c
  <1>5. QED
    BY <1>3, <1>4

\* operator<< puts a text behind the prologue, and one that is not cut reads as the value.
LEMMA PutReadsBack ==
    ASSUME NEW x \in Loggable
    PROVE  \E body \in Seq(Int) : /\ Put(<<Prologue>>, x) = <<Prologue>> \o body
                                  /\ Len(body) < kSmallBuffer => Reads(body, x)
  <1>0. /\ kSmallBuffer \in Nat /\ kSmallBuffer >= kMaxNumericSize
        /\ x.kind \in {"long", "int", "pointer", "chars"}
        /\ x.kind \in {"long", "int"} => x.val \in Int
        /\ x.kind \in {"pointer", "chars"} => x.val \in Nat
    BY StreamAssumption DEF Loggable
  <1>1. CASE x.kind \in {"long", "int"}
    <2>1. Put(<<Prologue>>, x) = <<Prologue>> \o convert(x.val)
      BY <1>0, <1>1 DEF Put, formatInteger, PutInt, available
    <2>2. convert(x.val) \in Seq(Int) /\ Reads(convert(x.val), x)
      <3> DEFINE c == convert(x.val)
                 neg == c # <<>> /\ c[1] = Minus
                 ds  == IF neg THEN Tail(c) ELSE c
      <3>1. /\ c \in Seq(Int) /\ NoLeadingZero(ds, 10)
            /\ x.val = IF neg THEN -Value(ds, 10) ELSE Value(ds, 10)
        BY <1>0, <1>1, ConvertReadsBack
      <3> HIDE DEF c
      <3>2. Reads(c, x)
        BY <1>1, <3>1 DEF Reads
      <3>3. QED
        BY <3>1, <3>2 DEF c
    <2>3. QED
      BY <2>1, <2>2
  <1>2. CASE x.kind = "pointer"
    <2> DEFINE h == convertHex(x.val)
               body == <<Hex0x>> \o h
    <2>1. h \in Seq(Int) /\ NoLeadingZero(h, 16) /\ Value(h, 16) = x.val
      <3>1. 16 \in Bases /\ x.val \in Int /\ x.val >= 0 /\ Abs(x.val) = x.val
        BY <1>0, <1>2 DEF Bases, Abs
      <3>2. QED
        BY <3>1, DigitsReadBack DEF convertHex
    <2>2. Put(<<Prologue>>, x) = (<<Prologue>> \o <<Hex0x>>) \o h
      BY <1>0, <1>2 DEF Put, PutPointer, available
    <2>3. Hex0x \in Int /\ <<Hex0x>> \in Seq(Int) /\ <<Prologue>> \in Seq(Int)
      BY DEF Hex0x, Prologue
    <2> HIDE DEF h
    <2>4. body \in Seq(Int) /\ body # <<>> /\ body[1] = Hex0x /\ Tail(body) = h
      BY <2>1, <2>3, ConsIs
    <2>5. Put(<<Prologue>>, x) = <<Prologue>> \o body
      <3>1. Associates(<<Prologue>>, <<Hex0x>>, h)
        BY <2>1, <2>3, ConcatAssociates
      <3>2. QED
        BY <2>2, <3>1 DEF Associates
    <2> HIDE DEF body
    <2>6. Reads(body, x)
      BY <1>2, <2>1, <2>4 DEF Reads
    <2>7. QED
      BY <2>4, <2>5, <2>6
  <1>3. CASE x.kind = "chars"
    <2> DEFINE s == [i \in 1..x.val |-> Letter]
               k == IF Len(s) > kSmallBuffer THEN kSmallBuffer ELSE Len(s)
               body == SubSeq(s, 1, k)
    <2>1. s \in Seq(Int) /\ Len(s) = x.val
      BY <1>0, <1>3 DEF Letter
    <2>2. Put(<<Prologue>>, x) = <<Prologue>> \o body
      BY <1>0, <1>3, Zenon DEF Put, PutChars, append, available
    <2> HIDE DEF s
    <2>3. k \in 0..Len(s) /\ (k < kSmallBuffer => k = Len(s))
      BY <1>0, <2>1
    <2> HIDE DEF k
    <2>4. body \in Seq(Int) /\ Len(body) = k
      BY <2>1, <2>3
    <2> HIDE DEF body
    <2>5. Len(body) < kSmallBuffer => Reads(body, x)
      BY <1>3, <2>1, <2>3, <2>4 DEF Reads
    <2>6. QED
      BY <2>2, <2>4, <2>5
  <1>4. QED
    BY <1>0, <1>1, <1>2, <1>3

\* A line that fits into the buffer of the LogStream reads as what was logged.
LEMMA LoggerReadsBack ==
    ASSUME NEW x \in Loggable
    PROVE  LET s == Logger(x)
           IN  /\ s \in Seq(Int)
               /\ ~Overrun(kSmallBuffer, s) =>
                    /\ s[1] = Prologue /\ s[Len(s)] = LineFeed
                    /\ Reads(SubSeq(s, 2, Len(s) - 1), x)
  <1>0. kSmallBuffer \in Nat /\ kSmallBuffer >= 1
    BY StreamAssumption
  <1>1. Prologue \in Int /\ LineFeed \in Int
    BY DEF Prologue, LineFeed
  <1>2. ASSUME NEW b \in Seq(Int), NEW e \in Int PROVE PutChars(b, <<e>>) = b \o <<e>>
    <2>1. Len(<<e>>) = 1 /\ ~(1 > kSmallBuffer) /\ <<e>> \in Seq(Int)
      BY <1>0
    <2>2. SubSeq(<<e>>, 1, 1) = <<e>>
      BY <2>1, SubSeqFull
    <2>3. QED
      BY <2>1, <2>2 DEF PutChars, append, available
  <1>3. PutChars(<<>>, <<Prologue>>) = <<Prologue>>
    <2>1. <<>> \in Seq(Int) /\ <<>> \o <<Prologue>> = <<Prologue>>
      BY <1>1, EmptySeq, ConcatEmptySeq
    <2>2. QED
      BY <1>1, <1>2, <2>1
  <1>4. PICK body \in Seq(Int) : /\ Put(<<Prologue>>, x) = <<Prologue>> \o body
                                 /\ Len(body) < kSmallBuffer => Reads(body, x)
    BY PutReadsBack
  <1> DEFINE p == <<Prologue>> \o body
             s == p \o <<LineFeed>>
             m == SubSeq(s, 2, Len(s) - 1)
  <1>5. /\ p \in Seq(Int) /\ Len(p) = Len(body) + 1 /\ Len(body) \in Nat
        /\ \A i \in 1..(Len(body) + 1) : p[i] = IF i <= 1 THEN Prologue ELSE body[i - 1]
    <2>1. <<Prologue>> \in Seq(Int) /\ Len(<<Prologue>>) = 1 /\ <<Prologue>>[1] = Prologue
      BY <1>1
    <2>2. /\ p \in Seq(Int) /\ Len(p) = 1 + Len(body) /\ Len(body) \in Nat
          /\ \A i \in 1..(1 + Len(body)) : p[i] = IF i <= 1 THEN <<Prologue>>[i] ELSE body[i - 1]
      BY <2>1, ConcatProperties
    <2> HIDE DEF p
    <2>3. QED
      BY <2>1, <2>2
  <1>6. Logger(x) = s
    BY <1>1, <1>2, <1>3, <1>4, <1>5 DEF Logger
  <1> HIDE DEF p
  <1>7. /\ s \in Seq(Int) /\ Len(s) = Len(body) + 2 /\ s[Len(body) + 2] = LineFeed
        /\ \A i \in 1..(Len(body) + 1) : s[i] = p[i]
    <2>1. s = Append(p, LineFeed)
      BY <1>1, <1>5, AppendIsConcat
    <2>2. Append(p, LineFeed) \in Seq(Int) /\ Len(Append(p, LineFeed)) = Len(p) + 1
          /\ Append(p, LineFeed)[Len(p) + 1] = LineFeed
          /\ \A i \in 1..Len(p) : Append(p, LineFeed)[i] = p[i]
      BY <1>1, <1>5, AppendProperties
    <2> HIDE DEF s
    <2>3. Len(p) + 1 = Len(body) + 2
      BY <1>5
    <2>4. QED
      BY <1>5, <2>1, <2>2, <2>3
  <1> HIDE DEF s
  <1>8. m = body
    <2>1. Len(s) - 1 = Len(body) + 1 /\ Len(s) - 1 \in Int
      BY <1>5, <1>7
    <2>2. m \in Seq(Int) /\ Len(m) = Len(body) /\ \A i \in 1..Len(body) : m[i] = s[i + 1]
      BY <1>5, <1>7, <2>1
    <2>3. ASSUME NEW i \in 1..Len(body) PROVE m[i] = body[i]
      <3>1. i + 1 \in 1..(Len(body) + 1) /\ ~(i + 1 <= 1) /\ (i + 1) - 1 = i
        BY <1>5
      <3>2. s[i + 1] = p[i + 1] /\ p[i + 1] = body[i]
        BY <1>5, <1>7, <3>1
      <3>3. QED
        BY <2>2, <3>2
    <2> HIDE DEF m
    <2>4. QED
      BY <2>2, <2>3, SeqEqual
  <1>9. s[1] = Prologue /\ s[Len(s)] = LineFeed
    <2>1. 1 \in 1..(Len(body) + 1) /\ 1 <= 1
      BY <1>5
    <2>2. p[1] = Prologue /\ s[1] = p[1]
      BY <1>5, <1>7, <2>1
    <2>3. s[Len(s)] = LineFeed
      BY <1>7
    <2>4. QED
      BY <2>2, <2>3
  <1>10. ~Overrun(kSmallBuffer, s) => Reads(m, x)
    <2> HIDE DEF m
    <2>1. ~Overrun(kSmallBuffer, s) => Len(body) < kSmallBuffer
      BY <1>0, <1>5, <1>7 DEF Overrun
    <2>2. QED
      BY <1>4, <1>8, <2>1
  <1>11. QED
    BY <1>6, <1>7, <1>9, <1>10

-----------------------------------------------------------------------------
(* Where the lines are.  For the lines w, of which those of d were         *)
(* dropped, the LogFile f, the buffers nt that no decision was taken about *)
(* and the buffers tk that are still to be written: there is a line lo up  *)
(* to which all that was not dropped is in the file or in tk, and the      *)
(* lines after it are in nt, each once and in their order.                 *)
Upto(w, d, f, nt, tk, lo) ==
    /\ d \subseteq 1..lo
    /\ FlattenSeq(nt) = Ids(lo, Len(w))
    /\ Contents(f) \o TextOfIn(w, tk) = KeptIn(w, d, lo)
History(w, d, f, nt, tk) == \E lo \in 0..Len(w) : Upto(w, d, f, nt, tk, lo)

\* The lines after n up to m, as a sequence.
LEMMA IdsAre ==
    ASSUME NEW n \in Nat, NEW m \in Nat, n <= m
    PROVE  /\ Ids(n, m) \in Seq(1..m) /\ Len(Ids(n, m)) = m - n
           /\ \A i \in 1..(m - n) : Ids(n, m)[i] = n + i
           /\ ToSet(Ids(n, m)) = (n + 1)..m
           /\ Ids(n, m + 1) = Append(Ids(n, m), m + 1)
  <1>1. m - n \in Nat /\ \A i \in 1..(m - n) : n + i \in 1..m
    OBVIOUS
  <1>2. /\ Ids(n, m) \in Seq(1..m) /\ Len(Ids(n, m)) = m - n
        /\ \A i \in 1..(m - n) : Ids(n, m)[i] = n + i
    BY <1>1 DEF Ids
  <1>3. ToSet(Ids(n, m)) = (n + 1)..m
    <2>1. ToSet(Ids(n, m)) = {n + i : i \in 1..(m - n)}
      <3>1. DOMAIN Ids(n, m) = 1..(m - n)
        BY Zenon DEF Ids
      <3>2. \A i \in 1..(m - n) : Ids(n, m)[i] = n + i
        BY <1>2
      <3>3. {Ids(n, m)[i] : i \in 1..(m - n)} = {n + i : i \in 1..(m - n)}
        BY <3>2, Zenon
      <3>4. QED
        BY <3>1, <3>3, Zenon DEF ToSet
    <2>2. ASSUME NEW k \in (n + 1)..m PROVE \E i \in 1..(m - n) : k = n + i
      <3>1. k - n \in 1..(m - n) /\ k = n + (k - n)
        OBVIOUS
      <3>2. QED
        BY <3>1
    <2>3. \A i \in 1..(m - n) : n + i \in (n + 1)..m
      OBVIOUS
    <2>4. QED
      BY <2>1, <2>2, <2>3
  <1>4. Ids(n, m + 1) = Append(Ids(n, m), m + 1)
    <2> DEFINE p == Ids(n, m)
               q == Ids(n, m + 1)
               a == Append(p, m + 1)
    <2>1. /\ a \in Seq(Nat) /\ Len(a) = Len(p) + 1 /\ a[Len(p) + 1] = m + 1
          /\ \A i \in 1..Len(p) : a[i] = p[i]
      <3>1. \A i \in 1..m : i \in Nat
        OBVIOUS
      <3>2. p \in Seq(Nat) /\ m + 1 \in Nat
        BY <1>2, <3>1, SeqMonotonic
      <3> HIDE DEF p
      <3>3. QED
        BY <3>2, AppendProperties
    <2>2. /\ q \in Seq(Nat) /\ Len(q) = (m + 1) - n
          /\ \A i \in 1..((m + 1) - n) : q[i] = n + i
      <3>1. (m + 1) - n \in Nat /\ \A i \in 1..((m + 1) - n) : n + i \in Nat
        BY <1>1
      <3>2. QED
        BY <3>1 DEF Ids
    <2> HIDE DEF a, p, q
    <2>3. Len(p) = m - n /\ \A i \in 1..(m - n) : p[i] = n + i
      BY <1>2 DEF p
    <2>4. ASSUME NEW i \in 1..Len(q) PROVE q[i] = a[i]
      <3>1. i \in 1..((m + 1) - n) /\ (i = (m - n) + 1 \/ i \in 1..(m - n))
        BY <1>1, <2>2
      <3>2. i = (m - n) + 1 => n + i = m + 1
        OBVIOUS
      <3>3. QED
        BY <2>1, <2>2, <2>3, <3>1, <3>2
    <2>5. Len(q) = Len(a)
      BY <1>1, <2>1, <2>2, <2>3
    <2>6. QED
      BY <2>1, <2>2, <2>4, <2>5, SeqEqual DEF a, p, q
  <1>5. QED
    BY <1>2, <1>3, <1>4

\* p and q are consecutive lines together, and each.
Joined(n, m, p, q) == p \o q = Ids(n, m)
Split(n, m, p, q) ==
    n + Len(p) \in n..m /\ p = Ids(n, n + Len(p)) /\ q = Ids(n + Len(p), m)

\* Consecutive lines cut in two are consecutive lines.
LEMMA IdsSplit ==
    ASSUME NEW n \in Nat, NEW m \in Nat, n <= m, NEW S, NEW p \in Seq(S), NEW q \in Seq(S),
           Joined(n, m, p, q)
    PROVE  Split(n, m, p, q)
  <1> DEFINE k == n + Len(p)
             a == Ids(n, k)
             b == Ids(k, m)
  <1>1. /\ p \o q \in Seq(S) /\ Len(p \o q) = Len(p) + Len(q) /\ Len(p) \in Nat /\ Len(q) \in Nat
        /\ \A i \in 1..Len(p) + Len(q) : (p \o q)[i] = IF i <= Len(p) THEN p[i] ELSE q[i - Len(p)]
    <2>1. \A s, t \in Seq(S) :
            /\ s \o t \in Seq(S) /\ Len(s \o t) = Len(s) + Len(t)
            /\ \A i \in 1..Len(s) + Len(t) : (s \o t)[i] = IF i <= Len(s) THEN s[i] ELSE t[i - Len(s)]
      BY ConcatProperties
    <2>2. Len(p) \in Nat /\ Len(q) \in Nat
      OBVIOUS
    <2>3. QED
      BY <2>1, <2>2, Zenon
  <1>2. Len(Ids(n, m)) = m - n /\ \A i \in 1..(m - n) : Ids(n, m)[i] = n + i
    BY IdsAre
  <1>3. Len(p) + Len(q) = m - n
    BY <1>1, <1>2 DEF Joined
  <1>4. k \in Nat /\ n <= k /\ k <= m /\ k - n = Len(p) /\ m - k = Len(q)
    BY <1>1, <1>3
  <1>5. /\ a \in Seq(1..k) /\ Len(a) = Len(p) /\ \A i \in 1..Len(p) : a[i] = n + i
        /\ b \in Seq(1..m) /\ Len(b) = Len(q) /\ \A i \in 1..Len(q) : b[i] = k + i
    <2> HIDE DEF k
    <2>1. a \in Seq(1..k) /\ Len(a) = k - n /\ \A i \in 1..(k - n) : a[i] = n + i
      BY <1>4, IdsAre
    <2>2. b \in Seq(1..m) /\ Len(b) = m - k /\ \A i \in 1..(m - k) : b[i] = k + i
      BY <1>4, IdsAre
    <2>3. QED
      BY <1>4, <2>1, <2>2, Zenon
  <1>6. \A i \in 1..Len(p) : p[i] = n + i
    BY <1>1, <1>2, <1>3 DEF Joined
  <1>7. ASSUME NEW i \in 1..Len(q) PROVE q[i] = k + i
    <2>1. /\ Len(p) + i \in 1..(m - n) /\ Len(p) + i \in 1..Len(p) + Len(q)
          /\ ~(Len(p) + i <= Len(p)) /\ (Len(p) + i) - Len(p) = i
          /\ n + (Len(p) + i) = k + i
      BY <1>1, <1>3
    <2> DEFINE j == Len(p) + i
    <2>2. j \in 1..(m - n) /\ j \in 1..Len(p) + Len(q) /\ ~(j <= Len(p)) /\ j - Len(p) = i
          /\ n + j = k + i
      BY <2>1
    <2> HIDE DEF j, k
    <2>3. (p \o q)[j] = q[i]
      BY <1>1, <2>2
    <2>4. Ids(n, m)[j] = k + i
      BY <1>2, <2>2
    <2>5. QED
      BY <2>3, <2>4 DEF Joined
  <1> HIDE DEF a, b, k
  <1>8. p = a
    <2>1. p = [i \in 1..Len(p) |-> p[i]] /\ a = [i \in 1..Len(a) |-> a[i]]
      BY <1>5
    <2>2. QED
      BY <1>5, <1>6, <2>1
  <1>9. q = b
    <2>1. q = [i \in 1..Len(q) |-> q[i]] /\ b = [i \in 1..Len(b) |-> b[i]]
      BY <1>5
    <2>2. QED
      BY <1>5, <1>7, <2>1
  <1>10. QED
    BY <1>4, <1>8, <1>9 DEF a, b, k, Split

\* append(): the new line comes after all the others.
LEMMA HistoryAppend ==
    ASSUME NEW w \in Seq(Line), NEW l \in Line, NEW d, NEW f,
           NEW nt, NEW nt2, NEW tk \in Seq(Seq(1..Len(w))),
           FlattenSeq(nt2) = Append(FlattenSeq(nt), Len(w) + 1),
           History(w, d, f, nt, tk)
    PROVE  History(Append(w, l), d, f, nt2, tk)
  <1>1. PICK lo \in 0..Len(w) : Upto(w, d, f, nt, tk, lo)
    BY DEF History
  <1>2. Len(w) \in Nat /\ Len(Append(w, l)) = Len(w) + 1 /\ lo \in Nat /\ lo <= Len(w)
        /\ lo \in 0..Len(Append(w, l))
    BY AppendProperties
  <1>3. FlattenSeq(nt2) = Ids(lo, Len(w) + 1)
    <2>1. Ids(lo, Len(w) + 1) = Append(Ids(lo, Len(w)), Len(w) + 1)
      BY <1>2, IdsAre
    <2>2. QED
      BY <1>1, <2>1 DEF Upto
  <1>4. /\ TextOfIn(Append(w, l), tk) = TextOfIn(w, tk)
        /\ KeptIn(Append(w, l), d, lo) = KeptIn(w, d, lo)
    BY TextGrows
  <1>5. Upto(Append(w, l), d, f, nt2, tk, lo)
    BY <1>1, <1>2, <1>3, <1>4 DEF Upto
  <1>6. QED
    BY <1>2, <1>5 DEF History

\* What the logging thread has decided to write, with the buffers b of those that are too
\* many left out.
LEMMA HistoryDrop ==
    ASSUME NEW w \in Seq(Line), NEW d, NEW f, Contents(f) \in Seq(Int),
           NEW a \in Seq(Seq(1..Len(w))), NEW b \in Seq(Seq(1..Len(w))),
           NEW z \in Seq(Seq(1..Len(w))),
           History(w, d, f, (a \o b) \o z, <<>>)
    PROVE  History(w, d \union ToSet(FlattenSeq(b)), f, z, a)
  <1> DEFINE Id == 1..Len(w)
             p == FlattenSeq(a)
             q == FlattenSeq(b)
             r == FlattenSeq(z)
  <1>1. PICK lo \in 0..Len(w) : Upto(w, d, f, (a \o b) \o z, <<>>, lo)
    BY DEF History
  <1>2. p \in Seq(Id) /\ q \in Seq(Id) /\ r \in Seq(Id)
    <2> HIDE DEF Id
    <2>1. QED
      BY FlattenIs DEF Id
  <1>3. FlattenSeq((a \o b) \o z) = (p \o q) \o r
    <2>1. a \o b \in Seq(Seq(Id))
      BY ConcatProperties
    <2>2. FlattenSeq(a \o b) = p \o q
      BY FlattenConcat
    <2>3. FlattenSeq((a \o b) \o z) = FlattenSeq(a \o b) \o r
      BY <2>1, FlattenConcat
    <2>4. QED
      BY <2>2, <2>3
  <1> HIDE DEF p, q, r, Id
  <1> DEFINE pq == p \o q
             mid == lo + Len(p)
             hi == lo + Len(pq)
  <1>4. pq \in Seq(Id) /\ Len(pq) = Len(p) + Len(q) /\ Len(p) \in Nat /\ Len(q) \in Nat
    BY <1>2, ConcatProperties
  <1>5. lo \in Nat /\ Len(w) \in Nat /\ lo <= Len(w)
    OBVIOUS
  <1>6. hi \in lo..Len(w) /\ pq = Ids(lo, hi) /\ r = Ids(hi, Len(w))
    <2>1. Joined(lo, Len(w), pq, r)
      BY <1>1, <1>3 DEF Upto, Joined
    <2> HIDE DEF pq
    <2>2. QED
      <3>1. Split(lo, Len(w), pq, r)
        BY <1>2, <1>4, <1>5, <2>1, IdsSplit
      <3>2. QED
        BY <3>1 DEF Split
  <1>7. mid \in lo..hi /\ p = Ids(lo, mid) /\ q = Ids(mid, hi)
    <2>1. hi \in Nat /\ lo <= hi
      BY <1>5, <1>6
    <2>2. Joined(lo, hi, p, q)
      BY <1>6 DEF Joined
    <2> HIDE DEF hi, pq
    <2>3. QED
      <3>1. Split(lo, hi, p, q)
        BY <1>2, <1>5, <2>1, <2>2, IdsSplit
      <3>2. QED
        BY <3>1 DEF Split
  <1> HIDE DEF mid, hi, pq
  <1>8. mid \in Nat /\ hi \in Nat /\ mid <= hi /\ mid \in lo..Len(w) /\ hi \in mid..Len(w)
        /\ lo <= mid
    BY <1>5, <1>6, <1>7
  <1>9. ToSet(q) = (mid + 1)..hi
    BY <1>7, <1>8, IdsAre
  <1>10. d \in SUBSET (1..lo)
    BY <1>1 DEF Upto
  <1>11. KeptIn(w, d \union ((mid + 1)..hi), hi) = KeptIn(w, d, lo) \o TextIn(w, Ids(lo, mid))
    BY <1>8, <1>10, KeptDrop
  <1>12. Contents(f) = KeptIn(w, d, lo)
    <2>1. TextOfIn(w, <<>>) = <<>>
      <3>1. <<>> \in Seq(Seq(Id)) /\ FlattenSeq(<<>>) = <<>>
        BY EmptySeq, FlattenIs
      <3>2. TextOfIn(w, <<>>) = FlattenSeq([i \in 1..0 |-> TextIn(w, <<>>[i])])
        BY DEF TextOfIn
      <3>3. [i \in 1..0 |-> TextIn(w, <<>>[i])] = <<>>
        OBVIOUS
      <3>4. QED
        BY <3>1, <3>2, <3>3
    <2>2. Contents(f) \o <<>> = Contents(f)
      BY ConcatEmptySeq
    <2>3. QED
      BY <1>1, <2>1, <2>2 DEF Upto
  <1>13. TextOfIn(w, a) = TextIn(w, Ids(lo, mid))
    BY <1>7, TextOfFlatten DEF p
  <1>14. d \union ((mid + 1)..hi) \subseteq 1..hi /\ hi \in 0..Len(w)
    BY <1>5, <1>8, <1>10
  <1>15. Upto(w, d \union ToSet(q), f, z, a, hi)
    BY <1>6, <1>9, <1>11, <1>12, <1>13, <1>14 DEF Upto, r
  <1>16. QED
    BY <1>14, <1>15 DEF History, q

\* One buffer more is in the file, and one less is still to be written.
LEMMA HistoryWrite ==
    ASSUME NEW w \in Seq(Line), NEW d, NEW f, NEW g, Contents(f) \in Seq(Int),
           NEW b \in Seq(1..Len(w)), NEW bs \in Seq(Seq(1..Len(w))), NEW nt,
           Contents(g) = Contents(f) \o TextIn(w, b),
           History(w, d, f, nt, <<b>> \o bs)
    PROVE  History(w, d, g, nt, bs)
  <1>1. PICK lo \in 0..Len(w) : Upto(w, d, f, nt, <<b>> \o bs, lo)
    BY DEF History
  <1> DEFINE Id == 1..Len(w)
  <1>2. TextOfIn(w, <<b>> \o bs) = TextIn(w, b) \o TextOfIn(w, bs)
    <2>1. <<b>> \in Seq(Seq(Id)) /\ <<b>> \o bs \in Seq(Seq(Id))
      <3>1. <<b>> \in Seq(Seq(Id))
        OBVIOUS
      <3> HIDE DEF Id
      <3>2. QED
        BY <3>1, ConcatProperties DEF Id
    <2>2. FlattenSeq(<<b>> \o bs) = b \o FlattenSeq(bs) /\ FlattenSeq(bs) \in Seq(Id)
      <3>1. FlattenSeq(<<b>> \o bs) = FlattenSeq(<<b>>) \o FlattenSeq(bs)
        BY <2>1, FlattenConcat
      <3>2. FlattenSeq(<<b>>) = b
        BY FlattenOne
      <3>3. FlattenSeq(bs) \in Seq(Id)
        BY FlattenIs
      <3>4. QED
        BY <3>1, <3>2, <3>3
    <2>3. TextIn(w, b \o FlattenSeq(bs)) = TextIn(w, b) \o TextIn(w, FlattenSeq(bs))
      BY <2>2, TextConcat
    <2>4. TextOfIn(w, <<b>> \o bs) = TextIn(w, FlattenSeq(<<b>> \o bs))
      BY <2>1, TextOfFlatten
    <2>5. TextOfIn(w, bs) = TextIn(w, FlattenSeq(bs))
      BY TextOfFlatten
    <2>6. QED
      BY <2>2, <2>3, <2>4, <2>5
  <1>3. TextIn(w, b) \in Seq(Int) /\ TextOfIn(w, bs) \in Seq(Int)
    <2>1. FlattenSeq(bs) \in Seq(Id)
      BY FlattenIs
    <2>2. TextIn(w, b) \in Seq(Int) /\ TextIn(w, FlattenSeq(bs)) \in Seq(Int)
      BY <2>1, TextConcat
    <2>3. QED
      BY <2>2, TextOfFlatten
  <1>4. (Contents(f) \o TextIn(w, b)) \o TextOfIn(w, bs)
          = Contents(f) \o (TextIn(w, b) \o TextOfIn(w, bs))
    <2>1. Associates(Contents(f), TextIn(w, b), TextOfIn(w, bs))
      BY <1>3, ConcatAssociates
    <2>2. QED
      BY <2>1 DEF Associates
  <1>5. Upto(w, d, g, nt, bs, lo)
    BY <1>1, <1>2, <1>4 DEF Upto
  <1>6. QED
    BY <1>5 DEF History

\* What it says: the files, the FILE, the buffers to write and the buffers not taken yet
\* hold the lines that were not dropped, in their order.
LEMMA HistoryText ==
    ASSUME NEW w \in Seq(Line), NEW d, NEW f, Contents(f) \in Seq(Int),
           NEW nt \in Seq(Seq(1..Len(w))), NEW tk \in Seq(Seq(1..Len(w))),
           History(w, d, f, nt, tk)
    PROVE  (Contents(f) \o TextOfIn(w, tk)) \o TextOfIn(w, nt) = KeptIn(w, d, Len(w))
  <1>1. PICK lo \in 0..Len(w) : Upto(w, d, f, nt, tk, lo)
    BY DEF History
  <1> DEFINE n == Len(w)
  <1>2. n \in Nat /\ lo \in 0..Len(w) /\ n \in lo..Len(w) /\ n \in n..Len(w)
    OBVIOUS
  <1>3. d \in SUBSET (1..lo)
    BY <1>1 DEF Upto
  <1>4. KeptIn(w, d \union ((n + 1)..n), n) = KeptIn(w, d, lo) \o TextIn(w, Ids(lo, n))
    <2> HIDE DEF n
    <2>1. QED
      BY <1>2, <1>3, KeptDrop
  <1>5. d \union ((n + 1)..n) = d
    BY <1>2
  <1>6. TextOfIn(w, nt) = TextIn(w, Ids(lo, n))
    BY <1>1, TextOfFlatten DEF Upto
  <1>7. QED
    BY <1>1, <1>4, <1>5, <1>6 DEF Upto

-----------------------------------------------------------------------------
(* The invariant.                                                          *)

Null == <<>>
EmptyBuffer == <<<<>>>>
Resting == {"test", "lock", "waiting", "woken", "leave", "done"}

\* What NumbersReadBack says of a line.
ReadsBack(l) ==
    l.val.kind # "block" =>
        LET s == l.text
        IN  /\ s[1] = Prologue /\ s[Len(s)] = LineFeed
            /\ Reads(SubSeq(s, 2, Len(s) - 1), l.val)

FrontInv ==
    /\ said \in Seq(Line) /\ \A i \in 1..Len(said) : ReadsBack(said[i])
    /\ \E b \in Seq(1..Len(said)) : currentBuffer_ = <<b>>
    /\ buffers_ \in Seq(Seq(1..Len(said)))
    /\ nextBuffer_ \in {Null, EmptyBuffer} /\ (nextBuffer_ = Null => buffers_ # <<>>)
\* newBuffer1 and newBuffer2 are there between two rounds.  In a round one or both are
\* missing, and there are as many buffers to take them back from.
BackInv ==
    /\ thr \in Resting \union {"none", "begin", "drop", "write"}
    /\ owner = "new" => thr = "none"
    /\ buffersToWrite \in Seq(Seq(1..Len(said))) /\ written \in 0..Len(buffersToWrite)
    /\ thr # "write" => written = 0
    /\ thr \in {"none", "begin"} => buffersToWrite = <<>>
    /\ thr \in Resting =>
         newBuffer1 = EmptyBuffer /\ newBuffer2 = EmptyBuffer /\ buffersToWrite = <<>>
    /\ thr \in {"drop", "write"} =>
         /\ newBuffer1 = Null
         /\ \/ newBuffer2 = EmptyBuffer /\ Len(buffersToWrite) >= 1
            \/ newBuffer2 = Null /\ Len(buffersToWrite) >= 2
FileInv ==
    /\ now \in Nat /\ FileOK(output, now)
    /\ thr # "write" => output.buffer = <<>>
    /\ thr \in {"none", "begin"} => Contents(output) = <<>> /\ output.faults = 0
ToWrite == SubSeq(buffersToWrite, written + 1, Len(buffersToWrite))
NotTaken == (IF thr = "drop" THEN buffersToWrite ELSE <<>>) \o (buffers_ \o currentBuffer_)
Taken == IF thr = "write" THEN ToWrite ELSE <<>>
LinesInv == output.faults = 0 => History(said, dropped, output, NotTaken, Taken)
Inv == FrontInv /\ BackInv /\ FileInv /\ LinesInv /\ dead # "assert"

\* A LogFile that was just made.
LEMMA NewFileIs ==
    ASSUME NEW t \in Nat, NEW n \in Int
    PROVE  LET f == NewLogFile(t, n)
           IN  FileOK(f, t) /\ f.buffer = <<>> /\ f.faults = 0 /\ Contents(f) = <<>>
  <1> DEFINE f == NewLogFile(t, n)
             d == [second \in {t} |-> <<>>]
  <1>1. <<>> \in Seq(Int) /\ PeriodOf(t) \in Int
    BY EmptySeq, FileAssumption DEF PeriodOf
  <1>2. d \in Disks /\ DOMAIN d = {t} /\ d[t] = <<>>
    <2>1. {t} \in SUBSET Nat /\ d \in [{t} -> Seq(Int)]
      BY <1>1
    <2>2. d \in Disks
      BY <2>1, Zenon DEF Disks
    <2>3. QED
      BY <2>2
  <1>3. f = [disk |-> d, name |-> t, buffer |-> <<>>, writtenBytes_ |-> 0, count_ |-> 0,
             checkEveryN_ |-> n, startOfPeriod_ |-> PeriodOf(t), lastFlush_ |-> 0, faults |-> 0]
    BY DEF NewLogFile
  <1> HIDE DEF f, d
  <1>4. f \in LogFiles /\ f.disk = d /\ f.name = t /\ f.buffer = <<>> /\ f.faults = 0
    BY <1>1, <1>2, <1>3 DEF LogFiles
  <1>5. FileOK(f, t)
    BY <1>2, <1>4 DEF FileOK
  <1>6. FlattenSeq(DiskSeq(d, t)) = <<>>
    <2>1. DiskSeq(d, t) \in Seq(Seq(Int)) /\ Len(DiskSeq(d, t)) = 1 + t
      BY <1>2, DiskSeqType
    <2>2. \A i \in 1..(1 + t) : DiskSeq(d, t)[i] = <<>>
      BY <1>2 DEF DiskSeq
    <2>3. QED
      BY <2>1, <2>2, FlattenEmpty
  <1>7. OnDisk(f) = <<>>
    BY <1>4, <1>6 DEF OnDisk, DiskSeq
  <1>8. Contents(f) = <<>>
    BY <1>4, <1>7 DEF Contents
  <1>9. QED
    BY <1>4, <1>5, <1>8 DEF f

\* The invariant holds initially.
LEMMA InitInv == ASSUME Init PROVE Inv
  <1>1. <<>> \in Seq(Line) /\ Len(said) = 0 /\ said = <<>>
    BY EmptySeq DEF Init
  <1>2. FrontInv
    <2>1. <<>> \in Seq(1..Len(said)) /\ currentBuffer_ = <<<<>>>>
      BY EmptySeq DEF Init
    <2>2. buffers_ \in Seq(Seq(1..Len(said))) /\ nextBuffer_ = EmptyBuffer
      BY EmptySeq DEF Init, EmptyBuffer
    <2>3. nextBuffer_ # Null
      BY <2>2 DEF EmptyBuffer, Null
    <2>4. \A i \in 1..Len(said) : ReadsBack(said[i])
      BY <1>1
    <2>5. QED
      BY <1>1, <2>1, <2>2, <2>3, <2>4 DEF FrontInv
  <1>3. BackInv
    <2>1. buffersToWrite \in Seq(Seq(1..Len(said))) /\ written \in 0..Len(buffersToWrite)
      BY EmptySeq DEF Init
    <2>2. QED
      BY <2>1 DEF Init, BackInv, Resting
  <1>4. /\ FileOK(output, now) /\ output.buffer = <<>> /\ output.faults = 0
        /\ Contents(output) = <<>> /\ now \in Nat
    <2>1. PICK n \in CheckEveryN : output = NewLogFile(now, n)
      BY DEF Init
    <2>2. n \in Int /\ now \in Nat
      BY <2>1, LoggingAssumption DEF Init
    <2>3. QED
      BY <2>1, <2>2, NewFileIs
  <1>5. FileInv
    BY <1>4 DEF FileInv
  <1>6. LinesInv
    <2>1. NotTaken = <<<<>>>> /\ Taken = <<>>
      BY DEF Init, NotTaken, Taken
    <2>2. FlattenSeq(<<<<>>>>) = <<>>
      <3>1. <<>> \in Seq(Int)
        BY EmptySeq
      <3>2. QED
        BY <3>1, FlattenOne
    <2>3. Ids(0, Len(said)) = <<>>
      BY <1>1 DEF Ids
    <2>4. FlattenSeq(<<>>) = <<>>
      <3>1. <<>> \in Seq(Seq(Int))
        BY EmptySeq
      <3>2. QED
        BY <3>1, FlattenIs
    <2>5. TextOfIn(said, <<>>) = <<>> /\ KeptIn(said, dropped, 0) = <<>>
      <3>1. [i \in 1..Len(<<>>) |-> TextIn(said, <<>>[i])] = <<>>
            /\ [i \in 1..0 |-> IF i \in dropped THEN <<>> ELSE said[i].text] = <<>>
        OBVIOUS
      <3>2. QED
        BY <2>4, <3>1 DEF TextOfIn, KeptIn
    <2>6. Upto(said, dropped, output, NotTaken, Taken, 0)
      <3>1. dropped = {}
        BY DEF Init
      <3>2. <<>> \o <<>> = <<>>
        OBVIOUS
      <3>3. QED
        BY <1>4, <2>1, <2>2, <2>3, <2>5, <3>1, <3>2 DEF Upto
    <2>7. 0 \in 0..Len(said)
      BY <1>1
    <2>8. QED
      BY <2>6, <2>7 DEF LinesInv, History
  <1>7. dead # "assert"
    BY DEF Init
  <1>8. QED
    BY <1>2, <1>3, <1>5, <1>6, <1>7 DEF Inv

\* A step that leaves the buffers and the file alone, and the logging thread where it is
\* or between two rounds.
LEMMA QuietStep ==
    ASSUME Inv, UNCHANGED <<frontVars, backVars, output>>,
           thr' = thr \/ (thr \in Resting /\ thr' \in Resting) \/ (thr = "none" /\ thr' = "begin"),
           owner' = "new" => thr' = "none", now' \in Nat, now <= now', dead' # "assert"
    PROVE  Inv'
  <1>1. /\ said' = said /\ currentBuffer_' = currentBuffer_ /\ buffers_' = buffers_
        /\ nextBuffer_' = nextBuffer_ /\ newBuffer1' = newBuffer1 /\ newBuffer2' = newBuffer2
        /\ buffersToWrite' = buffersToWrite /\ written' = written /\ dropped' = dropped
        /\ output' = output
    BY DEF frontVars, backVars
  <1>2. FrontInv'
    BY <1>1 DEF Inv, FrontInv
  <1>3. BackInv'
    BY <1>1 DEF Inv, BackInv, Resting
  <1>4. FileInv'
    <2>1. FileOK(output, now) => FileOK(output, now')
      <3>1. FileOK(output, now) => output.name \in Nat
        BY DEF FileOK, LogFiles
      <3>2. now \in Nat
        BY DEF Inv, FileInv
      <3>3. QED
        BY <3>1, <3>2 DEF FileOK
    <2>2. QED
      BY <1>1, <2>1 DEF Inv, FileInv, Resting
  <1>5. NotTaken' = NotTaken /\ Taken' = Taken
    BY <1>1 DEF NotTaken, Taken, ToWrite, Resting
  <1>6. LinesInv'
    BY <1>1, <1>5 DEF Inv, LinesInv
  <1>7. QED
    BY <1>2, <1>3, <1>4, <1>6 DEF Inv

\* append() stores what it is given, cut at the size of a buffer.
LEMMA StoredIs ==
    ASSUME NEW s \in Seq(Int)
    PROVE  /\ append(kLargeBuffer, <<>>, s) \in Seq(Int)
           /\ Len(s) <= kLargeBuffer => append(kLargeBuffer, <<>>, s) = s
  <1> DEFINE k == IF Len(s) > kLargeBuffer THEN kLargeBuffer ELSE Len(s)
             c == SubSeq(s, 1, k)
  <1>1. kLargeBuffer \in Nat /\ Len(s) \in Nat
    BY LoggingAssumption
  <1>2. k \in 0..Len(s) /\ (Len(s) <= kLargeBuffer => k = Len(s))
    BY <1>1
  <1>3. append(kLargeBuffer, <<>>, s) = <<>> \o c
    BY Zenon DEF append, available
  <1> HIDE DEF k
  <1>4. c \in Seq(Int)
    BY <1>1, <1>2
  <1>5. k = Len(s) => c = s
    BY SubSeqFull
  <1> HIDE DEF c
  <1>6. <<>> \o c = c
    BY <1>4, ConcatEmptySeq
  <1>7. QED
    BY <1>2, <1>3, <1>4, <1>5, <1>6

\* The buffers hold lines up to n, and so up to n + 1.
LEMMA BuffersGrow ==
    ASSUME NEW n \in Nat
    PROVE  /\ \A b \in Seq(1..n) : b \in Seq(1..(n + 1))
           /\ \A bs \in Seq(Seq(1..n)) : bs \in Seq(Seq(1..(n + 1)))
  <1> DEFINE S == 1..n
             T == 1..(n + 1)
  <1>1. S \subseteq T
    OBVIOUS
  <1> HIDE DEF S, T
  <1>2. ASSUME NEW b \in Seq(S) PROVE b \in Seq(T)
    BY <1>1, SeqMonotonic
  <1>3. Seq(S) \subseteq Seq(T)
    BY <1>2
  <1>4. ASSUME NEW bs \in Seq(Seq(S)) PROVE bs \in Seq(Seq(T))
    BY <1>3, SeqMonotonic
  <1>5. QED
    BY <1>2, <1>4 DEF S, T

\* append() with the lock held, of text s for the value x.
LEMMA AppendLineStep ==
    ASSUME Inv, NEW x \in Loggable \union Block, NEW s \in Seq(Int), AppendLine(x, s),
           ReadsBack([val |-> x, text |-> append(kLargeBuffer, <<>>, s)]),
           UNCHANGED <<owner, fileVars, backVars>>, dead' # "assert"
    PROVE  Inv'
  <1> DEFINE l == [val |-> x, text |-> append(kLargeBuffer, <<>>, s)]
             n == Len(said)
             id == n + 1
             X == IF thr = "drop" THEN buffersToWrite ELSE <<>>
             Old == Seq(Seq(1..n))
             New == Seq(Seq(1..(n + 1)))
  <1>1. l \in Line
    BY StoredIs DEF Line
  <1>2. /\ owner' = owner /\ output' = output /\ now' = now
        /\ newBuffer1' = newBuffer1 /\ newBuffer2' = newBuffer2
        /\ buffersToWrite' = buffersToWrite /\ written' = written /\ dropped' = dropped
    BY DEF fileVars, backVars
  <1>3. said \in Seq(Line) /\ said' = Append(said, l) /\ ReadsBack(l)
    BY DEF AppendLine, Inv, FrontInv
  <1> HIDE DEF l
  <1>4. /\ said' \in Seq(Line) /\ Len(said') = n + 1 /\ n \in Nat
        /\ said'[n + 1] = l /\ \A i \in 1..n : said'[i] = said[i]
    BY <1>1, <1>3, AppendProperties
  <1>5. \A i \in 1..Len(said') : ReadsBack(said'[i])
    <2>1. \A i \in 1..n : ReadsBack(said[i])
      BY DEF Inv, FrontInv
    <2>2. ASSUME NEW i \in 1..(n + 1) PROVE ReadsBack(said'[i])
      <3>1. i = n + 1 \/ i \in 1..n
        BY <1>4
      <3>2. QED
        BY <1>3, <1>4, <2>1, <3>1
    <2>3. QED
      BY <1>4, <2>2
  <1>6. PICK b \in Seq(1..n) : currentBuffer_ = <<b>>
    BY DEF Inv, FrontInv
  <1>7. buffers_ \in Old /\ buffersToWrite \in Old /\ X \in Old
    <2>1. buffers_ \in Old /\ buffersToWrite \in Old
      BY DEF Inv, FrontInv, BackInv
    <2>2. QED
      BY <2>1, EmptySeq
  <1>8. /\ b \in Seq(1..(n + 1)) /\ buffers_ \in New /\ buffersToWrite \in New
        /\ id \in 1..(n + 1) /\ <<id>> \in Seq(1..(n + 1))
    BY <1>4, <1>6, <1>7, BuffersGrow
  <1>9. thr' = thr \/ (thr \in Resting /\ thr' \in Resting)
    BY DEF AppendLine, Signalled, Resting
  <1>10. BackInv'
    <2>1. buffersToWrite' \in Seq(Seq(1..Len(said')))
      BY <1>2, <1>4, <1>8
    <2>2. BackInv
      BY DEF Inv
    <2>3. owner = "new" => thr' = "none"
      BY <1>9, <2>2 DEF BackInv, Resting
    <2>4. QED
      BY <1>2, <1>9, <2>1, <2>2, <2>3 DEF BackInv, Resting
  <1>11. FileInv'
    BY <1>2, <1>9 DEF Inv, FileInv, Resting
  <1>12. /\ X' = X
         /\ Taken' = Taken
    BY <1>2, <1>9 DEF Taken, ToWrite, Resting
  <1>13. Taken \in Old
    <2>1. <<>> \in Old
      BY EmptySeq
    <2>2. ToWrite \in Old
      <3>1. /\ written \in Nat /\ Len(buffersToWrite) \in Nat
            /\ \A i \in 1..Len(buffersToWrite) : buffersToWrite[i] \in Seq(1..n)
        BY <1>7, ElementOfSeq DEF Inv, BackInv
      <3>2. \A i \in (written + 1)..Len(buffersToWrite) : buffersToWrite[i] \in Seq(1..n)
        BY <3>1
      <3>3. written + 1 \in Int /\ Len(buffersToWrite) \in Int
        BY <3>1
      <3>4. QED
        BY <3>2, <3>3, SubSeqProperties DEF ToWrite
    <2>3. QED
      BY <2>1, <2>2 DEF Taken
  <1> DEFINE Room == available(kLargeBuffer, Text(currentBuffer_[1])) > Len(s)
  <1>14. NotTaken = X \o (buffers_ \o <<b>>) /\ NotTaken' = X \o (buffers_' \o currentBuffer_')
    BY <1>6, <1>12 DEF NotTaken
  <1> HIDE DEF X
  <1>15. ASSUME NEW y \in New, NEW c \in Seq(1..(n + 1)), NEW z \in New
         PROVE  z \o (y \o <<c>>) = Append(z \o y, c) /\ z \o y \in New
    <2>1. z \o y \in New
      BY ConcatProperties
    <2>2. y \o <<c>> = Append(y, c)
      BY AppendIsConcat
    <2>3. z \o Append(y, c) = Append(z \o y, c)
      <3> DEFINE I == Seq(1..(n + 1))
      <3>1. z \in Seq(I) /\ y \in Seq(I) /\ c \in I
        OBVIOUS
      <3> HIDE DEF I
      <3>2. AppendsLast(z, y, c)
        BY <3>1, ConcatAppend
      <3>3. QED
        BY <3>2 DEF AppendsLast
    <2>4. QED
      BY <2>1, <2>2, <2>3
  <1>16. X \in New
    BY <1>4, <1>7, BuffersGrow
  <1>17. ASSUME Room PROVE FrontInv' /\ FlattenSeq(NotTaken') = Append(FlattenSeq(NotTaken), id)
    <2>1. /\ currentBuffer_' = <<Append(b, id)>> /\ buffers_' = buffers_
          /\ nextBuffer_' = nextBuffer_
      BY <1>6, <1>17 DEF AppendLine
    <2>2. Append(b, id) \in Seq(1..(n + 1))
      BY <1>8, AppendProperties
    <2>3. FrontInv'
      <3>1. \E c \in Seq(1..Len(said')) : currentBuffer_' = <<c>>
        BY <1>4, <2>1, <2>2
      <3>2. buffers_' \in Seq(Seq(1..Len(said')))
        BY <1>4, <1>8, <2>1
      <3>3. QED
        BY <1>4, <1>5, <2>1, <3>1, <3>2 DEF Inv, FrontInv
    <2>4. FlattenSeq(NotTaken') = Append(FlattenSeq(NotTaken), id)
      <3> DEFINE u == X \o buffers_
      <3>1. NotTaken = Append(u, b) /\ NotTaken' = Append(u, Append(b, id)) /\ u \in New
        BY <1>8, <1>14, <1>15, <1>16, <2>1, <2>2
      <3> HIDE DEF u
      <3>2. /\ FlattenSeq(NotTaken) = FlattenSeq(u) \o b
            /\ FlattenSeq(NotTaken') = FlattenSeq(u) \o Append(b, id)
        BY <1>8, <2>2, <3>1, FlattenAppend
      <3>3. FlattenSeq(u) \in Seq(1..(n + 1))
        BY <3>1, FlattenIs
      <3>4. FlattenSeq(u) \o Append(b, id) = Append(FlattenSeq(u) \o b, id)
        <4> DEFINE I == 1..(n + 1)
                   v == FlattenSeq(u)
        <4>1. b \in Seq(I) /\ v \in Seq(I) /\ id \in I
          BY <1>8, <3>3
        <4> HIDE DEF I, v, id
        <4>2. v \o Append(b, id) = Append(v \o b, id)
          <5>1. AppendsLast(v, b, id)
            BY <4>1, ConcatAppend
          <5>2. QED
            BY <5>1 DEF AppendsLast
        <4>3. QED
          BY <4>2 DEF v
      <3>5. QED
        BY <3>2, <3>4
    <2>5. QED
      BY <2>3, <2>4
  <1>18. ASSUME ~Room PROVE FrontInv' /\ FlattenSeq(NotTaken') = Append(FlattenSeq(NotTaken), id)
    <2>1. /\ currentBuffer_' = <<<<id>>>> /\ buffers_' = buffers_ \o <<b>>
          /\ nextBuffer_' = Null
      BY <1>6, <1>18 DEF AppendLine, Null
    <2>2. buffers_' \in New /\ buffers_' # <<>>
      <3>1. buffers_ \o <<b>> = Append(buffers_, b)
        BY <1>8, AppendIsConcat
      <3>2. Append(buffers_, b) \in New /\ Append(buffers_, b) # <<>>
        <4> DEFINE I == Seq(1..(n + 1))
        <4>1. b \in I /\ buffers_ \in Seq(I)
          BY <1>8
        <4> HIDE DEF I
        <4>2. /\ Append(buffers_, b) \in Seq(I) /\ Len(buffers_) \in Nat
              /\ Len(Append(buffers_, b)) = Len(buffers_) + 1
          BY <4>1, AppendProperties
        <4>3. Append(buffers_, b) # <<>>
          BY <4>2, EmptySeq
        <4>4. QED
          BY <4>2, <4>3 DEF I
      <3>3. QED
        BY <2>1, <3>1, <3>2
    <2>3. FrontInv'
      <3>1. \E c \in Seq(1..Len(said')) : currentBuffer_' = <<c>>
        BY <1>4, <1>8, <2>1
      <3>2. buffers_' \in Seq(Seq(1..Len(said')))
        BY <1>4, <2>2
      <3>3. QED
        BY <1>4, <1>5, <2>1, <2>2, <3>1, <3>2 DEF FrontInv
    <2>4. FlattenSeq(NotTaken') = Append(FlattenSeq(NotTaken), id)
      <3>1. NotTaken' = Append(X \o buffers_', <<id>>) /\ X \o buffers_' \in New
        BY <1>8, <1>14, <1>15, <1>16, <2>1, <2>2
      <3>2. NotTaken = X \o buffers_'
        BY <1>14, <2>1
      <3>3. FlattenSeq(NotTaken') = FlattenSeq(NotTaken) \o <<id>>
        BY <1>8, <3>1, <3>2, FlattenAppend
      <3>4. FlattenSeq(NotTaken) \in Seq(1..(n + 1))
        BY <3>1, <3>2, FlattenIs
      <3>5. QED
        BY <1>8, <3>3, <3>4, AppendIsConcat
    <2>5. QED
      BY <2>3, <2>4
  <1>19. FrontInv' /\ FlattenSeq(NotTaken') = Append(FlattenSeq(NotTaken), id)
    BY <1>17, <1>18
  <1>20. LinesInv'
    <2>1. ASSUME output.faults = 0 PROVE History(Append(said, l), dropped, output, NotTaken', Taken)
      <3>1. History(said, dropped, output, NotTaken, Taken)
        BY <2>1 DEF Inv, LinesInv
      <3> DEFINE nt == NotTaken  nt2 == NotTaken'
      <3> HIDE DEF nt, nt2
      <3>2. History(said, dropped, output, nt, Taken) /\ FlattenSeq(nt2) = Append(FlattenSeq(nt), Len(said) + 1)
        BY <1>19, <3>1 DEF nt, nt2
      <3>3. History(Append(said, l), dropped, output, nt2, Taken)
        BY <1>1, <1>3, <1>13, <3>2, HistoryAppend
      <3>4. QED
        BY <3>3 DEF nt2
    <2>2. QED
      BY <1>2, <1>3, <1>12, <2>1 DEF LinesInv
  <1>21. QED
    BY <1>10, <1>11, <1>19, <1>20 DEF Inv

\* LOG_INFO << x
LEMMA LogStep ==
    ASSUME Inv, dead = "no", NEW x \in Loggable, Log(x)
    PROVE  Inv'
  <1> DEFINE s == Logger(x)
  <1>1. /\ s \in Seq(Int)
        /\ ~Overrun(kSmallBuffer, s) =>
             /\ s[1] = Prologue /\ s[Len(s)] = LineFeed
             /\ Reads(SubSeq(s, 2, Len(s) - 1), x)
    BY LoggerReadsBack
  <1>2. UNCHANGED <<running_, owner, fileVars, backVars>>
    BY DEF Log
  <1>3. /\ kSmallBuffer \in Nat /\ kLargeBuffer \in Nat /\ kLargeBuffer > kSmallBuffer
    BY StreamAssumption, LoggingAssumption
  <1>4. CASE Overrun(kSmallBuffer, s)
    <2>1. dead' = "undefined" /\ UNCHANGED <<frontVars, thr>>
      BY <1>4 DEF Log
    <2>2. now \in Nat /\ now' = now /\ output' = output /\ owner' = owner
          /\ (owner = "new" => thr = "none")
      BY <1>2 DEF Inv, FileInv, BackInv, fileVars
    <2>3. UNCHANGED <<frontVars, backVars, output>> /\ now <= now'
      BY <1>2, <2>1, <2>2
    <2>4. QED
      BY <2>1, <2>2, <2>3, QuietStep
  <1>5. CASE ~Overrun(kSmallBuffer, s)
    <2>1. AppendLine(x, s) /\ dead' = AfterAppendLine
      BY <1>5 DEF Log
    <2>2. dead' # "assert"
      BY <2>1 DEF AfterAppendLine
    <2> HIDE DEF s
    <2>3. append(kLargeBuffer, <<>>, s) = s
      <3>1. Len(s) \in Nat
        BY <1>1
      <3>2. Len(s) <= kLargeBuffer
        BY <1>3, <1>5, <3>1 DEF Overrun
      <3>3. QED
        BY <1>1, <3>2, StoredIs
    <2>4. ReadsBack([val |-> x, text |-> s])
      BY <1>1, <1>5 DEF ReadsBack
    <2>5. x \in Loggable \union Block
      OBVIOUS
    <2>6. ReadsBack([val |-> x, text |-> append(kLargeBuffer, <<>>, s)])
      BY <2>3, <2>4
    <2>7. UNCHANGED <<owner, fileVars, backVars>>
      BY <1>2
    <2>8. QED
      BY <1>1, <2>1, <2>2, <2>5, <2>6, <2>7, AppendLineStep
  <1>6. QED
    BY <1>4, <1>5

\* append() of a block
LEMMA LogBlockStep ==
    ASSUME Inv, dead = "no", NEW n \in BigLines, LogBlock(n)
    PROVE  Inv'
  <1> DEFINE s == [i \in 1..n |-> Letter]
             x == [kind |-> "block", val |-> n]
  <1>1. n \in Nat
    BY LoggingAssumption
  <1>2. s \in Seq(Int) /\ x \in Loggable \union Block
    <2>1. s \in Seq(Int)
      BY <1>1 DEF Letter
    <2>2. x \in Block
      BY <1>1 DEF Block
    <2>3. QED
      BY <2>1, <2>2
  <1>3. AppendLine(x, s) /\ dead' = AfterAppendLine /\ UNCHANGED <<owner, fileVars, backVars>>
    BY DEF LogBlock
  <1>4. dead' # "assert"
    BY <1>3 DEF AfterAppendLine
  <1>5. ReadsBack([val |-> x, text |-> append(kLargeBuffer, <<>>, s)])
    BY DEF ReadsBack
  <1> HIDE DEF s, x
  <1>6. QED
    BY <1>2, <1>3, <1>4, <1>5, AppendLineStep

\* The logging thread begins with a new LogFile and two buffers.
LEMMA BeginStep ==
    ASSUME Inv, dead = "no", ThreadBegin
    PROVE  Inv'
  <1>1. /\ thr = "begin" /\ thr' = "test" /\ output' = NewLogFile(now, output.checkEveryN_)
        /\ newBuffer1' = EmptyBuffer /\ newBuffer2' = EmptyBuffer
        /\ owner' = owner /\ dead' = dead /\ now' = now
        /\ said' = said /\ currentBuffer_' = currentBuffer_ /\ buffers_' = buffers_
        /\ nextBuffer_' = nextBuffer_
        /\ buffersToWrite' = buffersToWrite /\ written' = written /\ dropped' = dropped
    BY DEF ThreadBegin, frontVars, EmptyBuffer
  <1>2. now \in Nat /\ output.checkEveryN_ \in Int
    BY DEF Inv, FileInv, FileOK, LogFiles
  <1>3. /\ FileOK(output', now) /\ output'.buffer = <<>> /\ output'.faults = 0
        /\ Contents(output') = <<>>
    BY <1>1, <1>2, NewFileIs
  <1>4. FrontInv'
    BY <1>1 DEF Inv, FrontInv
  <1>5. BackInv'
    BY <1>1 DEF Inv, BackInv, Resting
  <1>6. FileInv'
    BY <1>1, <1>2, <1>3 DEF FileInv
  <1>7. LinesInv'
    <2>1. NotTaken' = NotTaken /\ Taken' = Taken
      BY <1>1 DEF NotTaken, Taken
    <2>2. History(said, dropped, output, NotTaken, Taken) /\ Contents(output) = <<>>
      BY <1>1 DEF Inv, LinesInv, FileInv
    <2>3. History(said, dropped, output', NotTaken, Taken)
      BY <1>3, <2>2 DEF History, Upto
    <2>4. QED
      BY <1>1, <2>1, <2>3 DEF LinesInv
  <1>8. QED
    BY <1>1, <1>4, <1>5, <1>6, <1>7 DEF Inv

\* Lines 74-82: the buffers are swapped.
LEMMA SwapStep ==
    ASSUME Inv, thr \in Resting, thr' = "drop", Swap, dead' # "assert",
           UNCHANGED <<owner, fileVars, said, written, dropped>>
    PROVE  Inv'
  <1> DEFINE n == Len(said)
             Bufs == Seq(Seq(1..n))
             y == buffers_ \o currentBuffer_
  <1>1. /\ owner' = owner /\ output' = output /\ now' = now /\ said' = said
        /\ written' = written /\ dropped' = dropped
    BY DEF fileVars
  <1>2. PICK b \in Seq(1..n) : currentBuffer_ = <<b>>
    BY DEF Inv, FrontInv
  <1>3. /\ buffers_ \in Bufs /\ newBuffer1 = EmptyBuffer /\ newBuffer2 = EmptyBuffer
        /\ buffersToWrite = <<>> /\ written = 0
        /\ nextBuffer_ \in {Null, EmptyBuffer} /\ (nextBuffer_ = Null => buffers_ # <<>>)
        /\ owner # "new"
    BY DEF Inv, FrontInv, BackInv, Resting
  <1>4. /\ y \in Bufs /\ Len(y) = Len(buffers_) + 1 /\ Len(buffers_) \in Nat
    <2>1. y = Append(buffers_, b)
      BY <1>2, <1>3, AppendIsConcat
    <2>2. QED
      BY <1>2, <1>3, <2>1, AppendProperties
  <1>5. /\ buffersToWrite' = y /\ currentBuffer_' = EmptyBuffer /\ newBuffer1' = Null
        /\ buffers_' = <<>> /\ nextBuffer_' = EmptyBuffer
        /\ newBuffer2' = IF nextBuffer_ = Null THEN Null ELSE EmptyBuffer
    BY <1>3 DEF Swap, Null
  <1>6. EmptyBuffer # Null
    BY DEF EmptyBuffer, Null
  <1>7. FrontInv'
    <2>1. <<>> \in Seq(1..Len(said)) /\ <<>> \in Bufs
      BY EmptySeq
    <2>2. \E c \in Seq(1..Len(said)) : currentBuffer_' = <<c>>
      BY <1>5, <2>1 DEF EmptyBuffer
    <2>3. QED
      BY <1>1, <1>5, <1>6, <2>1, <2>2 DEF Inv, FrontInv
  <1>8. nextBuffer_ = Null => Len(y) >= 2
    <2>1. Len(buffers_) = 0 => buffers_ = <<>>
      BY <1>3, EmptySeq
    <2>2. QED
      BY <1>3, <1>4, <2>1
  <1>9. Len(y) >= 1 /\ 0 \in 0..Len(y)
    BY <1>4
  <1>10. BackInv'
    BY <1>1, <1>3, <1>4, <1>5, <1>6, <1>8, <1>9 DEF BackInv, Resting
  <1>11. FileInv'
    BY <1>1 DEF Inv, FileInv, Resting
  <1>12. /\ NotTaken = <<>> \o y /\ NotTaken' = y \o (<<>> \o EmptyBuffer)
         /\ Taken = <<>> /\ Taken' = <<>>
    BY <1>5 DEF NotTaken, Taken, Resting
  <1>13. FlattenSeq(NotTaken') = FlattenSeq(NotTaken)
    <2> HIDE DEF y
    <2>1. <<>> \in Seq(1..n) /\ EmptyBuffer \in Bufs
      BY EmptySeq DEF EmptyBuffer
    <2>2. <<>> \o y = y /\ <<>> \o EmptyBuffer = <<<<>>>>
      <3>1. <<>> \o y = y
        BY <1>4, ConcatEmptySeq
      <3>2. <<>> \o EmptyBuffer = EmptyBuffer
        BY <2>1, ConcatEmptySeq
      <3>3. QED
        BY <3>1, <3>2 DEF EmptyBuffer
    <2>3. y \o <<<<>>>> = Append(y, <<>>)
      BY <1>4, <2>1, AppendIsConcat
    <2>4. FlattenSeq(Append(y, <<>>)) = FlattenSeq(y) \o <<>>
      BY <1>4, <2>1, FlattenAppend
    <2>5. FlattenSeq(y) \o <<>> = FlattenSeq(y)
      <3>1. FlattenSeq(y) \in Seq(1..n)
        BY <1>4, FlattenIs
      <3>2. QED
        BY <3>1, ConcatEmptySeq
    <2>6. QED
      BY <1>12, <2>2, <2>3, <2>4, <2>5
  <1>14. LinesInv'
    <2>1. ASSUME output.faults = 0 PROVE History(said, dropped, output, NotTaken', Taken')
      <3>1. History(said, dropped, output, NotTaken, Taken)
        BY <2>1 DEF Inv, LinesInv
      <3>2. QED
        BY <1>12, <1>13, <3>1 DEF History, Upto
    <2>2. QED
      BY <1>1, <2>1 DEF LinesInv
  <1>15. QED
    BY <1>7, <1>10, <1>11, <1>14 DEF Inv

\* Of more than kMaxBuffers buffers all but two are dropped.
LEMMA DropStep ==
    ASSUME Inv, dead = "no", ThreadDrop
    PROVE  Inv'
  <1> DEFINE n == Len(said)
             Bufs == Seq(Seq(1..n))
             x == buffersToWrite
             z == buffers_ \o currentBuffer_
             tooMany == Len(x) > kMaxBuffers
             a == IF tooMany THEN SubSeq(x, 1, 2) ELSE x
             b == IF tooMany THEN SubSeq(x, 3, Len(x)) ELSE <<>>
  <1>1. /\ thr = "drop" /\ thr' = "write" /\ owner' = owner /\ output' = output /\ now' = now
        /\ said' = said /\ currentBuffer_' = currentBuffer_ /\ buffers_' = buffers_
        /\ nextBuffer_' = nextBuffer_ /\ newBuffer1' = newBuffer1 /\ newBuffer2' = newBuffer2
        /\ written' = written /\ buffersToWrite' = a
        /\ dead' = IF x # <<>> THEN dead ELSE "assert"
    BY DEF ThreadDrop, AssertThat, fileVars, frontVars
  <1>2. /\ x \in Bufs /\ written = 0 /\ newBuffer1 = Null /\ said \in Seq(Line)
        /\ \/ newBuffer2 = EmptyBuffer /\ Len(x) >= 1
           \/ newBuffer2 = Null /\ Len(x) >= 2
        /\ buffers_ \in Bufs /\ \E c \in Seq(1..n) : currentBuffer_ = <<c>>
        /\ Len(x) \in Nat /\ owner # "new"
    BY <1>1 DEF Inv, FrontInv, BackInv, Resting
  <1>3. kMaxBuffers \in Nat /\ kMaxBuffers >= 2
    BY LoggingAssumption
  <1>4. /\ a \in Bufs /\ b \in Bufs /\ x = a \o b
        /\ Len(a) >= 1 /\ (Len(x) >= 2 => Len(a) >= 2)
        /\ ToSet(FlattenSeq(b)) = IF tooMany THEN UNION {ToSet(x[i]) : i \in 3..Len(x)} ELSE {}
    <2>1. CASE tooMany
      <3>1. a = SubSeq(x, 1, 2) /\ b = SubSeq(x, 3, Len(x)) /\ Len(x) >= 3
        BY <1>2, <1>3, <2>1
      <3>2. \A i \in 1..Len(x) : x[i] \in Seq(1..n)
        BY <1>2, ElementOfSeq
      <3> HIDE DEF x, a, b
      <3> DEFINE I == Seq(1..n)
      <3> HIDE DEF I
      <3>3. /\ \A i \in 1..2 : x[i] \in I
            /\ \A i \in 3..Len(x) : x[i] \in I
            /\ Len(x) \in Int /\ x \in Seq(I)
        <4>1. \A i \in 1..Len(x) : x[i] \in I
          BY <3>2 DEF I
        <4>2. x \in Seq(I)
          BY <1>2 DEF I
        <4>3. Len(x) \in Nat
          BY <1>2
        <4>4. 1..2 \subseteq 1..Len(x) /\ 3..Len(x) \subseteq 1..Len(x) /\ Len(x) \in Int
          BY <3>1, <4>3
        <4>5. QED
          BY <4>1, <4>2, <4>4
      <3>4. a \in Seq(I) /\ Len(a) = 2
        BY <3>1, <3>3, SubSeqProperties
      <3>5. /\ b \in Seq(I) /\ Len(b) = Len(x) - 2
            /\ \A i \in 1..(Len(x) - 2) : b[i] = x[i + 2]
        <4>1. /\ SubSeq(x, 3, Len(x)) \in Seq(I)
              /\ Len(SubSeq(x, 3, Len(x))) = IF 3 <= Len(x) THEN (Len(x) - 3) + 1 ELSE 0
              /\ \A i \in 1..((Len(x) - 3) + 1) : SubSeq(x, 3, Len(x))[i] = x[(3 + i) - 1]
          BY <3>3, SubSeqProperties
        <4>2. (Len(x) - 3) + 1 = Len(x) - 2 /\ \A i \in 1..(Len(x) - 2) : (3 + i) - 1 = i + 2
          BY <3>1, <3>3
        <4>3. QED
          BY <3>1, <4>1, <4>2
      <3>6. x = a \o b
        <4>1. 1 \in 1..(Len(x) + 1) /\ 2 \in (1 - 1)..Len(x) /\ Len(x) \in 2..Len(x)
          BY <3>1, <3>3
        <4>2. SubSeq(x, 1, 2) \o SubSeq(x, 2 + 1, Len(x)) = SubSeq(x, 1, Len(x))
          BY <3>3, <4>1, ConcatAdjacentSubSeq
        <4>3. SubSeq(x, 1, Len(x)) = x /\ 2 + 1 = 3
          BY <3>3, SubSeqFull
        <4>4. QED
          BY <3>1, <4>2, <4>3
      <3>7. ToSet(FlattenSeq(b)) = UNION {ToSet(x[i]) : i \in 3..Len(x)}
        <4>1. ToSet(FlattenSeq(b)) = UNION {ToSet(b[i]) : i \in 1..Len(b)}
          BY <3>5, FlattenRange DEF I
        <4>2. {ToSet(b[i]) : i \in 1..Len(b)} = {ToSet(x[i]) : i \in 3..Len(x)}
          <5>1. ASSUME NEW i \in 1..Len(b) PROVE i + 2 \in 3..Len(x) /\ b[i] = x[i + 2]
            BY <3>1, <3>3, <3>5
          <5>2. ASSUME NEW j \in 3..Len(x) PROVE \E i \in 1..Len(b) : b[i] = x[j]
            <6>1. j - 2 \in 1..Len(b) /\ (j - 2) + 2 = j
              BY <3>1, <3>3, <3>5
            <6>2. b[j - 2] = x[(j - 2) + 2]
              BY <5>1, <6>1
            <6>3. QED
              BY <6>1, <6>2
          <5>3. QED
            BY <5>1, <5>2
        <4>3. QED
          BY <4>1, <4>2
      <3>8. QED
        BY <2>1, <3>4, <3>5, <3>6, <3>7 DEF I
    <2>2. CASE ~tooMany
      <3>1. a = x /\ b = <<>> /\ <<>> \in Bufs
        BY <2>2, EmptySeq
      <3>2. x \o <<>> = x
        BY <1>2, ConcatEmptySeq
      <3>3. FlattenSeq(<<>>) = <<>>
        BY <3>1, FlattenIs
      <3>4. ToSet(<<>>) = {}
        BY DEF ToSet
      <3> HIDE DEF x, a, b
      <3>5. QED
        BY <1>2, <2>2, <3>1, <3>2, <3>3, <3>4
    <2>3. QED
      BY <2>1, <2>2
  <1>5. dropped' = dropped \union ToSet(FlattenSeq(b))
    <2>1. dropped' = IF tooMany THEN dropped \union UNION {ToSet(x[i]) : i \in 3..Len(x)} ELSE dropped
      BY DEF ThreadDrop
    <2>2. QED
      BY <1>4, <2>1
  <1>6. x # <<>> /\ dead' # "assert"
    <2>1. Len(<<>>) = 0
      BY EmptySeq
    <2>2. QED
      BY <1>1, <1>2, <2>1
  <1> HIDE DEF a, b
  <1>7. FrontInv'
    BY <1>1 DEF Inv, FrontInv
  <1>8. Len(a) \in Nat /\ 0 \in 0..Len(a)
    BY <1>4
  <1>9. BackInv'
    BY <1>1, <1>2, <1>4, <1>8 DEF BackInv, Resting
  <1>10. FileInv'
    BY <1>1 DEF Inv, FileInv
  <1>11. LinesInv'
    <2>1. z \in Bufs
      <3>1. PICK c \in Seq(1..n) : currentBuffer_ = <<c>>
        BY <1>2
      <3>2. z = Append(buffers_, c)
        BY <1>2, <3>1, AppendIsConcat
      <3>3. QED
        BY <1>2, <3>1, <3>2, AppendProperties
    <2>2. NotTaken = (a \o b) \o z /\ Taken = <<>>
      BY <1>1, <1>4 DEF NotTaken, Taken
    <2>3. NotTaken' = z /\ Taken' = a
      <3>1. NotTaken' = <<>> \o z
        BY <1>1 DEF NotTaken
      <3>2. <<>> \o z = z
        BY <2>1, ConcatEmptySeq
      <3>3. Taken' = SubSeq(a, 0 + 1, Len(a))
        BY <1>1, <1>2 DEF Taken, ToWrite
      <3>4. 0 + 1 = 1 /\ SubSeq(a, 1, Len(a)) = a
        BY <1>4, SubSeqFull
      <3>5. QED
        BY <3>1, <3>2, <3>3, <3>4
    <2>4. Contents(output) \in Seq(Int)
      BY FlushKeeps DEF Inv, FileInv
    <2> HIDE DEF z
    <2>5. ASSUME output.faults = 0
          PROVE  History(said, dropped \union ToSet(FlattenSeq(b)), output, z, a)
      <3>1. History(said, dropped, output, (a \o b) \o z, <<>>)
        BY <2>2, <2>5 DEF Inv, LinesInv
      <3>2. QED
        BY <1>2, <1>4, <2>1, <2>4, <3>1, HistoryDrop
    <2>6. QED
      BY <1>1, <1>5, <2>3, <2>5 DEF LinesInv
  <1>12. QED
    BY <1>6, <1>7, <1>9, <1>10, <1>11 DEF Inv

\* One buffer is written to the LogFile.
LEMMA WriteStep ==
    ASSUME Inv, dead = "no", ThreadWrite
    PROVE  Inv'
  <1> DEFINE n == Len(said)
             x == buffersToWrite
             k == written + 1
             s == Text(x[k])
             rest == SubSeq(x, k + 1, Len(x))
  <1>1. /\ thr = "write" /\ thr' = "write" /\ owner' = owner /\ now' = now /\ dead' = dead
        /\ said' = said /\ currentBuffer_' = currentBuffer_ /\ buffers_' = buffers_
        /\ nextBuffer_' = nextBuffer_ /\ newBuffer1' = newBuffer1 /\ newBuffer2' = newBuffer2
        /\ buffersToWrite' = x /\ dropped' = dropped /\ written' = k
        /\ written < Len(x) /\ output' \in LogFileAppend(output, s, now)
    BY DEF ThreadWrite, frontVars
  <1>2. /\ x \in Seq(Seq(1..n)) /\ Len(x) \in Nat /\ written \in Nat /\ k \in 1..Len(x)
        /\ said \in Seq(Line) /\ x[k] \in Seq(1..n) /\ owner # "new"
    <2>1. /\ x \in Seq(Seq(1..n)) /\ Len(x) \in Nat /\ written \in 0..Len(x)
          /\ said \in Seq(Line) /\ owner # "new"
      BY <1>1 DEF Inv, FrontInv, BackInv
    <2>2. k \in 1..Len(x)
      BY <1>1, <2>1
    <2>3. x[k] \in Seq(1..n)
      BY <2>1, <2>2, ElementOfSeq
    <2>4. QED
      BY <2>1, <2>2, <2>3
  <1>3. s = TextIn(said, x[k]) /\ s \in Seq(Int)
    <2>1. s = TextIn(said, x[k])
      BY DEF Text, TextIn
    <2> HIDE DEF s, k
    <2>2. TextIn(said, x[k]) \in Seq(Int)
      BY <1>2, TextConcat
    <2>3. QED
      BY <2>1, <2>2
  <1> HIDE DEF s
  <1>4. /\ FileOK(output', now)
        /\ output'.faults = 0 => output.faults = 0 /\ Contents(output') = Contents(output) \o s
    <2>1. now \in Nat /\ FileOK(output, now)
      BY DEF Inv, FileInv
    <2>2. QED
      BY <1>1, <1>3, <2>1, AppendKeeps
  <1>5. FrontInv'
    BY <1>1 DEF Inv, FrontInv
  <1>6. BackInv'
    <2>1. k \in 0..Len(x)
      BY <1>2
    <2> HIDE DEF k
    <2>2. QED
      BY <1>1, <1>2, <2>1 DEF Inv, BackInv, Resting
  <1>7. FileInv'
    BY <1>1, <1>4 DEF Inv, FileInv
  <1>8. LinesInv'
    <2>1. NotTaken' = NotTaken /\ Taken' = rest /\ Taken = SubSeq(x, k, Len(x))
      BY <1>1 DEF NotTaken, Taken, ToWrite
    <2>2. SubSeq(x, k, Len(x)) = <<x[k]>> \o rest
      <3>1. Len(x) \in k..Len(x)
        BY <1>2
      <3> HIDE DEF k
      <3>2. QED
        BY <1>2, <3>1, SubSeqRecursiveFirst
    <2>3. rest \in Seq(Seq(1..n))
      <3>1. \A i \in (k + 1)..Len(x) : x[i] \in Seq(1..n)
        <4>1. \A i \in 1..Len(x) : x[i] \in Seq(1..n)
          BY <1>2, ElementOfSeq
        <4>2. \A i \in (k + 1)..Len(x) : i \in 1..Len(x)
          BY <1>2
        <4>3. QED
          BY <4>1, <4>2
      <3>2. k + 1 \in Int /\ Len(x) \in Int
        BY <1>2
      <3>3. QED
        BY <3>1, <3>2, SubSeqProperties
    <2>4. Contents(output) \in Seq(Int)
      BY FlushKeeps DEF Inv, FileInv
    <2> DEFINE b == x[k]
    <2> HIDE DEF rest, b
    <2>5. ASSUME output'.faults = 0 PROVE History(said, dropped, output', NotTaken, rest)
      <3>1. History(said, dropped, output, NotTaken, <<b>> \o rest)
        BY <1>4, <2>1, <2>2, <2>5 DEF Inv, LinesInv, b
      <3>2. Contents(output') = Contents(output) \o TextIn(said, b) /\ b \in Seq(1..n)
        BY <1>2, <1>3, <1>4, <2>5 DEF b
      <3> DEFINE f == output'  nt == NotTaken
      <3> HIDE DEF f, nt
      <3>3. History(said, dropped, f, nt, rest)
        BY <1>2, <2>3, <2>4, <3>1, <3>2, HistoryWrite DEF f, nt
      <3>4. QED
        BY <3>3 DEF f, nt
    <2>6. QED
      BY <1>1, <2>1, <2>5 DEF LinesInv
  <1>9. QED
    BY <1>1, <1>5, <1>6, <1>7, <1>8 DEF Inv

\* flush() changes nothing of what is where.
LEMMA FlushHistory ==
    ASSUME Inv
    PROVE  /\ FileOK(LogFileFlush(output), now) /\ LogFileFlush(output).buffer = <<>>
           /\ LogFileFlush(output).faults = output.faults
           /\ \A nt, tk : History(said, dropped, output, nt, tk)
                            => History(said, dropped, LogFileFlush(output), nt, tk)
  <1>1. now \in Nat /\ FileOK(output, now)
    BY DEF Inv, FileInv
  <1> DEFINE f == FlushFile(output)
  <1>2. /\ FileOK(f, now) /\ f.buffer = <<>> /\ f.faults = output.faults
        /\ Contents(f) = Contents(output)
    BY <1>1, FlushKeeps
  <1>3. LogFileFlush(output) = f
    BY DEF LogFileFlush
  <1> HIDE DEF f
  <1>4. QED
    BY <1>2, <1>3 DEF History, Upto

\* Lines 97-123: the round ends, with both buffers back.
LEMMA RecycleStep ==
    ASSUME Inv, dead = "no", ThreadRecycle
    PROVE  Inv'
  <1> DEFINE kept  == SubSeq(buffersToWrite, 1, IF written > 2 THEN 2 ELSE written)
             needs == (IF newBuffer1 = <<>> THEN 1 ELSE 0) + (IF newBuffer2 = <<>> THEN 1 ELSE 0)
  <1>1. /\ thr = "write" /\ thr' = "test" /\ owner' = owner /\ now' = now
        /\ written = Len(buffersToWrite)
        /\ dead' = IF Len(kept) >= needs THEN dead ELSE "assert"
        /\ said' = said /\ currentBuffer_' = currentBuffer_ /\ buffers_' = buffers_
        /\ nextBuffer_' = nextBuffer_ /\ newBuffer1' = EmptyBuffer /\ newBuffer2' = EmptyBuffer
        /\ written' = 0 /\ buffersToWrite' = <<>> /\ dropped' = dropped
        /\ output' = LogFileFlush(output)
    BY DEF ThreadRecycle, AssertThat, frontVars, EmptyBuffer
  <1>2. /\ buffersToWrite \in Seq(Seq(1..Len(said))) /\ newBuffer1 = Null
        /\ \/ newBuffer2 = EmptyBuffer /\ Len(buffersToWrite) >= 1
           \/ newBuffer2 = Null /\ Len(buffersToWrite) >= 2
        /\ Len(buffersToWrite) \in Nat /\ owner # "new"
    BY <1>1 DEF Inv, BackInv
  <1>3. Len(kept) = IF written > 2 THEN 2 ELSE written
    <2> DEFINE m == IF written > 2 THEN 2 ELSE written
    <2>1. m \in 0..Len(buffersToWrite)
      BY <1>1, <1>2
    <2> HIDE DEF m
    <2>2. Len(SubSeq(buffersToWrite, 1, m)) = m
      BY <1>2, <2>1
    <2>3. QED
      BY <2>2 DEF m
  <1>4. Len(kept) >= needs
    <2>1. EmptyBuffer # <<>>
      BY DEF EmptyBuffer
    <2>2. needs = IF newBuffer2 = Null THEN 2 ELSE 1
      BY <1>2, <2>1 DEF Null
    <2> HIDE DEF kept, needs
    <2>3. QED
      BY <1>1, <1>2, <1>3, <2>1, <2>2 DEF Null
  <1> HIDE DEF kept, needs
  <1>5. dead' # "assert"
    BY <1>1, <1>4
  <1>6. FrontInv'
    BY <1>1 DEF Inv, FrontInv
  <1>7. BackInv'
    <2>1. <<>> \in Seq(Seq(1..Len(said))) /\ 0 \in 0..Len(<<>>)
      BY EmptySeq
    <2>2. QED
      BY <1>1, <1>2, <2>1 DEF BackInv, Resting
  <1>8. FileInv'
    BY <1>1, FlushHistory DEF Inv, FileInv
  <1>9. LinesInv'
    <2>1. NotTaken' = NotTaken /\ Taken' = <<>>
      BY <1>1 DEF NotTaken, Taken
    <2>2. Taken = <<>>
      <3>1. Taken = SubSeq(buffersToWrite, Len(buffersToWrite) + 1, Len(buffersToWrite))
        BY <1>1 DEF Taken, ToWrite
      <3>2. QED
        BY <1>2, <3>1, SubSeqEmpty
    <2>3. output'.faults = 0 => History(said, dropped, output, NotTaken, <<>>)
      BY <1>1, <2>2, FlushHistory DEF Inv, LinesInv
    <2>4. output'.faults = 0 => History(said, dropped, output', NotTaken, <<>>)
      BY <1>1, <2>3, FlushHistory
    <2>5. QED
      BY <1>1, <2>1, <2>4 DEF LinesInv
  <1>10. QED
    BY <1>5, <1>6, <1>7, <1>8, <1>9 DEF Inv

\* The logging thread leaves.
LEMMA LeaveStep ==
    ASSUME Inv, dead = "no", ThreadLeave
    PROVE  Inv'
  <1>1. /\ thr = "leave" /\ thr' = "done" /\ owner' = owner /\ now' = now /\ dead' = dead
        /\ said' = said /\ currentBuffer_' = currentBuffer_ /\ buffers_' = buffers_
        /\ nextBuffer_' = nextBuffer_ /\ newBuffer1' = newBuffer1 /\ newBuffer2' = newBuffer2
        /\ written' = written /\ buffersToWrite' = buffersToWrite /\ dropped' = dropped
        /\ output' = LogFileFlush(output)
    BY DEF ThreadLeave, frontVars, backVars
  <1>2. FrontInv'
    BY <1>1 DEF Inv, FrontInv
  <1>3. BackInv'
    BY <1>1 DEF Inv, BackInv, Resting
  <1>4. FileInv'
    BY <1>1, FlushHistory DEF Inv, FileInv
  <1>5. LinesInv'
    <2>1. NotTaken' = NotTaken /\ Taken' = Taken
      BY <1>1 DEF NotTaken, Taken
    <2>2. output'.faults = 0 => History(said, dropped, output, NotTaken, Taken)
      BY <1>1, FlushHistory DEF Inv, LinesInv
    <2>3. output'.faults = 0 => History(said, dropped, output', NotTaken, Taken)
      BY <1>1, <2>2, FlushHistory
    <2>4. QED
      BY <1>1, <2>1, <2>3 DEF LinesInv
  <1>6. QED
    BY <1>1, <1>2, <1>3, <1>4, <1>5 DEF Inv

\* Every step of the program keeps the invariant.
LEMMA NextInv == ASSUME Inv, Next PROVE Inv'
  <1>0. /\ dead = "no" /\ now \in Nat /\ (owner = "new" => thr = "none")
    BY DEF Next, Inv, FileInv, BackInv
  <1>1. ASSUME Len(said) < MaxLines, NEW x \in Values[Len(said) + 1], Log(x) PROVE Inv'
    <2>1. Len(said) + 1 \in 1..MaxLines
      <3>1. Len(said) \in Nat /\ MaxLines \in Nat
        BY LoggingAssumption DEF Inv, FrontInv
      <3>2. QED
        BY <1>1, <3>1
    <2>2. x \in Loggable
      BY <2>1, LoggingAssumption
    <2>3. QED
      BY <1>0, <1>1, <2>2, LogStep
  <1>2. ASSUME NEW n \in BigLines, LogBlock(n) PROVE Inv'
    BY <1>0, <1>2, LogBlockStep
  <1>3. CASE LogFatal
    <2>1. /\ UNCHANGED <<frontVars, backVars, output>> /\ thr' = thr /\ owner' = owner
          /\ now' = now /\ dead' # "assert"
      BY <1>3 DEF LogFatal, fileVars
    <2>2. now <= now' /\ now' \in Nat
      BY <1>0, <2>1
    <2>3. QED
      BY <1>0, <2>1, <2>2, QuietStep
  <1>4. CASE Start
    <2>1. /\ UNCHANGED <<frontVars, backVars, output>> /\ owner' # "new" /\ owner = "new"
          /\ thr' = "begin" /\ now' = now /\ dead' # "assert"
      BY <1>0, <1>4 DEF Start, fileVars
    <2>2. now <= now' /\ now' \in Nat /\ thr = "none"
      BY <1>0, <2>1
    <2>3. QED
      BY <2>1, <2>2, QuietStep
  <1>5. CASE Stop \/ StopSignal \/ StopJoin
    <2>1. /\ UNCHANGED <<frontVars, backVars, output>> /\ owner' # "new"
          /\ thr' = thr \/ (thr \in Resting /\ thr' \in Resting)
          /\ now' = now /\ dead' # "assert"
      BY <1>0, <1>5 DEF Stop, StopSignal, StopJoin, Signalled, Resting, fileVars
    <2>2. now <= now' /\ now' \in Nat
      BY <1>0, <2>1
    <2>3. QED
      BY <2>1, <2>2, QuietStep
  <1>6. CASE ThreadTest \/ ThreadTimeout
    <2>1. /\ UNCHANGED <<frontVars, backVars, output>> /\ owner' = owner
          /\ thr \in Resting /\ thr' \in Resting
          /\ now' = now /\ dead' # "assert"
      BY <1>0, <1>6 DEF ThreadTest, ThreadTimeout, Resting, fileVars
    <2>2. now <= now' /\ now' \in Nat /\ owner # "new"
      BY <1>0, <2>1 DEF Resting
    <2>3. QED
      BY <2>1, <2>2, QuietStep
  <1>7. CASE Tick
    <2>1. /\ UNCHANGED <<frontVars, backVars, output>> /\ owner' = owner /\ thr' = thr
          /\ now' = now + 1 /\ dead' # "assert"
      BY <1>0, <1>7 DEF Tick
    <2>2. now <= now' /\ now' \in Nat
      BY <1>0, <2>1
    <2>3. QED
      BY <1>0, <2>1, <2>2, QuietStep
  <1>8. CASE ThreadLock
    <2>1. thr = "lock" /\ newBuffer1 = EmptyBuffer /\ newBuffer2 = EmptyBuffer
          /\ buffersToWrite = <<>> /\ owner # "new"
      BY <1>8 DEF ThreadLock, Inv, BackInv, Resting
    <2>2. dead' # "assert" /\ UNCHANGED <<owner, fileVars>>
      BY <1>0, <1>8, <2>1 DEF ThreadLock, AssertThat, EmptyBuffer
    <2>3. CASE buffers_ = <<>>
      <3>1. /\ UNCHANGED <<frontVars, backVars, output>> /\ owner' # "new"
            /\ thr \in Resting /\ thr' \in Resting /\ now' = now
        BY <1>8, <2>1, <2>2, <2>3 DEF ThreadLock, Resting, fileVars
      <3>2. now <= now' /\ now' \in Nat
        BY <1>0, <3>1
      <3>3. QED
        BY <2>2, <3>1, <3>2, QuietStep
    <2>4. CASE buffers_ # <<>>
      <3>1. thr \in Resting /\ thr' = "drop" /\ Swap /\ UNCHANGED <<said, written, dropped>>
        BY <1>8, <2>1, <2>4 DEF ThreadLock, Resting
      <3>2. QED
        BY <2>2, <3>1, SwapStep
    <2>5. QED
      BY <2>3, <2>4
  <1>9. CASE ThreadWake
    <2>1. /\ thr \in Resting /\ thr' = "drop" /\ Swap /\ dead' # "assert"
          /\ UNCHANGED <<owner, fileVars, said, written, dropped>>
      BY <1>0, <1>9 DEF ThreadWake, Resting
    <2>2. QED
      BY <2>1, SwapStep
  <1>10. QED
    BY <1>0, <1>1, <1>2, <1>3, <1>4, <1>5, <1>6, <1>7, <1>8, <1>9,
       BeginStep, DropStep, WriteStep, RecycleStep, LeaveStep DEF Next, ThreadStep

\* The text of the buffers of two vectors.
LEMMA TextOfConcat ==
    ASSUME NEW w \in Seq(Line), NEW a \in Seq(Seq(1..Len(w))), NEW b \in Seq(Seq(1..Len(w)))
    PROVE  /\ TextOfIn(w, a) \in Seq(Int)
           /\ TextOfIn(w, a \o b) = TextOfIn(w, a) \o TextOfIn(w, b)
  <1> DEFINE I == 1..Len(w)
             p == FlattenSeq(a)
             q == FlattenSeq(b)
  <1>1. p \in Seq(I) /\ q \in Seq(I)
    BY FlattenIs
  <1>2. a \o b \in Seq(Seq(I)) /\ FlattenSeq(a \o b) = p \o q
    BY FlattenConcat, ConcatProperties
  <1>3. /\ TextOfIn(w, a) = TextIn(w, p) /\ TextOfIn(w, b) = TextIn(w, q)
        /\ TextOfIn(w, a \o b) = TextIn(w, p \o q)
    BY <1>2, TextOfFlatten
  <1> HIDE DEF p, q
  <1>4. TextIn(w, p) \in Seq(Int) /\ TextIn(w, p \o q) = TextIn(w, p) \o TextIn(w, q)
    BY <1>1, TextConcat
  <1>5. QED
    BY <1>3, <1>4

\* What the invariant says of the lines.
LEMMA InvNothingLost == ASSUME Inv PROVE NothingLostOrReordered
  <1> DEFINE Bufs == Seq(Seq(1..Len(said)))
             T(bs) == TextOfIn(said, bs)
             x == IF thr = "drop" THEN buffersToWrite ELSE <<>>
             z == buffers_ \o currentBuffer_
             C == Contents(output)
  <1>1. /\ said \in Seq(Line) /\ buffers_ \in Bufs /\ currentBuffer_ \in Bufs
        /\ buffersToWrite \in Bufs /\ <<>> \in Bufs /\ written \in 0..Len(buffersToWrite)
    <2>1. PICK b \in Seq(1..Len(said)) : currentBuffer_ = <<b>>
      BY DEF Inv, FrontInv
    <2>2. QED
      BY <2>1, EmptySeq DEF Inv, FrontInv, BackInv
  <1>2. ToWrite \in Bufs
    <2>1. \A i \in 1..Len(buffersToWrite) : buffersToWrite[i] \in Seq(1..Len(said))
      BY <1>1, ElementOfSeq
    <2>2. Len(buffersToWrite) \in Nat /\ written \in Nat
      BY <1>1
    <2>3. /\ \A i \in (written + 1)..Len(buffersToWrite) : buffersToWrite[i] \in Seq(1..Len(said))
          /\ written + 1 \in Int /\ Len(buffersToWrite) \in Int
      BY <2>1, <2>2
    <2>4. QED
      BY <2>3, SubSeqProperties DEF ToWrite
  <1>3. ToWrite = Taken \o x /\ x \in Bufs /\ Taken \in Bufs
    <2>1. CASE thr = "write"
      <3>1. Taken = ToWrite /\ x = <<>>
        BY <2>1 DEF Taken
      <3>2. ToWrite \o <<>> = ToWrite
        BY <1>2, ConcatEmptySeq
      <3>3. QED
        BY <1>1, <1>2, <3>1, <3>2
    <2>2. CASE thr = "drop"
      <3>1. written = 0 /\ 0 + 1 = 1
        BY <2>2 DEF Inv, BackInv
      <3>2. ToWrite = buffersToWrite
        BY <1>1, <3>1, SubSeqFull DEF ToWrite
      <3>3. Taken = <<>> /\ x = buffersToWrite
        BY <2>2 DEF Taken
      <3>4. <<>> \o buffersToWrite = buffersToWrite
        BY <1>1, ConcatEmptySeq
      <3>5. QED
        BY <1>1, <3>2, <3>3, <3>4
    <2>3. CASE thr # "write" /\ thr # "drop"
      <3>1. written = 0 /\ 0 + 1 = 1 /\ buffersToWrite = <<>>
        BY <2>3 DEF Inv, BackInv
      <3>2. ToWrite = buffersToWrite
        BY <1>1, <3>1, SubSeqFull DEF ToWrite
      <3>3. Taken = <<>> /\ x = <<>> /\ <<>> \o <<>> = <<>>
        BY <2>3 DEF Taken
      <3>4. QED
        BY <1>1, <3>1, <3>2, <3>3
    <2>4. QED
      BY <2>1, <2>2, <2>3
  <1>4. TextOf(ToWrite) = T(ToWrite) /\ TextOf(buffers_) = T(buffers_)
        /\ TextOf(currentBuffer_) = T(currentBuffer_)
    BY DEF TextOf, Text, TextOfIn, TextIn
  <1>5. NotTaken = x \o z /\ z \in Bufs /\ NotTaken \in Bufs
    <2>1. NotTaken = x \o z
      BY DEF NotTaken
    <2>2. z \in Bufs
      BY <1>1, ConcatProperties
    <2> HIDE DEF x, z
    <2>3. x \o z \in Bufs
      BY <1>3, <2>2, ConcatProperties
    <2>4. QED
      BY <2>1, <2>2, <2>3
  <1>6. /\ T(z) = T(buffers_) \o T(currentBuffer_) /\ T(z) \in Seq(Int)
        /\ T(ToWrite) = T(Taken) \o T(x) /\ T(Taken) \in Seq(Int) /\ T(x) \in Seq(Int)
        /\ T(NotTaken) = T(x) \o T(z)
    <2>1. T(z) = T(buffers_) \o T(currentBuffer_)
      BY <1>1, TextOfConcat
    <2> HIDE DEF x, z
    <2>2. T(ToWrite) = T(Taken) \o T(x) /\ T(Taken) \in Seq(Int)
      BY <1>1, <1>3, TextOfConcat
    <2>3. T(NotTaken) = T(x) \o T(z) /\ T(x) \in Seq(Int) /\ T(z) \in Seq(Int)
      BY <1>1, <1>3, <1>5, TextOfConcat
    <2>4. QED
      BY <2>1, <2>2, <2>3
  <1>7. C \in Seq(Int) /\ C = OnDisk(output) \o output.buffer
    BY FlushKeeps DEF Inv, FileInv, Contents
  <1>8. KeptText(Len(said)) = KeptIn(said, dropped, Len(said))
    BY DEF KeptText, KeptIn
  <1>9. ASSUME Intact PROVE (C \o T(ToWrite)) \o T(z) = KeptText(Len(said))
    <2>1. History(said, dropped, output, NotTaken, Taken)
      BY <1>9 DEF Intact, Inv, LinesInv
    <2>2. (C \o T(Taken)) \o T(NotTaken) = KeptIn(said, dropped, Len(said))
      <3> DEFINE nt == NotTaken  tk == Taken
      <3>1. nt \in Bufs /\ tk \in Bufs /\ History(said, dropped, output, nt, tk)
        BY <1>3, <1>5, <2>1
      <3> HIDE DEF nt, tk, x, z
      <3>2. (Contents(output) \o TextOfIn(said, tk)) \o TextOfIn(said, nt)
              = KeptIn(said, dropped, Len(said))
        BY <1>1, <1>7, <3>1, HistoryText
      <3>3. QED
        BY <3>2 DEF nt, tk
    <2> DEFINE c == C  t == T(Taken)  u == T(x)  v == T(z)
    <2>3. c \in Seq(Int) /\ t \in Seq(Int) /\ u \in Seq(Int) /\ v \in Seq(Int)
      BY <1>6, <1>7
    <2> HIDE DEF c, t, u, v
    <2>4. (c \o (t \o u)) \o v = (c \o t) \o (u \o v)
      <3>1. c \o (t \o u) = (c \o t) \o u /\ c \o t \in Seq(Int)
        <4>1. c \o (t \o u) = (c \o t) \o u
          <5>1. Associates(c, t, u)
            BY <2>3, ConcatAssociates
          <5>2. QED
            BY <5>1 DEF Associates
        <4>2. c \o t \in Seq(Int)
          BY <2>3, ConcatProperties
        <4>3. QED
          BY <4>1, <4>2
      <3>2. ((c \o t) \o u) \o v = (c \o t) \o (u \o v)
        <4>1. Associates(c \o t, u, v)
          BY <2>3, <3>1, ConcatAssociates
        <4>2. QED
          BY <4>1 DEF Associates
      <3>3. QED
        BY <3>1, <3>2
    <2>5. QED
      BY <1>6, <1>8, <2>2, <2>4 DEF c, t, u, v
  <1>10. ASSUME thr \in Resting PROVE output.buffer = <<>> /\ TextOf(ToWrite) = <<>>
    <2>1. output.buffer = <<>>
      BY <1>10 DEF Inv, FileInv, Resting
    <2>2. ToWrite = <<>>
      <3>1. buffersToWrite = <<>> /\ x = <<>> /\ Taken = <<>>
        BY <1>10 DEF Inv, BackInv, Resting, Taken
      <3>2. QED
        BY <1>3, <3>1
    <2>3. TextOf(<<>>) = <<>>
      <3>1. [i \in 1..Len(<<>>) |-> Text(<<>>[i])] = <<>>
        OBVIOUS
      <3>2. FlattenSeq(<<>>) = <<>>
        BY <1>1, FlattenIs
      <3>3. QED
        BY <3>1, <3>2 DEF TextOf
    <2>4. QED
      BY <2>1, <2>2, <2>3
  <1>11. ToWrite = SubSeq(buffersToWrite, written + 1, Len(buffersToWrite))
    BY DEF ToWrite
  <1>12. Pending = T(z)
    BY <1>4, <1>6 DEF Pending
  <1> HIDE DEF x, z, C, T
  <1>13. Intact => /\ OnDisk(output) \o output.buffer \o TextOf(ToWrite) \o Pending = KeptText(Len(said))
                   /\ thr \in Resting => output.buffer = <<>> /\ TextOf(ToWrite) = <<>>
    BY <1>4, <1>7, <1>9, <1>10, <1>12
  <1>14. QED
    BY <1>11, <1>13 DEF NothingLostOrReordered, Resting

\* The invariant holds in every state of AsyncLogging: what append(), the logging thread
\* and the LogFile do to the buffers keeps every line in one place.
THEOREM InvAlways == Spec => []Inv
  <1>1. Init => Inv
    BY InitInv
  <1>2. Inv /\ [Next]_vars => Inv'
    <2>1. ASSUME Inv, UNCHANGED vars PROVE Inv'
      <3>1. /\ UNCHANGED <<frontVars, backVars, output>> /\ thr' = thr /\ owner' = owner
            /\ now' = now /\ dead' = dead
        BY <2>1 DEF vars, fileVars
      <3>2. now \in Nat /\ dead # "assert" /\ (owner = "new" => thr = "none")
        BY <2>1 DEF Inv, FileInv, BackInv
      <3>3. now <= now' /\ now' \in Nat
        BY <3>1, <3>2
      <3>4. QED
        BY <2>1, <3>1, <3>2, <3>3, QuietStep
    <2>2. QED
      BY <2>1, NextInv
  <1>3. QED
    BY <1>1, <1>2, PTL DEF Spec

\* The assertions of threadFunc() never fail and append() always finds a current buffer
\* (AsyncLogging.cpp:58-60, 85, 104, 114, 131), for any lines, any order of the steps of the
\* threads and any number of dropped buffers.
THEOREM AssertionsAlwaysHold == Spec => []LoggingAssertionsHold
  <1>1. Inv => LoggingAssertionsHold
    <2>1. Inv => currentBuffer_ # <<>>
      BY DEF Inv, FrontInv
    <2>2. QED
      BY <2>1 DEF Inv, LoggingAssertionsHold
  <1>2. QED
    BY <1>1, InvAlways, PTL

\* As long as no fwrite() failed, the files, the FILE and the buffers hold the lines that
\* were not dropped, each once and in the order of append(), however the files are rolled,
\* and between two rounds the logging thread holds nothing back (AsyncLogging.cpp:74-125).
THEOREM NothingEverLost == Spec => []NothingLostOrReordered
  <1>1. Inv => NothingLostOrReordered
    BY InvNothingLost
  <1>2. QED
    BY <1>1, InvAlways, PTL

\* Every number and pointer that is logged, of whatever size and sign, reads back from the
\* line as what was logged (LogStream.cpp:12-48).
THEOREM NumbersAlwaysReadBack == Spec => []NumbersReadBack
  <1>1. Inv => NumbersReadBack
    BY DEF Inv, FrontInv, ReadsBack, NumbersReadBack
  <1>2. QED
    BY <1>1, InvAlways, PTL
=============================================================================
