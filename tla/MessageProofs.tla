---------------------------- MODULE MessageProofs ----------------------------
(***************************************************************************)
(* Proofs about bytes and messages: a Buffer is a queue of bytes, whatever *)
(* the sizes of its parts, and the messages of the generated protobuf      *)
(* classes keep presence bits and fields together, whatever is called and  *)
(* parsed.                                                                 *)
(***************************************************************************)
EXTENDS Buffer, MessageObjects,
        SequenceTheorems, NaturalsInduction, WellFoundedInduction, TLAPS

-----------------------------------------------------------------------------
(* Buffer.                                                                 *)

\* The content of a Buffer is the sequence of bytes between its indices.
LEMMA ContentIsSeq ==
    ASSUME NEW b, Valid(b)
    PROVE  /\ ReadableBytes(b) \in Nat
           /\ Content(b) \in Seq(Byte)
           /\ Len(Content(b)) = ReadableBytes(b)
           /\ \A i \in 1 .. ReadableBytes(b) : Content(b)[i] = b.bytes[b.reader + i - 1]
  <1>1. ReadableBytes(b) \in Nat
    BY DEF Valid, ReadableBytes
  <1>2. \A i \in 1 .. ReadableBytes(b) : b.bytes[b.reader + i - 1] \in Byte
    <2>1. \A j \in 0 .. b.size - 1 : b.bytes[j] \in Byte
      BY DEF Valid
    <2>2. /\ b.size \in Nat /\ b.reader \in Nat /\ b.writer \in Nat
          /\ b.reader <= b.writer /\ b.writer <= b.size
      BY DEF Valid
    <2>3. \A i \in 1 .. ReadableBytes(b) : b.reader + i - 1 \in 0 .. b.size - 1
      BY <2>2 DEF ReadableBytes
    <2>4. QED
      BY <2>1, <2>3
  <1>3. Content(b) \in [1 .. ReadableBytes(b) -> Byte]
    BY <1>2 DEF Content
  <1>4. Content(b) \in Seq(Byte)
    BY <1>1, <1>3, SeqDef
  <1>5. Len(Content(b)) = ReadableBytes(b)
    BY <1>1, <1>3, <1>4, LenProperties
  <1>6. QED
    BY <1>1, <1>4, <1>5 DEF Content

\* What a sequence has to satisfy to be the content of a Buffer.
LEMMA ContentIs ==
    ASSUME NEW b, Valid(b), NEW s \in Seq(Byte), Len(s) = ReadableBytes(b),
           \A i \in 1 .. ReadableBytes(b) : s[i] = b.bytes[b.reader + i - 1]
    PROVE  Content(b) = s
  BY ContentIsSeq, SeqEqual

\* A Buffer that holds one sequence and then another one.
LEMMA ContentIsConcat ==
    ASSUME NEW b, Valid(b), NEW s \in Seq(Byte), NEW t \in Seq(Byte),
           ReadableBytes(b) = Len(s) + Len(t),
           \A i \in 1 .. Len(s) : b.bytes[b.reader + i - 1] = s[i],
           \A i \in 1 .. Len(t) : b.bytes[b.reader + Len(s) + i - 1] = t[i]
    PROVE  Content(b) = s \o t
  <1>1. Len(s) \in Nat /\ Len(t) \in Nat /\ b.reader \in Nat
    BY LenProperties DEF Valid
  <1>2. /\ s \o t \in Seq(Byte)
        /\ Len(s \o t) = Len(s) + Len(t)
        /\ \A i \in 1 .. Len(s) + Len(t) :
             (s \o t)[i] = IF i <= Len(s) THEN s[i] ELSE t[i - Len(s)]
    BY ConcatProperties
  <1>3. ASSUME NEW i \in 1 .. Len(s) + Len(t)
        PROVE  (s \o t)[i] = b.bytes[b.reader + i - 1]
    <2>1. CASE i <= Len(s)
      BY <1>1, <1>2, <2>1
    <2>2. CASE i > Len(s)
      <3> DEFINE j == i - Len(s)
      <3>1. j \in 1 .. Len(t) /\ b.reader + i - 1 = b.reader + Len(s) + j - 1
        BY <1>1, <2>2
      <3>2. b.bytes[b.reader + Len(s) + j - 1] = t[j]
        BY <3>1
      <3>3. (s \o t)[i] = t[j]
        BY <1>1, <1>2, <2>2
      <3>4. QED
        BY <3>1, <3>2, <3>3
    <2>3. QED
      BY <1>1, <2>1, <2>2
  <1>4. QED
    BY <1>2, <1>3, ContentIs

\* std::copy changes the positions it writes to and no other.
LEMMA CopyBytes ==
    ASSUME NEW b, Valid(b), NEW at \in Nat, NEW data \in Seq(Byte)
    PROVE  /\ CopyTo(b, at, data) \in [0 .. b.size - 1 -> Byte]
           /\ \A i \in 0 .. b.size - 1 :
                /\ at <= i /\ i < at + Len(data) => CopyTo(b, at, data)[i] = data[i - at + 1]
                /\ i < at \/ at + Len(data) <= i => CopyTo(b, at, data)[i] = b.bytes[i]
  <1>1. Len(data) \in Nat /\ DOMAIN data = 1 .. Len(data)
        /\ \A j \in 1 .. Len(data) : data[j] \in Byte
    BY LenProperties
  <1>2. b.size \in Nat /\ \A i \in 0 .. b.size - 1 : b.bytes[i] \in Byte
    BY DEF Valid
  <1>3. \A i \in 0 .. b.size - 1 :
            CopyTo(b, at, data)[i] = IF i - at + 1 \in 1 .. Len(data)
                                     THEN data[i - at + 1] ELSE b.bytes[i]
    BY <1>1, <1>2 DEF CopyTo
  <1>4. CopyTo(b, at, data) \in [0 .. b.size - 1 -> Byte]
    BY <1>1, <1>2 DEF CopyTo
  <1>5. QED
    BY <1>1, <1>2, <1>3, <1>4

\* A new Buffer is empty.
LEMMA NewIsEmpty ==
    ASSUME NEW n \in Nat
    PROVE  /\ Valid(NewBuffer(n))
           /\ ReadableBytes(NewBuffer(n)) = 0
           /\ Content(NewBuffer(n)) = <<>>
  <1>1. Valid(NewBuffer(n)) /\ ReadableBytes(NewBuffer(n)) = 0
    BY BufferAssumption DEF Valid, NewBuffer, BufferOf, ReadableBytes
  <1>2. QED
    BY <1>1, ContentIsSeq, EmptySeq

\* ensureWritableBytes() makes room, keeps the content and fails no assertion.
LEMMA EnsureMakesRoom ==
    ASSUME NEW b, Valid(b), NEW len \in Nat
    PROVE  /\ Valid(EnsureWritableBytes(b, len))
           /\ Content(EnsureWritableBytes(b, len)) = Content(b)
           /\ WritableBytes(EnsureWritableBytes(b, len)) >= len
           /\ SpaceAsserts(b, len)
  <1> DEFINE e == EnsureWritableBytes(b, len)
  <1>1. CASE WritableBytes(b) >= len
    <2>1. e = b
      BY <1>1 DEF EnsureWritableBytes, WritableBytes, Valid
    <2>2. QED
      BY <1>1, <2>1 DEF SpaceAsserts, WritableBytes, Valid
  <1>2. CASE WritableBytes(b) < len /\ MustGrow(b, len)
    <2>1. e = Resize(b, b.writer + len)
      BY <1>2 DEF EnsureWritableBytes, MakeSpace, GrownSize
    <2>2. Valid(e) /\ ReadableBytes(e) = ReadableBytes(b) /\ WritableBytes(e) = len
          /\ e.reader = b.reader /\ \A i \in 0 .. b.size - 1 : e.bytes[i] = b.bytes[i]
      <3> DEFINE n == b.writer + len
                  g == [i \in 0 .. n - 1 |-> IF i < b.size THEN b.bytes[i] ELSE 0]
      <3>1. /\ e.size = n /\ e.reader = b.reader /\ e.writer = b.writer /\ e.bytes = g
        BY <2>1 DEF Resize, BufferOf
      <3>2. /\ b.size \in Nat /\ b.reader \in Nat /\ b.writer \in Nat
            /\ b.reader <= b.writer /\ kCheapPrepend <= b.size /\ kCheapPrepend \in Nat
            /\ b.size < n /\ n \in Nat
        BY <1>2, BufferAssumption DEF Valid, WritableBytes
      <3>3. \A i \in 0 .. b.size - 1 : b.bytes[i] \in Byte
        BY DEF Valid
      <3>4. \A i \in 0 .. n - 1 : (IF i < b.size THEN b.bytes[i] ELSE 0) \in Byte
        BY <3>2, <3>3, BufferAssumption
      <3>5. g \in [0 .. n - 1 -> Byte] /\ \A i \in 0 .. b.size - 1 : g[i] = b.bytes[i]
        <4>1. g \in [0 .. n - 1 -> Byte]
          BY <3>4
        <4>2. \A i \in 0 .. b.size - 1 : i \in 0 .. n - 1 /\ i < b.size
          BY <3>2
        <4>3. QED
          BY <4>1, <4>2
      <3> HIDE DEF g
      <3>6. Valid(e)
        BY <3>1, <3>2, <3>5 DEF Valid
      <3>7. ReadableBytes(e) = ReadableBytes(b) /\ WritableBytes(e) = len
        BY <3>1, <3>2 DEF ReadableBytes, WritableBytes
      <3>8. QED
        BY <3>1, <3>5, <3>6, <3>7
    <2>3. \A i \in 1 .. ReadableBytes(b) : b.reader + i - 1 \in 0 .. b.size - 1
      BY DEF Valid, ReadableBytes
    <2>4. Content(e) = Content(b)
      <3>1. Content(b) \in Seq(Byte) /\ Len(Content(b)) = ReadableBytes(e)
        BY <2>2, ContentIsSeq
      <3>2. \A i \in 1 .. ReadableBytes(b) : Content(b)[i] = b.bytes[b.reader + i - 1]
        BY ContentIsSeq
      <3>3. \A i \in 1 .. ReadableBytes(e) : Content(b)[i] = e.bytes[e.reader + i - 1]
        BY <2>2, <2>3, <3>2
      <3>4. QED
        BY <2>2, <3>1, <3>3, ContentIs
    <2>5. QED
      BY <1>2, <2>2, <2>4 DEF SpaceAsserts
  <1>3. CASE WritableBytes(b) < len /\ ~MustGrow(b, len)
    <2>1. e = MoveToFront(b)
      BY <1>3 DEF EnsureWritableBytes, MakeSpace
    <2>2. ReadableBytes(b) \in Nat /\ Content(b) \in Seq(Byte)
          /\ Len(Content(b)) = ReadableBytes(b)
      BY ContentIsSeq
    <2>3. kCheapPrepend < b.reader
      BY <1>3, BufferAssumption DEF MustGrow, WritableBytes, PrependableBytes, Valid
    <2>4. /\ e.size = b.size /\ e.reader = kCheapPrepend
          /\ e.writer = kCheapPrepend + ReadableBytes(b)
          /\ e.bytes = CopyTo(b, kCheapPrepend, Content(b))
      BY <2>1 DEF MoveToFront, BufferOf
    <2>5. Valid(e) /\ ReadableBytes(e) = ReadableBytes(b)
      <3>1. e.bytes \in [0 .. b.size - 1 -> Byte]
        BY <2>2, <2>4, CopyBytes, BufferAssumption
      <3>2. QED
        BY <2>2, <2>3, <2>4, <3>1, BufferAssumption DEF Valid, ReadableBytes
    <2>6. WritableBytes(e) >= len
      BY <1>3, <2>4, BufferAssumption
         DEF MustGrow, WritableBytes, PrependableBytes, ReadableBytes, Valid
    <2>7. Content(e) = Content(b)
      <3>1. SUFFICES ASSUME NEW i \in 1 .. ReadableBytes(b)
                     PROVE  Content(b)[i] = e.bytes[e.reader + i - 1]
        BY <2>2, <2>5, ContentIs
      <3>2. PICK j \in 0 .. b.size - 1 : j = kCheapPrepend + i - 1
        BY <2>3, BufferAssumption DEF Valid, ReadableBytes
      <3>3. /\ kCheapPrepend <= j /\ j < kCheapPrepend + ReadableBytes(b)
            /\ j - kCheapPrepend + 1 = i
        BY <2>2, <3>2, BufferAssumption
      <3>4. CopyTo(b, kCheapPrepend, Content(b))[j] = Content(b)[j - kCheapPrepend + 1]
        BY <2>2, <3>3, CopyBytes, BufferAssumption
      <3>5. QED
        BY <2>4, <3>2, <3>3, <3>4
    <2>8. QED
      BY <2>3, <2>5, <2>6, <2>7 DEF SpaceAsserts
  <1>4. QED
    BY <1>1, <1>2, <1>3 DEF WritableBytes, Valid

\* Writing into the room there is adds to the end of the content.
LEMMA FilledHolds ==
    ASSUME NEW b, Valid(b), NEW data \in Seq(Byte), Len(data) <= WritableBytes(b)
    PROVE  Valid(Filled(b, data)) /\ Content(Filled(b, data)) = Content(b) \o data
  <1> DEFINE f == Filled(b, data)
  <1>1. /\ f.size = b.size /\ f.reader = b.reader /\ f.writer = b.writer + Len(data)
        /\ f.bytes = CopyTo(b, b.writer, data)
    BY DEF Filled, BufferOf
  <1>2. /\ Len(data) \in Nat /\ b.reader \in Nat /\ b.writer \in Nat /\ b.size \in Nat
        /\ Len(data) <= b.size - b.writer
    BY LenProperties DEF Valid, WritableBytes
  <1>3. /\ f.bytes \in [0 .. b.size - 1 -> Byte]
        /\ \A i \in 0 .. b.size - 1 :
             /\ b.writer <= i /\ i < b.writer + Len(data) => f.bytes[i] = data[i - b.writer + 1]
             /\ i < b.writer => f.bytes[i] = b.bytes[i]
    <2>1. b.writer \in Nat
      BY DEF Valid
    <2>2. QED
      BY <1>1, <2>1, CopyBytes
  <1>4. Valid(f) /\ ReadableBytes(f) = ReadableBytes(b) + Len(data)
    BY <1>1, <1>2, <1>3 DEF Valid, ReadableBytes, WritableBytes
  <1>5. /\ ReadableBytes(b) \in Nat /\ Content(b) \in Seq(Byte)
        /\ Len(Content(b)) = ReadableBytes(b)
        /\ \A i \in 1 .. ReadableBytes(b) : Content(b)[i] = b.bytes[b.reader + i - 1]
    BY ContentIsSeq
  <1>6. ASSUME NEW i \in 1 .. Len(Content(b))
        PROVE  f.bytes[f.reader + i - 1] = Content(b)[i]
    <2>1. PICK j \in Int : j = b.reader + i - 1
      BY <1>2, <1>5
    <2>2. j \in 0 .. b.size - 1 /\ j < b.writer
      BY <1>5, <2>1 DEF Valid, ReadableBytes
    <2>3. QED
      BY <1>1, <1>3, <1>5, <2>1, <2>2
  <1>7. ASSUME NEW i \in 1 .. Len(data)
        PROVE  f.bytes[f.reader + Len(Content(b)) + i - 1] = data[i]
    <2>1. PICK j \in Int : j = b.writer + i - 1
      BY <1>2
    <2>2. /\ j \in 0 .. b.size - 1 /\ b.writer <= j /\ j < b.writer + Len(data)
          /\ j - b.writer + 1 = i
      <3>1. b.writer <= j /\ j < b.writer + Len(data) /\ j - b.writer + 1 = i
        BY <1>2, <2>1
      <3>2. b.writer + Len(data) <= b.size
        BY <1>2
      <3>3. QED
        BY <1>2, <3>1, <3>2
    <2>3. f.reader + Len(Content(b)) + i - 1 = j
      BY <1>1, <1>2, <1>5, <2>1 DEF ReadableBytes
    <2>4. QED
      BY <1>3, <2>2, <2>3
  <1>8. ReadableBytes(f) = Len(Content(b)) + Len(data)
    BY <1>4, <1>5
  <1>9. QED
    BY <1>4, <1>5, <1>6, <1>7, <1>8, ContentIsConcat

\* append() adds to the end of the content.
LEMMA AppendAdds ==
    ASSUME NEW b, Valid(b), NEW data \in Seq(Byte)
    PROVE  Valid(AppendTo(b, data)) /\ Content(AppendTo(b, data)) = Content(b) \o data
  <1> DEFINE e == EnsureWritableBytes(b, Len(data))
  <1>1. Len(data) \in Nat
    BY LenProperties
  <1>2. Valid(e) /\ Content(e) = Content(b) /\ WritableBytes(e) >= Len(data)
    BY <1>1, EnsureMakesRoom
  <1>3. Len(data) <= WritableBytes(e)
    BY <1>1, <1>2 DEF Valid, WritableBytes
  <1>4. QED
    BY <1>2, <1>3, FilledHolds DEF AppendTo

\* retrieve() takes bytes off the front of the content.
LEMMA RetrieveTakes ==
    ASSUME NEW b, Valid(b), NEW n \in 0 .. ReadableBytes(b)
    PROVE  /\ Valid(RetrieveFrom(b, n))
           /\ Content(RetrieveFrom(b, n)) = SubSeq(Content(b), n + 1, Len(Content(b)))
  <1> DEFINE f == RetrieveFrom(b, n)
              t == SubSeq(Content(b), n + 1, Len(Content(b)))
  <1>1. /\ ReadableBytes(b) \in Nat /\ Len(Content(b)) = ReadableBytes(b)
        /\ \A i \in 1 .. ReadableBytes(b) : Content(b)[i] \in Byte
    BY ContentIsSeq, ElementOfSeq
  <1>2. CASE n < ReadableBytes(b)
    <2>1. f = BufferOf(b.size, b.bytes, b.reader + n, b.writer)
      BY <1>2 DEF RetrieveFrom
    <2>2. Valid(f) /\ ReadableBytes(f) = ReadableBytes(b) - n
          /\ f.reader = b.reader + n /\ f.bytes = b.bytes
      BY <1>2, <2>1 DEF Valid, BufferOf, ReadableBytes
    <2>3. \A i \in n + 1 .. ReadableBytes(b) : Content(b)[i] \in Byte
      BY <1>1
    <2>4. /\ t \in Seq(Byte)
          /\ Len(t) = ReadableBytes(b) - n
          /\ \A i \in 1 .. ReadableBytes(b) - n : t[i] = Content(b)[n + i]
      BY <1>1, <1>2, <2>3, SubSeqProperties
    <2>5. \A i \in 1 .. ReadableBytes(b) - n : t[i] = b.bytes[b.reader + n + i - 1]
      <3>1. SUFFICES ASSUME NEW i \in 1 .. ReadableBytes(b) - n
                     PROVE  t[i] = b.bytes[b.reader + n + i - 1]
        OBVIOUS
      <3>2. n + i \in 1 .. ReadableBytes(b)
        BY <1>1
      <3>3. Content(b)[n + i] = b.bytes[b.reader + (n + i) - 1]
        BY <3>2, ContentIsSeq
      <3>4. b.reader + (n + i) - 1 = b.reader + n + i - 1
        BY DEF Valid
      <3>5. QED
        BY <2>4, <3>3, <3>4
    <2>6. QED
      BY <2>2, <2>4, <2>5, ContentIs
  <1>3. CASE n = ReadableBytes(b)
    <2>1. f = BufferOf(b.size, b.bytes, kCheapPrepend, kCheapPrepend)
      BY <1>1, <1>3 DEF RetrieveFrom, RetrieveAllFrom
    <2>2. Valid(f) /\ ReadableBytes(f) = 0
      BY <2>1, BufferAssumption DEF Valid, BufferOf, ReadableBytes
    <2>3. Content(f) = <<>>
      BY <2>2, ContentIsSeq, EmptySeq
    <2>4. t = <<>>
      BY <1>1, <1>3, SubSeqEmpty
    <2>5. QED
      BY <2>2, <2>3, <2>4
  <1>4. QED
    BY <1>1, <1>2, <1>3

\* prepend() puts bytes in front of the content.
LEMMA PrependAdds ==
    ASSUME NEW b, Valid(b), NEW data \in Seq(Byte), Len(data) <= PrependableBytes(b)
    PROVE  Valid(PrependTo(b, data)) /\ Content(PrependTo(b, data)) = data \o Content(b)
  <1> DEFINE f == PrependTo(b, data)
  <1>1. PICK r \in Nat, n \in Nat : n = Len(data) /\ b.reader = r + n
    <2>1. Len(data) \in Nat /\ b.reader - Len(data) \in Nat
      BY LenProperties DEF PrependableBytes, Valid
    <2>2. b.reader = (b.reader - Len(data)) + Len(data)
      BY <2>1 DEF Valid
    <2>3. QED
      BY <2>1, <2>2
  <1>2. /\ f.size = b.size /\ f.reader = r /\ f.writer = b.writer
        /\ f.bytes = CopyTo(b, r, data)
    <2>1. b.reader - Len(data) = r
      BY <1>1
    <2>2. QED
      BY <2>1 DEF PrependTo, BufferOf
  <1>3. /\ f.bytes \in [0 .. b.size - 1 -> Byte]
        /\ \A i \in 0 .. b.size - 1 :
             /\ r <= i /\ i < r + n => f.bytes[i] = data[i - r + 1]
             /\ r + n <= i => f.bytes[i] = b.bytes[i]
    BY <1>1, <1>2, CopyBytes
  <1>4. Valid(f) /\ ReadableBytes(f) = n + ReadableBytes(b)
    BY <1>1, <1>2, <1>3 DEF Valid, ReadableBytes
  <1>5. /\ ReadableBytes(b) \in Nat /\ Content(b) \in Seq(Byte)
        /\ Len(Content(b)) = ReadableBytes(b)
        /\ \A i \in 1 .. ReadableBytes(b) : Content(b)[i] = b.bytes[b.reader + i - 1]
    BY ContentIsSeq
  <1>6. ASSUME NEW i \in 1 .. n
        PROVE  f.bytes[r + i - 1] = data[i]
    <2>1. b.size \in Nat /\ r + n <= b.size
      BY <1>1 DEF Valid
    <2>2. /\ r + i - 1 \in 0 .. b.size - 1 /\ r <= r + i - 1 /\ r + i - 1 < r + n
          /\ (r + i - 1) - r + 1 = i
      BY <2>1
    <2>3. QED
      BY <1>3, <2>2
  <1>7. ASSUME NEW i \in 1 .. ReadableBytes(b)
        PROVE  f.bytes[r + n + i - 1] = Content(b)[i]
    <2>1. r + n + i - 1 \in 0 .. b.size - 1 /\ r + n <= r + n + i - 1
      BY <1>1 DEF Valid, ReadableBytes
    <2>2. QED
      BY <1>1, <1>3, <1>5, <2>1
  <1>8. \A i \in 1 .. Len(data) : f.bytes[f.reader + i - 1] = data[i]
    BY <1>1, <1>2, <1>6
  <1>9. \A i \in 1 .. Len(Content(b)) : f.bytes[f.reader + Len(data) + i - 1] = Content(b)[i]
    BY <1>1, <1>2, <1>5, <1>7
  <1>10. ReadableBytes(f) = Len(data) + Len(Content(b))
    BY <1>1, <1>4, <1>5
  <1>11. QED
    BY <1>4, <1>5, <1>8, <1>9, <1>10, ContentIsConcat

\* unwrite() takes bytes off the end of the content.
LEMMA UnwriteTakes ==
    ASSUME NEW b, Valid(b), NEW n \in 0 .. ReadableBytes(b)
    PROVE  /\ Valid(UnwriteFrom(b, n))
           /\ Content(UnwriteFrom(b, n)) = SubSeq(Content(b), 1, Len(Content(b)) - n)
  <1> DEFINE f == UnwriteFrom(b, n)
              t == SubSeq(Content(b), 1, Len(Content(b)) - n)
  <1>1. /\ ReadableBytes(b) \in Nat /\ Len(Content(b)) = ReadableBytes(b)
        /\ \A i \in 1 .. ReadableBytes(b) : Content(b)[i] \in Byte
    BY ContentIsSeq, ElementOfSeq
  <1>2. Valid(f) /\ ReadableBytes(f) = ReadableBytes(b) - n
        /\ f.reader = b.reader /\ f.bytes = b.bytes
    BY DEF UnwriteFrom, BufferOf, Valid, ReadableBytes
  <1>3. \A i \in 1 .. ReadableBytes(b) - n : Content(b)[i] \in Byte
    BY <1>1
  <1>4. /\ t \in Seq(Byte)
        /\ Len(t) = ReadableBytes(b) - n
        /\ \A i \in 1 .. ReadableBytes(b) - n : t[i] = Content(b)[i]
    <2>1. /\ t \in Seq(Byte)
          /\ Len(t) = IF 1 <= ReadableBytes(b) - n THEN ReadableBytes(b) - n - 1 + 1 ELSE 0
          /\ \A i \in 1 .. ReadableBytes(b) - n - 1 + 1 : t[i] = Content(b)[1 + i - 1]
      BY <1>1, <1>3, SubSeqProperties
    <2>2. QED
      BY <1>1, <2>1
  <1>5. \A i \in 1 .. ReadableBytes(b) - n : t[i] = b.bytes[b.reader + i - 1]
    BY <1>1, <1>4, ContentIsSeq
  <1>6. QED
    BY <1>2, <1>4, <1>5, ContentIs

\* shrink() keeps the content.
LEMMA ShrinkKeeps ==
    ASSUME NEW b, Valid(b), NEW reserve \in Nat
    PROVE  /\ Valid(Shrunk(b, reserve))
           /\ Content(Shrunk(b, reserve)) = Content(b)
           /\ SpaceAsserts(NewBuffer(kInitialSize), ReadableBytes(b) + reserve)
  <1> DEFINE new == NewBuffer(kInitialSize)
              e == EnsureWritableBytes(new, ReadableBytes(b) + reserve)
  <1>1. ReadableBytes(b) + reserve \in Nat /\ Content(b) \in Seq(Byte)
    BY ContentIsSeq
  <1>2. Valid(new) /\ Content(new) = <<>>
    BY NewIsEmpty, BufferAssumption
  <1>3. Valid(e) /\ Content(e) = <<>> /\ SpaceAsserts(new, ReadableBytes(b) + reserve)
    BY <1>1, <1>2, EnsureMakesRoom
  <1>4. Valid(AppendTo(e, Content(b))) /\ Content(AppendTo(e, Content(b))) = <<>> \o Content(b)
    BY <1>1, <1>3, AppendAdds
  <1>5. <<>> \o Content(b) = Content(b)
    BY <1>1, ConcatEmptySeq
  <1>6. QED
    BY <1>3, <1>4, <1>5 DEF Shrunk

\* Appending is associative.
LEMMA Concat3 ==
    ASSUME NEW s \in Seq(Byte), NEW t \in Seq(Byte), NEW u \in Seq(Byte)
    PROVE  (s \o t) \o u = s \o (t \o u)
  BY ConcatAssociative

\* readFd() adds what it read to the end of the content.
LEMMA ReadAdds ==
    ASSUME NEW b, Valid(b), NEW data \in Seq(Byte)
    PROVE  /\ Valid(ReadInto(b, data))
           /\ Content(ReadInto(b, data)) = Content(b) \o data
           /\ ReadAsserts(b, data)
  <1> DEFINE w == WritableBytes(b)
              first == SubSeq(data, 1, w)
              rest == Overflow(b, data)
              f == Filled(b, first)
  <1>1. Len(data) \in Nat /\ w \in Nat /\ \A i \in 1 .. Len(data) : data[i] \in Byte
    BY LenProperties, ElementOfSeq DEF WritableBytes, Valid
  <1>2. CASE Len(data) <= w
    BY <1>2, FilledHolds DEF ReadInto, FitsIn, ReadAsserts
  <1>3. CASE w < Len(data)
    <2>1. first \in Seq(Byte) /\ Len(first) <= w
      <3>1. \A i \in 1 .. w : data[i] \in Byte
        BY <1>1, <1>3
      <3>2. first \in Seq(Byte) /\ Len(first) = IF 1 <= w THEN w - 1 + 1 ELSE 0
        BY <1>1, <3>1, SubSeqProperties
      <3>3. QED
        BY <1>1, <3>2
    <2>2. rest \in Seq(Byte) /\ Len(rest) \in Nat
      <3>1. \A i \in w + 1 .. Len(data) : data[i] \in Byte
        BY <1>1
      <3>2. rest \in Seq(Byte)
        BY <1>1, <3>1, SubSeqProperties DEF Overflow
      <3>3. QED
        BY <3>2, LenProperties
    <2>3. first \o rest = data
      <3>1. first \o rest = SubSeq(data, 1, Len(data))
        BY <1>1, <1>3, ConcatAdjacentSubSeq DEF Overflow
      <3>2. QED
        BY <3>1, SubSeqFull
    <2>4. Valid(f) /\ Content(f) = Content(b) \o first
      BY <2>1, FilledHolds
    <2>5. Valid(AppendTo(f, rest)) /\ Content(AppendTo(f, rest)) = (Content(b) \o first) \o rest
      BY <2>2, <2>4, AppendAdds
    <2>6. Content(AppendTo(f, rest)) = Content(b) \o data
      <3>1. Content(b) \in Seq(Byte)
        BY ContentIsSeq
      <3>2. (Content(b) \o first) \o rest = Content(b) \o (first \o rest)
        BY <2>1, <2>2, <3>1, Concat3
      <3>3. QED
        BY <2>3, <2>5, <3>2
    <2>7. SpaceAsserts(f, Len(rest))
      BY <2>2, <2>4, EnsureMakesRoom
    <2>8. ReadInto(b, data) = AppendTo(f, rest)
      BY <1>1, <1>3 DEF ReadInto, FitsIn
    <2>9. QED
      BY <2>5, <2>6, <2>7, <2>8 DEF ReadAsserts
  <1>4. QED
    BY <1>1, <1>2, <1>3

-----------------------------------------------------------------------------

\* What a program appends, prepends or receives is a sequence of bytes.
LEMMA DataIsSeq == \A data \in Data : data \in Seq(Byte)
  BY BufferAssumption, SeqDef DEF Data

\* Every call is a step of the queue, keeps the indices in order and fails no
\* assertion.
LEMMA StepOfQueue ==
    ASSUME TypeOK, BufferNext
    PROVE  /\ TypeOK'
           /\ NoAssertFails'
           /\ Queue!Next
  <1> DEFINE content == Content(buf)
  <1>1. Valid(buf) /\ failed = FALSE
    BY DEF TypeOK, BufferNext
  <1>2. Len(content) = ReadableBytes(buf) /\ ReadableBytes(buf) \in Nat
    BY <1>1, ContentIsSeq
  <1>3. ASSUME NEW data \in Data, AppendBytes(data)
        PROVE  Valid(buf') /\ failed' = FALSE /\ Queue!AppendBytes(data)
    <2>1. data \in Seq(Byte) /\ Len(data) \in Nat
      BY DataIsSeq, LenProperties
    <2>2. SpaceAsserts(buf, Len(data))
      BY <1>1, <2>1, EnsureMakesRoom
    <2>3. Valid(buf') /\ Content(buf') = content \o data
      BY <1>1, <1>3, <2>1, AppendAdds DEF AppendBytes
    <2>4. QED
      BY <1>3, <2>2, <2>3 DEF AppendBytes, Queue!AppendBytes
  <1>4. ASSUME NEW data \in Data, HasWritten(data)
        PROVE  Valid(buf') /\ failed' = FALSE /\ Queue!AppendBytes(data)
    <2>1. Valid(buf') /\ Content(buf') = content \o data
      BY <1>1, <1>4, DataIsSeq, FilledHolds DEF HasWritten
    <2>2. QED
      BY <1>1, <1>4, <2>1 DEF HasWritten, Queue!AppendBytes
  <1>5. ASSUME NEW data \in Data, Prepend(data)
        PROVE  Valid(buf') /\ failed' = FALSE /\ Queue!Prepend(data)
    <2>1. Valid(buf') /\ Content(buf') = data \o content
      BY <1>1, <1>5, DataIsSeq, PrependAdds DEF Prepend
    <2>2. QED
      BY <1>1, <1>5, <2>1 DEF Prepend, Queue!Prepend
  <1>6. ASSUME NEW data \in Data, ReadFd(data)
        PROVE  Valid(buf') /\ failed' = FALSE /\ Queue!AppendBytes(data)
    <2>1. Valid(buf') /\ Content(buf') = content \o data /\ ReadAsserts(buf, data)
      BY <1>1, <1>6, DataIsSeq, ReadAdds DEF ReadFd
    <2>2. QED
      BY <1>6, <2>1 DEF ReadFd, Queue!AppendBytes
  <1>7. ASSUME NEW n \in 0 .. ReadableBytes(buf), Retrieve(n)
        PROVE  Valid(buf') /\ failed' = FALSE /\ Queue!Retrieve(n)
    <2>1. Valid(buf') /\ Content(buf') = SubSeq(content, n + 1, Len(content))
      BY <1>1, <1>7, RetrieveTakes DEF Retrieve
    <2>2. QED
      BY <1>1, <1>7, <2>1 DEF Retrieve, Peek, Queue!Retrieve
  <1>8. ASSUME NEW n \in 0 .. ReadableBytes(buf), Unwrite(n)
        PROVE  Valid(buf') /\ failed' = FALSE /\ Queue!Unwrite(n)
    <2>1. Valid(buf') /\ Content(buf') = SubSeq(content, 1, Len(content) - n)
      BY <1>1, <1>8, UnwriteTakes DEF Unwrite
    <2>2. QED
      BY <1>1, <1>8, <2>1 DEF Unwrite, Queue!Unwrite
  <1>9. ASSUME NEW n \in 0 .. MaxLen, EnsureWritable(n)
        PROVE  Valid(buf') /\ failed' = FALSE /\ Queue!Other
    <2>1. n \in Nat
      BY BufferAssumption
    <2>2. Valid(buf') /\ Content(buf') = content /\ SpaceAsserts(buf, n)
      BY <1>1, <1>9, <2>1, EnsureMakesRoom DEF EnsureWritable
    <2>3. QED
      BY <1>9, <2>2 DEF EnsureWritable, Queue!Other
  <1>10. ASSUME NEW n \in 0 .. MaxLen, Shrink(n)
        PROVE  Valid(buf') /\ failed' = FALSE /\ Queue!Other
    <2>1. n \in Nat
      BY BufferAssumption
    <2>2. /\ Valid(buf') /\ Content(buf') = content
          /\ SpaceAsserts(NewBuffer(kInitialSize), ReadableBytes(buf) + n)
      BY <1>1, <1>10, <2>1, ShrinkKeeps DEF Shrink
    <2>3. QED
      BY <1>10, <2>2 DEF Shrink, Queue!Other
  <1>11. Valid(buf') /\ failed' = FALSE
    BY <1>3, <1>4, <1>5, <1>6, <1>7, <1>8, <1>9, <1>10 DEF BufferNext, ReadInt
  <1>12. Queue!Next
    <2>1. Data = Queue!Bytes(MaxLen)
      BY DEF Data, Queue!Bytes
    <2>2. 0 .. Len(content) = 0 .. ReadableBytes(buf)
      BY <1>2
    <2>3. QED
      BY <1>3, <1>4, <1>5, <1>6, <1>7, <1>8, <1>9, <1>10, <2>1, <2>2
      DEF BufferNext, ReadInt, Queue!Next
  <1>13. QED
    BY <1>11, <1>12 DEF TypeOK, NoAssertFails

\* A new Buffer is an empty queue.
LEMMA InitOfQueue ==
    ASSUME BufferInit
    PROVE  TypeOK /\ NoAssertFails /\ Queue!Init
  <1>1. Valid(buf) /\ Content(buf) = <<>>
    BY NewIsEmpty, BufferAssumption DEF BufferInit
  <1>2. QED
    BY <1>1 DEF BufferInit, TypeOK, NoAssertFails, Queue!Init

\* The reader and writer indices stay in order inside the vector, whatever the
\* program calls and whatever the sizes kCheapPrepend and kInitialSize are.
THEOREM TypeCorrect == BufferSpec => []TypeOK
  <1>1. TypeOK /\ UNCHANGED bufferVars => TypeOK'
    BY DEF TypeOK, bufferVars, Valid
  <1>2. QED
    BY <1>1, InitOfQueue, StepOfQueue, PTL DEF BufferSpec

\* No assertion of makeSpace() or ensureWritableBytes() (Buffer.h:192, 400)
\* can fail after any sequence of legal calls.
THEOREM AssertsHold == BufferSpec => []NoAssertFails
  <1>1. NoAssertFails /\ UNCHANGED bufferVars => NoAssertFails'
    BY DEF NoAssertFails, bufferVars
  <1>2. QED
    BY <1>1, InitOfQueue, StepOfQueue, TypeCorrect, PTL DEF BufferSpec

\* The Buffer implements the queue of bytes: moving the content to the front,
\* growing the vector and reading through extrabuf never lose, repeat or
\* reorder a byte.
THEOREM ImplementsQueue == BufferSpec => IsByteQueue
  <1>1. UNCHANGED bufferVars => UNCHANGED <<Content(buf), call>>
    BY DEF bufferVars, Content, ReadableBytes
  <1>2. TypeOK /\ [BufferNext]_bufferVars => [Queue!Next]_<<Content(buf), call>>
    BY <1>1, StepOfQueue
  <1>3. QED
    BY <1>2, InitOfQueue, TypeCorrect, PTL DEF BufferSpec, IsByteQueue, Queue!Spec

-----------------------------------------------------------------------------
(* Induction over numbers, as a statement about sets.                      *)

\* A set of natural numbers has a least one: the well-founded order of the library.
LEMMA LeastNumber ==
    ASSUME NEW T \in SUBSET Nat, T # {}
    PROVE  \E n \in T : \A m \in T : n <= m
  <1>1. IsWellFoundedOn(OpToRel(<, Nat), Nat)
    BY NatLessThanWellFounded
  <1>2. PICK n \in T : \A m \in T : <<m, n>> \notin OpToRel(<, Nat)
    BY <1>1, WFMin
  <1>3. ASSUME NEW m \in T PROVE n <= m
    <2>1. <<m, n>> \notin OpToRel(<, Nat)
      BY <1>2, Zenon
    <2>2. m \in Nat /\ n \in Nat
      OBVIOUS
    <2>3. ~(m < n)
      BY <2>1, <2>2, Zenon DEF OpToRel
    <2>4. QED
      BY <2>2, <2>3
  <1>4. QED
    BY <1>2, <1>3

\* A set with 0 and with the successor of each of its numbers holds all of them.
LEMMA NumbersByInduction ==
    ASSUME NEW S \in SUBSET Nat, 0 \in S, \A n \in S : n + 1 \in S
    PROVE  S = Nat
  <1> SUFFICES ASSUME Nat \ S # {} PROVE FALSE
    OBVIOUS
  <1>1. PICK n \in Nat \ S : \A m \in Nat \ S : n <= m
    BY LeastNumber
  <1>2. n # 0 /\ n - 1 \in Nat /\ n - 1 \in S
    BY <1>1
  <1>3. QED
    BY <1>1, <1>2

-----------------------------------------------------------------------------
(* The messages of the generated classes.                                  *)

\* What the classes declare between them, and a message of class t in which bits and
\* fields agree.
Members == {"type", "has", "id", "questioner", "answerer", "items", "unknown"}
Consistent(m) ==
    /\ ~Has(m, "id") => m.id = 0
    /\ \A f \in StringFields(m) : IF Has(m, f) THEN m[f].own ELSE m[f].s = <<>>
Message(m, t) == DOMAIN m = Members /\ m.type = t /\ Consistent(m)

\* A string field that is set or not: its bit, and what it points to.
StringOK(set, str) == IF set THEN str.own ELSE str.s = <<>>

\* The string fields of each class.
LEMMA StringFieldsAre ==
    ASSUME NEW m
    PROVE  /\ m.type = "Query" => StringFields(m) = {"questioner"}
           /\ m.type = "Answer" => StringFields(m) = {"questioner", "answerer"}
           /\ m.type = "Empty" => StringFields(m) = {}
  <1>1. CASE m.type = "Query"
    BY <1>1 DEF StringFields, Fields, QueryFields
  <1>2. CASE m.type = "Answer"
    BY <1>2 DEF StringFields, Fields, AnswerFields
  <1>3. CASE m.type = "Empty"
    BY <1>3 DEF StringFields, Fields, EmptyFields
  <1>4. QED
    BY <1>1, <1>2, <1>3

\* The bits of each class.
LEMMA BitsAre ==
    ASSUME NEW m
    PROVE  /\ m.type = "Query" => Bit(m, "questioner") = 0 /\ Bit(m, "id") = 1
           /\ m.type = "Answer" => /\ Bit(m, "questioner") = 0 /\ Bit(m, "answerer") = 1
                                   /\ Bit(m, "id") = 2
           /\ m.type = "Empty" => Bit(m, "id") = 0
  BY DEF Bit

\* Consistent() spelt out.
LEMMA ConsistentIs ==
    ASSUME NEW m
    PROVE  /\ m.type = "Query" =>
                (Consistent(m) <=> /\ 1 \notin m.has => m.id = 0
                                   /\ StringOK(0 \in m.has, m.questioner))
           /\ m.type = "Answer" =>
                (Consistent(m) <=> /\ 2 \notin m.has => m.id = 0
                                   /\ StringOK(0 \in m.has, m.questioner)
                                   /\ StringOK(1 \in m.has, m.answerer))
           /\ m.type = "Empty" => (Consistent(m) <=> (0 \notin m.has => m.id = 0))
  <1>1. CASE m.type = "Query"
    BY <1>1, StringFieldsAre, BitsAre DEF Consistent, Has, StringOK
  <1>2. CASE m.type = "Answer"
    BY <1>2, StringFieldsAre, BitsAre DEF Consistent, Has, StringOK
  <1>3. CASE m.type = "Empty"
    BY <1>3, StringFieldsAre, BitsAre DEF Consistent, Has, StringOK
  <1>4. QED
    BY <1>1, <1>2, <1>3

\* A message is consistent when its parts are: the bits, the id and the strings.
Parts(t, has, id, questioner, answerer) ==
    \/ t = "Query" /\ (1 \notin has => id = 0) /\ StringOK(0 \in has, questioner)
    \/ t = "Answer" /\ (2 \notin has => id = 0) /\ StringOK(0 \in has, questioner)
                    /\ StringOK(1 \in has, answerer)
    \/ t = "Empty" /\ (0 \notin has => id = 0)

\* Message() in terms of the parts.
LEMMA MessageIs ==
    ASSUME NEW m, NEW t \in Types
    PROVE  Message(m, t) <=> /\ DOMAIN m = Members /\ m.type = t
                             /\ Parts(t, m.has, m.id, m.questioner, m.answerer)
  BY ConsistentIs DEF Message, Parts, Types

\* A call that gives a field a value and sets its bit: what is left of the message.
LEMMA SetFieldParts ==
    ASSUME NEW m, DOMAIN m = Members, NEW f \in {"id", "questioner", "answerer"}, NEW v
    PROVE  LET n == [SetHas(m, f) EXCEPT ![f] = v] IN
           /\ DOMAIN n = Members /\ n.type = m.type /\ n.has = m.has \cup {Bit(m, f)}
           /\ n[f] = v /\ \A g \in Members \ {"has", f} : n[g] = m[g]
  BY DEF SetHas, Members

\* The same of a call that clears the bit.
LEMMA ClearFieldParts ==
    ASSUME NEW m, DOMAIN m = Members, NEW f \in {"id", "questioner", "answerer"}, NEW v
    PROVE  LET n == [ClearHas(m, f) EXCEPT ![f] = v] IN
           /\ DOMAIN n = Members /\ n.type = m.type /\ n.has = m.has \ {Bit(m, f)}
           /\ n[f] = v /\ \A g \in Members \ {"has", f} : n[g] = m[g]
  BY DEF ClearHas, Members

\* Setting id, whatever it is set to.
LEMMA SetId ==
    ASSUME NEW t \in Types, NEW m, Message(m, t), NEW v
    PROVE  Message([SetHas(m, "id") EXCEPT !.id = v], t)
  <1> DEFINE n == [SetHas(m, "id") EXCEPT !.id = v]
  <1>1. DOMAIN m = Members /\ m.type = t /\ Parts(t, m.has, m.id, m.questioner, m.answerer)
    BY MessageIs
  <1>2. /\ DOMAIN n = Members /\ n.type = t /\ n.has = m.has \cup {Bit(m, "id")}
        /\ n.questioner = m.questioner /\ n.answerer = m.answerer
    BY <1>1, SetFieldParts DEF Members
  <1>3. Parts(t, n.has, n.id, n.questioner, n.answerer)
    <2> HIDE DEF n
    <2>1. CASE t = "Query"
      BY <2>1, <1>1, <1>2, BitsAre DEF Parts
    <2>2. CASE t = "Answer"
      BY <2>2, <1>1, <1>2, BitsAre DEF Parts
    <2>3. CASE t = "Empty"
      BY <2>3, <1>1, <1>2, BitsAre DEF Parts
    <2>4. QED
      BY <2>1, <2>2, <2>3 DEF Types
  <1>4. QED
    BY <1>2, <1>3, MessageIs

\* Clearing id.
LEMMA ClearId ==
    ASSUME NEW t \in Types, NEW m, Message(m, t)
    PROVE  Message([ClearHas(m, "id") EXCEPT !.id = 0], t)
  <1> DEFINE n == [ClearHas(m, "id") EXCEPT !.id = 0]
  <1>1. DOMAIN m = Members /\ m.type = t /\ Parts(t, m.has, m.id, m.questioner, m.answerer)
    BY MessageIs
  <1>2. /\ DOMAIN n = Members /\ n.type = t /\ n.has = m.has \ {Bit(m, "id")} /\ n.id = 0
        /\ n.questioner = m.questioner /\ n.answerer = m.answerer
    BY <1>1, ClearFieldParts DEF Members
  <1>3. Parts(t, n.has, n.id, n.questioner, n.answerer)
    <2> HIDE DEF n
    <2>1. CASE t = "Query"
      BY <2>1, <1>1, <1>2, BitsAre DEF Parts
    <2>2. CASE t = "Answer"
      BY <2>2, <1>1, <1>2, BitsAre DEF Parts
    <2>3. CASE t = "Empty"
      BY <2>3, <1>1, <1>2, BitsAre DEF Parts
    <2>4. QED
      BY <2>1, <2>2, <2>3 DEF Types
  <1>4. QED
    BY <1>2, <1>3, MessageIs

\* The string fields of a class.
StringsOf(t) == CASE t = "Query" -> {"questioner"} [] t = "Answer" -> {"questioner", "answerer"}
                  [] OTHER -> {}

\* Setting a string field to a string of its own.
LEMMA SetString ==
    ASSUME NEW t \in Types, NEW m, Message(m, t), NEW f \in StringsOf(t), NEW s
    PROVE  Message([SetHas(m, f) EXCEPT ![f] = Own(s)], t)
  <1> DEFINE n == [SetHas(m, f) EXCEPT ![f] = Own(s)]
  <1>1. DOMAIN m = Members /\ m.type = t /\ Parts(t, m.has, m.id, m.questioner, m.answerer)
    BY MessageIs
  <1>0. f \in {"questioner", "answerer"} /\ (t = "Query" => f = "questioner") /\ t # "Empty"
    BY DEF StringsOf, Types
  <1>2. /\ DOMAIN n = Members /\ n.type = t /\ n.has = m.has \cup {Bit(m, f)} /\ n.id = m.id
        /\ n[f] = Own(s) /\ \A g \in {"questioner", "answerer"} \ {f} : n[g] = m[g]
    BY <1>0, <1>1, SetFieldParts DEF Members
  <1>3. Parts(t, n.has, n.id, n.questioner, n.answerer)
    <2> HIDE DEF n
    <2>1. CASE t = "Query"
      BY <2>1, <1>0, <1>1, <1>2, BitsAre DEF Parts, StringOK, Own
    <2>2. CASE t = "Answer" /\ f = "questioner"
      BY <2>2, <1>1, <1>2, BitsAre DEF Parts, StringOK, Own
    <2>3. CASE t = "Answer" /\ f = "answerer"
      BY <2>3, <1>1, <1>2, BitsAre DEF Parts, StringOK, Own
    <2>4. QED
      BY <2>1, <2>2, <2>3, <1>0 DEF Types
  <1>4. QED
    BY <1>2, <1>3, MessageIs

\* Clearing a string field, when what it points to is empty.
LEMMA ClearStringField ==
    ASSUME NEW t \in Types, NEW m, Message(m, t), NEW f \in StringsOf(t), NEW str, str.s = <<>>
    PROVE  Message([ClearHas(m, f) EXCEPT ![f] = str], t)
  <1> DEFINE n == [ClearHas(m, f) EXCEPT ![f] = str]
  <1>1. DOMAIN m = Members /\ m.type = t /\ Parts(t, m.has, m.id, m.questioner, m.answerer)
    BY MessageIs
  <1>0. f \in {"questioner", "answerer"} /\ (t = "Query" => f = "questioner") /\ t # "Empty"
    BY DEF StringsOf, Types
  <1>2. /\ DOMAIN n = Members /\ n.type = t /\ n.has = m.has \ {Bit(m, f)} /\ n.id = m.id
        /\ n[f] = str /\ \A g \in {"questioner", "answerer"} \ {f} : n[g] = m[g]
    BY <1>0, <1>1, ClearFieldParts DEF Members
  <1>3. Parts(t, n.has, n.id, n.questioner, n.answerer)
    <2> HIDE DEF n
    <2>1. CASE t = "Query"
      BY <2>1, <1>0, <1>1, <1>2, BitsAre DEF Parts, StringOK
    <2>2. CASE t = "Answer" /\ f = "questioner"
      BY <2>2, <1>1, <1>2, BitsAre DEF Parts, StringOK
    <2>3. CASE t = "Answer" /\ f = "answerer"
      BY <2>3, <1>1, <1>2, BitsAre DEF Parts, StringOK
    <2>4. QED
      BY <2>1, <2>2, <2>3, <1>0 DEF Types
  <1>4. QED
    BY <1>2, <1>3, MessageIs

\* The lists take no part.
LEMMA ListsFree ==
    ASSUME NEW t \in Types, NEW m, Message(m, t), NEW x, NEW y
    PROVE  Message([m EXCEPT !.items = x], t) /\ Message([m EXCEPT !.unknown = y], t)
  BY MessageIs DEF Members

-----------------------------------------------------------------------------
(* Every operation of the generated classes keeps bits and fields together. *)

\* New().
LEMMA NewIsMessage ==
    ASSUME NEW t \in Types
    PROVE  Message(New(t), t)
  <1>1. New(t) = Constructed(t)
    BY DEF New, Types, QueryNew, AnswerNew, EmptyNew, QueryConstructed, AnswerConstructed,
           EmptyConstructed
  <1>2. DOMAIN Constructed(t) = Members /\ Constructed(t).type = t
    BY DEF Constructed, Members
  <1>3. Parts(t, Constructed(t).has, Constructed(t).id, Constructed(t).questioner,
              Constructed(t).answerer)
    BY DEF Constructed, Parts, StringOK, Default, Types
  <1>4. QED
    BY <1>1, <1>2, <1>3, MessageIs

\* The accessors of id.
LEMMA IdCallsKeep ==
    ASSUME NEW t \in Types, NEW m, Message(m, t), NEW n \in IdCalls(m)
    PROVE  Message(n, t)
  <1>1. CASE \E v \in Ids : n = [SetHas(m, "id") EXCEPT !.id = v]
    BY <1>1, SetId
  <1>2. CASE n = [ClearHas(m, "id") EXCEPT !.id = 0]
    BY <1>2, ClearId
  <1>3. QED
    BY <1>1, <1>2 DEF IdCalls

\* The accessors of a string field.
LEMMA StringCallsKeep ==
    ASSUME NEW t \in Types, NEW m, Message(m, t), NEW f \in StringsOf(t), NEW n \in StringCalls(m, f)
    PROVE  Message(n, t)
  <1>1. CASE \E s \in Texts : n = [SetHas(m, f) EXCEPT ![f] = Own(s)]
    <2>1. PICK s \in Texts : n = [SetHas(m, f) EXCEPT ![f] = Own(s)]
      BY <1>1
    <2>2. Message([SetHas(m, f) EXCEPT ![f] = Own(s)], t)
      BY SetString
    <2>3. QED
      BY <2>1, <2>2
  <1>2. CASE n = [ClearHas(m, f) EXCEPT ![f] = Emptied(@)]
    <2>1. Emptied(ClearHas(m, f)[f]).s = <<>>
      BY DEF Emptied, Own, Default
    <2>2. QED
      BY <1>2, <2>1, ClearStringField
  <1>3. CASE n = ReleaseString(m, f)
    <2>1. Default.s = <<>>
      BY DEF Default
    <2>2. QED
      BY <1>3, <2>1, ClearStringField DEF ReleaseString
  <1>4. QED
    BY <1>1, <1>2, <1>3 DEF StringCalls

\* The accessors of a repeated field.
LEMMA ItemCallsKeep ==
    ASSUME NEW t \in Types, NEW m, Message(m, t), NEW n \in ItemCalls(m)
    PROVE  Message(n, t)
  <1>1. PICK x : n = [m EXCEPT !.items = x]
    BY DEF ItemCalls
  <1>2. QED
    BY <1>1, ListsFree

\* All of them.
LEMMA CallsKeep ==
    ASSUME NEW t \in Types, NEW m, Message(m, t), NEW n \in Calls(m)
    PROVE  Message(n, t)
  <1>1. m.type = t
    BY DEF Message
  <1>2. CASE t = "Query"
    <2>1. n \in IdCalls(m) \cup StringCalls(m, "questioner") \cup ItemCalls(m)
      BY <1>1, <1>2 DEF Calls, QueryIdCalls, QueryQuestionerCalls, QueryQuestionCalls
    <2>2. "questioner" \in StringsOf(t)
      BY <1>2 DEF StringsOf
    <2>3. QED
      BY <2>1, <2>2, IdCallsKeep, StringCallsKeep, ItemCallsKeep
  <1>3. CASE t = "Answer"
    <2>1. n \in IdCalls(m) \cup StringCalls(m, "questioner") \cup StringCalls(m, "answerer")
                \cup ItemCalls(m)
      BY <1>1, <1>3 DEF Calls, AnswerIdCalls, AnswerQuestionerCalls, AnswerAnswererCalls,
                        AnswerSolutionCalls
    <2>2. "questioner" \in StringsOf(t) /\ "answerer" \in StringsOf(t)
      BY <1>3 DEF StringsOf
    <2>3. QED
      BY <2>1, <2>2, IdCallsKeep, StringCallsKeep, ItemCallsKeep
  <1>4. CASE t = "Empty"
    <2>1. n \in IdCalls(m)
      BY <1>1, <1>4 DEF Calls, EmptyIdCalls
    <2>2. QED
      BY <2>1, IdCallsKeep
  <1>5. QED
    BY <1>2, <1>3, <1>4 DEF Types

\* What Clear() does to a string field.
LEMMA ClearStringParts ==
    ASSUME NEW m, DOMAIN m = Members, NEW f \in {"questioner", "answerer"}
    PROVE  LET n == ClearString(m, f) IN
           /\ DOMAIN n = Members /\ n.type = m.type /\ n.has = m.has
           /\ \A g \in {"questioner", "answerer"} \ {f} : n[g] = m[g]
           /\ StringOK(Has(m, f), m[f]) => n[f].s = <<>>
  BY DEF ClearString, Members, StringOK, Own

\* Clear().
LEMMA ClearKeeps ==
    ASSUME NEW t \in Types, NEW m, Message(m, t)
    PROVE  Message(Clear(m), t)
  <1>1. DOMAIN m = Members /\ m.type = t /\ Parts(t, m.has, m.id, m.questioner, m.answerer)
    BY MessageIs
  <1>2. ASSUME NEW n, DOMAIN n = Members, n.type = t
        PROVE  LET r == Reset(n) IN
               /\ DOMAIN r = Members /\ r.type = t /\ r.has = {} /\ r.id = 0
               /\ r.questioner = n.questioner /\ r.answerer = n.answerer
    BY <1>2 DEF Reset, Members
  <1>3. CASE t = "Query"
    <2> DEFINE n == ClearString(m, "questioner")
    <2>1. DOMAIN n = Members /\ n.type = t /\ n.questioner.s = <<>>
      <3>1. StringOK(Has(m, "questioner"), m.questioner)
        BY <1>1, <1>3, BitsAre DEF Parts, Has
      <3>2. QED
        BY <3>1, <1>1, ClearStringParts
    <2>2. Clear(m) = Reset(n)
      BY <1>1, <1>3 DEF Clear, QueryClear
    <2> HIDE DEF n
    <2>3. Parts(t, Reset(n).has, Reset(n).id, Reset(n).questioner, Reset(n).answerer)
      BY <1>2, <1>3, <2>1 DEF Parts, StringOK
    <2>4. QED
      BY <1>2, <2>1, <2>2, <2>3, MessageIs
  <1>4. CASE t = "Answer"
    <2> DEFINE l == ClearString(m, "questioner")
               n == ClearString(l, "answerer")
    <2>1. DOMAIN l = Members /\ l.type = t /\ l.has = m.has /\ l.answerer = m.answerer
          /\ l.questioner.s = <<>>
      <3>1. StringOK(Has(m, "questioner"), m.questioner)
        BY <1>1, <1>4, BitsAre DEF Parts, Has
      <3>2. QED
        BY <3>1, <1>1, ClearStringParts
    <2> HIDE DEF l
    <2>2. DOMAIN n = Members /\ n.type = t /\ n.questioner.s = <<>> /\ n.answerer.s = <<>>
      <3>1. StringOK(Has(l, "answerer"), l.answerer)
        BY <1>1, <2>1, <1>4, BitsAre DEF Parts, Has
      <3>2. QED
        BY <3>1, <2>1, ClearStringParts
    <2>3. Clear(m) = Reset(n)
      BY <1>1, <1>4 DEF Clear, AnswerClear, l
    <2> HIDE DEF n
    <2>4. Parts(t, Reset(n).has, Reset(n).id, Reset(n).questioner, Reset(n).answerer)
      BY <1>2, <1>4, <2>2 DEF Parts, StringOK
    <2>5. QED
      BY <1>2, <2>2, <2>3, <2>4, MessageIs
  <1>5. CASE t = "Empty"
    <2>1. Clear(m) = Reset(m)
      BY <1>1, <1>5 DEF Clear, EmptyClear
    <2>2. Parts(t, Reset(m).has, Reset(m).id, Reset(m).questioner, Reset(m).answerer)
      BY <1>2, <1>5, <1>1 DEF Parts
    <2>3. QED
      BY <1>1, <1>2, <2>1, <2>2, MessageIs
  <1>6. QED
    BY <1>3, <1>4, <1>5 DEF Types

\* The steps of MergeFrom().
LEMMA MergeStepsKeep ==
    ASSUME NEW t \in Types, NEW m, Message(m, t), NEW from
    PROVE  /\ \A f \in StringsOf(t) : Message(MergeString(m, from, f), t)
           /\ Message(MergeId(m, from), t)
           /\ Message(MergeLists(m, from), t)
  <1>1. \A f \in StringsOf(t) : Message(MergeString(m, from, f), t)
    BY SetString DEF MergeString
  <1>2. Message(MergeId(m, from), t)
    BY SetId DEF MergeId
  <1>3. Message(MergeLists(m, from), t)
    <2>1. MergeLists(m, from) = [[m EXCEPT !.items = m.items \o from.items]
                                    EXCEPT !.unknown = m.unknown \o from.unknown]
      BY DEF MergeLists, Message, Members
    <2>2. Message([m EXCEPT !.items = m.items \o from.items], t)
      BY ListsFree
    <2>3. Message([[m EXCEPT !.items = m.items \o from.items]
                     EXCEPT !.unknown = m.unknown \o from.unknown], t)
      BY <2>2, ListsFree
    <2>4. QED
      BY <2>1, <2>3
  <1>4. QED
    BY <1>1, <1>2, <1>3

\* MergeFrom().
LEMMA MergeFromKeeps ==
    ASSUME NEW t \in Types, NEW m, Message(m, t), NEW from
    PROVE  Message(MergeFrom(m, from), t)
  <1>1. m.type = t
    BY DEF Message
  <1>2. CASE t = "Query"
    <2>1. "questioner" \in StringsOf(t)
      BY <1>2 DEF StringsOf
    <2>2. Message(MergeString(m, from, "questioner"), t)
      BY <2>1, MergeStepsKeep
    <2>3. Message(MergeId(MergeString(m, from, "questioner"), from), t)
      BY <2>2, MergeStepsKeep
    <2>4. QED
      BY <2>3, <1>1, <1>2, MergeStepsKeep DEF MergeFrom, QueryMergeFrom
  <1>3. CASE t = "Answer"
    <2> DEFINE l == MergeString(m, from, "questioner")
               n == MergeString(l, from, "answerer")
    <2>1. "questioner" \in StringsOf(t) /\ "answerer" \in StringsOf(t)
      BY <1>3 DEF StringsOf
    <2>2. Message(l, t)
      BY <2>1, MergeStepsKeep
    <2>3. Message(n, t)
      <3> HIDE DEF l
      <3> QED
        BY <2>1, <2>2, MergeStepsKeep
    <2>4. Message(MergeId(n, from), t)
      <3> HIDE DEF n
      <3> QED
        BY <2>3, MergeStepsKeep
    <2>5. MergeFrom(m, from) = MergeLists(MergeId(n, from), from)
      BY <1>1, <1>3 DEF MergeFrom, AnswerMergeFrom
    <2> HIDE DEF n
    <2>6. QED
      BY <2>4, <2>5, MergeStepsKeep
  <1>4. CASE t = "Empty"
    <2>1. Message(MergeId(m, from), t)
      BY MergeStepsKeep
    <2>2. QED
      BY <2>1, <1>1, <1>4, MergeStepsKeep DEF MergeFrom, EmptyMergeFrom
  <1>5. QED
    BY <1>2, <1>3, <1>4 DEF Types

\* CopyFrom(): Clear(), then MergeFrom().
LEMMA CopyFromKeeps ==
    ASSUME NEW t \in Types, NEW m, Message(m, t), NEW from
    PROVE  Message(CopyFrom(m, from), t)
  <1>1. m.type = t /\ Clear(m).type = t
    BY ClearKeeps DEF Message
  <1>2. CopyFrom(m, from) = MergeFrom(Clear(m), from)
    <2>1. CASE t = "Query"
      BY <1>1, <2>1 DEF CopyFrom, QueryCopyFrom, MergeFrom, Clear
    <2>2. CASE t = "Answer"
      BY <1>1, <2>2 DEF CopyFrom, AnswerCopyFrom, MergeFrom, Clear
    <2>3. CASE t = "Empty"
      BY <1>1, <2>3 DEF CopyFrom, EmptyCopyFrom, MergeFrom, Clear
    <2>4. QED
      BY <2>1, <2>2, <2>3 DEF Types
  <1>3. QED
    BY <1>2, ClearKeeps, MergeFromKeeps

\* The copy constructors: a string whose bit is set is copied, the others are the
\* default.
LEMMA CopyKeeps ==
    ASSUME NEW t \in Types, NEW from, Message(from, t)
    PROVE  Message(Copy(from), t)
  <1>1. DOMAIN from = Members /\ from.type = t
        /\ Parts(t, from.has, from.id, from.questioner, from.answerer)
    BY MessageIs
  <1>2. ASSUME NEW f
        PROVE  StringOK(Has(from, f), CopyString(from, f))
    BY DEF StringOK, CopyString, Own, Default
  <1>3. CASE t = "Query"
    <2> DEFINE n == QueryCopy(from)
    <2>1. DOMAIN n = Members /\ n.type = t /\ n.has = from.has /\ n.id = from.id
          /\ n.questioner = CopyString(from, "questioner")
      BY <1>1 DEF QueryCopy, Members
    <2> HIDE DEF n
    <2>2. Parts(t, n.has, n.id, n.questioner, n.answerer)
      BY <1>1, <1>2, <1>3, <2>1, BitsAre DEF Parts, Has
    <2>3. Copy(from) = n
      BY <1>1, <1>3 DEF Copy, n
    <2>4. QED
      BY <2>1, <2>2, <2>3, MessageIs
  <1>4. CASE t = "Answer"
    <2> DEFINE n == AnswerCopy(from)
    <2>1. DOMAIN n = Members /\ n.type = t /\ n.has = from.has /\ n.id = from.id
          /\ n.questioner = CopyString(from, "questioner")
          /\ n.answerer = CopyString(from, "answerer")
      BY <1>1 DEF AnswerCopy, Members
    <2> HIDE DEF n
    <2>2. Parts(t, n.has, n.id, n.questioner, n.answerer)
      BY <1>1, <1>2, <1>4, <2>1, BitsAre DEF Parts, Has
    <2>3. Copy(from) = n
      BY <1>1, <1>4 DEF Copy, n
    <2>4. QED
      BY <2>1, <2>2, <2>3, MessageIs
  <1>5. CASE t = "Empty"
    BY <1>1, <1>5 DEF Copy, EmptyCopy
  <1>6. QED
    BY <1>3, <1>4, <1>5 DEF Types

\* The members that InternalSwap() exchanges for each class.
Swaps(t, x, y) == CASE t = "Query" -> QuerySwap(x, y) [] t = "Answer" -> AnswerSwap(x, y)
                    [] OTHER -> EmptySwap(x, y)

\* InternalSwap() exchanges all that the bits are about.
LEMMA SwapsKeep ==
    ASSUME NEW t \in Types, NEW x, NEW y, Message(x, t), Message(y, t)
    PROVE  Message(Swaps(t, x, y), t)
  <1> DEFINE n == Swaps(t, x, y)
  <1>1. /\ DOMAIN x = Members /\ x.type = t
        /\ DOMAIN y = Members /\ Parts(t, y.has, y.id, y.questioner, y.answerer)
    BY MessageIs
  <1>2. CASE t = "Query"
    <2>1. /\ DOMAIN n = Members /\ n.type = t /\ n.has = y.has /\ n.id = y.id
          /\ n.questioner = y.questioner
      BY <1>1, <1>2 DEF Swaps, QuerySwap, Exchanged, Members
    <2> HIDE DEF n
    <2>2. Parts(t, n.has, n.id, n.questioner, n.answerer)
      BY <1>1, <1>2, <2>1 DEF Parts
    <2>3. QED
      BY <2>1, <2>2, MessageIs DEF n
  <1>3. CASE t = "Answer"
    <2>1. /\ DOMAIN n = Members /\ n.type = t /\ n.has = y.has /\ n.id = y.id
          /\ n.questioner = y.questioner /\ n.answerer = y.answerer
      BY <1>1, <1>3 DEF Swaps, AnswerSwap, Exchanged, Members
    <2> HIDE DEF n
    <2>2. Parts(t, n.has, n.id, n.questioner, n.answerer)
      BY <1>1, <1>3, <2>1 DEF Parts
    <2>3. QED
      BY <2>1, <2>2, MessageIs DEF n
  <1>4. CASE t = "Empty"
    <2>1. DOMAIN n = Members /\ n.type = t /\ n.has = y.has /\ n.id = y.id
      BY <1>1, <1>4 DEF Swaps, EmptySwap, Exchanged, Members
    <2> HIDE DEF n
    <2>2. Parts(t, n.has, n.id, n.questioner, n.answerer)
      BY <1>1, <1>4, <2>1 DEF Parts
    <2>3. QED
      BY <2>1, <2>2, MessageIs DEF n
  <1>5. QED
    BY <1>2, <1>3, <1>4 DEF Types

\* Swap(), and the move constructors and assignments.
LEMMA SwapAndMoveKeep ==
    ASSUME NEW t \in Types, NEW x, NEW y, Message(x, t), Message(y, t)
    PROVE  /\ Message(Swapped(x, y), t)
           /\ Message(Moved(x, y)[1], t) /\ Message(Moved(x, y)[2], t)
  <1>1. x.type = t /\ y.type = t
    BY DEF Message
  <1>2. Swapped(x, y) = Swaps(t, x, y)
    BY <1>1 DEF Swapped, Swaps, Types
  <1>3. Moved(x, y) = <<Swaps(t, x, y), Swaps(t, y, x)>>
    BY <1>1 DEF Moved, Swaps, Types, QueryMoved, AnswerMoved, EmptyMoved
  <1>4. QED
    BY <1>2, <1>3, SwapsKeep

-----------------------------------------------------------------------------
(* Parsing, whatever the bytes are and wherever it fails.                  *)

\* The bit of id may be set before the value is read.
LEMMA SetIdBit ==
    ASSUME NEW t \in Types, NEW m, Message(m, t)
    PROVE  Message(SetHas(m, "id"), t)
  <1>1. DOMAIN m = Members
    BY DEF Message
  <1>2. SetHas(m, "id") = [SetHas(m, "id") EXCEPT !.id = m.id]
    BY <1>1 DEF SetHas, Members
  <1>3. QED
    BY <1>2, SetId

\* Where the loop of MergePartialFromCodedStream() is: the message so far, the
\* position in the input and whether all went well.
Reading(p, t) == DOMAIN p = {"m", "at", "ok"} /\ Message(p.m, t)

\* What a case of the switch leaves is a message when both of its ends are.
LEMMA FieldResultKeeps ==
    ASSUME NEW t \in Types, NEW read, NEW parsed, NEW m, Message(parsed, t), Message(m, t)
    PROVE  Reading(FieldResult(read, parsed, m), t)
  BY DEF FieldResult, Reading

\* The cases of the switch: each ends well or fails in the middle of its field.
LEMMA ParseCasesKeep ==
    ASSUME NEW t \in Types, NEW m, Message(m, t), NEW tag, NEW s, NEW i
    PROVE  /\ Reading(ParseId(m, s, i), t)
           /\ \A f \in StringsOf(t) : Reading(ParseString(m, f, s, i), t)
           /\ Reading(ParseItem(m, s, i), t)
           /\ Reading(ParseUnknown(m, tag, s, i), t)
  <1>1. Reading(ParseId(m, s, i), t)
    BY SetId, SetIdBit, FieldResultKeeps DEF ParseId
  <1>2. ASSUME NEW f \in StringsOf(t)
        PROVE  Reading(ParseString(m, f, s, i), t)
    BY SetString, FieldResultKeeps DEF ParseString
  <1>3. Reading(ParseItem(m, s, i), t)
    BY ListsFree, FieldResultKeeps DEF ParseItem
  <1>4. Reading(ParseUnknown(m, tag, s, i), t)
    BY ListsFree, FieldResultKeeps DEF ParseUnknown
  <1>5. QED
    BY <1>1, <1>2, <1>3, <1>4

\* The switch of each class.
LEMMA ParseFieldKeeps ==
    ASSUME NEW t \in Types, NEW m, Message(m, t), NEW tag, NEW s, NEW i
    PROVE  Reading(ParseField(m, tag, s, i), t)
  <1>1. m.type = t
    BY DEF Message
  <1>2. CASE t = "Query"
    <2>1. "questioner" \in StringsOf(t)
      BY <1>2 DEF StringsOf
    <2>2. QED
      BY <1>1, <1>2, <2>1, ParseCasesKeep DEF ParseField, QueryParseField
  <1>3. CASE t = "Answer"
    <2>1. "questioner" \in StringsOf(t) /\ "answerer" \in StringsOf(t)
      BY <1>3 DEF StringsOf
    <2>2. QED
      BY <1>1, <1>3, <2>1, ParseCasesKeep DEF ParseField, AnswerParseField
  <1>4. CASE t = "Empty"
    BY <1>1, <1>4, ParseCasesKeep DEF ParseField, EmptyParseField
  <1>5. QED
    BY <1>2, <1>3, <1>4 DEF Types

\* A turn of the loop; one that cannot read a tag keeps the message.
LEMMA TurnKeeps ==
    ASSUME NEW t \in Types, NEW p, NEW s, Reading(p, t)
    PROVE  Reading(Turn(p, s), t)
  <1>1. Reading([p EXCEPT !.ok = FALSE], t)
    BY DEF Reading
  <1>2. QED
    BY <1>1, ParseFieldKeeps DEF Turn, ReadField, Reading

\* The loop as a function of the number of turns, and its two ends.
Start(m) == [m |-> m, at |-> 1, ok |-> TRUE]
After(p, s) == CHOOSE r \in {Turn(q, s) : q \in {p}} : TRUE
Turns(g, m, s) == g = [k \in 0..Len(s) |-> IF k = 0 THEN Start(m) ELSE After(g[k - 1], s)]

\* A turn is a turn.
LEMMA AfterIsTurn ==
    ASSUME NEW p, NEW s
    PROVE  After(p, s) = Turn(p, s)
  <1>1. {Turn(q, s) : q \in {p}} = {Turn(p, s)}
    OBVIOUS
  <1>2. QED
    BY <1>1 DEF After

\* There is a function that gives what the loop has after each of its turns.
LEMMA TurnsExists ==
    ASSUME NEW m, NEW s, Len(s) \in Nat
    PROVE  \E g : Turns(g, m, s)
  <1> DEFINE Def(g, k) == IF k = 0 THEN Start(m) ELSE After(g[k - 1], s)
             Up(g, n) == g = [k \in 0..n |-> Def(g, k)]
             T == {n \in Nat : \E g : Up(g, n)}
  <1>1. 0 \in T
    <2> DEFINE g == [k \in 0..0 |-> Start(m)]
    <2>1. g = [k \in 0..0 |-> Def(g, k)]
      OBVIOUS
    <2> HIDE DEF g
    <2>2. QED
      BY <2>1
  <1>2. ASSUME NEW n \in T PROVE n + 1 \in T
    <2>1. PICK g : g = [k \in 0..n |-> Def(g, k)]
      OBVIOUS
    <2> DEFINE h == [k \in 0..(n + 1) |-> IF k = n + 1 THEN After(g[n], s) ELSE g[k]]
    <2>2. n \in Nat
      OBVIOUS
    <2>3. ASSUME NEW k \in 0..(n + 1) PROVE h[k] = Def(h, k)
      <3>1. CASE k = n + 1
        <4>1. k # 0 /\ k - 1 = n /\ n \in 0..(n + 1) /\ n # n + 1
          BY <2>2, <3>1
        <4>2. h[n] = g[n] /\ h[k] = After(g[n], s)
          BY <3>1, <4>1
        <4>3. QED
          BY <4>1, <4>2
      <3>2. CASE k # n + 1
        <4>1. k \in 0..n /\ (k # 0 => k - 1 \in 0..(n + 1) /\ k - 1 # n + 1)
          BY <2>2, <3>2
        <4>2. h[k] = g[k] /\ (k # 0 => h[k - 1] = g[k - 1])
          BY <3>2, <4>1
        <4>3. g[k] = Def(g, k)
          BY <2>1, <4>1
        <4>4. QED
          BY <4>2, <4>3
      <3>3. QED
        BY <3>1, <3>2
    <2>4. h = [k \in 0..(n + 1) |-> Def(h, k)]
      BY <2>3, Zenon
    <2>5. Up(h, n + 1) /\ n + 1 \in Nat
      BY <2>2, <2>4
    <2> HIDE DEF h, Up
    <2>6. QED
      BY <2>5
  <1>3. T \in SUBSET Nat
    OBVIOUS
  <1> HIDE DEF T
  <1>4. T = Nat
    BY <1>1, <1>2, <1>3, NumbersByInduction
  <1>5. Len(s) \in T
    BY <1>4
  <1>6. QED
    BY <1>5 DEF T, Turns

\* However many turns the loop makes, it leaves a message.
LEMMA MergeFieldsKeeps ==
    ASSUME NEW t \in Types, NEW m, Message(m, t), NEW s, Len(s) \in Nat
    PROVE  Reading(MergeFields(m, s), t)
  <1> DEFINE f == CHOOSE g : Turns(g, m, s)
             T == {n \in Nat : n <= Len(s) => Reading(f[n], t)}
  <1>1. MergeFields(m, s) = f[Len(s)]
    BY Zenon DEF MergeFields, Turns, Start, After
  <1>2. Turns(f, m, s)
    BY TurnsExists, Zenon
  <1> HIDE DEF f
  <1>3. 0 \in T
    <2>1. f[0] = Start(m)
      BY <1>2 DEF Turns
    <2>2. Reading(Start(m), t)
      BY DEF Reading, Start
    <2>3. QED
      BY <2>1, <2>2
  <1>4. ASSUME NEW n \in T PROVE n + 1 \in T
    <2> SUFFICES ASSUME n + 1 <= Len(s) PROVE Reading(f[n + 1], t)
      OBVIOUS
    <2>1. n \in Nat /\ n + 1 \in 0..Len(s) /\ n + 1 # 0 /\ (n + 1) - 1 = n /\ Reading(f[n], t)
      OBVIOUS
    <2>2. f[n + 1] = After(f[n], s)
      BY <1>2, <2>1 DEF Turns
    <2>3. QED
      BY <2>1, <2>2, AfterIsTurn, TurnKeeps
  <1>5. T \in SUBSET Nat
    OBVIOUS
  <1> HIDE DEF T
  <1>6. T = Nat
    BY <1>3, <1>4, <1>5, NumbersByInduction
  <1>7. Reading(f[Len(s)], t)
    BY <1>6 DEF T
  <1>8. QED
    BY <1>1, <1>7

\* ParseFromArray(), whether it succeeds or fails.
LEMMA ParseKeeps ==
    ASSUME NEW t \in Types, NEW m, Message(m, t), NEW s, Len(s) \in Nat
    PROVE  Message(ParseFromArray(m, s).m, t)
  <1> DEFINE r == ParsePartial(m, s)
             p == [m |-> r.m, ok |-> r.ok /\ IsInitialized(r.m)]
  <1>1. Reading(r, t)
    BY ClearKeeps, MergeFieldsKeeps DEF ParsePartial
  <1>2. ParseFromArray(m, s) = p
    <2>1. {[m |-> q.m, ok |-> q.ok /\ IsInitialized(q.m)] : q \in {r}} = {p}
      BY Zenon
    <2>2. QED
      BY <2>1, Zenon DEF ParseFromArray
  <1> HIDE DEF r
  <1>3. p.m = r.m
    OBVIOUS
  <1>4. QED
    BY <1>1, <1>2, <1>3 DEF Reading

-----------------------------------------------------------------------------
(* Two objects.                                                            *)

\* Both objects are messages of one class.
ObjectsConsistent == \E t \in Types : Message(msg, t) /\ Message(other, t)

\* Every operation keeps them so.
LEMMA ObjectsStep ==
    ASSUME ObjectsConsistent, [ObjectsNext]_objects
    PROVE  ObjectsConsistent'
  <1>1. PICK t \in Types : Message(msg, t) /\ Message(other, t)
    BY DEF ObjectsConsistent
  <1> SUFFICES Message(msg', t) /\ Message(other', t)
    BY DEF ObjectsConsistent, Message, Consistent, StringFields
  <1>2. CASE Call
    BY <1>1, <1>2, CallsKeep DEF Call
  <1>3. CASE ClearMsg
    BY <1>1, <1>3, ClearKeeps DEF ClearMsg
  <1>4. CASE Merge
    BY <1>1, <1>4, MergeFromKeeps DEF Merge
  <1>5. CASE CopyMsg
    BY <1>1, <1>5, CopyFromKeeps DEF CopyMsg
  <1>6. CASE CopyConstruct
    BY <1>1, <1>6, CopyKeeps DEF CopyConstruct
  <1>7. CASE Swap
    BY <1>1, <1>7, SwapAndMoveKeep DEF Swap
  <1>8. CASE MoveConstruct
    <2>1. Message(New(msg.type), t)
      BY <1>1, NewIsMessage DEF Message
    <2>2. QED
      BY <1>1, <1>8, <2>1, SwapAndMoveKeep DEF MoveConstruct
  <1>9. CASE MoveAssign
    BY <1>1, <1>9, SwapAndMoveKeep DEF MoveAssign
  <1>10. CASE Parse
    <2>1. PICK s \in Inputs : msg' = ParseFromArray(msg, s).m /\ other' = other
      BY <1>10 DEF Parse
    <2>2. Len(s) \in Nat
      BY InputsAssumption
    <2>3. QED
      BY <1>1, <2>1, <2>2, ParseKeeps
  <1>11. CASE UNCHANGED objects
    BY <1>1, <1>11 DEF objects
  <1>12. QED
    BY <1>2, <1>3, <1>4, <1>5, <1>6, <1>7, <1>8, <1>9, <1>10, <1>11 DEF ObjectsNext

\* Presence bits and fields of the generated classes agree after every sequence of
\* accessor calls, merges, copies, swaps, moves and parses, for all values of the
\* fields and all bytes given to ParseFromArray(), also when the parse fails.
THEOREM BitsAlwaysMatch == ObjectsSpec => []BitsMatchFields
  <1>1. ObjectsInit => ObjectsConsistent
    BY NewIsMessage DEF ObjectsInit, ObjectsConsistent
  <1>2. ObjectsConsistent => BitsMatchFields
    BY DEF ObjectsConsistent, BitsMatchFields, Message, Consistent
  <1>3. QED
    BY <1>1, <1>2, ObjectsStep, PTL DEF ObjectsSpec
=============================================================================
