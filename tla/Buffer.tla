-------------------------------- MODULE Buffer --------------------------------
(***************************************************************************)
(* tcp.muduo/Buffer.h and Buffer.cpp: a vector of bytes with a reader and a *)
(* writer index, as operators on a value [size, bytes, reader, writer], and *)
(* the calls of a program as actions on one Buffer.  The calls that only    *)
(* fix a width or an encoding (appendInt32, readInt16, ...) are the call    *)
(* they end in.                                                             *)
(***************************************************************************)
EXTENDS Integers, Sequences

CONSTANTS Byte,             \* the bytes, 0 among them
          kCheapPrepend,
          kInitialSize,
          kExtra,           \* sizeof extrabuf in readFd()
          MaxLen,           \* bound on the bytes given to one call
          MaxSize           \* bound on buffer_.size()

ASSUME BufferAssumption ==
    /\ 0 \in Byte
    /\ kCheapPrepend \in Nat /\ kInitialSize \in Nat /\ kExtra \in Nat
    /\ MaxLen \in Nat /\ MaxSize \in Nat

-----------------------------------------------------------------------------
(* Buffers as values.                                                      *)

BufferOf(n, f, r, w) == [size |-> n, bytes |-> f, reader |-> r, writer |-> w]

ReadableBytes(b) == b.writer - b.reader
WritableBytes(b) == b.size - b.writer
PrependableBytes(b) == b.reader

\* The bytes from peek() to beginWrite().
Content(b) == [i \in 1 .. ReadableBytes(b) |-> b.bytes[b.reader + i - 1]]

NewBuffer(initialSize) ==
    BufferOf(kCheapPrepend + initialSize, [i \in 0 .. kCheapPrepend + initialSize - 1 |-> 0],
             kCheapPrepend, kCheapPrepend)

\* std::copy of data to the positions from at on
CopyTo(b, at, data) ==
    [i \in 0 .. b.size - 1 |-> IF i - at + 1 \in DOMAIN data THEN data[i - at + 1] ELSE b.bytes[i]]

\* buffer_.resize(n)
Resize(b, n) ==
    BufferOf(n, [i \in 0 .. n - 1 |-> IF i < b.size THEN b.bytes[i] ELSE 0], b.reader, b.writer)

MoveToFront(b) ==
    BufferOf(b.size, CopyTo(b, kCheapPrepend, Content(b)),
             kCheapPrepend, kCheapPrepend + ReadableBytes(b))

\* Mutant: the test of makeSpace() forgets the room kept for prepend().
MustGrow_NoPrepend(b, len) == WritableBytes(b) + PrependableBytes(b) < len

\* makeSpace()
MustGrow(b, len) == WritableBytes(b) + PrependableBytes(b) < len + kCheapPrepend
GrownSize(b, len) == b.writer + len
MakeSpace(b, len) == IF MustGrow(b, len) THEN Resize(b, GrownSize(b, len)) ELSE MoveToFront(b)

EnsureWritableBytes(b, len) == IF WritableBytes(b) < len THEN MakeSpace(b, len) ELSE b

\* The assertions of makeSpace() and of ensureWritableBytes().
SpaceAsserts(b, len) ==
    /\ WritableBytes(b) < len /\ ~MustGrow(b, len) => kCheapPrepend < b.reader
    /\ WritableBytes(EnsureWritableBytes(b, len)) >= len

\* append(): std::copy to beginWrite() and hasWritten()
Filled(b, data) == BufferOf(b.size, CopyTo(b, b.writer, data), b.reader, b.writer + Len(data))
AppendTo(b, data) == Filled(EnsureWritableBytes(b, Len(data)), data)

RetrieveAllFrom(b) == BufferOf(b.size, b.bytes, kCheapPrepend, kCheapPrepend)

\* retrieve(len)
RetrieveFrom(b, len) ==
    IF len < ReadableBytes(b) THEN BufferOf(b.size, b.bytes, b.reader + len, b.writer)
                              ELSE RetrieveAllFrom(b)

\* The bytes that peekInt64(), peekInt32(), ... and retrieveAsString() look at
Peek(b, len) == SubSeq(Content(b), 1, len)

\* prepend()
PrependTo(b, data) ==
    LET r == b.reader - Len(data) IN BufferOf(b.size, CopyTo(b, r, data), r, b.writer)

\* unwrite(len)
UnwriteFrom(b, len) == BufferOf(b.size, b.bytes, b.reader, b.writer - len)

\* shrink(reserve): a new Buffer takes the content
Shrunk(b, reserve) ==
    AppendTo(EnsureWritableBytes(NewBuffer(kInitialSize), ReadableBytes(b) + reserve), Content(b))

\* Mutants: what went into the vector is appended once more with the rest; the
\* writer index moves by n also where n is more than was writable.
Overflow_All(b, data) == data
FitsIn_Always(b, data) == TRUE

\* readFd(): readv() fills what is writable and then extrabuf
Room(b) == WritableBytes(b) + (IF WritableBytes(b) < kExtra THEN kExtra ELSE 0)
FitsIn(b, data) == Len(data) <= WritableBytes(b)
Overflow(b, data) == SubSeq(data, WritableBytes(b) + 1, Len(data))
ReadInto(b, data) ==
    IF FitsIn(b, data) THEN Filled(b, data)
    ELSE AppendTo(Filled(b, SubSeq(data, 1, WritableBytes(b))), Overflow(b, data))
ReadAsserts(b, data) ==
    \/ FitsIn(b, data)
    \/ SpaceAsserts(Filled(b, SubSeq(data, 1, WritableBytes(b))), Len(Overflow(b, data)))

-----------------------------------------------------------------------------
(* One Buffer and the program that uses it.  The length a caller passes     *)
(* respects the assertion at the head of the call.                          *)

VARIABLES buf,
          call,      \* history: the last call with the bytes given to it or returned
          failed     \* an assertion inside the Buffer has failed

bufferVars == <<buf, call, failed>>

Data == UNION {[1..n -> Byte] : n \in 0..MaxLen}

BufferInit ==
    /\ buf = NewBuffer(kInitialSize)
    /\ call = <<"new", <<>>>>
    /\ failed = FALSE

AppendBytes(data) ==
    /\ buf' = AppendTo(buf, data)
    /\ call' = <<"append", data>>
    /\ failed' = ~SpaceAsserts(buf, Len(data))

\* the caller writes at beginWrite() and calls hasWritten()
HasWritten(data) ==
    /\ Len(data) <= WritableBytes(buf)
    /\ buf' = Filled(buf, data)
    /\ call' = <<"append", data>>
    /\ UNCHANGED failed

\* retrieve(), retrieveUntil(), retrieveAll(), retrieveAsString()
Retrieve(len) ==
    /\ len <= ReadableBytes(buf)
    /\ buf' = RetrieveFrom(buf, len)
    /\ call' = <<"retrieve", Peek(buf, len)>>
    /\ UNCHANGED failed

\* readInt64(), readInt32(), readInt16(), readInt8(): peek and retrieve
ReadInt(len) == len \in {1, 2, 4, 8} /\ Retrieve(len)

Prepend(data) ==
    /\ Len(data) <= PrependableBytes(buf)
    /\ buf' = PrependTo(buf, data)
    /\ call' = <<"prepend", data>>
    /\ UNCHANGED failed

Unwrite(len) ==
    /\ len <= ReadableBytes(buf)
    /\ buf' = UnwriteFrom(buf, len)
    /\ call' = <<"unwrite", <<>>>>
    /\ UNCHANGED failed

EnsureWritable(len) ==
    /\ buf' = EnsureWritableBytes(buf, len)
    /\ call' = <<"other", <<>>>>
    /\ failed' = ~SpaceAsserts(buf, len)

Shrink(reserve) ==
    /\ buf' = Shrunk(buf, reserve)
    /\ call' = <<"other", <<>>>>
    /\ failed' = ~SpaceAsserts(NewBuffer(kInitialSize), ReadableBytes(buf) + reserve)

\* readFd(); an error of readv() changes nothing
ReadFd(data) ==
    /\ Len(data) <= Room(buf)
    /\ buf' = ReadInto(buf, data)
    /\ call' = <<"append", data>>
    /\ failed' = ~ReadAsserts(buf, data)

BufferNext ==
    /\ ~failed
    /\ \/ \E data \in Data : \/ AppendBytes(data) \/ HasWritten(data)
                             \/ Prepend(data) \/ ReadFd(data)
       \/ \E len \in 0 .. ReadableBytes(buf) : Retrieve(len) \/ ReadInt(len) \/ Unwrite(len)
       \/ \E len \in 0 .. MaxLen : EnsureWritable(len) \/ Shrink(len)
    /\ buf'.size <= MaxSize

BufferSpec == BufferInit /\ [][BufferNext]_bufferVars

-----------------------------------------------------------------------------
(* Properties.                                                             *)

\* A vector of bytes and two indices in it, in the order the picture above
\* the class gives (Buffer.h:23).
Valid(b) ==
    /\ b.size \in Nat /\ b.reader \in Nat /\ b.writer \in Nat
    /\ b.bytes \in [0 .. b.size - 1 -> Byte]
    /\ b.reader <= b.writer
    /\ b.writer <= b.size
    /\ kCheapPrepend <= b.size

TypeOK == Valid(buf) /\ failed \in BOOLEAN

\* The assertions of makeSpace() and ensureWritableBytes() hold whatever was
\* called before (Buffer.h:192, 400): also after prepend() has moved the
\* reader index below kCheapPrepend.
NoAssertFails == ~failed

\* Whatever moves or grows the storage, the Buffer is a queue of bytes: what
\* retrieve() returns is what came in, in order, nothing lost or repeated.
Queue == INSTANCE ByteQueue WITH content <- Content(buf)
IsByteQueue == Queue!Spec

=============================================================================
