---------------------------- MODULE ProtobufCodec ----------------------------
(***************************************************************************)
(* protobuf/codec/codec.{h,cc}: how a message becomes a frame              *)
(*     len | nameLen | typeName | data | checkSum                          *)
(* and what onMessage() makes of the bytes at the front of its buffer.     *)
(* A byte is a number below 256; the type names, "muduo.Query" and so on,  *)
(* are one letter and the terminating zero.                                *)
(***************************************************************************)
EXTENDS QueryMessages

CONSTANT kMaxMessageLen

kHeaderLen == 4
kMinMessageLen == 2 * kHeaderLen + 2

\* appendInt32() of a number below 2^16, and asInt32()
Int32(n) == <<0, 0, n \div 256, n % 256>>
AsInt32(s) ==
    (IF s[1] < 128 THEN s[1] ELSE s[1] - 256) * 16777216 + s[2] * 65536 + s[3] * 256 + s[4]

\* adler32() of zlib, as the four bytes it is sent in
Adler32(s) ==
    LET lo[i \in 0..Len(s)] == IF i = 0 THEN 1 ELSE (lo[i - 1] + s[i]) % 65521
        hi[i \in 0..Len(s)] == IF i = 0 THEN 0 ELSE (hi[i - 1] + lo[i]) % 65521
        n == Len(s)
    IN  <<hi[n] \div 256, hi[n] % 256, lo[n] \div 256, lo[n] % 256>>

TypeName(t) == CASE t = "Query" -> <<81, 0>> [] t = "Answer" -> <<65, 0>> [] t = "Empty" -> <<69, 0>>

\* fillEmptyBuffer()
FillEmptyBuffer(m) ==
    LET name == TypeName(m.type)
        body == Int32(Len(name)) \o name \o Serialize(m)
        checked == body \o Adler32(body)
    IN  Int32(Len(checked)) \o checked

\* The default instances that are registered under the names of their types, and
\* createMessage(): New() of the one with the name (its zero is not compared)
Prototypes == {QueryDefault, AnswerDefault, EmptyDefault}
CreateMessage(name) == {New(p.type) : p \in {q \in Prototypes : Front(TypeName(q.type)) = name}}

\* parse() of the len bytes after the length
Failure(code) == [error |-> code, m |-> New("Empty")]
ParseFrame(buf) ==
    LET len == Len(buf)
        body == SubSeq(buf, 1, len - kHeaderLen)
        nameLen == AsInt32(buf)
        prototypes == CreateMessage(SubSeq(buf, kHeaderLen + 1, kHeaderLen + nameLen - 1))
        data == SubSeq(buf, kHeaderLen + nameLen + 1, len - kHeaderLen)
    IN  IF Adler32(body) # SubSeq(buf, len - kHeaderLen + 1, len) THEN Failure("kCheckSumError")
        ELSE IF ~(nameLen >= 2 /\ nameLen <= len - 2 * kHeaderLen) THEN Failure("kInvalidNameLen")
        ELSE IF prototypes = {} THEN Failure("kUnknownMessageType")
        ELSE CHOOSE f \in {[error |-> IF r.ok THEN "kNoError" ELSE "kParseError", m |-> r.m] :
                            r \in {ParseFromArray(p, data) : p \in prototypes}} : TRUE

Complete(buf, len) == Len(buf) >= len + kHeaderLen

\* Mutant: a frame whose bytes do not add up is taken all the same.
FrameError_NoCheckSum(r) == IF r.error = "kCheckSumError" THEN "kNoError" ELSE r.error

FrameError(r) == r.error

\* One turn of the loop of onMessage(): wait for more bytes, report an error,
\* or hand over a message and drop its frame.
Waits(buf) == [next |-> "wait", error |-> "kNoError", m |-> New("Empty"), rest |-> buf]
Handled(buf, len, r) ==
    IF FrameError(r) = "kNoError"
    THEN [next |-> "message", error |-> "kNoError", m |-> r.m,
          rest |-> SubSeq(buf, kHeaderLen + len + 1, Len(buf))]
    ELSE [Waits(buf) EXCEPT !.next = "error", !.error = r.error]
Decode(buf) ==
    LET len == AsInt32(buf) IN
    IF Len(buf) < kMinMessageLen + kHeaderLen THEN Waits(buf)
    ELSE IF len > kMaxMessageLen \/ len < kMinMessageLen
    THEN [Waits(buf) EXCEPT !.next = "error", !.error = "kInvalidLength"]
    ELSE IF ~Complete(buf, len) THEN Waits(buf)
    ELSE CHOOSE d \in {Handled(buf, len, r) :
                       r \in {ParseFrame(SubSeq(buf, kHeaderLen + 1, kHeaderLen + len))}} : TRUE
=============================================================================
