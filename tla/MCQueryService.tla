--------------------------- MODULE MCQueryService ---------------------------
EXTENDS QueryService

GoodFrame(msg) == [bytes |-> FillEmptyBuffer(msg), m |-> msg, good |-> TRUE]
BadFrame(bytes) == [bytes |-> bytes, m |-> TheEmpty, good |-> FALSE]

\* A frame around a body that fillEmptyBuffer() does not make
Framed(body) == Int32(Len(body) + 4) \o body \o Adler32(body)

Query == GoodFrame(TheQuery)
Empty == GoodFrame(TheEmpty)
BadCheckSum == BadFrame([Query.bytes EXCEPT ![Len(Query.bytes)] = (@ + 1) % 256])
NegativeLength == BadFrame(<<255, 255, 255, 255>> \o SubSeq(Query.bytes, 5, Len(Query.bytes)))
TooLong == BadFrame(Int32(kMaxMessageLen + 1) \o SubSeq(Query.bytes, 5, Len(Query.bytes)))
BadNameLen == BadFrame(Framed(Int32(1) \o <<81, 0>>))
LongNameLen == BadFrame(Framed(Int32(3) \o <<81, 0>>))
UnknownType == BadFrame(Framed(Int32(2) \o <<90, 0>>))
NoId == BadFrame(FillEmptyBuffer([TheQuery EXCEPT !.has = {0}]))
Half == BadFrame(SubSeq(Query.bytes, 1, 10))

MCScripts ==
    {<<f>> : f \in {Query, Empty, BadCheckSum, NegativeLength, TooLong, BadNameLen, LongNameLen,
                    UnknownType, NoId, GoodFrame(TheAnswer)}}
    \cup {<<Query, Query>>, <<Query, Half>>, <<Empty, BadCheckSum, Query>>, <<Empty, NoId, Query>>}
=============================================================================
