---------------------------- MODULE QueryMessages ----------------------------
(***************************************************************************)
(* protobuf/codec/query.pb.{h,cc}: the classes Query, Answer and Empty.    *)
(* A message is a record: the bits of _has_bits_[0], the fields, the bytes *)
(* of the fields it does not know.  A string field is a pointer to the     *)
(* shared empty string (own = FALSE) or to a string of its own.  items is  *)
(* question_ of a Query and solution_ of an Answer.                        *)
(***************************************************************************)
EXTENDS WireFormat, SequencesExt

Types == {"Query", "Answer", "Empty"}

\* The fields the classes declare, with their kinds
QueryFields == [id |-> "int64", questioner |-> "string", items |-> "strings"]
AnswerFields == [id |-> "int64", questioner |-> "string", answerer |-> "string", items |-> "strings"]
EmptyFields == [id |-> "int32"]
Fields(t) == [Query |-> QueryFields, Answer |-> AnswerFields, Empty |-> EmptyFields][t]

Default == [own |-> FALSE, s |-> <<>>]
Own(s) == [own |-> TRUE, s |-> s]

\* The constructors; a member that its class does not declare stays as it is here.
Constructed(t) == [type |-> t, has |-> {}, id |-> 0, questioner |-> Default, answerer |-> Default,
                   items |-> <<>>, unknown |-> <<>>]
QueryConstructed == Constructed("Query")
AnswerConstructed == Constructed("Answer")
EmptyConstructed == Constructed("Empty")

\* The default instances, built once by InitDefaults...(); New() of one of them
\* makes a message like it.
QueryDefault == QueryConstructed
AnswerDefault == AnswerConstructed
EmptyDefault == EmptyConstructed
QueryNew == QueryConstructed
AnswerNew == AnswerConstructed
EmptyNew == EmptyConstructed
New(t) == CASE t = "Query" -> QueryNew [] t = "Answer" -> AnswerNew [] t = "Empty" -> EmptyNew

\* The bit of a field in _has_bits_[0], as TableStruct::offsets has it.
Bit(m, f) == CASE m.type = "Query" -> [questioner |-> 0, id |-> 1][f]
               [] m.type = "Answer" -> [questioner |-> 0, answerer |-> 1, id |-> 2][f]
               [] m.type = "Empty" -> [id |-> 0][f]
Has(m, f) == Bit(m, f) \in m.has
SetHas(m, f) == [m EXCEPT !.has = @ \cup {Bit(m, f)}]
ClearHas(m, f) == [m EXCEPT !.has = @ \ {Bit(m, f)}]

-----------------------------------------------------------------------------
(* Clear(), MergeFrom(), CopyFrom(), the copy constructors.                *)

ClearString(m, f) == IF Has(m, f) THEN [m EXCEPT ![f] = Own(<<>>)] ELSE m
Reset(m) == [m EXCEPT !.items = <<>>, !.id = 0, !.has = {}, !.unknown = <<>>]

QueryClear(m) == Reset(ClearString(m, "questioner"))
AnswerClear(m) == Reset(ClearString(ClearString(m, "questioner"), "answerer"))
EmptyClear(m) == Reset(m)
Clear(m) == CASE m.type = "Query" -> QueryClear(m)
              [] m.type = "Answer" -> AnswerClear(m)
              [] m.type = "Empty" -> EmptyClear(m)

MergeString(m, from, f) == IF Has(from, f) THEN [SetHas(m, f) EXCEPT ![f] = Own(from[f].s)] ELSE m
MergeId(m, from) == IF Has(from, "id") THEN [SetHas(m, "id") EXCEPT !.id = from.id] ELSE m
MergeLists(m, from) == [m EXCEPT !.items = @ \o from.items, !.unknown = @ \o from.unknown]

QueryMergeFrom(m, from) == MergeLists(MergeId(MergeString(m, from, "questioner"), from), from)

AnswerMergeFrom(m, from) ==
    MergeLists(MergeId(MergeString(MergeString(m, from, "questioner"), from, "answerer"), from), from)
EmptyMergeFrom(m, from) == MergeLists(MergeId(m, from), from)
MergeFrom(m, from) == CASE m.type = "Query" -> QueryMergeFrom(m, from)
                        [] m.type = "Answer" -> AnswerMergeFrom(m, from)
                        [] m.type = "Empty" -> EmptyMergeFrom(m, from)

QueryCopyFrom(m, from) == QueryMergeFrom(QueryClear(m), from)
AnswerCopyFrom(m, from) == AnswerMergeFrom(AnswerClear(m), from)
EmptyCopyFrom(m, from) == EmptyMergeFrom(EmptyClear(m), from)
CopyFrom(m, from) == CASE m.type = "Query" -> QueryCopyFrom(m, from)
                       [] m.type = "Answer" -> AnswerCopyFrom(m, from)
                       [] m.type = "Empty" -> EmptyCopyFrom(m, from)

CopyString(from, f) == IF Has(from, f) THEN Own(from[f].s) ELSE Default
QueryCopy(from) == [from EXCEPT !.questioner = CopyString(from, "questioner")]
AnswerCopy(from) == [from EXCEPT !.questioner = CopyString(from, "questioner"),
                                 !.answerer = CopyString(from, "answerer")]
EmptyCopy(from) == from
Copy(from) == CASE from.type = "Query" -> QueryCopy(from)
                [] from.type = "Answer" -> AnswerCopy(from)
                [] from.type = "Empty" -> EmptyCopy(from)

\* InternalSwap() exchanges the members one by one.
Exchanged(x, y, members) == [f \in DOMAIN x |-> IF f \in members THEN y[f] ELSE x[f]]
QuerySwap(x, y) == Exchanged(x, y, {"items", "questioner", "id", "has", "unknown"})
AnswerSwap(x, y) == Exchanged(x, y, {"items", "questioner", "answerer", "id", "has", "unknown"})
EmptySwap(x, y) == Exchanged(x, y, {"id", "has", "unknown"})

\* What x is after Swap() with y, and y after Swap() with x
Swapped(x, y) == CASE x.type = "Query" -> QuerySwap(x, y)
                   [] x.type = "Answer" -> AnswerSwap(x, y)
                   [] x.type = "Empty" -> EmptySwap(x, y)

\* The move constructors and move assignments: a message is swapped with the
\* new or the old one (there is no arena).  What to and from become:
QueryMoved(to, from) == <<QuerySwap(to, from), QuerySwap(from, to)>>
AnswerMoved(to, from) == <<AnswerSwap(to, from), AnswerSwap(from, to)>>
EmptyMoved(to, from) == <<EmptySwap(to, from), EmptySwap(from, to)>>
Moved(to, from) == CASE from.type = "Query" -> QueryMoved(to, from)
                     [] from.type = "Answer" -> AnswerMoved(to, from)
                     [] from.type = "Empty" -> EmptyMoved(to, from)

-----------------------------------------------------------------------------
(* Serialization.                                                          *)

IdField(m) == IF Has(m, "id") THEN WriteInt(1, m.id) ELSE <<>>
StringField(m, f, number) == IF Has(m, f) THEN WriteString(number, m[f].s) ELSE <<>>
ItemFields(m, number) == FlattenSeq([i \in DOMAIN m.items |-> WriteString(number, m.items[i])])
UnknownFields(m) == FlattenSeq(m.unknown)

\* Mutant: the fields a Query does not know are lost.
QuerySerialize_NoUnknown(m) == IdField(m) \o StringField(m, "questioner", 2) \o ItemFields(m, 3)

\* SerializeWithCachedSizesToArray()
QuerySerialize(m) == IdField(m) \o StringField(m, "questioner", 2) \o ItemFields(m, 3) \o UnknownFields(m)
AnswerSerialize(m) == IdField(m) \o StringField(m, "questioner", 2) \o StringField(m, "answerer", 3)
                      \o ItemFields(m, 4) \o UnknownFields(m)
EmptySerialize(m) == IdField(m) \o UnknownFields(m)
Serialize(m) == CASE m.type = "Query" -> QuerySerialize(m)
                  [] m.type = "Answer" -> AnswerSerialize(m)
                  [] m.type = "Empty" -> EmptySerialize(m)

\* SerializeWithCachedSizes(): the pieces written to a CodedOutputStream
QueryWrites(m) == <<IdField(m), StringField(m, "questioner", 2), ItemFields(m, 3), UnknownFields(m)>>
AnswerWrites(m) == <<IdField(m), StringField(m, "questioner", 2), StringField(m, "answerer", 3),
                     ItemFields(m, 4), UnknownFields(m)>>
EmptyWrites(m) == <<IdField(m), UnknownFields(m)>>
Streamed(m) == FlattenSeq(CASE m.type = "Query" -> QueryWrites(m)
                            [] m.type = "Answer" -> AnswerWrites(m)
                            [] m.type = "Empty" -> EmptyWrites(m))

\* ByteSizeLong()
Total(ns) == FoldSeq(+, 0, ns)
IdSize(m) == IF Has(m, "id") THEN 1 + VarintSize(m.id) ELSE 0
TextSize(m, f) == IF Has(m, f) THEN 1 + StringSize(m[f].s) ELSE 0
ItemsSize(m) == Len(m.items) + Total([i \in DOMAIN m.items |-> StringSize(m.items[i])])
UnknownSize(m) == Total([i \in DOMAIN m.unknown |-> Len(m.unknown[i])])

\* RequiredFieldsByteSizeFallback()
QueryRequiredSize(m) == TextSize(m, "questioner") + IdSize(m)
AnswerRequiredSize(m) == TextSize(m, "questioner") + TextSize(m, "answerer") + IdSize(m)

QueryByteSize(m) ==
    UnknownSize(m) + ItemsSize(m) +
    (IF m.has = {0, 1} THEN (1 + StringSize(m.questioner.s)) + (1 + VarintSize(m.id))
     ELSE QueryRequiredSize(m))

AnswerByteSize(m) ==
    UnknownSize(m) + ItemsSize(m) +
    (IF m.has = {0, 1, 2}
     THEN (1 + StringSize(m.questioner.s)) + (1 + StringSize(m.answerer.s)) + (1 + VarintSize(m.id))
     ELSE AnswerRequiredSize(m))
EmptyByteSize(m) == UnknownSize(m) + IdSize(m)
ByteSize(m) == CASE m.type = "Query" -> QueryByteSize(m)
                 [] m.type = "Answer" -> AnswerByteSize(m)
                 [] m.type = "Empty" -> EmptyByteSize(m)

QueryIsInitialized(m) == {0, 1} \subseteq m.has
AnswerIsInitialized(m) == {0, 1, 2} \subseteq m.has
EmptyIsInitialized(m) == TRUE
IsInitialized(m) == CASE m.type = "Query" -> QueryIsInitialized(m)
                      [] m.type = "Answer" -> AnswerIsInitialized(m)
                      [] m.type = "Empty" -> EmptyIsInitialized(m)

-----------------------------------------------------------------------------
(* Parsing: one field with the given tag, read from position i of s.       *)

FieldResult(read, parsed, m) == [m |-> IF read.ok THEN parsed ELSE m, at |-> read.at, ok |-> read.ok]
ParseId(m, s, i) == LET r == ReadVarint(s, i) IN FieldResult(r, [SetHas(m, "id") EXCEPT !.id = r.val], SetHas(m, "id"))
ParseString(m, f, s, i) ==
    LET r == ReadString(s, i) IN FieldResult(r, [SetHas(m, f) EXCEPT ![f] = Own(r.val)],
                                                [SetHas(m, f) EXCEPT ![f] = Own(@.s)])
ParseItem(m, s, i) ==
    LET r == ReadString(s, i) IN FieldResult(r, [m EXCEPT !.items = Append(@, r.val)],
                                                [m EXCEPT !.items = Append(@, <<>>)])
ParseUnknown(m, tag, s, i) ==
    LET r == SkipField(tag, s, i) IN FieldResult(r, [m EXCEPT !.unknown = Append(@, r.val)], m)

QueryParseField(m, tag, s, i) ==
    CASE tag = 8 -> ParseId(m, s, i)
      [] tag = 18 -> ParseString(m, "questioner", s, i)
      [] tag = 26 -> ParseItem(m, s, i)
      [] OTHER -> ParseUnknown(m, tag, s, i)

AnswerParseField(m, tag, s, i) ==
    CASE tag = 8 -> ParseId(m, s, i)
      [] tag = 18 -> ParseString(m, "questioner", s, i)
      [] tag = 26 -> ParseString(m, "answerer", s, i)
      [] tag = 34 -> ParseItem(m, s, i)
      [] OTHER -> ParseUnknown(m, tag, s, i)
EmptyParseField(m, tag, s, i) ==
    IF tag = 8 THEN ParseId(m, s, i) ELSE ParseUnknown(m, tag, s, i)

ParseField(m, tag, s, i) ==
    CASE m.type = "Query" -> QueryParseField(m, tag, s, i)
      [] m.type = "Answer" -> AnswerParseField(m, tag, s, i)
      [] m.type = "Empty" -> EmptyParseField(m, tag, s, i)

\* MergePartialFromCodedStream(): one turn of its loop, which ends at the end of
\* the input; a tag that is 0 ends it too, but then ParseFromArray() fails.
ReadField(p, s, tag) ==
    IF ~tag.ok \/ tag.val = 0 THEN [p EXCEPT !.ok = FALSE] ELSE ParseField(p.m, tag.val, s, tag.at)
Turn(p, s) == IF p.ok /\ p.at <= Len(s) THEN ReadField(p, s, ReadVarint(s, p.at)) ELSE p

\* Every turn takes a byte at least, so that there are no more turns than bytes.
\* (The bound variable makes TLC evaluate each turn once.)
MergeFields(m, s) ==
    LET turns[k \in 0..Len(s)] ==
            IF k = 0 THEN [m |-> m, at |-> 1, ok |-> TRUE]
            ELSE CHOOSE r \in {Turn(p, s) : p \in {turns[k - 1]}} : TRUE
    IN  turns[Len(s)]

\* ParseFromArray(): Clear(), then all of the input, then IsInitialized()
ParsePartial(m, s) == MergeFields(Clear(m), s)
ParseFromArray(m, s) ==
    CHOOSE p \in {[m |-> r.m, ok |-> r.ok /\ IsInitialized(r.m)] : r \in {ParsePartial(m, s)}} : TRUE

\* What can be seen of a message: the values, not who owns an empty string.
View(m) == [m EXCEPT !.questioner = @.s, !.answerer = @.s]
=============================================================================
