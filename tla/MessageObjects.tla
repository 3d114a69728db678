--------------------------- MODULE MessageObjects ---------------------------
(***************************************************************************)
(* Two objects of one class of protobuf/codec/query.pb.{h,cc}: they are    *)
(* used through their accessors, merged, copied, swapped and parsed from   *)
(* bytes, and every message that these operations can produce is checked   *)
(* against what serialization promises.                                    *)
(***************************************************************************)
EXTENDS QueryMessages

CONSTANTS Ids,         \* values given to id
          Texts,       \* values given to string fields
          Inputs,      \* byte sequences given to ParseFromArray()
          MaxItems,    \* bound: strings in items
          MaxUnknown   \* bound: fields in unknown

ASSUME InputsAssumption == Inputs \subseteq Seq(Nat)

-----------------------------------------------------------------------------
(* Accessors: what one call can make of the message m.                     *)

IdCalls(m) == {[SetHas(m, "id") EXCEPT !.id = v] : v \in Ids} \cup {[ClearHas(m, "id") EXCEPT !.id = 0]}

\* ClearToEmptyNoArena() leaves the shared empty string alone.
Emptied(str) == IF str.own THEN Own(<<>>) ELSE Default

\* Mutant: the string is taken away and the field still counts as set.
ReleaseString_KeepBit(m, f) == [m EXCEPT ![f] = Default]

\* release_f() and set_allocated_f(NULL)
ReleaseString(m, f) == [ClearHas(m, f) EXCEPT ![f] = Default]

StringCalls(m, f) ==
    {[SetHas(m, f) EXCEPT ![f] = Own(s)] : s \in Texts}
    \cup {[ClearHas(m, f) EXCEPT ![f] = Emptied(@)], ReleaseString(m, f)}

ItemCalls(m) ==
    {[m EXCEPT !.items = Append(@, s)] : s \in Texts}
    \cup {[m EXCEPT !.items[i] = s] : i \in DOMAIN m.items, s \in Texts}
    \cup {[m EXCEPT !.items = <<>>]}

QueryIdCalls(m) == IdCalls(m)
QueryQuestionerCalls(m) == StringCalls(m, "questioner")
QueryQuestionCalls(m) == ItemCalls(m)
AnswerIdCalls(m) == IdCalls(m)
AnswerQuestionerCalls(m) == StringCalls(m, "questioner")
AnswerAnswererCalls(m) == StringCalls(m, "answerer")
AnswerSolutionCalls(m) == ItemCalls(m)
EmptyIdCalls(m) == IdCalls(m)

Calls(m) ==
    CASE m.type = "Query" -> QueryIdCalls(m) \cup QueryQuestionerCalls(m) \cup QueryQuestionCalls(m)
      [] m.type = "Answer" -> AnswerIdCalls(m) \cup AnswerQuestionerCalls(m)
                              \cup AnswerAnswererCalls(m) \cup AnswerSolutionCalls(m)
      [] m.type = "Empty" -> EmptyIdCalls(m)

-----------------------------------------------------------------------------
(* Two objects of one class.                                               *)

VARIABLES msg, other
objects == <<msg, other>>

ObjectsInit == \E t \in Types : msg = New(t) /\ other = New(t)

Bounded(m) == Len(m.items) <= MaxItems /\ Len(m.unknown) <= MaxUnknown

Call == \E m \in Calls(msg) : msg' = m /\ other' = other
ClearMsg == msg' = Clear(msg) /\ other' = other
Merge == msg' = MergeFrom(msg, other) /\ other' = other
CopyMsg == msg' = CopyFrom(msg, other) /\ other' = other
CopyConstruct == other' = Copy(msg) /\ msg' = msg
Swap == msg' = Swapped(msg, other) /\ other' = Swapped(other, msg)
MoveConstruct == LET moved == Moved(New(msg.type), msg) IN other' = moved[1] /\ msg' = moved[2]
MoveAssign == LET moved == Moved(msg, other) IN msg' = moved[1] /\ other' = moved[2]
Parse == \E s \in Inputs : msg' = ParseFromArray(msg, s).m /\ other' = other

ObjectsNext ==
    /\ Call \/ ClearMsg \/ Merge \/ CopyMsg \/ CopyConstruct \/ Swap
       \/ MoveConstruct \/ MoveAssign \/ Parse
    /\ Bounded(msg') /\ Bounded(other')

ObjectsSpec == ObjectsInit /\ [][ObjectsNext]_objects

-----------------------------------------------------------------------------
(* Properties.                                                             *)

StringFields(m) == {f \in DOMAIN Fields(m.type) : Fields(m.type)[f] = "string"}

\* A field whose bit is clear shows its default; one whose bit is set has a
\* string of its own, as the GOOGLE_DCHECK of Clear() demands: no sequence of
\* calls, and no failed parse, leaves the two apart.
BitsMatchFields ==
    \A m \in {msg, other} :
        /\ ~Has(m, "id") => m.id = 0
        /\ \A f \in StringFields(m) : IF Has(m, f) THEN m[f].own ELSE m[f].s = <<>>

\* Parsing what was serialized, to an array or to a stream, gives the message
\* back, into an object in any state, the fields its class does not know included;
\* ByteSizeLong(), on its fast and on its slow path, is the number of bytes
\* written, on which fillEmptyBuffer() of the codec depends; and parsing the bytes
\* of two messages one after the other is MergeFrom().
RoundTrip ==
    LET both == ParsePartial(New(msg.type), Serialize(msg) \o Serialize(other)) IN
    /\ \A s \in {Serialize(msg), Streamed(msg)} :
          LET r == ParsePartial(other, s) IN
          r.ok /\ View(r.m) = View(msg) /\ ByteSize(msg) = Len(s)
    /\ both.ok /\ View(both.m) = View(MergeFrom(msg, other))
=============================================================================
