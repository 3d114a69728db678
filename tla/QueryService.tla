---------------------------- MODULE QueryService ----------------------------
(***************************************************************************)
(* protobuf/codec/client.cc and server.cc: a client that sends what its    *)
(* script says when its connection is up, and a server that hands what it  *)
(* decodes to its dispatcher.  The stream gives the bytes of one side to   *)
(* the other in order and in pieces of any size; the connection is the one *)
(* of the muduo library.                                                   *)
(***************************************************************************)
EXTENDS ProtobufCodec

CONSTANT Scripts     \* what a client may send: sequences of [bytes, m, good]

\* What main() of client.cc and onQuery() build, with one letter for each text
TheQuery == [New("Query") EXCEPT !.has = {0, 1}, !.id = 1, !.questioner = Own(<<67>>),
                                 !.items = <<<<82>>>>]
TheEmpty == New("Empty")
TheAnswer == [New("Answer") EXCEPT !.has = {0, 1, 2}, !.id = 1, !.questioner = Own(<<67>>),
                                   !.answerer = Own(<<98>>), !.items = <<<<74>>, <<87>>>>]

VARIABLES
    script,
    inputBuffer_, \* side -> inputBuffer_ of its connection
    state,        \* side -> state_ of its connection
    inMessage,    \* side -> onMessage() is in its loop
    stream,       \* side -> the bytes on their way to it
    fin,          \* side -> it has shut down or closed its end
    delivered,    \* side -> the messages its dispatcher was given
    sent,         \* side -> the messages it has sent
    error         \* side -> the last error of its codec
vars == <<script, inputBuffer_, state, inMessage, stream, fin, delivered, sent, error>>

Sides == {"client", "server"}
Peer(x) == IF x = "client" THEN "server" ELSE "client"
Constant(v) == [x \in Sides |-> v]

Init ==
    /\ script \in Scripts
    /\ inputBuffer_ = Constant(<<>>)
    /\ state = [client |-> "kConnecting", server |-> "kConnected"]
    /\ inMessage = Constant(FALSE)
    /\ stream = Constant(<<>>)
    /\ fin = Constant(FALSE)
    /\ delivered = Constant(<<>>) /\ sent = Constant(<<>>)
    /\ error = Constant("kNoError")

\* onConnection() of the client: codec_.send()
ClientUp ==
    /\ state["client"] = "kConnecting"
    /\ state' = [state EXCEPT !["client"] = "kConnected"]
    /\ stream' = [stream EXCEPT !["server"] = FlattenSeq([i \in DOMAIN script |-> script[i].bytes])]
    /\ UNCHANGED <<script, inputBuffer_, inMessage, fin, delivered, sent, error>>

\* Bytes arrive, and the message callback runs onMessage().
Receive(x, n) ==
    /\ state[x] \in {"kConnected", "kDisconnecting"} /\ ~inMessage[x]
    /\ n \in 1..Len(stream[x])
    /\ inputBuffer_' = [inputBuffer_ EXCEPT ![x] = @ \o SubSeq(stream[x], 1, n)]
    /\ stream' = [stream EXCEPT ![x] = SubSeq(@, n + 1, Len(@))]
    /\ inMessage' = [inMessage EXCEPT ![x] = TRUE]
    /\ UNCHANGED <<script, state, fin, delivered, sent, error>>

\* TcpConnection::shutdown()
Shutdown(x) ==
    IF state[x] = "kConnected"
    THEN state' = [state EXCEPT ![x] = "kDisconnecting"] /\ fin' = [fin EXCEPT ![x] = TRUE]
    ELSE UNCHANGED <<state, fin>>

\* TcpConnection::send() does nothing on a connection that was shut down.
CanSend(x) == state[x] = "kConnected"

\* onQuery(): codec_.send() of the answer, then shutdown()
OnQuery ==
    /\ IF CanSend("server")
       THEN /\ stream' = [stream EXCEPT !["client"] = @ \o FillEmptyBuffer(TheAnswer)]
            /\ sent' = [sent EXCEPT !["server"] = Append(@, TheAnswer)]
       ELSE UNCHANGED <<stream, sent>>
    /\ Shutdown("server")

OnAnswer == Shutdown("server") /\ UNCHANGED <<stream, sent>>
OnUnknownMessage == Shutdown("server") /\ UNCHANGED <<stream, sent>>

\* onAnswer(), onEmpty() and onUnknownMessage() of the client only log.
OnlyLog == UNCHANGED <<state, fin, stream, sent>>

\* registerMessageCallback(), and what the two constructors register
Registered(callbacks, type, callback) == (type :> callback) @@ callbacks
ServerCallbacks == Registered(Registered(<<>>, "Query", "onQuery"), "Answer", "onAnswer")
ClientCallbacks == Registered(Registered(<<>>, "Answer", "onAnswer"), "Empty", "onEmpty")
Callbacks(x) == IF x = "server" THEN ServerCallbacks ELSE ClientCallbacks

\* Mutant: the dispatcher drops what has no callback of its own.
Dispatch_OnlyKnown(x, m) ==
    LET callback == IF m.type \in DOMAIN Callbacks(x) THEN Callbacks(x)[m.type] ELSE "none"
    IN  \/ x = "client" /\ OnlyLog
        \/ x = "server" /\ callback = "onQuery" /\ OnQuery
        \/ x = "server" /\ callback = "onAnswer" /\ OnAnswer
        \/ x = "server" /\ callback = "none" /\ UNCHANGED <<state, fin, stream, sent>>

\* onProtobufMessage(): the callback registered for the type, or the default one
Dispatch(x, m) ==
    LET callback == IF m.type \in DOMAIN Callbacks(x) THEN Callbacks(x)[m.type] ELSE "onUnknownMessage"
    IN  \/ x = "client" /\ OnlyLog
        \/ x = "server" /\ callback = "onQuery" /\ OnQuery
        \/ x = "server" /\ callback = "onAnswer" /\ OnAnswer
        \/ x = "server" /\ callback = "onUnknownMessage" /\ OnUnknownMessage

\* A turn of the loop of onMessage() that hands over a message
OnMessage(x) ==
    \E d \in {Decode(inputBuffer_[x])} :
    /\ inMessage[x] /\ d.next = "message"
    /\ Dispatch(x, d.m)
    /\ delivered' = [delivered EXCEPT ![x] = Append(@, d.m)]
    /\ inputBuffer_' = [inputBuffer_ EXCEPT ![x] = d.rest]
    /\ UNCHANGED <<script, inMessage, error>>

\* The last turn, on an error: defaultErrorCallback()
OnError(x) ==
    \E d \in {Decode(inputBuffer_[x])} :
    /\ inMessage[x] /\ d.next = "error"
    /\ error' = [error EXCEPT ![x] = d.error]
    /\ Shutdown(x)
    /\ inMessage' = [inMessage EXCEPT ![x] = FALSE]
    /\ UNCHANGED <<script, inputBuffer_, stream, delivered, sent>>

\* The last turn, on an incomplete frame
OnIncomplete(x) ==
    /\ inMessage[x] /\ Decode(inputBuffer_[x]).next = "wait"
    /\ inMessage' = [inMessage EXCEPT ![x] = FALSE]
    /\ UNCHANGED <<script, inputBuffer_, state, stream, fin, delivered, sent, error>>

\* The end of the peer's data: handleClose(), and the loop of the client quits.
Close(x) ==
    /\ state[x] \in {"kConnected", "kDisconnecting"} /\ ~inMessage[x]
    /\ fin[Peer(x)] /\ stream[x] = <<>>
    /\ state' = [state EXCEPT ![x] = "kDisconnected"]
    /\ fin' = [fin EXCEPT ![x] = TRUE]
    /\ UNCHANGED <<script, inputBuffer_, inMessage, stream, delivered, sent, error>>

Step(x) ==
    \/ \E n \in 1..Len(stream[x]) : Receive(x, n)
    \/ OnMessage(x) \/ OnError(x) \/ OnIncomplete(x) \/ Close(x)
Next == ClientUp \/ \E x \in Sides : Step(x)

\* Bytes in the stream arrive and handlers run on: every step uses some of them
\* up, so that it is enough that some step is taken.
Spec == Init /\ [][Next]_vars /\ WF_vars(Next)

-----------------------------------------------------------------------------
(* Properties.                                                             *)

\* The messages of the frames before the first one that is not good
BadFrames == {i \in DOMAIN script : ~script[i].good}
Meant == [i \in {j \in DOMAIN script : \A k \in BadFrames : j < k} |-> View(script[i].m)]
Seen(ms) == [i \in DOMAIN ms |-> View(ms[i])]

\* However the bytes are cut, each side is given the messages the other sent, in
\* their order and once each, and nothing from the first bad frame on: one with
\* a wrong length, checksum or name, of an unknown type, or without a required
\* field.
DeliveredAsSent ==
    /\ IsPrefix(Seen(delivered["server"]), Meant)
    /\ IsPrefix(Seen(delivered["client"]), Seen(sent["server"]))

\* Every client that sends a whole frame, good or bad, gets its connection
\* closed, and quits; a query has been answered by then.
ClientEnds ==
    (script[1].bytes # <<>>) ~>
        /\ state = Constant("kDisconnected")
        /\ script[1].good /\ script[1].m.type = "Query" => Len(delivered["client"]) = 1
=============================================================================
