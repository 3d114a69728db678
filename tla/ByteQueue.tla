------------------------------ MODULE ByteQueue ------------------------------
(***************************************************************************)
(* What a Buffer promises: a queue of bytes.  Bytes come in at the back, or *)
(* at the front if there is room, and leave from the front; the last ones   *)
(* can be taken back.  Where the bytes are stored does not show.            *)
(***************************************************************************)
EXTENDS Integers, Sequences

CONSTANTS Byte, MaxLen   \* MaxLen: bound on the bytes that come in with one call

VARIABLES content,       \* the bytes between peek() and beginWrite()
          call           \* the last call: its name and the bytes given to it or returned

Bytes(n) == UNION {[1..m -> Byte] : m \in 0..n}

Init ==
    /\ content = <<>>
    /\ call = <<"new", <<>>>>

AppendBytes(data) ==
    /\ call' = <<"append", data>>
    /\ content' = content \o data

Retrieve(n) ==
    /\ call' = <<"retrieve", SubSeq(content, 1, n)>>
    /\ content' = SubSeq(content, n + 1, Len(content))

Prepend(data) ==
    /\ call' = <<"prepend", data>>
    /\ content' = data \o content

Unwrite(n) ==
    /\ call' = <<"unwrite", <<>>>>
    /\ content' = SubSeq(content, 1, Len(content) - n)

Other ==
    /\ call' = <<"other", <<>>>>
    /\ content' = content

Next ==
    \/ \E data \in Bytes(MaxLen) : AppendBytes(data) \/ Prepend(data)
    \/ \E n \in 0..Len(content) : Retrieve(n) \/ Unwrite(n)
    \/ Other

Spec == Init /\ [][Next]_<<content, call>>

=============================================================================
