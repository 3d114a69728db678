----------------------------- MODULE WireFormat -----------------------------
(***************************************************************************)
(* The part of the protobuf library that the generated classes of          *)
(* protobuf/codec/query.pb.cc call: WireFormatLite and CodedInputStream on *)
(* a sequence of bytes.  The library is not in the repository; this is     *)
(* what its callers rely on, for numbers that are not negative.            *)
(***************************************************************************)
EXTENDS Naturals, Sequences

Varint(v) ==
    LET bytes[n \in Nat] ==
            IF n < 128 THEN <<n>> ELSE <<(n % 128) + 128>> \o bytes[n \div 128]
    IN  bytes[v]

VarintSize(v) == Len(Varint(v))
StringSize(s) == VarintSize(Len(s)) + Len(s)

\* Tags are below 128: one byte, field number * 8 + wire type.
WriteInt(number, v) == <<8 * number>> \o Varint(v)
WriteString(number, s) == <<8 * number + 2>> \o Varint(Len(s)) \o s

\* A read at position i gives what it read, the position after it, and whether
\* the input had all of it.
ReadVarint(s, i) ==
    LET read[j \in Nat] ==
            IF j > Len(s) THEN [val |-> 0, at |-> j, ok |-> FALSE]
            ELSE IF s[j] < 128 THEN [val |-> s[j], at |-> j + 1, ok |-> TRUE]
            ELSE [read[j + 1] EXCEPT !.val = (s[j] - 128) + 128 * @]
    IN  read[i]

ReadBytes(s, i, n) ==
    IF i + n - 1 <= Len(s) THEN [val |-> SubSeq(s, i, i + n - 1), at |-> i + n, ok |-> TRUE]
    ELSE [val |-> <<>>, at |-> i, ok |-> FALSE]

ReadString(s, i) ==
    LET n == ReadVarint(s, i) IN
    IF n.ok THEN ReadBytes(s, n.at, n.val) ELSE [val |-> <<>>, at |-> i, ok |-> FALSE]

\* SkipField(): the bytes of a field the class does not know, tag included;
\* groups are refused.
SkipField(tag, s, i) ==
    LET read == CASE tag % 8 = 0 -> ReadVarint(s, i)
                  [] tag % 8 = 1 -> ReadBytes(s, i, 8)
                  [] tag % 8 = 2 -> ReadString(s, i)
                  [] tag % 8 = 5 -> ReadBytes(s, i, 4)
                  [] OTHER -> [val |-> 0, at |-> i, ok |-> FALSE]
    IN  [val |-> <<tag>> \o SubSeq(s, i, read.at - 1), at |-> read.at, ok |-> read.ok]
=============================================================================
