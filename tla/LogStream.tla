------------------------------ MODULE LogStream ------------------------------
(***************************************************************************)
(* common/FixedBuffer.h, logging.muduo/LogStream.{h,cpp} and the line that *)
(* a Logger of logging.muduo/Logging.{h,cpp} puts together.  A text is a   *)
(* sequence of characters, which are numbers: 0..15 stand for the digits.  *)
(* What surrounds the logged value (time, thread, level; file, line and    *)
(* line feed) is one character before and one after it.                    *)
(***************************************************************************)
EXTENDS Integers, Sequences, SequencesExt

CONSTANTS kSmallBuffer,     \* size of the buffer of a LogStream
          kMaxNumericSize   \* room a number may take

ASSUME StreamAssumption == kSmallBuffer \in Nat /\ kMaxNumericSize \in 1..kSmallBuffer

Minus == 16
Hex0x == 17
Prologue == 18
LineFeed == 19
Letter == 20

-----------------------------------------------------------------------------
(* FixedBuffer<SIZE>, known by what was written into it.  Nothing keeps    *)
(* cur_ below end(): a buffer longer than its SIZE is one that was written *)
(* past its end.                                                           *)

\* static_cast<int>(end() - data_), whatever has been written
available(size, b) == size
\* append(buf, len): cut at available()
append(size, b, s) ==
    b \o SubSeq(s, 1, IF Len(s) > available(size, b) THEN available(size, b) ELSE Len(s))
Overrun(size, b) == Len(b) > size

-----------------------------------------------------------------------------
(* Numbers.                                                                *)

\* / and % of C++: towards zero, the remainder has the sign of the dividend
Quotient(i, d) == IF i < 0 THEN -((-i) \div d) ELSE i \div d
Remainder(i, d) == i - d * Quotient(i, d)

\* Mutant: the digits of a table that starts at zero.
zero_Positive(lsd) == IF lsd < 0 THEN 10 + lsd ELSE lsd

\* digits[] = "9876543210123456789" and zero = digits + 9
zero(lsd) == <<9, 8, 7, 6, 5, 4, 3, 2, 1, 0, 1, 2, 3, 4, 5, 6, 7, 8, 9>>[10 + lsd]

\* do { lsd = i % base; i /= base; *p++ = digit[lsd]; } while (i != 0)
digit(lsd, base) == IF base = 10 THEN zero(lsd) ELSE lsd
Digits(value, base) ==
    LET digits[i \in Int] ==
            <<digit(Remainder(i, base), base)>>
            \o (IF Quotient(i, base) # 0 THEN digits[Quotient(i, base)] ELSE <<>>)
    IN  digits[value]

\* convert(): the digits from the last to the first, the sign, all reversed
convert(value) == Reverse(Digits(value, 10) \o (IF value < 0 THEN <<Minus>> ELSE <<>>))
convertHex(value) == Reverse(Digits(value, 16))

-----------------------------------------------------------------------------
(* operator<< for each kind of value, and the whole of a log statement.    *)

\* formatInteger(): written at current() and then add(len), not append()
formatInteger(b, v) ==
    IF available(kSmallBuffer, b) >= kMaxNumericSize THEN b \o convert(v) ELSE b
PutPointer(b, v) ==
    IF available(kSmallBuffer, b) >= kMaxNumericSize THEN b \o <<Hex0x>> \o convertHex(v) ELSE b
\* operator<<(int): snprintf("%d")
PutInt(b, v) ==
    IF available(kSmallBuffer, b) >= kMaxNumericSize THEN b \o convert(v) ELSE b
PutChars(b, s) == append(kSmallBuffer, b, s)
Put(b, x) ==
    CASE x.kind = "long"    -> formatInteger(b, x.val)
      [] x.kind = "int"     -> PutInt(b, x.val)
      [] x.kind = "pointer" -> PutPointer(b, x.val)
      [] x.kind = "chars"   -> PutChars(b, [i \in 1..x.val |-> Letter])

\* What a program may log.
Loggable == [kind : {"long", "int"}, val : Int] \union [kind : {"pointer", "chars"}, val : Nat]

\* Logger::Logger, the << of the statement, and the first line of ~Logger
Logger(x) == PutChars(Put(PutChars(<<>>, <<Prologue>>), x), <<LineFeed>>)

-----------------------------------------------------------------------------
(* What a reader of the log takes a text for.                              *)

Value(ds, base) ==
    LET upTo[i \in 0..Len(ds)] == IF i = 0 THEN 0 ELSE base * upTo[i - 1] + ds[i]
    IN  upTo[Len(ds)]
NoLeadingZero(ds, base) ==
    /\ ds # <<>> /\ \A i \in 1..Len(ds) : ds[i] \in 0..(base - 1)
    /\ Len(ds) > 1 => ds[1] # 0
Reads(s, x) ==
    CASE x.kind \in {"long", "int"} ->
            LET neg == s # <<>> /\ s[1] = Minus
                ds  == IF neg THEN Tail(s) ELSE s
            IN  /\ NoLeadingZero(ds, 10)
                /\ x.val = IF neg THEN -Value(ds, 10) ELSE Value(ds, 10)
      [] x.kind = "pointer" ->
            /\ s # <<>> /\ s[1] = Hex0x
            /\ NoLeadingZero(Tail(s), 16) /\ x.val = Value(Tail(s), 16)
      [] x.kind = "chars" -> Len(s) = x.val
=============================================================================
