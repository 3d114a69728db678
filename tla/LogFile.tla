------------------------------- MODULE LogFile -------------------------------
(***************************************************************************)
(* logging.muduo/LogFile.cpp over common/AppendFile.cpp: a log that goes   *)
(* to a new file when the current one is large or from another period.  A  *)
(* file is named after the second in which it is opened, for appending:    *)
(* two rolls in one second open the same file twice.                       *)
(* The object is a record; an operation that the file system can answer in *)
(* several ways gives the set of records it can leave.                     *)
(***************************************************************************)
EXTENDS Integers, Sequences, SequencesExt

CONSTANTS rollSize_, flushInterval_, kRollPerSeconds_

ASSUME FileAssumption ==
    rollSize_ \in Nat /\ flushInterval_ \in Nat /\ kRollPerSeconds_ \in Nat \ {0}

\* disk: what each file holds, by the second in its name; name and buffer: the
\* open FILE and what it has not written yet; faults: fwrite() calls that failed.
PeriodOf(now) == (now \div kRollPerSeconds_) * kRollPerSeconds_

FlushFile(f) ==
    [f EXCEPT !.disk[f.name] = @ \o f.buffer, !.buffer = <<>>]

\* flush() of the LogFile
LogFileFlush(f) == FlushFile(f)

\* AppendFile::AppendFile: fopen(name, "a+"), writtenBytes_ = the size it finds
OpenFile(f, name) ==
    LET disk == IF name \in DOMAIN f.disk THEN f.disk
                ELSE [n \in DOMAIN f.disk \union {name} |->
                        IF n = name THEN <<>> ELSE f.disk[n]]
    IN  [f EXCEPT !.disk = disk, !.name = name, !.buffer = <<>>,
                  !.writtenBytes_ = Len(disk[name])]

\* Mutant: the old file is closed first and the bytes it still held are lost.
rollFile_Unflushed(f, now) == [OpenFile(f, now) EXCEPT !.startOfPeriod_ = PeriodOf(now)]

\* rollFile(): the new AppendFile is opened, and measured, before reset() flushes and
\* closes the old one.
rollFile(f, now) ==
    LET new == OpenFile(f, now)
    IN  [new EXCEPT !.disk[f.name] = @ \o f.buffer,
                    !.startOfPeriod_ = PeriodOf(now)]

\* LogFile::LogFile.  checkEveryN_ is a parameter that hides the member: the member is
\* never set, and n is what its memory holds.
NewLogFile(now, n) ==
    [disk |-> [second \in {now} |-> <<>>], name |-> now, buffer |-> <<>>, writtenBytes_ |-> 0,
     count_ |-> 0, checkEveryN_ |-> n, startOfPeriod_ |-> PeriodOf(now), lastFlush_ |-> 0,
     faults |-> 0]

\* AppendFile::append: what fwrite() takes stays in the FILE or is passed on.  A short
\* fwrite() is repeated from the start of buf; the loop ends when all of len has been
\* counted, or with an fwrite() that takes nothing.  One call of a run is short, of one
\* byte or of none.
Fwritten(f, s) ==
    LET taken == {s} \union
            (IF f.faults = 1 THEN {} ELSE
                UNION {{SubSeq(s, 1, n), SubSeq(s, 1, n) \o SubSeq(s, 1, Len(s) - n)} :
                           n \in {0, 1} \intersect 0..(Len(s) - 1)})
    IN  {[f EXCEPT !.buffer = @ \o t, !.writtenBytes_ = @ + Len(t),
                   !.faults = IF t = s THEN @ ELSE 1] : t \in taken}
AppendFile(f, s) == LET fs == Fwritten(f, s) IN fs \union {FlushFile(g) : g \in fs}

\* append_unlocked(): roll when the file is large, and after every checkEveryN_ calls
\* see whether a new period has begun or a flush is due
AfterAppend(f, now) ==
    LET due == f.count_ + 1 >= f.checkEveryN_
        g   == [f EXCEPT !.count_ = IF due THEN 0 ELSE @ + 1]
    IN  IF f.writtenBytes_ > rollSize_ THEN rollFile(f, now)
        ELSE IF due /\ PeriodOf(now) # f.startOfPeriod_ THEN rollFile(g, now)
        ELSE IF due /\ now - f.lastFlush_ > flushInterval_
             THEN [FlushFile(g) EXCEPT !.lastFlush_ = now]
        ELSE g
LogFileAppend(f, s, now) == {AfterAppend(g, now) : g \in AppendFile(f, s)}

\* What the files hold, in the order of their names.
OnDisk(f) == FlattenSeq([i \in 1..(1 + f.name) |->
                 IF i - 1 \in DOMAIN f.disk THEN f.disk[i - 1] ELSE <<>>])
=============================================================================
