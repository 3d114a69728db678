---------------------------- MODULE AsyncLogging ----------------------------
(***************************************************************************)
(* logging.muduo/AsyncLogging.cpp: threads append lines to a buffer under  *)
(* a mutex, a logging thread takes the buffers away and writes them to a   *)
(* LogFile, and an owner stops it.  The mutex and the condition variable   *)
(* are those of port/port_posix.cpp, where a timed wait that times out     *)
(* aborts the process.                                                     *)
(* A buffer is the sequence of the lines in it, a line its place in said.  *)
(* A BufferPtr is <<>> when it is null and <<b>> when it owns buffer b.    *)
(***************************************************************************)
EXTENDS LogStream, LogFile, FiniteSets

CONSTANTS kLargeBuffer,   \* size of a buffer
          kMaxBuffers,    \* 25: more buffers than this are not written
          Values,         \* Values[i]: what the program may log as its i-th line
          BigLines,       \* lengths of the blocks handed to append() directly
          CheckEveryN,    \* what the memory of checkEveryN_ may hold
          MaxLines,       \* bound: lines logged
          MaxNow          \* bound: seconds

ASSUME LoggingAssumption ==
    /\ {kLargeBuffer, kMaxBuffers, MaxLines, MaxNow} \subseteq Nat
    /\ kLargeBuffer > kSmallBuffer /\ kMaxBuffers >= 2
    /\ \A i \in 1..MaxLines : Values[i] \subseteq Loggable
    /\ BigLines \subseteq Nat /\ CheckEveryN \subseteq Int

VARIABLES
    running_, currentBuffer_, nextBuffer_, buffers_,
    thr,              \* where threadFunc() is
    newBuffer1, newBuffer2, buffersToWrite,
    written,          \* how many of buffersToWrite are in the file
    output,           \* the LogFile
    owner,            \* where the thread that calls start() and stop() is
    said,             \* history: the lines in the order of append(), as they were stored
    dropped,          \* history: the lines of the buffers that were not written
    dead,             \* why the process has ended, if it has
    now               \* seconds

fileVars == <<output, now>>
frontVars == <<currentBuffer_, nextBuffer_, buffers_, said>>
backVars == <<newBuffer1, newBuffer2, buffersToWrite, written, dropped>>
vars == <<running_, thr, owner, dead, fileVars, frontVars, backVars>>

\* The text of a sequence of lines, and of a sequence of buffers.
Text(b) == FlattenSeq([i \in 1..Len(b) |-> said[b[i]].text])
TextOf(bs) == FlattenSeq([i \in 1..Len(bs) |-> Text(bs[i])])

Init ==
    /\ running_ = FALSE
    /\ currentBuffer_ = <<<<>>>> /\ nextBuffer_ = <<<<>>>> /\ buffers_ = <<>>
    /\ thr = "none"
    /\ newBuffer1 = <<>> /\ newBuffer2 = <<>> /\ buffersToWrite = <<>> /\ written = 0
    /\ now = 0
    /\ \E n \in CheckEveryN : output = NewLogFile(now, n)
    /\ owner = "new"
    /\ said = <<>> /\ dropped = {} /\ dead = "no"

AssertThat(holds, newDead) == newDead = IF holds THEN dead ELSE "assert"

-----------------------------------------------------------------------------
(* The front end.                                                          *)

\* cond_.Signal() when the lock is free: a logging thread that is not waiting is not told
Signalled == IF thr = "waiting" THEN "woken" ELSE thr

\* append(msg, len) with the lock held.  A buffer that is written past its end is
\* undefined behaviour: the model ends there.
AppendLine(x, s) ==
    LET id == Len(said) + 1 IN
    /\ currentBuffer_ # <<>>
    /\ said' = Append(said, [val |-> x, text |-> append(kLargeBuffer, <<>>, s)])
    /\ IF available(kLargeBuffer, Text(currentBuffer_[1])) > Len(s)
       THEN /\ currentBuffer_' = <<Append(currentBuffer_[1], id)>>
            /\ UNCHANGED <<buffers_, nextBuffer_, thr>>
       ELSE /\ buffers_' = buffers_ \o currentBuffer_
            /\ currentBuffer_' = <<<<id>>>>     \* in nextBuffer_ or in a new Buffer
            /\ nextBuffer_' = <<>>
            /\ thr' = Signalled
AfterAppendLine ==
    IF Overrun(kLargeBuffer, FlattenSeq([i \in 1..Len(currentBuffer_'[1]) |->
                                 said'[currentBuffer_'[1][i]].text]))
    THEN "undefined" ELSE dead

\* LOG_INFO << x, with setOutput() to a function that calls append()
Log(x) ==
    /\ IF Overrun(kSmallBuffer, Logger(x))
       THEN dead' = "undefined" /\ UNCHANGED <<frontVars, thr>>
       ELSE AppendLine(x, Logger(x)) /\ dead' = AfterAppendLine
    /\ UNCHANGED <<running_, owner, fileVars, backVars>>

\* append() called with a block of any length
LogBlock(n) ==
    /\ Len(said) < MaxLines
    /\ AppendLine([kind |-> "block", val |-> n], [i \in 1..n |-> Letter])
    /\ dead' = AfterAppendLine
    /\ UNCHANGED <<running_, owner, fileVars, backVars>>

\* LOG_FATAL << x: output, g_flush() (which knows nothing of the buffers), abort()
LogFatal ==
    /\ dead' = "fatal"
    /\ UNCHANGED <<running_, thr, owner, fileVars, frontVars, backVars>>

-----------------------------------------------------------------------------
(* The owner.                                                              *)

\* start(): running_ = true; thread_.start();
Start ==
    /\ owner = "new"
    /\ owner' = "started"
    /\ running_' = TRUE
    /\ thr' = "begin"
    /\ UNCHANGED <<dead, fileVars, frontVars, backVars>>

\* stop(), or ~AsyncLogging: running_ = false; without the lock
Stop ==
    /\ owner = "started"
    /\ owner' = "signal"
    /\ running_' = FALSE
    /\ UNCHANGED <<thr, dead, fileVars, frontVars, backVars>>
\* cond_.Signal();
StopSignal ==
    /\ owner = "signal"
    /\ owner' = "join"
    /\ thr' = Signalled
    /\ UNCHANGED <<running_, dead, fileVars, frontVars, backVars>>
\* thread_.join();
StopJoin ==
    /\ owner = "join" /\ thr = "done"
    /\ owner' = "stopped"
    /\ UNCHANGED <<running_, thr, dead, fileVars, frontVars, backVars>>

-----------------------------------------------------------------------------
(* The logging thread: threadFunc().                                       *)

\* assert(running_ = true) assigns.  LogFile output(...); two buffers
ThreadBegin ==
    /\ thr = "begin"
    /\ running_' = TRUE
    /\ output' = NewLogFile(now, output.checkEveryN_)
    /\ newBuffer1' = <<<<>>>> /\ newBuffer2' = <<<<>>>>
    /\ thr' = "test"
    /\ UNCHANGED <<owner, dead, now, frontVars, buffersToWrite, written, dropped>>

\* while (running_ == true)
ThreadTest ==
    /\ thr = "test"
    /\ thr' = IF running_ THEN "lock" ELSE "leave"
    /\ UNCHANGED <<running_, owner, dead, fileVars, frontVars, backVars>>

\* Lines 74-82, with the lock held.
Swap ==
    /\ buffersToWrite' = buffers_ \o currentBuffer_
    /\ currentBuffer_' = newBuffer1
    /\ newBuffer1' = <<>>
    /\ buffers_' = <<>>
    /\ nextBuffer_' = IF nextBuffer_ = <<>> THEN newBuffer2 ELSE nextBuffer_
    /\ newBuffer2' = IF nextBuffer_ = <<>> THEN <<>> ELSE newBuffer2

\* The assertions of lines 58-60, the lock, and cond_.waitForSeconds() or the swap
ThreadLock ==
    /\ thr = "lock"
    /\ AssertThat(newBuffer1 = <<<<>>>> /\ newBuffer2 = <<<<>>>> /\ buffersToWrite = <<>>, dead')
    /\ IF buffers_ = <<>>
       THEN thr' = "waiting" /\ UNCHANGED <<frontVars, backVars>>
       ELSE thr' = "drop" /\ Swap /\ UNCHANGED <<said, written, dropped>>
    /\ UNCHANGED <<running_, owner, fileVars>>

\* The wait returns, signalled or for no reason.
ThreadWake ==
    /\ thr \in {"waiting", "woken"}
    /\ thr' = "drop"
    /\ Swap
    /\ UNCHANGED <<running_, owner, dead, fileVars, said, written, dropped>>

\* ETIMEDOUT: PthreadCall() takes it for an error and calls abort()
ThreadTimeout ==
    /\ thr = "waiting"
    /\ dead' = "timeout"
    /\ UNCHANGED <<running_, thr, owner, fileVars, frontVars, backVars>>

\* Mutant: one buffer is kept of those that are too many.
ThreadDrop_One ==
    /\ thr = "drop"
    /\ IF Len(buffersToWrite) > kMaxBuffers
       THEN /\ buffersToWrite' = SubSeq(buffersToWrite, 1, 1)
            /\ dropped' = dropped \union
                   UNION {ToSet(buffersToWrite[i]) : i \in 2..Len(buffersToWrite)}
       ELSE UNCHANGED <<buffersToWrite, dropped>>
    /\ AssertThat(buffersToWrite # <<>>, dead')
    /\ thr' = "write"
    /\ UNCHANGED <<running_, owner, fileVars, frontVars, newBuffer1, newBuffer2, written>>

\* if (buffersToWrite.size() > 25) erase(begin() + 2, end())
ThreadDrop ==
    /\ thr = "drop"
    /\ AssertThat(buffersToWrite # <<>>, dead')
    /\ IF Len(buffersToWrite) > kMaxBuffers
       THEN /\ buffersToWrite' = SubSeq(buffersToWrite, 1, 2)
            /\ dropped' = dropped \union
                   UNION {ToSet(buffersToWrite[i]) : i \in 3..Len(buffersToWrite)}
       ELSE UNCHANGED <<buffersToWrite, dropped>>
    /\ thr' = "write"
    /\ UNCHANGED <<running_, owner, fileVars, frontVars, newBuffer1, newBuffer2, written>>

\* output.append() of one buffer
ThreadWrite ==
    /\ thr = "write"
    /\ written < Len(buffersToWrite)
    /\ output' \in LogFileAppend(output, Text(buffersToWrite[written + 1]), now)
    /\ written' = written + 1
    /\ UNCHANGED <<running_, thr, owner, dead, now, frontVars, newBuffer1, newBuffer2,
                   buffersToWrite, dropped>>

\* Lines 97-123: what is written is cut down to two buffers, the missing ones of
\* newBuffer1 and newBuffer2 are taken back from it, and the file is flushed.
ThreadRecycle ==
    /\ thr = "write"
    /\ written = Len(buffersToWrite)
    /\ LET kept  == SubSeq(buffersToWrite, 1, IF written > 2 THEN 2 ELSE written)
           needs == (IF newBuffer1 = <<>> THEN 1 ELSE 0) + (IF newBuffer2 = <<>> THEN 1 ELSE 0)
       IN  AssertThat(Len(kept) >= needs, dead')
    /\ newBuffer1' = <<<<>>>> /\ newBuffer2' = <<<<>>>>
    /\ buffersToWrite' = <<>> /\ written' = 0
    /\ output' = LogFileFlush(output)
    /\ thr' = "test"
    /\ UNCHANGED <<running_, owner, now, frontVars, dropped>>

\* output.flush() and ~LogFile
ThreadLeave ==
    /\ thr = "leave"
    /\ output' = LogFileFlush(output)
    /\ thr' = "done"
    /\ UNCHANGED <<running_, owner, dead, now, frontVars, backVars>>

-----------------------------------------------------------------------------
Tick == now < MaxNow /\ now' = now + 1
        /\ UNCHANGED <<running_, thr, owner, dead, output, frontVars, backVars>>

ThreadStep == ThreadBegin \/ ThreadTest \/ ThreadLock \/ ThreadWake \/ ThreadTimeout
              \/ ThreadDrop \/ ThreadWrite \/ ThreadRecycle \/ ThreadLeave
Next ==
    /\ dead = "no"
    /\ \/ Len(said) < MaxLines /\ \E x \in Values[Len(said) + 1] : Log(x)
       \/ \E n \in BigLines : LogBlock(n)
       \/ LogFatal
       \/ Start \/ Stop \/ StopSignal \/ StopJoin
       \/ ThreadStep \/ Tick
Spec == Init /\ [][Next]_vars

-----------------------------------------------------------------------------
(* Properties.                                                             *)

\* The lines that the logging thread has not taken yet.
Pending == TextOf(buffers_) \o TextOf(currentBuffer_)
Intact == dead = "no" /\ output.faults = 0
\* The lines that are not dropped, up to line n.
KeptText(n) == FlattenSeq([i \in 1..n |-> IF i \in dropped THEN <<>> ELSE said[i].text])

\* The assertions of threadFunc() hold and append() finds a current buffer, however many
\* buffers the front end filled while the logging thread was writing and however many of
\* them were dropped (AsyncLogging.cpp:58-60, 85, 104, 114, 131).
LoggingAssertionsHold == dead # "assert" /\ currentBuffer_ # <<>>

\* Every line is in exactly one place, in the order of append(): in the files, in the
\* FILE, in the buffers being written, or in the buffers of the front end.  Only the
\* buffers dropped in line 89 are missing, and only a failing fwrite() changes this.
\* When the logging thread is back at the test of running_, and when stop() has returned,
\* all it took is on disk: what a crash or the end of the program can lose is what the
\* front end still holds (AsyncLogging.cpp:123-125).
NothingLostOrReordered ==
    LET toWrite == SubSeq(buffersToWrite, written + 1, Len(buffersToWrite)) IN
    Intact =>
        /\ OnDisk(output) \o output.buffer \o TextOf(toWrite) \o Pending = KeptText(Len(said))
        /\ thr \in {"test", "lock", "waiting", "woken", "leave", "done"}
            => output.buffer = <<>> /\ TextOf(toWrite) = <<>>

\* Each logged line reads back as the value that was logged, negative numbers and zero
\* included (LogStream.cpp:12-48).
NumbersReadBack ==
    \A i \in 1..Len(said) :
        said[i].val.kind # "block" =>
            LET s == said[i].text IN
            /\ s[1] = Prologue /\ s[Len(s)] = LineFeed
            /\ Reads(SubSeq(s, 2, Len(s) - 1), said[i].val)
=============================================================================
