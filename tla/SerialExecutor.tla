--------------------------- MODULE SerialExecutor ---------------------------
(***************************************************************************)
(* What EventLoop::queueInLoop promises its callers, without threads,      *)
(* vectors or wakeups: functors are accepted one at a time and run one at  *)
(* a time, in the order they were accepted, each of them once.             *)
(***************************************************************************)
EXTENDS Naturals, Sequences

CONSTANT Functors

VARIABLES accepted, done

executorVars == <<accepted, done>>

Init == accepted = <<>> /\ done = <<>>

Accept(f) ==
    /\ accepted' = Append(accepted, f)
    /\ UNCHANGED done

Run ==
    /\ Len(done) < Len(accepted)
    /\ done' = Append(done, accepted[Len(done) + 1])
    /\ UNCHANGED accepted

Next == Run \/ \E f \in Functors : Accept(f)

Spec == Init /\ [][Next]_executorVars

=============================================================================
