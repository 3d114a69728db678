---- MODULE MCTimerQueue ----
EXTENDS TimerQueue, TLC
CONSTANTS a1, a2, loop, t1
MCAddrs == {a1, a2}
MCThreads == {loop, t1}
Symmetry == Permutations(MCAddrs)
====
