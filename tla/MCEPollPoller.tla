---- MODULE MCEPollPoller ----
EXTENDS EPollPoller
CONSTANTS c1, c2, c3
\* c1 and c2 are built on the same descriptor
MCChannels == {c1, c2, c3}
MCFd == [c \in MCChannels |-> IF c = c3 THEN 4 ELSE 3]
MCCalls == AllCalls
====
