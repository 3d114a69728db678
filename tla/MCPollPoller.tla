---- MODULE MCPollPoller ----
EXTENDS PollPoller
CONSTANTS c1, c2, c3, c4
\* c1 and c2 are built on the same descriptor
MCChannels == {c1, c2, c3, c4}
MCFd == [c \in MCChannels |-> CASE c = c3 -> 4 [] c = c4 -> 0 [] OTHER -> 3]
MCCalls == {"enableReading", "enableWriting", "disableAll"}
MCSymmetry == Permutations({c1, c2})
====
