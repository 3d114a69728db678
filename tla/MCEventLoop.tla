---- MODULE MCEventLoop ----
EXTENDS EventLoop
CONSTANTS l, o1, o2, f1, f2, c1

MCOthers == {o1, o2}
MCFunctors == {f1, f2}
MCChannels == {c1}
====
