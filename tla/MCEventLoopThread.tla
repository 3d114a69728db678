---- MODULE MCEventLoopThread ----
EXTENDS EventLoopThread
CONSTANTS l, o, f1, f2, c1
MCOthers == {o}
MCFunctors == {f1, f2}
MCChannels == {c1}
====
