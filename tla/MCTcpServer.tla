---- MODULE MCTcpServer ----
EXTENDS TcpServerUse
CONSTANTS c1, c2, base, io1
MCConns == {c1, c2}
MCLoops == {base, io1}
MCPool == <<io1>>
MCUsed == {c1}
====
