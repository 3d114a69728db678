---- MODULE MCIdleConnections ----
EXTENDS IdleConnections
CONSTANTS c1, c2
MCConns == {c1, c2}
====
