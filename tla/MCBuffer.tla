---- MODULE MCBuffer ----
EXTENDS Buffer
====
