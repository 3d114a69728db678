---- MODULE MCAsyncLogging ----
EXTENDS AsyncLogging
Minus20 == [kind |-> "long", val |-> -20]
MCValues == <<{Minus20, [kind |-> "int", val |-> 0], [kind |-> "pointer", val |-> 26],
               [kind |-> "chars", val |-> 6]}, {Minus20}, {Minus20}>>
MCBig == {11}
MCCheckEveryN == {0, 2}
====
