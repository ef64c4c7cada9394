------------------------------ MODULE MCTypes ------------------------------
EXTENDS Types

CONSTANTS u1, u2

MCUserNames == {u1, u2}
MCUpper == {u1}
MCMaxPasses == 3
MCMaxDefs == 2
====
