--------------------------- MODULE MCDialOutServer ---------------------------
EXTENDS DialOutServer
CONSTANTS c1, c2, a1

OneAddr == [c \in Calls |-> a1]
=============================================================================
