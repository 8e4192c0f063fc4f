------------------------------ MODULE MCAltBit ------------------------------
EXTENDS AltBit

Pair == [p \in Peers |-> Peers \ {p}]

Never == {FALSE}
Maybe == BOOLEAN
=============================================================================
