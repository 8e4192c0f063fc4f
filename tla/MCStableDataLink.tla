-------------------------- MODULE MCStableDataLink --------------------------
EXTENDS StableDataLink

Pair == [p \in Peers |-> Peers \ {p}]

Never == {FALSE}
Maybe == BOOLEAN
=============================================================================
