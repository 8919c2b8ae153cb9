------------------------------ MODULE MCGround ------------------------------
EXTENDS Ground

\* Ground, with a card that has no PR, and one with a stack of two.
McPrs == [c1 |-> {}, c2 |-> {"p1", "p2"}]
=============================================================================
