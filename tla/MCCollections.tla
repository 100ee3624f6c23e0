---------------------------- MODULE MCCollections ----------------------------
EXTENDS Collections, TLC
CONSTANTS r1, r2, h1, h2, p1, p2
MCDue == 1 :> 0 @@ 2 :> 1
MCDueOne == 1 :> 0
=============================================================================
