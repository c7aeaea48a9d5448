------------------------- MODULE MCEnhancedNetwork --------------------------
(* Instances of EnhancedNetwork for TLC.                                   *)
EXTENDS EnhancedNetwork, TLC

CONSTANTS h1, h2, r1, r2

MCHandles == {h1, h2}
TwoRequests == {r1, r2}
=============================================================================
