------------------------ MODULE MCDurableObjectRuntime ------------------------
EXTENDS DurableObjectRuntime, TLC

CONSTANTS c1, c2, c3

\* One turn returns several events, one returns none.
TwoNoneOne == c1 :> 2 @@ c2 :> 0 @@ c3 :> 1
=============================================================================
