---------------------------- MODULE MCRedisRuntime ----------------------------
EXTENDS RedisRuntime, TLC

CONSTANTS c1, c2

OneEach == [c \in Calls |-> 1]
TwoOne == c1 :> 2 @@ c2 :> 1
=============================================================================
