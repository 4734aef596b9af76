------------------------ MODULE MCEventSourcedRuntime ------------------------
EXTENDS EventSourcedRuntime, TLC

CONSTANTS c1, c2, c3, k1

\* One turn returns several events, one returns none.
TwoNoneOne == c1 :> 2 @@ c2 :> 0 @@ c3 :> 1

\* A bound: only c3 may be given another command than k1, so that a requestId
\* is met again with the same command and with another one.
OneMayDiffer == \A c \in {c1, c2} : command[c] \in {k1, NoCall}
=============================================================================
