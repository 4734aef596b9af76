-------------------------- MODULE MCInMemoryJobQueue --------------------------
EXTENDS InMemoryJobQueue, TLC

CONSTANTS a, b

\* The counter's first id is one that callers use too.
OneCounted == <<a>>
NoneCounted == <<>>
=============================================================================
