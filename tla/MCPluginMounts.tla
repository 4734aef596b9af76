----------------------------- MODULE MCPluginMounts -----------------------------
EXTENDS PluginMounts, TLC

CONSTANTS p, q, r, s, t, k, l

\* p and r bind a key of the application, each in place of whoever has it; p and q
\* nest s, q and r nest t.
OwnAndTaken == p :> k @@ q :> l @@ r :> k
NestedIn == p :> {s} @@ q :> {s, t} @@ r :> {t}

\* p and q bind the same key.
SameKey == p :> k @@ q :> k
NestNothing == p :> {} @@ q :> {}
=============================================================================
