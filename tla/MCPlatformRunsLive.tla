-------------------------- MODULE MCPlatformRunsLive --------------------------
\* TLC values for PlatformRuns: a run, and a state update or a PATCH, on one host or two.
EXTENDS PlatformRuns, TLC

CONSTANTS h1, h2, i1, i2

TwoHosts == h1 :> i1 @@ h2 :> i2
OneHost == h1 :> i1 @@ h2 :> i1

RunBesideUpdate == h1 :> {"wait"} @@ h2 :> {"state", "patch"}

Symmetry == Permutations(Tokens) \cup Permutations(Assistants)
===============================================================================
