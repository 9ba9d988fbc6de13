----------------------------- MODULE MCSessions -----------------------------
EXTENDS SessionsRefinement, TLC

\* Tokens, requests and devices are interchangeable.
Symmetry == Permutations(Token) \cup Permutations(Request) \cup Permutations(Device)
=============================================================================
