----------------------------- MODULE MCAccounts -----------------------------
EXTENDS Accounts, TLC, Naturals, FiniteSets

CONSTANT MaxInFlight    \* bound of the requests and submissions in flight

InFlight ==
    Cardinality({r \in Request : req[r] # Idle}) + Cardinality({s \in Submission : sub[s] # NoSubmission})
Bounded == InFlight' <= MaxInFlight

Symmetry == Permutations(Code) \cup Permutations(Details) \cup Permutations(Doc)
            \cup Permutations(Request) \cup Permutations(Submission)
=============================================================================
