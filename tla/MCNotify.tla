------------------------------ MODULE MCNotify ------------------------------
EXTENDS Notify, TLC

Symmetry == Permutations(Phone) \cup Permutations(Code) \cup Permutations(Request)
=============================================================================
