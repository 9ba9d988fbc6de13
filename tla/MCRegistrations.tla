-------------------------- MODULE MCRegistrations ---------------------------
EXTENDS Registrations, TLC

Symmetry == Permutations(User) \cup Permutations(Admin) \cup Permutations(Trx) \cup Permutations(RegId)
           \cup Permutations(Event) \cup Permutations(File) \cup Permutations(Request)
=============================================================================
