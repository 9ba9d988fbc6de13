------------------------------ MODULE MCRounds ------------------------------
EXTENDS Rounds, TLC

CONSTANTS u1, u2, junior, senior, i1, i2, i3, r1, r2

\* Two rounds of one level, the second one final; a single one, which is both.
Opening == [level |-> junior, order |-> 1, final |-> FALSE, start |-> 0]
Closing == [level |-> junior, order |-> 2, final |-> TRUE, start |-> 0]
Only == [level |-> junior, order |-> 1, final |-> TRUE, start |-> 0]
AdminInput == {Opening, Closing, Only}

AdminProfile == {[level |-> junior, verified |-> v, approved |-> TRUE] : v \in BOOLEAN}

First(u) == [user |-> u, status |-> "winner", rank |-> 1]
Qualified(u) == [user |-> u, status |-> "qualified", rank |-> 0]

\* One student takes the first place from the other, who is qualified instead,
\* or has no decision in the list.
AdminBatch == {<<First(u1), Qualified(u2)>>, <<First(u2)>>}

Symmetry == Permutations(RoundId) \cup Permutations(Request)
=============================================================================
