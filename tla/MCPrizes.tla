------------------------------ MODULE MCPrizes ------------------------------
EXTENDS Prizes, TLC

CONSTANTS junior, senior

Range(l, a, b) == [level |-> l, from |-> a, to |-> b]

\* Ranges that are equal, touch in one rank, hold one another or are apart, and
\* one of another level.
SmallInput == {Range(junior, 1, 1), Range(junior, 1, 2), Range(junior, 2, 3), Range(senior, 1, 1)}

Symmetry == Permutations(Event) \cup Permutations(PrizeId) \cup Permutations(Request)
=============================================================================
