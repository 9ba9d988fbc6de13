------------------------------ MODULE MCAccess ------------------------------
EXTENDS Access, TLC

CONSTANTS u1, d1, d2, k1, k2, r1, r2

\* One account with a login on each of two devices.
MCOwner == [k \in Login |-> u1]
MCHome == [k \in Login |-> IF k = k2 THEN d2 ELSE d1]
=============================================================================
