---------------------------- MODULE TokenBucket ----------------------------
(***************************************************************************)
(* What the rate limiter promises each client of each process: a bucket of *)
(* Burst tokens, refilled by Refill a tick, from which every admitted      *)
(* request takes one; a new process starts with full buckets.              *)
(***************************************************************************)
EXTENDS Naturals

CONSTANTS Instance, IP, Burst, Refill

VARIABLES
    level,
    up,     \* the processes that serve
    even    \* whether the number of ticks is even

vars == <<level, up, even>>

Refilled(n) == IF n + Refill < Burst THEN n + Refill ELSE Burst

Init ==
    /\ level = [i \in Instance |-> [ip \in IP |-> Burst]]
    /\ up = {}
    /\ even = TRUE

Take(i, ip) ==
    /\ i \in up /\ level[i][ip] > 0
    /\ level' = [level EXCEPT ![i][ip] = @ - 1]
    /\ UNCHANGED <<up, even>>

TimePasses ==
    /\ level' = [i \in Instance |-> [ip \in IP |-> Refilled(level[i][ip])]]
    /\ even' = ~even
    /\ UNCHANGED up

Begin(i) ==
    /\ i \notin up
    /\ up' = up \cup {i}
    /\ UNCHANGED <<level, even>>

End(i) ==
    /\ i \in up
    /\ up' = up \ {i}
    /\ level' = [level EXCEPT ![i] = [ip \in IP |-> Burst]]
    /\ UNCHANGED even

Next ==
    \/ \E i \in Instance : Begin(i) \/ End(i) \/ \E ip \in IP : Take(i, ip)
    \/ TimePasses

Spec == Init /\ [][Next]_vars
=============================================================================
