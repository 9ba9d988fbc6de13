-------------------------- MODULE SessionLifecycle --------------------------
(***************************************************************************)
(* What a login promises: it is opened once, it is usable, or being        *)
(* rotated, until it is closed, and closed is final.  Several logins may   *)
(* be closed in one step, by the theft response or by a crash.             *)
(***************************************************************************)
CONSTANT Login

VARIABLE state

Init == state = [k \in Login |-> "none"]

Open(k) ==
    /\ state[k] = "none"
    /\ state' = [state EXCEPT ![k] = "live"]

BeginRotation(k) ==
    /\ state[k] = "live"
    /\ state' = [state EXCEPT ![k] = "rotating"]

EndRotation(k) ==
    /\ state[k] = "rotating"
    /\ state' = [state EXCEPT ![k] = "live"]

Close(K) ==
    /\ \A k \in K : state[k] \in {"live", "rotating"}
    /\ state' = [k \in Login |-> IF k \in K THEN "closed" ELSE state[k]]

Next ==
    \/ \E k \in Login : Open(k) \/ BeginRotation(k) \/ EndRotation(k)
    \/ \E K \in SUBSET Login : Close(K)

Spec == Init /\ [][Next]_state
=============================================================================
