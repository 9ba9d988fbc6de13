----------------------------- MODULE Enrolment ------------------------------
(***************************************************************************)
(* What exam registration promises, student by student and event by event: *)
(* one submission, one payment behind it that backs nothing else, a        *)
(* decision that only a rejection can be taken back from, and an admit     *)
(* card for approved students only.                                        *)
(***************************************************************************)
CONSTANTS Seat,     \* a student in an event
          Payment,  \* transaction ids
          NoPayment

VARIABLES status,   \* of each seat
          payment,  \* the transaction id behind it
          carded    \* the seats with an admit card

vars == <<status, payment, carded>>

Init ==
    /\ status = [s \in Seat |-> "none"]
    /\ payment = [s \in Seat |-> NoPayment]
    /\ carded = {}

Submit(s, p) ==
    /\ status[s] = "none"
    /\ \A o \in Seat : payment[o] # p
    /\ status' = [status EXCEPT ![s] = "pending"]
    /\ payment' = [payment EXCEPT ![s] = p]
    /\ UNCHANGED carded

Decide(s, decision) ==
    /\ status[s] = "pending"
    /\ status' = [status EXCEPT ![s] = decision]
    /\ UNCHANGED <<payment, carded>>

Reopen(s) ==
    /\ status[s] = "rejected"
    /\ status' = [status EXCEPT ![s] = "pending"]
    /\ UNCHANGED <<payment, carded>>

IssueCard(s) ==
    /\ status[s] = "approved"
    /\ carded' = carded \cup {s}
    /\ UNCHANGED <<status, payment>>

Next ==
    \E s \in Seat :
        \/ \E p \in Payment : Submit(s, p)
        \/ \E decision \in {"approved", "rejected"} : Decide(s, decision)
        \/ Reopen(s)
        \/ IssueCard(s)

Spec == Init /\ [][Next]_vars
=============================================================================
