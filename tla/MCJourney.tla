----------------------------- MODULE MCJourney -----------------------------
EXTENDS Journey, TLC

CONSTANTS u1, junior, senior, t1, t2, i1, i2

MCLevelOf == (t1 :> junior) @@ (t2 :> senior)

Opening == [level |-> junior, order |-> 1, final |-> FALSE, start |-> 0]
Second == [level |-> junior, order |-> 2, final |-> FALSE, start |-> 0]
MCInput == {Opening, Second}
MCBatch == {<<[user |-> u1, status |-> "qualified", rank |-> 0]>>}

\* reviewed is a history nothing here reads.
View == <<vars, row, sub, overtaken, rounds, decisions, clock, gate, vetted>>

\* What has arrived takes its first step at once.  Nothing is lost by that: an
\* arrival needs and changes no more than its slot.
Prompt ==
    /\ \A s \in Edit : sub[s].phase = "load" => sub'[s].phase # "load"
    /\ \A k \in Request : req[k].phase \in {"loadEvent", "review", "loadRejected", "checkApproved"}
                             => req'[k].phase # req[k].phase
    /\ \A r \in Gate : gate[r].phase \in RoundCall => gate'[r].phase # gate[r].phase

\* Bounds.  Events are opened and closed, and cards handed in, in the run of
\* Registrations only.
NoCards == UNCHANGED active /\ \A k \in Request : req'[k].phase # "checkApproved"

\* The desk has its request while no profile is being submitted.
DeskApart ==
    (\A s \in Edit : sub'[s] = Account!NoSubmission) \/ (\A k \in Request : req'[k] = Idle)

\* Of two submissions in flight one brings a document, and one does not.
OneWithout ==
    \A s, q \in Edit : s # q /\ sub'[s] # Account!NoSubmission /\ sub'[q] # Account!NoSubmission
                          => (sub'[s].doc = None) # (sub'[q].doc = None)

\* Profiles are verified or left alone: to the gate a rejection is the same as
\* the new document that awaits its review.
NoRejection == \A u \in User : row'[u].status # "rejected"

\* The second round is created after the first has ended, and decisions are
\* about the first.
InTurn ==
    /\ \A i \in RoundId : rounds[i] = Round!NoRow /\ rounds'[i] # Round!NoRow /\ rounds'[i].order = 2
                             => \E j \in Round!Stored : rounds[j].order = 1 /\ rounds[j].status = "ended"
    /\ \A r \in Gate : gate'[r].phase = "loadEnded" => gate'[r].id \in Round!Stored /\ rounds[gate'[r].id].order = 1

Bounded == Prompt /\ NoCards /\ NoRejection /\ DeskApart /\ OneWithout /\ InTurn

Symmetry == Permutations(RoundId) \cup Permutations(Gate) \cup Permutations(Edit)
=============================================================================
