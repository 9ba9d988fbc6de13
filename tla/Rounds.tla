------------------------------- MODULE Rounds -------------------------------
(***************************************************************************)
(* The rounds of one event: admins create, edit, start, end and delete     *)
(* them and record who qualified or won; students enter the ones they are  *)
(* entitled to.                                                            *)
(*                                                                         *)
(* Every service call is a sequence of SQL statements on rows that other   *)
(* calls change in between; each statement is one action.                  *)
(***************************************************************************)
EXTENDS Naturals, Sequences

CONSTANTS
    Student,
    Level,      \* academic levels
    Profile,    \* what the gate may find of a student
    RoundId,    \* ids of rows of the table rounds
    Input,      \* what admins submit for a round
    Batch,      \* lists of decisions admins submit, in order
    Request,    \* slots for requests in flight
    Duration,   \* how long a round can be entered
    MaxTime,    \* bound of the clock
    MaxRank,    \* bound of the ranks in Batch
    None

Time == 0..MaxTime
RoundInput == [level : Level, order : Nat \ {0}, final : BOOLEAN, start : Time]
StudentState == [level : Level \cup {None}, verified : BOOLEAN, approved : BOOLEAN]
DecisionRow == [user : Student, status : {"qualified", "eliminated", "winner"}, rank : 0..MaxRank]

ASSUME NoneAssumption == None \notin Level \cup RoundId \cup Student
ASSUME BoundAssumption == Duration \in Nat \ {0} /\ MaxTime \in Nat /\ MaxRank \in Nat
ASSUME InputAssumption == Input \subseteq RoundInput
ASSUME ProfileAssumption == Profile \subseteq StudentState
ASSUME BatchAssumption == Batch \subseteq Seq(DecisionRow)

VARIABLES
    rounds,     \* table rounds
    decisions,  \* table round_participants, round by round
    student,    \* what the gate reads of users and exam_registrations
    clock,
    req         \* the requests in flight

vars == <<rounds, decisions, student, clock, req>>

-----------------------------------------------------------------------------
NoRow == [status |-> "none"]
DeletedRow == [status |-> "deleted"]
Row == [status : {"upcoming", "ongoing", "ended"}, level : Level, order : Nat \ {0},
        final : BOOLEAN, start : Time]

Undecided == [status |-> "none", rank |-> 0]
Decision == [status : {"none", "qualified", "eliminated", "winner"}, rank : 0..MaxRank]
NoDecisions == [u \in Student |-> Undecided]

Phase == {"idle", "checkFinal", "insert", "load", "update", "loadEnded", "record", "rankTaken",
          "enter", "checkUser", "recheckUser", "registration", "previous", "decision", "allowed"}

RequestRecord ==
    [phase : Phase, id : RoundId \cup {None}, input : Input \cup {None}, batch : Batch \cup {None},
     user : Student \cup {None}, seen : Row \cup {NoRow}, prev : RoundId \cup {None}]

Idle == [phase |-> "idle", id |-> None, input |-> None, batch |-> None,
         user |-> None, seen |-> NoRow, prev |-> None]

Exists(i) == rounds[i].status \in {"upcoming", "ongoing", "ended"}
Stored == {i \in RoundId : Exists(i)}

Goto(r, p) == req' = [req EXCEPT ![r].phase = p]
End(r) == req' = [req EXCEPT ![r] = Idle]

-----------------------------------------------------------------------------
Init ==
    /\ rounds = [i \in RoundId |-> NoRow]
    /\ decisions = [i \in RoundId |-> NoDecisions]
    /\ student \in [Student -> Profile]
    /\ clock = 0
    /\ req = [r \in Request |-> Idle]

\* A request arrives. CreateRound looks for another final round only when the
\* new one is final; an id need not name a row.
Ask(phase, i, n, b, u) ==
    [phase |-> phase, id |-> i, input |-> n, batch |-> b, user |-> u, seen |-> NoRow, prev |-> None]

Send(r) ==
    /\ req[r] = Idle
    /\ \/ \E n \in Input : req' = [req EXCEPT ![r] =
             Ask(IF n.final THEN "checkFinal" ELSE "insert", None, n, None, None)]
       \/ \E i \in RoundId, n \in Input : req' = [req EXCEPT ![r] = Ask("load", i, n, None, None)]
       \/ \E i \in RoundId, b \in Batch : req' = [req EXCEPT ![r] = Ask("loadEnded", i, None, b, None)]
       \/ \E i \in RoundId, u \in Student : req' = [req EXCEPT ![r] = Ask("enter", i, None, None, u)]
    /\ UNCHANGED <<rounds, decisions, student, clock>>

\* Meanwhile profiles are edited and reviewed, registrations are approved
\* (approval is final), and time passes.
StudentChanges(u) ==
    /\ \E p \in Profile : /\ student[u].approved => p.approved
                         /\ student' = [student EXCEPT ![u] = p]
    /\ UNCHANGED <<rounds, decisions, clock, req>>

Tick ==
    /\ clock < MaxTime
    /\ clock' = clock + 1
    /\ UNCHANGED <<rounds, decisions, student, req>>

-----------------------------------------------------------------------------
(* CreateRound and UpdateRound *)

OtherFinal(n, self) ==
    \E i \in Stored \ {self} : rounds[i].final /\ rounds[i].level = n.level

\* checkNoOtherFinal; an update names the row it excludes.
CheckNoOtherFinal(r) ==
    /\ req[r].phase = "checkFinal"
    /\ IF OtherFinal(req[r].input, req[r].id) THEN End(r)
       ELSE Goto(r, IF req[r].id = None THEN "insert" ELSE "update")
    /\ UNCHANGED <<rounds, decisions, student, clock>>

\* Mutant of Conflicts: the partial index on final rounds is missing, the
\* service's own check is all there is.
ConflictsOnOrder(n, self) ==
    \E i \in Stored \ {self} : rounds[i].level = n.level /\ rounds[i].order = n.order

\* uq_rounds_event_order and uq_rounds_one_final_per_event.
Conflicts(n, self) ==
    \E i \in Stored \ {self} :
        /\ rounds[i].level = n.level
        /\ rounds[i].order = n.order \/ (rounds[i].final /\ n.final)

WithStatus(n, s) ==
    [status |-> s, level |-> n.level, order |-> n.order, final |-> n.final, start |-> n.start]

Insert(r) ==
    LET n == req[r].input IN
    /\ req[r].phase = "insert"
    /\ \/ Conflicts(n, None) /\ UNCHANGED rounds
       \/ /\ ~Conflicts(n, None)
          /\ \E i \in RoundId : /\ rounds[i] = NoRow
                                /\ rounds' = [rounds EXCEPT ![i] = WithStatus(n, "upcoming")]
    /\ End(r)
    /\ UNCHANGED <<decisions, student, clock>>

\* UpdateRound reads the row for its event only.
LoadForUpdate(r) ==
    /\ req[r].phase = "load"
    /\ IF ~Exists(req[r].id) THEN End(r)
       ELSE Goto(r, IF req[r].input.final THEN "checkFinal" ELSE "update")
    /\ UNCHANGED <<rounds, decisions, student, clock>>

\* UPDATE of everything but the status.
Update(r) ==
    LET i == req[r].id  n == req[r].input IN
    /\ req[r].phase = "update"
    /\ \/ (~Exists(i) \/ Conflicts(n, i)) /\ UNCHANGED rounds
       \/ /\ Exists(i) /\ ~Conflicts(n, i)
          /\ rounds' = [rounds EXCEPT ![i] = WithStatus(n, rounds[i].status)]
    /\ End(r)
    /\ UNCHANGED <<decisions, student, clock>>

-----------------------------------------------------------------------------
(* StartRound, EndRound and DeleteRound: one statement each. *)

SetStatus(i, from, to) ==
    /\ rounds[i].status = from
    /\ rounds' = [rounds EXCEPT ![i].status = to]
    /\ UNCHANGED <<decisions, student, clock, req>>

\* Mutant of StartRound: a status the table does not know.
StartRoundMisnamed(i) == SetStatus(i, "upcoming", "started")

StartRound(i) == SetStatus(i, "upcoming", "ongoing")

EndRound(i) == SetStatus(i, "ongoing", "ended")

\* Mutant of DeleteRound: round_participants without ON DELETE CASCADE.
DeleteRoundKeepsDecisions(i) ==
    /\ Exists(i)
    /\ rounds' = [rounds EXCEPT ![i] = DeletedRow]
    /\ UNCHANGED <<decisions, student, clock, req>>

\* The decisions go with the round.
DeleteRound(i) ==
    /\ Exists(i)
    /\ rounds' = [rounds EXCEPT ![i] = DeletedRow]
    /\ decisions' = [decisions EXCEPT ![i] = NoDecisions]
    /\ UNCHANGED <<student, clock, req>>

-----------------------------------------------------------------------------
(* SetParticipants *)

\* What the service checks of a request before it opens the transaction.
ValidBatch(b, final) ==
    /\ Len(b) > 0
    /\ \A k \in 1..Len(b) : IF b[k].status = "winner" THEN final /\ b[k].rank > 0 ELSE b[k].rank = 0
    /\ \A j, k \in 1..Len(b) :
          b[j].status = "winner" /\ b[k].status = "winner" /\ j # k => b[j].rank # b[k].rank

LoadEnded(r) ==
    LET i == req[r].id IN
    /\ req[r].phase = "loadEnded"
    /\ IF rounds[i].status = "ended" /\ ValidBatch(req[r].batch, rounds[i].final)
       THEN Goto(r, "record") ELSE End(r)
    /\ UNCHANGED <<rounds, decisions, student, clock>>

\* The table of round i after the first k upserts; a later one for the same
\* student overwrites an earlier one.
After(i, b, k) ==
    [u \in Student |->
        LET own == {j \in 1..k : b[j].user = u}
            last == CHOOSE j \in own : \A h \in own : h <= j
        IN  IF own = {} THEN decisions[i][u]
            ELSE [status |-> b[last].status, rank |-> b[last].rank]]

RanksUnique(d) ==
    \A u, v \in Student : u # v /\ d[u].rank > 0 => d[u].rank # d[v].rank

\* Mutant of Accepted: uq_round_participants_rank is missing.
AcceptedAlways(i, b) == Exists(i)

\* uq_round_participants_rank is checked by each upsert, not at the commit.
Accepted(i, b) == \A k \in 1..Len(b) : RanksUnique(After(i, b, k))

\* UpsertParticipants: one transaction, rolled back at the first error. The
\* foreign key refuses a round that is gone; two transactions over the same
\* rows wait for each other, so that their order is the only freedom left.
Record(r) ==
    LET i == req[r].id  b == req[r].batch IN
    /\ req[r].phase = "record"
    /\ \/ ~Exists(i) /\ End(r) /\ UNCHANGED decisions
       \/ Exists(i) /\ ~Accepted(i, b) /\ Goto(r, "rankTaken") /\ UNCHANGED decisions
       \/ /\ Exists(i) /\ Accepted(i, b)
          /\ decisions' = [decisions EXCEPT ![i] = After(i, b, Len(b))]
          /\ End(r)
    /\ UNCHANGED <<rounds, student, clock>>

\* The admin is told ErrDuplicateRank.
ReplyRankTaken(r) ==
    /\ req[r].phase = "rankTaken"
    /\ End(r)
    /\ UNCHANGED <<rounds, decisions, student, clock>>

-----------------------------------------------------------------------------
(* EnterRound *)

LoadForEnter(r) ==
    LET i == req[r].id IN
    /\ req[r].phase = "enter"
    /\ IF Exists(i) THEN req' = [req EXCEPT ![r].phase = "checkUser", ![r].seen = rounds[i]]
       ELSE End(r)
    /\ UNCHANGED <<rounds, decisions, student, clock>>

Fits(u, row) == student[u].level = row.level /\ student[u].verified

\* Mutant of InWindow: the round closes a tick late.
InWindowLate(row) == row.start <= clock /\ clock <= row.start + Duration

InWindow(row) == row.start <= clock /\ clock < row.start + Duration

\* Mutant of CheckUser: time alone opens a round.
CheckUserByClock(r) ==
    /\ req[r].phase = "checkUser"
    /\ IF Fits(req[r].user, req[r].seen) /\ InWindow(req[r].seen)
       THEN Goto(r, "recheckUser") ELSE End(r)
    /\ UNCHANGED <<rounds, decisions, student, clock>>

\* The user as it is now against the round as it was read.
CheckUser(r) ==
    /\ req[r].phase = "checkUser"
    /\ IF /\ Fits(req[r].user, req[r].seen)
          /\ req[r].seen.status = "ongoing"
          /\ InWindow(req[r].seen)
       THEN Goto(r, "recheckUser") ELSE End(r)
    /\ UNCHANGED <<rounds, decisions, student, clock>>

\* isEligibleForRound reads the user once more.
RecheckUser(r) ==
    /\ req[r].phase = "recheckUser"
    /\ IF Fits(req[r].user, req[r].seen)
       THEN Goto(r, IF req[r].seen.order = 1 THEN "registration" ELSE "previous") ELSE End(r)
    /\ UNCHANGED <<rounds, decisions, student, clock>>

CheckRegistration(r) ==
    /\ req[r].phase = "registration"
    /\ IF student[req[r].user].approved THEN Goto(r, "allowed") ELSE End(r)
    /\ UNCHANGED <<rounds, decisions, student, clock>>

Previous(row) == {j \in Stored : rounds[j].level = row.level /\ rounds[j].order + 1 = row.order}

FindPrevious(r) ==
    /\ req[r].phase = "previous"
    /\ IF Previous(req[r].seen) = {} THEN End(r)
       ELSE \E j \in Previous(req[r].seen) :
               req' = [req EXCEPT ![r].phase = "decision", ![r].prev = j]
    /\ UNCHANGED <<rounds, decisions, student, clock>>

CheckDecision(r) ==
    /\ req[r].phase = "decision"
    /\ IF decisions[req[r].prev][req[r].user].status = "qualified" THEN Goto(r, "allowed") ELSE End(r)
    /\ UNCHANGED <<rounds, decisions, student, clock>>

\* {"allowed": true}; the student is in.
ReplyAllowed(r) ==
    /\ req[r].phase = "allowed"
    /\ End(r)
    /\ UNCHANGED <<rounds, decisions, student, clock>>

-----------------------------------------------------------------------------
\* A statement fails, the client hangs up or the process dies.
Abort(r) ==
    /\ req[r] # Idle
    /\ End(r)
    /\ UNCHANGED <<rounds, decisions, student, clock>>

Next ==
    \/ Tick
    \/ \E u \in Student : StudentChanges(u)
    \/ \E i \in RoundId : StartRound(i) \/ EndRound(i) \/ DeleteRound(i)
    \/ \E r \in Request :
         \/ Send(r) \/ CheckNoOtherFinal(r) \/ Insert(r) \/ LoadForUpdate(r) \/ Update(r)
         \/ LoadEnded(r) \/ Record(r) \/ ReplyRankTaken(r)
         \/ LoadForEnter(r) \/ CheckUser(r) \/ RecheckUser(r) \/ CheckRegistration(r)
         \/ FindPrevious(r) \/ CheckDecision(r) \/ ReplyAllowed(r) \/ Abort(r)

Spec == Init /\ [][Next]_vars

-----------------------------------------------------------------------------
(* What the student and the admin are shown *)

\* isEligibleForRound, and its second result.
PriorDecisions(u, i) == {decisions[j][u] : j \in Previous(rounds[i])} \ {Undecided}

Eligible(u, i) ==
    /\ Fits(u, rounds[i])
    /\ IF rounds[i].order = 1 THEN student[u].approved
       ELSE \E d \in PriorDecisions(u, i) : d.status = "qualified"

PriorDecided(u, i) == Fits(u, rounds[i]) /\ rounds[i].order # 1 /\ PriorDecisions(u, i) # {}

YourStatus(u, i) ==
    CASE decisions[i][u] # Undecided -> decisions[i][u].status
      [] decisions[i][u] = Undecided /\ ~Eligible(u, i) ->
            IF rounds[i].order = 1 THEN "not_eligible"
            ELSE IF PriorDecided(u, i) THEN "eliminated" ELSE "waiting"
      [] decisions[i][u] = Undecided /\ Eligible(u, i) ->
            IF rounds[i].status = "ended" THEN "eliminated"
            ELSE IF rounds[i].status = "ongoing" /\ rounds[i].start <= clock THEN "ready"
            ELSE "locked"

\* EnterRound with nothing changing under it.
MayEnter(u, i) == rounds[i].status = "ongoing" /\ InWindow(rounds[i]) /\ Eligible(u, i)

-----------------------------------------------------------------------------
(* Properties *)

\* Every variable keeps its type.
TypeOK ==
    /\ rounds \in [RoundId -> Row \cup {NoRow, DeletedRow}]
    /\ decisions \in [RoundId -> [Student -> Decision]]
    /\ student \in [Student -> StudentState]
    /\ clock \in Time
    /\ req \in [Request -> RequestRecord]

\* Each level has its own sequence of rounds with at most one final, however
\* creations and edits that checked for one interleave.
SequencesSound ==
    \A i, j \in Stored : i # j /\ rounds[i].level = rounds[j].level =>
        /\ rounds[i].order # rounds[j].order
        /\ ~(rounds[i].final /\ rounds[j].final)

\* Nobody is decided upon in a round that is not over, or no longer there: a
\* decision is written long after the status of its round was read.
DecisionsAfterEnd ==
    \A i \in RoundId : decisions[i] # NoDecisions => rounds[i].status = "ended"

\* A placement belongs to a winner and to one only, whatever lists of
\* decisions overwrote each other.
RanksSound ==
    \A i \in RoundId :
        /\ RanksUnique(decisions[i])
        /\ \A u \in Student : decisions[i][u].rank > 0 <=> decisions[i][u].status = "winner"

\* Nobody is let into a round that no admin has started, nor into a later
\* round while the one before it is still being sat; the gate puts its answer
\* together from rows read at different times.
EntryInOrder ==
    \A r \in Request : req[r].phase = "allowed" =>
        /\ rounds[req[r].id].status \in {"ongoing", "ended", "deleted"}
        /\ req[r].seen.order > 1 => rounds[req[r].prev].status \in {"ended", "deleted"}

\* The list and the gate agree: a round shows as ready exactly to those the
\* gate lets in, until its time is over.
ReadyIffMayEnter ==
    \A i \in Stored, u \in Student :
        MayEnter(u, i) <=> YourStatus(u, i) = "ready" /\ clock < rounds[i].start + Duration

\* "Only a final round may record a 'winner' decision" (domain/round).
WinnersOfFinals ==
    [][\A i \in RoundId, u \in Student :
          decisions'[i][u] # decisions[i][u] /\ decisions'[i][u].status = "winner"
            => rounds[i].final]_vars
=============================================================================
