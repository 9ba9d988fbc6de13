---------------------------- MODULE RoundsProofs ----------------------------
(***************************************************************************)
(* Proofs about Rounds, for any students, levels, rounds, inputs, lists of *)
(* decisions and requests, any duration and any bound of the clock.        *)
(***************************************************************************)
EXTENDS Rounds, WellFoundedInduction, TLAPS

LateGate == {"recheckUser", "registration", "previous", "decision", "allowed"}

\* What a request may still rely on although it let go of the database since
\* it read a round: statuses only move forward and ids are not used twice.
RequestCoherent(r) ==
    /\ req[r].phase \in {"checkFinal", "insert", "load", "update"} => req[r].input \in Input
    /\ req[r].phase \in {"load", "update", "loadEnded", "record", "rankTaken", "enter", "checkUser"}
         \cup LateGate => req[r].id \in RoundId
    /\ req[r].phase \in {"loadEnded", "record"} => req[r].batch \in Batch
    /\ req[r].phase = "record" =>
         /\ rounds[req[r].id].status \in {"ended", "deleted"}
         /\ \E final \in BOOLEAN : ValidBatch(req[r].batch, final)
    /\ req[r].phase \in {"enter", "checkUser"} \cup LateGate => req[r].user \in Student
    /\ req[r].phase \in {"checkUser"} \cup LateGate => req[r].seen \in Row
    /\ req[r].phase = "checkUser" /\ req[r].seen.status = "ongoing" =>
         rounds[req[r].id].status \in {"ongoing", "ended", "deleted"}
    /\ req[r].phase \in LateGate => rounds[req[r].id].status \in {"ongoing", "ended", "deleted"}
    /\ req[r].phase = "registration" => req[r].seen.order = 1
    /\ req[r].phase = "decision" => req[r].prev \in RoundId
    /\ req[r].phase = "allowed" /\ req[r].seen.order # 1 =>
         req[r].prev \in RoundId /\ rounds[req[r].prev].status \in {"ended", "deleted"}

IInv ==
    /\ TypeOK
    /\ SequencesSound
    /\ DecisionsAfterEnd
    /\ RanksSound
    /\ \A r \in Request : RequestCoherent(r)

\* No status is ever taken back, and a deleted row stays deleted.
Forward ==
    \A i \in RoundId :
        /\ rounds[i].status = "ongoing" => rounds'[i].status \in {"ongoing", "ended", "deleted"}
        /\ rounds[i].status = "ended" => rounds'[i].status \in {"ended", "deleted"}
        /\ rounds[i].status = "deleted" => rounds'[i].status = "deleted"

USE NoneAssumption, BoundAssumption, InputAssumption, ProfileAssumption, BatchAssumption

-----------------------------------------------------------------------------
LEMMA InitIInv == Init => IInv
<1> SUFFICES ASSUME Init PROVE IInv
  OBVIOUS
<1>1. TypeOK
  BY DEF Init, TypeOK, Time, NoDecisions, Undecided, Decision, Idle, RequestRecord, Phase
<1>2. SequencesSound /\ DecisionsAfterEnd /\ RanksSound
  BY DEF Init, SequencesSound, DecisionsAfterEnd, RanksSound, RanksUnique, NoDecisions, Undecided,
     Stored, Exists, NoRow
<1>3. \A r \in Request : RequestCoherent(r)
  BY DEF Init, RequestCoherent, Idle, LateGate
<1> QED BY <1>1, <1>2, <1>3 DEF IInv

LEMMA LeastNatural ==
    ASSUME NEW T, T \subseteq Nat, T # {}
    PROVE  \E n \in T : \A m \in T : n <= m
<1>1. \E n \in T : \A m \in T : ~(<<m, n>> \in OpToRel(<, Nat))
  BY NatLessThanWellFounded, WFMin
<1>2. \A m, n \in Nat : m < n => <<m, n>> \in OpToRel(<, Nat)
  <2> SUFFICES ASSUME NEW m \in Nat, NEW n \in Nat, m < n
               PROVE <<m, n>> \in {ss \in Nat \X Nat : ss[1] < ss[2]}
    BY DEF OpToRel
  <2> QED BY SMT
<1>3. \A m, n \in Nat : ~(m < n) => n <= m
  BY SMT
<1> QED BY <1>1, <1>2, <1>3, Zenon

\* The last decision on a student in the first k rows of a list is one of them.
LEMMA LastDecision ==
    ASSUME NEW k \in Nat, NEW own, own \subseteq 1..k, own # {}
    PROVE  (CHOOSE j \in own : \A h \in own : h <= j) \in own
<1>1. PICK n \in {k - j : j \in own} : \A m \in {k - j : j \in own} : n <= m
  <2>1. {k - j : j \in own} # {}
    OBVIOUS
  <2>2. \A j \in own : k - j \in Nat
    BY SMT
  <2>3. {k - j : j \in own} \subseteq Nat
    BY <2>2
  <2> QED BY <2>1, <2>3, LeastNatural
<1>2. PICK j \in own : n = k - j
  BY <1>1
<1>3. \A h \in own : n <= k - h
  BY <1>1
<1>4. \A h \in own : h <= j
  BY <1>2, <1>3
<1> QED BY <1>4

-----------------------------------------------------------------------------
\* A request that moves on keeps its type.
LEMMA RequestEdits ==
    ASSUME NEW q \in RequestRecord
    PROVE  /\ \A p \in Phase : [q EXCEPT !.phase = p] \in RequestRecord
           /\ \A row \in Row : [q EXCEPT !.phase = "checkUser", !.seen = row] \in RequestRecord
           /\ \A j \in RoundId : [q EXCEPT !.phase = "decision", !.prev = j] \in RequestRecord
<1>1. \A p \in Phase : [q EXCEPT !.phase = p] \in RequestRecord
  BY DEF RequestRecord
<1>2. \A row \in Row : [q EXCEPT !.phase = "checkUser", !.seen = row] \in RequestRecord
  BY DEF RequestRecord, Phase
<1>3. \A j \in RoundId : [q EXCEPT !.phase = "decision", !.prev = j] \in RequestRecord
  BY DEF RequestRecord, Phase
<1> QED BY <1>1, <1>2, <1>3

LEMMA PhaseMoved ==
    ASSUME TypeOK, NEW r \in Request, NEW p \in Phase, Goto(r, p)
    PROVE  req' \in [Request -> RequestRecord]
<1>1. [req[r] EXCEPT !.phase = p] \in RequestRecord
  BY RequestEdits DEF TypeOK
<1> QED BY <1>1 DEF TypeOK, Goto

LEMMA RequestEnded ==
    ASSUME TypeOK, NEW r \in Request, End(r)
    PROVE  req' \in [Request -> RequestRecord]
<1>1. Idle \in RequestRecord
  BY DEF RequestRecord, Idle, Phase
<1> QED BY <1>1 DEF TypeOK, End

LEMMA Stamped ==
    ASSUME NEW n \in Input, NEW s \in {"upcoming", "ongoing", "ended"}
    PROVE  WithStatus(n, s) \in Row
BY DEF WithStatus, Row, RoundInput

\* Each prefix of an accepted list leaves rows of the table's type.
LEMMA AfterTyped ==
    ASSUME TypeOK, NEW i \in RoundId, NEW b \in Batch
    PROVE  After(i, b, Len(b)) \in [Student -> Decision]
<1> SUFFICES ASSUME NEW u \in Student PROVE After(i, b, Len(b))[u] \in Decision
  BY DEF After
<1> DEFINE own == {j \in 1..Len(b) : b[j].user = u}
           last == CHOOSE j \in own : \A h \in own : h <= j
<1>0. b \in Seq(DecisionRow)
  OBVIOUS
<1>1. CASE own = {}
  BY <1>1 DEF After, TypeOK
<1>2. CASE own # {}
  <2>1. last \in own
    <3>1. Len(b) \in Nat /\ own \subseteq 1..Len(b)
      BY <1>0
    <3> QED BY <1>2, <3>1, LastDecision
  <2>2. PICK d \in DecisionRow : d = b[last]
    <3>1. last \in 1..Len(b)
      BY <2>1
    <3> HIDE DEF last
    <3> QED BY <1>0, <3>1
  <2>3. [status |-> d.status, rank |-> d.rank] \in Decision
    BY DEF Decision, DecisionRow
  <2> QED BY <1>2, <2>2, <2>3 DEF After
<1> QED BY <1>1, <1>2

LEMMA AfterRanked ==
    ASSUME TypeOK, RanksSound, NEW i \in RoundId, NEW b \in Batch, NEW f \in BOOLEAN,
           ValidBatch(b, f), NEW u \in Student
    PROVE  After(i, b, Len(b))[u].rank > 0 <=> After(i, b, Len(b))[u].status = "winner"
<1> DEFINE own == {j \in 1..Len(b) : b[j].user = u}
           last == CHOOSE j \in own : \A h \in own : h <= j
<1>0. b \in Seq(DecisionRow)
  OBVIOUS
<1>1. CASE own = {}
  BY <1>1 DEF After, RanksSound
<1>2. CASE own # {}
  <2>1. last \in own
    <3>1. Len(b) \in Nat /\ own \subseteq 1..Len(b)
      BY <1>0
    <3> QED BY <1>2, <3>1, LastDecision
  <2>2. b[last].rank > 0 <=> b[last].status = "winner"
    <3>1. last \in 1..Len(b)
      BY <2>1
    <3> HIDE DEF last
    <3> QED BY <3>1 DEF ValidBatch
  <2> QED BY <1>2, <2>2 DEF After
<1> QED BY <1>1, <1>2

-----------------------------------------------------------------------------
LEMMA NextForward == ASSUME IInv, [Next]_vars PROVE Forward
<1> USE DEF IInv, TypeOK, Forward
<1>1. CASE UNCHANGED rounds
  BY <1>1
<1>2. ASSUME NEW r \in Request, Insert(r) PROVE Forward
  BY <1>2 DEF Insert, NoRow
<1>3. ASSUME NEW r \in Request, Update(r) PROVE Forward
  BY <1>3 DEF Update, WithStatus
<1>4. ASSUME NEW i \in RoundId, StartRound(i) \/ EndRound(i) PROVE Forward
  <2>1. PICK row \in Row : row = rounds[i]
    BY <1>4 DEF StartRound, EndRound, SetStatus, NoRow, DeletedRow
  <2>2. PICK to \in {"ongoing", "ended"} :
           /\ rounds' = [rounds EXCEPT ![i] = [row EXCEPT !.status = to]]
           /\ to = "ongoing" => row.status = "upcoming"
           /\ to = "ended" => row.status = "ongoing"
    BY <1>4, <2>1 DEF StartRound, EndRound, SetStatus
  <2>3. [row EXCEPT !.status = to].status = to
    BY DEF Row
  <2> QED BY <2>1, <2>2, <2>3
<1>5. ASSUME NEW i \in RoundId, DeleteRound(i) PROVE Forward
  BY <1>5 DEF DeleteRound, DeletedRow, Exists
<1> QED
  BY <1>1, <1>2, <1>3, <1>4, <1>5 DEF Next, Tick, StudentChanges, Send, CheckNoOtherFinal,
     LoadForUpdate, LoadEnded, Record, ReplyRankTaken, LoadForEnter, CheckUser, RecheckUser,
     CheckRegistration, FindPrevious, CheckDecision, ReplyAllowed, Abort, vars

LEMMA NextRounds == ASSUME IInv, [Next]_vars PROVE rounds' \in [RoundId -> Row \cup {NoRow, DeletedRow}]
<1> USE DEF IInv, TypeOK
<1>1. CASE UNCHANGED rounds
  BY <1>1
<1>2. ASSUME NEW r \in Request, Insert(r) PROVE rounds' \in [RoundId -> Row \cup {NoRow, DeletedRow}]
  <2>1. req[r].input \in Input
    BY <1>2 DEF Insert, RequestCoherent
  <2> QED BY <1>2, <2>1, Stamped DEF Insert
<1>3. ASSUME NEW r \in Request, Update(r) PROVE rounds' \in [RoundId -> Row \cup {NoRow, DeletedRow}]
  <2>1. req[r].input \in Input
    BY <1>3 DEF Update, RequestCoherent
  <2> QED BY <1>3, <2>1, Stamped DEF Update, Exists
<1>4. ASSUME NEW i \in RoundId, StartRound(i) \/ EndRound(i)
      PROVE rounds' \in [RoundId -> Row \cup {NoRow, DeletedRow}]
  <2>1. PICK row \in Row : row = rounds[i]
    BY <1>4 DEF StartRound, EndRound, SetStatus, NoRow, DeletedRow
  <2>2. PICK to \in {"ongoing", "ended"} : rounds' = [rounds EXCEPT ![i] = [row EXCEPT !.status = to]]
    BY <1>4, <2>1 DEF StartRound, EndRound, SetStatus
  <2>3. [row EXCEPT !.status = to] \in Row
    BY DEF Row
  <2> QED BY <2>2, <2>3
<1>5. ASSUME NEW i \in RoundId, DeleteRound(i) PROVE rounds' \in [RoundId -> Row \cup {NoRow, DeletedRow}]
  BY <1>5 DEF DeleteRound
<1> QED
  BY <1>1, <1>2, <1>3, <1>4, <1>5 DEF Next, Tick, StudentChanges, Send, CheckNoOtherFinal,
     LoadForUpdate, LoadEnded, Record, ReplyRankTaken, LoadForEnter, CheckUser, RecheckUser,
     CheckRegistration, FindPrevious, CheckDecision, ReplyAllowed, Abort, vars

LEMMA NextDecisions == ASSUME IInv, [Next]_vars PROVE decisions' \in [RoundId -> [Student -> Decision]]
<1> USE DEF IInv, TypeOK
<1>1. CASE UNCHANGED decisions
  BY <1>1
<1>2. ASSUME NEW r \in Request, Record(r) PROVE decisions' \in [RoundId -> [Student -> Decision]]
  <2>1. req[r].id \in RoundId /\ req[r].batch \in Batch
    BY <1>2 DEF Record, RequestCoherent
  <2>2. After(req[r].id, req[r].batch, Len(req[r].batch)) \in [Student -> Decision]
    BY <2>1, AfterTyped
  <2> QED BY <1>2, <2>1, <2>2 DEF Record
<1>3. ASSUME NEW i \in RoundId, DeleteRound(i) PROVE decisions' \in [RoundId -> [Student -> Decision]]
  BY <1>3 DEF DeleteRound, NoDecisions, Undecided, Decision
<1> QED
  BY <1>1, <1>2, <1>3 DEF Next, Tick, StudentChanges, StartRound, EndRound, SetStatus, Send,
     CheckNoOtherFinal, Insert, LoadForUpdate, Update, LoadEnded, ReplyRankTaken, LoadForEnter,
     CheckUser, RecheckUser, CheckRegistration, FindPrevious, CheckDecision, ReplyAllowed, Abort, vars

LEMMA NextRequests == ASSUME IInv, [Next]_vars PROVE req' \in [Request -> RequestRecord]
<1> USE DEF IInv
<1>1. CASE UNCHANGED req
  BY <1>1 DEF TypeOK
<1>2. ASSUME NEW r \in Request, Send(r) PROVE req' \in [Request -> RequestRecord]
  <2>1. PICK p \in {"checkFinal", "insert", "load", "loadEnded", "enter"}, i \in RoundId \cup {None},
             n \in Input \cup {None}, b \in Batch \cup {None}, u \in Student \cup {None} :
             req' = [req EXCEPT ![r] = Ask(p, i, n, b, u)]
    BY <1>2, Zenon DEF Send
  <2>2. Ask(p, i, n, b, u) \in RequestRecord
    BY DEF Ask, RequestRecord, Phase
  <2> QED BY <2>1, <2>2 DEF TypeOK
<1>3. ASSUME NEW r \in Request, LoadForEnter(r) PROVE req' \in [Request -> RequestRecord]
  <2>1. CASE ~Exists(req[r].id)
    BY <1>3, <2>1, RequestEnded DEF LoadForEnter
  <2>2. CASE Exists(req[r].id)
    <3>1. PICK row \in Row : row = rounds[req[r].id]
      BY <1>3, <2>2 DEF LoadForEnter, Exists, TypeOK, RequestCoherent, NoRow, DeletedRow
    <3>2. [req[r] EXCEPT !.phase = "checkUser", !.seen = row] \in RequestRecord
      BY RequestEdits DEF TypeOK
    <3>3. req' = [req EXCEPT ![r].phase = "checkUser", ![r].seen = row]
      BY <1>3, <2>2, <3>1 DEF LoadForEnter
    <3> QED BY <3>2, <3>3 DEF TypeOK
  <2> QED BY <2>1, <2>2
<1>4. ASSUME NEW r \in Request, FindPrevious(r) PROVE req' \in [Request -> RequestRecord]
  <2>1. CASE Previous(req[r].seen) = {}
    BY <1>4, <2>1, RequestEnded DEF FindPrevious
  <2>2. CASE Previous(req[r].seen) # {}
    <3>1. PICK j \in RoundId : req' = [req EXCEPT ![r].phase = "decision", ![r].prev = j]
      BY <1>4, <2>2 DEF FindPrevious, Previous, Stored
    <3>2. [req[r] EXCEPT !.phase = "decision", !.prev = j] \in RequestRecord
      BY RequestEdits DEF TypeOK
    <3> QED BY <3>1, <3>2 DEF TypeOK
  <2> QED BY <2>1, <2>2
<1>5. ASSUME NEW r \in Request, End(r) \/ \E p \in Phase : Goto(r, p)
      PROVE req' \in [Request -> RequestRecord]
  BY <1>5, RequestEnded, PhaseMoved
<1>6. ASSUME NEW r \in Request,
             \/ CheckNoOtherFinal(r) \/ Insert(r) \/ LoadForUpdate(r) \/ Update(r) \/ LoadEnded(r)
             \/ Record(r) \/ ReplyRankTaken(r) \/ CheckUser(r) \/ RecheckUser(r)
             \/ CheckRegistration(r) \/ CheckDecision(r) \/ ReplyAllowed(r) \/ Abort(r)
      PROVE End(r) \/ \E p \in Phase : Goto(r, p)
  BY <1>6 DEF CheckNoOtherFinal, Insert, LoadForUpdate, Update, LoadEnded, Record, ReplyRankTaken,
     CheckUser, RecheckUser, CheckRegistration, CheckDecision, ReplyAllowed, Abort, Phase
<1> QED
  BY <1>1, <1>2, <1>3, <1>4, <1>5, <1>6 DEF Next, Tick, StudentChanges, StartRound, EndRound,
     SetStatus, DeleteRound, vars

LEMMA NextTypeOK == ASSUME IInv, [Next]_vars PROVE TypeOK'
<1>1. student' \in [Student -> StudentState] /\ clock' \in Time
  <2> USE DEF IInv, TypeOK
  <2>1. CASE Tick
    BY <2>1 DEF Tick, Time
  <2>2. ASSUME NEW u \in Student, StudentChanges(u) PROVE student' \in [Student -> StudentState]
    BY <2>2 DEF StudentChanges
  <2>3. CASE UNCHANGED <<student, clock>>
    BY <2>3
  <2> QED
    BY <2>1, <2>2, <2>3 DEF Next, Tick, StudentChanges, StartRound, EndRound, SetStatus, DeleteRound,
       Send, CheckNoOtherFinal, Insert, LoadForUpdate, Update, LoadEnded, Record, ReplyRankTaken,
       LoadForEnter, CheckUser, RecheckUser, CheckRegistration, FindPrevious, CheckDecision,
       ReplyAllowed, Abort, vars
<1> QED BY <1>1, NextRounds, NextDecisions, NextRequests DEF TypeOK

-----------------------------------------------------------------------------
\* A row written without a conflict leaves the sequences sound.
LEMMA WrittenSound ==
    ASSUME SequencesSound, NEW i \in RoundId, NEW n, NEW s, NEW self,
           ~Conflicts(n, self), self = i \/ (i \notin Stored /\ self = None),
           rounds' = [rounds EXCEPT ![i] = WithStatus(n, s)], rounds \in [RoundId -> Row \cup {NoRow, DeletedRow}]
    PROVE  SequencesSound'
<1>1. \A j \in RoundId : j # i => rounds'[j] = rounds[j]
  OBVIOUS
<1>2. rounds'[i].level = n.level /\ rounds'[i].order = n.order /\ rounds'[i].final = n.final
  BY DEF WithStatus
<1>3. \A j \in Stored' : j # i => j \in Stored \ {self} /\ rounds'[j] = rounds[j]
  BY <1>1 DEF Stored, Exists
<1>4. \A j \in Stored' : j # i /\ rounds'[j].level = n.level =>
         rounds'[j].order # n.order /\ ~(rounds'[j].final /\ n.final)
  BY <1>3 DEF Conflicts
<1>5. ASSUME NEW j \in Stored', NEW h \in Stored', j # h, rounds'[j].level = rounds'[h].level
      PROVE  rounds'[j].order # rounds'[h].order /\ ~(rounds'[j].final /\ rounds'[h].final)
  <2>1. CASE j # i /\ h # i
    BY <1>3, <1>5, <2>1 DEF SequencesSound
  <2>2. CASE j = i
    BY <1>2, <1>4, <1>5, <2>2
  <2>3. CASE h = i
    BY <1>2, <1>4, <1>5, <2>3
  <2> QED BY <2>1, <2>2, <2>3
<1> QED BY <1>5 DEF SequencesSound

\* Rows that are left alone or only change their status stay sound.
LEMMA StillSound ==
    ASSUME SequencesSound, Stored' \subseteq Stored,
           \A j \in Stored' : /\ rounds'[j].level = rounds[j].level
                              /\ rounds'[j].order = rounds[j].order
                              /\ rounds'[j].final = rounds[j].final
    PROVE  SequencesSound'
<1>1. SUFFICES ASSUME NEW i \in Stored', NEW j \in Stored', i # j, rounds'[i].level = rounds'[j].level
               PROVE  /\ rounds'[i].order # rounds'[j].order
                      /\ ~(rounds'[i].final /\ rounds'[j].final)
  BY DEF SequencesSound
<1>2. i \in Stored /\ j \in Stored /\ rounds[i].level = rounds[j].level
  BY <1>1
<1>3. rounds[i].order # rounds[j].order /\ ~(rounds[i].final /\ rounds[j].final)
  BY <1>1, <1>2 DEF SequencesSound
<1> QED BY <1>3

LEMMA NextSequences == ASSUME IInv, [Next]_vars PROVE SequencesSound'
<1> USE DEF IInv
<1>1. CASE UNCHANGED rounds
  BY <1>1, StillSound DEF Stored, Exists
<1>2. ASSUME NEW r \in Request, Insert(r) PROVE SequencesSound'
  <2>1. CASE UNCHANGED rounds
    BY <2>1, <1>1
  <2>2. ASSUME NEW i \in RoundId, rounds[i] = NoRow, ~Conflicts(req[r].input, None),
               rounds' = [rounds EXCEPT ![i] = WithStatus(req[r].input, "upcoming")]
        PROVE SequencesSound'
    <3>1. i \notin Stored
      BY <2>2 DEF Stored, Exists, NoRow
    <3> QED BY <2>2, <3>1, WrittenSound DEF TypeOK
  <2> QED BY <1>2, <2>1, <2>2 DEF Insert
<1>3. ASSUME NEW r \in Request, Update(r) PROVE SequencesSound'
  <2>1. CASE UNCHANGED rounds
    BY <2>1, <1>1
  <2>2. CASE ~UNCHANGED rounds
    <3>1. /\ req[r].id \in RoundId
          /\ ~Conflicts(req[r].input, req[r].id)
          /\ rounds' = [rounds EXCEPT ![req[r].id] =
                          WithStatus(req[r].input, rounds[req[r].id].status)]
      BY <1>3, <2>2 DEF Update, RequestCoherent
    <3> QED BY <3>1, WrittenSound DEF TypeOK
  <2> QED BY <2>1, <2>2
<1>4. ASSUME NEW i \in RoundId, StartRound(i) \/ EndRound(i) PROVE SequencesSound'
  <2>1. PICK row \in Row : row = rounds[i]
    BY <1>4 DEF StartRound, EndRound, SetStatus, NoRow, DeletedRow, TypeOK
  <2>2. PICK to \in {"ongoing", "ended"} : rounds' = [rounds EXCEPT ![i] = [row EXCEPT !.status = to]]
    BY <1>4, <2>1 DEF StartRound, EndRound, SetStatus
  <2>3. /\ [row EXCEPT !.status = to].level = row.level
        /\ [row EXCEPT !.status = to].order = row.order
        /\ [row EXCEPT !.status = to].final = row.final
    BY DEF Row
  <2>4. \A j \in Stored' : /\ j \in Stored
                           /\ rounds'[j].level = rounds[j].level
                           /\ rounds'[j].order = rounds[j].order
                           /\ rounds'[j].final = rounds[j].final
    BY <2>1, <2>2, <2>3 DEF Stored, Exists, TypeOK, Row
  <2> QED BY <2>4, StillSound
<1>5. ASSUME NEW i \in RoundId, DeleteRound(i) PROVE SequencesSound'
  <2>1. \A j \in Stored' : j \in Stored /\ rounds'[j] = rounds[j]
    BY <1>5 DEF DeleteRound, Stored, Exists, TypeOK, DeletedRow
  <2> QED BY <2>1, StillSound
<1> QED
  BY <1>1, <1>2, <1>3, <1>4, <1>5 DEF Next, Tick, StudentChanges, Send, CheckNoOtherFinal,
     LoadForUpdate, LoadEnded, Record, ReplyRankTaken, LoadForEnter, CheckUser, RecheckUser,
     CheckRegistration, FindPrevious, CheckDecision, ReplyAllowed, Abort, vars

LEMMA NextAfterEnd == ASSUME IInv, [Next]_vars PROVE DecisionsAfterEnd'
<1> USE DEF IInv
<1>0. Forward
  BY NextForward
<1>1. CASE UNCHANGED decisions /\ \A i \in RoundId : rounds[i].status = "ended" => rounds'[i].status = "ended"
  BY <1>1 DEF DecisionsAfterEnd, NoDecisions
<1>2. ASSUME NEW r \in Request, Record(r) PROVE DecisionsAfterEnd'
  <2>1. /\ req[r].id \in RoundId
        /\ Exists(req[r].id) => rounds[req[r].id].status = "ended"
    BY <1>2 DEF Record, RequestCoherent, Exists
  <2>2. \A i \in RoundId : decisions'[i] = decisions[i] \/ (i = req[r].id /\ Exists(i))
    BY <1>2, <2>1 DEF Record, TypeOK
  <2>3. UNCHANGED rounds
    BY <1>2 DEF Record
  <2> QED BY <2>1, <2>2, <2>3 DEF DecisionsAfterEnd, NoDecisions
<1>3. ASSUME NEW i \in RoundId, DeleteRound(i) PROVE DecisionsAfterEnd'
  BY <1>3 DEF DeleteRound, DecisionsAfterEnd, NoDecisions, TypeOK
<1>4. ASSUME NEW r \in Request, Insert(r) \/ Update(r)
      PROVE  \A i \in RoundId : rounds[i].status = "ended" => rounds'[i].status = "ended"
  BY <1>4 DEF Insert, Update, WithStatus, NoRow, TypeOK
<1>5. ASSUME NEW i \in RoundId, StartRound(i) \/ EndRound(i)
      PROVE  \A j \in RoundId : rounds[j].status = "ended" => rounds'[j].status = "ended"
  BY <1>5 DEF StartRound, EndRound, SetStatus, TypeOK
<1> QED
  BY <1>1, <1>2, <1>3, <1>4, <1>5 DEF Next, Tick, StudentChanges, StartRound, EndRound, SetStatus,
     Send, CheckNoOtherFinal, Insert, LoadForUpdate, Update, LoadEnded, ReplyRankTaken, LoadForEnter,
     CheckUser, RecheckUser, CheckRegistration, FindPrevious, CheckDecision, ReplyAllowed, Abort, vars

LEMMA NextRanks == ASSUME IInv, [Next]_vars PROVE RanksSound'
<1> USE DEF IInv
<1>1. CASE UNCHANGED decisions
  BY <1>1 DEF RanksSound, RanksUnique
<1>2. ASSUME NEW r \in Request, Record(r), decisions' # decisions PROVE RanksSound'
  <2>1. PICK i \in RoundId, b \in Batch, f \in BOOLEAN :
           i = req[r].id /\ b = req[r].batch /\ ValidBatch(b, f)
    BY <1>2 DEF Record, RequestCoherent
  <2>2. Accepted(i, b) /\ decisions' = [decisions EXCEPT ![i] = After(i, b, Len(b))]
    BY <1>2, <2>1 DEF Record
  <2>3. RanksUnique(After(i, b, Len(b)))
    <3>1. b \in Seq(DecisionRow)
      OBVIOUS
    <3>2. Len(b) \in 1..Len(b)
      BY <2>1, <3>1 DEF ValidBatch
    <3> QED BY <2>2, <3>2 DEF Accepted
  <2>4. \A u \in Student : After(i, b, Len(b))[u].rank > 0 <=> After(i, b, Len(b))[u].status = "winner"
    BY <2>1, AfterRanked
  <2>5. decisions'[i] = After(i, b, Len(b)) /\ \A j \in RoundId : j # i => decisions'[j] = decisions[j]
    BY <2>2 DEF TypeOK
  <2> HIDE DEF IInv
  <2>6. RanksSound
    BY DEF IInv
  <2>7. ASSUME NEW j \in RoundId
        PROVE  /\ RanksUnique(decisions'[j])
               /\ \A u \in Student : decisions'[j][u].rank > 0 <=> decisions'[j][u].status = "winner"
    <3>1. CASE j = i
      BY <2>3, <2>4, <2>5, <3>1
    <3>2. CASE j # i
      BY <2>5, <2>6, <3>2 DEF RanksSound
    <3> QED BY <3>1, <3>2
  <2> QED BY <2>7 DEF RanksSound, RanksUnique
<1>3. ASSUME NEW i \in RoundId, DeleteRound(i) PROVE RanksSound'
  <2>1. RanksUnique(NoDecisions) /\ \A u \in Student : NoDecisions[u].rank > 0 <=> NoDecisions[u].status = "winner"
    BY DEF NoDecisions, Undecided, RanksUnique
  <2>2. decisions'[i] = NoDecisions /\ \A j \in RoundId : j # i => decisions'[j] = decisions[j]
    BY <1>3 DEF DeleteRound, TypeOK
  <2> QED BY <2>1, <2>2 DEF RanksSound, RanksUnique
<1> QED
  BY <1>1, <1>2, <1>3 DEF Next, Tick, StudentChanges, StartRound, EndRound, SetStatus, Send,
     CheckNoOtherFinal, Insert, LoadForUpdate, Update, LoadEnded, ReplyRankTaken, LoadForEnter,
     CheckUser, RecheckUser, CheckRegistration, FindPrevious, CheckDecision, ReplyAllowed, Abort, vars

-----------------------------------------------------------------------------
LEMMA CoherentKept ==
    ASSUME Forward, NEW r \in Request, RequestCoherent(r), req'[r] = req[r]
    PROVE  RequestCoherent(r)'
BY DEF Forward, RequestCoherent, LateGate

LEMMA NextCoherent ==
    ASSUME IInv, [Next]_vars, NEW q \in Request PROVE RequestCoherent(q)'
<1> USE DEF IInv
<1>0. Forward
  BY NextForward
<1>a. ASSUME req'[q] = req[q] PROVE RequestCoherent(q)'
  BY <1>0, <1>a, CoherentKept
<1>b. ASSUME req'[q] = Idle PROVE RequestCoherent(q)'
  BY <1>b DEF RequestCoherent, Idle, LateGate
<1>c. ASSUME NEW r \in Request, End(r) PROVE RequestCoherent(q)'
  BY <1>c, <1>a, <1>b DEF End, TypeOK
<1>d. ASSUME NEW r \in Request, NEW p, Goto(r, p), q # r PROVE RequestCoherent(q)'
  BY <1>d, <1>a DEF Goto, TypeOK
<1>e. ASSUME NEW p, Goto(q, p)
      PROVE  req'[q] = [req[q] EXCEPT !.phase = p] /\ req'[q].phase = p
             /\ req'[q].id = req[q].id /\ req'[q].input = req[q].input /\ req'[q].batch = req[q].batch
             /\ req'[q].user = req[q].user /\ req'[q].seen = req[q].seen /\ req'[q].prev = req[q].prev
  BY <1>e DEF Goto, TypeOK, RequestRecord
<1>1. ASSUME NEW r \in Request, Send(r) PROVE RequestCoherent(q)'
  <2>1. CASE q # r
    BY <1>1, <1>a, <2>1 DEF Send, TypeOK
  <2>2. CASE q = r
    BY <1>1, <2>2 DEF Send, Ask, RequestCoherent, LateGate, TypeOK
  <2> QED BY <2>1, <2>2
<1>2. ASSUME NEW r \in Request, CheckNoOtherFinal(r) \/ LoadForUpdate(r) PROVE RequestCoherent(q)'
  <2>1. CASE End(r) \/ q # r
    BY <1>2, <1>c, <1>d, <2>1 DEF CheckNoOtherFinal, LoadForUpdate
  <2>2. CASE ~End(r) /\ q = r
    <3>1. PICK p \in {"checkFinal", "insert", "update"} :
             /\ Goto(q, p)
             /\ req[q].input \in Input
             /\ p = "update" => req[q].id \in RoundId
      BY <1>2, <2>2 DEF CheckNoOtherFinal, LoadForUpdate, RequestCoherent, TypeOK, RequestRecord
    <3> QED BY <1>e, <3>1 DEF RequestCoherent, LateGate
  <2> QED BY <2>1, <2>2
<1>3. ASSUME NEW r \in Request, LoadEnded(r) PROVE RequestCoherent(q)'
  <2>1. CASE End(r) \/ q # r
    BY <1>3, <1>c, <1>d, <2>1 DEF LoadEnded
  <2>2. CASE ~End(r) /\ q = r
    <3>1. /\ Goto(q, "record")
          /\ req[q].id \in RoundId /\ req[q].batch \in Batch
          /\ rounds[req[q].id].status = "ended"
          /\ ValidBatch(req[q].batch, rounds[req[q].id].final)
          /\ UNCHANGED rounds
      BY <1>3, <2>2 DEF LoadEnded, RequestCoherent
    <3>2. rounds[req[q].id].final \in BOOLEAN
      BY <3>1 DEF TypeOK, Row, NoRow, DeletedRow
    <3>3. PICK f \in BOOLEAN : ValidBatch(req[q].batch, f)
      BY <3>1, <3>2
    <3>4. /\ req'[q].phase = "record" /\ req'[q].id \in RoundId /\ req'[q].batch \in Batch
          /\ ValidBatch(req'[q].batch, f)
          /\ rounds'[req'[q].id].status = "ended"
      BY <1>e, <3>1, <3>3
    <3> QED BY <3>4 DEF RequestCoherent, LateGate
  <2> QED BY <2>1, <2>2
<1>4. ASSUME NEW r \in Request, Record(r) PROVE RequestCoherent(q)'
  <2>1. CASE End(r) \/ q # r
    BY <1>4, <1>c, <1>d, <2>1 DEF Record
  <2>2. CASE ~End(r) /\ q = r
    <3>1. Goto(q, "rankTaken") /\ req[q].id \in RoundId
      BY <1>4, <2>2 DEF Record, RequestCoherent
    <3>2. req'[q].phase = "rankTaken" /\ req'[q].id \in RoundId
      BY <1>e, <3>1
    <3> QED BY <3>2 DEF RequestCoherent, LateGate
  <2> QED BY <2>1, <2>2
<1>5. ASSUME NEW r \in Request, LoadForEnter(r) PROVE RequestCoherent(q)'
  <2>1. CASE End(r)
    BY <1>c, <2>1
  <2>2. CASE ~End(r)
    <3>1. PICK row \in Row :
             /\ row = rounds[req[r].id]
             /\ req' = [req EXCEPT ![r].phase = "checkUser", ![r].seen = row]
             /\ req[r].id \in RoundId /\ req[r].user \in Student
             /\ UNCHANGED rounds
      BY <1>5, <2>2 DEF LoadForEnter, Exists, TypeOK, RequestCoherent, NoRow, DeletedRow
    <3>2. q # r => req'[q] = req[q]
      BY <3>1 DEF TypeOK
    <3>3. q = r => req'[q].phase = "checkUser" /\ req'[q].seen = row /\ req'[q].id = req[q].id
                   /\ req'[q].user = req[q].user
      BY <3>1 DEF TypeOK, RequestRecord
    <3> QED BY <1>a, <3>1, <3>2, <3>3 DEF RequestCoherent, LateGate
  <2> QED BY <2>1, <2>2
<1>6. ASSUME NEW r \in Request, CheckUser(r) \/ RecheckUser(r) PROVE RequestCoherent(q)'
  <2>1. CASE End(r) \/ q # r
    BY <1>6, <1>c, <1>d, <2>1 DEF CheckUser, RecheckUser
  <2>2. CASE ~End(r) /\ q = r
    <3>1. PICK p \in {"recheckUser", "registration", "previous"} :
             /\ Goto(q, p)
             /\ req[q].id \in RoundId /\ req[q].user \in Student /\ req[q].seen \in Row
             /\ rounds[req[q].id].status \in {"ongoing", "ended", "deleted"}
             /\ p = "registration" => req[q].seen.order = 1
             /\ UNCHANGED rounds
      BY <1>6, <2>2 DEF CheckUser, RecheckUser, RequestCoherent, LateGate
    <3> QED BY <1>e, <3>1 DEF RequestCoherent, LateGate
  <2> QED BY <2>1, <2>2
<1>7. ASSUME NEW r \in Request, CheckRegistration(r) \/ CheckDecision(r) PROVE RequestCoherent(q)'
  <2>1. CASE End(r) \/ q # r
    BY <1>7, <1>c, <1>d, <2>1 DEF CheckRegistration, CheckDecision
  <2>2. CASE ~End(r) /\ q = r
    <3>1. /\ Goto(q, "allowed")
          /\ req[q].id \in RoundId /\ req[q].user \in Student /\ req[q].seen \in Row
          /\ rounds[req[q].id].status \in {"ongoing", "ended", "deleted"}
          /\ UNCHANGED rounds
      BY <1>7, <2>2 DEF CheckRegistration, CheckDecision, RequestCoherent, LateGate
    <3>2. req[q].seen.order # 1 =>
            /\ req[q].prev \in RoundId
            /\ decisions[req[q].prev][req[q].user].status = "qualified"
      BY <1>7, <2>2 DEF CheckRegistration, CheckDecision, RequestCoherent, LateGate
    <3>3. req[q].seen.order # 1 => rounds[req[q].prev].status = "ended"
      BY <3>1, <3>2 DEF DecisionsAfterEnd, NoDecisions, Undecided
    <3>4. /\ req'[q].phase = "allowed"
          /\ req'[q].id \in RoundId /\ req'[q].user \in Student /\ req'[q].seen \in Row
          /\ rounds'[req'[q].id].status \in {"ongoing", "ended", "deleted"}
          /\ req'[q].seen.order # 1 =>
               req'[q].prev \in RoundId /\ rounds'[req'[q].prev].status = "ended"
      BY <1>e, <3>1, <3>2, <3>3
    <3> QED BY <3>4 DEF RequestCoherent, LateGate
  <2> QED BY <2>1, <2>2
<1>8. ASSUME NEW r \in Request, FindPrevious(r) PROVE RequestCoherent(q)'
  <2>1. CASE End(r)
    BY <1>c, <2>1
  <2>2. CASE ~End(r)
    <3>1. PICK j \in RoundId :
             /\ req' = [req EXCEPT ![r].phase = "decision", ![r].prev = j]
             /\ req[r].id \in RoundId /\ req[r].user \in Student /\ req[r].seen \in Row
             /\ rounds[req[r].id].status \in {"ongoing", "ended", "deleted"}
             /\ UNCHANGED rounds
      BY <1>8, <2>2 DEF FindPrevious, Previous, Stored, RequestCoherent, LateGate
    <3>2. q # r => req'[q] = req[q]
      BY <3>1 DEF TypeOK
    <3>3. q = r => req'[q].phase = "decision" /\ req'[q].seen = req[q].seen /\ req'[q].id = req[q].id
                   /\ req'[q].user = req[q].user /\ req'[q].prev = j
      BY <3>1 DEF TypeOK, RequestRecord
    <3> QED BY <1>a, <3>1, <3>2, <3>3 DEF RequestCoherent, LateGate
  <2> QED BY <2>1, <2>2
<1>9. CASE UNCHANGED req
  BY <1>a, <1>9
<1>10. ASSUME NEW r \in Request,
              Insert(r) \/ Update(r) \/ ReplyRankTaken(r) \/ ReplyAllowed(r) \/ Abort(r)
       PROVE RequestCoherent(q)'
  BY <1>c, <1>10 DEF Insert, Update, ReplyRankTaken, ReplyAllowed, Abort
<1> QED
  BY <1>1, <1>2, <1>3, <1>4, <1>5, <1>6, <1>7, <1>8, <1>9, <1>10 DEF Next, Tick, StudentChanges,
     StartRound, EndRound, SetStatus, DeleteRound, vars

LEMMA NextIInv == ASSUME IInv, [Next]_vars PROVE IInv'
BY NextTypeOK, NextSequences, NextAfterEnd, NextRanks, NextCoherent DEF IInv

LEMMA IInvInvariant == Spec => []IInv
<1>1. IInv /\ [Next]_vars => IInv'
  BY NextIInv
<1> QED BY InitIInv, <1>1, PTL DEF Spec

-----------------------------------------------------------------------------
\* The tables, the students and the requests keep their types.
THEOREM TypeCorrect == Spec => []TypeOK
<1>1. IInv => TypeOK
  BY DEF IInv
<1> QED BY IInvInvariant, <1>1, PTL

\* No interleaving of creations and edits leaves two rounds of a level in one
\* place or a level with two finals.
THEOREM SequencesStaySound == Spec => []SequencesSound
<1>1. IInv => SequencesSound
  BY DEF IInv
<1> QED BY IInvInvariant, <1>1, PTL

\* Decisions are only ever recorded of rounds that are over, although the
\* status is read before the transaction that records them begins.
THEOREM DecidedAfterEnd == Spec => []DecisionsAfterEnd
<1>1. IInv => DecisionsAfterEnd
  BY DEF IInv
<1> QED BY IInvInvariant, <1>1, PTL

\* A rank belongs to one winner, whatever lists of decisions follow each other.
THEOREM RanksStaySound == Spec => []RanksSound
<1>1. IInv => RanksSound
  BY DEF IInv
<1> QED BY IInvInvariant, <1>1, PTL

\* The gate lets nobody into a round that was not started, or past a round
\* that is not over.
THEOREM GateInOrder == Spec => []EntryInOrder
<1>1. IInv => EntryInOrder
  BY DEF IInv, EntryInOrder, RequestCoherent, LateGate
<1> QED BY IInvInvariant, <1>1, PTL

\* What the list of rounds shows as ready is what the gate opens.
THEOREM ListAgreesWithGate == Spec => []ReadyIffMayEnter
<1>1. ASSUME TypeOK, DecisionsAfterEnd, NEW i \in Stored, NEW u \in Student
      PROVE  MayEnter(u, i) <=> YourStatus(u, i) = "ready" /\ clock < rounds[i].start + Duration
  <2>1. CASE decisions[i][u] = Undecided /\ Eligible(u, i)
    BY <2>1 DEF MayEnter, YourStatus, InWindow, Stored
  <2>2. CASE decisions[i][u] = Undecided /\ ~Eligible(u, i)
    BY <2>2 DEF MayEnter, YourStatus
  <2>3. CASE decisions[i][u] # Undecided
    <3>0. i \in RoundId /\ NoDecisions[u] = Undecided
      BY DEF Stored, NoDecisions
    <3>1. rounds[i].status = "ended"
      BY <1>1, <2>3, <3>0 DEF DecisionsAfterEnd
    <3>2. decisions[i][u] \in Decision
      BY <1>1, <3>0 DEF TypeOK
    <3>3. decisions[i][u].status # "ready"
      BY <3>2 DEF Decision
    <3> QED BY <2>3, <3>1, <3>3 DEF MayEnter, YourStatus
  <2> QED BY <2>1, <2>2, <2>3
<1>2. IInv => ReadyIffMayEnter
  BY <1>1 DEF IInv, ReadyIffMayEnter
<1> QED BY IInvInvariant, <1>2, PTL

\* No status is ever taken back, and an id is not used twice: what a request has
\* seen started stays started, and what it has seen ended stays ended or is gone.
THEOREM StatusesMoveForward == Spec => [][Forward]_vars
<1>1. IInv /\ [Next]_vars => Forward
  BY NextForward
<1> QED BY IInvInvariant, <1>1, PTL DEF Spec

-----------------------------------------------------------------------------
(* Winners *)

\* Nobody takes the mark of a final from a round that is over.
FinalStays ==
    \A i \in RoundId : rounds[i].status = "ended" /\ rounds[i].final
        => rounds'[i].status = "deleted" \/ rounds'[i].final

\* What the service checked of a list still holds of the round it is for.
StillValid(r) ==
    req[r].phase = "record" /\ rounds[req[r].id].status = "ended"
        => ValidBatch(req[r].batch, rounds[req[r].id].final)

LEMMA EndedIsRow ==
    ASSUME TypeOK, NEW i \in RoundId, rounds[i].status = "ended" PROVE rounds[i] \in Row
BY DEF TypeOK, NoRow, DeletedRow

LEMMA NextStillValid ==
    ASSUME IInv, [Next]_vars, FinalStays \/ UNCHANGED vars, NEW q \in Request, StillValid(q)
    PROVE  StillValid(q)'
<1> SUFFICES ASSUME req'[q].phase = "record", rounds'[req'[q].id].status = "ended"
             PROVE  ValidBatch(req'[q].batch, rounds'[req'[q].id].final)
  BY DEF StillValid
<1>0. Forward /\ IInv'
  BY NextForward, NextIInv
<1>1. CASE req'[q] = req[q]
  <2> DEFINE i == req[q].id
  <2>1. i \in RoundId /\ rounds[i].status \in {"ended", "deleted"} /\ req[q].batch \in Batch
    BY <1>1 DEF IInv, RequestCoherent
  <2>2. rounds[i].status = "ended"
    BY <1>0, <1>1, <2>1 DEF Forward
  <2>3. ValidBatch(req[q].batch, rounds[i].final)
    BY <1>1, <2>2 DEF StillValid
  <2>4. rounds[i].final \in BOOLEAN /\ rounds'[i].final \in BOOLEAN
    <3>1. rounds[i] \in Row
      BY <2>1, <2>2, EndedIsRow DEF IInv
    <3>2. rounds'[i] \in Row
      BY <1>0, <1>1, <2>1 DEF IInv, TypeOK, NoRow, DeletedRow
    <3> QED BY <3>1, <3>2 DEF Row
  <2>5. rounds[i].final => rounds'[i].final
    BY <1>1, <2>1, <2>2 DEF FinalStays, vars
  <2> QED BY <1>1, <2>3, <2>4, <2>5 DEF ValidBatch
<1>2. CASE LoadEnded(q)
  <2>1. /\ req'[q] = [req[q] EXCEPT !.phase = "record"] /\ UNCHANGED rounds
        /\ ValidBatch(req[q].batch, rounds[req[q].id].final)
    BY <1>2 DEF LoadEnded, Goto, End, Idle, IInv, TypeOK
  <2> QED BY <2>1 DEF IInv, TypeOK, RequestRecord
<1>3. ASSUME req'[q] # req[q] PROVE LoadEnded(q)
  <2> USE DEF IInv
  <2>1. ASSUME NEW p, Goto(q, p) PROVE p = "record"
    BY <2>1 DEF Goto, TypeOK, RequestRecord
  <2>2. ~End(q)
    BY DEF End, Idle, TypeOK
  <2>3. ASSUME NEW r \in Request, r # q, End(r) \/ \E p : Goto(r, p) PROVE FALSE
    BY <1>3, <2>3 DEF End, Goto, TypeOK
  <2>4. ASSUME NEW r \in Request,
               Send(r) \/ LoadForEnter(r) \/ FindPrevious(r)
        PROVE  FALSE
    <3>1. r = q
      BY <1>3, <2>4 DEF Send, LoadForEnter, FindPrevious, End, TypeOK
    <3>2. ~Send(q)
      BY DEF Send, Ask, TypeOK
    <3>3. ASSUME LoadForEnter(q) PROVE FALSE
      <4>1. req' = [req EXCEPT ![q].phase = "checkUser", ![q].seen = rounds[req[q].id]]
        BY <2>2, <3>3 DEF LoadForEnter
      <4> QED BY <4>1 DEF TypeOK, RequestRecord
    <3>4. ASSUME FindPrevious(q) PROVE FALSE
      <4>1. PICK j : req' = [req EXCEPT ![q].phase = "decision", ![q].prev = j]
        BY <2>2, <3>4 DEF FindPrevious
      <4> QED BY <4>1 DEF TypeOK, RequestRecord
    <3> QED BY <2>4, <3>1, <3>2, <3>3, <3>4
  <2>5. ASSUME NEW r \in Request,
               \/ CheckNoOtherFinal(r) \/ Insert(r) \/ LoadForUpdate(r) \/ Update(r) \/ Record(r)
               \/ ReplyRankTaken(r) \/ CheckUser(r) \/ RecheckUser(r) \/ CheckRegistration(r)
               \/ CheckDecision(r) \/ ReplyAllowed(r) \/ Abort(r)
        PROVE  FALSE
    <3>1. End(r) \/ \E p : Goto(r, p)
      BY <2>5 DEF CheckNoOtherFinal, Insert, LoadForUpdate, Update, Record, ReplyRankTaken, CheckUser,
         RecheckUser, CheckRegistration, CheckDecision, ReplyAllowed, Abort
    <3>2. r = q
      BY <2>3, <3>1
    <3> QED
      BY <2>1, <2>2, <2>5, <3>2 DEF CheckNoOtherFinal, Insert, LoadForUpdate, Update, Record,
         ReplyRankTaken, CheckUser, RecheckUser, CheckRegistration, CheckDecision, ReplyAllowed, Abort
  <2>6. ASSUME NEW r \in Request, LoadEnded(r) PROVE r = q
    BY <2>3, <2>6 DEF LoadEnded
  <2>7. ~UNCHANGED req
    BY <1>3
  <2> HIDE DEF IInv
  <2> QED BY <2>4, <2>5, <2>6, <2>7 DEF Next, Tick, StudentChanges, StartRound, EndRound, SetStatus,
             DeleteRound, vars
<1> QED BY <1>1, <1>2, <1>3

\* A new winner stands in a list that was valid for the round as it is now.
LEMMA NextWinners ==
    ASSUME IInv, \A r \in Request : StillValid(r), [Next]_vars, NEW i \in RoundId, NEW u \in Student,
           decisions'[i][u] # decisions[i][u], decisions'[i][u].status = "winner"
    PROVE  rounds[i].final
<1> USE DEF IInv
<1>1. ASSUME NEW r \in Request, Record(r) PROVE rounds[i].final
  <2>1. /\ i = req[r].id /\ Exists(i) /\ req[r].batch \in Batch
        /\ decisions' = [decisions EXCEPT ![i] = After(i, req[r].batch, Len(req[r].batch))]
    BY <1>1 DEF Record, RequestCoherent, TypeOK
  <2>2. PICK b \in Batch : b = req[r].batch
    BY <2>1
  <2>3. ValidBatch(b, rounds[i].final)
    BY <1>1, <2>1, <2>2 DEF Record, RequestCoherent, StillValid, Exists
  <2> DEFINE own == {j \in 1..Len(b) : b[j].user = u}
             last == CHOOSE j \in own : \A h \in own : h <= j
  <2>4. decisions'[i][u] = After(i, b, Len(b))[u]
    BY <2>1, <2>2 DEF TypeOK
  <2>5. own # {} /\ b[last].status = "winner"
    BY <2>4 DEF After
  <2>6. last \in 1..Len(b)
    <3>1. Len(b) \in Nat /\ own \subseteq 1..Len(b)
      OBVIOUS
    <3> QED BY <2>5, <3>1, LastDecision
  <2> HIDE DEF last
  <2> QED BY <2>3, <2>5, <2>6 DEF ValidBatch
<1>2. ASSUME NEW j \in RoundId, DeleteRound(j) PROVE FALSE
  BY <1>2 DEF DeleteRound, NoDecisions, Undecided, TypeOK
<1>3. ~UNCHANGED decisions
  OBVIOUS
<1> HIDE DEF IInv
<1> QED
  BY <1>1, <1>2, <1>3 DEF Next, Tick, StudentChanges, StartRound, EndRound, SetStatus, Send,
     CheckNoOtherFinal, Insert, LoadForUpdate, Update, LoadEnded, ReplyRankTaken, LoadForEnter,
     CheckUser, RecheckUser, CheckRegistration, FindPrevious, CheckDecision, ReplyAllowed, Abort, vars

\* Only a final round records a winner, as long as no edit takes the mark of a
\* final from a round that is over: that is the one way around the check, and
\* it is open.
THEOREM WinnersWhileFinalsStay == Spec /\ [][FinalStays]_vars => WinnersOfFinals
<1> DEFINE Inv == IInv /\ \A r \in Request : StillValid(r)
           Won == \A i \in RoundId, u \in Student :
                     decisions'[i][u] # decisions[i][u] /\ decisions'[i][u].status = "winner"
                       => rounds[i].final
<1>1. Init => Inv
  BY InitIInv DEF Init, StillValid, Idle
<1>2. Inv /\ [Next]_vars /\ [FinalStays]_vars => Inv'
  BY NextIInv, NextStillValid DEF vars
<1>3. Inv /\ [Next]_vars => Won
  BY NextWinners
<1>4. WinnersOfFinals <=> [][Won]_vars
  BY PTL DEF WinnersOfFinals
<1> QED BY <1>1, <1>2, <1>3, <1>4, PTL DEF Spec
=============================================================================
