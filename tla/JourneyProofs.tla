--------------------------- MODULE JourneyProofs ----------------------------
(***************************************************************************)
(* Proofs about Registrations and about Journey, which extends it, for any *)
(* sets of students, admins, events, payments, rows, files, levels, rounds *)
(* and requests.                                                           *)
(***************************************************************************)
EXTENDS Journey, TLAPS

-----------------------------------------------------------------------------
(* The invariants of Registrations *)

\* What a request may rely on in each phase although it let go of the
\* database since it read the row: approval is final, so what an upload read
\* stays true.
RequestCoherent(r) ==
    /\ req[r].phase \in {"loadEvent", "insert"} =>
         req[r].user \in User /\ req[r].event \in Event /\ req[r].trx \in Trx
    /\ req[r].phase = "review" =>
         /\ req[r].reg \in RegId
         /\ req[r].admin \in Admin
         /\ req[r].decision \in {"approved", "rejected"}
    /\ req[r].phase \in {"loadRejected", "unreject", "checkApproved", "save", "attach", "notify"} =>
         req[r].reg \in RegId
    /\ req[r].phase \in {"save", "attach", "notify"} =>
         /\ StatusIs(req[r].reg, "approved")
         /\ regs[req[r].reg].user = req[r].user
    /\ req[r].phase = "attach" =>
         /\ req[r].file \in File
         /\ files[req[r].file] = req[r].user
    /\ req[r].phase = "notify" => regs[req[r].reg].card # None

IInv ==
    /\ TypeOK
    /\ OneRegistrationEach
    /\ ReviewerIffDecided
    /\ CardSound
    /\ NotifiedHasCard
    /\ \A r \in Request : RequestCoherent(r)

\* Rows and files stay and keep their owners, approval and cards are final.
Kept ==
    /\ \A i \in RegId : Exists(i) =>
         /\ Exists(i)'
         /\ regs'[i].user = regs[i].user
         /\ regs'[i].event = regs[i].event
         /\ regs'[i].trx = regs[i].trx
         /\ regs[i].status = "approved" => regs'[i].status = "approved"
         /\ regs[i].card # None => regs'[i].card # None
    /\ \A f \in File : files[f] # None => files'[f] = files[f]

-----------------------------------------------------------------------------
LEMMA InitIInv == Init => IInv
BY NoneAssumption DEF Init, IInv, TypeOK, OneRegistrationEach, ReviewerIffDecided, CardSound,
   NotifiedHasCard, RequestCoherent, Stored, Exists, Idle, RequestRecord, Phase, NoRow

LEMMA NextKeeps == ASSUME IInv, [Next]_vars PROVE Kept
<1> USE NoneAssumption DEF IInv, TypeOK, Kept, Exists
<1>1. CASE UNCHANGED <<regs, files>>
  BY <1>1
<1>2. ASSUME NEW r \in Request, Insert(r) PROVE Kept
  BY <1>2 DEF Insert, Stored
<1>3. ASSUME NEW r \in Request, Review(r) PROVE Kept
  BY <1>3 DEF Review, StatusIs, Row, NoRow, RequestCoherent
<1>4. ASSUME NEW r \in Request, Unreject(r) PROVE Kept
  BY <1>4 DEF Unreject, StatusIs, Row, NoRow, RequestCoherent
<1>5. ASSUME NEW r \in Request, Attach(r) PROVE Kept
  BY <1>5 DEF Attach, StatusIs, Row, NoRow, RequestCoherent
<1>6. ASSUME NEW r \in Request, Save(r) PROVE Kept
  BY <1>6 DEF Save
<1> QED
  BY <1>1, <1>2, <1>3, <1>4, <1>5, <1>6 DEF Next, ToggleEvent, Send, LoadEvent, LoadRejected,
     CheckApproved, Notify, Abort, vars

LEMMA PhaseMoved ==
    ASSUME TypeOK, NEW r \in Request, NEW p \in Phase, Goto(r, p)
    PROVE  req' \in [Request -> RequestRecord]
BY DEF TypeOK, RequestRecord, Goto

LEMMA RequestEnded ==
    ASSUME TypeOK, NEW r \in Request, End(r)
    PROVE  req' \in [Request -> RequestRecord]
BY DEF TypeOK, RequestRecord, End, Idle, Phase

LEMMA FileChosen ==
    ASSUME NEW q \in RequestRecord, NEW f \in File
    PROVE  [q EXCEPT !.phase = "attach", !.file = f] \in RequestRecord
BY DEF RequestRecord, Phase

LEMMA NextTypeOK == ASSUME IInv, [Next]_vars PROVE TypeOK'
<1> USE NoneAssumption DEF IInv
<1>1. ASSUME NEW e \in Event, ToggleEvent(e) PROVE TypeOK'
  BY <1>1 DEF ToggleEvent, TypeOK
<1>2. ASSUME NEW r \in Request, Send(r) PROVE TypeOK'
  BY <1>2 DEF Send, TypeOK, Application, Decision, About, RequestRecord, Phase
<1>3. ASSUME NEW r \in Request, LoadEvent(r) \/ LoadRejected(r) \/ Notify(r) \/ Abort(r) PROVE TypeOK'
  <2>1. req' \in [Request -> RequestRecord]
    BY <1>3, RequestEnded, PhaseMoved DEF LoadEvent, LoadRejected, Notify, Abort, Phase
  <2>2. notified' \subseteq RegId
    BY <1>3 DEF LoadEvent, LoadRejected, Notify, Abort, TypeOK, RequestCoherent
  <2> QED BY <1>3, <2>1, <2>2 DEF LoadEvent, LoadRejected, Notify, Abort, TypeOK
<1>4. ASSUME NEW r \in Request, Insert(r) PROVE TypeOK'
  <2>1. NewRow(r) \in Row
    BY <1>4 DEF NewRow, Row, Insert, RequestCoherent
  <2>2. regs' \in [RegId -> Row \cup {NoRow}]
    BY <1>4, <2>1 DEF Insert, TypeOK
  <2> QED BY <1>4, <2>2, RequestEnded DEF Insert, TypeOK
<1>5. ASSUME NEW r \in Request, Review(r) PROVE TypeOK'
  <2>1. regs' \in [RegId -> Row \cup {NoRow}]
    BY <1>5 DEF Review, StatusIs, Exists, Row, TypeOK, RequestCoherent
  <2> QED BY <1>5, <2>1, RequestEnded DEF Review, TypeOK
<1>6. ASSUME NEW r \in Request, Unreject(r) PROVE TypeOK'
  <2>1. regs' \in [RegId -> Row \cup {NoRow}]
    BY <1>6 DEF Unreject, StatusIs, Exists, Row, TypeOK, RequestCoherent
  <2> QED BY <1>6, <2>1, RequestEnded DEF Unreject, TypeOK
<1>7. ASSUME NEW r \in Request, CheckApproved(r) PROVE TypeOK'
  <2>1. CASE StatusIs(req[r].reg, "approved")
    <3>1. regs[req[r].reg].user \in User
      BY <1>7, <2>1 DEF CheckApproved, StatusIs, Exists, Row, TypeOK, RequestCoherent
    <3>2. req' \in [Request -> RequestRecord]
      BY <1>7, <2>1, <3>1 DEF CheckApproved, RequestRecord, Phase, TypeOK
    <3> QED BY <1>7, <3>2 DEF CheckApproved, TypeOK
  <2>2. CASE ~StatusIs(req[r].reg, "approved")
    BY <1>7, <2>2, RequestEnded DEF CheckApproved, TypeOK
  <2> QED BY <2>1, <2>2
<1>8. ASSUME NEW r \in Request, Save(r) PROVE TypeOK'
  <2>1. PICK f \in File : /\ files' = [files EXCEPT ![f] = req[r].user]
                          /\ req' = [req EXCEPT ![r].phase = "attach", ![r].file = f]
    BY <1>8 DEF Save
  <2>2. req[r].user \in User
    BY <1>8 DEF Save, RequestCoherent, StatusIs, Exists, Row, TypeOK
  <2>3. files' \in [File -> User \cup {None}]
    BY <2>1, <2>2 DEF TypeOK
  <2>4. [req[r] EXCEPT !.phase = "attach", !.file = f] \in RequestRecord
    BY FileChosen DEF TypeOK
  <2>5. req' \in [Request -> RequestRecord]
    BY <2>1, <2>4 DEF TypeOK
  <2> QED BY <1>8, <2>3, <2>5 DEF Save, TypeOK
<1>9. ASSUME NEW r \in Request, Attach(r) PROVE TypeOK'
  <2>1. regs' \in [RegId -> Row \cup {NoRow}]
    BY <1>9 DEF Attach, StatusIs, Exists, Row, TypeOK, RequestCoherent
  <2>2. req' \in [Request -> RequestRecord]
    BY <1>9, RequestEnded, PhaseMoved DEF Attach, Phase
  <2> QED BY <1>9, <2>1, <2>2 DEF Attach, TypeOK
<1>10. CASE UNCHANGED vars
  BY <1>10 DEF vars, TypeOK
<1> QED
  BY <1>1, <1>2, <1>3, <1>4, <1>5, <1>6, <1>7, <1>8, <1>9, <1>10 DEF Next

LEMMA NextOneEach == ASSUME IInv, [Next]_vars PROVE OneRegistrationEach'
<1> USE NoneAssumption DEF IInv
<1>1. Kept
  BY NextKeeps
<1>2. CASE \A i \in RegId : Exists(i)' => Exists(i)
  <2>1. \A i \in RegId : Exists(i)' => /\ Exists(i)
                                       /\ regs'[i].trx = regs[i].trx
                                       /\ regs'[i].user = regs[i].user
                                       /\ regs'[i].event = regs[i].event
    BY <1>1, <1>2 DEF Kept
  <2> QED BY <2>1 DEF OneRegistrationEach, Stored
<1>3. ASSUME NEW r \in Request, Insert(r) PROVE OneRegistrationEach'
  <2>1. CASE UNCHANGED regs
    BY <2>1 DEF OneRegistrationEach, Stored, Exists
  <2>2. ASSUME ~Conflicts(r), NEW i \in RegId \ Stored, regs' = [regs EXCEPT ![i] = NewRow(r)]
        PROVE OneRegistrationEach'
    <3>1. \A j \in Stored' : j # i => j \in Stored /\ regs'[j] = regs[j]
      BY <2>2 DEF Stored, Exists, TypeOK
    <3>2. regs'[i].trx = req[r].trx /\ regs'[i].user = req[r].user /\ regs'[i].event = req[r].event
      BY <2>2 DEF NewRow, TypeOK
    <3> QED BY <2>2, <3>1, <3>2 DEF OneRegistrationEach, Conflicts
  <2> QED BY <1>3, <2>1, <2>2 DEF Insert
<1>4. ASSUME NEW r \in Request, Review(r) \/ Unreject(r) \/ Attach(r)
      PROVE \A i \in RegId : Exists(i)' => Exists(i)
  BY <1>4 DEF Review, Unreject, Attach, Exists, StatusIs, TypeOK, RequestCoherent
<1>5. CASE UNCHANGED regs
  BY <1>5 DEF OneRegistrationEach, Stored, Exists
<1> QED
  BY <1>2, <1>3, <1>4, <1>5 DEF Next, ToggleEvent, Send, LoadEvent, LoadRejected,
     CheckApproved, Save, Notify, Abort, vars

LEMMA NextReviewer == ASSUME IInv, [Next]_vars PROVE ReviewerIffDecided'
<1> USE NoneAssumption DEF IInv, ReviewerIffDecided, Stored, Exists
<1>1. CASE UNCHANGED regs
  BY <1>1
<1>2. ASSUME NEW r \in Request, Insert(r) PROVE ReviewerIffDecided'
  BY <1>2 DEF Insert, NewRow, TypeOK
<1>3. ASSUME NEW r \in Request, Review(r) PROVE ReviewerIffDecided'
  BY <1>3 DEF Review, StatusIs, TypeOK, Row, RequestCoherent
<1>4. ASSUME NEW r \in Request, Unreject(r) PROVE ReviewerIffDecided'
  BY <1>4 DEF Unreject, StatusIs, TypeOK, Row, RequestCoherent
<1>5. ASSUME NEW r \in Request, Attach(r) PROVE ReviewerIffDecided'
  BY <1>5 DEF Attach, StatusIs, TypeOK, Row, RequestCoherent
<1> QED
  BY <1>1, <1>2, <1>3, <1>4, <1>5 DEF Next, ToggleEvent, Send, LoadEvent, LoadRejected,
     CheckApproved, Save, Notify, Abort, vars

LEMMA NextCardSound == ASSUME IInv, [Next]_vars PROVE CardSound'
<1> USE NoneAssumption DEF IInv
<1>0. Kept /\ TypeOK'
  BY NextKeeps, NextTypeOK
<1>1. CASE UNCHANGED regs
  <2>1. \A i \in Stored : regs[i].card # None => regs[i].card \in File /\ files[regs[i].card] # None
    BY DEF CardSound, Stored, Exists, TypeOK, Row
  <2> QED BY <1>0, <1>1, <2>1 DEF CardSound, Kept, Stored, Exists
<1>2. ASSUME NEW r \in Request, Insert(r) PROVE CardSound'
  BY <1>2 DEF Insert, NewRow, TypeOK, CardSound, Stored, Exists
<1>3. ASSUME NEW r \in Request, Review(r) \/ Unreject(r) PROVE CardSound'
  <2>1. \A i \in Stored' :
           /\ i \in Stored
           /\ regs'[i].user = regs[i].user
           /\ regs'[i].card = regs[i].card
           /\ regs[i].status = "approved" => regs'[i].status = "approved"
    BY <1>3 DEF Review, Unreject, StatusIs, TypeOK, Row, RequestCoherent, Stored, Exists
  <2>2. UNCHANGED files
    BY <1>3 DEF Review, Unreject
  <2> QED BY <2>1, <2>2 DEF CardSound
<1>4. ASSUME NEW r \in Request, Attach(r) PROVE CardSound'
  BY <1>4 DEF Attach, StatusIs, TypeOK, Row, RequestCoherent, CardSound, Stored, Exists
<1> QED
  BY <1>1, <1>2, <1>3, <1>4 DEF Next, ToggleEvent, Send, LoadEvent, LoadRejected,
     CheckApproved, Save, Notify, Abort, vars

LEMMA NextNotified == ASSUME IInv, [Next]_vars PROVE NotifiedHasCard'
<1> USE NoneAssumption DEF IInv
<1>0. Kept
  BY NextKeeps
<1>1. CASE UNCHANGED notified
  BY <1>0, <1>1 DEF NotifiedHasCard, Kept, TypeOK
<1>2. ASSUME NEW r \in Request, Notify(r) PROVE NotifiedHasCard'
  BY <1>2 DEF Notify, NotifiedHasCard, RequestCoherent, StatusIs, Exists
<1> QED
  BY <1>1, <1>2 DEF Next, ToggleEvent, Send, LoadEvent, Insert, Review, LoadRejected, Unreject,
     CheckApproved, Save, Attach, Abort, vars

LEMMA CoherentKept ==
    ASSUME TypeOK, Kept, NEW r \in Request, RequestCoherent(r), req'[r] = req[r]
    PROVE  RequestCoherent(r)'
<1>1. req[r].user # None => (req[r].phase = "attach" => files'[req[r].file] = files[req[r].file])
  BY DEF Kept, RequestCoherent
<1>2. req[r].phase = "attach" => req[r].user # None
  BY NoneAssumption DEF RequestCoherent, StatusIs, Exists, TypeOK, Row
<1> QED BY <1>1, <1>2 DEF Kept, RequestCoherent, StatusIs, Exists

LEMMA NextCoherent ==
    ASSUME IInv, [Next]_vars, NEW q \in Request PROVE RequestCoherent(q)'
<1> USE NoneAssumption DEF IInv
<1>0. Kept
  BY NextKeeps
<1>a. ASSUME req'[q] = req[q] PROVE RequestCoherent(q)'
  BY <1>0, <1>a, CoherentKept
<1>b. ASSUME req'[q] = Idle PROVE RequestCoherent(q)'
  BY <1>b DEF RequestCoherent, Idle
<1>c. ASSUME NEW r \in Request, End(r) PROVE RequestCoherent(q)'
  BY <1>c, <1>a, <1>b DEF End, TypeOK
<1>1. ASSUME NEW r \in Request, Send(r) PROVE RequestCoherent(q)'
  BY <1>1, <1>a DEF Send, Application, Decision, About, RequestCoherent, TypeOK
<1>2. ASSUME NEW r \in Request, LoadEvent(r) \/ LoadRejected(r) PROVE RequestCoherent(q)'
  BY <1>2, <1>a, <1>c DEF LoadEvent, LoadRejected, Goto, RequestCoherent, TypeOK, RequestRecord
<1>3. ASSUME NEW r \in Request, CheckApproved(r) PROVE RequestCoherent(q)'
  BY <1>3, <1>a, <1>c DEF CheckApproved, RequestCoherent, TypeOK, RequestRecord, StatusIs, Exists
<1>4. ASSUME NEW r \in Request, Save(r) PROVE RequestCoherent(q)'
  BY <1>4, <1>a DEF Save, RequestCoherent, TypeOK, RequestRecord, StatusIs, Exists
<1>5. ASSUME NEW r \in Request, Attach(r) PROVE RequestCoherent(q)'
  <2>1. CASE q # r
    BY <1>5, <2>1, <1>a, <1>c DEF Attach, Goto, TypeOK
  <2>2. CASE q = r
    BY <1>5, <2>2, <1>c DEF Attach, Goto, RequestCoherent, TypeOK, RequestRecord, Row, StatusIs,
       Exists, NoRow
  <2> QED BY <2>1, <2>2
<1>6. ASSUME NEW e \in Event, ToggleEvent(e) PROVE RequestCoherent(q)'
  BY <1>6, <1>a DEF ToggleEvent
<1> QED
  BY <1>a, <1>c, <1>1, <1>2, <1>3, <1>4, <1>5, <1>6 DEF Next, Insert, Review, Unreject, Notify,
     Abort, vars

LEMMA NextIInv == ASSUME IInv, [Next]_vars PROVE IInv'
BY NextTypeOK, NextOneEach, NextReviewer, NextCardSound, NextNotified, NextCoherent DEF IInv

LEMMA IInvInvariant == Spec => []IInv
<1>1. IInv /\ [Next]_vars => IInv'
  BY NextIInv
<1> QED BY InitIInv, <1>1, PTL DEF Spec

\* The table, the files and the requests keep their types.
THEOREM TypeCorrect == Spec => []TypeOK
<1>1. IInv => TypeOK
  BY DEF IInv
<1> QED BY IInvInvariant, <1>1, PTL

\* However many submissions race, no transaction id backs two registrations
\* and no student has two for one event.
THEOREM RegistrationsUnique == Spec => []OneRegistrationEach
<1>1. IInv => OneRegistrationEach
  BY DEF IInv
<1> QED BY IInvInvariant, <1>1, PTL

\* The reviewer is recorded exactly while the row is decided.
THEOREM DecisionsAnsweredFor == Spec => []ReviewerIffDecided
<1>1. IInv => ReviewerIffDecided
  BY DEF IInv
<1> QED BY IInvInvariant, <1>1, PTL

\* An admit card is the owner's stored file and its registration is approved,
\* although the upload checks that long before it writes.
THEOREM CardsSound == Spec => []CardSound
<1>1. IInv => CardSound
  BY DEF IInv
<1> QED BY IInvInvariant, <1>1, PTL

\* Nobody is notified of a card that is not there.
THEOREM NotificationsSound == Spec => []NotifiedHasCard
<1>1. IInv => NotifiedHasCard
  BY DEF IInv
<1> QED BY IInvInvariant, <1>1, PTL

\* Approval and cards are final, and a row keeps its student, event and payment.
THEOREM ApprovalsAreFinal == Spec => [][Kept]_vars
<1>1. IInv /\ [Next]_vars => Kept
  BY NextKeeps
<1> QED BY IInvInvariant, <1>1, PTL DEF Spec

-----------------------------------------------------------------------------
(* Registrations as an implementation of Enrolment *)

SeatOf(i) == <<regs[i].user, regs[i].event>>

\* What the abstract variables say, row by row.
SeatView ==
    /\ \A i \in Stored : /\ SeatOf(i) \in Seat
                         /\ Taken(SeatOf(i))
                         /\ SeatStatus[SeatOf(i)] = regs[i].status
                         /\ SeatPayment[SeatOf(i)] = regs[i].trx
                         /\ SeatOf(i) \in SeatCarded <=> regs[i].card # None
    /\ \A s \in Seat : ~Taken(s) => /\ SeatStatus[s] = "none"
                                    /\ SeatPayment[s] = None
                                    /\ s \notin SeatCarded
    /\ \A s \in Seat : Taken(s) => \E i \in Stored : SeatOf(i) = s

LEMMA SeatViewHolds == TypeOK /\ OneRegistrationEach => SeatView
<1> SUFFICES ASSUME TypeOK, OneRegistrationEach PROVE SeatView
  OBVIOUS
<1>1. \A i \in Stored : SeatOf(i) \in Seat
  BY DEF TypeOK, Stored, Exists, Row, SeatOf, Seat
<1>2. \A i \in Stored : Taken(SeatOf(i))
  BY DEF Taken, SeatOf
<1>3. \A i \in Stored : RowOf(SeatOf(i)) = i
  <2> SUFFICES ASSUME NEW i \in Stored PROVE RowOf(SeatOf(i)) = i
    OBVIOUS
  <2>1. \A j \in Stored : SeatOf(j) = SeatOf(i) => j = i
    BY DEF OneRegistrationEach, SeatOf
  <2>2. RowOf(SeatOf(i)) \in Stored /\ SeatOf(RowOf(SeatOf(i))) = SeatOf(i)
    BY DEF RowOf, SeatOf
  <2> QED BY <2>1, <2>2
<1>4. \A s \in Seat : Taken(s) => \E i \in Stored : SeatOf(i) = s
  BY DEF Taken, SeatOf
<1> QED BY <1>1, <1>2, <1>3, <1>4 DEF SeatView, SeatStatus, SeatPayment, SeatCarded

\* Rows that keep their seat and payment change the view in one seat only.
RowsKept == \A i \in RegId : /\ Exists(i)' <=> Exists(i)
                             /\ Exists(i) => /\ regs'[i].user = regs[i].user
                                             /\ regs'[i].event = regs[i].event
                                             /\ regs'[i].trx = regs[i].trx

LEMMA ViewStutters ==
    ASSUME UNCHANGED regs
    PROVE  UNCHANGED <<SeatStatus, SeatPayment, SeatCarded>>
BY DEF SeatStatus, SeatPayment, SeatCarded, Taken, RowOf, Stored, Exists

LEMMA PaymentKept ==
    ASSUME SeatView, SeatView', RowsKept
    PROVE  SeatPayment' = SeatPayment
<1>1. \A s \in Seat : SeatPayment'[s] = SeatPayment[s]
  BY DEF SeatView, RowsKept, Stored, SeatOf
<1> QED BY <1>1 DEF SeatPayment

LEMMA StatusSet ==
    ASSUME SeatView, SeatView', RowsKept, NEW i \in Stored,
           \A j \in Stored : j # i => regs'[j].status = regs[j].status,
           \A j \in Stored : SeatOf(j) = SeatOf(i) => j = i
    PROVE  SeatStatus' = [SeatStatus EXCEPT ![SeatOf(i)] = regs'[i].status]
<1>1. \A s \in Seat : s # SeatOf(i) => SeatStatus'[s] = SeatStatus[s]
  BY DEF SeatView, RowsKept, Stored, SeatOf
<1>2. SeatStatus'[SeatOf(i)] = regs'[i].status /\ SeatOf(i) \in Seat
  BY DEF SeatView, RowsKept, Stored, SeatOf
<1> QED BY <1>1, <1>2 DEF SeatStatus

LEMMA CardsKept ==
    ASSUME SeatView, SeatView', RowsKept,
           \A j \in Stored : regs'[j].card = regs[j].card
    PROVE  SeatCarded' = SeatCarded
<1>1. \A s \in Seat : s \in SeatCarded' <=> s \in SeatCarded
  BY DEF SeatView, RowsKept, Stored, SeatOf
<1> QED BY <1>1 DEF SeatCarded

LEMMA SeatViewNext == (TypeOK /\ OneRegistrationEach => SeatView)'
BY SeatViewHolds, PTL

LEMMA InsertSubmits ==
    ASSUME IInv, IInv', NEW r \in Request, Insert(r)
    PROVE  [Enrolled!Next]_(Enrolled!vars)
<1> USE NoneAssumption DEF IInv
<1>0. SeatView /\ SeatView'
  BY SeatViewHolds, SeatViewNext
<1>1. CASE UNCHANGED regs
  BY <1>1, ViewStutters DEF Enrolled!vars
<1>2. ASSUME ~Conflicts(r), NEW i \in RegId \ Stored, regs' = [regs EXCEPT ![i] = NewRow(r)]
      PROVE  Enrolled!Next
  <2>1. PICK s \in Seat, p \in Trx : s = <<req[r].user, req[r].event>> /\ p = req[r].trx
    BY <1>2 DEF Insert, RequestCoherent, Seat
  <2>2. \A j \in RegId : j # i => regs'[j] = regs[j]
    BY <1>2 DEF TypeOK
  <2>3. /\ regs'[i].user = req[r].user
        /\ regs'[i].event = req[r].event
        /\ regs'[i].trx = p
        /\ regs'[i].status = "pending"
        /\ regs'[i].card = None
    BY <1>2, <2>1 DEF NewRow, TypeOK
  <2>4. i \in Stored'
    BY <1>2, <2>1, <2>3 DEF Stored, Exists, NoRow, TypeOK, NewRow
  <2>5. ~Taken(s) /\ (\A j \in Stored : regs[j].trx # p)
    BY <1>2, <2>1 DEF Taken, Conflicts
  <2>6. \A t \in Seat : t # s => (Taken(t) <=> Taken(t)')
    <3>1. Stored' = Stored \cup {i}
      BY <2>2, <2>4 DEF Stored, Exists
    <3> QED BY <2>1, <2>2, <2>3, <3>1 DEF Taken, Stored, Seat
  <2>7. \A t \in Seat : t # s => /\ SeatStatus'[t] = SeatStatus[t]
                                 /\ SeatPayment'[t] = SeatPayment[t]
                                 /\ t \in SeatCarded' <=> t \in SeatCarded
    <3> SUFFICES ASSUME NEW t \in Seat, t # s
                 PROVE  /\ SeatStatus'[t] = SeatStatus[t]
                        /\ SeatPayment'[t] = SeatPayment[t]
                        /\ t \in SeatCarded' <=> t \in SeatCarded
      OBVIOUS
    <3>1. CASE ~Taken(t)
      BY <1>0, <2>6, <3>1 DEF SeatView
    <3>2. CASE Taken(t)
      <4>1. PICK j \in Stored : SeatOf(j) = t
        BY <1>0, <3>2 DEF SeatView
      <4>2. j \in Stored' /\ regs'[j] = regs[j] /\ SeatOf(j)' = t
        BY <1>2, <2>2, <4>1 DEF Stored, Exists, SeatOf
      <4> QED BY <1>0, <4>1, <4>2 DEF SeatView
    <3> QED BY <3>1, <3>2
  <2>8. SeatStatus'[s] = "pending" /\ SeatPayment'[s] = p /\ s \notin SeatCarded'
    BY <1>0, <2>1, <2>3, <2>4 DEF SeatView, SeatOf
  <2>9. SeatStatus[s] = "none" /\ s \notin SeatCarded
    BY <1>0, <2>5 DEF SeatView
  <2>10. \A o \in Seat : SeatPayment[o] # p
    BY <1>0, <2>5 DEF SeatView
  <2>11. SeatStatus' = [SeatStatus EXCEPT ![s] = "pending"]
    BY <2>7, <2>8 DEF SeatStatus
  <2>12. SeatPayment' = [SeatPayment EXCEPT ![s] = p]
    BY <2>7, <2>8 DEF SeatPayment
  <2>13. SeatCarded' = SeatCarded
    BY <2>7, <2>8, <2>9 DEF SeatCarded
  <2>14. Enrolled!Submit(s, p)
    BY <2>9, <2>10, <2>11, <2>12, <2>13 DEF Enrolled!Submit
  <2> QED BY <2>14 DEF Enrolled!Next
<1> QED BY <1>1, <1>2 DEF Insert

LEMMA UpdateRefines ==
    ASSUME IInv, IInv', NEW r \in Request, Review(r) \/ Unreject(r) \/ Attach(r)
    PROVE  [Enrolled!Next]_(Enrolled!vars)
<1> USE NoneAssumption DEF IInv
<1>0. SeatView /\ SeatView'
  BY SeatViewHolds, SeatViewNext
<1>1. CASE UNCHANGED regs
  BY <1>1, ViewStutters DEF Enrolled!vars
<1>2. ASSUME regs' # regs PROVE Enrolled!Next
  <2>1. PICK i \in RegId : i = req[r].reg
    BY DEF Review, Unreject, Attach, RequestCoherent
  <2>2. i \in Stored
    BY <1>2, <2>1 DEF Review, Unreject, Attach, StatusIs, Stored
  <2>3. RowsKept /\ \A j \in Stored : j # i => regs'[j] = regs[j]
    BY <2>1 DEF Review, Unreject, Attach, StatusIs, Stored, Exists, RowsKept, TypeOK, NoRow, Row
  <2>4. \A j \in Stored : SeatOf(j) = SeatOf(i) => j = i
    BY <2>2 DEF OneRegistrationEach, SeatOf
  <2>5. SeatPayment' = SeatPayment
    BY <1>0, <2>3, PaymentKept
  <2>6. SeatStatus' = [SeatStatus EXCEPT ![SeatOf(i)] = regs'[i].status]
    BY <1>0, <2>2, <2>3, <2>4, StatusSet
  <2>7. PICK s \in Seat : s = SeatOf(i) /\ SeatStatus[s] = regs[i].status
    BY <1>0, <2>2 DEF SeatView
  <2>8. CASE Review(r)
    <3>1. PICK d \in {"approved", "rejected"} : regs'[i].status = d
      BY <1>2, <2>1, <2>2, <2>8 DEF Review, RequestCoherent, TypeOK, Row, Stored, Exists
    <3>2. regs[i].status = "pending" /\ regs'[i].card = regs[i].card
      BY <1>2, <2>1, <2>2, <2>8 DEF Review, StatusIs, TypeOK, Row, Stored, Exists
    <3>3. SeatCarded' = SeatCarded
      BY <1>0, <2>2, <2>3, <3>2, CardsKept
    <3>4. Enrolled!Decide(s, d)
      BY <2>5, <2>6, <2>7, <3>1, <3>2, <3>3 DEF Enrolled!Decide
    <3> QED BY <3>4 DEF Enrolled!Next
  <2>9. CASE Unreject(r)
    <3>1. regs[i].status = "rejected" /\ regs'[i].status = "pending" /\ regs'[i].card = regs[i].card
      BY <1>2, <2>1, <2>2, <2>9 DEF Unreject, StatusIs, TypeOK, Row, Stored, Exists
    <3>2. SeatCarded' = SeatCarded
      BY <1>0, <2>2, <2>3, <3>1, CardsKept
    <3>3. Enrolled!Reopen(s)
      BY <2>5, <2>6, <2>7, <3>1, <3>2 DEF Enrolled!Reopen
    <3> QED BY <3>3 DEF Enrolled!Next
  <2>10. CASE Attach(r)
    <3>1. regs[i].status = "approved" /\ regs'[i].status = "approved" /\ regs'[i].card = req[r].file
      BY <1>2, <2>1, <2>2, <2>10 DEF Attach, StatusIs, TypeOK, Row, Stored, Exists
    <3>2. req[r].file # None
      BY <2>10 DEF Attach, RequestCoherent
    <3>3. \A t \in Seat : t # s => (t \in SeatCarded' <=> t \in SeatCarded)
      BY <1>0, <2>2, <2>3, <2>7 DEF SeatView, RowsKept, Stored, SeatOf
    <3>4. s \in SeatCarded'
      BY <1>0, <2>2, <2>3, <2>7, <3>1, <3>2 DEF SeatView, RowsKept, Stored, SeatOf
    <3>5. SeatCarded' = SeatCarded \cup {s}
      BY <3>3, <3>4 DEF SeatCarded
    <3>6. SeatStatus' = SeatStatus
      BY <2>6, <2>7, <3>1 DEF SeatStatus
    <3>7. Enrolled!IssueCard(s)
      BY <2>5, <2>7, <3>1, <3>5, <3>6 DEF Enrolled!IssueCard
    <3> QED BY <3>7 DEF Enrolled!Next
  <2> QED BY <2>8, <2>9, <2>10
<1> QED BY <1>1, <1>2

LEMMA NextRefines == ASSUME IInv, IInv', [Next]_vars PROVE [Enrolled!Next]_(Enrolled!vars)
<1>1. CASE UNCHANGED regs
  BY <1>1, ViewStutters DEF Enrolled!vars
<1> QED
  BY <1>1, InsertSubmits, UpdateRefines DEF Next, ToggleEvent, Send, LoadEvent, LoadRejected,
     CheckApproved, Save, Notify, Abort, vars

LEMMA InitRefines == Init => Enrolled!Init
BY NoneAssumption DEF Init, Enrolled!Init, SeatStatus, SeatPayment, SeatCarded, Taken, Stored, Exists

\* Seen student by student, the table behaves as Enrolment: one submission, a
\* decision that only a rejection can be taken back from, cards for the
\* approved.
THEOREM EnrolmentImplemented == Spec => ImplementsEnrolment
<1>1. IInv /\ IInv' /\ [Next]_vars => [Enrolled!Next]_(Enrolled!vars)
  BY NextRefines
<1> QED BY InitRefines, IInvInvariant, <1>1, PTL DEF Spec, ImplementsEnrolment, Enrolled!Spec

-----------------------------------------------------------------------------
(* Journey as an implementation of Rounds *)

AccountLemmas == INSTANCE AccountsProofs WITH
    Code <- {}, Request <- {}, Submission <- Edit, req <- [r \in {} |-> None],
    issued <- [u \in User |-> {}], submitted <- [u \in User |-> {}], vouched <- {u \in User : TRUE}

RoundLemmas == INSTANCE RoundsProofs WITH
    Student <- User, Request <- Gate, req <- gate,
    Profile <- [level : Level \cup {None}, verified : BOOLEAN, approved : BOOLEAN],
    student <- [u \in User |-> AsRead(u)]

Profile == [level : Level \cup {None}, verified : BOOLEAN, approved : BOOLEAN]

\* The sign-up is over: every student has an account, to which AccountsProofs applies.
AccountsInv ==
    /\ AccountLemmas!IInv
    /\ \A u \in User : row[u] \in AccountLemmas!Row

\* What the lemmas of AccountsProofs assume.
LEMMA AccountsAssumed == None \notin User \cup {} \cup Details \cup Doc
BY NoneAssumption, NoValueAssumption

\* A submission's statement here is the one of Accounts.
LEMMA AccountStep ==
    ASSUME NEW s \in Edit, Account!Submit(s) \/ Account!LoadProfile(s)
                           \/ Account!SaveProfile(s) \/ Account!AbortSubmission(s)
    PROVE  AccountLemmas!Next
<1>1. CASE Account!Submit(s)
  <2>1. AccountLemmas!Submit(s)
    BY <1>1 DEF Account!Submit, AccountLemmas!Submit, Account!NoSubmission, AccountLemmas!NoSubmission,
       Account!Exists, AccountLemmas!Exists, Account!NoRow, AccountLemmas!NoRow
  <2> QED BY <2>1 DEF AccountLemmas!Next
<1>2. CASE Account!LoadProfile(s)
  <2>1. AccountLemmas!LoadProfile(s)
    BY <1>2 DEF Account!LoadProfile, AccountLemmas!LoadProfile, Account!NoSubmission,
       AccountLemmas!NoSubmission, Account!Drop, AccountLemmas!Drop, Account!RequiresNewDoc,
       AccountLemmas!RequiresNewDoc
  <2> QED BY <2>1 DEF AccountLemmas!Next
<1>3. CASE Account!SaveProfile(s)
  <2>1. AccountLemmas!SaveProfile(s)
    BY <1>3 DEF Account!SaveProfile, AccountLemmas!SaveProfile, Account!NoSubmission,
       AccountLemmas!NoSubmission, Account!Drop, AccountLemmas!Drop, Account!Profile,
       AccountLemmas!Profile, Account!Overtakes, AccountLemmas!Overtakes
  <2> QED BY <2>1 DEF AccountLemmas!Next
<1>4. CASE Account!AbortSubmission(s)
  <2>1. AccountLemmas!AbortSubmission(s)
    BY <1>4 DEF Account!AbortSubmission, AccountLemmas!AbortSubmission, Account!NoSubmission,
       AccountLemmas!NoSubmission, Account!Drop, AccountLemmas!Drop
  <2> QED BY <2>1 DEF AccountLemmas!Next
<1> QED BY <1>1, <1>2, <1>3, <1>4

\* Seen from Registrations and from Accounts, a step of the whole is a step of theirs.
LEMMA RegistrationSteps == ASSUME [JourneyNext]_journeyVars PROVE [Next]_vars
BY DEF JourneyNext, Onboards, Decides, Registers, Calls, Proceeds, Moves, Tick, Others, journeyVars

LEMMA AccountSteps ==
    ASSUME [JourneyNext]_journeyVars PROVE [AccountLemmas!Next]_(AccountLemmas!vars)
<1>1. ASSUME NEW s \in Edit, Onboards(s) PROVE AccountLemmas!Next
  BY <1>1, AccountStep DEF Onboards
<1>2. ASSUME NEW u \in User, NEW d \in {"verified", "rejected"}, Decides(u, d)
      PROVE  AccountLemmas!Next
  <2>1. AccountLemmas!VerifyUser(u, d)
    BY <1>2 DEF Decides, Account!VerifyUser, AccountLemmas!VerifyUser, Account!Exists,
       AccountLemmas!Exists, Account!NoRow, AccountLemmas!NoRow
  <2> QED BY <2>1 DEF AccountLemmas!Next
<1>3. ASSUME UNCHANGED accountVars PROVE UNCHANGED AccountLemmas!vars
  BY <1>3 DEF accountVars, AccountLemmas!vars
<1> QED
  BY <1>1, <1>2, <1>3 DEF JourneyNext, Registers, Calls, Proceeds, Moves, Tick, Others, journeyVars

LEMMA InitAccounts == JourneyInit => AccountsInv
<1> SUFFICES ASSUME JourneyInit PROVE AccountsInv
  OBVIOUS
<1>1. \A u \in User : row[u] \in AccountLemmas!Row /\ row[u] = AccountLemmas!NewRow(TRUE, FALSE, TRUE)
  BY DEF JourneyInit, Account!NewRow, AccountLemmas!NewRow, AccountLemmas!Row
<1>2. AccountLemmas!TypeOK
  BY <1>1 DEF JourneyInit, AccountLemmas!TypeOK, AccountLemmas!RequestRecord,
     AccountLemmas!SubmissionRecord, AccountLemmas!OnFile, Account!NoSubmission
<1>3. \A s \in Edit : AccountLemmas!Grounded(s)
  BY DEF JourneyInit, AccountLemmas!Grounded, Account!NoSubmission
<1>4. /\ AccountLemmas!VerifiedEmailProved /\ AccountLemmas!AdmittedWithProof
      /\ AccountLemmas!Outstanding /\ AccountLemmas!DecisionOnDocument
      /\ AccountLemmas!OnboardedHasDocument
  BY <1>1 DEF AccountLemmas!VerifiedEmailProved, AccountLemmas!AdmittedWithProof, AccountLemmas!Proved,
     AccountLemmas!Outstanding, AccountLemmas!DecisionOnDocument, AccountLemmas!OnboardedHasDocument,
     AccountLemmas!NewRow
<1> QED BY <1>1, <1>2, <1>3, <1>4 DEF AccountsInv, AccountLemmas!IInv

LEMMA NextAccounts == ASSUME AccountsInv, [JourneyNext]_journeyVars PROVE AccountsInv'
<1>1. [AccountLemmas!Next]_(AccountLemmas!vars)
  BY AccountSteps
<1>2. AccountLemmas!IInv'
  BY <1>1, AccountsAssumed, AccountLemmas!NextIInv DEF AccountsInv
<1>3. AccountLemmas!TableGrows
  BY <1>1, AccountsAssumed, AccountLemmas!NextRow DEF AccountsInv
<1>4. \A u \in User : row[u] # AccountLemmas!NoRow
  BY AccountsAssumed, AccountLemmas!NoRowIsNone DEF AccountsInv
<1> QED BY <1>2, <1>3, <1>4 DEF AccountsInv, AccountLemmas!TableGrows, AccountLemmas!Exists

JInv == IInv /\ AccountsInv

LEMMA JInvInvariant == JourneySpec => []JInv
<1>1. JourneyInit => JInv
  BY InitIInv, InitAccounts DEF JourneyInit, JInv
<1>2. JInv /\ [JourneyNext]_journeyVars => JInv'
  BY RegistrationSteps, NextIInv, NextAccounts DEF JInv
<1> QED BY <1>1, <1>2, PTL DEF JourneySpec

LEMMA ProfileTyped == AccountsInv => \A u \in User : AsRead(u) \in Profile
<1> SUFFICES ASSUME AccountsInv, NEW u \in User PROVE AsRead(u) \in Profile
  OBVIOUS
<1>1. row[u].details \in Details \cup {None}
  BY DEF AccountsInv, AccountLemmas!Row
<1>2. (IF row[u].details = None THEN None ELSE LevelOf[row[u].details]) \in Level \cup {None}
  BY <1>1, LevelAssumption
<1> QED BY <1>2 DEF AsRead, Approved, Profile

LEMMA ProfileTypedNext == (AccountsInv => \A u \in User : AsRead(u) \in Profile)'
BY ProfileTyped, PTL

LEMMA NothingRead ==
    ASSUME UNCHANGED <<row, regs>>
    PROVE  [u \in User |-> AsRead(u)]' = [u \in User |-> AsRead(u)]
BY DEF AsRead, Approved, Stored, Exists

\* What changes of one student only, and no approval of which is lost, Rounds allows for.
LEMMA OneStudentChanges ==
    ASSUME AccountsInv', NEW u \in User, UNCHANGED roundVars,
           \A v \in User : v # u => AsRead(v)' = AsRead(v),
           AsRead(u).approved => AsRead(u)'.approved
    PROVE  Round!Next
<1>1. AsRead(u)' \in Profile
  BY ProfileTypedNext
<1>2. [v \in User |-> AsRead(v)]' = [[v \in User |-> AsRead(v)] EXCEPT ![u] = AsRead(u)']
  OBVIOUS
<1>3. Round!StudentChanges(u)
  BY <1>1, <1>2 DEF Round!StudentChanges, Profile, roundVars
<1> QED BY <1>3 DEF Round!Next

LEMMA ProfileRefines ==
    ASSUME AccountsInv', NEW u \in User, \A v \in User : v # u => row'[v] = row[v],
           UNCHANGED <<regs, roundVars>>
    PROVE  Round!Next
<1>1. \A v \in User : v # u => AsRead(v)' = AsRead(v)
  BY DEF AsRead, Approved, Stored, Exists
<1>2. AsRead(u).approved => AsRead(u)'.approved
  BY DEF AsRead, Approved, Stored, Exists
<1> QED BY <1>1, <1>2, OneStudentChanges

\* A step of Registrations writes one row at most, and a new row is not approved.
LEMMA OneRowWritten ==
    ASSUME IInv, [Next]_vars, regs' # regs
    PROVE  \E i \in RegId : /\ \A j \in RegId : j # i => regs'[j] = regs[j]
                            /\ ~Exists(i) => regs'[i].status = "pending"
<1> USE DEF IInv
<1>1. ASSUME NEW r \in Request, Insert(r)
      PROVE  \E i \in RegId : /\ \A j \in RegId : j # i => regs'[j] = regs[j]
                              /\ ~Exists(i) => regs'[i].status = "pending"
  BY <1>1 DEF Insert, NewRow, TypeOK
<1>2. ASSUME NEW r \in Request, Review(r) \/ Unreject(r) \/ Attach(r)
      PROVE  /\ req[r].reg \in RegId /\ Exists(req[r].reg)
             /\ \A j \in RegId : j # req[r].reg => regs'[j] = regs[j]
  BY <1>2 DEF Review, Unreject, Attach, StatusIs, RequestCoherent, TypeOK
<1> QED BY <1>1, <1>2 DEF Next, ToggleEvent, Send, LoadEvent, LoadRejected, CheckApproved, Save, Notify,
           Abort, vars

\* Approval is final, and one student's at a time.
LEMMA ApprovalRefines ==
    ASSUME JInv, JInv', [Next]_vars, regs' # regs, UNCHANGED <<row, roundVars>>
    PROVE  Round!Next
<1>0. Kept
  BY NextKeeps DEF JInv
<1>1. PICK i \in RegId : /\ \A j \in RegId : j # i => regs'[j] = regs[j]
                         /\ ~Exists(i) => regs'[i].status = "pending"
  BY OneRowWritten DEF JInv
<1>2. Exists(i)'
  <2>1. CASE Exists(i)
    BY <1>0, <2>1 DEF Kept
  <2>2. CASE ~Exists(i)
    <3>1. regs'[i] # regs[i]
      BY <1>1 DEF JInv, IInv, TypeOK
    <3> QED BY <2>2, <3>1 DEF Exists
  <2> QED BY <2>1, <2>2
<1>3. PICK u \in User : u = regs'[i].user
  BY <1>2 DEF JInv, IInv, TypeOK, Exists, Row
<1>4. \A v \in User : Approved(v) => Approved(v)'
  BY <1>0 DEF Kept, Approved, Stored
<1>5. ASSUME NEW v \in User, v # u, Approved(v)' PROVE Approved(v)
  <2>1. PICK j \in Stored' : regs'[j].user = v /\ regs'[j].event = Held /\ regs'[j].status = "approved"
    BY <1>5 DEF Approved
  <2>2. j \in RegId /\ j # i
    BY <1>3, <1>5, <2>1 DEF Stored
  <2> QED BY <1>1, <2>1, <2>2 DEF Approved, Stored, Exists
<1>6. \A v \in User : v # u => AsRead(v)' = AsRead(v)
  <2>1. \A v \in User : v # u => (Approved(v)' <=> Approved(v))
    BY <1>4, <1>5
  <2>2. \A v \in User : v # u => Approved(v)' = Approved(v)
    BY <2>1 DEF Approved
  <2> QED BY <2>2 DEF AsRead
<1>7. AsRead(u).approved => AsRead(u)'.approved
  BY <1>4 DEF AsRead
<1> QED BY <1>6, <1>7, OneStudentChanges DEF JInv

\* Each step of the whole is one of Rounds, or leaves what it speaks of alone.
LEMMA NextImplementsRounds ==
    ASSUME JInv, JInv', [JourneyNext]_journeyVars
    PROVE  [Round!Next]_(Round!vars)
<1> USE DEF JInv
<1>1. ASSUME UNCHANGED <<row, regs, roundVars>> PROVE UNCHANGED Round!vars
  BY <1>1, NothingRead DEF Round!vars, roundVars
<1>2. ASSUME NEW s \in Edit, Onboards(s) PROVE [Round!Next]_(Round!vars)
  <2>1. CASE UNCHANGED row
    BY <1>1, <1>2, <2>1 DEF Onboards, vars
  <2>2. CASE Account!SaveProfile(s)
    <3>1. sub[s].user \in User
      BY <2>2 DEF Account!SaveProfile, AccountsInv, AccountLemmas!IInv, AccountLemmas!Grounded
    <3>2. \A v \in User : v # sub[s].user => row'[v] = row[v]
      BY <2>2 DEF Account!SaveProfile, AccountsInv, AccountLemmas!IInv, AccountLemmas!TypeOK
    <3> QED BY <1>2, <3>1, <3>2, ProfileRefines DEF Onboards, vars
  <2> QED BY <1>2, <2>1, <2>2 DEF Onboards, Account!Submit, Account!LoadProfile, Account!AbortSubmission
<1>3. ASSUME NEW u \in User, NEW d \in {"verified", "rejected"}, Decides(u, d) PROVE Round!Next
  <2>1. \A v \in User : v # u => row'[v] = row[v]
    BY <1>3 DEF Decides, Account!VerifyUser, AccountsInv, AccountLemmas!IInv, AccountLemmas!TypeOK
  <2> QED BY <1>3, <2>1, ProfileRefines DEF Decides, vars
<1>4. ASSUME Registers PROVE [Round!Next]_(Round!vars)
  BY <1>1, <1>4, ApprovalRefines DEF Registers, accountVars
<1>5. ASSUME NEW r \in Gate, Calls(r) \/ Proceeds(r) PROVE Round!Next
  BY <1>5 DEF Calls, Proceeds, Round!Next
<1>6. ASSUME NEW i \in RoundId, Moves(i) PROVE Round!Next
  BY <1>6 DEF Moves, Round!Next
<1>7. ASSUME Tick PROVE Round!Next
  BY <1>7 DEF Tick, Round!Next
<1>8. CASE UNCHANGED journeyVars
  BY <1>1, <1>8 DEF journeyVars, vars, accountVars
<1> QED BY <1>2, <1>3, <1>4, <1>5, <1>6, <1>7, <1>8 DEF JourneyNext

LEMMA InitImplementsRounds == JourneyInit => Round!Init
<1> SUFFICES ASSUME JourneyInit PROVE Round!Init
  OBVIOUS
<1>1. [u \in User |-> AsRead(u)] \in [User -> Profile]
  BY InitAccounts, ProfileTyped
<1> QED BY <1>1 DEF JourneyInit, Round!Init, Profile

\* Whatever profiles, reviews, payments and approvals do while rounds are run and
\* entered, the whole behaves as Rounds says, for any students and requests.
THEOREM RoundsImplemented == JourneySpec => ImplementsRounds
<1>1. JInv /\ JInv' /\ [JourneyNext]_journeyVars => [Round!Next]_(Round!vars)
  BY NextImplementsRounds
<1>2. JourneyInit => Round!Init
  BY InitImplementsRounds
<1> QED BY <1>1, <1>2, JInvInvariant, PTL DEF JourneySpec, ImplementsRounds, Round!Spec

\* The whole behaves as Registrations, however much goes on beside it, so that
\* the theorems above about the table of registrations hold of it.
THEOREM RegistrationsWithin == JourneySpec => Spec
<1>1. JourneyInit => Init
  BY DEF JourneyInit
<1>2. [JourneyNext]_journeyVars => [Next]_vars
  BY RegistrationSteps
<1> QED BY <1>1, <1>2, PTL DEF JourneySpec, Spec

-----------------------------------------------------------------------------
(* The invariants of Rounds, of the whole *)

\* What the lemmas of RoundsProofs assume.
LEMMA RoundsAssumed ==
    /\ None \notin Level \cup RoundId \cup User
    /\ Duration \in Nat \ {0} /\ MaxTime \in Nat /\ MaxRank \in Nat
    /\ Input \subseteq RoundLemmas!RoundInput
    /\ Profile \subseteq RoundLemmas!StudentState
    /\ Batch \subseteq Seq(RoundLemmas!DecisionRow)
<1>1. /\ RoundLemmas!RoundInput = Round!RoundInput
      /\ RoundLemmas!DecisionRow = Round!DecisionRow
      /\ RoundLemmas!StudentState = Profile
  BY DEF RoundLemmas!RoundInput, Round!RoundInput, RoundLemmas!DecisionRow, Round!DecisionRow,
     RoundLemmas!StudentState, Profile, RoundLemmas!Time, Round!Time
<1> QED BY <1>1, NoneAssumption, NoValueAssumption, RoundsAssumption

\* A statement of Rounds here is the one RoundsProofs speaks of.
LEMMA RoundStep == ASSUME [Round!Next]_(Round!vars) PROVE [RoundLemmas!Next]_(RoundLemmas!vars)
<1>1. UNCHANGED Round!vars => UNCHANGED RoundLemmas!vars
  BY DEF Round!vars, RoundLemmas!vars
<1>2. Round!Tick => RoundLemmas!Tick
  BY DEF Round!Tick, RoundLemmas!Tick
<1>3. ASSUME NEW u \in User, Round!StudentChanges(u) PROVE RoundLemmas!StudentChanges(u)
  BY <1>3 DEF Round!StudentChanges, RoundLemmas!StudentChanges
<1>4. ASSUME NEW i \in RoundId, Round!StartRound(i) \/ Round!EndRound(i) \/ Round!DeleteRound(i)
      PROVE  RoundLemmas!StartRound(i) \/ RoundLemmas!EndRound(i) \/ RoundLemmas!DeleteRound(i)
  BY <1>4 DEF Round!StartRound, RoundLemmas!StartRound, Round!EndRound, RoundLemmas!EndRound,
     Round!SetStatus, RoundLemmas!SetStatus, Round!DeleteRound, RoundLemmas!DeleteRound,
     Round!Exists, RoundLemmas!Exists, Round!DeletedRow, RoundLemmas!DeletedRow,
     Round!NoDecisions, RoundLemmas!NoDecisions, Round!Undecided, RoundLemmas!Undecided
<1>5. ASSUME NEW r \in Gate PROVE
        /\ Round!Send(r) => RoundLemmas!Send(r)
        /\ Round!Abort(r) => RoundLemmas!Abort(r)
        /\ Round!ReplyRankTaken(r) => RoundLemmas!ReplyRankTaken(r)
        /\ Round!ReplyAllowed(r) => RoundLemmas!ReplyAllowed(r)
  BY DEF Round!Send, RoundLemmas!Send, Round!Abort, RoundLemmas!Abort, Round!Ask, RoundLemmas!Ask,
     Round!ReplyRankTaken, RoundLemmas!ReplyRankTaken, Round!ReplyAllowed, RoundLemmas!ReplyAllowed,
     Round!Idle, RoundLemmas!Idle, Round!NoRow, RoundLemmas!NoRow, Round!End, RoundLemmas!End
<1>6. ASSUME NEW r \in Gate PROVE
        /\ Round!CheckNoOtherFinal(r) => RoundLemmas!CheckNoOtherFinal(r)
        /\ Round!LoadForUpdate(r) => RoundLemmas!LoadForUpdate(r)
        /\ Round!LoadEnded(r) => RoundLemmas!LoadEnded(r)
        /\ Round!LoadForEnter(r) => RoundLemmas!LoadForEnter(r)
        /\ Round!FindPrevious(r) => RoundLemmas!FindPrevious(r)
        /\ Round!CheckDecision(r) => RoundLemmas!CheckDecision(r)
  BY DEF Round!CheckNoOtherFinal, RoundLemmas!CheckNoOtherFinal, Round!LoadForUpdate,
     RoundLemmas!LoadForUpdate, Round!LoadEnded, RoundLemmas!LoadEnded, Round!ValidBatch,
     RoundLemmas!ValidBatch, Round!LoadForEnter, RoundLemmas!LoadForEnter, Round!FindPrevious,
     RoundLemmas!FindPrevious, Round!Previous, RoundLemmas!Previous, Round!CheckDecision,
     RoundLemmas!CheckDecision, Round!OtherFinal, RoundLemmas!OtherFinal, Round!Stored,
     RoundLemmas!Stored, Round!Exists, RoundLemmas!Exists, Round!Goto, RoundLemmas!Goto,
     Round!End, RoundLemmas!End, Round!Idle, RoundLemmas!Idle, Round!NoRow, RoundLemmas!NoRow
<1>7. ASSUME NEW r \in Gate PROVE
        /\ Round!Insert(r) => RoundLemmas!Insert(r)
        /\ Round!Update(r) => RoundLemmas!Update(r)
  BY DEF Round!Insert, RoundLemmas!Insert, Round!Update, RoundLemmas!Update, Round!Conflicts,
     RoundLemmas!Conflicts, Round!WithStatus, RoundLemmas!WithStatus, Round!Stored,
     RoundLemmas!Stored, Round!Exists, RoundLemmas!Exists, Round!End, RoundLemmas!End, Round!Idle,
     RoundLemmas!Idle, Round!NoRow, RoundLemmas!NoRow
<1>8. ASSUME NEW r \in Gate PROVE Round!Record(r) => RoundLemmas!Record(r)
  <2>1. \A i, b, k : Round!After(i, b, k) = RoundLemmas!After(i, b, k)
    BY Zenon DEF Round!After, RoundLemmas!After, Round!Undecided, RoundLemmas!Undecided
  <2>2. \A i, b : Round!Accepted(i, b) <=> RoundLemmas!Accepted(i, b)
    BY <2>1 DEF Round!Accepted, RoundLemmas!Accepted, Round!RanksUnique, RoundLemmas!RanksUnique
  <2> QED
    BY <2>1, <2>2 DEF Round!Record, RoundLemmas!Record, Round!Exists, RoundLemmas!Exists, Round!Goto,
       RoundLemmas!Goto, Round!End, RoundLemmas!End, Round!Idle, RoundLemmas!Idle, Round!NoRow,
       RoundLemmas!NoRow
<1>9. ASSUME NEW r \in Gate PROVE
        /\ Round!CheckUser(r) => RoundLemmas!CheckUser(r)
        /\ Round!RecheckUser(r) => RoundLemmas!RecheckUser(r)
        /\ Round!CheckRegistration(r) => RoundLemmas!CheckRegistration(r)
  BY DEF Round!CheckUser, RoundLemmas!CheckUser, Round!RecheckUser, RoundLemmas!RecheckUser,
     Round!CheckRegistration, RoundLemmas!CheckRegistration, Round!Fits, RoundLemmas!Fits,
     Round!InWindow, RoundLemmas!InWindow, Round!Goto, RoundLemmas!Goto, Round!End,
     RoundLemmas!End, Round!Idle, RoundLemmas!Idle, Round!NoRow, RoundLemmas!NoRow
<1> QED
  BY <1>1, <1>2, <1>3, <1>4, <1>5, <1>6, <1>7, <1>8, <1>9, Zenon DEF Round!Next, RoundLemmas!Next

LEMMA RoundInit == Round!Init => RoundLemmas!Init
BY DEF Round!Init, RoundLemmas!Init, Round!Idle, RoundLemmas!Idle, Round!NoRow, RoundLemmas!NoRow,
   Round!NoDecisions, RoundLemmas!NoDecisions, Round!Undecided, RoundLemmas!Undecided

\* What holds of the whole without regard to vetted.
WholeInv == JInv /\ RoundLemmas!IInv

LEMMA NextWhole == ASSUME WholeInv, [JourneyNext]_journeyVars PROVE WholeInv'
<1>1. JInv'
  BY RegistrationSteps, NextIInv, NextAccounts DEF JInv, WholeInv
<1>2. [RoundLemmas!Next]_(RoundLemmas!vars)
  BY <1>1, NextImplementsRounds, RoundStep DEF WholeInv
<1>3. RoundLemmas!IInv'
  BY <1>2, RoundsAssumed, RoundLemmas!NextIInv DEF WholeInv, Profile
<1> QED BY <1>1, <1>3 DEF WholeInv

LEMMA InitWhole == JourneyInit => WholeInv
<1>1. JourneyInit => RoundLemmas!IInv
  BY InitImplementsRounds, RoundInit, RoundsAssumed, RoundLemmas!InitIInv DEF Profile
<1> QED BY <1>1, InitIInv, InitAccounts DEF JourneyInit, JInv, WholeInv

\* With profiles, reviews and approvals going on beside them, the rounds of a
\* level stay in sequence, decisions follow the end of a round, ranks belong to
\* one winner each, and the gate lets students in in order.
THEOREM RoundsWithin ==
    JourneySpec => [](/\ Round!SequencesSound
                      /\ Round!DecisionsAfterEnd
                      /\ Round!RanksSound
                      /\ Round!EntryInOrder)
<1>1. RoundLemmas!IInv => RoundLemmas!EntryInOrder
  BY RoundsAssumed DEF RoundLemmas!IInv, RoundLemmas!EntryInOrder, RoundLemmas!RequestCoherent,
     RoundLemmas!LateGate, Profile
<1>2. WholeInv => /\ Round!SequencesSound /\ Round!DecisionsAfterEnd
                  /\ Round!RanksSound /\ Round!EntryInOrder
  BY <1>1 DEF WholeInv, RoundLemmas!IInv, Round!SequencesSound, RoundLemmas!SequencesSound,
     Round!DecisionsAfterEnd, RoundLemmas!DecisionsAfterEnd, Round!RanksSound,
     RoundLemmas!RanksSound, Round!EntryInOrder, RoundLemmas!EntryInOrder, Round!RanksUnique,
     RoundLemmas!RanksUnique, Round!NoDecisions, RoundLemmas!NoDecisions, Round!Undecided,
     RoundLemmas!Undecided, Round!Stored, RoundLemmas!Stored, Round!Exists, RoundLemmas!Exists
<1>3. WholeInv /\ [JourneyNext]_journeyVars => WholeInv'
  BY NextWhole
<1> QED BY <1>2, <1>3, InitWhole, PTL DEF JourneySpec

-----------------------------------------------------------------------------
(* Who is let into a round *)

LateGate == {"recheckUser", "registration", "previous", "decision", "allowed"}

\* A step on the gate's way from the student to its answer, that went well.
Passes(r) ==
    /\ Round!CheckUser(r) \/ Round!RecheckUser(r) \/ Round!CheckRegistration(r)
       \/ Round!FindPrevious(r) \/ Round!CheckDecision(r)
    /\ gate'[r].phase \in LateGate
    /\ gate'[r].user = gate[r].user
    /\ gate'[r].seen = gate[r].seen
    /\ UNCHANGED Others

\* A request gets as far as that by such steps only.
LEMMA GateMoves ==
    ASSUME WholeInv, [JourneyNext]_journeyVars, NEW q \in Gate, gate'[q].phase \in LateGate
    PROVE  gate'[q] = gate[q] \/ Passes(q)
<1>1. gate \in [Gate -> RoundLemmas!RequestRecord]
  BY DEF WholeInv, RoundLemmas!IInv, RoundLemmas!TypeOK
<1>2. CASE UNCHANGED gate
  BY <1>2
<1>3. ASSUME NEW r \in Gate, r # q, Calls(r) \/ Proceeds(r) PROVE gate'[q] = gate[q]
  BY <1>1, <1>3 DEF Calls, Proceeds, Round!Send, Round!CheckNoOtherFinal, Round!Insert,
     Round!LoadForUpdate, Round!Update, Round!LoadEnded, Round!Record, Round!ReplyRankTaken,
     Round!LoadForEnter, Round!CheckUser, Round!RecheckUser, Round!CheckRegistration,
     Round!FindPrevious, Round!CheckDecision, Round!ReplyAllowed, Round!Abort, Round!Goto, Round!End
<1>4. ASSUME Calls(q) PROVE FALSE
  BY <1>1, <1>4 DEF Calls, Round!Send, Round!Ask, LateGate
<1>5. ASSUME Round!End(q) PROVE FALSE
  BY <1>1, <1>5 DEF Round!End, Round!Idle, LateGate
<1>6. ASSUME NEW p, Round!Goto(q, p)
      PROVE  gate'[q].phase = p /\ gate'[q].user = gate[q].user /\ gate'[q].seen = gate[q].seen
  BY <1>1, <1>6 DEF Round!Goto, RoundLemmas!RequestRecord
<1>7. ASSUME Proceeds(q) PROVE Passes(q)
  <2>1. ASSUME Round!CheckNoOtherFinal(q) \/ Round!Insert(q) \/ Round!LoadForUpdate(q) \/ Round!Update(q)
               \/ Round!LoadEnded(q) \/ Round!Record(q) \/ Round!ReplyRankTaken(q)
               \/ Round!ReplyAllowed(q) \/ Round!Abort(q)
        PROVE  FALSE
    BY <1>5, <1>6, <2>1 DEF Round!CheckNoOtherFinal, Round!Insert, Round!LoadForUpdate, Round!Update,
       Round!LoadEnded, Round!Record, Round!ReplyRankTaken, Round!ReplyAllowed, Round!Abort, LateGate
  <2>2. ASSUME Round!LoadForEnter(q) PROVE FALSE
    <3>1. gate' = [gate EXCEPT ![q].phase = "checkUser", ![q].seen = rounds[gate[q].id]]
      BY <1>5, <2>2 DEF Round!LoadForEnter
    <3>2. gate'[q].phase = "checkUser"
      BY <1>1, <3>1 DEF RoundLemmas!RequestRecord
    <3> QED BY <3>2 DEF LateGate
  <2>3. CASE Round!CheckUser(q) \/ Round!RecheckUser(q) \/ Round!CheckRegistration(q)
             \/ Round!CheckDecision(q)
    BY <1>5, <1>6, <1>7, <2>3 DEF Passes, Proceeds, Round!CheckUser, Round!RecheckUser,
       Round!CheckRegistration, Round!CheckDecision
  <2>4. CASE Round!FindPrevious(q)
    BY <1>1, <1>5, <1>7, <2>4 DEF Passes, Proceeds, Round!FindPrevious, RoundLemmas!RequestRecord
  <2> QED BY <1>7, <2>1, <2>2, <2>3, <2>4 DEF Proceeds
<1> QED
  BY <1>2, <1>3, <1>4, <1>7 DEF JourneyNext, Onboards, Decides, Registers, Moves, Tick, journeyVars,
     roundVars, Round!StartRound, Round!EndRound, Round!SetStatus, Round!DeleteRound, Round!Tick

\* What the gate found of the student's way: a first round asks for a
\* registration, a later one for a decision.
GateCoherent(r) ==
    /\ gate[r].phase = "registration" => gate[r].seen.order = 1
    /\ gate[r].phase \in {"previous", "decision"} => gate[r].seen.order # 1
    /\ gate[r].phase = "allowed" /\ gate[r].seen.order = 1 => Approved(gate[r].user)

\* Whoever is let into a first round has an approved registration for the event.
EntrantRegistered ==
    \A r \in Gate : gate[r].phase = "allowed" /\ gate[r].seen.order = 1 => Approved(gate[r].user)

LEMMA ApprovalStays ==
    ASSUME WholeInv, [JourneyNext]_journeyVars, NEW u, Approved(u) PROVE Approved(u)'
<1>1. Kept
  BY RegistrationSteps, NextKeeps DEF WholeInv, JInv
<1> QED BY <1>1 DEF Kept, Approved, Stored

LEMMA NextGateCoherent ==
    ASSUME WholeInv, [JourneyNext]_journeyVars, NEW q \in Gate, GateCoherent(q)
    PROVE  GateCoherent(q)'
<1>1. CASE gate'[q].phase \notin LateGate
  BY <1>1 DEF GateCoherent, LateGate
<1>2. CASE gate'[q] = gate[q]
  BY <1>2, ApprovalStays DEF GateCoherent
<1>3. CASE Passes(q)
  <2> USE DEF Passes
  <2>1. gate \in [Gate -> RoundLemmas!RequestRecord]
    BY DEF WholeInv, RoundLemmas!IInv, RoundLemmas!TypeOK
  <2>2. ~Round!End(q)
    BY <1>3, <2>1 DEF Round!End, Round!Idle, LateGate
  <2>3. \A p : Round!Goto(q, p) => gate'[q].phase = p
    BY <2>1 DEF Round!Goto, RoundLemmas!RequestRecord
  <2>4. CASE Round!CheckUser(q)
    BY <1>3, <2>2, <2>3, <2>4 DEF Round!CheckUser, GateCoherent
  <2>5. CASE Round!RecheckUser(q)
    BY <1>3, <2>2, <2>3, <2>5 DEF Round!RecheckUser, GateCoherent
  <2>6. CASE Round!CheckRegistration(q)
    <3>1. AsRead(gate[q].user).approved /\ gate'[q].phase = "allowed"
      <4>1. gate[q].user \in User
        BY <2>6 DEF WholeInv, RoundLemmas!IInv, RoundLemmas!RequestCoherent, RoundLemmas!LateGate,
           Round!CheckRegistration
      <4> QED BY <2>2, <2>3, <2>6, <4>1 DEF Round!CheckRegistration
    <3>2. Approved(gate[q].user)
      BY <3>1 DEF AsRead
    <3> QED BY <1>3, <3>1, <3>2, ApprovalStays DEF GateCoherent
  <2>7. CASE Round!FindPrevious(q)
    <3>1. gate[q].phase = "previous" /\ gate'[q].phase = "decision"
      BY <2>1, <2>2, <2>7 DEF Round!FindPrevious, RoundLemmas!RequestRecord
    <3> QED BY <1>3, <3>1 DEF GateCoherent
  <2>8. CASE Round!CheckDecision(q)
    BY <1>3, <2>2, <2>3, <2>8 DEF Round!CheckDecision, GateCoherent
  <2> QED BY <1>3, <2>4, <2>5, <2>6, <2>7, <2>8
<1> QED BY <1>1, <1>2, <1>3, GateMoves

\* Whoever is let into a first round has an approved registration for its
\* event, from the read of the gate on to its answer, and not only when it was
\* read: approval is final.
THEOREM EntrantsAreRegistered == JourneySpec => []EntrantRegistered
<1> DEFINE Inv == WholeInv /\ \A r \in Gate : GateCoherent(r)
<1>1. JourneyInit => Inv
  BY InitWhole DEF JourneyInit, GateCoherent, Round!Idle
<1>2. Inv /\ [JourneyNext]_journeyVars => Inv'
  BY NextWhole, NextGateCoherent
<1>3. Inv => EntrantRegistered
  BY DEF GateCoherent, EntrantRegistered
<1> QED BY <1>1, <1>2, <1>3, PTL DEF JourneySpec

\* A student who is verified was verified with the level now on file, unless a
\* submission of hers was overtaken.
StatusVetted ==
    \A u \in User : row[u].status = "verified" /\ row[u].details # None /\ u \notin overtaken
        => <<u, LevelOf[row[u].details]>> \in vetted

\* What a submission compared its details with stays on file until it writes or
\* is overtaken, and what the gate was told of a student was true once.
VettedInv ==
    /\ WholeInv
    /\ AccountLemmas!SInv
    /\ StatusVetted
    /\ \A r \in Gate : gate[r].phase \in LateGate /\ gate[r].user \notin overtaken
                           => <<gate[r].user, gate[r].seen.level>> \in vetted

LEMMA InitVetted == JourneyInit => VettedInv
<1> SUFFICES ASSUME JourneyInit PROVE VettedInv
  OBVIOUS
<1>1. WholeInv /\ AccountsInv
  BY InitWhole, InitAccounts
<1>2. \A u \in User : row[u].status = "unverified"
  BY DEF JourneyInit, Account!NewRow
<1>3. AccountLemmas!VerifiedAsReviewed
  BY <1>2 DEF AccountLemmas!VerifiedAsReviewed
<1>4. \A s \in Edit : AccountLemmas!Unchanged(s)
  BY DEF JourneyInit, Account!NoSubmission, AccountLemmas!Unchanged
<1>5. \A r \in Gate : gate[r].phase \notin LateGate
  BY DEF JourneyInit, Round!Idle, LateGate
<1> QED BY <1>1, <1>2, <1>3, <1>4, <1>5 DEF VettedInv, AccountsInv, AccountLemmas!SInv, StatusVetted

LEMMA VettedGrows ==
    ASSUME VettedInv, [JourneyNext]_journeyVars
    PROVE  vetted \subseteq vetted' /\ overtaken \subseteq overtaken'
<1>1. vetted \subseteq vetted'
  BY DEF JourneyNext, Onboards, Decides, Registers, Calls, Proceeds, Moves, Tick, Others, journeyVars
<1>2. overtaken \subseteq overtaken'
  BY AccountSteps, AccountsAssumed, AccountLemmas!NextHistory DEF VettedInv, AccountLemmas!SInv
<1> QED BY <1>1, <1>2

\* A submission takes the status away or writes what is there already.
LEMMA NextStatusVetted == ASSUME VettedInv, [JourneyNext]_journeyVars PROVE StatusVetted'
<1> USE DEF StatusVetted, VettedInv
<1>0. row \in [User -> AccountLemmas!Row]
  <2>1. row \in [User -> AccountLemmas!Row \cup {AccountLemmas!NoRow}]
    BY DEF AccountLemmas!SInv, AccountLemmas!IInv, AccountLemmas!TypeOK
  <2> QED BY <2>1 DEF WholeInv, JInv, AccountsInv
<1>1. CASE UNCHANGED row
  BY <1>1, VettedGrows
<1>2. ASSUME NEW s \in Edit, Account!SaveProfile(s) PROVE StatusVetted'
  <2>1. PICK u \in User, t \in Details, d \in Doc \cup {None} :
          /\ u = sub[s].user /\ t = sub[s].details /\ d = sub[s].doc
          /\ row' = [row EXCEPT ![u] = Account!Profile(row[u], t, d)]
          /\ d = None /\ u \notin overtaken => row[u].details = t
    <3>1. sub[s].user \in User /\ sub[s].details \in Details /\ sub[s].doc \in Doc \cup {None}
      BY <1>2 DEF Account!SaveProfile, AccountLemmas!SInv, AccountLemmas!IInv, AccountLemmas!TypeOK,
         AccountLemmas!SubmissionRecord, AccountLemmas!Grounded
    <3>2. sub[s].doc = None /\ sub[s].user \notin overtaken => row[sub[s].user].details = sub[s].details
      BY <1>2 DEF Account!SaveProfile, AccountLemmas!SInv, AccountLemmas!Unchanged
    <3>3. row' = [row EXCEPT ![sub[s].user] = Account!Profile(row[sub[s].user], sub[s].details, sub[s].doc)]
      BY <1>2 DEF Account!SaveProfile
    <3> HIDE DEF VettedInv
    <3> QED BY <3>1, <3>2, <3>3
  <2>2. row'[u] = Account!Profile(row[u], t, d) /\ \A v \in User : v # u => row'[v] = row[v]
    BY <1>0, <2>1
  <2>3. row'[u].status = "verified" /\ u \notin overtaken =>
          row'[u].details = row[u].details /\ row[u].status = "verified"
    BY <1>0, <2>1, <2>2 DEF Account!Profile, AccountLemmas!Row
  <2> QED BY <2>2, <2>3, VettedGrows
<1>3. ASSUME NEW u \in User, NEW d \in {"verified", "rejected"}, Decides(u, d) PROVE StatusVetted'
  <2>1. /\ \A v \in User : v # u => row'[v] = row[v]
        /\ row'[u].status = d /\ row'[u].details = row[u].details
    BY <1>0, <1>3 DEF Decides, Account!VerifyUser, AccountLemmas!Row
  <2>2. d = "verified" /\ row[u].details # None => <<u, LevelOf[row[u].details]>> \in vetted'
    BY <1>3 DEF Decides
  <2> QED BY <2>1, <2>2, VettedGrows
<1> QED
  BY <1>1, <1>2, <1>3 DEF JourneyNext, Onboards, Account!Submit, Account!LoadProfile,
     Account!AbortSubmission, Registers, Calls, Proceeds, Moves, Tick, Others, journeyVars, accountVars

\* The gate lets pass whom it finds verified, at the level of the round it read.
LEMMA NextGateVetted ==
    ASSUME VettedInv, [JourneyNext]_journeyVars, NEW q \in Gate, gate'[q].phase \in LateGate,
           gate'[q].user \notin overtaken'
    PROVE  <<gate'[q].user, gate'[q].seen.level>> \in vetted'
<1>1. CASE gate[q].phase \in LateGate
  <2>1. gate'[q].user = gate[q].user /\ gate'[q].seen = gate[q].seen
    BY GateMoves DEF Passes, VettedInv
  <2>2. <<gate[q].user, gate[q].seen.level>> \in vetted'
    BY <1>1, <2>1, VettedGrows DEF VettedInv
  <2> QED BY <2>1, <2>2
<1>2. CASE gate[q].phase \notin LateGate
  <2>1. Passes(q) /\ Round!CheckUser(q)
    BY <1>2, GateMoves DEF VettedInv, Passes, Round!RecheckUser, Round!CheckRegistration,
       Round!FindPrevious, Round!CheckDecision, LateGate
  <2>2. gate \in [Gate -> RoundLemmas!RequestRecord]
    BY DEF VettedInv, WholeInv, RoundLemmas!IInv, RoundLemmas!TypeOK
  <2>3. PICK u \in User : u = gate[q].user
    BY <2>1 DEF Round!CheckUser, VettedInv, WholeInv, RoundLemmas!IInv, RoundLemmas!RequestCoherent
  <2>4. gate[q].seen.level \in Level
    BY <2>1 DEF Round!CheckUser, VettedInv, WholeInv, RoundLemmas!IInv, RoundLemmas!RequestCoherent,
       RoundLemmas!Row
  <2>5. ~Round!End(q)
    BY <2>1, <2>2 DEF Passes, Round!End, Round!Idle, LateGate
  <2>6. AsRead(u).level = gate[q].seen.level /\ AsRead(u).verified
    BY <2>1, <2>3, <2>5 DEF Round!CheckUser, Round!Fits
  <2>7. row[u].status = "verified" /\ row[u].details # None
        /\ LevelOf[row[u].details] = gate[q].seen.level
    BY <2>4, <2>6, NoValueAssumption DEF AsRead
  <2>8. <<u, gate[q].seen.level>> \in vetted
    BY <2>1, <2>3, <2>7, VettedGrows DEF VettedInv, StatusVetted, Passes
  <2> QED BY <2>1, <2>3, <2>8, VettedGrows DEF Passes
<1> QED BY <1>1, <1>2

LEMMA NextVetted == ASSUME VettedInv, [JourneyNext]_journeyVars PROVE VettedInv'
<1>1. AccountLemmas!SInv'
  BY AccountSteps, AccountsAssumed, AccountLemmas!NextSInv DEF VettedInv
<1> QED BY <1>1, NextWhole, NextStatusVetted, NextGateVetted DEF VettedInv

\* Nobody is let into a round without an admin having verified them as a student
\* of its level, for any number of submissions, reviews and entries under way,
\* unless a submission of theirs was overtaken by another.
THEOREM EntrantsAreVetted == JourneySpec => []EntrantVetted
<1>1. VettedInv /\ [JourneyNext]_journeyVars => VettedInv'
  BY NextVetted
<1>2. VettedInv => EntrantVetted
  BY DEF VettedInv, EntrantVetted, LateGate
<1> QED BY <1>1, <1>2, InitVetted, PTL DEF JourneySpec
=============================================================================
