--------------------------- MODULE Registrations ----------------------------
(***************************************************************************)
(* Exam registrations: a student submits the transaction id of a payment,  *)
(* an admin approves or rejects it, a rejection may be taken back, and an  *)
(* approved student is issued an admit card.                               *)
(*                                                                         *)
(* Each request is a sequence of SQL statements and storage calls; they    *)
(* interleave, and a request may end after any of them.                    *)
(***************************************************************************)
EXTENDS Naturals

CONSTANTS
    User,       \* students
    Admin,      \* reviewers
    Event,
    Trx,        \* transaction ids a student may submit
    RegId,      \* ids of exam_registrations rows
    File,       \* names of stored admit cards
    Request,    \* slots for requests in flight
    None

ASSUME NoneAssumption == None \notin User \cup Admin \cup Event \cup Trx \cup RegId \cup File

VARIABLES
    active,     \* column events.is_active
    regs,       \* table exam_registrations
    files,      \* uploads/admit-cards: the user in whose folder each file is
    notified,   \* registrations whose student was told of an admit card
    req         \* the requests in flight

vars == <<active, regs, files, notified, req>>

-----------------------------------------------------------------------------
Row == [user : User, event : Event, trx : Trx,
        status : {"pending", "approved", "rejected"},
        reviewedBy : Admin \cup {None}, card : File \cup {None}]
NoRow == [user |-> None]

Phase == {"idle", "loadEvent", "insert", "review", "loadRejected", "unreject",
          "checkApproved", "save", "attach", "notify"}

RequestRecord ==
    [phase : Phase, user : User \cup {None}, event : Event \cup {None}, trx : Trx \cup {None},
     reg : RegId \cup {None}, admin : Admin \cup {None},
     decision : {"approved", "rejected", None}, file : File \cup {None}]

Idle == [phase |-> "idle", user |-> None, event |-> None, trx |-> None,
         reg |-> None, admin |-> None, decision |-> None, file |-> None]

Application(u, e, x) ==
    [phase |-> "loadEvent", user |-> u, event |-> e, trx |-> x,
     reg |-> None, admin |-> None, decision |-> None, file |-> None]

Decision(i, a, d) ==
    [phase |-> "review", user |-> None, event |-> None, trx |-> None,
     reg |-> i, admin |-> a, decision |-> d, file |-> None]

About(phase, i) ==
    [phase |-> phase, user |-> None, event |-> None, trx |-> None,
     reg |-> i, admin |-> None, decision |-> None, file |-> None]

Exists(i) == regs[i] # NoRow
Stored == {i \in RegId : Exists(i)}
StatusIs(i, s) == Exists(i) /\ regs[i].status = s

Goto(r, p) == req' = [req EXCEPT ![r].phase = p]
End(r) == req' = [req EXCEPT ![r] = Idle]

-----------------------------------------------------------------------------
Init ==
    /\ active \in [Event -> BOOLEAN]
    /\ regs = [i \in RegId |-> NoRow]
    /\ files = [f \in File |-> None]
    /\ notified = {}
    /\ req = [r \in Request |-> Idle]

\* A request arrives; an id that names no row is as possible as one that does.
Send(r) ==
    /\ req[r] = Idle
    /\ \/ \E u \in User, e \in Event, x \in Trx : req' = [req EXCEPT ![r] = Application(u, e, x)]
       \/ \E i \in RegId, a \in Admin, d \in {"approved", "rejected"} :
             req' = [req EXCEPT ![r] = Decision(i, a, d)]
       \/ \E i \in RegId, p \in {"loadRejected", "checkApproved"} :
             req' = [req EXCEPT ![r] = About(p, i)]
    /\ UNCHANGED <<active, regs, files, notified>>

\* An admin opens or closes an event (events.Update).
ToggleEvent(e) ==
    /\ active' = [active EXCEPT ![e] = ~active[e]]
    /\ UNCHANGED <<regs, files, notified, req>>

-----------------------------------------------------------------------------
(* Register *)

\* The event is read, and whether it is open decides what happens next.
LoadEvent(r) ==
    /\ req[r].phase = "loadEvent"
    /\ IF active[req[r].event] THEN Goto(r, "insert") ELSE End(r)
    /\ UNCHANGED <<active, regs, files, notified>>

\* Mutant of Conflicts: uq_exam_reg_transaction_id is missing.
ConflictsOnSeat(r) ==
    \E i \in Stored : regs[i].user = req[r].user /\ regs[i].event = req[r].event

\* The two UNIQUE constraints of the table.
Conflicts(r) ==
    \E i \in Stored : \/ regs[i].trx = req[r].trx
                      \/ regs[i].user = req[r].user /\ regs[i].event = req[r].event

\* Mutant of NewRow: the insert passes a status of its own, which is empty.
NewRowUndefaulted(r) ==
    [user |-> req[r].user, event |-> req[r].event, trx |-> req[r].trx,
     status |-> req[r].decision, reviewedBy |-> None, card |-> None]

NewRow(r) ==
    [user |-> req[r].user, event |-> req[r].event, trx |-> req[r].trx,
     status |-> "pending", reviewedBy |-> None, card |-> None]

Insert(r) ==
    /\ req[r].phase = "insert"
    /\ \/ Conflicts(r) /\ UNCHANGED regs
       \/ ~Conflicts(r) /\ \E i \in RegId \ Stored : regs' = [regs EXCEPT ![i] = NewRow(r)]
    /\ End(r)
    /\ UNCHANGED <<active, files, notified>>

-----------------------------------------------------------------------------
(* Review and Unreject *)

\* Mutant of Review: the guard of the update is gone, the last admin wins.
ReviewUnguarded(r) ==
    LET i == req[r].reg IN
    /\ req[r].phase = "review"
    /\ \/ ~Exists(i) /\ UNCHANGED regs
       \/ Exists(i) /\ regs' = [regs EXCEPT ![i].status = req[r].decision,
                                            ![i].reviewedBy = req[r].admin]
    /\ End(r)
    /\ UNCHANGED <<active, files, notified>>

\* UPDATE ... WHERE status = 'pending'; a row that is not pending is left
\* alone and the admin told so.
Review(r) ==
    LET i == req[r].reg IN
    /\ req[r].phase = "review"
    /\ \/ ~StatusIs(i, "pending") /\ UNCHANGED regs
       \/ StatusIs(i, "pending") /\ regs' = [regs EXCEPT ![i].status = req[r].decision,
                                                         ![i].reviewedBy = req[r].admin]
    /\ End(r)
    /\ UNCHANGED <<active, files, notified>>

\* CanUnreject on the row as it is now.
LoadRejected(r) ==
    /\ req[r].phase = "loadRejected"
    /\ IF StatusIs(req[r].reg, "rejected") THEN Goto(r, "unreject") ELSE End(r)
    /\ UNCHANGED <<active, regs, files, notified>>

\* Mutant of Unreject: the read above is trusted, the update does not repeat it.
UnrejectUnguarded(r) ==
    /\ req[r].phase = "unreject"
    /\ regs' = [regs EXCEPT ![req[r].reg].status = "pending", ![req[r].reg].reviewedBy = None]
    /\ End(r)
    /\ UNCHANGED <<active, files, notified>>

\* Mutant of Unreject: the review columns are kept.
UnrejectKeepsReviewer(r) ==
    LET i == req[r].reg IN
    /\ req[r].phase = "unreject"
    /\ \/ ~StatusIs(i, "rejected") /\ UNCHANGED regs
       \/ StatusIs(i, "rejected") /\ regs' = [regs EXCEPT ![i].status = "pending"]
    /\ End(r)
    /\ UNCHANGED <<active, files, notified>>

\* UPDATE ... WHERE status = 'rejected', which also clears the review columns.
Unreject(r) ==
    LET i == req[r].reg IN
    /\ req[r].phase = "unreject"
    /\ \/ ~StatusIs(i, "rejected") /\ UNCHANGED regs
       \/ StatusIs(i, "rejected") /\ regs' = [regs EXCEPT ![i].status = "pending",
                                                          ![i].reviewedBy = None]
    /\ End(r)
    /\ UNCHANGED <<active, files, notified>>

-----------------------------------------------------------------------------
(* UploadAdmitCard *)

\* Get: the registration's owner is kept for the rest of the request.
CheckApproved(r) ==
    LET i == req[r].reg IN
    /\ req[r].phase = "checkApproved"
    /\ IF StatusIs(i, "approved")
       THEN req' = [req EXCEPT ![r].phase = "save", ![r].user = regs[i].user]
       ELSE End(r)
    /\ UNCHANGED <<active, regs, files, notified>>

\* The file gets a fresh name in the owner's folder.
Save(r) ==
    /\ req[r].phase = "save"
    /\ \E f \in {g \in File : files[g] = None} :
         /\ files' = [files EXCEPT ![f] = req[r].user]
         /\ req' = [req EXCEPT ![r].phase = "attach", ![r].file = f]
    /\ UNCHANGED <<active, regs, notified>>

\* Mutant of Attach: the number of rows changed is not looked at.
AttachUnchecked(r) ==
    LET i == req[r].reg IN
    /\ req[r].phase = "attach"
    /\ \/ UNCHANGED regs
       \/ StatusIs(i, "approved") /\ regs' = [regs EXCEPT ![i].card = req[r].file]
    /\ Goto(r, "notify")
    /\ UNCHANGED <<active, files, notified>>

\* SetAdmitCard: UPDATE ... WHERE status = 'approved'.
Attach(r) ==
    LET i == req[r].reg IN
    /\ req[r].phase = "attach"
    /\ \/ ~StatusIs(i, "approved") /\ UNCHANGED regs /\ End(r)
       \/ StatusIs(i, "approved") /\ regs' = [regs EXCEPT ![i].card = req[r].file]
                                  /\ Goto(r, "notify")
    /\ UNCHANGED <<active, files, notified>>

\* NotifyAdmitCardReady: best effort, delivered or only logged.
Notify(r) ==
    /\ req[r].phase = "notify"
    /\ \/ notified' = notified \cup {req[r].reg}
       \/ UNCHANGED notified
    /\ End(r)
    /\ UNCHANGED <<active, regs, files>>

\* A statement fails, the client hangs up or the process dies: nothing that
\* was done is undone, nothing more is done.
Abort(r) ==
    /\ req[r] # Idle
    /\ End(r)
    /\ UNCHANGED <<active, regs, files, notified>>

-----------------------------------------------------------------------------
Next ==
    \/ \E e \in Event : ToggleEvent(e)
    \/ \E r \in Request :
         \/ Send(r) \/ LoadEvent(r) \/ Insert(r) \/ Review(r) \/ LoadRejected(r) \/ Unreject(r)
         \/ CheckApproved(r) \/ Save(r) \/ Attach(r) \/ Notify(r) \/ Abort(r)

Spec == Init /\ [][Next]_vars

-----------------------------------------------------------------------------
(* Properties *)

\* Every variable keeps its type.
TypeOK ==
    /\ active \in [Event -> BOOLEAN]
    /\ regs \in [RegId -> Row \cup {NoRow}]
    /\ files \in [File -> User \cup {None}]
    /\ notified \subseteq RegId
    /\ req \in [Request -> RequestRecord]

\* A transaction id backs one registration, a student has one per event, and
\* this holds of the whole table, whatever was submitted at the same time.
OneRegistrationEach ==
    \A i, j \in Stored : i # j => /\ regs[i].trx # regs[j].trx
                                  /\ <<regs[i].user, regs[i].event>> # <<regs[j].user, regs[j].event>>

\* Somebody answers for every decision and for nothing else: the reviewer is
\* recorded exactly while the row is decided.
ReviewerIffDecided ==
    \A i \in Stored : (regs[i].reviewedBy # None) <=> (regs[i].status # "pending")

\* An admit card is a stored file in the folder of the very student whose
\* approved registration it belongs to; the upload acts on a row it read two
\* calls earlier.
CardSound ==
    \A i \in Stored : regs[i].card # None =>
        /\ regs[i].status = "approved"
        /\ files[regs[i].card] = regs[i].user

\* A student is only told of a card that can be downloaded.
NotifiedHasCard == \A i \in notified : Exists(i) /\ regs[i].card # None

-----------------------------------------------------------------------------
(* The abstract view of the table: one row, if any, for each seat. *)

Seat == User \X Event
RowOf(s) == CHOOSE i \in Stored : <<regs[i].user, regs[i].event>> = s
Taken(s) == \E i \in Stored : <<regs[i].user, regs[i].event>> = s

SeatStatus == [s \in Seat |-> IF Taken(s) THEN regs[RowOf(s)].status ELSE "none"]
SeatPayment == [s \in Seat |-> IF Taken(s) THEN regs[RowOf(s)].trx ELSE None]
SeatCarded == {s \in Seat : Taken(s) /\ regs[RowOf(s)].card # None}

Enrolled == INSTANCE Enrolment WITH
    Payment <- Trx, NoPayment <- None,
    status <- SeatStatus, payment <- SeatPayment, carded <- SeatCarded

\* The table implements enrolment: decisions are taken once, approval is
\* final, and only a rejection is reopened.
ImplementsEnrolment == Enrolled!Spec
=============================================================================
