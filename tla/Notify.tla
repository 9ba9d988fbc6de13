------------------------------- MODULE Notify -------------------------------
(***************************************************************************)
(* Where a student's notifications go: to the email address, or to a phone *)
(* number proved with a one-time code. The choice, the proof, the resend   *)
(* and the admit-card alert are requests of several statements each on the *)
(* same row of the table users.                                            *)
(***************************************************************************)
CONSTANTS
    User,
    Phone,
    Code,       \* one-time codes; two draws may be equal
    Request,    \* slots for requests of the students
    Alert,      \* slots for admit-card alerts, sent on behalf of an admin
    None

ASSUME NoneAssumption == None \notin User \cup Phone \cup Code

VARIABLES
    row,        \* the notification columns of users
    req,        \* the students' requests in flight
    alert,      \* the alerts in flight
    issued,     \* history: the codes issued so far, each with its number
    submitted,  \* history: the codes each student submitted so far
    replaced    \* history: students whose number was replaced between check and mark

vars == <<row, req, alert, issued, submitted, replaced>>

-----------------------------------------------------------------------------
\* An outstanding code is fresh until its five minutes are over.
Row == [method : {"email", "phone"}, phone : Phone \cup {None}, verified : BOOLEAN,
        otp : Code \cup {None}, fresh : BOOLEAN]

Phase == {"idle", "setEmail", "issue", "resend", "verify", "mark"}
RequestRecord == [phase : Phase, user : User \cup {None}, phone : Phone \cup {None},
                  code : Code \cup {None}]
Idle == [phase |-> "idle", user |-> None, phone |-> None, code |-> None]
Ask(p, u, n, c) == [phase |-> p, user |-> u, phone |-> n, code |-> c]

AlertRecord == [phase : {"idle", "load", "sms", "mail"}, user : User \cup {None},
                phone : Phone \cup {None}]
Silent == [phase |-> "idle", user |-> None, phone |-> None]

Init ==
    /\ row = [u \in User |-> [method |-> "email", phone |-> None, verified |-> FALSE,
                              otp |-> None, fresh |-> FALSE]]
    /\ req = [r \in Request |-> Idle]
    /\ alert = [a \in Alert |-> Silent]
    /\ issued = [u \in User |-> {}]
    /\ submitted = [u \in User |-> {}]
    /\ replaced = {}

Goto(r, p) == req' = [req EXCEPT ![r].phase = p]
End(r) == req' = [req EXCEPT ![r] = Idle]

\* SetPreference, ResendPhoneOTP and VerifyPhoneOTP arrive.
Send(r) ==
    /\ req[r] = Idle
    /\ \E u \in User :
         \/ /\ req' = [req EXCEPT ![r] = Ask("setEmail", u, None, None)]
            /\ UNCHANGED submitted
         \/ /\ \E n \in Phone : req' = [req EXCEPT ![r] = Ask("issue", u, n, None)]
            /\ UNCHANGED submitted
         \/ /\ req' = [req EXCEPT ![r] = Ask("resend", u, None, None)]
            /\ UNCHANGED submitted
         \/ \E c \in Code : /\ req' = [req EXCEPT ![r] = Ask("verify", u, None, c)]
                            /\ submitted' = [submitted EXCEPT ![u] = @ \cup {c}]
    /\ UNCHANGED <<row, alert, issued, replaced>>

\* SetNotificationMethod(email).
SetEmail(r) ==
    /\ req[r].phase = "setEmail"
    /\ row' = [row EXCEPT ![req[r].user].method = "email"]
    /\ End(r)
    /\ UNCHANGED <<alert, issued, submitted, replaced>>

\* Resend reads the number to send to; without one it is refused.
LoadForResend(r) ==
    /\ req[r].phase = "resend"
    /\ IF row[req[r].user].phone = None THEN End(r)
       ELSE req' = [req EXCEPT ![r].phase = "issue", ![r].phone = row[req[r].user].phone]
    /\ UNCHANGED <<row, alert, issued, submitted, replaced>>

\* Mutant of Pending: the new number inherits the mark of the old one.
PendingStillVerified(u, n, c) ==
    [method |-> row[u].method, phone |-> n, verified |-> row[u].verified, otp |-> c, fresh |-> TRUE]

\* Mutant of Pending: the statement forgets the expiry.
PendingTimeless(u, n, c) ==
    [method |-> row[u].method, phone |-> n, verified |-> FALSE, otp |-> c, fresh |-> None]

Pending(u, n, c) ==
    [method |-> row[u].method, phone |-> n, verified |-> FALSE, otp |-> c, fresh |-> TRUE]

\* A code of the student was found right, of a number other than n, and its
\* number is yet to be marked.
CheckedOther(u, n) == row[u].phone # n /\ \E q \in Request : req[q].phase = "mark" /\ req[q].user = u

\* issuePhoneOTP: number, code and expiry in one statement, and the number
\* counts as unverified again. That the code is texted, or logged when texting
\* fails, changes nothing here.
Issue(r) ==
    LET u == req[r].user IN
    /\ req[r].phase = "issue"
    /\ \E c \in Code : /\ row' = [row EXCEPT ![u] = Pending(u, req[r].phone, c)]
                       /\ issued' = [issued EXCEPT ![u] = @ \cup {<<req[r].phone, c>>}]
    /\ replaced' = IF CheckedOther(u, req[r].phone) THEN replaced \cup {u} ELSE replaced
    /\ End(r)
    /\ UNCHANGED <<alert, submitted>>

Expire(u) ==
    /\ row[u].fresh
    /\ row' = [row EXCEPT ![u].fresh = FALSE]
    /\ UNCHANGED <<req, alert, issued, submitted, replaced>>

Done(u) == row[u].verified /\ row[u].method = "phone"

\* VerifyPhoneOTP, the read and the comparison. A repeated call is a no-op.
CheckCode(r) ==
    LET u == req[r].user IN
    /\ req[r].phase = "verify"
    /\ IF /\ row[u].phone # None
          /\ ~Done(u)
          /\ row[u].otp = req[r].code
          /\ row[u].fresh
       THEN Goto(r, "mark") ELSE End(r)
    /\ UNCHANGED <<row, alert, issued, submitted, replaced>>

\* Mutant of Mark: the code is not cleared.
MarkKeepsCode(r) ==
    /\ req[r].phase = "mark"
    /\ row' = [row EXCEPT ![req[r].user].verified = TRUE, ![req[r].user].method = "phone"]
    /\ End(r)
    /\ UNCHANGED <<alert, issued, submitted, replaced>>

\* MarkNotificationPhoneVerified: of whatever number is on file by now.
Mark(r) ==
    /\ req[r].phase = "mark"
    /\ row' = [row EXCEPT ![req[r].user] = [method |-> "phone", phone |-> @.phone, verified |-> TRUE,
                                            otp |-> None, fresh |-> FALSE]]
    /\ End(r)
    /\ UNCHANGED <<alert, issued, submitted, replaced>>

\* A statement fails, the client hangs up or the process dies.
Abort(r) ==
    /\ req[r] # Idle
    /\ End(r)
    /\ UNCHANGED <<row, alert, issued, submitted, replaced>>

-----------------------------------------------------------------------------
(* NotifyAdmitCardReady *)

Ready(a) ==
    /\ alert[a] = Silent
    /\ \E u \in User : alert' = [alert EXCEPT ![a] = [phase |-> "load", user |-> u, phone |-> None]]
    /\ UNCHANGED <<row, req, issued, submitted, replaced>>

\* Mutant of UsePhone: the number need not be verified.
UsePhoneUnverified(u) == row[u].method = "phone" /\ row[u].phone # None

UsePhone(u) == row[u].method = "phone" /\ row[u].verified /\ row[u].phone # None

Route(a) ==
    LET u == alert[a].user IN
    /\ alert[a].phase = "load"
    /\ alert' = [alert EXCEPT ![a] =
         IF UsePhone(u) THEN [phase |-> "sms", user |-> u, phone |-> row[u].phone]
         ELSE [phase |-> "mail", user |-> u, phone |-> None]]
    /\ UNCHANGED <<row, req, issued, submitted, replaced>>

\* Delivered, or logged that it was not.
Deliver(a) ==
    /\ alert[a].phase \in {"sms", "mail"}
    /\ alert' = [alert EXCEPT ![a] = Silent]
    /\ UNCHANGED <<row, req, issued, submitted, replaced>>

-----------------------------------------------------------------------------
Next ==
    \/ \E u \in User : Expire(u)
    \/ \E r \in Request :
         Send(r) \/ SetEmail(r) \/ LoadForResend(r) \/ Issue(r) \/ CheckCode(r) \/ Mark(r) \/ Abort(r)
    \/ \E a \in Alert : Ready(a) \/ Route(a) \/ Deliver(a)

Spec == Init /\ [][Next]_vars

-----------------------------------------------------------------------------
(* Properties *)

\* The student submitted a code that was issued for this very number.
Proved(u, n) == \E c \in submitted[u] : <<n, c>> \in issued[u]

\* Every variable keeps its type.
TypeOK ==
    /\ row \in [User -> Row]
    /\ req \in [Request -> RequestRecord]
    /\ alert \in [Alert -> AlertRecord]
    /\ issued \in [User -> SUBSET (Phone \X Code)]
    /\ submitted \in [User -> SUBSET Code]
    /\ replaced \subseteq User

\* "notification_phone_verified - true once that number passed OTP check"
\* (migration 0016), whatever requests of the student overlap, with the one
\* exception the code leaves: the mark is put on the number then on file, which
\* is not the one whose code was checked if a SetPreference or a resend that had
\* read an older number came in between.
VerifiedNumberProved ==
    \A u \in User : row[u].verified /\ u \notin replaced => Proved(u, row[u].phone)

\* With the same exception, an alert is texted to a number its student has
\* proved, even if the choice changes while the alert is under way.
AlertsToProvedNumbers ==
    \A a \in Alert : alert[a].phase = "sms" /\ alert[a].user \notin replaced
                        => Proved(alert[a].user, alert[a].phone)

\* A code is used up by what it proves: no number is verified while a code is
\* outstanding.
CodeUsedUp == \A u \in User : row[u].verified => row[u].otp = None
=============================================================================
