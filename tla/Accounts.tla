------------------------------ MODULE Accounts ------------------------------
(***************************************************************************)
(* How an account comes to stand: created with a password or by Google,    *)
(* its address proved by a one-time code or vouched for by Google, its     *)
(* profile submitted with a document, the document reviewed by an admin.   *)
(* All of it is one row of the table users, written by requests that each  *)
(* read it first.                                                          *)
(***************************************************************************)
CONSTANTS
    User,       \* addresses; each has at most one account, and one Google account
    Code,       \* one-time codes; two draws may be equal
    Details,    \* level and institution of a student
    Doc,        \* uploaded documents
    Request,    \* slots for requests that register, prove or sign in
    Submission, \* slots for profile submissions
    None

ASSUME NoneAssumption == None \notin User \cup Code \cup Details \cup Doc

VARIABLES
    row,        \* table users
    req,        \* sign-up and sign-in requests in flight
    sub,        \* profile submissions in flight
    issued,     \* history: the codes issued to each address
    submitted,  \* history: the codes presented for each address
    vouched,    \* history: the addresses Google called verified
    reviewed,   \* history: what was on file when an admin last decided
    overtaken   \* history: students whose details changed under a submission that
                \* had compared its own with them and brings no document

vars == <<row, req, sub, issued, submitted, vouched, reviewed, overtaken>>

-----------------------------------------------------------------------------
\* A code is fresh until its five minutes are over.
Row == [password : BOOLEAN, google : BOOLEAN, verified : BOOLEAN,
        otp : Code \cup {None}, fresh : BOOLEAN,
        details : Details \cup {None}, doc : Doc \cup {None},
        status : {"unverified", "pending", "verified", "rejected"}]
NoRow == [status |-> "none"]

Phase == {"idle", "create", "issue", "resend", "verify", "mark", "google", "googleEmail", "link",
          "googleCreate", "password", "session"}

\* "claim" is Google's word on the address, "none" in a request without one.
Claim == {"verified", "unverified"}
RequestRecord == [phase : Phase, user : User \cup {None}, code : Code \cup {None},
                  claim : Claim \cup {"none"}]
Idle == [phase |-> "idle", user |-> None, code |-> None, claim |-> "none"]
Ask(p, u, c, g) == [phase |-> p, user |-> u, code |-> c, claim |-> g]

SubmissionRecord == [phase : {"idle", "load", "save"}, user : User \cup {None},
                     details : Details \cup {None}, doc : Doc \cup {None}]
NoSubmission == [phase |-> "idle", user |-> None, details |-> None, doc |-> None]

OnFile == [details : Details \cup {None}, doc : Doc \cup {None}]

Exists(u) == row[u] # NoRow

Goto(r, p) == req' = [req EXCEPT ![r].phase = p]
End(r) == req' = [req EXCEPT ![r] = Idle]
Drop(s) == sub' = [sub EXCEPT ![s] = NoSubmission]

\* A new account is a student's, without a profile.
NewRow(password, google, verified) ==
    [password |-> password, google |-> google, verified |-> verified, otp |-> None, fresh |-> FALSE,
     details |-> None, doc |-> None, status |-> "unverified"]

Init ==
    /\ row = [u \in User |-> NoRow]
    /\ req = [r \in Request |-> Idle]
    /\ sub = [s \in Submission |-> NoSubmission]
    /\ issued = [u \in User |-> {}]
    /\ submitted = [u \in User |-> {}]
    /\ vouched = {}
    /\ reviewed = [u \in User |-> [details |-> None, doc |-> None]]
    /\ overtaken = {}

-----------------------------------------------------------------------------
(* Register, ResendEmailOTP, VerifyEmailOTP *)

\* Register, ResendEmailOTP, VerifyEmailOTP, Login and GoogleLogin arrive; none
\* of them needs an account to be there.
Send(r) ==
    /\ req[r] = Idle
    /\ \E u \in User :
         \/ /\ \E p \in {"create", "resend", "password"} : req' = [req EXCEPT ![r] = Ask(p, u, None, "none")]
            /\ UNCHANGED <<submitted, vouched>>
         \/ \E c \in Code : /\ req' = [req EXCEPT ![r] = Ask("verify", u, c, "none")]
                            /\ submitted' = [submitted EXCEPT ![u] = @ \cup {c}]
                            /\ UNCHANGED vouched
         \/ \E g \in Claim : /\ req' = [req EXCEPT ![r] = Ask("google", u, None, g)]
                             /\ vouched' = IF g = "verified" THEN vouched \cup {u} ELSE vouched
                             /\ UNCHANGED submitted
    /\ UNCHANGED <<row, sub, issued, reviewed, overtaken>>

\* The unique index on the address refuses a second account.
Create(r) ==
    LET u == req[r].user IN
    /\ req[r].phase = "create"
    /\ \/ Exists(u) /\ End(r) /\ UNCHANGED row
       \/ /\ ~Exists(u)
          /\ row' = [row EXCEPT ![u] = NewRow(TRUE, FALSE, FALSE)]
          /\ Goto(r, "issue")
    /\ UNCHANGED <<sub, issued, submitted, vouched, reviewed, overtaken>>

\* No account or a verified one: answered as if a code had been sent.
LoadForResend(r) ==
    /\ req[r].phase = "resend"
    /\ IF Exists(req[r].user) /\ ~row[req[r].user].verified THEN Goto(r, "issue") ELSE End(r)
    /\ UNCHANGED <<row, sub, issued, submitted, vouched, reviewed, overtaken>>

\* Mutant of Issue: the statement forgets the expiry.
IssueTimeless(r) ==
    LET u == req[r].user IN
    /\ req[r].phase = "issue"
    /\ \E c \in Code : /\ row' = [row EXCEPT ![u].otp = c, ![u].fresh = None]
                       /\ issued' = [issued EXCEPT ![u] = @ \cup {c}]
    /\ End(r)
    /\ UNCHANGED <<sub, submitted, vouched, reviewed, overtaken>>

\* issueEmailOTP, whatever became of the account since it was read.
Issue(r) ==
    LET u == req[r].user IN
    /\ req[r].phase = "issue"
    /\ \E c \in Code : /\ row' = [row EXCEPT ![u].otp = c, ![u].fresh = TRUE]
                       /\ issued' = [issued EXCEPT ![u] = @ \cup {c}]
    /\ End(r)
    /\ UNCHANGED <<sub, submitted, vouched, reviewed, overtaken>>

Expire(u) ==
    /\ Exists(u)
    /\ row[u].fresh
    /\ row' = [row EXCEPT ![u].fresh = FALSE]
    /\ UNCHANGED <<req, sub, issued, submitted, vouched, reviewed, overtaken>>

\* VerifyEmailOTP, the read and the comparison. A verified account needs no code.
CheckCode(r) ==
    LET u == req[r].user IN
    /\ req[r].phase = "verify"
    /\ IF /\ Exists(u)
          /\ ~row[u].verified
          /\ row[u].otp = req[r].code
          /\ row[u].fresh
       THEN Goto(r, "mark") ELSE End(r)
    /\ UNCHANGED <<row, sub, issued, submitted, vouched, reviewed, overtaken>>

\* MarkEmailVerified.
Mark(r) ==
    /\ req[r].phase = "mark"
    /\ row' = [row EXCEPT ![req[r].user].verified = TRUE, ![req[r].user].otp = None,
                          ![req[r].user].fresh = FALSE]
    /\ End(r)
    /\ UNCHANGED <<sub, issued, submitted, vouched, reviewed, overtaken>>

-----------------------------------------------------------------------------
(* Login and GoogleLogin *)

\* Mutant of CheckPassword: an address nobody proved is good enough.
CheckPasswordOnly(r) ==
    LET u == req[r].user IN
    /\ req[r].phase = "password"
    /\ \/ Exists(u) /\ row[u].password /\ Goto(r, "session")
       \/ End(r)
    /\ UNCHANGED <<row, sub, issued, submitted, vouched, reviewed, overtaken>>

\* authenticatePassword; the password itself may be wrong.
CheckPassword(r) ==
    LET u == req[r].user IN
    /\ req[r].phase = "password"
    /\ \/ Exists(u) /\ row[u].password /\ row[u].verified /\ Goto(r, "session")
       \/ End(r)
    /\ UNCHANGED <<row, sub, issued, submitted, vouched, reviewed, overtaken>>

FindByGoogleID(r) ==
    LET u == req[r].user IN
    /\ req[r].phase = "google"
    /\ Goto(r, IF Exists(u) /\ row[u].google THEN "session" ELSE "googleEmail")
    /\ UNCHANGED <<row, sub, issued, submitted, vouched, reviewed, overtaken>>

FindByEmail(r) ==
    /\ req[r].phase = "googleEmail"
    /\ Goto(r, IF Exists(req[r].user) THEN "link" ELSE "googleCreate")
    /\ UNCHANGED <<row, sub, issued, submitted, vouched, reviewed, overtaken>>

\* Mutant of LinkGoogleID: a Google account is taken to be proof of its address.
LinkAsVerified(r) ==
    /\ req[r].phase = "link"
    /\ row' = [row EXCEPT ![req[r].user].google = TRUE, ![req[r].user].verified = TRUE]
    /\ Goto(r, "session")
    /\ UNCHANGED <<sub, issued, submitted, vouched, reviewed, overtaken>>

\* Google's word replaces what was known of the address, for better or worse.
LinkGoogleID(r) ==
    /\ req[r].phase = "link"
    /\ row' = [row EXCEPT ![req[r].user].google = TRUE,
                          ![req[r].user].verified = (req[r].claim = "verified")]
    /\ Goto(r, "session")
    /\ UNCHANGED <<sub, issued, submitted, vouched, reviewed, overtaken>>

CreateFromGoogle(r) ==
    LET u == req[r].user IN
    /\ req[r].phase = "googleCreate"
    /\ \/ Exists(u) /\ End(r) /\ UNCHANGED row
       \/ /\ ~Exists(u)
          /\ row' = [row EXCEPT ![u] = NewRow(FALSE, TRUE, req[r].claim = "verified")]
          /\ Goto(r, "session")
    /\ UNCHANGED <<sub, issued, submitted, vouched, reviewed, overtaken>>

\* The caller is handed on to issueSessionAfterAuth.
SignedIn(r) ==
    /\ req[r].phase = "session"
    /\ End(r)
    /\ UNCHANGED <<row, sub, issued, submitted, vouched, reviewed, overtaken>>

\* A statement fails, the client hangs up or the process dies.
Abort(r) ==
    /\ req[r] # Idle
    /\ End(r)
    /\ UNCHANGED <<row, sub, issued, submitted, vouched, reviewed, overtaken>>

-----------------------------------------------------------------------------
(* SubmitProfile and VerifyUser *)

\* The owner of an account submits details, and a document or none.
Submit(s) ==
    /\ sub[s] = NoSubmission
    /\ \E u \in User, t \in Details, d \in Doc \cup {None} :
         /\ Exists(u)
         /\ sub' = [sub EXCEPT ![s] = [phase |-> "load", user |-> u, details |-> t, doc |-> d]]
    /\ UNCHANGED <<row, req, issued, submitted, vouched, reviewed, overtaken>>

\* Mutants of RequiresNewDoc: an account without a profile may do without; a
\* change may.
RequiresNoFirstDoc(current, new, d) == d = None /\ current # None /\ new # current
RequiresNoDoc(current, new, d) == d = None /\ current = None

RequiresNewDoc(current, new, d) == d = None /\ new # current

LoadProfile(s) ==
    /\ sub[s].phase = "load"
    /\ IF RequiresNewDoc(row[sub[s].user].details, sub[s].details, sub[s].doc)
       THEN Drop(s) ELSE sub' = [sub EXCEPT ![s].phase = "save"]
    /\ UNCHANGED <<row, req, issued, submitted, vouched, reviewed, overtaken>>

\* Mutant of Profile: a new document leaves the status alone.
ProfileKeepsStatus(old, t, d) ==
    [old EXCEPT !.details = t, !.doc = IF d = None THEN @ ELSE d,
                !.status = IF d # None /\ @ = "unverified" THEN "pending" ELSE @]

\* SubmitOnboardingProfile: a document re-opens the review, no document keeps
\* the status.
Profile(old, t, d) ==
    IF d = None THEN [old EXCEPT !.details = t]
    ELSE [old EXCEPT !.details = t, !.doc = d, !.status = "pending"]

\* The details change under another submission, which has passed its check
\* without a document and is yet to be saved.
Overtakes(s) ==
    /\ row[sub[s].user].details # sub[s].details
    /\ \E q \in Submission \ {s} : sub[q].phase = "save" /\ sub[q].user = sub[s].user /\ sub[q].doc = None

SaveProfile(s) ==
    LET u == sub[s].user IN
    /\ sub[s].phase = "save"
    /\ row' = [row EXCEPT ![u] = Profile(row[u], sub[s].details, sub[s].doc)]
    /\ overtaken' = IF Overtakes(s) THEN overtaken \cup {u} ELSE overtaken
    /\ Drop(s)
    /\ UNCHANGED <<req, issued, submitted, vouched, reviewed>>

AbortSubmission(s) ==
    /\ sub[s] # NoSubmission
    /\ Drop(s)
    /\ UNCHANGED <<row, req, issued, submitted, vouched, reviewed, overtaken>>

\* VerifyUser: of any account, whatever its status is.
VerifyUser(u, decision) ==
    /\ Exists(u)
    /\ row' = [row EXCEPT ![u].status = decision]
    /\ reviewed' = [reviewed EXCEPT ![u] = [details |-> row[u].details, doc |-> row[u].doc]]
    /\ UNCHANGED <<req, sub, issued, submitted, vouched, overtaken>>

-----------------------------------------------------------------------------
Next ==
    \/ \E r \in Request :
         \/ Send(r) \/ Create(r) \/ LoadForResend(r) \/ Issue(r) \/ CheckCode(r) \/ Mark(r)
         \/ CheckPassword(r) \/ FindByGoogleID(r) \/ FindByEmail(r) \/ LinkGoogleID(r)
         \/ CreateFromGoogle(r) \/ SignedIn(r) \/ Abort(r)
    \/ \E s \in Submission : Submit(s) \/ LoadProfile(s) \/ SaveProfile(s) \/ AbortSubmission(s)
    \/ \E u \in User : Expire(u) \/ \E d \in {"verified", "rejected"} : VerifyUser(u, d)

Spec == Init /\ [][Next]_vars

-----------------------------------------------------------------------------
(* Properties *)

\* The address is its owner's: a code sent there came back, or Google said so.
Proved(u) == u \in vouched \/ issued[u] \cap submitted[u] # {}

\* Every variable keeps its type.
TypeOK ==
    /\ row \in [User -> Row \cup {NoRow}]
    /\ req \in [Request -> RequestRecord]
    /\ sub \in [Submission -> SubmissionRecord]
    /\ issued \in [User -> SUBSET Code]
    /\ submitted \in [User -> SUBSET Code]
    /\ vouched \subseteq User
    /\ reviewed \in [User -> OnFile]
    /\ overtaken \subseteq User

\* A verified address has been proved, however codes, resends and Google
\* sign-ins overlap: VerifyEmailOTP marks an account it read earlier, and
\* linking Google overwrites the mark.
VerifiedEmailProved == \A u \in User : Exists(u) /\ row[u].verified => Proved(u)

\* Nobody signs in with a password before the address of the account has been
\* proved.
AdmittedWithProof ==
    \A r \in Request : req[r].phase = "session" /\ req[r].claim = "none" => Proved(req[r].user)

\* A decision stands for the document it was taken on: replacing the document
\* takes the decision away, whatever submission overlaps with it.
DecisionOnDocument ==
    \A u \in User : Exists(u) /\ row[u].status \in {"verified", "rejected"} => row[u].doc = reviewed[u].doc

\* Whoever has a level and an institution on file has handed in a document.
OnboardedHasDocument ==
    \A u \in User : Exists(u) /\ row[u].details # None => row[u].doc # None

\* A verified student is the one the admin verified: SubmitProfile must not
\* "silently keep the account's existing verification status pinned to identity
\* details an admin never actually reviewed" (user_handler.go:141-143), whatever
\* submissions and reviews overlap, with the one exception the code leaves: the
\* details it compares with are read before they are written, and another
\* submission may change them in between.
VerifiedAsReviewed ==
    \A u \in User :
        Exists(u) /\ row[u].status = "verified" /\ u \notin overtaken
            => row[u].details = reviewed[u].details
=============================================================================
