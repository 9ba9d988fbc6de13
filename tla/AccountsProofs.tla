--------------------------- MODULE AccountsProofs ---------------------------
(***************************************************************************)
(* Proofs about Accounts, for any accounts, codes, documents and number of *)
(* overlapping requests and submissions.                                   *)
(***************************************************************************)
EXTENDS Accounts, TLAPS

\* A request that writes to an account found or made it before, and what it
\* carries was recorded when it came in.
Coherent(r) ==
    LET q == req[r] IN
    /\ q.phase # "idle" => q.user \in User
    /\ q.phase \in {"issue", "mark", "link", "session"} => Exists(q.user)
    /\ q.phase \in {"google", "googleEmail", "link", "googleCreate"} => q.claim \in Claim
    /\ q.phase \in {"create", "issue", "resend", "verify", "mark", "password"} => q.claim = "none"
    /\ q.claim = "verified" => q.user \in vouched
    /\ q.phase \in {"verify", "mark"} => q.code \in submitted[q.user]
    /\ q.phase = "mark" => Proved(q.user)
    /\ q.phase = "session" /\ q.claim = "none" => Proved(q.user)

\* A code that is outstanding was issued to the address.
Outstanding ==
    \A u \in User : Exists(u) /\ row[u].otp # None => row[u].otp \in issued[u]

\* A submission without a document was let through because a profile is there.
Grounded(s) ==
    /\ sub[s].phase # "idle" => /\ sub[s].user \in User
                                /\ sub[s].details \in Details
                                /\ Exists(sub[s].user)
    /\ sub[s].phase = "save" /\ sub[s].doc = None => row[sub[s].user].details # None

IInv ==
    /\ TypeOK
    /\ VerifiedEmailProved
    /\ AdmittedWithProof
    /\ Outstanding
    /\ \A r \in Request : Coherent(r)
    /\ \A s \in Submission : Grounded(s)
    /\ DecisionOnDocument
    /\ OnboardedHasDocument

\* The details a submission without a document was compared with are still on
\* file, unless another one has overtaken it.
Unchanged(s) ==
    sub[s].phase = "save" /\ sub[s].doc = None /\ sub[s].user \notin overtaken
        => row[sub[s].user].details = sub[s].details

SInv == IInv /\ VerifiedAsReviewed /\ \A s \in Submission : Unchanged(s)

USE NoneAssumption

-----------------------------------------------------------------------------
LEMMA InitSInv == Init => SInv
BY DEF Init, SInv, IInv, TypeOK, VerifiedEmailProved, AdmittedWithProof, Outstanding, Coherent,
   Grounded, DecisionOnDocument, OnboardedHasDocument, VerifiedAsReviewed, Unchanged, Exists, NoRow,
   Idle, NoSubmission, RequestRecord, Phase, SubmissionRecord, OnFile

\* NoRow is no account.
LEMMA NoRowIsNone == NoRow \notin Row
BY DEF NoRow, Row

LEMMA RowOf == ASSUME TypeOK, NEW u \in User, Exists(u) PROVE row[u] \in Row
BY DEF TypeOK, Exists

\* Setting columns of a row gives a row.
LEMMA RowEdits ==
    ASSUME NEW w \in Row
    PROVE  /\ \A c \in Code : [w EXCEPT !.otp = c, !.fresh = TRUE] \in Row
           /\ [w EXCEPT !.fresh = FALSE] \in Row
           /\ [w EXCEPT !.verified = TRUE, !.otp = None, !.fresh = FALSE] \in Row
           /\ \A b \in BOOLEAN : [w EXCEPT !.google = TRUE, !.verified = b] \in Row
           /\ \A d \in {"verified", "rejected"} : [w EXCEPT !.status = d] \in Row
<1>1. \A c \in Code : [w EXCEPT !.otp = c, !.fresh = TRUE] \in Row
  BY DEF Row
<1>2. [w EXCEPT !.fresh = FALSE] \in Row
  BY DEF Row
<1>3. [w EXCEPT !.verified = TRUE, !.otp = None, !.fresh = FALSE] \in Row
  BY DEF Row
<1>4. \A b \in BOOLEAN : [w EXCEPT !.google = TRUE, !.verified = b] \in Row
  BY DEF Row
<1>5. \A d \in {"verified", "rejected"} : [w EXCEPT !.status = d] \in Row
  BY DEF Row
<1> QED BY <1>1, <1>2, <1>3, <1>4, <1>5

LEMMA ProfileIsRow ==
    ASSUME NEW w \in Row, NEW t \in Details, NEW d \in Doc \cup {None}
    PROVE  Profile(w, t, d) \in Row
BY DEF Row, Profile

LEMMA RequestEnded ==
    ASSUME TypeOK, NEW r \in Request, End(r)
    PROVE  req' \in [Request -> RequestRecord]
<1>1. Idle \in RequestRecord
  BY DEF RequestRecord, Idle, Phase
<1> QED BY <1>1 DEF TypeOK, End

LEMMA RequestWent ==
    ASSUME TypeOK, NEW r \in Request, NEW p \in Phase, Goto(r, p)
    PROVE  req' \in [Request -> RequestRecord]
<1>1. PICK q \in RequestRecord : q = req[r]
  BY DEF TypeOK
<1>2. [q EXCEPT !.phase = p] \in RequestRecord
  BY DEF RequestRecord
<1> QED BY <1>1, <1>2 DEF TypeOK, Goto

LEMMA SubmissionDropped ==
    ASSUME TypeOK, NEW s \in Submission, Drop(s)
    PROVE  sub' \in [Submission -> SubmissionRecord]
<1>1. NoSubmission \in SubmissionRecord
  BY DEF SubmissionRecord, NoSubmission
<1> QED BY <1>1 DEF TypeOK, Drop

\* The table keeps its type, and an account is never deleted.
TableGrows ==
    /\ row' \in [User -> Row \cup {NoRow}]
    /\ \A u \in User : Exists(u) => row'[u] # NoRow

LEMMA NextRow == ASSUME IInv, [Next]_vars PROVE TableGrows
<1> USE DEF IInv
<1>1. ASSUME NEW u \in User, NEW w, row' = [row EXCEPT ![u] = w], w \in Row
      PROVE  TableGrows
  BY <1>1, NoRowIsNone DEF TypeOK, TableGrows, Exists
<1>2. CASE UNCHANGED row
  BY <1>2 DEF TypeOK, TableGrows, Exists
<1>3. ASSUME NEW r \in Request, Create(r) \/ CreateFromGoogle(r) PROVE TableGrows
  <2>1. \A p, g, v \in BOOLEAN : NewRow(p, g, v) \in Row
    BY DEF NewRow, Row
  <2>2. req[r].user \in User
    BY <1>3 DEF Create, CreateFromGoogle, Coherent
  <2>3. (req[r].claim = "verified") \in BOOLEAN
    OBVIOUS
  <2>4. CASE Create(r)
    BY <2>1, <2>2, <2>4, <1>1, <1>2 DEF Create
  <2>5. CASE CreateFromGoogle(r)
    BY <2>1, <2>2, <2>3, <2>5, <1>1, <1>2 DEF CreateFromGoogle
  <2> QED BY <1>3, <2>4, <2>5
<1>4. ASSUME NEW r \in Request, Issue(r) PROVE TableGrows
  <2> DEFINE u == req[r].user
  <2>a. u \in User /\ Exists(u)
    BY <1>4 DEF Issue, Coherent
  <2>b. PICK c \in Code : row' = [row EXCEPT ![u].otp = c, ![u].fresh = TRUE]
    BY <1>4 DEF Issue
  <2>1. row' = [row EXCEPT ![u] = [row[u] EXCEPT !.otp = c, !.fresh = TRUE]]
    BY <2>a, <2>b DEF TypeOK
  <2>2. [row[u] EXCEPT !.otp = c, !.fresh = TRUE] \in Row
    BY <2>a, RowOf, RowEdits
  <2> QED BY <2>a, <2>1, <2>2, <1>1
<1>5. ASSUME NEW u \in User, Expire(u) PROVE TableGrows
  <2>1. [row[u] EXCEPT !.fresh = FALSE] \in Row
    BY <1>5, RowOf, RowEdits DEF Expire
  <2> QED BY <1>5, <2>1, <1>1 DEF Expire
<1>6. ASSUME NEW r \in Request, Mark(r) PROVE TableGrows
  <2>1. PICK u \in User : /\ u = req[r].user
                          /\ row' = [row EXCEPT ![u] = [row[u] EXCEPT !.verified = TRUE, !.otp = None,
                                                                      !.fresh = FALSE]]
                          /\ Exists(u)
    BY <1>6 DEF Mark, Coherent
  <2>2. [row[u] EXCEPT !.verified = TRUE, !.otp = None, !.fresh = FALSE] \in Row
    BY <2>1, RowOf, RowEdits
  <2> QED BY <2>1, <2>2, <1>1
<1>7. ASSUME NEW r \in Request, LinkGoogleID(r) PROVE TableGrows
  <2>1. PICK u \in User, b \in BOOLEAN :
          /\ u = req[r].user
          /\ row' = [row EXCEPT ![u] = [row[u] EXCEPT !.google = TRUE, !.verified = b]]
          /\ Exists(u)
    BY <1>7 DEF LinkGoogleID, Coherent
  <2>2. [row[u] EXCEPT !.google = TRUE, !.verified = b] \in Row
    BY <2>1, RowOf, RowEdits
  <2> QED BY <2>1, <2>2, <1>1
<1>8. ASSUME NEW s \in Submission, SaveProfile(s) PROVE TableGrows
  <2>1. PICK u \in User, t \in Details, d \in Doc \cup {None} :
          row' = [row EXCEPT ![u] = Profile(row[u], t, d)] /\ Exists(u)
    BY <1>8 DEF SaveProfile, Grounded, TypeOK, SubmissionRecord
  <2>2. Profile(row[u], t, d) \in Row
    BY <2>1, RowOf, ProfileIsRow
  <2> QED BY <2>1, <2>2, <1>1
<1>9. ASSUME NEW u \in User, NEW d \in {"verified", "rejected"}, VerifyUser(u, d)
      PROVE  TableGrows
  <2>1. [row[u] EXCEPT !.status = d] \in Row
    BY <1>9, RowOf, RowEdits DEF VerifyUser
  <2> QED BY <1>9, <2>1, <1>1 DEF VerifyUser
<1> QED
  BY <1>3, <1>4, <1>5, <1>6, <1>7, <1>8, <1>9, <1>2 DEF Next, Send, LoadForResend, CheckCode,
     CheckPassword, FindByGoogleID, FindByEmail, SignedIn, Abort, Submit, LoadProfile,
     AbortSubmission, vars
\* A request ends or moves on.
LEMMA RequestSteps ==
    ASSUME NEW r \in Request, \/ Create(r) \/ LoadForResend(r) \/ Issue(r) \/ CheckCode(r) \/ Mark(r)
           \/ CheckPassword(r) \/ FindByGoogleID(r) \/ FindByEmail(r) \/ LinkGoogleID(r)
           \/ CreateFromGoogle(r) \/ SignedIn(r) \/ Abort(r)
    PROVE  End(r) \/ \E p \in Phase : Goto(r, p)
<1>1. CASE FindByGoogleID(r)
  <2>1. PICK p \in {"session", "googleEmail"} : Goto(r, p)
    BY <1>1 DEF FindByGoogleID, Goto
  <2> QED BY <2>1 DEF Phase
<1>2. CASE FindByEmail(r)
  <2>1. PICK p \in {"link", "googleCreate"} : Goto(r, p)
    BY <1>2 DEF FindByEmail, Goto
  <2> QED BY <2>1 DEF Phase
<1>3. CASE ~FindByGoogleID(r) /\ ~FindByEmail(r)
  <2>1. End(r) \/ Goto(r, "issue") \/ Goto(r, "mark") \/ Goto(r, "session")
    BY <1>3 DEF Create, LoadForResend, Issue, CheckCode, Mark, CheckPassword, LinkGoogleID,
       CreateFromGoogle, SignedIn, Abort
  <2> QED BY <2>1 DEF Phase
<1> QED BY <1>1, <1>2, <1>3

LEMMA NextRequests == ASSUME IInv, [Next]_vars PROVE req' \in [Request -> RequestRecord]
<1> USE DEF IInv
<1>1. ASSUME NEW r \in Request, Send(r) PROVE req' \in [Request -> RequestRecord]
  <2>1. PICK p \in Phase, u \in User, c \in Code \cup {None}, g \in Claim \cup {"none"} :
          req' = [req EXCEPT ![r] = Ask(p, u, c, g)]
    BY <1>1 DEF Send, Phase
  <2>2. Ask(p, u, c, g) \in RequestRecord
    BY DEF Ask, RequestRecord
  <2> QED BY <2>1, <2>2 DEF TypeOK
<1>2. ASSUME NEW r \in Request, NEW p \in Phase, Goto(r, p) PROVE req' \in [Request -> RequestRecord]
  BY <1>2, RequestWent
<1>3. ASSUME NEW r \in Request, End(r) PROVE req' \in [Request -> RequestRecord]
  BY <1>3, RequestEnded
<1>4. CASE UNCHANGED req
  BY <1>4 DEF TypeOK
<1>5. ASSUME NEW r \in Request, \/ Create(r) \/ LoadForResend(r) \/ Issue(r) \/ CheckCode(r) \/ Mark(r)
             \/ CheckPassword(r) \/ FindByGoogleID(r) \/ FindByEmail(r) \/ LinkGoogleID(r)
             \/ CreateFromGoogle(r) \/ SignedIn(r) \/ Abort(r)
      PROVE  req' \in [Request -> RequestRecord]
  BY <1>2, <1>3, <1>5, RequestSteps
<1> QED
  BY <1>1, <1>4, <1>5 DEF Next, Submit, LoadProfile, SaveProfile, AbortSubmission, Expire, VerifyUser,
     vars

LEMMA NextSubmissions == ASSUME IInv, [Next]_vars PROVE sub' \in [Submission -> SubmissionRecord]
<1> USE DEF IInv
<1>1. ASSUME NEW s \in Submission, Submit(s) PROVE sub' \in [Submission -> SubmissionRecord]
  BY <1>1 DEF Submit, SubmissionRecord, TypeOK
<1>2. ASSUME NEW s \in Submission, LoadProfile(s), ~Drop(s) PROVE sub' \in [Submission -> SubmissionRecord]
  <2>1. [sub[s] EXCEPT !.phase = "save"] \in SubmissionRecord
    BY DEF TypeOK, SubmissionRecord
  <2> QED BY <1>2, <2>1 DEF LoadProfile, TypeOK
<1>3. ASSUME NEW s \in Submission, Drop(s) PROVE sub' \in [Submission -> SubmissionRecord]
  BY <1>3, SubmissionDropped
<1>4. CASE UNCHANGED sub
  BY <1>4 DEF TypeOK
<1> QED
  BY <1>1, <1>2, <1>3, <1>4 DEF Next, SaveProfile, AbortSubmission, Send, Create, LoadForResend, Issue,
     CheckCode, Mark, CheckPassword, FindByGoogleID, FindByEmail, LinkGoogleID, CreateFromGoogle,
     SignedIn, Abort, Expire, VerifyUser, vars

\* The history only grows, and what an admin decided on is what was on file.
LEMMA NextHistory ==
    ASSUME IInv, [Next]_vars
    PROVE  /\ issued' \in [User -> SUBSET Code]
           /\ submitted' \in [User -> SUBSET Code]
           /\ vouched' \subseteq User
           /\ reviewed' \in [User -> OnFile]
           /\ \A u \in User : issued[u] \subseteq issued'[u] /\ submitted[u] \subseteq submitted'[u]
           /\ vouched \subseteq vouched'
           /\ overtaken' \subseteq User
           /\ overtaken \subseteq overtaken'
<1> USE DEF IInv, TypeOK
<1>1. issued' \in [User -> SUBSET Code] /\ \A u \in User : issued[u] \subseteq issued'[u]
  <2>1. ASSUME NEW r \in Request, Issue(r)
        PROVE  issued' \in [User -> SUBSET Code] /\ \A u \in User : issued[u] \subseteq issued'[u]
    <3>1. PICK c \in Code : issued' = [issued EXCEPT ![req[r].user] = @ \cup {c}]
      BY <2>1 DEF Issue
    <3> QED BY <3>1
  <2> QED
    BY <2>1 DEF Next, Send, Create, LoadForResend, CheckCode, Mark, CheckPassword, FindByGoogleID,
       FindByEmail, LinkGoogleID, CreateFromGoogle, SignedIn, Abort, Submit, LoadProfile, SaveProfile,
       AbortSubmission, Expire, VerifyUser, vars
<1>2. /\ submitted' \in [User -> SUBSET Code] /\ vouched' \subseteq User
      /\ \A u \in User : submitted[u] \subseteq submitted'[u]
      /\ vouched \subseteq vouched'
  <2>1. ASSUME NEW r \in Request, Send(r)
        PROVE  /\ submitted' \in [User -> SUBSET Code] /\ vouched' \subseteq User
               /\ \A u \in User : submitted[u] \subseteq submitted'[u]
               /\ vouched \subseteq vouched'
    BY <2>1 DEF Send
  <2> QED
    BY <2>1 DEF Next, Create, LoadForResend, Issue, CheckCode, Mark, CheckPassword, FindByGoogleID,
       FindByEmail, LinkGoogleID, CreateFromGoogle, SignedIn, Abort, Submit, LoadProfile, SaveProfile,
       AbortSubmission, Expire, VerifyUser, vars
<1>3. reviewed' \in [User -> OnFile]
  <2>1. ASSUME NEW u \in User, NEW d \in {"verified", "rejected"}, VerifyUser(u, d)
        PROVE  reviewed' \in [User -> OnFile]
    <3>1. row[u] \in Row
      BY <2>1, RowOf DEF VerifyUser
    <3>2. [details |-> row[u].details, doc |-> row[u].doc] \in OnFile
      BY <3>1 DEF Row, OnFile
    <3> QED BY <2>1, <3>2 DEF VerifyUser, TypeOK
  <2>2. CASE UNCHANGED reviewed
    BY <2>2 DEF TypeOK
  <2>3. ASSUME NEW r \in Request,
               \/ Send(r) \/ Create(r) \/ LoadForResend(r) \/ Issue(r) \/ CheckCode(r) \/ Mark(r)
               \/ CheckPassword(r) \/ FindByGoogleID(r) \/ FindByEmail(r) \/ LinkGoogleID(r)
               \/ CreateFromGoogle(r) \/ SignedIn(r) \/ Abort(r)
        PROVE  UNCHANGED reviewed
    BY <2>3, Zenon DEF Send, Create, LoadForResend, Issue, CheckCode, Mark, CheckPassword,
       FindByGoogleID, FindByEmail, LinkGoogleID, CreateFromGoogle, SignedIn, Abort
  <2>4. ASSUME NEW s \in Submission, Submit(s) \/ LoadProfile(s) \/ SaveProfile(s) \/ AbortSubmission(s)
        PROVE  UNCHANGED reviewed
    BY <2>4 DEF Submit, LoadProfile, SaveProfile, AbortSubmission
  <2>5. ASSUME NEW u \in User, Expire(u) PROVE UNCHANGED reviewed
    BY <2>5 DEF Expire
  <2>6. CASE UNCHANGED vars
    BY <2>2, <2>6 DEF vars
  <2> QED BY <2>1, <2>2, <2>3, <2>4, <2>5, <2>6 DEF Next
<1>4. overtaken' \subseteq User /\ overtaken \subseteq overtaken'
  <2>1. ASSUME NEW s \in Submission, SaveProfile(s)
        PROVE  overtaken' \subseteq User /\ overtaken \subseteq overtaken'
    BY <2>1 DEF SaveProfile, Grounded
  <2> QED
    BY <2>1 DEF Next, Send, Create, LoadForResend, Issue, CheckCode, Mark, CheckPassword, FindByGoogleID,
       FindByEmail, LinkGoogleID, CreateFromGoogle, SignedIn, Abort, Submit, LoadProfile,
       AbortSubmission, Expire, VerifyUser, vars
<1> QED BY <1>1, <1>2, <1>3, <1>4

LEMMA ProofStays == ASSUME IInv, [Next]_vars, NEW u \in User, Proved(u) PROVE Proved(u)'
BY NextHistory DEF Proved

LEMMA NextTypeOK == ASSUME IInv, [Next]_vars PROVE TypeOK'
BY NextRow, NextRequests, NextSubmissions, NextHistory DEF TypeOK, TableGrows

LEMMA RowStays == ASSUME IInv, [Next]_vars, NEW u \in User, Exists(u) PROVE Exists(u)'
BY NextRow DEF TableGrows, Exists

\* A request that a step does not touch stays coherent.
LEMMA CoherentKept ==
    ASSUME IInv, [Next]_vars, NEW q \in Request, UNCHANGED req[q]
    PROVE  Coherent(q)'
<1>1. Coherent(q)
  BY DEF IInv
<1>2. CASE req[q].phase = "idle"
  <2>1. req[q].claim # "verified" \/ req[q].user \in vouched
    BY <1>1 DEF Coherent
  <2> QED BY <1>1, <1>2, <2>1, NextHistory DEF Coherent
<1>3. CASE req[q].phase # "idle"
  <2>1. req[q].user \in User
    BY <1>1, <1>3 DEF Coherent
  <2>2. /\ Exists(req[q].user) => Exists(req[q].user)'
        /\ Proved(req[q].user) => Proved(req[q].user)'
    BY <2>1, RowStays, ProofStays
  <2> QED BY <1>1, <2>1, <2>2, NextHistory DEF Coherent, Exists, Proved
<1> QED BY <1>2, <1>3

\* What is left of a request that has ended.
LEMMA CoherentEnded == ASSUME IInv, [Next]_vars, NEW q \in Request, End(q) PROVE Coherent(q)'
<1>1. req'[q] = Idle
  BY DEF End, IInv, TypeOK
<1> QED BY <1>1 DEF Coherent, Idle

LEMMA NextCoherent == ASSUME IInv, [Next]_vars PROVE \A q \in Request : Coherent(q)'
<1> SUFFICES ASSUME NEW q \in Request PROVE Coherent(q)'
  OBVIOUS
<1> USE DEF IInv
<1>1. CASE UNCHANGED req[q]
  BY <1>1, CoherentKept
<1>2. CASE End(q)
  BY <1>2, CoherentEnded
<1>3. ASSUME Send(q) PROVE Coherent(q)'
  BY <1>3 DEF Send, Ask, Coherent, TypeOK, Claim
<1> DEFINE u == req[q].user
<1>4. u \in User /\ Exists(u) => row'[u] # NoRow
  BY NextRow DEF TableGrows
<1>5. ASSUME NEW p \in Phase, Goto(q, p)
      PROVE  req'[q] = [req[q] EXCEPT !.phase = p]
  BY <1>5 DEF Goto, TypeOK
<1>6. ASSUME Create(q), ~End(q) PROVE Coherent(q)'
  <2>1. req'[q] = [req[q] EXCEPT !.phase = "issue"] /\ vouched' = vouched
    BY <1>5, <1>6 DEF Create, Phase
  <2>2. u \in User /\ row'[u] = NewRow(TRUE, FALSE, FALSE)
    BY <1>6 DEF Create, Coherent, TypeOK
  <2>3. row'[u] # NoRow
    BY <2>2 DEF NewRow, NoRow
  <2>4. req[q].phase = "create"
    BY <1>6 DEF Create
  <2>5. req'[q].phase = "issue" /\ req'[q].user = u /\ req'[q].claim = req[q].claim
    BY <2>1 DEF TypeOK, RequestRecord
  <2> QED BY <2>1, <2>2, <2>3, <2>4, <2>5 DEF Coherent, Exists
<1>7. ASSUME LoadForResend(q), ~End(q) PROVE Coherent(q)'
  <2>1. req'[q] = [req[q] EXCEPT !.phase = "issue"] /\ vouched' = vouched
    BY <1>5, <1>7 DEF LoadForResend, Phase
  <2>2. u \in User /\ Exists(u)
    BY <1>7 DEF LoadForResend, Coherent
  <2> QED BY <1>4, <1>7, <2>1, <2>2 DEF Coherent, Exists, LoadForResend, TypeOK, RequestRecord
<1>8. ASSUME CheckCode(q), ~End(q) PROVE Coherent(q)'
  <2>1. req'[q] = [req[q] EXCEPT !.phase = "mark"] /\ UNCHANGED <<vouched, submitted, issued>>
    BY <1>5, <1>8 DEF CheckCode, Phase
  <2>2. u \in User /\ Exists(u) /\ row[u].otp = req[q].code /\ req[q].code \in submitted[u]
    BY <1>8 DEF CheckCode, Coherent
  <2>3. req[q].code \in Code
    BY <2>2 DEF TypeOK
  <2>4. Proved(u)
    BY <2>2, <2>3 DEF Proved, Outstanding
  <2> QED BY <1>4, <1>8, <2>1, <2>2, <2>4 DEF Coherent, CheckCode, Proved, TypeOK, Exists, RequestRecord
<1>9. ASSUME CheckPassword(q), ~End(q) PROVE Coherent(q)'
  <2>1. req'[q] = [req[q] EXCEPT !.phase = "session"] /\ vouched' = vouched
    BY <1>5, <1>9 DEF CheckPassword, Phase
  <2>2. u \in User /\ Exists(u) /\ Proved(u) /\ UNCHANGED <<submitted, issued>>
    BY <1>9 DEF CheckPassword, Coherent, VerifiedEmailProved
  <2> QED BY <1>4, <1>9, <2>1, <2>2 DEF Coherent, Exists, Proved, CheckPassword, TypeOK, RequestRecord
<1>10. ASSUME FindByGoogleID(q) PROVE Coherent(q)'
  <2>1. PICK p \in {"session", "googleEmail"} : /\ req'[q] = [req[q] EXCEPT !.phase = p]
                                                /\ p = "session" => Exists(u)
    BY <1>5, <1>10 DEF FindByGoogleID, Phase, Goto
  <2>2. req[q].claim # "none"
    BY <1>10 DEF FindByGoogleID, Coherent, Claim
  <2> QED BY <1>4, <1>10, <2>1, <2>2 DEF Coherent, Exists, FindByGoogleID, TypeOK, RequestRecord
<1>11. ASSUME FindByEmail(q) PROVE Coherent(q)'
  <2>1. PICK p \in {"link", "googleCreate"} : /\ req'[q] = [req[q] EXCEPT !.phase = p]
                                              /\ p = "link" => Exists(u)
    BY <1>5, <1>11 DEF FindByEmail, Phase, Goto
  <2> QED BY <1>4, <1>11, <2>1 DEF Coherent, Exists, FindByEmail, TypeOK, RequestRecord
<1>12. ASSUME LinkGoogleID(q) PROVE Coherent(q)'
  <2>1. req'[q] = [req[q] EXCEPT !.phase = "session"]
    BY <1>5, <1>12 DEF LinkGoogleID, Phase
  <2>2. req[q].claim # "none"
    BY <1>12 DEF LinkGoogleID, Coherent, Claim
  <2> QED BY <1>4, <1>12, <2>1, <2>2 DEF Coherent, Exists, LinkGoogleID, TypeOK, RequestRecord
<1>13. ASSUME CreateFromGoogle(q), ~End(q) PROVE Coherent(q)'
  <2>1. req'[q] = [req[q] EXCEPT !.phase = "session"] /\ vouched' = vouched
    BY <1>5, <1>13 DEF CreateFromGoogle, Phase
  <2>2. u \in User /\ row'[u] = NewRow(FALSE, TRUE, req[q].claim = "verified")
    BY <1>13 DEF CreateFromGoogle, Coherent, TypeOK
  <2>3. row'[u] # NoRow
    BY <2>2 DEF NewRow, NoRow
  <2>4. req[q].phase = "googleCreate" /\ req[q].claim # "none"
    BY <1>13 DEF CreateFromGoogle, Coherent, Claim
  <2>5. req'[q].phase = "session" /\ req'[q].user = u /\ req'[q].claim = req[q].claim
    BY <2>1 DEF TypeOK, RequestRecord
  <2> QED BY <2>1, <2>2, <2>3, <2>4, <2>5 DEF Coherent, Exists
<1>14. ASSUME NEW r \in Request, r # q, End(r) \/ (\E p \in Phase : Goto(r, p)) \/ Send(r)
       PROVE  UNCHANGED req[q]
  BY <1>14 DEF End, Goto, Send, TypeOK
<1>15. ASSUME NEW r \in Request, \/ Create(r) \/ LoadForResend(r) \/ Issue(r) \/ CheckCode(r) \/ Mark(r)
              \/ CheckPassword(r) \/ FindByGoogleID(r) \/ FindByEmail(r) \/ LinkGoogleID(r)
              \/ CreateFromGoogle(r) \/ SignedIn(r) \/ Abort(r)
       PROVE  End(r) \/ \E p \in Phase : Goto(r, p)
  BY <1>15, RequestSteps
<1> HIDE DEF IInv
<1>16. ASSUME NEW r \in Request, \/ Send(r) \/ Create(r) \/ LoadForResend(r) \/ Issue(r) \/ CheckCode(r)
              \/ Mark(r) \/ CheckPassword(r) \/ FindByGoogleID(r) \/ FindByEmail(r) \/ LinkGoogleID(r)
              \/ CreateFromGoogle(r) \/ SignedIn(r) \/ Abort(r)
       PROVE  Coherent(q)'
  <2>1. CASE r # q
    BY <1>1, <1>14, <1>15, <1>16, <2>1
  <2>2. CASE r = q
    <3>1. Issue(q) \/ Mark(q) \/ SignedIn(q) \/ Abort(q) => End(q)
      BY DEF Issue, Mark, SignedIn, Abort
    <3> QED
      BY <1>2, <1>3, <1>6, <1>7, <1>8, <1>9, <1>10, <1>11, <1>12, <1>13, <1>16, <2>2, <3>1
  <2> QED BY <2>1, <2>2
<1> QED
  BY <1>1, <1>16 DEF Next, Submit, LoadProfile, SaveProfile, AbortSubmission, Expire, VerifyUser, vars

\* The part of an account that a code or Google's word changes.
AddressSound(u) ==
    Exists(u) => /\ row[u].otp # None => row[u].otp \in issued[u]
                 /\ row[u].verified => Proved(u)

LEMMA NextAddress == ASSUME IInv, [Next]_vars, NEW u \in User PROVE AddressSound(u)'
<1> USE DEF IInv
<1> DEFINE Sound == row'[u] # NoRow => /\ row'[u].otp # None => row'[u].otp \in issued'[u]
                                       /\ row'[u].verified => Proved(u)'
<1>1. AddressSound(u)
  BY DEF AddressSound, VerifiedEmailProved, Outstanding
<1>2. Exists(u) => \E w \in Row : w = row[u]
  BY RowOf
<1>3. CASE row'[u] = row[u]
  BY <1>1, <1>3, ProofStays, NextHistory DEF AddressSound, Exists
<1>4. ASSUME NEW p \in BOOLEAN, NEW g \in BOOLEAN, NEW v \in BOOLEAN, row'[u] = NewRow(p, g, v),
             v => u \in vouched
      PROVE  Sound
  BY <1>4, NextHistory DEF NewRow, Proved
<1>5. ASSUME NEW r \in Request, Create(r) PROVE Sound
  BY <1>3, <1>4, <1>5 DEF Create, AddressSound, Exists, TypeOK
<1>6. ASSUME NEW r \in Request, CreateFromGoogle(r) PROVE Sound
  <2>1. req[r].claim = "verified" => req[r].user \in vouched
    BY DEF Coherent
  <2> QED BY <1>3, <1>4, <1>6, <2>1 DEF CreateFromGoogle, AddressSound, Exists, TypeOK
<1>7. ASSUME NEW r \in Request, Issue(r) PROVE Sound
  <2>1. PICK w \in User, c \in Code : /\ w = req[r].user /\ Exists(w)
                                      /\ row' = [row EXCEPT ![w].otp = c, ![w].fresh = TRUE]
                                      /\ issued' = [issued EXCEPT ![w] = @ \cup {c}]
    BY <1>7 DEF Issue, Coherent
  <2>2. CASE w = u
    <3>1. row'[u].otp = c /\ row'[u].verified = row[u].verified /\ c \in issued'[u]
      BY <1>2, <2>1, <2>2 DEF TypeOK, Row
    <3> QED BY <1>1, <2>1, <2>2, <3>1, ProofStays DEF AddressSound
  <2>3. CASE w # u
    BY <1>3, <2>1, <2>3 DEF AddressSound, Exists, TypeOK
  <2> QED BY <2>2, <2>3
<1>8. ASSUME NEW w \in User, Expire(w) PROVE Sound
  <2>1. CASE w = u
    <3>1. row'[u].otp = row[u].otp /\ row'[u].verified = row[u].verified
      BY <1>2, <1>8, <2>1 DEF Expire, TypeOK, Row
    <3> QED BY <1>1, <1>8, <2>1, <3>1, ProofStays, NextHistory DEF AddressSound, Expire
  <2>2. CASE w # u
    BY <1>3, <1>8, <2>2 DEF Expire, AddressSound, Exists, TypeOK
  <2> QED BY <2>1, <2>2
<1>9. ASSUME NEW r \in Request, Mark(r) PROVE Sound
  <2>1. req[r].user \in User /\ Exists(req[r].user) /\ Proved(req[r].user)
    BY <1>9 DEF Mark, Coherent
  <2>2. CASE req[r].user = u
    <3>1. row'[u].otp = None
      BY <1>2, <1>9, <2>1, <2>2 DEF Mark, TypeOK, Row
    <3> QED BY <2>1, <2>2, <3>1, ProofStays
  <2>3. CASE req[r].user # u
    BY <1>3, <1>9, <2>3 DEF Mark, AddressSound, Exists, TypeOK
  <2> QED BY <2>2, <2>3
<1>10. ASSUME NEW r \in Request, LinkGoogleID(r) PROVE Sound
  <2>1. /\ req[r].user \in User /\ Exists(req[r].user)
        /\ req[r].claim = "verified" => req[r].user \in vouched
    BY <1>10 DEF LinkGoogleID, Coherent
  <2>2. CASE req[r].user = u
    <3>1. row'[u].otp = row[u].otp /\ (row'[u].verified => u \in vouched)
      BY <1>2, <1>10, <2>1, <2>2 DEF LinkGoogleID, TypeOK, Row
    <3> QED BY <1>1, <2>1, <2>2, <3>1, NextHistory DEF AddressSound, Proved
  <2>3. CASE req[r].user # u
    BY <1>3, <1>10, <2>3 DEF LinkGoogleID, AddressSound, Exists, TypeOK
  <2> QED BY <2>2, <2>3
<1>11. ASSUME NEW s \in Submission, SaveProfile(s) PROVE Sound
  <2>1. sub[s].user \in User /\ Exists(sub[s].user)
    BY <1>11 DEF SaveProfile, Grounded
  <2>2. CASE sub[s].user = u
    <3>1. row'[u].otp = row[u].otp /\ row'[u].verified = row[u].verified
      BY <1>2, <1>11, <2>1, <2>2 DEF SaveProfile, TypeOK, Row, Profile
    <3> QED BY <1>1, <2>1, <2>2, <3>1, ProofStays, NextHistory DEF AddressSound
  <2>3. CASE sub[s].user # u
    BY <1>3, <1>11, <2>3 DEF SaveProfile, AddressSound, Exists, TypeOK
  <2> QED BY <2>2, <2>3
<1>12. ASSUME NEW w \in User, NEW d \in {"verified", "rejected"}, VerifyUser(w, d) PROVE Sound
  <2>1. CASE w = u
    <3>1. row'[u].otp = row[u].otp /\ row'[u].verified = row[u].verified
      BY <1>2, <1>12, <2>1 DEF VerifyUser, TypeOK, Row
    <3> QED BY <1>1, <1>12, <2>1, <3>1, ProofStays, NextHistory DEF AddressSound, VerifyUser
  <2>2. CASE w # u
    BY <1>3, <1>12, <2>2 DEF VerifyUser, AddressSound, Exists, TypeOK
  <2> QED BY <2>1, <2>2
<1>13. \/ UNCHANGED row
       \/ \E r \in Request : Create(r) \/ CreateFromGoogle(r) \/ Issue(r) \/ Mark(r) \/ LinkGoogleID(r)
       \/ \E s \in Submission : SaveProfile(s)
       \/ \E w \in User : Expire(w)
       \/ \E w \in User : \E d \in {"verified", "rejected"} : VerifyUser(w, d)
  BY DEF Next, Send, LoadForResend, CheckCode, CheckPassword, FindByGoogleID, FindByEmail, SignedIn,
     Abort, Submit, LoadProfile, AbortSubmission, vars
<1>14. row'[u] = row[u] => Sound
  BY <1>3 DEF AddressSound, Exists
<1>15. Sound
  BY <1>5, <1>6, <1>7, <1>8, <1>9, <1>10, <1>11, <1>12, <1>13, <1>14
<1> QED BY <1>15 DEF AddressSound, Exists

\* The part of an account that a profile or an admin changes.
LEMMA NextProfile ==
    ASSUME IInv, [Next]_vars, NEW u \in User
    PROVE  \/ /\ Exists(u)
              /\ row'[u].details = row[u].details /\ row'[u].doc = row[u].doc
              /\ row'[u].status = row[u].status /\ reviewed'[u] = reviewed[u]
           \/ /\ ~Exists(u) /\ reviewed'[u] = reviewed[u]
              /\ \/ row'[u] = NoRow
                 \/ row'[u].details = None /\ row'[u].status = "unverified"
           \/ /\ Exists(u) /\ reviewed'[u] = reviewed[u]
              /\ \E s \in Submission :
                   /\ SaveProfile(s) /\ sub[s].user = u
                   /\ row'[u].details = sub[s].details
                   /\ \/ /\ sub[s].doc = None
                         /\ row'[u].doc = row[u].doc /\ row'[u].status = row[u].status
                      \/ /\ sub[s].doc # None
                         /\ row'[u].doc = sub[s].doc /\ row'[u].status = "pending"
           \/ /\ Exists(u) /\ row'[u].details = row[u].details /\ row'[u].doc = row[u].doc
              /\ reviewed'[u] = [details |-> row[u].details, doc |-> row[u].doc]
<1> USE DEF IInv
<1> DEFINE Same == /\ row'[u].details = row[u].details /\ row'[u].doc = row[u].doc
                   /\ row'[u].status = row[u].status /\ reviewed'[u] = reviewed[u]
           New == /\ reviewed'[u] = reviewed[u]
                  /\ \/ row'[u] = NoRow
                     \/ row'[u].details = None /\ row'[u].status = "unverified"
<1>1. Exists(u) => \E w \in Row : w = row[u]
  BY RowOf
<1>2. CASE row'[u] = row[u] /\ reviewed'[u] = reviewed[u]
  BY <1>2 DEF Exists
<1>3. ASSUME NEW r \in Request, Create(r) \/ CreateFromGoogle(r)
      PROVE  (row'[u] = row[u] /\ reviewed'[u] = reviewed[u]) \/ (~Exists(u) /\ New)
  BY <1>3 DEF Create, CreateFromGoogle, NewRow, Exists, TypeOK
<1>4. ASSUME NEW r \in Request, Issue(r) \/ Mark(r) \/ LinkGoogleID(r)
      PROVE  (row'[u] = row[u] /\ reviewed'[u] = reviewed[u]) \/ (Exists(u) /\ Same)
  <2>1. req[r].user \in User /\ Exists(req[r].user) /\ reviewed' = reviewed
    BY <1>4 DEF Issue, Mark, LinkGoogleID, Coherent
  <2>2. CASE req[r].user = u
    <3>1. CASE Issue(r)
      BY <1>1, <2>1, <2>2, <3>1 DEF Issue, TypeOK, Row
    <3>2. CASE Mark(r)
      BY <1>1, <2>1, <2>2, <3>2 DEF Mark, TypeOK, Row
    <3>3. CASE LinkGoogleID(r)
      BY <1>1, <2>1, <2>2, <3>3 DEF LinkGoogleID, TypeOK, Row
    <3> QED BY <1>4, <3>1, <3>2, <3>3
  <2>3. CASE req[r].user # u
    BY <1>4, <2>1, <2>3 DEF Issue, Mark, LinkGoogleID, TypeOK
  <2> QED BY <2>2, <2>3
<1>5. ASSUME NEW w \in User, Expire(w)
      PROVE  (row'[u] = row[u] /\ reviewed'[u] = reviewed[u]) \/ (Exists(u) /\ Same)
  <2>1. CASE w = u
    BY <1>1, <1>5, <2>1 DEF Expire, TypeOK, Row
  <2>2. CASE w # u
    BY <1>5, <2>2 DEF Expire, TypeOK
  <2> QED BY <2>1, <2>2
<1>6. ASSUME NEW s \in Submission, SaveProfile(s)
      PROVE  \/ row'[u] = row[u] /\ reviewed'[u] = reviewed[u]
             \/ /\ Exists(u) /\ reviewed'[u] = reviewed[u]
                /\ sub[s].user = u
                /\ row'[u].details = sub[s].details
                /\ \/ /\ sub[s].doc = None
                      /\ row'[u].doc = row[u].doc /\ row'[u].status = row[u].status
                   \/ /\ sub[s].doc # None
                      /\ row'[u].doc = sub[s].doc /\ row'[u].status = "pending"
  <2>1. sub[s].user \in User /\ Exists(sub[s].user)
    BY <1>6 DEF SaveProfile, Grounded
  <2>2. CASE sub[s].user = u
    BY <1>1, <1>6, <2>1, <2>2 DEF SaveProfile, TypeOK, Row, Profile
  <2>3. CASE sub[s].user # u
    BY <1>6, <2>3 DEF SaveProfile, TypeOK
  <2> QED BY <2>2, <2>3
<1>7. ASSUME NEW w \in User, NEW d \in {"verified", "rejected"}, VerifyUser(w, d)
      PROVE  \/ row'[u] = row[u] /\ reviewed'[u] = reviewed[u]
             \/ /\ Exists(u) /\ row'[u].details = row[u].details /\ row'[u].doc = row[u].doc
                /\ reviewed'[u] = [details |-> row[u].details, doc |-> row[u].doc]
  <2>1. CASE w = u
    BY <1>1, <1>7, <2>1 DEF VerifyUser, TypeOK, Row
  <2>2. CASE w # u
    BY <1>7, <2>2 DEF VerifyUser, TypeOK
  <2> QED BY <2>1, <2>2
<1>8. \/ UNCHANGED <<row, reviewed>>
      \/ \E r \in Request : Create(r) \/ CreateFromGoogle(r) \/ Issue(r) \/ Mark(r) \/ LinkGoogleID(r)
      \/ \E s \in Submission : SaveProfile(s)
      \/ \E w \in User : Expire(w)
      \/ \E w \in User : \E d \in {"verified", "rejected"} : VerifyUser(w, d)
  BY DEF Next, Send, LoadForResend, CheckCode, CheckPassword, FindByGoogleID, FindByEmail, SignedIn,
     Abort, Submit, LoadProfile, AbortSubmission, vars
<1>9. ASSUME NEW s \in Submission, SaveProfile(s)
       PROVE  \/ row'[u] = row[u] /\ reviewed'[u] = reviewed[u]
              \/ /\ Exists(u) /\ reviewed'[u] = reviewed[u]
                 /\ \E x \in Submission :
                      /\ SaveProfile(x) /\ sub[x].user = u
                      /\ row'[u].details = sub[x].details
                      /\ \/ /\ sub[x].doc = None
                            /\ row'[u].doc = row[u].doc /\ row'[u].status = row[u].status
                         \/ /\ sub[x].doc # None
                            /\ row'[u].doc = sub[x].doc /\ row'[u].status = "pending"
  BY <1>6, <1>9
<1> HIDE DEF IInv
<1> QED BY <1>2, <1>3, <1>4, <1>5, <1>7, <1>8, <1>9, Zenon

\* A step moves one submission at most.
LEMMA SubmissionMoves ==
    ASSUME IInv, [Next]_vars, NEW s \in Submission
    PROVE  UNCHANGED sub[s] \/ Drop(s) \/ Submit(s) \/ LoadProfile(s)
<1> USE DEF IInv
<1>1. ASSUME NEW x \in Submission, x # s,
             Submit(x) \/ LoadProfile(x) \/ SaveProfile(x) \/ AbortSubmission(x)
      PROVE  UNCHANGED sub[s]
  BY <1>1 DEF Submit, LoadProfile, SaveProfile, AbortSubmission, Drop, TypeOK
<1>2. SaveProfile(s) \/ AbortSubmission(s) => Drop(s)
  BY DEF SaveProfile, AbortSubmission
<1> QED
  BY <1>1, <1>2 DEF Next, Send, Create, LoadForResend, Issue, CheckCode, Mark, CheckPassword,
     FindByGoogleID, FindByEmail, LinkGoogleID, CreateFromGoogle, SignedIn, Abort, Expire, VerifyUser,
     vars

LEMMA NextGrounded == ASSUME IInv, [Next]_vars PROVE \A s \in Submission : Grounded(s)'
<1> SUFFICES ASSUME NEW s \in Submission PROVE Grounded(s)'
  OBVIOUS
<1> USE DEF IInv
<1>1. ASSUME NEW u \in User, Exists(u)
      PROVE  row'[u] # NoRow /\ (row[u].details # None => row'[u].details # None)
  <2>1. row'[u] # NoRow
    BY <1>1, NextRow DEF TableGrows
  <2>2. ASSUME NEW x \in Submission, SaveProfile(x) PROVE sub[x].details # None
    BY <2>2 DEF SaveProfile, Grounded
  <2> QED BY <1>1, <2>1, <2>2, NextProfile
<1>2. CASE UNCHANGED sub[s]
  BY <1>1, <1>2 DEF Grounded, Exists
<1>3. CASE Drop(s)
  BY <1>3 DEF Drop, NoSubmission, Grounded, TypeOK
<1>4. CASE Submit(s)
  BY <1>4 DEF Submit, Grounded, Exists, TypeOK
<1>5. CASE LoadProfile(s) /\ ~Drop(s)
  <2>1. /\ sub'[s] = [sub[s] EXCEPT !.phase = "save"] /\ UNCHANGED row
        /\ sub[s].user \in User /\ sub[s].details \in Details /\ Exists(sub[s].user)
    BY <1>5 DEF LoadProfile, Grounded, TypeOK
  <2>2. sub[s].doc = None => row[sub[s].user].details = sub[s].details
    BY <1>5 DEF LoadProfile, RequiresNewDoc
  <2> QED BY <2>1, <2>2 DEF Grounded, Exists, TypeOK, SubmissionRecord
<1> QED BY <1>2, <1>3, <1>4, <1>5, SubmissionMoves

LEMMA NextDecisions == ASSUME IInv, [Next]_vars PROVE DecisionOnDocument'
<1> SUFFICES ASSUME NEW u \in User, Exists(u)', row'[u].status \in {"verified", "rejected"}
             PROVE  row'[u].doc = reviewed'[u].doc
  BY DEF DecisionOnDocument
<1>1. row'[u] # NoRow
  BY DEF Exists
<1>2. Exists(u) /\ row[u].status \in {"verified", "rejected"} => row[u].doc = reviewed[u].doc
  BY DEF IInv, DecisionOnDocument
<1>3. CASE Exists(u) /\ reviewed'[u] = [details |-> row[u].details, doc |-> row[u].doc] /\ row'[u].doc = row[u].doc
  BY <1>3
<1>4. CASE row'[u].status = row[u].status /\ row'[u].doc = row[u].doc /\ reviewed'[u] = reviewed[u] /\ Exists(u)
  BY <1>2, <1>4
<1> QED BY <1>1, <1>3, <1>4, NextProfile

LEMMA NextOnboarded == ASSUME IInv, [Next]_vars PROVE OnboardedHasDocument'
<1> SUFFICES ASSUME NEW u \in User, Exists(u)', row'[u].details # None
             PROVE  row'[u].doc # None
  BY DEF OnboardedHasDocument
<1>1. ASSUME NEW s \in Submission, SaveProfile(s), sub[s].doc = None, sub[s].user = u
      PROVE  row[u].details # None
  BY <1>1 DEF IInv, Grounded, SaveProfile
<1> QED BY <1>1, NextProfile DEF IInv, OnboardedHasDocument, Exists

LEMMA NextIInv == ASSUME IInv, [Next]_vars PROVE IInv'
<1>1. VerifiedEmailProved' /\ Outstanding'
  BY NextAddress DEF AddressSound, VerifiedEmailProved, Outstanding, Exists, Proved
<1>2. AdmittedWithProof'
  BY NextCoherent DEF AdmittedWithProof, Coherent
<1> QED
  BY <1>1, <1>2, NextTypeOK, NextCoherent, NextGrounded, NextDecisions, NextOnboarded DEF IInv

LEMMA NextSInv == ASSUME SInv, [Next]_vars PROVE SInv'
<1> USE DEF SInv
<1>0. overtaken \subseteq overtaken'
  BY NextHistory
<1>1. IInv'
  BY NextIInv
<1>2. VerifiedAsReviewed'
  <2> SUFFICES ASSUME NEW u \in User, Exists(u)', row'[u].status = "verified", u \notin overtaken'
               PROVE  row'[u].details = reviewed'[u].details
    BY DEF VerifiedAsReviewed
  <2>1. row'[u] # NoRow
    BY DEF Exists
  <2>2. Exists(u) /\ row[u].status = "verified" => row[u].details = reviewed[u].details
    BY <1>0 DEF VerifiedAsReviewed
  <2>3. ASSUME NEW s \in Submission, SaveProfile(s), sub[s].doc = None, sub[s].user = u
        PROVE  row[u].details = sub[s].details
    BY <1>0, <2>3 DEF Unchanged, SaveProfile
  <2>4. CASE /\ row'[u].details = row[u].details
             /\ reviewed'[u] = [details |-> row[u].details, doc |-> row[u].doc]
    BY <2>4
  <2>5. CASE /\ Exists(u) /\ row'[u].details = row[u].details
             /\ row'[u].status = row[u].status /\ reviewed'[u] = reviewed[u]
    BY <2>2, <2>5
  <2>6. CASE \E s \in Submission :
               /\ Exists(u) /\ reviewed'[u] = reviewed[u]
               /\ SaveProfile(s) /\ sub[s].user = u /\ sub[s].doc = None
               /\ row'[u].details = sub[s].details /\ row'[u].status = row[u].status
    BY <2>2, <2>3, <2>6
  <2> QED BY <2>1, <2>4, <2>5, <2>6, NextProfile
<1>3. ASSUME NEW s \in Submission PROVE Unchanged(s)'
  <2> SUFFICES ASSUME sub'[s].phase = "save", sub'[s].doc = None, sub'[s].user \notin overtaken'
               PROVE  row'[sub'[s].user].details = sub'[s].details
    BY DEF Unchanged
  <2>1. ~Drop(s) /\ ~Submit(s)
    BY DEF Drop, Submit, NoSubmission, IInv, TypeOK
  <2>2. CASE UNCHANGED sub[s]
    <3>1. sub[s].user \in User /\ Exists(sub[s].user) /\ sub[s] # NoSubmission
      BY <2>2 DEF IInv, Grounded, NoSubmission
    <3>2. ASSUME NEW x \in Submission, SaveProfile(x), sub[x].user = sub[s].user
          PROVE  sub[x].details = row[sub[s].user].details
      <4>1. x # s
        BY <2>1, <3>2 DEF SaveProfile
      <4>2. ~Overtakes(x)
        BY <2>2, <3>2 DEF SaveProfile
      <4> QED BY <2>2, <3>2, <4>1, <4>2 DEF Overtakes
    <3>3. row'[sub[s].user].details = row[sub[s].user].details
      BY <3>1, <3>2, NextProfile
    <3> QED BY <1>0, <2>2, <3>3 DEF Unchanged
  <2>3. CASE LoadProfile(s)
    <3>1. /\ sub'[s] = [sub[s] EXCEPT !.phase = "save"] /\ UNCHANGED row
          /\ ~RequiresNewDoc(row[sub[s].user].details, sub[s].details, sub[s].doc)
      BY <2>1, <2>3 DEF LoadProfile, IInv, TypeOK
    <3> QED BY <3>1 DEF RequiresNewDoc, IInv, TypeOK, SubmissionRecord
  <2> QED BY <2>1, <2>2, <2>3, SubmissionMoves
<1> QED BY <1>1, <1>2, <1>3

-----------------------------------------------------------------------------
\* The invariant the theorems below are read off.
THEOREM Inductive == Spec => []IInv
<1>1. Init => IInv
  BY InitSInv DEF SInv
<1> QED BY <1>1, NextIInv, PTL DEF Spec

\* Every variable keeps its type.
THEOREM TypeCorrect == Spec => []TypeOK
BY Inductive, PTL DEF IInv

\* An address is only marked verified once a code sent there has come back or
\* Google has called it verified, however the requests overlap.
THEOREM EmailsAreProved == Spec => []VerifiedEmailProved
BY Inductive, PTL DEF IInv

\* A password opens no session for an address nobody has proved.
THEOREM AdmissionNeedsProof == Spec => []AdmittedWithProof
BY Inductive, PTL DEF IInv

\* A decision of an admin never outlives the document it was taken on, for any
\* number of submissions at once.
THEOREM DecisionsFollowDocuments == Spec => []DecisionOnDocument
BY Inductive, PTL DEF IInv

\* No level and institution is on file without a document.
THEOREM OnboardingNeedsDocument == Spec => []OnboardedHasDocument
BY Inductive, PTL DEF IInv

\* A verified student is the one that was verified, however the submissions and
\* reviews of students overlap, unless one submission changed the details between
\* the check of another, without a document, and its save.
THEOREM VerifiedWasReviewed == Spec => []VerifiedAsReviewed
<1>1. Init => SInv
  BY InitSInv
<1>2. SInv /\ [Next]_vars => SInv'
  BY NextSInv
<1> QED BY <1>1, <1>2, PTL DEF Spec, SInv
=============================================================================
