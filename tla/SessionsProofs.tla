--------------------------- MODULE SessionsProofs ---------------------------
(***************************************************************************)
(* Proofs about Sessions, for any sets of accounts, devices, requests and  *)
(* tokens, with and without faults.                                        *)
(***************************************************************************)
EXTENDS SessionsRefinement, TLAPS

Stored(t) == t \in Token /\ rows[t] # NoRow

\* What a request in flight may rely on in each phase.
RequestCoherent(r) ==
    /\ req[r].phase # "idle" => req[r].device \in Device
    /\ req[r].phase = "idle" => req[r].kind = "none"
    /\ req[r].fingerprint \in {None, req[r].device}
    /\ req[r].kind = "refresh" =>
         /\ req[r].fingerprint = None
         /\ Stored(req[r].token)
         /\ rows[req[r].token].device = req[r].device
    /\ req[r].phase = "authenticate" => req[r].kind = "login" /\ req[r].user \in User
    /\ req[r].phase \in {"find", "revoke"} =>
         /\ req[r].kind \in {"refresh", "logout"}
         /\ Stored(req[r].token)
    /\ req[r].phase = "revoke" /\ req[r].kind = "refresh" => req[r].user \in User
    /\ req[r].phase = "theft" => req[r].user \in User /\ req[r].kind = "refresh"
    /\ req[r].phase = "create" => req[r].user \in User /\ req[r].kind \in {"login", "refresh"}
    /\ req[r].phase = "device" =>
         /\ req[r].kind = "login"
         /\ req[r].user \in User
         /\ req[r].fingerprint = req[r].device
         /\ Stored(req[r].new)
         /\ rows[req[r].new].user = req[r].user
    /\ req[r].phase \in {"device", "ok"} /\ req[r].kind \in {"login", "refresh"} =>
         /\ Stored(req[r].new)
         /\ rows[req[r].new].device = req[r].device

\* The login a row descends from is a stored row, its own login.
RowsCoherent ==
    \A t \in Token : rows[t] # NoRow =>
        rows[rows[t].login] # NoRow /\ rows[rows[t].login].login = rows[t].login

\* The inductive part that does not speak of exclusion.
Base ==
    /\ TypeOK
    /\ \A r \in Request : RequestCoherent(r)
    /\ RowsCoherent
    /\ CookieFromOwnLogin
    /\ ActiveDeviceLoggedIn

\* Rows are never deleted, and only revoked and expired ever change.
RowsKept ==
    \A t \in Token : rows[t] # NoRow =>
        /\ rows'[t] # NoRow
        /\ rows'[t].user = rows[t].user
        /\ rows'[t].device = rows[t].device
        /\ rows'[t].login = rows[t].login
        /\ rows[t].revoked => rows'[t].revoked

-----------------------------------------------------------------------------
LEMMA InitBase == Init => Base
BY NoneAssumption DEF Init, Base, TypeOK, RequestCoherent, RowsCoherent, CookieFromOwnLogin,
   ActiveDeviceLoggedIn, Idle, Started, RequestRecord, Phase, NoRow

\* No step deletes a row or changes whose it is.
LEMMA NextKeepsRows == ASSUME Base, [Next]_vars PROVE RowsKept
<1> USE NoneAssumption DEF Base, TypeOK, RowsKept, Row, NoRow
<1>1. CASE \E r \in Request : Send(r) \/ FailStatement(r) \/ LoseReply(r) \/ Reply(r)
                              \/ Authenticate(r) \/ SetActiveDevice(r) \/ FindForRefresh(r)
                              \/ FindForLogout(r)
  BY <1>1 DEF Send, SendLogin, SendRefresh, SendLogout, FailStatement, LoseReply, Reply,
     Authenticate, SetActiveDevice, FindForRefresh, FindForLogout
<1>2. ASSUME NEW r \in Request, IssueToken(r) PROVE RowsKept
  BY <1>2 DEF IssueToken, Issued
<1>3. ASSUME NEW r \in Request, RevokeForRefresh(r) PROVE RowsKept
  <2>1. Stored(req[r].token)
    BY <1>3 DEF RevokeForRefresh, RequestCoherent
  <2> QED BY <1>3, <2>1 DEF RevokeForRefresh, Stored
<1>4. ASSUME NEW r \in Request, RevokeAllForUser(r) PROVE RowsKept
  BY <1>4 DEF RevokeAllForUser, RevokedFor, RequestCoherent
<1>5. ASSUME NEW r \in Request, RevokeForLogout(r) PROVE RowsKept
  <2>1. Stored(req[r].token)
    BY <1>5 DEF RevokeForLogout, RequestCoherent
  <2> QED BY <1>5, <2>1 DEF RevokeForLogout, Stored
<1>6. ASSUME NEW u \in User, NEW d \in Device, UpsertDevice(u, d) PROVE RowsKept
  BY <1>6 DEF UpsertDevice
<1>7. ASSUME NEW t \in Token, Expire(t) PROVE RowsKept
  BY <1>7 DEF Expire, Live
<1>8. CASE Crash
  BY <1>8 DEF Crash
<1>9. CASE UNCHANGED vars
  BY <1>9 DEF vars
<1> QED
  BY <1>1, <1>2, <1>3, <1>4, <1>5, <1>6, <1>7, <1>8, <1>9 DEF Next, ServerStep

\* Revoking a stored row, and moving a request to another phase, keep types.
LEMMA RevokedRow ==
    ASSUME TypeOK, NEW t \in Token, rows[t] # NoRow
    PROVE  [rows[t] EXCEPT !.revoked = TRUE] \in Row
<1>1. rows[t] \in Row
  BY DEF TypeOK
<1> QED BY <1>1 DEF Row

LEMMA RequestEdits ==
    ASSUME NEW q \in RequestRecord, NEW p \in Phase
    PROVE  /\ [q EXCEPT !.phase = p] \in RequestRecord
           /\ \A u \in User : [q EXCEPT !.phase = p, !.user = u] \in RequestRecord
           /\ \A t \in Token : [q EXCEPT !.phase = p, !.new = t] \in RequestRecord
<1>1. [q EXCEPT !.phase = p] \in RequestRecord
  BY DEF RequestRecord
<1>2. \A u \in User : [q EXCEPT !.phase = p, !.user = u] \in RequestRecord
  BY DEF RequestRecord
<1>3. \A t \in Token : [q EXCEPT !.phase = p, !.new = t] \in RequestRecord
  BY DEF RequestRecord
<1> QED BY <1>1, <1>2, <1>3

LEMMA PhaseMoved ==
    ASSUME TypeOK, NEW r \in Request, NEW p \in Phase
    PROVE  [req EXCEPT ![r].phase = p] \in [Request -> RequestRecord]
BY RequestEdits DEF TypeOK

LEMMA UserLearnt ==
    ASSUME TypeOK, NEW r \in Request, NEW p \in Phase, NEW u \in User
    PROVE  [req EXCEPT ![r].phase = p, ![r].user = u] \in [Request -> RequestRecord]
<1>1. [req[r] EXCEPT !.phase = p, !.user = u] \in RequestRecord
  BY RequestEdits DEF TypeOK
<1>2. [req EXCEPT ![r].phase = p, ![r].user = u]
      = [req EXCEPT ![r] = [req[r] EXCEPT !.phase = p, !.user = u]]
  BY DEF TypeOK
<1> QED BY <1>1, <1>2 DEF TypeOK

LEMMA TokenMinted ==
    ASSUME TypeOK, NEW r \in Request, NEW p \in Phase, NEW t \in Token
    PROVE  [req EXCEPT ![r].phase = p, ![r].new = t] \in [Request -> RequestRecord]
<1>1. [req[r] EXCEPT !.phase = p, !.new = t] \in RequestRecord
  BY RequestEdits DEF TypeOK
<1>2. [req EXCEPT ![r].phase = p, ![r].new = t]
      = [req EXCEPT ![r] = [req[r] EXCEPT !.phase = p, !.new = t]]
  BY DEF TypeOK
<1> QED BY <1>1, <1>2 DEF TypeOK

LEMMA NextTypeOK == ASSUME Base, [Next]_vars PROVE TypeOK'
<1> USE NoneAssumption DEF Base, TypeOK
<1>1. ASSUME NEW r \in Request, Send(r) PROVE TypeOK'
  <2>1. ASSUME NEW p \in Phase, NEW k \in {"login", "refresh", "logout"}, NEW d \in Device,
               NEW u \in User \cup {None}, NEW t \in Token \cup {None}, NEW fp \in Device \cup {None}
        PROVE  Started(p, k, d, u, t, fp) \in RequestRecord
    BY DEF Started, RequestRecord
  <2>2. PICK d \in Device : (\E u \in User, fp \in {d, None} : SendLogin(r, d, u, fp))
                            \/ SendRefresh(r, d) \/ SendLogout(r, d)
    BY <1>1 DEF Send
  <2>3. CASE \E u \in User, fp \in {d, None} : SendLogin(r, d, u, fp)
    BY <2>1, <2>3 DEF SendLogin, Phase
  <2>4. CASE SendRefresh(r, d)
    BY <2>1, <2>4 DEF SendRefresh, Phase
  <2>5. CASE SendLogout(r, d)
    BY <2>1, <2>5 DEF SendLogout, Phase
  <2> QED BY <2>2, <2>3, <2>4, <2>5
<1>2. ASSUME NEW r \in Request, \/ FailStatement(r) \/ LoseReply(r) \/ Authenticate(r)
                                \/ FindForLogout(r)
      PROVE TypeOK'
  <2>1. CASE LoseReply(r)
    BY <2>1 DEF LoseReply, Idle, Started, RequestRecord, Phase
  <2>2. CASE \E p \in Phase : req' = [req EXCEPT ![r].phase = p]
    BY <1>2, <2>2, PhaseMoved DEF FailStatement, LoseReply, Authenticate, FindForLogout
  <2> QED BY <1>2, <2>1, <2>2 DEF FailStatement, Authenticate, FindForLogout, Phase
<1>3. ASSUME NEW r \in Request, Reply(r) PROVE TypeOK'
  <2>1. SetCookie(r) \in Token \cup {None}
    BY <1>3 DEF SetCookie, Reply, RequestCoherent, Stored, RequestRecord
  <2> QED BY <1>3, <2>1 DEF Reply, Idle, Started, RequestRecord, Phase
<1>4. ASSUME NEW r \in Request, SetActiveDevice(r) PROVE TypeOK'
  BY <1>4 DEF SetActiveDevice, Outcome, RequestCoherent, RequestRecord, Phase
<1>5. ASSUME NEW r \in Request, FindForRefresh(r) PROVE TypeOK'
  <2>1. Stored(req[r].token)
    BY <1>5 DEF FindForRefresh, RequestCoherent
  <2>2. rows[req[r].token].user \in User
    BY <2>1 DEF Stored, Row
  <2>3. PICK p \in Phase : req' = [req EXCEPT ![r].phase = p, ![r].user = rows[req[r].token].user]
    BY <1>5 DEF FindForRefresh, Outcome, Phase
  <2>4. req' \in [Request -> RequestRecord]
    BY <2>2, <2>3, UserLearnt
  <2> QED BY <1>5, <2>4 DEF FindForRefresh
<1>6. ASSUME NEW r \in Request, IssueToken(r) PROVE TypeOK'
  <2> PICK t \in Token \ Issued :
         /\ rows' = [rows EXCEPT ![t] = CreateRow(r, t)]
         /\ \E p \in Outcome(IF req[r].fingerprint = None THEN "ok" ELSE "device") :
              req' = [req EXCEPT ![r].phase = p, ![r].new = t]
    BY <1>6 DEF IssueToken
  <2>1. CreateRow(r, t) \in Row
    BY <1>6 DEF IssueToken, CreateRow, RequestCoherent, Stored, Row, NoRow, RequestRecord
  <2>2. rows' \in [Token -> Row \cup {NoRow}]
    BY <2>1
  <2>3. PICK p \in Phase : req' = [req EXCEPT ![r].phase = p, ![r].new = t]
    BY DEF Outcome, Phase
  <2>4. req' \in [Request -> RequestRecord]
    BY <2>3, TokenMinted
  <2> QED BY <1>6, <2>2, <2>4 DEF IssueToken
<1>7. ASSUME NEW r \in Request, RevokeForRefresh(r) \/ RevokeForLogout(r) PROVE TypeOK'
  <2>1. Stored(req[r].token)
    BY <1>7 DEF RevokeForRefresh, RevokeForLogout, RequestCoherent
  <2>2. rows' \in [Token -> Row \cup {NoRow}]
    BY <1>7, <2>1, RevokedRow DEF RevokeForRefresh, RevokeForLogout, Stored
  <2>3. \E p \in Phase : req' = [req EXCEPT ![r].phase = p]
    BY <1>7 DEF RevokeForRefresh, RevokeForLogout, Outcome, Phase
  <2>4. req' \in [Request -> RequestRecord]
    BY <2>3, PhaseMoved
  <2> QED BY <1>7, <2>2, <2>4 DEF RevokeForRefresh, RevokeForLogout
<1>8. ASSUME NEW r \in Request, RevokeAllForUser(r) PROVE TypeOK'
  <2>1. req[r].user \in User
    BY <1>8 DEF RevokeAllForUser, RequestCoherent
  <2>2. RevokedFor(req[r].user) \in [Token -> Row \cup {NoRow}]
    <3>1. \A t \in Token : rows[t].user = req[r].user => rows[t] # NoRow
      BY <2>1 DEF NoRow
    <3> QED BY <3>1, RevokedRow DEF RevokedFor
  <2>3. req' \in [Request -> RequestRecord]
    BY <1>8, PhaseMoved DEF RevokeAllForUser, Phase
  <2> QED BY <1>8, <2>2, <2>3 DEF RevokeAllForUser
<1>9. ASSUME NEW u \in User, NEW d \in Device, UpsertDevice(u, d) PROVE TypeOK'
  BY <1>9 DEF UpsertDevice
<1>10. ASSUME NEW t \in Token, Expire(t) PROVE TypeOK'
  BY <1>10 DEF Expire, Live, Row, NoRow
<1>11. CASE Crash
  BY <1>11 DEF Crash, Idle, Started, RequestRecord, Phase
<1>12. CASE UNCHANGED vars
  BY <1>12 DEF vars
<1> QED
  BY <1>1, <1>2, <1>3, <1>4, <1>5, <1>6, <1>7, <1>8, <1>9, <1>10, <1>11, <1>12 DEF Next, ServerStep

\* A stored row stays stored and keeps its user and its device, which is all
\* a request in flight relies on.
LEMMA CoherentKept ==
    ASSUME TypeOK, RowsKept, NEW r \in Request, RequestCoherent(r), req'[r] = req[r]
    PROVE  RequestCoherent(r)'
BY DEF RequestCoherent, RowsKept, Stored, TypeOK

\* The one request that takes a step ends in a phase it is coherent in.
LEMMA NextCoherent ==
    ASSUME Base, [Next]_vars, NEW q \in Request
    PROVE  RequestCoherent(q)'
<1> USE NoneAssumption DEF Base, TypeOK
<1>0. RowsKept
  BY NextKeepsRows
<1>a. ASSUME req'[q] = req[q] PROVE RequestCoherent(q)'
  BY <1>0, <1>a, CoherentKept
<1>b. ASSUME req'[q] = Idle PROVE RequestCoherent(q)'
  BY <1>b DEF RequestCoherent, Idle, Started
<1>1. ASSUME NEW r \in Request, Send(r) PROVE RequestCoherent(q)'
  <2>1. CASE q # r
    BY <1>1, <2>1, <1>a DEF Send, SendLogin, SendRefresh, SendLogout
  <2>2. CASE q = r
    BY <1>1, <2>2 DEF Send, SendLogin, SendRefresh, SendLogout, Started, RequestCoherent, Stored,
       CookieFromOwnLogin
  <2> QED BY <2>1, <2>2
<1>2. ASSUME NEW r \in Request, \/ FailStatement(r) \/ Authenticate(r) \/ FindForLogout(r)
                                \/ SetActiveDevice(r)
      PROVE RequestCoherent(q)'
  <2>1. CASE q # r
    BY <1>2, <2>1, <1>a DEF FailStatement, Authenticate, FindForLogout, SetActiveDevice
  <2>2. CASE q = r /\ (FailStatement(r) \/ Authenticate(r))
    BY <2>2 DEF FailStatement, Authenticate, RequestCoherent, Stored, RequestRecord
  <2>3. CASE q = r /\ FindForLogout(r)
    BY <2>3 DEF FindForLogout, RequestCoherent, Stored, RequestRecord
  <2>4. CASE q = r /\ SetActiveDevice(r)
    BY <2>4 DEF SetActiveDevice, Outcome, RequestCoherent, Stored, RequestRecord
  <2> QED BY <1>2, <2>1, <2>2, <2>3, <2>4
<1>3. ASSUME NEW r \in Request, Reply(r) \/ LoseReply(r) PROVE RequestCoherent(q)'
  BY <1>3, <1>a, <1>b DEF Reply, LoseReply
<1>4. ASSUME NEW r \in Request, FindForRefresh(r) PROVE RequestCoherent(q)'
  <2>1. CASE q # r
    BY <1>4, <2>1, <1>a DEF FindForRefresh
  <2>2. CASE q = r
    BY <1>4, <2>2 DEF FindForRefresh, Outcome, RequestCoherent, Stored, RequestRecord, Row, NoRow
  <2> QED BY <2>1, <2>2
<1>5. ASSUME NEW r \in Request, IssueToken(r) PROVE RequestCoherent(q)'
  <2>1. CASE q # r
    BY <1>5, <2>1, <1>a DEF IssueToken
  <2>2. CASE q = r
    BY <1>5, <2>2, <1>0 DEF IssueToken, Issued, CreateRow, Outcome, RequestCoherent, Stored,
       RequestRecord, Row, NoRow, RowsKept
  <2> QED BY <2>1, <2>2
<1>6. ASSUME NEW r \in Request, \/ RevokeForRefresh(r) \/ RevokeForLogout(r)
                                \/ RevokeAllForUser(r)
      PROVE RequestCoherent(q)'
  <2>1. CASE q # r
    BY <1>6, <2>1, <1>a DEF RevokeForRefresh, RevokeForLogout, RevokeAllForUser
  <2>2. CASE q = r
    <3>1. \A t \in Token : Stored(t) => Stored(t)' /\ rows'[t].device = rows[t].device
      BY <1>0 DEF RowsKept, Stored
    <3>2. RequestCoherent(r)
      OBVIOUS
    <3>3. PICK p \in Phase : req' = [req EXCEPT ![r].phase = p]
      BY <1>6 DEF RevokeForRefresh, RevokeForLogout, RevokeAllForUser, Outcome, Phase
    <3>4. \/ p \in {"theft", "create", "failed"} /\ req[r].kind = "refresh" /\ req[r].user \in User
          \/ p = "ok" /\ req[r].kind = "logout"
      <4>1. req'[r].phase = p
        BY <3>3 DEF RequestRecord
      <4>2. CASE RevokeForRefresh(r) \/ RevokeAllForUser(r)
        BY <4>1, <4>2, <3>2 DEF RevokeForRefresh, RevokeAllForUser, Outcome, RequestCoherent,
           RequestRecord
      <4>3. CASE RevokeForLogout(r)
        BY <4>1, <4>3 DEF RevokeForLogout, RequestRecord
      <4> QED BY <1>6, <4>2, <4>3
    <3> QED BY <2>2, <3>1, <3>2, <3>3, <3>4 DEF RequestCoherent, RequestRecord, Stored
  <2> QED BY <2>1, <2>2
<1>7. ASSUME NEW u \in User, NEW d \in Device, UpsertDevice(u, d) PROVE RequestCoherent(q)'
  BY <1>7, <1>a DEF UpsertDevice
<1>8. ASSUME NEW t \in Token, Expire(t) PROVE RequestCoherent(q)'
  BY <1>8, <1>a DEF Expire
<1>9. CASE Crash
  BY <1>9, <1>b DEF Crash
<1>10. CASE UNCHANGED vars
  BY <1>10, <1>a DEF vars
<1> QED
  BY <1>1, <1>2, <1>3, <1>4, <1>5, <1>6, <1>7, <1>8, <1>9, <1>10 DEF Next, ServerStep

\* The columns of a row that no update touches, and the one way a row appears.
LEMMA OnlyIssueTokenAdds ==
    ASSUME Base, [Next]_vars, NEW t \in Token, rows[t] = NoRow, rows'[t] # NoRow
    PROVE  \E r \in Request : IssueToken(r) /\ rows'[t] = CreateRow(r, t)
<1> USE NoneAssumption DEF Base, TypeOK
<1>1. ASSUME NEW r \in Request, \/ Send(r) \/ FailStatement(r) \/ LoseReply(r) \/ Reply(r)
                                \/ Authenticate(r) \/ SetActiveDevice(r) \/ FindForRefresh(r)
                                \/ FindForLogout(r)
      PROVE FALSE
  BY <1>1 DEF Send, SendLogin, SendRefresh, SendLogout, FailStatement, LoseReply, Reply,
     Authenticate, SetActiveDevice, FindForRefresh, FindForLogout
<1>2. ASSUME NEW r \in Request, RevokeForRefresh(r) \/ RevokeForLogout(r) PROVE FALSE
  <2>1. Stored(req[r].token)
    BY <1>2 DEF RevokeForRefresh, RevokeForLogout, RequestCoherent
  <2> QED BY <1>2, <2>1 DEF RevokeForRefresh, RevokeForLogout, Stored
<1>3. ASSUME NEW r \in Request, RevokeAllForUser(r) PROVE FALSE
  BY <1>3 DEF RevokeAllForUser, RevokedFor, RequestCoherent, NoRow
<1>4. ASSUME NEW r \in Request, IssueToken(r) PROVE rows'[t] = CreateRow(r, t)
  BY <1>4 DEF IssueToken
<1>5. ASSUME NEW s \in Token, Expire(s) PROVE FALSE
  BY <1>5 DEF Expire, Live
<1>6. CASE \/ Crash \/ UNCHANGED vars
           \/ \E u \in User, d \in Device : UpsertDevice(u, d)
  BY <1>6 DEF Crash, vars, UpsertDevice
<1> QED
  BY <1>1, <1>2, <1>3, <1>4, <1>5, <1>6 DEF Next, ServerStep

LEMMA NextRowsCoherent == ASSUME Base, [Next]_vars PROVE RowsCoherent'
<1>1. RowsKept /\ TypeOK'
  BY NextKeepsRows, NextTypeOK
<1> SUFFICES ASSUME NEW t \in Token, rows'[t] # NoRow
             PROVE  rows'[rows'[t].login] # NoRow /\ rows'[rows'[t].login].login = rows'[t].login
  BY DEF RowsCoherent
<1>2. CASE rows[t] # NoRow
  <2>1. rows[t].login \in Token
    BY <1>2 DEF Base, TypeOK, Row
  <2> QED BY <1>1, <1>2, <2>1 DEF RowsKept, Base, RowsCoherent
<1>3. CASE rows[t] = NoRow
  <2>1. PICK r \in Request : IssueToken(r) /\ rows'[t] = CreateRow(r, t)
    BY <1>3, OnlyIssueTokenAdds
  <2>2. CASE req[r].kind = "login"
    BY <2>1, <2>2 DEF CreateRow
  <2>3. CASE req[r].kind = "refresh"
    <3>1. Stored(req[r].token)
      BY <2>3 DEF Base, RequestCoherent
    <3>2. rows[req[r].token].login \in Token
      BY <3>1 DEF Stored, Base, TypeOK, Row
    <3> QED BY <1>1, <2>1, <2>3, <3>1, <3>2 DEF CreateRow, RowsKept, Stored, Base, RowsCoherent
  <2> QED BY <2>1, <2>2, <2>3 DEF IssueToken, Base, RequestCoherent
<1> QED BY <1>2, <1>3

LEMMA NextCookie == ASSUME Base, [Next]_vars PROVE CookieFromOwnLogin'
<1>1. RowsKept /\ TypeOK
  BY NextKeepsRows DEF Base
<1>2. CASE UNCHANGED jar
  BY <1>1, <1>2 DEF CookieFromOwnLogin, RowsKept, Base, TypeOK
<1>3. ASSUME NEW r \in Request, Reply(r) PROVE CookieFromOwnLogin'
  <2>1. req[r].device \in Device
    BY <1>3 DEF Reply, Base, RequestCoherent
  <2>2. SetCookie(r) # None => rows[SetCookie(r)] # NoRow /\ rows[SetCookie(r)].device = req[r].device
    BY <1>3, <2>1 DEF Reply, SetCookie, Base, RequestCoherent, Stored, CookieFromOwnLogin
  <2> QED BY <1>1, <1>3, <2>1, <2>2 DEF Reply, CookieFromOwnLogin, Base, TypeOK
<1> QED
  BY <1>2, <1>3 DEF Next, ServerStep, Send, SendLogin, SendRefresh, SendLogout, FailStatement,
     LoseReply, Authenticate, IssueToken, SetActiveDevice, FindForRefresh, RevokeForRefresh,
     RevokeAllForUser, FindForLogout, RevokeForLogout, UpsertDevice, Expire, Crash, vars

LEMMA NextActiveDevice == ASSUME Base, [Next]_vars PROVE ActiveDeviceLoggedIn'
<1>1. RowsKept /\ TypeOK
  BY NextKeepsRows DEF Base
<1>2. CASE UNCHANGED activeDevice
  BY <1>1, <1>2 DEF ActiveDeviceLoggedIn, RowsKept, Base
<1>3. ASSUME NEW r \in Request, SetActiveDevice(r) PROVE ActiveDeviceLoggedIn'
  <2>1. /\ req[r].user \in User
        /\ Stored(req[r].new)
        /\ rows[req[r].new].user = req[r].user
        /\ rows[req[r].new].device = req[r].fingerprint
    BY <1>3 DEF SetActiveDevice, Base, RequestCoherent
  <2> QED BY <1>1, <1>3, <2>1 DEF SetActiveDevice, ActiveDeviceLoggedIn, Stored, Base, TypeOK
<1> QED
  BY <1>2, <1>3 DEF Next, ServerStep, Send, SendLogin, SendRefresh, SendLogout, FailStatement,
     LoseReply, Reply, Authenticate, IssueToken, FindForRefresh, RevokeForRefresh,
     RevokeAllForUser, FindForLogout, RevokeForLogout, UpsertDevice, Expire, Crash, vars

LEMMA NextBase == ASSUME Base, [Next]_vars PROVE Base'
BY NextTypeOK, NextCoherent, NextRowsCoherent, NextCookie, NextActiveDevice DEF Base

LEMMA BaseInvariant == Spec => []Base
<1>1. Base /\ [Next]_vars => Base'
  BY NextBase
<1> QED BY InitBase, <1>1, PTL DEF Spec

\* The tables, cookies and requests keep their types.
THEOREM TypeCorrect == Spec => []TypeOK
<1>1. Base => TypeOK
  BY DEF Base
<1> QED BY BaseInvariant, <1>1, PTL

\* Whatever is interleaved or fails, a device holds no cookie but one of its
\* own logins that is stored.
THEOREM CookiesAreStored == Spec => []CookieFromOwnLogin
<1>1. Base => CookieFromOwnLogin
  BY DEF Base
<1> QED BY BaseInvariant, <1>1, PTL

\* The fingerprint that gates an account is one a login was stored for.
THEOREM GateBelongsToLogin == Spec => []ActiveDeviceLoggedIn
<1>1. Base => ActiveDeviceLoggedIn
  BY DEF Base
<1> QED BY BaseInvariant, <1>1, PTL

-----------------------------------------------------------------------------
(* Exclusion.  Seen from one login there are three kinds of steps: those that  *)
(* at most take usable tokens and rotations away, the start of a rotation, and *)
(* the insert that ends one or opens a login.                                  *)

Shrinks ==
    /\ \A t \in Token : Live(t)' => Live(t)
    /\ \A r \in Request : Rotating(r)' => Rotating(r) /\ req'[r].token = req[r].token
    /\ \A t \in Token : rows[t] = NoRow => rows'[t] = NoRow

StartsRotation(r) ==
    /\ RevokeForRefresh(r)
    /\ Live(req[r].token)
    /\ req'[r].phase = "create"

LEMMA StepKinds ==
    ASSUME Base, [Next]_vars
    PROVE  \/ Shrinks
           \/ \E r \in Request : IssueToken(r) \/ StartsRotation(r)
<1> USE NoneAssumption DEF Base, TypeOK
<1>1. RowsKept
  BY NextKeepsRows
<1>2. ASSUME NEW r \in Request, \/ Send(r) \/ FailStatement(r) \/ LoseReply(r) \/ Reply(r)
                                \/ SetActiveDevice(r) \/ FindForRefresh(r) \/ FindForLogout(r)
      PROVE Shrinks
  <2>1. UNCHANGED rows
    BY <1>2 DEF Send, SendLogin, SendRefresh, SendLogout, FailStatement, LoseReply, Reply,
       SetActiveDevice, FindForRefresh, FindForLogout
  <2>2. req'[r].phase # "create" /\ \A q \in Request : q # r => req'[q] = req[q]
    <3>1. CASE Send(r)
      BY <3>1 DEF Send, SendLogin, SendRefresh, SendLogout, Started
    <3>2. CASE LoseReply(r) \/ Reply(r)
      BY <3>2 DEF LoseReply, Reply, Started, Idle
    <3>3. CASE FailStatement(r) \/ FindForLogout(r) \/ SetActiveDevice(r)
      BY <3>3 DEF FailStatement, FindForLogout, SetActiveDevice, Outcome, RequestRecord
    <3>4. CASE FindForRefresh(r)
      BY <3>4 DEF FindForRefresh, Outcome, RequestRecord
    <3> QED BY <1>2, <3>1, <3>2, <3>3, <3>4
  <2> QED BY <2>1, <2>2 DEF Shrinks, Live, Rotating
<1>3. ASSUME NEW r \in Request, Authenticate(r) PROVE Shrinks
  BY <1>3 DEF Shrinks, Live, Rotating, Authenticate, RequestCoherent
<1>4. ASSUME NEW r \in Request, RevokeForLogout(r) PROVE Shrinks
  <2>1. Stored(req[r].token)
    BY <1>4 DEF RevokeForLogout, RequestCoherent
  <2>2. \A t \in Token : rows[t] = NoRow => rows'[t] = NoRow
    BY <1>4, <2>1 DEF RevokeForLogout, Stored
  <2>4. \A t \in Token : Live(t)' => Live(t)
    BY <1>1, <2>2 DEF RowsKept, Live
  <2>3. \A q \in Request : Rotating(q)' => Rotating(q) /\ req'[q].token = req[q].token
    BY <1>4 DEF RevokeForLogout, Rotating
  <2> QED BY <2>2, <2>3, <2>4 DEF Shrinks
<1>5. ASSUME NEW r \in Request, RevokeAllForUser(r) PROVE Shrinks
  <2>1. \A t \in Token : rows[t].user = req[r].user => rows[t] # NoRow
    BY <1>5 DEF RevokeAllForUser, RequestCoherent, NoRow
  <2>2. \A t \in Token : rows[t] = NoRow => rows'[t] = NoRow
    BY <1>5, <2>1 DEF RevokeAllForUser, RevokedFor
  <2>3. \A t \in Token : Live(t)' => Live(t)
    BY <1>1, <2>2 DEF RowsKept, Live
  <2>4. \A q \in Request : Rotating(q)' => Rotating(q) /\ req'[q].token = req[q].token
    BY <1>5 DEF RevokeAllForUser, Rotating
  <2> QED BY <2>2, <2>3, <2>4 DEF Shrinks
<1>6. ASSUME NEW r \in Request, RevokeForRefresh(r) PROVE Shrinks \/ StartsRotation(r)
  <2>1. Stored(req[r].token)
    BY <1>6 DEF RevokeForRefresh, RequestCoherent
  <2>2. \A t \in Token : (Live(t)' => Live(t)) /\ (rows[t] = NoRow => rows'[t] = NoRow)
    BY <1>6, <2>1 DEF RevokeForRefresh, Live, Stored
  <2>3. CASE req'[r].phase = "create"
    <3>1. Live(req[r].token)
      BY <1>6, <2>1, <2>3 DEF RevokeForRefresh, Outcome, Live, Stored
    <3> QED BY <1>6, <2>3, <3>1 DEF StartsRotation
  <2>4. CASE req'[r].phase # "create"
    BY <1>6, <2>2, <2>4 DEF RevokeForRefresh, Shrinks, Rotating
  <2> QED BY <2>3, <2>4
<1>7. ASSUME NEW t \in Token, Expire(t) PROVE Shrinks
  BY <1>7 DEF Expire, Live, Shrinks, Rotating
<1>8. CASE Crash
  BY <1>8 DEF Crash, Shrinks, Live, Rotating, Idle, Started
<1>9. CASE UNCHANGED vars \/ \E u \in User, d \in Device : UpsertDevice(u, d)
  BY <1>9 DEF vars, UpsertDevice, Shrinks, Live, Rotating
<1> QED
  BY <1>2, <1>3, <1>4, <1>5, <1>6, <1>7, <1>8, <1>9 DEF Next, ServerStep

\* The token of a rotation is stored, and its login is a stored login.
LEMMA RotationStored ==
    ASSUME Base, NEW r \in Request, Rotating(r)
    PROVE  Stored(req[r].token) /\ rows[req[r].token].login \in Token
<1>1. Stored(req[r].token)
  BY DEF Base, RequestCoherent, Rotating
<1> QED BY <1>1 DEF Stored, Base, TypeOK, Row

LEMMA ShrinkKeepsExclusion ==
    ASSUME Base, [Next]_vars, OneLiveTokenPerLogin, Shrinks
    PROVE  OneLiveTokenPerLogin'
<1>1. RowsKept
  BY NextKeepsRows
<1>2. \A t \in Token : Live(t)' => Live(t) /\ rows'[t].login = rows[t].login
  BY <1>1 DEF Shrinks, RowsKept, Live
<1>3. \A r \in Request : Rotating(r)' =>
         /\ Rotating(r)
         /\ req[r].token \in Token
         /\ rows'[req'[r].token].login = rows[req[r].token].login
  BY <1>1, RotationStored DEF Shrinks, RowsKept, Stored
<1> QED BY <1>2, <1>3 DEF OneLiveTokenPerLogin

LEMMA StartKeepsExclusion ==
    ASSUME Base, [Next]_vars, OneLiveTokenPerLogin, NEW r \in Request, StartsRotation(r)
    PROVE  OneLiveTokenPerLogin'
<1> DEFINE p == req[r].token
<1>1. RowsKept
  BY NextKeepsRows
<1>2. p \in Token /\ Live(p)
  BY DEF StartsRotation, RevokeForRefresh, Base, RequestCoherent, Stored
<1>3. \A t \in Token : Live(t)' => Live(t) /\ t # p /\ rows'[t].login = rows[t].login
  BY <1>1, <1>2 DEF StartsRotation, RevokeForRefresh, RowsKept, Live, Base, TypeOK
<1>4. \A q \in Request : Rotating(q)' =>
         /\ q # r => Rotating(q)
         /\ req'[q].token = req[q].token
         /\ req[q].token \in Token
         /\ rows'[req'[q].token].login = rows[req[q].token].login
  BY <1>1, <1>2, RotationStored DEF StartsRotation, RevokeForRefresh, Rotating, RowsKept, Stored,
     Live, Base, TypeOK
<1> QED BY <1>2, <1>3, <1>4 DEF OneLiveTokenPerLogin

\* What an insert does: t is the new row, k the login it belongs to.
Inserts(r, t, k) ==
    /\ rows[t] = NoRow
    /\ \A s \in Token : s # t => rows'[s] = rows[s]
    /\ rows'[t] = CreateRow(r, t)
    /\ rows'[t].login = k
    /\ Live(t)'
    /\ ~Rotating(r)'
    /\ \A q \in Request : q # r => req'[q] = req[q]
    /\ \/ k = t /\ ~Rotating(r)
       \/ Rotating(r) /\ k = rows[req[r].token].login /\ k # t /\ rows[k] # NoRow /\ rows[k].login = k

LEMMA IssueTokenInserts ==
    ASSUME Base, NEW r \in Request, IssueToken(r)
    PROVE  \E t, k \in Token : Inserts(r, t, k)
<1> USE NoneAssumption DEF Base, TypeOK
<1>1. PICK t \in Token \ Issued :
         /\ rows' = [rows EXCEPT ![t] = CreateRow(r, t)]
         /\ \E p \in Outcome(IF req[r].fingerprint = None THEN "ok" ELSE "device") :
              req' = [req EXCEPT ![r].phase = p, ![r].new = t]
  BY DEF IssueToken
<1>2. /\ rows[t] = NoRow
      /\ \A s \in Token : s # t => rows'[s] = rows[s]
      /\ rows'[t] = CreateRow(r, t)
      /\ ~Rotating(r)'
      /\ \A q \in Request : q # r => req'[q] = req[q]
  BY <1>1 DEF Issued, Rotating, Outcome
<1>3. Live(t)'
  BY <1>2 DEF CreateRow, Live, NoRow
<1>4. CASE req[r].kind = "login"
  <2>1. rows'[t].login = t
    BY <1>2, <1>4 DEF CreateRow
  <2>2. ~Rotating(r)
    BY <1>4 DEF Rotating
  <2> QED BY <1>2, <1>3, <2>1, <2>2 DEF Inserts
<1>5. CASE req[r].kind = "refresh"
  <2>1. Rotating(r)
    BY <1>5 DEF Rotating, IssueToken
  <2>2. Stored(req[r].token) /\ rows[req[r].token].login \in Token
    BY <2>1, RotationStored
  <2>3. /\ rows[rows[req[r].token].login] # NoRow
        /\ rows[rows[req[r].token].login].login = rows[req[r].token].login
    BY <2>2 DEF Stored, RowsCoherent
  <2> QED BY <1>2, <1>3, <1>5, <2>1, <2>2, <2>3 DEF CreateRow, Inserts
<1> QED BY <1>4, <1>5 DEF IssueToken, RequestCoherent

LEMMA InsertKeepsExclusion ==
    ASSUME Base, OneLiveTokenPerLogin, NEW r \in Request, NEW t \in Token, NEW k \in Token,
           Inserts(r, t, k)
    PROVE  OneLiveTokenPerLogin'
<1>1. \A s \in Token : Live(s)' /\ s # t => Live(s) /\ rows'[s].login = rows[s].login
  BY DEF Inserts, Live
<1>2. \A s \in Token : Live(s) => rows[s].login # t
  BY DEF Inserts, Base, RowsCoherent, Live
<1>3. \A q \in Request : Rotating(q)' =>
         /\ q # r
         /\ Rotating(q)
         /\ req[q].token \in Token
         /\ rows'[req'[q].token].login = rows[req[q].token].login
         /\ rows[req[q].token].login # t
  BY RotationStored DEF Inserts, Rotating, Stored, Base, RowsCoherent
<1>4. rows'[t].login = k
  BY DEF Inserts
<1>5. CASE k = t
  BY <1>1, <1>2, <1>3, <1>4, <1>5 DEF OneLiveTokenPerLogin
<1>6. CASE Rotating(r) /\ k = rows[req[r].token].login
  BY <1>1, <1>3, <1>4, <1>6 DEF OneLiveTokenPerLogin
<1> QED BY <1>5, <1>6 DEF Inserts

LEMMA NextExclusion ==
    ASSUME Base, [Next]_vars, OneLiveTokenPerLogin PROVE OneLiveTokenPerLogin'
BY StepKinds, ShrinkKeepsExclusion, StartKeepsExclusion, IssueTokenInserts, InsertKeepsExclusion

LEMMA Exclusion == Spec => [](Base /\ OneLiveTokenPerLogin)
<1>1. Init => Base /\ OneLiveTokenPerLogin
  BY InitBase DEF Init, OneLiveTokenPerLogin, Live, Rotating, Idle, Started
<1>2. Base /\ OneLiveTokenPerLogin /\ [Next]_vars => (Base /\ OneLiveTokenPerLogin)'
  BY NextBase, NextExclusion
<1> QED BY <1>1, <1>2, PTL DEF Spec

\* Rotation is exclusive for any number of concurrent refreshes, logouts and
\* theft responses, with failures and crashes between any two statements.
THEOREM RotationExclusive == Spec => []OneLiveTokenPerLogin
<1>1. Base /\ OneLiveTokenPerLogin => OneLiveTokenPerLogin
  OBVIOUS
<1> QED BY Exclusion, <1>1, PTL

-----------------------------------------------------------------------------
(* Refinement.                                                              *)

StoredLogin(k) == rows[k] # NoRow /\ rows[k].login = k
HasLive(k) == \E t \in Token : Live(t) /\ rows[t].login = k
HasRotation(k) == \E r \in Request : Rotating(r) /\ rows[req[r].token].login = k

StateOf(k) ==
    IF ~StoredLogin(k) THEN "none"
    ELSE IF HasLive(k) THEN "live"
    ELSE IF HasRotation(k) THEN "rotating"
    ELSE "closed"

LEMMA LoginStateByParts == \A k \in Token : LoginState[k] = StateOf(k)
BY DEF LoginState, StateOf, StoredLogin, HasLive, HasRotation

LEMMA LoginStateByPartsNext == \A k \in Token : LoginState'[k] = StateOf(k)'
BY DEF LoginState, StateOf, StoredLogin, HasLive, HasRotation

\* A step that only takes away closes the logins whose state it changes.
LEMMA ShrinkCloses ==
    ASSUME Base, [Next]_vars, OneLiveTokenPerLogin, Shrinks
    PROVE  \E K \in SUBSET Token : Lifecycle!Close(K)
<1>1. RowsKept
  BY NextKeepsRows
<1>2. ASSUME NEW k \in Token
      PROVE  /\ StoredLogin(k)' <=> StoredLogin(k)
             /\ HasLive(k)' => HasLive(k)
             /\ HasRotation(k)' => HasRotation(k)
             /\ HasLive(k) => ~HasRotation(k)
  <2>1. StoredLogin(k)' <=> StoredLogin(k)
    BY <1>1 DEF RowsKept, Shrinks, StoredLogin
  <2>2. HasLive(k)' => HasLive(k)
    BY <1>1 DEF RowsKept, Shrinks, HasLive, Live
  <2>3. HasRotation(k)' => HasRotation(k)
    BY <1>1, RotationStored DEF RowsKept, Shrinks, HasRotation, Stored
  <2>4. HasLive(k) => ~HasRotation(k)
    BY DEF OneLiveTokenPerLogin, HasLive, HasRotation
  <2> QED BY <2>1, <2>2, <2>3, <2>4
<1> DEFINE K == {k \in Token : LoginState'[k] # LoginState[k]}
<1>3. \A k \in K : LoginState[k] \in {"live", "rotating"} /\ LoginState'[k] = "closed"
  BY <1>2, LoginStateByParts, LoginStateByPartsNext DEF StateOf
<1>4. LoginState' = [k \in Token |-> IF k \in K THEN "closed" ELSE LoginState[k]]
  <2>1. LoginState' = [k \in Token |-> LoginState'[k]]
    BY DEF LoginState
  <2> QED BY <1>3, <2>1
<1> QED BY <1>3, <1>4 DEF Lifecycle!Close

\* Spending the presented token begins the rotation of its login.
LEMMA StartBegins ==
    ASSUME Base, [Next]_vars, OneLiveTokenPerLogin, NEW r \in Request, StartsRotation(r)
    PROVE  \E k \in Token : Lifecycle!BeginRotation(k)
<1>a. PICK p \in Token : p = req[r].token /\ Live(p)
  BY DEF StartsRotation, RevokeForRefresh, Base, RequestCoherent, Stored
<1>b. PICK k \in Token : k = rows[p].login /\ StoredLogin(k)
  BY <1>a DEF Live, Base, TypeOK, Row, RowsCoherent, StoredLogin
<1>1. RowsKept
  BY NextKeepsRows
<1>2. /\ p = req[r].token /\ Live(p)
      /\ k = rows[p].login /\ StoredLogin(k)
  BY <1>a, <1>b
<1>3. /\ \A t \in Token : Live(t)' <=> (Live(t) /\ t # p)
      /\ \A t \in Token : rows'[t] = NoRow <=> rows[t] = NoRow
      /\ \A t \in Token : rows[t] # NoRow => rows'[t].login = rows[t].login
  BY <1>1, <1>2 DEF StartsRotation, RevokeForRefresh, RowsKept, Live, Base, TypeOK
<1>4. /\ Rotating(r)' /\ req'[r].token = p /\ ~Rotating(r)
      /\ \A q \in Request : q # r => req'[q] = req[q]
  <2>1. \E x \in Phase : req' = [req EXCEPT ![r].phase = x]
    BY DEF StartsRotation, RevokeForRefresh, Outcome, Phase
  <2>2. req[r].kind = "refresh" /\ req[r].phase = "revoke" /\ req'[r].phase = "create"
    BY DEF StartsRotation, RevokeForRefresh
  <2> QED BY <1>2, <2>1, <2>2 DEF Rotating, Base, TypeOK, RequestRecord
<1>5. LoginState[k] = "live"
  BY <1>2, LoginStateByParts DEF StateOf, HasLive
<1>6. LoginState'[k] = "rotating"
  <2>1. StoredLogin(k)'
    BY <1>2, <1>3 DEF StoredLogin
  <2>2. ~HasLive(k)'
    BY <1>2, <1>3 DEF HasLive, Live, OneLiveTokenPerLogin
  <2>3. HasRotation(k)'
    BY <1>2, <1>3, <1>4 DEF HasRotation, Live
  <2> QED BY <1>2, <2>1, <2>2, <2>3, LoginStateByPartsNext DEF StateOf
<1>7. ASSUME NEW j \in Token, j # k PROVE LoginState'[j] = LoginState[j]
  <2>1. StoredLogin(j)' <=> StoredLogin(j)
    BY <1>3 DEF StoredLogin
  <2>2. HasLive(j)' <=> HasLive(j)
    BY <1>2, <1>3, <1>7 DEF HasLive, Live
  <2>3. ASSUME NEW q \in Request, q # r
        PROVE  (Rotating(q) /\ rows[req[q].token].login = j)
               <=> (Rotating(q)' /\ rows'[req'[q].token].login = j)
    BY <1>3, <1>4, <2>3, RotationStored DEF Rotating, Stored
  <2>4. rows'[req'[r].token].login # j
    BY <1>2, <1>3, <1>4, <1>7 DEF Live
  <2>5. HasRotation(j)' <=> HasRotation(j)
    BY <1>4, <2>3, <2>4 DEF HasRotation
  <2> QED BY <2>1, <2>2, <2>5, LoginStateByParts, LoginStateByPartsNext DEF StateOf
<1>8. LoginState' = [LoginState EXCEPT ![k] = "rotating"]
  <2>1. LoginState' = [j \in Token |-> LoginState'[j]] /\ LoginState = [j \in Token |-> LoginState[j]]
    BY DEF LoginState
  <2> QED BY <1>2, <1>6, <1>7, <2>1
<1> QED BY <1>2, <1>5, <1>8 DEF Lifecycle!BeginRotation

\* An insert opens a login or ends the rotation of one.
LEMMA InsertOpensOrEnds ==
    ASSUME Base, [Next]_vars, OneLiveTokenPerLogin,
           NEW r \in Request, NEW t \in Token, NEW k \in Token, Inserts(r, t, k)
    PROVE  Lifecycle!Open(k) \/ Lifecycle!EndRotation(k)
<1>1. ASSUME NEW j \in Token, j # k PROVE LoginState'[j] = LoginState[j]
  <2>1. StoredLogin(j)' <=> StoredLogin(j)
    BY <1>1 DEF StoredLogin, Inserts
  <2>2. HasLive(j)' <=> HasLive(j)
    BY <1>1 DEF HasLive, Live, Inserts
  <2>3. ASSUME NEW q \in Request, q # r
        PROVE  (Rotating(q) /\ rows[req[q].token].login = j)
               <=> (Rotating(q)' /\ rows'[req'[q].token].login = j)
    BY <2>3, RotationStored DEF Rotating, Stored, Inserts
  <2>4. ~(Rotating(r) /\ rows[req[r].token].login = j) /\ ~Rotating(r)'
    BY <1>1 DEF Inserts
  <2>5. HasRotation(j)' <=> HasRotation(j)
    BY <2>3, <2>4 DEF HasRotation
  <2> QED BY <2>1, <2>2, <2>5, LoginStateByParts, LoginStateByPartsNext DEF StateOf
<1>2. LoginState'[k] = "live"
  <2>1. StoredLogin(k)'
    BY DEF Inserts, StoredLogin, Live
  <2>2. HasLive(k)'
    BY DEF Inserts, HasLive
  <2> QED BY <2>1, <2>2, LoginStateByPartsNext DEF StateOf
<1>3. LoginState' = [LoginState EXCEPT ![k] = "live"]
  <2>1. LoginState' = [j \in Token |-> LoginState'[j]] /\ LoginState = [j \in Token |-> LoginState[j]]
    BY DEF LoginState
  <2> QED BY <1>1, <1>2, <2>1
<1>4. CASE k = t
  <2>1. LoginState[k] = "none"
    BY <1>4, LoginStateByParts DEF Inserts, StateOf, StoredLogin
  <2> QED BY <1>3, <2>1 DEF Lifecycle!Open
<1>5. CASE Rotating(r) /\ k = rows[req[r].token].login /\ StoredLogin(k)
  <2>1. HasRotation(k) /\ ~HasLive(k)
    BY <1>5 DEF HasRotation, HasLive, OneLiveTokenPerLogin
  <2>2. LoginState[k] = "rotating"
    BY <1>5, <2>1, LoginStateByParts DEF StateOf
  <2> QED BY <1>3, <2>2 DEF Lifecycle!EndRotation
<1> QED BY <1>4, <1>5 DEF Inserts, StoredLogin

\* Every behaviour of the service is one of the life cycle: a login is opened
\* once, rotated by one request at a time, and closed for good.
THEOREM LifecycleImplemented == Spec => ImplementsLifecycle
<1>1. Init => Lifecycle!Init
  BY DEF Init, Lifecycle!Init, LoginState
<1>2. Base /\ OneLiveTokenPerLogin /\ [Next]_vars => [Lifecycle!Next]_LoginState
  BY StepKinds, ShrinkCloses, StartBegins, IssueTokenInserts, InsertOpensOrEnds DEF Lifecycle!Next
<1> QED BY <1>1, <1>2, Exclusion, PTL DEF Spec, ImplementsLifecycle, Lifecycle!Spec
=============================================================================
