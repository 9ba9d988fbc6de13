---------------------------- MODULE NotifyProofs ----------------------------
(***************************************************************************)
(* Proofs about Notify, for any users, numbers, codes, requests and        *)
(* alerts, all of which overlap freely.                                    *)
(***************************************************************************)
EXTENDS Notify, TLAPS

Coherent(r) ==
    /\ req[r].phase # "idle" => req[r].user \in User
    /\ req[r].phase = "issue" => req[r].phone \in Phone
    /\ req[r].phase \in {"verify", "mark"} => req[r].code \in submitted[req[r].user]

\* A code that is outstanding was issued for the number on file.
Outstanding ==
    \A u \in User : row[u].otp # None => <<row[u].phone, row[u].otp>> \in issued[u]

IInv ==
    /\ TypeOK
    /\ CodeUsedUp
    /\ Outstanding
    /\ \A r \in Request : Coherent(r)
    /\ \A a \in Alert : alert[a].phase # "idle" => alert[a].user \in User

\* What a check found is still so when its number is marked, unless the number
\* was replaced.
CheckHolds(r) ==
    req[r].phase = "mark" /\ req[r].user \notin replaced
        => <<row[req[r].user].phone, req[r].code>> \in issued[req[r].user]

SInv ==
    /\ IInv
    /\ VerifiedNumberProved
    /\ AlertsToProvedNumbers
    /\ \A r \in Request : CheckHolds(r)

USE NoneAssumption

-----------------------------------------------------------------------------
LEMMA InitSInv == Init => SInv
BY DEF Init, SInv, IInv, TypeOK, Row, RequestRecord, Phase, AlertRecord, Idle, Silent, CodeUsedUp,
   Outstanding, Coherent, CheckHolds, VerifiedNumberProved, AlertsToProvedNumbers

LEMMA RequestEnded ==
    ASSUME TypeOK, NEW r \in Request, End(r)
    PROVE  req' \in [Request -> RequestRecord]
<1>1. Idle \in RequestRecord
  BY DEF RequestRecord, Idle, Phase
<1> QED BY <1>1 DEF TypeOK, End

\* What each action does to the row of a student, with its types.
LEMMA NextRow == ASSUME IInv, [Next]_vars PROVE row' \in [User -> Row]
<1> USE DEF IInv
<1>1. ASSUME NEW r \in Request, SetEmail(r) PROVE row' \in [User -> Row]
  <2>1. PICK u \in User : row' = [row EXCEPT ![u] = [row[u] EXCEPT !.method = "email"]]
    BY <1>1 DEF SetEmail, Coherent
  <2>2. [row[u] EXCEPT !.method = "email"] \in Row
    BY DEF TypeOK, Row
  <2> QED BY <2>1, <2>2 DEF TypeOK
<1>2. ASSUME NEW r \in Request, Issue(r) PROVE row' \in [User -> Row]
  <2>1. PICK u \in User, c \in Code, n \in Phone : row' = [row EXCEPT ![u] = Pending(u, n, c)]
    BY <1>2 DEF Issue, Coherent
  <2>2. Pending(u, n, c) \in Row
    BY DEF TypeOK, Row, Pending
  <2> QED BY <2>1, <2>2 DEF TypeOK
<1>3. ASSUME NEW u \in User, Expire(u) PROVE row' \in [User -> Row]
  <2>1. PICK w \in Row : w = row[u]
    BY DEF TypeOK
  <2>2. [w EXCEPT !.fresh = FALSE] \in Row
    BY DEF Row
  <2> QED BY <1>3, <2>1, <2>2 DEF Expire, TypeOK
<1>4. ASSUME NEW r \in Request, Mark(r) PROVE row' \in [User -> Row]
  <2>1. PICK u \in User : row' = [row EXCEPT ![u] =
          [method |-> "phone", phone |-> row[u].phone, verified |-> TRUE, otp |-> None, fresh |-> FALSE]]
    BY <1>4 DEF Mark, Coherent
  <2> QED BY <2>1 DEF TypeOK, Row
<1>5. CASE UNCHANGED row
  BY <1>5 DEF TypeOK
<1> QED
  BY <1>1, <1>2, <1>3, <1>4, <1>5 DEF Next, Send, LoadForResend, CheckCode, Abort, Ready, Route,
     Deliver, vars

LEMMA NextRequests == ASSUME IInv, [Next]_vars PROVE req' \in [Request -> RequestRecord]
<1> USE DEF IInv
<1>1. ASSUME NEW r \in Request, Send(r) PROVE req' \in [Request -> RequestRecord]
  <2>1. PICK p \in {"setEmail", "issue", "resend", "verify"}, u \in User, n \in Phone \cup {None},
             c \in Code \cup {None} : req' = [req EXCEPT ![r] = Ask(p, u, n, c)]
    BY <1>1, Zenon DEF Send
  <2>2. Ask(p, u, n, c) \in RequestRecord
    BY DEF Ask, RequestRecord, Phase
  <2> QED BY <2>1, <2>2 DEF TypeOK
<1>2. ASSUME NEW r \in Request, LoadForResend(r), ~End(r) PROVE req' \in [Request -> RequestRecord]
  <2>1. PICK n \in Phone : req' = [req EXCEPT ![r].phase = "issue", ![r].phone = n]
    BY <1>2 DEF LoadForResend, Coherent, TypeOK, Row
  <2>2. PICK q \in RequestRecord : q = req[r]
    BY DEF TypeOK
  <2>3. [q EXCEPT !.phase = "issue", !.phone = n] \in RequestRecord
    BY DEF RequestRecord, Phase
  <2> QED BY <2>1, <2>2, <2>3 DEF TypeOK
<1>3. ASSUME NEW r \in Request, CheckCode(r), ~End(r) PROVE req' \in [Request -> RequestRecord]
  <2>1. [req[r] EXCEPT !.phase = "mark"] \in RequestRecord
    BY DEF TypeOK, RequestRecord, Phase
  <2> QED BY <1>3, <2>1 DEF CheckCode, Goto, TypeOK
<1>4. CASE UNCHANGED req
  BY <1>4 DEF TypeOK
<1> QED
  BY <1>1, <1>2, <1>3, <1>4, RequestEnded DEF Next, SetEmail, Issue, Mark, Abort, Expire, Ready,
     Route, Deliver, vars

LEMMA NextAlerts == ASSUME IInv, [Next]_vars PROVE alert' \in [Alert -> AlertRecord]
<1> USE DEF IInv, TypeOK
<1>1. ASSUME NEW a \in Alert, Ready(a) PROVE alert' \in [Alert -> AlertRecord]
  BY <1>1 DEF Ready, AlertRecord
<1>2. ASSUME NEW a \in Alert, Deliver(a) PROVE alert' \in [Alert -> AlertRecord]
  BY <1>2 DEF Deliver, AlertRecord, Silent
<1>3. ASSUME NEW a \in Alert, Route(a) PROVE alert' \in [Alert -> AlertRecord]
  <2>1. PICK u \in User : u = alert[a].user
    BY <1>3 DEF Route
  <2>2. CASE UsePhone(u)
    <3>1. row[u].phone \in Phone \cup {None}
      BY DEF Row
    <3>2. alert' = [alert EXCEPT ![a] = [phase |-> "sms", user |-> u, phone |-> row[u].phone]]
      BY <1>3, <2>1, <2>2 DEF Route
    <3> QED BY <3>1, <3>2 DEF AlertRecord
  <2>3. CASE ~UsePhone(u)
    BY <1>3, <2>1, <2>3 DEF Route, AlertRecord
  <2> QED BY <2>2, <2>3
<1> QED
  BY <1>1, <1>2, <1>3 DEF Next, Send, SetEmail, LoadForResend, Issue, CheckCode, Mark, Abort,
     Expire, vars

LEMMA NextIInv == ASSUME IInv, [Next]_vars PROVE IInv'
<1>1. TypeOK'
  <2>1. issued' \in [User -> SUBSET (Phone \X Code)]
    <3>1. ASSUME NEW r \in Request, Issue(r) PROVE issued' \in [User -> SUBSET (Phone \X Code)]
      BY <3>1 DEF Issue, IInv, TypeOK, Coherent
    <3> QED BY <3>1 DEF IInv, TypeOK, Next, Send, SetEmail, LoadForResend, CheckCode, Mark, Abort,
           Expire, Ready, Route, Deliver, vars
  <2>2. submitted' \in [User -> SUBSET Code]
    <3>1. ASSUME NEW r \in Request, Send(r) PROVE submitted' \in [User -> SUBSET Code]
      BY <3>1 DEF Send, IInv, TypeOK
    <3> QED BY <3>1 DEF IInv, TypeOK, Next, SetEmail, LoadForResend, Issue, CheckCode, Mark, Abort,
           Expire, Ready, Route, Deliver, vars
  <2>3. replaced' \subseteq User
    <3>1. ASSUME NEW r \in Request, Issue(r) PROVE replaced' \subseteq User
      BY <3>1 DEF Issue, IInv, TypeOK, Coherent
    <3> QED BY <3>1 DEF IInv, TypeOK, Next, Send, SetEmail, LoadForResend, CheckCode, Mark, Abort,
           Expire, Ready, Route, Deliver, vars
  <2> QED BY <2>1, <2>2, <2>3, NextRow, NextRequests, NextAlerts DEF TypeOK
<1>2. CodeUsedUp' /\ Outstanding'
  <2> USE DEF IInv, TypeOK, CodeUsedUp, Outstanding
  <2>1. ASSUME NEW r \in Request, SetEmail(r) PROVE CodeUsedUp' /\ Outstanding'
    BY <2>1 DEF SetEmail, Row
  <2>2. ASSUME NEW r \in Request, Issue(r) PROVE CodeUsedUp' /\ Outstanding'
    <3>1. PICK u \in User, c \in Code : /\ u = req[r].user
                                        /\ row' = [row EXCEPT ![u] = Pending(u, req[r].phone, c)]
                                        /\ issued' = [issued EXCEPT ![u] = issued[u] \cup {<<req[r].phone, c>>}]
      BY <2>2 DEF Issue, Coherent
    <3>2. ASSUME NEW v \in User
          PROVE  /\ row'[v].verified => row'[v].otp = None
                 /\ row'[v].otp # None => <<row'[v].phone, row'[v].otp>> \in issued'[v]
      <4>1. CASE v = u
        BY <3>1, <4>1 DEF Pending
      <4>2. CASE v # u
        BY <3>1, <4>2
      <4> QED BY <4>1, <4>2
    <3> QED BY <3>2
  <2>3. ASSUME NEW u \in User, Expire(u) PROVE CodeUsedUp' /\ Outstanding'
    BY <2>3 DEF Expire, Row
  <2>4. ASSUME NEW r \in Request, Mark(r) PROVE CodeUsedUp' /\ Outstanding'
    BY <2>4 DEF Mark
  <2>5. ASSUME UNCHANGED <<row, issued>> PROVE CodeUsedUp' /\ Outstanding'
    BY <2>5
  <2> QED BY <2>1, <2>2, <2>3, <2>4, <2>5 DEF Next, Send, LoadForResend, CheckCode, Abort, Ready, Route,
             Deliver, vars
<1>3. ASSUME NEW q \in Request PROVE Coherent(q)'
  <2> USE DEF IInv
  <2>0. \A u \in User : submitted[u] \subseteq submitted'[u]
    <3>1. ASSUME NEW r \in Request, Send(r) PROVE \A u \in User : submitted[u] \subseteq submitted'[u]
      BY <3>1 DEF Send, TypeOK
    <3> QED BY <3>1 DEF Next, SetEmail, LoadForResend, Issue, CheckCode, Mark, Abort,
           Expire, Ready, Route, Deliver, vars
  <2>1. ASSUME req'[q] = req[q] PROVE Coherent(q)'
    BY <1>3, <2>0, <2>1 DEF Coherent
  <2>2. ASSUME NEW r \in Request, End(r) PROVE Coherent(q)'
    <3>1. req'[q] = req[q] \/ req'[q] = Idle
      BY <2>2 DEF End, TypeOK
    <3> QED BY <2>1, <3>1 DEF Coherent, Idle
  <2>3. ASSUME NEW r \in Request, Send(r) PROVE Coherent(q)'
    <3>1. CASE q # r
      BY <2>1, <2>3, <3>1 DEF Send, TypeOK
    <3>2. CASE q = r
      BY <2>3, <3>2 DEF Send, Ask, Coherent, TypeOK
    <3> QED BY <3>1, <3>2
  <2>4. ASSUME NEW r \in Request, LoadForResend(r) PROVE Coherent(q)'
    <3>1. CASE q # r \/ End(r)
      BY <2>1, <2>2, <2>4, <3>1 DEF LoadForResend, TypeOK
    <3>2. CASE q = r /\ ~End(r)
      BY <2>4, <3>2 DEF LoadForResend, Coherent, TypeOK, RequestRecord, Row
    <3> QED BY <3>1, <3>2
  <2>5. ASSUME NEW r \in Request, CheckCode(r) PROVE Coherent(q)'
    <3>1. CASE q # r \/ End(r)
      BY <2>1, <2>2, <2>5, <3>1 DEF CheckCode, Goto, TypeOK
    <3>2. CASE q = r /\ ~End(r)
      BY <2>5, <3>2 DEF CheckCode, Goto, Coherent, TypeOK, RequestRecord
    <3> QED BY <3>1, <3>2
  <2> QED BY <1>3, <2>1, <2>2, <2>3, <2>4, <2>5 DEF Next, SetEmail, Issue, Mark, Abort, Expire, Ready,
             Route, Deliver, vars
<1>4. ASSUME NEW a \in Alert PROVE alert'[a].phase # "idle" => alert'[a].user \in User
  <2> USE <1>4 DEF IInv, TypeOK
  <2>1. ASSUME NEW b \in Alert, Ready(b) PROVE alert'[a].phase # "idle" => alert'[a].user \in User
    BY <2>1 DEF Ready
  <2>2. ASSUME NEW b \in Alert, Route(b) PROVE alert'[a].phase # "idle" => alert'[a].user \in User
    BY <2>2 DEF Route
  <2>3. ASSUME NEW b \in Alert, Deliver(b) PROVE alert'[a].phase # "idle" => alert'[a].user \in User
    BY <2>3 DEF Deliver, Silent
  <2>4. CASE UNCHANGED alert
    BY <2>4
  <2> QED BY <2>1, <2>2, <2>3, <2>4 DEF Next, Send, SetEmail, LoadForResend, Issue, CheckCode, Mark,
             Abort, Expire, vars
<1> QED BY <1>1, <1>2, <1>3, <1>4 DEF IInv

LEMMA IInvInvariant == Spec => []IInv
<1>1. Init => IInv
  BY InitSInv DEF SInv
<1>2. IInv /\ [Next]_vars => IInv'
  BY NextIInv
<1> QED BY <1>1, <1>2, PTL DEF Spec

\* The row, the requests and the alerts keep their types.
THEOREM TypeCorrect == Spec => []TypeOK
<1>1. IInv => TypeOK
  BY DEF IInv
<1> QED BY IInvInvariant, <1>1, PTL

\* Whatever overlaps, no number is verified while a code is outstanding: the
\* code a verification uses up is gone.
THEOREM CodesAreUsedUp == Spec => []CodeUsedUp
<1>1. IInv => CodeUsedUp
  BY DEF IInv
<1> QED BY IInvInvariant, <1>1, PTL

-----------------------------------------------------------------------------
(* Numbers are proved *)

\* What was proved stays proved, and what was replaced stays recorded.
LEMMA ProofsKept ==
    ASSUME IInv, [Next]_vars
    PROVE  /\ \A u \in User : issued[u] \subseteq issued'[u] /\ submitted[u] \subseteq submitted'[u]
           /\ replaced \subseteq replaced'
<1> USE DEF IInv, TypeOK
<1>1. ASSUME NEW r \in Request, Issue(r)
      PROVE  (\A u \in User : issued[u] \subseteq issued'[u]) /\ replaced \subseteq replaced'
  BY <1>1 DEF Issue
<1>2. ASSUME NEW r \in Request, Send(r) PROVE \A u \in User : submitted[u] \subseteq submitted'[u]
  BY <1>2 DEF Send
<1> QED BY <1>1, <1>2 DEF Next, Send, SetEmail, LoadForResend, Issue, CheckCode, Mark, Abort,
           Expire, Ready, Route, Deliver, vars

\* Proved, of the next state.
ProvedNext(u, n) == \E c \in submitted'[u] : <<n, c>> \in issued'[u]

LEMMA NextSInv == ASSUME SInv, [Next]_vars PROVE SInv'
<1> USE DEF SInv
<1>0. /\ \A u \in User : issued[u] \subseteq issued'[u] /\ submitted[u] \subseteq submitted'[u]
      /\ replaced \subseteq replaced'
  BY ProofsKept
<1>p. \A u \in User : \A n : Proved(u, n) => ProvedNext(u, n)
  BY <1>0 DEF Proved, ProvedNext
<1>1. VerifiedNumberProved'
  <2> USE DEF IInv, TypeOK
  <2>1. ASSUME \A u \in User : row'[u].verified => row[u].verified /\ row'[u].phone = row[u].phone
        PROVE  VerifiedNumberProved'
    BY <1>0, <1>p, <2>1 DEF VerifiedNumberProved, Proved, ProvedNext
  <2>2. ASSUME NEW r \in Request, SetEmail(r) PROVE VerifiedNumberProved'
    BY <2>1, <2>2 DEF SetEmail, Row
  <2>3. ASSUME NEW r \in Request, Issue(r) PROVE VerifiedNumberProved'
    BY <2>1, <2>3 DEF Issue, Pending
  <2>4. ASSUME NEW r \in Request, Mark(r) PROVE VerifiedNumberProved'
    <3>1. PICK u \in User : /\ u = req[r].user
                            /\ row' = [row EXCEPT ![u] = [method |-> "phone", phone |-> row[u].phone,
                                         verified |-> TRUE, otp |-> None, fresh |-> FALSE]]
      BY <2>4 DEF Mark, Coherent
    <3>2. u \notin replaced => Proved(u, row[u].phone)
      BY <2>4, <3>1 DEF Mark, Coherent, CheckHolds, Proved
    <3>3. row'[u].phone = row[u].phone /\ \A v \in User : v # u => row'[v] = row[v]
      BY <3>1
    <3>4. ASSUME NEW v \in User, row'[v].verified, v \notin replaced' PROVE ProvedNext(v, row'[v].phone)
      BY <1>0, <1>p, <3>2, <3>3, <3>4 DEF VerifiedNumberProved
    <3> QED BY <3>4 DEF VerifiedNumberProved, Proved, ProvedNext
  <2>5. ASSUME NEW u \in User, Expire(u) PROVE VerifiedNumberProved'
    BY <2>1, <2>5 DEF Expire, Row
  <2>6. CASE UNCHANGED row
    BY <2>1, <2>6
  <2> QED BY <2>2, <2>3, <2>4, <2>5, <2>6 DEF Next, Send, LoadForResend, CheckCode, Abort, Ready, Route,
             Deliver, vars
<1>2. AlertsToProvedNumbers'
  <2> USE DEF IInv
  <2>1. ASSUME NEW a \in Alert, alert'[a] = alert[a], alert[a].phase = "sms", alert[a].user \notin replaced'
        PROVE  ProvedNext(alert[a].user, alert[a].phone)
    BY <1>0, <1>p, <2>1 DEF AlertsToProvedNumbers
  <2>2. ASSUME NEW a \in Alert, NEW b \in Alert, Route(b), alert'[a].phase = "sms",
               alert'[a].user \notin replaced'
        PROVE  ProvedNext(alert'[a].user, alert'[a].phone)
    <3>1. CASE a = b
      <4>1. PICK u \in User : u = alert[a].user
        BY <2>2, <3>1 DEF Route
      <4>2. UsePhone(u) /\ alert'[a].user = u /\ alert'[a].phone = row[u].phone
        BY <2>2, <3>1, <4>1 DEF Route, TypeOK
      <4> QED BY <1>0, <1>p, <2>2, <4>1, <4>2 DEF UsePhone, VerifiedNumberProved
    <3>2. CASE a # b
      <4>1. alert'[a] = alert[a]
        BY <2>2, <3>2 DEF Route, TypeOK
      <4> QED BY <2>1, <2>2, <4>1
    <3> QED BY <3>1, <3>2
  <2>3. ASSUME NEW a \in Alert, NEW b \in Alert, Ready(b) \/ Deliver(b)
        PROVE  alert'[a] = alert[a] \/ alert'[a].phase # "sms"
    BY <2>3 DEF Ready, Deliver, Silent, TypeOK
  <2>4. ASSUME NEW a \in Alert, alert'[a].phase = "sms", alert'[a].user \notin replaced'
        PROVE  ProvedNext(alert'[a].user, alert'[a].phone)
    BY <2>1, <2>2, <2>3, <2>4 DEF Next, Send, SetEmail, LoadForResend, Issue, CheckCode, Mark, Abort,
       Expire, vars
  <2> QED BY <2>4 DEF AlertsToProvedNumbers, Proved, ProvedNext
<1>3. ASSUME NEW q \in Request PROVE CheckHolds(q)'
  <2> USE DEF IInv
  <2> SUFFICES ASSUME req'[q].phase = "mark", req'[q].user \notin replaced'
               PROVE  <<row'[req'[q].user].phone, req'[q].code>> \in issued'[req'[q].user]
    BY DEF CheckHolds
  <2>1. UNCHANGED req[q] \/ CheckCode(q)
    <3>1. ASSUME NEW r \in Request,
                 \/ Send(r) \/ SetEmail(r) \/ LoadForResend(r) \/ Issue(r) \/ CheckCode(r) \/ Mark(r)
                 \/ Abort(r),
                 r # q
          PROVE  UNCHANGED req[q]
      BY <3>1 DEF Send, SetEmail, LoadForResend, Issue, CheckCode, Mark, Abort, Goto, End, TypeOK
    <3>2. ~Send(q) /\ ~LoadForResend(q) /\ ~End(q)
      BY DEF Send, Ask, LoadForResend, End, Idle, TypeOK, RequestRecord
    <3> QED BY <3>1, <3>2 DEF Next, SetEmail, Issue, Mark, Abort, Expire, Ready, Route, Deliver, vars
  <2>2. CASE UNCHANGED req[q]
    <3>1. PICK u \in User : u = req[q].user
      BY <2>2 DEF Coherent
    <3>2. ASSUME NEW r \in Request, Issue(r), row'[u].phone # row[u].phone PROVE FALSE
      <4>1. req[r].user = u /\ row'[u].phone = req[r].phone
        BY <3>1, <3>2 DEF Issue, Pending, TypeOK
      <4>2. CheckedOther(u, req[r].phone)
        BY <2>2, <3>1, <3>2, <4>1 DEF CheckedOther
      <4>3. u \in replaced'
        BY <3>2, <4>1, <4>2 DEF Issue
      <4> QED BY <2>2, <3>1, <4>3
    <3>3. row'[u].phone = row[u].phone
      <4>1. ASSUME NEW r \in Request, SetEmail(r) PROVE row'[u].phone = row[u].phone
        BY <4>1 DEF SetEmail, TypeOK, Row
      <4>2. ASSUME NEW r \in Request, Issue(r) PROVE row'[u].phone = row[u].phone
        BY <3>2, <4>2
      <4>3. ASSUME NEW r \in Request, Mark(r) PROVE row'[u].phone = row[u].phone
        BY <4>3 DEF Mark, TypeOK
      <4>4. ASSUME NEW v \in User, Expire(v) PROVE row'[u].phone = row[u].phone
        BY <4>4 DEF Expire, TypeOK, Row
      <4> QED BY <4>1, <4>2, <4>3, <4>4 DEF Next, Send, LoadForResend, CheckCode, Abort, Ready, Route,
                 Deliver, vars
    <3> QED BY <1>0, <2>2, <3>1, <3>3 DEF CheckHolds
  <2>3. CASE CheckCode(q)
    <3>1. PICK u \in User : u = req[q].user
      BY <2>3 DEF CheckCode, Coherent
    <3>2. ~End(q)
      BY DEF End, Idle, TypeOK
    <3>3. row[u].otp = req[q].code /\ req[q].code # None
      BY <2>3, <3>1, <3>2 DEF CheckCode, Coherent, TypeOK
    <3>4. req'[q].user = u /\ req'[q].code = req[q].code /\ UNCHANGED <<row, issued>>
      BY <2>3, <3>1, <3>2 DEF CheckCode, Goto, TypeOK, RequestRecord
    <3> QED BY <3>3, <3>4 DEF Outstanding
  <2> QED BY <2>1, <2>2, <2>3
<1> QED BY <1>1, <1>2, <1>3, NextIInv

LEMMA SInvInvariant == Spec => []SInv
<1>1. SInv /\ [Next]_vars => SInv'
  BY NextSInv
<1> QED BY InitSInv, <1>1, PTL DEF Spec

\* However the requests of the students overlap, a number marked verified is one
\* whose code its student submitted, unless it was replaced between the check
\* of that code and the mark.
THEOREM NumbersAreProved == Spec => []VerifiedNumberProved
<1>1. SInv => VerifiedNumberProved
  BY DEF SInv
<1> QED BY SInvInvariant, <1>1, PTL

\* With that exception alerts are texted to proved numbers only, however they
\* overlap with the requests and each other.
THEOREM AlertsGoToProvedNumbers == Spec => []AlertsToProvedNumbers
<1>1. SInv => AlertsToProvedNumbers
  BY DEF SInv
<1> QED BY SInvInvariant, <1>1, PTL
=============================================================================
