---------------------------- MODULE AccessProofs ----------------------------
(***************************************************************************)
(* Proofs about Access, for any accounts, devices, logins, requests in     *)
(* flight and life of the access token.                                    *)
(***************************************************************************)
EXTENDS Access, TLAPS

Exchanging(r) == req[r].phase \in {"sign", "store"}

\* A token of a closed login is at least as old as the closing.
Faded(k, age) == state[k] = "closed" => age >= closedFor[k]

\* What the call would be let in by at this moment has been noted.
Noted(r) ==
    /\ active[Caller(r)] \in {None, req[r].device} => since[r].device
    /\ Caller(r) \in admins => since[r].admin

RequestCoherent(r) ==
    /\ req[r].phase # "idle" => req[r].login \in Login
    /\ Exchanging(r) => \/ req[r].kind = "login" /\ state[req[r].login] = "none"
                        \/ req[r].kind = "refresh" /\ state[req[r].login] = "rotating"
    /\ req[r].phase \in {"bind", "reply", "token"} => Faded(req[r].login, req[r].age)
    /\ req[r].phase = "bind" => req[r].device # None
    /\ OnCall(r) => Noted(r) /\ req[r].kind \in {"user", "admin", "file"}
    /\ req[r].phase = "device" => req[r].kind # "file"
    /\ req[r].phase = "role" => \/ req[r].kind = "admin" /\ since[r].device
                                \/ req[r].kind = "file" /\ ~req[r].own

OneExchange ==
    \A q, r \in Request :
        Exchanging(q) /\ Exchanging(r) /\ req[q].login = req[r].login => q = r

CopiesFade ==
    /\ \A k \in Login : state[k] # "closed" => closedFor[k] = 0
    /\ \A d \in Device : bearer[d] # NoToken => Faded(bearer[d].login, bearer[d].age)

IInv ==
    /\ TypeOK
    /\ CopiesFade
    /\ OneExchange
    /\ \A r \in Request : RequestCoherent(r)
    /\ ServedInGoodStanding

USE NoneAssumption, LoginAssumption, CallAssumption, TTLAssumption

-----------------------------------------------------------------------------
LEMMA InitIInv == Init => IInv
<1> SUFFICES ASSUME Init PROVE IInv
  OBVIOUS
<1>1. TypeOK
  BY DEF Init, TypeOK, Idle, NoToken, NoSince, Since, Age, RequestRecord, Phase, Exchange, Gate
<1>2. CopiesFade /\ OneExchange /\ ServedInGoodStanding
  BY DEF Init, CopiesFade, OneExchange, ServedInGoodStanding, Exchanging, Idle
<1>3. \A r \in Request : RequestCoherent(r)
  BY DEF Init, RequestCoherent, Exchanging, OnCall, Gate, Idle
<1> QED BY <1>1, <1>2, <1>3 DEF IInv

\* The record a request keeps is a record whatever field a step sets.
LEMMA RecordEdits ==
    ASSUME NEW x \in RequestRecord, NEW p \in Phase, NEW a \in Age
    PROVE  /\ [x EXCEPT !.phase = p] \in RequestRecord
           /\ [x EXCEPT !.age = a] \in RequestRecord
           /\ [x EXCEPT !.phase = p, !.age = a] \in RequestRecord
<1> USE DEF RequestRecord
<1>1. [x EXCEPT !.phase = p] \in RequestRecord
  OBVIOUS
<1>2. \A y \in RequestRecord : [y EXCEPT !.age = a] \in RequestRecord
  OBVIOUS
<1>3. [x EXCEPT !.phase = p, !.age = a] = [[x EXCEPT !.phase = p] EXCEPT !.age = a]
  OBVIOUS
<1> QED BY <1>1, <1>2, <1>3

LEMMA AgeEdit ==
    ASSUME NEW x \in RequestRecord, NEW a \in Age
    PROVE  [x EXCEPT !.age = a] \in RequestRecord
  BY DEF RequestRecord

LEMMA IdleIsRecord == Idle \in RequestRecord
  BY DEF Idle, RequestRecord, Phase, Age

\* Ages stay in range and only grow.
LEMMA Growing ==
    /\ \A a \in Age : Older(a) \in Age
    /\ \A a, b \in Age : a >= b => Older(a) >= Older(b)
    /\ TTL \in Age /\ 0 \in Age
    /\ \A a \in Age : a >= 0 /\ TTL >= a
  BY DEF Age, Older

\* A step that changes one request only, and neither the sessions nor what the
\* checks read, leaves the others as they were.
LEMMA OthersKept ==
    ASSUME IInv, NEW r \in Request, NEW x,
           req' = [req EXCEPT ![r] = x],
           UNCHANGED <<state, active, admins, closedFor>>,
           \A q \in Request \ {r} : since'[q] = since[q]
    PROVE  \A q \in Request \ {r} : RequestCoherent(q)'
<1> SUFFICES ASSUME NEW q \in Request \ {r} PROVE RequestCoherent(q)'
  OBVIOUS
<1>1. req'[q] = req[q] /\ since'[q] = since[q]
  BY DEF IInv, TypeOK
<1> QED BY <1>1 DEF IInv, RequestCoherent, Exchanging, OnCall, Noted, Faded, Caller

\* What ending a request leaves to the rest of the invariant.
LEMMA EndedKeeps ==
    ASSUME IInv, NEW r \in Request, req' = [req EXCEPT ![r] = Idle],
           UNCHANGED <<state, active, admins, closedFor, since>>
    PROVE  OneExchange' /\ (\A q \in Request : RequestCoherent(q)') /\ ServedInGoodStanding'
<1>1. \A q \in Request : req'[q] = IF q = r THEN Idle ELSE req[q]
  BY DEF IInv, TypeOK
<1>2. OneExchange'
  BY <1>1 DEF IInv, OneExchange, Exchanging, Idle
<1>3. RequestCoherent(r)'
  BY <1>1 DEF RequestCoherent, Exchanging, OnCall, Gate, Idle
<1>4. \A q \in Request : RequestCoherent(q)'
  BY <1>3, OthersKept
<1>5. ServedInGoodStanding'
  BY <1>1 DEF IInv, ServedInGoodStanding, Idle
<1> QED BY <1>2, <1>4, <1>5

-----------------------------------------------------------------------------
\* A login or a refresh that begins adds the only exchange of its session.
LEMMA BeginKeepsIInv ==
    ASSUME IInv, NEW r \in Request, NEW k \in Login, NEW d \in Device \cup {None},
           NEW kind \in {"login", "refresh"}, Begin(r, kind, k, d), req[r] = Idle,
           UNCHANGED <<active, admins, bearer, closedFor, since>>,
           \/ kind = "login" /\ UNCHANGED state /\ state[k] = "none" /\ ~InFlight(k, "login")
           \/ kind = "refresh" /\ state[k] = "live" /\ state' = [state EXCEPT ![k] = "rotating"]
    PROVE  IInv'
<1> DEFINE x == [phase |-> "sign", kind |-> kind, login |-> k, age |-> TTL, device |-> d, own |-> FALSE]
<1>2. req' = [req EXCEPT ![r] = x]
  BY DEF Begin
<1>3. x \in RequestRecord /\ x.phase = "sign" /\ x.kind = kind /\ x.login = k
  BY DEF RequestRecord, Phase, Exchange, Age
<1> HIDE DEF x
<1>4. \A l \in Login : state'[l] = "closed" <=> state[l] = "closed"
  BY DEF IInv, TypeOK
<1>5. TypeOK'
  BY <1>2, <1>3 DEF IInv, TypeOK
<1>6. \A q \in Request : Exchanging(q) => req[q].login # k
  BY DEF IInv, RequestCoherent, Exchanging, InFlight
<1>7. \A q \in Request : req'[q] = IF q = r THEN x ELSE req[q]
  BY <1>2 DEF IInv, TypeOK
<1>8. CopiesFade'
  BY <1>4 DEF IInv, TypeOK, CopiesFade, Faded, AccessToken
<1>9. OneExchange'
  BY <1>3, <1>6, <1>7 DEF IInv, OneExchange, Exchanging
<1>10. ASSUME NEW q \in Request PROVE RequestCoherent(q)'
  <2>1. CASE q = r
    BY <2>1, <1>3, <1>7 DEF IInv, TypeOK, RequestCoherent, Exchanging, OnCall, Gate
  <2>2. CASE q # r
    <3>1. req'[q] = req[q] /\ (req[q].phase # "idle" => req[q].login \in Login)
      BY <2>2, <1>7 DEF IInv, RequestCoherent
    <3>2. Exchanging(q) => state'[req[q].login] = state[req[q].login]
      BY <1>6, <3>1 DEF IInv, TypeOK, Exchanging
    <3> QED BY <1>4, <3>1, <3>2
          DEF IInv, RequestCoherent, Exchanging, OnCall, Noted, Faded, Caller
  <2> QED BY <2>1, <2>2
<1>11. ServedInGoodStanding'
  BY <1>3, <1>7 DEF IInv, ServedInGoodStanding
<1> QED BY <1>5, <1>8, <1>9, <1>10, <1>11 DEF IInv

LEMMA SendKeepsIInv ==
    ASSUME IInv, NEW r \in Request, NEW k \in Login, SendLogin(r, k) \/ SendRefresh(r, k)
    PROVE  IInv'
<1>1. CASE SendLogin(r, k)
  <2>1. PICK d \in {Home[k], None} : Begin(r, "login", k, d)
    BY <1>1 DEF SendLogin
  <2>2. req[r] = Idle /\ state[k] = "none" /\ ~InFlight(k, "login")
        /\ UNCHANGED <<state, active, admins, bearer, closedFor, since>>
    BY <1>1 DEF SendLogin
  <2>3. d \in Device \cup {None}
    OBVIOUS
  <2> QED BY <2>1, <2>2, <2>3, BeginKeepsIInv
<1>2. CASE SendRefresh(r, k)
  BY <1>2, BeginKeepsIInv DEF SendRefresh, Session!BeginRotation
<1> QED BY <1>1, <1>2

LEMMA SignKeepsIInv ==
    ASSUME IInv, NEW r \in Request, Sign(r)
    PROVE  IInv'
<1> DEFINE x == [req[r] EXCEPT !.phase = "store", !.age = 0]
<1>1. req' = [req EXCEPT ![r] = x] /\ req[r].phase = "sign"
      /\ UNCHANGED <<state, active, admins, bearer, closedFor, since>>
  BY DEF Sign
<1>2. x \in RequestRecord /\ x.phase = "store" /\ x.kind = req[r].kind /\ x.login = req[r].login
  <2>1. req[r] \in RequestRecord /\ "store" \in Phase /\ 0 \in Age
    BY Growing DEF IInv, TypeOK, Phase, Exchange
  <2>2. x \in RequestRecord
    BY <2>1, RecordEdits
  <2> QED BY <2>1, <2>2 DEF RequestRecord
<1> HIDE DEF x
<1>3. \A q \in Request : req'[q] = IF q = r THEN x ELSE req[q]
  BY <1>1 DEF IInv, TypeOK
<1>4. TypeOK' /\ CopiesFade'
  BY <1>1, <1>2 DEF IInv, TypeOK, CopiesFade, Faded
<1>5. OneExchange'
  BY <1>1, <1>2, <1>3 DEF IInv, OneExchange, Exchanging
<1>6. RequestCoherent(r)'
  BY <1>1, <1>2, <1>3 DEF IInv, RequestCoherent, Exchanging, OnCall, Gate
<1>7. \A q \in Request : RequestCoherent(q)'
  BY <1>1, <1>6, OthersKept
<1>8. ServedInGoodStanding'
  BY <1>1, <1>2, <1>3 DEF IInv, ServedInGoodStanding
<1> QED BY <1>4, <1>5, <1>7, <1>8 DEF IInv
LEMMA StoreKeepsIInv ==
    ASSUME IInv, NEW r \in Request, Store(r)
    PROVE  IInv'
<1> DEFINE k == req[r].login
           x == [req[r] EXCEPT !.phase = IF req[r].device = None THEN "reply" ELSE "bind"]
<1>1. req' = [req EXCEPT ![r] = x] /\ req[r].phase = "store"
      /\ UNCHANGED <<active, admins, bearer, closedFor, since>>
  BY DEF Store, Goto
<1>2. x \in RequestRecord /\ x.phase \in {"reply", "bind"} /\ x.kind = req[r].kind /\ x.login = k
      /\ x.age = req[r].age /\ x.device = req[r].device
      /\ (x.phase = "bind" => req[r].device # None)
  <2>1. req[r] \in RequestRecord /\ "reply" \in Phase /\ "bind" \in Phase
    BY DEF IInv, TypeOK, Phase, Exchange
  <2>2. x \in RequestRecord
    BY <2>1, RecordEdits, Growing
  <2> QED BY <2>1, <2>2 DEF RequestRecord
<1>3. k \in Login /\ state[k] # "closed" /\ state' = [state EXCEPT ![k] = "live"]
  BY <1>1 DEF IInv, RequestCoherent, Exchanging, Store, Session!Open, Session!EndRotation
<1> HIDE DEF x
<1>4. \A q \in Request : req'[q] = IF q = r THEN x ELSE req[q]
  BY <1>1 DEF IInv, TypeOK
<1>5. TypeOK'
  BY <1>1, <1>2, <1>3 DEF IInv, TypeOK
<1>6. CopiesFade'
  BY <1>1, <1>3 DEF IInv, TypeOK, CopiesFade, Faded
<1>7. OneExchange'
  BY <1>2, <1>4 DEF IInv, OneExchange, Exchanging
<1>8. ASSUME NEW q \in Request PROVE RequestCoherent(q)'
  <2>1. CASE q = r
    BY <2>1, <1>2, <1>3, <1>4 DEF IInv, TypeOK, RequestCoherent, Exchanging, Faded, OnCall, Gate
  <2>2. CASE q # r
    <3>1. req'[q] = req[q] /\ (Exchanging(q) => req[q].login # k)
      BY <2>2, <1>1, <1>4 DEF IInv, OneExchange, Exchanging
    <3>2. \A l \in Login : (state'[l] = "closed" => state[l] = "closed")
                          /\ (l # k => state'[l] = state[l])
      BY <1>3 DEF IInv, TypeOK
    <3> QED BY <1>1, <3>1, <3>2
          DEF IInv, RequestCoherent, Exchanging, OnCall, Noted, Faded, Caller
  <2> QED BY <2>1, <2>2
<1>9. ServedInGoodStanding'
  BY <1>1, <1>2, <1>4 DEF IInv, ServedInGoodStanding
<1> QED BY <1>5, <1>6, <1>7, <1>8, <1>9 DEF IInv

LEMMA BindKeepsIInv ==
    ASSUME IInv, NEW r \in Request, Bind(r)
    PROVE  IInv'
<1> DEFINE u == Caller(r)
           d == req[r].device
           x == [req[r] EXCEPT !.phase = "reply"]
<1>1. req' = [req EXCEPT ![r] = x] /\ req[r].phase = "bind"
      /\ active' = [active EXCEPT ![u] = d]
      /\ since' = [q \in Request |-> IF OnCall(q) /\ Caller(q) = u /\ req[q].device = d
                                     THEN [since[q] EXCEPT !.device = TRUE] ELSE since[q]]
      /\ UNCHANGED <<state, admins, bearer, closedFor>>
  BY DEF Bind, Goto
<1>2. x \in RequestRecord /\ x.phase = "reply" /\ x.login = req[r].login /\ x.age = req[r].age
  <2>1. req[r] \in RequestRecord /\ "reply" \in Phase
    BY DEF IInv, TypeOK, Phase, Exchange
  <2>2. x \in RequestRecord
    BY <2>1, RecordEdits, Growing
  <2> QED BY <2>1, <2>2 DEF RequestRecord
<1>3. req[r].login \in Login /\ u \in User /\ d \in Device
  BY <1>1 DEF IInv, TypeOK, RequestRecord, RequestCoherent, Caller
<1> HIDE DEF x
<1>4. \A q \in Request : req'[q] = IF q = r THEN x ELSE req[q]
  BY <1>1 DEF IInv, TypeOK
<1>5. \A q \in Request :
         /\ since'[q] \in Since /\ since'[q].admin = since[q].admin
         /\ since[q].device => since'[q].device
         /\ OnCall(q) /\ Caller(q) = u /\ req[q].device = d => since'[q].device
  <2> SUFFICES ASSUME NEW q \in Request
               PROVE  /\ since'[q] \in Since /\ since'[q].admin = since[q].admin
                      /\ since[q].device => since'[q].device
                      /\ OnCall(q) /\ Caller(q) = u /\ req[q].device = d => since'[q].device
    OBVIOUS
  <2>1. since[q] \in Since
    BY DEF IInv, TypeOK
  <2>2. CASE OnCall(q) /\ Caller(q) = u /\ req[q].device = d
    <3>1. since'[q] = [since[q] EXCEPT !.device = TRUE]
      BY <1>1, <2>2
    <3> QED BY <2>1, <3>1 DEF Since
  <2>3. CASE ~(OnCall(q) /\ Caller(q) = u /\ req[q].device = d)
    <3>1. since'[q] = since[q]
      BY <1>1, <2>3
    <3> QED BY <2>1, <2>3, <3>1
  <2> QED BY <2>2, <2>3
<1>6. TypeOK'
  BY <1>1, <1>2, <1>3, <1>5 DEF IInv, TypeOK
<1>7. CopiesFade'
  BY <1>1 DEF IInv, CopiesFade, Faded
<1>8. OneExchange'
  BY <1>1, <1>2, <1>4 DEF IInv, OneExchange, Exchanging
<1>9. ASSUME NEW q \in Request PROVE RequestCoherent(q)'
  <2>1. CASE q = r
    BY <2>1, <1>1, <1>2, <1>3, <1>4 DEF IInv, RequestCoherent, Exchanging, Faded, OnCall, Gate
  <2>2. CASE q # r
    <3>1. req'[q] = req[q]
      BY <2>2, <1>4
    <3>2. OnCall(q) => Noted(q)'
      <4> SUFFICES ASSUME OnCall(q) PROVE Noted(q)'
        OBVIOUS
      <4>1. Noted(q) /\ Caller(q) \in User
        BY <2>2 DEF IInv, RequestCoherent, OnCall, Gate, Caller
      <4>2. active'[Caller(q)] = IF Caller(q) = u THEN d ELSE active[Caller(q)]
        BY <1>1, <4>1 DEF IInv, TypeOK
      <4> QED BY <1>1, <1>3, <1>5, <3>1, <4>1, <4>2 DEF Noted, Caller
    <3> QED BY <1>1, <1>5, <3>1, <3>2 DEF IInv, RequestCoherent, Exchanging, OnCall, Faded
  <2> QED BY <2>1, <2>2
<1>10. ServedInGoodStanding'
  BY <1>2, <1>4, <1>5 DEF IInv, ServedInGoodStanding
<1> QED BY <1>6, <1>7, <1>8, <1>9, <1>10 DEF IInv

LEMMA ReplyKeepsIInv ==
    ASSUME IInv, NEW r \in Request, Reply(r)
    PROVE  IInv'
<1> DEFINE t == [login |-> req[r].login, age |-> req[r].age]
<1>1. req' = [req EXCEPT ![r] = Idle] /\ req[r].phase = "reply"
      /\ bearer' = [bearer EXCEPT ![Home[req[r].login]] = t]
      /\ UNCHANGED <<state, active, admins, closedFor, since>>
  BY DEF Reply, End
<1>2. t \in AccessToken /\ Faded(t.login, t.age)
  BY <1>1 DEF IInv, TypeOK, RequestCoherent, RequestRecord, AccessToken
<1> HIDE DEF t
<1>3. TypeOK'
  BY <1>1, <1>2, IdleIsRecord DEF IInv, TypeOK
<1>4. CopiesFade'
  BY <1>1, <1>2 DEF IInv, TypeOK, CopiesFade, Faded
<1> QED BY <1>1, <1>3, <1>4, EndedKeeps DEF IInv

-----------------------------------------------------------------------------
LEMMA ArriveKeepsIInv ==
    ASSUME IInv, NEW r \in Request, NEW d \in Device, NEW route \in Route, Arrive(r, d, route)
    PROVE  IInv'
<1> DEFINE k == bearer[d].login
           x == [phase |-> "token", kind |-> route.kind, device |-> route.device, own |-> route.own,
                 login |-> bearer[d].login, age |-> bearer[d].age]
           y == [device |-> active[Owner[k]] \in {None, route.device}, admin |-> Owner[k] \in admins]
<1>1. req' = [req EXCEPT ![r] = x] /\ since' = [since EXCEPT ![r] = y]
      /\ bearer[d] # NoToken /\ UNCHANGED <<state, active, admins, bearer, closedFor>>
  BY DEF Arrive
<1>2. bearer[d] \in AccessToken /\ Faded(bearer[d].login, bearer[d].age)
  BY <1>1 DEF IInv, TypeOK, CopiesFade
<1>3. route.kind \in {"user", "admin", "file"} /\ route.device \in Device \cup {None}
      /\ route.own \in BOOLEAN
  BY DEF Route
<1>4. x \in RequestRecord /\ k \in Login
  BY <1>2, <1>3 DEF RequestRecord, AccessToken, Phase, Gate
<1>5. y \in Since
  BY DEF Since
<1>6. \A q \in Request : /\ req'[q] = IF q = r THEN x ELSE req[q]
                         /\ since'[q] = IF q = r THEN y ELSE since[q]
  BY <1>1 DEF IInv, TypeOK
<1>7. TypeOK' /\ CopiesFade'
  BY <1>1, <1>4, <1>5 DEF IInv, TypeOK, CopiesFade, Faded
<1>8. OneExchange' /\ ServedInGoodStanding'
  BY <1>6 DEF IInv, OneExchange, Exchanging, ServedInGoodStanding
<1>9. RequestCoherent(r)'
  <2>1. req'[r] = x /\ since'[r] = y
    BY <1>6
  <2>2. Noted(r)'
    <3>1. y.device <=> active[Owner[k]] \in {None, route.device}
      BY Zenon
    <3>2. y.admin <=> Owner[k] \in admins
      BY Zenon
    <3>3. x.login = k /\ x.device = route.device
      OBVIOUS
    <3> HIDE DEF x, y, k
    <3>4. Caller(r)' = Owner[k]
      BY <2>1, <3>3 DEF Caller
    <3> QED BY <1>1, <2>1, <3>1, <3>2, <3>3, <3>4 DEF Noted
  <2>3. x.phase = "token" /\ x.login = k /\ x.age = bearer[d].age /\ x.kind = route.kind
    OBVIOUS
  <2>4. Faded(req[r].login, req[r].age)'
    BY <1>1, <1>2, <2>1, <2>3 DEF Faded
  <2> HIDE DEF x, y, k
  <2> QED BY <1>3, <1>4, <2>1, <2>2, <2>3, <2>4 DEF RequestCoherent, Exchanging, OnCall, Gate
<1>10. \A q \in Request : RequestCoherent(q)'
  <2> HIDE DEF x, y
  <2>1. \A q \in Request \ {r} : since'[q] = since[q]
    BY <1>6
  <2>2. \A q \in Request \ {r} : RequestCoherent(q)'
    BY <1>1, <2>1, OthersKept
  <2> QED BY <1>9, <2>2
<1> QED BY <1>7, <1>8, <1>10 DEF IInv

\* A check that lets the call through takes it to a phase whose condition is
\* the one just established.
LEMMA PassKeepsIInv ==
    ASSUME IInv, NEW r \in Request, NEW p \in {"device", "role", "serve"}, NEW x,
           OnCall(r), x \in RequestRecord, x.phase = p,
           x.kind = req[r].kind, x.login = req[r].login, x.device = req[r].device, x.own = req[r].own,
           req' = [req EXCEPT ![r] = x],
           UNCHANGED <<state, active, admins, bearer, closedFor, since>>,
           p = "device" => req[r].kind # "file",
           p = "role" => \/ req[r].kind = "admin" /\ since[r].device
                         \/ req[r].kind = "file" /\ ~req[r].own,
           p = "serve" => \/ req[r].kind = "user" /\ since[r].device
                          \/ req[r].kind = "admin" /\ since[r].device /\ since[r].admin
                          \/ req[r].kind = "file" /\ (req[r].own \/ since[r].admin)
    PROVE  IInv'
<1>1. \A q \in Request : req'[q] = IF q = r THEN x ELSE req[q]
  BY DEF IInv, TypeOK
<1>2. TypeOK' /\ CopiesFade'
  BY DEF IInv, TypeOK, CopiesFade, Faded
<1>3. OneExchange'
  BY <1>1 DEF IInv, OneExchange, Exchanging
<1>4. RequestCoherent(r)'
  BY <1>1 DEF IInv, RequestCoherent, Exchanging, OnCall, Gate, Noted, Caller
<1>5. \A q \in Request : RequestCoherent(q)'
  BY <1>4, OthersKept
<1>6. ServedInGoodStanding'
  BY <1>1 DEF IInv, ServedInGoodStanding
<1> QED BY <1>2, <1>3, <1>5, <1>6 DEF IInv

LEMMA EndKeepsIInv ==
    ASSUME IInv, NEW r \in Request, End(r),
           UNCHANGED <<state, active, admins, bearer, closedFor, since>>
    PROVE  IInv'
<1>1. req' = [req EXCEPT ![r] = Idle]
  BY DEF End
<1>2. TypeOK' /\ CopiesFade'
  BY <1>1, IdleIsRecord DEF IInv, TypeOK, CopiesFade, Faded
<1> QED BY <1>1, <1>2, EndedKeeps DEF IInv

LEMMA CheckKeepsIInv ==
    ASSUME IInv, NEW r \in Request, CheckToken(r) \/ CheckDevice(r) \/ CheckRole(r) \/ Serve(r)
    PROVE  IInv'
<1>1. UNCHANGED <<state, active, admins, bearer, closedFor, since>>
  BY DEF CheckToken, CheckDevice, CheckRole, Serve
<1>2. CASE End(r)
  BY <1>1, <1>2, EndKeepsIInv
<1>3. CASE ~End(r)
  <2> DEFINE p == After(r)
  <2>1. req[r] \in RequestRecord /\ req[r].own \in BOOLEAN
    BY DEF IInv, TypeOK, RequestRecord
  <2>2. RequestCoherent(r)
    BY DEF IInv
  <2>3. CASE CheckToken(r)
    <3> DEFINE x == [req[r] EXCEPT !.phase = p, !.age = TTL]
    <3>1. req' = [req EXCEPT ![r] = x] /\ req[r].phase = "token"
      BY <1>3, <2>3 DEF CheckToken
    <3>2. p \in {"device", "role", "serve"} /\ p \in Phase
          /\ (p = "device" <=> req[r].kind # "file")
          /\ (p = "role" <=> req[r].kind = "file" /\ ~req[r].own)
      BY <2>1, <3>1 DEF After, Phase, Gate
    <3>3. x \in RequestRecord
      BY <2>1, <3>2, RecordEdits, Growing
    <3>4. x.phase = p /\ x.kind = req[r].kind /\ x.login = req[r].login /\ x.device = req[r].device
          /\ x.own = req[r].own
      BY <2>1 DEF RequestRecord
    <3>5. OnCall(r) /\ req[r].kind \in {"user", "admin", "file"}
      BY <2>2, <3>1 DEF OnCall, Gate, RequestCoherent
    <3> HIDE DEF x, p
    <3> QED BY <1>1, <2>1, <3>1, <3>2, <3>3, <3>4, <3>5, PassKeepsIInv
  <2>4. CASE CheckDevice(r)
    <3> DEFINE x == [req[r] EXCEPT !.phase = p]
    <3>1. req' = [req EXCEPT ![r] = x] /\ req[r].phase = "device"
          /\ active[Caller(r)] \in {None, req[r].device}
      BY <1>3, <2>4 DEF CheckDevice, Goto
    <3>2. p = (IF req[r].kind = "admin" THEN "role" ELSE "serve") /\ p \in Phase
      BY <3>1 DEF After, Phase, Gate
    <3>3. x \in RequestRecord
      BY <2>1, <3>2, RecordEdits, Growing
    <3>4. x.phase = p /\ x.kind = req[r].kind /\ x.login = req[r].login /\ x.device = req[r].device
          /\ x.own = req[r].own
      BY <2>1 DEF RequestRecord
    <3>5. OnCall(r) /\ req[r].kind \in {"user", "admin"} /\ since[r].device
      BY <2>2, <3>1 DEF OnCall, Gate, RequestCoherent, Noted
    <3> HIDE DEF x, p
    <3> QED BY <1>1, <3>1, <3>2, <3>3, <3>4, <3>5, PassKeepsIInv
  <2>5. CASE CheckRole(r)
    <3> DEFINE x == [req[r] EXCEPT !.phase = p]
    <3>1. req' = [req EXCEPT ![r] = x] /\ req[r].phase = "role" /\ Caller(r) \in admins
      BY <1>3, <2>5 DEF CheckRole, Goto
    <3>2. p = "serve" /\ p \in Phase
      BY <3>1 DEF After, Phase
    <3>3. x \in RequestRecord
      BY <2>1, <3>2, RecordEdits, Growing
    <3>4. x.phase = p /\ x.kind = req[r].kind /\ x.login = req[r].login /\ x.device = req[r].device
          /\ x.own = req[r].own
      BY <2>1 DEF RequestRecord
    <3>5. OnCall(r) /\ (\/ req[r].kind = "admin" /\ since[r].device
                        \/ req[r].kind = "file" /\ ~req[r].own)
      BY <2>2, <3>1 DEF OnCall, Gate, RequestCoherent
    <3>6. since[r].admin
      BY <2>2, <3>1, <3>5 DEF RequestCoherent, Noted
    <3> HIDE DEF x, p
    <3> QED BY <1>1, <3>1, <3>2, <3>3, <3>4, <3>5, <3>6, PassKeepsIInv
  <2>6. CASE Serve(r)
    BY <1>3, <2>6 DEF Serve
  <2> QED BY <2>3, <2>4, <2>5, <2>6
<1> QED BY <1>2, <1>3

-----------------------------------------------------------------------------
\* Sessions that were live and are closed now have been closed for no time, and
\* no exchange is under way for them.
LEMMA CloseKeepsIInv ==
    ASSUME IInv, NEW K \in SUBSET Login, Session!Close(K),
           \A k \in K : state[k] = "live",
           UNCHANGED <<active, admins, bearer, req, closedFor, since>>
    PROVE  IInv'
<1>1. \A k \in Login : state'[k] = IF k \in K THEN "closed" ELSE state[k]
  BY DEF Session!Close
<1>2. TypeOK'
  BY DEF IInv, TypeOK, Session!Close
<1>3. \A k \in Login, a \in Age : Faded(k, a) => Faded(k, a)'
  BY <1>1, Growing DEF IInv, CopiesFade, Faded
<1>4. CopiesFade'
  <2>1. \A d \in Device : bearer[d] # NoToken => bearer[d].login \in Login /\ bearer[d].age \in Age
    BY DEF IInv, TypeOK, AccessToken
  <2> QED BY <1>1, <1>3, <2>1 DEF IInv, CopiesFade
<1>5. ASSUME NEW r \in Request PROVE RequestCoherent(r)'
  <2>1. req[r].age \in Age
    BY DEF IInv, TypeOK, RequestRecord
  <2>2. (req[r].phase # "idle" /\ Faded(req[r].login, req[r].age))
           => Faded(req[r].login, req[r].age)'
    BY <1>3, <2>1 DEF IInv, RequestCoherent, Faded
  <2>3. Exchanging(r) => state'[req[r].login] = state[req[r].login]
    BY <1>1 DEF IInv, RequestCoherent, Exchanging
  <2> QED BY <2>2, <2>3 DEF IInv, RequestCoherent, Exchanging, OnCall, Noted, Caller
<1> QED BY <1>2, <1>4, <1>5 DEF IInv, OneExchange, Exchanging, ServedInGoodStanding

LEMMA CloseSessionsKeepsIInv ==
    ASSUME IInv, NEW u \in User, CloseSessions(u)
    PROVE  IInv'
<1>1. PICK K \in {{k} : k \in Live(u)} \cup {Live(u)} : Session!Close(K)
  BY DEF CloseSessions
<1>2. K \in SUBSET Login /\ \A k \in K : state[k] = "live"
  BY DEF Live
<1> QED BY <1>1, <1>2, CloseKeepsIInv DEF CloseSessions

LEMMA AbortKeepsIInv ==
    ASSUME IInv, NEW r \in Request, Abort(r)
    PROVE  IInv'
<1>1. CASE UNCHANGED state
  BY <1>1, EndKeepsIInv DEF Abort
<1>2. CASE ~UNCHANGED state
  <2> DEFINE k == req[r].login
  <2>1. req' = [req EXCEPT ![r] = Idle] /\ Exchanging(r) /\ state[k] = "rotating"
        /\ Session!Close({k}) /\ UNCHANGED <<active, admins, bearer, closedFor, since>>
    BY <1>2 DEF Abort, Rotating, Exchanging, End
  <2>2. k \in Login
    BY <2>1 DEF IInv, RequestCoherent, Exchanging
  <2>3. \A l \in Login : state'[l] = IF l = k THEN "closed" ELSE state[l]
    BY <2>1 DEF Session!Close
  <2>4. closedFor[k] = 0
    BY <2>1, <2>2 DEF IInv, CopiesFade
  <2>5. TypeOK'
    BY <2>1, IdleIsRecord DEF IInv, TypeOK, Session!Close
  <2>6. \A l \in Login, a \in Age : Faded(l, a) => Faded(l, a)'
    BY <2>1, <2>3, <2>4, Growing DEF Faded
  <2>7. CopiesFade'
    <3>1. \A d \in Device : bearer[d] # NoToken => bearer[d].login \in Login /\ bearer[d].age \in Age
      BY DEF IInv, TypeOK, AccessToken
    <3> QED BY <2>1, <2>3, <2>4, <2>6, <3>1 DEF IInv, CopiesFade
  <2>8. \A q \in Request : req'[q] = IF q = r THEN Idle ELSE req[q]
    BY <2>1 DEF IInv, TypeOK
  <2>9. OneExchange'
    BY <2>8 DEF IInv, OneExchange, Exchanging, Idle
  <2>10. ASSUME NEW q \in Request PROVE RequestCoherent(q)'
    <3>1. CASE q = r
      BY <3>1, <2>8 DEF RequestCoherent, Exchanging, OnCall, Gate, Idle
    <3>2. CASE q # r
      <4>1. req'[q] = req[q] /\ req[q].age \in Age
        BY <3>2, <2>8 DEF IInv, TypeOK, RequestRecord
      <4>2. (req[q].phase # "idle" /\ Faded(req[q].login, req[q].age))
               => Faded(req[q].login, req[q].age)'
        BY <2>6, <4>1 DEF IInv, RequestCoherent, Faded
      <4>3. Exchanging(q) => state'[req[q].login] = state[req[q].login]
        BY <2>1, <2>3, <3>2 DEF IInv, RequestCoherent, OneExchange, Exchanging
      <4> QED BY <2>1, <4>1, <4>2, <4>3 DEF IInv, RequestCoherent, Exchanging, OnCall, Noted, Caller
    <3> QED BY <3>1, <3>2
  <2>11. ServedInGoodStanding'
    BY <2>1, <2>8 DEF IInv, ServedInGoodStanding, Idle
  <2> QED BY <2>5, <2>7, <2>9, <2>10, <2>11 DEF IInv
<1> QED BY <1>1, <1>2

LEMMA ChangeRoleKeepsIInv ==
    ASSUME IInv, NEW u \in User, ChangeRole(u)
    PROVE  IInv'
<1>1. /\ admins' = IF u \in admins THEN admins \ {u} ELSE admins \cup {u}
      /\ since' = [q \in Request |-> IF OnCall(q) /\ Caller(q) = u /\ u \notin admins
                                     THEN [since[q] EXCEPT !.admin = TRUE] ELSE since[q]]
      /\ UNCHANGED <<state, active, bearer, req, closedFor>>
  BY DEF ChangeRole
<1>2. ASSUME NEW q \in Request
      PROVE  /\ since'[q] \in Since /\ since'[q].device = since[q].device
             /\ since[q].admin => since'[q].admin
             /\ OnCall(q) /\ Caller(q) = u /\ u \notin admins => since'[q].admin
  <2>1. since[q] \in Since
    BY DEF IInv, TypeOK
  <2>2. CASE OnCall(q) /\ Caller(q) = u /\ u \notin admins
    <3>1. since'[q] = [since[q] EXCEPT !.admin = TRUE]
      BY <1>1, <2>2
    <3> QED BY <2>1, <3>1 DEF Since
  <2>3. CASE ~(OnCall(q) /\ Caller(q) = u /\ u \notin admins)
    <3>1. since'[q] = since[q]
      BY <1>1, <2>3
    <3> QED BY <2>1, <2>3, <3>1
  <2> QED BY <2>2, <2>3
<1>3. TypeOK' /\ CopiesFade' /\ OneExchange'
  BY <1>1, <1>2 DEF IInv, TypeOK, CopiesFade, Faded, OneExchange, Exchanging
<1>4. ASSUME NEW q \in Request PROVE RequestCoherent(q)'
  <2>1. OnCall(q) => Noted(q)'
    BY <1>1, <1>2 DEF IInv, RequestCoherent, Noted, Caller
  <2> QED BY <1>1, <1>2, <2>1 DEF IInv, RequestCoherent, Exchanging, OnCall, Faded
<1>5. ServedInGoodStanding'
  BY <1>1, <1>2 DEF IInv, ServedInGoodStanding
<1> QED BY <1>3, <1>4, <1>5 DEF IInv

LEMMA TickKeepsIInv ==
    ASSUME IInv, Tick
    PROVE  IInv'
<1>1. UNCHANGED <<state, active, admins, since>>
  BY DEF Tick
<1>2. ASSUME NEW r \in Request
      PROVE  /\ req'[r] \in RequestRecord /\ req'[r].age = Older(req[r].age)
             /\ req'[r].phase = req[r].phase /\ req'[r].kind = req[r].kind
             /\ req'[r].login = req[r].login /\ req'[r].device = req[r].device
             /\ req'[r].own = req[r].own
  <2>1. req[r] \in RequestRecord /\ Older(req[r].age) \in Age
    BY Growing DEF IInv, TypeOK, RequestRecord
  <2>2. req'[r] = [req[r] EXCEPT !.age = Older(req[r].age)]
    BY DEF Tick
  <2>3. req'[r] \in RequestRecord
    BY <2>1, <2>2, AgeEdit
  <2> QED BY <2>1, <2>2, <2>3 DEF RequestRecord
<1>3. ASSUME NEW d \in Device
      PROVE  \/ bearer'[d] = NoToken /\ bearer[d] = NoToken
             \/ /\ bearer[d] \in AccessToken /\ bearer'[d] \in AccessToken
                /\ bearer'[d].login = bearer[d].login /\ bearer'[d].age = Older(bearer[d].age)
  <2>1. bearer'[d] = [bearer[d] EXCEPT !.age = Older(bearer[d].age)]
    BY DEF Tick
  <2>2. CASE bearer[d] = NoToken
    BY <2>1, <2>2 DEF NoToken, Older
  <2>3. CASE bearer[d] \in AccessToken
    BY <2>1, <2>3, Growing DEF AccessToken
  <2> QED BY <2>2, <2>3 DEF IInv, TypeOK
<1>4. ASSUME NEW k \in Login
      PROVE  /\ closedFor'[k] \in Age
             /\ state[k] # "closed" => closedFor'[k] = 0
             /\ state[k] = "closed" => closedFor'[k] = Older(closedFor[k])
  BY Growing DEF Tick, IInv, TypeOK
<1>5. TypeOK'
  <2>1. req' \in [Request -> RequestRecord]
    BY <1>2 DEF Tick
  <2>2. bearer' \in [Device -> AccessToken \cup {NoToken}]
    BY <1>3 DEF Tick
  <2>3. closedFor' \in [Login -> Age]
    BY <1>4 DEF Tick
  <2> QED BY <1>1, <2>1, <2>2, <2>3 DEF IInv, TypeOK
<1>6. \A k \in Login, a \in Age :
         (state[k] = "closed" => a >= closedFor[k]) =>
         (state'[k] = "closed" => Older(a) >= closedFor'[k])
  <2> SUFFICES ASSUME NEW k \in Login, NEW a \in Age, state[k] = "closed" => a >= closedFor[k],
                      state'[k] = "closed"
               PROVE  Older(a) >= closedFor'[k]
    OBVIOUS
  <2>1. closedFor[k] \in Age /\ a >= closedFor[k] /\ closedFor'[k] = Older(closedFor[k])
    BY <1>1, <1>4 DEF IInv, TypeOK
  <2> QED BY <2>1, Growing
<1>7. CopiesFade'
  <2>1. ASSUME NEW d \in Device, bearer'[d] # NoToken PROVE Faded(bearer[d].login, bearer[d].age)'
    <3>1. bearer[d] \in AccessToken /\ bearer[d] # NoToken
          /\ bearer'[d].login = bearer[d].login /\ bearer'[d].age = Older(bearer[d].age)
      BY <1>3, <2>1 DEF AccessToken, NoToken
    <3>2. bearer[d].login \in Login /\ bearer[d].age \in Age /\ Faded(bearer[d].login, bearer[d].age)
      BY <3>1 DEF IInv, CopiesFade, AccessToken
    <3> QED BY <1>6, <3>1, <3>2 DEF Faded
  <2> QED BY <1>1, <1>4, <2>1 DEF CopiesFade
<1>8. OneExchange' /\ ServedInGoodStanding'
  BY <1>1, <1>2 DEF IInv, OneExchange, Exchanging, ServedInGoodStanding
<1>9. ASSUME NEW r \in Request PROVE RequestCoherent(r)'
  <2>1. req[r].age \in Age
    BY DEF IInv, TypeOK, RequestRecord
  <2>2. (req[r].phase # "idle" /\ Faded(req[r].login, req[r].age))
           => Faded(req[r].login, req[r].age)'
    BY <1>2, <1>6, <2>1 DEF IInv, RequestCoherent, Faded
  <2> QED BY <1>1, <1>2, <2>2
        DEF IInv, RequestCoherent, Exchanging, OnCall, Noted, Caller
<1> QED BY <1>5, <1>7, <1>8, <1>9 DEF IInv

-----------------------------------------------------------------------------
LEMMA NextKeepsIInv == IInv /\ [Next]_vars => IInv'
<1> SUFFICES ASSUME IInv, [Next]_vars PROVE IInv'
  OBVIOUS
<1>1. ASSUME NEW r \in Request, NEW k \in Login, SendLogin(r, k) \/ SendRefresh(r, k) PROVE IInv'
  BY <1>1, SendKeepsIInv
<1>2. ASSUME NEW r \in Request, NEW d \in Device, NEW route \in Route, Arrive(r, d, route) PROVE IInv'
  BY <1>2, ArriveKeepsIInv
<1>3. ASSUME NEW r \in Request, ServerStep(r) PROVE IInv'
  BY <1>3, SignKeepsIInv, StoreKeepsIInv, BindKeepsIInv, ReplyKeepsIInv, CheckKeepsIInv DEF ServerStep
<1>4. ASSUME NEW r \in Request, Abort(r) PROVE IInv'
  BY <1>4, AbortKeepsIInv
<1>5. ASSUME NEW u \in User, CloseSessions(u) \/ ChangeRole(u) PROVE IInv'
  BY <1>5, CloseSessionsKeepsIInv, ChangeRoleKeepsIInv
<1>6. CASE UNCHANGED vars
  BY <1>6 DEF vars, IInv, TypeOK, CopiesFade, Faded, OneExchange, Exchanging, RequestCoherent,
     OnCall, Noted, Caller, ServedInGoodStanding
<1> QED BY <1>1, <1>2, <1>3, <1>4, <1>5, <1>6, TickKeepsIInv DEF Next

LEMMA Invariance == Spec => []IInv
  BY InitIInv, NextKeepsIInv, PTL DEF Spec

\* Every variable keeps its type: tokens, requests and what is noted of them.
THEOREM AccessTypeOK == Spec => []TypeOK
<1>1. IInv => TypeOK
  BY DEF IInv
<1> QED BY <1>1, Invariance, PTL

\* Whatever logins elsewhere and demotions do between the checks of a request,
\* its handler runs only for a caller who was entitled to it at some moment
\* since the request arrived.
THEOREM ServedInGoodStandingHolds == Spec => []ServedInGoodStanding
<1>1. IInv => ServedInGoodStanding
  BY DEF IInv
<1> QED BY <1>1, Invariance, PTL

\* A token of a closed login is as old as the closing, in the hands of a device
\* or in flight, so that a request is let past RequireAccessToken only while
\* the login has been closed for less than the life of a token.
THEOREM ClosedSessionFadesHolds == Spec => ClosedSessionFades
<1>1. IInv /\ [Next]_vars =>
        [\A r \in Request :
            (/\ req[r].phase = "token" /\ Passed(r)'
             /\ state[req[r].login] = "closed")
            => closedFor[req[r].login] < TTL]_vars
  <2> SUFFICES ASSUME IInv, Next, NEW r \in Request, req[r].phase = "token", Passed(r)',
                      state[req[r].login] = "closed"
               PROVE  closedFor[req[r].login] < TTL
    BY DEF vars
  <2>1. CheckToken(r)
    <3>2. ~(\E q \in Request, k \in Login : SendLogin(q, k) \/ SendRefresh(q, k))
      <4> SUFFICES ASSUME NEW q \in Request, NEW k \in Login, SendLogin(q, k) \/ SendRefresh(q, k)
                   PROVE  FALSE
        OBVIOUS
      <4>1. req[q] = Idle /\ \A p \in Request : p # q => req'[p] = req[p]
        BY DEF SendLogin, SendRefresh, Begin, IInv, TypeOK
      <4> QED BY <4>1 DEF Passed, Idle
    <3>3. ~(\E q \in Request, d \in Device, route \in Route : Arrive(q, d, route))
      <4> SUFFICES ASSUME NEW q \in Request, NEW d \in Device, NEW route \in Route, Arrive(q, d, route)
                   PROVE  FALSE
        OBVIOUS
      <4>1. req[q] = Idle /\ \A p \in Request : p # q => req'[p] = req[p]
        BY DEF Arrive, IInv, TypeOK
      <4> QED BY <4>1 DEF Passed, Idle
    <3>4. ASSUME NEW q \in Request, ServerStep(q) PROVE q = r
      <4>1. \A p \in Request : p # q => req'[p] = req[p]
        BY <3>4 DEF ServerStep, Sign, Store, Bind, Reply, CheckToken, CheckDevice, CheckRole, Serve,
           Goto, End, IInv, TypeOK
      <4> QED BY <4>1 DEF Passed
    <3>5. ~(\E q \in Request : Abort(q))
      <4> SUFFICES ASSUME NEW q \in Request, Abort(q) PROVE FALSE
        OBVIOUS
      <4>1. \A p \in Request : req'[p] = req[p] \/ req'[p] = Idle
        BY DEF Abort, End, IInv, TypeOK
      <4> QED BY <4>1 DEF Passed, Idle
    <3>6. ~(\E u \in User : CloseSessions(u) \/ ChangeRole(u))
      BY DEF CloseSessions, ChangeRole, Passed
    <3>7. ~Tick
      <4> SUFFICES ASSUME Tick PROVE FALSE
        OBVIOUS
      <4>1. req[r] \in RequestRecord /\ req'[r] = [req[r] EXCEPT !.age = Older(req[r].age)]
        BY DEF Tick, IInv, TypeOK
      <4>2. req'[r].phase = req[r].phase
        BY <4>1 DEF RequestRecord
      <4> QED BY <4>2 DEF Passed
    <3>8. ServerStep(r)
      BY <3>2, <3>3, <3>4, <3>5, <3>6, <3>7 DEF Next
    <3> QED BY <3>8 DEF ServerStep, Sign, Store, Bind, Reply, CheckDevice, CheckRole, Serve
  <2>2. req[r].age < TTL
    BY <2>1 DEF CheckToken, End, Passed, Idle, IInv, TypeOK
  <2>3. req[r].age \in Nat /\ closedFor[req[r].login] \in Nat /\ req[r].age >= closedFor[req[r].login]
    BY DEF IInv, TypeOK, RequestCoherent, Faded, RequestRecord, Age
  <2> QED BY <2>2, <2>3
<1> QED BY <1>1, Invariance, PTL DEF Spec, ClosedSessionFades

=============================================================================
