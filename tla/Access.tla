------------------------------- MODULE Access -------------------------------
(***************************************************************************)
(* Who is let through to a handler.  A login or a refresh hands the device *)
(* an access token, which carries its own expiry and is stored nowhere;    *)
(* the middleware checks the token, then the active device of the account, *)
(* then, for the admin surface, the role, each read by a statement of its  *)
(* own while logins, logouts and demotions go on.                          *)
(*                                                                         *)
(* The sessions behind the tokens are those of SessionLifecycle, which     *)
(* Sessions implements.  Devices are honest: they send their own           *)
(* fingerprint or none, and the latest token they received.                *)
(***************************************************************************)
EXTENDS Naturals

CONSTANTS
    User,
    Device,
    Login,      \* the logins that may be made
    Owner,      \* the account of each login
    Home,       \* the device of each login
    Request,    \* slots for requests in flight
    Call,       \* those of them that calls take, logins and refreshes the rest
    TTL,        \* life of an access token, in ticks of time
    None

ASSUME NoneAssumption == None \notin Device \cup Login
ASSUME LoginAssumption == /\ Owner \in [Login -> User]
                          /\ Home \in [Login -> Device]
ASSUME CallAssumption == Call \subseteq Request
ASSUME TTLAssumption == TTL \in Nat \ {0}

VARIABLES
    state,      \* the life cycle of each login
    active,     \* column users.active_device_fingerprint
    admins,     \* the users whose role is admin
    bearer,     \* the access token each device holds
    req,        \* the requests in flight
    closedFor,  \* history: for how long a login has been closed
    since       \* history: what a call could have found since it arrived: its
                \* device the active one, its caller an admin

vars == <<state, active, admins, bearer, req, closedFor, since>>

Session == INSTANCE SessionLifecycle

-----------------------------------------------------------------------------
\* Ages stop at TTL: older tokens are all the same.
Age == 0..TTL
Older(a) == IF a < TTL THEN a + 1 ELSE a

AccessToken == [login : Login, age : Age]
NoToken == [login |-> None, age |-> TTL]

Exchange == {"sign", "store", "bind", "reply"}
Gate == {"token", "device", "role"}
Phase == {"idle", "serve"} \cup Exchange \cup Gate

\* "device" is the fingerprint in the body of a login or in the header of a call,
\* "own" whether a file asked for is the caller's.
RequestRecord ==
    [phase : Phase, kind : {"none", "login", "refresh", "user", "admin", "file"},
     login : Login \cup {None}, age : Age, device : Device \cup {None}, own : BOOLEAN]
Idle == [phase |-> "idle", kind |-> "none", login |-> None, age |-> TTL, device |-> None, own |-> FALSE]

Since == [device : BOOLEAN, admin : BOOLEAN]
NoSince == [device |-> FALSE, admin |-> FALSE]

Goto(r, p) == req' = [req EXCEPT ![r].phase = p]
End(r) == req' = [req EXCEPT ![r] = Idle]

InFlight(k, kind) == \E r \in Request : req[r].login = k /\ req[r].kind = kind
OnCall(r) == req[r].phase \in Gate \cup {"serve"}
Passed(r) == req[r].phase \in {"device", "role", "serve"}
Caller(r) == Owner[req[r].login]

Init ==
    /\ state = [k \in Login |-> "none"]
    /\ active = [u \in User |-> None]
    /\ admins \in SUBSET User
    /\ bearer = [d \in Device |-> NoToken]
    /\ req = [r \in Request |-> Idle]
    /\ closedFor = [k \in Login |-> 0]
    /\ since = [r \in Request |-> NoSince]

-----------------------------------------------------------------------------
(* Login and refresh, as far as access tokens go *)

Begin(r, kind, k, d) ==
    req' = [req EXCEPT ![r] = [phase |-> "sign", kind |-> kind, login |-> k, age |-> TTL,
                              device |-> d, own |-> FALSE]]

\* The credentials were right; the body may name the device or not.
SendLogin(r, k) ==
    /\ r \notin Call /\ req[r] = Idle
    /\ state[k] = "none"
    /\ ~InFlight(k, "login")
    /\ \E d \in {Home[k], None} : Begin(r, "login", k, d)
    /\ UNCHANGED <<state, active, admins, bearer, closedFor, since>>

\* Mutant of SendRefresh: a revoked token still buys an access token.
SendRefreshUnchecked(r, k) ==
    /\ r \notin Call /\ req[r] = Idle
    /\ \/ Session!BeginRotation(k) /\ Begin(r, "refresh", k, None)
       \/ /\ state[k] = "closed"
          /\ req' = [req EXCEPT ![r] = [Idle EXCEPT !.phase = "reply", !.kind = "refresh",
                                                   !.login = k, !.age = 0]]
          /\ UNCHANGED state
    /\ UNCHANGED <<active, admins, bearer, closedFor, since>>

\* The presented token was found active and its row revoked; a refresh that
\* does not get as far receives no access token.
SendRefresh(r, k) ==
    /\ r \notin Call /\ req[r] = Idle
    /\ Session!BeginRotation(k)
    /\ Begin(r, "refresh", k, None)
    /\ UNCHANGED <<active, admins, bearer, closedFor, since>>

\* GenerateAccessToken.
Sign(r) ==
    /\ req[r].phase = "sign"
    /\ req' = [req EXCEPT ![r].phase = "store", ![r].age = 0]
    /\ UNCHANGED <<state, active, admins, bearer, closedFor, since>>

\* The row of the refresh token is stored; a refresh names no device.
Store(r) ==
    /\ req[r].phase = "store"
    /\ \/ req[r].kind = "login" /\ Session!Open(req[r].login)
       \/ req[r].kind = "refresh" /\ Session!EndRotation(req[r].login)
    /\ Goto(r, IF req[r].device = None THEN "reply" ELSE "bind")
    /\ UNCHANGED <<active, admins, bearer, closedFor, since>>

\* Mutant of Bind: the wrong column is passed on.
BindLogin(r) ==
    /\ req[r].phase = "bind"
    /\ active' = [active EXCEPT ![Caller(r)] = req[r].login]
    /\ Goto(r, "reply")
    /\ UNCHANGED <<state, admins, bearer, closedFor, since>>

\* UpdateActiveDeviceFingerprint.
Bind(r) ==
    LET u == Caller(r)  d == req[r].device IN
    /\ req[r].phase = "bind"
    /\ active' = [active EXCEPT ![u] = d]
    /\ since' = [q \in Request |-> IF OnCall(q) /\ Caller(q) = u /\ req[q].device = d
                                   THEN [since[q] EXCEPT !.device = TRUE] ELSE since[q]]
    /\ Goto(r, "reply")
    /\ UNCHANGED <<state, admins, bearer, closedFor>>

Reply(r) ==
    /\ req[r].phase = "reply"
    /\ bearer' = [bearer EXCEPT ![Home[req[r].login]] = [login |-> req[r].login, age |-> req[r].age]]
    /\ End(r)
    /\ UNCHANGED <<state, active, admins, closedFor, since>>

-----------------------------------------------------------------------------
(* RequireAccessToken, RequireAdmin, serveProtectedFile *)

\* The routes are those of the router: behind the device check, behind the role
\* too, or a protected file.
Route == [kind : {"user", "admin"}, device : Device \cup {None}, own : {FALSE}]
             \cup [kind : {"file"}, device : {None}, own : BOOLEAN]

\* A device calls with the token it holds.
Arrive(r, d, route) ==
    LET u == Owner[bearer[d].login] IN
    /\ r \in Call /\ req[r] = Idle
    /\ bearer[d] # NoToken
    /\ route.device \in {d, None}
    /\ req' = [req EXCEPT ![r] = [phase |-> "token", kind |-> route.kind, device |-> route.device,
                                  own |-> route.own, login |-> bearer[d].login,
                                  age |-> bearer[d].age]]
    /\ since' = [since EXCEPT ![r] = [device |-> active[u] \in {None, route.device},
                                      admin |-> u \in admins]]
    /\ UNCHANGED <<state, active, admins, bearer, closedFor>>

\* Mutant of After: the admin routes are mounted without RequireAdmin.
AfterNoRole(r) ==
    CASE req[r].phase = "token" -> IF req[r].kind # "file" THEN "device"
                                   ELSE IF req[r].own THEN "serve" ELSE "role"
      [] OTHER -> "serve"

\* The next check of the route, or its handler.
After(r) ==
    CASE req[r].phase = "token" -> IF req[r].kind # "file" THEN "device"
                                   ELSE IF req[r].own THEN "serve" ELSE "role"
      [] req[r].phase = "device" -> IF req[r].kind = "admin" THEN "role" ELSE "serve"
      [] req[r].phase = "role" -> "serve"

\* ParseAccessToken: signed by this service, and not expired; the token is not
\* looked at again.
CheckToken(r) ==
    /\ req[r].phase = "token"
    /\ IF req[r].age < TTL
       THEN req' = [req EXCEPT ![r].phase = After(r), ![r].age = TTL]
       ELSE End(r)
    /\ UNCHANGED <<state, active, admins, bearer, closedFor, since>>

\* The account's device as it is now; an account that never named one lets
\* every device pass.
CheckDevice(r) ==
    /\ req[r].phase = "device"
    /\ IF active[Caller(r)] \in {None, req[r].device} THEN Goto(r, After(r)) ELSE End(r)
    /\ UNCHANGED <<state, active, admins, bearer, closedFor, since>>

\* GetRole, read fresh.
CheckRole(r) ==
    /\ req[r].phase = "role"
    /\ IF Caller(r) \in admins THEN Goto(r, After(r)) ELSE End(r)
    /\ UNCHANGED <<state, active, admins, bearer, closedFor, since>>

\* The handler returns.
Serve(r) ==
    /\ req[r].phase = "serve"
    /\ End(r)
    /\ UNCHANGED <<state, active, admins, bearer, closedFor, since>>

-----------------------------------------------------------------------------
(* What ends sessions, and the world around *)

Rotating(r) == req[r].kind = "refresh" /\ req[r].phase \in {"sign", "store"}

\* A statement fails, the client hangs up or the process dies.  A rotation that
\* does not get to store the next token has closed its login.
Abort(r) ==
    /\ req[r] # Idle
    /\ IF Rotating(r) /\ state[req[r].login] = "rotating"
       THEN Session!Close({req[r].login}) ELSE UNCHANGED state
    /\ End(r)
    /\ UNCHANGED <<active, admins, bearer, closedFor, since>>

Live(u) == {k \in Login : Owner[k] = u /\ state[k] = "live"}

\* Logout closes one login, the theft response all of an account.
CloseSessions(u) ==
    /\ Live(u) # {}
    /\ \E K \in {{k} : k \in Live(u)} \cup {Live(u)} : Session!Close(K)
    /\ UNCHANGED <<active, admins, bearer, req, closedFor, since>>

\* Roles are changed in the database, by hand.
ChangeRole(u) ==
    /\ admins' = IF u \in admins THEN admins \ {u} ELSE admins \cup {u}
    /\ since' = [q \in Request |-> IF OnCall(q) /\ Caller(q) = u /\ u \notin admins
                                   THEN [since[q] EXCEPT !.admin = TRUE] ELSE since[q]]
    /\ UNCHANGED <<state, active, bearer, req, closedFor>>

Tick ==
    /\ bearer' = [d \in Device |-> [bearer[d] EXCEPT !.age = Older(@)]]
    /\ req' = [r \in Request |-> [req[r] EXCEPT !.age = Older(@)]]
    /\ closedFor' = [k \in Login |-> IF state[k] = "closed" THEN Older(closedFor[k]) ELSE 0]
    /\ UNCHANGED <<state, active, admins, since>>

-----------------------------------------------------------------------------
ServerStep(r) ==
    \/ Sign(r) \/ Store(r) \/ Bind(r) \/ Reply(r)
    \/ CheckToken(r) \/ CheckDevice(r) \/ CheckRole(r) \/ Serve(r)

Next ==
    \/ \E r \in Request :
         \/ \E k \in Login : SendLogin(r, k) \/ SendRefresh(r, k)
         \/ \E d \in Device, route \in Route : Arrive(r, d, route)
         \/ ServerStep(r) \/ Abort(r)
    \/ \E u \in User : CloseSessions(u) \/ ChangeRole(u)
    \/ Tick

Spec == Init /\ [][Next]_vars

-----------------------------------------------------------------------------
(* Properties *)

\* Every variable keeps its type.
TypeOK ==
    /\ state \in [Login -> {"none", "live", "rotating", "closed"}]
    /\ active \in [User -> Device \cup {None}]
    /\ admins \subseteq User
    /\ bearer \in [Device -> AccessToken \cup {NoToken}]
    /\ req \in [Request -> RequestRecord]
    /\ closedFor \in [Login -> Age]
    /\ since \in [Request -> Since]

\* An access token outlives its session by less than its own life: once a login
\* has been closed for that long, by a logout, a theft response or a rotation
\* that died, no token of it passes RequireAccessToken, whatever exchange or
\* reply was still under way when it was closed.
ClosedSessionFades ==
    [][\A r \in Request :
          (/\ req[r].phase = "token" /\ Passed(r)'
           /\ state[req[r].login] = "closed")
          => closedFor[req[r].login] < TTL]_vars

\* Whoever is being served was entitled to it at some moment since the call
\* arrived, however logins elsewhere and demotions interleave with the checks:
\* the calling device was the active one, and the caller an admin where that is
\* asked for ("a demotion takes effect immediately").
ServedInGoodStanding ==
    \A r \in Request : req[r].phase = "serve" =>
        /\ req[r].kind # "file" => since[r].device
        /\ req[r].kind = "admin" \/ (req[r].kind = "file" /\ ~req[r].own) => since[r].admin
=============================================================================
