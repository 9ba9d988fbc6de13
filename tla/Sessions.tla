------------------------------ MODULE Sessions ------------------------------
(***************************************************************************)
(* Refresh-token sessions: login, token rotation with reuse detection,     *)
(* logout and the single active device of an account.                      *)
(*                                                                         *)
(* An HTTP request is a goroutine that issues one SQL statement after      *)
(* another, each of them atomic and none of them in a transaction with the *)
(* next, so a request is a record with a phase and every statement is an   *)
(* action of its own.  Requests of all devices interleave freely.          *)
(*                                                                         *)
(* Every device of this model is honest: it only presents the refresh      *)
(* cookie its own jar holds when the request is sent.                      *)
(***************************************************************************)
EXTENDS Naturals, FiniteSets

CONSTANTS
    User,       \* accounts that may log in
    Device,     \* browsers: each has a fingerprint and a refresh-cookie jar
    Request,    \* slots for requests in flight
    Token,      \* refresh tokens that can be minted (the bound on logins and rotations)
    None,       \* SQL NULL, an empty cookie jar, an empty fingerprint
    Faults      \* TRUE: statements may fail, replies may be lost, the server may crash

ASSUME NoneAssumption == None \notin User \cup Device \cup Token
ASSUME FaultsAssumption == Faults \in BOOLEAN

VARIABLES
    rows,           \* table refresh_tokens, by token
    activeDevice,   \* column users.active_device_fingerprint
    devices,        \* table user_devices
    upserts,        \* detached upsertDeviceAsync goroutines
    jar,            \* the refresh cookie each device holds
    req             \* the requests in flight

vars == <<rows, activeDevice, devices, upserts, jar, req>>

-----------------------------------------------------------------------------
(* Types and null values *)

\* A row of refresh_tokens.  "login" and "device" are history: the token that
\* the login at the start of this chain of rotations minted, and the device
\* that logged in.
Row == [user : User, revoked : BOOLEAN, expired : BOOLEAN, login : Token, device : Device]
NoRow == [user |-> None]

Phase == {"idle", "authenticate", "find", "revoke", "theft", "create", "device", "ok", "failed"}

\* "token" is the token presented, "user" the account acted for, "fingerprint"
\* the one in the login body (empty for a refresh), "new" the token minted.
RequestRecord ==
    [phase : Phase, kind : {"none", "login", "refresh", "logout"},
     device : Device \cup {None}, user : User \cup {None},
     token : Token \cup {None}, fingerprint : Device \cup {None}, new : Token \cup {None}]

Started(phase, kind, d, u, t, fp) ==
    [phase |-> phase, kind |-> kind, device |-> d, user |-> u,
     token |-> t, fingerprint |-> fp, new |-> None]
Idle == Started("idle", "none", None, None, None, None)

Issued == {t \in Token : rows[t] # NoRow}
Live(t) == rows[t] # NoRow /\ ~rows[t].revoked
IsActive(t) == ~rows[t].revoked /\ ~rows[t].expired

\* A rotation that has spent the presented token and not yet stored the next.
Rotating(r) == req[r].phase = "create" /\ req[r].kind = "refresh"

\* Bound: a login or a refresh is only sent while a token is left for it.
Minting == {r \in Request : /\ req[r].kind \in {"login", "refresh"}
                            /\ req[r].new = None}
Room == Cardinality(Minting) < Cardinality(Token \ Issued)

\* The phases a statement may leave a request in: the one the code goes to
\* and, where statements may fail, the error reply.
Outcome(p) == IF Faults THEN {p, "failed"} ELSE {p}

-----------------------------------------------------------------------------
Init ==
    /\ rows = [t \in Token |-> NoRow]
    /\ activeDevice = [u \in User |-> None]
    /\ devices = {}
    /\ upserts = {}
    /\ jar = [d \in Device |-> None]
    /\ req = [r \in Request |-> Idle]

(* Requests a device sends *)

SendLogin(r, d, u, fp) ==
    /\ req[r] = Idle
    /\ Room
    /\ req' = [req EXCEPT ![r] = Started("authenticate", "login", d, u, None, fp)]
    /\ UNCHANGED <<rows, activeDevice, devices, upserts, jar>>

\* The handler answers a refresh without a cookie by itself; only the others
\* reach the service.
SendRefresh(r, d) ==
    /\ req[r] = Idle
    /\ jar[d] # None
    /\ Room
    /\ req' = [req EXCEPT ![r] = Started("find", "refresh", d, None, jar[d], None)]
    /\ UNCHANGED <<rows, activeDevice, devices, upserts, jar>>

SendLogout(r, d) ==
    /\ req[r] = Idle
    /\ req' = [req EXCEPT ![r] = Started(IF jar[d] = None THEN "ok" ELSE "find", "logout",
                                         d, None, jar[d], None)]
    /\ UNCHANGED <<rows, activeDevice, devices, upserts, jar>>

-----------------------------------------------------------------------------
(* Login, AdminLogin, GoogleLogin *)

\* Mutant of Authenticate: the device is bound to the account before, and
\* whether or not, a session row is written.
AuthenticateBindsFirst(r) ==
    /\ req[r].phase = "authenticate"
    /\ \E p \in {IF req[r].fingerprint = None THEN "create" ELSE "device", "failed"} :
         req' = [req EXCEPT ![r].phase = p]
    /\ UNCHANGED <<rows, activeDevice, devices, upserts, jar>>

\* Credentials, verified email and, for the admin console, the role are
\* checked before anything is written: whatever the reason, a refusal ends
\* the request.
Authenticate(r) ==
    /\ req[r].phase = "authenticate"
    /\ \E p \in {"create", "failed"} : req' = [req EXCEPT ![r].phase = p]
    /\ UNCHANGED <<rows, activeDevice, devices, upserts, jar>>

\* Mutant of CreateRow: a refresh stores what its own body says of the device,
\* which is nothing.
CreateRowFromBody(r, t) ==
    [user |-> req[r].user, revoked |-> FALSE, expired |-> FALSE,
     login |-> IF req[r].kind = "login" THEN t ELSE rows[req[r].token].login,
     device |-> IF req[r].kind = "login" THEN req[r].device ELSE req[r].fingerprint]

\* INSERT INTO refresh_tokens.  The random jti makes the new token differ
\* from every stored one.
CreateRow(r, t) ==
    IF req[r].kind = "login"
    THEN [user |-> req[r].user, revoked |-> FALSE, expired |-> FALSE,
          login |-> t, device |-> req[r].device]
    ELSE [user |-> req[r].user, revoked |-> FALSE, expired |-> FALSE,
          login |-> rows[req[r].token].login, device |-> rows[req[r].token].device]

\* Mutant of IssueToken: an insert that fails is swallowed and the token handed
\* out all the same.
IssueTokenUnsaved(r) ==
    /\ req[r].phase = "create"
    /\ \E t \in Token \ Issued :
         /\ \/ rows' = [rows EXCEPT ![t] = CreateRow(r, t)]
            \/ UNCHANGED rows
         /\ req' = [req EXCEPT ![r].phase = IF req[r].fingerprint = None THEN "ok" ELSE "device",
                               ![r].new = t]
    /\ UNCHANGED <<activeDevice, devices, upserts, jar>>

\* issueTokenPair up to the insert.  A refresh passes no fingerprint, so only
\* a login goes on to the active device.
IssueToken(r) ==
    /\ req[r].phase = "create"
    /\ \E t \in Token \ Issued :
         /\ rows' = [rows EXCEPT ![t] = CreateRow(r, t)]
         /\ \E p \in Outcome(IF req[r].fingerprint = None THEN "ok" ELSE "device") :
              req' = [req EXCEPT ![r].phase = p, ![r].new = t]
    /\ UNCHANGED <<activeDevice, devices, upserts, jar>>

\* UpdateActiveDeviceFingerprint, and the goroutine that is started when it
\* succeeded.
SetActiveDevice(r) ==
    /\ req[r].phase = "device"
    /\ activeDevice' = [activeDevice EXCEPT ![req[r].user] = req[r].fingerprint]
    /\ \E p \in Outcome("ok") :
         /\ req' = [req EXCEPT ![r].phase = p]
         /\ upserts' = IF p = "ok" THEN upserts \cup {<<req[r].user, req[r].fingerprint>>}
                                   ELSE upserts
    /\ UNCHANGED <<rows, devices, jar>>

\* Mutant of UpsertDevice: the insert runs under a context that has already
\* been cancelled with the request.
UpsertDeviceCancelled(u, d) ==
    /\ <<u, d>> \in upserts
    /\ upserts' = upserts \ {<<u, d>>}
    /\ UNCHANGED <<rows, activeDevice, devices, jar, req>>

\* upsertDeviceAsync: its own five-second context, an error is only logged.
UpsertDevice(u, d) ==
    /\ <<u, d>> \in upserts
    /\ upserts' = upserts \ {<<u, d>>}
    /\ \/ devices' = devices \cup {<<u, d>>}
       \/ Faults /\ UNCHANGED devices
    /\ UNCHANGED <<rows, activeDevice, jar, req>>

-----------------------------------------------------------------------------
(* Refresh *)

\* FindByTokenHash and the checks on the row it returned, up to the lookup of
\* the user: what was read here is acted on in a later step.
FindForRefresh(r) ==
    LET t == req[r].token IN
    /\ req[r].phase = "find"
    /\ req[r].kind = "refresh"
    /\ \E p \in Outcome(IF rows[t].revoked THEN "theft"
                        ELSE IF IsActive(t) THEN "revoke" ELSE "failed") :
         req' = [req EXCEPT ![r].phase = p, ![r].user = rows[t].user]
    /\ UNCHANGED <<rows, activeDevice, devices, upserts, jar>>

\* Mutants of RevokeForRefresh: the number of rows changed is not looked at;
\* the presented token is not revoked at all.
RevokeUnchecked(r) ==
    /\ req[r].phase = "revoke"
    /\ req[r].kind = "refresh"
    /\ rows' = [rows EXCEPT ![req[r].token].revoked = TRUE]
    /\ \E p \in Outcome("create") : req' = [req EXCEPT ![r].phase = p]
    /\ UNCHANGED <<activeDevice, devices, upserts, jar>>

RevokeForgotten(r) ==
    /\ req[r].phase = "revoke"
    /\ req[r].kind = "refresh"
    /\ req' = [req EXCEPT ![r].phase = IF rows[req[r].token].revoked THEN "theft" ELSE "create"]
    /\ UNCHANGED <<rows, activeDevice, devices, upserts, jar>>

\* Revoke of the presented token: UPDATE ... WHERE id AND revoked_at IS NULL.
\* The request that did not change the row takes the theft response.
RevokeForRefresh(r) ==
    LET t == req[r].token IN
    /\ req[r].phase = "revoke"
    /\ req[r].kind = "refresh"
    /\ rows' = [rows EXCEPT ![t].revoked = TRUE]
    /\ \E p \in Outcome(IF rows[t].revoked THEN "theft" ELSE "create") :
         req' = [req EXCEPT ![r].phase = p]
    /\ UNCHANGED <<activeDevice, devices, upserts, jar>>

\* Mutant of RevokedFor: the theft response only takes the rows of the login
\* it started from, which are spent already.
RevokedNothing(u) ==
    [t \in Token |-> IF rows[t].user = u /\ rows[t].expired
                     THEN [rows[t] EXCEPT !.revoked = TRUE] ELSE rows[t]]

RevokedFor(u) ==
    [t \in Token |-> IF rows[t].user = u THEN [rows[t] EXCEPT !.revoked = TRUE] ELSE rows[t]]

\* RevokeAllForUser: an error is logged, the answer is the same 401.
RevokeAllForUser(r) ==
    /\ req[r].phase = "theft"
    /\ \/ rows' = RevokedFor(req[r].user)
       \/ Faults /\ UNCHANGED rows
    /\ req' = [req EXCEPT ![r].phase = "failed"]
    /\ UNCHANGED <<activeDevice, devices, upserts, jar>>

-----------------------------------------------------------------------------
(* Logout *)

FindForLogout(r) ==
    /\ req[r].phase = "find"
    /\ req[r].kind = "logout"
    /\ \E p \in {"revoke"} \cup (IF Faults THEN {"ok"} ELSE {}) : req' = [req EXCEPT ![r].phase = p]
    /\ UNCHANGED <<rows, activeDevice, devices, upserts, jar>>

\* The same conditional update; whether it changed the row, and even whether
\* it succeeded, makes no difference to the reply.
RevokeForLogout(r) ==
    /\ req[r].phase = "revoke"
    /\ req[r].kind = "logout"
    /\ \/ rows' = [rows EXCEPT ![req[r].token].revoked = TRUE]
       \/ Faults /\ UNCHANGED rows
    /\ req' = [req EXCEPT ![r].phase = "ok"]
    /\ UNCHANGED <<activeDevice, devices, upserts, jar>>

-----------------------------------------------------------------------------
(* Replies, failures and time *)

\* A statement returns an error before it changed anything.
FailStatement(r) ==
    /\ Faults
    /\ req[r].kind \in {"login", "refresh"}
    /\ req[r].phase \in {"find", "revoke", "create", "device"}
    /\ req' = [req EXCEPT ![r].phase = "failed"]
    /\ UNCHANGED <<rows, activeDevice, devices, upserts, jar>>

\* The Set-Cookie header of the reply reaches the device: respondWithSession
\* stores the new token, a failed refresh and every logout clear the cookie,
\* a failed login leaves it alone.
SetCookie(r) ==
    CASE req[r].phase = "ok" /\ req[r].kind \in {"login", "refresh"} -> req[r].new
      [] req[r].kind = "login" -> jar[req[r].device]
      [] OTHER -> None

Reply(r) ==
    /\ req[r].phase \in {"ok", "failed"}
    /\ jar' = [jar EXCEPT ![req[r].device] = SetCookie(r)]
    /\ req' = [req EXCEPT ![r] = Idle]
    /\ UNCHANGED <<rows, activeDevice, devices, upserts>>

LoseReply(r) ==
    /\ Faults
    /\ req[r].phase \in {"ok", "failed"}
    /\ req' = [req EXCEPT ![r] = Idle]
    /\ UNCHANGED <<rows, activeDevice, devices, upserts, jar>>

\* The process dies: requests and goroutines in flight are gone, rows stay.
Crash ==
    /\ Faults
    /\ \E r \in Request : req[r] # Idle
    /\ req' = [r \in Request |-> Idle]
    /\ upserts' = {}
    /\ UNCHANGED <<rows, activeDevice, devices, jar>>

\* expires_at passes.
Expire(t) ==
    /\ Live(t)
    /\ ~rows[t].expired
    /\ rows' = [rows EXCEPT ![t].expired = TRUE]
    /\ UNCHANGED <<activeDevice, devices, upserts, jar, req>>

-----------------------------------------------------------------------------
ServerStep(r) ==
    \/ Authenticate(r)
    \/ IssueToken(r)
    \/ SetActiveDevice(r)
    \/ FindForRefresh(r)
    \/ RevokeForRefresh(r)
    \/ RevokeAllForUser(r)
    \/ FindForLogout(r)
    \/ RevokeForLogout(r)
    \/ Reply(r)

Send(r) ==
    \E d \in Device :
        \/ \E u \in User, fp \in {d, None} : SendLogin(r, d, u, fp)
        \/ SendRefresh(r, d)
        \/ SendLogout(r, d)

Next ==
    \/ \E r \in Request : Send(r) \/ ServerStep(r) \/ FailStatement(r) \/ LoseReply(r)
    \/ \E u \in User, d \in Device : UpsertDevice(u, d)
    \/ \E t \in Token : Expire(t)
    \/ Crash

Spec == Init /\ [][Next]_vars

\* A goroutine that is runnable runs, and a statement returns; nobody is
\* obliged to send a request, and time needs not pass.
Fairness ==
    /\ \A r \in Request : WF_vars(ServerStep(r))
    /\ \A u \in User, d \in Device : WF_vars(UpsertDevice(u, d))

FairSpec == Spec /\ Fairness

-----------------------------------------------------------------------------
(* Properties *)

\* Every variable keeps its type.
TypeOK ==
    /\ rows \in [Token -> Row \cup {NoRow}]
    /\ activeDevice \in [User -> Device \cup {None}]
    /\ devices \subseteq User \X Device
    /\ upserts \subseteq User \X Device
    /\ jar \in [Device -> Token \cup {None}]
    /\ req \in [Request -> RequestRecord]

\* Rotation is exclusive: whatever refreshes, logouts, failures and theft
\* responses interleave, one login never has two usable refresh tokens, nor a
\* usable one while a rotation that already spent it is still minting the next,
\* nor two such rotations.
OneLiveTokenPerLogin ==
    /\ \A s, t \in Token : Live(s) /\ Live(t) /\ rows[s].login = rows[t].login => s = t
    /\ \A r \in Request, t \in Token :
         Rotating(r) /\ Live(t) => rows[t].login # rows[req[r].token].login
    /\ \A q, r \in Request :
         Rotating(q) /\ Rotating(r) /\ rows[req[q].token].login = rows[req[r].token].login => q = r

\* The device whose fingerprint gates an account has really been given a
\* session of that account: the fingerprint is written after the row.
ActiveDeviceLoggedIn ==
    \A u \in User : activeDevice[u] # None =>
        \E t \in Token : rows[t] # NoRow /\ rows[t].user = u /\ rows[t].device = activeDevice[u]

\* A cookie is backed by a stored row, of a login made on that very device: no
\* device is ever handed a token that was not persisted.
CookieFromOwnLogin ==
    \A d \in Device : jar[d] # None => rows[jar[d]] # NoRow /\ rows[jar[d]].device = d

\* The theft response is carried through: when a refresh found its token spent,
\* every session the account had at that moment is revoked.
TheftEndsSessions ==
    \A r \in Request, t \in Token :
        (req[r].phase = "theft" /\ Live(t) /\ rows[t].user = req[r].user) ~> ~Live(t)

\* Where nothing fails, the device that gates an account gets its row in
\* user_devices although nobody waits for the goroutine that writes it.
DeviceEventuallyRecorded ==
    \A u \in User, d \in Device : (activeDevice[u] = d) ~> (<<u, d>> \in devices)

\* The claim made of RevokeAllForUser beside the service's tests: it "must
\* never run for a benign rotation race".  Devices are honest here, so without
\* failures two refreshes of one device are all there is to race.
NoTheftResponseToBenignRace == \A r \in Request : req[r].phase # "theft"
=============================================================================
