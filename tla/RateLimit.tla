----------------------------- MODULE RateLimit -----------------------------
(***************************************************************************)
(* One RateLimitByIP: in every process, a map from client addresses to     *)
(* token buckets, made at the first request and dropped by a janitor once  *)
(* the client has not been seen for a while.  A request looks its bucket   *)
(* up under the lock of the map and asks it for a token afterwards.  The   *)
(* router makes four of them for four groups of routes, which share        *)
(* nothing: each has a map, rates and a janitor of its own.                *)
(***************************************************************************)
EXTENDS Naturals

CONSTANTS
    Instance,
    IP,
    Request,    \* slots for requests in flight
    Burst,
    Refill,     \* tokens a bucket gains in a tick
    StaleAfter, \* ticks after which the janitor takes a client to be gone
    MaxHold,    \* ticks the last request for a bucket may hold it, unasked
    None

VARIABLES
    lastSeen,   \* the map: ticks since a client was seen, None where it has no entry
    tokens,     \* the bucket last made for a client
    asks,       \* requests between getLimiter and Allow
    even        \* history: whether the number of ticks is even

-----------------------------------------------------------------------------
Age == 0..StaleAfter + 1    \* older entries are all alike
NoRequest == [instance |-> None, ip |-> None]

Init ==
    /\ lastSeen = [i \in Instance |-> [ip \in IP |-> None]]
    /\ tokens = [i \in Instance |-> [ip \in IP |-> Burst]]
    /\ asks = [r \in Request |-> NoRequest]
    /\ even = TRUE

\* Mutant of GetLimiter: an entry is dated when it is made, not at each use.
GetLimiterDatedOnce(r, i, ip) ==
    /\ asks[r] = NoRequest
    /\ asks' = [asks EXCEPT ![r] = [instance |-> i, ip |-> ip]]
    /\ IF lastSeen[i][ip] = None
       THEN lastSeen' = [lastSeen EXCEPT ![i][ip] = 0] /\ tokens' = [tokens EXCEPT ![i][ip] = Burst]
       ELSE UNCHANGED <<lastSeen, tokens>>
    /\ UNCHANGED even

GetLimiter(r, i, ip) ==
    /\ asks[r] = NoRequest
    /\ asks' = [asks EXCEPT ![r] = [instance |-> i, ip |-> ip]]
    /\ lastSeen' = [lastSeen EXCEPT ![i][ip] = 0]
    /\ tokens' = IF lastSeen[i][ip] = None THEN [tokens EXCEPT ![i][ip] = Burst] ELSE tokens
    /\ UNCHANGED even

\* A token, or 429.
Allow(r) ==
    LET i == asks[r].instance  ip == asks[r].ip IN
    /\ asks[r] # NoRequest
    /\ tokens' = IF tokens[i][ip] > 0 THEN [tokens EXCEPT ![i][ip] = @ - 1] ELSE tokens
    /\ asks' = [asks EXCEPT ![r] = NoRequest]
    /\ UNCHANGED <<lastSeen, even>>

\* The janitor; how often it comes by is left open.
Prune(i) ==
    /\ \E ip \in IP : lastSeen[i][ip] = StaleAfter + 1
    /\ lastSeen' = [lastSeen EXCEPT ![i] =
           [ip \in IP |-> IF lastSeen[i][ip] = StaleAfter + 1 THEN None ELSE lastSeen[i][ip]]]
    /\ UNCHANGED <<tokens, asks, even>>

Refilled(n) == IF n + Refill < Burst THEN n + Refill ELSE Burst
Older(a) == IF a = None \/ a = StaleAfter + 1 THEN a ELSE a + 1

\* Time passes between getLimiter and Allow as well, MaxHold ticks at most.
Tick ==
    /\ \A r \in Request : asks[r] # NoRequest => lastSeen[asks[r].instance][asks[r].ip] \in 0..MaxHold - 1
    /\ lastSeen' = [i \in Instance |-> [ip \in IP |-> Older(lastSeen[i][ip])]]
    /\ tokens' = [i \in Instance |-> [ip \in IP |-> Refilled(tokens[i][ip])]]
    /\ even' = ~even
    /\ UNCHANGED asks

\* The map is lost with its process, and the requests in it.
Lose(i) ==
    /\ lastSeen' = [lastSeen EXCEPT ![i] = [ip \in IP |-> None]]
    /\ asks' = [r \in Request |-> IF asks[r].instance = i THEN NoRequest ELSE asks[r]]
    /\ UNCHANGED <<tokens, even>>

-----------------------------------------------------------------------------
LimiterTypeOK ==
    /\ lastSeen \in [Instance -> [IP -> Age \cup {None}]]
    /\ tokens \in [Instance -> [IP -> 0..Burst]]
    /\ asks \in [Request -> [instance : Instance, ip : IP] \cup {NoRequest}]
    /\ even \in BOOLEAN
=============================================================================
