----------------------------- MODULE Instances -----------------------------
(***************************************************************************)
(* The processes the service runs as, from start to stop: each migrates    *)
(* the shared database, then serves requests behind rate limiters of its   *)
(* own, until it is stopped or dies.                                       *)
(***************************************************************************)
EXTENDS Naturals

CONSTANTS Instance, LastFile, Carried, MaxFaults, IP, Request, Burst, Refill, StaleAfter, MaxHold, None

ASSUME FileAssumption ==
    LastFile \in Nat /\ Carried \in [Instance -> 0..LastFile] /\ MaxFaults \in Nat

\* 10 tokens at 30 a minute, or 20 at 60: a bucket is full again after 20
\* seconds, and the janitor waits 15 minutes.  A request that asks its bucket
\* late, in the code one line after it looked it up, leaves it time to refill.
ASSUME RateAssumption ==
    /\ Burst \in Nat \ {0} /\ Refill \in Nat /\ StaleAfter \in Nat /\ MaxHold \in 0..StaleAfter
    /\ Burst <= Refill * (StaleAfter + 1 - MaxHold)

ASSUME NoneAssumption == None \notin Instance \cup Nat

VARIABLES recorded, applied, boot, faults, lastSeen, tokens, asks, even

schemaVars == <<recorded, applied, boot, faults>>
limiterVars == <<lastSeen, tokens, asks, even>>
vars == <<recorded, applied, boot, faults, lastSeen, tokens, asks, even>>

Schema == INSTANCE Migrations
Limiter == INSTANCE RateLimit

\* What a client finds: its bucket, or a full one where there is no entry.
Bucket == INSTANCE TokenBucket WITH
    up <- {i \in Instance : boot[i].phase = "serving"},
    level <- [i \in Instance |-> [ip \in IP |-> IF lastSeen[i][ip] = None THEN Burst ELSE tokens[i][ip]]]

Init == Schema!Init /\ Limiter!Init

\* A process that is gone takes its limiters with it.
Keeps(i) == IF boot'[i].phase \in {"down", "stopped"} THEN Limiter!Lose(i)
            ELSE UNCHANGED limiterVars

Boots(i) == Schema!Boots(i) /\ Keeps(i)

\* Fault, CommitUnheard and Stop.
Ends(i) == (Schema!Fault(i) \/ Schema!CommitUnheard(i) \/ Schema!Stop(i)) /\ Keeps(i)

\* A request for one of the rate-limited routes.
Arrives(r, i, ip) ==
    /\ boot[i].phase = "serving"
    /\ Limiter!GetLimiter(r, i, ip)
    /\ UNCHANGED schemaVars

Admits(r) == Limiter!Allow(r) /\ UNCHANGED schemaVars
Prunes(i) == Limiter!Prune(i) /\ UNCHANGED schemaVars
Tick == Limiter!Tick /\ UNCHANGED schemaVars

Next ==
    \/ \E i \in Instance : Boots(i) \/ Ends(i) \/ Prunes(i) \/ \E r \in Request, ip \in IP : Arrives(r, i, ip)
    \/ \E r \in Request : Admits(r)
    \/ Tick

Spec == Init /\ [][Next]_vars

\* A process goes on, and one that exited is started again.
Fairness == \A i \in Instance : WF_vars(Boots(i))
FairSpec == Spec /\ Fairness

-----------------------------------------------------------------------------
(* Properties *)

\* Every variable keeps its type.
TypeOK == Schema!TypeOK /\ Limiter!LimiterTypeOK

\* Those of Migrations, with the processes serving and dying meanwhile.
AppliedOnceInOrder == Schema!AppliedOnceInOrder
ServesMigrated == Schema!ServesMigrated

\* Forgetting a client changes nothing for it: requests are let through exactly
\* as if its bucket had been kept, although the janitor drops buckets that were
\* emptied, and time passes and the janitor comes by between a request's
\* getLimiter and its Allow, when the bucket has aged but not been asked.
PruningInvisible == Bucket!Spec

\* An instance that is started comes to serve, though those that boot with it
\* make it fail: each time one fails another has got a file further.
StartedServes ==
    \A i \in Instance : boot[i].phase = "bootstrap" ~> boot[i].phase \in {"serving", "stopped"}
=============================================================================
