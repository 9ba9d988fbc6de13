-------------------------- MODULE InstancesProofs --------------------------
(***************************************************************************)
(* Proofs about Instances, for any processes, releases, clients and rates. *)
(***************************************************************************)
EXTENDS Instances, TLAPS

USE FileAssumption, RateAssumption, NoneAssumption

Busy(i) == boot[i].phase \in {"apply", "record", "commit"}

\* A process has passed only files that are recorded, and holds the key of the
\* one it is about to commit.
InLine(i) ==
    /\ boot[i].next \in 1..LastFile + 1
    /\ \A f \in 1..LastFile : f < boot[i].next => f \in recorded
    /\ Busy(i) => boot[i].next <= LastFile
    /\ boot[i].phase = "commit" => boot[i].next \notin recorded

OneRecording ==
    \A i, j \in Instance :
        boot[i].phase = "commit" /\ boot[j].phase = "commit" /\ boot[i].next = boot[j].next => i = j

SchemaInv ==
    /\ Schema!TypeOK
    /\ AppliedOnceInOrder
    /\ ServesMigrated
    /\ OneRecording
    /\ \A i \in Instance : InLine(i)

-----------------------------------------------------------------------------
(* The schema *)

LEMMA InitSchema == Schema!Init => SchemaInv
<1> SUFFICES ASSUME Schema!Init PROVE SchemaInv
  OBVIOUS
<1>1. PICK n \in 0..LastFile : recorded = 1..n
  BY DEF Schema!Init
<1>2. Schema!TypeOK
  BY <1>1 DEF Schema!Init, Schema!TypeOK, Schema!File, Schema!Down, Schema!Phase
<1>3. AppliedOnceInOrder
  BY <1>1 DEF Schema!Init, AppliedOnceInOrder, Schema!AppliedOnceInOrder, Schema!File
<1>4. ServesMigrated /\ OneRecording /\ \A i \in Instance : InLine(i)
  BY DEF Schema!Init, ServesMigrated, Schema!ServesMigrated, OneRecording, InLine, Busy, Schema!Down
<1> QED BY <1>2, <1>3, <1>4 DEF SchemaInv

\* A step that leaves the tables alone and moves one process.
LEMMA MoveKeepsSchema ==
    ASSUME SchemaInv, NEW i \in Instance, UNCHANGED <<recorded, applied>>, faults' \in 0..MaxFaults,
           NEW b \in [phase : Schema!Phase, next : 1..LastFile + 1],
           boot' = [boot EXCEPT ![i] = b],
           \A f \in 1..LastFile : f < b.next => f \in recorded,
           b.phase \in {"apply", "record", "commit"} => b.next <= LastFile,
           b.phase = "commit" =>
               b.next \notin recorded /\ ~\E j \in Instance : Schema!Recording(j, b.next),
           b.phase = "serving" => b.next > Carried[i] \/ boot[i].phase = "serving"
    PROVE  SchemaInv'
<1> USE DEF SchemaInv
<1>1. Schema!TypeOK'
  BY DEF Schema!TypeOK, Schema!File
<1>2. boot'[i] = b /\ \A j \in Instance \ {i} : boot'[j] = boot[j]
  BY DEF Schema!TypeOK
<1>3. AppliedOnceInOrder'
  BY DEF AppliedOnceInOrder, Schema!AppliedOnceInOrder
<1>4. ServesMigrated'
  <2> SUFFICES ASSUME NEW j \in Instance, boot'[j].phase = "serving" PROVE 1..Carried[j] \subseteq recorded
    BY DEF ServesMigrated, Schema!ServesMigrated
  <2>1. CASE j # i \/ boot[j].phase = "serving"
    BY <2>1, <1>2 DEF ServesMigrated, Schema!ServesMigrated
  <2>2. CASE j = i /\ boot[j].phase # "serving"
    BY <2>2, <1>2
  <2> QED BY <2>1, <2>2
<1>5. OneRecording'
  BY <1>2 DEF OneRecording, Schema!Recording
<1>6. \A j \in Instance : InLine(j)'
  BY <1>2 DEF InLine, Busy
<1> QED BY <1>1, <1>3, <1>4, <1>5, <1>6

LEMMA ExitKeepsSchema ==
    ASSUME SchemaInv, NEW i \in Instance, UNCHANGED <<recorded, applied>>, faults' \in 0..MaxFaults,
           Schema!Exits(i)
    PROVE  SchemaInv'
<1> DEFINE b == Schema!Down
<1>1. /\ b \in [phase : Schema!Phase, next : 1..LastFile + 1]
      /\ b.phase = "down" /\ b.next = 1
  BY DEF Schema!Down, Schema!Phase
<1>2. boot' = [boot EXCEPT ![i] = b]
  BY DEF Schema!Exits
<1> HIDE DEF b
<1>3. \A f \in 1..LastFile : f < b.next => f \in recorded
  BY <1>1
<1> QED BY <1>1, <1>2, <1>3, MoveKeepsSchema

LEMMA GotoKeepsSchema ==
    ASSUME SchemaInv, NEW i \in Instance, UNCHANGED <<recorded, applied, faults>>,
           NEW p \in Schema!Phase, Schema!Goto(i, p),
           p \in {"apply", "record", "commit"} => boot[i].next <= LastFile,
           p = "commit" =>
               boot[i].next \notin recorded /\ ~\E j \in Instance : Schema!Recording(j, boot[i].next),
           p = "serving" => boot[i].next > Carried[i]
    PROVE  SchemaInv'
<1> DEFINE b == [boot[i] EXCEPT !.phase = p]
<1>1. b \in [phase : Schema!Phase, next : 1..LastFile + 1] /\ b.phase = p /\ b.next = boot[i].next
  BY DEF SchemaInv, Schema!TypeOK
<1>2. boot' = [boot EXCEPT ![i] = b]
  BY DEF Schema!Goto
<1>3. faults' \in 0..MaxFaults
  BY DEF SchemaInv, Schema!TypeOK
<1>4. \A f \in 1..LastFile : f < b.next => f \in recorded
  BY <1>1 DEF SchemaInv, InLine
<1> HIDE DEF b
<1> QED BY <1>1, <1>2, <1>3, <1>4, MoveKeepsSchema

\* The commit of the next file by the one process that holds its key.
LEMMA EffectKeepsSchema ==
    ASSUME SchemaInv, NEW i \in Instance, boot[i].phase = "commit", Schema!TakesEffect(boot[i].next),
           faults' \in 0..MaxFaults,
           NEW b \in [phase : {"check", "down"}, next : 1..LastFile + 1], b.next <= boot[i].next + 1,
           boot' = [boot EXCEPT ![i] = b]
    PROVE  SchemaInv'
<1> USE DEF SchemaInv
<1> DEFINE f == boot[i].next
<1>1. f \in 1..LastFile /\ f \notin recorded /\ \A g \in 1..LastFile : g < f => g \in recorded
  BY DEF InLine, Busy
<1>2. recorded' = recorded \cup {f} /\ applied' = [applied EXCEPT ![f] = @ + 1]
  BY DEF Schema!TakesEffect
<1>3. boot'[i] = b /\ \A j \in Instance \ {i} : boot'[j] = boot[j]
  BY DEF Schema!TypeOK
<1>4. \A j \in Instance \ {i} : boot[j].phase = "commit" => boot[j].next # f
  BY DEF OneRecording
<1> HIDE DEF f
<1>5. Schema!TypeOK'
  BY <1>1, <1>2 DEF Schema!TypeOK, Schema!File, Schema!Phase
<1>6. AppliedOnceInOrder'
  <2> SUFFICES ASSUME NEW g \in 1..LastFile
               PROVE  /\ applied'[g] = IF g \in recorded' THEN 1 ELSE 0
                      /\ g \in recorded' => 1..g \subseteq recorded'
    BY DEF AppliedOnceInOrder, Schema!AppliedOnceInOrder, Schema!File
  <2>1. CASE g = f
    BY <2>1, <1>1, <1>2 DEF AppliedOnceInOrder, Schema!AppliedOnceInOrder, Schema!File, Schema!TypeOK
  <2>2. CASE g # f
    BY <2>2, <1>1, <1>2 DEF AppliedOnceInOrder, Schema!AppliedOnceInOrder, Schema!File, Schema!TypeOK
  <2> QED BY <2>1, <2>2
<1>7. ServesMigrated'
  BY <1>2, <1>3 DEF ServesMigrated, Schema!ServesMigrated
<1>8. OneRecording'
  BY <1>3 DEF OneRecording
<1>9. \A j \in Instance : InLine(j)'
  <2>1. InLine(i)'
    <3>1. /\ b.next \in 1..LastFile + 1 /\ b.next <= f + 1 /\ b.phase \in {"check", "down"}
          /\ boot'[i] = b /\ recorded' = recorded \cup {f}
      BY <1>2, <1>3 DEF f
    <3>2. \A g \in 1..LastFile : g < b.next => g \in recorded'
      <4> SUFFICES ASSUME NEW g \in 1..LastFile, g < b.next PROVE g \in recorded'
        OBVIOUS
      <4>1. g = f \/ g < f
        BY <1>1, <3>1
      <4> QED BY <1>1, <3>1, <4>1
    <3> QED BY <3>1, <3>2 DEF InLine, Busy
  <2>2. \A j \in Instance \ {i} : InLine(j)'
    BY <1>2, <1>3, <1>4 DEF InLine, Busy
  <2> QED BY <2>1, <2>2
<1> QED BY <1>5, <1>6, <1>7, <1>8, <1>9

LEMMA BootsKeepsSchema == ASSUME SchemaInv, NEW i \in Instance, Schema!Boots(i) PROVE SchemaInv'
<1>1. boot[i] \in [phase : Schema!Phase, next : 1..LastFile + 1] /\ InLine(i) /\ faults \in 0..MaxFaults
  BY DEF SchemaInv, Schema!TypeOK
<1>2. CASE Schema!Start(i) \/ Schema!Bootstrap(i)
  BY <1>2, GotoKeepsSchema DEF Schema!Start, Schema!Bootstrap, Schema!Phase
<1>3. CASE Schema!Check(i)
  <2>1. CASE boot[i].next > Carried[i]
    BY <1>3, <2>1, GotoKeepsSchema DEF Schema!Check, Schema!Phase
  <2>2. CASE boot[i].next <= Carried[i] /\ boot[i].next \in recorded
    <3> DEFINE b == [boot[i] EXCEPT !.next = @ + 1]
    <3>1. /\ b \in [phase : Schema!Phase, next : 1..LastFile + 1]
          /\ b.phase = "check" /\ b.next = boot[i].next + 1
      BY <1>1, <1>3, <2>2 DEF Schema!Check
    <3>2. boot' = [boot EXCEPT ![i] = b] /\ UNCHANGED <<recorded, applied, faults>>
      BY <1>1, <1>3, <2>2 DEF Schema!Check
    <3>3. \A f \in 1..LastFile : f < b.next => f \in recorded
      BY <3>1, <1>1, <2>2 DEF InLine
    <3> HIDE DEF b
    <3> QED BY <1>1, <3>1, <3>2, <3>3, MoveKeepsSchema
  <2>3. CASE boot[i].next <= Carried[i] /\ boot[i].next \notin recorded
    BY <1>1, <1>3, <2>3, GotoKeepsSchema DEF Schema!Check, Schema!Phase
  <2> QED BY <1>1, <2>1, <2>2, <2>3
<1>4. CASE Schema!Apply(i)
  <2>1. boot[i].next <= LastFile
    BY <1>1, <1>4 DEF Schema!Apply, InLine, Busy
  <2> QED BY <1>1, <1>4, <2>1, GotoKeepsSchema, ExitKeepsSchema DEF Schema!Apply, Schema!Phase
<1>5. CASE Schema!Record(i)
  <2>1. boot[i].next <= LastFile
    BY <1>1, <1>5 DEF Schema!Record, InLine, Busy
  <2> QED BY <1>1, <1>5, <2>1, GotoKeepsSchema, ExitKeepsSchema DEF Schema!Record, Schema!Phase
<1>6. CASE Schema!Commit(i)
  <2> DEFINE b == [phase |-> "check", next |-> boot[i].next + 1]
  <2>1. b \in [phase : {"check", "down"}, next : 1..LastFile + 1] /\ b.next <= boot[i].next + 1
    BY <1>1, <1>6 DEF Schema!Commit, InLine, Busy
  <2>2. boot' = [boot EXCEPT ![i] = b] /\ faults' \in 0..MaxFaults
    BY <1>1, <1>6 DEF Schema!Commit
  <2> HIDE DEF b
  <2> QED BY <1>6, <2>1, <2>2, EffectKeepsSchema DEF Schema!Commit
<1> QED BY <1>2, <1>3, <1>4, <1>5, <1>6 DEF Schema!Boots

LEMMA EndKeepsSchema ==
    ASSUME SchemaInv, NEW i \in Instance, Schema!Fault(i) \/ Schema!CommitUnheard(i) \/ Schema!Stop(i)
    PROVE  SchemaInv'
<1>1. faults \in 0..MaxFaults
  BY DEF SchemaInv, Schema!TypeOK
<1>2. CASE Schema!Fault(i)
  BY <1>1, <1>2, ExitKeepsSchema DEF Schema!Fault
<1>3. CASE Schema!CommitUnheard(i)
  <2> DEFINE b == Schema!Down
  <2>1. b \in [phase : {"check", "down"}, next : 1..LastFile + 1] /\ b.next <= boot[i].next + 1
    BY DEF Schema!Down, SchemaInv, InLine
  <2>2. boot' = [boot EXCEPT ![i] = b] /\ faults' \in 0..MaxFaults
    BY <1>1, <1>3 DEF Schema!CommitUnheard, Schema!Exits
  <2> HIDE DEF b
  <2> QED BY <1>3, <2>1, <2>2, EffectKeepsSchema DEF Schema!CommitUnheard
<1>4. CASE Schema!Stop(i)
  BY <1>4, GotoKeepsSchema DEF Schema!Stop, Schema!Phase
<1> QED BY <1>2, <1>3, <1>4

LEMMA OthersKeepSchema == ASSUME SchemaInv, UNCHANGED schemaVars PROVE SchemaInv'
  BY DEF schemaVars, SchemaInv, Schema!TypeOK, AppliedOnceInOrder, Schema!AppliedOnceInOrder,
         ServesMigrated, Schema!ServesMigrated, OneRecording, InLine, Busy

LEMMA NextKeepsSchema == ASSUME SchemaInv, [Next]_vars PROVE SchemaInv'
<1>1. UNCHANGED schemaVars \/ \E i \in Instance : Schema!Boots(i) \/ Schema!Fault(i) \/ Schema!CommitUnheard(i) \/ Schema!Stop(i)
  BY DEF Next, vars, schemaVars, Boots, Ends, Prunes, Arrives, Admits, Tick
<1> QED BY <1>1, OthersKeepSchema, BootsKeepsSchema, EndKeepsSchema

LEMMA SchemaInvariant == Spec => []SchemaInv
<1>1. Init => SchemaInv
  BY InitSchema DEF Init
<1> QED BY <1>1, NextKeepsSchema, PTL DEF Spec

\* Whichever instances migrate together and wherever they fail, each file
\* changes the schema once, in order.
THEOREM AppliedOnceInOrderHolds == Spec => []AppliedOnceInOrder
<1>1. SchemaInv => AppliedOnceInOrder
  BY DEF SchemaInv
<1> QED BY <1>1, SchemaInvariant, PTL

\* No instance serves on a schema that lacks one of its files.
THEOREM ServesMigratedHolds == Spec => []ServesMigrated
<1>1. SchemaInv => ServesMigrated
  BY DEF SchemaInv
<1> QED BY <1>1, SchemaInvariant, PTL
-----------------------------------------------------------------------------
(* The rate limiters *)

\* The tokens a bucket may be behind its age, having been asked late.
Lag == Refill * MaxHold

\* A bucket has been refilled since its client was last seen, but for the lag of
\* a late Allow, so that it is full by the time the janitor may drop it; a
\* request between getLimiter and Allow has its entry, which is young; only a
\* process that serves has entries.
Stocked(i, ip) ==
    lastSeen[i][ip] # None => tokens[i][ip] = Burst \/ tokens[i][ip] + Lag >= Refill * lastSeen[i][ip]

Held(r) == lastSeen[asks[r].instance][asks[r].ip] \in 0..MaxHold

LimiterInv ==
    /\ Limiter!LimiterTypeOK
    /\ \A i \in Instance, ip \in IP : Stocked(i, ip)
    /\ \A r \in Request : asks[r] # Limiter!NoRequest => Held(r)
    /\ \A i \in Instance, ip \in IP : lastSeen[i][ip] # None => boot[i].phase = "serving"

LEMMA NoneIsNoAge == None \notin Limiter!Age /\ Limiter!Age \subseteq Nat
  BY DEF Limiter!Age

\* A bucket as young as one that is held may be empty.
LEMMA LagCoversHold ==
    /\ Lag \in Nat
    /\ \A a \in 0..MaxHold : Refill * a \in Nat /\ Refill * a <= Lag
<1> SUFFICES ASSUME NEW a \in 0..MaxHold
             PROVE  Lag \in Nat /\ Refill * a \in Nat /\ Refill * a <= Lag
  OBVIOUS
<1> DEFINE d == MaxHold - a
<1>1. d \in Nat /\ a \in Nat /\ MaxHold = a + d
  OBVIOUS
<1> HIDE DEF d
<1>2. Refill * (a + d) = Refill * a + Refill * d /\ Refill * a \in Nat /\ Refill * d \in Nat
  BY <1>1
<1> QED BY <1>1, <1>2 DEF Lag

LEMMA InitLimiter == Init => LimiterInv
<1> SUFFICES ASSUME Init PROVE LimiterInv
  OBVIOUS
<1>1. Limiter!LimiterTypeOK
  BY DEF Init, Limiter!Init, Limiter!LimiterTypeOK, Limiter!Age
<1> QED BY <1>1 DEF Init, Limiter!Init, LimiterInv, Stocked

\* One more tick of refilling keeps pace with one more tick of absence.
LEMMA RefillKeepsPace ==
    ASSUME NEW a \in Nat, NEW n \in 0..Burst, n = Burst \/ n + Lag >= Refill * a
    PROVE  /\ Limiter!Refilled(n) \in 0..Burst
           /\ Limiter!Refilled(n) = Burst \/ Limiter!Refilled(n) + Lag >= Refill * (a + 1)
           /\ Limiter!Refilled(n) = Burst \/ Limiter!Refilled(n) + Lag >= Refill * a
<1>1. Refill * (a + 1) = Refill * a + Refill /\ Refill * a \in Nat
  OBVIOUS
<1> DEFINE m == Refill * a
<1>2. m \in Nat /\ Refill * (a + 1) = m + Refill /\ (n = Burst \/ n + Lag >= m) /\ Lag \in Nat
  BY <1>1, LagCoversHold
<1> HIDE DEF m
<1>3. /\ Limiter!Refilled(n) \in 0..Burst
      /\ Limiter!Refilled(n) = Burst \/ Limiter!Refilled(n) + Lag >= m + Refill
      /\ Limiter!Refilled(n) = Burst \/ Limiter!Refilled(n) + Lag >= m
  BY <1>2 DEF Limiter!Refilled
<1> QED BY <1>2, <1>3 DEF m

\* A client absent long enough to be dropped has a full bucket.
LEMMA StaleIsFull ==
    ASSUME LimiterInv, NEW i \in Instance, NEW ip \in IP, lastSeen[i][ip] = StaleAfter + 1
    PROVE  tokens[i][ip] = Burst
<1>1. tokens[i][ip] \in 0..Burst
  BY DEF LimiterInv, Limiter!LimiterTypeOK
<1>2. tokens[i][ip] = Burst \/ tokens[i][ip] + Lag >= Refill * (StaleAfter + 1)
  BY DEF LimiterInv, Stocked
<1> DEFINE d == StaleAfter + 1 - MaxHold
           m == Refill * d
<1>3. d \in Nat /\ MaxHold \in Nat /\ StaleAfter + 1 = d + MaxHold
  OBVIOUS
<1>4. m \in Nat /\ m >= Burst
  BY <1>3
<1> HIDE DEF d
<1>5. Refill * (d + MaxHold) = m + Lag
  BY <1>3 DEF Lag
<1>6. tokens[i][ip] = Burst \/ tokens[i][ip] + Lag >= m + Lag
  BY <1>2, <1>3, <1>5
<1> HIDE DEF m
<1> QED BY <1>1, <1>4, <1>6, LagCoversHold

LEMMA GetLimiterKeeps ==
    ASSUME LimiterInv, NEW r \in Request, NEW i \in Instance, NEW ip \in IP, Arrives(r, i, ip)
    PROVE  LimiterInv'
<1> USE DEF LimiterInv
<1>1. /\ asks' = [asks EXCEPT ![r] = [instance |-> i, ip |-> ip]]
      /\ lastSeen' = [lastSeen EXCEPT ![i][ip] = 0]
      /\ tokens' = IF lastSeen[i][ip] = None THEN [tokens EXCEPT ![i][ip] = Burst] ELSE tokens
      /\ even' = even /\ boot' = boot /\ boot[i].phase = "serving"
  BY DEF Arrives, Limiter!GetLimiter, schemaVars
<1>2. \A j \in Instance, jp \in IP :
         /\ lastSeen'[j][jp] = IF j = i /\ jp = ip THEN 0 ELSE lastSeen[j][jp]
         /\ tokens'[j][jp] = tokens[j][jp] \/ tokens'[j][jp] = Burst
  BY <1>1 DEF Limiter!LimiterTypeOK
<1>3. Limiter!LimiterTypeOK'
  <2>1. lastSeen' \in [Instance -> [IP -> Limiter!Age \cup {None}]]
    BY <1>1 DEF Limiter!LimiterTypeOK, Limiter!Age
  <2>2. tokens' \in [Instance -> [IP -> 0..Burst]]
    BY <1>1 DEF Limiter!LimiterTypeOK
  <2>3. asks' \in [Request -> [instance : Instance, ip : IP] \cup {Limiter!NoRequest}] /\ even' \in BOOLEAN
    BY <1>1 DEF Limiter!LimiterTypeOK
  <2> QED BY <2>1, <2>2, <2>3 DEF Limiter!LimiterTypeOK
<1>4. \A j \in Instance, jp \in IP : Stocked(j, jp)'
  <2> SUFFICES ASSUME NEW j \in Instance, NEW jp \in IP PROVE Stocked(j, jp)'
    OBVIOUS
  <2>1. CASE j = i /\ jp = ip
    <3>1. tokens'[i][ip] >= 0 /\ lastSeen'[i][ip] = 0 /\ Refill * 0 = 0 /\ tokens'[i][ip] \in Nat
      BY <1>2, <1>3 DEF Limiter!LimiterTypeOK
    <3> QED BY <2>1, <3>1, LagCoversHold DEF Stocked
  <2>2. CASE ~(j = i /\ jp = ip)
    BY <1>2, <2>2 DEF Stocked
  <2> QED BY <2>1, <2>2
<1>5. \A q \in Request : asks'[q] # Limiter!NoRequest => Held(q)'
  <2> SUFFICES ASSUME NEW q \in Request, asks'[q] # Limiter!NoRequest PROVE Held(q)'
    OBVIOUS
  <2> USE DEF Held
  <2>1. CASE q = r
    BY <1>1, <1>2, <2>1 DEF Limiter!LimiterTypeOK
  <2>2. CASE q # r
    <3>1. asks'[q] = asks[q] /\ asks[q].instance \in Instance /\ asks[q].ip \in IP
      BY <1>1, <2>2 DEF Limiter!LimiterTypeOK
    <3> QED BY <1>2, <3>1
  <2> QED BY <2>1, <2>2
<1>6. \A j \in Instance, jp \in IP : lastSeen'[j][jp] # None => boot'[j].phase = "serving"
  BY <1>1, <1>2
<1> QED BY <1>3, <1>4, <1>5, <1>6

LEMMA AllowKeeps == ASSUME LimiterInv, NEW r \in Request, Admits(r) PROVE LimiterInv'
<1> USE DEF LimiterInv
<1> DEFINE i == asks[r].instance  ip == asks[r].ip
<1>1. i \in Instance /\ ip \in IP /\ lastSeen[i][ip] \in 0..MaxHold
  BY DEF Admits, Limiter!Allow, Limiter!LimiterTypeOK, Held
<1>2. /\ tokens' = IF tokens[i][ip] > 0 THEN [tokens EXCEPT ![i][ip] = @ - 1] ELSE tokens
      /\ asks' = [asks EXCEPT ![r] = Limiter!NoRequest]
      /\ lastSeen' = lastSeen /\ even' = even /\ boot' = boot
  BY DEF Admits, Limiter!Allow, schemaVars
<1> HIDE DEF i, ip
<1>3. Limiter!LimiterTypeOK'
  <2>1. tokens' \in [Instance -> [IP -> 0..Burst]]
    BY <1>1, <1>2 DEF Limiter!LimiterTypeOK
  <2> QED BY <1>2, <2>1 DEF Limiter!LimiterTypeOK
<1>4. \A j \in Instance, jp \in IP : Stocked(j, jp)'
  <2> SUFFICES ASSUME NEW j \in Instance, NEW jp \in IP PROVE Stocked(j, jp)'
    OBVIOUS
  <2>1. CASE j = i /\ jp = ip
    <3>1. tokens'[i][ip] \in Nat /\ lastSeen'[i][ip] \in 0..MaxHold
      BY <1>1, <1>2, <1>3 DEF Limiter!LimiterTypeOK
    <3>2. Refill * lastSeen'[i][ip] \in Nat /\ Refill * lastSeen'[i][ip] <= Lag /\ Lag \in Nat
      BY <3>1, LagCoversHold
    <3> QED BY <2>1, <3>1, <3>2 DEF Stocked
  <2>2. CASE ~(j = i /\ jp = ip)
    <3>1. tokens'[j][jp] = tokens[j][jp]
      BY <1>1, <1>2, <2>2 DEF Limiter!LimiterTypeOK
    <3> QED BY <1>2, <3>1 DEF Stocked
  <2> QED BY <2>1, <2>2
<1>5. \A q \in Request : asks'[q] # Limiter!NoRequest => Held(q)'
  BY <1>2 DEF Limiter!LimiterTypeOK, Held
<1> QED BY <1>2, <1>3, <1>4, <1>5

LEMMA PruneKeeps == ASSUME LimiterInv, NEW i \in Instance, Prunes(i) PROVE LimiterInv'
<1> USE DEF LimiterInv
<1>1. /\ lastSeen' = [lastSeen EXCEPT ![i] =
             [ip \in IP |-> IF lastSeen[i][ip] = StaleAfter + 1 THEN None ELSE lastSeen[i][ip]]]
      /\ tokens' = tokens /\ asks' = asks /\ even' = even /\ boot' = boot
  BY DEF Prunes, Limiter!Prune, schemaVars
<1>2. Limiter!LimiterTypeOK'
  <2>1. lastSeen' \in [Instance -> [IP -> Limiter!Age \cup {None}]]
    BY <1>1 DEF Limiter!LimiterTypeOK
  <2> QED BY <1>1, <2>1 DEF Limiter!LimiterTypeOK
<1>3. \A j \in Instance, jp \in IP :
         \/ lastSeen'[j][jp] = lastSeen[j][jp]
         \/ lastSeen'[j][jp] = None /\ lastSeen[j][jp] = StaleAfter + 1
  BY <1>1 DEF Limiter!LimiterTypeOK
<1>4. \A j \in Instance, jp \in IP : lastSeen[j][jp] \in 0..MaxHold => lastSeen'[j][jp] \in 0..MaxHold
  BY <1>3
<1>5. \A q \in Request : asks'[q] # Limiter!NoRequest => Held(q)'
  BY <1>1, <1>4 DEF Limiter!LimiterTypeOK, Held
<1> QED BY <1>1, <1>2, <1>3, <1>5 DEF Stocked

LEMMA TickKeeps == ASSUME LimiterInv, Tick PROVE LimiterInv'
<1> USE DEF LimiterInv
<1>1. /\ lastSeen' = [i \in Instance |-> [ip \in IP |-> Limiter!Older(lastSeen[i][ip])]]
      /\ tokens' = [i \in Instance |-> [ip \in IP |-> Limiter!Refilled(tokens[i][ip])]]
      /\ even' = ~even /\ asks' = asks /\ boot' = boot
      /\ \A r \in Request : asks[r] # Limiter!NoRequest => lastSeen[asks[r].instance][asks[r].ip] \in 0..MaxHold - 1
  BY DEF Tick, Limiter!Tick, schemaVars
<1>2. \A a \in Limiter!Age \cup {None} :
         /\ Limiter!Older(a) \in Limiter!Age \cup {None}
         /\ Limiter!Older(a) = None <=> a = None
         /\ a # None => Limiter!Older(a) = a + 1 \/ Limiter!Older(a) = a
  BY DEF Limiter!Older, Limiter!Age
<1>3. \A n \in 0..Burst : Limiter!Refilled(n) \in 0..Burst
  BY DEF Limiter!Refilled
<1>4. \A i \in Instance, ip \in IP :
         /\ lastSeen[i][ip] \in Limiter!Age \cup {None} /\ tokens[i][ip] \in 0..Burst
         /\ lastSeen'[i][ip] = Limiter!Older(lastSeen[i][ip])
         /\ tokens'[i][ip] = Limiter!Refilled(tokens[i][ip])
  BY <1>1 DEF Limiter!LimiterTypeOK
<1>5. Limiter!LimiterTypeOK'
  <2>1. lastSeen' \in [Instance -> [IP -> Limiter!Age \cup {None}]]
    BY <1>1, <1>2, <1>4
  <2>2. tokens' \in [Instance -> [IP -> 0..Burst]]
    BY <1>1, <1>3, <1>4
  <2>3. asks' \in [Request -> [instance : Instance, ip : IP] \cup {Limiter!NoRequest}] /\ even' \in BOOLEAN
    BY <1>1 DEF Limiter!LimiterTypeOK
  <2> QED BY <2>1, <2>2, <2>3 DEF Limiter!LimiterTypeOK
<1>6. \A i \in Instance, ip \in IP : Stocked(i, ip)'
  <2> SUFFICES ASSUME NEW i \in Instance, NEW ip \in IP, lastSeen'[i][ip] # None
               PROVE  tokens'[i][ip] = Burst \/ tokens'[i][ip] + Lag >= Refill * lastSeen'[i][ip]
    BY DEF Stocked
  <2> DEFINE a == lastSeen[i][ip]  n == tokens[i][ip]
  <2>1. a # None /\ a \in Nat /\ n \in 0..Burst /\ (n = Burst \/ n + Lag >= Refill * a)
    <3>1. a # None
      BY <1>2, <1>4
    <3>2. n = Burst \/ n + Lag >= Refill * a
      BY <3>1 DEF Stocked
    <3> QED BY <3>1, <3>2, <1>4, NoneIsNoAge
  <2>2. /\ lastSeen'[i][ip] = a + 1 \/ lastSeen'[i][ip] = a
        /\ tokens'[i][ip] = Limiter!Refilled(n)
    BY <1>2, <1>4, <2>1
  <2> HIDE DEF a, n
  <2>3. /\ Limiter!Refilled(n) = Burst \/ Limiter!Refilled(n) + Lag >= Refill * (a + 1)
        /\ Limiter!Refilled(n) = Burst \/ Limiter!Refilled(n) + Lag >= Refill * a
    BY <2>1, RefillKeepsPace
  <2> QED BY <2>2, <2>3
<1>7. \A i \in Instance, ip \in IP : lastSeen'[i][ip] # None => boot'[i].phase = "serving"
  BY <1>1, <1>2, <1>4
<1>8. \A q \in Request : asks'[q] # Limiter!NoRequest => Held(q)'
  <2> SUFFICES ASSUME NEW q \in Request, asks[q] # Limiter!NoRequest PROVE Held(q)'
    BY <1>1
  <2> DEFINE i == asks[q].instance  ip == asks[q].ip
  <2>1. i \in Instance /\ ip \in IP /\ lastSeen[i][ip] \in 0..MaxHold /\ lastSeen[i][ip] < MaxHold
    BY <1>1 DEF Held, Limiter!LimiterTypeOK
  <2>2. lastSeen'[i][ip] \in 0..MaxHold
    BY <1>4, <2>1 DEF Limiter!Older
  <2> QED BY <1>1, <2>2 DEF Held
<1> QED BY <1>1, <1>5, <1>6, <1>7, <1>8

LEMMA LoseKeeps ==
    ASSUME LimiterInv, NEW i \in Instance, Limiter!Lose(i), \A j \in Instance \ {i} : boot'[j] = boot[j]
    PROVE  LimiterInv'
<1> USE DEF LimiterInv
<1>1. /\ lastSeen' = [lastSeen EXCEPT ![i] = [ip \in IP |-> None]]
      /\ asks' = [r \in Request |-> IF asks[r].instance = i THEN Limiter!NoRequest ELSE asks[r]]
      /\ tokens' = tokens /\ even' = even
  BY DEF Limiter!Lose
<1>2. \A j \in Instance, ip \in IP : lastSeen'[j][ip] = IF j = i THEN None ELSE lastSeen[j][ip]
  BY <1>1 DEF Limiter!LimiterTypeOK
<1>3. Limiter!LimiterTypeOK'
  <2>1. lastSeen' \in [Instance -> [IP -> Limiter!Age \cup {None}]]
    BY <1>1 DEF Limiter!LimiterTypeOK
  <2>2. asks' \in [Request -> [instance : Instance, ip : IP] \cup {Limiter!NoRequest}]
    BY <1>1 DEF Limiter!LimiterTypeOK
  <2> QED BY <1>1, <2>1, <2>2 DEF Limiter!LimiterTypeOK
<1>4. \A q \in Request : asks'[q] # Limiter!NoRequest => Held(q)'
  <2> SUFFICES ASSUME NEW q \in Request, asks'[q] # Limiter!NoRequest PROVE Held(q)'
    OBVIOUS
  <2> USE DEF Held
  <2>1. asks'[q] = asks[q] /\ asks[q].instance # i
    BY <1>1
  <2>2. asks[q].instance \in Instance /\ asks[q].ip \in IP
    BY <2>1 DEF Limiter!LimiterTypeOK
  <2> QED BY <1>2, <2>1, <2>2
<1> QED BY <1>1, <1>2, <1>3, <1>4 DEF Stocked
-----------------------------------------------------------------------------
(* Both together *)

IInv == SchemaInv /\ LimiterInv

\* A step of booting leaves every other process where it is, and no process
\* that serves boots.
LEMMA BootsShape ==
    ASSUME SchemaInv, NEW i \in Instance, Schema!Boots(i)
    PROVE  boot[i].phase # "serving" /\ \A j \in Instance \ {i} : boot'[j] = boot[j]
  BY DEF Schema!Boots, Schema!Start, Schema!Bootstrap, Schema!Check, Schema!Apply, Schema!Record,
         Schema!Commit, Schema!Goto, Schema!Exits, SchemaInv, Schema!TypeOK

LEMMA EndsShape ==
    ASSUME SchemaInv, NEW i \in Instance, Ends(i)
    PROVE  /\ boot'[i].phase \in {"down", "stopped"} /\ \A j \in Instance \ {i} : boot'[j] = boot[j]
           /\ Limiter!Lose(i)
<1>1. boot'[i].phase \in {"down", "stopped"} /\ \A j \in Instance \ {i} : boot'[j] = boot[j]
  BY DEF Ends, Schema!Fault, Schema!CommitUnheard, Schema!Stop, Schema!Goto, Schema!Exits, Schema!Down,
         SchemaInv, Schema!TypeOK
<1> QED BY <1>1 DEF Ends, Keeps

LEMMA BootsKeepsLimiter == ASSUME IInv, NEW i \in Instance, Boots(i) PROVE LimiterInv'
<1>1. boot[i].phase # "serving" /\ \A j \in Instance \ {i} : boot'[j] = boot[j]
  BY BootsShape DEF IInv, Boots
<1>2. CASE Limiter!Lose(i)
  BY <1>1, <1>2, LoseKeeps DEF IInv
<1>3. CASE UNCHANGED limiterVars
  BY <1>1, <1>3 DEF IInv, LimiterInv, limiterVars, Limiter!LimiterTypeOK, Stocked, Held
<1> QED BY <1>2, <1>3 DEF Boots, Keeps

LEMMA NextKeepsLimiter == ASSUME IInv, [Next]_vars PROVE LimiterInv'
<1>1. CASE UNCHANGED vars
  BY <1>1 DEF IInv, LimiterInv, vars, Limiter!LimiterTypeOK, Stocked, Held
<1>2. CASE \E i \in Instance : Boots(i) \/ Ends(i)
  BY <1>2, BootsKeepsLimiter, EndsShape, LoseKeeps DEF IInv
<1>3. CASE \E i \in Instance : Prunes(i) \/ \E r \in Request, ip \in IP : Arrives(r, i, ip)
  BY <1>3, PruneKeeps, GetLimiterKeeps DEF IInv
<1>4. CASE Tick \/ \E r \in Request : Admits(r)
  BY <1>4, TickKeeps, AllowKeeps DEF IInv
<1> QED BY <1>1, <1>2, <1>3, <1>4 DEF Next

LEMMA IInvInvariant == Spec => []IInv
<1>1. Init => IInv
  BY InitSchema, InitLimiter DEF Init, IInv
<1>2. IInv /\ [Next]_vars => IInv'
  BY NextKeepsSchema, NextKeepsLimiter DEF IInv
<1> QED BY <1>1, <1>2, PTL DEF Spec

\* The state of every process and limiter keeps its type.
THEOREM InstancesTypeOK == Spec => []TypeOK
<1>1. IInv => TypeOK
  BY DEF IInv, SchemaInv, LimiterInv, TypeOK
<1> QED BY <1>1, IInvInvariant, PTL

-----------------------------------------------------------------------------
(* Refinement of TokenBucket *)

Up == {i \in Instance : boot[i].phase = "serving"}
Level == [i \in Instance |-> [ip \in IP |-> IF lastSeen[i][ip] = None THEN Burst ELSE tokens[i][ip]]]

\* The clients of a process that does not serve have full buckets.
LEMMA IdleIsFull ==
    ASSUME LimiterInv, NEW i \in Instance, i \notin Up
    PROVE  Level[i] = [ip \in IP |-> Burst]
  BY DEF LimiterInv, Up, Level

LEMMA LoseEmpties ==
    ASSUME LimiterInv, NEW i \in Instance, Limiter!Lose(i)
    PROVE  Level' = [Level EXCEPT ![i] = [ip \in IP |-> Burst]] /\ even' = even
<1>1. tokens' = tokens /\ even' = even
  BY DEF Limiter!Lose
<1>2. \A j \in Instance, ip \in IP : lastSeen'[j][ip] = IF j = i THEN None ELSE lastSeen[j][ip]
  BY DEF Limiter!Lose, LimiterInv, Limiter!LimiterTypeOK
<1>3. Level'[i] = [ip \in IP |-> Burst]
  BY <1>2 DEF Level
<1>4. \A j \in Instance \ {i} : Level'[j] = Level[j]
  BY <1>1, <1>2 DEF Level
<1>5. Level' = [j \in Instance |-> Level'[j]] /\ Level = [j \in Instance |-> Level[j]]
  BY DEF Level
<1> HIDE DEF Level
<1> QED BY <1>1, <1>3, <1>4, <1>5

LEMMA BootsRefines == ASSUME IInv, NEW i \in Instance, Boots(i) PROVE [Bucket!Next]_(Bucket!vars)
<1>1. i \notin Up /\ \A j \in Instance \ {i} : boot'[j] = boot[j]
  BY BootsShape DEF IInv, Boots, Up
<1>2. Level' = Level /\ even' = even
  <2>1. CASE Limiter!Lose(i)
    <3>1. Level' = [Level EXCEPT ![i] = Level[i]] /\ even' = even
      BY <1>1, <2>1, LoseEmpties, IdleIsFull DEF IInv
    <3> QED BY <3>1 DEF Level
  <2>2. CASE UNCHANGED limiterVars
    BY <2>2 DEF limiterVars, Level
  <2> QED BY <2>1, <2>2 DEF Boots, Keeps
<1>3. Up' = Up \/ Up' = Up \cup {i}
  BY <1>1 DEF Up
<1>4. UNCHANGED <<Level, Up, even>> \/ Bucket!Begin(i)
  BY <1>1, <1>2, <1>3 DEF Bucket!Begin, Level, Up
<1> QED BY <1>4 DEF Bucket!Next, Bucket!vars, Level, Up

LEMMA EndsRefines == ASSUME IInv, NEW i \in Instance, Ends(i) PROVE [Bucket!Next]_(Bucket!vars)
<1>1. /\ Level' = [Level EXCEPT ![i] = [ip \in IP |-> Burst]] /\ even' = even
  BY EndsShape, LoseEmpties DEF IInv
<1>2. Up' = Up \ {i}
  BY EndsShape DEF IInv, Up
<1>3. CASE i \in Up
  <2>1. Bucket!End(i)
    BY <1>1, <1>2, <1>3 DEF Bucket!End, Level, Up
  <2> QED BY <2>1 DEF Bucket!Next
<1>4. CASE i \notin Up
  <2>1. Level' = [Level EXCEPT ![i] = Level[i]]
    BY <1>1, <1>4, IdleIsFull DEF IInv
  <2>2. [Level EXCEPT ![i] = Level[i]] = Level
    BY DEF Level
  <2>3. Up' = Up
    BY <1>2, <1>4
  <2>4. UNCHANGED <<Level, Up, even>>
    BY <1>1, <2>1, <2>2, <2>3
  <2> QED BY <2>4 DEF Bucket!vars, Level, Up
<1> QED BY <1>3, <1>4

\* getLimiter and the janitor change no bucket a client could tell.
LEMMA LookupUnseen ==
    ASSUME IInv, NEW i \in Instance, Prunes(i) \/ \E r \in Request, ip \in IP : Arrives(r, i, ip)
    PROVE  UNCHANGED Bucket!vars
<1>1. even' = even /\ Up' = Up
  BY DEF Prunes, Limiter!Prune, Arrives, Limiter!GetLimiter, schemaVars, Up
<1>2. Level' = Level
  <2>1. ASSUME NEW r \in Request, NEW ip \in IP, Arrives(r, i, ip) PROVE Level' = Level
    <3>1. /\ lastSeen' = [lastSeen EXCEPT ![i][ip] = 0] /\ 0 # None
          /\ tokens' = IF lastSeen[i][ip] = None THEN [tokens EXCEPT ![i][ip] = Burst] ELSE tokens
      BY <2>1 DEF Arrives, Limiter!GetLimiter
    <3>2. \A j \in Instance, jp \in IP :
            (IF lastSeen'[j][jp] = None THEN Burst ELSE tokens'[j][jp])
              = (IF lastSeen[j][jp] = None THEN Burst ELSE tokens[j][jp])
      BY <3>1 DEF IInv, LimiterInv, Limiter!LimiterTypeOK
    <3> QED BY <3>2 DEF Level
  <2>2. ASSUME Prunes(i) PROVE Level' = Level
    <3>1. /\ tokens' = tokens
          /\ \A j \in Instance, jp \in IP :
                \/ lastSeen'[j][jp] = lastSeen[j][jp]
                \/ lastSeen'[j][jp] = None /\ lastSeen[j][jp] = StaleAfter + 1
      BY <2>2 DEF Prunes, Limiter!Prune, IInv, LimiterInv, Limiter!LimiterTypeOK
    <3>2. \A j \in Instance, jp \in IP :
            (IF lastSeen'[j][jp] = None THEN Burst ELSE tokens'[j][jp])
              = (IF lastSeen[j][jp] = None THEN Burst ELSE tokens[j][jp])
      BY <3>1, StaleIsFull DEF IInv
    <3> QED BY <3>2 DEF Level
  <2> QED BY <2>1, <2>2
<1> QED BY <1>1, <1>2 DEF Bucket!vars, Level, Up

LEMMA AdmitsRefines == ASSUME IInv, NEW r \in Request, Admits(r) PROVE [Bucket!Next]_(Bucket!vars)
<1>1. PICK i \in Instance, ip \in IP :
         i = asks[r].instance /\ ip = asks[r].ip /\ lastSeen[i][ip] # None
  BY DEF Admits, Limiter!Allow, IInv, LimiterInv, Limiter!LimiterTypeOK, Held
<1>2. /\ tokens' = IF tokens[i][ip] > 0 THEN [tokens EXCEPT ![i][ip] = @ - 1] ELSE tokens
      /\ lastSeen' = lastSeen /\ even' = even /\ boot' = boot
  BY <1>1 DEF Admits, Limiter!Allow, schemaVars
<1>3. i \in Up /\ Level[i][ip] = tokens[i][ip]
  BY <1>1 DEF IInv, LimiterInv, Up, Level
<1>4. CASE tokens[i][ip] > 0
  <2>1. Level' = [Level EXCEPT ![i][ip] = @ - 1]
    <3>1. \A j \in Instance, jp \in IP :
            tokens'[j][jp] = IF j = i /\ jp = ip THEN tokens[j][jp] - 1 ELSE tokens[j][jp]
      BY <1>1, <1>2, <1>4 DEF IInv, LimiterInv, Limiter!LimiterTypeOK
    <3>2. \A j \in Instance, jp \in IP :
            Level'[j][jp] = IF j = i /\ jp = ip THEN Level[j][jp] - 1 ELSE Level[j][jp]
      BY <1>1, <1>2, <3>1 DEF Level
    <3>3. /\ \A j \in Instance : Level'[j] = [jp \in IP |-> Level'[j][jp]]
          /\ \A j \in Instance : Level[j] = [jp \in IP |-> Level[j][jp]]
          /\ Level' = [j \in Instance |-> Level'[j]] /\ Level = [j \in Instance |-> Level[j]]
      BY DEF Level
    <3> HIDE DEF Level
    <3>4. \A j \in Instance \ {i} : Level'[j] = Level[j]
      BY <3>2, <3>3
    <3>5. Level'[i] = [Level[i] EXCEPT ![ip] = @ - 1]
      <4>1. \A jp \in IP : Level'[i][jp] = IF jp = ip THEN Level[i][jp] - 1 ELSE Level[i][jp]
        BY <1>1, <3>2
      <4>2. Level'[i] = [jp \in IP |-> Level'[i][jp]] /\ Level[i] = [jp \in IP |-> Level[i][jp]]
        BY <1>1, <3>3
      <4> QED BY <1>1, <4>1, <4>2
    <3> QED BY <1>1, <3>3, <3>4, <3>5
  <2>2. Bucket!Take(i, ip)
    BY <1>2, <1>3, <1>4, <2>1 DEF Bucket!Take, Level, Up
  <2> QED BY <1>1, <2>2 DEF Bucket!Next
<1>5. CASE ~(tokens[i][ip] > 0)
  BY <1>2, <1>5 DEF Bucket!vars
<1> QED BY <1>4, <1>5

LEMMA TickRefines == ASSUME IInv, Tick PROVE [Bucket!Next]_(Bucket!vars)
<1>1. /\ lastSeen' = [i \in Instance |-> [ip \in IP |-> Limiter!Older(lastSeen[i][ip])]]
      /\ tokens' = [i \in Instance |-> [ip \in IP |-> Limiter!Refilled(tokens[i][ip])]]
      /\ even' = ~even /\ boot' = boot
  BY DEF Tick, Limiter!Tick, schemaVars
<1>2. \A i \in Instance, ip \in IP : Limiter!Older(lastSeen[i][ip]) = None <=> lastSeen[i][ip] = None
  BY DEF IInv, LimiterInv, Limiter!LimiterTypeOK, Limiter!Older, Limiter!Age
<1>3. \A n : Bucket!Refilled(n) = Limiter!Refilled(n)
  BY DEF Bucket!Refilled, Limiter!Refilled
<1>4. Bucket!Refilled(Burst) = Burst
  BY DEF Bucket!Refilled
<1>5. \A i \in Instance, ip \in IP :
         (IF lastSeen'[i][ip] = None THEN Burst ELSE tokens'[i][ip])
           = Bucket!Refilled(IF lastSeen[i][ip] = None THEN Burst ELSE tokens[i][ip])
  BY <1>1, <1>2, <1>3, <1>4
<1>6. Level' = [i \in Instance |-> [ip \in IP |-> Bucket!Refilled(Level[i][ip])]]
  BY <1>5 DEF Level
<1>7. Up' = Up /\ even' = ~even
  BY <1>1 DEF Up
<1>8. Bucket!TimePasses
  BY <1>6, <1>7 DEF Bucket!TimePasses, Level, Up
<1> QED BY <1>8 DEF Bucket!Next

\* The limiters of every process behave as buckets that are never forgotten.
THEOREM PruningInvisibleHolds == Spec => PruningInvisible
<1>1. Init => Bucket!Init
  BY DEF Init, Schema!Init, Limiter!Init, Bucket!Init, Schema!Down
<1>2. IInv /\ [Next]_vars => [Bucket!Next]_(Bucket!vars)
  <2> SUFFICES ASSUME IInv, [Next]_vars PROVE [Bucket!Next]_(Bucket!vars)
    OBVIOUS
  <2>1. CASE UNCHANGED vars
    BY <2>1 DEF vars, Bucket!vars
  <2>2. CASE Next
    BY <2>2, BootsRefines, EndsRefines, LookupUnseen, AdmitsRefines, TickRefines DEF Next
  <2> QED BY <2>1, <2>2
<1> QED BY <1>1, <1>2, IInvInvariant, PTL DEF Spec, PruningInvisible, Bucket!Spec
=============================================================================
