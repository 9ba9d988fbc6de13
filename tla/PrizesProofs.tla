---------------------------- MODULE PrizesProofs ----------------------------
(***************************************************************************)
(* Proofs about Prizes, for any events, levels, ranges and requests.       *)
(***************************************************************************)
EXTENDS Prizes, TLAPS

\* A request that may still write names a tier by its own event and collides
\* with no other one.
Clear(r) ==
    req[r].phase = "write" => ~Collides(req[r].event, req[r].input, req[r].id)

Filed(r) ==
    LET i == req[r].id IN
    req[r] # Idle /\ i \in PrizeId /\ Exists(i) => prizes[i].event = req[r].event

Coherent(r) ==
    /\ req[r].phase # "idle" => req[r].event \in Event /\ req[r].input \in Input
    /\ req[r].phase # "idle" /\ req[r].id # None => req[r].id \in used

IInv ==
    /\ TypeOK
    /\ TidyUnlessCareless
    /\ \A r \in Request : Coherent(r)
    /\ ~careless => /\ \A r \in Request : Clear(r) /\ Filed(r)
                    /\ \A q, r \in Request : req[q] # Idle /\ req[r] # Idle => q = r

USE NoneAssumption, InputAssumption

-----------------------------------------------------------------------------
LEMMA InitIInv == Init => IInv
<1> SUFFICES ASSUME Init PROVE IInv
  OBVIOUS
<1>1. Stored = {}
  BY DEF Init, Stored, Exists
<1>2. TypeOK
  BY <1>1 DEF Init, TypeOK, RequestRecord, Idle
<1>3. TidyUnlessCareless
  BY <1>1 DEF TidyUnlessCareless, NoOverlap
<1>4. \A r \in Request : Coherent(r) /\ Clear(r) /\ Filed(r) /\ req[r] = Idle
  BY DEF Init, Coherent, Clear, Filed, Idle
<1> QED BY <1>2, <1>3, <1>4 DEF IInv

LEMMA NoRowIsNone == NoRow \notin Row
BY DEF NoRow, Row

LEMMA OverlapSymmetric == ASSUME NEW a, NEW b, Overlap(a, b) PROVE Overlap(b, a)
BY DEF Overlap

LEMMA NextTypeOK == ASSUME IInv, [Next]_vars PROVE TypeOK'
<1> USE DEF IInv, TypeOK, Stored, Exists
<1>1. Idle \in RequestRecord
  BY DEF Idle, RequestRecord
<1>2. ASSUME NEW r \in Request, Send(r) PROVE TypeOK'
  BY <1>2 DEF Send, RequestRecord
<1>3. ASSUME NEW r \in Request, CheckNoOverlap(r) PROVE TypeOK'
  <2>1. [req[r] EXCEPT !.phase = "write"] \in RequestRecord
    BY DEF RequestRecord
  <2> QED BY <1>1, <1>3, <2>1 DEF CheckNoOverlap, End
<1>4. ASSUME NEW r \in Request, Create(r) PROVE TypeOK'
  BY <1>1, <1>4, NoRowIsNone DEF Create, End, Coherent, Row
<1>5. ASSUME NEW r \in Request, Update(r) PROVE TypeOK'
  <2> DEFINE i == req[r].id
  <2>1. i \in PrizeId /\ i \in used /\ req[r].input \in Input
    BY <1>5 DEF Update, Coherent
  <2>2. CASE Exists(i)
    <3>1. [prizes[i] EXCEPT !.tier = req[r].input] \in Row
      BY <2>1, <2>2 DEF Row
    <3> QED BY <1>1, <1>5, <2>1, <2>2, <3>1, NoRowIsNone DEF Update, End
  <2>3. CASE ~Exists(i)
    BY <1>1, <1>5, <2>3 DEF Update, End
  <2> QED BY <2>2, <2>3
<1>6. ASSUME NEW i \in PrizeId, Delete(i) PROVE TypeOK'
  BY <1>6 DEF Delete
<1>7. ASSUME NEW r \in Request, Abort(r) PROVE TypeOK'
  BY <1>1, <1>7 DEF Abort, End
<1>8. CASE UNCHANGED vars
  BY <1>8 DEF vars
<1> QED BY <1>2, <1>3, <1>4, <1>5, <1>6, <1>7, <1>8 DEF Next

LEMMA NextCoherent == ASSUME IInv, [Next]_vars PROVE \A q \in Request : Coherent(q)'
<1> SUFFICES ASSUME NEW q \in Request PROVE Coherent(q)'
  OBVIOUS
<1> USE DEF IInv, TypeOK, Coherent
<1>1. ASSUME NEW r \in Request, Send(r) PROVE Coherent(q)'
  BY <1>1 DEF Send
<1>2. ASSUME NEW r \in Request, CheckNoOverlap(r) PROVE Coherent(q)'
  BY <1>2 DEF CheckNoOverlap, End, Idle, RequestRecord
<1>3. ASSUME NEW r \in Request, Create(r) \/ Update(r) \/ Abort(r) PROVE Coherent(q)'
  BY <1>3 DEF Create, Update, Abort, End, Idle
<1> QED BY <1>1, <1>2, <1>3 DEF Next, Delete, vars

\* What the table holds while everybody is careful.
LEMMA NextTidy == ASSUME IInv, [Next]_vars, ~careless' PROVE NoOverlap'
<1> USE DEF IInv, TypeOK, TidyUnlessCareless
<1>1. ~careless /\ NoOverlap
  BY DEF Next, Send, CheckNoOverlap, Create, Update, Delete, Abort, vars
<1>2. ASSUME NEW i \in PrizeId, NEW n \in Input, NEW e \in Event,
             prizes' = [prizes EXCEPT ![i] = [event |-> e, tier |-> n]], ~Collides(e, n, i)
      PROVE  NoOverlap'
  <2> SUFFICES ASSUME NEW j \in Stored', NEW k \in Stored', j # k,
                      prizes'[j].event = prizes'[k].event,
                      prizes'[j].tier.level = prizes'[k].tier.level,
                      Overlap(prizes'[j].tier, prizes'[k].tier)
               PROVE  FALSE
    BY DEF NoOverlap
  <2>1. CASE j # i /\ k # i
    BY <1>1, <1>2, <2>1 DEF NoOverlap, Stored, Exists
  <2>2. CASE j = i
    BY <1>2, <2>2 DEF Collides, Stored, Exists
  <2>3. CASE k = i
    BY <1>2, <2>3, OverlapSymmetric DEF Collides, Stored, Exists
  <2> QED BY <2>1, <2>2, <2>3
<1>3. ASSUME NEW r \in Request, Create(r) PROVE NoOverlap'
  <2>1. PICK i \in PrizeId \ used :
          prizes' = [prizes EXCEPT ![i] = [event |-> req[r].event, tier |-> req[r].input]]
    BY <1>3 DEF Create
  <2>2. req[r].event \in Event /\ req[r].input \in Input /\ ~Collides(req[r].event, req[r].input, None)
    BY <1>1, <1>3 DEF Create, Coherent, Clear
  <2>3. ~Collides(req[r].event, req[r].input, i)
    BY <2>2 DEF Collides, Stored
  <2> QED BY <1>2, <2>1, <2>2, <2>3
<1>4. ASSUME NEW r \in Request, Update(r) PROVE NoOverlap'
  <2>1. /\ req[r].id \in PrizeId /\ req[r].event \in Event /\ req[r].input \in Input
        /\ ~Collides(req[r].event, req[r].input, req[r].id)
    BY <1>1, <1>4 DEF Update, Coherent, Clear
  <2>2. CASE Exists(req[r].id)
    <3>1. prizes[req[r].id] \in Row /\ prizes[req[r].id].event = req[r].event
      BY <1>1, <1>4, <2>1, <2>2 DEF Update, Filed, Exists, Idle
    <3>2. [prizes[req[r].id] EXCEPT !.tier = req[r].input] = [event |-> req[r].event, tier |-> req[r].input]
      BY <3>1 DEF Row
    <3>3. prizes' = [prizes EXCEPT ![req[r].id] = [event |-> req[r].event, tier |-> req[r].input]]
      BY <1>4, <2>2, <3>2 DEF Update
    <3> QED BY <1>2, <2>1, <3>3
  <2>3. CASE ~Exists(req[r].id)
    BY <1>1, <1>4, <2>3 DEF Update, NoOverlap, Stored, Exists
  <2> QED BY <2>2, <2>3
<1>5. ASSUME NEW i \in PrizeId, Delete(i) PROVE NoOverlap'
  BY <1>1, <1>5 DEF Delete, NoOverlap, Stored, Exists
<1>6. CASE UNCHANGED prizes
  BY <1>1, <1>6 DEF NoOverlap, Stored, Exists
<1> QED BY <1>3, <1>4, <1>5, <1>6 DEF Next, Send, CheckNoOverlap, Abort, vars

\* What is in flight while everybody is careful.
LEMMA NextCareful ==
    ASSUME IInv, [Next]_vars, ~careless'
    PROVE  /\ \A r \in Request : Clear(r)' /\ Filed(r)'
           /\ \A q, r \in Request : req'[q] # Idle /\ req'[r] # Idle => q = r
<1> USE DEF IInv, TypeOK
<1>1. /\ ~careless
      /\ \A r \in Request : Clear(r) /\ Filed(r)
      /\ \A q, r \in Request : req[q] # Idle /\ req[r] # Idle => q = r
  BY DEF Next, Send, CheckNoOverlap, Create, Update, Delete, Abort, vars
<1> DEFINE Goal == /\ \A r \in Request : Clear(r)' /\ Filed(r)'
                   /\ \A q, r \in Request : req'[q] # Idle /\ req'[r] # Idle => q = r
<1>2. ASSUME NEW r \in Request, Send(r) PROVE Goal
  <2>1. PICK e \in Event, i \in used \cup {None}, n \in Input :
          /\ req' = [req EXCEPT ![r] = [phase |-> "check", event |-> e, id |-> i, input |-> n]]
          /\ ~(i \in Stored /\ prizes[i].event # e)
          /\ \A q \in Request : req[q] = Idle
    BY <1>2 DEF Send
  <2>2. \A q \in Request : Clear(q)'
    BY <2>1 DEF Clear, Idle
  <2>3. \A q \in Request : Filed(q)'
    BY <1>2, <2>1 DEF Filed, Stored, Exists, Send
  <2>4. \A q \in Request : q # r => req'[q] = Idle
    BY <2>1
  <2> QED BY <2>2, <2>3, <2>4
<1>3. ASSUME NEW r \in Request, End(r), UNCHANGED <<prizes, careless>> PROVE Goal
  <2>1. req'[r] = Idle /\ \A q \in Request : q # r => req'[q] = req[q]
    BY <1>3 DEF End
  <2>2. \A q \in Request : Clear(q)' /\ Filed(q)'
    BY <1>1, <1>3, <2>1 DEF Clear, Filed, Idle, Collides, Stored, Exists
  <2> QED BY <1>1, <2>1, <2>2
<1>4. ASSUME NEW r \in Request, CheckNoOverlap(r) PROVE Goal
  <2>1. CASE End(r)
    BY <1>3, <1>4, <2>1 DEF CheckNoOverlap
  <2>2. CASE ~End(r)
    <3>1. /\ req' = [req EXCEPT ![r].phase = "write"] /\ UNCHANGED prizes
          /\ ~Collides(req[r].event, req[r].input, req[r].id)
      BY <1>4, <2>2 DEF CheckNoOverlap
    <3>2. /\ req'[r].event = req[r].event /\ req'[r].input = req[r].input /\ req'[r].id = req[r].id
          /\ \A q \in Request : q # r => req'[q] = req[q]
      BY <3>1 DEF RequestRecord
    <3>3. req[r] # Idle
      BY <1>4 DEF CheckNoOverlap, Idle
    <3>4. \A q \in Request : Clear(q)'
      BY <1>1, <3>1, <3>2 DEF Clear, Collides, Stored, Exists
    <3>5. \A q \in Request : Filed(q)'
      BY <1>1, <3>1, <3>2, <3>3 DEF Filed, Exists
    <3> QED BY <1>1, <3>2, <3>3, <3>4, <3>5
  <2> QED BY <2>1, <2>2
<1>5. ASSUME NEW r \in Request, Create(r) \/ Update(r) PROVE Goal
  <2>1. req'[r] = Idle /\ \A q \in Request : req'[q] = Idle
    BY <1>1, <1>5 DEF Create, Update, End, Idle
  <2> QED BY <2>1 DEF Clear, Filed, Idle
<1>6. ASSUME NEW i \in PrizeId, Delete(i) PROVE Goal
  <2>1. \A q \in Request : Clear(q)' /\ Filed(q)'
    BY <1>1, <1>6 DEF Delete, Clear, Filed, Collides, Stored, Exists
  <2> QED BY <1>1, <1>6, <2>1 DEF Delete
<1>7. ASSUME NEW r \in Request, Abort(r) PROVE Goal
  BY <1>3, <1>7 DEF Abort
<1>8. CASE UNCHANGED vars
  BY <1>1, <1>8 DEF vars, Clear, Filed, Collides, Stored, Exists
<1> QED BY <1>2, <1>4, <1>5, <1>6, <1>7, <1>8 DEF Next

-----------------------------------------------------------------------------
\* The invariant the theorems below are read off.
THEOREM Inductive == Spec => []IInv
<1>1. IInv /\ [Next]_vars => IInv'
  BY NextTypeOK, NextCoherent, NextTidy, NextCareful DEF IInv, TidyUnlessCareless
<1> QED BY <1>1, InitIInv, PTL DEF Spec

\* Every variable keeps its type.
THEOREM TypeCorrect == Spec => []TypeOK
BY Inductive, PTL DEF IInv

\* No rank of a level has two prizes while requests come one at a time and name
\* tiers by their own events.
THEOREM TiersStayApart == Spec => []TidyUnlessCareless
BY Inductive, PTL DEF IInv
=============================================================================
