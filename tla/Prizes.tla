------------------------------- MODULE Prizes -------------------------------
(***************************************************************************)
(* The prize tiers of the events: an inclusive range of ranks of one level *)
(* of one event each. A tier is compared with the ones on file by one      *)
(* statement and written by a later one, and nothing in the table prizes   *)
(* keeps two tiers apart.                                                  *)
(***************************************************************************)
EXTENDS Naturals

CONSTANTS
    Event,
    Level,    \* academic levels
    Input,    \* what admins submit for a tier
    PrizeId,  \* ids of rows of the table prizes, never drawn twice
    Request,  \* slots for requests in flight
    None

Tier == [level : Level, from : Nat \ {0}, to : Nat \ {0}]

ASSUME NoneAssumption == None \notin Event \cup PrizeId \cup Input
\* Input.validate
ASSUME InputAssumption == \A n \in Input : n \in Tier /\ n.from <= n.to

VARIABLES
    prizes,   \* table prizes
    used,     \* ids drawn so far
    req,      \* requests in flight
    careless  \* history: requests have overlapped, or one named the tier of another event

vars == <<prizes, used, req, careless>>

-----------------------------------------------------------------------------
Row == [event : Event, tier : Input]
NoRow == [event |-> None]

RequestRecord == [phase : {"idle", "check", "write"}, event : Event \cup {None},
                  id : PrizeId \cup {None}, input : Input \cup {None}]
Idle == [phase |-> "idle", event |-> None, id |-> None, input |-> None]

Exists(i) == prizes[i] # NoRow
Stored == {i \in PrizeId : Exists(i)}

End(r) == req' = [req EXCEPT ![r] = Idle]

Init ==
    /\ prizes = [i \in PrizeId |-> NoRow]
    /\ used = {}
    /\ req = [r \in Request |-> Idle]
    /\ careless = FALSE

-----------------------------------------------------------------------------
\* Create, and Update of a tier that is or was there. Both the event and the
\* tier come from the path of the request, and nothing relates them.
Send(r) ==
    /\ req[r] = Idle
    /\ \E e \in Event, i \in used \cup {None}, n \in Input :
         /\ req' = [req EXCEPT ![r] = [phase |-> "check", event |-> e, id |-> i, input |-> n]]
         /\ careless' = \/ careless
                        \/ \E q \in Request : req[q] # Idle
                        \/ i \in Stored /\ prizes[i].event # e
    /\ UNCHANGED <<prizes, used>>

Overlap(a, b) == a.from <= b.to /\ b.from <= a.to

\* Mutant of Collides: adjacent ends do not count.
CollidesInside(e, n, self) ==
    \E i \in Stored \ {self} :
        /\ prizes[i].event = e
        /\ prizes[i].tier.level = n.level
        /\ n.from < prizes[i].tier.to
        /\ prizes[i].tier.from < n.to

\* checkNoOverlap: against the tiers of the event in the path, but the one that
\* is updated.
Collides(e, n, self) ==
    \E i \in Stored \ {self} :
        /\ prizes[i].event = e
        /\ prizes[i].tier.level = n.level
        /\ Overlap(n, prizes[i].tier)

CheckNoOverlap(r) ==
    /\ req[r].phase = "check"
    /\ IF Collides(req[r].event, req[r].input, req[r].id)
       THEN End(r) ELSE req' = [req EXCEPT ![r].phase = "write"]
    /\ UNCHANGED <<prizes, used, careless>>

Create(r) ==
    /\ req[r].phase = "write"
    /\ req[r].id = None
    /\ \E i \in PrizeId \ used :
         /\ prizes' = [prizes EXCEPT ![i] = [event |-> req[r].event, tier |-> req[r].input]]
         /\ used' = used \cup {i}
    /\ End(r)
    /\ UNCHANGED careless

\* Mutant of Update: the upper end is left at its zero value.
UpdateWithoutEnd(r) ==
    LET i == req[r].id IN
    /\ req[r].phase = "write"
    /\ i # None
    /\ prizes' = IF Exists(i) THEN [prizes EXCEPT ![i].tier = [req[r].input EXCEPT !.to = 0]] ELSE prizes
    /\ End(r)
    /\ UNCHANGED <<used, careless>>

\* The row keeps its event, whichever the path named. A row deleted meanwhile
\* is answered with ErrNotFound.
Update(r) ==
    LET i == req[r].id IN
    /\ req[r].phase = "write"
    /\ i # None
    /\ prizes' = IF Exists(i) THEN [prizes EXCEPT ![i].tier = req[r].input] ELSE prizes
    /\ End(r)
    /\ UNCHANGED <<used, careless>>

\* One statement, whatever the event in the path.
Delete(i) ==
    /\ Exists(i)
    /\ prizes' = [prizes EXCEPT ![i] = NoRow]
    /\ UNCHANGED <<used, req, careless>>

\* A statement fails, the client hangs up or the process dies.
Abort(r) ==
    /\ req[r] # Idle
    /\ End(r)
    /\ UNCHANGED <<prizes, used, careless>>

Next ==
    \/ \E r \in Request : Send(r) \/ CheckNoOverlap(r) \/ Create(r) \/ Update(r) \/ Abort(r)
    \/ \E i \in PrizeId : Delete(i)

Spec == Init /\ [][Next]_vars

-----------------------------------------------------------------------------
(* Properties *)

\* Every variable keeps its type.
TypeOK ==
    /\ prizes \in [PrizeId -> Row \cup {NoRow}]
    /\ used \subseteq PrizeId
    /\ Stored \subseteq used
    /\ req \in [Request -> RequestRecord]
    /\ careless \in BOOLEAN

NoOverlap ==
    \A i, j \in Stored :
        i # j /\ prizes[i].event = prizes[j].event /\ prizes[i].tier.level = prizes[j].tier.level
          => ~Overlap(prizes[i].tier, prizes[j].tier)

\* No rank of a level has two prizes for as long as requests have not overlapped
\* and every update has named the tier by its own event; deletions may come at any
\* time. The database has no constraint that would promise more.
TidyUnlessCareless == ~careless => NoOverlap
=============================================================================
