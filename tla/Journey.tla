------------------------------ MODULE Journey ------------------------------
(***************************************************************************)
(* A student's way into a round, through three components that share the   *)
(* tables users and exam_registrations: the profile and its review         *)
(* (Accounts), the registration for an event and its approval              *)
(* (Registrations, extended here), the rounds of one event and their gate  *)
(* (Rounds).  Rounds by itself lets what the gate reads of a student       *)
(* change as it may; here it is what the other two have written.           *)
(*                                                                         *)
(* The sign-up is left to Accounts: every student has an account already.  *)
(***************************************************************************)
EXTENDS Registrations, Sequences

CONSTANTS
    Level, Details, Doc, RoundId, Input, Batch,
    Held,           \* the event whose rounds these are
    LevelOf,        \* the level that details name
    Edit,           \* slots for profile submissions
    Gate,           \* slots for requests about rounds
    RoundCall,      \* the first phases of the requests about rounds, and "delete"
    Duration, MaxTime, MaxRank

VARIABLES
    row, sub, reviewed, overtaken,      \* of Accounts
    rounds, decisions, clock, gate,     \* of Rounds
    vetted      \* history: students with a level an admin has verified them for

accountVars == <<row, sub, reviewed, overtaken>>
roundVars == <<rounds, decisions, clock, gate>>
journeyVars == <<vars, accountVars, roundVars, vetted>>

-----------------------------------------------------------------------------
\* No sign-up is under way, and every address is taken for proved.
Account == INSTANCE Accounts WITH
    Code <- {}, Request <- {}, Submission <- Edit, req <- [r \in {} |-> None],
    issued <- [u \in User |-> {}], submitted <- [u \in User |-> {}], vouched <- {u \in User : TRUE}

Approved(u) ==
    \E i \in Stored : regs[i].user = u /\ regs[i].event = Held /\ regs[i].status = "approved"

\* What the gate reads of users and exam_registrations.
AsRead(u) ==
    [level |-> IF row[u].details = None THEN None ELSE LevelOf[row[u].details],
     verified |-> row[u].status = "verified",
     approved |-> Approved(u)]

Round == INSTANCE Rounds WITH
    Student <- User, Request <- Gate, req <- gate,
    Profile <- [level : Level \cup {None}, verified : BOOLEAN, approved : BOOLEAN],
    student <- [u \in User |-> AsRead(u)]

ASSUME HeldAssumption == Held \in Event
ASSUME LevelAssumption == LevelOf \in [Details -> Level]
ASSUME NoValueAssumption == None \notin Details \cup Doc \cup Level \cup RoundId
ASSUME RoundsAssumption ==
    /\ Duration \in Nat \ {0} /\ MaxTime \in Nat /\ MaxRank \in Nat
    /\ Input \subseteq Round!RoundInput
    /\ Batch \subseteq Seq(Round!DecisionRow)

-----------------------------------------------------------------------------
JourneyInit ==
    /\ Init
    /\ row = [u \in User |-> Account!NewRow(TRUE, FALSE, TRUE)]
    /\ sub = [s \in Edit |-> Account!NoSubmission]
    /\ reviewed = [u \in User |-> [details |-> None, doc |-> None]]
    /\ overtaken = {}
    /\ rounds = [i \in RoundId |-> Round!NoRow]
    /\ decisions = [i \in RoundId |-> Round!NoDecisions]
    /\ clock = 0
    /\ gate = [r \in Gate |-> Round!Idle]
    /\ vetted = {}

\* Profiles.
Onboards(s) ==
    /\ \/ Account!Submit(s) \/ Account!LoadProfile(s)
       \/ Account!SaveProfile(s) \/ Account!AbortSubmission(s)
    /\ UNCHANGED <<vars, roundVars, vetted>>

Decides(u, decision) ==
    /\ Account!VerifyUser(u, decision)
    /\ vetted' = IF decision = "verified" /\ row[u].details # None
                 THEN vetted \cup {<<u, LevelOf[row[u].details]>>} ELSE vetted
    /\ UNCHANGED <<vars, roundVars>>

\* Registrations, admit cards and the closing of an event.
Registers ==
    /\ Next
    /\ UNCHANGED <<accountVars, roundVars, vetted>>

\* Rounds.
Others == <<vars, accountVars, vetted>>

Calls(r) ==
    /\ UNCHANGED Others
    /\ Round!Send(r)
    /\ gate'[r].phase \in RoundCall

Proceeds(r) ==
    /\ UNCHANGED Others
    /\ \/ Round!CheckNoOtherFinal(r) \/ Round!Insert(r) \/ Round!LoadForUpdate(r) \/ Round!Update(r)
       \/ Round!LoadEnded(r) \/ Round!Record(r) \/ Round!ReplyRankTaken(r)
       \/ Round!LoadForEnter(r) \/ Round!CheckUser(r) \/ Round!RecheckUser(r)
       \/ Round!CheckRegistration(r) \/ Round!FindPrevious(r) \/ Round!CheckDecision(r)
       \/ Round!ReplyAllowed(r) \/ Round!Abort(r)

Moves(i) ==
    /\ UNCHANGED Others
    /\ Round!StartRound(i) \/ Round!EndRound(i) \/ ("delete" \in RoundCall /\ Round!DeleteRound(i))

Tick ==
    /\ UNCHANGED Others
    /\ Round!Tick

JourneyNext ==
    \/ \E s \in Edit : Onboards(s)
    \/ \E u \in User, d \in {"verified", "rejected"} : Decides(u, d)
    \/ Registers
    \/ \E r \in Gate : Calls(r) \/ Proceeds(r)
    \/ \E i \in RoundId : Moves(i)
    \/ Tick

JourneySpec == JourneyInit /\ [][JourneyNext]_journeyVars

-----------------------------------------------------------------------------
(* Properties *)

\* Whatever the other components write, it changes what the gate reads only in
\* the ways Rounds allows for (an approval, once given, stays), so that what is
\* shown of Rounds by itself holds of the whole.
ImplementsRounds == Round!Spec

\* Whoever is let into a round was verified by an admin, at some time, as a
\* student of the very level of that round, however submissions, reviews and the
\* reads of the gate overlap.  The exception is that of VerifiedAsReviewed: a
\* submission that overtook another can leave a verified status on details
\* nobody reviewed.
EntrantVetted ==
    \A r \in Gate : gate[r].phase = "allowed" /\ gate[r].user \notin overtaken
                       => <<gate[r].user, gate[r].seen.level>> \in vetted
=============================================================================
