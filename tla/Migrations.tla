----------------------------- MODULE Migrations -----------------------------
(***************************************************************************)
(* Instances of the service boot against one database: each applies the    *)
(* migration files it carries that are not recorded yet, file by file and  *)
(* in order, and serves once none is left.  Nothing coordinates instances  *)
(* that boot together but the primary key of schema_migrations; an         *)
(* instance that meets an error exits, and is started again.               *)
(***************************************************************************)
EXTENDS Naturals

CONSTANTS
    Instance,
    LastFile,   \* the files are 1..LastFile, in filename order
    Carried,    \* how many of them each instance's build embeds
    MaxFaults   \* bound of what may fail for no reason of its own

File == 1..LastFile

VARIABLES
    recorded,   \* table schema_migrations
    applied,    \* how often each file has changed the schema for good
    boot,       \* where each process is in main and Migrate
    faults

vars == <<recorded, applied, boot, faults>>

-----------------------------------------------------------------------------
Phase == {"down", "bootstrap", "check", "apply", "record", "commit", "serving", "stopped"}
Down == [phase |-> "down", next |-> 1]

\* Mutant of Exits: main logs the error of Migrate and goes on.
ExitsNot(i) == boot' = [boot EXCEPT ![i].phase = "serving"]

\* os.Exit(1); what a transaction had not committed is rolled back.
Exits(i) == boot' = [boot EXCEPT ![i] = Down]

Goto(i, p) == boot' = [boot EXCEPT ![i].phase = p]

\* An earlier release has left the database with the first files.
Init ==
    /\ \E n \in 0..LastFile : recorded = 1..n
    /\ applied = [f \in File |-> IF f \in recorded THEN 1 ELSE 0]
    /\ boot = [i \in Instance |-> Down]
    /\ faults = 0

Start(i) ==
    /\ boot[i].phase = "down"
    /\ Goto(i, "bootstrap")
    /\ UNCHANGED <<recorded, applied, faults>>

\* CREATE TABLE IF NOT EXISTS schema_migrations.
Bootstrap(i) ==
    /\ boot[i].phase = "bootstrap"
    /\ Goto(i, "check")
    /\ UNCHANGED <<recorded, applied, faults>>

\* Mutant of Check: what is recorded is applied again.
CheckNone(i) ==
    /\ boot[i].phase = "check"
    /\ Goto(i, IF boot[i].next > Carried[i] THEN "serving" ELSE "apply")
    /\ UNCHANGED <<recorded, applied, faults>>

\* SELECT EXISTS; after the last file the server starts.
Check(i) ==
    /\ boot[i].phase = "check"
    /\ IF boot[i].next > Carried[i] THEN Goto(i, "serving")
       ELSE IF boot[i].next \in recorded THEN boot' = [boot EXCEPT ![i].next = @ + 1]
       ELSE Goto(i, "apply")
    /\ UNCHANGED <<recorded, applied, faults>>

\* The file's statements, in a transaction.  Where another instance has
\* committed the file since the check, they may or may not be refused.
Apply(i) ==
    /\ boot[i].phase = "apply"
    /\ Goto(i, "record") \/ (boot[i].next \in recorded /\ Exits(i))
    /\ UNCHANGED <<recorded, applied, faults>>

Recording(i, f) == boot[i].phase = "commit" /\ boot[i].next = f

\* Mutant of Record: INSERT ... ON CONFLICT DO NOTHING.
RecordQuietly(i) ==
    /\ boot[i].phase = "record"
    /\ ~\E j \in Instance : Recording(j, boot[i].next)
    /\ Goto(i, "commit")
    /\ UNCHANGED <<recorded, applied, faults>>

\* The INSERT waits while another transaction holds the key, and fails on one
\* that is committed.
Record(i) ==
    /\ boot[i].phase = "record"
    /\ ~\E j \in Instance : Recording(j, boot[i].next)
    /\ IF boot[i].next \in recorded THEN Exits(i) ELSE Goto(i, "commit")
    /\ UNCHANGED <<recorded, applied, faults>>

\* The file's changes and its record, both or neither.
TakesEffect(f) ==
    /\ recorded' = recorded \cup {f}
    /\ applied' = [applied EXCEPT ![f] = @ + 1]

Commit(i) ==
    /\ boot[i].phase = "commit"
    /\ TakesEffect(boot[i].next)
    /\ boot' = [boot EXCEPT ![i] = [phase |-> "check", next |-> boot[i].next + 1]]
    /\ UNCHANGED faults

Boots(i) == Start(i) \/ Bootstrap(i) \/ Check(i) \/ Apply(i) \/ Record(i) \/ Commit(i)

-----------------------------------------------------------------------------
\* The database is out of reach, a statement fails or the process is killed.
Fault(i) ==
    /\ faults < MaxFaults
    /\ boot[i].phase \notin {"down", "stopped"}
    /\ Exits(i)
    /\ faults' = faults + 1
    /\ UNCHANGED <<recorded, applied>>

\* The commit goes through, but the instance does not hear of it.
CommitUnheard(i) ==
    /\ faults < MaxFaults
    /\ boot[i].phase = "commit"
    /\ TakesEffect(boot[i].next)
    /\ Exits(i)
    /\ faults' = faults + 1

\* SIGTERM: another release takes over.
Stop(i) ==
    /\ boot[i].phase = "serving"
    /\ Goto(i, "stopped")
    /\ UNCHANGED <<recorded, applied, faults>>

Next == \E i \in Instance : Boots(i) \/ Fault(i) \/ CommitUnheard(i) \/ Stop(i)

Spec == Init /\ [][Next]_vars

-----------------------------------------------------------------------------
(* Properties *)

\* Every variable keeps its type.
TypeOK ==
    /\ recorded \subseteq File
    /\ applied \in [File -> Nat]
    /\ boot \in [Instance -> [phase : Phase, next : 1..LastFile + 1]]
    /\ faults \in 0..MaxFaults

\* Each file changes the schema once, and is recorded exactly if it has, and
\* none before the ones it follows: whichever instances boot together, and
\* wherever one of them dies.
AppliedOnceInOrder ==
    \A f \in File :
        /\ applied[f] = IF f \in recorded THEN 1 ELSE 0
        /\ f \in recorded => 1..f \subseteq recorded

\* No instance serves requests on a schema that lacks one of its files.
ServesMigrated ==
    \A i \in Instance : boot[i].phase = "serving" => 1..Carried[i] \subseteq recorded
=============================================================================
