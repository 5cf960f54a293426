----------------------------- MODULE DnsRecords -----------------------------
(***************************************************************************)
(* The DNS records of one stack: its rows in database_dns_records and its  *)
(* names in the Route 53 zone, under the deliveries of its create job,     *)
(* each with the workers it has chosen.                                    *)
(*                                                                         *)
(* A worker gives one record: its number makes the name, its own name is   *)
(* the value.  So a record is known by its worker.                         *)
(***************************************************************************)
EXTENDS Integers, Sequences, FiniteSets, SequencesExt

CONSTANTS
    WorkerSets,     \* the sets of workers a delivery may have chosen
    MaxAttempts,    \* retryAttempts: tries of one change
    MaxDeliveries,  \* bound on the deliveries
    MaxFaults       \* bound on the calls of Route 53 and the database that fail

VARIABLES
    zone,       \* the records Route 53 serves
    rows,       \* rows of the stack, in the order of their creation
    job,        \* what the delivery is doing
    deliveries, \* deliveries begun
    faults,     \* calls that failed
    lost        \* history: a delivery died, or could not store its rows
\* Its properties are DeliveredNamesResolve and ZoneAndRowsAgree.
INSTANCE DnsZone

vars == <<zone, rows, job, deliveries, faults, lost>>

\* A row says whether its names were made.
DnsRow == [record : UNION WorkerSets, status : {"ACTIVE", "FAILED"}]

Idle == [at |-> "idle", want |-> {}, tries |-> 0, clean |-> FALSE]
Goto(place) == job' = [job EXCEPT !.at = place, !.tries = 1]

-----------------------------------------------------------------------------
(* The four changes a delivery may send to Route 53.                        *)

\* existing records, before anything else; the wanted ones; and when that
\* fails, the wanted ones deleted and inserted once more.
Changes == {"clean", "upsert", "conflict", "again"}

\* Mutant of OnSuccess: what was deleted as conflicting is not inserted again.
OnSuccessStore == CASE job.at = "clean" -> "forget"
                    [] job.at \in {"conflict", "upsert", "again"} -> "store"

OnSuccess == CASE job.at = "clean" -> "forget"
               [] job.at = "conflict" -> "again"
               [] job.at \in {"upsert", "again"} -> "store"

\* Mutant of OnFailure: the rows go although their names may still be there.
OnFailureForget == CASE job.at = "clean" -> "forget"
                     [] job.at = "upsert" -> "conflict"
                     [] job.at = "conflict" -> "again"
                     [] job.at = "again" -> "give up"

OnFailure == CASE job.at = "clean" -> "upsert"
               [] job.at = "upsert" -> "conflict"
               [] job.at = "conflict" -> "again"
               [] job.at = "again" -> "give up"

Batch == IF job.at = "clean" THEN Recorded ELSE job.want

Applied == IF job.at \in {"clean", "conflict"} THEN zone \ Batch ELSE zone \cup Batch

\* InvalidChangeBatch: a record to delete is not there, or is named twice.
Invalid ==
    \/ job.at \in {"clean", "conflict"} /\ ~(Batch \subseteq zone)
    \/ job.at = "clean" /\ Len(rows) # Cardinality(Batch)

ChangeWorks ==
    /\ job.at \in Changes
    /\ ~Invalid
    /\ zone' = Applied
    /\ Goto(OnSuccess)
    /\ UNCHANGED <<rows, deliveries, faults, lost>>

\* retryOperation does not repeat it.
ChangeIsInvalid ==
    /\ job.at \in Changes
    /\ Invalid
    /\ Goto(OnFailure)
    /\ UNCHANGED <<zone, rows, deliveries, faults, lost>>

\* Any other error, of a change that was made or not, is tried again.
ChangeFails ==
    /\ job.at \in Changes
    /\ faults < MaxFaults
    /\ faults' = faults + 1
    /\ zone' \in {zone} \cup (IF Invalid THEN {} ELSE {Applied})
    /\ job' = IF job.tries < MaxAttempts
              THEN [job EXCEPT !.tries = @ + 1, !.clean = FALSE]
              ELSE [job EXCEPT !.at = OnFailure, !.tries = 1, !.clean = FALSE]
    /\ UNCHANGED <<rows, deliveries, lost>>

\* The change is made, and the wait for its propagation ends in an error.
PropagationTimesOut ==
    /\ job.at \in Changes
    /\ ~Invalid
    /\ faults < MaxFaults
    /\ faults' = faults + 1
    /\ zone' = Applied
    /\ job' = [job EXCEPT !.at = OnFailure, !.tries = 1, !.clean = FALSE]
    /\ UNCHANGED <<rows, deliveries, lost>>

-----------------------------------------------------------------------------
(* createDatabaseDnsRecords *)

\* A delivery comes to this step with the workers it has chosen.
Deliver(workers) ==
    /\ Resting
    /\ deliveries < MaxDeliveries
    /\ deliveries' = deliveries + 1
    /\ job' = [Idle EXCEPT !.at = "find", !.want = workers]
    /\ UNCHANGED <<zone, rows, faults, lost>>

\* The delivery can clean up after the others if rows and zone agree.
FindRows ==
    /\ job.at = "find"
    /\ job' = [job EXCEPT !.at = IF rows = <<>> THEN "upsert" ELSE "clean",
                          !.tries = 1,
                          !.clean = Recorded = zone /\ Len(rows) = Cardinality(zone)]
    /\ UNCHANGED <<zone, rows, deliveries, faults, lost>>

\* deleteByStackNameAndDnsZoneId.  If it fails the error is only logged.
ForgetRows ==
    /\ job.at = "forget"
    /\ rows' = <<>>
    /\ Goto("upsert")
    /\ UNCHANGED <<zone, deliveries, faults, lost>>

ForgetFails ==
    /\ job.at = "forget"
    /\ faults < MaxFaults
    /\ faults' = faults + 1
    /\ job' = [job EXCEPT !.at = "upsert", !.tries = 1, !.clean = FALSE]
    /\ UNCHANGED <<zone, rows, deliveries, lost>>

\* storeDnsRecords: one insert for all the rows.
Store(status) ==
    LET new == SetToSeq(job.want)
    IN  rows' = rows \o [k \in DOMAIN new |-> [record |-> new[k], status |-> status]]

StoreActive ==
    /\ job.at = "store"
    /\ Store("ACTIVE")
    /\ Goto("ok")
    /\ UNCHANGED <<zone, deliveries, faults, lost>>

\* The handler of both errors, which the job does not survive.
StoreFailed ==
    /\ job.at = "give up"
    /\ Store("FAILED")
    /\ Goto("failed")
    /\ UNCHANGED <<zone, deliveries, faults, lost>>

StoreFails ==
    /\ job.at \in {"store", "give up"}
    /\ faults < MaxFaults
    /\ faults' = faults + 1
    /\ lost' = (lost \/ job.at = "give up")
    /\ Goto(IF job.at = "store" THEN "give up" ELSE "failed")
    /\ UNCHANGED <<zone, rows, deliveries>>

Crash ==
    /\ ~Resting
    /\ Goto("failed")
    /\ lost' = TRUE
    /\ UNCHANGED <<zone, rows, deliveries, faults>>

Init ==
    /\ zone = {} /\ rows = <<>> /\ job = Idle
    /\ deliveries = 0 /\ faults = 0 /\ lost = FALSE

Next ==
    \/ \E workers \in WorkerSets : Deliver(workers)
    \/ FindRows \/ ForgetRows \/ ForgetFails
    \/ ChangeWorks \/ ChangeIsInvalid \/ ChangeFails \/ PropagationTimesOut
    \/ StoreActive \/ StoreFailed \/ StoreFails \/ Crash

Spec == Init /\ [][Next]_vars

-----------------------------------------------------------------------------
TypeOK ==
    /\ zone \subseteq UNION WorkerSets /\ rows \in Seq(DnsRow)
    /\ job.at \in Changes \cup {"idle", "find", "forget", "store", "give up",
                                "ok", "failed"}
    /\ job.tries \in 0 .. MaxAttempts
    /\ deliveries \in 0 .. MaxDeliveries /\ faults \in 0 .. MaxFaults
=============================================================================
