----------------------------- MODULE JobMonitor -----------------------------
(***************************************************************************)
(* The time stamps of job_history.  What the worker health check makes of  *)
(* them is WorkerHealth.                                                   *)
(*                                                                         *)
(* A job is delivered again when BullMQ takes its process for dead, which  *)
(* it may not be: deliveries of a job overlap.                             *)
(***************************************************************************)
EXTENDS Integers, Sequences

CONSTANTS
    Job,            \* jobs
    LongAfter,      \* findLongRunningJobs: thirty minutes
    Hour, Day,      \* the windows in which jobs are counted, by their last start in the queue
    FailedPerHour, FailedPerDay,    \* failures that are no alert: 5 and 50
    ActiveAllowed,  \* unended jobs that are no alert while none completes: 10
    SlowAfter,      \* average processing time that is no alert: 300 s
    MaxNow,         \* bound on the clock
    MaxDeliveries   \* bound on the deliveries of a job

VARIABLES
    now,        \* the clock
    row,        \* the row of each job, unique by job_id_bullmq
    delivery    \* the deliveries of each job, in order
vars == <<now, row, delivery>>

INSTANCE WorkerHealth

NoRow == [status |-> "none", queuedAt |-> NoTime, startedAt |-> NoTime,
          finishedAt |-> NoTime, attempts |-> 0]
Times == {NoTime} \cup 0 .. MaxNow
Row == [status : {"none", "QUEUED", "ACTIVE", "COMPLETED", "FAILED"},
        queuedAt : Times, startedAt : Times, finishedAt : Times,
        attempts : 0 .. 2 * MaxDeliveries]

Alive(j, d) == delivery[j][d].at \in Places
Goto(j, d, place) ==
    delivery' = [delivery EXCEPT ![j][d] = [@ EXCEPT !.at = place, !.saw = NoRow]]

-----------------------------------------------------------------------------
\* The first delivery, or one more while the job is not known to have ended.
\* alone: every delivery before this one was dead.
Deliver(j) ==
    /\ Len(delivery[j]) < MaxDeliveries
    /\ \A d \in DOMAIN delivery[j] : delivery[j][d].at # "ended"
    /\ delivery' = [delivery EXCEPT ![j] = Append(@,
                      [at |-> "look", saw |-> NoRow, began |-> NoTime,
                       alone |-> \A d \in DOMAIN delivery[j] : delivery[j][d].at = "dead"])]
    /\ UNCHANGED <<now, row>>

\* The row is read, to be written by what it said.
ReadRow(j, d, from, to) ==
    /\ delivery[j][d].at = from
    /\ delivery' = [delivery EXCEPT ![j][d] = [@ EXCEPT !.at = to, !.saw = row[j]]]
    /\ UNCHANGED <<now, row>>

\* recordJobStart: upsertByJobId.  The row has one job_id_bullmq, so the second
\* of two inserts fails; an update writes only what differs from the row it read.
Record(j, d) ==
    LET saw == delivery[j][d].saw
        fails == saw = NoRow /\ row[j] # NoRow
    IN  /\ delivery[j][d].at = "record"
        /\ row' = IF fails THEN row
                  ELSE [row EXCEPT
                          ![j].status = IF saw.status = "QUEUED" THEN @ ELSE "QUEUED",
                          ![j].queuedAt = now,
                          ![j].attempts = IF saw = NoRow THEN 0 ELSE saw.attempts + 1]
        /\ Goto(j, d, IF fails THEN "rescue" ELSE "read")
        /\ UNCHANGED now

\* Mutant of Activate: each delivery starts the time anew.
ActivateAnew(j, d) ==
    /\ delivery[j][d].at = "activate"
    /\ row' = [row EXCEPT ![j].status = "ACTIVE", ![j].startedAt = now]
    /\ delivery' = [delivery EXCEPT ![j][d] =
                      [@ EXCEPT !.at = "work", !.saw = NoRow, !.began = now]]
    /\ UNCHANGED now

\* updateJobStatus(ACTIVE): the start is set if the row that was read had none.
Activate(j, d) ==
    /\ delivery[j][d].at = "activate"
    /\ row' = [row EXCEPT
                  ![j].status = "ACTIVE",
                  ![j].startedAt = IF delivery[j][d].saw.startedAt = NoTime THEN now ELSE @]
    /\ delivery' = [delivery EXCEPT ![j][d] =
                      [@ EXCEPT !.at = "work", !.saw = NoRow, !.began = now]]
    /\ UNCHANGED now

\* executeJobLogic comes to its end, or to an error.
Work(j, d) ==
    /\ delivery[j][d].at = "work"
    /\ \E outcome \in {"complete", "rescue"} : Goto(j, d, outcome)
    /\ UNCHANGED <<now, row>>

\* updateJobStatus(COMPLETED)
Complete(j, d) ==
    /\ delivery[j][d].at = "complete"
    /\ row' = [row EXCEPT ![j].status = "COMPLETED", ![j].finishedAt = now]
    /\ Goto(j, d, "ended")
    /\ UNCHANGED now

\* rescue: updateJobStatus(FAILED), with the attempts BullMQ has counted.
Rescue(j, d) ==
    /\ delivery[j][d].at = "rescue"
    /\ row' = [row EXCEPT ![j].status = "FAILED", ![j].finishedAt = now,
                          ![j].attempts = d]
    /\ Goto(j, d, "ended")
    /\ UNCHANGED now

\* The process dies, and writes nothing more.
Die(j, d) ==
    /\ Alive(j, d)
    /\ Goto(j, d, "dead")
    /\ UNCHANGED <<now, row>>

Tick ==
    /\ now < MaxNow
    /\ now' = now + 1
    /\ UNCHANGED <<row, delivery>>

Init ==
    /\ now = 0
    /\ row = [j \in Job |-> NoRow]
    /\ delivery = [j \in Job |-> <<>>]

Next ==
    \/ \E j \in Job :
          \/ Deliver(j)
          \/ \E d \in DOMAIN delivery[j] :
                \/ ReadRow(j, d, "look", "record") \/ Record(j, d)
                \/ ReadRow(j, d, "read", "activate") \/ Activate(j, d) \/ Work(j, d)
                \/ Complete(j, d) \/ Rescue(j, d) \/ Die(j, d)
    \/ Tick

Spec == Init /\ [][Next]_vars

-----------------------------------------------------------------------------
TypeOK ==
    /\ now \in 0 .. MaxNow
    /\ \A j \in Job :
          /\ row[j] \in Row
          /\ \A d \in DOMAIN delivery[j] : delivery[j][d].at \in Places \cup {"ended", "dead"}
=============================================================================
