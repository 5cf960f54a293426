----------------------------- MODULE WorkerHealth -----------------------------
(***************************************************************************)
(* What the worker health check, which runs every five minutes and on      *)
(* GET /health, makes of job_history, and what is promised of it:          *)
(* JobMonitor is how the history is written.                               *)
(***************************************************************************)
EXTENDS Integers, Sequences, FiniteSets, Functions

CONSTANTS
    Job,            \* jobs
    LongAfter,      \* findLongRunningJobs: thirty minutes
    Hour, Day,      \* the windows in which jobs are counted, by their last start in the queue
    FailedPerHour, FailedPerDay,    \* failures that are no alert: 5 and 50
    ActiveAllowed,  \* unended jobs that are no alert while none completes: 10
    SlowAfter       \* average processing time that is no alert: 300 s

VARIABLES
    now,        \* the clock
    row,        \* the row of each job
    delivery    \* the deliveries of each job, in order

NoTime == -1

\* Places of a delivery, while its process lives.
Places == {"look", "record", "read", "activate", "work", "complete", "rescue"}

-----------------------------------------------------------------------------
(* WorkerHealthService.  The metrics are six queries beside each other; a       *)
(* change between two of them is one between two reports.                       *)

LongRunning == {j \in Job : row[j].status = "ACTIVE" /\ row[j].startedAt < now - LongAfter}

\* findActiveJobs; no row is ever given the status delayed.
ActiveJobs == {j \in Job : row[j].status \in {"QUEUED", "ACTIVE"}}

\* countJobsByStatusSince: since the job was last put into the queue, not since
\* it ended.
JobsByStatusSince(status, since) ==
    {j \in Job : row[j].status = status /\ row[j].queuedAt >= since}

FailedJobsCount(ago) == Cardinality(JobsByStatusSince("FAILED", now - ago))
CompletedJobsCount(ago) == Cardinality(JobsByStatusSince("COMPLETED", now - ago))

\* getCompletedJobsSince: without those that were never at work.
TimedJobsSince(since) ==
    {j \in JobsByStatusSince("COMPLETED", since) :
        row[j].startedAt # NoTime /\ row[j].finishedAt # NoTime}

\* getAverageProcessingTime, as a total over a number of jobs.
AverageProcessingTime(ago) ==
    LET timed == TimedJobsSince(now - ago)
    IN  [total |-> SumFunction([j \in timed |-> row[j].finishedAt - row[j].startedAt]),
         jobs |-> Cardinality(timed)]

Metrics == [longRunning |-> Cardinality(LongRunning),
            failedLastHour |-> FailedJobsCount(Hour),
            failedLastDay |-> FailedJobsCount(Day),
            active |-> Cardinality(ActiveJobs),
            completedLastHour |-> CompletedJobsCount(Hour),
            average |-> AverageProcessingTime(Day)]

\* generateAlerts: one alert for each sentence that is true of the metrics.
Alerts(metrics) ==
    {alert \in {"long running", "failures", "many failures", "stuck queue", "slow"} :
        CASE alert = "long running" -> metrics.longRunning > 0
          [] alert = "failures" -> metrics.failedLastHour > FailedPerHour
          [] alert = "many failures" -> metrics.failedLastDay > FailedPerDay
          [] alert = "stuck queue" -> /\ metrics.active > ActiveAllowed
                                      /\ metrics.completedLastHour = 0
          [] OTHER -> metrics.average.total > SlowAfter * metrics.average.jobs}

HealthStatus ==
    LET metrics == Metrics
        alerts == Alerts(metrics)
    IN  [healthy |-> alerts = {}, metrics |-> metrics, alerts |-> alerts]

\* The check job_workers of GET /health.
Check == IF HealthStatus.healthy THEN "ok" ELSE "error"
-----------------------------------------------------------------------------
\* Every delivery of the job found those before it dead.
Alone(j) == \A d \in DOMAIN delivery[j] : delivery[j][d].alone

\* A job that has been at work for too long is reported, whatever the deliveries
\* before it, all dead, have left in its row.
LongRunsAreReported ==
    \A j \in Job : \A d \in DOMAIN delivery[j] :
        (Alone(j) /\ delivery[j][d].at = "work" /\ delivery[j][d].began < now - LongAfter)
        => Check = "error" /\ "long running" \in HealthStatus.alerts

\* Jobs that are at work while none completes are told apart from a queue that
\* is quiet, and a job whose last word was a failure is not passed over.
StuckQueuesAreReported ==
    LET atWork == {j \in Job : /\ Alone(j)
                               /\ \E d \in DOMAIN delivery[j] :
                                     delivery[j][d].at \in {"read", "activate", "work"}}
        failed == {j \in Job : /\ now <= Hour
                               /\ Alone(j) /\ delivery[j] # <<>>
                               /\ delivery[j][Len(delivery[j])].at = "ended"
                               /\ row[j].status # "COMPLETED"}
    IN  /\ (/\ Cardinality(atWork) > ActiveAllowed
            /\ \A j \in Job : row[j].status # "COMPLETED")
               => "stuck queue" \in HealthStatus.alerts
        /\ Cardinality(failed) > FailedPerHour => "failures" \in HealthStatus.alerts

\* What is reported is running, or its process died: no job that came to an
\* end by itself is reported, in whatever order two deliveries of it end.
ReportsAreOfUnendedJobs ==
    \A j \in LongRunning : \E d \in DOMAIN delivery[j] :
        delivery[j][d].at \in Places \cup {"dead"}

\* The processing time that goes into the average covers each delivery that was
\* at work, from its beginning to the end of one of them; if deliveries overlap,
\* at least no end comes before the beginning.
TimesCoverTheWork ==
    \A j \in Job : row[j].status = "COMPLETED" =>
        /\ row[j].startedAt <= row[j].finishedAt
        /\ AverageProcessingTime(Day).total >= 0
        /\ \A d \in DOMAIN delivery[j] :
              Alone(j) /\ delivery[j][d].began # NoTime
                  => row[j].startedAt <= delivery[j][d].began

\* Deliveries of a job follow each other and overlap; its one row still tells of
\* them.
HistoryTellsTheWork ==
    /\ LongRunsAreReported
    /\ StuckQueuesAreReported
    /\ ReportsAreOfUnendedJobs
    /\ TimesCoverTheWork
=============================================================================
