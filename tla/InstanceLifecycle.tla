-------------------------- MODULE InstanceLifecycle --------------------------
(***************************************************************************)
(* The life of a managed database instance, from the API call that         *)
(* inserts its row to the job that soft-deletes it.                        *)
(*                                                                         *)
(* Three kinds of actors share the rows of Postgres and the Docker swarm:  *)
(*   - the HTTP handlers (DatabaseInstanceService), which write the        *)
(*     instance row and then dispatch a job;                               *)
(*   - BullMQ (external), which hands each job to one queue process, first *)
(*     in first out, and delivers once more a job whose process died;      *)
(*   - the queue processes (BaseDatabaseJob), which run the deployment and *)
(*     the deletion orchestrators one step at a time.                      *)
(*                                                                         *)
(* One action is one step between two awaits that other actors can         *)
(* observe.  A step named in Faulty may throw instead of succeeding.       *)
(***************************************************************************)
EXTENDS Naturals, FiniteSets

CONSTANTS
    Instance,      \* the database instances the API may create
    Proc,          \* the queue processes (queue:listen)
    Replicated,    \* the instances deployed as a replica set
    Tls,           \* the instances whose tlsMode is not OFF
    PortStart, PortEnd,  \* DefaultPortRange
    ForeignPorts,  \* ports of the swarm published by services of others
    Faulty,        \* the steps that may fail
    MaxUpdates, MaxDeletes,  \* API calls per instance, a bound
    MaxCrashes,    \* crashes of queue processes, a bound
    MaxFaults,     \* steps that fail, a bound
    MaxStalls,     \* BullMQ's maxStalledCount: redeliveries of one job
    NoJob          \* what an idle process works on

Kinds == {"create", "update", "delete"}

\* A job is the n-th call of its kind for its instance.
Job == [kind : {"create"}, inst : Instance, n : {1}]
         \cup [kind : {"update"}, inst : Instance, n : 1..MaxUpdates]
         \cup [kind : {"delete"}, inst : Instance, n : 1..MaxDeletes]

CreateJob(i) == [kind |-> "create", inst |-> i, n |-> 1]

DeploySteps == {"load", "ports", "reserve", "secure", "stack", "dns",
                "init", "initrun", "persist", "counts"}
DeleteSteps == {"dload", "drm", "dmark", "dsoft"}
CommonSteps == {"record", "activate", "complete", "ack", "failing", "rescue"}
Steps == DeploySteps \cup DeleteSteps \cup CommonSteps \cup {"cleanup"}

ASSUME LifecycleConstants ==
    /\ NoJob \notin Job
    /\ PortStart \in Nat \ {0} /\ PortEnd \in Nat
    /\ Faulty \subseteq Steps
    /\ Replicated \subseteq Instance /\ Tls \subseteq Instance
    /\ MaxStalls \in Nat /\ MaxCrashes \in Nat /\ MaxFaults \in Nat
    /\ MaxUpdates \in Nat /\ MaxDeletes \in Nat

Ports == PortStart..PortEnd

Statuses == {"NONE", "PROVISIONING", "DEPLOYING", "RUNNING", "FAILED",
             "DELETING", "DELETED"}
Secrets == {"tlscert", "ca", "replicakey"}
JobStates == {"none", "called", "lost", "waiting", "active", "stalled", "done"}
HistStates == {"NONE", "QUEUED", "ACTIVE", "COMPLETED", "FAILED"}

VARIABLES
    \* Postgres
    status,     \* database_instances.status ("NONE": no row)
    gone,       \* database_instances.deleted_at is set
    conn,       \* database_connections.port (0: no row)
    creds,      \* the connection row holds URIs and passwords
    dep,        \* the database_deployments row exists
    hist,       \* job_histories.status
    dnsRow,     \* database_dns_records.status of the instance
    \* Docker swarm
    stack,      \* the port the instance's stack publishes (0: no stack)
    secrets,    \* the stack's Docker secrets
    \* BullMQ
    jobState,   \* where the job is
    ticket,     \* its place in the queue, kept when it is redelivered
    nextTicket,
    stalls,     \* how often it was redelivered
    \* queue processes
    pc,         \* the step the process is about to run
    cur,        \* the job it runs
    port,       \* the port it allocated for the job
    \* the environment
    crashes, faults

rows   == <<status, gone, conn, creds, dep, dnsRow>>
swarm  == <<stack, secrets>>
queue  == <<jobState, ticket, nextTicket, stalls>>
worker == <<pc, cur, port>>
env    == <<crashes, faults>>
vars   == <<rows, hist, swarm, queue, worker, env>>

TypeOK ==
    /\ status \in [Instance -> Statuses]
    /\ gone \in [Instance -> BOOLEAN]
    /\ conn \in [Instance -> Ports \cup {0}]
    /\ creds \in [Instance -> BOOLEAN]
    /\ dep \in [Instance -> BOOLEAN]
    /\ dnsRow \in [Instance -> {"NONE", "ACTIVE", "FAILED"}]
    /\ hist \in [Job -> HistStates]
    /\ stack \in [Instance -> Ports \cup {0}]
    /\ secrets \in [Instance -> SUBSET Secrets]
    /\ jobState \in [Job -> JobStates]
    /\ ticket \in [Job -> Nat]
    /\ nextTicket \in Nat
    /\ stalls \in [Job -> Nat]
    /\ pc \in [Proc -> Steps \cup {"idle"}]
    /\ cur \in [Proc -> Job \cup {NoJob}]
    /\ port \in [Proc -> Ports \cup {0}]
    /\ crashes \in Nat /\ faults \in Nat
    /\ \A p \in Proc : pc[p] # "idle" => cur[p] \in Job

Init ==
    /\ status = [i \in Instance |-> "NONE"]
    /\ gone = [i \in Instance |-> FALSE]
    /\ conn = [i \in Instance |-> 0]
    /\ creds = [i \in Instance |-> FALSE]
    /\ dep = [i \in Instance |-> FALSE]
    /\ dnsRow = [i \in Instance |-> "NONE"]
    /\ hist = [j \in Job |-> "NONE"]
    /\ stack = [i \in Instance |-> 0]
    /\ secrets = [i \in Instance |-> {}]
    /\ jobState = [j \in Job |-> "none"]
    /\ ticket = [j \in Job |-> 0]
    /\ nextTicket = 1
    /\ stalls = [j \in Job |-> 0]
    /\ pc = [p \in Proc |-> "idle"]
    /\ cur = [p \in Proc |-> NoJob]
    /\ port = [p \in Proc |-> 0]
    /\ crashes = 0 /\ faults = 0

-----------------------------------------------------------------------------
(* HTTP handlers.  A handler writes the row, then awaits the dispatch.     *)

\* createInContext: the row is inserted before the job is dispatched.
ApiCreate(i) ==
    /\ status[i] = "NONE"
    /\ status' = [status EXCEPT ![i] = "PROVISIONING"]
    /\ jobState' = [jobState EXCEPT ![CreateJob(i)] = "called"]
    /\ UNCHANGED <<gone, conn, creds, dep, dnsRow, hist, swarm>>
    /\ UNCHANGED <<ticket, nextTicket, stalls, worker, env>>

\* updateInContext: the fields it writes (name, size) are not modelled.
ApiUpdate(j) ==
    /\ j.kind = "update" /\ jobState[j] = "none"
    /\ status[j.inst] # "NONE" /\ ~gone[j.inst]
    /\ jobState' = [jobState EXCEPT ![j] = "called"]
    /\ UNCHANGED <<rows, hist, swarm, ticket, nextTicket, stalls, worker, env>>

\* deleteInContext: markAsDeleting asks nothing of the current status.
ApiDelete(j) ==
    /\ j.kind = "delete" /\ jobState[j] = "none"
    /\ status[j.inst] # "NONE" /\ ~gone[j.inst]
    /\ status' = [status EXCEPT ![j.inst] = "DELETING"]
    /\ jobState' = [jobState EXCEPT ![j] = "called"]
    /\ UNCHANGED <<gone, conn, creds, dep, dnsRow, hist, swarm>>
    /\ UNCHANGED <<ticket, nextTicket, stalls, worker, env>>

\* MongodbJobDispatcher: the job is added to the queue.
Dispatch(j) ==
    /\ jobState[j] = "called"
    /\ jobState' = [jobState EXCEPT ![j] = "waiting"]
    /\ ticket' = [ticket EXCEPT ![j] = nextTicket]
    /\ nextTicket' = nextTicket + 1
    /\ UNCHANGED <<rows, hist, swarm, stalls, worker, env>>

\* The HTTP process dies, or Redis refuses the job: nothing undoes the row.
LoseDispatch(j) ==
    /\ jobState[j] = "called"
    /\ jobState' = [jobState EXCEPT ![j] = "lost"]
    /\ UNCHANGED <<rows, hist, swarm, ticket, nextTicket, stalls, worker, env>>

-----------------------------------------------------------------------------
(* Every job: BaseDatabaseJob.handle and rescue.                           *)

Goto(p, step) == pc' = [pc EXCEPT ![p] = step]
At(p, step) == pc[p] = step
Inst(p) == cur[p].inst

\* What the process goes back to between two jobs.
Idle(p) ==
    /\ pc' = [pc EXCEPT ![p] = "idle"]
    /\ cur' = [cur EXCEPT ![p] = NoJob]
    /\ port' = [port EXCEPT ![p] = 0]

\* An exception inside the deployment orchestrator's try reaches its catch,
\* any other one leaves the job.
Catch(step) == IF step \in DeploySteps THEN "cleanup" ELSE "failing"

\* The process takes the oldest waiting job.
Take(p) ==
    /\ At(p, "idle")
    /\ \E j \in Job :
         /\ jobState[j] = "waiting"
         /\ \A k \in Job : jobState[k] = "waiting" => ticket[j] <= ticket[k]
         /\ jobState' = [jobState EXCEPT ![j] = "active"]
         /\ cur' = [cur EXCEPT ![p] = j]
    /\ Goto(p, "record")
    /\ UNCHANGED <<rows, hist, swarm, ticket, nextTicket, stalls, port, env>>

\* recordJobStart: a redelivered job writes over its earlier history.
Record(p) ==
    /\ At(p, "record")
    /\ hist' = [hist EXCEPT ![cur[p]] = "QUEUED"]
    /\ Goto(p, "activate")
    /\ UNCHANGED <<rows, swarm, queue, cur, port, env>>

FirstStep(kind) ==
    CASE kind = "create" -> "load"
      [] kind = "delete" -> "dload"
      [] kind = "update" -> "complete"   \* UpdateMongodb runs no code yet

\* updateJobStatus(ACTIVE), then executeJobLogic.
Activate(p) ==
    /\ At(p, "activate")
    /\ hist' = [hist EXCEPT ![cur[p]] = "ACTIVE"]
    /\ Goto(p, FirstStep(cur[p].kind))
    /\ UNCHANGED <<rows, swarm, queue, cur, port, env>>

\* completedHandler
Complete(p) ==
    /\ At(p, "complete")
    /\ hist' = [hist EXCEPT ![cur[p]] = "COMPLETED"]
    /\ Goto(p, "ack")
    /\ UNCHANGED <<rows, swarm, queue, cur, port, env>>

\* BullMQ is told that the job is done.
Ack(p) ==
    /\ At(p, "ack")
    /\ jobState' = [jobState EXCEPT ![cur[p]] = "done"]
    /\ Idle(p)
    /\ UNCHANGED <<rows, hist, swarm, ticket, nextTicket, stalls, env>>

\* BullMQ is told that the job threw: attempts is 0, it is not retried.
FailJob(p) ==
    /\ At(p, "failing")
    /\ jobState' = [jobState EXCEPT ![cur[p]] = "done"]
    /\ Goto(p, "rescue")
    /\ UNCHANGED <<rows, hist, swarm, ticket, nextTicket, stalls>>
    /\ UNCHANGED <<cur, port, env>>

\* updateJobStatus(FAILED) does nothing for a job that was never recorded.
HistFailed(j) ==
    hist' = [hist EXCEPT ![j] = IF @ = "NONE" THEN "NONE" ELSE "FAILED"]

\* rescue, called on BullMQ's failed event
Rescue(p) ==
    /\ At(p, "rescue")
    /\ HistFailed(cur[p])
    /\ Idle(p)
    /\ UNCHANGED <<rows, swarm, queue, env>>

\* The environment makes a step throw, at most MaxFaults times.
Fault(step) ==
    /\ step \in Faulty /\ faults < MaxFaults
    /\ faults' = faults + 1

\* A step throws and has changed nothing.  The steps "init" and "initrun"
\* catch their exceptions: the status writes are swallowed, a failing
\* initialization is InitFails.
StepThrows(p) ==
    /\ pc[p] \notin {"idle", "init", "initrun", "cleanup", "drm", "ack", "failing"}
    /\ Fault(pc[p])
    /\ IF At(p, "rescue") THEN Idle(p)
       ELSE Goto(p, Catch(pc[p])) /\ UNCHANGED <<cur, port>>
    /\ UNCHANGED <<rows, hist, swarm, queue, crashes>>

-----------------------------------------------------------------------------
(* The create job: MongoDBDeploymentOrchestrator.deploy.                   *)

\* Mutant of Load: the soft-deleted row is loaded like any other.
LoadUnchecked(p) ==
    /\ At(p, "load")
    /\ Goto(p, "ports")
    /\ UNCHANGED <<rows, hist, swarm, queue, cur, port, env>>

\* findByIdWithsize throws for a missing or soft-deleted row.
Load(p) ==
    /\ At(p, "load")
    /\ Goto(p, IF gone[Inst(p)] THEN "cleanup" ELSE "ports")
    /\ UNCHANGED <<rows, hist, swarm, queue, cur, port, env>>

\* Mutant of CandidatePorts: any port without a row, the swarm is not asked.
CandidatePortsByRow ==
    {c \in Ports \ ForeignPorts : \A k \in Instance : conn[k] # c}

\* The ports above the highest reserved one that the swarm does not publish.
\* (The worker was chosen just before; WHICH worker is not modelled here.)
CandidatePorts ==
    {c \in Ports \ ForeignPorts :
        \A k \in Instance : conn[k] < c /\ stack[k] # c}

\* Mutant of AllocatePort: the search does not stop at the end of the range.
AllocatePastEnd(p) ==
    /\ At(p, "ports")
    /\ \E c \in PortStart..PortEnd + 1 :
         /\ c \notin ForeignPorts
         /\ \A k \in Instance : conn[k] < c
         /\ \A d \in PortStart..c - 1 :
              d \in ForeignPorts \/ \E k \in Instance : conn[k] >= d
         /\ port' = [port EXCEPT ![p] = c]
    /\ Goto(p, "reserve")
    /\ UNCHANGED <<rows, hist, swarm, queue, cur, env>>

\* setupInfrastructure: allocatePort takes the lowest candidate.
AllocatePort(p) ==
    /\ At(p, "ports")
    /\ \/ /\ CandidatePorts = {}
          /\ Goto(p, "cleanup")
          /\ UNCHANGED port
       \/ \E c \in CandidatePorts :
            /\ \A d \in CandidatePorts : c <= d
            /\ port' = [port EXCEPT ![p] = c]
            /\ Goto(p, "reserve")
    /\ UNCHANGED <<rows, hist, swarm, queue, cur, env>>

\* Mutant of ReservePort: no unique(port, region_code) in the database.
ReserveAnyPort(p) ==
    /\ At(p, "reserve")
    /\ conn' = [conn EXCEPT ![Inst(p)] = port[p]]
    /\ Goto(p, "secure")
    /\ UNCHANGED <<status, gone, creds, dep, dnsRow, hist, swarm, queue>>
    /\ UNCHANGED <<cur, port, env>>

\* reservePort: the upsert of the connection row meets unique(port, region).
ReservePort(p) ==
    /\ At(p, "reserve")
    /\ IF \E k \in Instance \ {Inst(p)} : conn[k] = port[p]
       THEN Goto(p, "cleanup") /\ UNCHANGED conn
       ELSE /\ conn' = [conn EXCEPT ![Inst(p)] = port[p]]
            /\ Goto(p, "secure")
    /\ UNCHANGED <<status, gone, creds, dep, dnsRow, hist, swarm, queue>>
    /\ UNCHANGED <<cur, port, env>>

TlsSecrets(i) == IF i \in Tls THEN {"tlscert", "ca"} ELSE {}
ReplicaSecrets(i) == IF i \in Replicated THEN {"replicakey"} ELSE {}

\* (Tls: the instances of the versions that need the ca secret as well.)
\* setupSecurity: createSecret leaves an existing secret as it is.
Secure(p) ==
    /\ At(p, "secure")
    /\ secrets' = [secrets EXCEPT ![Inst(p)] = @ \cup TlsSecrets(Inst(p))]
    /\ Goto(p, "stack")
    /\ UNCHANGED <<rows, hist, stack, queue, cur, port, env>>

\* The second secret is refused: the first one is there.
SecureFails(p) ==
    /\ At(p, "secure") /\ Fault("secure")
    /\ secrets' = [secrets EXCEPT ![Inst(p)] =
                      @ \cup (TlsSecrets(Inst(p)) \cap {"tlscert"})]
    /\ Goto(p, "cleanup")
    /\ UNCHANGED <<rows, hist, stack, queue, cur, port, crashes>>

\* deployStack: the replica key, then the database and the exporter stacks,
\* which are one stack to Docker (they are deployed under one name).
DeployStack(p) ==
    /\ At(p, "stack")
    /\ secrets' = [secrets EXCEPT ![Inst(p)] = @ \cup ReplicaSecrets(Inst(p))]
    /\ stack' = [stack EXCEPT ![Inst(p)] = port[p]]
    /\ Goto(p, "dns")
    /\ UNCHANGED <<rows, hist, queue, cur, port, env>>

\* The CLI fails once the swarm has accepted a part of the deployment.
DeployStackFails(p) ==
    /\ At(p, "stack") /\ Fault("stack")
    /\ secrets' = [secrets EXCEPT ![Inst(p)] = @ \cup ReplicaSecrets(Inst(p))]
    /\ \/ stack' = [stack EXCEPT ![Inst(p)] = port[p]]
       \/ UNCHANGED stack
    /\ Goto(p, "cleanup")
    /\ UNCHANGED <<rows, hist, queue, cur, port, crashes>>

\* createDatabaseDnsRecords
CreateDns(p) ==
    /\ At(p, "dns")
    /\ dnsRow' = [dnsRow EXCEPT ![Inst(p)] = "ACTIVE"]
    /\ Goto(p, "init")
    /\ UNCHANGED <<status, gone, conn, creds, dep, hist, swarm, queue>>
    /\ UNCHANGED <<cur, port, env>>

\* Mutant of CreateDnsFails: the exception is swallowed.
CreateDnsFailsQuietly(p) ==
    /\ At(p, "dns") /\ Fault("dns")
    /\ dnsRow' = [dnsRow EXCEPT ![Inst(p)] = "FAILED"]
    /\ Goto(p, "init")
    /\ UNCHANGED <<status, gone, conn, creds, dep, hist, swarm, queue>>
    /\ UNCHANGED <<cur, port, crashes>>

\* Route 53 refuses: a FAILED record is stored and the exception goes on.
CreateDnsFails(p) ==
    /\ At(p, "dns") /\ Fault("dns")
    /\ dnsRow' = [dnsRow EXCEPT ![Inst(p)] = "FAILED"]
    /\ Goto(p, "cleanup")
    /\ UNCHANGED <<status, gone, conn, creds, dep, hist, swarm, queue>>
    /\ UNCHANGED <<cur, port, crashes>>

\* updateDatabaseInstanceStatus: the write to a soft-deleted row throws and
\* the exception is swallowed.
WriteStatus(i, s) ==
    status' = IF gone[i] THEN status ELSE [status EXCEPT ![i] = s]

\* DatabaseInitializationService.initialize writes DEPLOYING first.
InitStart(p) ==
    /\ At(p, "init")
    /\ WriteStatus(Inst(p), "DEPLOYING")
    /\ Goto(p, "initrun")
    /\ UNCHANGED <<gone, conn, creds, dep, dnsRow, hist, swarm, queue>>
    /\ UNCHANGED <<cur, port, env>>

\* The databases answer: RUNNING is written before the metadata are.
InitDone(p) ==
    /\ At(p, "initrun")
    /\ WriteStatus(Inst(p), "RUNNING")
    /\ Goto(p, "persist")
    /\ UNCHANGED <<gone, conn, creds, dep, dnsRow, hist, swarm, queue>>
    /\ UNCHANGED <<cur, port, env>>

InitFails(p) ==
    /\ At(p, "initrun") /\ Fault("initrun")
    /\ WriteStatus(Inst(p), "FAILED")
    /\ Goto(p, "cleanup")
    /\ UNCHANGED <<gone, conn, creds, dep, dnsRow, hist, swarm, queue>>
    /\ UNCHANGED <<cur, port, crashes>>

\* persistDatabaseMetadata: the status, the credentials and the deployment.
Persist(p) ==
    /\ At(p, "persist")
    /\ IF gone[Inst(p)]
       THEN Goto(p, "cleanup") /\ UNCHANGED <<status, conn, creds, dep>>
       ELSE /\ status' = [status EXCEPT ![Inst(p)] = "RUNNING"]
            /\ conn' = [conn EXCEPT ![Inst(p)] = port[p]]
            /\ creds' = [creds EXCEPT ![Inst(p)] = TRUE]
            /\ dep' = [dep EXCEPT ![Inst(p)] = TRUE]
            /\ Goto(p, "counts")
    /\ UNCHANGED <<gone, dnsRow, hist, swarm, queue, cur, port, env>>

\* The transaction rolls back after the deployment row was created: the
\* upsert creates it outside of the transaction, so it stays.
PersistRollsBack(p) ==
    /\ At(p, "persist") /\ Fault("persist")
    /\ ~gone[Inst(p)]
    /\ dep' = [dep EXCEPT ![Inst(p)] = TRUE]
    /\ Goto(p, "cleanup")
    /\ UNCHANGED <<status, gone, conn, creds, dnsRow, hist, swarm, queue>>
    /\ UNCHANGED <<cur, port, crashes>>

\* updateWorkerCounts and the removal of the temporary files.
FinishDeploy(p) ==
    /\ At(p, "counts")
    /\ Goto(p, "complete")
    /\ UNCHANGED <<rows, hist, swarm, queue, cur, port, env>>

\* The names the cleanup removes: suffix cacert, not the ca that was created.
CleanedSecrets == {"tlscert", "cacert", "tlskey", "replicakey"}

\* The cluster to clean up is known from the deployment row only.
CleanupKnowsCluster(i) == ~gone[i] /\ dep[i]

\* Mutant of Cleanup: the exception is not thrown again after the cleanup.
CleanupSwallows(p) ==
    /\ At(p, "cleanup")
    /\ IF CleanupKnowsCluster(Inst(p))
       THEN /\ stack' = [stack EXCEPT ![Inst(p)] = 0]
            /\ secrets' = [secrets EXCEPT ![Inst(p)] = @ \ CleanedSecrets]
       ELSE UNCHANGED swarm
    /\ Goto(p, "complete")
    /\ UNCHANGED <<rows, hist, queue, cur, port, env>>

\* attemptCleanupByInstanceId, in the catch of deploy.
Cleanup(p) ==
    /\ At(p, "cleanup")
    /\ IF CleanupKnowsCluster(Inst(p))
       THEN /\ stack' = [stack EXCEPT ![Inst(p)] = 0]
            /\ secrets' = [secrets EXCEPT ![Inst(p)] = @ \ CleanedSecrets]
       ELSE UNCHANGED swarm
    /\ Goto(p, "failing")
    /\ UNCHANGED <<rows, hist, queue, cur, port, env>>

\* docker stack rm fails and is only logged; Docker keeps secrets in use.
CleanupFails(p) ==
    /\ At(p, "cleanup") /\ Fault("cleanup")
    /\ Goto(p, "failing")
    /\ UNCHANGED <<rows, hist, swarm, queue, cur, port, crashes>>

-----------------------------------------------------------------------------
(* The delete job: DatabaseDeletionOrchestrator.delete.                    *)

\* Mutant of LoadForDelete: only the stacks of RUNNING instances are removed,
\* but the handler has already written DELETING.
LoadRunningForDelete(p) ==
    /\ At(p, "dload")
    /\ Goto(p, IF gone[Inst(p)] THEN "failing"
               ELSE IF dep[Inst(p)] /\ status[Inst(p)] = "RUNNING" THEN "drm"
               ELSE "dmark")
    /\ UNCHANGED <<rows, hist, swarm, queue, cur, port, env>>

\* Mutant of LoadForDelete: the deletion waits for the creation to end.
LoadOnceCreated(p) ==
    /\ At(p, "dload")
    /\ hist[CreateJob(Inst(p))] \in {"COMPLETED", "FAILED"}
    /\ Goto(p, IF gone[Inst(p)] THEN "failing"
               ELSE IF dep[Inst(p)] THEN "drm" ELSE "dmark")
    /\ UNCHANGED <<rows, hist, swarm, queue, cur, port, env>>

\* loadDatabaseInstance and validateAndGetCluster
LoadForDelete(p) ==
    /\ At(p, "dload")
    /\ Goto(p, IF gone[Inst(p)] THEN "failing"
               ELSE IF dep[Inst(p)] THEN "drm" ELSE "dmark")
    /\ UNCHANGED <<rows, hist, swarm, queue, cur, port, env>>

\* removeDockerStack; the secrets and the DNS records stay.
RemoveStack(p) ==
    /\ At(p, "drm")
    /\ stack' = [stack EXCEPT ![Inst(p)] = 0]
    /\ Goto(p, "dmark")
    /\ UNCHANGED <<rows, hist, secrets, queue, cur, port, env>>

\* Mutant of RemoveStackFails: the exception of the CLI reaches the job.
RemoveStackThrows(p) ==
    /\ At(p, "drm") /\ Fault("drm")
    /\ Goto(p, "failing")
    /\ UNCHANGED <<rows, hist, swarm, queue, cur, port, crashes>>

\* A failure of the CLI is logged and the deletion goes on.
RemoveStackFails(p) ==
    /\ At(p, "drm") /\ Fault("drm")
    /\ Goto(p, "dmark")
    /\ UNCHANGED <<rows, hist, swarm, queue, cur, port, crashes>>

\* performSoftDelete, first write: status DELETED
MarkDeleted(p) ==
    /\ At(p, "dmark")
    /\ IF gone[Inst(p)]
       THEN Goto(p, "failing") /\ UNCHANGED status
       ELSE /\ status' = [status EXCEPT ![Inst(p)] = "DELETED"]
            /\ Goto(p, "dsoft")
    /\ UNCHANGED <<gone, conn, creds, dep, dnsRow, hist, swarm, queue>>
    /\ UNCHANGED <<cur, port, env>>

\* performSoftDelete, second write: deleted_at
SoftDelete(p) ==
    /\ At(p, "dsoft")
    /\ IF gone[Inst(p)]
       THEN Goto(p, "failing") /\ UNCHANGED gone
       ELSE /\ gone' = [gone EXCEPT ![Inst(p)] = TRUE]
            /\ Goto(p, "complete")
    /\ UNCHANGED <<status, conn, creds, dep, dnsRow, hist, swarm, queue>>
    /\ UNCHANGED <<cur, port, env>>

-----------------------------------------------------------------------------
(* BullMQ and the container that restarts the queue process (external).    *)

\* The process dies between two steps and comes back idle.  A job it had not
\* reported yet stays active until its lock expires: it is stalled.  (To die in
\* the middle of a step is to fail in it, as in SecureFails, DeployStackFails
\* or PersistRollsBack, and to die before the next one.)
Crash(p) ==
    /\ crashes < MaxCrashes /\ pc[p] # "idle"
    /\ crashes' = crashes + 1
    /\ jobState' = [jobState EXCEPT
                      ![cur[p]] = IF @ = "active" THEN "stalled" ELSE @]
    /\ Idle(p)
    /\ UNCHANGED <<rows, hist, swarm, ticket, nextTicket, stalls, faults>>

\* A stalled job goes back to the front of the queue (its ticket is older
\* than any waiting one), or fails for good and rescue is called.
Redeliver(j) ==
    /\ jobState[j] = "stalled"
    /\ IF stalls[j] < MaxStalls
       THEN /\ jobState' = [jobState EXCEPT ![j] = "waiting"]
            /\ stalls' = [stalls EXCEPT ![j] = @ + 1]
            /\ UNCHANGED hist
       ELSE /\ jobState' = [jobState EXCEPT ![j] = "done"]
            /\ HistFailed(j)
            /\ UNCHANGED stalls
    /\ UNCHANGED <<rows, swarm, ticket, nextTicket, worker, env>>

-----------------------------------------------------------------------------
Deploy(p) ==
    \/ Load(p) \/ AllocatePort(p) \/ ReservePort(p)
    \/ Secure(p) \/ SecureFails(p) \/ DeployStack(p) \/ DeployStackFails(p)
    \/ CreateDns(p) \/ CreateDnsFails(p)
    \/ InitStart(p) \/ InitDone(p) \/ InitFails(p)
    \/ Persist(p) \/ PersistRollsBack(p) \/ FinishDeploy(p)
    \/ Cleanup(p) \/ CleanupFails(p)

Delete(p) ==
    \/ LoadForDelete(p) \/ RemoveStack(p) \/ RemoveStackFails(p)
    \/ MarkDeleted(p) \/ SoftDelete(p)

ProcStep(p) ==
    \/ Take(p) \/ Record(p) \/ Activate(p) \/ Complete(p) \/ Ack(p)
    \/ FailJob(p) \/ Rescue(p) \/ StepThrows(p)
    \/ Deploy(p) \/ Delete(p)

Next ==
    \/ \E i \in Instance : ApiCreate(i)
    \/ \E j \in Job : ApiUpdate(j) \/ ApiDelete(j)
                      \/ Dispatch(j) \/ LoseDispatch(j) \/ Redeliver(j)
    \/ \E p \in Proc : ProcStep(p) \/ Crash(p)

Spec == Init /\ [][Next]_vars

\* The queue container is restarted unless stopped and polls the queue; the
\* stalled check runs for ever.  Nobody is obliged to call the API.
FairSpec ==
    /\ Spec
    /\ \A p \in Proc : WF_vars(ProcStep(p))
    /\ \A j \in Job : WF_vars(Redeliver(j))

-----------------------------------------------------------------------------
(* Properties *)

DeleteCalled(i) ==
    \E j \in Job : j.kind = "delete" /\ j.inst = i /\ jobState[j] # "none"

\* The row says RUNNING and everything a client needs is there.
Served(i) ==
    /\ status[i] = "RUNNING" /\ ~gone[i]
    /\ dep[i] /\ creds[i] /\ dnsRow[i] = "ACTIVE"
    /\ stack[i] # 0 /\ stack[i] = conn[i]

\* As long as the history of a create job says COMPLETED its instance is served,
\* until somebody deletes it: whatever failed, crashed or was redelivered, and
\* whatever the other jobs did.
CompletedCreateIsServed ==
    \A i \in Instance :
        hist[CreateJob(i)] = "COMPLETED" /\ ~DeleteCalled(i) => Served(i)

\* Two instances that are served never publish the same port, even when two
\* processes chose it at once: unique(port, region_code) lets one of them win.
ServedPortsDistinct ==
    \A i, k \in Instance :
        i # k /\ Served(i) /\ Served(k) => stack[i] # stack[k]

\* With one queue process two stacks never publish the same port, leaked stacks
\* and stacks of redelivered jobs included: the allocation only moves upwards.
PublishedPortsDistinct ==
    \A i, k \in Instance : i # k /\ stack[i] # 0 => stack[i] # stack[k]

\* With one queue process no step deploys a stack for an instance that was
\* soft-deleted, a redelivered create job included: no job could remove it.
NoResurrection ==
    [][\A i \in Instance : gone[i] => stack'[i] \in {0, stack[i]}]_vars

\* Deleting an instance whose deployment was recorded removes its stack
\* (when docker stack rm works).
RecordedStackIsRemoved ==
    \A i \in Instance : gone[i] /\ dep[i] => stack[i] = 0

\* Once a delete job is queued its instance is soft-deleted, whatever Docker
\* answers and even if the process crashes.
DeletionCompletes ==
    \A j \in Job : j.kind = "delete" =>
        (jobState[j] = "waiting" ~> gone[j.inst])

\* Every dispatched job is reported to BullMQ in the end.
JobsDrain ==
    \A j \in Job : jobState[j] = "waiting" ~> jobState[j] = "done"
=============================================================================
