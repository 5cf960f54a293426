------------------------------ MODULE MongoInit ------------------------------
(***************************************************************************)
(* The creation of the MongoDB servers of one instance, from the           *)
(* generation of its passwords to their record in Postgres, one step per   *)
(* command sent to a server: health checks, the initiation of the replica  *)
(* set, the wait for its primary, the creation of the users with their     *)
(* rollback.  A create job whose process died is delivered once more and   *)
(* does all of it again, with new passwords, on the servers it finds.      *)
(***************************************************************************)
EXTENDS Naturals, FiniteSets

CONSTANTS
    Replicated,   \* deploymentType is REPLICASET
    Size,         \* the number of hostnames
    Place,        \* the choices of worker nodes a deployment may make
    MaxAttempts,  \* attempts of RetryHelper at each step
    MaxRuns       \* deliveries of the job, a bound

Retried == {"health", "initiate", "election", "status", "connect"}

ASSUME InitConstants ==
    /\ Replicated \in BOOLEAN
    /\ Size \in Nat \ {0}
    /\ Place # {}
    /\ MaxAttempts \in [Retried -> Nat \ {0}]
    /\ MaxRuns \in Nat

Member == 1..Size
First == 1          \* hostnames[0]

\* The kinds of passwords, and the users in the order of getDefaultUserSpecs:
\* galaxyadmin, galaxymonitor and galaxybackup.
Kinds == {"admin", "monitor", "backup"}
Users == 1..3
PasswordOf == [u \in Users |-> IF u = 1 THEN "admin"
                               ELSE IF u = 2 THEN "monitor" ELSE "backup"]

\* A password is the number of the delivery that generated it (0: none).
Secret == 0..MaxRuns
None == [k \in Kinds |-> 0]
NoUsers == [u \in Users |-> 0]

Steps == Retried \cup {"deploy", "exists", "create", "update", "rollback",
                       "persist", "complete", "failed", "rescue", "ack"}

VARIABLES
    \* Postgres
    hist,       \* job_histories.status
    row,        \* the passwords of the connection row
    dep,        \* the deployment row exists
    \* the job
    run,        \* deliveries so far
    pc,
    pw,         \* passwords
    attempt,    \* of RetryHelper.execute
    tries,      \* the same, for the health check of each service
    healthy,    \* the services whose check succeeded
    user,       \* the user being processed
    made,       \* usersToRollback
    \* the swarm and the servers
    env,        \* MONGO_INITDB_ROOT_PASSWORD of the stack (0: no stack)
    place,      \* the worker nodes of the stack
    up,         \* the members that run
    primary,    \* the member that is primary (0: none)
    root,       \* the password the data on a choice of nodes was created with
    users,      \* the users in the data, with their passwords
    initiated,  \* the data has a replica set configuration
    \* history
    slip        \* a command on users had an effect unknown to the job

rows    == <<hist, row, dep>>
locals  == <<pw, attempt, tries, healthy, user, made>>
servers == <<env, place, up, primary>>
data    == <<root, users, initiated>>
vars    == <<rows, run, pc, locals, servers, data, slip>>

TypeOK ==
    /\ hist \in {"NONE", "ACTIVE", "COMPLETED", "FAILED"}
    /\ row \in [Kinds -> Secret] /\ dep \in BOOLEAN
    /\ run \in 0..MaxRuns
    /\ pc \in Steps \cup {"queued", "crashed", "end"}
    /\ pw \in [Kinds -> Secret]
    /\ attempt \in Nat \ {0}
    /\ pc \in Retried => attempt <= MaxAttempts[pc]
    /\ tries \in [Member -> 0..MaxAttempts["health"]]
    /\ healthy \subseteq Member
    /\ user \in Users /\ made \subseteq Users
    /\ env \in Secret /\ place \in Place
    /\ up \subseteq Member /\ primary \in Member \cup {0}
    /\ root \in [Place -> Secret]
    /\ users \in [Place -> [Users -> Secret]]
    /\ initiated \in [Place -> BOOLEAN]
    /\ slip \in BOOLEAN

Init ==
    /\ hist = "NONE" /\ row = None /\ dep = FALSE
    /\ run = 0 /\ pc = "queued" /\ pw = None /\ attempt = 1
    /\ tries = [m \in Member |-> 0] /\ healthy = {}
    /\ user = 1 /\ made = {}
    /\ env = 0 /\ place \in Place /\ up = {} /\ primary = 0
    /\ root = [p \in Place |-> 0]
    /\ users = [p \in Place |-> NoUsers]
    /\ initiated = [p \in Place |-> FALSE]
    /\ slip = FALSE

-----------------------------------------------------------------------------
(* The deployment *)

\* BullMQ delivers the job, or delivers it again after a crash.
Deliver ==
    /\ pc \in {"queued", "crashed"} /\ run < MaxRuns
    /\ run' = run + 1
    /\ hist' = "ACTIVE"
    /\ pc' = "deploy"
    /\ UNCHANGED <<row, dep, locals, servers, data, slip>>

\* Mutant of Passwords: the admin password is kept.
PasswordsKeepAdmin(r) == [k \in Kinds |-> IF k = "admin" THEN 1 ELSE r]

\* generatePasswords
Passwords(r) == [k \in Kinds |-> r]

\* docker stack deploy with the new passwords restarts the servers, on nodes
\* that may be others than before; the volumes stay where they are.  The
\* exporter stack and the DNS records follow, and may fail.
Deploy(p) ==
    /\ pc = "deploy"
    /\ pw' = Passwords(run)
    /\ env' = Passwords(run)["admin"]
    /\ place' = p /\ up' = {} /\ primary' = 0
    /\ attempt' = 1 /\ tries' = [m \in Member |-> 0] /\ healthy' = {}
    /\ made' = {} /\ slip' = FALSE
    /\ pc' \in {"health", "failed"}
    /\ UNCHANGED <<rows, run, user, data>>

\* The infrastructure, the secrets or the stack fail.
DeployFails ==
    /\ pc = "deploy" /\ pc' = "failed"
    /\ UNCHANGED <<rows, run, locals, servers, data, slip>>

-----------------------------------------------------------------------------
(* The initialization *)

Advance(step) == pc' = step /\ attempt' = 1

\* Mutant of Retry: an attempt that threw is not counted.
RetryUncounted == UNCHANGED <<pc, attempt>>

\* Mutant of Retry: one attempt too many.
RetryOnceMore ==
    IF attempt <= MaxAttempts[pc]
    THEN attempt' = attempt + 1 /\ UNCHANGED pc
    ELSE Advance("failed")

\* RetryHelper: an attempt threw.
Retry ==
    IF attempt < MaxAttempts[pc]
    THEN attempt' = attempt + 1 /\ UNCHANGED pc
    ELSE Advance("failed")

\* withMongoClient: the client that connects is let in.
Admitted == root[place] = pw["admin"]

\* A command to hostnames[0] alone is answered.
DirectAnswers == First \in up /\ Admitted

\* A command is answered by the primary, or by the standalone server.
Answers ==
    /\ IF Replicated THEN primary # 0 ELSE First \in up
    /\ Admitted

\* What Docker says of the service of a member, of which one replica is wanted:
\* nothing, or what it lists and then the tasks that run.  It may be late with
\* the list, and knows of no running task when there is none.
DockerSays(m) ==
    [answered : BOOLEAN, listed : BOOLEAN, current : {0, 1},
     running : IF m \in up THEN {0, 1} ELSE {0}]

Converged(said) == said.current = 1
HasRunningTasks(said) == said.running > 0

\* checkServiceHealth
Healthy(said) ==
    said.answered /\ said.listed /\ Converged(said) /\ HasRunningTasks(said)

\* An attempt of waitForServiceHealthy; the services are checked beside each other.
CheckHealth(m) ==
    /\ pc = "health" /\ m \notin healthy
    /\ tries[m] < MaxAttempts["health"]
    /\ \E said \in DockerSays(m) :
          IF Healthy(said)
          THEN healthy' = healthy \cup {m} /\ UNCHANGED tries
          ELSE tries' = [tries EXCEPT ![m] = @ + 1] /\ UNCHANGED healthy
    /\ UNCHANGED <<rows, run, pc, pw, attempt, user, made, servers, data, slip>>

\* waitForMultipleServicesHealthy waits for the last of them.
AllAnswered == \A m \in Member : m \in healthy \/ tries[m] = MaxAttempts["health"]

\* initializeReplicaSetIfNeeded
SetupStep == IF Replicated THEN "initiate" ELSE "connect"

HealthChecked ==
    /\ pc = "health" /\ AllAnswered
    /\ Advance(IF healthy = Member THEN SetupStep ELSE "failed")
    /\ UNCHANGED <<rows, run, pw, tries, healthy, user, made, servers, data, slip>>

\* replSetInitiate, with or without an answer.
Initiate ==
    /\ pc = "initiate" /\ DirectAnswers /\ ~initiated[place]
    /\ initiated' = [initiated EXCEPT ![place] = TRUE]
    /\ Advance("election") \/ Retry
    /\ UNCHANGED <<rows, run, pw, tries, healthy, user, made, servers>>
    /\ UNCHANGED <<root, users, slip>>

\* "already initialized" is an error for RetryHelper as well; only that of the
\* last attempt is taken for a success.
AlreadyInitiated ==
    /\ pc = "initiate" /\ DirectAnswers /\ initiated[place]
    /\ IF attempt < MaxAttempts["initiate"] THEN Retry ELSE Advance("election")
    /\ UNCHANGED <<rows, run, pw, tries, healthy, user, made, servers, data, slip>>

\* waitForPrimaryElection: the first member is primary or secondary, of a set
\* that may have no primary yet; the next two steps wait for one.
AwaitElection ==
    /\ pc = "election" /\ DirectAnswers /\ initiated[place]
    /\ Advance("status")
    /\ UNCHANGED <<rows, run, pw, tries, healthy, user, made, servers, data, slip>>

\* validate
ValidateStatus ==
    /\ pc = "status" /\ Answers
    /\ Advance("connect")
    /\ UNCHANGED <<rows, run, pw, tries, healthy, user, made, servers, data, slip>>

\* createUsers, with the specifications of all of them.
BeginUsers == Advance("exists") /\ user' = 1

\* validateConnection
ValidateConnection ==
    /\ pc = "connect" /\ Answers
    /\ BeginUsers
    /\ UNCHANGED <<rows, run, pw, tries, healthy, made, servers, data, slip>>

\* Any of these commands may fail.
CommandFails ==
    /\ pc \in Retried \ {"health"}
    /\ Retry
    /\ UNCHANGED <<rows, run, pw, tries, healthy, user, made, servers, data, slip>>

\* checkUserExists: an error counts as no.
CheckUserExists ==
    /\ pc = "exists"
    /\ \/ Answers /\ pc' = (IF users[place][user] # 0 THEN "update" ELSE "create")
       \/ pc' = "create"
    /\ UNCHANGED <<rows, run, locals, servers, data, slip>>

NextUser ==
    IF user < 3 THEN user' = user + 1 /\ pc' = "exists"
                ELSE pc' = "persist" /\ UNCHANGED user

\* Mutant of Listed: the users that were found are listed instead.
ListedWhenFound == IF pc = "update" THEN made \cup {user} ELSE made

\* A user that was created is listed for the rollback.
Listed == IF pc = "create" THEN made \cup {user} ELSE made

\* createUser, or updateUserRoles, which leaves the password alone.
WriteUser ==
    /\ pc \in {"create", "update"} /\ Answers
    /\ pc = "create" <=> users[place][user] = 0
    /\ users' = IF pc = "create"
                THEN [users EXCEPT ![place][user] = pw[PasswordOf[user]]]
                ELSE users
    /\ \/ made' = Listed /\ NextUser /\ UNCHANGED slip
       \/ pc' = "rollback" /\ slip' = TRUE /\ UNCHANGED <<user, made>>
    /\ UNCHANGED <<rows, run, pw, attempt, tries, healthy, servers>>
    /\ UNCHANGED <<root, initiated>>

WriteUserFails ==
    /\ pc \in {"create", "update"} /\ pc' = "rollback"
    /\ UNCHANGED <<rows, run, locals, servers, data, slip>>

\* dropUser, with or without an effect the job hears of.
DropUser(u) ==
    \/ Answers /\ users' = [users EXCEPT ![place][u] = 0] /\ UNCHANGED slip
    \/ slip' = TRUE /\ UNCHANGED users

\* rollbackCreatedUsers drops one user; a failure is only logged.
Rollback ==
    /\ pc = "rollback" /\ made # {}
    /\ \E u \in made :
          /\ \A v \in made : u <= v
          /\ made' = made \ {u}
          /\ DropUser(u)
    /\ UNCHANGED <<rows, run, pc, pw, attempt, tries, healthy, user, servers>>
    /\ UNCHANGED <<root, initiated>>

RolledBack ==
    /\ pc = "rollback" /\ made = {} /\ pc' = "failed"
    /\ UNCHANGED <<rows, run, locals, servers, data, slip>>

-----------------------------------------------------------------------------
(* The end of the job *)

\* persistDatabaseMetadata; its failure may leave the deployment row.
Persist ==
    /\ pc = "persist"
    /\ \/ row' = pw /\ dep' = TRUE /\ pc' = "complete"
       \/ dep' \in {dep, TRUE} /\ pc' = "failed" /\ UNCHANGED row
    /\ UNCHANGED <<hist, run, locals, servers, data, slip>>

\* The counters of the workers and the temporary files, then completedHandler.
Complete ==
    /\ pc = "complete"
    /\ \/ hist' = "COMPLETED" /\ pc' = "ack"
       \/ pc' = "failed" /\ UNCHANGED hist
    /\ UNCHANGED <<row, dep, run, locals, servers, data, slip>>

\* attemptCleanupByInstanceId removes the stack if there is a deployment row
\* and Docker obeys.
Cleanup ==
    /\ pc = "failed" /\ pc' = "rescue"
    /\ \/ dep /\ env' = 0 /\ up' = {} /\ primary' = 0 /\ UNCHANGED place
       \/ UNCHANGED servers
    /\ UNCHANGED <<rows, run, locals, data, slip>>

Rescue ==
    /\ pc = "rescue" /\ pc' = "ack"
    /\ hist' = "FAILED"
    /\ UNCHANGED <<row, dep, run, locals, servers, data, slip>>

Ack ==
    /\ pc = "ack" /\ pc' = "end"
    /\ UNCHANGED <<rows, run, locals, servers, data, slip>>

Crash ==
    /\ pc \in Steps /\ pc' = "crashed"
    /\ UNCHANGED <<rows, run, locals, servers, data, slip>>

-----------------------------------------------------------------------------
(* The servers (external) *)

Majority(S) == 2 * Cardinality(S) > Size

\* A server that finds no data creates it, with the password of the stack.
Start(m) ==
    /\ env # 0 /\ m \notin up
    /\ up' = up \cup {m}
    /\ root' = IF m = First /\ root[place] = 0
               THEN [root EXCEPT ![place] = env] ELSE root
    /\ UNCHANGED <<rows, run, pc, locals, env, place, primary>>
    /\ UNCHANGED <<users, initiated, slip>>

Stop(m) ==
    /\ m \in up
    /\ up' = up \ {m}
    /\ primary' = IF primary # m /\ Majority(up') THEN primary ELSE 0
    /\ UNCHANGED <<rows, run, pc, locals, env, place, data, slip>>

Elect(m) ==
    /\ Replicated /\ initiated[place] /\ primary = 0
    /\ m \in up /\ Majority(up)
    /\ primary' = m
    /\ UNCHANGED <<rows, run, pc, locals, env, place, up, data, slip>>

-----------------------------------------------------------------------------
JobStep ==
    \/ \E p \in Place : Deploy(p)
    \/ DeployFails
    \/ \E m \in Member : CheckHealth(m)
    \/ HealthChecked
    \/ Initiate \/ AlreadyInitiated \/ AwaitElection \/ ValidateStatus
    \/ ValidateConnection \/ CommandFails
    \/ CheckUserExists \/ WriteUser \/ WriteUserFails \/ Rollback \/ RolledBack
    \/ Persist \/ Complete \/ Cleanup \/ Rescue \/ Ack

Next ==
    \/ Deliver \/ JobStep \/ Crash
    \/ \E m \in Member : Start(m) \/ Stop(m) \/ Elect(m)

Spec == Init /\ [][Next]_vars

\* The queue process goes on with its job, and BullMQ with its deliveries.
FairSpec == Spec /\ WF_vars(JobStep) /\ WF_vars(Deliver)

-----------------------------------------------------------------------------
(* Properties *)

\* A creation that says COMPLETED has recorded the passwords its servers take,
\* for the admin and for all three users, whatever an earlier delivery left in
\* the volumes: one that finds the data of another cannot get past the first
\* command.
CompletedCredentialsWork ==
    hist = "COMPLETED" =>
        /\ env # 0 /\ root[place] # 0 /\ root[place] = row["admin"]
        /\ \A u \in Users : users[place][u] = row[PasswordOf[u]]

\* The branch that finds a user and keeps its password is never taken: then the
\* password that is recorded would not be the one the server takes.
UsersAreNew == pc # "update"

\* A failed creation of users that knows what became of its commands leaves no
\* user behind.
RollbackIsComplete ==
    [][pc = "rollback" /\ pc' = "failed" /\ ~slip => users[place] = NoUsers]_vars

\* Every creation is acknowledged, or given up by BullMQ after the last crash.
CreationEnds == <>[](pc = "end" \/ (pc = "crashed" /\ run = MaxRuns))

\* The inductive form of the three above.  A delivery has passwords of its own;
\* data are older than the delivery, or hold the users made by it so far; past
\* validateConnection they are not older.
Deploying == Retried \cup {"exists", "create", "update", "rollback",
                           "persist", "complete"}
Listing   == {"exists", "create", "update"}
Connected == Listing \cup {"rollback", "persist", "complete"}

JobInv ==
    /\ pc = "queued" => hist = "NONE"
    /\ pc \in Steps => run > 0
    /\ pc \in Steps \ {"ack"} => hist = "ACTIVE"
    /\ pc \in Deploying => pw = Passwords(run) /\ env = run
    /\ pc = "complete" => row = pw

DataInv ==
    /\ env <= run
    /\ pc = "deploy" => env < run
    /\ \A p \in Place :
          /\ root[p] <= run
          /\ pc = "deploy" => root[p] < run
          /\ \A u \in Users : users[p][u] \in {0, root[p]}

UsersInv ==
    /\ pc \in Connected => root[place] = run
    /\ pc \in Retried /\ root[place] = run => users[place] = NoUsers
    /\ pc \in Listing => \A u \in Users :
          IF u < user THEN u \in made /\ users[place][u] = run
                      ELSE users[place][u] = 0
    /\ pc \in {"persist", "complete"} => \A u \in Users : users[place][u] = run
    /\ pc = "rollback" /\ ~slip => \A u \in Users \ made : users[place][u] = 0

CredInv ==
    /\ JobInv /\ DataInv /\ UsersInv
    /\ CompletedCredentialsWork /\ UsersAreNew
=============================================================================
