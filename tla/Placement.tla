------------------------------ MODULE Placement ------------------------------
(***************************************************************************)
(* Which workers of which swarm the create jobs of a region choose, and    *)
(* the counter current_instances of each worker, which a job raises only   *)
(* after everything else: in between other jobs choose by the old value.   *)
(*                                                                         *)
(* Clusters and workers are rows that no code of the repository changes,   *)
(* the counters aside.                                                     *)
(***************************************************************************)
EXTENDS Integers, Sequences, FiniteSets

CONSTANTS
    Instance,       \* database instances of one region
    OwnerOf,        \* the owner of each instance
    Replicated,     \* instances that are replica sets
    Clusters,       \* rows of docker_swarm_managers: [owner, type, usable]
    Workers,        \* rows of docker_swarm_workers, in the order of their names:
                    \* [cluster, number, active, max]
    NoOwner,        \* the owner_id of a shared cluster
    Members,        \* workers of a replica set: three
    MaxStarts       \* bound on how often a job of an instance is started

\* Rows, in what the choice reads of them: usable stands for the status, the
\* health, the region and the service of a cluster.
ClusterRow == [owner : {OwnerOf[i] : i \in Instance} \cup {NoOwner},
               type : {"shared", "private", "customer"}, usable : BOOLEAN]
WorkerRow == [cluster : DOMAIN Clusters, number : Nat, active : BOOLEAN, max : Nat]

ASSUME PlacementAssumption ==
    /\ IsFiniteSet(Instance)
    /\ Clusters \in Seq(ClusterRow) /\ Workers \in Seq(WorkerRow)
    /\ Replicated \subseteq Instance
    /\ Members \in Nat \ {0} /\ MaxStarts \in Nat

VARIABLES
    current,    \* current_instances, by worker
    job,        \* what the create job of each instance is doing
    placed,     \* the workers the stack of each instance runs on
    starts,     \* how often the job of each instance was started
    raised,     \* history: increments that were begun, by worker
    crowded     \* history: workers that two jobs were busy with at a time
vars == <<current, job, placed, starts, raised, crowded>>

Worker == DOMAIN Workers
Idle == [at |-> "idle", nodes |-> <<>>, read |-> 0]
Busy(i) == job[i].at \notin {"idle", "done", "gone"}
Nodes(i) == {job[i].nodes[k] : k \in DOMAIN job[i].nodes}

-----------------------------------------------------------------------------
\* findOptimalClusterByRegion: clusters are numbered by created_at.  usable
\* stands for active, healthy, of the region and of the service.
Eligible(owner) ==
    {c \in DOMAIN Clusters :
        /\ Clusters[c].usable
        /\ \/ Clusters[c].owner = NoOwner /\ Clusters[c].type = "shared"
           \/ Clusters[c].owner = owner /\ Clusters[c].type \in {"private", "customer"}}

Optimal(owner) ==
    {c \in Eligible(owner) : \A d \in Eligible(owner) : c <= d}

ActiveWorkers(cs) == {w \in Worker : Workers[w].active /\ Workers[w].cluster \in cs}

\* getAvailableWorkerByType: any of the least loaded, if there is room.
LeastLoaded(cs) ==
    LET room == {w \in ActiveWorkers(cs) : current[w] < Workers[w].max}
    IN  {w \in room : \A v \in room : current[w] <= current[v]}

\* setupReplicaSetInfrastructure: the first three by name, whatever their load.
FirstByName(cs) ==
    LET ws == ActiveWorkers(cs)
    IN  {w \in ws : Cardinality({v \in ws : v < w}) < Members}

\* The order of the sort by worker number, which is stable.
Before(v, w) ==
    \/ Workers[v].number < Workers[w].number
    \/ Workers[v].number = Workers[w].number /\ v < w

\* The chosen workers by their number, the primary first.
ByNumber(ws) ==
    CHOOSE s \in [1 .. Cardinality(ws) -> ws] :
        \A j, k \in DOMAIN s : j < k => Before(s[j], s[k])

\* The workers a job of i may choose; none if there are too few.
NodeChoices(i) ==
    LET cs == Optimal(OwnerOf[i]) IN
    IF i \in Replicated
    THEN {ByNumber(ws) : ws \in {FirstByName(cs)} \cap
                                {s \in SUBSET Worker : Cardinality(s) = Members}}
    ELSE {<<w>> : w \in LeastLoaded(cs)}

-----------------------------------------------------------------------------
\* Selecting the workers.  Those that other jobs are busy with are noted.
Choose(i) ==
    /\ job[i].at = "idle"
    /\ starts[i] < MaxStarts
    /\ starts' = [starts EXCEPT ![i] = @ + 1]
    /\ \E nodes \in NodeChoices(i) :
          /\ job' = [job EXCEPT ![i] = [Idle EXCEPT !.at = "deploy", !.nodes = nodes]]
          /\ crowded' = crowded \cup
                UNION {Nodes(j) \cap {nodes[k] : k \in DOMAIN nodes} :
                          j \in {h \in Instance \ {i} : Busy(h)}}
    /\ UNCHANGED <<current, placed, raised>>

Refuse(i) ==
    /\ job[i].at = "idle"
    /\ starts[i] < MaxStarts
    /\ NodeChoices(i) = {}
    /\ starts' = [starts EXCEPT ![i] = @ + 1]
    /\ job' = [job EXCEPT ![i].at = "gone"]
    /\ UNCHANGED <<current, placed, raised, crowded>>

\* docker stack deploy moves the stack of an earlier delivery.
Deploy(i) ==
    /\ job[i].at = "deploy"
    /\ placed' = [placed EXCEPT ![i] = Nodes(i)]
    /\ job' = [job EXCEPT ![i].at = "read"]
    /\ UNCHANGED <<current, starts, raised, crowded>>

\* updateWorkerCounts, for the first worker that is left: the row is read.
ReadCount(i) ==
    LET w == Head(job[i].nodes) IN
    /\ job[i].at = "read"
    /\ job' = [job EXCEPT ![i].at = "write", ![i].read = current[w]]
    /\ raised' = [raised EXCEPT ![w] = @ + 1]
    /\ UNCHANGED <<current, placed, starts, crowded>>

\* Mutant of WriteCount: only the first worker of a replica set is counted.
WriteFirstCount(i) ==
    /\ job[i].at = "write"
    /\ current' = [current EXCEPT ![Head(job[i].nodes)] = job[i].read + 1]
    /\ job' = [job EXCEPT ![i].at = "done", ![i].nodes = <<>>]
    /\ UNCHANGED <<placed, starts, raised, crowded>>

\* The count that was read, plus one, is written.
WriteCount(i) ==
    LET rest == Tail(job[i].nodes) IN
    /\ job[i].at = "write"
    /\ current' = [current EXCEPT ![Head(job[i].nodes)] = job[i].read + 1]
    /\ job' = [job EXCEPT ![i].at = IF rest = <<>> THEN "done" ELSE "read",
                          ![i].nodes = rest]
    /\ UNCHANGED <<placed, starts, raised, crowded>>

\* A step fails: the stack is removed, or left behind by the cleanup.
Fail(i) ==
    /\ Busy(i)
    /\ job' = [job EXCEPT ![i] = [Idle EXCEPT !.at = "gone"]]
    /\ \/ placed' = [placed EXCEPT ![i] = {}]
       \/ UNCHANGED placed
    /\ UNCHANGED <<current, starts, raised, crowded>>

\* The queue process dies; the job is delivered again from its beginning, also
\* when it had done everything but its report.
Crash(i) ==
    /\ Busy(i) \/ job[i].at = "done"
    /\ starts[i] < MaxStarts
    /\ job' = [job EXCEPT ![i] = Idle]
    /\ UNCHANGED <<current, placed, starts, raised, crowded>>

\* The deletion of the instance removes its stack, and counts nothing.
Delete(i) ==
    /\ job[i].at = "done"
    /\ placed' = [placed EXCEPT ![i] = {}]
    /\ job' = [job EXCEPT ![i].at = "gone"]
    /\ UNCHANGED <<current, starts, raised, crowded>>

Init ==
    /\ current = [w \in Worker |-> 0]
    /\ job = [i \in Instance |-> Idle]
    /\ placed = [i \in Instance |-> {}]
    /\ starts = [i \in Instance |-> 0]
    /\ raised = [w \in Worker |-> 0]
    /\ crowded = {}

Next ==
    \E i \in Instance :
        \/ Choose(i) \/ Refuse(i) \/ Deploy(i) \/ ReadCount(i) \/ WriteCount(i)
        \/ Fail(i) \/ Crash(i) \/ Delete(i)

Spec == Init /\ [][Next]_vars

-----------------------------------------------------------------------------
TypeOK ==
    /\ current \in [Worker -> Nat] /\ raised \in [Worker -> Nat]
    /\ crowded \subseteq Worker
    /\ \A i \in Instance :
          /\ job[i].at \in {"idle", "deploy", "read", "write", "done", "gone"}
          /\ Nodes(i) \subseteq Worker /\ placed[i] \subseteq Worker
          /\ starts[i] \in 0 .. MaxStarts

\* Instances that run on a worker by a job that has come to its end.
Served(w) == {i \in Instance : job[i].at = "done" /\ w \in placed[i]}

\* The counter is read and written in two steps and raised long after the
\* worker was chosen.  It never says less than what runs on the worker unless
\* two jobs were busy with that worker at the same time.
LowCountsNeedACrowd ==
    \A w \in Worker \ crowded : Cardinality(Served(w)) <= current[w]

\* Nor is a worker over its maximum, unless jobs were busy with it at the same
\* time or a replica set, which takes workers without looking, is on it.
OvercommitNeedsACrowd ==
    \A w \in Worker \ crowded :
        \/ Cardinality(Served(w)) <= Workers[w].max
        \/ Served(w) \cap Replicated # {}

\* An interleaving loses increments; it never invents any.
CountsAreNotInvented == \A w \in Worker : current[w] <= raised[w]

\* A counter is too low only where jobs overlapped, and never too high for the
\* deliveries that raised it; and only the first lets a worker be overcommitted.
CountsNeedACrowd ==
    LowCountsNeedACrowd /\ OvercommitNeedsACrowd /\ CountsAreNotInvented
=============================================================================
