--------------------------- MODULE PortAllocation ---------------------------
(***************************************************************************)
(* The search for a port of a database instance (PortAllocationService),   *)
(* one step per await, for several deployments at once in one region.      *)
(*                                                                         *)
(* A search takes batches of candidates upward from the highest reserved   *)
(* port, asks for each batch which ports the target workers publish, and   *)
(* reserves the first free one in the instance's connection row.  What the *)
(* workers publish is read from the log of an agent, which lags behind,    *)
(* and cached for all processes, which lags further.                       *)
(***************************************************************************)
EXTENDS Naturals, FiniteSets

CONSTANTS
    Instance,     \* the instances whose deployments allocate
    Worker,       \* the worker nodes of the cluster
    PortStart, PortEnd,  \* DefaultPortRange
    BatchSize, MaxBatches,  \* CONFIG
    Faulty,       \* what may fail: "cache" (Redis), "docker" (the CLI)
    NoPorts,      \* an empty cache entry
    MaxSearches,  \* deployments of one instance, a bound
    MaxChanges    \* ports published or released by others, a bound

ASSUME AllocationConstants ==
    /\ PortStart \in Nat \ {0} /\ PortEnd \in Nat
    /\ BatchSize \in Nat \ {0} /\ MaxBatches \in Nat \ {0}
    /\ Faulty \subseteq {"cache", "docker"}
    /\ MaxSearches \in Nat /\ MaxChanges \in Nat
    /\ NoPorts \notin [Worker -> SUBSET (PortStart..PortEnd)]

Ports == PortStart..PortEnd

\* The ports of each worker, as the log parser returns them.
Snapshot == [Worker -> SUBSET Ports]

Steps == {"highest", "used", "check", "store", "reserve"}

VARIABLES
    \* Postgres
    reserved,   \* database_connections.port of the instance (0: no row)
    \* the swarm and Redis
    published,  \* the ports of the range each worker really publishes
    logged,     \* the ports the agent's last log lines show
    cache,      \* the cached snapshot, or NoPorts
    \* the search of each instance
    pc,
    targets,    \* targetWorkers
    attempt,    \* of RetryHelper.execute
    last,       \* lastCheckedPort (0: undefined)
    start,      \* startFromPort of the batch
    cand,       \* candidatePorts
    view,       \* the snapshot fetched and not yet cached
    port,       \* the port found
    \* history
    first,      \* where the search began
    free,       \* the ports that were free ever since it began
    known,      \* the ports that were known to be in use when it began
    \* the environment
    searches, changes

search  == <<pc, targets, attempt, last, start, cand, view, port, first>>
swarm   == <<published, logged, cache>>
history == <<free, known>>
vars    == <<reserved, swarm, search, history, searches, changes>>

Searching(i) == pc[i] \in Steps

Reserved == {reserved[i] : i \in Instance} \ {0}

TypeOK ==
    /\ reserved \in [Instance -> Ports \cup {0}]
    /\ published \in Snapshot /\ logged \in Snapshot
    /\ cache \in Snapshot \cup {NoPorts}
    /\ pc \in [Instance -> Steps \cup {"idle", "done", "failed"}]
    /\ targets \in [Instance -> SUBSET Worker]
    /\ attempt \in [Instance -> 0..MaxBatches]
    /\ last \in [Instance -> Ports \cup {0}]
    /\ start \in [Instance -> Nat] /\ first \in [Instance -> Nat]
    /\ cand \in [Instance -> SUBSET Ports]
    /\ view \in [Instance -> Snapshot \cup {NoPorts}]
    /\ port \in [Instance -> Ports \cup {0}]
    /\ free \in [Instance -> SUBSET Ports]
    /\ known \in [Instance -> Snapshot]
    /\ searches \in [Instance -> Nat] /\ changes \in Nat
    /\ \A i \in Instance :
          /\ pc[i] = "used" => start[i] >= PortStart
          /\ pc[i] = "store" => view[i] \in Snapshot
          /\ pc[i] = "reserve" => port[i] \in Ports

Unused == [w \in Worker |-> {}]

Init ==
    /\ reserved = [i \in Instance |-> 0]
    /\ published = Unused /\ logged = Unused /\ cache = NoPorts
    /\ pc = [i \in Instance |-> "idle"]
    /\ targets = [i \in Instance |-> {}]
    /\ attempt = [i \in Instance |-> 0]
    /\ last = [i \in Instance |-> 0]
    /\ start = [i \in Instance |-> 0]
    /\ cand = [i \in Instance |-> {}]
    /\ view = [i \in Instance |-> NoPorts]
    /\ port = [i \in Instance |-> 0]
    /\ first = [i \in Instance |-> 0]
    /\ free = [i \in Instance |-> {}]
    /\ known = [i \in Instance |-> Unused]
    /\ searches = [i \in Instance |-> 0]
    /\ changes = 0

-----------------------------------------------------------------------------
(* The search *)

Goto(i, step) == pc' = [pc EXCEPT ![i] = step]

\* allocateAndReservePort is called by the deployment, or by its redelivery.
Begin(i, ws) ==
    /\ ~Searching(i) /\ searches[i] < MaxSearches
    /\ ws # {}
    /\ Goto(i, "highest")
    /\ searches' = [searches EXCEPT ![i] = @ + 1]
    /\ targets' = [targets EXCEPT ![i] = ws]
    /\ attempt' = [attempt EXCEPT ![i] = 1]
    /\ last' = [last EXCEPT ![i] = 0]
    /\ first' = [first EXCEPT ![i] = 0]
    /\ port' = [port EXCEPT ![i] = 0]
    /\ UNCHANGED <<start, cand, view, reserved, swarm, changes>>

\* Mutant of NextAttempt: the port after l is added one twice.
NextAttemptSkipsOne(i, l) ==
    /\ last' = [last EXCEPT ![i] = l]
    /\ cand' = [cand EXCEPT ![i] = {}]
    /\ view' = [view EXCEPT ![i] = NoPorts]
    /\ IF attempt[i] < MaxBatches
       THEN /\ attempt' = [attempt EXCEPT ![i] = @ + 1]
            /\ Goto(i, IF l = 0 THEN "highest" ELSE "used")
            /\ start' = [start EXCEPT ![i] = IF l = 0 THEN @ ELSE l + 2]
       ELSE /\ Goto(i, "failed")
            /\ UNCHANGED <<attempt, start>>

\* Mutant of NextAttempt: an attempt that threw is not counted.
NextAttemptUncounted(i, l) ==
    /\ last' = [last EXCEPT ![i] = l]
    /\ cand' = [cand EXCEPT ![i] = {}]
    /\ view' = [view EXCEPT ![i] = NoPorts]
    /\ Goto(i, IF l = 0 THEN "highest" ELSE "used")
    /\ start' = [start EXCEPT ![i] = IF l = 0 THEN @ ELSE l + 1]
    /\ UNCHANGED attempt

\* An attempt threw: RetryHelper tries the next batch after l, or gives up.
\* As long as no batch was checked the highest reserved port is read again.
NextAttempt(i, l) ==
    /\ last' = [last EXCEPT ![i] = l]
    /\ cand' = [cand EXCEPT ![i] = {}]
    /\ view' = [view EXCEPT ![i] = NoPorts]
    /\ IF attempt[i] < MaxBatches
       THEN /\ attempt' = [attempt EXCEPT ![i] = @ + 1]
            /\ Goto(i, IF l = 0 THEN "highest" ELSE "used")
            /\ start' = [start EXCEPT ![i] = IF l = 0 THEN @ ELSE l + 1]
       ELSE /\ Goto(i, "failed")
            /\ UNCHANGED <<attempt, start>>

\* getHighestUsedPort
ReadHighest(i) ==
    /\ pc[i] = "highest"
    /\ \/ Reserved = {} /\ start' = [start EXCEPT ![i] = PortStart]
       \/ \E h \in Reserved :
             /\ \A p \in Reserved : p <= h
             /\ start' = [start EXCEPT ![i] = h + 1]
    /\ first' = [first EXCEPT ![i] = start'[i]]
    /\ Goto(i, "used")
    /\ UNCHANGED <<targets, attempt, last, cand, view, port>>
    /\ UNCHANGED <<reserved, swarm, searches, changes>>

\* Mutant of Candidates: one port past the range.
CandidatesPastEnd(s) ==
    {p \in s..(PortEnd + 1) :
        /\ p \notin Reserved
        /\ Cardinality((s..(p-1)) \ Reserved) < BatchSize}

\* The first BatchSize ports from s on that no row has reserved.
Candidates(s) ==
    {p \in s..PortEnd : /\ p \notin Reserved
                        /\ Cardinality((s..(p-1)) \ Reserved) < BatchSize}

\* getUsedPorts; an empty batch is an error like any other.
ReadUsed(i) ==
    /\ pc[i] = "used"
    /\ IF Candidates(start[i]) = {}
       THEN NextAttempt(i, last[i])
       ELSE /\ cand' = [cand EXCEPT ![i] = Candidates(start[i])]
            /\ Goto(i, "check")
            /\ UNCHANGED <<attempt, last, start, view>>
    /\ UNCHANGED <<targets, port, first, reserved, swarm, searches, changes>>

\* Mutant of Available: one target worker without the port is enough.
AvailableOnSome(i, snapshot) ==
    {p \in cand[i] : \E w \in targets[i] : p \notin snapshot[w]}

\* A port is available when no target worker shows it.
Available(i, snapshot) ==
    {p \in cand[i] : \A w \in targets[i] : p \notin snapshot[w]}

\* findAvailablePort: the first available candidate, or the next batch.
Decide(i, snapshot) ==
    IF Available(i, snapshot) = {}
    THEN /\ \E l \in cand[i] : /\ \A p \in cand[i] : p <= l
                               /\ NextAttempt(i, l)
         /\ UNCHANGED port
    ELSE /\ \E p \in Available(i, snapshot) :
               /\ \A q \in Available(i, snapshot) : p <= q
               /\ port' = [port EXCEPT ![i] = p]
         /\ Goto(i, "reserve")
         /\ cand' = [cand EXCEPT ![i] = {}]
         /\ view' = [view EXCEPT ![i] = NoPorts]
         /\ UNCHANGED <<attempt, last, start>>

ReadCache(i) ==
    /\ pc[i] = "check" /\ cache # NoPorts
    /\ Decide(i, cache)
    /\ UNCHANGED <<targets, first, reserved, swarm, searches, changes>>

\* The cache is empty or cannot be read.
MustFetch == cache = NoPorts \/ "cache" \in Faulty

FetchPorts(i) ==
    /\ pc[i] = "check" /\ MustFetch
    /\ view' = [view EXCEPT ![i] = logged]
    /\ Goto(i, "store")
    /\ UNCHANGED <<targets, attempt, last, start, cand, port, first>>
    /\ UNCHANGED <<reserved, swarm, searches, changes>>

FetchFails(i) ==
    /\ pc[i] = "check" /\ MustFetch /\ "docker" \in Faulty
    /\ NextAttempt(i, last[i])
    /\ UNCHANGED <<targets, port, first, reserved, swarm, searches, changes>>

\* Whatever Redis holds by now is overwritten; a failing write is ignored.
StorePorts(i) ==
    /\ pc[i] = "store"
    /\ \/ cache' = view[i]
       \/ "cache" \in Faulty /\ UNCHANGED cache
    /\ Decide(i, view[i])
    /\ UNCHANGED <<targets, first, reserved, published, logged>>
    /\ UNCHANGED <<searches, changes>>

\* Mutant of Reserve: no unique constraint on the port.
ReserveUnchecked(i) ==
    /\ pc[i] = "reserve"
    /\ reserved' = [reserved EXCEPT ![i] = port[i]]
    /\ Goto(i, "done")
    /\ UNCHANGED <<targets, attempt, last, start, cand, view, port, first>>
    /\ UNCHANGED <<swarm, searches, changes>>

\* upsert of the connection row; unique(port, region_code) may refuse it, and
\* that error is outside the retries.
Reserve(i) ==
    /\ pc[i] = "reserve"
    /\ IF \E k \in Instance \ {i} : reserved[k] = port[i]
       THEN Goto(i, "failed") /\ UNCHANGED reserved
       ELSE /\ reserved' = [reserved EXCEPT ![i] = port[i]]
            /\ Goto(i, "done")
    /\ UNCHANGED <<targets, attempt, last, start, cand, view, port, first>>
    /\ UNCHANGED <<swarm, searches, changes>>

SearchStep(i) ==
    \/ ReadHighest(i) \/ ReadUsed(i) \/ ReadCache(i) \/ FetchPorts(i)
    \/ FetchFails(i) \/ StorePorts(i) \/ Reserve(i)

-----------------------------------------------------------------------------
(* The swarm and Redis (external) *)

\* A service publishes a port of the range on a worker, or releases it.
Publish(w, p) ==
    /\ changes < MaxChanges /\ changes' = changes + 1
    /\ p \notin published[w]
    /\ published' = [published EXCEPT ![w] = @ \cup {p}]
    /\ UNCHANGED <<logged, cache, search, reserved, searches>>

Release(w, p) ==
    /\ changes < MaxChanges /\ changes' = changes + 1
    /\ p \in published[w]
    /\ published' = [published EXCEPT ![w] = @ \ {p}]
    /\ UNCHANGED <<logged, cache, search, reserved, searches>>

\* The agent of a worker logs its ports; the lines read may be older ones too.
Log(w) ==
    /\ \E old \in {{}, logged[w]} :
          logged' = [logged EXCEPT ![w] = published[w] \cup old]
    /\ UNCHANGED <<published, cache, search, reserved, searches, changes>>

\* The entry of the cache is older than CACHE_TTL_SECONDS.
Expire ==
    /\ cache' = NoPorts
    /\ UNCHANGED <<published, logged, search, reserved, searches, changes>>

-----------------------------------------------------------------------------
(* History *)

\* The ports a search of i may take for used: reserved ones and those any
\* snapshot shows on its workers, at the source, in the log, or under way.
InUse(i) ==
    Reserved \cup {p \in Ports : \E w \in targets[i] :
        \/ p \in published[w] \cup logged[w]
        \/ cache # NoPorts /\ p \in cache[w]
        \/ \E k \in Instance : pc[k] = "store" /\ p \in view[k][w]}

\* The ports of a worker that every snapshot shows.
SeenByAll(w) ==
    {p \in published[w] \cap logged[w] :
        /\ cache # NoPorts => p \in cache[w]
        /\ \A k \in Instance : pc[k] = "store" => p \in view[k][w]}

Begins(i) == ~Searching(i) /\ pc'[i] = "highest"

Remember ==
    /\ free' = [i \in Instance |->
                  (IF Begins(i) THEN Ports ELSE free[i]) \ InUse(i)']
    /\ known' = [i \in Instance |-> [w \in Worker |->
                  IF ~Begins(i) THEN known[i][w] \cap published'[w]
                  ELSE IF w \in targets'[i] THEN SeenByAll(w) ELSE {}]]

-----------------------------------------------------------------------------
Step ==
    \/ \E i \in Instance : SearchStep(i) \/ \E ws \in SUBSET Worker : Begin(i, ws)
    \/ \E w \in Worker : Log(w) \/ \E p \in Ports : Publish(w, p) \/ Release(w, p)
    \/ Expire

Next == Step /\ Remember

Spec == Init /\ [][Next]_vars

\* A process that searches goes on: every await of it returns.
FairSpec == Spec /\ \A i \in Instance : WF_vars(SearchStep(i) /\ Remember)

-----------------------------------------------------------------------------
(* Properties *)

\* The inductive form of SearchSkipsNothing: a port that was free all the time
\* is in use nowhere, is behind no batch, and is a candidate of the batch being
\* checked if the batch reaches that far.
SearchInvAt(i) ==
    /\ free[i] \cap InUse(i) = {}
    /\ pc[i] = "highest" => last[i] = 0
    /\ \A p \in free[i] :
          /\ first[i] # 0 => ~(first[i] <= p /\ p <= last[i])
          /\ pc[i] \in {"used", "check", "store"} =>
                first[i] # 0 /\ ~(first[i] <= p /\ p < start[i])
          /\ /\ pc[i] \in {"check", "store"}
             /\ \E c \in cand[i] : start[i] <= p /\ p <= c
             => p \in cand[i]
          /\ pc[i] = "reserve" => ~(first[i] <= p /\ p < port[i])

SearchInv == \A i \in Instance : SearchInvAt(i)

\* The inductive form of KnownPortsAvoided: every snapshot goes on showing what
\* all of them showed.
KnownInv ==
    \A i \in Instance, w \in Worker :
        /\ known[i][w] \subseteq SeenByAll(w)
        /\ known[i][w] # {} => w \in targets[i]
        /\ pc[i] = "reserve" => port[i] \notin known[i][w]

\* The search implements PortRegistry: nobody is granted a port another
\* instance holds or one that was known to be in use.
Registry == INSTANCE PortRegistry WITH
    held   <- reserved,
    asking <- {i \in Instance : Searching(i)},
    known  <- [i \in Instance |-> UNION {known[i][w] : w \in Worker}]

ImplementsRegistry == Registry!Spec

\* Every search ends, with a port or with an error.
SearchEnds == \A i \in Instance : Searching(i) ~> ~Searching(i)
=============================================================================
