------------------------------ MODULE MC_Swarm ------------------------------
(* The workers of a swarm, two searches for a port, the DNS records of a stack, *)
(* the files of two deployments, and one deployment beside an operator's        *)
(* clean:stacks, which share nothing: one part is chosen in the initial state,  *)
(* the others stay as they are.                                                 *)
EXTENDS Placement, TLC

CONSTANTS Part, i1, i2, i3, anna, bob, s1, s2, a1, a2, w1, w2, Nothing
VARIABLES
    part,
    reserved, published, logged, cache, pc, targets, attempt, last, start, cand, view, port,
    first, free, known, searches, changes,
    zone, rows, dnsJob, deliveries, faults, lost,
    setting, filesJob, clock, tmp, compose, dockerTls, called, wiped, secrets, running, stored,
    command

\* Two deployments search at once, each for any of two workers.
A == INSTANCE PortAllocation WITH
        Instance <- {a1, a2}, Worker <- {w1, w2}, PortStart <- 1, PortEnd <- 4,
        BatchSize <- 2, MaxBatches <- 2, MaxSearches <- 1, MaxChanges <- 2,
        Faulty <- {"cache", "docker"}, NoPorts <- Nothing
INSTANCE FoundPorts WITH Instance <- {a1, a2}, Worker <- {w1, w2}

D == INSTANCE DnsRecords WITH
        WorkerSets <- {{1}, {1, 2}, {2, 3}}, MaxAttempts <- 2,
        MaxDeliveries <- 4, MaxFaults <- 4, job <- dnsJob
INSTANCE DnsZone WITH job <- dnsJob

MCOwnerOf == (i1 :> anna) @@ (i2 :> anna) @@ (i3 :> bob)

\* The first cluster is not usable; bob has one of his own, made later.
Shared(usable) == [owner |-> NoOwner, type |-> "shared", usable |-> usable]
MCClusters ==
    <<Shared(FALSE), Shared(TRUE), [owner |-> bob, type |-> "private", usable |-> TRUE]>>

AWorker(cluster, number, active, max) ==
    [cluster |-> cluster, number |-> number, active |-> active, max |-> max]
MCWorkers ==
    <<AWorker(1, 1, TRUE, 9), AWorker(2, 2, TRUE, 1), AWorker(2, 1, TRUE, 2),
      AWorker(2, 3, FALSE, 9), AWorker(3, 1, TRUE, 1)>>

\* Versions with and without a CA file, a CA secret, TLS and replication; the
\* first ports follow each other, and the last is the end of the range.
Asks(version, tls, replicated, p) ==
    [version |-> version, tls |-> tls, replicated |-> replicated, port |-> p]
MCSettings ==
    {Asks("7.0.4", TRUE, TRUE, 30300), Asks("5.0.21", TRUE, FALSE, 30301),
     Asks("6.0.16", TRUE, FALSE, 30302), Asks("8.0.4", FALSE, TRUE, 35000)}

F == INSTANCE StackFiles WITH
        Stack <- {s1, s2}, Settings <- MCSettings,
        Modern <- {"6.0.16", "8.0.4"}, NeedsCa <- {"7.0.4", "8.0.4"},
        MaxDeliveries <- 2, MaxCleanings <- 0, MaxClock <- 1, job <- filesJob

INSTANCE DeployedStacks WITH
        Modern <- {"6.0.16", "8.0.4"}, NeedsCa <- {"7.0.4", "8.0.4"}, job <- filesJob

\* One deployment, and an operator who cleans up.
G == INSTANCE StackFiles WITH
        Stack <- {s1}, Settings <- MCSettings,
        Modern <- {"6.0.16", "8.0.4"}, NeedsCa <- {"7.0.4", "8.0.4"},
        MaxDeliveries <- 3, MaxCleanings <- 2, MaxClock <- 0, job <- filesJob

portVars ==
    <<reserved, published, logged, cache, pc, targets, attempt, last, start, cand, view, port,
      first, free, known, searches, changes>>
dnsVars == <<zone, rows, dnsJob, deliveries, faults, lost>>
filesVars ==
    <<setting, filesJob, clock, tmp, compose, dockerTls, called, wiped, secrets, running,
      stored, command>>

Symmetry == Permutations({a1, a2}) \cup Permutations({w1, w2})

\* Two deployments with ports that follow each other among those asked for.
Neighbours(a, b) == a < b /\ ~\E s \in MCSettings : a < s.port /\ s.port < b

MCInit ==
    /\ part \in Part
    /\ Init /\ A!Init /\ D!Init
    /\ IF part = "clean" THEN G!Init ELSE F!Init
    /\ \/ part = "clean"
       \/ part = "files" /\ Neighbours(setting[s1].port, setting[s2].port)
       \/ /\ part \in {"placement", "ports", "dns"}
          /\ setting = (s1 :> Asks("5.0.21", TRUE, FALSE, 30301))
                       @@ (s2 :> Asks("6.0.16", TRUE, FALSE, 30302))

MCNext ==
    /\ UNCHANGED part
    /\ \/ part = "placement" /\ Next /\ UNCHANGED <<portVars, dnsVars, filesVars>>
       \/ part = "ports" /\ A!Next /\ UNCHANGED <<vars, dnsVars, filesVars>>
       \/ part = "dns" /\ D!Next /\ UNCHANGED <<vars, portVars, filesVars>>
       \/ part = "files" /\ F!Next /\ UNCHANGED <<vars, portVars, dnsVars>>
       \/ part = "clean" /\ G!Next /\ UNCHANGED <<vars, portVars, dnsVars>>

MCSpec == MCInit /\ [][MCNext]_<<part, vars, portVars, dnsVars, filesVars>>

AllTypesOK ==
    CASE part = "placement" -> TypeOK
      [] part = "ports" -> A!TypeOK
      [] part = "dns" -> D!TypeOK
      [] part = "files" -> F!TypeOK
      [] part = "clean" -> G!TypeOK
=============================================================================
