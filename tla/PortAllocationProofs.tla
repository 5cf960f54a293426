------------------------ MODULE PortAllocationProofs ------------------------
(***************************************************************************)
(* Proofs about PortAllocation, for any number of instances and workers    *)
(* and any range, batch size and number of batches.                        *)
(***************************************************************************)
EXTENDS PortAllocation, FiniteSetTheorems, TLAPS
INSTANCE FoundPorts

-----------------------------------------------------------------------------
(* Type correctness *)

\* Ports are numbers.
LEMMA PortsAreNat ==
    /\ Ports \subseteq Nat \ {0}
          /\ \A p : p \in Ports <=> p \in Nat /\ PortStart <= p /\ p <= PortEnd
    BY AllocationConstants DEF Ports

\* Candidates are ports of the range.
LEMMA CandidatesType ==
    ASSUME NEW s \in Nat, s >= PortStart
    PROVE  /\ Candidates(s) \subseteq Ports
           /\ \A p \in Candidates(s) : p >= s /\ p \notin Reserved
    BY AllocationConstants DEF Candidates, Ports

\* What a search step leaves alone, and how it may move pc.
LEMMA NextAttemptType ==
    ASSUME TypeOK, NEW i \in Instance, NEW l \in Ports \cup {0},
           NextAttempt(i, l)
    PROVE  /\ pc' = [pc EXCEPT ![i] = pc'[i]]
           /\ pc'[i] \in {"highest", "used", "failed"}
           /\ attempt' \in [Instance -> 0..MaxBatches]
           /\ last' \in [Instance -> Ports \cup {0}]
           /\ last' = [last EXCEPT ![i] = l]
           /\ start' \in [Instance -> Nat]
           /\ \A k \in Instance \ {i} : start'[k] = start[k]
           /\ pc'[i] = "used" =>
                 l # 0 /\ start'[i] = l + 1 /\ start'[i] >= PortStart
           /\ pc'[i] = "highest" => l = 0
           /\ cand' = [cand EXCEPT ![i] = {}]
           /\ view' = [view EXCEPT ![i] = NoPorts]
           /\ cand' \in [Instance -> SUBSET Ports]
           /\ view' \in [Instance -> Snapshot \cup {NoPorts}]
    <1>1. /\ attempt[i] \in 0..MaxBatches /\ MaxBatches \in Nat
          /\ PortStart \in Nat /\ l \in Nat /\ (l # 0 => l >= PortStart)
        BY PortsAreNat, AllocationConstants DEF TypeOK
    <1>2. CASE attempt[i] < MaxBatches
        BY <1>1, <1>2, PortsAreNat DEF NextAttempt, Goto, TypeOK
    <1>3. CASE ~(attempt[i] < MaxBatches)
        BY <1>1, <1>3, PortsAreNat DEF NextAttempt, Goto, TypeOK
    <1>. QED  BY <1>2, <1>3

\* The two outcomes of a check.
LEMMA DecideCases ==
    ASSUME TypeOK, NEW i \in Instance, NEW s \in Snapshot, Decide(i, s)
    PROVE  \/ \E l \in cand[i] :
                 /\ \A p \in cand[i] : p <= l
                 /\ Available(i, s) = {} /\ port' = port
                 /\ NextAttempt(i, l)
           \/ \E p \in Available(i, s) :
                 /\ \A q \in Available(i, s) : p <= q
                 /\ p \in Ports
                 /\ port' = [port EXCEPT ![i] = p]
                 /\ pc' = [pc EXCEPT ![i] = "reserve"]
                 /\ cand' = [cand EXCEPT ![i] = {}]
                 /\ view' = [view EXCEPT ![i] = NoPorts]
                 /\ attempt' = attempt /\ last' = last /\ start' = start
    BY DEF Decide, Goto, Available, TypeOK

\* A decision keeps the types.
LEMMA DecideType ==
    ASSUME TypeOK, NEW i \in Instance, NEW s \in Snapshot, Decide(i, s)
    PROVE  /\ pc' = [pc EXCEPT ![i] = pc'[i]]
           /\ pc'[i] \in {"highest", "used", "failed", "reserve"}
           /\ attempt' \in [Instance -> 0..MaxBatches]
           /\ last' \in [Instance -> Ports \cup {0}]
           /\ start' \in [Instance -> Nat]
           /\ \A k \in Instance \ {i} : start'[k] = start[k]
           /\ pc'[i] = "used" => start'[i] >= PortStart
           /\ pc'[i] = "reserve" => port'[i] \in Ports
           /\ port' \in [Instance -> Ports \cup {0}]
           /\ \A k \in Instance \ {i} : port'[k] = port[k]
           /\ cand' = [cand EXCEPT ![i] = {}]
           /\ view' = [view EXCEPT ![i] = NoPorts]
    <1>1. CASE \E l \in cand[i] : port' = port /\ NextAttempt(i, l)
        <2>1. PICK l \in cand[i] : port' = port /\ NextAttempt(i, l)
            BY <1>1
        <2>2. l \in Ports /\ l \in Nat /\ l >= PortStart /\ PortStart \in Nat
            BY PortsAreNat, AllocationConstants DEF TypeOK
        <2>. QED  BY <2>1, <2>2, NextAttemptType DEF TypeOK
    <1>2. CASE \E p \in Ports :
                 /\ port' = [port EXCEPT ![i] = p]
                 /\ pc' = [pc EXCEPT ![i] = "reserve"]
                 /\ cand' = [cand EXCEPT ![i] = {}]
                 /\ view' = [view EXCEPT ![i] = NoPorts]
                 /\ attempt' = attempt /\ last' = last /\ start' = start
        BY <1>2 DEF TypeOK
    <1>. QED  BY <1>1, <1>2, DecideCases

\* The history variables keep their types.
LEMMA RememberType ==
    ASSUME TypeOK, Remember, published' \in Snapshot
    PROVE  free' \in [Instance -> SUBSET Ports] /\ known' \in [Instance -> Snapshot]
    <1>1. free' \in [Instance -> SUBSET Ports]
        <2>1. \A i \in Instance :
                (IF Begins(i) THEN Ports ELSE free[i]) \ InUse(i)' \in SUBSET Ports
            BY DEF TypeOK
        <2>. QED  BY <2>1 DEF Remember
    <1>2. known' \in [Instance -> Snapshot]
        <2>1. \A w \in Worker : SeenByAll(w) \in SUBSET Ports
            BY DEF SeenByAll, TypeOK, Snapshot
        <2>2. \A i \in Instance, w \in Worker : known[i][w] \cap published'[w] \in SUBSET Ports
            BY DEF TypeOK, Snapshot
        <2>3. \A i \in Instance, w \in Worker :
                (IF ~Begins(i) THEN known[i][w] \cap published'[w]
                 ELSE IF w \in targets'[i] THEN SeenByAll(w) ELSE {}) \in SUBSET Ports
            BY <2>1, <2>2
        <2>. QED  BY <2>3, Zenon DEF Remember, Snapshot
    <1>. QED  BY <1>1, <1>2

\* Every step keeps the types.
LEMMA TypeInvariant == TypeOK /\ [Next]_vars => TypeOK'
    <1>. SUFFICES ASSUME TypeOK, [Next]_vars PROVE TypeOK'
        OBVIOUS
    <1>0. CASE UNCHANGED vars
        BY <1>0 DEF vars, swarm, search, history, TypeOK
    <1>. SUFFICES ASSUME Step, Remember PROVE TypeOK'
        BY <1>0 DEF Next
    <1>1. ASSUME NEW i \in Instance, NEW ws \in SUBSET Worker, Begin(i, ws)
          PROVE  TypeOK'
        <2>1. published' \in Snapshot /\ 1 \in 0..MaxBatches
            BY <1>1, AllocationConstants DEF Begin, swarm, TypeOK
        <2>. QED  BY <1>1, <2>1, RememberType DEF Begin, Goto, swarm, TypeOK, Steps, Searching
    <1>2. ASSUME NEW i \in Instance, ReadHighest(i) PROVE TypeOK'
        <2>1. published' \in Snapshot
            BY <1>2 DEF ReadHighest, swarm, TypeOK
        <2>2. start' \in [Instance -> Nat] /\ start'[i] >= PortStart
              /\ \A k \in Instance \ {i} : start'[k] = start[k]
            <3>1. \A h \in Reserved : h \in Nat /\ h >= PortStart
                BY PortsAreNat DEF Reserved, TypeOK
            <3>. QED  BY <1>2, <3>1, AllocationConstants DEF ReadHighest, TypeOK
        <2>. QED  BY <1>2, <2>1, <2>2, RememberType DEF ReadHighest, Goto, swarm, TypeOK, Steps
    <1>3. ASSUME NEW i \in Instance, ReadUsed(i) PROVE TypeOK'
        <2>1. published' \in Snapshot /\ start[i] \in Nat /\ start[i] >= PortStart
            BY <1>3 DEF ReadUsed, swarm, TypeOK
        <2>2. CASE Candidates(start[i]) = {}
            <3>1. NextAttempt(i, last[i]) /\ last[i] \in Ports \cup {0}
                BY <1>3, <2>2 DEF ReadUsed, TypeOK
            <3>2. /\ pc' \in [Instance -> Steps \cup {"idle", "done", "failed"}]
                  /\ \A k \in Instance :
                        /\ pc'[k] = "used" => start'[k] >= PortStart
                        /\ pc'[k] = "store" => view'[k] \in Snapshot
                        /\ pc'[k] = "reserve" => port'[k] \in Ports
                BY <1>3, <3>1, NextAttemptType DEF ReadUsed, TypeOK, Steps
            <3>. QED  BY <1>3, <2>1, <3>1, <3>2, NextAttemptType, RememberType
                      DEF ReadUsed, swarm, TypeOK
        <2>3. CASE Candidates(start[i]) # {}
            BY <1>3, <2>1, <2>3, CandidatesType, RememberType
               DEF ReadUsed, Goto, swarm, TypeOK, Steps
        <2>. QED  BY <2>2, <2>3
    <1>4. ASSUME NEW i \in Instance, ReadCache(i) PROVE TypeOK'
        <2>1. published' \in Snapshot /\ cache \in Snapshot /\ Decide(i, cache)
            BY <1>4 DEF ReadCache, swarm, TypeOK
        <2>. QED  BY <1>4, <2>1, DecideType, RememberType DEF ReadCache, swarm, TypeOK, Steps
    <1>5. ASSUME NEW i \in Instance, FetchPorts(i) PROVE TypeOK'
        <2>1. published' \in Snapshot
            BY <1>5 DEF FetchPorts, swarm, TypeOK
        <2>. QED  BY <1>5, <2>1, RememberType DEF FetchPorts, Goto, swarm, TypeOK, Steps
    <1>6. ASSUME NEW i \in Instance, FetchFails(i) PROVE TypeOK'
        <2>1. published' \in Snapshot /\ NextAttempt(i, last[i]) /\ last[i] \in Ports \cup {0}
            BY <1>6 DEF FetchFails, swarm, TypeOK
        <2>2. /\ pc' \in [Instance -> Steps \cup {"idle", "done", "failed"}]
              /\ \A k \in Instance :
                    /\ pc'[k] = "used" => start'[k] >= PortStart
                    /\ pc'[k] = "store" => view'[k] \in Snapshot
                    /\ pc'[k] = "reserve" => port'[k] \in Ports
            BY <1>6, <2>1, NextAttemptType DEF FetchFails, TypeOK, Steps
        <2>. QED  BY <1>6, <2>1, <2>2, NextAttemptType, RememberType
                  DEF FetchFails, swarm, TypeOK
    <1>7. ASSUME NEW i \in Instance, StorePorts(i) PROVE TypeOK'
        <2>1. published' \in Snapshot /\ view[i] \in Snapshot /\ Decide(i, view[i])
              /\ cache' \in Snapshot \cup {NoPorts}
            BY <1>7 DEF StorePorts, TypeOK
        <2>. QED  BY <1>7, <2>1, DecideType, RememberType DEF StorePorts, TypeOK, Steps
    <1>8. ASSUME NEW i \in Instance, Reserve(i) PROVE TypeOK'
        <2>1. published' \in Snapshot
            BY <1>8 DEF Reserve, swarm, TypeOK
        <2>. QED  BY <1>8, <2>1, RememberType DEF Reserve, Goto, swarm, TypeOK, Steps
    <1>9. ASSUME NEW w \in Worker, NEW p \in Ports, Publish(w, p) \/ Release(w, p)
          PROVE  TypeOK'
        <2>1. published' \in Snapshot
            BY <1>9 DEF Publish, Release, TypeOK, Snapshot
        <2>. QED  BY <1>9, <2>1, RememberType DEF Publish, Release, search, TypeOK
    <1>10. ASSUME NEW w \in Worker, Log(w) PROVE TypeOK'
        <2>1. published' \in Snapshot /\ logged' \in Snapshot
            BY <1>10 DEF Log, TypeOK, Snapshot
        <2>. QED  BY <1>10, <2>1, RememberType DEF Log, search, TypeOK
    <1>11. CASE Expire
        <2>1. published' \in Snapshot
            BY <1>11 DEF Expire, TypeOK
        <2>. QED  BY <1>11, <2>1, RememberType DEF Expire, search, TypeOK
    <1>. QED  BY <1>1, <1>2, <1>3, <1>4, <1>5, <1>6, <1>7, <1>8, <1>9, <1>10, <1>11
              DEF Step, SearchStep

\* TypeOK always holds: every row, snapshot and counter of a search is a value
\* the code can hold, a candidate in particular never leaves the port range.
THEOREM TypeCorrect == Spec => []TypeOK
    <1>1. Init => TypeOK
        BY AllocationConstants DEF Init, TypeOK, Unused, Snapshot, Steps
    <1>. QED  BY <1>1, TypeInvariant, PTL DEF Spec

-----------------------------------------------------------------------------
(* The search skips nothing *)

\* What Remember does to the history of free ports.
LEMMA FreeShrinks ==
    ASSUME Remember, NEW i \in Instance
    PROVE  /\ free'[i] \cap InUse(i)' = {}
           /\ ~Begins(i) => free'[i] \subseteq free[i]
    BY DEF Remember

\* A batch has every unreserved port between its start and any of its ports.
LEMMA CandidatesAreDense ==
    ASSUME NEW s \in Nat, NEW c \in Candidates(s), NEW p \in Nat,
           s <= p, p <= c, p \notin Reserved
    PROVE  p \in Candidates(s)
    <1>. DEFINE Below(q) == (s..(q-1)) \ Reserved
    <1>1. c \in s..PortEnd /\ Cardinality(Below(c)) < BatchSize
        BY DEF Candidates
    <1>2. IsFiniteSet(Below(c))
        <2>1. IsFiniteSet(s..(c-1))
            BY <1>1, FS_Interval, AllocationConstants
        <2>. QED  BY <2>1, FS_Subset
    <1>3. Below(p) \in SUBSET Below(c)
        BY <1>1, AllocationConstants
    <1>4. /\ Cardinality(Below(p)) \in Nat /\ Cardinality(Below(c)) \in Nat
          /\ Cardinality(Below(p)) <= Cardinality(Below(c))
        BY <1>2, <1>3, FS_Subset, FS_CardinalityType
    <1>5. Cardinality(Below(p)) < BatchSize
        BY <1>1, <1>4, AllocationConstants
    <1>6. p \in s..PortEnd
        BY <1>1, AllocationConstants
    <1>. QED  BY <1>5, <1>6 DEF Candidates

\* A search that does not move keeps its part of SearchInv.
LEMMA SearchFrame ==
    ASSUME Remember, NEW k \in Instance, SearchInvAt(k),
           pc'[k] = pc[k], last'[k] = last[k], start'[k] = start[k],
           first'[k] = first[k], cand'[k] = cand[k], port'[k] = port[k]
    PROVE  SearchInvAt(k)'
    <1>1. ~Begins(k)
        BY DEF Begins, Searching, Steps
    <1>. QED  BY <1>1, FreeShrinks DEF SearchInvAt

\* An attempt that goes on after l leaves no free port up to l behind.
LEMMA NextAttemptKeeps ==
    ASSUME TypeOK, TypeOK', Remember, NEW i \in Instance, SearchInvAt(i), Searching(i),
           NEW l \in Ports \cup {0}, NextAttempt(i, l),
           first[i] # 0, first'[i] = first[i],
           \A p \in free[i] : ~(first[i] <= p /\ p <= l)
    PROVE  SearchInvAt(i)'
    <1>1. free'[i] \cap InUse(i)' = {} /\ free'[i] \subseteq free[i]
        BY FreeShrinks DEF Begins
    <1>2. /\ pc'[i] \in {"highest", "used", "failed"} /\ last'[i] = l
          /\ pc'[i] = "highest" => l = 0
          /\ pc'[i] = "used" => start'[i] = l + 1
        BY NextAttemptType DEF TypeOK
    <1>3. free[i] \subseteq Nat /\ l \in Nat /\ first[i] \in Nat
        BY PortsAreNat DEF TypeOK
    <1>4. ASSUME NEW p \in free'[i]
          PROVE  /\ ~(first'[i] <= p /\ p <= last'[i])
                 /\ pc'[i] = "used" => ~(first'[i] <= p /\ p < start'[i])
        BY <1>1, <1>2, <1>3
    <1>. QED  BY <1>1, <1>2, <1>4 DEF SearchInvAt

\* A free candidate is available in any snapshot a search may read.
LEMMA FreeIsAvailable ==
    ASSUME TypeOK, NEW i \in Instance, SearchInvAt(i), pc[i] \in {"check", "store"},
           NEW s \in Snapshot,
           (pc[i] = "check" /\ s = cache /\ cache # NoPorts)
             \/ (pc[i] = "store" /\ s = view[i])
    PROVE  free[i] \cap cand[i] \subseteq Available(i, s)
    <1>. SUFFICES ASSUME NEW p \in free[i], p \in cand[i], NEW w \in targets[i], p \in s[w]
                  PROVE  FALSE
        BY DEF Available
    <1>1. p \in Ports /\ p \notin InUse(i)
        BY DEF SearchInvAt, TypeOK
    <1>2. \/ cache # NoPorts /\ p \in cache[w]
          \/ \E k \in Instance : pc[k] = "store" /\ p \in view[k][w]
        OBVIOUS
    <1>3. p \in InUse(i)
        BY <1>1, <1>2 DEF InUse
    <1>. QED  BY <1>1, <1>3

\* A decision goes past no port that was free.
LEMMA DecideKeeps ==
    ASSUME TypeOK, TypeOK', Remember, NEW i \in Instance, SearchInvAt(i),
           NEW s \in Snapshot, Decide(i, s), first'[i] = first[i],
           pc[i] \in {"check", "store"},
           (pc[i] = "check" /\ s = cache /\ cache # NoPorts)
             \/ (pc[i] = "store" /\ s = view[i])
    PROVE  SearchInvAt(i)'
    <1>0. /\ free[i] \subseteq Nat /\ cand[i] \subseteq Ports /\ cand[i] \subseteq Nat
          /\ first[i] \in Nat /\ start[i] \in Nat
        BY PortsAreNat DEF TypeOK
    <1>1. free[i] \cap cand[i] \subseteq Available(i, s)
        BY FreeIsAvailable
    <1>2. \A p \in free[i], c \in cand[i] :
             first[i] <= p /\ p <= c => p \in cand[i]
        BY <1>0 DEF SearchInvAt
    <1>3. Searching(i)
        BY DEF Searching, Steps
    <1>4. CASE \E l \in cand[i] : /\ Available(i, s) = {}
                                  /\ NextAttempt(i, l)
        <2>1. PICK l \in cand[i] : Available(i, s) = {} /\ NextAttempt(i, l)
            BY <1>4
        <2>2. \A p \in free[i] : ~(first[i] <= p /\ p <= l) /\ first[i] # 0
            BY <1>1, <1>2, <2>1 DEF SearchInvAt
        <2>3. CASE free[i] = {}
            <3>1. free'[i] = {} /\ (pc'[i] = "highest" => last'[i] = 0)
                BY <1>0, <1>3, <2>1, <2>3, FreeShrinks, NextAttemptType DEF Begins, TypeOK
            <3>. QED  BY <3>1 DEF SearchInvAt
        <2>. QED  BY <1>0, <1>3, <2>1, <2>2, <2>3, NextAttemptKeeps
    <1>5. CASE \E p \in Available(i, s) :
                 /\ \A q \in Available(i, s) : p <= q
                 /\ port' = [port EXCEPT ![i] = p]
                 /\ pc' = [pc EXCEPT ![i] = "reserve"]
                 /\ last' = last
        <2>1. PICK p \in Available(i, s) :
                 /\ \A q \in Available(i, s) : p <= q
                 /\ port' = [port EXCEPT ![i] = p]
                 /\ pc' = [pc EXCEPT ![i] = "reserve"]
                 /\ last' = last
            BY <1>5
        <2>2. p \in cand[i] /\ pc'[i] = "reserve" /\ port'[i] = p
            BY <2>1 DEF Available, TypeOK
        <2>3. free'[i] \cap InUse(i)' = {} /\ free'[i] \subseteq free[i]
            BY <1>3, FreeShrinks DEF Begins
        <2>4. ASSUME NEW q \in free[i], first[i] <= q, q < p PROVE FALSE
            <3>1. q \in Nat /\ p \in Nat /\ q <= p
                BY <1>0, <2>2, <2>4
            <3>2. q \in Available(i, s)
                BY <1>1, <1>2, <2>2, <2>4, <3>1
            <3>. QED  BY <2>1, <2>4, <3>1, <3>2
        <2>. QED  BY <2>1, <2>2, <2>3, <2>4 DEF SearchInvAt
    <1>. QED  BY <1>4, <1>5, DecideCases

\* A decision of one search touches no other.
LEMMA DecideOthers ==
    ASSUME TypeOK, NEW i \in Instance, NEW s \in Snapshot, Decide(i, s)
    PROVE  \A k \in Instance \ {i} : last'[k] = last[k]
    <1>1. CASE \E l \in cand[i] : NextAttempt(i, l)
        BY <1>1 DEF NextAttempt, TypeOK
    <1>2. CASE last' = last
        BY <1>2
    <1>. QED  BY <1>1, <1>2, DecideCases

\* Every step keeps what is known of the searches.
LEMMA SearchInvariant == TypeOK /\ TypeOK' /\ SearchInv /\ [Next]_vars => SearchInv'
    <1>. SUFFICES ASSUME TypeOK, TypeOK', SearchInv, [Next]_vars PROVE SearchInv'
        OBVIOUS
    <1>0. CASE UNCHANGED vars
        BY <1>0 DEF vars, swarm, search, history, SearchInv, SearchInvAt, InUse, Reserved
    <1>. SUFFICES ASSUME Step, Remember PROVE SearchInv'
        BY <1>0 DEF Next
    \* The step of one search leaves the others where they are.
    <1>a. ASSUME NEW i \in Instance, SearchInvAt(i)',
                 \A k \in Instance \ {i} :
                     /\ pc'[k] = pc[k] /\ last'[k] = last[k] /\ start'[k] = start[k]
                     /\ first'[k] = first[k] /\ cand'[k] = cand[k] /\ port'[k] = port[k]
          PROVE  SearchInv'
        BY <1>a, SearchFrame DEF SearchInv
    <1>b. ASSUME UNCHANGED search PROVE SearchInv'
        BY <1>b, SearchFrame DEF SearchInv, search
    <1>1. ASSUME NEW i \in Instance, NEW ws \in SUBSET Worker, Begin(i, ws)
          PROVE  SearchInv'
        <2>1. pc'[i] = "highest" /\ last'[i] = 0 /\ first'[i] = 0
            BY <1>1 DEF Begin, Goto, TypeOK
        <2>2. SearchInvAt(i)'
            BY <2>1, FreeShrinks DEF SearchInvAt
        <2>. QED  BY <1>1, <1>a, <2>2 DEF Begin, Goto, TypeOK
    <1>2. ASSUME NEW i \in Instance, ReadHighest(i) PROVE SearchInv'
        <2>1. /\ pc'[i] = "used" /\ last'[i] = last[i] /\ first'[i] = start'[i]
              /\ pc[i] = "highest"
            BY <1>2 DEF ReadHighest, Goto, TypeOK
        <2>2. start'[i] \in Nat /\ start'[i] >= PortStart /\ start'[i] # 0
            BY <2>1, AllocationConstants DEF TypeOK
        <2>3. last'[i] = 0 /\ free'[i] \subseteq Nat \ {0}
            BY <2>1, PortsAreNat DEF SearchInv, SearchInvAt, TypeOK
        <2>4. SearchInvAt(i)'
            BY <2>1, <2>2, <2>3, FreeShrinks DEF SearchInvAt
        <2>5. \A k \in Instance \ {i} : start'[k] = start[k]
            BY <1>2 DEF ReadHighest, TypeOK
        <2>. QED  BY <1>2, <1>a, <2>4, <2>5 DEF ReadHighest, Goto, TypeOK
    <1>3. ASSUME NEW i \in Instance, ReadUsed(i) PROVE SearchInv'
        <2>0. /\ pc[i] = "used" /\ Searching(i) /\ ~Begins(i) /\ SearchInvAt(i)
              /\ first'[i] = first[i] /\ first[i] \in Nat /\ start[i] \in Nat
              /\ free[i] \subseteq Nat
            BY <1>3, PortsAreNat DEF ReadUsed, Searching, Begins, Steps, SearchInv, TypeOK
        <2>1. CASE Candidates(start[i]) = {}
            <3>1. NextAttempt(i, last[i]) /\ last[i] \in Ports \cup {0}
                BY <1>3, <2>1 DEF ReadUsed, TypeOK
            <3>2. CASE free[i] = {}
                <4>1. free'[i] = {} /\ (pc'[i] = "highest" => last'[i] = 0)
                    BY <2>0, <3>1, <3>2, FreeShrinks, NextAttemptType DEF TypeOK
                <4>. QED  BY <1>3, <1>a, <3>1, <4>1, NextAttemptType
                          DEF SearchInvAt, ReadUsed, TypeOK
            <3>3. CASE free[i] # {}
                <4>1. SearchInvAt(i)'
                    BY <2>0, <3>1, <3>3, NextAttemptKeeps DEF SearchInvAt
                <4>. QED  BY <1>3, <1>a, <3>1, <4>1, NextAttemptType DEF ReadUsed, TypeOK
            <3>. QED  BY <3>2, <3>3
        <2>2. CASE Candidates(start[i]) # {}
            <3>1. /\ pc'[i] = "check" /\ cand'[i] = Candidates(start[i])
                  /\ last'[i] = last[i] /\ start'[i] = start[i]
                BY <1>3, <2>2 DEF ReadUsed, Goto, TypeOK
            <3>2. ASSUME NEW p \in free'[i], NEW c \in Candidates(start[i]),
                         start[i] <= p, p <= c
                  PROVE  p \in Candidates(start[i])
                <4>1. p \in Nat /\ p \notin Reserved
                    BY <2>0, <3>2, FreeShrinks DEF SearchInvAt, InUse
                <4>. QED  BY <2>0, <3>2, <4>1, CandidatesAreDense
            <3>3. SearchInvAt(i)'
                BY <2>0, <3>1, <3>2, FreeShrinks DEF SearchInvAt
            <3>. QED  BY <1>3, <1>a, <2>2, <3>3 DEF ReadUsed, Goto, TypeOK
        <2>. QED  BY <2>1, <2>2
    <1>4. ASSUME NEW i \in Instance, ReadCache(i) PROVE SearchInv'
        <2>1. /\ cache \in Snapshot /\ cache # NoPorts /\ Decide(i, cache)
              /\ pc[i] = "check" /\ first' = first /\ SearchInvAt(i)
            BY <1>4 DEF ReadCache, SearchInv, TypeOK
        <2>2. SearchInvAt(i)'
            BY <2>1, DecideKeeps
        <2>. QED  BY <1>a, <2>1, <2>2, DecideType, DecideOthers DEF TypeOK
    <1>5. ASSUME NEW i \in Instance, FetchPorts(i) PROVE SearchInv'
        <2>1. pc[i] = "check" /\ pc'[i] = "store" /\ ~Begins(i) /\ SearchInvAt(i)
            BY <1>5 DEF FetchPorts, Goto, Begins, SearchInv, TypeOK
        <2>2. SearchInvAt(i)'
            BY <1>5, <2>1, FreeShrinks DEF FetchPorts, SearchInvAt
        <2>. QED  BY <1>5, <1>a, <2>2 DEF FetchPorts, Goto, TypeOK
    <1>6. ASSUME NEW i \in Instance, FetchFails(i) PROVE SearchInv'
        <2>0. /\ pc[i] = "check" /\ Searching(i) /\ ~Begins(i) /\ SearchInvAt(i)
              /\ first' = first /\ NextAttempt(i, last[i])
              /\ last[i] \in Ports \cup {0} /\ port' = port
            BY <1>6 DEF FetchFails, Searching, Begins, Steps, SearchInv, TypeOK
        <2>1. CASE free[i] = {}
            <3>1. free'[i] = {} /\ (pc'[i] = "highest" => last'[i] = 0)
                BY <2>0, <2>1, FreeShrinks, NextAttemptType DEF TypeOK
            <3>. QED  BY <1>a, <2>0, <3>1, NextAttemptType DEF SearchInvAt, TypeOK
        <2>2. CASE free[i] # {}
            <3>1. SearchInvAt(i)'
                BY <2>0, <2>2, NextAttemptKeeps DEF SearchInvAt
            <3>. QED  BY <1>a, <2>0, <3>1, NextAttemptType DEF TypeOK
        <2>. QED  BY <2>1, <2>2
    <1>7. ASSUME NEW i \in Instance, StorePorts(i) PROVE SearchInv'
        <2>1. /\ view[i] \in Snapshot /\ Decide(i, view[i])
              /\ pc[i] = "store" /\ first' = first /\ SearchInvAt(i)
            BY <1>7 DEF StorePorts, SearchInv, TypeOK
        <2>2. SearchInvAt(i)'
            BY <2>1, DecideKeeps
        <2>. QED  BY <1>a, <2>1, <2>2, DecideType, DecideOthers DEF TypeOK
    <1>8. ASSUME NEW i \in Instance, Reserve(i) PROVE SearchInv'
        <2>1. pc[i] = "reserve" /\ pc'[i] \in {"done", "failed"} /\ ~Begins(i) /\ SearchInvAt(i)
            BY <1>8 DEF Reserve, Goto, Begins, SearchInv, TypeOK
        <2>2. SearchInvAt(i)'
            BY <1>8, <2>1, FreeShrinks DEF Reserve, SearchInvAt
        <2>. QED  BY <1>8, <1>a, <2>2 DEF Reserve, Goto, TypeOK
    <1>9. CASE Expire \/ \E w \in Worker :
                  Log(w) \/ \E p \in Ports : Publish(w, p) \/ Release(w, p)
        BY <1>9, <1>b DEF Publish, Release, Log, Expire
    <1>. QED  BY <1>1, <1>2, <1>3, <1>4, <1>5, <1>6, <1>7, <1>8, <1>9 DEF Step, SearchStep

\* From where a search began it goes past no port that was free all the time:
\* across batches, failed attempts, stale snapshots and other reservations.
THEOREM SkipsNothing == Spec => []SearchSkipsNothing
    <1>1. Init => SearchInv
        BY DEF Init, SearchInv, SearchInvAt, InUse, Reserved, Unused
    <1>2. TypeOK /\ SearchInv => SearchSkipsNothing
        <2>. SUFFICES ASSUME TypeOK, SearchInv, NEW i \in Instance, first[i] # 0,
                             NEW p \in free[i], p \in Passed(i)
                      PROVE  FALSE
            BY DEF SearchSkipsNothing
        <2>1. /\ p \in Nat /\ first[i] \in Nat /\ last[i] \in Nat /\ port[i] \in Nat
              /\ SearchInvAt(i)
            BY PortsAreNat DEF TypeOK, SearchInv
        <2>. QED  BY <2>1 DEF Passed, SearchInvAt
    <1>. QED  BY <1>1, <1>2, TypeCorrect, SearchInvariant, PTL DEF Spec

-----------------------------------------------------------------------------
(* Ports known to be in use are avoided *)

\* What the steps do to the search of i: only Begin starts one and sets its
\* targets, only FetchPorts brings a snapshot, and it is the log.
LEMMA StepShape ==
    ASSUME TypeOK, Step, NEW i \in Instance
    PROVE  /\ ~Begins(i) => targets'[i] = targets[i]
           /\ pc'[i] = "store" => \/ pc[i] = "store" /\ view'[i] = view[i]
                                 \/ view'[i] = logged
           /\ Begins(i) => published' = published
    <1>1. ASSUME NEW k \in Instance, NEW ws \in SUBSET Worker, Begin(k, ws)
          PROVE  /\ ~Begins(i) => targets'[i] = targets[i]
                 /\ pc'[i] = "store" => pc[i] = "store" /\ view'[i] = view[i]
                 /\ published' = published
        BY <1>1 DEF Begin, Goto, Begins, swarm, TypeOK
    <1>2. ASSUME NEW k \in Instance, NEW l \in Ports \cup {0}, NextAttempt(k, l)
          PROVE  pc'[i] = "store" => pc[i] = "store" /\ view'[i] = view[i]
        BY <1>2, NextAttemptType DEF TypeOK
    <1>3. ASSUME NEW k \in Instance, NEW s \in Snapshot, Decide(k, s)
          PROVE  pc'[i] = "store" => pc[i] = "store" /\ view'[i] = view[i]
        BY <1>3, DecideType DEF TypeOK
    <1>4. ASSUME NEW k \in Instance, SearchStep(k), pc'[i] = "store"
          PROVE  \/ pc[i] = "store" /\ view'[i] = view[i]
                 \/ view'[i] = logged
        <2>1. CASE ReadHighest(k)
            BY <1>4, <2>1 DEF ReadHighest, Goto, TypeOK
        <2>2. CASE ReadUsed(k)
            BY <1>2, <1>4, <2>2 DEF ReadUsed, Goto, TypeOK
        <2>3. CASE ReadCache(k)
            BY <1>3, <1>4, <2>3 DEF ReadCache, TypeOK
        <2>4. CASE FetchPorts(k)
            BY <1>4, <2>4 DEF FetchPorts, Goto, TypeOK
        <2>5. CASE FetchFails(k)
            BY <1>2, <1>4, <2>5 DEF FetchFails, TypeOK
        <2>6. CASE StorePorts(k)
            BY <1>3, <1>4, <2>6 DEF StorePorts, TypeOK
        <2>7. CASE Reserve(k)
            BY <1>4, <2>7 DEF Reserve, Goto, TypeOK
        <2>. QED  BY <1>4, <2>1, <2>2, <2>3, <2>4, <2>5, <2>6, <2>7 DEF SearchStep
    <1>5. ASSUME NEW k \in Instance, SearchStep(k)
          PROVE  targets'[i] = targets[i] /\ published' = published
        BY <1>5 DEF SearchStep, ReadHighest, ReadUsed, ReadCache, FetchPorts,
                    FetchFails, StorePorts, Reserve, swarm
    <1>6. CASE Expire \/ \E w \in Worker :
                  Log(w) \/ \E p \in Ports : Publish(w, p) \/ Release(w, p)
        BY <1>6 DEF Expire, Log, Publish, Release, search, Begins, Searching, Steps
    <1>. QED  BY <1>1, <1>4, <1>5, <1>6 DEF Step

\* A search step of k leaves the step and the port of the others alone.
LEMMA OtherSearches ==
    ASSUME TypeOK, NEW i \in Instance, NEW k \in Instance, k # i, SearchStep(k)
    PROVE  pc'[i] = pc[i] /\ port'[i] = port[i]
    <1>1. CASE ReadHighest(k)
        BY <1>1 DEF ReadHighest, Goto, TypeOK
    <1>2. CASE ReadUsed(k)
        BY <1>2, NextAttemptType DEF ReadUsed, Goto, TypeOK
    <1>3. CASE ReadCache(k)
        BY <1>3, DecideType DEF ReadCache, TypeOK
    <1>4. CASE FetchPorts(k)
        BY <1>4 DEF FetchPorts, Goto, TypeOK
    <1>5. CASE FetchFails(k)
        BY <1>5, NextAttemptType DEF FetchFails, TypeOK
    <1>6. CASE StorePorts(k)
        BY <1>6, DecideType DEF StorePorts, TypeOK
    <1>7. CASE Reserve(k)
        BY <1>7 DEF Reserve, Goto, TypeOK
    <1>. QED  BY <1>1, <1>2, <1>3, <1>4, <1>5, <1>6, <1>7 DEF SearchStep

\* A port that every snapshot shows and whose service goes on is shown by every
\* snapshot after the step.
LEMMA SeenStays ==
    ASSUME TypeOK, Step, NEW w \in Worker, NEW p \in SeenByAll(w), p \in published'[w]
    PROVE  p \in SeenByAll(w)'
    <1>1. /\ p \in published[w] /\ p \in logged[w]
          /\ cache # NoPorts => p \in cache[w]
          /\ \A k \in Instance : pc[k] = "store" => p \in view[k][w]
        BY DEF SeenByAll
    <1>2. p \in logged'[w]
        <2>1. CASE \E v \in Worker : Log(v)
            BY <1>1, <2>1 DEF Log, TypeOK, Snapshot
        <2>2. CASE ~\E v \in Worker : Log(v)
            BY <1>1, <2>2 DEF Step, SearchStep, Begin, ReadHighest, ReadUsed, ReadCache,
               FetchPorts, FetchFails, StorePorts, Reserve, Expire, Publish, Release, swarm
        <2>. QED  BY <2>1, <2>2
    <1>3. cache' # NoPorts => p \in cache'[w]
        <2>1. CASE \E k \in Instance : StorePorts(k)
            BY <1>1, <2>1 DEF StorePorts
        <2>2. CASE Expire
            BY <2>2 DEF Expire
        <2>3. CASE cache' = cache
            BY <1>1, <2>3
        <2>. QED  BY <2>1, <2>2, <2>3 DEF Step, SearchStep, Begin, ReadHighest, ReadUsed,
                  ReadCache, FetchPorts, FetchFails, Reserve, Log, Publish, Release, swarm
    <1>4. \A k \in Instance : pc'[k] = "store" => p \in view'[k][w]
        BY <1>1, StepShape
    <1>. QED  BY <1>2, <1>3, <1>4 DEF SeenByAll

\* Every step keeps what the snapshots showed.
LEMMA KnownInvariant == TypeOK /\ KnownInv /\ [Next]_vars => KnownInv'
    <1>. SUFFICES ASSUME TypeOK, KnownInv, [Next]_vars PROVE KnownInv'
        OBVIOUS
    <1>0. CASE UNCHANGED vars
        BY <1>0 DEF vars, swarm, search, history, KnownInv, SeenByAll
    <1>. SUFFICES ASSUME Step, Remember, NEW i \in Instance, NEW w \in Worker
                  PROVE  /\ known'[i][w] \subseteq SeenByAll(w)'
                         /\ known'[i][w] # {} => w \in targets'[i]
                         /\ pc'[i] = "reserve" => port'[i] \notin known'[i][w]
        BY <1>0 DEF Next, KnownInv
    <1>1. /\ Begins(i) => /\ known'[i][w] \subseteq SeenByAll(w)
                          /\ known'[i][w] # {} => w \in targets'[i]
                          /\ published' = published
          /\ ~Begins(i) => /\ known'[i][w] = known[i][w] \cap published'[w]
                           /\ targets'[i] = targets[i]
        BY StepShape DEF Remember
    <1>2. known'[i][w] \subseteq SeenByAll(w)'
        <2>. SUFFICES ASSUME NEW p \in known'[i][w] PROVE p \in SeenByAll(w)'
            OBVIOUS
        <2>1. p \in SeenByAll(w) /\ p \in published'[w]
            BY <1>1 DEF KnownInv, SeenByAll
        <2>. QED  BY <2>1, SeenStays
    <1>3. known'[i][w] # {} => w \in targets'[i]
        BY <1>1 DEF KnownInv
    <1>4. ASSUME pc'[i] = "reserve" PROVE port'[i] \notin known'[i][w]
        <2>1. known'[i][w] \subseteq known[i][w]
            BY <1>1, <1>4 DEF Begins
        <2>2. ASSUME NEW s \in Snapshot, Decide(i, s), known[i][w] \subseteq s[w]
              PROVE  port'[i] \notin known[i][w]
            <3>1. PICK p \in Available(i, s) : port' = [port EXCEPT ![i] = p]
                BY <1>4, <2>2, DecideCases, NextAttemptType DEF TypeOK
            <3>2. w \in targets[i] => p \notin s[w]
                BY DEF Available
            <3>. QED  BY <2>2, <3>1, <3>2 DEF KnownInv, TypeOK
        <2>3. CASE ReadCache(i)
            <3>1. cache \in Snapshot /\ Decide(i, cache) /\ known[i][w] \subseteq cache[w]
                BY <2>3 DEF ReadCache, KnownInv, SeenByAll, TypeOK
            <3>. QED  BY <2>1, <2>2, <3>1
        <2>4. CASE StorePorts(i)
            <3>1. view[i] \in Snapshot /\ Decide(i, view[i]) /\ known[i][w] \subseteq view[i][w]
                BY <2>4 DEF StorePorts, KnownInv, SeenByAll, TypeOK
            <3>. QED  BY <2>1, <2>2, <3>1
        <2>5. CASE pc[i] = "reserve" /\ port'[i] = port[i]
            BY <2>1, <2>5 DEF KnownInv
        <2>6. \/ ReadCache(i) \/ StorePorts(i)
              \/ pc[i] = "reserve" /\ port'[i] = port[i]
            <3>1. CASE \E k \in Instance : SearchStep(k)
                <4>1. PICK k \in Instance : SearchStep(k)
                    BY <3>1
                <4>2. CASE k = i
                    <5>1. CASE ReadUsed(i)
                        BY <1>4, <5>1, NextAttemptType DEF ReadUsed, Goto, TypeOK
                    <5>2. CASE FetchFails(i)
                        BY <1>4, <5>2, NextAttemptType DEF FetchFails, TypeOK
                    <5>3. ~ReadHighest(i) /\ ~FetchPorts(i) /\ ~Reserve(i)
                        BY <1>4 DEF ReadHighest, FetchPorts, Reserve, Goto, TypeOK
                    <5>. QED  BY <4>1, <4>2, <5>1, <5>2, <5>3 DEF SearchStep
                <4>3. CASE k # i
                    <5>1. pc'[i] = pc[i] /\ port'[i] = port[i]
                        BY <4>1, <4>3, OtherSearches
                    <5>. QED  BY <1>4, <5>1
                <4>. QED  BY <4>2, <4>3
            <3>2. CASE \E k \in Instance, ws \in SUBSET Worker : Begin(k, ws)
                BY <1>4, <3>2 DEF Begin, Goto, TypeOK
            <3>3. CASE UNCHANGED search
                BY <1>4, <3>3 DEF search
            <3>. QED  BY <3>1, <3>2, <3>3 DEF Step, Log, Publish, Release, Expire
        <2>. QED  BY <2>3, <2>4, <2>5, <2>6
    <1>. QED  BY <1>2, <1>3, <1>4

\* A port the log and every snapshot showed on a target worker when the search
\* began is never chosen as long as its service runs, whoever filled the cache.
THEOREM KnownPortsAreAvoided == Spec => []KnownPortsAvoided
    <1>1. Init => KnownInv
        BY DEF Init, KnownInv, SeenByAll, Unused
    <1>2. KnownInv => KnownPortsAvoided
        BY DEF KnownInv, KnownPortsAvoided
    <1>. QED  BY <1>1, <1>2, TypeCorrect, KnownInvariant, PTL DEF Spec

-----------------------------------------------------------------------------
(* The search implements PortRegistry *)

KnownOf(i) == UNION {known[i][w] : w \in Worker}
Asking == {i \in Instance : Searching(i)}
AllKnown == [i \in Instance |-> KnownOf(i)]

\* What is known changes only when a search begins or a service stops.
LEMMA KnownStays ==
    ASSUME TypeOK, KnownInv, Remember, NEW i \in Instance, ~Begins(i)
    PROVE  /\ KnownOf(i)' \subseteq KnownOf(i)
           /\ published' = published => KnownOf(i)' = KnownOf(i)
    <1>1. \A w \in Worker : known'[i][w] = known[i][w] \cap published'[w]
        BY DEF Remember
    <1>2. \A w \in Worker : known[i][w] \subseteq published[w]
        BY DEF KnownInv, SeenByAll
    <1>3. KnownOf(i)' \subseteq KnownOf(i)
        BY <1>1 DEF KnownOf
    <1>4. ASSUME published' = published PROVE KnownOf(i)' = KnownOf(i)
        <2>1. \A w \in Worker : known'[i][w] = known[i][w]
            BY <1>1, <1>2, <1>4
        <2>. QED  BY <2>1 DEF KnownOf
    <1>. QED  BY <1>3, <1>4

\* No step but Begin starts a search.
LEMMA OnlyBeginBegins ==
    ASSUME TypeOK, NEW k \in Instance, SearchStep(k)
    PROVE  /\ \A i \in Instance : ~Begins(i)
           /\ \A i \in Instance \ {k} : pc'[i] = pc[i]
           /\ Searching(k) /\ published' = published
    <1>1. Searching(k) /\ published' = published
        BY DEF SearchStep, ReadHighest, ReadUsed, ReadCache, FetchPorts,
               FetchFails, StorePorts, Reserve, swarm, Searching, Steps
    <1>2. \A i \in Instance \ {k} : pc'[i] = pc[i]
        BY OtherSearches
    <1>. QED  BY <1>1, <1>2 DEF Begins, Searching, Steps

\* The search of ports does what PortRegistry promises: an instance is granted
\* a port that no other holds and that was not known to be in use, or refused.
THEOREM Implementation == Spec => ImplementsRegistry
    <1>1. Init => Registry!Init
        <2>. SUFFICES ASSUME Init PROVE Registry!Init
            OBVIOUS
        <2>1. \A i \in Instance : UNION {known[i][w] : w \in Worker} = {}
            BY DEF Init, Unused
        <2>2. {i \in Instance : Searching(i)} = {}
            BY DEF Init, Searching, Steps
        <2>3. reserved = [i \in Instance |-> 0]
            BY DEF Init
        <2>. QED  BY <2>1, <2>2, <2>3 DEF Registry!Init
    <1>2. TypeOK /\ TypeOK' /\ KnownInv /\ [Next]_vars => [Registry!Next]_(Registry!vars)
        <2>. SUFFICES ASSUME TypeOK, TypeOK', KnownInv, [Next]_vars
                      PROVE  \/ Registry!Next
                             \/ /\ reserved' = reserved /\ Asking' = Asking
                                /\ AllKnown' = AllKnown
            BY DEF Registry!vars, Asking, AllKnown, KnownOf
        <2>0. CASE UNCHANGED vars
            BY <2>0 DEF vars, search, history, Asking, AllKnown, KnownOf, Searching
        <2>. SUFFICES ASSUME Step, Remember
                      PROVE  \/ Registry!Next
                             \/ /\ reserved' = reserved /\ Asking' = Asking
                                /\ AllKnown' = AllKnown
            BY <2>0 DEF Next
        <2>1. AllKnown' \in [Instance -> SUBSET Ports]
            BY DEF AllKnown, KnownOf, TypeOK, Snapshot
        <2>2. ASSUME NEW i \in Instance, NEW ws \in SUBSET Worker, Begin(i, ws)
              PROVE  Registry!Ask(i)
            <3>1. /\ ~Searching(i) /\ Searching(i)' /\ published' = published
                  /\ \A k \in Instance \ {i} : pc'[k] = pc[k]
                  /\ reserved' = reserved
                BY <2>2 DEF Begin, Goto, Searching, Steps, swarm, TypeOK
            <3>2. \A k \in Instance \ {i} : ~Begins(k) /\ (Searching(k)' <=> Searching(k))
                BY <3>1 DEF Begins, Searching, Steps
            <3>3. AllKnown' = [AllKnown EXCEPT ![i] = KnownOf(i)']
                BY <3>1, <3>2, KnownStays DEF AllKnown
            <3>4. Asking' = Asking \cup {i}
                BY <3>1, <3>2 DEF Asking
            <3>5. KnownOf(i)' \in SUBSET Ports
                BY <2>1 DEF AllKnown
            <3>. QED  BY <3>1, <3>3, <3>4, <3>5 DEF Registry!Ask, Asking, AllKnown, KnownOf
        <2>3. ASSUME NEW i \in Instance, SearchStep(i)
              PROVE  \/ Registry!Next
                     \/ /\ reserved' = reserved /\ Asking' = Asking
                        /\ AllKnown' = AllKnown
            <3>1. AllKnown' = AllKnown
                BY <2>3, OnlyBeginBegins, KnownStays DEF AllKnown
            <3>2. Searching(i) /\ \A k \in Instance \ {i} : (Searching(k)' <=> Searching(k))
                BY <2>3, OnlyBeginBegins DEF Searching
            <3>3. CASE Searching(i)'
                <4>1. Asking' = Asking
                    BY <3>2, <3>3 DEF Asking
                <4>2. reserved' = reserved
                    <5>1. ~Reserve(i) \/ reserved' = reserved
                        BY <3>3 DEF Reserve, Goto, Searching, Steps, TypeOK
                    <5>. QED  BY <2>3, <5>1 DEF SearchStep, ReadHighest, ReadUsed,
                              ReadCache, FetchPorts, FetchFails, StorePorts
                <4>. QED  BY <3>1, <4>1, <4>2
            <3>4. CASE ~Searching(i)'
                <4>1. Asking' = Asking \ {i} /\ i \in Asking
                    BY <3>2, <3>4 DEF Asking
                <4>2. CASE reserved' = reserved
                    <5>1. Registry!Refuse(i)
                        BY <3>1, <4>1, <4>2 DEF Registry!Refuse, Asking, AllKnown, KnownOf
                    <5>. QED  BY <5>1 DEF Registry!Next
                <4>3. CASE reserved' # reserved
                    <5>1. Reserve(i)
                        BY <2>3, <4>3 DEF SearchStep, ReadHighest, ReadUsed,
                           ReadCache, FetchPorts, FetchFails, StorePorts
                    <5>2. /\ port[i] \in Ports /\ port[i] \notin KnownOf(i)
                          /\ \A k \in Instance \ {i} : reserved[k] # port[i]
                          /\ reserved' = [reserved EXCEPT ![i] = port[i]]
                        BY <4>3, <5>1 DEF Reserve, KnownOf, KnownInv, TypeOK
                    <5>3. Registry!Grant(i)
                        BY <3>1, <4>1, <5>2 DEF Registry!Grant, Asking, AllKnown, KnownOf
                    <5>. QED  BY <5>3 DEF Registry!Next
                <4>. QED  BY <4>2, <4>3
            <3>. QED  BY <3>3, <3>4
        <2>4. CASE Expire \/ \E w \in Worker :
                      Log(w) \/ \E p \in Ports : Publish(w, p) \/ Release(w, p)
            <3>1. /\ reserved' = reserved /\ pc' = pc
                  /\ \A i \in Instance : ~Begins(i)
                BY <2>4 DEF Expire, Log, Publish, Release, search, Begins, Searching, Steps
            <3>2. Asking' = Asking
                BY <3>1 DEF Asking, Searching
            <3>3. \A i \in Instance : AllKnown'[i] \subseteq AllKnown[i]
                BY <3>1, KnownStays DEF AllKnown
            <3>4. Registry!Forget
                BY <2>1, <3>1, <3>2, <3>3 DEF Registry!Forget, Asking, AllKnown, KnownOf
            <3>. QED  BY <3>4 DEF Registry!Next
        <2>. QED  BY <2>2, <2>3, <2>4 DEF Step, Registry!Next
    <1>3. Init => KnownInv
        BY DEF Init, KnownInv, SeenByAll, Unused
    <1>. QED  BY <1>1, <1>2, <1>3, TypeCorrect, KnownInvariant, PTL
            DEF Spec, Registry!Spec, ImplementsRegistry
=============================================================================
