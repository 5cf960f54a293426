---------------------------- MODULE CountingProofs ----------------------------
(***************************************************************************)
(* What is counted and shown, for any value of the constants.              *)
(*                                                                         *)
(* Workers (Placement): a counter of a worker is too low, and a worker is  *)
(* overcommitted, only where jobs were busy with it at the same time.      *)
(* The counter is written from a value that was read before, so what keeps *)
(* it right is not a step of one job but that no second job is between its *)
(* choice of the worker and the end of its counting.  The invariant counts *)
(* a job for a worker as soon as the counter has its increment, long       *)
(* before the job is done and the promise looks at it.                     *)
(*                                                                         *)
(* Logs (LogPaging): no log is shown twice, and what is missed.  Then sums *)
(* over finite sets, which the last two parts need: the history of jobs    *)
(* (JobMonitor) tells the work there was, and charts (Charts) account for  *)
(* their series.  After each of these the type of its state.               *)
(***************************************************************************)
EXTENDS Placement, FiniteSetTheorems, SequenceTheorems, TLAPS

JobRow == [at : {"idle", "deploy", "read", "write", "done", "gone"},
           nodes : Seq(Worker), read : Nat]

Typed ==
    /\ current \in [Worker -> Nat] /\ raised \in [Worker -> Nat]
    /\ job \in [Instance -> JobRow]
    /\ placed \in [Instance -> SUBSET Worker]
    /\ starts \in [Instance -> 0 .. MaxStarts]
    /\ crowded \subseteq Worker

\* A busy job has workers left, one of them unless it is a replica set.
BusyHaveNodes ==
    \A i \in Instance : Busy(i) => /\ job[i].nodes # <<>>
                                   /\ i \notin Replicated => Len(job[i].nodes) = 1

\* Two jobs busy with a worker crowd it.
BusyAlone ==
    \A w \in Worker \ crowded, i, j \in Instance :
        Busy(i) /\ Busy(j) /\ w \in Nodes(i) /\ w \in Nodes(j) => i = j

\* What was read is what there is, unless the worker is crowded; and its
\* increment was begun.
ReadsAreFresh ==
    \A i \in Instance :
        job[i].at = "write" =>
            LET w == Head(job[i].nodes)
            IN  job[i].read < raised[w] /\ (w \notin crowded => job[i].read = current[w])

\* The instances whose increment the counter of a worker has.
Counted(w) ==
    {i \in Instance : /\ w \in placed[i]
                      /\ \/ job[i].at = "done"
                         \/ job[i].at \in {"read", "write"} /\ w \notin Nodes(i)}

CountsFit ==
    \A w \in Worker \ crowded :
        /\ Cardinality(Counted(w)) <= current[w]
        /\ Cardinality(Counted(w) \ Replicated) <= Workers[w].max

\* A worker that was chosen for its room still has it.
RoomIsKept ==
    \A w \in Worker \ crowded, i \in Instance \ Replicated :
        Busy(i) /\ w \in Nodes(i) => current[w] < Workers[w].max

PlacementInv ==
    /\ Typed /\ BusyHaveNodes /\ BusyAlone /\ ReadsAreFresh
    /\ CountsFit /\ RoomIsKept /\ CountsAreNotInvented

-----------------------------------------------------------------------------
(* The sort by worker number has a result: the rank of a worker is one more  *)
(* than the number of chosen workers before it.                              *)

\* There are finitely many workers, and of two one comes before the other.
LEMMA WorkerFacts ==
    /\ IsFiniteSet(Worker) /\ Worker \subseteq Nat
    /\ \A w \in Worker : Workers[w].number \in Nat /\ Workers[w].max \in Nat
<1>1. Workers \in Seq(WorkerRow)
    BY PlacementAssumption
<1>2. Worker = 1 .. Len(Workers) /\ Len(Workers) \in Nat
    BY <1>1 DEF Worker
<1>3. IsFiniteSet(Worker)
    BY <1>2, FS_Interval
<1>4. \A w \in Worker : Workers[w] \in WorkerRow
    BY <1>1, <1>2
<1> QED
    BY <1>2, <1>3, <1>4 DEF WorkerRow

\* Before is a strict total order of the workers.
LEMMA BeforeIsTotal ==
    ASSUME NEW u \in Worker, NEW v \in Worker, NEW w \in Worker
    PROVE  /\ ~Before(v, v)
           /\ v # w => Before(v, w) \/ Before(w, v)
           /\ Before(u, v) /\ Before(v, w) => Before(u, w)
BY WorkerFacts DEF Before

\* Who comes earlier has fewer before it.
LEMMA RanksGrow ==
    ASSUME NEW ws \in SUBSET Worker, NEW v \in ws, NEW w \in ws, Before(v, w)
    PROVE  /\ Cardinality({u \in ws : Before(u, v)}) < Cardinality({u \in ws : Before(u, w)})
           /\ Cardinality({u \in ws : Before(u, w)}) \in 0 .. Cardinality(ws) - 1
<1> DEFINE A == {u \in ws : Before(u, v)}
           B == {u \in ws : Before(u, w)}
<1>1. IsFiniteSet(ws) /\ ws \subseteq Worker
    BY WorkerFacts, FS_Subset
<1>2. A \subseteq B /\ v \in B /\ v \notin A
    BY <1>1, BeforeIsTotal
<1>3. B \subseteq ws /\ w \notin B
    BY <1>1, BeforeIsTotal
<1> HIDE DEF A, B
<1>4. IsFiniteSet(B) /\ Cardinality(B) <= Cardinality(ws) /\ Cardinality(B) # Cardinality(ws)
    BY <1>1, <1>3, FS_Subset
<1>5. Cardinality(A) <= Cardinality(B) /\ Cardinality(A) # Cardinality(B) /\ IsFiniteSet(A)
    BY <1>2, <1>4, FS_Subset
<1>6. Cardinality(A) \in Nat /\ Cardinality(B) \in Nat /\ Cardinality(ws) \in Nat
    BY <1>1, <1>4, <1>5, FS_CardinalityType
<1> QED
    BY <1>4, <1>5, <1>6 DEF A, B

\* The chosen workers, each once, in the order of the sort.
LEMMA SortedWorkers ==
    ASSUME NEW ws \in SUBSET Worker
    PROVE  ByNumber(ws) \in [1 .. Cardinality(ws) -> ws]
<1> DEFINE n == Cardinality(ws)
           earlier(w) == {u \in ws : Before(u, w)}
           rank == [w \in ws |-> Cardinality(earlier(w)) + 1]
<1>1. IsFiniteSet(ws) /\ ws \subseteq Worker /\ n \in Nat
    BY WorkerFacts, FS_Subset, FS_CardinalityType
<1>2. ASSUME NEW w \in ws PROVE Cardinality(earlier(w)) \in 0 .. n - 1
  <2>1. earlier(w) \subseteq ws /\ w \notin earlier(w)
    BY <1>1, BeforeIsTotal
  <2> HIDE DEF earlier
  <2>2. /\ IsFiniteSet(earlier(w)) /\ Cardinality(earlier(w)) <= n
        /\ Cardinality(earlier(w)) # n
    BY <1>1, <2>1, FS_Subset
  <2>3. Cardinality(earlier(w)) \in Nat
    BY <2>2, FS_CardinalityType
  <2> QED
    BY <1>1, <2>2, <2>3
<1>3. rank \in [ws -> 1 .. n]
  <2>1. \A w \in ws : Cardinality(earlier(w)) + 1 \in 1 .. n
    BY <1>1, <1>2
  <2> QED
    BY <2>1
<1>4. ASSUME NEW v \in ws, NEW w \in ws, Before(v, w) PROVE rank[v] < rank[w]
  <2>1. Cardinality(earlier(v)) < Cardinality(earlier(w))
    BY <1>4, RanksGrow
  <2>2. Cardinality(earlier(v)) \in Nat /\ Cardinality(earlier(w)) \in Nat
    BY <1>1, <1>2
  <2> HIDE DEF earlier
  <2> QED
    BY <2>1, <2>2
<1> HIDE DEF rank
<1>5. rank \in Injection(ws, 1 .. n)
  <2>1. ASSUME NEW v \in ws, NEW w \in ws, rank[v] = rank[w] PROVE v = w
    <3>1. rank[v] \in Nat
      BY <1>1, <1>3
    <3> QED
      BY <1>1, <1>4, <2>1, <3>1, BeforeIsTotal
  <2> QED
    BY <1>3, <2>1 DEF Injection, IsInjective
<1>6. rank \in Surjection(ws, 1 .. n)
  <2>1. IsFiniteSet(1 .. n) /\ Cardinality(1 .. n) = n
    BY <1>1, FS_Interval
  <2> QED
    BY <1>5, <2>1, FS_Injection
<1>7. \A k \in 1 .. n : \E w \in ws : rank[w] = k
    BY <1>6 DEF Surjection
<1> DEFINE s == [k \in 1 .. n |-> CHOOSE w \in ws : rank[w] = k]
<1>8. s \in [1 .. n -> ws] /\ \A k \in 1 .. n : rank[s[k]] = k
    BY <1>7
<1> HIDE DEF s
<1>9. ASSUME NEW j \in 1 .. n, NEW k \in 1 .. n, j < k PROVE Before(s[j], s[k])
  <2>1. s[j] \in ws /\ s[k] \in ws /\ rank[s[j]] = j /\ rank[s[k]] = k
    BY <1>8
  <2>2. ~Before(s[k], s[j])
    BY <1>1, <1>4, <1>9, <2>1
  <2> QED
    BY <1>1, <1>9, <2>1, <2>2, BeforeIsTotal
<1> QED
    BY <1>8, <1>9 DEF ByNumber

-----------------------------------------------------------------------------
(* What the steps have in common.                                           *)

\* The workers of a list of them.
Among(s) == {s[k] : k \in DOMAIN s}

\* The first of the workers that are left, and the others.
LEMMA FirstAndRest ==
    ASSUME NEW S, NEW s \in Seq(S), s # <<>>
    PROVE  /\ Head(s) \in S /\ Tail(s) \in Seq(S)
           /\ Len(s) = 1 => Tail(s) = <<>>
           /\ Among(s) = {Head(s)} \cup Among(Tail(s))
<1>1. Head(s) \in S /\ Tail(s) \in Seq(S) /\ Len(s) \in Nat \ {0}
    BY HeadTailProperties, LenProperties, EmptySeq
<1>2. Len(Tail(s)) = Len(s) - 1 /\ \A k \in 1 .. Len(s) - 1 : Tail(s)[k] = s[k + 1]
    BY HeadTailProperties
<1>3. DOMAIN s = 1 .. Len(s) /\ DOMAIN Tail(s) = 1 .. Len(s) - 1 /\ Head(s) = s[1]
    BY <1>1, <1>2, HeadTailProperties, LenProperties
<1>4. ASSUME NEW k \in DOMAIN s, k # 1
      PROVE  k - 1 \in DOMAIN Tail(s) /\ s[k] = Tail(s)[k - 1]
    BY <1>1, <1>2, <1>3, <1>4
<1>5. ASSUME NEW k \in DOMAIN Tail(s) PROVE k + 1 \in DOMAIN s /\ Tail(s)[k] = s[k + 1]
    BY <1>1, <1>2, <1>3
<1>6. 1 \in DOMAIN s
    BY <1>1, <1>3
<1>7. Len(s) = 1 => Tail(s) = <<>>
  <2>1. Tail(s) # <<>> => Len(Tail(s)) \in Nat \ {0}
    BY <1>1, EmptySeq
  <2> QED
    BY <1>2, <2>1
<1>8. Among(s) = {Head(s)} \cup Among(Tail(s))
  <2>1. ASSUME NEW x \in Among(s) PROVE x = Head(s) \/ x \in Among(Tail(s))
    <3>1. PICK k \in DOMAIN s : x = s[k]
      BY DEF Among
    <3>2. CASE k = 1
      BY <1>3, <3>1, <3>2
    <3>3. CASE k # 1
      BY <1>4, <3>1, <3>3 DEF Among
    <3> QED
      BY <3>2, <3>3
  <2>2. ASSUME NEW x \in Among(Tail(s)) PROVE x \in Among(s)
    BY <1>5 DEF Among
  <2>3. Head(s) \in Among(s)
    BY <1>3, <1>6 DEF Among
  <2> QED
    BY <2>1, <2>2, <2>3
<1> QED
    BY <1>1, <1>7, <1>8

\* What a busy job has left.
LEMMA BusyNodes ==
    ASSUME Typed, BusyHaveNodes, NEW i \in Instance, Busy(i)
    PROVE  /\ job[i].nodes \in Seq(Worker)
           /\ Head(job[i].nodes) \in Worker /\ Tail(job[i].nodes) \in Seq(Worker)
           /\ i \notin Replicated => Tail(job[i].nodes) = <<>>
           /\ Nodes(i) = {Head(job[i].nodes)} \cup Among(Tail(job[i].nodes))
<1>1. job[i].nodes \in Seq(Worker) /\ job[i].nodes # <<>>
    BY DEF Typed, JobRow, BusyHaveNodes
<1>2. i \notin Replicated => Len(job[i].nodes) = 1
    BY DEF BusyHaveNodes
<1>3. Nodes(i) = Among(job[i].nodes)
    BY DEF Nodes, Among
<1> QED
    BY <1>1, <1>2, <1>3, FirstAndRest

\* A step that changes the record of one job.
LEMMA OneJob ==
    ASSUME Typed, NEW i \in Instance, NEW new \in JobRow, job' = [job EXCEPT ![i] = new]
    PROVE  /\ job' \in [Instance -> JobRow] /\ job'[i] = new
           /\ \A j \in Instance : j # i => /\ job'[j] = job[j]
                                           /\ Busy(j)' = Busy(j) /\ Nodes(j)' = Nodes(j)
BY DEF Typed, Busy, Nodes

\* Fewer instances are counted.
LEMMA FewerCounted ==
    ASSUME NEW w \in Worker, Counted(w)' \subseteq Counted(w),
           Cardinality(Counted(w)) <= current[w],
           Cardinality(Counted(w) \ Replicated) <= Workers[w].max, current[w] \in Nat
    PROVE  /\ Cardinality(Counted(w)') <= current[w]
           /\ Cardinality(Counted(w)' \ Replicated) <= Workers[w].max
<1>1. IsFiniteSet(Counted(w)) /\ IsFiniteSet(Counted(w) \ Replicated)
  <2>1. Counted(w) \subseteq Instance /\ Counted(w) \ Replicated \subseteq Instance
    BY DEF Counted
  <2> QED
    BY <2>1, PlacementAssumption, FS_Subset
<1>2. /\ Cardinality(Counted(w)') <= Cardinality(Counted(w))
      /\ Cardinality(Counted(w)' \ Replicated) <= Cardinality(Counted(w) \ Replicated)
  <2>1. Counted(w)' \ Replicated \subseteq Counted(w) \ Replicated
    OBVIOUS
  <2> QED
    BY <1>1, <2>1, FS_Subset
<1>3. /\ Cardinality(Counted(w)') \in Nat /\ Cardinality(Counted(w)) \in Nat
      /\ Cardinality(Counted(w)' \ Replicated) \in Nat
      /\ Cardinality(Counted(w) \ Replicated) \in Nat
  <2>1. IsFiniteSet(Counted(w)') /\ IsFiniteSet(Counted(w)' \ Replicated)
    BY <1>1, FS_Subset
  <2> QED
    BY <1>1, <2>1, FS_CardinalityType
<1> QED
    BY <1>2, <1>3, WorkerFacts

\* A step of a job that writes no counter, and is counted nowhere where it was
\* not before.
LEMMA CountsStayFit ==
    ASSUME Typed, CountsFit, UNCHANGED current, crowded \subseteq crowded',
           NEW i \in Instance, \A w \in Worker : i \in Counted(w)' => i \in Counted(w),
           \A j \in Instance : j # i => /\ job'[j] = job[j] /\ Nodes(j)' = Nodes(j)
                                        /\ placed'[j] = placed[j]
    PROVE  CountsFit'
<1> SUFFICES ASSUME NEW w \in Worker \ crowded'
             PROVE  /\ Cardinality(Counted(w)') <= current[w]
                    /\ Cardinality(Counted(w)' \ Replicated) <= Workers[w].max
    BY DEF CountsFit
<1>1. w \in Worker /\ w \notin crowded /\ current[w] \in Nat
    BY DEF Typed
<1>2. Counted(w)' \subseteq Counted(w)
  <2> SUFFICES ASSUME NEW j \in Counted(w)' PROVE j \in Counted(w)
    OBVIOUS
  <2>1. CASE j = i
    BY <2>1
  <2>2. CASE j # i
    BY <2>2 DEF Counted
  <2> QED
    BY <2>1, <2>2
<1> QED
    BY <1>1, <1>2, FewerCounted DEF CountsFit

-----------------------------------------------------------------------------
(* The steps.                                                               *)

\* It holds before the first job.
LEMMA PlacementInvHolds == Init => PlacementInv
<1> SUFFICES ASSUME Init PROVE PlacementInv
    OBVIOUS
<1>1. \A i \in Instance : job[i] = Idle /\ job[i] \in JobRow
    BY EmptySeq DEF Init, Idle, JobRow
<1>2. Typed
    BY <1>1, PlacementAssumption DEF Init, Typed
<1>3. \A i \in Instance : ~Busy(i) /\ job[i].at = "idle"
    BY <1>1 DEF Busy, Idle
<1>4. \A w \in Worker : Counted(w) = {}
    BY <1>3 DEF Counted
<1>5. CountsFit
    BY <1>4, FS_EmptySet, WorkerFacts DEF CountsFit, Init
<1>6. CountsAreNotInvented
    BY DEF CountsAreNotInvented, Init
<1> QED
    BY <1>2, <1>3, <1>5, <1>6 DEF PlacementInv, BusyHaveNodes, BusyAlone, ReadsAreFresh, RoomIsKept

\* A job that ends, well or not, or is delivered again, counts nowhere.
LEMMA LeaveKeeps ==
    ASSUME PlacementInv, NEW i \in Instance, NEW new \in JobRow,
           new.at \in {"idle", "gone"}, job' = [job EXCEPT ![i] = new],
           UNCHANGED <<current, raised, crowded>>,
           starts' \in [Instance -> 0 .. MaxStarts],
           placed' \in [Instance -> SUBSET Worker],
           \A j \in Instance : j # i => placed'[j] = placed[j]
    PROVE  PlacementInv'
<1> USE DEF PlacementInv
<1>1. /\ job' \in [Instance -> JobRow] /\ job'[i] = new
      /\ \A j \in Instance : j # i => /\ job'[j] = job[j]
                                      /\ Busy(j)' = Busy(j) /\ Nodes(j)' = Nodes(j)
    BY OneJob
<1>2. ~Busy(i)'
    BY <1>1 DEF Busy
<1>3. Typed'
    BY <1>1 DEF Typed
<1>4. BusyHaveNodes' /\ BusyAlone' /\ RoomIsKept'
    BY <1>1, <1>2 DEF BusyHaveNodes, BusyAlone, RoomIsKept
<1>5. ReadsAreFresh'
    BY <1>1 DEF ReadsAreFresh
<1>6. CountsFit'
  <2>1. \A w : i \notin Counted(w)'
    BY <1>1 DEF Counted
  <2> QED
    BY <1>1, <2>1, CountsStayFit
<1>7. CountsAreNotInvented'
    BY DEF CountsAreNotInvented
<1> QED
    BY <1>3, <1>4, <1>5, <1>6, <1>7

\* A job goes on with the workers that it has.
LEMMA GoOnKeeps ==
    ASSUME PlacementInv, NEW i \in Instance, Busy(i), NEW new \in JobRow,
           new.at \in {"deploy", "read", "write"}, new.nodes = job[i].nodes,
           job' = [job EXCEPT ![i] = new],
           UNCHANGED <<current, crowded>>, UNCHANGED starts,
           raised' \in [Worker -> Nat], \A w \in Worker : raised[w] <= raised'[w],
           placed' \in [Instance -> SUBSET Worker],
           \A j \in Instance : j # i => placed'[j] = placed[j],
           \A w \in Worker : i \in Counted(w)' => i \in Counted(w),
           new.at = "write" => LET w == Head(new.nodes)
                               IN  new.read < raised'[w] /\ new.read = current[w]
    PROVE  PlacementInv'
<1> USE DEF PlacementInv
<1>1. /\ job' \in [Instance -> JobRow] /\ job'[i] = new
      /\ \A j \in Instance : j # i => /\ job'[j] = job[j]
                                      /\ Busy(j)' = Busy(j) /\ Nodes(j)' = Nodes(j)
    BY OneJob
<1>2. Busy(i)' /\ Nodes(i)' = Nodes(i) /\ job'[i].nodes = job[i].nodes
    BY <1>1 DEF Busy, Nodes
<1>3. Typed'
    BY <1>1 DEF Typed
<1>4. BusyHaveNodes' /\ BusyAlone' /\ RoomIsKept'
    BY <1>1, <1>2 DEF BusyHaveNodes, BusyAlone, RoomIsKept
<1>5. ReadsAreFresh'
  <2> SUFFICES ASSUME NEW j \in Instance, job'[j].at = "write"
               PROVE  LET w == Head(job'[j].nodes)
                      IN  /\ job'[j].read < raised'[w]
                          /\ w \notin crowded' => job'[j].read = current'[w]
    BY DEF ReadsAreFresh
  <2>1. CASE j = i
    BY <1>1, <2>1
  <2>2. CASE j # i
    <3>1. job'[j] = job[j] /\ Busy(j)
      BY <1>1, <2>2 DEF Busy
    <3>2. PICK w \in Worker : w = Head(job[j].nodes)
      BY <3>1, BusyNodes
    <3>3. job[j].read < raised[w] /\ (w \notin crowded => job[j].read = current[w])
      BY <3>1, <3>2 DEF ReadsAreFresh
    <3>4. job[j].read \in Nat /\ raised[w] \in Nat /\ raised'[w] \in Nat
      BY DEF Typed, JobRow
    <3> QED
      BY <3>1, <3>2, <3>3, <3>4
  <2> QED
    BY <2>1, <2>2
<1>6. CountsFit'
    BY <1>1, CountsStayFit
<1>7. CountsAreNotInvented'
  <2>1. \A w \in Worker : current[w] \in Nat /\ raised[w] \in Nat /\ raised'[w] \in Nat
    BY DEF Typed
  <2> QED
    BY <2>1 DEF CountsAreNotInvented
<1> QED
    BY <1>3, <1>4, <1>5, <1>6, <1>7

\* What a job may choose: at least one worker, and one with room unless the
\* instance is a replica set.
LEMMA ChoicesHaveRoom ==
    ASSUME NEW i \in Instance, NEW nodes \in NodeChoices(i)
    PROVE  /\ nodes \in Seq(Worker) /\ nodes # <<>>
           /\ i \notin Replicated => /\ Len(nodes) = 1
                                     /\ \A w \in Among(nodes) : current[w] < Workers[w].max
<1>1. CASE i \in Replicated
  <2>1. PICK ws \in SUBSET Worker : Cardinality(ws) = Members /\ nodes = ByNumber(ws)
    BY <1>1 DEF NodeChoices
  <2>2. nodes \in [1 .. Members -> ws] /\ Members \in Nat /\ Members # 0
    BY <2>1, SortedWorkers, PlacementAssumption
  <2>3. nodes \in Seq(Worker) /\ nodes[1] \in Worker /\ 1 \in DOMAIN nodes
    BY <2>2
  <2> QED
    BY <1>1, <2>3
<1>2. CASE i \notin Replicated
  <2>1. PICK w \in LeastLoaded(Optimal(OwnerOf[i])) : nodes = <<w>>
    BY <1>2 DEF NodeChoices
  <2>2. w \in Worker /\ current[w] < Workers[w].max
    BY DEF LeastLoaded, ActiveWorkers
  <2>3. nodes \in Seq(Worker) /\ Len(nodes) = 1 /\ nodes # <<>> /\ Among(nodes) = {w}
    BY <2>1, <2>2 DEF Among
  <2> QED
    BY <2>2, <2>3
<1> QED
    BY <1>1, <1>2

\* A job chooses its workers; those of other jobs get crowded.
LEMMA ChooseKeeps ==
    ASSUME PlacementInv, NEW i \in Instance, Choose(i)
    PROVE  PlacementInv'
<1> USE DEF PlacementInv
<1>1. PICK nodes \in NodeChoices(i) :
          /\ job' = [job EXCEPT ![i] = [Idle EXCEPT !.at = "deploy", !.nodes = nodes]]
          /\ crowded' = crowded \cup
                UNION {Nodes(j) \cap {nodes[k] : k \in DOMAIN nodes} :
                          j \in {h \in Instance \ {i} : Busy(h)}}
    BY DEF Choose
<1>2. UNCHANGED <<current, placed, raised>>
    BY DEF Choose
<1>3. /\ nodes \in Seq(Worker) /\ nodes # <<>>
      /\ i \notin Replicated => /\ Len(nodes) = 1
                                /\ \A w \in Among(nodes) : current[w] < Workers[w].max
    BY ChoicesHaveRoom
<1>4. PICK new : new = [Idle EXCEPT !.at = "deploy", !.nodes = nodes]
    OBVIOUS
<1>5. new \in JobRow /\ new.at = "deploy" /\ new.nodes = nodes
    BY <1>3, <1>4 DEF Idle, JobRow
<1>6. /\ job' \in [Instance -> JobRow] /\ job'[i] = new
      /\ \A j \in Instance : j # i => /\ job'[j] = job[j]
                                      /\ Busy(j)' = Busy(j) /\ Nodes(j)' = Nodes(j)
    BY <1>1, <1>4, <1>5, OneJob
<1>7. Busy(i)' /\ Nodes(i)' = Among(nodes)
    BY <1>5, <1>6 DEF Busy, Nodes, Among
<1>8. Among(nodes) \subseteq Worker
    BY <1>3 DEF Among
<1>9. crowded \subseteq crowded' /\ crowded' \subseteq Worker
      /\ \A j \in Instance \ {i} : Busy(j) => Nodes(j) \cap Among(nodes) \subseteq crowded'
  <2>1. crowded' = crowded \cup UNION {Nodes(j) \cap Among(nodes) :
                                           j \in {h \in Instance \ {i} : Busy(h)}}
    BY <1>1 DEF Among
  <2> QED
    BY <1>8, <2>1 DEF Typed
<1>10. Typed'
  <2>1. starts' \in [Instance -> 0 .. MaxStarts]
    <3>1. starts[i] + 1 \in 0 .. MaxStarts
      BY PlacementAssumption DEF Choose, Typed
    <3> QED
      BY <3>1 DEF Choose, Typed
  <2> QED
    BY <1>2, <1>6, <1>9, <2>1 DEF Typed
<1>11. BusyHaveNodes'
    BY <1>3, <1>5, <1>6 DEF BusyHaveNodes
<1>12. BusyAlone'
  <2> SUFFICES ASSUME NEW w \in Worker \ crowded', NEW j \in Instance, NEW k \in Instance,
                      Busy(j)', Busy(k)', w \in Nodes(j)', w \in Nodes(k)', j # k
               PROVE  FALSE
    BY DEF BusyAlone
  <2>1. CASE j # i /\ k # i
    BY <1>6, <1>9, <2>1 DEF BusyAlone
  <2>2. CASE j = i \/ k = i
    BY <1>6, <1>7, <1>9, <2>2
  <2> QED
    BY <2>1, <2>2
<1>13. ReadsAreFresh'
    BY <1>2, <1>5, <1>6, <1>9 DEF ReadsAreFresh
<1>14. RoomIsKept'
    BY <1>2, <1>3, <1>6, <1>7, <1>9 DEF RoomIsKept
<1>15. CountsFit'
  <2>1. \A w : i \notin Counted(w)'
    BY <1>5, <1>6 DEF Counted
  <2> QED
    BY <1>2, <1>6, <1>9, <2>1, CountsStayFit
<1>16. CountsAreNotInvented'
    BY <1>2 DEF CountsAreNotInvented
<1> QED
    BY <1>10, <1>11, <1>12, <1>13, <1>14, <1>15, <1>16

\* The stack moves to the chosen workers, which have not counted it.
LEMMA DeployKeeps ==
    ASSUME PlacementInv, NEW i \in Instance, Deploy(i)
    PROVE  PlacementInv'
<1> USE DEF PlacementInv
<1>1. PICK new : new = [job[i] EXCEPT !.at = "read"]
    OBVIOUS
<1>2. job[i] \in JobRow /\ job[i].at = "deploy" /\ Busy(i)
    BY DEF Deploy, Typed, Busy
<1>3. new \in JobRow /\ new.at = "read" /\ new.nodes = job[i].nodes
    BY <1>1, <1>2 DEF JobRow
<1>4. job' = [job EXCEPT ![i] = new] /\ placed' = [placed EXCEPT ![i] = Nodes(i)]
    BY <1>1 DEF Deploy
<1>5. Nodes(i) \in SUBSET Worker
    BY <1>2 DEF JobRow, Nodes
<1>6. /\ placed' \in [Instance -> SUBSET Worker] /\ placed'[i] = Nodes(i)
      /\ \A j \in Instance : j # i => placed'[j] = placed[j]
    BY <1>4, <1>5 DEF Typed
<1>7. job'[i] = new
    BY <1>3, <1>4, OneJob
<1>8. \A w : i \notin Counted(w)'
  <2>1. Nodes(i)' = Nodes(i)
    BY <1>3, <1>7 DEF Nodes
  <2> QED
    BY <1>3, <1>6, <1>7, <2>1 DEF Counted
<1>9. UNCHANGED <<current, crowded>> /\ UNCHANGED starts /\ UNCHANGED raised
    BY DEF Deploy
<1>10. raised' \in [Worker -> Nat] /\ \A w \in Worker : raised[w] <= raised'[w]
    BY <1>9 DEF Typed
<1> QED
    BY <1>2, <1>3, <1>4, <1>6, <1>8, <1>9, <1>10, GoOnKeeps

\* The counter is read, and its increment begun.
LEMMA ReadKeeps ==
    ASSUME PlacementInv, NEW i \in Instance, ReadCount(i)
    PROVE  PlacementInv'
<1> USE DEF PlacementInv
<1>1. PICK w : w = Head(job[i].nodes)
    OBVIOUS
<1>2. PICK new : new = [job[i] EXCEPT !.at = "write", !.read = current[w]]
    OBVIOUS
<1>3. job[i] \in JobRow /\ job[i].at = "read" /\ Busy(i)
    BY DEF ReadCount, Typed, Busy
<1>4. w \in Worker /\ current[w] \in Nat /\ raised[w] \in Nat /\ current[w] <= raised[w]
    BY <1>1, <1>3, BusyNodes DEF Typed, CountsAreNotInvented
<1>5. /\ new \in JobRow /\ new.at = "write" /\ new.nodes = job[i].nodes
      /\ new.read = current[w]
    BY <1>2, <1>3, <1>4 DEF JobRow
<1>6. /\ job' = [job EXCEPT ![i] = new] /\ raised' = [raised EXCEPT ![w] = @ + 1]
      /\ UNCHANGED <<current, crowded>> /\ UNCHANGED starts /\ UNCHANGED placed
    BY <1>1, <1>2 DEF ReadCount
<1>7. /\ raised' \in [Worker -> Nat] /\ raised'[w] = raised[w] + 1
      /\ \A v \in Worker : raised[v] <= raised'[v]
    BY <1>4, <1>6 DEF Typed
<1>8. job'[i] = new
    BY <1>5, <1>6, OneJob
<1>9. \A v \in Worker : i \in Counted(v)' => i \in Counted(v)
  <2>1. Nodes(i)' = Nodes(i)
    BY <1>5, <1>8 DEF Nodes
  <2> QED
    BY <1>3, <1>5, <1>6, <1>8, <2>1 DEF Counted
<1>10. /\ placed' \in [Instance -> SUBSET Worker]
       /\ \A j \in Instance : j # i => placed'[j] = placed[j]
    BY <1>6 DEF Typed
<1>11. new.read < raised'[w] /\ w = Head(new.nodes)
    BY <1>1, <1>4, <1>5, <1>7
<1> QED
    BY <1>3, <1>5, <1>6, <1>7, <1>9, <1>10, <1>11, GoOnKeeps

\* One instance more is counted where the counter gets its increment.
LEMMA OneMoreCounted ==
    ASSUME NEW w \in Worker, NEW i \in Instance, Counted(w)' \subseteq Counted(w) \cup {i},
           current[w] \in Nat, Cardinality(Counted(w)) <= current[w],
           Cardinality(Counted(w) \ Replicated) <= Workers[w].max,
           i \notin Replicated => current[w] < Workers[w].max
    PROVE  /\ Cardinality(Counted(w)') <= current[w] + 1
           /\ Cardinality(Counted(w)' \ Replicated) <= Workers[w].max
<1>1. IsFiniteSet(Counted(w))
  <2>1. Counted(w) \subseteq Instance
    BY DEF Counted
  <2> QED
    BY <2>1, PlacementAssumption, FS_Subset
<1>2. PICK more : more = Counted(w) \cup {i}
    OBVIOUS
<1>3. IsFiniteSet(more) /\ Cardinality(more) <= current[w] + 1 /\ Cardinality(more) \in Nat
  <2>1. /\ IsFiniteSet(more) /\ Cardinality(Counted(w)) \in Nat
        /\ Cardinality(more) \in {Cardinality(Counted(w)), Cardinality(Counted(w)) + 1}
    BY <1>1, <1>2, FS_AddElement, FS_CardinalityType
  <2> QED
    BY <2>1, FS_CardinalityType
<1>4. /\ IsFiniteSet(Counted(w)') /\ Cardinality(Counted(w)') <= Cardinality(more)
      /\ Cardinality(Counted(w)') \in Nat
  <2>1. IsFiniteSet(Counted(w)') /\ Cardinality(Counted(w)') <= Cardinality(more)
    BY <1>2, <1>3, FS_Subset
  <2> QED
    BY <2>1, FS_CardinalityType
<1>5. CASE i \in Replicated
  <2>1. Counted(w)' \ Replicated \subseteq Counted(w) \ Replicated
    BY <1>5
  <2>2. IsFiniteSet(Counted(w) \ Replicated) /\ IsFiniteSet(Counted(w)' \ Replicated)
    BY <1>1, <1>4, FS_Subset
  <2>3. Cardinality(Counted(w)' \ Replicated) <= Cardinality(Counted(w) \ Replicated)
    BY <2>1, <2>2, FS_Subset
  <2>4. /\ Cardinality(Counted(w) \ Replicated) \in Nat
        /\ Cardinality(Counted(w)' \ Replicated) \in Nat
    BY <2>2, FS_CardinalityType
  <2> QED
    BY <1>3, <1>4, <2>3, <2>4, WorkerFacts
<1>6. CASE i \notin Replicated
  <2>1. /\ IsFiniteSet(Counted(w)' \ Replicated)
        /\ Cardinality(Counted(w)' \ Replicated) <= Cardinality(Counted(w)')
    BY <1>4, FS_Subset
  <2>2. Cardinality(Counted(w)' \ Replicated) \in Nat
    BY <2>1, FS_CardinalityType
  <2> QED
    BY <1>3, <1>4, <1>6, <2>1, <2>2, WorkerFacts
<1> QED
    BY <1>5, <1>6

\* What was read, plus one, is written: right unless the worker is crowded.
LEMMA WriteKeeps ==
    ASSUME PlacementInv, NEW i \in Instance, WriteCount(i)
    PROVE  PlacementInv'
<1> USE DEF PlacementInv
<1>1. PICK w, rest : w = Head(job[i].nodes) /\ rest = Tail(job[i].nodes)
    OBVIOUS
<1>2. PICK new : new = [job[i] EXCEPT !.at = IF rest = <<>> THEN "done" ELSE "read",
                                      !.nodes = rest]
    OBVIOUS
<1>3. job[i] \in JobRow /\ job[i].at = "write" /\ Busy(i)
    BY DEF WriteCount, Typed, Busy
<1>4. /\ w \in Worker /\ rest \in Seq(Worker) /\ (i \notin Replicated => rest = <<>>)
      /\ Nodes(i) = {w} \cup Among(rest)
    BY <1>1, <1>3, BusyNodes
<1>5. /\ job[i].read \in Nat /\ current[w] \in Nat /\ raised[w] \in Nat
      /\ job[i].read < raised[w] /\ (w \notin crowded => job[i].read = current[w])
    BY <1>1, <1>3, <1>4 DEF JobRow, Typed, ReadsAreFresh
<1>6. /\ new \in JobRow /\ new.nodes = rest
      /\ new.at = IF rest = <<>> THEN "done" ELSE "read"
    BY <1>2, <1>3, <1>4 DEF JobRow
<1>7. /\ job' = [job EXCEPT ![i] = new] /\ current' = [current EXCEPT ![w] = job[i].read + 1]
      /\ UNCHANGED placed /\ UNCHANGED starts /\ UNCHANGED raised /\ UNCHANGED crowded
    BY <1>1, <1>2 DEF WriteCount
<1>8. /\ job' \in [Instance -> JobRow] /\ job'[i] = new
      /\ \A j \in Instance : j # i => /\ job'[j] = job[j]
                                      /\ Busy(j)' = Busy(j) /\ Nodes(j)' = Nodes(j)
    BY <1>6, <1>7, OneJob
<1>9. Nodes(i)' = Among(rest) /\ (rest = <<>> => Among(rest) = {})
    BY <1>6, <1>8 DEF Nodes, Among
<1>10. /\ current' \in [Worker -> Nat] /\ current'[w] = job[i].read + 1
       /\ \A v \in Worker : v # w => current'[v] = current[v]
    BY <1>4, <1>5, <1>7 DEF Typed
<1>11. Busy(i)' => rest # <<>>
    BY <1>6, <1>8 DEF Busy
<1>12. \A j \in Instance : j # i /\ Busy(j) /\ w \in Nodes(j) => w \in crowded
    BY <1>3, <1>4 DEF BusyAlone
<1>13. Typed'
    BY <1>7, <1>8, <1>10 DEF Typed
<1>14. BusyHaveNodes'
    BY <1>4, <1>6, <1>8, <1>11 DEF BusyHaveNodes
<1>15. BusyAlone'
    BY <1>3, <1>4, <1>7, <1>8, <1>9 DEF BusyAlone
<1>16. ReadsAreFresh'
  <2> SUFFICES ASSUME NEW j \in Instance, job'[j].at = "write"
               PROVE  LET v == Head(job'[j].nodes)
                      IN  /\ job'[j].read < raised'[v]
                          /\ v \notin crowded' => job'[j].read = current'[v]
    BY DEF ReadsAreFresh
  <2>1. j # i /\ job'[j] = job[j] /\ Busy(j)
    BY <1>6, <1>8 DEF Busy
  <2>2. PICK v \in Worker : v = Head(job[j].nodes) /\ v \in Nodes(j)
    BY <2>1, BusyNodes
  <2>3. job[j].read < raised[v] /\ (v \notin crowded => job[j].read = current[v])
    BY <2>1, <2>2 DEF ReadsAreFresh
  <2>4. v \notin crowded => current'[v] = current[v]
    BY <1>10, <1>12, <2>1, <2>2
  <2> QED
    BY <1>7, <2>1, <2>2, <2>3, <2>4
<1>17. RoomIsKept'
  <2> SUFFICES ASSUME NEW v \in Worker \ crowded', NEW j \in Instance \ Replicated,
                      Busy(j)', v \in Nodes(j)'
               PROVE  current'[v] < Workers[v].max
    BY DEF RoomIsKept
  <2>1. j # i /\ Busy(j) /\ v \in Nodes(j) /\ v \notin crowded
    BY <1>4, <1>7, <1>8, <1>11
  <2>2. current'[v] = current[v]
    BY <1>10, <1>12, <2>1
  <2> QED
    BY <2>1, <2>2 DEF RoomIsKept
<1>18. CountsFit'
  <2> SUFFICES ASSUME NEW v \in Worker \ crowded'
               PROVE  /\ Cardinality(Counted(v)') <= current'[v]
                      /\ Cardinality(Counted(v)' \ Replicated) <= Workers[v].max
    BY DEF CountsFit
  <2>1. /\ v \notin crowded /\ Cardinality(Counted(v)) <= current[v] /\ current[v] \in Nat
        /\ Cardinality(Counted(v) \ Replicated) <= Workers[v].max
    BY <1>7 DEF CountsFit, Typed
  <2>2. \A j \in Counted(v)' : j # i => j \in Counted(v)
    BY <1>7, <1>8 DEF Counted
  <2>3. CASE v = w
    <3>1. Counted(v)' \subseteq Counted(v) \cup {i}
      BY <2>2
    <3>2. i \notin Replicated => current[v] < Workers[v].max
      BY <1>3, <1>4, <2>1, <2>3 DEF RoomIsKept
    <3>3. current'[v] = current[v] + 1
      BY <1>5, <1>10, <2>1, <2>3
    <3> QED
      BY <2>1, <3>1, <3>2, <3>3, OneMoreCounted
  <2>4. CASE v # w
    <3>1. i \in Counted(v)' => i \in Counted(v)
      BY <1>3, <1>4, <1>6, <1>7, <1>8, <1>9, <2>4 DEF Counted
    <3>2. Counted(v)' \subseteq Counted(v)
      BY <2>2, <3>1
    <3> QED
      BY <1>10, <2>1, <2>4, <3>2, FewerCounted
  <2> QED
    BY <2>3, <2>4
<1>19. CountsAreNotInvented'
    BY <1>5, <1>7, <1>10 DEF CountsAreNotInvented
<1> QED
    BY <1>13, <1>14, <1>15, <1>16, <1>17, <1>18, <1>19

\* Every step keeps the invariant.
LEMMA PlacementInvInductive == PlacementInv /\ [Next]_vars => PlacementInv'
<1> SUFFICES ASSUME PlacementInv, [Next]_vars PROVE PlacementInv'
    OBVIOUS
<1>1. ASSUME NEW i \in Instance, Refuse(i) \/ Fail(i) \/ Crash(i) \/ Delete(i)
      PROVE  PlacementInv'
  <2>1. job[i] \in JobRow /\ Idle \in JobRow
    BY EmptySeq DEF PlacementInv, Typed, JobRow, Idle
  <2>2. PICK new \in {[job[i] EXCEPT !.at = "gone"], [Idle EXCEPT !.at = "gone"], Idle} :
            job' = [job EXCEPT ![i] = new]
    BY <1>1 DEF Refuse, Fail, Crash, Delete
  <2>3. new \in JobRow /\ new.at \in {"idle", "gone"}
    BY <2>1, <2>2 DEF JobRow, Idle
  <2>4. UNCHANGED <<current, raised, crowded>>
    BY <1>1 DEF Refuse, Fail, Crash, Delete
  <2>5. starts' \in [Instance -> 0 .. MaxStarts]
    <3>1. starts \in [Instance -> 0 .. MaxStarts]
      BY DEF PlacementInv, Typed
    <3>2. starts[i] < MaxStarts => starts[i] + 1 \in 0 .. MaxStarts
      BY <3>1, PlacementAssumption
    <3> QED
      BY <1>1, <3>1, <3>2 DEF Refuse, Fail, Crash, Delete
  <2>6. /\ placed' \in [Instance -> SUBSET Worker]
        /\ \A j \in Instance : j # i => placed'[j] = placed[j]
    BY <1>1 DEF Refuse, Fail, Crash, Delete, PlacementInv, Typed
  <2> QED
    BY <2>2, <2>3, <2>4, <2>5, <2>6, LeaveKeeps
<1>2. CASE UNCHANGED vars
  <2>1. UNCHANGED <<current, job, placed, starts, raised, crowded>>
    BY <1>2 DEF vars
  <2>2. /\ \A i : Busy(i)' = Busy(i) /\ Nodes(i)' = Nodes(i)
        /\ \A w : Counted(w)' = Counted(w)
    BY <2>1 DEF Busy, Nodes, Counted
  <2>3. Typed' /\ BusyHaveNodes' /\ ReadsAreFresh' /\ CountsAreNotInvented'
    BY <2>1, <2>2 DEF PlacementInv, Typed, BusyHaveNodes, ReadsAreFresh, CountsAreNotInvented
  <2>4. BusyAlone' /\ CountsFit' /\ RoomIsKept'
    BY <2>1, <2>2 DEF PlacementInv, BusyAlone, CountsFit, RoomIsKept
  <2> QED
    BY <2>3, <2>4 DEF PlacementInv
<1> QED
    BY <1>1, <1>2, ChooseKeeps, DeployKeeps, ReadKeeps, WriteKeeps DEF Next

\* What is served on a worker is counted there.
LEMMA ServedAreCounted ==
    ASSUME PlacementInv, NEW w \in Worker \ crowded
    PROVE  /\ Cardinality(Served(w)) <= current[w]
           /\ Served(w) \cap Replicated = {} => Cardinality(Served(w)) <= Workers[w].max
<1>1. Served(w) \subseteq Counted(w) /\ Counted(w) \subseteq Instance
    BY DEF Served, Counted
<1>2. IsFiniteSet(Counted(w)) /\ IsFiniteSet(Counted(w) \ Replicated)
    BY <1>1, PlacementAssumption, FS_Subset
<1>3. /\ Cardinality(Counted(w)) <= current[w] /\ current[w] \in Nat
      /\ Cardinality(Counted(w) \ Replicated) <= Workers[w].max /\ Workers[w].max \in Nat
    BY WorkerFacts DEF PlacementInv, CountsFit, Typed
<1>4. Cardinality(Served(w)) <= Cardinality(Counted(w)) /\ IsFiniteSet(Served(w))
    BY <1>1, <1>2, FS_Subset
<1>5. ASSUME Served(w) \cap Replicated = {}
      PROVE  Cardinality(Served(w)) <= Cardinality(Counted(w) \ Replicated)
  <2>1. Served(w) \subseteq Counted(w) \ Replicated
    BY <1>1, <1>5
  <2> QED
    BY <1>2, <2>1, FS_Subset
<1>6. /\ Cardinality(Served(w)) \in Nat /\ Cardinality(Counted(w)) \in Nat
      /\ Cardinality(Counted(w) \ Replicated) \in Nat
    BY <1>2, <1>4, FS_CardinalityType
<1> QED
    BY <1>3, <1>4, <1>5, <1>6

\* A counter says less than what runs on its worker, and a worker is over its
\* maximum without a replica set on it, only where two jobs were busy with the
\* worker at the same time; and no counter says more than the deliveries that
\* raised it.
THEOREM CountsAreRightAlone == Spec => []CountsNeedACrowd
<1>1. PlacementInv => CountsNeedACrowd
    BY ServedAreCounted DEF PlacementInv, CountsNeedACrowd, LowCountsNeedACrowd,
                            OvercommitNeedsACrowd
<1> QED
    BY <1>1, PlacementInvHolds, PlacementInvInductive, PTL DEF Spec

\* The state of the placement has its type: the workers a job still has to deploy
\* to or to count are workers of the swarm.
THEOREM PlacementTyped == Spec => []TypeOK
<1>1. PlacementInv => TypeOK
  <2> SUFFICES ASSUME Typed, NEW i \in Instance
               PROVE  /\ job[i].at \in {"idle", "deploy", "read", "write", "done", "gone"}
                      /\ Nodes(i) \subseteq Worker /\ placed[i] \subseteq Worker
                      /\ starts[i] \in 0 .. MaxStarts
    BY DEF PlacementInv, Typed, TypeOK
  <2>1. job[i] \in JobRow /\ placed[i] \in SUBSET Worker /\ starts[i] \in 0 .. MaxStarts
    BY DEF Typed
  <2>2. job[i].nodes \in Seq(Worker)
    BY <2>1 DEF JobRow
  <2>3. Nodes(i) \subseteq Worker
    BY <2>2 DEF Nodes, Range
  <2> QED
    BY <2>1, <2>3 DEF JobRow
<1> QED
    BY <1>1, PlacementInvHolds, PlacementInvInductive, PTL DEF Spec

-----------------------------------------------------------------------------
(* Numbers and sums.                                                        *)

\* A set of numbers has a least one.
LEMMA LeastNumber ==
    ASSUME NEW S \in SUBSET Nat, S # {}
    PROVE  \E m \in S : \A n \in S : m <= n
<1> DEFINE R == OpToRel(<, Nat)
<1>1. IsWellFoundedOn(R, Nat)
    BY NatLessThanWellFounded
<1>2. ASSUME NEW x \in Nat, NEW y \in Nat, y < x PROVE <<y, x>> \in R
    BY <1>2 DEF OpToRel
<1> HIDE DEF R
<1>3. PICK x \in S : \A y \in S : <<y, x>> \notin R
    BY <1>1, WFMin
<1>4. ASSUME NEW y \in S PROVE x <= y
  <2>1. x \in Nat /\ y \in Nat /\ ~(y < x)
    BY <1>2, <1>3
  <2> QED
    BY <2>1
<1> QED
    BY <1>4

\* The element a sum takes first.
Some(s) == CHOOSE x \in s : TRUE

\* g has the sums of f over all subsets of S that are in D.
SumsUpTo(f, D, g) ==
    g = [s \in D |-> IF s = {} THEN 0 ELSE f[Some(s)] + g[s \ {Some(s)}]]
Small(S, n) == {s \in SUBSET S : Cardinality(s) <= n}

\* An element fewer.
LEMMA Fewer ==
    ASSUME NEW S, IsFiniteSet(S), S # {}
    PROVE  /\ Some(S) \in S /\ IsFiniteSet(S \ {Some(S)}) /\ Cardinality(S) \in Nat \ {0}
           /\ Cardinality(S \ {Some(S)}) = Cardinality(S) - 1
<1>1. Some(S) \in S
    BY DEF Some
<1>2. Cardinality(S) \in Nat /\ Cardinality(S) # 0
    BY FS_CardinalityType, FS_EmptySet
<1> QED
    BY <1>1, <1>2, FS_RemoveElement

\* There are such sums of a finite set.
LEMMA SumsExist ==
    ASSUME NEW S, IsFiniteSet(S), NEW f
    PROVE  \E g : SumsUpTo(f, SUBSET S, g)
<1> DEFINE Has(n) == \E g : SumsUpTo(f, Small(S, n), g)
           bad == {n \in Nat : ~Has(n)}
<1>1. \A s \in SUBSET S : IsFiniteSet(s) /\ Cardinality(s) \in Nat
    BY FS_Subset, FS_CardinalityType
<1>2. Has(0)
  <2>1. \A s \in Small(S, 0) : s = {}
    BY <1>1, FS_EmptySet DEF Small
  <2> DEFINE g == [s \in Small(S, 0) |-> 0]
  <2>2. g = [s \in Small(S, 0) |-> IF s = {} THEN 0 ELSE f[Some(s)] + g[s \ {Some(s)}]]
    BY <2>1
  <2> QED
    BY <2>2 DEF SumsUpTo
<1>3. ASSUME NEW n \in Nat, Has(n) PROVE Has(n + 1)
  <2>1. PICK g : SumsUpTo(f, Small(S, n), g)
    BY <1>3
  <2> DEFINE h == [s \in Small(S, n + 1) |-> IF s = {} THEN 0 ELSE f[Some(s)] + g[s \ {Some(s)}]]
  <2>2. ASSUME NEW s \in Small(S, n + 1), s # {}
        PROVE  s \ {Some(s)} \in Small(S, n) /\ s \ {Some(s)} \in Small(S, n + 1)
    <3>1. s \in SUBSET S /\ IsFiniteSet(s) /\ Cardinality(s) <= n + 1
      BY <1>1 DEF Small
    <3>2. s \ {Some(s)} \in SUBSET S /\ Cardinality(s \ {Some(s)}) = Cardinality(s) - 1
      BY <3>1, <2>2, Fewer
    <3>3. Cardinality(s) \in Nat
      BY <3>1, <1>1
    <3> QED
      BY <3>1, <3>2, <3>3 DEF Small
  <2>3. ASSUME NEW s \in Small(S, n), s \in Small(S, n + 1) PROVE h[s] = g[s]
    BY <2>1, <2>3 DEF SumsUpTo
  <2>4. h = [s \in Small(S, n + 1) |-> IF s = {} THEN 0 ELSE f[Some(s)] + h[s \ {Some(s)}]]
    <3>1. \A s \in Small(S, n + 1) : s # {} => h[s \ {Some(s)}] = g[s \ {Some(s)}]
      BY <2>2, <2>3
    <3> QED
      BY <3>1
  <2> QED
    BY <2>4 DEF SumsUpTo
<1>4. bad = {}
  <2> SUFFICES ASSUME bad # {} PROVE FALSE
    OBVIOUS
  <2>1. PICK m \in bad : \A n \in bad : m <= n
    BY LeastNumber
  <2>2. m # 0
    BY <1>2, <2>1
  <2>3. m - 1 \in Nat /\ m - 1 \notin bad
    BY <2>1, <2>2
  <2>4. Has(m - 1)
    BY <2>3
  <2>5. Has((m - 1) + 1)
    BY <2>3, <2>4, <1>3
  <2>6. (m - 1) + 1 = m
    BY <2>3
  <2>7. Has(m)
    BY <2>5, <2>6
  <2> QED
    BY <2>1, <2>7
<1>5. Cardinality(S) \in Nat
    BY FS_CardinalityType
<1>6. Has(Cardinality(S))
    BY <1>4, <1>5
<1>7. Small(S, Cardinality(S)) = SUBSET S
    BY FS_Subset DEF Small
<1> QED
    BY <1>6, <1>7

\* The sums over the subsets of a finite set are what they are, whatever larger
\* set they are taken in.
LEMMA SumsAgree ==
    ASSUME NEW S, NEW T, NEW f, NEW g, NEW h, IsFiniteSet(S), S \subseteq T,
           SumsUpTo(f, SUBSET S, g), SumsUpTo(f, SUBSET T, h)
    PROVE  g[S] = h[S]
<1> DEFINE bad == {n \in Nat : \E s \in SUBSET S : Cardinality(s) = n /\ g[s] # h[s]}
<1>1. ASSUME bad # {} PROVE FALSE
  <2>1. PICK m \in bad : \A n \in bad : m <= n
    BY <1>1, LeastNumber
  <2>2. PICK s \in SUBSET S : Cardinality(s) = m /\ g[s] # h[s]
    BY <2>1
  <2>3. g[s] = (IF s = {} THEN 0 ELSE f[Some(s)] + g[s \ {Some(s)}])
    BY DEF SumsUpTo
  <2>4. h[s] = (IF s = {} THEN 0 ELSE f[Some(s)] + h[s \ {Some(s)}])
    BY DEF SumsUpTo
  <2>5. s # {} /\ g[s \ {Some(s)}] # h[s \ {Some(s)}]
    BY <2>2, <2>3, <2>4
  <2>6. IsFiniteSet(s)
    BY FS_Subset
  <2>7. Cardinality(s \ {Some(s)}) = m - 1 /\ m - 1 \in Nat
    <3>1. /\ Some(s) \in s /\ Cardinality(s) \in Nat \ {0}
          /\ Cardinality(s \ {Some(s)}) = Cardinality(s) - 1
      BY <2>5, <2>6, Fewer
    <3> QED
      BY <3>1, <2>2
  <2>8. m - 1 \in bad
    BY <2>5, <2>7
  <2> QED
    BY <2>1, <2>7, <2>8
<1>2. Cardinality(S) \in Nat
    BY FS_CardinalityType
<1> QED
    BY <1>1, <1>2

\* The sum of the library is one of these.
LEMMA SumIsOne ==
    ASSUME NEW S, NEW f, IsFiniteSet(S)
    PROVE  \E g : SumsUpTo(f, SUBSET S, g) /\ SumFunctionOnSet(f, S) = g[S]
<1> DEFINE iter[s \in SUBSET S] ==
              IF s = {} THEN 0 ELSE f[Some(s)] + iter[s \ {Some(s)}]
<1>1. PICK g : SumsUpTo(f, SUBSET S, g)
    BY SumsExist
<1>2. g = [s \in SUBSET S |-> IF s = {} THEN 0 ELSE f[Some(s)] + g[s \ {Some(s)}]]
    BY <1>1 DEF SumsUpTo
<1>3. iter = [s \in SUBSET S |-> IF s = {} THEN 0 ELSE f[Some(s)] + iter[s \ {Some(s)}]]
    BY <1>2, Zenon
<1>4. SumFunctionOnSet(f, S) = iter[S]
    BY DEF SumFunctionOnSet, FoldFunctionOnSet, MapThenFoldSet, Some
<1> QED
    BY <1>3, <1>4 DEF SumsUpTo

\* The sum over no set is zero, and the sum over another one is its first element
\* and the sum over the rest.
LEMMA SumSome ==
    ASSUME NEW S, NEW f, IsFiniteSet(S)
    PROVE  /\ S = {} => SumFunctionOnSet(f, S) = 0
           /\ S # {} => SumFunctionOnSet(f, S) =
                            f[Some(S)] + SumFunctionOnSet(f, S \ {Some(S)})
<1>1. PICK g : SumsUpTo(f, SUBSET S, g) /\ SumFunctionOnSet(f, S) = g[S]
    BY SumIsOne
<1>2. g[S] = (IF S = {} THEN 0 ELSE f[Some(S)] + g[S \ {Some(S)}])
    BY <1>1 DEF SumsUpTo
<1> DEFINE rest == S \ {Some(S)}
<1>3. IsFiniteSet(rest) /\ rest \subseteq S
    BY FS_Subset
<1> HIDE DEF rest
<1>4. PICK h : SumsUpTo(f, SUBSET rest, h) /\ SumFunctionOnSet(f, rest) = h[rest]
    BY <1>3, SumIsOne
<1>5. h[rest] = g[rest]
    BY <1>1, <1>3, <1>4, SumsAgree
<1> QED
    BY <1>1, <1>2, <1>4, <1>5 DEF rest

\* It does not matter which element comes first.
LEMMA SumAny ==
    ASSUME NEW S, NEW f, IsFiniteSet(S), \A x \in S : f[x] \in Int
    PROVE  /\ SumFunctionOnSet(f, S) \in Int
           /\ \A x \in S :
                 SumFunctionOnSet(f, S) = f[x] + SumFunctionOnSet(f, S \ {x})
<1> DEFINE Good(s) == /\ SumFunctionOnSet(f, s) \in Int
                      /\ \A x \in s : SumFunctionOnSet(f, s) = f[x] + SumFunctionOnSet(f, s \ {x})
           bad == {n \in Nat : \E s \in SUBSET S : Cardinality(s) = n /\ ~Good(s)}
<1>1. ASSUME bad # {} PROVE FALSE
  <2>1. PICK m \in bad : \A n \in bad : m <= n
    BY <1>1, LeastNumber
  <2>2. PICK s \in SUBSET S : Cardinality(s) = m /\ ~Good(s)
    BY <2>1
  <2>3. IsFiniteSet(s)
    BY FS_Subset
  <2>4. ASSUME NEW x \in s
        PROVE  Good(s \ {x}) /\ IsFiniteSet(s \ {x}) /\ SumFunctionOnSet(f, s \ {x}) \in Int
    <3>1. /\ IsFiniteSet(s \ {x}) /\ Cardinality(s \ {x}) = Cardinality(s) - 1
          /\ IsFiniteSet(s \ {x}) /\ Cardinality(s) \in Nat /\ Cardinality(s \ {x}) \in Nat
      BY <2>3, FS_RemoveElement, FS_CardinalityType
    <3>2. s \ {x} \in SUBSET S /\ Cardinality(s \ {x}) < m
      BY <2>2, <3>1
    <3>3. Cardinality(s \ {x}) \notin bad
      <4>1. m \in Nat
        OBVIOUS
      <4> HIDE DEF bad
      <4> QED
        BY <2>1, <3>1, <3>2, <4>1
    <3> HIDE DEF Good
    <3>4. Good(s \ {x})
      BY <3>1, <3>2, <3>3
    <3> QED
      BY <3>1, <3>4 DEF Good
  <2> DEFINE p == Some(s)
             Sum(u) == SumFunctionOnSet(f, u)
  <2>5. s # {}
    <3>1. SumFunctionOnSet(f, {}) = 0
      BY FS_EmptySet, SumSome
    <3> QED
      BY <2>2, <3>1
  <2>6. p \in s /\ Sum(s) = f[p] + Sum(s \ {p})
    BY <2>3, <2>5, Fewer, SumSome
  <2> HIDE DEF p, Good
  <2>7. Sum(s) \in Int
    <3>1. f[p] \in Int /\ Sum(s \ {p}) \in Int
      BY <2>4, <2>6
    <3> QED
      BY <2>6, <3>1
  <2>8. ASSUME NEW x \in s PROVE Sum(s) = f[x] + Sum(s \ {x})
    <3>1. CASE x = p
      BY <2>6, <3>1
    <3>2. CASE x # p
      <4>1. /\ Sum(s \ {p}) = f[x] + Sum((s \ {p}) \ {x})
            /\ Sum((s \ {p}) \ {x}) \in Int
        <5>1. Good(s \ {p}) /\ IsFiniteSet(s \ {p}) /\ x \in s \ {p} /\ p \in s \ {x}
          BY <2>4, <2>6, <3>2
        <5>2. Good(s \ {x}) /\ Sum(s \ {x}) \in Int
          BY <2>4
        <5>3. (s \ {p}) \ {x} = (s \ {x}) \ {p}
          OBVIOUS
        <5>4. Sum(s \ {x}) = f[p] + Sum((s \ {x}) \ {p})
          BY <5>1, <5>2 DEF Good
        <5>5. Sum((s \ {p}) \ {x}) \in Int
          <6>1. IsFiniteSet((s \ {p}) \ {x}) /\ Cardinality((s \ {p}) \ {x}) \in Nat
            BY <5>1, FS_RemoveElement, FS_CardinalityType
          <6>2. Cardinality((s \ {p}) \ {x}) < m
            <7>1. /\ Cardinality(s \ {p}) = Cardinality(s) - 1 /\ Cardinality(s) \in Nat
              BY <2>3, <2>6, FS_RemoveElement, FS_CardinalityType
            <7>2. Cardinality((s \ {p}) \ {x}) = Cardinality(s \ {p}) - 1
              BY <5>1, FS_RemoveElement
            <7> QED
              BY <2>2, <7>1, <7>2
          <6>3. Cardinality((s \ {p}) \ {x}) \notin bad
            BY <2>1, <6>1, <6>2
          <6>4. (s \ {p}) \ {x} \in SUBSET S
            OBVIOUS
          <6>5. Good((s \ {p}) \ {x})
            BY <6>1, <6>3, <6>4
          <6> QED
            BY <6>5 DEF Good
        <5> QED
          BY <5>1, <5>5 DEF Good
      <4>2. Sum(s \ {x}) = f[p] + Sum((s \ {p}) \ {x})
        <5>1. Good(s \ {x}) /\ p \in s \ {x}
          BY <2>4, <2>6, <3>2
        <5>2. Sum(s \ {x}) = f[p] + Sum((s \ {x}) \ {p})
          BY <5>1 DEF Good
        <5>3. (s \ {p}) \ {x} = (s \ {x}) \ {p}
          OBVIOUS
        <5> QED
          BY <5>2, <5>3
      <4>3. f[x] \in Int /\ f[p] \in Int
        BY <2>6
      <4> QED
        BY <2>6, <4>1, <4>2, <4>3
    <3> QED
      BY <3>1, <3>2
  <2>9. Good(s)
    BY <2>7, <2>8 DEF Good
  <2> QED
    BY <2>2, <2>9
<1>2. Cardinality(S) \in Nat
    BY FS_CardinalityType
<1> QED
    BY <1>1, <1>2

\* A sum of natural numbers is one.
LEMMA SumIsNat ==
    ASSUME NEW S, NEW f, IsFiniteSet(S), \A x \in S : f[x] \in Nat
    PROVE  SumFunctionOnSet(f, S) \in Nat
<1> DEFINE Sum(u) == SumFunctionOnSet(f, u)
           bad == {n \in Nat : \E s \in SUBSET S : Cardinality(s) = n /\ Sum(s) \notin Nat}
<1>1. ASSUME bad # {} PROVE FALSE
  <2>1. PICK m \in bad : \A n \in bad : m <= n
    BY <1>1, LeastNumber
  <2>2. PICK s \in SUBSET S : Cardinality(s) = m /\ Sum(s) \notin Nat
    BY <2>1
  <2>3. IsFiniteSet(s) /\ m \in Nat
    BY FS_Subset
  <2>4. s # {} /\ Sum(s) = f[Some(s)] + Sum(s \ {Some(s)})
    <3>1. (s = {} => Sum(s) = 0) /\ (s # {} => Sum(s) = f[Some(s)] + Sum(s \ {Some(s)}))
      BY <2>3, SumSome
    <3> QED
      BY <2>2, <3>1
  <2>5. /\ Some(s) \in s /\ Cardinality(s \ {Some(s)}) = m - 1 /\ m - 1 \in Nat
    <3>1. /\ Some(s) \in s /\ Cardinality(s) \in Nat \ {0}
          /\ Cardinality(s \ {Some(s)}) = Cardinality(s) - 1
      BY <2>3, <2>4, Fewer
    <3> QED
      BY <3>1, <2>2
  <2>6. m - 1 \notin bad
    BY <2>1, <2>3, <2>5
  <2>7. Sum(s \ {Some(s)}) \in Nat
    BY <2>5, <2>6
  <2>8. f[Some(s)] \in Nat
    BY <2>5
  <2> QED
    BY <2>2, <2>4, <2>7, <2>8
<1>2. Cardinality(S) \in Nat
    BY FS_CardinalityType
<1> QED
    BY <1>1, <1>2

\* What f sums up over S, h sums up over T: b tells which element of T stands for
\* one of S, no two have the same one, and those that have none count nothing.
LEMMA SumsMatch ==
    ASSUME NEW S, NEW T, NEW f, NEW h, NEW b,
           IsFiniteSet(S), IsFiniteSet(T), \A x \in S : f[x] \in Int,
           \A y \in T : \E x \in S : b[x] = y,
           \A x \in S, y \in S : b[x] = b[y] => x = y,
           \A x \in S : f[x] = (IF b[x] \in T THEN h[b[x]] ELSE 0)
    PROVE  SumFunctionOnSet(f, S) = SumFunctionOnSet(h, T)
<1> DEFINE In(s) == {y \in T : \E x \in s : b[x] = y}
           Same(s) == SumFunctionOnSet(f, s) = SumFunctionOnSet(h, In(s))
           bad == {n \in Nat : \E s \in SUBSET S : Cardinality(s) = n /\ ~Same(s)}
<1>1. ASSUME bad # {} PROVE FALSE
  <2>1. PICK m \in bad : \A n \in bad : m <= n
    BY <1>1, LeastNumber
  <2>2. PICK s \in SUBSET S : Cardinality(s) = m /\ ~Same(s)
    BY <2>1
  <2>3. IsFiniteSet(s) /\ m \in Nat
    BY FS_Subset
  <2>4. s # {}
    <3>1. SumFunctionOnSet(f, {}) = 0 /\ SumFunctionOnSet(h, {}) = 0
      BY FS_EmptySet, SumSome
    <3>2. s = {} => In(s) = {}
      OBVIOUS
    <3> QED
      BY <2>2, <3>1, <3>2
  <2> DEFINE p == Some(s)
             r == s \ {p}
  <2>5. p \in s /\ p \in S /\ IsFiniteSet(r) /\ Cardinality(r) = m - 1 /\ m - 1 \in Nat
    <3>1. /\ Some(s) \in s /\ IsFiniteSet(s \ {Some(s)}) /\ Cardinality(s) \in Nat \ {0}
          /\ Cardinality(s \ {Some(s)}) = Cardinality(s) - 1
      BY <2>3, <2>4, Fewer
    <3> QED
      BY <3>1, <2>2
  <2>6. SumFunctionOnSet(f, s) = f[p] + SumFunctionOnSet(f, r)
    BY <2>3, <2>4, SumSome
  <2> HIDE DEF p
  <2>7. m - 1 \notin bad
    BY <2>1, <2>3, <2>5
  <2>8. Same(r)
    BY <2>5, <2>7
  <2>9. \A x \in S : f[x] \in Int
    OBVIOUS
  <2>10. SumFunctionOnSet(f, r) \in Int
    <3>1. \A x \in r : f[x] \in Int
      BY <2>9
    <3> QED
      BY <2>5, <3>1, SumAny
  <2>11. CASE b[p] \in T
    <3>1. In(r) = In(s) \ {b[p]} /\ b[p] \in In(s)
      BY <2>5, <2>11
    <3>2. IsFiniteSet(In(s))
      BY FS_Subset
    <3>3. \A y \in In(s) : h[y] \in Int
      BY <2>9
    <3>4. SumFunctionOnSet(h, In(s)) = h[b[p]] + SumFunctionOnSet(h, In(s) \ {b[p]})
      BY <3>1, <3>2, <3>3, SumAny
    <3>5. f[p] = h[b[p]]
      BY <2>5, <2>11
    <3> QED
      BY <2>2, <2>6, <2>8, <3>1, <3>4, <3>5
  <2>12. CASE b[p] \notin T
    <3>1. In(r) = In(s)
      BY <2>5, <2>12
    <3>2. f[p] = 0
      BY <2>5, <2>12
    <3>3. SumFunctionOnSet(f, s) = SumFunctionOnSet(f, r)
      BY <2>6, <2>10, <3>2
    <3>4. SumFunctionOnSet(h, In(r)) = SumFunctionOnSet(h, In(s))
      BY <3>1, Zenon
    <3>5. SumFunctionOnSet(f, r) = SumFunctionOnSet(h, In(r))
      BY <2>8
    <3> HIDE DEF r, In
    <3> QED
      BY <2>2, <3>3, <3>4, <3>5
  <2> QED
    BY <2>11, <2>12
<1>2. Cardinality(S) \in Nat
    BY FS_CardinalityType
<1>3. Same(S)
    BY <1>1, <1>2
<1>4. In(S) = T
    OBVIOUS
<1> QED
    BY <1>3, <1>4

-----------------------------------------------------------------------------
(* Logs.                                                                    *)

CONSTANTS
    Limit,      \* logs on a page
    Fine,       \* instants that a millisecond is divided into
    MaxTime, MaxLogs    \* bounds

VARIABLES
    logs,       \* what Axiom has, by arrival
    reader,     \* the client: [at, cursor]
    first,      \* the logs that were there when it asked for its first page
    pages,      \* the pages it was given
    skipped     \* history: a page had a row the parser does not take

L == INSTANCE LogPaging
INSTANCE LogPages

LogRow == [time : Nat, blank : BOOLEAN]

ReadingType ==
    /\ logs \in Seq(LogRow) /\ \A k \in DOMAIN logs : logs[k].time <= MaxTime
    /\ reader \in [at : {"away", "reading", "failed", "ended"}, cursor : Nat]
    /\ first \subseteq DOMAIN logs
    /\ \E S : pages \in Seq(S)
    /\ \A n \in DOMAIN pages : pages[n] \subseteq DOMAIN logs
    /\ reader.at = "away" => pages = <<>>

\* What was shown is not before the cursor.
ShownAreBehind ==
    reader.at # "ended" =>
        \A n \in DOMAIN pages : \A k \in pages[n] : Milli(logs[k].time) >= reader.cursor

\* A log that was there from the beginning and was neither shown nor missed at an
\* edge is still before the cursor.
OthersAreAhead ==
    reader.at # "away" =>
        \A k \in first \ Shown :
            \/ logs[k].blank \/ skipped \/ Milli(logs[k].time) \in Edges
            \/ reader.at # "ended" /\ Milli(logs[k].time) < reader.cursor

PagingInv == ReadingType /\ ShownAreBehind /\ OthersAreAhead /\ PagesGoBack

\* The instance reads instants and pages as this module does.
LEMMA SamePages ==
    /\ \A t : L!Milli(t) = Milli(t)
    /\ \A page : L!LastOf(page) = LastOf(page)
    /\ \A page : L!HasNext(page) <=> HasNext(page)
    /\ \A S : L!Cardinality(S) = Cardinality(S)
<1>1. ASSUME NEW S PROVE L!Cardinality(S) = Cardinality(S)
    BY DEF L!Cardinality, Cardinality, L!IsFiniteSet, IsFiniteSet
<1>2. ASSUME NEW t PROVE L!Milli(t) = Milli(t)
    BY DEF L!Milli, Milli
<1>3. ASSUME NEW page PROVE L!LastOf(page) = LastOf(page)
    BY DEF L!LastOf, LastOf, L!Milli, Milli
<1>4. ASSUME NEW page PROVE L!HasNext(page) <=> HasNext(page)
    BY <1>1 DEF L!HasNext, HasNext
<1> QED
    BY <1>1, <1>2, <1>3, <1>4

\* The order of multiples is that of their factors.
LEMMA Factors ==
    ASSUME Fine \in Nat \ {0}, NEW a \in Int, NEW b \in Int, a * Fine < b * Fine
    PROVE  a < b
OBVIOUS

\* The millisecond of an instant, in whole numbers.
LEMMA MilliOfInstant ==
    ASSUME Fine \in Nat \ {0}, NEW t \in Nat
    PROVE  Milli(t) \in Nat /\ Milli(t) * Fine <= t /\ t < (Milli(t) + 1) * Fine
BY DEF Milli

\* Milliseconds follow the order of their instants, and what is before the cursor
\* is of an earlier millisecond.
LEMMA MillisKeepOrder ==
    ASSUME Fine \in Nat \ {0}, NEW t \in Nat
    PROVE  /\ \A u \in Nat : t <= u => Milli(t) <= Milli(u)
           /\ \A c \in Nat : t < c * Fine <=> Milli(t) < c
<1>1. Milli(t) \in Nat /\ Milli(t) * Fine <= t /\ t < (Milli(t) + 1) * Fine
    BY MilliOfInstant
<1>2. ASSUME NEW u \in Nat, t <= u PROVE Milli(t) <= Milli(u)
  <2>1. Milli(u) \in Nat /\ u < (Milli(u) + 1) * Fine
    BY MilliOfInstant
  <2>2. Milli(t) * Fine < (Milli(u) + 1) * Fine
    BY <1>1, <1>2, <2>1
  <2>3. Milli(t) < Milli(u) + 1
    BY <1>1, <2>1, <2>2, Factors
  <2> QED
    BY <1>1, <2>1, <2>3
<1>3. ASSUME NEW c \in Nat, t < c * Fine PROVE Milli(t) < c
  <2>1. Milli(t) * Fine < c * Fine
    BY <1>1, <1>3
  <2> QED
    BY <1>1, <2>1, Factors
<1>4. ASSUME NEW c \in Nat, Milli(t) < c PROVE t < c * Fine
  <2>1. ~(c * Fine < (Milli(t) + 1) * Fine)
    BY <1>1, <1>4, Factors
  <2> QED
    BY <1>1, <2>1
<1> QED
    BY <1>2, <1>3, <1>4

\* The last log of a page is one of it, and none of it is before.
LEMMA LastIsFirst ==
    ASSUME Fine \in Nat \ {0}, ReadingType, NEW page \in SUBSET DOMAIN logs, page # {}
    PROVE  /\ LastOf(page) \in Nat
           /\ \E k \in page : LastOf(page) = Milli(logs[k].time)
           /\ \A k \in page : LastOf(page) <= Milli(logs[k].time)
<1> DEFINE millis == {Milli(logs[k].time) : k \in page}
<1>1. ASSUME NEW k \in page PROVE Milli(logs[k].time) \in Nat
  <2>1. logs[k] \in LogRow
    BY DEF ReadingType
  <2>2. logs[k].time \in Nat
    BY <2>1 DEF LogRow
  <2> QED
    BY <2>2, MilliOfInstant
<1>2. millis \in SUBSET Nat /\ millis # {}
    BY <1>1
<1>3. PICK m \in millis : \A n \in millis : m <= n
    BY <1>2, LeastNumber
<1>4. \A k \in page : m <= Milli(logs[k].time)
    BY <1>3
<1>5. LastOf(page) \in millis /\ \A k \in page : LastOf(page) <= Milli(logs[k].time)
    BY <1>3, <1>4 DEF LastOf
<1> QED
    BY <1>2, <1>5

\* Each source is listed under the stream it is labelled with.
LEMMA StreamsDoAgree == StreamsAgree
BY DEF StreamsAgree, LogSource, StreamOf, SourcesOf

\* A log more moves no end of a page.
LEMMA LastStays ==
    ASSUME Fine \in Nat \ {0}, ReadingType, NEW page \in SUBSET DOMAIN logs, page # {},
           \A k \in page : logs'[k] = logs[k]
    PROVE  LastOf(page)' = LastOf(page)
<1> DEFINE millis == {Milli(logs[k].time) : k \in page}
<1>1. /\ LastOf(page) \in Nat
      /\ LastOf(page) \in millis /\ \A k \in page : LastOf(page) <= Milli(logs[k].time)
    BY LastIsFirst
<1>2. ASSUME NEW k \in page PROVE Milli(logs[k].time)' = Milli(logs[k].time)
    BY DEF Milli
<1>3. {Milli(logs'[k].time) : k \in page} = millis
    BY <1>2
<1>4. /\ LastOf(page)' \in millis
      /\ \A k \in page : LastOf(page)' <= Milli(logs[k].time)
  <2>1. LastOf(page)' = CHOOSE m \in {Milli(logs'[k].time) : k \in page} :
                            \A k \in page : m <= Milli(logs'[k].time)
    BY DEF LastOf, Milli
  <2>2. \E m \in {Milli(logs'[k].time) : k \in page} :
            \A k \in page : m <= Milli(logs'[k].time)
    BY <1>1, <1>3
  <2> QED
    BY <2>1, <2>2, <1>3
<1>5. \A m \in millis : m \in Nat
  <2>1. ASSUME NEW k \in page PROVE Milli(logs[k].time) \in Nat
    <3>1. logs[k] \in LogRow
      BY DEF ReadingType
    <3>2. logs[k].time \in Nat
      BY <3>1 DEF LogRow
    <3> QED
      BY <3>2, MilliOfInstant
  <2> QED
    BY <2>1
<1> QED
    BY <1>1, <1>4, <1>5

\* A page with as many logs as were asked for has one.
LEMMA FullPages ==
    ASSUME Limit \in Nat \ {0}, NEW page, HasNext(page)
    PROVE  page # {}
BY FS_EmptySet DEF HasNext

\* A log that arrives was not there from the beginning.
LEMMA ArriveKeepsPages ==
    ASSUME Fine \in Nat \ {0}, Limit \in Nat \ {0}, MaxTime \in Nat, PagingInv,
           NEW t \in 0 .. MaxTime, NEW blank \in BOOLEAN, L!Arrive(t, blank)
    PROVE  PagingInv'
<1> DEFINE row == [time |-> t, blank |-> blank]
           new == Len(logs) + 1
<1>1. logs' = Append(logs, row) /\ UNCHANGED <<reader, first, pages, skipped>>
    BY DEF L!Arrive
<1>2. row \in LogRow /\ row.time <= MaxTime
    BY DEF LogRow
<1>3. /\ logs' \in Seq(LogRow) /\ DOMAIN logs' = DOMAIN logs \cup {new}
      /\ logs'[new] = row /\ \A k \in DOMAIN logs : logs'[k] = logs[k]
    BY <1>1, <1>2 DEF PagingInv, ReadingType
<1>4. \A k \in DOMAIN logs : Milli(logs[k].time)' = Milli(logs[k].time)
    BY <1>3 DEF Milli
<1>5. \A n \in DOMAIN pages : pages[n] \subseteq DOMAIN logs
    BY DEF PagingInv, ReadingType
<1> HIDE DEF row, new
<1>6. ReadingType'
    BY <1>1, <1>2, <1>3, <1>5 DEF PagingInv, ReadingType
<1>7. ShownAreBehind'
    BY <1>1, <1>4, <1>5 DEF PagingInv, ShownAreBehind, Milli
<1>8. PagesGoBack'
  <2> SUFFICES ASSUME NEW m \in DOMAIN pages, NEW n \in DOMAIN pages, m < n,
                      NEW k \in pages[m], NEW l \in pages[n]
               PROVE  Milli(logs[l].time)' < Milli(logs[k].time)'
    BY <1>1 DEF PagesGoBack, Milli
  <2>1. Milli(logs[l].time) < Milli(logs[k].time)
    BY DEF PagingInv, PagesGoBack
  <2> QED
    BY <2>1, <1>4, <1>5
<1>9. Edges' = Edges
  <2>1. ASSUME NEW n \in DOMAIN pages, HasNext(pages[n])
        PROVE  LastOf(pages[n])' = LastOf(pages[n])
    <3>1. PICK page : page = pages[n] /\ page \in SUBSET DOMAIN logs /\ HasNext(page)
      BY <2>1, <1>5
    <3>2. page # {}
      BY <3>1, FullPages
    <3>3. LastOf(page)' = LastOf(page)
      BY <3>1, <3>2, <1>3, LastStays DEF PagingInv
    <3>4. pages'[n] = page
      BY <1>1, <3>1
    <3>5. LastOf(pages[n])' = LastOf(page)'
      BY <3>4 DEF LastOf
    <3> QED
      BY <3>1, <3>3, <3>5
  <2> QED
    BY <2>1, <1>1 DEF Edges, HasNext
<1>10. OthersAreAhead'
  <2> SUFFICES ASSUME reader.at # "away", NEW k \in first \ Shown
               PROVE  \/ logs'[k].blank \/ skipped \/ Milli(logs[k].time)' \in Edges
                      \/ reader.at # "ended" /\ Milli(logs[k].time)' < reader.cursor
    BY <1>1, <1>9 DEF OthersAreAhead, Shown, Milli
  <2>1. k \in DOMAIN logs
    BY DEF PagingInv, ReadingType
  <2> QED
    BY <2>1, <1>3, <1>4 DEF PagingInv, OthersAreAhead
<1> QED
    BY <1>6, <1>7, <1>8, <1>10 DEF PagingInv

\* At the beginning every log is before the cursor.
LEMMA BeginKeepsPages ==
    ASSUME Fine \in Nat \ {0}, MaxTime \in Nat, PagingInv, L!Begin
    PROVE  PagingInv'
<1>1. /\ reader.at = "away" /\ pages = <<>> /\ first' = DOMAIN logs
      /\ reader' = [at |-> "reading", cursor |-> Milli(MaxTime) + 1]
      /\ UNCHANGED <<logs, pages, skipped>>
    BY DEF L!Begin, L!NoCursor, Milli, PagingInv, ReadingType
<1>2. Milli(MaxTime) \in Nat
    BY MilliOfInstant
<1>3. ASSUME NEW k \in DOMAIN logs PROVE Milli(logs[k].time) < Milli(MaxTime) + 1
  <2>1. logs[k] \in LogRow /\ logs[k].time <= MaxTime
    BY DEF PagingInv, ReadingType
  <2>2. logs[k].time \in Nat
    BY <2>1 DEF LogRow
  <2>3. Milli(logs[k].time) \in Nat /\ Milli(logs[k].time) <= Milli(MaxTime)
    BY <2>1, <2>2, MilliOfInstant, MillisKeepOrder
  <2> QED
    BY <2>3, <1>2
<1>4. ReadingType'
    BY <1>1, <1>2 DEF PagingInv, ReadingType
<1>5. ShownAreBehind' /\ PagesGoBack'
    BY <1>1 DEF ShownAreBehind, PagesGoBack
<1>6. OthersAreAhead'
  <2>1. \A k \in first' : Milli(logs[k].time)' < reader'.cursor
    BY <1>1, <1>3 DEF Milli
  <2> QED
    BY <1>1, <2>1 DEF OthersAreAhead, Milli
<1> QED
    BY <1>4, <1>5, <1>6 DEF PagingInv

\* A failing request, and repeating it, lead back to where the reading was.
LEMMA RetryKeepsPages ==
    ASSUME PagingInv, NEW at \in {"reading", "failed"}, reader.at \in {"reading", "failed"},
           reader' = [reader EXCEPT !.at = at], UNCHANGED <<logs, first, pages, skipped>>
    PROVE  PagingInv'
<1>1. reader'.at = at /\ reader'.cursor = reader.cursor
    BY DEF PagingInv, ReadingType
<1>2. ReadingType'
    BY <1>1 DEF PagingInv, ReadingType
<1>3. ShownAreBehind' /\ PagesGoBack'
    BY <1>1 DEF PagingInv, ShownAreBehind, PagesGoBack, Milli
<1>4. Edges' = Edges /\ Shown' = Shown
    BY DEF Edges, Shown, LastOf, HasNext, Milli
<1>5. OthersAreAhead'
    BY <1>1, <1>4 DEF PagingInv, OthersAreAhead, Milli
<1> QED
    BY <1>2, <1>3, <1>5 DEF PagingInv

\* A page is of logs before the cursor.  What it leaves of them is blank, or not
\* younger than its last log; and that only if it is full, or a blank row made it
\* look otherwise.
LEMMA PageIsComplete ==
    ASSUME Fine \in Nat \ {0}, Limit \in Nat \ {0}, ReadingType,
           NEW rows \in L!Answers(reader.cursor), NEW page, page = L!Parsed(rows)
    PROVE  /\ page \subseteq rows /\ rows \subseteq DOMAIN logs
           /\ \A k \in rows : Milli(logs[k].time) < reader.cursor
           /\ \A k \in rows \ page : logs[k].blank
           /\ \A k \in DOMAIN logs \ rows :
                 Milli(logs[k].time) < reader.cursor =>
                    /\ page = rows => HasNext(page)
                    /\ \A l \in rows : Milli(logs[k].time) <= Milli(logs[l].time)
<1>1. /\ rows \subseteq L!Matching(reader.cursor)
      /\ Cardinality(rows) <= Limit
      /\ Cardinality(rows) < Limit => rows = L!Matching(reader.cursor)
      /\ \A k \in rows, l \in L!Matching(reader.cursor) \ rows : logs[l].time <= logs[k].time
    BY SamePages DEF L!Answers
<1>2. ASSUME NEW k \in DOMAIN logs
      PROVE  /\ logs[k].time \in Nat
             /\ k \in L!Matching(reader.cursor) <=> Milli(logs[k].time) < reader.cursor
  <2>1. logs[k] \in LogRow /\ reader.cursor \in Nat
    BY DEF ReadingType
  <2>2. logs[k].time \in Nat
    BY <2>1 DEF LogRow
  <2>3. logs[k].time < reader.cursor * Fine <=> Milli(logs[k].time) < reader.cursor
    BY <2>1, <2>2, MillisKeepOrder
  <2> QED
    BY <2>2, <2>3 DEF L!Matching
<1>3. L!Matching(reader.cursor) \subseteq DOMAIN logs
    BY DEF L!Matching
<1>4. page \subseteq rows /\ \A k \in rows \ page : logs[k].blank
    BY DEF L!Parsed
<1>5. Cardinality(rows) \in Nat
  <2>1. DOMAIN logs = 1 .. Len(logs) /\ Len(logs) \in Nat
    BY DEF ReadingType
  <2>2. IsFiniteSet(DOMAIN logs)
    BY <2>1, FS_Interval
  <2> QED
    BY <2>2, <1>1, <1>3, FS_Subset, FS_CardinalityType
<1>6. ASSUME NEW k \in DOMAIN logs \ rows, Milli(logs[k].time) < reader.cursor
      PROVE  /\ page = rows => HasNext(page)
             /\ \A l \in rows : Milli(logs[k].time) <= Milli(logs[l].time)
  <2>1. k \in L!Matching(reader.cursor) \ rows
    BY <1>2, <1>6
  <2>2. Cardinality(rows) = Limit
    BY <2>1, <1>1, <1>5
  <2>3. ASSUME NEW l \in rows PROVE Milli(logs[k].time) <= Milli(logs[l].time)
    <3>1. logs[k].time <= logs[l].time /\ logs[k].time \in Nat /\ logs[l].time \in Nat
      BY <2>1, <1>1, <1>2, <1>3
    <3> QED
      BY <3>1, MillisKeepOrder
  <2> QED
    BY <2>2, <2>3 DEF HasNext
<1> QED
    BY <1>1, <1>2, <1>3, <1>4, <1>6

\* The next page is before this one, and what this one leaves is before the next
\* cursor or shares its millisecond.
LEMMA ReadKeepsPages ==
    ASSUME Fine \in Nat \ {0}, Limit \in Nat \ {0}, PagingInv, L!Read
    PROVE  PagingInv'
<1>1. PICK rows \in L!Answers(reader.cursor) :
          /\ reader.at = "reading"
          /\ pages' = Append(pages, L!Parsed(rows))
          /\ skipped' = (skipped \/ L!Parsed(rows) # rows)
          /\ reader' = IF L!HasNext(L!Parsed(rows))
                       THEN [reader EXCEPT !.cursor = L!NextCursor(L!Parsed(rows))]
                       ELSE [reader EXCEPT !.at = "ended"]
          /\ UNCHANGED <<logs, first>>
    BY DEF L!Read
<1>2. PICK page : page = L!Parsed(rows)
    OBVIOUS
<1> DEFINE new == Len(pages) + 1
<1>3. /\ page \subseteq rows /\ rows \subseteq DOMAIN logs
      /\ \A k \in rows : Milli(logs[k].time) < reader.cursor
      /\ \A k \in rows \ page : logs[k].blank
      /\ \A k \in DOMAIN logs \ rows :
            Milli(logs[k].time) < reader.cursor =>
               /\ page = rows => HasNext(page)
               /\ \A l \in rows : Milli(logs[k].time) <= Milli(logs[l].time)
    BY <1>2, PageIsComplete DEF PagingInv
<1>4. HasNext(page) =>
          /\ LastOf(page) \in Nat
          /\ \E k \in page : LastOf(page) = Milli(logs[k].time)
          /\ \A k \in page : LastOf(page) <= Milli(logs[k].time)
    BY <1>3, FullPages, LastIsFirst DEF PagingInv
<1>5. /\ HasNext(page) => reader' = [reader EXCEPT !.cursor = LastOf(page)]
      /\ ~HasNext(page) => reader' = [reader EXCEPT !.at = "ended"]
      /\ skipped' = (skipped \/ page # rows)
      /\ pages' = Append(pages, page) /\ reader.at = "reading"
      /\ logs' = logs /\ first' = first
    BY <1>1, <1>2, SamePages DEF L!NextCursor
<1>6. /\ reader.cursor \in Nat
      /\ HasNext(page) => reader'.at = "reading" /\ reader'.cursor = LastOf(page)
      /\ ~HasNext(page) => reader'.at = "ended" /\ reader'.cursor = reader.cursor
    BY <1>5 DEF PagingInv, ReadingType
<1>7. PICK S : pages \in Seq(S)
    BY DEF PagingInv, ReadingType
<1>8. /\ pages' \in Seq(S \cup {page}) /\ DOMAIN pages' = DOMAIN pages \cup {new}
      /\ pages'[new] = page /\ \A n \in DOMAIN pages : pages'[n] = pages[n] /\ n < new
  <2>1. pages \in Seq(S \cup {page}) /\ page \in S \cup {page}
    BY <1>7
  <2> QED
    BY <2>1, <1>5
<1>9. \A k \in DOMAIN logs : Milli(logs[k].time) \in Nat
  <2> SUFFICES ASSUME NEW k \in DOMAIN logs PROVE Milli(logs[k].time) \in Nat
    OBVIOUS
  <2>1. logs[k] \in LogRow
    BY DEF PagingInv, ReadingType
  <2>2. logs[k].time \in Nat
    BY <2>1 DEF LogRow
  <2> QED
    BY <2>2, MilliOfInstant
<1>10. \A n \in DOMAIN pages : pages[n] \subseteq DOMAIN logs
    BY DEF PagingInv, ReadingType
<1> HIDE DEF new
<1>11. ReadingType'
  <2>1. reader' \in [at : {"away", "reading", "failed", "ended"}, cursor : Nat]
    BY <1>4, <1>5 DEF PagingInv, ReadingType
  <2>2. reader'.at # "away"
    BY <1>6
  <2> QED
    BY <2>1, <2>2, <1>3, <1>5, <1>8, <1>10 DEF PagingInv, ReadingType
<1>12. \A n \in DOMAIN pages : \A k \in pages[n] : Milli(logs[k].time) >= reader.cursor
    BY <1>5 DEF PagingInv, ShownAreBehind
<1>13. ShownAreBehind'
  <2> SUFFICES ASSUME HasNext(page), NEW n \in DOMAIN pages', NEW k \in pages'[n]
               PROVE  Milli(logs[k].time) >= LastOf(page)
    BY <1>5, <1>6 DEF ShownAreBehind, Milli
  <2>1. CASE n = new
    BY <2>1, <1>4, <1>8, <1>9, <1>3
  <2>2. CASE n \in DOMAIN pages
    <3>1. k \in pages[n] /\ Milli(logs[k].time) >= reader.cursor /\ k \in DOMAIN logs
      BY <2>2, <1>8, <1>10, <1>12
    <3>2. LastOf(page) < reader.cursor /\ LastOf(page) \in Nat
      BY <1>3, <1>4
    <3> QED
      BY <3>1, <3>2, <1>6, <1>9
  <2> QED
    BY <2>1, <2>2, <1>8
<1>14. PagesGoBack'
  <2> SUFFICES ASSUME NEW m \in DOMAIN pages', NEW n \in DOMAIN pages', m < n,
                      NEW k \in pages'[m], NEW l \in pages'[n]
               PROVE  Milli(logs[l].time) < Milli(logs[k].time)
    BY <1>5 DEF PagesGoBack, Milli
  <2>0. m \in DOMAIN pages
    BY <1>7, <1>8 DEF new
  <2>1. k \in pages[m] /\ Milli(logs[k].time) >= reader.cursor /\ k \in DOMAIN logs
    BY <2>0, <1>8, <1>10, <1>12
  <2>2. CASE n = new
    <3>1. l \in page /\ Milli(logs[l].time) < reader.cursor /\ l \in DOMAIN logs
      BY <2>2, <1>3, <1>8
    <3> QED
      BY <2>1, <3>1, <1>6, <1>9
  <2>3. CASE n \in DOMAIN pages
    <3>1. l \in pages[n]
      BY <2>3, <1>8
    <3> QED
      BY <2>0, <2>1, <2>3, <3>1 DEF PagingInv, PagesGoBack
  <2> QED
    BY <2>2, <2>3, <1>8
<1>15. \A p : LastOf(p)' = LastOf(p)
    BY <1>5 DEF LastOf, Milli
<1>16. Edges' = {LastOf(pages'[n]) : n \in {m \in DOMAIN pages' : HasNext(pages'[m])}}
    BY <1>5 DEF Edges, HasNext, LastOf, Milli
<1>17. Edges \subseteq Edges' /\ (HasNext(page) => LastOf(page) \in Edges')
    BY <1>8, <1>16 DEF Edges
<1>18. Shown' = Shown \cup page
  <2>1. Shown' = UNION {pages'[n] : n \in DOMAIN pages'}
    BY DEF Shown
  <2> QED
    BY <2>1, <1>8 DEF Shown
<1>19. OthersAreAhead'
  <2> SUFFICES ASSUME NEW k \in first, k \notin Shown, k \notin page
               PROVE  \/ logs[k].blank \/ skipped' \/ Milli(logs[k].time) \in Edges'
                      \/ reader'.at # "ended" /\ Milli(logs[k].time) < reader'.cursor
    BY <1>5, <1>18 DEF OthersAreAhead, Milli
  <2>1. k \in DOMAIN logs
    BY DEF PagingInv, ReadingType
  <2>2. \/ logs[k].blank \/ skipped \/ Milli(logs[k].time) \in Edges
        \/ Milli(logs[k].time) < reader.cursor
    BY <1>5 DEF PagingInv, OthersAreAhead
  <2>3. CASE Milli(logs[k].time) < reader.cursor
    <3>1. CASE k \in rows
      BY <3>1, <1>3
    <3>2. CASE page # rows
      BY <3>2, <1>5
    <3>3. CASE k \notin rows /\ page = rows
      <4>1. HasNext(page) /\ \A l \in page : Milli(logs[k].time) <= Milli(logs[l].time)
        BY <2>1, <2>3, <3>3, <1>3
      <4>2. Milli(logs[k].time) <= LastOf(page) /\ LastOf(page) \in Nat
        BY <4>1, <1>4
      <4>3. Milli(logs[k].time) = LastOf(page) \/ Milli(logs[k].time) < LastOf(page)
        BY <4>2, <2>1, <1>9
      <4> QED
        BY <4>1, <4>3, <1>6, <1>17
    <3> QED
      BY <3>1, <3>2, <3>3
  <2> QED
    BY <2>2, <2>3, <1>5, <1>17
<1> QED
    BY <1>11, <1>13, <1>14, <1>19 DEF PagingInv

\* At the beginning nothing was shown,
LEMMA PagingInvHolds ==
    ASSUME Fine \in Nat \ {0}, MaxTime \in Nat, L!Init
    PROVE  PagingInv
<1>1. /\ logs = <<>> /\ first = {} /\ pages = <<>>
      /\ reader = [at |-> "away", cursor |-> Milli(MaxTime) + 1]
    BY DEF L!Init, L!NoCursor, Milli
<1>2. Milli(MaxTime) \in Nat /\ DOMAIN logs = {} /\ DOMAIN pages = {}
    BY <1>1, MilliOfInstant
<1>3. ReadingType
    BY <1>1, <1>2, EmptySeq DEF ReadingType
<1> QED
    BY <1>1, <1>2, <1>3 DEF PagingInv, ShownAreBehind, OthersAreAhead, PagesGoBack

\* and every step keeps what is known of the pages.
LEMMA PagingInvInductive ==
    ASSUME Fine \in Nat \ {0}, Limit \in Nat \ {0}, MaxTime \in Nat,
           PagingInv, [L!Next]_L!vars
    PROVE  PagingInv'
<1>1. ASSUME NEW t \in 0 .. MaxTime, NEW blank \in BOOLEAN, L!Arrive(t, blank)
      PROVE  PagingInv'
    BY <1>1, ArriveKeepsPages
<1>2. CASE L!Begin
    BY <1>2, BeginKeepsPages
<1>3. CASE L!Read
    BY <1>3, ReadKeepsPages
<1>4. CASE L!ReadFails
    BY <1>4, RetryKeepsPages DEF L!ReadFails
<1>5. CASE L!Repeat
    BY <1>5, RetryKeepsPages DEF L!Repeat
<1>6. CASE UNCHANGED L!vars
  <2>1. UNCHANGED <<logs, reader, first, pages, skipped>>
    BY <1>6 DEF L!vars
  <2>2. Edges' = Edges /\ Shown' = Shown
    BY <2>1 DEF Edges, Shown, LastOf, HasNext, Milli
  <2> QED
    BY <2>1, <2>2 DEF PagingInv, ReadingType, ShownAreBehind, OthersAreAhead, PagesGoBack, Milli
<1> QED
    BY <1>1, <1>2, <1>3, <1>4, <1>5, <1>6 DEF L!Next

\* For any size of a page and any division of a millisecond: no log is shown on two
\* pages, and a log that was there from the beginning is missed only at the
\* millisecond a page ended with, or because a blank row made a page look short.
THEOREM PagesLoseLittle ==
    ASSUME Fine \in Nat \ {0}, Limit \in Nat \ {0}, MaxTime \in Nat
    PROVE  L!Spec => []PagesLoseEdgesOnly
<1>1. L!Init => PagingInv
    BY PagingInvHolds
<1>2. PagingInv /\ [L!Next]_L!vars => PagingInv'
    BY PagingInvInductive
<1>3. PagingInv => PagesLoseEdgesOnly
    BY StreamsDoAgree DEF PagingInv, OthersAreAhead, PagesLoseEdgesOnly, MissedAtAnEdge
<1> QED
    BY <1>1, <1>2, <1>3, PTL DEF L!Spec

\* A cursor is a millisecond that a page ended with: none is past the one the
\* client starts with.
CursorsGoBack == reader.cursor <= Milli(MaxTime) + 1

\* The state of a reading has its type: what it was given are logs there are, and a
\* cursor never passes the bound.
THEOREM PagesTyped ==
    ASSUME Fine \in Nat \ {0}, Limit \in Nat \ {0}, MaxTime \in Nat
    PROVE  L!Spec => []L!TypeOK
<1>1. L!Init => PagingInv /\ CursorsGoBack
  <2> SUFFICES ASSUME L!Init PROVE PagingInv /\ CursorsGoBack
    OBVIOUS
  <2>1. reader.cursor = Milli(MaxTime) + 1 /\ Milli(MaxTime) \in Nat
    BY MilliOfInstant DEF L!Init, L!NoCursor, Milli
  <2> QED
    BY <2>1, PagingInvHolds DEF CursorsGoBack
<1>2. PagingInv /\ CursorsGoBack /\ [L!Next]_L!vars => PagingInv' /\ CursorsGoBack'
  <2> SUFFICES ASSUME PagingInv, CursorsGoBack, [L!Next]_L!vars PROVE CursorsGoBack'
    BY PagingInvInductive
  <2> DEFINE start == Milli(MaxTime) + 1
  <2>1. reader.cursor \in Nat /\ reader.cursor <= start /\ start \in Nat
    <3>1. reader.cursor \in Nat
      BY DEF PagingInv, ReadingType
    <3>2. Milli(MaxTime) \in Nat
      BY MilliOfInstant
    <3> QED
      BY <3>1, <3>2 DEF CursorsGoBack
  <2>2. L!NoCursor = start
    BY DEF L!NoCursor, Milli
  <2>3. reader \in [at : {"away", "reading", "failed", "ended"}, cursor : Nat]
    BY DEF PagingInv, ReadingType
  <2> HIDE DEF start
  <2>4. reader'.cursor <= start
    <3>1. CASE L!Begin
      BY <3>1, <2>1, <2>2 DEF L!Begin
    <3>2. CASE L!Read
      <4>1. PICK rows \in L!Answers(reader.cursor) :
                reader' = IF L!HasNext(L!Parsed(rows))
                          THEN [reader EXCEPT !.cursor = L!NextCursor(L!Parsed(rows))]
                          ELSE [reader EXCEPT !.at = "ended"]
        BY <3>2 DEF L!Read
      <4>2. CASE ~L!HasNext(L!Parsed(rows))
        BY <4>1, <4>2, <2>1, <2>3
      <4>3. CASE L!HasNext(L!Parsed(rows))
        <5>1. PICK page : page = L!Parsed(rows)
          OBVIOUS
        <5>2. HasNext(page) /\ reader'.cursor = LastOf(page)
          BY <4>1, <4>3, <5>1, <2>3, SamePages DEF L!NextCursor
        <5>3. /\ page \subseteq rows /\ rows \subseteq DOMAIN logs
              /\ \A k \in rows : Milli(logs[k].time) < reader.cursor
          BY <5>1, PageIsComplete DEF PagingInv
        <5>4. PICK k \in page : LastOf(page) \in Nat /\ LastOf(page) = Milli(logs[k].time)
          BY <5>2, <5>3, FullPages, LastIsFirst DEF PagingInv
        <5>5. LastOf(page) < reader.cursor /\ LastOf(page) \in Nat
          BY <5>3, <5>4
        <5> QED
          BY <5>2, <5>5, <2>1
      <4> QED
        BY <4>2, <4>3
    <3>3. CASE reader'.cursor = reader.cursor
      BY <3>3, <2>1
    <3>4. ASSUME NEW t, NEW blank, L!Arrive(t, blank) PROVE reader'.cursor = reader.cursor
      BY <3>4 DEF L!Arrive
    <3>5. L!ReadFails \/ L!Repeat \/ UNCHANGED L!vars => reader'.cursor = reader.cursor
      BY <2>3 DEF L!ReadFails, L!Repeat, L!vars
    <3> QED
      BY <3>1, <3>2, <3>3, <3>4, <3>5 DEF L!Next
  <2> QED
    BY <2>4 DEF CursorsGoBack, start, Milli
<1>3. PagingInv /\ CursorsGoBack => L!TypeOK
  <2> SUFFICES ASSUME ReadingType, CursorsGoBack PROVE L!TypeOK
    BY DEF PagingInv
  <2>1. logs \in Seq([time : 0 .. MaxTime, blank : BOOLEAN])
    <3>1. logs \in Seq(LogRow) /\ \A k \in DOMAIN logs : logs[k].time <= MaxTime
      BY DEF ReadingType
    <3>2. \A k \in 1 .. Len(logs) : logs[k] \in [time : 0 .. MaxTime, blank : BOOLEAN]
      <4> SUFFICES ASSUME NEW k \in 1 .. Len(logs)
                   PROVE  logs[k] \in [time : 0 .. MaxTime, blank : BOOLEAN]
        OBVIOUS
      <4>1. k \in DOMAIN logs /\ logs[k] \in LogRow
        BY <3>1
      <4>2. logs[k].time \in Nat /\ logs[k].time <= MaxTime /\ logs[k].blank \in BOOLEAN
        BY <3>1, <4>1 DEF LogRow
      <4>3. logs[k] = [time |-> logs[k].time, blank |-> logs[k].blank]
        BY <4>1 DEF LogRow
      <4>4. logs[k].time \in 0 .. MaxTime
        BY <4>2
      <4> QED
        BY <4>2, <4>3, <4>4
    <3> DEFINE Row == [time : 0 .. MaxTime, blank : BOOLEAN]
    <3>3. logs = [k \in 1 .. Len(logs) |-> logs[k]] /\ Len(logs) \in Nat
      BY <3>1
    <3>4. \A k \in 1 .. Len(logs) : logs[k] \in Row
      BY <3>2
    <3> HIDE DEF Row
    <3>5. logs \in [1 .. Len(logs) -> Row]
      BY <3>3, <3>4
    <3>6. logs \in Seq(Row)
      BY <3>3, <3>5, SeqDef, Zenon
    <3> QED
      BY <3>6 DEF Row
  <2>2. reader \in [at : {"away", "reading", "failed", "ended"}, cursor : 0 .. L!NoCursor]
    <3>1. reader \in [at : {"away", "reading", "failed", "ended"}, cursor : Nat]
      BY DEF ReadingType
    <3>2. reader.cursor \in 0 .. L!NoCursor
      <4>1. L!NoCursor = Milli(MaxTime) + 1 /\ Milli(MaxTime) \in Nat
        BY MilliOfInstant DEF L!NoCursor, Milli
      <4> QED
        BY <3>1, <4>1 DEF CursorsGoBack
    <3> QED
      BY <3>1, <3>2
  <2> QED
    BY <2>1, <2>2 DEF L!TypeOK, ReadingType
<1> QED
    BY <1>1, <1>2, <1>3, PTL DEF L!Spec

-----------------------------------------------------------------------------
(* The history of jobs.                                                     *)

CONSTANTS
    Job,            \* jobs
    LongAfter,      \* how long a job may be at work
    Hour, Day,      \* the windows in which jobs are counted
    FailedPerHour, FailedPerDay, ActiveAllowed, SlowAfter,      \* what is no alert
    MaxNow, MaxDeliveries       \* bounds

VARIABLES
    now,        \* the clock
    row,        \* the row of each job
    delivery    \* the deliveries of each job, in order

M == INSTANCE JobMonitor
INSTANCE WorkerHealth

Time == Nat \cup {NoTime}
HistoryRow == [status : {"none", "QUEUED", "ACTIVE", "COMPLETED", "FAILED"},
               queuedAt : Time, startedAt : Time, finishedAt : Time, attempts : Nat]
DeliveryRow == [at : Places \cup {"ended", "dead"}, saw : HistoryRow,
                began : Time, alone : BOOLEAN]

HistoryType ==
    /\ now \in Nat
    /\ row \in [Job -> HistoryRow]
    /\ delivery \in [Job -> Seq(DeliveryRow)]

\* A job started in the past, and before it completed.
TimesAreOrdered(j) ==
    /\ row[j].startedAt <= now
    /\ row[j].status = "COMPLETED" => row[j].startedAt <= row[j].finishedAt

\* A row that says ACTIVE has a delivery that did not end.
ActiveIsUnended(j) ==
    row[j].status = "ACTIVE" => \E d \in DOMAIN delivery[j] : delivery[j][d].at # "ended"

\* What the row says of a delivery that is alone with it.
RowTellsOf(j, d) ==
    LET at == delivery[j][d].at
    IN  /\ delivery[j][d].began # NoTime =>
              row[j].startedAt # NoTime /\ row[j].startedAt <= delivery[j][d].began
        /\ at \in {"record", "activate"} => delivery[j][d].saw = row[j]
        /\ at \in {"read", "activate"} => row[j].status = "QUEUED"
        /\ at \in {"work", "complete"} => row[j].status = "ACTIVE"
        /\ at = "work" => delivery[j][d].began # NoTime
        /\ at \in {"read", "activate", "work", "complete", "rescue", "ended"}
              => row[j].queuedAt # NoTime
        /\ at = "ended" => row[j].status \in {"COMPLETED", "FAILED"}

\* Deliveries that are alone come one after the other's death.
OneAtATime(j) ==
    Alone(j) => \A d \in DOMAIN delivery[j] :
        /\ d # Len(delivery[j]) => delivery[j][d].at = "dead"
        /\ RowTellsOf(j, d)

JobInv(j) == TimesAreOrdered(j) /\ ActiveIsUnended(j) /\ OneAtATime(j)
HistoryInv == HistoryType /\ \A j \in Job : JobInv(j)

\* A delivery of j is at another place, and knows something else.
Moved(j, d, at, saw, began) ==
    /\ delivery' \in [Job -> Seq(DeliveryRow)]
    /\ \A k \in Job \ {j} : delivery'[k] = delivery[k]
    /\ Len(delivery'[j]) = Len(delivery[j]) /\ DOMAIN delivery'[j] = DOMAIN delivery[j]
    /\ \A e \in DOMAIN delivery[j] :
          /\ delivery'[j][e].alone = delivery[j][e].alone
          /\ e # d => delivery'[j][e] = delivery[j][e]
    /\ delivery'[j][d].at = at
    /\ delivery'[j][d].saw = saw
    /\ delivery'[j][d].began = began

\* That is what replacing its record does.
LEMMA MoveOne ==
    ASSUME HistoryType, NEW j \in Job, NEW d \in DOMAIN delivery[j],
           NEW at \in Places \cup {"ended", "dead"}, NEW saw \in HistoryRow, NEW began \in Time,
           NEW one, one = [at |-> at, saw |-> saw, began |-> began,
                           alone |-> delivery[j][d].alone],
           delivery' = [delivery EXCEPT ![j] = [delivery[j] EXCEPT ![d] = one]]
    PROVE  Moved(j, d, at, saw, began)
<1>1. delivery[j] \in Seq(DeliveryRow) /\ delivery[j][d] \in DeliveryRow
    BY DEF HistoryType
<1>2. one \in DeliveryRow
    BY <1>1 DEF DeliveryRow
<1>3. PICK D : D = [delivery[j] EXCEPT ![d] = one]
    OBVIOUS
<1>4. /\ D \in Seq(DeliveryRow) /\ Len(D) = Len(delivery[j]) /\ DOMAIN D = DOMAIN delivery[j]
      /\ D[d] = one /\ \A e \in DOMAIN delivery[j] : e # d => D[e] = delivery[j][e]
    BY <1>1, <1>2, <1>3
<1>5. delivery' = [delivery EXCEPT ![j] = D]
    BY <1>3
<1>6. /\ delivery' \in [Job -> Seq(DeliveryRow)] /\ delivery'[j] = D
      /\ \A k \in Job \ {j} : delivery'[k] = delivery[k]
    BY <1>4, <1>5 DEF HistoryType
<1>7. D[d].alone = delivery[j][d].alone /\ D[d].at = at /\ D[d].saw = saw /\ D[d].began = began
    BY <1>4
<1> QED
    BY <1>4, <1>6, <1>7 DEF Moved

\* An empty row is a row.
LEMMA NoRowIsARow == M!NoRow \in HistoryRow /\ M!NoRow.startedAt = NoTime
BY DEF M!NoRow, M!NoTime, HistoryRow, Time, NoTime

\* Going to a place is moving there, with nothing read.
LEMMA GotoMoves ==
    ASSUME HistoryType, NEW j \in Job, NEW d \in DOMAIN delivery[j],
           NEW at \in Places \cup {"ended", "dead"}, M!Goto(j, d, at)
    PROVE  Moved(j, d, at, M!NoRow, delivery[j][d].began)
<1>1. delivery[j] \in Seq(DeliveryRow) /\ delivery[j][d] \in DeliveryRow
    BY DEF HistoryType
<1>2. PICK one : /\ one = [delivery[j][d] EXCEPT !.at = at, !.saw = M!NoRow]
                 /\ delivery' = [delivery EXCEPT ![j] = [delivery[j] EXCEPT ![d] = one]]
    BY DEF M!Goto
<1>3. /\ one = [at |-> at, saw |-> M!NoRow, began |-> delivery[j][d].began,
                alone |-> delivery[j][d].alone]
      /\ delivery[j][d].began \in Time
    BY <1>1, <1>2 DEF DeliveryRow
<1> QED
    BY <1>2, <1>3, NoRowIsARow, MoveOne

\* A job is as it was when nothing of it changes.
LEMMA OtherJobsStay ==
    ASSUME NEW k \in Job, JobInv(k), HistoryType, now' = now \/ now' = now + 1,
           row'[k] = row[k], delivery'[k] = delivery[k]
    PROVE  JobInv(k)'
<1>1. row[k].startedAt \in Int /\ now \in Int
    BY DEF HistoryType, HistoryRow, Time, NoTime
<1>2. TimesAreOrdered(k)'
    BY <1>1 DEF JobInv, TimesAreOrdered
<1>3. ActiveIsUnended(k)' /\ OneAtATime(k)'
    BY DEF JobInv, ActiveIsUnended, OneAtATime, RowTellsOf, Alone
<1> QED
    BY <1>2, <1>3 DEF JobInv

\* A job of which one delivery makes a step: what is left to show of the job.
LEMMA OneJobMoves ==
    ASSUME HistoryInv, NEW j \in Job, JobInv(j)', HistoryType',
           now' = now, \A k \in Job \ {j} : row'[k] = row[k] /\ delivery'[k] = delivery[k]
    PROVE  HistoryInv'
<1>1. ASSUME NEW k \in Job \ {j} PROVE JobInv(k)'
    BY OtherJobsStay DEF HistoryInv
<1> QED
    BY <1>1 DEF HistoryInv

\* Of deliveries that are alone the one that makes a step is the last one.
LEMMA LivingIsLast ==
    ASSUME HistoryInv, NEW j \in Job, NEW d \in DOMAIN delivery[j], Alone(j),
           delivery[j][d].at # "dead"
    PROVE  /\ d = Len(delivery[j]) /\ RowTellsOf(j, d)
           /\ \A e \in DOMAIN delivery[j] \ {d} :
                 delivery[j][e].at = "dead" /\ RowTellsOf(j, e)
BY DEF HistoryInv, JobInv, OneAtATime

\* The row of j is written, and nothing else of the history.
Written(j, r) ==
    /\ row' \in [Job -> HistoryRow] /\ row'[j] = r
    /\ \A k \in Job \ {j} : row'[k] = row[k]

\* Reading the row of a job changes nothing but what a delivery knows.
LEMMA ReadRowKeepsHistory ==
    ASSUME HistoryInv, NEW j \in Job, NEW d \in DOMAIN delivery[j],
           \/ M!ReadRow(j, d, "look", "record") \/ M!ReadRow(j, d, "read", "activate")
    PROVE  HistoryInv'
<1>1. PICK to \in {"record", "activate"} :
        /\ M!ReadRow(j, d, IF to = "record" THEN "look" ELSE "read", to)
    OBVIOUS
<1>2. PICK one : /\ one = [delivery[j][d] EXCEPT !.at = to, !.saw = row[j]]
                 /\ delivery' = [delivery EXCEPT ![j] = [delivery[j] EXCEPT ![d] = one]]
    BY <1>1 DEF M!ReadRow
<1>3. delivery[j] \in Seq(DeliveryRow) /\ delivery[j][d] \in DeliveryRow /\ row[j] \in HistoryRow
    BY DEF HistoryInv, HistoryType
<1>4. /\ one = [at |-> to, saw |-> row[j], began |-> delivery[j][d].began,
                alone |-> delivery[j][d].alone]
      /\ delivery[j][d].began \in Time /\ to \in Places
    BY <1>2, <1>3 DEF DeliveryRow, Places
<1>5. Moved(j, d, to, row[j], delivery[j][d].began)
    BY <1>2, <1>3, <1>4, MoveOne DEF HistoryInv
<1>6. /\ delivery[j][d].at = (IF to = "record" THEN "look" ELSE "read")
      /\ now' = now /\ row' = row
    BY <1>1 DEF M!ReadRow
<1>7. HistoryType'
    BY <1>5, <1>6 DEF HistoryInv, HistoryType, Moved
<1>8. TimesAreOrdered(j)'
    BY <1>6 DEF HistoryInv, JobInv, TimesAreOrdered
<1>9. ActiveIsUnended(j)'
    BY <1>5, <1>6 DEF ActiveIsUnended, Moved
<1>10. OneAtATime(j)'
  <2> SUFFICES ASSUME Alone(j)', NEW e \in DOMAIN delivery[j]
               PROVE  /\ e # Len(delivery[j]) => delivery'[j][e].at = "dead"
                      /\ RowTellsOf(j, e)'
    BY <1>5 DEF OneAtATime, Moved
  <2>1. Alone(j)
    BY <1>5 DEF Alone, Moved
  <2>2. /\ d = Len(delivery[j]) /\ RowTellsOf(j, d)
        /\ \A f \in DOMAIN delivery[j] \ {d} : delivery[j][f].at = "dead" /\ RowTellsOf(j, f)
    BY <1>6, <2>1, LivingIsLast
  <2>3. CASE e # d
    BY <1>5, <1>6, <2>2, <2>3 DEF Moved, RowTellsOf
  <2>4. CASE e = d
    BY <1>5, <1>6, <2>2, <2>4 DEF Moved, RowTellsOf
  <2> QED
    BY <2>3, <2>4
<1>11. JobInv(j)'
    BY <1>8, <1>9, <1>10 DEF JobInv
<1> QED
    BY <1>5, <1>6, <1>7, <1>11, OneJobMoves DEF Moved

\* Putting a job into the queue is written to a row as it was read; a delivery
\* that is alone with its job never finds another row.
LEMMA RecordKeepsHistory ==
    ASSUME HistoryInv, NEW j \in Job, NEW d \in DOMAIN delivery[j], M!Record(j, d)
    PROVE  HistoryInv'
<1>1. /\ delivery[j] \in Seq(DeliveryRow) /\ delivery[j][d] \in DeliveryRow
      /\ row[j] \in HistoryRow /\ now \in Nat /\ HistoryType
    BY DEF HistoryInv, HistoryType
<1>2. delivery[j][d].saw \in HistoryRow /\ delivery[j][d].began \in Time
    BY <1>1 DEF DeliveryRow
<1> DEFINE saw == delivery[j][d].saw
           fails == saw = M!NoRow /\ row[j] # M!NoRow
<1>3. delivery[j][d].at = "record" /\ now' = now
    BY DEF M!Record
<1>4. CASE fails
  <2>1. row' = row /\ M!Goto(j, d, "rescue")
    BY <1>4 DEF M!Record
  <2>2. Moved(j, d, "rescue", M!NoRow, delivery[j][d].began)
    BY <1>1, <2>1, GotoMoves DEF Places
  <2>3. HistoryType'
    BY <1>1, <1>3, <2>1, <2>2 DEF HistoryType, Moved
  <2>4. TimesAreOrdered(j)' /\ ActiveIsUnended(j)'
    BY <1>3, <2>1, <2>2 DEF HistoryInv, JobInv, TimesAreOrdered, ActiveIsUnended, Moved
  <2>5. ~Alone(j)
    <3>1. ASSUME Alone(j) PROVE saw = row[j]
      BY <1>3, <3>1, LivingIsLast DEF RowTellsOf
    <3> QED
      BY <1>4, <3>1
  <2>6. OneAtATime(j)'
    BY <2>2, <2>5 DEF OneAtATime, Alone, Moved
  <2>7. JobInv(j)'
    BY <2>4, <2>6 DEF JobInv
  <2> QED
    BY <1>3, <2>1, <2>2, <2>3, <2>7, OneJobMoves DEF Moved
<1>5. CASE ~fails
  <2>1. PICK r : /\ r = [row[j] EXCEPT !.status = IF saw.status = "QUEUED" THEN row[j].status ELSE "QUEUED",
                                       !.queuedAt = now,
                                       !.attempts = IF saw = M!NoRow THEN 0 ELSE saw.attempts + 1]
                 /\ row' = [row EXCEPT ![j] = r]
    BY <1>5 DEF M!Record
  <2>2. PICK n : n = IF saw = M!NoRow THEN 0 ELSE saw.attempts + 1
    OBVIOUS
  <2>3. n \in Nat
    BY <1>2, <2>2 DEF HistoryRow
  <2>4. r = [status |-> IF saw.status = "QUEUED" THEN row[j].status ELSE "QUEUED",
             queuedAt |-> now, startedAt |-> row[j].startedAt,
             finishedAt |-> row[j].finishedAt, attempts |-> n]
    BY <1>1, <2>1, <2>2 DEF HistoryRow
  <2>5. r \in HistoryRow
    BY <1>1, <2>3, <2>4 DEF HistoryRow, Time
  <2>6. Written(j, r)
    BY <1>1, <2>1, <2>5 DEF Written, HistoryType
  <2>7. M!Goto(j, d, "read")
    BY <1>5 DEF M!Record
  <2>8. Moved(j, d, "read", M!NoRow, delivery[j][d].began)
    BY <1>1, <2>7, GotoMoves DEF Places
  <2>9. HistoryType'
    BY <1>1, <1>3, <2>6, <2>8 DEF HistoryType, Moved, Written
  <2>10. /\ row'[j].startedAt = row[j].startedAt /\ row'[j].finishedAt = row[j].finishedAt
         /\ row'[j].queuedAt = now
         /\ row'[j].status = IF saw.status = "QUEUED" THEN row[j].status ELSE "QUEUED"
    BY <2>4, <2>6 DEF Written
  <2>11. TimesAreOrdered(j)'
    BY <1>3, <2>10 DEF HistoryInv, JobInv, TimesAreOrdered
  <2>12. ActiveIsUnended(j)'
    BY <2>8 DEF ActiveIsUnended, Moved
  <2>13. OneAtATime(j)'
    <3> SUFFICES ASSUME Alone(j)', NEW e \in DOMAIN delivery[j]
                 PROVE  /\ e # Len(delivery[j]) => delivery'[j][e].at = "dead"
                        /\ RowTellsOf(j, e)'
      BY <2>8 DEF OneAtATime, Moved
    <3>1. Alone(j)
      BY <2>8 DEF Alone, Moved
    <3>2. /\ d = Len(delivery[j]) /\ RowTellsOf(j, d)
          /\ \A f \in DOMAIN delivery[j] \ {d} : delivery[j][f].at = "dead" /\ RowTellsOf(j, f)
      BY <1>3, <3>1, LivingIsLast
    <3>3. saw = row[j]
      BY <1>3, <3>2 DEF RowTellsOf
    <3>4. row'[j].status = "QUEUED" /\ row'[j].queuedAt # NoTime
      BY <1>1, <2>10, <3>3 DEF NoTime
    <3>5. CASE e # d
      BY <2>8, <2>10, <3>2, <3>5 DEF Moved, RowTellsOf
    <3>6. CASE e = d
      BY <2>8, <2>10, <3>2, <3>4, <3>6 DEF Moved, RowTellsOf
    <3> QED
      BY <3>5, <3>6
  <2>14. JobInv(j)'
    BY <2>11, <2>12, <2>13 DEF JobInv
  <2> QED
    BY <1>3, <2>6, <2>8, <2>9, <2>14, OneJobMoves DEF Moved, Written
<1> QED
    BY <1>4, <1>5

\* The start of a job is that of its first delivery, if each is alone with it.
LEMMA ActivateKeepsHistory ==
    ASSUME HistoryInv, NEW j \in Job, NEW d \in DOMAIN delivery[j], M!Activate(j, d)
    PROVE  HistoryInv'
<1>1. /\ delivery[j] \in Seq(DeliveryRow) /\ delivery[j][d] \in DeliveryRow
      /\ row[j] \in HistoryRow /\ now \in Nat /\ HistoryType
    BY DEF HistoryInv, HistoryType
<1>2. delivery[j][d].saw \in HistoryRow /\ delivery[j][d].began \in Time
    BY <1>1 DEF DeliveryRow
<1>3. delivery[j][d].at = "activate" /\ now' = now
    BY DEF M!Activate
<1>4. PICK start : start = IF delivery[j][d].saw.startedAt = NoTime THEN now ELSE row[j].startedAt
    OBVIOUS
<1>5. start \in Time /\ start <= now
    BY <1>1, <1>4 DEF HistoryInv, JobInv, TimesAreOrdered, HistoryRow, Time
<1>6. PICK r : /\ r = [row[j] EXCEPT !.status = "ACTIVE", !.startedAt = start]
               /\ row' = [row EXCEPT ![j] = r]
    BY <1>4 DEF M!Activate, M!NoTime, NoTime
<1>7. /\ r = [status |-> "ACTIVE", queuedAt |-> row[j].queuedAt, startedAt |-> start,
              finishedAt |-> row[j].finishedAt, attempts |-> row[j].attempts]
      /\ r \in HistoryRow
    BY <1>1, <1>5, <1>6 DEF HistoryRow
<1>8. Written(j, r)
    BY <1>1, <1>6, <1>7 DEF Written, HistoryType
<1>9. PICK one : /\ one = [delivery[j][d] EXCEPT !.at = "work", !.saw = M!NoRow, !.began = now]
                 /\ delivery' = [delivery EXCEPT ![j] = [delivery[j] EXCEPT ![d] = one]]
    BY DEF M!Activate
<1>10. /\ one = [at |-> "work", saw |-> M!NoRow, began |-> now,
                 alone |-> delivery[j][d].alone]
       /\ now \in Time /\ "work" \in Places
    BY <1>1, <1>9 DEF DeliveryRow, Places, Time
<1>11. Moved(j, d, "work", M!NoRow, now)
    BY <1>1, <1>9, <1>10, NoRowIsARow, MoveOne
<1>12. HistoryType'
    BY <1>1, <1>3, <1>8, <1>11 DEF HistoryType, Moved, Written
<1>13. /\ row'[j].startedAt = start /\ row'[j].status = "ACTIVE"
       /\ row'[j].queuedAt = row[j].queuedAt
    BY <1>7, <1>8 DEF Written
<1>14. TimesAreOrdered(j)'
    BY <1>3, <1>5, <1>13 DEF TimesAreOrdered
<1>15. ActiveIsUnended(j)'
    BY <1>11 DEF ActiveIsUnended, Moved
<1>16. OneAtATime(j)'
  <2> SUFFICES ASSUME Alone(j)', NEW e \in DOMAIN delivery[j]
               PROVE  /\ e # Len(delivery[j]) => delivery'[j][e].at = "dead"
                      /\ RowTellsOf(j, e)'
    BY <1>11 DEF OneAtATime, Moved
  <2>1. Alone(j)
    BY <1>11 DEF Alone, Moved
  <2>2. /\ d = Len(delivery[j]) /\ RowTellsOf(j, d)
        /\ \A f \in DOMAIN delivery[j] \ {d} : delivery[j][f].at = "dead" /\ RowTellsOf(j, f)
    BY <1>3, <2>1, LivingIsLast
  <2>3. delivery[j][d].saw = row[j] /\ row[j].queuedAt # NoTime
    BY <1>3, <2>2 DEF RowTellsOf
  <2>4. start # NoTime
    BY <1>1, <1>4, <2>3 DEF NoTime
  <2>5. CASE e # d
    <3>1. delivery'[j][e] = delivery[j][e] /\ delivery[j][e].at = "dead" /\ RowTellsOf(j, e)
      BY <1>11, <2>2, <2>5 DEF Moved
    <3>2. delivery[j][e].began # NoTime => start = row[j].startedAt
      BY <1>4, <2>3, <3>1 DEF RowTellsOf
    <3> QED
      BY <1>13, <3>1, <3>2 DEF RowTellsOf
  <2>6. CASE e = d
    <3>1. /\ delivery'[j][e].at = "work" /\ delivery'[j][e].began = now /\ now # NoTime
          /\ e = Len(delivery[j])
      BY <1>1, <1>11, <2>2, <2>6 DEF Moved, NoTime
    <3>2. RowTellsOf(j, e)'
      BY <1>3, <1>5, <1>13, <2>3, <2>4, <3>1 DEF RowTellsOf
    <3> QED
      BY <3>1, <3>2
  <2> QED
    BY <2>5, <2>6
<1>17. JobInv(j)'
    BY <1>14, <1>15, <1>16 DEF JobInv
<1> QED
    BY <1>3, <1>8, <1>11, <1>12, <1>17, OneJobMoves DEF Moved, Written

\* The end of a delivery is written to the row.
LEMMA EndKeepsHistory ==
    ASSUME HistoryInv, NEW j \in Job, NEW d \in DOMAIN delivery[j],
           M!Complete(j, d) \/ M!Rescue(j, d)
    PROVE  HistoryInv'
<1>1. /\ delivery[j] \in Seq(DeliveryRow) /\ delivery[j][d] \in DeliveryRow
      /\ row[j] \in HistoryRow /\ now \in Nat /\ HistoryType /\ d \in Nat
    BY DEF HistoryInv, HistoryType
<1>2. /\ delivery[j][d].at \in {"complete", "rescue"} /\ now' = now
      /\ M!Goto(j, d, "ended")
    BY DEF M!Complete, M!Rescue
<1>3. PICK r : /\ \/ r = [row[j] EXCEPT !.status = "COMPLETED", !.finishedAt = now]
                  \/ r = [row[j] EXCEPT !.status = "FAILED", !.finishedAt = now, !.attempts = d]
               /\ row' = [row EXCEPT ![j] = r]
    BY DEF M!Complete, M!Rescue
<1>4. /\ r \in HistoryRow /\ r.status \in {"COMPLETED", "FAILED"} /\ r.finishedAt = now
      /\ r.startedAt = row[j].startedAt /\ r.queuedAt = row[j].queuedAt
  <2>1. PICK status \in {"COMPLETED", "FAILED"}, attempts \in Nat :
            r = [status |-> status, queuedAt |-> row[j].queuedAt,
                 startedAt |-> row[j].startedAt, finishedAt |-> now, attempts |-> attempts]
    BY <1>1, <1>3 DEF HistoryRow
  <2>2. /\ row[j].queuedAt \in Time /\ row[j].startedAt \in Time /\ now \in Time
    BY <1>1 DEF HistoryRow, Time
  <2> QED
    BY <2>1, <2>2 DEF HistoryRow
<1>5. Written(j, r)
    BY <1>1, <1>3, <1>4 DEF Written, HistoryType
<1>6. Moved(j, d, "ended", M!NoRow, delivery[j][d].began)
    BY <1>1, <1>2, GotoMoves
<1>7. HistoryType'
    BY <1>1, <1>2, <1>5, <1>6 DEF HistoryType, Moved, Written
<1>8. row'[j] = r
    BY <1>5 DEF Written
<1>9. TimesAreOrdered(j)' /\ ActiveIsUnended(j)'
    BY <1>2, <1>4, <1>8 DEF HistoryInv, JobInv, TimesAreOrdered, ActiveIsUnended
<1>10. OneAtATime(j)'
  <2> SUFFICES ASSUME Alone(j)', NEW e \in DOMAIN delivery[j]
               PROVE  /\ e # Len(delivery[j]) => delivery'[j][e].at = "dead"
                      /\ RowTellsOf(j, e)'
    BY <1>6 DEF OneAtATime, Moved
  <2>1. Alone(j)
    BY <1>6 DEF Alone, Moved
  <2>2. /\ d = Len(delivery[j]) /\ RowTellsOf(j, d)
        /\ \A f \in DOMAIN delivery[j] \ {d} : delivery[j][f].at = "dead" /\ RowTellsOf(j, f)
    BY <1>2, <2>1, LivingIsLast
  <2>3. CASE e # d
    BY <1>4, <1>6, <1>8, <2>2, <2>3 DEF Moved, RowTellsOf
  <2>4. CASE e = d
    BY <1>2, <1>4, <1>6, <1>8, <2>2, <2>4 DEF Moved, RowTellsOf
  <2> QED
    BY <2>3, <2>4
<1>11. JobInv(j)'
    BY <1>9, <1>10 DEF JobInv
<1> QED
    BY <1>2, <1>5, <1>6, <1>7, <1>11, OneJobMoves DEF Moved, Written

\* The end of the work and the death of a process leave the row alone.
LEMMA LeaveKeepsHistory ==
    ASSUME HistoryInv, NEW j \in Job, NEW d \in DOMAIN delivery[j],
           M!Work(j, d) \/ M!Die(j, d)
    PROVE  HistoryInv'
<1>1. /\ delivery[j] \in Seq(DeliveryRow) /\ delivery[j][d] \in DeliveryRow /\ HistoryType
    BY DEF HistoryInv, HistoryType
<1>2. PICK to \in {"complete", "rescue", "dead"} :
        /\ M!Goto(j, d, to) /\ (to # "dead" => delivery[j][d].at = "work")
        /\ delivery[j][d].at \in Places /\ now' = now /\ row' = row
    BY DEF M!Work, M!Die, M!Alive, M!Places, Places
<1>3. Moved(j, d, to, M!NoRow, delivery[j][d].began)
    BY <1>1, <1>2, GotoMoves DEF Places
<1>4. HistoryType'
    BY <1>1, <1>2, <1>3 DEF HistoryType, Moved
<1>5. TimesAreOrdered(j)' /\ ActiveIsUnended(j)'
    BY <1>2, <1>3 DEF HistoryInv, JobInv, TimesAreOrdered, ActiveIsUnended, Moved
<1>6. OneAtATime(j)'
  <2> SUFFICES ASSUME Alone(j)', NEW e \in DOMAIN delivery[j]
               PROVE  /\ e # Len(delivery[j]) => delivery'[j][e].at = "dead"
                      /\ RowTellsOf(j, e)'
    BY <1>3 DEF OneAtATime, Moved
  <2>1. Alone(j)
    BY <1>3 DEF Alone, Moved
  <2>2. /\ d = Len(delivery[j]) /\ RowTellsOf(j, d)
        /\ \A f \in DOMAIN delivery[j] \ {d} : delivery[j][f].at = "dead" /\ RowTellsOf(j, f)
    BY <1>2, <2>1, LivingIsLast DEF Places
  <2>3. CASE e # d
    BY <1>2, <1>3, <2>2, <2>3 DEF Moved, RowTellsOf
  <2>4. CASE e = d
    BY <1>2, <1>3, <2>2, <2>4 DEF Moved, RowTellsOf
  <2> QED
    BY <2>3, <2>4
<1>7. JobInv(j)'
    BY <1>5, <1>6 DEF JobInv
<1> QED
    BY <1>2, <1>3, <1>4, <1>7, OneJobMoves DEF Moved

\* A delivery more is alone only if those before it are dead.
LEMMA DeliverKeepsHistory ==
    ASSUME HistoryInv, NEW j \in Job, M!Deliver(j)
    PROVE  HistoryInv'
<1>1. /\ delivery[j] \in Seq(DeliveryRow) /\ HistoryType /\ now' = now /\ row' = row
    BY DEF HistoryInv, HistoryType, M!Deliver
<1>2. PICK lone \in BOOLEAN :
        lone = \A d \in DOMAIN delivery[j] : delivery[j][d].at = "dead"
    OBVIOUS
<1>3. PICK one : /\ one = [at |-> "look", saw |-> M!NoRow, began |-> M!NoTime, alone |-> lone]
                 /\ delivery' = [delivery EXCEPT ![j] = Append(delivery[j], one)]
    BY <1>2 DEF M!Deliver
<1>4. one \in DeliveryRow
    BY <1>3, NoRowIsARow DEF DeliveryRow, Places, Time, M!NoTime, NoTime
<1>5. /\ delivery' \in [Job -> Seq(DeliveryRow)] /\ delivery'[j] = Append(delivery[j], one)
      /\ \A k \in Job \ {j} : delivery'[k] = delivery[k]
    BY <1>1, <1>3, <1>4 DEF HistoryType
<1>6. /\ Len(delivery'[j]) = Len(delivery[j]) + 1
      /\ DOMAIN delivery'[j] = 1 .. Len(delivery[j]) + 1
      /\ DOMAIN delivery[j] = 1 .. Len(delivery[j])
      /\ delivery'[j][Len(delivery[j]) + 1] = one
      /\ \A d \in DOMAIN delivery[j] : delivery'[j][d] = delivery[j][d]
    BY <1>1, <1>4, <1>5
<1>7. Len(delivery[j]) \in Nat
    BY <1>1
<1>8. HistoryType'
    BY <1>1, <1>5 DEF HistoryType
<1>9. TimesAreOrdered(j)' /\ ActiveIsUnended(j)'
    BY <1>1, <1>6, <1>7 DEF HistoryInv, JobInv, TimesAreOrdered, ActiveIsUnended
<1>10. OneAtATime(j)'
  <2> SUFFICES ASSUME Alone(j)', NEW e \in DOMAIN delivery'[j]
               PROVE  /\ e # Len(delivery'[j]) => delivery'[j][e].at = "dead"
                      /\ RowTellsOf(j, e)'
    BY DEF OneAtATime
  <2>1. Alone(j) /\ lone
    BY <1>3, <1>6, <1>7 DEF Alone
  <2>2. CASE e = Len(delivery[j]) + 1
    BY <1>3, <1>6, <1>7, <2>2 DEF RowTellsOf, M!NoTime, NoTime
  <2>3. CASE e # Len(delivery[j]) + 1
    <3>1. e \in DOMAIN delivery[j]
      BY <1>6, <1>7, <2>3
    <3>2. delivery[j][e].at = "dead"
      BY <1>2, <2>1, <3>1
    <3>3. RowTellsOf(j, e)
      BY <2>1, <3>1 DEF HistoryInv, JobInv, OneAtATime
    <3>4. delivery'[j][e] = delivery[j][e]
      BY <1>6, <3>1
    <3> QED
      BY <1>1, <3>2, <3>3, <3>4 DEF RowTellsOf
  <2> QED
    BY <2>2, <2>3
<1>11. JobInv(j)'
    BY <1>9, <1>10 DEF JobInv
<1> QED
    BY <1>1, <1>5, <1>8, <1>11, OneJobMoves

\* The invariant is inductive.
LEMMA HistoryInvInductive == HistoryInv /\ [M!Next]_M!vars => HistoryInv'
<1> SUFFICES ASSUME HistoryInv, [M!Next]_M!vars PROVE HistoryInv'
    OBVIOUS
<1>1. ASSUME NEW j \in Job, M!Deliver(j) PROVE HistoryInv'
    BY <1>1, DeliverKeepsHistory
<1>2. ASSUME NEW j \in Job, NEW d \in DOMAIN delivery[j],
             M!ReadRow(j, d, "look", "record") \/ M!ReadRow(j, d, "read", "activate")
      PROVE  HistoryInv'
    BY <1>2, ReadRowKeepsHistory
<1>3. ASSUME NEW j \in Job, NEW d \in DOMAIN delivery[j], M!Record(j, d) PROVE HistoryInv'
    BY <1>3, RecordKeepsHistory
<1>4. ASSUME NEW j \in Job, NEW d \in DOMAIN delivery[j], M!Activate(j, d) PROVE HistoryInv'
    BY <1>4, ActivateKeepsHistory
<1>5. ASSUME NEW j \in Job, NEW d \in DOMAIN delivery[j], M!Complete(j, d) \/ M!Rescue(j, d)
      PROVE  HistoryInv'
    BY <1>5, EndKeepsHistory
<1>6. ASSUME NEW j \in Job, NEW d \in DOMAIN delivery[j], M!Work(j, d) \/ M!Die(j, d)
      PROVE  HistoryInv'
    BY <1>6, LeaveKeepsHistory
<1>7. CASE (M!Tick \/ UNCHANGED M!vars)
  <2>1. (now' = now \/ now' = now + 1) /\ row' = row /\ delivery' = delivery
    BY <1>7 DEF M!Tick, M!vars
  <2>2. HistoryType'
    BY <2>1 DEF HistoryInv, HistoryType
  <2>3. ASSUME NEW j \in Job PROVE JobInv(j)'
    BY <2>1, OtherJobsStay DEF HistoryInv
  <2> QED
    BY <2>2, <2>3 DEF HistoryInv
<1> QED
    BY <1>1, <1>2, <1>3, <1>4, <1>5, <1>6, <1>7 DEF M!Next

\* Before the first delivery there is nothing to tell.
LEMMA HistoryInvHolds == M!Init => HistoryInv
<1> SUFFICES ASSUME M!Init PROVE HistoryInv
    OBVIOUS
<1>1. /\ now = 0 /\ row = [j \in Job |-> M!NoRow] /\ delivery = [j \in Job |-> <<>>]
      /\ \A j \in Job : delivery[j] = <<>> /\ DOMAIN delivery[j] = {} /\ row[j] = M!NoRow
    BY DEF M!Init
<1>2. HistoryType
    BY <1>1, NoRowIsARow DEF HistoryType
<1>3. M!NoRow.status = "none" /\ M!NoRow.startedAt = -1
    BY DEF M!NoRow, M!NoTime
<1>4. ASSUME NEW j \in Job PROVE JobInv(j)
    BY <1>1, <1>3 DEF JobInv, TimesAreOrdered, ActiveIsUnended, OneAtATime
<1> QED
    BY <1>2, <1>4 DEF HistoryInv

\* What a delivery that is alone says of its row.
LEMMA LoneDelivery ==
    ASSUME HistoryInv, NEW j \in Job, NEW d \in DOMAIN delivery[j], Alone(j)
    PROVE  RowTellsOf(j, d)
BY DEF HistoryInv, JobInv, OneAtATime

\* The alerts that are promised, and the metrics that lead to them.
LEMMA AlertsOfMetrics ==
    /\ "long running" \in HealthStatus.alerts <=> Cardinality(LongRunning) > 0
    /\ "failures" \in HealthStatus.alerts <=> FailedJobsCount(Hour) > FailedPerHour
    /\ "stuck queue" \in HealthStatus.alerts <=>
          Cardinality(ActiveJobs) > ActiveAllowed /\ CompletedJobsCount(Hour) = 0
    /\ HealthStatus.alerts # {} => Check = "error"
<1> DEFINE metrics == Metrics
<1>1. HealthStatus = [healthy |-> Alerts(metrics) = {}, metrics |-> metrics,
                      alerts |-> Alerts(metrics)]
    BY DEF HealthStatus
<1>2. /\ metrics.longRunning = Cardinality(LongRunning)
      /\ metrics.failedLastHour = FailedJobsCount(Hour)
      /\ metrics.active = Cardinality(ActiveJobs)
      /\ metrics.completedLastHour = CompletedJobsCount(Hour)
    BY DEF Metrics
<1> HIDE DEF metrics
<1>3. /\ "long running" \in Alerts(metrics) <=> metrics.longRunning > 0
      /\ "failures" \in Alerts(metrics) <=> metrics.failedLastHour > FailedPerHour
      /\ "stuck queue" \in Alerts(metrics) <=>
            metrics.active > ActiveAllowed /\ metrics.completedLastHour = 0
    BY DEF Alerts
<1>4. HealthStatus.alerts = Alerts(metrics) /\ HealthStatus.healthy = (Alerts(metrics) = {})
    BY <1>1
<1>5. Alerts(metrics) # {} => Check = "error"
    BY <1>4 DEF Check
<1> QED
    BY <1>2, <1>3, <1>4, <1>5

\* A job that has been at work for long is in the metrics.
LEMMA LongRunsAreSeen ==
    ASSUME HistoryInv, IsFiniteSet(Job), LongAfter \in Nat
    PROVE  LongRunsAreReported
<1> SUFFICES ASSUME NEW j \in Job, NEW d \in DOMAIN delivery[j], Alone(j),
                    delivery[j][d].at = "work", delivery[j][d].began < now - LongAfter
             PROVE  Check = "error" /\ "long running" \in HealthStatus.alerts
    BY DEF LongRunsAreReported
<1>1. /\ row[j].status = "ACTIVE" /\ row[j].startedAt <= delivery[j][d].began
      /\ row[j].startedAt \in Int /\ delivery[j][d].began \in Int /\ now \in Nat
  <2>1. RowTellsOf(j, d)
    BY LoneDelivery
  <2>2. row[j] \in HistoryRow /\ delivery[j][d] \in DeliveryRow /\ now \in Nat
    BY DEF HistoryInv, HistoryType
  <2>3. row[j].startedAt \in Int /\ delivery[j][d].began \in Int
    BY <2>2 DEF HistoryRow, DeliveryRow, Time, NoTime
  <2> QED
    BY <2>1, <2>2, <2>3 DEF RowTellsOf
<1>2. j \in LongRunning
    BY <1>1 DEF LongRunning
<1>3. IsFiniteSet(LongRunning)
    BY FS_Subset DEF LongRunning
<1>4. Cardinality(LongRunning) > 0
  <2>1. Cardinality(LongRunning) \in Nat /\ Cardinality(LongRunning) # 0
    BY <1>2, <1>3, FS_CardinalityType, FS_EmptySet
  <2> QED
    BY <2>1
<1>5. "long running" \in HealthStatus.alerts
    BY <1>4, AlertsOfMetrics
<1> QED
    BY <1>5, AlertsOfMetrics

\* Jobs at work and jobs that failed are counted.
LEMMA StuckQueuesAreSeen ==
    ASSUME HistoryInv, IsFiniteSet(Job), Hour \in Nat, FailedPerHour \in Nat, ActiveAllowed \in Nat
    PROVE  StuckQueuesAreReported
<1> DEFINE atWork == {j \in Job : /\ Alone(j)
                                  /\ \E d \in DOMAIN delivery[j] :
                                        delivery[j][d].at \in {"read", "activate", "work"}}
           failures == {j \in Job : /\ now <= Hour
                                    /\ Alone(j) /\ delivery[j] # <<>>
                                    /\ delivery[j][Len(delivery[j])].at = "ended"
                                    /\ row[j].status # "COMPLETED"}
           late == JobsByStatusSince("FAILED", now - Hour)
           done == JobsByStatusSince("COMPLETED", now - Hour)
<1>1. atWork \subseteq ActiveJobs
    BY LoneDelivery DEF RowTellsOf, ActiveJobs
<1>2. failures \subseteq late
  <2> SUFFICES ASSUME NEW j \in failures PROVE j \in late
    OBVIOUS
  <2>1. delivery[j] \in Seq(DeliveryRow) /\ row[j] \in HistoryRow /\ now \in Nat
    BY DEF HistoryInv, HistoryType
  <2>2. Len(delivery[j]) \in DOMAIN delivery[j]
    BY <2>1
  <2>3. row[j].status = "FAILED" /\ row[j].queuedAt # NoTime
    BY <2>2, LoneDelivery DEF RowTellsOf
  <2>4. row[j].queuedAt \in Nat
    BY <2>1, <2>3 DEF HistoryRow, Time
  <2> QED
    BY <2>1, <2>3, <2>4 DEF JobsByStatusSince
<1>3. IsFiniteSet(ActiveJobs) /\ IsFiniteSet(late)
    BY FS_Subset DEF ActiveJobs, JobsByStatusSince
<1>4. /\ Cardinality(atWork) <= Cardinality(ActiveJobs)
      /\ Cardinality(atWork) \in Nat /\ Cardinality(ActiveJobs) \in Nat
      /\ Cardinality(failures) <= Cardinality(late)
      /\ Cardinality(failures) \in Nat /\ Cardinality(late) \in Nat
  <2> HIDE DEF atWork, failures, late
  <2>1. IsFiniteSet(atWork) /\ IsFiniteSet(failures)
    BY <1>1, <1>2, <1>3, FS_Subset
  <2> QED
    BY <1>1, <1>2, <1>3, <2>1, FS_Subset, FS_CardinalityType
<1>5. ASSUME \A j \in Job : row[j].status # "COMPLETED" PROVE CompletedJobsCount(Hour) = 0
  <2>1. done = {}
    BY <1>5 DEF JobsByStatusSince
  <2> QED
    BY <2>1, FS_EmptySet DEF CompletedJobsCount
<1>6. FailedJobsCount(Hour) = Cardinality(late)
    BY DEF FailedJobsCount
<1> HIDE DEF atWork, failures, late
<1>7. ASSUME Cardinality(atWork) > ActiveAllowed, \A j \in Job : row[j].status # "COMPLETED"
      PROVE  "stuck queue" \in HealthStatus.alerts
  <2>1. Cardinality(ActiveJobs) > ActiveAllowed
    BY <1>4, <1>7
  <2>2. CompletedJobsCount(Hour) = 0
    BY <1>5, <1>7
  <2> QED
    BY <2>1, <2>2, AlertsOfMetrics
<1>8. ASSUME Cardinality(failures) > FailedPerHour
      PROVE  "failures" \in HealthStatus.alerts
  <2>1. FailedJobsCount(Hour) > FailedPerHour
    BY <1>4, <1>6, <1>8
  <2> QED
    BY <2>1, AlertsOfMetrics
<1> QED
    BY <1>7, <1>8 DEF StuckQueuesAreReported, atWork, failures

\* The average has no negative time in it.
LEMMA AveragesAreTimes ==
    ASSUME HistoryInv, IsFiniteSet(Job)
    PROVE  AverageProcessingTime(Day).total >= 0
<1> DEFINE timed == TimedJobsSince(now - Day)
           took == [j \in timed |-> row[j].finishedAt - row[j].startedAt]
<1>1. ASSUME NEW j \in timed PROVE took[j] \in Nat
  <2>1. j \in Job /\ row[j].status = "COMPLETED"
    BY DEF TimedJobsSince, JobsByStatusSince
  <2>2. row[j].startedAt <= row[j].finishedAt
    BY <2>1 DEF HistoryInv, JobInv, TimesAreOrdered
  <2>3. row[j].startedAt \in Int /\ row[j].finishedAt \in Int
    BY <2>1 DEF HistoryInv, HistoryType, HistoryRow, Time, NoTime
  <2> QED
    BY <2>2, <2>3
<1>2. IsFiniteSet(timed)
    BY FS_Subset DEF TimedJobsSince, JobsByStatusSince
<1>3. AverageProcessingTime(Day).total = SumFunctionOnSet(took, timed)
    BY DEF AverageProcessingTime, SumFunction
<1> HIDE DEF took, timed
<1>4. SumFunctionOnSet(took, timed) \in Nat
    BY <1>1, <1>2, SumIsNat
<1> QED
    BY <1>3, <1>4

\* However the deliveries of jobs follow each other and overlap, for any finite
\* set of jobs, windows and thresholds, what the health check reports is what
\* there was.
THEOREM HistoryTold ==
    ASSUME IsFiniteSet(Job), LongAfter \in Nat, Hour \in Nat,
           FailedPerHour \in Nat, ActiveAllowed \in Nat
    PROVE  M!Spec => []HistoryTellsTheWork
<1>1. HistoryInv => HistoryTellsTheWork
  <2> SUFFICES ASSUME HistoryInv PROVE HistoryTellsTheWork
    OBVIOUS
  <2>1. ReportsAreOfUnendedJobs
    <3> SUFFICES ASSUME NEW j \in LongRunning
                 PROVE  \E d \in DOMAIN delivery[j] :
                            delivery[j][d].at \in Places \cup {"dead"}
      BY DEF ReportsAreOfUnendedJobs
    <3>1. j \in Job /\ row[j].status = "ACTIVE"
      BY DEF LongRunning
    <3>2. PICK d \in DOMAIN delivery[j] : delivery[j][d].at # "ended"
      BY <3>1 DEF HistoryInv, JobInv, ActiveIsUnended
    <3>3. delivery[j][d] \in DeliveryRow
      BY <3>1 DEF HistoryInv, HistoryType
    <3> QED
      BY <3>2, <3>3 DEF DeliveryRow
  <2>2. TimesCoverTheWork
    <3>1. AverageProcessingTime(Day).total >= 0
      BY AveragesAreTimes
    <3>2. ASSUME NEW j \in Job, row[j].status = "COMPLETED"
          PROVE  /\ row[j].startedAt <= row[j].finishedAt
                 /\ \A d \in DOMAIN delivery[j] :
                       Alone(j) /\ delivery[j][d].began # NoTime
                           => row[j].startedAt <= delivery[j][d].began
      BY <3>2, LoneDelivery DEF HistoryInv, JobInv, TimesAreOrdered, RowTellsOf
    <3> QED
      BY <3>1, <3>2 DEF TimesCoverTheWork
  <2> QED
    BY <2>1, <2>2, LongRunsAreSeen, StuckQueuesAreSeen DEF HistoryTellsTheWork
<1> QED
    BY <1>1, HistoryInvHolds, HistoryInvInductive, PTL DEF M!Spec

\* Deliveries of j that have put it into the queue, or died.
Early == {"look", "record"}
Recorded(j) == {d \in DOMAIN delivery[j] : delivery[j][d].at \notin Early}
Allowed(j) == MaxDeliveries + Cardinality(Recorded(j))

RowIsBounded(j) ==
    /\ row[j].queuedAt <= MaxNow /\ row[j].startedAt <= MaxNow /\ row[j].finishedAt <= MaxNow
    /\ row[j].attempts <= Allowed(j)

\* Each delivery counts one attempt more than the row it read, or as many as there
\* were deliveries.
HistoryIsBounded(j) ==
    /\ RowIsBounded(j)
    /\ Len(delivery[j]) <= MaxDeliveries
    /\ \A d \in DOMAIN delivery[j] :
          delivery[j][d].at = "record" => delivery[j][d].saw.attempts <= Allowed(j)

BoundsInv == now <= MaxNow /\ \A j \in Job : HistoryIsBounded(j)

\* A delivery does not go back to before it was recorded.
Forward(j, d, at) == delivery[j][d].at \in Early \/ at \notin Early

\* What a job may count grows, by one when it is put into the queue.
LEMMA AllowedGrows ==
    ASSUME HistoryType, MaxDeliveries \in Nat, NEW j \in Job, NEW d \in DOMAIN delivery[j],
           NEW at, NEW saw, NEW began, Moved(j, d, at, saw, began), Forward(j, d, at)
    PROVE  /\ Allowed(j) \in Nat /\ Allowed(j)' \in Nat /\ Allowed(j) <= Allowed(j)'
           /\ delivery[j][d].at \in Early /\ at \notin Early => Allowed(j) + 1 <= Allowed(j)'
<1>1. delivery[j] \in Seq(DeliveryRow)
    BY DEF HistoryType
<1>2. PICK S : S = Recorded(j)
    OBVIOUS
<1>3. PICK T : T = Recorded(j)'
    OBVIOUS
<1>4. /\ DOMAIN delivery'[j] = DOMAIN delivery[j] /\ delivery'[j][d].at = at
      /\ \A e \in DOMAIN delivery[j] : e # d => delivery'[j][e] = delivery[j][e]
    BY DEF Moved
<1>5. T = {e \in DOMAIN delivery'[j] : delivery'[j][e].at \notin Early}
    BY <1>3 DEF Recorded
<1>6. S = {e \in DOMAIN delivery[j] : delivery[j][e].at \notin Early}
    BY <1>2 DEF Recorded
<1>7. S \subseteq T /\ T \subseteq DOMAIN delivery[j]
    BY <1>4, <1>5, <1>6 DEF Forward
<1>8. IsFiniteSet(DOMAIN delivery[j])
  <2>1. DOMAIN delivery[j] = 1 .. Len(delivery[j]) /\ Len(delivery[j]) \in Nat
    BY <1>1
  <2> QED
    BY <2>1, FS_Interval
<1>9. IsFiniteSet(T) /\ IsFiniteSet(S) /\ Cardinality(S) <= Cardinality(T)
    BY <1>7, <1>8, FS_Subset
<1>10. Cardinality(S) \in Nat /\ Cardinality(T) \in Nat
    BY <1>9, FS_CardinalityType
<1>11. ASSUME delivery[j][d].at \in Early, at \notin Early
       PROVE  Cardinality(S) + 1 <= Cardinality(T)
  <2>1. d \notin S /\ S \cup {d} \subseteq T
    BY <1>4, <1>5, <1>6, <1>7, <1>11
  <2>2. Cardinality(S \cup {d}) = Cardinality(S) + 1
    BY <1>9, <2>1, FS_AddElement
  <2>3. Cardinality(S \cup {d}) <= Cardinality(T)
    BY <1>9, <2>1, FS_Subset
  <2> QED
    BY <2>2, <2>3
<1>12. Allowed(j) = MaxDeliveries + Cardinality(S)
    BY <1>2 DEF Allowed
<1>13. Allowed(j)' = MaxDeliveries + Cardinality(T)
    BY <1>3 DEF Allowed
<1> QED
    BY <1>9, <1>10, <1>11, <1>12, <1>13

\* What is left to show when one delivery makes a step.
LEMMA OneStepBounded ==
    ASSUME HistoryType, BoundsInv, MaxDeliveries \in Nat, MaxNow \in Nat,
           NEW j \in Job, NEW d \in DOMAIN delivery[j],
           NEW at, NEW saw \in HistoryRow, NEW began, Moved(j, d, at, saw, began), Forward(j, d, at),
           now' = now, \A k \in Job \ {j} : row'[k] = row[k],
           RowIsBounded(j)', at = "record" => saw.attempts <= Allowed(j)
    PROVE  BoundsInv'
<1>1. ASSUME NEW k \in Job \ {j} PROVE HistoryIsBounded(k)'
  <2>1. row'[k] = row[k] /\ delivery'[k] = delivery[k] /\ HistoryIsBounded(k)
    BY <1>1 DEF Moved, BoundsInv
  <2>2. Allowed(k)' = Allowed(k)
    BY <2>1 DEF Allowed, Recorded
  <2> QED
    BY <2>1, <2>2 DEF HistoryIsBounded, RowIsBounded
<1>2. /\ Allowed(j) \in Nat /\ Allowed(j)' \in Nat /\ Allowed(j) <= Allowed(j)'
    BY AllowedGrows
<1>3. Len(delivery'[j]) <= MaxDeliveries
    BY DEF Moved, BoundsInv, HistoryIsBounded
<1>4. ASSUME NEW e \in DOMAIN delivery[j], delivery'[j][e].at = "record"
      PROVE  delivery'[j][e].saw.attempts <= Allowed(j)'
  <2>1. CASE e = d
    <3>1. at = "record" /\ delivery'[j][e].saw = saw
      BY <1>4, <2>1 DEF Moved
    <3>2. saw.attempts <= Allowed(j) /\ saw.attempts \in Nat
      BY <3>1 DEF HistoryRow
    <3> QED
      BY <1>2, <3>1, <3>2
  <2>2. CASE e # d
    <3>1. delivery'[j][e] = delivery[j][e]
      BY <2>2 DEF Moved
    <3>2. delivery[j][e].saw.attempts <= Allowed(j)
      BY <1>4, <3>1 DEF BoundsInv, HistoryIsBounded
    <3>3. delivery[j][e].saw.attempts \in Nat
      <4>1. delivery[j] \in Seq(DeliveryRow)
        BY DEF HistoryType
      <4>2. delivery[j][e] \in DeliveryRow
        BY <4>1
      <4> QED
        BY <4>2 DEF DeliveryRow, HistoryRow
    <3> QED
      BY <1>2, <3>1, <3>2, <3>3
  <2> QED
    BY <2>1, <2>2
<1>5. HistoryIsBounded(j)'
  <2>1. DOMAIN delivery'[j] = DOMAIN delivery[j]
    BY DEF Moved
  <2> QED
    BY <1>3, <1>4, <2>1 DEF HistoryIsBounded
<1> QED
    BY <1>1, <1>5 DEF BoundsInv

\* A row that is not written stays in its bounds,
LEMMA UnwrittenStaysBounded ==
    ASSUME HistoryType, BoundsInv, MaxDeliveries \in Nat,
           NEW j \in Job, NEW d \in DOMAIN delivery[j],
           NEW at, NEW saw, NEW began, Moved(j, d, at, saw, began), Forward(j, d, at),
           row' = row
    PROVE  RowIsBounded(j)'
<1>1. /\ Allowed(j) \in Nat /\ Allowed(j)' \in Nat /\ Allowed(j) <= Allowed(j)'
    BY AllowedGrows
<1>2. RowIsBounded(j) /\ row[j].attempts \in Nat
    BY DEF BoundsInv, HistoryIsBounded, HistoryType, HistoryRow
<1> QED
    BY <1>1, <1>2 DEF RowIsBounded

\* and so does one that is written by the time it is.
LEMMA WrittenStaysBounded ==
    ASSUME HistoryType, BoundsInv, MaxDeliveries \in Nat, MaxNow \in Nat,
           NEW j \in Job, NEW d \in DOMAIN delivery[j],
           NEW at, NEW saw, NEW began, Moved(j, d, at, saw, began), Forward(j, d, at),
           NEW r \in HistoryRow, row' = [row EXCEPT ![j] = r],
           r.queuedAt \in {row[j].queuedAt, now}, r.startedAt \in {row[j].startedAt, now},
           r.finishedAt \in {row[j].finishedAt, now},
           r.attempts <= Allowed(j)'
    PROVE  RowIsBounded(j)'
<1>1. RowIsBounded(j) /\ now <= MaxNow
    BY DEF BoundsInv, HistoryIsBounded
<1>2. row'[j] = r
    BY DEF HistoryType
<1> QED
    BY <1>1, <1>2 DEF RowIsBounded

\* Recording counts one attempt more than the row that was read.
LEMMA RecordKeepsBounds ==
    ASSUME HistoryInv, BoundsInv, MaxDeliveries \in Nat, MaxNow \in Nat,
           NEW j \in Job, NEW d \in DOMAIN delivery[j], M!Record(j, d)
    PROVE  BoundsInv'
<1>1. /\ delivery[j] \in Seq(DeliveryRow) /\ delivery[j][d] \in DeliveryRow
      /\ row[j] \in HistoryRow /\ now \in Nat /\ HistoryType
    BY DEF HistoryInv, HistoryType
<1>2. delivery[j][d].saw \in HistoryRow
    BY <1>1 DEF DeliveryRow
<1> DEFINE saw == delivery[j][d].saw
           fails == saw = M!NoRow /\ row[j] # M!NoRow
<1>3. delivery[j][d].at = "record" /\ now' = now
    BY DEF M!Record
<1>4. CASE fails
  <2>1. row' = row /\ M!Goto(j, d, "rescue")
    BY <1>4 DEF M!Record
  <2>2. Moved(j, d, "rescue", M!NoRow, delivery[j][d].began) /\ Forward(j, d, "rescue")
    BY <1>1, <2>1, GotoMoves DEF Places, Forward, Early
  <2>3. RowIsBounded(j)'
    BY <1>1, <2>1, <2>2, UnwrittenStaysBounded
  <2> QED
    BY <1>1, <1>3, <2>1, <2>2, <2>3, OneStepBounded, NoRowIsARow
<1>5. CASE ~fails
  <2>1. PICK n : n = IF saw = M!NoRow THEN 0 ELSE saw.attempts + 1
    OBVIOUS
  <2>2. PICK r : /\ r = [row[j] EXCEPT !.status = IF saw.status = "QUEUED" THEN row[j].status ELSE "QUEUED",
                                       !.queuedAt = now, !.attempts = n]
                 /\ row' = [row EXCEPT ![j] = r]
    BY <1>5, <2>1 DEF M!Record
  <2>3. n \in Nat
    BY <1>2, <2>1 DEF HistoryRow
  <2>4. r = [status |-> IF saw.status = "QUEUED" THEN row[j].status ELSE "QUEUED",
             queuedAt |-> now, startedAt |-> row[j].startedAt,
             finishedAt |-> row[j].finishedAt, attempts |-> n]
    BY <1>1, <2>2 DEF HistoryRow
  <2>5. r \in HistoryRow
    BY <1>1, <2>3, <2>4 DEF HistoryRow, Time
  <2>6. M!Goto(j, d, "read")
    BY <1>5 DEF M!Record
  <2>7. Moved(j, d, "read", M!NoRow, delivery[j][d].began) /\ Forward(j, d, "read")
    BY <1>1, <2>6, GotoMoves DEF Places, Forward, Early
  <2>8. n <= Allowed(j)'
    <3>1. /\ Allowed(j) \in Nat /\ Allowed(j)' \in Nat
          /\ "record" \in Early /\ "read" \notin Early => Allowed(j) + 1 <= Allowed(j)'
      BY <1>1, <1>3, <2>7, AllowedGrows
    <3>2. Allowed(j) + 1 <= Allowed(j)'
      BY <3>1 DEF Early
    <3>3. saw.attempts <= Allowed(j) /\ saw.attempts \in Nat
      BY <1>2, <1>3 DEF BoundsInv, HistoryIsBounded, HistoryRow
    <3> QED
      BY <2>1, <3>1, <3>2, <3>3
  <2>9. /\ r.queuedAt = now /\ r.startedAt = row[j].startedAt /\ r.finishedAt = row[j].finishedAt
        /\ r.attempts = n
    BY <2>4
  <2>10. RowIsBounded(j)'
    BY <1>1, <2>2, <2>5, <2>7, <2>8, <2>9, WrittenStaysBounded
  <2>11. \A k \in Job \ {j} : row'[k] = row[k]
    BY <1>1, <2>2 DEF HistoryType
  <2> QED
    BY <1>1, <1>3, <2>7, <2>10, <2>11, OneStepBounded, NoRowIsARow
<1> QED
    BY <1>4, <1>5

\* Becoming active, and the end of a job, are written with the time they are; a
\* failure with the attempts there were.
LEMMA WritesKeepBounds ==
    ASSUME HistoryInv, BoundsInv, MaxDeliveries \in Nat, MaxNow \in Nat,
           NEW j \in Job, NEW d \in DOMAIN delivery[j],
           M!Activate(j, d) \/ M!Complete(j, d) \/ M!Rescue(j, d)
    PROVE  BoundsInv'
<1>1. /\ delivery[j] \in Seq(DeliveryRow) /\ delivery[j][d] \in DeliveryRow
      /\ row[j] \in HistoryRow /\ now \in Nat /\ HistoryType
    BY DEF HistoryInv, HistoryType
<1>2. PICK status \in {"ACTIVE", "COMPLETED", "FAILED"}, start \in {row[j].startedAt, now},
           finish \in {row[j].finishedAt, now}, n \in {row[j].attempts, d} :
        row' = [row EXCEPT ![j] = [row[j] EXCEPT !.status = status, !.startedAt = start,
                                                 !.finishedAt = finish, !.attempts = n]]
  <2>1. CASE M!Activate(j, d)
    <3>1. PICK start : start = IF delivery[j][d].saw.startedAt = M!NoTime THEN now
                               ELSE row[j].startedAt
      OBVIOUS
    <3>2. row' = [row EXCEPT ![j] = [row[j] EXCEPT !.status = "ACTIVE", !.startedAt = start]]
      BY <2>1, <3>1 DEF M!Activate
    <3>3. [row[j] EXCEPT !.status = "ACTIVE", !.startedAt = start]
              = [row[j] EXCEPT !.status = "ACTIVE", !.startedAt = start,
                               !.finishedAt = row[j].finishedAt, !.attempts = row[j].attempts]
      BY <1>1 DEF HistoryRow
    <3> QED
      BY <3>1, <3>2, <3>3
  <2>2. CASE M!Complete(j, d)
    <3>1. row' = [row EXCEPT ![j] = [row[j] EXCEPT !.status = "COMPLETED", !.finishedAt = now]]
      BY <2>2 DEF M!Complete
    <3>2. [row[j] EXCEPT !.status = "COMPLETED", !.finishedAt = now]
              = [row[j] EXCEPT !.status = "COMPLETED", !.startedAt = row[j].startedAt,
                               !.finishedAt = now, !.attempts = row[j].attempts]
      BY <1>1 DEF HistoryRow
    <3> QED
      BY <3>1, <3>2
  <2>3. CASE M!Rescue(j, d)
    <3>1. row' = [row EXCEPT ![j] = [row[j] EXCEPT !.status = "FAILED", !.finishedAt = now,
                                                   !.attempts = d]]
      BY <2>3 DEF M!Rescue
    <3>2. [row[j] EXCEPT !.status = "FAILED", !.finishedAt = now, !.attempts = d]
              = [row[j] EXCEPT !.status = "FAILED", !.startedAt = row[j].startedAt,
                               !.finishedAt = now, !.attempts = d]
      BY <1>1 DEF HistoryRow
    <3> QED
      BY <3>1, <3>2
  <2> QED
    BY <2>1, <2>2, <2>3
<1>3. PICK r : /\ r = [row[j] EXCEPT !.status = status, !.startedAt = start,
                                     !.finishedAt = finish, !.attempts = n]
               /\ row' = [row EXCEPT ![j] = r]
    BY <1>2
<1>4. PICK to \in {"work", "ended"}, began \in Time : Moved(j, d, to, M!NoRow, began)
  <2>1. CASE M!Activate(j, d)
    <3>1. PICK one : /\ one = [delivery[j][d] EXCEPT !.at = "work", !.saw = M!NoRow, !.began = now]
                     /\ delivery' = [delivery EXCEPT ![j] = [delivery[j] EXCEPT ![d] = one]]
      BY <2>1 DEF M!Activate
    <3>2. /\ one = [at |-> "work", saw |-> M!NoRow, began |-> now,
                    alone |-> delivery[j][d].alone]
          /\ now \in Time /\ "work" \in Places
      BY <1>1, <3>1 DEF DeliveryRow, Places, Time
    <3> QED
      BY <1>1, <3>1, <3>2, NoRowIsARow, MoveOne
  <2>2. CASE M!Complete(j, d) \/ M!Rescue(j, d)
    <3>1. M!Goto(j, d, "ended")
      BY <2>2 DEF M!Complete, M!Rescue
    <3>2. delivery[j][d].began \in Time
      BY <1>1 DEF DeliveryRow
    <3> QED
      BY <1>1, <3>1, <3>2, GotoMoves
  <2> QED
    BY <2>1, <2>2
<1>5. Forward(j, d, to) /\ to # "record"
    BY DEF Forward, Early
<1>6. now' = now
    BY DEF M!Activate, M!Complete, M!Rescue
<1>7. /\ r = [status |-> status, queuedAt |-> row[j].queuedAt, startedAt |-> start,
              finishedAt |-> finish, attempts |-> n]
    BY <1>1, <1>3 DEF HistoryRow
<1>8. d \in Nat /\ d <= Len(delivery[j]) /\ Len(delivery[j]) \in Nat
    BY <1>1
<1>9. n \in Nat /\ n <= Allowed(j)'
  <2>1. /\ Allowed(j) \in Nat /\ Allowed(j)' \in Nat /\ Allowed(j) <= Allowed(j)'
    BY <1>1, <1>4, <1>5, AllowedGrows
  <2>2. Len(delivery[j]) <= MaxDeliveries /\ row[j].attempts <= Allowed(j)
    BY DEF BoundsInv, HistoryIsBounded, RowIsBounded
  <2>3. MaxDeliveries <= Allowed(j)
    <3>1. Recorded(j) \subseteq 1 .. Len(delivery[j])
      BY <1>1 DEF Recorded
    <3>2. IsFiniteSet(1 .. Len(delivery[j]))
      <4>1. Len(delivery[j]) \in Int /\ 1 \in Int
        BY <1>8
      <4> QED
        BY <4>1, FS_Interval
    <3>3. Cardinality(Recorded(j)) \in Nat
      BY <3>1, <3>2, FS_Subset, FS_CardinalityType
    <3> QED
      BY <3>3 DEF Allowed
  <2>4. row[j].attempts \in Nat
    BY <1>1 DEF HistoryRow
  <2> QED
    BY <1>2, <1>8, <2>1, <2>2, <2>3, <2>4
<1>10. start \in Time /\ finish \in Time
    BY <1>1, <1>2 DEF HistoryRow, Time
<1>11. r \in HistoryRow
    BY <1>1, <1>7, <1>9, <1>10 DEF HistoryRow
<1>12. /\ r.queuedAt = row[j].queuedAt /\ r.startedAt = start /\ r.finishedAt = finish
       /\ r.attempts = n
    BY <1>7
<1>13. RowIsBounded(j)'
    BY <1>1, <1>3, <1>4, <1>5, <1>9, <1>11, <1>12, WrittenStaysBounded
<1>14. \A k \in Job \ {j} : row'[k] = row[k]
    BY <1>1, <1>3 DEF HistoryType
<1> QED
    BY <1>1, <1>4, <1>5, <1>6, <1>13, <1>14, OneStepBounded, NoRowIsARow

\* Steps that leave the row alone; what is read of it is within its bounds.
LEMMA ReadsKeepBounds ==
    ASSUME HistoryInv, BoundsInv, MaxDeliveries \in Nat, MaxNow \in Nat,
           NEW j \in Job, NEW d \in DOMAIN delivery[j],
           \/ M!ReadRow(j, d, "look", "record") \/ M!ReadRow(j, d, "read", "activate")
           \/ M!Work(j, d) \/ M!Die(j, d)
    PROVE  BoundsInv'
<1>1. /\ delivery[j] \in Seq(DeliveryRow) /\ delivery[j][d] \in DeliveryRow
      /\ row[j] \in HistoryRow /\ HistoryType
    BY DEF HistoryInv, HistoryType
<1>2. delivery[j][d].began \in Time
    BY <1>1 DEF DeliveryRow
<1>3. now' = now /\ row' = row
    BY DEF M!ReadRow, M!Work, M!Die
<1>4. PICK to \in Places \cup {"dead"}, saw \in {row[j], M!NoRow} :
        /\ Moved(j, d, to, saw, delivery[j][d].began) /\ Forward(j, d, to)
        /\ to = "record" => saw = row[j]
  <2>1. CASE M!Work(j, d) \/ M!Die(j, d)
    <3>1. PICK to \in {"complete", "rescue", "dead"} : M!Goto(j, d, to)
      BY <2>1 DEF M!Work, M!Die
    <3>2. Moved(j, d, to, M!NoRow, delivery[j][d].began)
      BY <1>1, <3>1, GotoMoves DEF Places
    <3> QED
      BY <3>2 DEF Forward, Early, Places
  <2>2. ASSUME NEW to \in {"record", "activate"},
               M!ReadRow(j, d, IF to = "record" THEN "look" ELSE "read", to)
        PROVE  Moved(j, d, to, row[j], delivery[j][d].began) /\ Forward(j, d, to)
    <3>1. PICK one : /\ one = [delivery[j][d] EXCEPT !.at = to, !.saw = row[j]]
                     /\ delivery' = [delivery EXCEPT ![j] = [delivery[j] EXCEPT ![d] = one]]
                     /\ delivery[j][d].at = IF to = "record" THEN "look" ELSE "read"
      BY <2>2 DEF M!ReadRow
    <3>2. /\ one = [at |-> to, saw |-> row[j], began |-> delivery[j][d].began,
                    alone |-> delivery[j][d].alone]
          /\ to \in Places
      BY <1>1, <3>1 DEF DeliveryRow, Places
    <3> QED
      BY <1>1, <1>2, <3>1, <3>2, MoveOne DEF Forward, Early
  <2>3. "record" \in Places /\ "activate" \in Places
    BY DEF Places
  <2> QED
    BY <2>1, <2>2, <2>3
<1>5. saw \in HistoryRow
    BY <1>1, NoRowIsARow
<1>6. RowIsBounded(j)'
    BY <1>1, <1>3, <1>4, UnwrittenStaysBounded
<1>7. row[j].attempts <= Allowed(j)
    BY DEF BoundsInv, HistoryIsBounded, RowIsBounded
<1>8. /\ to = "record" => saw.attempts <= Allowed(j)
      /\ \A k \in Job \ {j} : row'[k] = row[k]
    BY <1>3, <1>4, <1>7
<1> QED
    BY <1>1, <1>3, <1>4, <1>5, <1>6, <1>8, OneStepBounded

\* A delivery more has recorded nothing yet.
LEMMA DeliverKeepsBounds ==
    ASSUME HistoryInv, BoundsInv, MaxDeliveries \in Nat, NEW j \in Job, M!Deliver(j)
    PROVE  BoundsInv'
<1>1. /\ delivery[j] \in Seq(DeliveryRow) /\ HistoryType /\ now' = now /\ row' = row
      /\ Len(delivery[j]) < MaxDeliveries
    BY DEF HistoryInv, HistoryType, M!Deliver
<1>2. PICK lone : lone = \A d \in DOMAIN delivery[j] : delivery[j][d].at = "dead"
    OBVIOUS
<1>3. PICK one : /\ one = [at |-> "look", saw |-> M!NoRow, began |-> M!NoTime, alone |-> lone]
                 /\ delivery' = [delivery EXCEPT ![j] = Append(delivery[j], one)]
    BY <1>2 DEF M!Deliver
<1>4. PICK n : n = Len(delivery[j])
    OBVIOUS
<1>5. /\ delivery'[j] = Append(delivery[j], one)
      /\ \A k \in Job \ {j} : delivery'[k] = delivery[k]
    BY <1>1, <1>3 DEF HistoryType
<1>6. /\ Len(delivery'[j]) = n + 1 /\ n \in Nat
      /\ DOMAIN delivery'[j] = DOMAIN delivery[j] \cup {n + 1}
      /\ delivery'[j][n + 1] = one
      /\ \A d \in DOMAIN delivery[j] : d # n + 1 /\ delivery'[j][d] = delivery[j][d]
    BY <1>1, <1>4, <1>5
<1>7. one.at = "look"
    BY <1>3
<1>8. Allowed(j)' = Allowed(j)
  <2>1. Recorded(j)' = Recorded(j)
    BY <1>6, <1>7 DEF Recorded, Early
  <2> QED
    BY <2>1 DEF Allowed
<1>9. HistoryIsBounded(j)'
  <2>1. Len(delivery'[j]) <= MaxDeliveries
    BY <1>1, <1>4, <1>6
  <2>2. HistoryIsBounded(j)
    BY DEF BoundsInv
  <2>3. \A d \in DOMAIN delivery'[j] :
            delivery'[j][d].at = "record" => delivery'[j][d].saw.attempts <= Allowed(j)'
    BY <1>6, <1>7, <1>8, <2>2 DEF HistoryIsBounded
  <2> QED
    BY <1>1, <1>8, <2>1, <2>2, <2>3 DEF HistoryIsBounded, RowIsBounded
<1>10. ASSUME NEW k \in Job \ {j} PROVE HistoryIsBounded(k)'
  <2>1. row'[k] = row[k] /\ delivery'[k] = delivery[k] /\ HistoryIsBounded(k)
    BY <1>1, <1>5 DEF BoundsInv
  <2>2. Allowed(k)' = Allowed(k)
    BY <2>1 DEF Allowed, Recorded
  <2> QED
    BY <2>1, <2>2 DEF HistoryIsBounded, RowIsBounded
<1> QED
    BY <1>1, <1>9, <1>10 DEF BoundsInv

\* The bounds are kept by every step.
LEMMA BoundsInvInductive ==
    ASSUME MaxDeliveries \in Nat, MaxNow \in Nat, HistoryInv, BoundsInv, [M!Next]_M!vars
    PROVE  BoundsInv'
<1>1. CASE M!Tick
  <2>1. now' = now + 1 /\ now < MaxNow /\ now \in Nat /\ UNCHANGED <<row, delivery>>
    BY <1>1 DEF M!Tick, HistoryInv, HistoryType
  <2>2. \A k : Allowed(k)' = Allowed(k)
    BY <2>1 DEF Allowed, Recorded
  <2> QED
    BY <2>1, <2>2 DEF BoundsInv, HistoryIsBounded, RowIsBounded
<1>2. CASE UNCHANGED M!vars
  <2>1. UNCHANGED <<now, row, delivery>>
    BY <1>2 DEF M!vars
  <2>2. \A k : Allowed(k)' = Allowed(k)
    BY <2>1 DEF Allowed, Recorded
  <2> QED
    BY <2>1, <2>2 DEF BoundsInv, HistoryIsBounded, RowIsBounded
<1>3. ASSUME NEW j \in Job, M!Deliver(j) PROVE BoundsInv'
    BY <1>3, DeliverKeepsBounds
<1>4. ASSUME NEW j \in Job, NEW d \in DOMAIN delivery[j],
             \/ M!ReadRow(j, d, "look", "record") \/ M!ReadRow(j, d, "read", "activate")
             \/ M!Work(j, d) \/ M!Die(j, d)
      PROVE  BoundsInv'
    BY <1>4, ReadsKeepBounds
<1>5. ASSUME NEW j \in Job, NEW d \in DOMAIN delivery[j], M!Record(j, d) PROVE BoundsInv'
    BY <1>5, RecordKeepsBounds
<1>6. ASSUME NEW j \in Job, NEW d \in DOMAIN delivery[j],
             M!Activate(j, d) \/ M!Complete(j, d) \/ M!Rescue(j, d)
      PROVE  BoundsInv'
    BY <1>6, WritesKeepBounds
<1> QED
    BY <1>1, <1>2, <1>3, <1>4, <1>5, <1>6 DEF M!Next

\* The rows of the history have their type: their times are times of the clock, and
\* no row counts more attempts than twice the deliveries, one for each time a
\* delivery found the row there, and as many as there were when one failed.
THEOREM HistoryTyped ==
    ASSUME MaxDeliveries \in Nat, MaxNow \in Nat
    PROVE  M!Spec => []M!TypeOK
<1>1. M!Init => BoundsInv
  <2> SUFFICES ASSUME M!Init PROVE BoundsInv
    OBVIOUS
  <2>1. /\ now = 0
        /\ \A j \in Job : delivery[j] = <<>> /\ DOMAIN delivery[j] = {} /\ row[j] = M!NoRow
    BY DEF M!Init
  <2>2. /\ M!NoRow.queuedAt = -1 /\ M!NoRow.startedAt = -1 /\ M!NoRow.finishedAt = -1
        /\ M!NoRow.attempts = 0
    BY DEF M!NoRow, M!NoTime
  <2>3. ASSUME NEW j \in Job PROVE HistoryIsBounded(j)
    <3>1. Recorded(j) = {}
      BY <2>1 DEF Recorded
    <3>2. Allowed(j) = MaxDeliveries
      BY <3>1, FS_EmptySet DEF Allowed
    <3>3. Len(delivery[j]) = 0
      BY <2>1
    <3> QED
      BY <2>1, <2>2, <3>2, <3>3 DEF HistoryIsBounded, RowIsBounded
  <2> QED
    BY <2>1, <2>3 DEF BoundsInv
<1>2. HistoryInv /\ BoundsInv /\ [M!Next]_M!vars => BoundsInv'
    BY BoundsInvInductive
<1>3. HistoryInv /\ BoundsInv => M!TypeOK
  <2> SUFFICES ASSUME HistoryInv, BoundsInv PROVE M!TypeOK
    OBVIOUS
  <2>1. now \in 0 .. MaxNow
    BY DEF HistoryInv, HistoryType, BoundsInv
  <2>2. ASSUME NEW j \in Job PROVE row[j] \in M!Row
    <3>1. row[j] \in HistoryRow /\ delivery[j] \in Seq(DeliveryRow)
      BY DEF HistoryInv, HistoryType
    <3>2. /\ row[j].queuedAt \in M!Times /\ row[j].startedAt \in M!Times
          /\ row[j].finishedAt \in M!Times
      BY <3>1 DEF BoundsInv, HistoryIsBounded, RowIsBounded, HistoryRow, Time, M!Times,
                  M!NoTime, NoTime
    <3>3. row[j].attempts \in 0 .. 2 * MaxDeliveries
      <4>1. Recorded(j) \subseteq 1 .. Len(delivery[j]) /\ Len(delivery[j]) \in Nat
        BY <3>1 DEF Recorded
      <4>2. /\ IsFiniteSet(1 .. Len(delivery[j]))
            /\ Cardinality(1 .. Len(delivery[j])) = Len(delivery[j])
        BY <4>1, FS_Interval
      <4>3. Cardinality(Recorded(j)) <= Len(delivery[j]) /\ Cardinality(Recorded(j)) \in Nat
        BY <4>1, <4>2, FS_Subset, FS_CardinalityType
      <4>4. row[j].attempts <= Allowed(j) /\ Len(delivery[j]) <= MaxDeliveries
        BY DEF BoundsInv, HistoryIsBounded, RowIsBounded
      <4>5. row[j].attempts \in Nat
        BY <3>1 DEF HistoryRow
      <4> QED
        BY <4>1, <4>3, <4>4, <4>5 DEF Allowed
    <3> QED
      BY <3>1, <3>2, <3>3 DEF HistoryRow, M!Row
  <2>3. ASSUME NEW j \in Job, NEW d \in DOMAIN delivery[j]
        PROVE  delivery[j][d].at \in M!Places \cup {"ended", "dead"}
    <3>1. delivery[j] \in Seq(DeliveryRow)
      BY DEF HistoryInv, HistoryType
    <3>2. delivery[j][d] \in DeliveryRow
      BY <3>1
    <3> QED
      BY <3>2 DEF DeliveryRow, Places, M!Places
  <2> QED
    BY <2>1, <2>2, <2>3 DEF M!TypeOK
<1> QED
    BY <1>1, <1>2, <1>3, HistoryInvHolds, HistoryInvInductive, PTL DEF M!Spec

-----------------------------------------------------------------------------
(* Charts.                                                                  *)

CONSTANTS
    Query,      \* keys of the queries of one page
    NoName,     \* the label of a series is not there
    Replies,    \* answers of Prometheus
    Null        \* no value

VARIABLES
    answers,    \* the answers so far, by key
    charts,     \* the charts made so far, by key
    failed,     \* keys whose query failed
    response    \* what the service answers

R == INSTANCE Charts
INSTANCE ChartRows

\* Series in an order, with whole numbers for values; and no value is neither a
\* number nor what is shown of one.
RepliesAreSeries ==
    /\ \A series \in Replies :
          /\ \E S : series \in Seq(S)
          /\ \A k \in DOMAIN series : \A t \in DOMAIN series[k].values :
                series[k].values[t] \in Int
    /\ Null \notin Int /\ \A v, u : Null # [value |-> v, unit |-> u]

\* The instance has the same sums, and makes the same charts.
LEMMA SameSums == ASSUME NEW f PROVE R!SumFunction(f) = SumFunction(f)
BY DEF R!SumFunction, R!SumFunctionOnSet, R!FoldFunctionOnSet, R!MapThenFoldSet,
       SumFunction, SumFunctionOnSet, FoldFunctionOnSet, MapThenFoldSet

\* The same rows, split
LEMMA SameFlat == ASSUME NEW series PROVE R!Flat(series) = Flat(series)
<1>1. R!Instants(series) = Instants(series) /\ R!Columns(series) = Columns(series)
    BY DEF R!Instants, Instants, R!Columns, Columns
<1>2. ASSUME NEW n PROVE R!Filler(series, n) = Filler(series, n)
    BY DEF R!Filler, Filler, R!Max, Max
<1>3. ASSUME NEW s, NEW t PROVE R!ValueShown(s, t) = ValueShown(s, t)
    BY DEF R!ValueShown, ValueShown
<1> QED
    BY <1>1, <1>2, <1>3 DEF R!Flat, Flat

\* or summed up.
LEMMA SameTotal ==
    ASSUME NEW series, NEW column PROVE R!Total(series, column) = Total(series, column)
<1>1. R!Instants(series) = Instants(series)
    BY DEF R!Instants, Instants
<1>2. ASSUME NEW k, NEW t
      PROVE  R!Number(R!ValueShown(series[k], t)) = Number(ValueShown(series[k], t))
    BY DEF R!Number, Number, R!ValueShown, ValueShown
<1>3. ASSUME NEW t
      PROVE  R!SumFunction([k \in DOMAIN series |-> R!Number(R!ValueShown(series[k], t))])
                 = SumFunction([k \in DOMAIN series |-> Number(ValueShown(series[k], t))])
  <2>1. [k \in DOMAIN series |-> R!Number(R!ValueShown(series[k], t))]
            = [k \in DOMAIN series |-> Number(ValueShown(series[k], t))]
    BY <1>2
  <2> QED
    BY <2>1, SameSums
<1> QED
    BY <1>1, <1>3 DEF R!Total, Total

\* The keys of the instance are these.
LEMMA SameKeys ==
    ASSUME NEW q
    PROVE  /\ R!IsAggregatedMetric(q) <=> IsAggregatedMetric(q)
           /\ q \in R!InsightKeys <=> q \in InsightKeys
           /\ R!AggregationKey(q) = AggregationKey(q) /\ R!UnitOf(q) = UnitOf(q)
BY DEF R!IsAggregatedMetric, R!SummedInto, R!OperationOf, R!AggregationKey, R!UnitOf,
       R!InsightKeys, IsAggregatedMetric, SummedInto, OperationOf, AggregationKey,
       UnitOf, InsightKeys

\* The instance makes the same charts.
LEMMA SameCharts == ASSUME NEW q, NEW series PROVE R!Chart(q, series) = Chart(q, series)
<1>1. ASSUME NEW chart PROVE R!Formatted(q, chart) = Formatted(q, chart)
    BY SameKeys DEF R!Formatted, Formatted
<1>2. /\ R!InsightChart(series) = InsightChart(series)
      /\ R!MetricChart(q, series) = MetricChart(q, series)
    BY SameFlat, SameTotal, SameKeys DEF R!InsightChart, InsightChart, R!MetricChart, MetricChart
<1> QED
    BY <1>1, <1>2, SameKeys DEF R!Chart, Chart

\* What is shown of a value, as a number, is the value.
LEMMA ShownValue ==
    ASSUME RepliesAreSeries, NEW series \in Replies, NEW k \in DOMAIN series, NEW t
    PROVE  /\ ValueOf(series, k, t) \in Int
           /\ Number(ValueShown(series[k], t)) = ValueOf(series, k, t)
           /\ ValueShown(series[k], t) = Null <=> ValueOf(series, k, t) = 0
           /\ ValueShown(series[k], t) # Null => ValueShown(series[k], t) = ValueOf(series, k, t)
<1>1. t \in DOMAIN series[k].values => series[k].values[t] \in Int
    BY DEF RepliesAreSeries
<1>2. Null \notin Int
    BY DEF RepliesAreSeries
<1>3. CASE t \in DOMAIN series[k].values /\ series[k].values[t] # 0
  <2>1. ValueShown(series[k], t) = series[k].values[t]
    BY <1>3 DEF ValueShown
  <2>2. ValueOf(series, k, t) = series[k].values[t]
    BY <1>3 DEF ValueOf
  <2>3. series[k].values[t] # Null
    BY <1>1, <1>2, <1>3
  <2> QED
    BY <1>1, <1>3, <2>1, <2>2, <2>3 DEF Number
<1>4. CASE ~(t \in DOMAIN series[k].values /\ series[k].values[t] # 0)
  <2>1. ValueShown(series[k], t) = Null
    BY <1>4 DEF ValueShown
  <2>2. ValueOf(series, k, t) = 0
    BY <1>4 DEF ValueOf
  <2> QED
    BY <2>1, <2>2 DEF Number
<1> QED
    BY <1>3, <1>4

\* The values of a series at an instant.
ValuesAt(series, t) == [k \in DOMAIN series |-> ValueOf(series, k, t)]

\* They are finitely many numbers.
LEMMA ValuesAreNumbers ==
    ASSUME RepliesAreSeries, NEW series \in Replies, NEW t
    PROVE  /\ IsFiniteSet(DOMAIN series) /\ DOMAIN series \subseteq Nat
           /\ \A k \in DOMAIN series : ValuesAt(series, t)[k] = ValueOf(series, k, t)
           /\ \A k \in DOMAIN series : ValuesAt(series, t)[k] \in Int
           /\ SumFunction(ValuesAt(series, t)) = SumFunctionOnSet(ValuesAt(series, t), DOMAIN series)
           /\ SumFunction(ValuesAt(series, t)) \in Int
<1>1. PICK S : series \in Seq(S)
    BY DEF RepliesAreSeries
<1>2. DOMAIN series = 1 .. Len(series) /\ Len(series) \in Nat
    BY <1>1
<1>3. IsFiniteSet(DOMAIN series) /\ DOMAIN series \subseteq Nat
    BY <1>2, FS_Interval
<1>4. /\ \A k \in DOMAIN series : ValuesAt(series, t)[k] = ValueOf(series, k, t)
      /\ \A k \in DOMAIN series : ValuesAt(series, t)[k] \in Int
    BY ShownValue DEF ValuesAt
<1>5. SumFunction(ValuesAt(series, t)) = SumFunctionOnSet(ValuesAt(series, t), DOMAIN series)
    BY DEF SumFunction, ValuesAt
<1>6. SumFunctionOnSet(ValuesAt(series, t), DOMAIN series) \in Int
    BY <1>3, <1>4, SumAny
<1> QED
    BY <1>3, <1>4, <1>5, <1>6

\* A column of totals has the sum of the values.
LEMMA TotalsAddUp ==
    ASSUME RepliesAreSeries, NEW series \in Replies, NEW t \in Instants(series), NEW q, NEW column
    PROVE  SumOf(Formatted(q, Total(series, column))[t]) = SumFunction(ValuesAt(series, t))
<1>1. PICK total : total = SumFunction(ValuesAt(series, t))
    OBVIOUS
<1>2. total \in Int /\ total # Null
    BY <1>1, ValuesAreNumbers DEF RepliesAreSeries
<1>3. [k \in DOMAIN series |-> Number(ValueShown(series[k], t))] = ValuesAt(series, t)
    BY ShownValue DEF ValuesAt
<1>4. Total(series, column)[t] = [n \in {column} |-> total]
    BY <1>1, <1>3 DEF Total
<1>5. PICK shown : shown = [value |-> total, unit |-> UnitOf(q)]
    OBVIOUS
<1>6. shown # Null /\ shown.value = total
    BY <1>5 DEF RepliesAreSeries
<1>7. t \in DOMAIN Total(series, column)
    BY DEF Total
<1>8. Formatted(q, Total(series, column))[t] = [n \in {column} |-> shown]
    BY <1>2, <1>4, <1>5, <1>7 DEF Formatted
<1> DEFINE cells == [n \in {column} |-> shown]
           f == [n \in {m \in DOMAIN cells : cells[m] # Null} |-> cells[n].value]
<1>9. DOMAIN f = {column} /\ f[column] = total
    BY <1>6
<1>10. SumOf(cells) = SumFunction(f)
    BY DEF SumOf
<1>11. SumFunction(f) = SumFunctionOnSet(f, {column})
    BY <1>9 DEF SumFunction
<1>13. Formatted(q, Total(series, column))[t] = cells
    BY <1>8
<1> HIDE DEF f, cells
<1>12. SumFunctionOnSet(f, {column}) = total
  <2>1. /\ IsFiniteSet({column}) /\ IsFiniteSet({}) /\ {column} \ {column} = {}
    BY FS_Singleton, FS_EmptySet
  <2>2. \A x \in {column} : f[x] \in Int
    BY <1>2, <1>9
  <2>3. SumFunctionOnSet(f, {column}) = f[column] + SumFunctionOnSet(f, {column} \ {column})
    BY <2>1, <2>2, SumAny
  <2>4. SumFunctionOnSet(f, {}) = 0
    BY <2>1, SumSome
  <2>5. SumFunctionOnSet(f, {column} \ {column}) = 0
    BY <2>1, <2>4
  <2>6. SumFunctionOnSet(f, {column}) = f[column] + 0
    BY <2>3, <2>5
  <2> QED
    BY <1>2, <1>9, <2>6
<1>14. SumOf(Formatted(q, Total(series, column))[t]) = SumOf(cells)
    BY <1>13
<1> QED
    BY <1>1, <1>10, <1>11, <1>12, <1>14

\* One series fills the column of a name that no other series has.
LEMMA OneFiller ==
    ASSUME RepliesAreSeries, NEW series \in Replies, NEW k \in DOMAIN series, ToldApart(series)
    PROVE  /\ Filler(series, series[k].name) = k /\ series[k].name \in Columns(series)
           /\ \A n \in Columns(series) : \E l \in DOMAIN series : series[l].name = n
<1>1. {l \in DOMAIN series : series[l].name = series[k].name} = {k}
    BY DEF ToldApart
<1>2. k \in Nat
    BY ValuesAreNumbers
<1>3. Max({k}) = k
    BY <1>2 DEF Max
<1> QED
    BY <1>1, <1>3 DEF Filler, Columns, ToldApart

\* The columns of an instant have the values, whose names tell them apart.
LEMMA ColumnsAddUp ==
    ASSUME RepliesAreSeries, NEW series \in Replies, NEW t \in Instants(series), NEW q,
           ToldApart(series)
    PROVE  SumOf(Formatted(q, Flat(series))[t]) = SumFunction(ValuesAt(series, t))
<1> DEFINE cells == Formatted(q, Flat(series))[t]
           T == {m \in DOMAIN cells : cells[m] # Null}
           h == [n \in T |-> cells[n].value]
           b == [k \in DOMAIN series |-> series[k].name]
           f == ValuesAt(series, t)
<1>1. /\ t \in DOMAIN Flat(series)
      /\ Flat(series)[t] =
            [n \in Columns(series) |-> ValueShown(series[Filler(series, n)], t)]
    BY DEF Flat
<1>2. cells = [n \in Columns(series) |->
                  IF ValueShown(series[Filler(series, n)], t) = Null THEN Null
                  ELSE [value |-> ValueShown(series[Filler(series, n)], t), unit |-> UnitOf(q)]]
    BY <1>1 DEF Formatted
<1>3. ASSUME NEW k \in DOMAIN series
      PROVE  /\ b[k] \in Columns(series)
             /\ cells[b[k]] = (IF f[k] = 0 THEN Null ELSE [value |-> f[k], unit |-> UnitOf(q)])
  <2>1. Filler(series, series[k].name) = k /\ series[k].name \in Columns(series)
    BY OneFiller
  <2>2. f[k] = ValueOf(series, k, t)
    BY ValuesAreNumbers
  <2>3. /\ ValueShown(series[k], t) = Null <=> f[k] = 0
        /\ ValueShown(series[k], t) # Null => ValueShown(series[k], t) = f[k]
    BY <2>2, ShownValue
  <2> HIDE DEF cells, f
  <2> QED
    BY <1>2, <2>1, <2>3
<1>4. ASSUME NEW k \in DOMAIN series
      PROVE  f[k] = (IF b[k] \in T THEN h[b[k]] ELSE 0)
  <2>1. DOMAIN cells = Columns(series)
    BY <1>2
  <2>2. PICK shown : shown = [value |-> f[k], unit |-> UnitOf(q)]
    OBVIOUS
  <2>3. shown # Null /\ shown.value = f[k]
    BY <2>2 DEF RepliesAreSeries
  <2>4. b[k] \in Columns(series) /\ cells[b[k]] = (IF f[k] = 0 THEN Null ELSE shown)
    BY <1>3, <2>2
  <2> HIDE DEF cells, f, b
  <2> QED
    BY <2>1, <2>3, <2>4
<1>5. ASSUME NEW n \in T PROVE \E k \in DOMAIN series : b[k] = n
    BY <1>2 DEF Columns
<1>6. \A k, l \in DOMAIN series : b[k] = b[l] => k = l
    BY DEF ToldApart
<1>7. IsFiniteSet(DOMAIN series) /\ \A k \in DOMAIN series : f[k] \in Int
    BY ValuesAreNumbers
<1>8. IsFiniteSet(T)
  <2> DEFINE names == {b[k] : k \in DOMAIN series}
  <2>1. b \in Surjection(DOMAIN series, names)
    BY DEF Surjection
  <2>2. IsFiniteSet(names)
    BY <1>7, <2>1, FS_Surjection
  <2>3. T \subseteq names
    BY <1>5
  <2> HIDE DEF names, T
  <2> QED
    BY <2>2, <2>3, FS_Subset
<1>9. SumOf(cells) = SumFunctionOnSet(h, T)
    BY DEF SumOf, SumFunction
<1>10. SumFunction(f) = SumFunctionOnSet(f, DOMAIN series)
    BY ValuesAreNumbers
<1> HIDE DEF h, T, b, f, cells
<1>11. SumFunctionOnSet(f, DOMAIN series) = SumFunctionOnSet(h, T)
    BY <1>4, <1>5, <1>6, <1>7, <1>8, SumsMatch
<1> QED
    BY <1>9, <1>10, <1>11 DEF cells, f

\* An answer has the chart that is made of it.
ChartsInv ==
    \A q \in DOMAIN answers :
        /\ answers[q] \in Replies
        /\ q \in DOMAIN charts /\ charts[q] = Chart(q, answers[q])

\* Whatever is asked and answered, a chart that is summed up, or whose series are
\* told apart by their names, accounts for every value of its series.
THEOREM ChartsAddUp ==
    ASSUME RepliesAreSeries
    PROVE  R!Spec => []ChartsAccountForTheirSeries
<1>1. R!Init => ChartsInv
    BY DEF R!Init, ChartsInv
<1>2. ChartsInv /\ [R!Next]_R!vars => ChartsInv'
  <2> SUFFICES ASSUME ChartsInv, [R!Next]_R!vars PROVE ChartsInv'
    OBVIOUS
  <2>1. ASSUME NEW q \in Query, NEW series \in Replies, R!Succeed(q, series) PROVE ChartsInv'
    <3>1. R!Chart(q, series) = Chart(q, series)
      BY SameCharts
    <3>2. /\ DOMAIN answers' = DOMAIN answers \cup {q} /\ DOMAIN charts' = DOMAIN charts \cup {q}
          /\ answers'[q] = series /\ charts'[q] = Chart(q, series)
          /\ \A k \in DOMAIN answers \ {q} : answers'[k] = answers[k]
          /\ \A k \in DOMAIN charts \ {q} : charts'[k] = charts[k]
      BY <2>1, <3>1 DEF R!Succeed
    <3> QED
      BY <3>2 DEF ChartsInv
  <2>2. ASSUME NEW q \in Query, R!FailQuery(q) PROVE ChartsInv'
    <3>1. q \notin DOMAIN answers /\ answers' = answers
      BY <2>2 DEF R!FailQuery, R!Pending
    <3>2. DOMAIN charts' = DOMAIN charts \cup {q} /\ \A k \in DOMAIN charts \ {q} : charts'[k] = charts[k]
      BY <2>2 DEF R!FailQuery
    <3> QED
      BY <3>1, <3>2 DEF ChartsInv
  <2>3. CASE (R!Respond \/ UNCHANGED R!vars)
    BY <2>3 DEF R!Respond, R!vars, ChartsInv
  <2>4. ASSUME NEW q \in Query, R!ExecuteQuery(q) PROVE ChartsInv'
    <3>1. PICK reply \in R!Reply : R!Succeed(q, reply.series) \/ R!FailQuery(q)
      BY <2>4 DEF R!ExecuteQuery
    <3>2. reply.series \in Replies
      BY DEF R!Reply
    <3> QED
      BY <2>1, <2>2, <3>1, <3>2
  <2> QED
    BY <2>3, <2>4 DEF R!Next
<1>3. ChartsInv => ChartsAccountForTheirSeries
  <2> SUFFICES ASSUME ChartsInv, NEW q \in DOMAIN answers,
                      IsAggregatedMetric(q) \/ ToldApart(answers[q]),
                      NEW t \in Instants(answers[q])
               PROVE  SumOf(charts[q][t]) = SumFunction(ValuesAt(answers[q], t))
    BY DEF ChartsAccountForTheirSeries, ValuesAt
  <2>1. PICK series \in Replies : series = answers[q]
    BY DEF ChartsInv
  <2>2. charts[q] = Chart(q, series)
    BY <2>1 DEF ChartsInv
  <2>3. CASE IsAggregatedMetric(q)
    <3>1. q \notin InsightKeys
      BY <2>3 DEF IsAggregatedMetric, SummedInto, OperationOf, InsightKeys
    <3>2. charts[q] = Formatted(q, Total(series, AggregationKey(q)))
      BY <2>2, <2>3, <3>1 DEF Chart, MetricChart
    <3> QED
      BY <2>1, <3>2, TotalsAddUp
  <2>4. CASE ~IsAggregatedMetric(q)
    <3>1. charts[q] = Formatted(q, Flat(series))
      BY <2>2, <2>4 DEF Chart, MetricChart, InsightChart
    <3> QED
      BY <2>1, <2>4, <3>1, ColumnsAddUp
  <2> QED
    BY <2>3, <2>4
<1> QED
    BY <1>1, <1>2, <1>3, PTL DEF R!Spec

\* The state of the charts has its type: there is a chart for every query that was
\* answered or failed, an empty one for those, and for no other.
THEOREM ChartsTyped == R!Spec => []R!TypeOK
<1>1. R!Init => R!TypeOK
    BY DEF R!Init, R!TypeOK
<1>2. R!TypeOK /\ [R!Next]_R!vars => R!TypeOK'
  <2> SUFFICES ASSUME R!TypeOK, [R!Next]_R!vars PROVE R!TypeOK'
    OBVIOUS
  <2>1. ASSUME NEW q \in Query, R!ExecuteQuery(q) PROVE R!TypeOK'
    <3>1. PICK reply \in R!Reply : R!Succeed(q, reply.series) \/ R!FailQuery(q)
      BY <2>1 DEF R!ExecuteQuery
    <3>2. CASE R!Succeed(q, reply.series)
      BY <3>2 DEF R!Succeed, R!TypeOK
    <3>3. CASE R!FailQuery(q)
      BY <3>3 DEF R!FailQuery, R!TypeOK
    <3> QED
      BY <3>1, <3>2, <3>3
  <2>2. CASE R!Respond
    <3>1. /\ UNCHANGED <<answers, charts, failed>>
          /\ response' = {[key |-> q, error |-> q \in failed] : q \in DOMAIN charts}
      BY <2>2 DEF R!Respond
    <3>2. ASSUME NEW r \in response' PROVE r.key \in Query /\ r.error \in BOOLEAN
      <4>1. PICK q \in DOMAIN charts : r = [key |-> q, error |-> q \in failed]
        BY <3>1
      <4>2. (q \in failed) \in BOOLEAN
        OBVIOUS
      <4>3. r.key = q /\ r.error = (q \in failed)
        BY <4>1
      <4>4. q \in Query
        BY DEF R!TypeOK
      <4> QED
        BY <4>2, <4>3, <4>4
    <3> QED
      BY <3>1, <3>2 DEF R!TypeOK
  <2>3. CASE UNCHANGED R!vars
    BY <2>3 DEF R!vars, R!TypeOK
  <2> QED
    BY <2>1, <2>2, <2>3 DEF R!Next
<1> QED
    BY <1>1, <1>2, PTL DEF R!Spec
=============================================================================
