------------------------ MODULE InstanceLifecycleInv ------------------------
(***************************************************************************)
(* Inductive invariants of InstanceLifecycle, which make its properties    *)
(* follow one step at a time.  ServedInv holds for any number of queue     *)
(* processes; SoleInv needs the one process of docker-compose.yml.         *)
(***************************************************************************)
EXTENDS InstanceLifecycle

Busy(p) == pc[p] # "idle"

\* p runs a create job and is at one of the given steps.
Creating(p, S) == pc[p] \in S /\ cur[p].kind = "create"

AfterPersist == {"counts", "complete", "ack"}
AfterDns     == {"init", "initrun", "persist"} \cup AfterPersist
AfterStack   == {"dns"} \cup AfterDns
AfterReserve == {"secure", "stack"} \cup AfterStack

-----------------------------------------------------------------------------
(* Any number of processes *)

\* The job of a busy process is active, or done when only rescue is left.
JobOwned ==
    \A p \in Proc : Busy(p) =>
        jobState[cur[p]] = IF pc[p] = "rescue" THEN "done" ELSE "active"

\* No job is run by two processes.
JobExclusive ==
    \A p, q \in Proc : p # q /\ Busy(p) /\ Busy(q) => cur[p] # cur[q]

StepFitsJob ==
    \A p \in Proc :
        /\ pc[p] \in DeploySteps \cup {"cleanup"} => cur[p].kind = "create"
        /\ pc[p] \in DeleteSteps => cur[p].kind = "delete"

\* No row, no job; no delete call, no soft delete.
RowKnown ==
    \A i \in Instance :
        /\ status[i] = "NONE" => jobState[CreateJob(i)] = "none"
        /\ ~DeleteCalled(i) => ~gone[i]

\* The steps at which a job may find that it was COMPLETED before.
Closed == {"record", "ack", "failing", "rescue"}

\* A job that does something is not COMPLETED.
HistOpen ==
    \A p \in Proc : Busy(p) /\ pc[p] \notin Closed => hist[cur[p]] # "COMPLETED"

ConnUnique ==
    \A i, k \in Instance : i # k /\ conn[i] # 0 => conn[i] # conn[k]

Reserved ==
    \A p \in Proc :
        /\ pc[p] = "reserve" => port[p] # 0
        /\ Creating(p, AfterReserve) => port[p] # 0 /\ conn[Inst(p)] = port[p]

\* What the steps behind a create job have left, unless somebody deletes it.
Built ==
    \A p \in Proc : Busy(p) /\ ~DeleteCalled(Inst(p)) =>
        /\ Creating(p, AfterStack) => stack[Inst(p)] = port[p]
        /\ Creating(p, AfterDns) => dnsRow[Inst(p)] = "ACTIVE"
        /\ Creating(p, AfterPersist) => Served(Inst(p))

\* CompletedCreateIsServed and ServedPortsDistinct, made inductive: it also
\* says what a job in the middle of its steps owns and has left behind.
ServedInv ==
    /\ TypeOK
    /\ JobOwned /\ JobExclusive /\ StepFitsJob /\ RowKnown /\ HistOpen
    /\ ConnUnique /\ Reserved /\ Built
    /\ CompletedCreateIsServed

-----------------------------------------------------------------------------
(* One queue process *)

\* The port chosen is above every reserved one until it is reserved too.
PortFresh ==
    \A p \in Proc : pc[p] = "reserve" => \A k \in Instance : conn[k] < port[p]

\* A stack publishes the port its instance reserved last, or an earlier and
\* lower one, which nobody else has reserved.
StacksBelow ==
    \A i, k \in Instance :
        /\ stack[i] <= conn[i]
        /\ i # k /\ stack[i] # 0 => stack[i] # conn[k]

\* No deployment goes on for a soft-deleted instance.
DeployedRowExists ==
    \A p \in Proc : pc[p] \in DeploySteps \ {"load"} => ~gone[Inst(p)]

\* PublishedPortsDistinct and NoResurrection, made inductive.
SoleInv ==
    /\ ServedInv
    /\ PortFresh /\ StacksBelow /\ DeployedRowExists
    /\ PublishedPortsDistinct

\* The delete job removed the stack, if it could know of it, before it marks.
Removed ==
    \A p \in Proc : pc[p] \in {"dmark", "dsoft"} /\ dep[Inst(p)] => stack[Inst(p)] = 0

\* RecordedStackIsRemoved, made inductive.
RemovedInv == SoleInv /\ Removed /\ RecordedStackIsRemoved
=============================================================================
