----------------------- MODULE InstanceLifecycleProofs -----------------------
(***************************************************************************)
(* Theorems about InstanceLifecycle, for all sets of instances and all     *)
(* bounds.                                                                 *)
(***************************************************************************)
EXTENDS InstanceLifecycleInv, TLAPS

\* A job is a record of its kind and its instance.
LEMMA JobFields ==
    /\ \A j \in Job : j.inst \in Instance /\ j.kind \in Kinds
    /\ \A i \in Instance : /\ CreateJob(i) \in Job
                           /\ CreateJob(i).inst = i
                           /\ CreateJob(i).kind = "create"
    /\ \A j \in Job : j.kind = "create" => j = CreateJob(j.inst)
BY DEF Job, Kinds, CreateJob

\* A flag of one instance is set.
LEMMA SetFlag ==
    ASSUME NEW S, NEW f \in [S -> BOOLEAN], NEW x
    PROVE  [f EXCEPT ![x] = TRUE] \in [S -> BOOLEAN]
OBVIOUS

-----------------------------------------------------------------------------
(* Type correctness *)

\* The initial state is well typed,
LEMMA TypeInit == Init => TypeOK
BY LifecycleConstants DEF Init, TypeOK, Statuses, HistStates, JobStates, Secrets

\* and every step leaves it so.
LEMMA TypeStep == TypeOK /\ [Next]_vars => TypeOK'
<1> SUFFICES ASSUME TypeOK, [Next]_vars PROVE TypeOK'
    OBVIOUS
<1> USE LifecycleConstants, JobFields DEF TypeOK, rows, swarm, queue, worker, env
<1>1. ASSUME NEW i \in Instance, ApiCreate(i) PROVE TypeOK'
    BY <1>1 DEF ApiCreate, Statuses, JobStates
<1>2. ASSUME NEW j \in Job, ApiUpdate(j) PROVE TypeOK'
    BY <1>2 DEF ApiUpdate, JobStates
<1>3. ASSUME NEW j \in Job, ApiDelete(j) PROVE TypeOK'
    BY <1>3 DEF ApiDelete, Statuses, JobStates
<1>4. ASSUME NEW j \in Job, Dispatch(j) PROVE TypeOK'
    BY <1>4 DEF Dispatch, JobStates
<1>5. ASSUME NEW j \in Job, LoseDispatch(j) PROVE TypeOK'
    BY <1>5 DEF LoseDispatch, JobStates
<1>6. ASSUME NEW j \in Job, Redeliver(j) PROVE TypeOK'
    BY <1>6 DEF Redeliver, HistFailed, JobStates, HistStates
<1>7. ASSUME NEW p \in Proc, Crash(p) PROVE TypeOK'
    BY <1>7 DEF Crash, Idle, JobStates
<1>8. ASSUME NEW p \in Proc, ProcStep(p) PROVE TypeOK'
  <2> USE DEF Goto, At, Inst, Idle, Fault, Steps, DeploySteps, DeleteSteps, CommonSteps
  <2>1. CASE Take(p)
      BY <2>1 DEF Take, JobStates
  <2>10. CASE Record(p)
      BY <2>10 DEF Record, HistStates
  <2>2. CASE Activate(p)
      BY <2>2 DEF Activate, FirstStep, HistStates, Kinds
  <2>3. CASE Complete(p)
      BY <2>3 DEF Complete, HistStates
  <2>4. CASE Ack(p)
      BY <2>4 DEF Ack, JobStates
  <2>5. CASE FailJob(p)
      BY <2>5 DEF FailJob, JobStates
  <2>6. CASE Rescue(p)
      BY <2>6 DEF Rescue, HistFailed, HistStates
  <2>7. CASE StepThrows(p)
    <3>1. CASE At(p, "rescue")
      <4>1. Idle(p) /\ UNCHANGED <<rows, hist, swarm, queue, crashes>>
          BY <2>7, <3>1 DEF StepThrows
      <4>2. faults' \in Nat
          BY <2>7 DEF StepThrows
      <4> QED BY <4>1, <4>2
    <3>2. CASE ~At(p, "rescue")
      <4>1. Catch(pc[p]) \in Steps /\ pc' = [pc EXCEPT ![p] = Catch(pc[p])]
          BY <2>7, <3>2 DEF StepThrows, Catch
      <4>2. pc[p] # "idle" /\ UNCHANGED <<cur, port, rows, hist, swarm, queue, crashes>>
          BY <2>7, <3>2 DEF StepThrows
      <4>3. faults' \in Nat
          BY <2>7 DEF StepThrows
      <4> QED BY <4>1, <4>2, <4>3
    <3> QED BY <3>1, <3>2
  <2>8. CASE Deploy(p)
    <3>1. CASE Load(p)
        BY <3>1 DEF Load
    <3>2. CASE AllocatePort(p)
        BY <3>2 DEF AllocatePort, CandidatePorts
    <3>3. CASE ReservePort(p)
      <4>1. /\ pc[p] # "idle" /\ port[p] \in Ports \cup {0}
            /\ conn' = conn \/ conn' = [conn EXCEPT ![Inst(p)] = port[p]]
            /\ (\/ pc' = [pc EXCEPT ![p] = "cleanup"]
                \/ pc' = [pc EXCEPT ![p] = "secure"])
          BY <3>3 DEF ReservePort
      <4>2. conn' \in [Instance -> Ports \cup {0}]
          BY <4>1
      <4>3. UNCHANGED <<status, gone, creds, dep, dnsRow, hist, swarm, queue, cur, port, env>>
          BY <3>3 DEF ReservePort
      <4> QED BY <4>1, <4>2, <4>3
    <3>4. CASE Secure(p)
        BY <3>4 DEF Secure, TlsSecrets, Secrets
    <3>4a. CASE SecureFails(p)
        BY <3>4a DEF SecureFails, TlsSecrets, Secrets
    <3>5. CASE DeployStack(p)
        BY <3>5 DEF DeployStack, ReplicaSecrets, Secrets
    <3>6. CASE DeployStackFails(p)
        BY <3>6 DEF DeployStackFails, ReplicaSecrets, Secrets
    <3>7. CASE CreateDns(p)
        BY <3>7 DEF CreateDns
    <3>8. CASE CreateDnsFails(p)
        BY <3>8 DEF CreateDnsFails
    <3>9. CASE InitStart(p)
        BY <3>9 DEF InitStart, WriteStatus, Statuses
    <3>10. CASE InitDone(p)
        BY <3>10 DEF InitDone, WriteStatus, Statuses
    <3>11. CASE InitFails(p)
        BY <3>11 DEF InitFails, WriteStatus, Statuses
    <3>12. CASE Persist(p)
      <4>1. status' \in [Instance -> Statuses]
          BY <3>12 DEF Persist, Statuses
      <4>2. conn' \in [Instance -> Ports \cup {0}]
          BY <3>12 DEF Persist, Statuses
      <4>3. creds' \in [Instance -> BOOLEAN] /\ dep' \in [Instance -> BOOLEAN]
        <5>1. \/ creds' = creds /\ dep' = dep
              \/ /\ creds' = [creds EXCEPT ![Inst(p)] = TRUE]
                 /\ dep' = [dep EXCEPT ![Inst(p)] = TRUE]
            BY <3>12 DEF Persist
        <5>2. creds \in [Instance -> BOOLEAN] /\ dep \in [Instance -> BOOLEAN]
            OBVIOUS
        <5> QED BY ONLY <5>1, <5>2, SetFlag
      <4>4. pc[p] # "idle" /\ (\/ pc' = [pc EXCEPT ![p] = "cleanup"]
                              \/ pc' = [pc EXCEPT ![p] = "counts"])
          BY <3>12 DEF Persist
      <4>5. UNCHANGED <<gone, dnsRow, hist, swarm, queue, cur, port, env>>
          BY <3>12 DEF Persist
      <4> QED BY <4>1, <4>2, <4>3, <4>4, <4>5
    <3>13. CASE PersistRollsBack(p)
        BY <3>13 DEF PersistRollsBack
    <3>14. CASE FinishDeploy(p)
        BY <3>14 DEF FinishDeploy
    <3>15. CASE Cleanup(p)
      <4>1. /\ pc[p] # "idle" /\ pc' = [pc EXCEPT ![p] = "failing"]
            /\ stack' = stack \/ stack' = [stack EXCEPT ![Inst(p)] = 0]
            /\ (\/ secrets' = secrets
                \/ secrets' = [secrets EXCEPT ![Inst(p)] = @ \ CleanedSecrets])
          BY <3>15 DEF Cleanup
      <4>2. stack' \in [Instance -> Ports \cup {0}] /\ secrets' \in [Instance -> SUBSET Secrets]
          BY <4>1
      <4>3. UNCHANGED <<rows, hist, queue, cur, port, env>>
          BY <3>15 DEF Cleanup
      <4> QED BY <4>1, <4>2, <4>3
    <3>16. CASE CleanupFails(p)
        BY <3>16 DEF CleanupFails
    <3> QED
        BY <2>8, <3>1, <3>2, <3>3, <3>4, <3>4a, <3>5, <3>6, <3>7, <3>8, <3>9, <3>10, <3>11, <3>12, <3>13, <3>14, <3>15, <3>16 DEF Deploy
  <2>9. CASE Delete(p)
    <3>1. CASE LoadForDelete(p)
        BY <3>1 DEF LoadForDelete
    <3>2. CASE RemoveStack(p)
        BY <3>2 DEF RemoveStack
    <3>3. CASE RemoveStackFails(p)
        BY <3>3 DEF RemoveStackFails
    <3>4. CASE MarkDeleted(p)
      <4>1. status' \in [Instance -> Statuses]
          BY <3>4 DEF MarkDeleted, Statuses
      <4>2. pc[p] # "idle" /\ (\/ pc' = [pc EXCEPT ![p] = "failing"]
                              \/ pc' = [pc EXCEPT ![p] = "dsoft"])
          BY <3>4 DEF MarkDeleted
      <4>3. UNCHANGED <<gone, conn, creds, dep, dnsRow, hist, swarm, queue, cur, port, env>>
          BY <3>4 DEF MarkDeleted
      <4> QED BY <4>1, <4>2, <4>3
    <3>5. CASE SoftDelete(p)
      <4>1. gone' \in [Instance -> BOOLEAN]
        <5>1. gone' = gone \/ gone' = [gone EXCEPT ![Inst(p)] = TRUE]
            BY <3>5 DEF SoftDelete
        <5>2. gone \in [Instance -> BOOLEAN]
            OBVIOUS
        <5> QED BY ONLY <5>1, <5>2, SetFlag
      <4>2. pc[p] # "idle" /\ (\/ pc' = [pc EXCEPT ![p] = "failing"]
                              \/ pc' = [pc EXCEPT ![p] = "complete"])
          BY <3>5 DEF SoftDelete
      <4>3. UNCHANGED <<status, conn, creds, dep, dnsRow, hist, swarm, queue, cur, port, env>>
          BY <3>5 DEF SoftDelete
      <4> QED BY <4>1, <4>2, <4>3
    <3> QED
        BY <2>9, <3>1, <3>2, <3>3, <3>4, <3>5 DEF Delete
  <2> QED BY <1>8, <2>1, <2>2, <2>3, <2>4, <2>5, <2>6, <2>7, <2>8, <2>9, <2>10 DEF ProcStep
<1>9. CASE UNCHANGED vars
    BY <1>9 DEF vars
<1> QED
    BY <1>1, <1>2, <1>3, <1>4, <1>5, <1>6, <1>7, <1>8, <1>9 DEF Next

\* Every reachable state is well typed; a process that is not idle has a job.
THEOREM TypeCorrect == Spec => []TypeOK
BY TypeInit, TypeStep, PTL DEF Spec
-----------------------------------------------------------------------------
(* What one step of a process touches *)

\* Nothing of instance i changes.
SameInstance(i) ==
    /\ status'[i] = status[i] /\ gone'[i] = gone[i] /\ conn'[i] = conn[i]
    /\ creds'[i] = creds[i] /\ dep'[i] = dep[i] /\ dnsRow'[i] = dnsRow[i]
    /\ stack'[i] = stack[i]

\* A busy process touches only its own local state, the rows and the stack of
\* its own instance, and its own job; an update job touches no row, a delete
\* job only the status, deleted_at and the stack.
Local(p) ==
    /\ \A q \in Proc \ {p} : pc'[q] = pc[q] /\ cur'[q] = cur[q] /\ port'[q] = port[q]
    /\ \A i \in Instance \ {Inst(p)} : SameInstance(i)
    /\ \A j \in Job \ {cur[p]} : jobState'[j] = jobState[j] /\ hist'[j] = hist[j]
    /\ cur[p].kind # "create" => UNCHANGED <<conn, creds, dep, dnsRow>>
    /\ cur[p].kind = "update" => UNCHANGED <<rows, stack>>

\* A step of a queue process writes its own place and its own job.
LEMMA StepIsLocal ==
    ASSUME TypeOK, StepFitsJob, NEW p \in Proc, Busy(p), ProcStep(p)
    PROVE  Local(p)
<1>0. cur[p] \in Job /\ Inst(p) \in Instance /\ Kinds = {"create", "update", "delete"}
    BY JobFields DEF TypeOK, Busy, Inst, Kinds
<1> USE <1>0 DEF TypeOK, StepFitsJob, Local, SameInstance, Busy, Goto, At, Idle, Fault,
                 rows, swarm, queue, env, DeploySteps, DeleteSteps
<1>1. CASE Deploy(p)
    <2>1. CASE Load(p)
        BY <2>1 DEF Load
    <2>2. CASE AllocatePort(p)
        BY <2>2 DEF AllocatePort, CandidatePorts
    <2>3. CASE ReservePort(p)
        BY <2>3 DEF ReservePort
    <2>4. CASE Secure(p)
        BY <2>4 DEF Secure
    <2>4a. CASE SecureFails(p)
        BY <2>4a DEF SecureFails
    <2>5. CASE DeployStack(p)
        BY <2>5 DEF DeployStack
    <2>6. CASE DeployStackFails(p)
        BY <2>6 DEF DeployStackFails
    <2>7. CASE CreateDns(p)
        BY <2>7 DEF CreateDns
    <2>8. CASE CreateDnsFails(p)
        BY <2>8 DEF CreateDnsFails
    <2>9. CASE InitStart(p)
        BY <2>9 DEF InitStart, WriteStatus
    <2>10. CASE InitDone(p)
        BY <2>10 DEF InitDone, WriteStatus
    <2>11. CASE InitFails(p)
        BY <2>11 DEF InitFails, WriteStatus
    <2>12. CASE Persist(p)
        BY <2>12 DEF Persist
    <2>13. CASE PersistRollsBack(p)
        BY <2>13 DEF PersistRollsBack
    <2>14. CASE FinishDeploy(p)
        BY <2>14 DEF FinishDeploy
    <2>15. CASE Cleanup(p)
        BY <2>15 DEF Cleanup
    <2>16. CASE CleanupFails(p)
        BY <2>16 DEF CleanupFails
  <2> QED
      BY <1>1, <2>1, <2>2, <2>3, <2>4, <2>4a, <2>5, <2>6, <2>7, <2>8, <2>9, <2>10, <2>11, <2>12, <2>13, <2>14, <2>15, <2>16 DEF Deploy
<1>2. CASE Delete(p)
    <2>1. CASE LoadForDelete(p)
        BY <2>1 DEF LoadForDelete
    <2>2. CASE RemoveStack(p)
        BY <2>2 DEF RemoveStack
    <2>3. CASE RemoveStackFails(p)
        BY <2>3 DEF RemoveStackFails
    <2>4. CASE MarkDeleted(p)
        BY <2>4 DEF MarkDeleted
    <2>5. CASE SoftDelete(p)
        BY <2>5 DEF SoftDelete
  <2> QED
      BY <1>2, <2>1, <2>2, <2>3, <2>4, <2>5 DEF Delete
<1>3. CASE Activate(p)
    BY <1>3 DEF Activate, FirstStep
<1>4. CASE Complete(p)
    BY <1>4 DEF Complete
<1>5. CASE Ack(p)
    BY <1>5 DEF Ack
<1>6. CASE FailJob(p)
    BY <1>6 DEF FailJob
<1>7. CASE Rescue(p)
    BY <1>7 DEF Rescue, HistFailed
<1>8. CASE StepThrows(p)
    BY <1>8 DEF StepThrows, Catch
<1>9. CASE Record(p)
    BY <1>9 DEF Record
<1>10. ~Take(p)
    BY DEF Take
<1> QED
    BY <1>1, <1>2, <1>3, <1>4, <1>5, <1>6, <1>7, <1>8, <1>9, <1>10 DEF ProcStep

\* What a busy process does to its own job: it goes on with it, or leaves it.
OwnStep(p) ==
    \/ /\ pc'[p] \in Steps /\ cur' = cur
       /\ jobState'[cur[p]] = IF pc'[p] = "rescue" THEN "done" ELSE "active"
       /\ pc'[p] \in DeploySteps \cup {"cleanup"} => cur[p].kind = "create"
       /\ pc'[p] \in DeleteSteps => cur[p].kind = "delete"
       /\ pc'[p] \notin Closed => hist'[cur[p]] # "COMPLETED"
    \/ /\ pc'[p] = "idle" /\ cur'[p] = NoJob
       /\ jobState'[cur[p]] = "done"

\* A COMPLETED job has just run to its end, or was COMPLETED before and its
\* process touches no row.
CompletedStep(p) ==
    hist'[cur[p]] = "COMPLETED" =>
        UNCHANGED <<rows, stack>> /\ (pc[p] = "complete" \/ hist[cur[p]] = "COMPLETED")

\* What a step of a process does to its job and to the history.
LEMMA StepOfOwnJob ==
    ASSUME TypeOK, JobOwned, StepFitsJob, HistOpen,
           NEW p \in Proc, Busy(p), ProcStep(p)
    PROVE  OwnStep(p) /\ CompletedStep(p)
<1>0. cur[p] \in Job /\ Inst(p) \in Instance /\ cur[p].kind \in {"create", "update", "delete"}
    BY JobFields DEF TypeOK, Busy, Inst, Kinds
<1> USE <1>0 DEF TypeOK, JobOwned, StepFitsJob, HistOpen, Closed, OwnStep, CompletedStep, Busy, Goto, At, Idle,
                 Fault, rows, swarm, queue, Steps, DeploySteps, DeleteSteps, CommonSteps
<1>1. CASE Deploy(p)
  <2>1. CASE Load(p)
      BY <2>1 DEF Load
  <2>2. CASE AllocatePort(p)
      BY <2>2 DEF AllocatePort
  <2>3. CASE ReservePort(p)
      BY <2>3 DEF ReservePort
  <2>4. CASE Secure(p)
      BY <2>4 DEF Secure
  <2>4a. CASE SecureFails(p)
      BY <2>4a DEF SecureFails
  <2>5. CASE DeployStack(p)
      BY <2>5 DEF DeployStack
  <2>6. CASE DeployStackFails(p)
      BY <2>6 DEF DeployStackFails
  <2>7. CASE CreateDns(p)
      BY <2>7 DEF CreateDns
  <2>8. CASE CreateDnsFails(p)
      BY <2>8 DEF CreateDnsFails
  <2>9. CASE InitStart(p)
      BY <2>9 DEF InitStart
  <2>10. CASE InitDone(p)
      BY <2>10 DEF InitDone
  <2>11. CASE InitFails(p)
      BY <2>11 DEF InitFails
  <2>12. CASE Persist(p)
      BY <2>12 DEF Persist
  <2>13. CASE PersistRollsBack(p)
      BY <2>13 DEF PersistRollsBack
  <2>14. CASE FinishDeploy(p)
      BY <2>14 DEF FinishDeploy
  <2>15. CASE Cleanup(p)
      BY <2>15 DEF Cleanup
  <2>16. CASE CleanupFails(p)
      BY <2>16 DEF CleanupFails
  <2> QED
      BY <1>1, <2>1, <2>2, <2>3, <2>4, <2>4a, <2>5, <2>6, <2>7, <2>8, <2>9, <2>10, <2>11, <2>12, <2>13, <2>14, <2>15, <2>16 DEF Deploy
<1>2. CASE Delete(p)
  <2>1. CASE LoadForDelete(p)
      BY <2>1 DEF LoadForDelete
  <2>2. CASE RemoveStack(p)
      BY <2>2 DEF RemoveStack
  <2>3. CASE RemoveStackFails(p)
      BY <2>3 DEF RemoveStackFails
  <2>4. CASE MarkDeleted(p)
      BY <2>4 DEF MarkDeleted
  <2>5. CASE SoftDelete(p)
      BY <2>5 DEF SoftDelete
  <2> QED
      BY <1>2, <2>1, <2>2, <2>3, <2>4, <2>5 DEF Delete
<1>3. CASE Activate(p)
    BY <1>3 DEF Activate, FirstStep
<1>4. CASE Complete(p)
    BY <1>4 DEF Complete
<1>5. CASE Ack(p)
    BY <1>5 DEF Ack
<1>6. CASE FailJob(p)
    BY <1>6 DEF FailJob
<1>7. CASE Rescue(p)
    BY <1>7 DEF Rescue, HistFailed
<1>8. CASE StepThrows(p)
    BY <1>8 DEF StepThrows, Catch
<1>9. CASE Record(p)
    BY <1>9 DEF Record
<1>10. ~Take(p)
    BY DEF Take
<1> QED
    BY <1>1, <1>2, <1>3, <1>4, <1>5, <1>6, <1>7, <1>8, <1>9, <1>10 DEF ProcStep

-----------------------------------------------------------------------------
(* ServedInv is inductive *)

\* The API and BullMQ touch only jobs that no process runs and that are not done.
OnlyQueued ==
    /\ UNCHANGED <<pc, cur, port>>
    /\ \A j \in Job : /\ jobState[j] \in {"active", "done"} => jobState'[j] = jobState[j]
                      /\ jobState[j] # "none" => jobState'[j] # "none"
                      /\ hist'[j] = "COMPLETED" => hist[j] = "COMPLETED"

\* The actions of the API and of BullMQ.
QueueStep ==
    \/ \E i \in Instance : ApiCreate(i)
    \/ \E j \in Job : ApiUpdate(j) \/ ApiDelete(j)
                      \/ Dispatch(j) \/ LoseDispatch(j) \/ Redeliver(j)

\* A step of the queue or of the API leaves busy processes alone.
LEMMA QueueStepIsLocal ==
    ASSUME TypeOK, RowKnown, QueueStep
    PROVE  OnlyQueued
<1> USE JobFields DEF TypeOK, worker, OnlyQueued, HistStates
<1>1. ASSUME NEW i \in Instance, ApiCreate(i) PROVE OnlyQueued
    BY <1>1 DEF ApiCreate, RowKnown
<1>2. ASSUME NEW j \in Job, ApiUpdate(j) PROVE OnlyQueued
    BY <1>2 DEF ApiUpdate
<1>3. ASSUME NEW j \in Job, ApiDelete(j) PROVE OnlyQueued
    BY <1>3 DEF ApiDelete
<1>4. ASSUME NEW j \in Job, Dispatch(j) PROVE OnlyQueued
    BY <1>4 DEF Dispatch
<1>5. ASSUME NEW j \in Job, LoseDispatch(j) PROVE OnlyQueued
    BY <1>5 DEF LoseDispatch
<1>6. ASSUME NEW j \in Job, Redeliver(j) PROVE OnlyQueued
    BY <1>6 DEF Redeliver, HistFailed
<1> QED
    BY <1>1, <1>2, <1>3, <1>4, <1>5, <1>6 DEF QueueStep

\* The steps, sorted by who takes them.
LEMMA NextCases ==
    ASSUME [Next]_vars
    PROVE  \/ QueueStep
           \/ \E p \in Proc : Busy(p) /\ ProcStep(p)
           \/ \E p \in Proc : Take(p)
           \/ \E p \in Proc : Crash(p)
           \/ UNCHANGED vars
<1>1. ASSUME NEW p \in Proc, ProcStep(p), ~Busy(p) PROVE Take(p)
    BY <1>1 DEF ProcStep, Busy, Deploy, Delete, At, Record, Activate, Complete, Ack, FailJob,
       Rescue, StepThrows, Load, AllocatePort, ReservePort, Secure, SecureFails, DeployStack,
       DeployStackFails, CreateDns, CreateDnsFails, InitStart, InitDone, InitFails,
       Persist, PersistRollsBack, FinishDeploy, Cleanup, CleanupFails, LoadForDelete,
       RemoveStack, RemoveStackFails, MarkDeleted, SoftDelete
<1> QED
    BY <1>1 DEF Next, QueueStep

\* Who runs which job, and where its history stands.
Ownership == JobOwned /\ JobExclusive /\ StepFitsJob /\ HistOpen

\* Every step keeps who owns which job.
LEMMA OwnershipStep ==
    ASSUME TypeOK, TypeOK', RowKnown, Ownership, [Next]_vars
    PROVE  Ownership'
<1>1. CASE QueueStep
  <2>1. OnlyQueued
      BY <1>1, QueueStepIsLocal
  <2> QED
      BY <2>1 DEF OnlyQueued, Ownership, JobOwned, JobExclusive, StepFitsJob, HistOpen,
         Closed, Busy, TypeOK
<1>2. ASSUME NEW p \in Proc, Busy(p), ProcStep(p) PROVE Ownership'
  <2>1. Local(p) /\ OwnStep(p)
      BY <1>2, StepIsLocal, StepOfOwnJob DEF Ownership
  <2>2. \A q \in Proc \ {p} : Busy(q) => cur[q] # cur[p] /\ cur[q] \in Job
      BY <1>2 DEF Ownership, JobExclusive, TypeOK, Busy
  <2>3. cur[p] \in Job
      BY <1>2 DEF TypeOK, Busy
  <2>4. JobOwned'
      BY <2>1, <2>2, <2>3 DEF Local, OwnStep, Ownership, JobOwned, Busy, TypeOK
  <2>5. JobExclusive'
      BY <2>1, <2>2, <2>3 DEF Local, OwnStep, Ownership, JobExclusive, Busy, TypeOK
  <2>6. StepFitsJob'
      BY <2>1, <2>2, <2>3 DEF Local, OwnStep, Ownership, StepFitsJob, TypeOK,
         DeploySteps, DeleteSteps
  <2>7. HistOpen'
      BY <2>1, <2>2, <2>3 DEF Local, OwnStep, Ownership, HistOpen, Closed, Busy, TypeOK
  <2> QED
      BY <2>4, <2>5, <2>6, <2>7 DEF Ownership
<1>3. ASSUME NEW p \in Proc, Take(p) PROVE Ownership'
  <2>1. PICK j \in Job : /\ jobState[j] = "waiting"
                         /\ jobState' = [jobState EXCEPT ![j] = "active"]
                         /\ cur' = [cur EXCEPT ![p] = j]
                         /\ hist' = hist
      BY <1>3 DEF Take
  <2>2. pc' = [pc EXCEPT ![p] = "record"] /\ pc[p] = "idle"
      BY <1>3 DEF Take, Goto, At
  <2>3. \A q \in Proc : Busy(q) => cur[q] # j /\ cur[q] \in Job /\ q # p
      BY <2>1, <2>2 DEF Ownership, JobOwned, Busy, TypeOK
  <2> QED
      BY <2>1, <2>2, <2>3 DEF Ownership, JobOwned, JobExclusive, StepFitsJob, HistOpen,
         Closed, Busy, TypeOK, DeploySteps, DeleteSteps
<1>4. ASSUME NEW p \in Proc, Crash(p) PROVE Ownership'
  <2>1. \A q \in Proc \ {p} : Busy(q) => cur[q] # cur[p] /\ cur[q] \in Job
      BY <1>4 DEF Ownership, JobExclusive, TypeOK, Busy, Crash
  <2> QED
      BY <1>4, <2>1 DEF Crash, Idle, Ownership, JobOwned, JobExclusive, StepFitsJob,
         HistOpen, Closed, Busy, TypeOK, DeploySteps, DeleteSteps
<1>5. CASE UNCHANGED vars
    BY <1>5 DEF vars, queue, worker, Ownership, JobOwned, JobExclusive, StepFitsJob,
       HistOpen, Busy
<1> QED
    BY <1>1, <1>2, <1>3, <1>4, <1>5, NextCases

\* No job is forgotten, so a delete call is never forgotten either.
LEMMA DeleteCalledStays ==
    ASSUME TypeOK, TypeOK', RowKnown, Ownership, [Next]_vars
    PROVE  \A j \in Job : jobState[j] # "none" => jobState'[j] # "none"
<1>1. CASE QueueStep
    BY <1>1, QueueStepIsLocal DEF OnlyQueued
<1>2. ASSUME NEW p \in Proc, Busy(p), ProcStep(p), NEW j \in Job
      PROVE  jobState[j] # "none" => jobState'[j] # "none"
  <2>1. Local(p) /\ OwnStep(p)
      BY <1>2, StepIsLocal, StepOfOwnJob DEF Ownership
  <2> QED
      BY <2>1 DEF Local, OwnStep
<1>3. CASE \E p \in Proc : Take(p)
    BY <1>3 DEF Take, TypeOK
<1>4. CASE \E p \in Proc : Crash(p)
    BY <1>4 DEF Crash, TypeOK
<1>5. CASE UNCHANGED vars
    BY <1>5 DEF vars, queue
<1> QED
    BY <1>1, <1>2, <1>3, <1>4, <1>5, NextCases

\* What the API and BullMQ may do to the rows of an instance.
OnlyStatus ==
    /\ UNCHANGED <<gone, conn, creds, dep, dnsRow, stack>>
    /\ \A i \in Instance : \/ status'[i] = status[i]
                           \/ status[i] = "NONE" /\ status'[i] # "NONE"
                           \/ DeleteCalled(i)' /\ status'[i] # "NONE"

\* Of a row that is there a step of the queue or of the API writes the status.
LEMMA QueueStepRows ==
    ASSUME TypeOK, QueueStep
    PROVE  /\ OnlyStatus
           /\ \A i \in Instance : jobState[CreateJob(i)] = "none" =>
                  \/ jobState'[CreateJob(i)] = "none"
                  \/ status'[i] # "NONE"
<1> DEFINE Goal == /\ OnlyStatus
                   /\ \A i \in Instance : jobState[CreateJob(i)] = "none" =>
                          \/ jobState'[CreateJob(i)] = "none"
                          \/ status'[i] # "NONE"
<1> USE JobFields DEF TypeOK, rows, swarm, OnlyStatus
<1>1. ASSUME NEW i \in Instance, ApiCreate(i) PROVE Goal
    BY <1>1 DEF ApiCreate
<1>2. ASSUME NEW j \in Job, ApiUpdate(j) PROVE Goal
    BY <1>2 DEF ApiUpdate
<1>3. ASSUME NEW j \in Job, ApiDelete(j) PROVE Goal
  <2>1. DeleteCalled(j.inst)'
      BY <1>3 DEF ApiDelete, DeleteCalled
  <2> QED
      BY <1>3, <2>1 DEF ApiDelete
<1>4. ASSUME NEW j \in Job, Dispatch(j) \/ LoseDispatch(j) PROVE Goal
    BY <1>4 DEF Dispatch, LoseDispatch
<1>5. ASSUME NEW j \in Job, Redeliver(j) PROVE Goal
    BY <1>5 DEF Redeliver
<1> QED
    BY <1>1, <1>2, <1>3, <1>4, <1>5 DEF QueueStep

\* A busy delete job is a delete call.
LEMMA DeletingIsCalled ==
    ASSUME TypeOK, JobOwned, NEW p \in Proc, Busy(p), cur[p].kind = "delete"
    PROVE  DeleteCalled(Inst(p))
BY DEF TypeOK, JobOwned, Busy, DeleteCalled, Inst

\* A step of p writes no status NONE, and soft-deletes in a delete job only.
LEMMA StepKeepsRow ==
    ASSUME TypeOK, StepFitsJob, NEW p \in Proc, Busy(p), ProcStep(p)
    PROVE  /\ \A i \in Instance : status'[i] = "NONE" => status[i] = "NONE"
           /\ cur[p].kind # "delete" => gone' = gone
<1>0. cur[p] \in Job /\ Inst(p) \in Instance
    BY JobFields DEF TypeOK, Busy, Inst
<1> USE <1>0 DEF TypeOK, StepFitsJob, Busy, At, rows, DeleteSteps
<1>1. CASE Delete(p)
    BY <1>1 DEF Delete, LoadForDelete, RemoveStack, RemoveStackFails, MarkDeleted, SoftDelete
<1>2. CASE InitStart(p) \/ InitDone(p) \/ InitFails(p)
    BY <1>2 DEF InitStart, InitDone, InitFails, WriteStatus
<1>3. CASE Persist(p)
    BY <1>3 DEF Persist
<1>4. CASE Deploy(p) /\ ~(InitStart(p) \/ InitDone(p) \/ InitFails(p) \/ Persist(p))
    BY <1>4 DEF Deploy, Load, AllocatePort, ReservePort, Secure, SecureFails, DeployStack,
       DeployStackFails, CreateDns, CreateDnsFails, PersistRollsBack, FinishDeploy,
       Cleanup, CleanupFails
<1>5. CASE \/ Record(p) \/ Activate(p) \/ Complete(p) \/ Ack(p) \/ FailJob(p)
           \/ Rescue(p) \/ StepThrows(p)
    BY <1>5 DEF Record, Activate, Complete, Ack, FailJob, Rescue, StepThrows
<1>6. ~Take(p)
    BY DEF Take
<1> QED
    BY <1>1, <1>2, <1>3, <1>4, <1>5, <1>6 DEF ProcStep

\* Every step keeps what is known of the row.
LEMMA RowKnownStep ==
    ASSUME TypeOK, TypeOK', RowKnown, Ownership, [Next]_vars
    PROVE  RowKnown'
<1>0. \A i \in Instance : DeleteCalled(i) => DeleteCalled(i)'
    BY DeleteCalledStays DEF DeleteCalled
<1>1. CASE QueueStep
  <2>1. \A i \in Instance : status'[i] = "NONE" => status[i] = "NONE"
      BY <1>1, QueueStepRows DEF OnlyStatus
  <2> QED
      BY <1>0, <1>1, <2>1, QueueStepRows DEF OnlyStatus, RowKnown
<1>2. ASSUME NEW p \in Proc, Busy(p), ProcStep(p) PROVE RowKnown'
  <2>1. Local(p) /\ OwnStep(p)
      BY <1>2, StepIsLocal, StepOfOwnJob DEF Ownership
  <2>2. jobState[cur[p]] # "none" /\ cur[p] \in Job
      BY <1>2 DEF Ownership, JobOwned, TypeOK, Busy
  <2>3. \A i \in Instance : status'[i] = "NONE" => status[i] = "NONE"
      BY <1>2, StepKeepsRow DEF Ownership
  <2>4. \A i \in Instance : status'[i] = "NONE" => jobState'[CreateJob(i)] = "none"
      BY <2>1, <2>2, <2>3, JobFields DEF RowKnown, Local
  <2>5. \A i \in Instance : ~DeleteCalled(i)' => ~gone'[i]
      BY <1>0, <1>2, <2>1, StepKeepsRow, DeletingIsCalled
         DEF RowKnown, Local, SameInstance, Ownership
  <2> QED
      BY <2>4, <2>5 DEF RowKnown
<1>3. ASSUME NEW p \in Proc, Take(p) PROVE RowKnown'
    BY <1>0, <1>3, JobFields DEF Take, RowKnown, rows, TypeOK
<1>4. ASSUME NEW p \in Proc, Crash(p) PROVE RowKnown'
    BY <1>0, <1>4, JobFields DEF Crash, RowKnown, rows, TypeOK
<1>5. CASE UNCHANGED vars
    BY <1>0, <1>5 DEF vars, rows, queue, RowKnown
<1> QED
    BY <1>1, <1>2, <1>3, <1>4, <1>5, NextCases

\* What a create job at p does to its port and to the connection of its instance.
OwnPort(p) ==
    /\ pc'[p] = "reserve" => port'[p] # 0
    /\ Creating(p, AfterReserve)' => port'[p] # 0 /\ conn'[Inst(p)] = port'[p]
    /\ \/ conn'[Inst(p)] = conn[Inst(p)]
       \/ /\ conn'[Inst(p)] = port[p]
          /\ \A k \in Instance \ {Inst(p)} : conn[k] # port[p]

\* A step of a create job writes the port of its own instance only.
LEMMA StepOfOwnPort ==
    ASSUME TypeOK, StepFitsJob, Reserved, ConnUnique,
           NEW p \in Proc, Busy(p), cur[p].kind = "create", ProcStep(p)
    PROVE  OwnPort(p)
<1>0. cur[p] \in Job /\ Inst(p) \in Instance /\ 0 \notin Ports
    BY JobFields, LifecycleConstants DEF TypeOK, Busy, Inst, Ports
<1> USE <1>0 DEF TypeOK, StepFitsJob, Reserved, ConnUnique, OwnPort, Creating, Busy, Goto,
                 At, Inst, rows, AfterReserve, AfterStack, AfterDns, AfterPersist
<1>1. CASE Deploy(p)
  <2>1. CASE Load(p)
      BY <2>1 DEF Load
  <2>2. CASE AllocatePort(p)
      BY <2>2 DEF AllocatePort, CandidatePorts
  <2>3. CASE ReservePort(p)
      BY <2>3 DEF ReservePort
  <2>4. CASE Secure(p)
      BY <2>4 DEF Secure
  <2>4a. CASE SecureFails(p)
      BY <2>4a DEF SecureFails
  <2>5. CASE DeployStack(p)
      BY <2>5 DEF DeployStack
  <2>6. CASE DeployStackFails(p)
      BY <2>6 DEF DeployStackFails
  <2>7. CASE CreateDns(p)
      BY <2>7 DEF CreateDns
  <2>8. CASE CreateDnsFails(p)
      BY <2>8 DEF CreateDnsFails
  <2>9. CASE InitStart(p)
      BY <2>9 DEF InitStart
  <2>10. CASE InitDone(p)
      BY <2>10 DEF InitDone
  <2>11. CASE InitFails(p)
      BY <2>11 DEF InitFails
  <2>12. CASE Persist(p)
      BY <2>12 DEF Persist
  <2>13. CASE PersistRollsBack(p)
      BY <2>13 DEF PersistRollsBack
  <2>14. CASE FinishDeploy(p)
      BY <2>14 DEF FinishDeploy
  <2>15. CASE Cleanup(p)
      BY <2>15 DEF Cleanup
  <2>16. CASE CleanupFails(p)
      BY <2>16 DEF CleanupFails
  <2> QED
      BY <1>1, <2>1, <2>2, <2>3, <2>4, <2>4a, <2>5, <2>6, <2>7, <2>8, <2>9, <2>10, <2>11, <2>12, <2>13, <2>14, <2>15, <2>16 DEF Deploy
<1>2. ~Delete(p)
    BY DEF Delete, DeleteSteps, LoadForDelete, RemoveStack, RemoveStackFails, MarkDeleted,
       SoftDelete
<1>3. CASE Activate(p)
    BY <1>3 DEF Activate, FirstStep
<1>4. CASE Complete(p)
    BY <1>4 DEF Complete
<1>5. CASE Ack(p)
    BY <1>5 DEF Ack, Idle
<1>6. CASE FailJob(p)
    BY <1>6 DEF FailJob
<1>7. CASE Rescue(p)
    BY <1>7 DEF Rescue, Idle
<1>8. CASE StepThrows(p)
    BY <1>8 DEF StepThrows, Catch, Idle
<1>9. CASE Record(p)
    BY <1>9 DEF Record
<1>10. ~Take(p)
    BY DEF Take
<1> QED
    BY <1>1, <1>2, <1>3, <1>4, <1>5, <1>6, <1>7, <1>8, <1>9, <1>10 DEF ProcStep

\* Two create jobs of one instance are one job.
LEMMA OneCreate ==
    ASSUME TypeOK, JobExclusive, NEW p \in Proc, NEW q \in Proc, p # q,
           Busy(p), Busy(q), cur[p].kind = "create", cur[q].kind = "create"
    PROVE  Inst(p) # Inst(q)
<1>1. cur[p] = CreateJob(cur[p].inst) /\ cur[q] = CreateJob(cur[q].inst)
    BY JobFields DEF TypeOK, Busy
<1> QED
    BY <1>1 DEF JobExclusive, Inst

\* Every step keeps the reserved ports.
LEMMA PortStep ==
    ASSUME TypeOK, TypeOK', RowKnown, Ownership, Reserved, ConnUnique, [Next]_vars
    PROVE  Reserved' /\ ConnUnique'
<1>1. CASE QueueStep
    BY <1>1, QueueStepIsLocal, QueueStepRows
       DEF OnlyQueued, OnlyStatus, Reserved, ConnUnique, Creating, Inst
<1>2. ASSUME NEW p \in Proc, Busy(p), ProcStep(p) PROVE Reserved' /\ ConnUnique'
  <2>1. Local(p) /\ OwnStep(p) /\ cur[p] \in Job /\ Inst(p) \in Instance
      BY <1>2, StepIsLocal, StepOfOwnJob, JobFields DEF Ownership, TypeOK, Busy, Inst
  <2>2. CASE cur[p].kind = "create"
    <3>1. OwnPort(p)
        BY <1>2, <2>2, StepOfOwnPort DEF Ownership
    <3>2. ConnUnique'
        BY <2>1, <3>1 DEF Local, SameInstance, OwnPort, ConnUnique, TypeOK
    <3>3. ASSUME NEW q \in Proc, q # p
          PROVE  /\ pc'[q] = "reserve" => port'[q] # 0
                 /\ Creating(q, AfterReserve)' =>
                        port'[q] # 0 /\ conn'[Inst(q)'] = port'[q]
      <4>1. pc'[q] = pc[q] /\ cur'[q] = cur[q] /\ port'[q] = port[q]
          BY <2>1, <3>3 DEF Local
      <4>2. CASE ~Creating(q, AfterReserve)
          BY <4>1, <4>2 DEF Creating, Reserved, AfterReserve, AfterStack, AfterDns, AfterPersist
      <4>3. CASE Creating(q, AfterReserve)
        <5>1. Busy(q)
            BY <4>3 DEF Creating, Busy, AfterReserve, AfterStack, AfterDns, AfterPersist
        <5>2. Inst(q) # Inst(p) /\ Inst(q) \in Instance
            BY <1>2, <2>2, <3>3, <4>3, <5>1, OneCreate, JobFields
               DEF Creating, Ownership, TypeOK, Busy, Inst
        <5>3. conn'[Inst(q)] = conn[Inst(q)] /\ Inst(q)' = Inst(q)
            BY <2>1, <4>1, <5>2 DEF Local, SameInstance, Inst
        <5> QED
            BY <4>1, <4>3, <5>3 DEF Reserved, Creating
      <4> QED
          BY <4>2, <4>3
    <3>4. /\ pc'[p] = "reserve" => port'[p] # 0
          /\ Creating(p, AfterReserve)' => port'[p] # 0 /\ conn'[Inst(p)'] = port'[p]
      <4>1. CASE cur' = cur
          BY <3>1, <4>1 DEF OwnPort, Inst
      <4>2. CASE pc'[p] = "idle"
          BY <4>2 DEF Creating, AfterReserve, AfterStack, AfterDns, AfterPersist
      <4> QED
          BY <2>1, <4>1, <4>2 DEF OwnStep
    <3> QED
        BY <3>2, <3>3, <3>4 DEF Reserved
  <2>3. CASE cur[p].kind # "create"
    <3>1. conn' = conn
        BY <2>1, <2>3 DEF Local
    <3>2. \A q \in Proc \ {p} : pc'[q] = pc[q] /\ cur'[q] = cur[q] /\ port'[q] = port[q]
        BY <2>1 DEF Local
    <3>3. pc'[p] # "reserve" /\ ~Creating(p, AfterReserve)'
        BY <2>1, <2>3 DEF OwnStep, Creating, DeploySteps, AfterReserve, AfterStack,
           AfterDns, AfterPersist
    <3> QED
        BY <3>1, <3>2, <3>3 DEF Reserved, ConnUnique, Creating, Inst
  <2> QED
      BY <2>2, <2>3
<1>3. ASSUME NEW p \in Proc, Take(p) PROVE Reserved' /\ ConnUnique'
    BY <1>3 DEF Take, Goto, At, rows, TypeOK, Reserved, ConnUnique, Creating, Inst,
       AfterReserve, AfterStack, AfterDns, AfterPersist
<1>4. ASSUME NEW p \in Proc, Crash(p) PROVE Reserved' /\ ConnUnique'
    BY <1>4 DEF Crash, Idle, rows, TypeOK, Reserved, ConnUnique, Creating, Inst,
       AfterReserve, AfterStack, AfterDns, AfterPersist
<1>5. CASE UNCHANGED vars
    BY <1>5 DEF vars, rows, worker, Reserved, ConnUnique, Creating, Inst
<1> QED
    BY <1>1, <1>2, <1>3, <1>4, <1>5, NextCases

\* What a create job at p has built of its instance.
BuiltBy(p) ==
    /\ Creating(p, AfterStack) => stack[Inst(p)] = port[p]
    /\ Creating(p, AfterDns) => dnsRow[Inst(p)] = "ACTIVE"
    /\ Creating(p, AfterPersist) => Served(Inst(p))

\* What a step of the deployment adds to what its instance has.
LEMMA StepBuilds ==
    ASSUME TypeOK, StepFitsJob, Reserved,
           NEW p \in Proc, Busy(p), BuiltBy(p), cur[p].kind = "create", ProcStep(p)
    PROVE  BuiltBy(p)'
<1>0. cur[p] \in Job /\ Inst(p) \in Instance
    BY JobFields DEF TypeOK, Busy, Inst
<1> USE <1>0 DEF TypeOK, StepFitsJob, Reserved, BuiltBy, Served, Creating, Busy, Goto,
                 At, Inst, rows, swarm, AfterReserve, AfterStack, AfterDns, AfterPersist
<1>1. CASE Deploy(p)
  <2>1. CASE Load(p)
      BY <2>1 DEF Load
  <2>2. CASE AllocatePort(p)
      BY <2>2 DEF AllocatePort, CandidatePorts
  <2>3. CASE ReservePort(p)
      BY <2>3 DEF ReservePort
  <2>4. CASE Secure(p)
      BY <2>4 DEF Secure
  <2>4a. CASE SecureFails(p)
      BY <2>4a DEF SecureFails
  <2>5. CASE DeployStack(p)
      BY <2>5 DEF DeployStack
  <2>6. CASE DeployStackFails(p)
      BY <2>6 DEF DeployStackFails
  <2>7. CASE CreateDns(p)
      BY <2>7 DEF CreateDns
  <2>8. CASE CreateDnsFails(p)
      BY <2>8 DEF CreateDnsFails
  <2>9. CASE InitStart(p)
      BY <2>9 DEF InitStart
  <2>10. CASE InitDone(p)
      BY <2>10 DEF InitDone
  <2>11. CASE InitFails(p)
      BY <2>11 DEF InitFails
  <2>12. CASE Persist(p)
      BY <2>12 DEF Persist
  <2>13. CASE PersistRollsBack(p)
      BY <2>13 DEF PersistRollsBack
  <2>14. CASE FinishDeploy(p)
      BY <2>14 DEF FinishDeploy
  <2>15. CASE Cleanup(p)
      BY <2>15 DEF Cleanup
  <2>16. CASE CleanupFails(p)
      BY <2>16 DEF CleanupFails
  <2> QED
      BY <1>1, <2>1, <2>2, <2>3, <2>4, <2>4a, <2>5, <2>6, <2>7, <2>8, <2>9, <2>10, <2>11, <2>12, <2>13, <2>14, <2>15, <2>16 DEF Deploy
<1>2. ~Delete(p)
    BY DEF Delete, DeleteSteps, LoadForDelete, RemoveStack, RemoveStackFails, MarkDeleted,
       SoftDelete
<1>3. CASE Activate(p)
    BY <1>3 DEF Activate, FirstStep
<1>4. CASE Complete(p)
    BY <1>4 DEF Complete
<1>5. CASE Ack(p)
    BY <1>5 DEF Ack, Idle
<1>6. CASE FailJob(p)
    BY <1>6 DEF FailJob
<1>7. CASE Rescue(p)
    BY <1>7 DEF Rescue, Idle
<1>8. CASE StepThrows(p)
    BY <1>8 DEF StepThrows, Catch, Idle
<1>9. CASE Record(p)
    BY <1>9 DEF Record
<1>10. ~Take(p)
    BY DEF Take
<1> QED
    BY <1>1, <1>2, <1>3, <1>4, <1>5, <1>6, <1>7, <1>8, <1>9, <1>10 DEF ProcStep

\* An instance nobody deletes keeps what it has, whichever other job is run.
LEMMA OthersKeepInstance ==
    ASSUME TypeOK, Ownership, NEW p \in Proc, Busy(p), ProcStep(p), NEW i \in Instance,
           ~DeleteCalled(i), cur[p] # CreateJob(i)
    PROVE  SameInstance(i)
<1>1. Local(p) /\ cur[p] \in Job /\ cur[p].kind \in {"create", "update", "delete"}
    BY StepIsLocal, JobFields DEF Ownership, TypeOK, Busy, Kinds
<1>2. CASE Inst(p) # i
    BY <1>1, <1>2 DEF Local
<1>3. CASE Inst(p) = i /\ cur[p].kind = "create"
    BY <1>1, <1>3, JobFields DEF Inst
<1>4. CASE Inst(p) = i /\ cur[p].kind = "delete"
    BY <1>4, DeletingIsCalled DEF Ownership
<1>5. CASE cur[p].kind = "update"
    BY <1>1, <1>5 DEF Local, SameInstance, rows
<1> QED
    BY <1>1, <1>2, <1>3, <1>4, <1>5

\* Every step keeps what the deployments have built.
LEMMA BuiltStep ==
    ASSUME TypeOK, TypeOK', RowKnown, Ownership, Reserved, Built, CompletedCreateIsServed,
           [Next]_vars
    PROVE  Built' /\ CompletedCreateIsServed'
<1>0. \A i \in Instance : DeleteCalled(i) => DeleteCalled(i)'
    BY DeleteCalledStays DEF DeleteCalled
<1>a. Built <=> \A q \in Proc : Busy(q) /\ ~DeleteCalled(Inst(q)) => BuiltBy(q)
    BY DEF Built, BuiltBy
<1>b. Built' <=> \A q \in Proc : Busy(q)' /\ ~DeleteCalled(Inst(q))' => BuiltBy(q)'
    BY DEF Built, BuiltBy
<1>1. CASE QueueStep
  <2>1. OnlyQueued /\ OnlyStatus
      BY <1>1, QueueStepIsLocal, QueueStepRows
  <2>2. \A i \in Instance : Served(i) /\ ~DeleteCalled(i)' => Served(i)'
      BY <2>1 DEF OnlyStatus, Served
  <2>3. \A q \in Proc : Busy(q) => Inst(q) \in Instance
      BY JobFields DEF TypeOK, Busy, Inst
  <2>4. Built'
      BY <1>0, <2>1, <2>2, <2>3 DEF Built, OnlyQueued, OnlyStatus, Busy, Creating, Inst
  <2>5. CompletedCreateIsServed'
      BY <1>0, <2>1, <2>2, JobFields DEF CompletedCreateIsServed, OnlyQueued
  <2> QED
      BY <2>4, <2>5
<1>2. ASSUME NEW p \in Proc, Busy(p), ProcStep(p) PROVE Built' /\ CompletedCreateIsServed'
  <2>1. /\ Local(p) /\ OwnStep(p) /\ CompletedStep(p)
        /\ cur[p] \in Job /\ Inst(p) \in Instance
      BY <1>2, StepIsLocal, StepOfOwnJob, JobFields DEF Ownership, TypeOK, Busy, Inst
  <2>2. ASSUME NEW q \in Proc, Busy(q)', ~DeleteCalled(Inst(q))' PROVE BuiltBy(q)'
    <3>1. CASE q = p
      <4>1. cur' = cur /\ pc'[p] \in Steps
          BY <2>1, <2>2, <3>1 DEF OwnStep, Busy
      <4>2. ~DeleteCalled(Inst(p)) /\ BuiltBy(p)
          BY <1>0, <1>2, <1>a, <2>1, <2>2, <3>1, <4>1 DEF Inst
      <4>3. CASE cur[p].kind = "create"
          BY <1>2, <3>1, <4>2, <4>3, StepBuilds DEF Ownership
      <4>4. CASE cur[p].kind # "create"
          BY <3>1, <4>1, <4>4 DEF BuiltBy, Creating
      <4> QED
          BY <4>3, <4>4
    <3>2. CASE q # p
      <4>1. pc'[q] = pc[q] /\ cur'[q] = cur[q] /\ port'[q] = port[q]
          BY <2>1, <3>2 DEF Local
      <4>2. Busy(q) /\ Inst(q)' = Inst(q) /\ cur[q] \in Job /\ Inst(q) \in Instance
          BY <2>2, <4>1, JobFields DEF Busy, Inst, TypeOK
      <4>3. ~DeleteCalled(Inst(q)) /\ BuiltBy(q)
          BY <1>0, <1>a, <2>2, <4>2
      <4>4. CASE cur[q].kind = "create"
        <5>1. cur[p] # CreateJob(Inst(q))
            BY <1>2, <3>2, <4>2, <4>4, JobFields DEF Ownership, JobExclusive, Inst
        <5>2. SameInstance(Inst(q))
            BY <1>2, <4>2, <4>3, <5>1, OthersKeepInstance
        <5> QED
            BY <4>1, <4>2, <4>3, <5>2 DEF BuiltBy, SameInstance, Creating, Served
      <4>5. CASE cur[q].kind # "create"
          BY <4>1, <4>5 DEF BuiltBy, Creating
      <4> QED
          BY <4>4, <4>5
    <3> QED
        BY <3>1, <3>2
  <2>3. ASSUME NEW i \in Instance, hist'[CreateJob(i)] = "COMPLETED", ~DeleteCalled(i)'
        PROVE  Served(i)'
    <3>1. CASE cur[p] = CreateJob(i)
      <4>1. /\ UNCHANGED <<rows, stack>>
            /\ pc[p] = "complete" \/ hist[cur[p]] = "COMPLETED"
          BY <2>1, <2>3, <3>1 DEF CompletedStep
      <4>2. CASE hist[cur[p]] = "COMPLETED"
          BY <1>0, <2>3, <3>1, <4>1, <4>2 DEF CompletedCreateIsServed, Served, rows
      <4>3. CASE pc[p] = "complete"
        <5>1. Served(i)
            BY <1>0, <1>2, <2>3, <3>1, <4>3, JobFields
               DEF Built, Creating, AfterPersist, Inst
        <5> QED
            BY <4>1, <5>1 DEF Served, rows
      <4> QED
          BY <4>1, <4>2, <4>3
    <3>2. CASE cur[p] # CreateJob(i)
      <4>1. hist'[CreateJob(i)] = hist[CreateJob(i)]
          BY <2>1, <3>2, JobFields DEF Local
      <4>2. Served(i)
          BY <1>0, <2>3, <4>1 DEF CompletedCreateIsServed
      <4> QED
          BY <1>0, <1>2, <2>3, <3>2, <4>2, OthersKeepInstance DEF SameInstance, Served
    <3> QED
        BY <3>1, <3>2
  <2> QED
      BY <1>b, <2>2, <2>3 DEF CompletedCreateIsServed
<1>3. ASSUME NEW p \in Proc, Take(p) PROVE Built' /\ CompletedCreateIsServed'
  <2>1. UNCHANGED <<rows, stack>>
      BY <1>3 DEF Take, swarm
  <2>2. \A i \in Instance : Served(i)' = Served(i)
      BY <2>1 DEF Served, rows
  <2>3. Built'
    <3>1. ~BuiltBy(p)' => pc'[p] \in AfterStack
        BY DEF BuiltBy, Creating, AfterStack, AfterDns, AfterPersist
    <3>2. pc'[p] = "record"
        BY <1>3 DEF Take, Goto, At, TypeOK
    <3>3. ASSUME NEW q \in Proc, q # p, Busy(q)', ~DeleteCalled(Inst(q))'
          PROVE  BuiltBy(q)'
      <4>1. pc'[q] = pc[q] /\ cur'[q] = cur[q] /\ port'[q] = port[q]
          BY <1>3, <3>3 DEF Take, Goto, At, TypeOK
      <4>2. Busy(q) /\ Inst(q)' = Inst(q) /\ Inst(q) \in Instance
          BY <3>3, <4>1, JobFields DEF Busy, Inst, TypeOK
      <4>3. BuiltBy(q)
          BY <1>0, <1>a, <3>3, <4>2
      <4> QED
          BY <2>1, <2>2, <4>1, <4>2, <4>3 DEF BuiltBy, Creating, rows
    <3> QED
        BY <1>b, <3>1, <3>2, <3>3 DEF AfterStack, AfterDns, AfterPersist
  <2>4. CompletedCreateIsServed'
      BY <1>0, <1>3, <2>2, JobFields DEF Take, TypeOK, CompletedCreateIsServed
  <2> QED
      BY <2>3, <2>4
<1>4. ASSUME NEW p \in Proc, Crash(p) PROVE Built' /\ CompletedCreateIsServed'
  <2>1. UNCHANGED <<rows, stack>>
      BY <1>4 DEF Crash, swarm
  <2>2. \A i \in Instance : Served(i)' = Served(i)
      BY <2>1 DEF Served, rows
  <2>3. Built'
    <3>1. ~BuiltBy(p)' => pc'[p] \in AfterStack
        BY DEF BuiltBy, Creating, AfterStack, AfterDns, AfterPersist
    <3>2. pc'[p] = "idle"
        BY <1>4 DEF Crash, Idle, TypeOK
    <3>3. ASSUME NEW q \in Proc, q # p, Busy(q)', ~DeleteCalled(Inst(q))'
          PROVE  BuiltBy(q)'
      <4>1. pc'[q] = pc[q] /\ cur'[q] = cur[q] /\ port'[q] = port[q]
          BY <1>4, <3>3 DEF Crash, Idle, TypeOK
      <4>2. Busy(q) /\ Inst(q)' = Inst(q) /\ Inst(q) \in Instance
          BY <3>3, <4>1, JobFields DEF Busy, Inst, TypeOK
      <4>3. BuiltBy(q)
          BY <1>0, <1>a, <3>3, <4>2
      <4> QED
          BY <2>1, <2>2, <4>1, <4>2, <4>3 DEF BuiltBy, Creating, rows
    <3> QED
        BY <1>b, <3>1, <3>2, <3>3 DEF AfterStack, AfterDns, AfterPersist
  <2>4. CompletedCreateIsServed'
      BY <1>0, <1>4, <2>2, JobFields DEF Crash, TypeOK, CompletedCreateIsServed
  <2> QED
      BY <2>3, <2>4
<1>5. CASE UNCHANGED vars
    BY <1>5 DEF vars, rows, swarm, queue, worker, Built, CompletedCreateIsServed, Busy,
       Creating, Inst, Served, DeleteCalled
<1> QED
    BY <1>1, <1>2, <1>3, <1>4, <1>5, NextCases

\* The inductive invariant holds in the initial state,
LEMMA ServedInvInit == Init => ServedInv
<1> SUFFICES ASSUME Init PROVE ServedInv
    OBVIOUS
<1>1. TypeOK
    BY TypeInit
<1>2. Ownership /\ Reserved /\ Built
    BY DEF Init, Ownership, JobOwned, JobExclusive, StepFitsJob, HistOpen, Reserved, Built,
       Busy, Creating, AfterReserve, AfterStack, AfterDns, AfterPersist, DeploySteps,
       DeleteSteps
<1>3. RowKnown /\ ConnUnique /\ CompletedCreateIsServed
    BY JobFields DEF Init, RowKnown, ConnUnique, CompletedCreateIsServed
<1> QED
    BY <1>1, <1>2, <1>3 DEF ServedInv, Ownership

\* and every step keeps it.
LEMMA ServedInvStep == ServedInv /\ [Next]_vars => ServedInv'
<1> SUFFICES ASSUME ServedInv, [Next]_vars PROVE ServedInv'
    OBVIOUS
<1>1. TypeOK'
    BY TypeStep DEF ServedInv
<1>2. Ownership' /\ RowKnown'
    BY <1>1, OwnershipStep, RowKnownStep DEF ServedInv, Ownership
<1>3. Reserved' /\ ConnUnique'
    BY <1>1, PortStep DEF ServedInv, Ownership
<1>4. Built' /\ CompletedCreateIsServed'
    BY <1>1, BuiltStep DEF ServedInv, Ownership
<1> QED
    BY <1>1, <1>2, <1>3, <1>4 DEF ServedInv, Ownership

\* Every reachable state satisfies the inductive invariant, with any number of
\* queue processes: jobs are owned by one process, their ports are reserved.
THEOREM ServedInvHolds == Spec => []ServedInv
BY ServedInvInit, ServedInvStep, PTL DEF Spec

\* While the history of a create job says COMPLETED its instance is served,
\* until it is deleted, for any number of processes, faults and crashes.
THEOREM CompletedCreatesServed == Spec => []CompletedCreateIsServed
<1>1. ServedInv => CompletedCreateIsServed
    BY DEF ServedInv
<1> QED
    BY <1>1, ServedInvHolds, PTL

\* Served instances publish different ports, with any number of processes.
THEOREM ServedPortsAreDistinct == Spec => []ServedPortsDistinct
<1>1. ServedInv => ServedPortsDistinct
    BY DEF ServedInv, ConnUnique, ServedPortsDistinct, Served
<1> QED
    BY <1>1, ServedInvHolds, PTL

-----------------------------------------------------------------------------
(* Theorems about the one queue process that docker-compose.yml starts       *)
(* (container_name: queue).  Two processes and a redelivered job break them. *)


\* The part of SoleInv that ServedInv does not say.
SolePart ==
    PortFresh /\ StacksBelow /\ DeployedRowExists /\ PublishedPortsDistinct

-----------------------------------------------------------------------------
(* SoleInv is inductive *)

\* A stack appears at the port its instance reserved last, or disappears.
LEMMA StackMoves ==
    ASSUME TypeOK, ConnUnique, StacksBelow, PublishedPortsDistinct,
           NEW i \in Instance, NEW v \in {0, conn[i]},
           stack' = [stack EXCEPT ![i] = v], conn' = conn
    PROVE  StacksBelow' /\ PublishedPortsDistinct'
<1>1. Ports \subseteq Nat /\ conn[i] \in Nat
    BY LifecycleConstants DEF TypeOK, Ports
<1>2. ASSUME NEW k \in Instance, NEW l \in Instance
      PROVE  /\ stack'[k] <= conn'[k]
             /\ k # l /\ stack'[k] # 0 => stack'[k] # conn'[l] /\ stack'[k] # stack'[l]
  <2>1. CASE k # i /\ l # i
      BY <2>1 DEF TypeOK, StacksBelow, PublishedPortsDistinct
  <2>2. CASE k = i
    <3>1. stack'[i] = v
        BY DEF TypeOK
    <3>2. k # l => stack'[l] = stack[l]
        BY <2>2 DEF TypeOK
    <3>3. v <= conn[i]
        BY <1>1
    <3>4. k # l /\ v # 0 => v # conn[l] /\ v # stack[l]
        BY <2>2 DEF TypeOK, ConnUnique, StacksBelow
    <3> QED
        BY <2>2, <3>1, <3>2, <3>3, <3>4
  <2>3. CASE k # i /\ l = i
    <3>1. stack'[i] = v /\ stack'[k] = stack[k]
        BY <2>3 DEF TypeOK
    <3>2. stack[k] <= conn[k] /\ (stack[k] # 0 => stack[k] # conn[i])
        BY <2>3 DEF StacksBelow
    <3> QED
        BY <2>3, <3>1, <3>2
  <2> QED
      BY <2>1, <2>2, <2>3
<1> QED
    BY <1>2 DEF StacksBelow, PublishedPortsDistinct

\* A step of the one process keeps SoleInv,
LEMMA SoleBusyStep ==
    ASSUME NEW p0, Proc = {p0}, TypeOK, StepFitsJob, Reserved, ConnUnique, SolePart,
           Busy(p0), ProcStep(p0)
    PROVE  SolePart'
<1>0. /\ cur[p0] \in Job /\ Inst(p0) \in Instance /\ 0 \notin Ports /\ Ports \subseteq Nat
      /\ cur[p0].kind \in {"create", "update", "delete"}
    BY JobFields, LifecycleConstants DEF TypeOK, Busy, Inst, Ports, Kinds
<1> USE <1>0 DEF TypeOK, StepFitsJob, Reserved, ConnUnique, SolePart, PortFresh,
                 StacksBelow, DeployedRowExists, PublishedPortsDistinct, Creating, Busy,
                 Goto, At, Inst, Fault, rows, swarm, AfterReserve, AfterStack, AfterDns,
                 AfterPersist, DeploySteps, DeleteSteps
<1>1. CASE Deploy(p0)
  <2>1. CASE Load(p0)
      BY <2>1 DEF Load
  <2>2. CASE AllocatePort(p0)
      BY <2>2 DEF AllocatePort, CandidatePorts
  <2>3. CASE ReservePort(p0)
    <3>1. CASE conn' = conn
        BY <2>3, <3>1 DEF ReservePort
    <3>2. CASE conn' = [conn EXCEPT ![Inst(p0)] = port[p0]]
      <4>1. pc[p0] = "reserve" /\ UNCHANGED <<stack, gone, cur>>
          BY <2>3 DEF ReservePort
      <4>2. pc' = [pc EXCEPT ![p0] = "secure"] \/ pc' = [pc EXCEPT ![p0] = "cleanup"]
          BY <2>3 DEF ReservePort
      <4>3. \A k \in Instance : stack[k] \in Nat /\ conn[k] \in Nat /\ port[p0] \in Nat
        <5>1. \A x \in Ports \cup {0} : x \in Nat
            BY <1>0
        <5>2. \A k \in Instance : stack[k] \in Ports \cup {0} /\ conn[k] \in Ports \cup {0}
            OBVIOUS
        <5>3. port[p0] \in Ports \cup {0}
            OBVIOUS
        <5> QED
            BY ONLY <5>1, <5>2, <5>3
      <4>4. \A k \in Instance : conn[k] < port[p0]
          BY <4>1
      <4>5. \A k \in Instance : conn'[k] = IF k = Inst(p0) THEN port[p0] ELSE conn[k]
          BY <3>2
      <4>6. StacksBelow'
        <5>1. \A k \in Instance : stack[k] <= conn[k] /\ stack[k] < port[p0]
            BY <4>3, <4>4
        <5> QED
            BY <4>1, <4>3, <4>5, <5>1
      <4>7. PublishedPortsDistinct'
          BY <4>1
      <4>8. ~gone[Inst(p0)]
          BY <4>1
      <4>9. PortFresh' /\ DeployedRowExists'
          BY <4>1, <4>2, <4>8
      <4> QED
          BY <4>6, <4>7, <4>9
    <3> QED
        BY <2>3, <3>1, <3>2 DEF ReservePort
  <2>4. CASE Secure(p0)
      BY <2>4 DEF Secure
  <2>4a. CASE SecureFails(p0)
      BY <2>4a DEF SecureFails
  <2>5. CASE DeployStack(p0)
    <3>1. \/ UNCHANGED stack
          \/ \E v \in {0, conn[Inst(p0)]} : stack' = [stack EXCEPT ![Inst(p0)] = v]
        BY <2>5 DEF DeployStack
    <3>2. pc' = [pc EXCEPT ![p0] = "dns"] /\ UNCHANGED <<conn, gone, cur, port>>
        BY <2>5 DEF DeployStack
    <3>3. StacksBelow' /\ PublishedPortsDistinct'
        BY <3>1, <3>2, StackMoves
    <3> QED
        BY <2>5, <3>2, <3>3 DEF DeployStack
  <2>6. CASE DeployStackFails(p0)
    <3>1. \/ UNCHANGED stack
          \/ \E v \in {0, conn[Inst(p0)]} : stack' = [stack EXCEPT ![Inst(p0)] = v]
        BY <2>6 DEF DeployStackFails
    <3>2. pc' = [pc EXCEPT ![p0] = "cleanup"] /\ UNCHANGED <<conn, gone, cur, port>>
        BY <2>6 DEF DeployStackFails
    <3>3. StacksBelow' /\ PublishedPortsDistinct'
        BY <3>1, <3>2, StackMoves
    <3> QED
        BY <2>6, <3>2, <3>3 DEF DeployStackFails
  <2>7. CASE CreateDns(p0)
      BY <2>7 DEF CreateDns
  <2>8. CASE CreateDnsFails(p0)
      BY <2>8 DEF CreateDnsFails
  <2>9. CASE InitStart(p0)
      BY <2>9 DEF InitStart
  <2>10. CASE InitDone(p0)
      BY <2>10 DEF InitDone
  <2>11. CASE InitFails(p0)
      BY <2>11 DEF InitFails
  <2>12. CASE Persist(p0)
      BY <2>12 DEF Persist
  <2>13. CASE PersistRollsBack(p0)
      BY <2>13 DEF PersistRollsBack
  <2>14. CASE FinishDeploy(p0)
      BY <2>14 DEF FinishDeploy
  <2>15. CASE Cleanup(p0)
    <3>1. \/ UNCHANGED stack
          \/ \E v \in {0, conn[Inst(p0)]} : stack' = [stack EXCEPT ![Inst(p0)] = v]
        BY <2>15 DEF Cleanup
    <3>2. pc' = [pc EXCEPT ![p0] = "failing"] /\ UNCHANGED <<conn, gone, cur, port>>
        BY <2>15 DEF Cleanup
    <3>3. StacksBelow' /\ PublishedPortsDistinct'
        BY <3>1, <3>2, StackMoves
    <3> QED
        BY <2>15, <3>2, <3>3 DEF Cleanup
  <2>16. CASE CleanupFails(p0)
      BY <2>16 DEF CleanupFails
  <2> QED
      BY <1>1, <2>1, <2>2, <2>3, <2>4, <2>4a, <2>5, <2>6, <2>7, <2>8, <2>9, <2>10, <2>11, <2>12, <2>13, <2>14, <2>15, <2>16 DEF Deploy
<1>2. CASE Delete(p0)
  <2>1. CASE LoadForDelete(p0)
      BY <2>1 DEF LoadForDelete
  <2>2. CASE RemoveStack(p0)
    <3>1. \/ UNCHANGED stack
          \/ \E v \in {0, conn[Inst(p0)]} : stack' = [stack EXCEPT ![Inst(p0)] = v]
        BY <2>2 DEF RemoveStack
    <3>2. pc' = [pc EXCEPT ![p0] = "dmark"] /\ UNCHANGED <<conn, gone, cur, port>>
        BY <2>2 DEF RemoveStack
    <3>3. StacksBelow' /\ PublishedPortsDistinct'
        BY <3>1, <3>2, StackMoves
    <3> QED
        BY <2>2, <3>2, <3>3 DEF RemoveStack
  <2>3. CASE RemoveStackFails(p0)
      BY <2>3 DEF RemoveStackFails
  <2>4. CASE MarkDeleted(p0)
      BY <2>4 DEF MarkDeleted
  <2>5. CASE SoftDelete(p0)
      BY <2>5 DEF SoftDelete
  <2> QED
      BY <1>2, <2>1, <2>2, <2>3, <2>4, <2>5 DEF Delete
<1>3. CASE Activate(p0)
    BY <1>3 DEF Activate, FirstStep
<1>4. CASE Complete(p0)
    BY <1>4 DEF Complete
<1>5. CASE Ack(p0)
    BY <1>5 DEF Ack, Idle
<1>6. CASE FailJob(p0)
    BY <1>6 DEF FailJob
<1>7. CASE Rescue(p0)
    BY <1>7 DEF Rescue, Idle
<1>8. CASE StepThrows(p0)
    BY <1>8 DEF StepThrows, Catch, Idle
<1>9. CASE Record(p0)
    BY <1>9 DEF Record
<1>10. ~Take(p0)
    BY DEF Take
<1> QED
    BY <1>1, <1>2, <1>3, <1>4, <1>5, <1>6, <1>7, <1>8, <1>9, <1>10 DEF ProcStep

\* and so does every step.
LEMMA SoleStep ==
    ASSUME NEW p0, Proc = {p0}, SoleInv, [Next]_vars
    PROVE  SoleInv'
<1>0. ServedInv' /\ TypeOK /\ SolePart /\ Ownership /\ RowKnown /\ Reserved /\ ConnUnique
    BY ServedInvStep DEF SoleInv, ServedInv, SolePart, Ownership
<1>1. CASE QueueStep
  <2>1. UNCHANGED <<pc, cur, port, gone, conn, stack>>
      BY <1>0, <1>1, QueueStepIsLocal, QueueStepRows DEF OnlyQueued, OnlyStatus
  <2> QED
      BY <1>0, <2>1 DEF SoleInv, SolePart, PortFresh, StacksBelow, DeployedRowExists,
         PublishedPortsDistinct, Inst
<1>2. CASE Busy(p0) /\ ProcStep(p0)
    BY <1>0, <1>2, SoleBusyStep DEF SoleInv, SolePart, Ownership
<1>3. CASE Take(p0) \/ Crash(p0)
  <2>1. UNCHANGED <<gone, conn, stack>> /\ pc'[p0] \in {"record", "idle"}
      BY <1>0, <1>3 DEF Take, Crash, Idle, Goto, rows, swarm, TypeOK
  <2> QED
      BY <1>0, <2>1 DEF SoleInv, SolePart, PortFresh, StacksBelow, DeployedRowExists,
         PublishedPortsDistinct, DeploySteps
<1>4. CASE UNCHANGED vars
    BY <1>0, <1>4 DEF vars, rows, swarm, worker, SoleInv, SolePart, PortFresh, StacksBelow,
       DeployedRowExists, PublishedPortsDistinct, Inst
<1> QED
    BY <1>1, <1>2, <1>3, <1>4, NextCases

\* SoleInv holds in the initial state.
LEMMA SoleInit == Init => SoleInv
BY ServedInvInit, JobFields DEF Init, SoleInv, PortFresh, StacksBelow, DeployedRowExists,
   PublishedPortsDistinct, DeploySteps

\* With one queue process the ports of stacks stay below the reservations of
\* their own instances and no deployment goes on for a soft-deleted instance.
THEOREM SoleInvHolds == ASSUME NEW p0, Proc = {p0} PROVE Spec => []SoleInv
<1>1. SoleInv /\ [Next]_vars => SoleInv'
    BY SoleStep
<1> QED
    BY <1>1, SoleInit, PTL DEF Spec

\* With one queue process two stacks never publish the same port.
THEOREM PublishedPortsAreDistinct ==
    ASSUME NEW p0, Proc = {p0} PROVE Spec => []PublishedPortsDistinct
<1>1. SoleInv => PublishedPortsDistinct
    BY DEF SoleInv
<1> QED
    BY <1>1, SoleInvHolds, PTL

\* Only the step that deploys lets a stack publish a port.
LEMMA OnlyDeployPublishes ==
    ASSUME TypeOK, NEW p \in Proc, Busy(p), ProcStep(p), NEW i \in Instance,
           stack'[i] \notin {0, stack[i]}
    PROVE  pc[p] = "stack" /\ i = Inst(p)
<1> USE DEF TypeOK, swarm
<1>1. CASE Deploy(p)
    BY <1>1 DEF Deploy, At, Load, AllocatePort, ReservePort, Secure, SecureFails, DeployStack,
       DeployStackFails, CreateDns, CreateDnsFails, InitStart, InitDone, InitFails, Persist,
       PersistRollsBack, FinishDeploy, Cleanup, CleanupFails
<1>2. CASE Delete(p)
    BY <1>2 DEF Delete, LoadForDelete, RemoveStack, RemoveStackFails, MarkDeleted, SoftDelete
<1>3. CASE \/ Take(p) \/ Record(p) \/ Activate(p) \/ Complete(p) \/ Ack(p) \/ FailJob(p) \/ Rescue(p)
           \/ StepThrows(p)
    BY <1>3 DEF Take, Record, Activate, Complete, Ack, FailJob, Rescue, StepThrows
<1> QED
    BY <1>1, <1>2, <1>3 DEF ProcStep

\* With one queue process no step deploys a stack for a soft-deleted instance.
THEOREM NothingIsResurrected ==
    ASSUME NEW p0, Proc = {p0} PROVE Spec => NoResurrection
<1>1. SoleInv /\ [Next]_vars
      => [\A i \in Instance : gone[i] => stack'[i] \in {0, stack[i]}]_vars
  <2> SUFFICES ASSUME SoleInv, [Next]_vars, NEW i \in Instance, gone[i]
               PROVE  stack'[i] \in {0, stack[i]}
      OBVIOUS
  <2>0. TypeOK /\ DeployedRowExists
      BY DEF SoleInv, ServedInv
  <2>1. CASE QueueStep
      BY <2>0, <2>1, QueueStepRows DEF OnlyStatus
  <2>2. CASE Busy(p0) /\ ProcStep(p0)
      BY <2>0, <2>2, OnlyDeployPublishes DEF DeployedRowExists, DeploySteps
  <2>3. CASE Take(p0) \/ Crash(p0)
      BY <2>3 DEF Take, Crash, swarm
  <2>4. CASE UNCHANGED vars
      BY <2>4 DEF vars, swarm
  <2> QED
      BY <2>1, <2>2, <2>3, <2>4, NextCases
<1> QED
    BY <1>1, SoleInvHolds, PTL DEF Spec, NoResurrection

-----------------------------------------------------------------------------
(* RemovedInv is inductive when docker stack rm works *)

\* What RemovedInv adds about the one process.
RemovedPart == Removed /\ RecordedStackIsRemoved

\* A step of the one process keeps RemovedInv,
LEMMA RemovedBusyStep ==
    ASSUME NEW p0, Proc = {p0}, "drm" \notin Faulty, TypeOK, StepFitsJob,
           DeployedRowExists, RemovedPart, Busy(p0), ProcStep(p0)
    PROVE  RemovedPart'
<1>0. /\ cur[p0] \in Job /\ Inst(p0) \in Instance
      /\ cur[p0].kind \in {"create", "update", "delete"}
    BY JobFields DEF TypeOK, Busy, Inst, Kinds
<1> USE <1>0 DEF TypeOK, StepFitsJob, DeployedRowExists, RemovedPart, Removed,
                 RecordedStackIsRemoved, Busy, Goto, At, Inst, Fault, rows, swarm,
                 DeploySteps, DeleteSteps
<1>1. CASE Deploy(p0)
  <2>1. CASE Load(p0)
      BY <2>1 DEF Load
  <2>2. CASE AllocatePort(p0)
      BY <2>2 DEF AllocatePort, CandidatePorts
  <2>3. CASE ReservePort(p0)
      BY <2>3 DEF ReservePort
  <2>4. CASE Secure(p0)
      BY <2>4 DEF Secure
  <2>4a. CASE SecureFails(p0)
      BY <2>4a DEF SecureFails
  <2>5. CASE DeployStack(p0)
      BY <2>5 DEF DeployStack
  <2>6. CASE DeployStackFails(p0)
      BY <2>6 DEF DeployStackFails
  <2>7. CASE CreateDns(p0)
      BY <2>7 DEF CreateDns
  <2>8. CASE CreateDnsFails(p0)
      BY <2>8 DEF CreateDnsFails
  <2>9. CASE InitStart(p0)
      BY <2>9 DEF InitStart
  <2>10. CASE InitDone(p0)
      BY <2>10 DEF InitDone
  <2>11. CASE InitFails(p0)
      BY <2>11 DEF InitFails
  <2>12. CASE Persist(p0)
      BY <2>12 DEF Persist
  <2>13. CASE PersistRollsBack(p0)
      BY <2>13 DEF PersistRollsBack
  <2>14. CASE FinishDeploy(p0)
      BY <2>14 DEF FinishDeploy
  <2>15. CASE Cleanup(p0)
      BY <2>15 DEF Cleanup
  <2>16. CASE CleanupFails(p0)
      BY <2>16 DEF CleanupFails
  <2> QED
      BY <1>1, <2>1, <2>2, <2>3, <2>4, <2>4a, <2>5, <2>6, <2>7, <2>8, <2>9, <2>10, <2>11, <2>12, <2>13, <2>14, <2>15, <2>16 DEF Deploy
<1>2. CASE Delete(p0)
  <2>1. CASE LoadForDelete(p0)
      BY <2>1 DEF LoadForDelete
  <2>2. CASE RemoveStack(p0)
      BY <2>2 DEF RemoveStack
  <2>3. CASE RemoveStackFails(p0)
      BY <2>3 DEF RemoveStackFails
  <2>4. CASE MarkDeleted(p0)
      BY <2>4 DEF MarkDeleted
  <2>5. CASE SoftDelete(p0)
      BY <2>5 DEF SoftDelete
  <2> QED
      BY <1>2, <2>1, <2>2, <2>3, <2>4, <2>5 DEF Delete
<1>3. CASE Activate(p0)
    BY <1>3 DEF Activate, FirstStep
<1>4. CASE Complete(p0)
    BY <1>4 DEF Complete
<1>5. CASE Ack(p0)
    BY <1>5 DEF Ack, Idle
<1>6. CASE FailJob(p0)
    BY <1>6 DEF FailJob
<1>7. CASE Rescue(p0)
    BY <1>7 DEF Rescue, Idle
<1>8. CASE StepThrows(p0)
    BY <1>8 DEF StepThrows, Catch, Idle
<1>9. CASE Record(p0)
    BY <1>9 DEF Record
<1>10. ~Take(p0)
    BY DEF Take
<1> QED
    BY <1>1, <1>2, <1>3, <1>4, <1>5, <1>6, <1>7, <1>8, <1>9, <1>10 DEF ProcStep

\* and so does every step.
LEMMA RemovedStep ==
    ASSUME NEW p0, Proc = {p0}, "drm" \notin Faulty, RemovedInv, [Next]_vars
    PROVE  RemovedInv'
<1>0. /\ SoleInv' /\ TypeOK /\ DeployedRowExists /\ RemovedPart
      /\ RowKnown /\ StepFitsJob
    BY SoleStep DEF RemovedInv, SoleInv, ServedInv, RemovedPart
<1>1. CASE QueueStep
  <2>1. UNCHANGED <<pc, cur, gone, dep, stack>>
      BY <1>0, <1>1, QueueStepIsLocal, QueueStepRows DEF OnlyQueued, OnlyStatus
  <2> QED
      BY <1>0, <2>1 DEF RemovedInv, RemovedPart, Removed, RecordedStackIsRemoved, Inst
<1>2. CASE Busy(p0) /\ ProcStep(p0)
    BY <1>0, <1>2, RemovedBusyStep DEF RemovedInv, RemovedPart
<1>3. CASE Take(p0) \/ Crash(p0)
  <2>1. UNCHANGED <<gone, dep, stack>> /\ pc'[p0] \in {"record", "idle"}
      BY <1>0, <1>3 DEF Take, Crash, Idle, Goto, rows, swarm, TypeOK
  <2> QED
      BY <1>0, <2>1 DEF RemovedInv, RemovedPart, Removed, RecordedStackIsRemoved
<1>4. CASE UNCHANGED vars
    BY <1>0, <1>4 DEF vars, rows, swarm, worker, RemovedInv, RemovedPart, Removed,
       RecordedStackIsRemoved, Inst
<1> QED
    BY <1>1, <1>2, <1>3, <1>4, NextCases

\* With one queue process, and as long as docker stack rm works, the deletion of
\* an instance whose deployment was recorded has removed its stack for good.
THEOREM RecordedStacksAreRemoved ==
    ASSUME NEW p0, Proc = {p0}, "drm" \notin Faulty
    PROVE  Spec => []RecordedStackIsRemoved
<1>1. Init => RemovedInv
    BY SoleInit DEF Init, RemovedInv, Removed, RecordedStackIsRemoved
<1>2. RemovedInv /\ [Next]_vars => RemovedInv'
    BY RemovedStep
<1>3. RemovedInv => RecordedStackIsRemoved
    BY DEF RemovedInv
<1> QED
    BY <1>1, <1>2, <1>3, PTL DEF Spec
=============================================================================
