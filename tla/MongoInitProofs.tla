--------------------------- MODULE MongoInitProofs ---------------------------
(***************************************************************************)
(* Proofs about MongoInit, for any number of members, choices of nodes,    *)
(* attempts and deliveries, replicated or not.                             *)
(***************************************************************************)
EXTENDS MongoInit, TLAPS

\* Another attempt is within the maximum of its step.
LEMMA RetryType ==
    ASSUME pc \in Retried, TypeOK, Retry
    PROVE  /\ pc' \in {pc, "failed"} /\ attempt' \in Nat \ {0}
           /\ pc' \in Retried => attempt' <= MaxAttempts[pc']
    <1>1. MaxAttempts[pc] \in Nat \ {0}
        BY InitConstants
    <1>2. CASE attempt < MaxAttempts[pc]
        BY <1>1, <1>2 DEF TypeOK, Retry
    <1>3. CASE ~(attempt < MaxAttempts[pc])
        BY <1>3 DEF Retry, Advance, Retried
    <1>. QED  BY <1>2, <1>3

\* So is the first attempt of the next step.
LEMMA AdvanceType ==
    ASSUME NEW step \in Steps, Advance(step)
    PROVE  /\ pc' = step /\ attempt' \in Nat \ {0}
           /\ pc' \in Retried => attempt' <= MaxAttempts[pc']
    BY InitConstants DEF Advance

\* The state is well typed, no attempt exceeds its maximum, and no password is
\* of a delivery that has not begun.
THEOREM TypeCorrect == Spec => []TypeOK
    <1>1. Init => TypeOK
        <2>1. 0 \in Secret /\ 0 \in 0..MaxRuns /\ 1 \in Users
            BY InitConstants DEF Secret, Users
        <2>2. 0 \in 0..MaxAttempts["health"]
            BY InitConstants DEF Retried
        <2>3. None \in [Kinds -> Secret] /\ NoUsers \in [Users -> Secret]
            BY <2>1 DEF None, NoUsers
        <2>. SUFFICES ASSUME Init PROVE TypeOK
            OBVIOUS
        <2>4. initiated \in [Place -> BOOLEAN]
            BY ZenonT(30) DEF Init
        <2>5. /\ root \in [Place -> Secret] /\ users \in [Place -> [Users -> Secret]]
              /\ tries \in [Member -> 0..MaxAttempts["health"]]
            BY <2>1, <2>2, <2>3 DEF Init
        <2>6. dep \in BOOLEAN /\ slip \in BOOLEAN
            BY DEF Init
        <2>7. /\ hist = "NONE" /\ row = None
              /\ run = 0 /\ pc = "queued" /\ pw = None /\ attempt = 1
              /\ healthy = {} /\ user = 1 /\ made = {}
              /\ env = 0 /\ place \in Place /\ up = {} /\ primary = 0
            BY Zenon DEF Init
        <2>. QED  BY <2>1, <2>3, <2>4, <2>5, <2>6, <2>7 DEF TypeOK, Retried
    <1>2. TypeOK /\ [Next]_vars => TypeOK'
        <2>. SUFFICES ASSUME TypeOK, [Next]_vars PROVE TypeOK'
            OBVIOUS
        <2>. USE DEF TypeOK, rows, locals, servers, data
        <2>1. CASE Deliver
            BY <2>1, InitConstants DEF Deliver, Steps, Retried
        <2>2. ASSUME NEW p \in Place, Deploy(p) PROVE TypeOK'
            <3>1. run \in Secret /\ Passwords(run) \in [Kinds -> Secret]
                BY DEF Secret, Passwords
            <3>2. tries' \in [Member -> 0..MaxAttempts["health"]] /\ healthy' \subseteq Member
                BY <2>2, InitConstants DEF Deploy, Retried
            <3>3. attempt' \in Nat \ {0} /\ (pc' \in Retried => attempt' <= MaxAttempts[pc'])
                BY <2>2, InitConstants DEF Deploy
            <3>4. env' \in Secret
                BY <2>2, <3>1 DEF Deploy, Kinds
            <3>. QED  BY <2>2, <3>1, <3>2, <3>3, <3>4 DEF Deploy, Steps, Retried
        <2>3. CASE DeployFails
            BY <2>3 DEF DeployFails, Steps, Retried
        <2>4. ASSUME NEW m \in Member, CheckHealth(m) PROVE TypeOK'
            <3>1. MaxAttempts["health"] \in Nat
                BY InitConstants DEF Retried
            <3>2. tries' \in [Member -> 0..MaxAttempts["health"]]
                BY <2>4, <3>1 DEF CheckHealth
            <3>. QED  BY <2>4, <3>2 DEF CheckHealth
        <2>5. CASE HealthChecked
            BY <2>5, AdvanceType DEF HealthChecked, SetupStep, Steps, Retried
        <2>6. CASE Initiate
            BY <2>6, AdvanceType, RetryType DEF Initiate, Steps, Retried
        <2>7. CASE AlreadyInitiated
            BY <2>7, AdvanceType, RetryType DEF AlreadyInitiated, Steps, Retried
        <2>8. CASE AwaitElection
            BY <2>8, AdvanceType DEF AwaitElection, Steps, Retried
        <2>9. CASE ValidateStatus
            BY <2>9, AdvanceType DEF ValidateStatus, Steps, Retried
        <2>10. CASE ValidateConnection
            BY <2>10, AdvanceType DEF ValidateConnection, BeginUsers, Steps, Retried, Users
        <2>11. CASE CommandFails
            BY <2>11, RetryType DEF CommandFails, Steps, Retried
        <2>12. CASE CheckUserExists
            BY <2>12 DEF CheckUserExists, Steps, Retried
        <2>13. CASE WriteUser
            <3>1. pw[PasswordOf[user]] \in Secret
                BY DEF PasswordOf, Kinds, Users
            <3>2. users' \in [Place -> [Users -> Secret]]
                BY <2>13, <3>1 DEF WriteUser
            <3>3. made' \subseteq Users /\ slip' \in BOOLEAN
                BY <2>13 DEF WriteUser, Listed
            <3>4. user' \in Users /\ pc' \in {"exists", "persist", "rollback"}
                BY <2>13 DEF WriteUser, NextUser, Users
            <3>. QED  BY <2>13, <3>2, <3>3, <3>4 DEF WriteUser, Steps, Retried
        <2>14. CASE WriteUserFails
            BY <2>14 DEF WriteUserFails, Steps, Retried
        <2>15. CASE Rollback
            <3>0. 0 \in Secret
                BY InitConstants DEF Secret
            <3>1. users' \in [Place -> [Users -> Secret]]
                <4>1. CASE UNCHANGED users
                    BY <4>1
                <4>2. ASSUME NEW u \in made, users' = [users EXCEPT ![place][u] = 0]
                      PROVE  users' \in [Place -> [Users -> Secret]]
                    BY <3>0, <4>2
                <4>. QED  BY <2>15, <4>1, <4>2 DEF Rollback, DropUser
            <3>3. slip' \in BOOLEAN
                BY <2>15 DEF Rollback, DropUser
            <3>2. made' \subseteq Users
                BY <2>15 DEF Rollback, DropUser
            <3>. QED  BY <2>15, <3>1, <3>2, <3>3 DEF Rollback, DropUser
        <2>16. CASE RolledBack
            BY <2>16 DEF RolledBack, Steps, Retried
        <2>17. CASE Persist
            BY <2>17 DEF Persist, Steps, Retried
        <2>18. CASE Complete
            BY <2>18 DEF Complete, Steps, Retried
        <2>19. CASE Cleanup
            BY <2>19, InitConstants DEF Cleanup, Steps, Retried, Secret
        <2>20. CASE Rescue
            BY <2>20 DEF Rescue, Steps, Retried
        <2>21. CASE Ack
            BY <2>21 DEF Ack, Steps, Retried
        <2>22. CASE Crash
            BY <2>22 DEF Crash, Steps, Retried
        <2>23. ASSUME NEW m \in Member, Start(m) PROVE TypeOK'
            BY <2>23 DEF Start
        <2>24. ASSUME NEW m \in Member, Stop(m) PROVE TypeOK'
            BY <2>24 DEF Stop
        <2>25. ASSUME NEW m \in Member, Elect(m) PROVE TypeOK'
            BY <2>25 DEF Elect
        <2>26. CASE UNCHANGED vars
            BY <2>26 DEF vars
        <2>. QED
            BY <2>1, <2>2, <2>3, <2>4, <2>5, <2>6, <2>7, <2>8, <2>9, <2>10, <2>11,
               <2>12, <2>13, <2>14, <2>15, <2>16, <2>17, <2>18, <2>19, <2>20, <2>21,
               <2>22, <2>23, <2>24, <2>25, <2>26 DEF Next, JobStep
    <1>. QED  BY <1>1, <1>2, PTL DEF Spec

-----------------------------------------------------------------------------
(* Passwords and users *)

\* The passwords of a delivery are its own.
LEMMA PasswordsAre ==
    \A r, k : k \in Kinds => Passwords(r)[k] = r
    BY DEF Passwords

\* Each user has one of the kinds of passwords.
LEMMA PasswordOfUser ==
    \A u \in Users : PasswordOf[u] \in Kinds
    BY DEF PasswordOf, Kinds, Users

\* Where an attempt that threw leads.
LEMMA RetryLeads ==
    ASSUME Retry PROVE pc' \in {pc, "failed"}
    BY DEF Retry, Advance

\* Steps that only move the job forward, before it touches the users.
LEMMA MoveOn ==
    ASSUME TypeOK, CredInv, pc \in Retried, pc' \in Retried \cup {"failed"},
           UNCHANGED <<rows, run, pw, made, servers, root, users>>
    PROVE  CredInv'
    <1>. USE DEF rows, servers
    <1>1. JobInv'
        BY DEF CredInv, JobInv, Deploying, Retried, Steps
    <1>2. DataInv'
        BY DEF CredInv, DataInv, Retried
    <1>3. UsersInv'
        BY DEF CredInv, UsersInv, Connected, Listing, Retried
    <1>4. CompletedCredentialsWork' /\ UsersAreNew'
        BY DEF CredInv, CompletedCredentialsWork, UsersAreNew, Retried
    <1>. QED  BY <1>1, <1>2, <1>3, <1>4 DEF CredInv

\* Steps that end the job: nothing but the history is left to say.
LEMMA WindUp ==
    ASSUME TypeOK, CredInv, pc \in Steps, pc' \in {"failed", "rescue", "ack", "end", "crashed"},
           hist' = hist \/ hist' = "FAILED",
           pc' \in {"failed", "rescue"} => hist' = hist /\ pc # "ack",
           row' = row \/ hist # "COMPLETED",
           env' = env \/ (hist # "COMPLETED" /\ env' = 0),
           UNCHANGED <<run, place, root, users>>
    PROVE  CredInv'
    <1>1. JobInv'
        BY DEF CredInv, JobInv, Deploying, Retried, Steps
    <1>2. DataInv'
        BY DEF CredInv, DataInv, TypeOK
    <1>3. UsersInv'
        BY DEF UsersInv, Connected, Listing, Retried
    <1>4. CompletedCredentialsWork' /\ UsersAreNew'
        BY DEF CredInv, CompletedCredentialsWork, UsersAreNew
    <1>. QED  BY <1>1, <1>2, <1>3, <1>4 DEF CredInv

\* A delivery and a deployment begin with passwords nothing was created with.
LEMMA DeliverKeeps == ASSUME TypeOK, CredInv, Deliver PROVE CredInv'
    <1>. USE DEF rows, servers, data, locals
    <1>1. JobInv'
        BY DEF Deliver, CredInv, JobInv, Deploying, Retried, Steps, TypeOK
    <1>2. DataInv'
        <2>1. run \in Nat /\ env \in Nat /\ run' = run + 1
            BY InitConstants DEF Deliver, TypeOK, Secret
        <2>2. \A p \in Place : root[p] \in Nat
            BY InitConstants DEF TypeOK, Secret
        <2>. QED  BY <2>1, <2>2 DEF Deliver, CredInv, DataInv
    <1>3. UsersInv'
        BY DEF Deliver, UsersInv, Connected, Listing, Retried
    <1>4. CompletedCredentialsWork' /\ UsersAreNew'
        BY DEF Deliver, CompletedCredentialsWork, UsersAreNew
    <1>. QED  BY <1>1, <1>2, <1>3, <1>4 DEF CredInv

\* A deployment gives the servers the passwords of its delivery.
LEMMA DeployKeeps ==
    ASSUME TypeOK, CredInv, NEW p \in Place, Deploy(p) PROVE CredInv'
    <1>. USE DEF rows, servers, data, locals
    <1>0. env' = run /\ pw' = Passwords(run)
        BY PasswordsAre DEF Deploy, Kinds
    <1>1. JobInv'
        BY <1>0 DEF Deploy, CredInv, JobInv, Deploying, Retried, Steps, Passwords
    <1>2. DataInv'
        BY <1>0, InitConstants DEF Deploy, CredInv, DataInv, TypeOK
    <1>3. root[p] # run
        BY InitConstants DEF Deploy, CredInv, DataInv, TypeOK, Secret
    <1>4. UsersInv'
        BY <1>3 DEF Deploy, UsersInv, Connected, Listing, Retried
    <1>5. CompletedCredentialsWork' /\ UsersAreNew'
        BY DEF Deploy, CredInv, JobInv, CompletedCredentialsWork, UsersAreNew, Steps
    <1>. QED  BY <1>1, <1>2, <1>4, <1>5 DEF CredInv

\* A connection that is made shows that the data are of this delivery.
LEMMA ConnectKeeps == ASSUME TypeOK, CredInv, ValidateConnection PROVE CredInv'
    <1>. USE DEF rows, servers, data
    <1>0. root[place] = run /\ pc' = "exists" /\ user' = 1
        BY PasswordsAre DEF ValidateConnection, BeginUsers, Answers, Admitted, CredInv, JobInv, Deploying,
           Retried, Kinds, Advance
    <1>1. JobInv'
        BY <1>0 DEF ValidateConnection, CredInv, JobInv, Deploying, Retried, Steps
    <1>2. DataInv'
        BY <1>0 DEF ValidateConnection, CredInv, DataInv
    <1>3. UsersInv'
        BY <1>0 DEF ValidateConnection, CredInv, UsersInv, Connected, Listing,
           Retried, Users, NoUsers
    <1>4. CompletedCredentialsWork' /\ UsersAreNew'
        BY <1>0 DEF ValidateConnection, CredInv, CompletedCredentialsWork, UsersAreNew
    <1>. QED  BY <1>1, <1>2, <1>3, <1>4 DEF CredInv

\* The user that is looked for is not there.
LEMMA ExistsKeeps == ASSUME TypeOK, CredInv, CheckUserExists PROVE CredInv'
    <1>. USE DEF rows, servers, data, locals
    <1>0. pc' = "create"
        <2>1. users[place][user] = 0
            BY DEF CheckUserExists, CredInv, UsersInv, Listing, TypeOK, Users
        <2>. QED  BY <2>1 DEF CheckUserExists
    <1>1. JobInv'
        BY <1>0 DEF CheckUserExists, CredInv, JobInv, Deploying, Retried, Steps
    <1>2. DataInv'
        BY <1>0 DEF CheckUserExists, CredInv, DataInv
    <1>3. UsersInv'
        BY <1>0 DEF CheckUserExists, CredInv, UsersInv, Connected, Listing, Retried
    <1>4. CompletedCredentialsWork' /\ UsersAreNew'
        BY <1>0 DEF CheckUserExists, CredInv, CompletedCredentialsWork, UsersAreNew
    <1>. QED  BY <1>1, <1>2, <1>3, <1>4 DEF CredInv

\* A user is written with the password of the delivery,
LEMMA WriteKeeps == ASSUME TypeOK, CredInv, WriteUser PROVE CredInv'
    <1>. USE DEF rows, servers, data
    <1>0. /\ pc = "create" /\ hist = "ACTIVE" /\ root[place] = run
          /\ pw[PasswordOf[user]] = run
          /\ users' = [users EXCEPT ![place][user] = run]
        <2>1. pc = "create"
            BY DEF WriteUser, CredInv, UsersAreNew
        <2>2. /\ hist = "ACTIVE" /\ root[place] = run /\ pw = Passwords(run)
            BY <2>1 DEF CredInv, JobInv, UsersInv, Deploying, Connected, Listing, Steps
        <2>3. pw[PasswordOf[user]] = run
            BY <2>2, PasswordsAre, PasswordOfUser DEF TypeOK
        <2>. QED  BY <2>1, <2>2, <2>3 DEF WriteUser
    <1>1. JobInv'
        BY <1>0 DEF WriteUser, NextUser, CredInv, JobInv, Deploying, Retried, Steps
    <1>2. DataInv'
        BY <1>0 DEF WriteUser, NextUser, CredInv, DataInv, TypeOK
    <1>3. UsersInv'
        <2>1. /\ \A u \in Users \ {user} : users'[place][u] = users[place][u]
              /\ users'[place][user] = run /\ user \in Users
            BY <1>0 DEF TypeOK
        <2>2. \A u \in Users : IF u < user THEN u \in made /\ users[place][u] = run
                                          ELSE users[place][u] = 0
            BY <1>0 DEF CredInv, UsersInv, Listing
        <2>3. CASE pc' = "rollback"
            BY <1>0, <2>3 DEF WriteUser, NextUser, UsersInv, Connected, Listing, Retried
        <2>4. CASE made' = made \cup {user} /\ pc' = "exists" /\ user' = user + 1
            BY <1>0, <2>1, <2>2, <2>4 DEF WriteUser, UsersInv, Connected, Listing,
               Retried, Users
        <2>5. CASE pc' = "persist" /\ user = 3
            BY <1>0, <2>1, <2>2, <2>5 DEF WriteUser, UsersInv, Connected, Listing,
               Retried, Users
        <2>. QED  BY <1>0, <2>3, <2>4, <2>5 DEF WriteUser, NextUser, Listed, TypeOK, Users
    <1>4. CompletedCredentialsWork' /\ UsersAreNew'
        BY <1>0 DEF WriteUser, NextUser, CompletedCredentialsWork, UsersAreNew
    <1>. QED  BY <1>1, <1>2, <1>3, <1>4 DEF CredInv

\* or the command for it fails,
LEMMA WriteFailsKeeps == ASSUME TypeOK, CredInv, WriteUserFails PROVE CredInv'
    <1>. USE DEF rows, servers, data, locals
    <1>1. JobInv'
        BY DEF WriteUserFails, CredInv, JobInv, Deploying, Retried, Steps
    <1>2. DataInv'
        BY DEF WriteUserFails, CredInv, DataInv
    <1>3. UsersInv'
        BY DEF WriteUserFails, CredInv, UsersInv, Connected, Listing, Retried
    <1>4. CompletedCredentialsWork' /\ UsersAreNew'
        BY DEF WriteUserFails, CredInv, CompletedCredentialsWork, UsersAreNew
    <1>. QED  BY <1>1, <1>2, <1>3, <1>4 DEF CredInv

\* and the users it made are taken back.
LEMMA RollbackKeeps == ASSUME TypeOK, CredInv, Rollback PROVE CredInv'
    <1>. USE DEF rows, servers, data
    <1>0. /\ pc = "rollback" /\ pc' = "rollback" /\ hist = "ACTIVE"
          /\ UNCHANGED <<hist, row, run, pw, env, place, root>>
        BY DEF Rollback, DropUser, CredInv, JobInv, Steps
    <1>1. JobInv'
        BY <1>0 DEF CredInv, JobInv
    <1>2. PICK u \in made : /\ made' = made \ {u}
                            /\ \/ users' = [users EXCEPT ![place][u] = 0] /\ slip' = slip
                               \/ users' = users /\ slip' = TRUE
        BY DEF Rollback, DropUser
    <1>3. DataInv'
        BY <1>0, <1>2 DEF CredInv, DataInv, TypeOK
    <1>4. UsersInv'
        BY <1>0, <1>2 DEF CredInv, UsersInv, Connected, Listing, Retried, TypeOK
    <1>5. CompletedCredentialsWork' /\ UsersAreNew'
        BY <1>0 DEF CompletedCredentialsWork, UsersAreNew
    <1>. QED  BY <1>1, <1>3, <1>4, <1>5 DEF CredInv

\* The passwords are recorded with the instance.
LEMMA PersistKeeps == ASSUME TypeOK, CredInv, Persist PROVE CredInv'
    <1>. USE DEF servers, data, locals
    <1>0. hist = "ACTIVE"
        BY DEF Persist, CredInv, JobInv, Steps
    <1>1. CASE pc' = "failed"
        BY <1>0, <1>1, WindUp DEF Persist, Steps
    <1>2. CASE pc' = "complete" /\ row' = pw
        <2>1. JobInv'
            BY <1>0, <1>2 DEF Persist, CredInv, JobInv, Deploying, Retried, Steps
        <2>2. DataInv'
            BY <1>2 DEF Persist, CredInv, DataInv
        <2>3. UsersInv'
            BY <1>2 DEF Persist, CredInv, UsersInv, Connected, Listing, Retried
        <2>4. CompletedCredentialsWork' /\ UsersAreNew'
            BY <1>0, <1>2 DEF Persist, CompletedCredentialsWork, UsersAreNew
        <2>. QED  BY <2>1, <2>2, <2>3, <2>4 DEF CredInv
    <1>. QED  BY <1>1, <1>2 DEF Persist

\* The history says that the job is complete.
LEMMA CompleteKeeps == ASSUME TypeOK, CredInv, Complete PROVE CredInv'
    <1>. USE DEF servers, data, locals
    <1>1. CASE pc' = "failed"
        BY <1>1, WindUp DEF Complete, Steps
    <1>2. CASE pc' = "ack" /\ hist' = "COMPLETED"
        <2>0. /\ row = Passwords(run) /\ env = run /\ run > 0 /\ root[place] = run
              /\ \A u \in Users : users[place][u] = run
            BY DEF Complete, CredInv, JobInv, UsersInv, Deploying, Connected, Steps
        <2>1. JobInv'
            BY <1>2, <2>0 DEF Complete, JobInv, Deploying, Retried, Steps
        <2>2. DataInv'
            BY <1>2 DEF Complete, CredInv, DataInv
        <2>3. UsersInv'
            BY <1>2 DEF Complete, UsersInv, Connected, Listing, Retried
        <2>4. CompletedCredentialsWork' /\ UsersAreNew'
            <3>1. \A u \in Users : row[PasswordOf[u]] = run
                BY <2>0, PasswordsAre, PasswordOfUser
            <3>2. row["admin"] = run
                BY <2>0, PasswordsAre DEF Kinds
            <3>. QED  BY <1>2, <2>0, <3>1, <3>2, InitConstants
                      DEF Complete, CompletedCredentialsWork, UsersAreNew, TypeOK
        <2>. QED  BY <2>1, <2>2, <2>3, <2>4 DEF CredInv
    <1>. QED  BY <1>1, <1>2 DEF Complete

\* Data that a server creates take the password of the stack and hold no user.
LEMMA StartKeeps ==
    ASSUME TypeOK, CredInv, NEW m \in Member, Start(m) PROVE CredInv'
    <1>. USE DEF rows, locals
    <1>0. UNCHANGED <<hist, row, run, pc, pw, user, made, env, place, users, slip>>
        BY DEF Start
    <1>1. CASE root' = root
        BY <1>0, <1>1 DEF CredInv, JobInv, DataInv, UsersInv,
           CompletedCredentialsWork, UsersAreNew
    <1>2. CASE root[place] = 0 /\ root' = [root EXCEPT ![place] = env]
        <2>0. /\ root'[place] = env /\ \A p \in Place \ {place} : root'[p] = root[p]
              /\ users[place] = NoUsers /\ \A u \in Users : users[place][u] = 0
            BY <1>2 DEF TypeOK, CredInv, DataInv, NoUsers
        <2>1. JobInv'
            BY <1>0 DEF CredInv, JobInv
        <2>2. DataInv'
            BY <1>0, <2>0 DEF CredInv, DataInv, TypeOK
        <2>3. pc \notin Connected
            BY <1>2 DEF CredInv, JobInv, UsersInv, Connected, Listing, Steps
        <2>4. UsersInv'
            BY <1>0, <2>0, <2>3 DEF CredInv, UsersInv, Connected, Listing
        <2>5. CompletedCredentialsWork' /\ UsersAreNew'
            <3>1. hist # "COMPLETED"
                BY <1>2 DEF CredInv, CompletedCredentialsWork
            <3>. QED  BY <1>0, <3>1 DEF CredInv, CompletedCredentialsWork, UsersAreNew
        <2>. QED  BY <2>1, <2>2, <2>4, <2>5 DEF CredInv
    <1>. QED  BY <1>1, <1>2 DEF Start

-----------------------------------------------------------------------------
(* The theorems *)

\* The invariant behind the next three theorems.
THEOREM CredInvHolds == Spec => []CredInv
    <1>1. Init => CredInv
        BY InitConstants DEF Init, CredInv, JobInv, DataInv, UsersInv, Steps, Retried,
           Deploying, Listing, Connected, CompletedCredentialsWork, UsersAreNew,
           Users, NoUsers
    <1>2. TypeOK /\ CredInv /\ [Next]_vars => CredInv'
        <2>. SUFFICES ASSUME TypeOK, CredInv, [Next]_vars PROVE CredInv'
            OBVIOUS
        <2>. USE DEF rows, locals, servers, data
        <2>1. CASE Deliver
            BY <2>1, DeliverKeeps
        <2>2. ASSUME NEW p \in Place, Deploy(p) PROVE CredInv'
            BY <2>2, DeployKeeps
        <2>3. CASE DeployFails
            BY <2>3, WindUp DEF DeployFails, Steps
        <2>4. ASSUME NEW m \in Member, CheckHealth(m) PROVE CredInv'
            BY <2>4, MoveOn DEF CheckHealth, Retried
        <2>5. CASE HealthChecked
            BY <2>5, MoveOn DEF HealthChecked, SetupStep, Advance, Retried
        <2>6. CASE Initiate
            BY <2>6, MoveOn, RetryLeads DEF Initiate, Advance, Retried
        <2>7. CASE AlreadyInitiated
            BY <2>7, MoveOn, RetryLeads DEF AlreadyInitiated, Advance, Retried
        <2>8. CASE AwaitElection
            BY <2>8, MoveOn DEF AwaitElection, Advance, Retried
        <2>9. CASE ValidateStatus
            BY <2>9, MoveOn DEF ValidateStatus, Advance, Retried
        <2>10. CASE ValidateConnection
            BY <2>10, ConnectKeeps
        <2>11. CASE CommandFails
            BY <2>11, MoveOn, RetryLeads DEF CommandFails, Retried
        <2>12. CASE CheckUserExists
            BY <2>12, ExistsKeeps
        <2>13. CASE WriteUser
            BY <2>13, WriteKeeps
        <2>14. CASE WriteUserFails
            BY <2>14, WriteFailsKeeps
        <2>15. CASE Rollback
            BY <2>15, RollbackKeeps
        <2>16. CASE RolledBack
            BY <2>16, WindUp DEF RolledBack, Steps
        <2>17. CASE Persist
            BY <2>17, PersistKeeps
        <2>18. CASE Complete
            BY <2>18, CompleteKeeps
        <2>19. CASE Cleanup
            <3>1. hist = "ACTIVE"
                BY <2>19 DEF Cleanup, CredInv, JobInv, Steps
            <3>. QED  BY <2>19, <3>1, WindUp DEF Cleanup, Steps
        <2>20. CASE Rescue
            BY <2>20, WindUp DEF Rescue, Steps
        <2>21. CASE Ack
            BY <2>21, WindUp DEF Ack, Steps
        <2>22. CASE Crash
            BY <2>22, WindUp DEF Crash
        <2>23. ASSUME NEW m \in Member, Start(m) PROVE CredInv'
            BY <2>23, StartKeeps
        <2>24. CASE \/ UNCHANGED vars
                    \/ \E m \in Member : Stop(m) \/ Elect(m)
            <3>. UNCHANGED <<hist, row, run, pc, pw, user, made, env, place,
                             root, users, slip>>
                BY <2>24 DEF vars, Stop, Elect
            <3>. QED  BY DEF CredInv, JobInv, DataInv, UsersInv,
                      CompletedCredentialsWork, UsersAreNew
        <2>. QED
            BY <2>1, <2>2, <2>3, <2>4, <2>5, <2>6, <2>7, <2>8, <2>9, <2>10, <2>11,
               <2>12, <2>13, <2>14, <2>15, <2>16, <2>17, <2>18, <2>19, <2>20, <2>21,
               <2>22, <2>23, <2>24 DEF Next, JobStep
    <1>. QED  BY <1>1, <1>2, TypeCorrect, PTL DEF Spec

\* A creation that says COMPLETED has recorded the passwords its servers take.
THEOREM CredentialsWork == Spec => []CompletedCredentialsWork
    BY CredInvHolds, PTL DEF CredInv

\* No delivery finds a user another one has created.
THEOREM NoUserIsFound == Spec => []UsersAreNew
    BY CredInvHolds, PTL DEF CredInv

\* A rollback whose commands were all answered leaves no user behind.
THEOREM RollbacksAreComplete == Spec => RollbackIsComplete
    <1>1. TypeOK /\ CredInv /\ [Next]_vars =>
            [pc = "rollback" /\ pc' = "failed" /\ ~slip => users[place] = NoUsers]_vars
        <2>. SUFFICES ASSUME TypeOK, CredInv, [Next]_vars,
                             pc = "rollback", pc' = "failed", ~slip
                      PROVE  users[place] = NoUsers
            OBVIOUS
        <2>1. made = {}
            BY DEF Next, JobStep, vars, Deliver, Deploy, DeployFails, CheckHealth,
               HealthChecked, Initiate, AlreadyInitiated, AwaitElection,
               ValidateStatus, ValidateConnection, CommandFails, Retried,
               CheckUserExists, WriteUser, WriteUserFails, Rollback, RolledBack,
               Persist, Complete, Cleanup, Rescue, Ack, Crash, Start, Stop, Elect
        <2>2. \A u \in Users : users[place][u] = 0
            BY <2>1 DEF CredInv, UsersInv
        <2>. QED  BY <2>2 DEF TypeOK, NoUsers
    <1>. QED  BY <1>1, TypeCorrect, CredInvHolds, PTL DEF Spec, RollbackIsComplete
=============================================================================
