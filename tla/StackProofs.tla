------------------------------ MODULE StackProofs ------------------------------
(***************************************************************************)
(* What becomes of the stacks that StackFiles deploys, for any stacks,     *)
(* settings, versions and bounds: why a deployment fails, from which file  *)
(* a stack runs, and which ports it publishes.  At the end, the DNS        *)
(* records of a stack: DnsRecords, for any sets of workers and any bounds. *)
(*                                                                         *)
(* The state of both modules has its type.                                 *)
(*                                                                         *)
(* Each delivery makes files and secrets before it uses them, and others   *)
(* may take them away: an invariant says what a delivery has at each of    *)
(* its steps as long as nothing was taken from it.                         *)
(***************************************************************************)
EXTENDS StackFiles, FiniteSetTheorems, TLAPS

-----------------------------------------------------------------------------
(* The invariant.                                                           *)

\* The functions of the state, and records of their parts.
FilesType ==
    /\ job = [s \in Stack |-> job[s]]
    /\ setting = [s \in Stack |-> setting[s]]
    /\ wiped \in [Stack -> BOOLEAN]
    /\ called = [s \in Stack |-> called[s]]
    /\ running = [s \in Stack |-> running[s]]
    /\ stored \in [Stack -> Nat]
    /\ clock \in Nat
    /\ IsFiniteSet(DOMAIN secrets) /\ \A n \in DOMAIN secrets : secrets[n] \in Nat
    /\ \A s \in Stack :
          /\ job[s] = [at |-> job[s].at, delivery |-> job[s].delivery,
                       keys |-> job[s].keys, caName |-> job[s].caName,
                       fileName |-> job[s].fileName, savedAt |-> job[s].savedAt]
          /\ job[s].delivery \in Nat

\* A compose file has the kind and the instant of its name; the one of a
\* database was saved by a deployment of the kind of its name, and its command
\* names no file that its service is not given.
FileIsOfItsName(n) ==
    /\ compose[n].kind = n.kind
    /\ n.kind = "database" =>
          LET t == compose[n].of IN
          /\ t \in Stack
          /\ compose[n].at = n.at /\ n.at \in job[t].savedAt
          /\ n.replicated = setting[t].replicated
          /\ compose[n].command \subseteq compose[n].external
ComposeInv == \A n \in DOMAIN compose : FileIsOfItsName(n)

\* What a deployment is about to deploy has the name of its own last file.
NameInv(s) ==
    /\ job[s].at = "deploy" =>
          /\ job[s].fileName = [kind |-> "database", replicated |-> setting[s].replicated,
                                at |-> job[s].fileName.at]
          /\ job[s].fileName.at \in job[s].savedAt
    /\ job[s].at = "deploy exporter" => job[s].fileName.kind = "exporter"

\* A database that runs has all that its command and its file name.
RunsInv(s) ==
    running[s] # Nothing =>
        /\ running[s].command \subseteq running[s].external
        /\ running[s].external \subseteq DOMAIN secrets
        /\ LET t == running[s].of IN
           /\ t \in Stack
           /\ setting[t].replicated = setting[s].replicated
           /\ running[s].at \in job[s].savedAt \cap job[t].savedAt

\* The certificate is stored before its secret is made, by the same delivery.
CertificateInv(s) ==
    /\ stored[s] <= job[s].delivery
    /\ job[s].at \notin {"waiting"} => job[s].delivery # 0
    /\ job[s].at \in {"tls files", "tls secret"} => stored[s] = job[s].delivery
    /\ TlsSecret(s) \in DOMAIN secrets =>
          stored[s] # 0 /\ secrets[TlsSecret(s)] <= stored[s]

\* A call under way has its directory, unless that was removed.
CallInv(s) ==
    Called(s) => job[s].at \in DockerPlaces /\ (wiped[s] \/ Usable(s))

Fetched == {"tls files", "tls secret", "ca file"}

\* The certificate files that a delivery has made at each of its steps.
KindsAt(at, keys) ==
    CASE at = "keys" -> {"directory"} \cup keys
      [] at = "sign" -> {"directory", "ca", "csr"}
      [] at = "bundle" -> {"directory", "ca", "csr", "crt"}
      [] at \in {"upload"} \cup Fetched -> {"directory", "ca", "csr", "crt", "pem"}
      [] OTHER -> {}
MadeKinds(s) == KindsAt(job[s].at, job[s].keys)
MadeInv(s) ==
    /\ job[s].at \in {"waiting", "dead", "directory"} => job[s].keys = {}
    /\ ~wiped[s] => Has(s, MadeKinds(s))

\* The secrets that a delivery has made at each of its steps.
Built == {"save", "deploy"}
MadeSecrets(s) ==
    (IF setting[s].tls /\ job[s].at \in {"ca file", "ca secret", "replica key"} \cup Built
     THEN {TlsSecret(s)} ELSE {})
    \cup (IF setting[s].tls /\ setting[s].version \in NeedsCa
             /\ job[s].at \in {"replica key"} \cup Built
          THEN {CaSecret(s)} ELSE {})
    \cup (IF setting[s].replicated /\ job[s].at \in Built THEN {ReplicaKey(s)} ELSE {})
SecretInv(s) ==
    /\ ~wiped[s] => MadeSecrets(s) \subseteq DOMAIN secrets
    /\ (setting[s].tls /\ setting[s].version \in NeedsCa
           /\ job[s].at \in {"replica key"} \cup Built) => job[s].caName = CaSecret(s)

\* A compose file is there until it is deployed, and is the one that was saved
\* unless another deployment saved one of the same name.
SavedInv(s) ==
    ~wiped[s] =>
        /\ job[s].at \in {"deploy", "deploy exporter"} => job[s].fileName \in DOMAIN compose
        /\ job[s].at = "deploy" /\ ~Mixed(s) =>
              compose[job[s].fileName].external = DatabaseFile(s).external

\* The steps of a deployment with TLS.
TlsPlaces ==
    {"directory", "keys", "sign", "bundle", "upload", "ca secret"} \cup Fetched
PlaceInv(s) == job[s].at \in TlsPlaces => setting[s].tls

StackInv(s) ==
    /\ NameInv(s) /\ RunsInv(s) /\ CertificateInv(s) /\ CallInv(s)
    /\ MadeInv(s) /\ SecretInv(s) /\ SavedInv(s) /\ PlaceInv(s)
    /\ job[s].at = "failed" => wiped[s] \/ Mixed(s) \/ ~CaIsCreated(s)

FilesInv == FilesType /\ ComposeInv /\ \A s \in Stack : StackInv(s)
-----------------------------------------------------------------------------
(* What a step leaves to the stacks that it is not about.                   *)

Grows == \A t \in Stack : job[t].savedAt \subseteq job'[t].savedAt

\* Unless u is noted as disturbed it keeps its files, its secrets and the
\* directory of its call, and the compose file of its database is replaced in
\* the instant of another one only.
Undisturbed(u) ==
    /\ \A k : <<u, k>> \in tmp => <<u, k>> \in tmp'
    /\ \A k : <<u, k>> \in DOMAIN secrets => <<u, k>> \in DOMAIN secrets'
    /\ Called(u) => (called[u] \in dockerTls => called[u] \in dockerTls')
    /\ DOMAIN compose \subseteq DOMAIN compose'
    /\ \A n \in DOMAIN compose : n.kind = "database" =>
          compose'[n] = compose[n] \/ \E t \in Stack \ {u} : n.at \in job'[t].savedAt

\* A stack that runs keeps the secrets it is given, and its certificate.
Mounts(u) ==
    /\ running'[u] \in {running[u], Nothing}
    /\ running[u] # Nothing =>
          running[u].external \cap DOMAIN secrets \subseteq DOMAIN secrets'
    /\ TlsSecret(u) \in DOMAIN secrets' =>
          /\ TlsSecret(u) \in DOMAIN secrets
          /\ secrets'[TlsSecret(u)] = secrets[TlsSecret(u)]

Aside(u) ==
    /\ job'[u] = job[u] /\ called'[u] = called[u] /\ stored'[u] = stored[u]
    /\ wiped[u] => wiped'[u]
    /\ UnderWay(u) /\ ~wiped'[u] => Undisturbed(u)
    /\ Mounts(u)

\* Deployments that were saved in one instant stay so.
LEMMA MixedStays ==
    ASSUME FilesType, FilesType', Grows, NEW u \in Stack
    PROVE  /\ Mixed(u) <=> \E t \in Stack \ {u} : job[u].savedAt \cap job[t].savedAt # {}
           /\ Mixed(u)' <=> \E t \in Stack \ {u} : job'[u].savedAt \cap job'[t].savedAt # {}
           /\ Mixed(u) => Mixed(u)'
<1>1. DOMAIN job = Stack /\ DOMAIN job' = Stack
    BY DEF FilesType
<1>2. Mixed(u) <=> \E t \in Stack \ {u} : job[u].savedAt \cap job[t].savedAt # {}
    BY <1>1 DEF Mixed, Deployed
<1>3. Mixed(u)' <=> \E t \in Stack \ {u} : job'[u].savedAt \cap job'[t].savedAt # {}
    BY <1>1 DEF Mixed, Deployed
<1>4. ASSUME NEW t \in Stack, job[u].savedAt \cap job[t].savedAt # {}
      PROVE  job'[u].savedAt \cap job'[t].savedAt # {}
    BY <1>4 DEF Grows
<1> QED
    BY <1>2, <1>3, <1>4

\* What a stack is not about a step leaves true of it.
LEMMA AsideKeeps ==
    ASSUME FilesInv, FilesType', Grows, setting' = setting, NEW u \in Stack, Aside(u)
    PROVE  StackInv(u)'
<1>1. StackInv(u) /\ job'[u] = job[u]
    BY DEF FilesInv, Aside
<1>2. NameInv(u)'
    BY <1>1 DEF StackInv, NameInv
<1>3. RunsInv(u)'
  <2>1. CASE running'[u] = Nothing
      BY <2>1 DEF RunsInv
  <2>2. CASE running'[u] # Nothing
    <3>1. running'[u] = running[u] /\ running[u] # Nothing
        BY <2>2 DEF Aside, Mounts
    <3>2. PICK t : t = running[u].of
        OBVIOUS
    <3>3. t \in Stack /\ running[u].at \in job[u].savedAt \cap job[t].savedAt
        BY <1>1, <3>1, <3>2 DEF StackInv, RunsInv
    <3>4. running[u].at \in job'[u].savedAt \cap job'[t].savedAt
        BY <3>3 DEF Grows
    <3> QED
        BY <1>1, <3>1, <3>2, <3>3, <3>4 DEF StackInv, RunsInv, Aside, Mounts
  <2> QED
      BY <2>1, <2>2
<1>4. CertificateInv(u)'
    BY <1>1 DEF StackInv, CertificateInv, Aside, Mounts, TlsSecret
<1>5. CallInv(u)'
  <2>1. Called(u) => UnderWay(u)
      BY <1>1 DEF StackInv, CallInv, DockerPlaces, UnderWay
  <2> QED
      BY <1>1, <2>1 DEF StackInv, CallInv, Called, Usable, Aside, Undisturbed
<1>6. MadeInv(u)'
  <2>1. MadeKinds(u)' = MadeKinds(u)
      BY <1>1 DEF MadeKinds, KindsAt
  <2>2. ~UnderWay(u) => MadeKinds(u) = {}
      BY DEF MadeKinds, KindsAt, UnderWay, Fetched
  <2> QED
      BY <1>1, <2>1, <2>2 DEF StackInv, MadeInv, Has, Aside, Undisturbed
<1>7. SecretInv(u)'
  <2>1. MadeSecrets(u)' = MadeSecrets(u)
      BY <1>1 DEF MadeSecrets, TlsSecret, CaSecret, ReplicaKey
  <2>2. ~UnderWay(u) => MadeSecrets(u) = {}
      BY DEF MadeSecrets, UnderWay, Built
  <2>3. MadeSecrets(u) \subseteq {<<u, "tlscert">>, <<u, "ca">>, <<u, "replicakey">>}
      BY DEF MadeSecrets, TlsSecret, CaSecret, ReplicaKey
  <2>4. ~wiped'[u] => MadeSecrets(u) \subseteq DOMAIN secrets'
      BY <1>1, <2>2, <2>3 DEF StackInv, SecretInv, Aside, Undisturbed
  <2> QED
      BY <1>1, <2>1, <2>4 DEF StackInv, SecretInv, CaSecret
<1>8. SavedInv(u)'
  <2>1. DatabaseFile(u)'.external = DatabaseFile(u).external
      BY <1>1 DEF DatabaseFile, StandaloneFile, ReplicaSetFile, Mounted, TlsSecret,
         CaSecret, ReplicaKey
  <2>2. SUFFICES ASSUME ~wiped'[u], job[u].at \in {"deploy", "deploy exporter"}
                 PROVE  /\ job[u].fileName \in DOMAIN compose'
                        /\ job[u].at = "deploy" /\ ~Mixed(u)' =>
                              compose'[job[u].fileName].external = DatabaseFile(u).external
      BY <1>1, <2>1 DEF SavedInv
  <2>3. Undisturbed(u) /\ ~wiped[u]
      BY <2>2 DEF Aside, UnderWay
  <2>4. job[u].fileName \in DOMAIN compose
      BY <1>1, <2>2, <2>3 DEF StackInv, SavedInv
  <2>5. ASSUME job[u].at = "deploy", ~Mixed(u)'
        PROVE  compose'[job[u].fileName].external = DatabaseFile(u).external
    <3>1. PICK n : n = job[u].fileName
        OBVIOUS
    <3>2. n.kind = "database" /\ n.at \in job[u].savedAt
        BY <1>1, <2>5, <3>1 DEF StackInv, NameInv
    <3>3. ~\E t \in Stack \ {u} : n.at \in job'[t].savedAt
        BY <1>1, <2>5, <3>2, MixedStays DEF FilesInv
    <3>4. compose'[n] = compose[n]
        BY <2>3, <2>4, <3>1, <3>2, <3>3 DEF Undisturbed
    <3>5. ~Mixed(u)
        BY <2>5, MixedStays DEF FilesInv
    <3> QED
        BY <1>1, <2>3, <2>5, <3>1, <3>4, <3>5 DEF StackInv, SavedInv
  <2> QED
      BY <2>3, <2>4, <2>5 DEF Undisturbed
<1>9. PlaceInv(u)'
    BY <1>1 DEF StackInv, PlaceInv
<1>10. job'[u].at = "failed" => wiped'[u] \/ Mixed(u)' \/ ~CaIsCreated(u)'
    BY <1>1, MixedStays DEF FilesInv, StackInv, Aside, CaIsCreated
<1> QED
    BY <1>2, <1>3, <1>4, <1>5, <1>6, <1>7, <1>8, <1>9, <1>10 DEF StackInv

\* A step of one deployment keeps the invariant if it does so for that one.
LEMMA OneStep ==
    ASSUME FilesInv, FilesType', ComposeInv', Grows, setting' = setting,
           NEW s \in Stack, StackInv(s)', \A u \in Stack \ {s} : Aside(u)
    PROVE  FilesInv'
<1>1. ASSUME NEW u \in Stack, u # s PROVE StackInv(u)'
    BY <1>1, AsideKeeps
<1> QED
    BY <1>1 DEF FilesInv
-----------------------------------------------------------------------------
(* The steps that change what one deployment is doing.                      *)

\* The job of one deployment changes, and it forgets no instant.
JobRow(s, j) ==
    /\ j = [at |-> j.at, delivery |-> j.delivery, keys |-> j.keys, caName |-> j.caName,
            fileName |-> j.fileName, savedAt |-> j.savedAt]
    /\ j.delivery \in Nat
    /\ job[s].savedAt \subseteq j.savedAt
JobStep(s, j) == job' = [job EXCEPT ![s] = j] /\ JobRow(s, j)

\* The others are as they were, and all are still rows.
LEMMA JobStepFacts ==
    ASSUME FilesInv, NEW s \in Stack, NEW j, JobStep(s, j)
    PROVE  /\ job'[s] = j
           /\ \A u \in Stack \ {s} : job'[u] = job[u]
           /\ job' = [u \in Stack |-> job'[u]]
           /\ \A u \in Stack :
                 /\ job'[u] = [at |-> job'[u].at, delivery |-> job'[u].delivery,
                               keys |-> job'[u].keys, caName |-> job'[u].caName,
                               fileName |-> job'[u].fileName, savedAt |-> job'[u].savedAt]
                 /\ job'[u].delivery \in Nat
           /\ Grows
<1>1. /\ job = [u \in Stack |-> job[u]]
      /\ \A u \in Stack :
            /\ job[u] = [at |-> job[u].at, delivery |-> job[u].delivery,
                         keys |-> job[u].keys, caName |-> job[u].caName,
                         fileName |-> job[u].fileName, savedAt |-> job[u].savedAt]
            /\ job[u].delivery \in Nat
    BY DEF FilesInv, FilesType
<1>2. job'[s] = j /\ \A u \in Stack \ {s} : job'[u] = job[u]
    BY <1>1 DEF JobStep, JobRow
<1>3. job' = [u \in Stack |-> job'[u]]
    BY <1>1 DEF JobStep, JobRow
<1>4. Grows
    BY <1>2 DEF Grows, JobStep, JobRow
<1> QED
    BY <1>1, <1>2, <1>3, <1>4 DEF JobStep, JobRow

\* Compose files that stay remain of their names.
LEMMA ComposeStays ==
    ASSUME FilesInv, Grows, setting' = setting, compose' = compose
    PROVE  ComposeInv'
<1>1. ASSUME NEW n \in DOMAIN compose PROVE FileIsOfItsName(n)'
    BY <1>1 DEF FilesInv, ComposeInv, FileIsOfItsName, Grows
<1> QED
    BY <1>1 DEF ComposeInv

\* What runs goes on running.
LEMMA RunsOn ==
    ASSUME FilesInv, Grows, setting' = setting, NEW s \in Stack,
           running'[s] = running[s], DOMAIN secrets \subseteq DOMAIN secrets'
    PROVE  RunsInv(s)'
<1>1. RunsInv(s)
    BY DEF FilesInv, StackInv
<1>2. CASE running[s] # Nothing
  <2>1. PICK t : t = running[s].of
      OBVIOUS
  <2>2. t \in Stack /\ running[s].at \in job[s].savedAt \cap job[t].savedAt
      BY <1>1, <1>2, <2>1 DEF RunsInv
  <2>3. running[s].at \in job'[s].savedAt \cap job'[t].savedAt
      BY <2>2 DEF Grows
  <2> QED
      BY <1>1, <1>2, <2>1, <2>2, <2>3 DEF RunsInv
<1> QED
    BY <1>2 DEF RunsInv

\* A deployment goes on, and perhaps makes a file or stores its certificate.
LEMMA Moves ==
    ASSUME FilesInv, NEW s \in Stack, NEW j, JobStep(s, j),
           j.at \notin {"deploy", "deploy exporter", "failed"}, ~Called(s),
           UNCHANGED <<setting, clock, compose, dockerTls, called, wiped, secrets, running>>,
           tmp \subseteq tmp', stored' \in [Stack -> Nat],
           \A u \in Stack \ {s} : stored'[u] = stored[u],
           CertificateInv(s)', MadeInv(s)', SecretInv(s)', PlaceInv(s)'
    PROVE  FilesInv'
<1>1. /\ job'[s] = j /\ Grows
      /\ \A u \in Stack \ {s} : job'[u] = job[u]
    BY JobStepFacts
<1>2. FilesType'
    BY JobStepFacts DEF FilesInv, FilesType
<1>3. ComposeInv'
    BY <1>1, ComposeStays
<1>4. ASSUME NEW u \in Stack \ {s} PROVE Aside(u)
    BY <1>1, <1>4 DEF Aside, Undisturbed, Mounts
<1>5. NameInv(s)' /\ CallInv(s)' /\ SavedInv(s)' /\ job'[s].at # "failed"
    BY <1>1 DEF NameInv, CallInv, SavedInv, Called
<1>6. RunsInv(s)'
    BY <1>1, RunsOn
<1>7. StackInv(s)'
    BY <1>5, <1>6 DEF StackInv
<1> QED
    BY <1>1, <1>2, <1>3, <1>4, <1>7, OneStep

\* A delivery ends: only a failure needs a cause.
LEMMA EndKeeps ==
    ASSUME FilesInv, FilesType', NEW s \in Stack, NEW p \in {"failed", "dead", "done"},
           UnderWay(s), Ends(s, p), setting' = setting, called'[s] = NoCall,
           UNCHANGED swarm,
           p = "failed" => wiped'[s] \/ Mixed(s) \/ ~CaIsCreated(s)
    PROVE  StackInv(s)'
<1>1. PICK j : j = [job[s] EXCEPT !.at = p, !.keys = {}, !.caName = Nothing,
                                  !.fileName = Nothing]
    OBVIOUS
<1>2. /\ JobStep(s, j) /\ j.at = p /\ j.keys = {} /\ j.delivery = job[s].delivery
    BY <1>1 DEF Ends, JobStep, JobRow, FilesInv, FilesType
<1>3. job'[s] = j /\ Grows
    BY <1>2, JobStepFacts
<1>4. NameInv(s)' /\ CallInv(s)' /\ SavedInv(s)' /\ PlaceInv(s)'
    BY <1>2, <1>3 DEF NameInv, CallInv, Called, SavedInv, PlaceInv, TlsPlaces, Fetched
<1>5. RunsInv(s)'
    BY <1>3, RunsOn DEF swarm
<1>6. MadeInv(s)' /\ SecretInv(s)'
    BY <1>2, <1>3 DEF MadeInv, MadeKinds, KindsAt, Has, SecretInv, MadeSecrets, Fetched, Built
<1>7. CertificateInv(s)'
  <2>1. CertificateInv(s)
      BY DEF FilesInv, StackInv
  <2> QED
      BY <1>2, <1>3, <2>1 DEF CertificateInv, TlsSecret, swarm, UnderWay
<1>8. job'[s].at = "failed" => wiped'[s] \/ Mixed(s)' \/ ~CaIsCreated(s)'
    BY <1>2, <1>3, MixedStays DEF FilesInv, CaIsCreated
<1> QED
    BY <1>4, <1>5, <1>6, <1>7, <1>8 DEF StackInv

\* What every step knows of its deployment.
Knows(s) ==
    /\ StackInv(s)
    /\ job[s] = [at |-> job[s].at, delivery |-> job[s].delivery,
                 keys |-> job[s].keys, caName |-> job[s].caName,
                 fileName |-> job[s].fileName, savedAt |-> job[s].savedAt]
    /\ job[s].delivery \in Nat
    /\ wiped \in [Stack -> BOOLEAN] /\ stored \in [Stack -> Nat]
    /\ called = [u \in Stack |-> called[u]]
    /\ Called(s) => job[s].at \in DockerPlaces

\* The invariant says all of it.
LEMMA Known == ASSUME FilesInv, NEW s \in Stack PROVE Knows(s)
BY DEF FilesInv, FilesType, StackInv, CallInv, Knows

\* A failure outside of a call to docker.
LEMMA FailKeeps ==
    ASSUME FilesInv, NEW s \in Stack, Fail(s), UnderWay(s), job[s].at \notin DockerPlaces,
           UNCHANGED <<setting, clock, folder>>, wiped[s]
    PROVE  FilesInv'
<1>0. Knows(s)
    BY Known
<1>1. PICK j : j = [job[s] EXCEPT !.at = "failed", !.keys = {}, !.caName = Nothing,
                                  !.fileName = Nothing]
    OBVIOUS
<1>2. JobStep(s, j)
    BY <1>1, <1>0 DEF Knows, Fail, Ends, JobStep, JobRow
<1>3. /\ Grows /\ \A u \in Stack \ {s} : job'[u] = job[u]
    BY <1>2, JobStepFacts
<1>4. FilesType'
    BY <1>2, JobStepFacts DEF FilesInv, FilesType, Fail, swarm, folder
<1>5. ComposeInv'
    BY <1>3, ComposeStays DEF folder
<1>6. ASSUME NEW u \in Stack \ {s} PROVE Aside(u)
    BY <1>3, <1>6 DEF Aside, Undisturbed, Mounts, Fail, swarm, folder
<1>7. called'[s] = NoCall /\ wiped'[s]
    BY <1>0 DEF Knows, folder, Called
<1>8. StackInv(s)'
    BY <1>4, <1>7, EndKeeps DEF Fail
<1> QED
    BY <1>3, <1>4, <1>5, <1>6, <1>8, OneStep

\* A delivery begins.
LEMMA StartKeeps ==
    ASSUME FilesInv, NEW s \in Stack, Start(s), UNCHANGED <<setting, clock, command>>
    PROVE  FilesInv'
<1>0. Knows(s)
    BY Known
<1>1. PICK j : j = [job[s] EXCEPT !.at = IF setting[s].tls THEN "directory" ELSE AfterTls(s),
                                  !.delivery = job[s].delivery + 1]
    OBVIOUS
<1>2. PICK p : p = IF setting[s].tls THEN "directory" ELSE AfterTls(s)
    OBVIOUS
<1>3. /\ job' = [job EXCEPT ![s] = j] /\ job[s].at \in {"waiting", "dead"}
      /\ UNCHANGED <<folder, swarm>>
    BY <1>1 DEF Start
<1>4. JobStep(s, j) /\ j.at = p /\ j.delivery = job[s].delivery + 1 /\ j.keys = job[s].keys
  <2>1. PICK d : d = job[s].delivery + 1
      OBVIOUS
  <2>2. d \in Nat
      BY <1>0, <2>1 DEF Knows
  <2>3. j = [at |-> p, delivery |-> d, keys |-> job[s].keys, caName |-> job[s].caName,
             fileName |-> job[s].fileName, savedAt |-> job[s].savedAt]
      BY <1>0, <1>1, <1>2, <2>1 DEF Knows
  <2> QED
      BY <1>3, <2>1, <2>2, <2>3 DEF JobStep, JobRow
<1>5. /\ p \in {"directory", "replica key", "save"}
      /\ p = "directory" => setting[s].tls
      /\ p # "directory" => ~setting[s].tls
      /\ p = "save" => ~setting[s].replicated
    BY <1>2 DEF AfterTls
<1>6. ~Called(s)
    BY <1>3, <1>0 DEF Knows, DockerPlaces
<1>7. job'[s] = j
    BY <1>4, JobStepFacts
<1>8. CertificateInv(s)'
  <2>1. /\ stored[s] <= job[s].delivery /\ stored[s] \in Nat /\ job[s].delivery \in Nat
        /\ TlsSecret(s) \in DOMAIN secrets => stored[s] # 0 /\ secrets[TlsSecret(s)] <= stored[s]
      BY <1>0 DEF Knows, StackInv, CertificateInv
  <2>2. stored[s] <= j.delivery /\ j.delivery # 0
      BY <1>4, <2>1
  <2> QED
      BY <1>3, <1>4, <1>5, <1>7, <2>1, <2>2 DEF CertificateInv, swarm, TlsSecret
<1>9. MadeInv(s)'
    BY <1>3, <1>4, <1>5, <1>7, <1>0
       DEF Knows, StackInv, MadeInv, MadeKinds, KindsAt, Has, Fetched
<1>10. SecretInv(s)'
    BY <1>3, <1>4, <1>5, <1>7 DEF SecretInv, MadeSecrets, Built, AfterTls
<1>11. PlaceInv(s)'
    BY <1>4, <1>5, <1>7 DEF PlaceInv, TlsPlaces, Fetched
<1> QED
    BY <1>3, <1>4, <1>5, <1>6, <1>8, <1>9, <1>10, <1>11, Moves, <1>0 DEF Knows, folder, swarm

\* The directory is made.
LEMMA DirectoryKeeps ==
    ASSUME FilesInv, NEW s \in Stack, MakeDirectory(s), UNCHANGED <<setting, clock, command>>
    PROVE  FilesInv'
<1>0. Knows(s)
    BY Known
<1>1. PICK j : j = [job[s] EXCEPT !.at = "keys"]
    OBVIOUS
<1>2. /\ job' = [job EXCEPT ![s] = j] /\ job[s].at = "directory"
      /\ tmp' = tmp \cup {<<s, "directory">>}
      /\ UNCHANGED <<compose, dockerTls, called, wiped, swarm>>
    BY <1>1 DEF MakeDirectory, Goto
<1>3. /\ JobStep(s, j) /\ j.at = "keys" /\ j.delivery = job[s].delivery
      /\ j.keys = {}
    BY <1>1, <1>2, <1>0 DEF Knows, JobStep, JobRow, StackInv, MadeInv
<1>4. job'[s] = j
    BY <1>3, JobStepFacts
<1>5. ~Called(s)
    BY <1>2, <1>0 DEF Knows, DockerPlaces
<1>6. CertificateInv(s)' /\ PlaceInv(s)'
    BY <1>2, <1>3, <1>4, <1>0
       DEF Knows, StackInv, CertificateInv, PlaceInv, TlsPlaces, swarm, TlsSecret
<1>7. MadeInv(s)' /\ SecretInv(s)'
    BY <1>2, <1>3, <1>4
       DEF MadeInv, MadeKinds, KindsAt, Has, Fetched, SecretInv, MadeSecrets, Built
<1> QED
    BY <1>2, <1>3, <1>5, <1>6, <1>7, Moves, <1>0 DEF Knows, swarm

\* The kinds of files, step by step.
LEMMA KindsAtSteps ==
    ASSUME NEW keys
    PROVE  /\ KindsAt("keys", keys) = {"directory"} \cup keys
           /\ KindsAt("sign", keys) = {"directory", "ca", "csr"}
           /\ KindsAt("bundle", keys) = {"directory", "ca", "csr", "crt"}
           /\ KindsAt("upload", keys) = {"directory", "ca", "csr", "crt", "pem"}
           /\ \A at \in Fetched : KindsAt(at, keys) = {"directory", "ca", "csr", "crt", "pem"}
BY DEF KindsAt, Fetched

\* A command of the generator finds what it reads, unless that was taken away.
LEMMA CommandKeeps ==
    ASSUME FilesInv, NEW s \in Stack, NEW reads, NEW writes, NEW j,
           Command(s, reads, writes, j), UNCHANGED <<setting, clock, command>>,
           JobRow(s, j), j.delivery = job[s].delivery,
           job[s].at \in {"keys", "sign", "bundle"},
           j.at \in {"keys", "sign", "bundle", "upload"},
           reads \cup {"directory"} \subseteq MadeKinds(s),
           KindsAt(j.at, j.keys) \subseteq MadeKinds(s) \cup {writes}
    PROVE  FilesInv'
<1>0. Knows(s) /\ UnderWay(s) /\ job[s].at \notin DockerPlaces
    BY Known DEF UnderWay, DockerPlaces
<1>1. CASE Has(s, reads \cup {"directory"})
  <2>1. /\ job' = [job EXCEPT ![s] = j] /\ JobStep(s, j)
        /\ tmp' = tmp \cup {<<s, writes>>}
        /\ UNCHANGED <<compose, dockerTls, called, wiped, swarm>>
      BY <1>1 DEF Command, JobStep
  <2>2. job'[s] = j
      BY <2>1, JobStepFacts
  <2>3. ~Called(s)
      BY <1>0 DEF Knows
  <2>4. CertificateInv(s)'
      BY <1>0, <2>1, <2>2 DEF Knows, StackInv, CertificateInv, swarm, TlsSecret
  <2>5. MadeInv(s)'
    <3>1. ASSUME ~wiped[s], NEW k \in KindsAt(j.at, j.keys) PROVE <<s, k>> \in tmp'
        BY <1>0, <2>1, <3>1 DEF Knows, StackInv, MadeInv, Has
    <3> QED
        BY <2>1, <2>2, <3>1 DEF MadeInv, MadeKinds, Has
  <2>6. SecretInv(s)' /\ PlaceInv(s)'
      BY <1>0, <2>1, <2>2
         DEF Knows, StackInv, SecretInv, MadeSecrets, Built, PlaceInv, TlsPlaces
  <2> QED
      BY <1>0, <2>1, <2>3, <2>4, <2>5, <2>6, Moves DEF swarm, Knows
<1>2. CASE ~Has(s, reads \cup {"directory"})
  <2>1. Fail(s) /\ UNCHANGED folder
      BY <1>2 DEF Command
  <2>2. wiped[s]
      BY <1>0, <1>2 DEF Knows, StackInv, MadeInv, Has
  <2> QED
      BY <1>0, <2>1, <2>2, FailKeeps
<1> QED
    BY <1>1, <1>2

\* The certificate is generated: each phase reads what the ones before it made.
LEMMA GenerateKeeps ==
    ASSUME FilesInv, NEW s \in Stack, Generate(s), UNCHANGED <<setting, clock, command>>
    PROVE  FilesInv'
<1>0. Knows(s)
    BY Known
<1>1. CASE MakeDirectory(s)
    BY <1>1, DirectoryKeeps
<1>2. ASSUME NEW kind \in {"ca", "csr"}, Phase1(s, kind) PROVE FilesInv'
  <2>1. PICK done : done = job[s].keys \cup {kind}
      OBVIOUS
  <2>2. PICK p : p = IF done = {"ca", "csr"} THEN "sign" ELSE "keys"
      OBVIOUS
  <2>3. PICK j : j = [job[s] EXCEPT !.keys = done, !.at = p]
      OBVIOUS
  <2>4. Command(s, {}, kind, j) /\ job[s].at = "keys"
      BY <1>2, <2>1, <2>2, <2>3 DEF Phase1
  <2>5. /\ JobRow(s, j) /\ j.delivery = job[s].delivery /\ j.at = p /\ j.keys = done
      BY <1>0, <2>3 DEF Knows, JobRow
  <2>6. KindsAt(p, done) \subseteq MadeKinds(s) \cup {kind}
    <3>1. MadeKinds(s) = {"directory"} \cup job[s].keys
        BY <2>4, KindsAtSteps DEF MadeKinds
    <3>2. CASE p = "keys"
        BY <2>1, <3>1, <3>2, KindsAtSteps
    <3>3. CASE p = "sign"
      <4>1. done = {"ca", "csr"}
          BY <2>2, <3>3
      <4> QED
          BY <2>1, <3>1, <3>3, <4>1, KindsAtSteps
    <3> QED
        BY <2>2, <3>2, <3>3
  <2>7. {} \cup {"directory"} \subseteq MadeKinds(s)
      BY <2>4, KindsAtSteps DEF MadeKinds
  <2> QED
      BY <2>2, <2>4, <2>5, <2>6, <2>7, CommandKeeps
<1>3. CASE Sign(s)
  <2>1. PICK j : j = [job[s] EXCEPT !.at = "bundle"]
      OBVIOUS
  <2>2. Command(s, {"ca", "csr"}, "crt", j) /\ job[s].at = "sign"
      BY <1>3, <2>1 DEF Sign
  <2>3. /\ JobRow(s, j) /\ j.delivery = job[s].delivery /\ j.at = "bundle"
      BY <1>0, <2>1 DEF Knows, JobRow
  <2>4. /\ {"ca", "csr"} \cup {"directory"} \subseteq MadeKinds(s)
        /\ KindsAt(j.at, j.keys) \subseteq MadeKinds(s) \cup {"crt"}
      BY <2>2, <2>3, KindsAtSteps DEF MadeKinds
  <2> QED
      BY <2>2, <2>3, <2>4, CommandKeeps
<1>4. CASE Bundle(s)
  <2>1. PICK j : j = [job[s] EXCEPT !.at = "upload"]
      OBVIOUS
  <2>2. Command(s, {"csr", "crt"}, "pem", j) /\ job[s].at = "bundle"
      BY <1>4, <2>1 DEF Bundle
  <2>3. /\ JobRow(s, j) /\ j.delivery = job[s].delivery /\ j.at = "upload"
      BY <1>0, <2>1 DEF Knows, JobRow
  <2>4. /\ {"csr", "crt"} \cup {"directory"} \subseteq MadeKinds(s)
        /\ KindsAt(j.at, j.keys) \subseteq MadeKinds(s) \cup {"pem"}
      BY <2>2, <2>3, KindsAtSteps DEF MadeKinds
  <2> QED
      BY <2>2, <2>3, <2>4, CommandKeeps
<1> QED
    BY <1>1, <1>2, <1>3, <1>4 DEF Generate

\* The files are put to S3: from now on the certificate is that of this delivery.
LEMMA UploadKeeps ==
    ASSUME FilesInv, NEW s \in Stack, Upload(s), UNCHANGED <<setting, clock, command>>
    PROVE  FilesInv'
<1>0. Knows(s) /\ job[s].at = "upload" /\ UnderWay(s) /\ job[s].at \notin DockerPlaces
      /\ UNCHANGED folder
    BY Known DEF UnderWay, DockerPlaces, Upload
<1>1. MadeKinds(s) = {"directory", "ca", "csr", "crt", "pem"}
    BY <1>0, KindsAtSteps DEF MadeKinds
<1>2. CASE Has(s, {"ca", "csr", "crt", "pem"})
  <2>1. PICK j : j = [job[s] EXCEPT !.at = "tls files"]
      OBVIOUS
  <2>2. /\ job' = [job EXCEPT ![s] = j]
        /\ stored' = [stored EXCEPT ![s] = job[s].delivery]
        /\ UNCHANGED <<secrets, running>>
      BY <1>2, <2>1 DEF Upload, Goto
  <2>3. JobStep(s, j) /\ j.at = "tls files" /\ j.delivery = job[s].delivery
      BY <1>0, <2>1, <2>2 DEF Knows, JobStep, JobRow
  <2>4. job'[s] = j
      BY <2>3, JobStepFacts
  <2>5. /\ stored'[s] = job[s].delivery /\ stored' \in [Stack -> Nat]
        /\ \A u \in Stack \ {s} : stored'[u] = stored[u]
      BY <1>0, <2>2 DEF Knows
  <2>6. CertificateInv(s)'
    <3>1. /\ stored[s] <= job[s].delivery /\ job[s].delivery # 0
          /\ TlsSecret(s) \in DOMAIN secrets => secrets[TlsSecret(s)] <= stored[s]
        BY <1>0 DEF Knows, StackInv, CertificateInv
    <3>2. TlsSecret(s) \in DOMAIN secrets => secrets[TlsSecret(s)] <= job[s].delivery
        BY <1>0, <3>1 DEF Knows, FilesInv, FilesType
    <3>3. job[s].delivery <= job[s].delivery
        BY <1>0 DEF Knows
    <3> QED
        BY <2>2, <2>3, <2>4, <2>5, <3>1, <3>2, <3>3 DEF CertificateInv, TlsSecret
  <2>7. MadeInv(s)' /\ SecretInv(s)' /\ PlaceInv(s)'
      BY <1>0, <1>1, <2>2, <2>3, <2>4
         DEF Knows, StackInv, MadeInv, MadeKinds, KindsAt, Has, Fetched, SecretInv,
             MadeSecrets, Built, PlaceInv, TlsPlaces, folder
  <2> QED
      BY <1>0, <2>2, <2>3, <2>5, <2>6, <2>7, Moves DEF Knows, folder
<1>3. CASE ~Has(s, {"ca", "csr", "crt", "pem"})
  <2>1. Fail(s)
      BY <1>3 DEF Upload
  <2>2. wiped[s]
      BY <1>0, <1>1, <1>3 DEF Knows, StackInv, MadeInv, Has
  <2> QED
      BY <1>0, <2>1, <2>2, FailKeeps
<1> QED
    BY <1>2, <1>3

\* A file is read before docker is asked, and is there unless it was taken away.
LEMMA ReadFilesKeeps ==
    ASSUME FilesInv, NEW s \in Stack, NEW from, NEW kinds, NEW to,
           ReadFiles(s, from, kinds, to), UNCHANGED <<setting, clock, command>>,
           \/ from = "tls files" /\ kinds = {"pem", "crt"} /\ to = "tls secret"
           \/ from = "ca file" /\ kinds = {"ca"} /\ to = "ca secret"
    PROVE  FilesInv'
<1>0. /\ Knows(s) /\ job[s].at = from /\ UnderWay(s) /\ job[s].at \notin DockerPlaces
      /\ UNCHANGED folder
    BY Known DEF UnderWay, DockerPlaces, ReadFiles
<1>1. MadeKinds(s) = {"directory", "ca", "csr", "crt", "pem"}
    BY <1>0, KindsAtSteps DEF MadeKinds, Fetched
<1>2. CASE Has(s, kinds)
  <2>1. PICK j : j = [job[s] EXCEPT !.at = to]
      OBVIOUS
  <2>2. job' = [job EXCEPT ![s] = j] /\ UNCHANGED swarm
      BY <1>2, <2>1 DEF ReadFiles, Goto
  <2>3. JobStep(s, j) /\ j.at = to /\ j.delivery = job[s].delivery /\ j.caName = job[s].caName
      BY <1>0, <2>1, <2>2 DEF Knows, JobStep, JobRow
  <2>4. job'[s] = j
      BY <2>3, JobStepFacts
  <2>5. CertificateInv(s)'
      BY <1>0, <2>2, <2>3, <2>4 DEF Knows, StackInv, CertificateInv, TlsSecret, swarm
  <2>6. MadeInv(s)' /\ SecretInv(s)' /\ PlaceInv(s)'
      BY <1>0, <2>2, <2>3, <2>4
         DEF Knows, StackInv, MadeInv, MadeKinds, KindsAt, Has, Fetched, SecretInv,
             MadeSecrets, Built, PlaceInv, TlsPlaces, folder, swarm, TlsSecret
  <2> QED
      BY <1>0, <2>2, <2>3, <2>5, <2>6, Moves DEF Knows, folder, swarm
<1>3. CASE ~Has(s, kinds)
  <2>1. Fail(s)
      BY <1>3 DEF ReadFiles
  <2>2. wiped[s]
      BY <1>0, <1>1, <1>3 DEF Knows, StackInv, MadeInv, Has
  <2> QED
      BY <1>0, <2>1, <2>2, FailKeeps
<1> QED
    BY <1>2, <1>3

-----------------------------------------------------------------------------
(* Calls to docker.                                                         *)

\* The files of a call are written to the directory that it names.
LEMMA PrepareKeeps ==
    ASSUME FilesInv, NEW s \in Stack, PrepareCall(s), UNCHANGED <<setting, clock, command>>
    PROVE  FilesInv'
<1>0. Knows(s)
    BY Known
<1>1. Grows
    BY DEF Grows, PrepareCall
<1>2. FilesType' /\ ComposeInv'
    BY <1>0, <1>1, ComposeStays DEF Knows, FilesInv, FilesType, PrepareCall, swarm
<1>3. ASSUME NEW u \in Stack \ {s} PROVE Aside(u)
    BY <1>0, <1>3 DEF Knows, Aside, Undisturbed, Mounts, PrepareCall, swarm
<1>4. CallInv(s)'
    BY <1>0 DEF Knows, CallInv, Usable, PrepareCall
<1>5. NameInv(s)' /\ RunsInv(s)' /\ CertificateInv(s)' /\ MadeInv(s)' /\ PlaceInv(s)'
    BY <1>0 DEF Knows, StackInv, NameInv, RunsInv, CertificateInv, TlsSecret, MadeInv,
       MadeKinds, Has, PlaceInv, PrepareCall, swarm
<1>6. SecretInv(s)' /\ SavedInv(s)'
    BY <1>0 DEF Knows, StackInv, SecretInv, MadeSecrets, TlsSecret, CaSecret, ReplicaKey,
       SavedInv, DatabaseFile, StandaloneFile, ReplicaSetFile, Mounted, Mixed, Deployed,
       PrepareCall, swarm
<1>7. StackInv(s)'
    BY <1>0, <1>4, <1>5, <1>6
       DEF Knows, StackInv, Mixed, Deployed, CaIsCreated, PrepareCall
<1> QED
    BY <1>1, <1>2, <1>3, <1>7, OneStep

\* The end of a call takes its directory from those only that are noted.
LEMMA CallEndsFacts ==
    ASSUME FilesInv, NEW s \in Stack, Called(s), CallEnds(s)
    PROVE  /\ called'[s] = NoCall /\ called' = [u \in Stack |-> called'[u]]
           /\ wiped' \in [Stack -> BOOLEAN] /\ wiped'[s] = wiped[s]
           /\ \A u \in Stack \ {s} :
                 /\ called'[u] = called[u]
                 /\ wiped[u] => wiped'[u]
                 /\ ~wiped'[u] /\ Called(u) /\ called[u] \in dockerTls
                       => called[u] \in dockerTls'
<1>1. /\ called = [u \in Stack |-> called[u]] /\ wiped \in [Stack -> BOOLEAN]
      /\ called' = [called EXCEPT ![s] = NoCall]
    BY DEF FilesInv, FilesType, CallEnds
<1>2. /\ called'[s] = NoCall /\ called' = [u \in Stack |-> called'[u]]
      /\ \A u \in Stack \ {s} : called'[u] = called[u]
    BY <1>1
<1>3. CASE RemoveFiles(s)
  <2>1. \A u \in Stack :
           wiped'[u] = (wiped[u] \/ (u # s /\ Called(u) /\ called[u] = called[s]))
      BY <1>3 DEF RemoveFiles
  <2>2. wiped' \in [Stack -> BOOLEAN]
      BY <1>1, <1>3 DEF RemoveFiles
  <2>3. wiped'[s] = wiped[s]
      BY <1>1, <2>1
  <2>4. dockerTls' = dockerTls \ {called[s]}
      BY <1>3 DEF RemoveFiles
  <2> QED
      BY <1>2, <2>1, <2>2, <2>3, <2>4
<1>4. CASE UNCHANGED <<dockerTls, wiped>>
    BY <1>1, <1>2, <1>4
<1> QED
    BY <1>3, <1>4 DEF CallEnds

\* What docker lists are the secrets there are.
LEMMA ListedSecrets ==
    ASSUME NEW S, IsFiniteSet(S)
    PROVE  Listed(SetToSeq(S)) \subseteq S
<1>1. PICK f \in Bijection(1 .. Cardinality(S), S) : TRUE
    BY FS_CardinalityType DEF ExistsBijection
<1>2. f \in [1 .. Cardinality(S) -> S] /\ IsInjective(f)
    BY <1>1 DEF Bijection, Injection, IsInjective
<1>3. SetToSeq(S) \in [1 .. Cardinality(S) -> S]
    BY <1>2 DEF SetToSeq
<1> QED
    BY <1>3 DEF Listed

\* Then the secret is there, and is of this delivery if it is new.
LEMMA CreateSecretFacts ==
    ASSUME FilesInv, NEW s \in Stack, NEW name, CreateSecret(s, name)
    PROVE  /\ DOMAIN secrets' = DOMAIN secrets \cup {name}
           /\ IsFiniteSet(DOMAIN secrets')
           /\ \A n \in DOMAIN secrets : secrets'[n] = secrets[n]
           /\ name \notin DOMAIN secrets => secrets'[name] = job[s].delivery
<1>1. IsFiniteSet(DOMAIN secrets)
    BY DEF FilesInv, FilesType
<1>2. CASE name \in Listed(SetToSeq(DOMAIN secrets)) /\ UNCHANGED secrets
    BY <1>1, <1>2, ListedSecrets
<1>3. CASE /\ name \notin DOMAIN secrets
           /\ secrets' = [n \in DOMAIN secrets \cup {name} |->
                             IF n = name THEN job[s].delivery ELSE secrets[n]]
  <2>1. IsFiniteSet(DOMAIN secrets \cup {name})
      BY <1>1, FS_AddElement
  <2> QED
      BY <1>3, <2>1
<1> QED
    BY <1>2, <1>3 DEF CreateSecret

\* A secret is made, and the call ends.
LEMMA SecretKeeps ==
    ASSUME FilesInv, NEW s \in Stack, NEW k, NEW j, JobStep(s, j),
           Called(s), CallEnds(s), CreateSecret(s, <<s, k>>),
           UNCHANGED <<setting, clock, tmp, compose, running, stored>>,
           j.at \in {"ca file", "replica key", "save"}, j.delivery = job[s].delivery,
           k = "tlscert" => job[s].at = "tls secret",
           MadeInv(s)', SecretInv(s)', PlaceInv(s)'
    PROVE  FilesInv'
<1>0. Knows(s)
    BY Known
<1>1. /\ job'[s] = j /\ Grows
      /\ \A u \in Stack \ {s} : job'[u] = job[u]
    BY JobStepFacts
<1>2. /\ DOMAIN secrets' = DOMAIN secrets \cup {<<s, k>>}
      /\ IsFiniteSet(DOMAIN secrets')
      /\ \A n \in DOMAIN secrets : secrets'[n] = secrets[n]
      /\ <<s, k>> \notin DOMAIN secrets => secrets'[<<s, k>>] = job[s].delivery
    BY CreateSecretFacts
<1>3. FilesType'
  <2>1. ASSUME NEW n \in DOMAIN secrets' PROVE secrets'[n] \in Nat
    <3>1. CASE n \in DOMAIN secrets
        BY <1>2, <3>1 DEF FilesInv, FilesType
    <3>2. CASE n \notin DOMAIN secrets
        BY <1>0, <1>2, <2>1, <3>2 DEF Knows
    <3> QED
        BY <3>1, <3>2
  <2>2. /\ called' = [u \in Stack |-> called'[u]] /\ wiped' \in [Stack -> BOOLEAN]
      BY CallEndsFacts
  <2> QED
      BY <1>2, <2>1, <2>2, JobStepFacts DEF FilesInv, FilesType
<1>4. ComposeInv'
    BY <1>1, ComposeStays
<1>5. ASSUME NEW u \in Stack \ {s} PROVE Aside(u)
  <2>1. /\ called'[u] = called[u]
        /\ wiped[u] => wiped'[u]
        /\ ~wiped'[u] /\ Called(u) /\ called[u] \in dockerTls => called[u] \in dockerTls'
      BY <1>5, CallEndsFacts
  <2>2. TlsSecret(u) # <<s, k>>
      BY <1>5 DEF TlsSecret
  <2>3. Mounts(u)
      BY <1>2, <2>2 DEF Mounts
  <2> QED
      BY <1>1, <1>2, <1>5, <2>1, <2>3 DEF Aside, Undisturbed
<1>6. NameInv(s)' /\ CallInv(s)' /\ SavedInv(s)' /\ job'[s].at # "failed"
    BY <1>1, CallEndsFacts DEF NameInv, CallInv, SavedInv, Called
<1>7. RunsInv(s)'
    BY <1>1, <1>2, RunsOn
<1>8. CertificateInv(s)'
  <2>1. CertificateInv(s)
      BY <1>0 DEF Knows, StackInv
  <2>2. /\ stored'[s] <= j.delivery /\ j.delivery # 0
      BY <1>0, <2>1 DEF CertificateInv, Knows, DockerPlaces
  <2>3. CASE TlsSecret(s) \in DOMAIN secrets
    <3>1. secrets'[TlsSecret(s)] = secrets[TlsSecret(s)]
        BY <1>2, <2>3
    <3> QED
        BY <1>1, <2>1, <2>2, <2>3, <3>1 DEF CertificateInv, TlsSecret
  <2>4. CASE TlsSecret(s) \notin DOMAIN secrets /\ TlsSecret(s) \in DOMAIN secrets'
    <3>1. k = "tlscert" /\ secrets'[TlsSecret(s)] = job[s].delivery
        BY <1>2, <2>4 DEF TlsSecret
    <3>2. stored[s] = job[s].delivery /\ stored[s] \in Nat
        BY <1>0, <2>1, <3>1 DEF CertificateInv, Knows
    <3>3. secrets'[TlsSecret(s)] <= stored[s] /\ stored[s] # 0
        BY <2>2, <3>1, <3>2
    <3> QED
        BY <1>1, <2>2, <3>3 DEF CertificateInv, TlsSecret
  <2>5. CASE TlsSecret(s) \notin DOMAIN secrets'
      BY <1>1, <2>2, <2>5 DEF CertificateInv, TlsSecret
  <2> QED
      BY <2>3, <2>4, <2>5
<1>9. StackInv(s)'
    BY <1>6, <1>7, <1>8 DEF StackInv
<1> QED
    BY <1>1, <1>3, <1>4, <1>5, <1>9, OneStep

\* What it leaves of the deployment's own state.
LEMMA SecretLeaves ==
    ASSUME FilesInv, NEW s \in Stack, NEW name, NEW j, JobStep(s, j),
           Called(s), CallEnds(s), CreateSecret(s, name)
    PROVE  /\ job'[s] = j /\ wiped'[s] = wiped[s] /\ name \in DOMAIN secrets'
           /\ DOMAIN secrets \subseteq DOMAIN secrets'
<1>1. job'[s] = j
    BY JobStepFacts
<1>2. wiped'[s] = wiped[s]
    BY CallEndsFacts
<1>3. DOMAIN secrets' = DOMAIN secrets \cup {name}
    BY CreateSecretFacts
<1> QED
    BY <1>1, <1>2, <1>3

\* createSecrets: the TLS secret, and for some versions the one of the CA.
LEMMA CreateTlsSecretKeeps ==
    ASSUME FilesInv, NEW s \in Stack, CreateTlsSecret(s), UNCHANGED <<setting, clock, command>>
    PROVE  FilesInv'
<1>0. /\ Knows(s) /\ job[s].at = "tls secret" /\ Called(s) /\ CallEnds(s)
      /\ CreateSecret(s, <<s, "tlscert">>)
      /\ UNCHANGED <<tmp, compose, running, stored>>
    BY Known DEF CreateTlsSecret, TlsSecret
<1>1. PICK p : p = IF setting[s].version \in NeedsCa THEN "ca file" ELSE AfterTls(s)
    OBVIOUS
<1>2. PICK j : j = [job[s] EXCEPT !.at = p]
    OBVIOUS
<1>3. /\ job' = [job EXCEPT ![s] = j] /\ JobStep(s, j) /\ j.at = p
      /\ j.delivery = job[s].delivery /\ j.keys = job[s].keys
    BY <1>0, <1>1, <1>2 DEF Knows, CreateTlsSecret, Goto, JobStep, JobRow
<1>4. /\ p \in {"ca file", "replica key", "save"}
      /\ p # "ca file" => setting[s].version \notin NeedsCa
      /\ p = "save" => ~setting[s].replicated
    BY <1>1 DEF AfterTls
<1>5. job'[s] = j /\ wiped'[s] = wiped[s] /\ TlsSecret(s) \in DOMAIN secrets'
    BY <1>0, <1>3, SecretLeaves DEF TlsSecret
<1>6. setting[s].tls
    BY <1>0 DEF Knows, StackInv, PlaceInv, TlsPlaces, Fetched
<1>7. MadeInv(s)'
    BY <1>0, <1>3, <1>4, <1>5
       DEF Knows, StackInv, MadeInv, MadeKinds, KindsAt, Fetched, Has
<1>8. SecretInv(s)' /\ PlaceInv(s)'
    BY <1>0, <1>3, <1>4, <1>5, <1>6
       DEF SecretInv, MadeSecrets, Built, PlaceInv, TlsSecret
<1> QED
    BY <1>0, <1>3, <1>4, <1>7, <1>8, SecretKeeps

\* The name of the CA secret is kept for the compose file.
LEMMA CreateCaSecretKeeps ==
    ASSUME FilesInv, NEW s \in Stack, CreateCaSecret(s), UNCHANGED <<setting, clock, command>>
    PROVE  FilesInv'
<1>0. /\ Knows(s) /\ job[s].at = "ca secret" /\ Called(s) /\ CallEnds(s)
      /\ CreateSecret(s, <<s, "ca">>)
      /\ UNCHANGED <<tmp, compose, running, stored>>
    BY Known DEF CreateCaSecret, CaSecret
<1>1. PICK p : p = AfterTls(s)
    OBVIOUS
<1>2. PICK j : j = [job[s] EXCEPT !.at = p, !.caName = CaSecret(s)]
    OBVIOUS
<1>3. /\ job' = [job EXCEPT ![s] = j] /\ JobStep(s, j) /\ j.at = p
      /\ j.delivery = job[s].delivery /\ j.keys = job[s].keys /\ j.caName = CaSecret(s)
    BY <1>0, <1>1, <1>2 DEF Knows, CreateCaSecret, JobStep, JobRow
<1>4. /\ p \in {"replica key", "save"}
      /\ p = "save" => ~setting[s].replicated
    BY <1>1 DEF AfterTls
<1>5. /\ job'[s] = j /\ wiped'[s] = wiped[s] /\ CaSecret(s) \in DOMAIN secrets'
      /\ DOMAIN secrets \subseteq DOMAIN secrets'
    BY <1>0, <1>3, SecretLeaves DEF CaSecret
<1>6. setting[s].tls
    BY <1>0 DEF Knows, StackInv, PlaceInv, TlsPlaces, Fetched
<1>7. MadeInv(s)' /\ PlaceInv(s)'
    BY <1>3, <1>4, <1>5, <1>6 DEF MadeInv, MadeKinds, KindsAt, Fetched, Has, PlaceInv
<1>8. SecretInv(s)'
  <2>1. ~wiped[s] => TlsSecret(s) \in DOMAIN secrets
      BY <1>0, <1>6 DEF Knows, StackInv, SecretInv, MadeSecrets
  <2> QED
      BY <1>0, <1>3, <1>4, <1>5, <2>1 DEF SecretInv, MadeSecrets, Built, TlsSecret, CaSecret
<1> QED
    BY <1>0, <1>3, <1>4, <1>7, <1>8, SecretKeeps

\* setupReplicaKeyIfNeeded: the key of the replica set.
LEMMA CreateReplicaKeyKeeps ==
    ASSUME FilesInv, NEW s \in Stack, CreateReplicaKey(s), UNCHANGED <<setting, clock, command>>
    PROVE  FilesInv'
<1>0. /\ Knows(s) /\ job[s].at = "replica key" /\ Called(s) /\ CallEnds(s)
      /\ CreateSecret(s, <<s, "replicakey">>)
      /\ UNCHANGED <<tmp, compose, running, stored>>
    BY Known DEF CreateReplicaKey, ReplicaKey
<1>1. PICK j : j = [job[s] EXCEPT !.at = "save"]
    OBVIOUS
<1>2. /\ job' = [job EXCEPT ![s] = j] /\ JobStep(s, j) /\ j.at = "save"
      /\ j.delivery = job[s].delivery /\ j.keys = job[s].keys /\ j.caName = job[s].caName
    BY <1>0, <1>1 DEF Knows, CreateReplicaKey, Goto, JobStep, JobRow
<1>3. /\ job'[s] = j /\ wiped'[s] = wiped[s] /\ ReplicaKey(s) \in DOMAIN secrets'
      /\ DOMAIN secrets \subseteq DOMAIN secrets'
    BY <1>0, <1>2, SecretLeaves DEF ReplicaKey
<1>4. MadeInv(s)' /\ PlaceInv(s)'
    BY <1>2, <1>3 DEF MadeInv, MadeKinds, KindsAt, Fetched, Has, PlaceInv, TlsPlaces
<1>5. SecretInv(s)'
  <2>1. /\ ~wiped[s] /\ setting[s].tls => TlsSecret(s) \in DOMAIN secrets
        /\ ~wiped[s] /\ setting[s].tls /\ setting[s].version \in NeedsCa
              => CaSecret(s) \in DOMAIN secrets
        /\ setting[s].tls /\ setting[s].version \in NeedsCa => job[s].caName = CaSecret(s)
      BY <1>0 DEF Knows, StackInv, SecretInv, MadeSecrets
  <2> QED
      BY <1>0, <1>2, <1>3, <2>1
         DEF SecretInv, MadeSecrets, Built, TlsSecret, CaSecret, ReplicaKey
<1> QED
    BY <1>0, <1>2, <1>4, <1>5, SecretKeeps

\* A call that fails, with the deployment, needs a cause.
LEMMA CallFails ==
    ASSUME FilesInv, NEW s \in Stack, Called(s), CallEnds(s), Fail(s),
           UNCHANGED <<setting, clock, tmp, compose>>,
           wiped[s] \/ Mixed(s) \/ ~CaIsCreated(s)
    PROVE  FilesInv'
<1>0. Knows(s) /\ UnderWay(s)
    BY Known DEF Knows, UnderWay, DockerPlaces
<1>1. PICK j : j = [job[s] EXCEPT !.at = "failed", !.keys = {}, !.caName = Nothing,
                                  !.fileName = Nothing]
    OBVIOUS
<1>2. JobStep(s, j)
    BY <1>1, <1>0 DEF Knows, Fail, Ends, JobStep, JobRow
<1>3. /\ Grows /\ \A u \in Stack \ {s} : job'[u] = job[u]
    BY <1>2, JobStepFacts
<1>4. /\ called'[s] = NoCall /\ called' = [u \in Stack |-> called'[u]]
      /\ wiped' \in [Stack -> BOOLEAN] /\ wiped'[s] = wiped[s]
    BY CallEndsFacts
<1>5. FilesType'
    BY <1>2, <1>4, JobStepFacts DEF FilesInv, FilesType, Fail, swarm
<1>6. ComposeInv'
    BY <1>3, ComposeStays
<1>7. ASSUME NEW u \in Stack \ {s} PROVE Aside(u)
  <2>1. /\ called'[u] = called[u]
        /\ wiped[u] => wiped'[u]
        /\ ~wiped'[u] /\ Called(u) /\ called[u] \in dockerTls => called[u] \in dockerTls'
      BY <1>7, CallEndsFacts
  <2> QED
      BY <1>3, <2>1 DEF Aside, Undisturbed, Mounts, Fail, swarm
<1>8. StackInv(s)'
    BY <1>0, <1>4, <1>5, EndKeeps DEF Fail
<1> QED
    BY <1>3, <1>5, <1>6, <1>7, <1>8, OneStep

\* docker could not be asked for a secret: the files of its client were removed.
LEMMA SecretFailsKeeps ==
    ASSUME FilesInv, NEW s \in Stack, SecretFails(s), UNCHANGED <<setting, clock, command>>
    PROVE  FilesInv'
<1>1. wiped[s]
    BY Known DEF Knows, StackInv, CallInv, SecretFails
<1> QED
    BY <1>1, CallFails DEF SecretFails

-----------------------------------------------------------------------------
(* Compose files.                                                           *)

\* A file that is saved is of its name, and so are the others.
LEMMA SaveKeepsNames ==
    ASSUME FilesInv, NEW s \in Stack, NEW j, JobStep(s, j), setting' = setting,
           NEW n, NEW file,
           compose' = [m \in DOMAIN compose \cup {n} |-> IF m = n THEN file ELSE compose[m]],
           file.kind = n.kind,
           n.kind = "database" =>
              /\ file.of = s /\ file.at = n.at /\ n.at \in j.savedAt
              /\ n.replicated = setting[s].replicated
              /\ file.command \subseteq file.external
    PROVE  ComposeInv'
<1>1. job'[s] = j /\ Grows
    BY JobStepFacts
<1>2. ASSUME NEW m \in DOMAIN compose', m = n PROVE FileIsOfItsName(m)'
    BY <1>1, <1>2 DEF FileIsOfItsName
<1>3. ASSUME NEW m \in DOMAIN compose', m # n PROVE FileIsOfItsName(m)'
  <2>1. m \in DOMAIN compose /\ compose'[m] = compose[m]
      BY <1>3
  <2>2. FileIsOfItsName(m)
      BY <2>1 DEF FilesInv, ComposeInv
  <2> QED
      BY <1>1, <2>1, <2>2 DEF FileIsOfItsName, Grows
<1> QED
    BY <1>2, <1>3 DEF ComposeInv

\* The file of a database names the secrets that its service is given, which are
\* those of the templates.
LEMMA DatabaseFileFacts ==
    ASSUME NEW s \in Stack
    PROVE  /\ DatabaseFile(s).kind = "database" /\ DatabaseFile(s).of = s
           /\ DatabaseFile(s).at = clock
           /\ DatabaseFile(s).command \subseteq DatabaseFile(s).external
           /\ DatabaseFile(s).external \subseteq
                 (IF setting[s].tls THEN {TlsSecret(s)} ELSE {})
                 \cup (IF setting[s].tls /\ setting[s].version \in Modern
                       THEN {job[s].caName} ELSE {})
                 \cup (IF setting[s].replicated THEN {ReplicaKey(s)} ELSE {})
BY DEF DatabaseFile, ReplicaSetFile, StandaloneFile, CommandFiles, Mounted

\* saveToFile: the file has the name of its kind and its instant.
LEMMA SaveKeeps ==
    ASSUME FilesInv, NEW s \in Stack, NEW from, NEW kind, NEW file, NEW to,
           Save(s, from, kind, file, to), UNCHANGED <<setting, clock, command>>,
           file.kind = kind,
           \/ /\ from = "save" /\ kind = "database" /\ to = "deploy"
              /\ file.of = s /\ file.at = clock /\ file.command \subseteq file.external
              /\ file.external = DatabaseFile(s).external
           \/ from = "save exporter" /\ kind = "exporter" /\ to = "deploy exporter"
    PROVE  FilesInv'
<1>0. Knows(s) /\ job[s].at = from /\ ~Called(s)
    BY Known DEF Knows, Save, DockerPlaces
<1>1. PICK n : n = NameOf(s, kind)
    OBVIOUS
<1>2. PICK saved : saved = IF kind = "database" THEN job[s].savedAt \cup {clock}
                           ELSE job[s].savedAt
    OBVIOUS
<1>3. PICK j : j = [job[s] EXCEPT !.at = to, !.fileName = n, !.savedAt = saved]
    OBVIOUS
<1>4. /\ job' = [job EXCEPT ![s] = j]
      /\ compose' = [m \in DOMAIN compose \cup {n} |-> IF m = n THEN file ELSE compose[m]]
      /\ UNCHANGED <<tmp, dockerTls, called, wiped, swarm>>
    BY <1>1, <1>2, <1>3 DEF Save
<1>5. /\ JobStep(s, j) /\ j.at = to /\ j.fileName = n /\ j.savedAt = saved
      /\ j.keys = job[s].keys /\ j.caName = job[s].caName /\ j.delivery = job[s].delivery
    BY <1>0, <1>2, <1>3, <1>4 DEF Knows, JobStep, JobRow
<1>6. /\ job'[s] = j /\ Grows
      /\ \A u \in Stack \ {s} : job'[u] = job[u]
    BY <1>5, JobStepFacts
<1>7. /\ n = [kind |-> kind, replicated |-> setting[s].replicated, at |-> n.at]
      /\ n.kind = kind /\ n.at = clock /\ n.replicated = setting[s].replicated
      /\ kind = "database" => n.at \in j.savedAt
  <2>1. n = [kind |-> kind, replicated |-> setting[s].replicated, at |-> clock]
      BY <1>1 DEF NameOf
  <2>2. n.kind = kind /\ n.at = clock /\ n.replicated = setting[s].replicated
      BY <2>1
  <2>3. kind = "database" => n.at \in j.savedAt
      BY <1>2, <1>5, <2>2
  <2> QED
      BY <2>1, <2>2, <2>3
<1>8. FilesType'
    BY <1>4, <1>5, JobStepFacts DEF FilesInv, FilesType, swarm
<1>9. ComposeInv'
  <2>1. /\ file.kind = n.kind
        /\ n.kind = "database" =>
              /\ file.of = s /\ file.at = n.at /\ n.at \in j.savedAt
              /\ n.replicated = setting[s].replicated
              /\ file.command \subseteq file.external
      BY <1>7
  <2>2. compose' = [m \in DOMAIN compose \cup {n} |-> IF m = n THEN file ELSE compose[m]]
      BY <1>4
  <2>3. JobStep(s, j) /\ setting' = setting
      BY <1>5
  <2> QED
      BY <2>1, <2>2, <2>3, SaveKeepsNames
<1>10. ASSUME NEW u \in Stack \ {s} PROVE Aside(u)
  <2>1. ASSUME NEW m \in DOMAIN compose, m.kind = "database", compose'[m] # compose[m]
        PROVE  \E t \in Stack \ {u} : m.at \in job'[t].savedAt
    <3>1. m = n
        BY <1>4, <2>1
    <3>2. m.at \in job'[s].savedAt
        BY <1>6, <1>7, <2>1, <3>1
    <3> QED
        BY <1>10, <3>2
  <2> QED
      BY <1>4, <1>6, <1>10, <2>1 DEF Aside, Undisturbed, Mounts, swarm
<1>11. NameInv(s)' /\ CallInv(s)' /\ PlaceInv(s)' /\ job'[s].at # "failed"
    BY <1>0, <1>4, <1>5, <1>6, <1>7
       DEF NameInv, CallInv, Called, PlaceInv, TlsPlaces, Fetched, DockerPlaces
<1>12. RunsInv(s)'
    BY <1>4, <1>6, RunsOn DEF swarm
<1>13. CertificateInv(s)'
    BY <1>0, <1>4, <1>5, <1>6 DEF Knows, StackInv, CertificateInv, TlsSecret, swarm
<1>14. MadeInv(s)'
    BY <1>5, <1>6 DEF MadeInv, MadeKinds, KindsAt, Fetched, Has
<1>15. SecretInv(s)'
    BY <1>0, <1>4, <1>5, <1>6
       DEF Knows, StackInv, SecretInv, MadeSecrets, Built, TlsSecret, CaSecret, ReplicaKey,
           swarm
<1>16. SavedInv(s)'
  <2>1. DatabaseFile(s)'.external = DatabaseFile(s).external
      BY <1>5, <1>6 DEF DatabaseFile, StandaloneFile, ReplicaSetFile, Mounted, TlsSecret,
         CaSecret, ReplicaKey
  <2>2. n \in DOMAIN compose' /\ compose'[n] = file
      BY <1>4
  <2> QED
      BY <1>5, <1>6, <2>1, <2>2 DEF SavedInv
<1>17. StackInv(s)'
    BY <1>11, <1>12, <1>13, <1>14, <1>15, <1>16 DEF StackInv
<1> QED
    BY <1>6, <1>8, <1>9, <1>10, <1>17, OneStep

\* The files of the database and of its exporter.
LEMMA SavesKeep ==
    ASSUME FilesInv, NEW s \in Stack, SaveDatabase(s) \/ SaveExporter(s),
           UNCHANGED <<setting, clock, command>>
    PROVE  FilesInv'
<1>1. CASE SaveDatabase(s)
    BY <1>1, SaveKeeps, DatabaseFileFacts DEF SaveDatabase
<1>2. CASE SaveExporter(s)
  <2>1. ExporterFile(s).kind = "exporter"
      BY DEF ExporterFile
  <2> QED
      BY <1>2, <2>1, SaveKeeps DEF SaveExporter
<1> QED
    BY <1>1, <1>2

-----------------------------------------------------------------------------
(* docker stack deploy.                                                     *)

\* It fails only if something was taken away or replaced, or a CA secret was
\* never asked for.
LEMMA WhyNotDeployable ==
    ASSUME FilesInv, NEW s \in Stack, Called(s),
           job[s].at \in {"deploy", "deploy exporter"}, ~Deployable(s)
    PROVE  wiped[s] \/ Mixed(s) \/ ~CaIsCreated(s)
<1>0. Knows(s)
    BY Known
<1>1. SUFFICES ASSUME ~wiped[s], ~Mixed(s), CaIsCreated(s) PROVE FALSE
    OBVIOUS
<1>2. PICK n : n = job[s].fileName
    OBVIOUS
<1>3. Usable(s) /\ n \in DOMAIN compose
    BY <1>0, <1>1, <1>2 DEF Knows, StackInv, CallInv, SavedInv
<1>4. compose[n].kind # "exporter" /\ ~(compose[n].external \subseteq DOMAIN secrets)
    BY <1>2, <1>3 DEF Deployable
<1>5. compose[n].kind = n.kind
    BY <1>3 DEF FilesInv, ComposeInv, FileIsOfItsName
<1>6. job[s].at = "deploy"
    BY <1>0, <1>2, <1>4, <1>5 DEF Knows, StackInv, NameInv
<1>7. compose[n].external = DatabaseFile(s).external
    BY <1>0, <1>1, <1>2, <1>6 DEF Knows, StackInv, SavedInv
<1>8. MadeSecrets(s) \subseteq DOMAIN secrets
    BY <1>0, <1>1 DEF Knows, StackInv, SecretInv
<1>9. setting[s].tls => TlsSecret(s) \in DOMAIN secrets
    BY <1>6, <1>8 DEF MadeSecrets, Built
<1>10. setting[s].tls /\ setting[s].version \in Modern => job[s].caName \in DOMAIN secrets
  <2>1. setting[s].tls /\ setting[s].version \in NeedsCa =>
            job[s].caName = CaSecret(s) /\ CaSecret(s) \in DOMAIN secrets
      BY <1>0, <1>6, <1>8 DEF Knows, StackInv, SecretInv, MadeSecrets, Built
  <2> QED
      BY <1>1, <2>1 DEF CaIsCreated
<1>11. setting[s].replicated => ReplicaKey(s) \in DOMAIN secrets
    BY <1>6, <1>8 DEF MadeSecrets, Built
<1>12. DatabaseFile(s).external \subseteq DOMAIN secrets
    BY <1>9, <1>10, <1>11, DatabaseFileFacts
<1> QED
    BY <1>4, <1>7, <1>12

\* The file that a database is deployed from is complete, and is its own or of
\* its instant.
LEMMA WhatIsDeployed ==
    ASSUME FilesInv, NEW s \in Stack, job[s].at = "deploy", Deployable(s),
           NEW f, f = compose[job[s].fileName]
    PROVE  /\ f.command \subseteq f.external
           /\ f.external \subseteq DOMAIN secrets
           /\ f.of \in Stack /\ setting[f.of].replicated = setting[s].replicated
           /\ f.at \in job[s].savedAt /\ f.at \in job[f.of].savedAt
<1>1. PICK n : n = job[s].fileName
    OBVIOUS
<1>2. NameInv(s)
    BY DEF FilesInv, StackInv
<1>3. /\ n.kind = "database" /\ n.replicated = setting[s].replicated
      /\ n.at \in job[s].savedAt
  <2>1. n = [kind |-> "database", replicated |-> setting[s].replicated, at |-> n.at]
      BY <1>1, <1>2 DEF NameInv
  <2>2. n.kind = "database" /\ n.replicated = setting[s].replicated
      BY <2>1
  <2> QED
      BY <1>1, <1>2, <2>2 DEF NameInv
<1>4. n \in DOMAIN compose /\ f = compose[n]
    BY <1>1 DEF Deployable
<1>5. FileIsOfItsName(n)
    BY <1>4 DEF FilesInv, ComposeInv
<1>6. /\ f.kind = "database" /\ f.of \in Stack /\ f.at = n.at /\ n.at \in job[f.of].savedAt
      /\ n.replicated = setting[f.of].replicated /\ f.command \subseteq f.external
    BY <1>3, <1>4, <1>5 DEF FileIsOfItsName
<1>7. f.external \subseteq DOMAIN secrets
    BY <1>1, <1>4, <1>6 DEF Deployable
<1> QED
    BY <1>3, <1>6, <1>7

\* A stack is deployed, or the deployment fails for a cause.
LEMMA DeployKeeps ==
    ASSUME FilesInv, NEW s \in Stack, NEW from, NEW to,
           Deploy(s, from, to), UNCHANGED <<setting, clock, command>>,
           \/ from = "deploy" /\ to = "save exporter"
           \/ from = "deploy exporter" /\ to = "clean up"
    PROVE  FilesInv'
<1>0. /\ Knows(s) /\ job[s].at = from /\ Called(s) /\ CallEnds(s)
      /\ UNCHANGED <<tmp, compose>>
    BY Known DEF Deploy
<1>1. CASE ~Deployable(s)
  <2>1. Fail(s)
      BY <1>1 DEF Deploy
  <2> QED
      BY <1>0, <1>1, <2>1, WhyNotDeployable, CallFails
<1>2. CASE Deployable(s)
  <2>1. PICK j : j = [job[s] EXCEPT !.at = to]
      OBVIOUS
  <2>2. PICK f : f = compose[job[s].fileName]
      OBVIOUS
  <2>3. /\ job' = [job EXCEPT ![s] = j]
        /\ running' = IF from = "deploy" THEN [running EXCEPT ![s] = f] ELSE running
        /\ UNCHANGED <<secrets, stored>>
      BY <1>2, <2>1, <2>2 DEF Deploy, Goto
  <2>4. JobStep(s, j) /\ j.at = to /\ j.delivery = job[s].delivery
      BY <1>0, <2>1, <2>3 DEF Knows, JobStep, JobRow
  <2>5. /\ job'[s] = j /\ Grows
        /\ \A u \in Stack \ {s} : job'[u] = job[u]
      BY <2>4, JobStepFacts
  <2>6. running = [u \in Stack |-> running[u]]
      BY DEF FilesInv, FilesType
  <2>7. /\ running' = [u \in Stack |-> running'[u]]
        /\ \A u \in Stack \ {s} : running'[u] = running[u]
        /\ running'[s] = IF from = "deploy" THEN f ELSE running[s]
      BY <2>3, <2>6
  <2>8. /\ called'[s] = NoCall /\ called' = [u \in Stack |-> called'[u]]
        /\ wiped' \in [Stack -> BOOLEAN]
      BY <1>0, CallEndsFacts
  <2>9. FilesType'
      BY <2>3, <2>4, <2>7, <2>8, JobStepFacts DEF FilesInv, FilesType
  <2>10. ComposeInv'
      BY <1>0, <2>5, ComposeStays
  <2>11. ASSUME NEW u \in Stack \ {s} PROVE Aside(u)
    <3>1. /\ called'[u] = called[u]
          /\ wiped[u] => wiped'[u]
          /\ ~wiped'[u] /\ Called(u) /\ called[u] \in dockerTls => called[u] \in dockerTls'
        BY <1>0, <2>11, CallEndsFacts
    <3> QED
        BY <1>0, <2>3, <2>5, <2>7, <2>11, <3>1 DEF Aside, Undisturbed, Mounts
  <2>12. RunsInv(s)'
    <3>1. CASE from = "deploy"
      <4>1. PICK t : t = f.of
          OBVIOUS
      <4>2. /\ f.command \subseteq f.external /\ f.external \subseteq DOMAIN secrets
            /\ t \in Stack /\ setting[t].replicated = setting[s].replicated
            /\ f.at \in job[s].savedAt /\ f.at \in job[t].savedAt
          BY <1>0, <1>2, <2>2, <3>1, <4>1, WhatIsDeployed
      <4>3. f.at \in job'[s].savedAt /\ f.at \in job'[t].savedAt
          BY <2>5, <4>2 DEF Grows
      <4> QED
          BY <2>3, <2>7, <3>1, <4>1, <4>2, <4>3 DEF RunsInv
    <3>2. CASE from # "deploy"
        BY <2>3, <2>5, <2>7, <3>2, RunsOn
    <3> QED
        BY <3>1, <3>2
  <2>13. CertificateInv(s)'
      BY <1>0, <2>3, <2>4, <2>5
         DEF Knows, StackInv, CertificateInv, TlsSecret, DockerPlaces
  <2>14. /\ NameInv(s)' /\ CallInv(s)' /\ MadeInv(s)' /\ SavedInv(s)' /\ PlaceInv(s)'
         /\ job'[s].at # "failed"
      BY <2>4, <2>5, <2>8
         DEF NameInv, CallInv, Called, MadeInv, MadeKinds, KindsAt, Has, Fetched, SavedInv,
             PlaceInv, TlsPlaces
  <2>15. SecretInv(s)'
      BY <2>4, <2>5 DEF SecretInv, MadeSecrets, Built
  <2>16. StackInv(s)'
      BY <2>12, <2>13, <2>14, <2>15 DEF StackInv
  <2> QED
      BY <2>5, <2>9, <2>10, <2>11, <2>16, OneStep
<1> QED
    BY <1>1, <1>2

-----------------------------------------------------------------------------
(* The steps that take from others.                                         *)

\* cleanup: those that are under way are noted, for the folder is theirs too.
LEMMA CleanUpKeeps ==
    ASSUME FilesInv, NEW s \in Stack, CleanUp(s), UNCHANGED <<setting, clock, command>>
    PROVE  FilesInv'
<1>0. Knows(s) /\ UnderWay(s) /\ ~Called(s)
    BY Known DEF Knows, UnderWay, DockerPlaces, CleanUp
<1>1. PICK j : j = [job[s] EXCEPT !.at = "done", !.keys = {}, !.caName = Nothing,
                                  !.fileName = Nothing]
    OBVIOUS
<1>2. JobStep(s, j)
    BY <1>1, <1>0 DEF Knows, CleanUp, Ends, JobStep, JobRow
<1>3. /\ Grows /\ \A u \in Stack \ {s} : job'[u] = job[u]
    BY <1>2, JobStepFacts
<1>4. /\ wiped' \in [Stack -> BOOLEAN]
      /\ \A u \in Stack \ {s} : wiped'[u] = (wiped[u] \/ UnderWay(u))
  <2>1. wiped' = [t \in Stack |-> wiped[t] \/ (t # s /\ UnderWay(t))]
      BY DEF CleanUp
  <2> QED
      BY <2>1
<1>5. FilesType'
    BY <1>2, <1>4, JobStepFacts DEF FilesInv, FilesType, CleanUp, swarm
<1>6. ComposeInv'
  <2>1. compose' = <<>>
      BY DEF CleanUp
  <2>2. DOMAIN compose' = {}
      BY <2>1
  <2> QED
      BY <2>2 DEF ComposeInv
<1>7. ASSUME NEW u \in Stack \ {s} PROVE Aside(u)
    BY <1>3, <1>4, <1>7 DEF Aside, Mounts, CleanUp, swarm
<1>8. StackInv(s)'
    BY <1>0, <1>5, EndKeeps DEF CleanUp, Called
<1> QED
    BY <1>3, <1>5, <1>6, <1>7, <1>8, OneStep

\* A process dies, and so does its client of docker.
LEMMA DieKeeps ==
    ASSUME FilesInv, NEW s \in Stack, Die(s), UNCHANGED <<setting, clock, command>>
    PROVE  FilesInv'
<1>0. Knows(s)
    BY Known
<1>1. PICK j : j = [job[s] EXCEPT !.at = "dead", !.keys = {}, !.caName = Nothing,
                                  !.fileName = Nothing]
    OBVIOUS
<1>2. JobStep(s, j)
    BY <1>1, <1>0 DEF Knows, Die, Ends, JobStep, JobRow
<1>3. /\ Grows /\ \A u \in Stack \ {s} : job'[u] = job[u]
    BY <1>2, JobStepFacts
<1>4. /\ called' = [u \in Stack |-> called'[u]] /\ called'[s] = NoCall
      /\ wiped' \in [Stack -> BOOLEAN]
      /\ \A u \in Stack \ {s} : called'[u] = called[u] /\ wiped'[u] = wiped[u]
    BY <1>0 DEF Knows, Die
<1>5. FilesType'
    BY <1>2, <1>4, JobStepFacts DEF FilesInv, FilesType, Die, swarm
<1>6. ComposeInv'
    BY <1>3, ComposeStays DEF Die
<1>7. ASSUME NEW u \in Stack \ {s} PROVE Aside(u)
    BY <1>3, <1>4, <1>7 DEF Aside, Undisturbed, Mounts, Die, swarm
<1>8. StackInv(s)'
    BY <1>4, <1>5, EndKeeps DEF Die
<1> QED
    BY <1>3, <1>5, <1>6, <1>7, <1>8, OneStep

\* A step of no deployment.
LEMMA NobodysStep ==
    ASSUME FilesInv, FilesType', UNCHANGED <<setting, job, compose>>,
           \A u \in Stack : Aside(u)
    PROVE  FilesInv'
<1>1. Grows
    BY DEF Grows
<1>2. ComposeInv'
    BY <1>1, ComposeStays
<1>3. ASSUME NEW u \in Stack PROVE StackInv(u)'
    BY <1>1, <1>3, AsideKeeps
<1> QED
    BY <1>2, <1>3 DEF FilesInv

\* Time goes by, and an operator chooses stacks.
LEMMA TickKeeps ==
    ASSUME FilesInv, UNCHANGED <<setting, job, folder, swarm>>, clock' \in Nat
    PROVE  FilesInv'
<1>1. FilesType'
    BY DEF FilesInv, FilesType, folder, swarm
<1>2. ASSUME NEW u \in Stack PROVE Aside(u)
    BY DEF Aside, Undisturbed, Mounts, folder, swarm
<1> QED
    BY <1>1, <1>2, NobodysStep DEF folder

\* clean:stacks removes a stack: it does not run any more.
LEMMA RemoveStackKeeps ==
    ASSUME FilesInv, NEW s \in Stack, RemoveStack(s), UNCHANGED <<setting, clock>>
    PROVE  FilesInv'
<1>1. /\ running' \in {running, [running EXCEPT ![s] = Nothing]}
      /\ UNCHANGED <<job, folder, secrets, stored>>
    BY DEF RemoveStack
<1>2. /\ running' = [u \in Stack |-> running'[u]]
      /\ \A u \in Stack : running'[u] \in {running[u], Nothing}
    BY <1>1 DEF FilesInv, FilesType
<1>3. FilesType'
    BY <1>1, <1>2 DEF FilesInv, FilesType, folder
<1>4. ASSUME NEW u \in Stack PROVE Aside(u)
    BY <1>1, <1>2 DEF Aside, Undisturbed, Mounts, folder
<1> QED
    BY <1>1, <1>3, <1>4, NobodysStep DEF folder

\* It removes a secret, which no stack that runs is given; the deployment that
\* made it is noted if it is under way.
LEMMA RemoveSecretKeeps ==
    ASSUME FilesInv, RemoveSecret, UNCHANGED <<setting, clock>>
    PROVE  FilesInv'
<1>1. UNCHANGED <<job, tmp, compose, dockerTls, called, running, stored>>
    BY DEF RemoveSecret
<1>2. CASE UNCHANGED <<secrets, wiped>>
    BY <1>1, <1>2, TickKeeps DEF folder, swarm, FilesInv, FilesType
<1>3. CASE ~UNCHANGED <<secrets, wiped>>
  <2>1. PICK name : name = Head(command.names)
      OBVIOUS
  <2>2. /\ name \in DOMAIN secrets /\ ~InUse(name)
        /\ secrets' = [n \in DOMAIN secrets \ {name} |-> secrets[n]]
        /\ wiped' = [wiped EXCEPT ![name[1]] = @ \/ UnderWay(name[1])]
      BY <1>3, <2>1 DEF RemoveSecret
  <2>3. wiped \in [Stack -> BOOLEAN] /\ IsFiniteSet(DOMAIN secrets)
      BY DEF FilesInv, FilesType
  <2>4. /\ wiped' \in [Stack -> BOOLEAN]
        /\ \A u \in Stack : wiped'[u] = (wiped[u] \/ (u = name[1] /\ UnderWay(u)))
      BY <2>2, <2>3
  <2>5. IsFiniteSet(DOMAIN secrets \ {name})
      BY <2>3, FS_RemoveElement
  <2>6. /\ DOMAIN secrets' = DOMAIN secrets \ {name}
        /\ \A n \in DOMAIN secrets' : secrets'[n] = secrets[n]
      BY <2>2
  <2>7. FilesType'
      BY <1>1, <2>4, <2>5, <2>6 DEF FilesInv, FilesType
  <2>8. ASSUME NEW u \in Stack PROVE Aside(u)
    <3>1. running[u] # Nothing => name \notin running[u].external
        BY <2>2 DEF InUse
    <3>2. Mounts(u)
        BY <1>1, <2>6, <3>1 DEF Mounts
    <3>3. ASSUME UnderWay(u), ~wiped'[u], NEW k, <<u, k>> \in DOMAIN secrets
          PROVE  <<u, k>> \in DOMAIN secrets'
      <4>1. u # name[1]
          BY <2>4, <3>3
      <4>2. <<u, k>>[1] = u
          OBVIOUS
      <4> QED
          BY <2>6, <3>3, <4>1, <4>2
    <3> QED
        BY <1>1, <2>4, <3>2, <3>3 DEF Aside, Undisturbed
  <2> QED
      BY <1>1, <2>7, <2>8, NobodysStep
<1> QED
    BY <1>2, <1>3

\* Whatever clean:stacks does.
LEMMA CleanStacksKeeps ==
    ASSUME FilesInv, CleanStacks, UNCHANGED <<setting, clock>>
    PROVE  FilesInv'
<1>1. CASE ListStacks
    BY <1>1, TickKeeps DEF ListStacks, FilesInv, FilesType
<1> QED
    BY <1>1, RemoveStackKeeps, RemoveSecretKeeps DEF CleanStacks

-----------------------------------------------------------------------------
(* The invariant holds.                                                     *)

\* Nothing was deployed yet.
LEMMA InitFiles == Init => FilesInv
<1> SUFFICES ASSUME Init PROVE FilesInv
    OBVIOUS
<1>1. DOMAIN secrets = {} /\ DOMAIN compose = {}
  <2>1. secrets = <<>> /\ compose = <<>>
      BY DEF Init
  <2> QED
      BY <2>1
<1>2. \A s \in Stack :
         /\ job[s] = [at |-> "waiting", delivery |-> 0, keys |-> {},
                      caName |-> Nothing, fileName |-> Nothing, savedAt |-> {}]
         /\ called[s] = NoCall /\ wiped[s] = FALSE /\ running[s] = Nothing /\ stored[s] = 0
    BY DEF Init
<1>3. FilesType
  <2>1. IsFiniteSet(DOMAIN secrets)
      BY <1>1, FS_EmptySet
  <2>2. /\ job = [s \in Stack |-> job[s]] /\ setting = [s \in Stack |-> setting[s]]
        /\ wiped \in [Stack -> BOOLEAN] /\ called = [s \in Stack |-> called[s]]
        /\ running = [s \in Stack |-> running[s]] /\ stored \in [Stack -> Nat]
        /\ clock \in Nat
      BY DEF Init
  <2> QED
      BY <1>1, <1>2, <2>1, <2>2 DEF FilesType
<1>4. ASSUME NEW s \in Stack PROVE StackInv(s)
  <2>1. /\ job[s].at = "waiting" /\ job[s].delivery = 0 /\ job[s].keys = {}
        /\ called[s] = NoCall /\ wiped[s] = FALSE /\ running[s] = Nothing /\ stored[s] = 0
      BY <1>2
  <2>2. NameInv(s) /\ RunsInv(s) /\ CallInv(s) /\ SavedInv(s) /\ PlaceInv(s)
      BY <2>1 DEF NameInv, RunsInv, CallInv, Called, SavedInv, PlaceInv, TlsPlaces, Fetched
  <2>3. CertificateInv(s)
      BY <1>1, <2>1 DEF CertificateInv
  <2>4. MadeInv(s) /\ SecretInv(s)
      BY <2>1 DEF MadeInv, MadeKinds, KindsAt, Has, SecretInv, MadeSecrets, Fetched, Built
  <2> QED
      BY <2>1, <2>2, <2>3, <2>4 DEF StackInv
<1> QED
    BY <1>1, <1>3, <1>4 DEF FilesInv, ComposeInv

\* Every step of a deployment keeps it.
LEMMA StepKeeps ==
    ASSUME FilesInv, NEW s \in Stack, Step(s), UNCHANGED <<setting, clock, command>>
    PROVE  FilesInv'
<1>1. CASE Start(s) \/ MakeCertificates(s)
    BY <1>1, StartKeeps, GenerateKeeps, UploadKeeps DEF MakeCertificates
<1>2. CASE \/ ReadFiles(s, "tls files", {"pem", "crt"}, "tls secret")
           \/ ReadFiles(s, "ca file", {"ca"}, "ca secret")
    BY <1>2, ReadFilesKeeps
<1>3. CASE \/ PrepareCall(s) \/ CreateTlsSecret(s) \/ CreateCaSecret(s)
           \/ CreateReplicaKey(s) \/ SecretFails(s)
    BY <1>3, PrepareKeeps, CreateTlsSecretKeeps, CreateCaSecretKeeps, CreateReplicaKeyKeeps,
       SecretFailsKeeps
<1>4. CASE SaveDatabase(s) \/ SaveExporter(s)
    BY <1>4, SavesKeep
<1>5. CASE DeployDatabase(s) \/ DeployExporter(s)
    BY <1>5, DeployKeeps DEF DeployDatabase, DeployExporter
<1>6. CASE CleanUp(s) \/ Die(s)
    BY <1>6, CleanUpKeeps, DieKeeps
<1> QED
    BY <1>1, <1>2, <1>3, <1>4, <1>5, <1>6 DEF Step

\* And so does every step.
LEMMA NextFiles == FilesInv /\ [Next]_vars => FilesInv'
<1> SUFFICES ASSUME FilesInv, [Next]_vars PROVE FilesInv'
    OBVIOUS
<1>1. clock \in Nat
    BY DEF FilesInv, FilesType
<1>2. CASE Tick
  <2>1. clock + 1 \in Nat
      BY <1>1
  <2> QED
      BY <1>2, <2>1, TickKeeps DEF Tick
<1>3. ASSUME NEW s \in Stack, Step(s), UNCHANGED <<setting, clock, command>> PROVE FilesInv'
    BY <1>3, StepKeeps
<1>4. CASE CleanStacks /\ UNCHANGED <<setting, clock>>
    BY <1>4, CleanStacksKeeps
<1>5. CASE UNCHANGED vars
    BY <1>1, <1>5, TickKeeps DEF vars
<1> QED
    BY <1>2, <1>3, <1>4, <1>5 DEF Next

\* What the invariant says of the stacks.
LEMMA FilesInvFacts ==
    ASSUME FilesInv
    PROVE  FailuresHaveACause /\ StacksRunTheirFiles
<1>1. Deployed = Stack
    BY DEF FilesInv, FilesType, Deployed
<1>2. FailuresHaveACause
    BY <1>1 DEF FilesInv, StackInv, FailuresHaveACause
<1>3. CommandFilesAreThere
    BY <1>1 DEF FilesInv, StackInv, RunsInv, CommandFilesAreThere
<1>4. CertificatesAreStored
    BY <1>1 DEF FilesInv, StackInv, RunsInv, CertificateInv, CertificatesAreStored, Downloadable
<1>5. FilesMixInOneInstantOnly
    BY <1>1 DEF FilesInv, StackInv, RunsInv, FilesMixInOneInstantOnly
<1> QED
    BY <1>2, <1>3, <1>4, <1>5 DEF StacksRunTheirFiles

\* So it holds always.
LEMMA SpecFiles == Spec => []FilesInv
<1> QED
    BY InitFiles, NextFiles, PTL DEF Spec

\* A deployment fails because something of its was taken away, its compose file
\* was replaced in the instant it was saved, or a CA secret was never asked for;
\* never because it reads a file of its own too early or misses a secret that it
\* should have made (setupSecurity to cleanup, clean:stacks).
THEOREM FailuresAreCaused == Spec => []FailuresHaveACause
<1>1. FilesInv => FailuresHaveACause
    BY FilesInvFacts
<1> QED
    BY <1>1, SpecFiles, PTL

\* A stack runs from its own compose file or from one of the same instant, is
\* given all that its command names, and its certificate can be downloaded
\* (saveToFile, buildBaseCommand, downloadCertificate).
THEOREM StacksRun == Spec => []StacksRunTheirFiles
<1>1. FilesInv => StacksRunTheirFiles
    BY FilesInvFacts
<1> QED
    BY <1>1, SpecFiles, PTL

-----------------------------------------------------------------------------
(* The types.                                                               *)

\* What a deployment knows: the parallel commands that are done, and a CA secret
\* of its own or none.
JobFits(s, r) ==
    /\ r.delivery \in 0 .. MaxDeliveries
    /\ r.keys \subseteq {"ca", "csr"}
    /\ r.caName \in {Nothing, CaSecret(s)}

FilesBounds ==
    /\ \A s \in Stack : JobFits(s, job[s]) /\ called[s] \in {NoCall} \cup 0 .. MaxClock
    /\ \A n \in DOMAIN secrets : secrets[n] \in 1 .. MaxDeliveries
    /\ command = [stacks |-> command.stacks, names |-> command.names,
                  includeSecrets |-> command.includeSecrets, runs |-> command.runs]
    /\ command.stacks \subseteq Stack /\ command.runs \in 0 .. MaxCleanings
    /\ clock \in 0 .. MaxClock /\ dockerTls \subseteq 0 .. MaxClock

\* A deployment that is replaced by one that fits,
LEMMA OneFits ==
    ASSUME FilesType, FilesBounds, NEW s \in Stack, NEW r, JobFits(s, r),
           job' = [job EXCEPT ![s] = r]
    PROVE  \A t \in Stack : JobFits(t, job'[t])
<1>1. ASSUME NEW t \in Stack PROVE job'[t] = IF t = s THEN r ELSE job[t]
    BY DEF FilesType
<1> QED
    BY <1>1 DEF FilesBounds

\* moved
LEMMA GotoFits ==
    ASSUME FilesType, FilesBounds, NEW s \in Stack, NEW place, Goto(s, place)
    PROVE  \A t \in Stack : JobFits(t, job'[t])
<1>1. PICK r : r = [job[s] EXCEPT !.at = place] /\ job' = [job EXCEPT ![s] = r]
    BY DEF Goto
<1>2. /\ r.delivery = job[s].delivery /\ r.keys = job[s].keys /\ r.caName = job[s].caName
    BY <1>1 DEF FilesType
<1>3. JobFits(s, r)
    BY <1>2 DEF FilesBounds, JobFits
<1> QED
    BY <1>1, <1>3, OneFits

\* or ended.
LEMMA EndsFits ==
    ASSUME FilesType, FilesBounds, NEW s \in Stack, NEW place, Ends(s, place)
    PROVE  \A t \in Stack : JobFits(t, job'[t])
<1>1. PICK r : /\ r = [job[s] EXCEPT !.at = place, !.keys = {}, !.caName = Nothing,
                                     !.fileName = Nothing]
               /\ job' = [job EXCEPT ![s] = r]
    BY DEF Ends
<1>2. r.delivery = job[s].delivery /\ r.keys = {} /\ r.caName = Nothing
    BY <1>1 DEF FilesType
<1>3. JobFits(s, r)
    BY <1>2 DEF FilesBounds, JobFits
<1> QED
    BY <1>1, <1>3, OneFits

\* A step of a deployment leaves deployments that fit.
LEMMA StepFits ==
    ASSUME FilesType, FilesBounds, MaxDeliveries \in Nat, NEW s \in Stack, Step(s)
    PROVE  \A t \in Stack : JobFits(t, job'[t])
<1> DEFINE Fits == \A t \in Stack : JobFits(t, job'[t])
<1> SUFFICES Fits
    OBVIOUS
<1>1. JobFits(s, job[s])
    BY DEF FilesBounds
<1>2. Fail(s) => Fits
    BY EndsFits DEF Fail
<1>3. ASSUME NEW place, Goto(s, place) PROVE Fits
    BY <1>3, GotoFits
<1>4. CASE Start(s)
  <2>1. PICK place : job' = [job EXCEPT ![s] = [job[s] EXCEPT
                                 !.at = place, !.delivery = job[s].delivery + 1]]
    BY <1>4 DEF Start
  <2>2. job[s].delivery + 1 \in 0 .. MaxDeliveries
    BY <1>1, <1>4 DEF Start, JobFits
  <2>3. PICK r : /\ r = [job[s] EXCEPT !.at = place, !.delivery = job[s].delivery + 1]
                 /\ job' = [job EXCEPT ![s] = r]
    BY <2>1
  <2>4. r.delivery = job[s].delivery + 1 /\ r.keys = job[s].keys /\ r.caName = job[s].caName
    BY <2>3 DEF FilesType
  <2>5. JobFits(s, r)
    BY <1>1, <2>2, <2>4 DEF JobFits
  <2> QED
    BY <2>3, <2>5, OneFits
<1>5. ASSUME NEW reads, NEW writes, NEW after, Command(s, reads, writes, after), JobFits(s, after)
      PROVE  Fits
    BY <1>2, <1>5, OneFits DEF Command
<1>6. ASSUME NEW kind \in {"ca", "csr"}, Phase1(s, kind) PROVE Fits
  <2>1. PICK after : /\ after = [job[s] EXCEPT !.keys = job[s].keys \cup {kind},
                                    !.at = IF job[s].keys \cup {kind} = {"ca", "csr"}
                                           THEN "sign" ELSE "keys"]
                     /\ Command(s, {}, kind, after)
    BY <1>6 DEF Phase1
  <2>2. /\ after.delivery = job[s].delivery /\ after.keys = job[s].keys \cup {kind}
        /\ after.caName = job[s].caName
    BY <2>1 DEF FilesType
  <2>3. JobFits(s, after)
    BY <1>1, <2>2 DEF JobFits
  <2> QED
    BY <1>5, <2>1, <2>3
<1>7. ASSUME NEW reads, NEW writes, NEW place,
             Command(s, reads, writes, [job[s] EXCEPT !.at = place])
      PROVE  Fits
  <2>1. PICK after : after = [job[s] EXCEPT !.at = place] /\ Command(s, reads, writes, after)
    BY <1>7
  <2>2. /\ after.delivery = job[s].delivery /\ after.keys = job[s].keys
        /\ after.caName = job[s].caName
    BY <2>1 DEF FilesType
  <2>3. JobFits(s, after)
    BY <1>1, <2>2 DEF JobFits
  <2> QED
    BY <1>5, <2>1, <2>3
<1>8. CASE Sign(s) \/ Bundle(s)
    BY <1>7, <1>8 DEF Sign, Bundle
<1>9. CASE MakeDirectory(s) \/ Upload(s)
    BY <1>2, <1>3, <1>9 DEF MakeDirectory, Upload
<1>10. ASSUME NEW from, NEW kinds, NEW to, ReadFiles(s, from, kinds, to) PROVE Fits
    BY <1>2, <1>3, <1>10 DEF ReadFiles
<1>11. CASE PrepareCall(s)
    BY <1>11 DEF PrepareCall, FilesBounds
<1>12. CASE CreateTlsSecret(s) \/ CreateReplicaKey(s) \/ SecretFails(s)
    BY <1>2, <1>3, <1>12 DEF CreateTlsSecret, CreateReplicaKey, SecretFails
<1>13. CASE CreateCaSecret(s)
  <2>1. PICK r : /\ r = [job[s] EXCEPT !.at = AfterTls(s), !.caName = CaSecret(s)]
                 /\ job' = [job EXCEPT ![s] = r]
    BY <1>13 DEF CreateCaSecret
  <2>2. r.delivery = job[s].delivery /\ r.keys = job[s].keys /\ r.caName = CaSecret(s)
    BY <2>1 DEF FilesType
  <2>3. JobFits(s, r)
    BY <1>1, <2>2 DEF JobFits
  <2> QED
    BY <2>1, <2>3, OneFits
<1>14. ASSUME NEW from, NEW kind, NEW file, NEW to, Save(s, from, kind, file, to) PROVE Fits
  <2>1. PICK saved : job' = [job EXCEPT ![s] = [job[s] EXCEPT
                                 !.at = to, !.fileName = NameOf(s, kind), !.savedAt = saved]]
    BY <1>14 DEF Save
  <2>2. PICK r : /\ r = [job[s] EXCEPT !.at = to, !.fileName = NameOf(s, kind), !.savedAt = saved]
                 /\ job' = [job EXCEPT ![s] = r]
    BY <2>1
  <2>3. r.delivery = job[s].delivery /\ r.keys = job[s].keys /\ r.caName = job[s].caName
    BY <2>2 DEF FilesType
  <2>4. JobFits(s, r)
    BY <1>1, <2>3 DEF JobFits
  <2> QED
    BY <2>2, <2>4, OneFits
<1>15. ASSUME NEW from, NEW to, Deploy(s, from, to) PROVE Fits
    BY <1>2, <1>3, <1>15 DEF Deploy
<1>16. CASE CleanUp(s) \/ Die(s)
    BY <1>16, EndsFits DEF CleanUp, Die
<1> HIDE DEF Fits
<1>17. CASE MakeCertificates(s)
    BY <1>6, <1>8, <1>9, <1>17 DEF MakeCertificates, Generate
<1>18. CASE SaveDatabase(s) \/ SaveExporter(s) \/ DeployDatabase(s) \/ DeployExporter(s)
    BY <1>14, <1>15, <1>18 DEF SaveDatabase, SaveExporter, DeployDatabase, DeployExporter
<1> QED
    BY <1>4, <1>10, <1>11, <1>12, <1>13, <1>16, <1>17, <1>18 DEF Step

\* A step makes a secret in a delivery, and none else is new.
LEMMA StepSecrets ==
    ASSUME FilesInv, FilesBounds, MaxDeliveries \in Nat, NEW s \in Stack, Step(s)
    PROVE  \A n \in DOMAIN secrets' : secrets'[n] \in 1 .. MaxDeliveries
<1> DEFINE Fits == \A n \in DOMAIN secrets' : secrets'[n] \in 1 .. MaxDeliveries
<1> SUFFICES Fits
    OBVIOUS
<1>1. UNCHANGED secrets => Fits
    BY DEF FilesBounds
<1>2. UNCHANGED swarm => UNCHANGED secrets
    BY DEF swarm
<1>3. ASSUME NEW name, CreateSecret(s, name), job[s].at # "waiting" PROVE Fits
  <2>1. job[s].delivery \in 1 .. MaxDeliveries
    <3>1. job[s].delivery \in 0 .. MaxDeliveries
      BY DEF FilesBounds, JobFits
    <3>2. job[s].delivery # 0
      BY <1>3 DEF FilesInv, StackInv, CertificateInv
    <3> QED
      BY <3>1, <3>2
  <2>2. CASE UNCHANGED secrets
    BY <1>1, <2>2
  <2>3. CASE secrets' = [n \in DOMAIN secrets \cup {name} |->
                            IF n = name THEN job[s].delivery ELSE secrets[n]]
    BY <2>1, <2>3 DEF FilesBounds
  <2> QED
    BY <1>3, <2>2, <2>3 DEF CreateSecret
<1> HIDE DEF Fits
<1>4. Fail(s) => UNCHANGED swarm
    BY DEF Fail
<1>5. CASE CreateTlsSecret(s)
    BY <1>3, <1>5 DEF CreateTlsSecret
<1>6. CASE CreateCaSecret(s)
    BY <1>3, <1>6 DEF CreateCaSecret
<1>7. CASE CreateReplicaKey(s)
    BY <1>3, <1>7 DEF CreateReplicaKey
<1>8. MakeCertificates(s) => UNCHANGED secrets
  <2>1. MakeDirectory(s) \/ Phase1(s, "ca") \/ Phase1(s, "csr") \/ Sign(s) \/ Bundle(s)
            => UNCHANGED swarm
    BY <1>4 DEF MakeDirectory, Phase1, Sign, Bundle, Command
  <2>2. Upload(s) => UNCHANGED secrets
    BY <1>2, <1>4 DEF Upload
  <2> QED
    BY <1>2, <2>1, <2>2 DEF MakeCertificates, Generate
<1>9. Start(s) \/ PrepareCall(s) \/ SecretFails(s) \/ CleanUp(s) \/ Die(s) => UNCHANGED swarm
    BY <1>4 DEF Start, PrepareCall, SecretFails, CleanUp, Die
<1>10. ASSUME NEW from, NEW kinds, NEW to PROVE ReadFiles(s, from, kinds, to) => UNCHANGED swarm
    BY <1>4 DEF ReadFiles
<1>11. SaveDatabase(s) \/ SaveExporter(s) => UNCHANGED swarm
    BY DEF SaveDatabase, SaveExporter, Save
<1>12. DeployDatabase(s) \/ DeployExporter(s) => UNCHANGED secrets
  <2>1. ASSUME NEW from, NEW to PROVE Deploy(s, from, to) => UNCHANGED secrets
    BY <1>2, <1>4 DEF Deploy
  <2> QED
    BY <2>1 DEF DeployDatabase, DeployExporter
<1> QED
    BY <1>1, <1>2, <1>5, <1>6, <1>7, <1>8, <1>9, <1>10, <1>11, <1>12 DEF Step

\* A call is prepared in the instant it is, and reads nothing else.
LEMMA StepCalls ==
    ASSUME FilesType, NEW s \in Stack, Step(s)
    PROVE  /\ \A t \in Stack : called'[t] \in {called[t], NoCall, clock}
           /\ dockerTls' \subseteq dockerTls \cup {clock}
<1> DEFINE Fits == /\ \A t \in Stack : called'[t] \in {called[t], NoCall, clock}
                   /\ dockerTls' \subseteq dockerTls \cup {clock}
<1> SUFFICES Fits
    OBVIOUS
<1>1. UNCHANGED <<called, dockerTls>> => Fits
    OBVIOUS
<1>2. UNCHANGED folder => UNCHANGED <<called, dockerTls>>
    BY DEF folder
<1>3. CallEnds(s) => Fits
    BY DEF CallEnds, RemoveFiles, FilesType
<1>4. CASE PrepareCall(s)
    BY <1>4 DEF PrepareCall, FilesType
<1>5. CASE Die(s)
    BY <1>5 DEF Die, FilesType
<1>6. CASE CleanUp(s)
    BY <1>6 DEF CleanUp
<1> HIDE DEF Fits
<1>7. CASE MakeCertificates(s)
  <2>1. UNCHANGED <<called, dockerTls>>
    BY <1>2, <1>7 DEF MakeCertificates, Generate, MakeDirectory, Phase1, Sign, Bundle, Command, Upload
  <2> QED
    BY <1>1, <2>1
<1>8. ASSUME NEW from, NEW kinds, NEW to PROVE ReadFiles(s, from, kinds, to) => UNCHANGED folder
    BY DEF ReadFiles
<1>9. Start(s) => UNCHANGED folder
    BY DEF Start
<1>10. SaveDatabase(s) \/ SaveExporter(s) => UNCHANGED <<called, dockerTls>>
    BY DEF SaveDatabase, SaveExporter, Save
<1>11. \/ SecretFails(s) \/ CreateTlsSecret(s) \/ CreateCaSecret(s) \/ CreateReplicaKey(s)
       \/ DeployDatabase(s) \/ DeployExporter(s)
       => CallEnds(s)
    BY DEF SecretFails, CreateTlsSecret, CreateCaSecret, CreateReplicaKey, DeployDatabase,
           DeployExporter, Deploy
<1> QED
    BY <1>1, <1>2, <1>3, <1>4, <1>5, <1>6, <1>7, <1>8, <1>9, <1>10, <1>11 DEF Step

\* clean:stacks removes stacks that there are, as often as it is run.
LEMMA CleaningFits ==
    ASSUME FilesType, FilesBounds, MaxCleanings \in Nat, CleanStacks, UNCHANGED <<setting, clock>>
    PROVE  FilesBounds'
<1>1. UNCHANGED <<job, called, dockerTls>>
    BY DEF CleanStacks, ListStacks, RemoveStack, RemoveSecret, folder
<1>2. \A n \in DOMAIN secrets' : n \in DOMAIN secrets /\ secrets'[n] = secrets[n]
    BY DEF CleanStacks, ListStacks, RemoveStack, RemoveSecret, swarm
<1>3. /\ command' = [stacks |-> command'.stacks, names |-> command'.names,
                     includeSecrets |-> command'.includeSecrets, runs |-> command'.runs]
      /\ command'.stacks \subseteq Stack /\ command'.runs \in 0 .. MaxCleanings
  <2>1. CASE ListStacks
    <3>1. PICK matching \in SUBSET Stack, all \in BOOLEAN :
              command' = [command EXCEPT !.stacks = matching, !.runs = command.runs + 1,
                                         !.includeSecrets = all]
      BY <2>1 DEF ListStacks
    <3>2. command.runs + 1 \in 0 .. MaxCleanings
      BY <2>1 DEF ListStacks, FilesBounds
    <3>3. command' = [stacks |-> matching, names |-> command.names, includeSecrets |-> all,
                      runs |-> command.runs + 1]
      BY <3>1 DEF FilesBounds
    <3> QED
      BY <3>2, <3>3
  <2>2. ASSUME NEW s \in Stack, RemoveStack(s)
        PROVE  command' = [stacks |-> command.stacks \ {s}, names |-> command'.names,
                           includeSecrets |-> command.includeSecrets, runs |-> command.runs]
    <3>1. PICK names : command' = [command EXCEPT !.stacks = command.stacks \ {s}, !.names = names]
      BY <2>2 DEF RemoveStack
    <3> QED
      BY <3>1 DEF FilesBounds
  <2>3. CASE RemoveSecret
    <3>1. PICK names : command' = [command EXCEPT !.names = names]
      BY <2>3 DEF RemoveSecret
    <3>2. command' = [stacks |-> command.stacks, names |-> names,
                      includeSecrets |-> command.includeSecrets, runs |-> command.runs]
      BY <3>1 DEF FilesBounds
    <3> QED
      BY <3>2 DEF FilesBounds
  <2>4. ASSUME NEW s \in Stack, RemoveStack(s)
        PROVE  /\ command' = [stacks |-> command'.stacks, names |-> command'.names,
                              includeSecrets |-> command'.includeSecrets, runs |-> command'.runs]
               /\ command'.stacks \subseteq Stack /\ command'.runs \in 0 .. MaxCleanings
    BY <2>2, <2>4 DEF FilesBounds
  <2> QED
    BY <2>1, <2>3, <2>4 DEF CleanStacks
<1>4. \A s \in Stack : JobFits(s, job'[s]) /\ called'[s] \in {NoCall} \cup 0 .. MaxClock
    BY <1>1 DEF FilesBounds
<1>5. \A n \in DOMAIN secrets' : secrets'[n] \in 1 .. MaxDeliveries
    BY <1>2 DEF FilesBounds
<1> QED
    BY <1>1, <1>3, <1>4, <1>5 DEF FilesBounds

\* Every step keeps the bounds.
LEMMA FilesBoundsInductive ==
    ASSUME MaxDeliveries \in Nat, MaxCleanings \in Nat, MaxClock \in Nat,
           FilesInv, FilesBounds, [Next]_vars
    PROVE  FilesBounds'
<1>1. FilesType
    BY DEF FilesInv
<1>2. CASE Tick
  <2>1. clock' \in 0 .. MaxClock
    BY <1>2 DEF Tick, FilesBounds
  <2>2. UNCHANGED <<job, called, dockerTls, secrets, command>>
    BY <1>2 DEF Tick, folder, swarm
  <2> QED
    BY <2>1, <2>2 DEF FilesBounds
<1>3. ASSUME NEW s \in Stack, Step(s), UNCHANGED <<setting, clock, command>> PROVE FilesBounds'
  <2>1. \A t \in Stack : JobFits(t, job'[t])
    BY <1>1, <1>3, StepFits
  <2>2. \A n \in DOMAIN secrets' : secrets'[n] \in 1 .. MaxDeliveries
    BY <1>3, StepSecrets
  <2>3. /\ \A t \in Stack : called'[t] \in {called[t], NoCall, clock}
        /\ dockerTls' \subseteq dockerTls \cup {clock}
    BY <1>1, <1>3, StepCalls
  <2>4. \A t \in Stack : called'[t] \in {NoCall} \cup 0 .. MaxClock
    BY <2>3 DEF FilesBounds
  <2>5. dockerTls' \subseteq 0 .. MaxClock
    BY <2>3 DEF FilesBounds
  <2> QED
    BY <1>3, <2>1, <2>2, <2>4, <2>5 DEF FilesBounds
<1>4. CASE CleanStacks /\ UNCHANGED <<setting, clock>>
    BY <1>1, <1>4, CleaningFits
<1>5. CASE UNCHANGED vars
  <2>1. UNCHANGED <<job, called, dockerTls, secrets, command, clock>>
    BY <1>5 DEF vars, folder, swarm
  <2> QED
    BY <2>1 DEF FilesBounds
<1> QED
    BY <1>2, <1>3, <1>4, <1>5 DEF Next

\* The state of the deployments has its type: calls and their directories are of
\* instants of the clock and belong to a deployment that calls docker, and a secret
\* was made by a delivery.
THEOREM FilesTyped ==
    ASSUME MaxDeliveries \in Nat, MaxCleanings \in Nat, MaxClock \in Nat
    PROVE  Spec => []TypeOK
<1>1. Init => FilesBounds
  <2> SUFFICES ASSUME Init PROVE FilesBounds
    OBVIOUS
  <2>1. \A s \in Stack : JobFits(s, job[s]) /\ called[s] = NoCall
    BY DEF Init, JobFits
  <2>2. /\ DOMAIN secrets = {} /\ clock = 0 /\ dockerTls = {}
        /\ command = [stacks |-> {}, names |-> <<>>, includeSecrets |-> FALSE, runs |-> 0]
    BY DEF Init
  <2> QED
    BY <2>1, <2>2 DEF FilesBounds
<1>2. FilesInv /\ FilesBounds /\ [Next]_vars => FilesBounds'
    BY FilesBoundsInductive
<1>3. FilesInv /\ FilesBounds => TypeOK
    BY DEF FilesInv, StackInv, CallInv, FilesBounds, JobFits, TypeOK
<1> QED
    BY <1>1, <1>2, <1>3, InitFiles, NextFiles, PTL DEF Spec

-----------------------------------------------------------------------------
(* The ports.                                                               *)

\* DefaultPortRange: what PortAllocation searches.
PortRange == 30300 .. 35000

\* What was asked for stays, and the ports are distinct and in the range.
PortsInv ==
    /\ setting = [s \in Stack |-> setting[s]] /\ DOMAIN job = Stack
    /\ \A s \in Stack : setting[s].port \in PortRange
    /\ \A s, t \in Stack : setting[s].port = setting[t].port => s = t

\* If the ports that instances ask for are those of the range that PortAllocation
\* searches, then no two stacks publish the same port, be it of a database, an
\* exporter or a profiler, whose offsets keep the three ranges apart.
THEOREM PortsStayApart ==
    ASSUME \A a \in Settings : a.port \in PortRange
    PROVE  Spec => []PortsNeverClash
<1>1. Init => PortsInv
    BY DEF Init, PortsInv
<1>2. PortsInv /\ FilesInv /\ [Next]_vars => PortsInv'
  <2> SUFFICES ASSUME PortsInv, FilesInv, [Next]_vars PROVE PortsInv'
      OBVIOUS
  <2>1. setting' = setting
      BY DEF Next, vars, Tick
  <2>2. FilesInv'
      BY NextFiles
  <2> QED
      BY <2>1, <2>2 DEF PortsInv, FilesInv, FilesType
<1>3. PortsInv => PortsNeverClash
  <2> SUFFICES ASSUME PortsInv, NEW s \in Stack, NEW t \in Stack, s # t
               PROVE  Published(s) \cap Published(t) = {}
      BY DEF PortsNeverClash, Deployed, PortsInv
  <2>1. PICK p, q : p = setting[s].port /\ q = setting[t].port
      OBVIOUS
  <2>2. p \in PortRange /\ q \in PortRange /\ p # q
      BY <2>1 DEF PortsInv
  <2>3. {p, p - 10000, p - 5000} \cap {q, q - 10000, q - 5000} = {}
    <3>1. p \in Int /\ q \in Int /\ p # q /\ p <= 35000 /\ q <= 35000 /\ p >= 30300 /\ q >= 30300
      BY <2>2 DEF PortRange
    <3> QED
      BY ONLY <3>1
  <2> QED
      BY <2>1, <2>3 DEF Published
<1> QED
    BY <1>1, <1>2, <1>3, SpecFiles, PTL DEF Spec

-----------------------------------------------------------------------------
(* The DNS records of a stack.                                              *)
(*                                                                          *)
(* A delivery that ends well leaves the names it wants in the zone, and for *)
(* finite sets of workers rows and zone agree but for what died or failed.  *)
(* The properties speak of the end of a delivery alone; they are inductive  *)
(* with what holds at each of its steps.                                    *)

CONSTANTS
    WorkerSets,     \* the sets of workers a delivery may have chosen
    MaxAttempts,    \* tries of one change
    DnsDeliveries,  \* bound on the deliveries
    MaxFaults       \* bound on the calls that fail

VARIABLES
    zone,       \* the records Route 53 serves
    rows,       \* rows of the stack
    dnsJob,     \* what the delivery is doing
    deliveries, \* deliveries begun
    faults,     \* calls that failed
    lost        \* history: a delivery died, or could not store its rows

D == INSTANCE DnsRecords WITH job <- dnsJob, MaxDeliveries <- DnsDeliveries
INSTANCE DnsZone WITH job <- dnsJob

\* The instance counts and lists as this module does.
LEMMA SameCardinality == ASSUME NEW S PROVE D!Cardinality(S) = Cardinality(S)
BY DEF D!Cardinality, Cardinality, D!IsFiniteSet, IsFiniteSet

\* So a set is listed in the same order.
LEMMA SameSequence == ASSUME NEW S PROVE D!SetToSeq(S) = SetToSeq(S)
BY SameCardinality DEF D!SetToSeq, SetToSeq, D!IsInjective, IsInjective

\* And it promises what the module of the promise does.
LEMMA SamePromise == D!Recorded = Recorded /\ (D!Resting <=> Resting)
BY DEF D!Recorded, Recorded, D!Resting, Resting

\* What the delivery is doing is a record of these four parts.
JobType ==
    dnsJob = [at |-> dnsJob.at, want |-> dnsJob.want, tries |-> dnsJob.tries,
              clean |-> dnsJob.clean]

\* From the last change until the next delivery the wanted names are there.
MadeWhenStored == dnsJob.at \in {"store", "ok"} => dnsJob.want \subseteq zone

DnsInv == JobType /\ MadeWhenStored

\* A failure leads to another change or to the end: never to the rows of a
\* success.
LEMMA FailureStoresNothing ==
    ASSUME dnsJob.at \in D!Changes
    PROVE  D!OnFailure \in {"upsert", "conflict", "again", "give up"}
BY DEF D!Changes, D!OnFailure

\* A success comes to the rows only by a change that inserts what is wanted.
LEMMA SuccessMakesNames ==
    ASSUME dnsJob.at \in D!Changes
    PROVE  /\ D!OnSuccess \in {"forget", "again", "store"}
           /\ D!OnSuccess = "store" => dnsJob.want \subseteq D!Applied
BY DEF D!Changes, D!OnSuccess, D!Applied, D!Batch

\* It holds before the first delivery.
LEMMA DnsInvHolds == D!Init => DnsInv
BY DEF D!Init, D!Idle, DnsInv, JobType, MadeWhenStored

\* Every step keeps it.
LEMMA DnsInvInductive == DnsInv /\ [D!Next]_D!vars => DnsInv'
<1> SUFFICES ASSUME DnsInv, [D!Next]_D!vars PROVE DnsInv'
    OBVIOUS
<1> USE DEF DnsInv, JobType, MadeWhenStored
<1>1. ASSUME NEW workers \in WorkerSets, D!Deliver(workers) PROVE DnsInv'
    BY <1>1 DEF D!Deliver, D!Idle
<1>2. CASE D!FindRows
    BY <1>2 DEF D!FindRows, D!Changes
<1>3. CASE D!ForgetRows
    BY <1>3 DEF D!ForgetRows, D!Goto, D!Changes
<1>4. CASE D!ForgetFails
    BY <1>4 DEF D!ForgetFails, D!Changes
<1>5. CASE D!ChangeWorks
    BY <1>5, SuccessMakesNames DEF D!ChangeWorks, D!Goto, D!Changes
<1>6. CASE D!ChangeIsInvalid
    BY <1>6, FailureStoresNothing DEF D!ChangeIsInvalid, D!Goto, D!Changes
<1>7. CASE D!ChangeFails
  <2>1. CASE dnsJob' = [dnsJob EXCEPT !.tries = @ + 1, !.clean = FALSE]
    BY <1>7, <2>1 DEF D!ChangeFails, D!Changes
  <2>2. CASE dnsJob' = [dnsJob EXCEPT !.at = D!OnFailure, !.tries = 1, !.clean = FALSE]
    BY <1>7, <2>2, FailureStoresNothing DEF D!ChangeFails, D!Changes
  <2> QED
    BY <1>7, <2>1, <2>2 DEF D!ChangeFails
<1>8. CASE D!PropagationTimesOut
    BY <1>8, FailureStoresNothing DEF D!PropagationTimesOut, D!Changes
<1>9. CASE D!StoreActive
    BY <1>9 DEF D!StoreActive, D!Goto
<1>10. CASE D!StoreFailed
    BY <1>10 DEF D!StoreFailed, D!Goto
<1>11. CASE D!StoreFails
    BY <1>11 DEF D!StoreFails, D!Goto
<1>12. CASE D!Crash
    BY <1>12 DEF D!Crash, D!Goto
<1>13. CASE UNCHANGED D!vars
    BY <1>13 DEF D!vars
<1> QED
    BY <1>1, <1>2, <1>3, <1>4, <1>5, <1>6, <1>7, <1>8, <1>9, <1>10, <1>11, <1>12, <1>13
    DEF D!Next

\* However its changes are repeated, undone and made again, a delivery that
\* ends well leaves every name it wants in the zone.
THEOREM DnsResolves == D!Spec => []DeliveredNamesResolve
<1>1. DnsInv => DeliveredNamesResolve
    BY DEF DnsInv, MadeWhenStored, DeliveredNamesResolve
<1> QED
    BY <1>1, DnsInvHolds, DnsInvInductive, PTL DEF D!Spec

-----------------------------------------------------------------------------
(* Rows and zone                                                            *)

\* The rows are a sequence, and those of a delivery are of one set of workers.
RowsKnown ==
    /\ rows \in Seq(D!DnsRow)
    /\ dnsJob.want \in WorkerSets \cup {{}}
    /\ dnsJob.at \in D!Changes \cup {"idle", "find", "forget", "store", "give up", "ok", "failed"}

\* Of the names in the zone the rows know all, or will when the delivery has
\* stored its own; those that are cleaned up are gone before their rows.
ZoneFollowed ==
    ~lost => /\ D!Resting \/ dnsJob.at \in {"find", "clean"} => zone \subseteq D!Recorded
             /\ dnsJob.at = "forget" => zone = {}
             /\ dnsJob.at \in {"upsert", "conflict", "again", "store", "give up"}
                    => zone \subseteq D!Recorded \cup dnsJob.want

\* A delivery that found rows and zone in agreement, and saw no failure since,
\* empties both before it fills them, and never finds a conflict.
CleanStep ==
    dnsJob.clean =>
        /\ dnsJob.at = "clean" => D!Recorded = zone /\ Len(rows) = Cardinality(zone)
        /\ dnsJob.at = "forget" => zone = {}
        /\ dnsJob.at = "upsert" => zone = {} /\ rows = <<>>
        /\ dnsJob.at \notin {"conflict", "again"}
        /\ dnsJob.at = "store" => zone = dnsJob.want /\ rows = <<>>
        /\ dnsJob.at = "ok" => zone = dnsJob.want /\ D!Recorded = dnsJob.want
                            /\ Len(rows) = Cardinality(zone)

ZoneInv == JobType /\ RowsKnown /\ ZoneFollowed /\ CleanStep

\* SetToSeq lists each element of a finite set once.
LEMMA SetToSeqLists ==
    ASSUME NEW S, IsFiniteSet(S)
    PROVE  /\ SetToSeq(S) \in Seq(S)
           /\ Len(SetToSeq(S)) = Cardinality(S)
           /\ {SetToSeq(S)[k] : k \in DOMAIN SetToSeq(S)} = S
<1> DEFINE Places == 1 .. Cardinality(S)
           f == SetToSeq(S)
<1>1. Cardinality(S) \in Nat /\ ExistsBijection(Places, S)
    BY FS_CardinalityType
<1>2. \E g \in [Places -> S] : IsInjective(g)
    BY <1>1 DEF ExistsBijection, Bijection, Injection
<1>3. f \in [Places -> S] /\ IsInjective(f)
    BY <1>2 DEF SetToSeq
<1>4. f \in Injection(Places, S)
    BY <1>3 DEF Injection
<1>5. IsFiniteSet(Places) /\ Cardinality(Places) = Cardinality(S)
    BY <1>1, FS_Interval
<1>6. f \in Surjection(Places, S)
    BY <1>4, <1>5, FS_Injection
<1>7. {f[k] : k \in Places} = S
    BY <1>3, <1>6 DEF Surjection
<1> QED
    BY <1>1, <1>3, <1>7

\* What two sequences of rows record, one after the other.
LEMMA RecordsOfBoth ==
    ASSUME NEW s \in Seq(D!DnsRow), NEW t \in Seq(D!DnsRow)
    PROVE  /\ s \o t \in Seq(D!DnsRow) /\ Len(s \o t) = Len(s) + Len(t)
           /\ {(s \o t)[k].record : k \in DOMAIN (s \o t)} =
                  {s[k].record : k \in DOMAIN s} \cup {t[k].record : k \in DOMAIN t}
<1>1. /\ s \o t \in Seq(D!DnsRow) /\ Len(s \o t) = Len(s) + Len(t)
      /\ Len(s) \in Nat /\ Len(t) \in Nat
      /\ DOMAIN s = 1 .. Len(s) /\ DOMAIN t = 1 .. Len(t)
      /\ DOMAIN (s \o t) = 1 .. Len(s) + Len(t)
    OBVIOUS
<1>2. \A k \in DOMAIN s : k \in DOMAIN (s \o t) /\ (s \o t)[k] = s[k]
    OBVIOUS
<1>3. \A k \in DOMAIN t : Len(s) + k \in DOMAIN (s \o t) /\ (s \o t)[Len(s) + k] = t[k]
    OBVIOUS
<1>4. \A k \in DOMAIN (s \o t) :
          k \in DOMAIN s \/ (k - Len(s) \in DOMAIN t /\ k = Len(s) + (k - Len(s)))
    BY <1>1
<1> DEFINE R(q) == {q[k].record : k \in DOMAIN q}
<1>5. ASSUME NEW x, x \in R(s) \/ x \in R(t) PROVE x \in R(s \o t)
  <2>1. CASE x \in R(s)
    BY <1>2, <2>1
  <2>2. CASE x \in R(t)
    <3>1. PICK k \in DOMAIN t : x = t[k].record
        BY <2>2
    <3> QED
        BY <1>3, <3>1
  <2> QED
    BY <1>5, <2>1, <2>2
<1>6. ASSUME NEW x \in R(s \o t) PROVE x \in R(s) \cup R(t)
  <2>1. PICK k \in DOMAIN (s \o t) : x = (s \o t)[k].record
    OBVIOUS
  <2>2. CASE k \in DOMAIN s
    BY <1>2, <2>1, <2>2
  <2>3. CASE k - Len(s) \in DOMAIN t /\ k = Len(s) + (k - Len(s))
    <3>1. (s \o t)[k] = t[k - Len(s)]
        BY <1>3, <2>3
    <3> QED
        BY <2>1, <2>3, <3>1
  <2> QED
    BY <1>4, <2>1, <2>2, <2>3
<1>7. R(s \o t) = R(s) \cup R(t)
    BY <1>5, <1>6
<1> QED
    BY <1>1, <1>7

\* storeDnsRecords adds the workers of the delivery to those recorded.
LEMMA StoreRecords ==
    ASSUME RowsKnown, NEW status \in {"ACTIVE", "FAILED"},
           \A ws \in WorkerSets : IsFiniteSet(ws),
           D!Store(status)
    PROVE  /\ rows' \in Seq(D!DnsRow)
           /\ D!Recorded' = D!Recorded \cup dnsJob.want
           /\ rows = <<>> => Len(rows') = Cardinality(dnsJob.want)
<1> DEFINE new == SetToSeq(dnsJob.want)
           added == [k \in DOMAIN new |-> [record |-> new[k], status |-> status]]
<1>1. IsFiniteSet(dnsJob.want)
    BY FS_EmptySet DEF RowsKnown
<1>2. /\ new \in Seq(dnsJob.want) /\ Len(new) = Cardinality(dnsJob.want)
      /\ {new[k] : k \in DOMAIN new} = dnsJob.want
    BY <1>1, SetToSeqLists
<1>3. rows' = rows \o added
    BY SameSequence DEF D!Store
<1> HIDE DEF new
<1>4. \A k \in DOMAIN new : [record |-> new[k], status |-> status] \in D!DnsRow
  <2>1. dnsJob.want \subseteq UNION WorkerSets
    BY DEF RowsKnown
  <2> QED
    BY <1>2, <2>1 DEF D!DnsRow
<1>5. DOMAIN new = 1 .. Len(new) /\ Len(new) \in Nat
    BY <1>2
<1>6. added \in Seq(D!DnsRow) /\ DOMAIN added = DOMAIN new /\ Len(added) = Len(new)
    BY <1>4, <1>5
<1>7. {added[k].record : k \in DOMAIN added} = dnsJob.want
    BY <1>2, <1>6
<1> HIDE DEF added
<1>8. rows \in Seq(D!DnsRow)
    BY DEF RowsKnown
<1>9. rows = <<>> => Len(rows) = 0
    OBVIOUS
<1>10. /\ rows \o added \in Seq(D!DnsRow)
       /\ Len(rows \o added) = Len(rows) + Len(added)
       /\ {(rows \o added)[k].record : k \in DOMAIN (rows \o added)} = D!Recorded \cup dnsJob.want
    BY <1>6, <1>7, <1>8, RecordsOfBoth DEF D!Recorded
<1>11. D!Recorded' = D!Recorded \cup dnsJob.want
    BY <1>3, <1>10 DEF D!Recorded
<1>12. rows = <<>> => Len(rows') = Cardinality(dnsJob.want)
    BY <1>2, <1>3, <1>5, <1>6, <1>9, <1>10
<1> QED
    BY <1>3, <1>10, <1>11, <1>12

\* Nothing is recorded by no rows, and by rows only.
LEMMA NoRows ==
    ASSUME rows \in Seq(D!DnsRow)
    PROVE  D!Recorded = {} <=> rows = <<>>
<1>1. rows = <<>> => D!Recorded = {}
    BY DEF D!Recorded
<1>2. rows # <<>> => 1 \in DOMAIN rows
    OBVIOUS
<1> QED
    BY <1>1, <1>2 DEF D!Recorded

\* Before the first delivery there is nothing to know.
LEMMA ZoneInvHolds == D!Init => ZoneInv
BY DEF D!Init, D!Idle, D!Resting, D!Recorded, D!Changes, ZoneInv, JobType, RowsKnown,
   ZoneFollowed, CleanStep

\* A failing change is of a delivery that is not clean any more.
LEMMA ChangeFailsKeeps ==
    ASSUME ZoneInv, D!ChangeFails \/ D!PropagationTimesOut
    PROVE  ZoneInv'
<1> USE DEF ZoneInv, JobType, RowsKnown, D!Changes
<1>1. /\ dnsJob.at \in D!Changes /\ rows' = rows /\ lost' = lost /\ zone' \in {zone, D!Applied}
      /\ dnsJob'.at \in {dnsJob.at, D!OnFailure} /\ dnsJob'.want = dnsJob.want
      /\ dnsJob'.clean = FALSE
      /\ JobType'
  <2>1. CASE dnsJob' = [dnsJob EXCEPT !.tries = @ + 1, !.clean = FALSE]
    BY <2>1 DEF D!ChangeFails, D!PropagationTimesOut
  <2>2. CASE dnsJob' = [dnsJob EXCEPT !.at = D!OnFailure, !.tries = 1, !.clean = FALSE]
    BY <2>2 DEF D!ChangeFails, D!PropagationTimesOut
  <2> QED
    BY <2>1, <2>2 DEF D!ChangeFails, D!PropagationTimesOut
<1>2. RowsKnown'
    BY <1>1, FailureStoresNothing
<1>3. ZoneFollowed'
  <2>1. D!Recorded' = D!Recorded
    BY <1>1 DEF D!Recorded
  <2> QED
    BY <1>1, <2>1 DEF ZoneFollowed, D!Resting, D!OnFailure, D!Applied, D!Batch
<1>4. CleanStep'
    BY <1>1 DEF CleanStep
<1> QED
    BY <1>1, <1>2, <1>3, <1>4

\* A change that works is of the names that the rows, or the delivery, know.
LEMMA ChangeWorksKeeps ==
    ASSUME ZoneInv, D!ChangeWorks
    PROVE  ZoneInv'
<1> USE DEF ZoneInv, JobType, RowsKnown, D!Changes
<1>1. /\ dnsJob.at \in D!Changes /\ rows' = rows /\ lost' = lost /\ zone' = D!Applied
      /\ dnsJob'.at = D!OnSuccess /\ dnsJob'.want = dnsJob.want /\ dnsJob'.clean = dnsJob.clean
      /\ JobType'
    BY DEF D!ChangeWorks, D!Goto
<1>2. D!Recorded' = D!Recorded
    BY <1>1 DEF D!Recorded
<1>3. RowsKnown'
    BY <1>1, SuccessMakesNames
<1>4. ZoneFollowed'
    BY <1>1, <1>2 DEF ZoneFollowed, D!Resting, D!OnSuccess, D!Applied, D!Batch
<1>5. CleanStep'
    BY <1>1, <1>2 DEF CleanStep, D!OnSuccess, D!Applied, D!Batch
<1> QED
    BY <1>1, <1>3, <1>4, <1>5

\* A clean delivery has no change that is invalid: its rows are of one name each
\* and the names are there.
LEMMA ChangeIsInvalidKeeps ==
    ASSUME ZoneInv, D!ChangeIsInvalid
    PROVE  ZoneInv'
<1> USE DEF ZoneInv, JobType, RowsKnown, D!Changes
<1>1. /\ dnsJob.at \in D!Changes /\ rows' = rows /\ lost' = lost /\ zone' = zone /\ D!Invalid
      /\ dnsJob'.at = D!OnFailure /\ dnsJob'.want = dnsJob.want /\ dnsJob'.clean = dnsJob.clean
      /\ JobType'
    BY DEF D!ChangeIsInvalid, D!Goto
<1>2. D!Recorded' = D!Recorded
    BY <1>1 DEF D!Recorded
<1>3. RowsKnown'
    BY <1>1, FailureStoresNothing
<1>4. ZoneFollowed'
    BY <1>1, <1>2 DEF ZoneFollowed, D!Resting, D!OnFailure
<1>5. ~dnsJob.clean
    BY <1>1, SameCardinality DEF CleanStep, D!Invalid, D!Batch
<1>6. CleanStep'
    BY <1>1, <1>5 DEF CleanStep
<1> QED
    BY <1>1, <1>3, <1>4, <1>6

\* The rows of the delivery are those of the names it has made or tried to.
LEMMA StoreKeeps ==
    ASSUME ZoneInv, \A ws \in WorkerSets : IsFiniteSet(ws),
           D!StoreActive \/ D!StoreFailed
    PROVE  ZoneInv'
<1> USE DEF ZoneInv, JobType, RowsKnown, D!Changes
<1>1. /\ zone' = zone /\ lost' = lost
      /\ dnsJob'.want = dnsJob.want /\ dnsJob'.clean = dnsJob.clean /\ JobType'
      /\ \/ dnsJob.at = "store" /\ dnsJob'.at = "ok"
         \/ dnsJob.at = "give up" /\ dnsJob'.at = "failed"
    BY DEF D!StoreActive, D!StoreFailed, D!Goto
<1>2. /\ rows' \in Seq(D!DnsRow) /\ D!Recorded' = D!Recorded \cup dnsJob.want
      /\ rows = <<>> => Len(rows') = Cardinality(dnsJob.want)
    BY StoreRecords DEF D!StoreActive, D!StoreFailed
<1>3. RowsKnown'
    BY <1>1, <1>2
<1>4. ZoneFollowed'
    BY <1>1, <1>2 DEF ZoneFollowed, D!Resting
<1>5. CleanStep'
    BY <1>1, <1>2, NoRows DEF CleanStep
<1> QED
    BY <1>1, <1>3, <1>4, <1>5

\* A table without rows.
LEMMA NoRowsIsASequence == <<>> \in Seq(D!DnsRow)
OBVIOUS

\* Every step keeps it.
LEMMA ZoneInvInductive ==
    ASSUME \A ws \in WorkerSets : IsFiniteSet(ws)
    PROVE  ZoneInv /\ [D!Next]_D!vars => ZoneInv'
<1> SUFFICES ASSUME ZoneInv, [D!Next]_D!vars PROVE ZoneInv'
    OBVIOUS
<1> USE DEF ZoneInv, JobType, RowsKnown, D!Changes
<1>1. ASSUME NEW workers \in WorkerSets, D!Deliver(workers) PROVE ZoneInv'
  <2>1. D!Recorded' = D!Recorded
    BY <1>1 DEF D!Deliver, D!Recorded
  <2> QED
    BY <1>1, <2>1 DEF D!Deliver, D!Idle, ZoneFollowed, CleanStep, D!Resting
<1>2. CASE D!FindRows
  <2>1. D!Recorded' = D!Recorded
    BY <1>2 DEF D!FindRows, D!Recorded
  <2>2. RowsKnown' /\ JobType'
    BY <1>2 DEF D!FindRows
  <2>3. ZoneFollowed'
    BY <1>2, <2>1, NoRows DEF D!FindRows, ZoneFollowed, D!Resting
  <2>4. CleanStep'
    BY <1>2, <2>1, NoRows, SameCardinality DEF D!FindRows, CleanStep
  <2> QED
    BY <2>2, <2>3, <2>4
<1>3. CASE D!ForgetRows
  <2>1. rows' = <<>> /\ D!Recorded' = {}
    BY <1>3 DEF D!ForgetRows, D!Recorded
  <2>2. RowsKnown' /\ JobType'
    <3>1. JobType' /\ dnsJob'.at = "upsert" /\ dnsJob'.want = dnsJob.want
        BY <1>3 DEF D!ForgetRows, D!Goto
    <3> QED
        BY <2>1, <3>1, NoRowsIsASequence
  <2> QED
    BY <1>3, <2>1, <2>2 DEF D!ForgetRows, D!Goto, ZoneFollowed, CleanStep, D!Resting
<1>4. CASE D!ForgetFails
  <2>1. D!Recorded' = D!Recorded
    BY <1>4 DEF D!ForgetFails, D!Recorded
  <2> QED
    BY <1>4, <2>1 DEF D!ForgetFails, ZoneFollowed, CleanStep, D!Resting
<1>5. CASE D!StoreFails
  <2>1. D!Recorded' = D!Recorded
    BY <1>5 DEF D!StoreFails, D!Recorded
  <2>2. RowsKnown' /\ JobType'
    BY <1>5 DEF D!StoreFails, D!Goto
  <2>3. ZoneFollowed'
    BY <1>5, <2>1 DEF D!StoreFails, D!Goto, ZoneFollowed, D!Resting
  <2>4. CleanStep'
    BY <1>5 DEF D!StoreFails, D!Goto, CleanStep
  <2> QED
    BY <2>2, <2>3, <2>4
<1>6. CASE D!Crash
  <2>1. RowsKnown' /\ JobType'
    BY <1>6 DEF D!Crash, D!Goto
  <2> QED
    BY <1>6, <2>1 DEF D!Crash, D!Goto, ZoneFollowed, CleanStep
<1>7. CASE UNCHANGED D!vars
  <2>1. D!Recorded' = D!Recorded
    BY <1>7 DEF D!vars, D!Recorded
  <2> QED
    BY <1>7, <2>1 DEF D!vars, ZoneFollowed, CleanStep, D!Resting
<1> QED
    BY <1>1, <1>2, <1>3, <1>4, <1>5, <1>6, <1>7,
       ChangeWorksKeeps, ChangeIsInvalidKeeps, ChangeFailsKeeps, StoreKeeps
    DEF D!Next

\* Rows and zone part only by what died or failed, and come together again: for
\* any finite sets of workers.
THEOREM RowsFollowTheZone ==
    ASSUME \A ws \in WorkerSets : IsFiniteSet(ws)
    PROVE  D!Spec => []ZoneAndRowsAgree
<1>1. ZoneInv => ZoneAndRowsAgree
    BY SamePromise
    DEF ZoneInv, ZoneFollowed, CleanStep, ZoneAndRowsAgree, ZoneIsKnown, CleanDeliveryReplaces
<1> QED
    BY <1>1, ZoneInvHolds, ZoneInvInductive, PTL DEF D!Spec

\* The zone has names of workers only, and what is tried and fails is bounded.
DnsBounds ==
    /\ zone \subseteq UNION WorkerSets
    /\ dnsJob.tries \in 0 .. MaxAttempts
    /\ deliveries \in 0 .. DnsDeliveries /\ faults \in 0 .. MaxFaults

\* A change takes names of the rows or of the workers.
LEMMA AppliedAreWorkers ==
    ASSUME RowsKnown, DnsBounds
    PROVE  D!Applied \subseteq UNION WorkerSets
<1>1. dnsJob.want \subseteq UNION WorkerSets
  <2>1. dnsJob.want \in WorkerSets \/ dnsJob.want = {}
    BY DEF RowsKnown
  <2> QED
    BY <2>1
<1> QED
    BY <1>1 DEF DnsBounds, D!Applied, D!Batch

\* Every step keeps the bounds.
LEMMA DnsBoundsInductive ==
    ASSUME MaxAttempts \in Nat \ {0}, DnsDeliveries \in Nat, MaxFaults \in Nat,
           JobType, RowsKnown, DnsBounds, [D!Next]_D!vars
    PROVE  DnsBounds'
<1>1. 1 \in 0 .. MaxAttempts
    OBVIOUS
<1>2. faults < MaxFaults => faults + 1 \in 0 .. MaxFaults
    BY DEF DnsBounds
<1>3. ASSUME NEW workers \in WorkerSets, D!Deliver(workers) PROVE DnsBounds'
  <2>1. deliveries' \in 0 .. DnsDeliveries
    BY <1>3 DEF D!Deliver, DnsBounds
  <2>2. dnsJob'.tries = 0 /\ UNCHANGED <<zone, faults>>
    BY <1>3 DEF D!Deliver, D!Idle
  <2> QED
    BY <2>1, <2>2 DEF DnsBounds
<1>4. ASSUME zone' \in {zone, D!Applied},
             dnsJob'.tries \in {1, dnsJob.tries, dnsJob.tries + 1},
             dnsJob'.tries = dnsJob.tries + 1 => dnsJob.tries < MaxAttempts \/ dnsJob'.tries = 1,
             deliveries' = deliveries,
             faults' = faults \/ (faults < MaxFaults /\ faults' = faults + 1)
      PROVE  DnsBounds'
  <2>1. zone' \subseteq UNION WorkerSets
    BY <1>4, AppliedAreWorkers DEF DnsBounds
  <2>2. dnsJob'.tries \in 0 .. MaxAttempts
    BY <1>1, <1>4 DEF DnsBounds
  <2> QED
    BY <1>2, <1>4, <2>1, <2>2 DEF DnsBounds
<1>5. CASE D!ChangeFails
  <2>1. /\ zone' \in {zone, D!Applied} /\ deliveries' = deliveries
        /\ faults < MaxFaults /\ faults' = faults + 1
    BY <1>5 DEF D!ChangeFails
  <2>2. \/ dnsJob'.tries = dnsJob.tries + 1 /\ dnsJob.tries < MaxAttempts
        \/ dnsJob'.tries = 1
    BY <1>5 DEF D!ChangeFails, JobType
  <2> QED
    BY <1>4, <2>1, <2>2
<1>6. CASE \/ D!FindRows \/ D!ForgetRows \/ D!ForgetFails \/ D!ChangeWorks \/ D!ChangeIsInvalid
           \/ D!PropagationTimesOut \/ D!StoreActive \/ D!StoreFailed \/ D!StoreFails \/ D!Crash
  <2>1. /\ zone' \in {zone, D!Applied} /\ deliveries' = deliveries
        /\ faults' = faults \/ (faults < MaxFaults /\ faults' = faults + 1)
    BY <1>6 DEF D!FindRows, D!ForgetRows, D!ForgetFails, D!ChangeWorks, D!ChangeIsInvalid,
                D!PropagationTimesOut, D!StoreActive, D!StoreFailed, D!StoreFails, D!Crash
  <2>2. dnsJob'.tries = 1
    <3>1. ASSUME NEW place, D!Goto(place) PROVE dnsJob'.tries = 1
      BY <3>1 DEF D!Goto, JobType
    <3>2. CASE D!FindRows \/ D!ForgetFails \/ D!PropagationTimesOut
      BY <3>2 DEF D!FindRows, D!ForgetFails, D!PropagationTimesOut, JobType
    <3>3. CASE ~(D!FindRows \/ D!ForgetFails \/ D!PropagationTimesOut)
      BY <1>6, <3>1, <3>3 DEF D!ForgetRows, D!ChangeWorks, D!ChangeIsInvalid, D!StoreActive,
                              D!StoreFailed, D!StoreFails, D!Crash
    <3> QED
      BY <3>2, <3>3
  <2> QED
    BY <1>4, <2>1, <2>2
<1>7. CASE UNCHANGED D!vars
    BY <1>7 DEF D!vars, DnsBounds
<1> QED
    BY <1>3, <1>5, <1>6, <1>7 DEF D!Next

\* The state of the DNS records has its type: rows and zone name workers of the
\* swarm, and no change is tried more often than retryOperation allows.
THEOREM DnsTyped ==
    ASSUME \A ws \in WorkerSets : IsFiniteSet(ws),
           MaxAttempts \in Nat \ {0}, DnsDeliveries \in Nat, MaxFaults \in Nat
    PROVE  D!Spec => []D!TypeOK
<1>1. D!Init => DnsBounds
    BY DEF D!Init, D!Idle, DnsBounds
<1>2. ZoneInv /\ DnsBounds /\ [D!Next]_D!vars => DnsBounds'
    BY DnsBoundsInductive DEF ZoneInv
<1>3. ZoneInv /\ DnsBounds => D!TypeOK
    BY DEF ZoneInv, RowsKnown, DnsBounds, D!TypeOK
<1> QED
    BY <1>1, <1>2, <1>3, ZoneInvHolds, ZoneInvInductive, PTL DEF D!Spec
=============================================================================
