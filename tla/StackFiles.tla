----------------------------- MODULE StackFiles -----------------------------
(***************************************************************************)
(* From an instance to a stack that runs: certificates, secrets, compose   *)
(* files (MongoDBDeploymentOrchestrator, from setupSecurity to cleanup),   *)
(* for several deployments on one machine.                                 *)
(*                                                                         *)
(* All deployments write below one folder, tmp, and each one empties it at *)
(* its end.  A deployment whose process dies is delivered again.           *)
(***************************************************************************)
EXTENDS Integers, Sequences, FiniteSets, SequencesExt

CONSTANTS
    Stack,          \* stack names
    Settings,       \* what the instances ask for: [version, tls, replicated, port]
    Modern,         \* versions whose mongod is started with a CA file
    NeedsCa,        \* versions for which a CA secret is created
    Nothing,        \* no stack, no file name, no secret name
    MaxDeliveries,  \* bound on the deliveries of a deployment
    MaxCleanings,   \* bound on the runs of clean:stacks
    MaxClock        \* bound on the clock, which counts milliseconds

VARIABLES
    setting,    \* what each instance asks for: [version, tls, replicated, port]
    job,        \* its deployment: where it is, how often it was delivered, which of
                \* two parallel commands are done, the CA secret that createSecrets
                \* returned, the compose file saved last and when databases' were
    wiped,      \* history: the folder was emptied, the directory of its call
                \* removed with another call's or a secret by clean:stacks, in
                \* the delivery under way
    secrets,    \* swarm: the delivery that made a secret, by name
    running,    \* swarm: the database service of a stack, or Nothing
    stored,     \* S3: the delivery whose certificate can be downloaded, 0: none
    clock,      \* milliseconds
    tmp,        \* certificate files: <<stack, kind>>; "directory" is one of them
    compose,    \* compose files: their content by name
    dockerTls,  \* directories that docker's client reads, by instant; one that
                \* no call reads any more is left out
    called,     \* the one each deployment's call under way reads, or NoCall
    command     \* clean:stacks: the stacks and secrets left to remove, its runs
\* Its properties are FailuresHaveACause, StacksRunTheirFiles and PortsNeverClash.
INSTANCE DeployedStacks

folder == <<tmp, compose, dockerTls, called, wiped>>
swarm == <<secrets, running, stored>>
vars == <<setting, job, clock, folder, swarm, command>>

Goto(s, p) == job' = [job EXCEPT ![s].at = p]
AfterTls(s) == IF setting[s].replicated THEN "replica key" ELSE "save"
Has(s, kinds) == \A kind \in kinds : <<s, kind>> \in tmp
\* A delivery ends, and what its process knew is forgotten.
Ends(s, p) ==
    job' = [job EXCEPT ![s] = [job[s] EXCEPT !.at = p, !.keys = {},
                                             !.caName = Nothing, !.fileName = Nothing]]
Fail(s) == Ends(s, "failed") /\ UNCHANGED swarm
UnderWay(s) == job[s].at \notin {"waiting", "dead", "done", "failed"}

-----------------------------------------------------------------------------
(* Secrets: their names, who needs them                                     *)

CaSecret(s) == <<s, "ca">>
ReplicaKey(s) == <<s, "replicakey">>

\* buildBaseCommand and addTLSOptions: the files the mongod command names.
CommandFiles(s) ==
    (IF setting[s].replicated THEN {ReplicaKey(s)} ELSE {})
    \cup (IF setting[s].tls THEN {TlsSecret(s)} ELSE {})
    \cup (IF setting[s].tls /\ setting[s].version \in Modern THEN {job[s].caName} ELSE {})

\* buildSecretsConfig: the secrets of TLS the service is given.
Mounted(s) ==
    IF setting[s].tls
    THEN {TlsSecret(s)} \cup (IF setting[s].version \in Modern THEN {job[s].caName} ELSE {})
    ELSE {}

-----------------------------------------------------------------------------
(* Certificates: DatabaseCertificateGeneratorService and its storage        *)

\* The infrastructure is set up; the job was delivered, perhaps not for the
\* first time.
Start(s) ==
    /\ job[s].at \in {"waiting", "dead"}
    /\ job[s].delivery < MaxDeliveries
    /\ job' = [job EXCEPT ![s] = [job[s] EXCEPT
                  !.at = IF setting[s].tls THEN "directory" ELSE AfterTls(s),
                  !.delivery = job[s].delivery + 1]]
    /\ UNCHANGED <<folder, swarm>>

MakeDirectory(s) ==
    /\ job[s].at = "directory"
    /\ Goto(s, "keys")
    /\ tmp' = tmp \cup {<<s, "directory">>}
    /\ UNCHANGED <<compose, dockerTls, called, wiped, swarm>>

\* One openssl command of a phase: it reads some files and writes one.
Command(s, reads, writes, after) ==
    IF Has(s, reads \cup {"directory"})
    THEN /\ job' = [job EXCEPT ![s] = after]
         /\ tmp' = tmp \cup {<<s, writes>>}
         /\ UNCHANGED <<compose, dockerTls, called, wiped, swarm>>
    ELSE Fail(s) /\ UNCHANGED folder

\* Mutant of Phase1: the first of the two commands to end is enough.
Phase1Race(s, kind) ==
    /\ job[s].at = "keys"
    /\ Command(s, {}, kind, [job[s] EXCEPT !.keys = @ \cup {kind}, !.at = "sign"])

\* Phase 1: the CA and the signing request, in parallel.
Phase1(s, kind) ==
    /\ job[s].at = "keys" /\ kind \notin job[s].keys
    /\ LET done == job[s].keys \cup {kind} IN
       Command(s, {}, kind, [job[s] EXCEPT !.keys = done,
                                !.at = IF done = {"ca", "csr"} THEN "sign" ELSE "keys"])

\* Phase 2: the certificate.
Sign(s) ==
    /\ job[s].at = "sign"
    /\ Command(s, {"ca", "csr"}, "crt", [job[s] EXCEPT !.at = "bundle"])

\* Phase 3: the file with the key and the certificate.
Bundle(s) ==
    /\ job[s].at = "bundle"
    /\ Command(s, {"csr", "crt"}, "pem", [job[s] EXCEPT !.at = "upload"])

\* upload: all the files are read and put to S3.
Upload(s) ==
    /\ job[s].at = "upload"
    /\ IF Has(s, {"ca", "csr", "crt", "pem"})
       THEN /\ Goto(s, "tls files")
            /\ stored' = [stored EXCEPT ![s] = job[s].delivery]
            /\ UNCHANGED <<secrets, running>>
       ELSE Fail(s)
    /\ UNCHANGED folder

\* The generator ends with an error when one of its commands does.
Generate(s) ==
    MakeDirectory(s) \/ Phase1(s, "ca") \/ Phase1(s, "csr") \/ Sign(s) \/ Bundle(s)

MakeCertificates(s) == Generate(s) \/ Upload(s)

-----------------------------------------------------------------------------
(* Docker: DockerSecretService, DockerCliService                            *)

DockerPlaces == {"tls secret", "ca secret", "replica key", "deploy", "deploy exporter"}
NoCall == -1

\* setupCertificateFiles: the files that docker's client reads are written anew
\* for each call, to a directory named for the cluster and the instant.
PrepareCall(s) ==
    /\ job[s].at \in DockerPlaces /\ called[s] = NoCall
    /\ dockerTls' = dockerTls \cup {clock}
    /\ called' = [called EXCEPT ![s] = clock]
    /\ UNCHANGED <<job, tmp, compose, wiped, swarm>>

\* The environment of the call names the directory.
Called(s) == called[s] # NoCall

\* A docker command whose client's files were removed under it fails.
Usable(s) == called[s] \in dockerTls

\* cleanupTempCertificateFiles: the directory is removed, for all who read it.
RemoveFiles(s) ==
    /\ dockerTls' = dockerTls \ {called[s]}
    /\ wiped' = [t \in Stack |-> wiped[t] \/ (t # s /\ Called(t) /\ called[t] = called[s])]

\* run: the result is there; a second later the files are removed, which may be
\* before or after another call with the same directory has ended.
CallEnds(s) ==
    /\ called' = [called EXCEPT ![s] = NoCall]
    /\ \/ RemoveFiles(s)
       \/ /\ \E t \in Stack \ {s} : called[t] = called[s]
          /\ UNCHANGED <<dockerTls, wiped>>

\* DockerJsonParserService: secret ls answers a line for each secret; no line,
\* one and several are parsed in different ways, to an array in the end.
Listed(lines) == {lines[k] : k \in DOMAIN lines}

\* createSecret: a secret that exists is left as it is; if docker cannot be
\* asked, the code takes it that there is none, and creating it fails if there is.
CreateSecret(s, name) ==
    \/ /\ Usable(s) /\ name \in Listed(SetToSeq(DOMAIN secrets))
       /\ UNCHANGED secrets
    \/ /\ name \notin DOMAIN secrets
       /\ secrets' = [n \in DOMAIN secrets \cup {name} |->
                         IF n = name THEN job[s].delivery ELSE secrets[n]]

\* Mutant of SecretFails: a failed call leaves its client's files behind.
SecretFailsUncleaned(s) ==
    /\ job[s].at \in {"tls secret", "ca secret", "replica key"}
    /\ Called(s) /\ ~Usable(s)
    /\ Fail(s) /\ UNCHANGED folder

\* secretExists takes an error for "no such secret"; the call to create it fails.
SecretFails(s) ==
    /\ job[s].at \in {"tls secret", "ca secret", "replica key"}
    /\ Called(s) /\ ~Usable(s)
    /\ Fail(s) /\ CallEnds(s) /\ UNCHANGED <<tmp, compose>>

\* createSecrets reads a file before it asks docker for anything.
ReadFiles(s, from, kinds, to) ==
    /\ job[s].at = from
    /\ IF Has(s, kinds) THEN Goto(s, to) /\ UNCHANGED swarm ELSE Fail(s)
    /\ UNCHANGED folder

\* createSecrets: the TLS secret ...
CreateTlsSecret(s) ==
    /\ job[s].at = "tls secret" /\ Called(s)
    /\ CallEnds(s)
    /\ CreateSecret(s, TlsSecret(s))
    /\ Goto(s, IF setting[s].version \in NeedsCa THEN "ca file" ELSE AfterTls(s))
    /\ UNCHANGED <<tmp, compose, running, stored>>

\* ... and for some versions the one of the CA.
CreateCaSecret(s) ==
    /\ job[s].at = "ca secret" /\ Called(s)
    /\ CallEnds(s)
    /\ CreateSecret(s, CaSecret(s))
    /\ job' = [job EXCEPT ![s] = [job[s] EXCEPT !.at = AfterTls(s),
                                             !.caName = CaSecret(s)]]
    /\ UNCHANGED <<tmp, compose, running, stored>>

\* setupReplicaKeyIfNeeded
CreateReplicaKey(s) ==
    /\ job[s].at = "replica key" /\ Called(s)
    /\ CallEnds(s)
    /\ CreateSecret(s, ReplicaKey(s))
    /\ Goto(s, "save")
    /\ UNCHANGED <<tmp, compose, running, stored>>

-----------------------------------------------------------------------------
(* Compose files                                                            *)

\* Mutant of NameOf: without the instant.
NameOfKind(s, kind) == [kind |-> kind, replicated |-> setting[s].replicated]

\* saveToFile: one name for each kind of file, kind of deployment and instant.
NameOf(s, kind) == [kind |-> kind, replicated |-> setting[s].replicated, at |-> clock]

\* buildTemplateData: what a file says of secrets; the one of a replica set
\* adds its key.
StandaloneFile(s) ==
    [of |-> s, kind |-> "database", at |-> clock,
     command |-> CommandFiles(s), external |-> Mounted(s)]
ReplicaSetFile(s) ==
    [StandaloneFile(s) EXCEPT !.external = @ \cup {ReplicaKey(s)}]

\* The templates.
DatabaseFile(s) == IF setting[s].replicated THEN ReplicaSetFile(s) ELSE StandaloneFile(s)
ExporterFile(s) == [of |-> s, kind |-> "exporter", at |-> clock]

Save(s, from, kind, file, to) ==
    /\ job[s].at = from
    /\ job' = [job EXCEPT ![s] = [job[s] EXCEPT
                  !.at = to, !.fileName = NameOf(s, kind),
                  !.savedAt = IF kind = "database" THEN job[s].savedAt \cup {clock}
                              ELSE job[s].savedAt]]
    /\ compose' = [n \in DOMAIN compose \cup {NameOf(s, kind)} |->
                      IF n = NameOf(s, kind) THEN file ELSE compose[n]]
    /\ UNCHANGED <<tmp, dockerTls, called, wiped, swarm>>

SaveDatabase(s) == Save(s, "save", "database", DatabaseFile(s), "deploy")
SaveExporter(s) ==
    Save(s, "save exporter", "exporter", ExporterFile(s), "deploy exporter")

\* docker stack deploy: the file must be there, and every secret it calls external.
Deployable(s) ==
    /\ Usable(s)
    /\ job[s].fileName \in DOMAIN compose
    /\ \/ compose[job[s].fileName].kind = "exporter"
       \/ compose[job[s].fileName].external \subseteq DOMAIN secrets

Deploy(s, from, to) ==
    /\ job[s].at = from /\ Called(s)
    /\ CallEnds(s)
    /\ IF Deployable(s)
       THEN /\ Goto(s, to)
            /\ running' = IF from = "deploy"
                          THEN [running EXCEPT ![s] = compose[job[s].fileName]] ELSE running
            /\ UNCHANGED <<secrets, stored>>
       ELSE Fail(s)
    /\ UNCHANGED <<tmp, compose>>

DeployDatabase(s) == Deploy(s, "deploy", "save exporter")
DeployExporter(s) == Deploy(s, "deploy exporter", "clean up")

\* cleanup: the folder is emptied, whoever uses it.
CleanUp(s) ==
    /\ job[s].at = "clean up"
    /\ Ends(s, "done")
    /\ tmp' = {} /\ compose' = <<>>
    /\ dockerTls' = {}
    /\ wiped' = [t \in Stack |-> wiped[t] \/ (t # s /\ UnderWay(t))]
    /\ UNCHANGED <<called, swarm>>

-----------------------------------------------------------------------------
(* clean:stacks, which an operator may run at any time                        *)

CommonSecrets(s) == <<TlsSecret(s), <<s, "cacert">>, ReplicaKey(s)>>

\* The stacks with a certain pattern in their names, of those docker lists.  With
\* includeSecrets their secrets go too; a dry run changes nothing.
ListStacks ==
    /\ command.stacks = {} /\ command.names = <<>>
    /\ command.runs < MaxCleanings
    /\ \E matching \in SUBSET {s \in Stack : running[s] # Nothing} \ {{}},
          includeSecrets \in BOOLEAN :
             command' = [command EXCEPT !.stacks = matching, !.runs = @ + 1,
                                        !.includeSecrets = includeSecrets]
    /\ UNCHANGED <<job, folder, swarm>>

\* cleanupStackManually: the secrets may follow, even if the stack could not be removed.
RemoveStack(s) ==
    /\ s \in command.stacks /\ command.names = <<>>
    /\ command' = [command EXCEPT
          !.stacks = @ \ {s},
          !.names = IF command.includeSecrets THEN CommonSecrets(s) ELSE <<>>]
    /\ running' \in {running, [running EXCEPT ![s] = Nothing]}
    /\ UNCHANGED <<job, folder, secrets, stored>>

\* docker secret rm: not one that a service uses.  An error is only logged.
InUse(name) == \E s \in Stack : running[s] # Nothing /\ name \in running[s].external

RemoveSecret ==
    /\ command.names # <<>>
    /\ command' = [command EXCEPT !.names = Tail(@)]
    /\ LET name == Head(command.names) IN
       \/ UNCHANGED <<secrets, wiped>>
       \/ /\ name \in DOMAIN secrets /\ ~InUse(name)
          /\ secrets' = [n \in DOMAIN secrets \ {name} |-> secrets[n]]
          /\ wiped' = [wiped EXCEPT ![name[1]] = @ \/ UnderWay(name[1])]
    /\ UNCHANGED <<job, tmp, compose, dockerTls, called, running, stored>>

CleanStacks == ListStacks \/ (\E s \in Stack : RemoveStack(s)) \/ RemoveSecret

-----------------------------------------------------------------------------
Die(s) ==
    /\ UnderWay(s)
    /\ Ends(s, "dead")
    /\ called' = [called EXCEPT ![s] = NoCall]
    /\ dockerTls' = {d \in dockerTls : \E t \in Stack \ {s} : called[t] = d}
    /\ wiped' = [wiped EXCEPT ![s] = FALSE]
    /\ UNCHANGED <<tmp, compose, swarm>>

Tick ==
    /\ clock < MaxClock
    /\ clock' = clock + 1
    /\ UNCHANGED <<setting, job, folder, swarm, command>>

Init ==
    /\ setting \in [Stack -> Settings]
    /\ \A s, t \in Stack : setting[s].port = setting[t].port => s = t  \* PortAllocation
    /\ job = [s \in Stack |-> [at |-> "waiting", delivery |-> 0, keys |-> {},
                              caName |-> Nothing, fileName |-> Nothing, savedAt |-> {}]]
    /\ clock = 0
    /\ tmp = {} /\ compose = <<>>
    /\ dockerTls = {} /\ called = [s \in Stack |-> NoCall]
    /\ wiped = [s \in Stack |-> FALSE]
    /\ secrets = <<>>
    /\ running = [s \in Stack |-> Nothing]
    /\ stored = [s \in Stack |-> 0]
    /\ command = [stacks |-> {}, names |-> <<>>, includeSecrets |-> FALSE,
                   runs |-> 0]

Step(s) ==
    \/ Start(s) \/ MakeCertificates(s)
    \/ ReadFiles(s, "tls files", {"pem", "crt"}, "tls secret")
    \/ ReadFiles(s, "ca file", {"ca"}, "ca secret")
    \/ PrepareCall(s) \/ CreateTlsSecret(s) \/ CreateCaSecret(s)
    \/ CreateReplicaKey(s) \/ SecretFails(s)
    \/ SaveDatabase(s) \/ DeployDatabase(s) \/ SaveExporter(s) \/ DeployExporter(s)
    \/ CleanUp(s) \/ Die(s)

Next ==
    \/ Tick
    \/ (\E s \in Stack : Step(s)) /\ UNCHANGED <<setting, clock, command>>
    \/ CleanStacks /\ UNCHANGED <<setting, clock>>

Spec == Init /\ [][Next]_vars

-----------------------------------------------------------------------------
TypeOK ==
    /\ \A s \in Stack :
          /\ job[s].delivery \in 0 .. MaxDeliveries
          /\ job[s].keys \subseteq {"ca", "csr"}
          /\ job[s].caName \in {Nothing, CaSecret(s)}
          /\ called[s] \in {NoCall} \cup 0 .. MaxClock
          /\ Called(s) => job[s].at \in DockerPlaces
    /\ \A n \in DOMAIN secrets : secrets[n] \in 1 .. MaxDeliveries
    /\ command.stacks \subseteq Stack /\ command.runs \in 0 .. MaxCleanings
    /\ clock \in 0 .. MaxClock /\ dockerTls \subseteq 0 .. MaxClock
=============================================================================
