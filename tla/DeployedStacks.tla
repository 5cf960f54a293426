--------------------------- MODULE DeployedStacks ---------------------------
(***************************************************************************)
(* What the deployments promise of the stacks that run and of those that   *)
(* could not be deployed: StackFiles is how it comes about.                *)
(***************************************************************************)
EXTENDS Integers

CONSTANTS
    Modern,     \* versions whose mongod is started with a CA file
    NeedsCa,    \* versions for which a CA secret is created
    Nothing     \* no stack, no file name, no secret name

VARIABLES
    setting,    \* what each instance asks for: [version, tls, replicated, port]
    job,        \* its deployment: where it is, how often it was delivered, which of
                \* two parallel commands are done, the CA secret that createSecrets
                \* returned, the compose file saved last and when databases' were
    wiped,      \* history: the folder was emptied, the directory of its call
                \* removed with another call's or a secret by clean:stacks, in
                \* the delivery under way
    secrets,    \* swarm: the delivery that made a secret, by name
    running,    \* swarm: the database service of a stack, or Nothing
    stored      \* S3: the delivery whose certificate can be downloaded, 0: none

Deployed == DOMAIN job

TlsSecret(s) == <<s, "tlscert">>

\* downloadCertificate finds the file whatever the state of the instance.
Downloadable(s) == stored[s] # 0

\* Mutant of Published: the port of the profiler is one off.
PublishedNear(s) == {setting[s].port, setting[s].port - 10000, setting[s].port - 9999}

\* The templates: the database, its exporter and its profiler.
Published(s) == {setting[s].port, setting[s].port - 10000, setting[s].port - 5000}

-----------------------------------------------------------------------------
\* The lists of versions agree.
CaIsCreated(s) ==
    setting[s].tls /\ setting[s].version \in Modern => setting[s].version \in NeedsCa

\* Another deployment saved the compose file of its database in the same instant.
Mixed(s) == \E t \in Deployed \ {s} : job[s].savedAt \cap job[t].savedAt # {}

\* A deployment fails because the folder was emptied or its client's directory
\* or a secret removed under it, its compose file was replaced or the lists of
\* versions differ: never because it reads a file of its own too early or misses
\* a secret it should have made.
FailuresHaveACause ==
    \A s \in Deployed : job[s].at = "failed" => wiped[s] \/ Mixed(s) \/ ~CaIsCreated(s)

\* What the command of a running database names was created and is in its
\* container, even if it runs from the file of another stack.
CommandFilesAreThere ==
    \A s \in Deployed : running[s] # Nothing =>
        running[s].command \subseteq running[s].external \cap DOMAIN secrets

\* A database that runs with a certificate has one that can be downloaded; if
\* they differ, a later delivery made the one that can.
CertificatesAreStored ==
    \A s \in Deployed : running[s] # Nothing /\ TlsSecret(s) \in running[s].external =>
        Downloadable(s) /\ secrets[TlsSecret(s)] <= stored[s]

\* A stack runs from the file of another one only if that was saved in the
\* same millisecond, for a deployment of the same kind.
FilesMixInOneInstantOnly ==
    \A s \in Deployed : running[s] # Nothing =>
        LET t == running[s].of IN
        t = s \/ (/\ setting[t].replicated = setting[s].replicated
                 /\ running[s].at \in job[s].savedAt \cap job[t].savedAt)

\* Every database runs from a compose file that is its own, or of its instant,
\* is complete, and its certificate can be downloaded.
StacksRunTheirFiles ==
    CommandFilesAreThere /\ FilesMixInOneInstantOnly /\ CertificatesAreStored

\* No two stacks publish the same port, be it of a database, an exporter or a
\* profiler: the ranges do not meet.
PortsNeverClash ==
    \A s, t \in Deployed : s # t => Published(s) \cap Published(t) = {}
=============================================================================
