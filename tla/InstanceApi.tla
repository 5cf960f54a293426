----------------------------- MODULE InstanceApi -----------------------------
(***************************************************************************)
(* The requests of the REST API on database instances: from the access     *)
(* token to the owner it acts for, to a row of that owner, to the answer   *)
(* or to the save and the job.  Requests overlap at every database call,   *)
(* with each other, with the jobs they lead to, and with the end of tokens *)
(* and the deletion of organizations.                                      *)
(*                                                                         *)
(* Of the jobs only what they do to the row is here; the rest, and their   *)
(* failures, are in InstanceLifecycle.                                     *)
(***************************************************************************)
EXTENDS Integers, Sequences, FiniteSets

CONSTANTS
    Request,    \* requests the server runs at the same time
    Tokens,     \* access tokens: [user, org, scopes]
    NoOrg,      \* the organization of a token without one
    NoOwner,    \* no owner, or not known yet
    HasOwner,   \* users and organizations with a row of owners
    Name, Stack,\* names of instances; names the generator may draw
    MaxRows,    \* bound on the instances created
    MaxCalls    \* bound on the requests begun

VARIABLES
    closed,     \* organizations that are soft-deleted
    rows,       \* rows of database_instances, the soft-deleted ones included
    connected,  \* instances with a row of database_connections
    queue,      \* jobs: [kind, row]
    request,    \* what each request is doing
    deletes,    \* history: deletions saved, by row
    calls       \* requests begun

\* Its properties are RequestsKeepToTheirContext and DeletedRowsSayDeleted.
INSTANCE InstanceOwners

vars == <<closed, rows, connected, queue, request, deletes, calls>>

InstanceRow == [owner : HasOwner, name : Name, stack : Stack,
                status : {"PROVISIONING", "DEPLOYING", "RUNNING", "FAILED",
                          "DELETING", "DELETED"},
                deleted : BOOLEAN]
NoRow == [owner |-> NoOwner, name |-> "", stack |-> "", status |-> "", deleted |-> FALSE]
Idle == [at |-> "idle", token |-> NoOrg, call |-> "", org |-> NoOrg, owner |-> NoOwner,
         id |-> 0, read |-> NoRow, data |-> ""]

At(r, place) == request[r].at = place
Goto(r, place) == request' = [request EXCEPT ![r].at = place]
\* The answer is sent, whatever it is.
Finish(r) == request' = [request EXCEPT ![r] = Idle]

Live(i) == i \in DOMAIN rows /\ ~rows[i].deleted

-----------------------------------------------------------------------------
(* From the access token to the owner it acts for *)

\* validateAccessToken: a soft-deleted organization is not loaded, and the
\* token is then taken for one without an organization.  Of a token that was
\* revoked, or deleted by the cleanup, no request comes past this check.
ValidateAccessToken(r, t, call) ==
    LET org == Tokens[t].org IN
    /\ At(r, "idle")
    /\ calls < MaxCalls
    /\ calls' = calls + 1
    /\ request' = [request EXCEPT
          ![r] = [Idle EXCEPT !.at = "owner", !.token = t, !.call = call,
                              !.org = IF org \in closed THEN NoOrg ELSE org]]
    /\ UNCHANGED <<closed, rows, connected, queue, deletes>>

\* The owner of a user, who is there as long as the row is.
FindByUserId(user) == {user} \cap HasOwner

\* The owner of an organization: if this was deleted meanwhile the row is found,
\* and the name that is to be answered with it is not.
FindByOrganizationId(org) == ({org} \cap HasOwner) \ closed

\* The owner that findForTokenContext looks for, if there is one.
Context(r) ==
    IF request[r].org # NoOrg THEN FindByOrganizationId(request[r].org)
    ELSE FindByUserId(Tokens[request[r].token].user)

\* 401, 403 and errors change nothing.
FindOwner(r) ==
    /\ At(r, "owner")
    /\ IF /\ Context(r) # {}
          /\ Authorized(request[r].call, Tokens[request[r].token].scopes)
       THEN request' = [request EXCEPT ![r].at = "body", ![r].owner = CHOOSE o \in Context(r) : TRUE]
       ELSE Finish(r)
    /\ UNCHANGED <<closed, rows, connected, queue, deletes, calls>>

-----------------------------------------------------------------------------
(* Reading *)

\* Mutant of InContext: the row is looked for by its id alone.
InContextById(i, owner) == Live(i)

\* The rows findByIdInContext and findAllInContext may return.
InContext(i, owner) == Live(i) /\ rows[i].owner = owner

\* index, and the counts made of the same rows.
Index(r) ==
    /\ At(r, "body")
    /\ request[r].call = "index"
    /\ Finish(r)
    /\ UNCHANGED <<closed, rows, connected, queue, deletes, calls>>

\* findByIdInContext, which throws where its callers expect null.
FindById(r, i, call, next) ==
    /\ At(r, "body")
    /\ request[r].call = call
    /\ IF ~InContext(i, request[r].owner) THEN Finish(r)
       ELSE request' = [request EXCEPT ![r].at = next, ![r].id = i, ![r].read = rows[i]]
    /\ UNCHANGED <<closed, rows, connected, queue, deletes, calls>>

Show(r, i) == FindById(r, i, "show", "answer")
ShowConnection(r, i) == FindById(r, i, "connection", "connection")
Update(r, i) == FindById(r, i, "update", "save")
MarkAsDeleting(r, i) == FindById(r, i, "destroy", "save")

\* getConnectionByDatabaseInstanceId: by the id of the instance, 404 if there
\* is none.
FindConnection(r) ==
    /\ At(r, "connection")
    /\ IF request[r].id \in connected THEN Goto(r, "answer") ELSE Finish(r)
    /\ UNCHANGED <<closed, rows, connected, queue, deletes, calls>>

Answer(r) ==
    /\ At(r, "answer")
    /\ Finish(r)
    /\ UNCHANGED <<closed, rows, connected, queue, deletes, calls>>

-----------------------------------------------------------------------------
(* Creating *)

\* findByStackName does not see the rows that are deleted.
TakenStack(s) == \E i \in DOMAIN rows : Live(i) /\ rows[i].stack = s

\* generateUniqueStackName: one of the names that are not found.
DrawStack(r, name, s) ==
    /\ At(r, "body")
    /\ request[r].call = "store"
    /\ ~TakenStack(s)
    /\ request' = [request EXCEPT ![r].at = "insert", ![r].data = name,
                                  ![r].read.stack = s]
    /\ UNCHANGED <<closed, rows, connected, queue, deletes, calls>>

\* unique(stack_name) and unique(owner_id, name) count the deleted rows.
Unique(row) ==
    \A i \in DOMAIN rows :
        /\ rows[i].stack # row.stack
        /\ rows[i].owner # row.owner \/ rows[i].name # row.name

\* createInContext of the manager and of the repository.
NewRow(r) == [owner |-> request[r].owner, name |-> request[r].data,
              stack |-> request[r].read.stack, status |-> "PROVISIONING",
              deleted |-> FALSE]

Insert(r) ==
    /\ At(r, "insert")
    /\ Len(rows) < MaxRows
    /\ IF Unique(NewRow(r))
       THEN /\ rows' = Append(rows, NewRow(r))
            /\ deletes' = Append(deletes, 0)
            /\ request' = [request EXCEPT ![r].at = "dispatch",
                                          ![r].id = Len(rows) + 1]
       ELSE Finish(r) /\ UNCHANGED <<rows, deletes>>
    /\ UNCHANGED <<closed, connected, queue, calls>>

-----------------------------------------------------------------------------
(* Updating and deleting *)

\* Mutant of Saved: the whole row is written as it was read.
SavedWhole(r, name) ==
    IF request[r].call = "update" THEN [request[r].read EXCEPT !.name = name]
    ELSE [request[r].read EXCEPT !.status = "DELETING"]

\* merge and save: only what differs from the row that was read is written,
\* over whatever the row has become.
Saved(r, name) ==
    LET old == request[r].read
        now == rows[request[r].id] IN
    IF request[r].call = "update"
    THEN IF name # old.name THEN [now EXCEPT !.name = name] ELSE now
    ELSE IF old.status # "DELETING" THEN [now EXCEPT !.status = "DELETING"] ELSE now

\* updateInContext of the repository, after its findByIdInContext.
Save(r, name) ==
    LET i == request[r].id
        new == Saved(r, name) IN
    /\ At(r, "save")
    /\ IF \A j \in DOMAIN rows \ {i} : rows[j].owner # new.owner \/ rows[j].name # new.name
       THEN /\ rows' = [rows EXCEPT ![i] = new]
            /\ deletes' = IF request[r].call = "destroy"
                          THEN [deletes EXCEPT ![i] = @ + 1] ELSE deletes
            /\ Goto(r, "dispatch")
       ELSE Finish(r) /\ UNCHANGED <<rows, deletes>>
    /\ UNCHANGED <<closed, connected, queue, calls>>

\* dispatchCreate, dispatchUpdate and dispatchDelete
Dispatch(r) ==
    /\ At(r, "dispatch")
    /\ queue' = Append(queue, [kind |-> request[r].call, row |-> request[r].id])
    /\ Finish(r)
    /\ UNCHANGED <<closed, rows, connected, deletes, calls>>

\* A database call of a request fails, or the process dies.
RequestFails(r) ==
    /\ ~At(r, "idle")
    /\ Finish(r)
    /\ UNCHANGED <<closed, rows, connected, queue, deletes, calls>>

-----------------------------------------------------------------------------
(* What else happens to the rows *)

Job == Head(queue)
Works(kind) == queue # <<>> /\ Job.kind = kind

\* A create job reserves a port and writes how far it is.
JobProgresses(status) ==
    /\ Works("store") /\ Live(Job.row)
    /\ rows' = [rows EXCEPT ![Job.row].status = status]
    /\ connected' = connected \cup {Job.row}
    /\ UNCHANGED <<closed, queue, request, deletes, calls>>

\* softDeleteDatabase: the status, then the row, in two statements.
JobMarksDeleted ==
    /\ Works("destroy") /\ Live(Job.row) /\ rows[Job.row].status # "DELETED"
    /\ rows' = [rows EXCEPT ![Job.row].status = "DELETED"]
    /\ queue' = [queue EXCEPT ![1].kind = "destroy row"]
    /\ UNCHANGED <<closed, connected, request, deletes, calls>>

JobDeletes ==
    /\ Works("destroy row")
    /\ rows' = [rows EXCEPT ![Job.row].deleted = TRUE]
    /\ queue' = Tail(queue)
    /\ UNCHANGED <<closed, connected, request, deletes, calls>>

\* A job ends, well or not.
JobEnds ==
    /\ queue # <<>>
    /\ queue' = Tail(queue)
    /\ UNCHANGED <<closed, rows, connected, request, deletes, calls>>

\* OrganizationService.destroy: its tokens and its instances stay.
CloseOrganization(o) ==
    /\ o \notin closed
    /\ closed' = closed \cup {o}
    /\ UNCHANGED <<rows, connected, queue, request, deletes, calls>>

-----------------------------------------------------------------------------
Organizations == {Tokens[t].org : t \in DOMAIN Tokens} \ {NoOrg}

Init ==
    /\ closed = {}
    /\ rows = <<>> /\ connected = {} /\ queue = <<>>
    /\ request = [r \in Request |-> Idle]
    /\ deletes = <<>> /\ calls = 0

RequestStep(r) ==
    \/ \E t \in DOMAIN Tokens, call \in Calls : ValidateAccessToken(r, t, call)
    \/ FindOwner(r)
    \/ Index(r) \/ FindConnection(r) \/ Answer(r)
    \/ \E i \in 1 .. MaxRows :
          Show(r, i) \/ ShowConnection(r, i) \/ Update(r, i) \/ MarkAsDeleting(r, i)
    \/ \E name \in Name, s \in Stack : DrawStack(r, name, s)
    \/ Insert(r)
    \/ \E name \in Name : Save(r, name)
    \/ Dispatch(r) \/ RequestFails(r)

Environment ==
    \/ \E status \in {"DEPLOYING", "RUNNING", "FAILED"} : JobProgresses(status)
    \/ JobMarksDeleted \/ JobDeletes \/ JobEnds
    \/ \E o \in Organizations : CloseOrganization(o)

Next == (\E r \in Request : RequestStep(r)) \/ Environment

Spec == Init /\ [][Next]_vars

-----------------------------------------------------------------------------
TypeOK ==
    /\ closed \subseteq Organizations
    /\ rows \in Seq(InstanceRow) /\ Len(rows) <= MaxRows /\ Len(deletes) = Len(rows)
    /\ connected \subseteq DOMAIN rows
    /\ \A k \in DOMAIN queue : queue[k].row \in DOMAIN rows
    /\ \A r \in Request :
          /\ request[r].at \in {"idle", "owner", "body", "connection", "answer",
                                "insert", "save", "dispatch"}
          /\ request[r].id \in 0 .. Len(rows)
          /\ request[r].owner \in HasOwner \cup {NoOwner}
=============================================================================
