---------------------------- MODULE InstanceOwners ----------------------------
(***************************************************************************)
(* Who may do what with a database instance, and what the API promises of  *)
(* the rows its requests work on: InstanceApi is how they come to them.    *)
(***************************************************************************)
EXTENDS Integers

CONSTANTS
    Request,    \* requests the server runs at the same time
    Tokens,     \* access tokens: [user, org, scopes]
    NoOrg       \* the organization of a token without one

VARIABLES
    closed,     \* organizations that are soft-deleted
    rows,       \* rows of database_instances, the soft-deleted ones included
    request,    \* what each request is doing
    deletes     \* history: deletions saved, by row

-----------------------------------------------------------------------------
(* The routes of /api/v1 on an instance, by what they are allowed to do.     *)

\* The metrics, the logs and the query insights begin like show; a certificate
\* is looked for like a connection, and then in S3.
Shows == {"show", "connection"}
Saves == {"update", "destroy"}
Calls == Shows \cup Saves \cup {"index", "store"}

\* ApiDatabaseScopePolicy
MayRead(scopes) == scopes \cap {"database:read", "database:write", "database:admin"} # {}
MayWrite(scopes) == scopes \cap {"database:write", "database:admin"} # {}

\* authorize('write') is asked of a destroy too.
Authorized(call, scopes) ==
    IF call \in Shows \cup {"index"} THEN MayRead(scopes) ELSE MayWrite(scopes)

-----------------------------------------------------------------------------
\* "Ownership is handled automatically by token context": whatever ends or is
\* deleted while a request is on its way, the instance it answers about, saves
\* or dispatches a job for is one of the owner its token was issued for, or of
\* its user once that organization is deleted; and its scopes are those that the
\* controller asks for (of a deletion, no more than of an update: DeletionsNeedAdmin).
RequestsKeepToTheirContext ==
    \A r \in Request :
        LET t == Tokens[request[r].token] IN
        request[r].id # 0 =>
            /\ \/ rows[request[r].id].owner = t.org
               \/ rows[request[r].id].owner = t.user /\ t.org \in closed \cup {NoOrg}
            /\ Authorized(request[r].call, t.scopes)

\* database_instances_controller.ts:129 answers a deletion with "403 - Insufficient
\* permissions (admin required)": one that has come to its instance has that scope.
DeletionsNeedAdmin ==
    \A r \in Request :
        request[r].id # 0 /\ request[r].call = "destroy"
            => "database:admin" \in Tokens[request[r].token].scopes

\* Neither an update under way nor a job leaves anything but DELETED in a row
\* that is soft-deleted; only a second deletion, saved between the two writes of
\* the first one's job, does.
DeletedRowsSayDeleted ==
    \A i \in DOMAIN rows :
        rows[i].deleted => rows[i].status = "DELETED" \/ deletes[i] > 1
=============================================================================
