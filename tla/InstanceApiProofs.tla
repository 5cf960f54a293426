--------------------------- MODULE InstanceApiProofs ---------------------------
(***************************************************************************)
(* Two facts about the requests on database instances, for any requests,   *)
(* tokens, owners, names and bounds: what a request works on belongs to    *)
(* the owner its token acts for, and a row that is soft-deleted says so;   *)
(* and the types of what requests know.                                    *)
(***************************************************************************)
EXTENDS InstanceApi, SequenceTheorems, TLAPS

-----------------------------------------------------------------------------
(* The invariant of the first one.                                          *)

\* A request is a record; what it has of a row it is about to insert has been
\* set.
RequestType(r) ==
    LET q == request[r] IN
    /\ q = [at |-> q.at, token |-> q.token, call |-> q.call, org |-> q.org,
            owner |-> q.owner, id |-> q.id, read |-> q.read, data |-> q.data]
    /\ q.at \in {"idle", "owner", "body", "connection", "answer", "insert", "save", "dispatch"}
    /\ q.at \in {"idle", "owner", "body"} => q.read = NoRow
    /\ q.at = "insert" => q.data \in Name /\ q.read.stack \in Stack

\* The organization of a request is that of its token, or none if that one was
\* deleted; its owner is that organization, or without one its user.
ActsFor(r) ==
    LET q == request[r]
        t == Tokens[q.token] IN
    /\ q.at # "idle" => q.org = t.org \/ (q.org = NoOrg /\ t.org \in closed)
    /\ q.at \notin {"idle", "owner"} =>
          /\ q.owner \in HasOwner
          /\ q.owner = IF q.org # NoOrg THEN q.org ELSE t.user
          /\ Authorized(q.call, t.scopes)

\* A row that a request works on is one of its owner.
WorksOnItsOwn(r) ==
    LET q == request[r] IN
    /\ q.at \in {"idle", "owner", "body", "insert"} => q.id = 0
    /\ q.id # 0 => q.id \in DOMAIN rows /\ rows[q.id].owner = q.owner
    /\ q.at \in {"connection", "save", "dispatch"} => q.id # 0

RequestInv(r) == RequestType(r) /\ ActsFor(r) /\ WorksOnItsOwn(r)

ContextInv ==
    /\ request = [r \in Request |-> request[r]]
    /\ rows \in Seq(InstanceRow)
    /\ \A r \in Request : RequestInv(r)

-----------------------------------------------------------------------------
(* What the steps have in common.                                           *)

\* An idle request is a record that is about nothing.
LEMMA IdleFacts ==
    /\ Idle.at = "idle" /\ Idle.id = 0 /\ Idle.read = NoRow
    /\ Idle = [at |-> Idle.at, token |-> Idle.token, call |-> Idle.call, org |-> Idle.org,
               owner |-> Idle.owner, id |-> Idle.id, read |-> Idle.read, data |-> Idle.data]
BY DEF Idle

\* An idle request works on nothing.
LEMMA IdleRequest ==
    ASSUME NEW r \in Request, request[r] = Idle
    PROVE  RequestInv(r)
<1>1. RequestType(r)
    BY IdleFacts DEF RequestType
<1>2. ActsFor(r)
    BY IdleFacts DEF ActsFor
<1>3. WorksOnItsOwn(r)
    BY IdleFacts DEF WorksOnItsOwn
<1> QED
    BY <1>1, <1>2, <1>3 DEF RequestInv

\* Rows stay where they are and with their owner, and no organization that was
\* deleted comes back.
NothingIsTaken ==
    /\ closed \subseteq closed'
    /\ \A i \in DOMAIN rows : i \in DOMAIN rows' /\ rows'[i].owner = rows[i].owner

\* A step of others does not disturb a request.
LEMMA OthersKeep ==
    ASSUME NEW r \in Request, RequestInv(r), NothingIsTaken, request'[r] = request[r]
    PROVE  RequestInv(r)'
BY DEF NothingIsTaken, RequestInv, RequestType, ActsFor, WorksOnItsOwn

\* Nor does a save change the owner, or any row but the one it is about.
LEMMA SaveKeepsOwner ==
    ASSUME NEW r \in Request, NEW name \in Name, rows \in Seq(InstanceRow),
           request[r].id \in DOMAIN rows
    PROVE  /\ Saved(r, name) \in InstanceRow
           /\ Saved(r, name).owner = rows[request[r].id].owner
<1> DEFINE now == rows[request[r].id]
<1>1. now \in InstanceRow
    OBVIOUS
<1>2. [now EXCEPT !.name = name] \in InstanceRow /\ [now EXCEPT !.name = name].owner = now.owner
    BY <1>1 DEF InstanceRow
<1>3. /\ [now EXCEPT !.status = "DELETING"] \in InstanceRow
      /\ [now EXCEPT !.status = "DELETING"].owner = now.owner
    BY <1>1 DEF InstanceRow
<1> QED
    BY <1>1, <1>2, <1>3 DEF Saved

\* It holds before the first request.
LEMMA ContextInvHolds == Init => ContextInv
<1> SUFFICES ASSUME Init PROVE ContextInv
    OBVIOUS
<1>1. \A r \in Request : RequestInv(r)
    BY IdleRequest DEF Init
<1> QED
    BY <1>1 DEF Init, ContextInv

\* A step that only a request makes, on itself.
OnlyOf(r) ==
    /\ request' = [q \in Request |-> request'[q]]
    /\ \A q \in Request \ {r} : request'[q] = request[q]

\* A step of one request keeps the invariant if it keeps that request's part.
LEMMA OneRequest ==
    ASSUME ContextInv, NEW r \in Request, OnlyOf(r), RequestInv(r)', NothingIsTaken,
           rows' \in Seq(InstanceRow)
    PROVE  ContextInv'
<1>1. \A q \in Request : RequestInv(q)'
    BY OthersKeep DEF OnlyOf, ContextInv
<1> QED
    BY <1>1 DEF ContextInv, OnlyOf

\* A step that leaves the requests alone keeps it too.
LEMMA NoRequest ==
    ASSUME ContextInv, UNCHANGED request, NothingIsTaken, rows' \in Seq(InstanceRow)
    PROVE  ContextInv'
BY OthersKeep DEF ContextInv

\* The answer is sent.
LEMMA FinishKeeps ==
    ASSUME ContextInv, NEW r \in Request, Finish(r), UNCHANGED <<closed, rows>>
    PROVE  ContextInv'
<1>1. OnlyOf(r) /\ request'[r] = Idle
    BY DEF Finish, OnlyOf, ContextInv
<1>2. RequestInv(r)'
  <2>1. RequestType(r)'
    BY <1>1, IdleFacts DEF RequestType
  <2>2. ActsFor(r)'
    BY <1>1, IdleFacts DEF ActsFor
  <2>3. WorksOnItsOwn(r)'
    BY <1>1, IdleFacts DEF WorksOnItsOwn
  <2> QED
    BY <2>1, <2>2, <2>3 DEF RequestInv
<1>3. NothingIsTaken
    BY DEF NothingIsTaken
<1> QED
    BY <1>1, <1>2, <1>3, OneRequest DEF ContextInv

-----------------------------------------------------------------------------
(* The steps of a request.                                                  *)

\* From the token to the organization, deleted or not.
LEMMA TokenKeeps ==
    ASSUME ContextInv, NEW r \in Request, NEW t \in DOMAIN Tokens, NEW call \in Calls,
           ValidateAccessToken(r, t, call)
    PROVE  ContextInv'
<1> DEFINE org == IF Tokens[t].org \in closed THEN NoOrg ELSE Tokens[t].org
<1>1. OnlyOf(r) /\ request'[r] = [Idle EXCEPT !.at = "owner", !.token = t, !.call = call,
                                              !.org = org]
    BY DEF ValidateAccessToken, OnlyOf, ContextInv
<1> HIDE DEF org
<1>2. /\ request'[r].at = "owner" /\ request'[r].token = t /\ request'[r].id = 0
      /\ request'[r].read = NoRow /\ request'[r].org = org
    BY <1>1 DEF Idle
<1>3. UNCHANGED <<closed, rows>>
    BY DEF ValidateAccessToken
<1>4. RequestInv(r)'
  <2>1. RequestType(r)'
    BY <1>1, <1>2 DEF RequestType, Idle
  <2>2. ActsFor(r)'
    BY <1>2, <1>3 DEF ActsFor, org
  <2>3. WorksOnItsOwn(r)'
    BY <1>2 DEF WorksOnItsOwn
  <2> QED
    BY <2>1, <2>2, <2>3 DEF RequestInv
<1> QED
    BY <1>1, <1>3, <1>4, OneRequest DEF NothingIsTaken, ContextInv

\* From the organization to the owner.
LEMMA OwnerKeeps ==
    ASSUME ContextInv, NEW r \in Request, FindOwner(r)
    PROVE  ContextInv'
<1> DEFINE o == CHOOSE x \in Context(r) : TRUE
<1>1. UNCHANGED <<closed, rows>> /\ request[r].at = "owner" /\ RequestInv(r)
    BY DEF FindOwner, At, ContextInv
<1>2. CASE Finish(r)
    BY <1>1, <1>2, FinishKeeps
<1>3. CASE /\ Context(r) # {} /\ Authorized(request[r].call, Tokens[request[r].token].scopes)
           /\ request' = [request EXCEPT ![r].at = "body", ![r].owner = o]
  <2>1. o \in Context(r)
    BY <1>3
  <2>2. /\ o \in HasOwner
        /\ o = IF request[r].org # NoOrg THEN request[r].org
               ELSE Tokens[request[r].token].user
    BY <2>1 DEF Context, FindByOrganizationId, FindByUserId
  <2> HIDE DEF o
  <2>3. OnlyOf(r) /\ request'[r] = [request[r] EXCEPT !.at = "body", !.owner = o]
    BY <1>3 DEF OnlyOf, ContextInv
  <2>4. RequestType(r)'
    BY <1>1, <2>3 DEF RequestInv, RequestType
  <2>. /\ request'[r].at = "body" /\ request'[r].owner = o
       /\ request'[r].org = request[r].org /\ request'[r].token = request[r].token
       /\ request'[r].call = request[r].call
    BY <1>1, <2>3 DEF RequestInv, RequestType
  <2>5. ActsFor(r)'
    BY <1>1, <1>3, <2>2 DEF RequestInv, ActsFor
  <2>6. WorksOnItsOwn(r)'
    BY <1>1, <2>3 DEF RequestInv, RequestType, WorksOnItsOwn
  <2> QED
    BY <1>1, <2>3, <2>4, <2>5, <2>6, OneRequest DEF NothingIsTaken, ContextInv, RequestInv
<1> QED
    BY <1>2, <1>3 DEF FindOwner
\* A row is found, and it is the owner's, or the request is over.
LEMMA FindKeeps ==
    ASSUME ContextInv, NEW r \in Request, NEW i \in 1 .. MaxRows, NEW call,
           NEW next \in {"answer", "connection", "save"}, FindById(r, i, call, next)
    PROVE  ContextInv'
<1>1. UNCHANGED <<closed, rows>> /\ request[r].at = "body" /\ RequestInv(r)
    BY DEF FindById, At, ContextInv
<1>2. CASE Finish(r)
    BY <1>1, <1>2, FinishKeeps
<1>3. CASE /\ InContext(i, request[r].owner)
           /\ request' = [request EXCEPT ![r].at = next, ![r].id = i, ![r].read = rows[i]]
  <2>1. OnlyOf(r) /\ request'[r] = [request[r] EXCEPT !.at = next, !.id = i, !.read = rows[i]]
    BY <1>3 DEF OnlyOf, ContextInv
  <2>2. i \in DOMAIN rows /\ rows[i].owner = request[r].owner /\ i # 0
    BY <1>3 DEF InContext, Live
  <2>3. RequestType(r)'
    BY <1>1, <2>1 DEF RequestInv, RequestType
  <2>4. /\ request'[r].at = next /\ request'[r].id = i
        /\ request'[r].owner = request[r].owner /\ request'[r].token = request[r].token
        /\ request'[r].call = request[r].call /\ request'[r].org = request[r].org
    BY <1>1, <2>1 DEF RequestInv, RequestType
  <2>5. ActsFor(r)'
    BY <1>1, <2>4 DEF RequestInv, ActsFor
  <2>6. WorksOnItsOwn(r)'
    BY <1>1, <2>2, <2>4 DEF WorksOnItsOwn
  <2> QED
    BY <1>1, <2>1, <2>3, <2>5, <2>6, OneRequest DEF NothingIsTaken, ContextInv, RequestInv
<1> QED
    BY <1>2, <1>3 DEF FindById

\* A request with a row goes on with the same row.
LEMMA GotoKeeps ==
    ASSUME ContextInv, NEW r \in Request, NEW place \in {"answer", "dispatch"},
           Goto(r, place), request[r].at \in {"connection", "save"}, request[r].id # 0,
           NothingIsTaken, rows' \in Seq(InstanceRow)
    PROVE  ContextInv'
<1>1. RequestInv(r)
    BY DEF ContextInv
<1>2. OnlyOf(r) /\ request'[r] = [request[r] EXCEPT !.at = place]
    BY DEF Goto, OnlyOf, ContextInv
<1>3. RequestType(r)'
    BY <1>1, <1>2 DEF RequestInv, RequestType
<1>4. /\ request'[r].at = place /\ request'[r].id = request[r].id
      /\ request'[r].owner = request[r].owner /\ request'[r].token = request[r].token
      /\ request'[r].call = request[r].call /\ request'[r].org = request[r].org
    BY <1>1, <1>2 DEF RequestInv, RequestType
<1>5. ActsFor(r)'
    BY <1>1, <1>4 DEF RequestInv, ActsFor, NothingIsTaken
<1>6. WorksOnItsOwn(r)'
    BY <1>1, <1>4 DEF RequestInv, WorksOnItsOwn, NothingIsTaken
<1> QED
    BY <1>2, <1>3, <1>5, <1>6, OneRequest DEF RequestInv

\* A stack name is drawn for a row of the owner.
LEMMA DrawKeeps ==
    ASSUME ContextInv, NEW r \in Request, NEW name \in Name, NEW s \in Stack,
           DrawStack(r, name, s)
    PROVE  ContextInv'
<1>1. UNCHANGED <<closed, rows>> /\ request[r].at = "body" /\ RequestInv(r)
    BY DEF DrawStack, At, ContextInv
<1>2. OnlyOf(r) /\ request'[r] = [request[r] EXCEPT !.at = "insert", !.data = name,
                                                    !.read.stack = s]
    BY DEF DrawStack, OnlyOf, ContextInv
<1>3. /\ request'[r].at = "insert" /\ request'[r].id = request[r].id
      /\ request'[r].data = name /\ request'[r].read.stack = s
      /\ request'[r].owner = request[r].owner /\ request'[r].token = request[r].token
      /\ request'[r].call = request[r].call /\ request'[r].org = request[r].org
    BY <1>1, <1>2 DEF RequestInv, RequestType, NoRow
<1>4. RequestType(r)'
    BY <1>1, <1>2, <1>3 DEF RequestInv, RequestType
<1>5. ActsFor(r)'
    BY <1>1, <1>3 DEF RequestInv, ActsFor
<1>6. WorksOnItsOwn(r)'
    BY <1>1, <1>3 DEF RequestInv, WorksOnItsOwn
<1> QED
    BY <1>1, <1>2, <1>4, <1>5, <1>6, OneRequest DEF NothingIsTaken, ContextInv, RequestInv

\* The new row is one of the owner, and the request works on it.
LEMMA InsertKeeps ==
    ASSUME ContextInv, NEW r \in Request, Insert(r)
    PROVE  ContextInv'
<1>1. UNCHANGED closed /\ request[r].at = "insert" /\ RequestInv(r)
    BY DEF Insert, At, ContextInv
<1>2. CASE Finish(r) /\ UNCHANGED rows
    BY <1>1, <1>2, FinishKeeps
<1>3. CASE /\ rows' = Append(rows, NewRow(r))
           /\ request' = [request EXCEPT ![r].at = "dispatch", ![r].id = Len(rows) + 1]
  <2>1. NewRow(r) \in InstanceRow /\ NewRow(r).owner = request[r].owner
    BY <1>1 DEF NewRow, InstanceRow, RequestInv, RequestType, ActsFor
  <2>2. /\ rows' \in Seq(InstanceRow) /\ NothingIsTaken
        /\ Len(rows) + 1 \in DOMAIN rows' /\ Len(rows) + 1 # 0
        /\ rows'[Len(rows) + 1] = NewRow(r)
    BY <1>1, <1>3, <2>1 DEF ContextInv, NothingIsTaken
  <2>3. OnlyOf(r) /\ request'[r] = [request[r] EXCEPT !.at = "dispatch", !.id = Len(rows) + 1]
    BY <1>3 DEF OnlyOf, ContextInv
  <2>4. /\ request'[r].at = "dispatch" /\ request'[r].id = Len(rows) + 1
        /\ request'[r].owner = request[r].owner /\ request'[r].token = request[r].token
        /\ request'[r].call = request[r].call /\ request'[r].org = request[r].org
    BY <1>1, <2>3 DEF RequestInv, RequestType
  <2>5. RequestType(r)'
    BY <1>1, <2>3 DEF RequestInv, RequestType
  <2>6. ActsFor(r)'
    BY <1>1, <2>4 DEF RequestInv, ActsFor
  <2>7. WorksOnItsOwn(r)'
    BY <2>1, <2>2, <2>4 DEF WorksOnItsOwn
  <2> QED
    BY <2>2, <2>3, <2>5, <2>6, <2>7, OneRequest DEF RequestInv
<1> QED
    BY <1>2, <1>3 DEF Insert
\* The row that is saved is the one that was found, and stays its owner's.
LEMMA SaveKeeps ==
    ASSUME ContextInv, NEW r \in Request, NEW name \in Name, Save(r, name)
    PROVE  ContextInv'
<1> DEFINE i == request[r].id
<1>1. UNCHANGED closed /\ request[r].at = "save" /\ i # 0 /\ i \in DOMAIN rows
    BY DEF Save, At, ContextInv, RequestInv, WorksOnItsOwn
<1>2. CASE Finish(r) /\ UNCHANGED rows
    BY <1>1, <1>2, FinishKeeps
<1>3. CASE rows' = [rows EXCEPT ![i] = Saved(r, name)] /\ Goto(r, "dispatch")
  <2>1. rows' \in Seq(InstanceRow) /\ NothingIsTaken
    BY <1>1, <1>3, SaveKeepsOwner DEF ContextInv, NothingIsTaken
  <2> QED
    BY <1>1, <1>3, <2>1, GotoKeeps
<1> QED
    BY <1>2, <1>3 DEF Save

-----------------------------------------------------------------------------
(* The steps of the jobs and of the organizations, and all together.        *)

\* What a job writes into a row is not its owner.
LEMMA FieldKeepsOwner ==
    ASSUME rows \in Seq(InstanceRow), NEW i, UNCHANGED closed,
           \/ \E status \in {"DEPLOYING", "RUNNING", "FAILED", "DELETED"} :
                 rows' = [rows EXCEPT ![i].status = status]
           \/ rows' = [rows EXCEPT ![i].deleted = TRUE]
    PROVE  rows' \in Seq(InstanceRow) /\ NothingIsTaken
<1>1. CASE i \notin DOMAIN rows
    BY <1>1 DEF NothingIsTaken
<1>2. CASE i \in DOMAIN rows
  <2>0. rows[i] \in InstanceRow
    BY <1>2
  <2>1. ASSUME NEW status \in {"DEPLOYING", "RUNNING", "FAILED", "DELETED"}, NEW row \in InstanceRow
        PROVE  /\ [row EXCEPT !.status = status] \in InstanceRow
               /\ [row EXCEPT !.status = status].owner = row.owner
    BY DEF InstanceRow
  <2>2. ASSUME NEW row \in InstanceRow
        PROVE  /\ [row EXCEPT !.deleted = TRUE] \in InstanceRow
               /\ [row EXCEPT !.deleted = TRUE].owner = row.owner
    BY DEF InstanceRow
  <2>3. PICK new \in InstanceRow : /\ rows' = [rows EXCEPT ![i] = new]
                                   /\ new.owner = rows[i].owner
    <3>1. ASSUME NEW status \in {"DEPLOYING", "RUNNING", "FAILED", "DELETED"},
                 rows' = [rows EXCEPT ![i].status = status]
          PROVE  \E new \in InstanceRow : /\ rows' = [rows EXCEPT ![i] = new]
                                           /\ new.owner = rows[i].owner
      <4> DEFINE new == [rows[i] EXCEPT !.status = status]
      <4>1. rows' = [rows EXCEPT ![i] = new]
        BY <3>1
      <4>2. new \in InstanceRow /\ new.owner = rows[i].owner
        BY <2>0, <2>1
      <4> QED
        BY <4>1, <4>2
    <3>2. CASE rows' = [rows EXCEPT ![i].deleted = TRUE]
      <4> DEFINE new == [rows[i] EXCEPT !.deleted = TRUE]
      <4>1. rows' = [rows EXCEPT ![i] = new]
        BY <3>2
      <4>2. new \in InstanceRow /\ new.owner = rows[i].owner
        BY <2>0, <2>2
      <4> QED
        BY <4>1, <4>2
    <3> QED
      BY <3>1, <3>2
  <2> QED
    BY <1>2, <2>3 DEF NothingIsTaken
<1> QED
    BY <1>1, <1>2

\* The jobs and the organizations.
LEMMA EnvironmentKeeps ==
    ASSUME ContextInv, Environment
    PROVE  ContextInv'
<1>1. ASSUME NEW status \in {"DEPLOYING", "RUNNING", "FAILED"}, JobProgresses(status)
      PROVE  ContextInv'
    BY <1>1, FieldKeepsOwner, NoRequest DEF JobProgresses, ContextInv
<1>2. CASE JobMarksDeleted
    BY <1>2, FieldKeepsOwner, NoRequest DEF JobMarksDeleted, ContextInv
<1>3. CASE JobDeletes
    BY <1>3, FieldKeepsOwner, NoRequest DEF JobDeletes, ContextInv
<1>4. CASE JobEnds
    BY <1>4, NoRequest DEF JobEnds, ContextInv, NothingIsTaken
<1>5. ASSUME NEW o \in Organizations, CloseOrganization(o)
      PROVE  ContextInv'
    BY <1>5, NoRequest DEF CloseOrganization, ContextInv, NothingIsTaken
<1> QED
    BY <1>1, <1>2, <1>3, <1>4, <1>5 DEF Environment

\* Every step keeps the invariant.
LEMMA ContextInvInductive == ContextInv /\ [Next]_vars => ContextInv'
<1> SUFFICES ASSUME ContextInv, [Next]_vars PROVE ContextInv'
    OBVIOUS
<1>1. ASSUME NEW r \in Request, RequestStep(r) PROVE ContextInv'
  <2>1. ASSUME NEW t \in DOMAIN Tokens, NEW call \in Calls, ValidateAccessToken(r, t, call)
        PROVE  ContextInv'
    BY <2>1, TokenKeeps
  <2>2. CASE FindOwner(r)
    BY <2>2, OwnerKeeps
  <2>3. CASE Index(r)
    BY <2>3, FinishKeeps DEF Index
  <2>4. CASE FindConnection(r)
    <3>1. At(r, "connection") /\ UNCHANGED <<closed, rows>>
      BY <2>4 DEF FindConnection
    <3>2. CASE Finish(r)
      BY <3>1, <3>2, FinishKeeps
    <3>3. CASE request[r].id \in connected /\ Goto(r, "answer")
      <4>1. request[r].id # 0
        BY <3>1 DEF At, ContextInv, RequestInv, WorksOnItsOwn
      <4> QED
        BY <3>1, <3>3, <4>1, GotoKeeps DEF At, NothingIsTaken, ContextInv
    <3> QED
      BY <2>4, <3>2, <3>3 DEF FindConnection
  <2>5. CASE Answer(r)
    BY <2>5, FinishKeeps DEF Answer
  <2>6. ASSUME NEW i \in 1 .. MaxRows,
               Show(r, i) \/ ShowConnection(r, i) \/ Update(r, i) \/ MarkAsDeleting(r, i)
        PROVE  ContextInv'
    BY <2>6, FindKeeps DEF Show, ShowConnection, Update, MarkAsDeleting
  <2>7. ASSUME NEW name \in Name, NEW s \in Stack, DrawStack(r, name, s) PROVE ContextInv'
    BY <2>7, DrawKeeps
  <2>8. CASE Insert(r)
    BY <2>8, InsertKeeps
  <2>9. ASSUME NEW name \in Name, Save(r, name) PROVE ContextInv'
    BY <2>9, SaveKeeps
  <2>10. CASE Dispatch(r)
    BY <2>10, FinishKeeps DEF Dispatch
  <2>11. CASE RequestFails(r)
    BY <2>11, FinishKeeps DEF RequestFails
  <2> QED
    BY <1>1, <2>1, <2>2, <2>3, <2>4, <2>5, <2>6, <2>7, <2>8, <2>9, <2>10, <2>11
    DEF RequestStep
<1>2. CASE Environment
    BY <1>2, EnvironmentKeeps
<1>3. CASE UNCHANGED vars
    BY <1>3, NoRequest DEF vars, ContextInv, NothingIsTaken
<1> QED
    BY <1>1, <1>2, <1>3 DEF Next

\* Whatever ends or is deleted while a request is on its way, the instance it
\* answers about, saves or dispatches a job for is one of the owner its token
\* was issued for, or of its user once that organization is deleted.
THEOREM ContextIsKept == Spec => []RequestsKeepToTheirContext
<1>1. ContextInv => RequestsKeepToTheirContext
  <2> SUFFICES ASSUME ContextInv, NEW r \in Request, request[r].id # 0
               PROVE  LET t == Tokens[request[r].token] IN
                      /\ \/ rows[request[r].id].owner = t.org
                         \/ rows[request[r].id].owner = t.user /\ t.org \in closed \cup {NoOrg}
                      /\ Authorized(request[r].call, t.scopes)
    BY DEF RequestsKeepToTheirContext
  <2>1. RequestInv(r) /\ request[r].at \notin {"idle", "owner"}
    BY DEF ContextInv, RequestInv, WorksOnItsOwn
  <2> QED
    BY <2>1 DEF RequestInv, ActsFor, WorksOnItsOwn
<1> QED
    BY <1>1, ContextInvHolds, ContextInvInductive, PTL DEF Spec

-----------------------------------------------------------------------------
(* The invariant of the second one, on top of the first.                    *)

JobType == [kind : Calls \cup {"destroy row"}, row : Nat]

\* The job of a deletion is about a row that a deletion was saved for; the one
\* that has written the status is the one at work.
JobInv(k) ==
    LET j == queue[k] IN
    /\ j.row \in DOMAIN rows
    /\ j.kind \in {"destroy", "destroy row"} => deletes[j.row] >= 1
    /\ j.kind = "destroy row" =>
          k = 1 /\ (rows[j.row].status = "DELETED" \/ deletes[j.row] > 1)

\* Only some calls come to some places.
CallInv(r) ==
    /\ request[r].at # "idle" => request[r].call \in Calls
    /\ request[r].at = "insert" => request[r].call = "store"
    /\ request[r].at = "save" => request[r].call \in Saves

\* The same of a deletion that is about to be dispatched.
DispatchInv(r) ==
    /\ CallInv(r)
    /\ request[r].at = "dispatch" /\ request[r].call = "destroy" =>
          deletes[request[r].id] >= 1

\* No row is deleted, or says so, that no deletion was saved for.
RowInv(i) ==
    /\ rows[i].status = "DELETED" => deletes[i] >= 1
    /\ rows[i].deleted => deletes[i] >= 1
    /\ rows[i].deleted => rows[i].status = "DELETED" \/ deletes[i] > 1

DeletionInv ==
    /\ deletes \in Seq(Nat) /\ Len(deletes) = Len(rows)
    /\ queue \in Seq(JobType)
    /\ \A k \in DOMAIN queue : JobInv(k)
    /\ \A r \in Request : DispatchInv(r)
    /\ \A i \in DOMAIN rows : RowInv(i)

\* It holds before the first request.
LEMMA DeletionInvHolds == Init => DeletionInv
<1> SUFFICES ASSUME Init PROVE DeletionInv
    OBVIOUS
<1>1. \A r \in Request : DispatchInv(r)
    BY IdleFacts DEF Init, DispatchInv, CallInv
<1>2. deletes \in Seq(Nat) /\ queue \in Seq(JobType) /\ Len(deletes) = Len(rows)
    BY DEF Init
<1>3. (\A k \in DOMAIN queue : JobInv(k)) /\ (\A i \in DOMAIN rows : RowInv(i))
    BY DEF Init
<1> QED
    BY <1>1, <1>2, <1>3 DEF DeletionInv

\* A step of a request that changes nothing else, and does not bring it to the
\* dispatch.
LEMMA QuietStep ==
    ASSUME DeletionInv, UNCHANGED <<rows, deletes, queue>>,
           \A r \in Request : \/ request'[r] = request[r]
                              \/ request'[r].at # "dispatch" /\ CallInv(r)'
    PROVE  DeletionInv'
<1>1. \A r \in Request : DispatchInv(r)'
    BY DEF DeletionInv, DispatchInv, CallInv
<1>2. \A k \in DOMAIN queue' : JobInv(k)'
    BY DEF DeletionInv, JobInv
<1>3. \A i \in DOMAIN rows' : RowInv(i)'
    BY DEF DeletionInv, RowInv
<1> QED
    BY <1>1, <1>2, <1>3 DEF DeletionInv

\* The answer is sent.
LEMMA FinishIsQuiet ==
    ASSUME ContextInv, DeletionInv, NEW r \in Request, Finish(r),
           UNCHANGED <<rows, deletes, queue>>
    PROVE  DeletionInv'
<1>1. \A q \in Request : request'[q] = request[q] \/ request'[q] = Idle
    BY DEF Finish, ContextInv
<1> QED
    BY <1>1, IdleFacts, QuietStep DEF CallInv

-----------------------------------------------------------------------------
(* The steps that are not quiet.                                            *)

\* A new row has had no deletion, and neither says so.
LEMMA InsertKeepsDeletions ==
    ASSUME ContextInv, DeletionInv, NEW r \in Request, Insert(r)
    PROVE  DeletionInv'
<1>1. CASE Finish(r) /\ UNCHANGED <<rows, deletes>>
    BY <1>1, FinishIsQuiet DEF Insert
<1>2. CASE /\ rows' = Append(rows, NewRow(r)) /\ deletes' = Append(deletes, 0)
           /\ request' = [request EXCEPT ![r].at = "dispatch", ![r].id = Len(rows) + 1]
  <2>1. UNCHANGED queue /\ RequestInv(r) /\ request[r].at = "insert"
    BY DEF Insert, At, ContextInv
  <2>2. rows \in Seq(InstanceRow) /\ deletes \in Seq(Nat) /\ Len(deletes) = Len(rows)
    BY DEF ContextInv, DeletionInv
  <2>3. /\ NewRow(r) \in InstanceRow /\ NewRow(r).status = "PROVISIONING"
        /\ NewRow(r).deleted = FALSE
    BY <2>1 DEF NewRow, InstanceRow, RequestInv, RequestType, ActsFor
  <2>4. /\ DOMAIN rows' = DOMAIN rows \cup {Len(rows) + 1}
        /\ \A i \in DOMAIN rows : rows'[i] = rows[i] /\ deletes'[i] = deletes[i]
        /\ rows'[Len(rows) + 1] = NewRow(r)
        /\ deletes' \in Seq(Nat) /\ Len(deletes') = Len(rows')
    BY <1>2, <2>2, <2>3
  <2>5. \A i \in DOMAIN rows' : RowInv(i)'
    BY <2>3, <2>4 DEF RowInv, DeletionInv
  <2>6. \A k \in DOMAIN queue' : JobInv(k)'
    BY <2>1, <2>4 DEF JobInv, DeletionInv
  <2>7. ASSUME NEW q \in Request PROVE DispatchInv(q)'
    <3>0. DispatchInv(q) /\ RequestInv(q)
      BY DEF DeletionInv, ContextInv
    <3>1. CASE q = r
      <4>1. request'[r] = [request[r] EXCEPT !.at = "dispatch", !.id = Len(rows) + 1]
        BY <1>2 DEF ContextInv
      <4>2. request'[r].at = "dispatch" /\ request'[r].call = "store"
        BY <2>1, <3>0, <3>1, <4>1 DEF RequestInv, RequestType, DispatchInv, CallInv
      <4> QED
        BY <3>1, <4>2 DEF DispatchInv, CallInv, Calls
    <3>2. CASE q # r
      BY <1>2, <2>4, <3>0, <3>2 DEF DispatchInv, CallInv, ContextInv, RequestInv, WorksOnItsOwn
    <3> QED
      BY <3>1, <3>2
  <2> QED
    BY <2>1, <2>4, <2>5, <2>6, <2>7 DEF DeletionInv
<1> QED
    BY <1>1, <1>2 DEF Insert

\* What is in a row after its status was written.
LEMMA StatusWritten ==
    ASSUME rows \in Seq(InstanceRow), NEW i \in DOMAIN rows, NEW status,
           rows' = [rows EXCEPT ![i].status = status]
    PROVE  /\ DOMAIN rows' = DOMAIN rows /\ Len(rows') = Len(rows)
           /\ \A j \in DOMAIN rows : j # i => rows'[j] = rows[j]
           /\ rows'[i].status = status
           /\ rows'[i].deleted = rows[i].deleted
<1>1. rows[i] \in InstanceRow
    OBVIOUS
<1>2. rows' = [rows EXCEPT ![i] = [rows[i] EXCEPT !.status = status]]
    OBVIOUS
<1>3. ASSUME NEW row \in InstanceRow
      PROVE  /\ [row EXCEPT !.status = status].status = status
             /\ [row EXCEPT !.status = status].deleted = row.deleted
    BY DEF InstanceRow
<1>4. rows'[i] = [rows[i] EXCEPT !.status = status]
    BY <1>2
<1>5. rows'[i].status = status /\ rows'[i].deleted = rows[i].deleted
    BY <1>1, <1>3, <1>4
<1> QED
    BY <1>2, <1>5

\* The job at work.
LEMMA HeadJob ==
    ASSUME DeletionInv, queue # <<>>
    PROVE  1 \in 1 .. Len(queue) /\ Job = queue[1] /\ queue[1] \in JobType /\ JobInv(1)
<1>1. queue \in Seq(JobType)
    BY DEF DeletionInv
<1>2. Len(queue) \in Nat \ {0} /\ DOMAIN queue = 1 .. Len(queue)
    BY <1>1, EmptySeq, LenProperties
<1>3. 1 \in 1 .. Len(queue)
    BY <1>2
<1>4. queue[1] \in JobType
    BY <1>1, <1>3, ElementOfSeq
<1>5. Head(queue) = queue[1]
    BY <1>1
<1> QED
    BY <1>2, <1>3, <1>4, <1>5 DEF DeletionInv, Job

\* The job of a creation writes over no deletion.
LEMMA ProgressKeepsDeletions ==
    ASSUME ContextInv, DeletionInv, NEW status \in {"DEPLOYING", "RUNNING", "FAILED"},
           JobProgresses(status)
    PROVE  DeletionInv'
<1> DEFINE x == Job.row
<1>1. /\ x \in DOMAIN rows /\ ~rows[x].deleted
      /\ rows' = [rows EXCEPT ![x].status = status]
      /\ UNCHANGED <<queue, request, deletes>>
      /\ queue # <<>> /\ Job.kind = "store"
    BY DEF JobProgresses, Live, Works
<1>2. Job = queue[1]
    BY <1>1, HeadJob
<1> HIDE DEF x
<1>3. /\ DOMAIN rows' = DOMAIN rows /\ Len(rows') = Len(rows)
      /\ \A j \in DOMAIN rows : j # x => rows'[j] = rows[j]
      /\ rows'[x].status = status /\ rows'[x].deleted = rows[x].deleted
    BY <1>1, StatusWritten DEF ContextInv
<1>4. ASSUME NEW i \in DOMAIN rows' PROVE RowInv(i)'
  <2>1. CASE i = x
    BY <1>1, <1>3, <2>1 DEF RowInv
  <2>2. CASE i # x
    BY <1>1, <1>3, <2>2 DEF RowInv, DeletionInv
  <2> QED
    BY <2>1, <2>2
<1>5. \A k \in DOMAIN queue' : JobInv(k)'
    BY <1>1, <1>2, <1>3 DEF JobInv, DeletionInv
<1>6. \A r \in Request : DispatchInv(r)'
    BY <1>1 DEF DispatchInv, CallInv, DeletionInv
<1> QED
    BY <1>1, <1>3, <1>4, <1>5, <1>6 DEF DeletionInv

\* The first write of a deletion.
LEMMA MarkKeepsDeletions ==
    ASSUME ContextInv, DeletionInv, JobMarksDeleted
    PROVE  DeletionInv'
<1> DEFINE x == Job.row
<1>1. /\ x \in DOMAIN rows
      /\ rows' = [rows EXCEPT ![x].status = "DELETED"]
      /\ queue' = [queue EXCEPT ![1].kind = "destroy row"]
      /\ UNCHANGED <<request, deletes>>
      /\ queue # <<>> /\ Job.kind = "destroy"
    BY DEF JobMarksDeleted, Live, Works
<1>2. /\ Job = queue[1] /\ 1 \in DOMAIN queue /\ queue[1] \in JobType
      /\ x = queue[1].row /\ deletes[x] >= 1
  <2>1. 1 \in 1 .. Len(queue) /\ Job = queue[1] /\ queue[1] \in JobType /\ JobInv(1)
    BY <1>1, HeadJob
  <2>2. DOMAIN queue = 1 .. Len(queue)
    BY LenProperties DEF DeletionInv
  <2> QED
    BY <1>1, <2>1, <2>2 DEF JobInv
<1> HIDE DEF x
<1>3. /\ DOMAIN rows' = DOMAIN rows /\ Len(rows') = Len(rows)
      /\ \A j \in DOMAIN rows : j # x => rows'[j] = rows[j]
      /\ rows'[x].status = "DELETED" /\ rows'[x].deleted = rows[x].deleted
    BY <1>1, StatusWritten DEF ContextInv
<1>4. /\ queue' \in Seq(JobType) /\ DOMAIN queue' = DOMAIN queue
      /\ queue'[1].row = x /\ queue'[1].kind = "destroy row"
      /\ \A k \in DOMAIN queue : k # 1 => queue'[k] = queue[k]
  <2>1. ASSUME NEW job \in JobType
        PROVE  /\ [job EXCEPT !.kind = "destroy row"] \in JobType
               /\ [job EXCEPT !.kind = "destroy row"].row = job.row
               /\ [job EXCEPT !.kind = "destroy row"].kind = "destroy row"
    BY DEF JobType
  <2>2. queue' = [queue EXCEPT ![1] = [queue[1] EXCEPT !.kind = "destroy row"]]
    BY <1>1
  <2>3. PICK new \in JobType : /\ queue' = [queue EXCEPT ![1] = new]
                               /\ new.row = x /\ new.kind = "destroy row"
    BY <1>2, <2>1, <2>2
  <2>4. queue \in Seq(JobType) /\ DOMAIN queue = 1 .. Len(queue)
    BY LenProperties DEF DeletionInv
  <2>5. /\ queue' \in Seq(JobType) /\ Len(queue') = Len(queue)
        /\ \A k \in 1 .. Len(queue) : queue'[k] = IF k = 1 THEN new ELSE queue[k]
    BY <1>2, <2>3, <2>4, ExceptSeq
  <2>6. DOMAIN queue' = DOMAIN queue
    BY <2>4, <2>5, LenProperties
  <2> QED
    BY <1>2, <2>3, <2>4, <2>5, <2>6
<1>5. ASSUME NEW i \in DOMAIN rows' PROVE RowInv(i)'
  <2>1. CASE i = x
    BY <1>1, <1>2, <1>3, <2>1 DEF RowInv
  <2>2. CASE i # x
    BY <1>1, <1>3, <2>2 DEF RowInv, DeletionInv
  <2> QED
    BY <2>1, <2>2
<1>6. ASSUME NEW k \in DOMAIN queue' PROVE JobInv(k)'
  <2>1. CASE k = 1
    BY <1>1, <1>2, <1>3, <1>4, <2>1 DEF JobInv
  <2>2. CASE k # 1
    BY <1>1, <1>3, <1>4, <2>2 DEF JobInv, DeletionInv
  <2> QED
    BY <2>1, <2>2
<1>7. \A r \in Request : DispatchInv(r)'
    BY <1>1 DEF DispatchInv, CallInv, DeletionInv
<1> QED
    BY <1>1, <1>3, <1>4, <1>5, <1>6, <1>7 DEF DeletionInv

\* A job that has ended leaves the others as they were.
LEMMA TailKeepsJobs ==
    ASSUME DeletionInv, queue # <<>>, queue' = Tail(queue), UNCHANGED deletes,
           DOMAIN rows \subseteq DOMAIN rows'
    PROVE  queue' \in Seq(JobType) /\ \A k \in DOMAIN queue' : JobInv(k)'
<1>1. queue \in Seq(JobType)
    BY DEF DeletionInv
<1>2. /\ queue' \in Seq(JobType) /\ Len(queue') = Len(queue) - 1
      /\ \A k \in 1 .. Len(queue') : queue'[k] = queue[k + 1]
    BY <1>1, HeadTailProperties
<1>3. DOMAIN queue = 1 .. Len(queue) /\ DOMAIN queue' = 1 .. Len(queue') /\ Len(queue) \in Nat
    BY <1>1, <1>2, LenProperties
<1>4. ASSUME NEW k \in DOMAIN queue' PROVE JobInv(k)'
  <2>1. k + 1 \in DOMAIN queue /\ k + 1 # 1 /\ queue'[k] = queue[k + 1]
    BY <1>2, <1>3
  <2>2. JobInv(k + 1)
    BY <2>1 DEF DeletionInv
  <2> QED
    BY <2>1, <2>2 DEF JobInv
<1> QED
    BY <1>2, <1>4

\* The second write of a deletion.
LEMMA DeleteKeepsDeletions ==
    ASSUME ContextInv, DeletionInv, JobDeletes
    PROVE  DeletionInv'
<1> DEFINE x == queue[1].row
<1>1. /\ rows' = [rows EXCEPT ![Job.row].deleted = TRUE]
      /\ queue' = Tail(queue) /\ UNCHANGED <<request, deletes>>
      /\ queue # <<>> /\ Job.kind = "destroy row"
    BY DEF JobDeletes, Works
<1>2. Job = queue[1] /\ JobInv(1)
    BY <1>1, HeadJob
<1>3. /\ x \in DOMAIN rows /\ deletes[x] >= 1
      /\ rows[x].status = "DELETED" \/ deletes[x] > 1
      /\ rows' = [rows EXCEPT ![x].deleted = TRUE]
    BY <1>1, <1>2 DEF JobInv
<1>4. rows \in Seq(InstanceRow) /\ rows[x] \in InstanceRow
    BY <1>3 DEF ContextInv
<1> HIDE DEF x
<1>5. /\ DOMAIN rows' = DOMAIN rows /\ Len(rows') = Len(rows)
      /\ \A j \in DOMAIN rows : j # x => rows'[j] = rows[j]
      /\ rows'[x].status = rows[x].status
  <2>1. rows' = [rows EXCEPT ![x] = [rows[x] EXCEPT !.deleted = TRUE]]
    BY <1>3
  <2>2. ASSUME NEW row \in InstanceRow
        PROVE  /\ [row EXCEPT !.deleted = TRUE] \in InstanceRow
               /\ [row EXCEPT !.deleted = TRUE].status = row.status
    BY DEF InstanceRow
  <2>3. PICK new \in InstanceRow : /\ rows' = [rows EXCEPT ![x] = new]
                                  /\ new.status = rows[x].status
    <3> DEFINE new == [rows[x] EXCEPT !.deleted = TRUE]
    <3>1. new \in InstanceRow /\ new.status = rows[x].status
      BY <1>4, <2>2
    <3> QED
      BY <2>1, <3>1
  <2>4. x \in 1 .. Len(rows) /\ DOMAIN rows = 1 .. Len(rows)
    BY <1>3, <1>4, LenProperties
  <2>5. /\ rows' \in Seq(InstanceRow) /\ Len(rows') = Len(rows)
        /\ \A j \in 1 .. Len(rows) : rows'[j] = IF j = x THEN new ELSE rows[j]
    BY <1>4, <2>3, <2>4, ExceptSeq
  <2>6. DOMAIN rows' = DOMAIN rows
    BY <2>4, <2>5, LenProperties
  <2> QED
    BY <2>3, <2>4, <2>5, <2>6
<1>6. ASSUME NEW i \in DOMAIN rows' PROVE RowInv(i)'
  <2>1. CASE i = x
    BY <1>1, <1>3, <1>5, <2>1 DEF RowInv
  <2>2. CASE i # x
    BY <1>1, <1>5, <2>2 DEF RowInv, DeletionInv
  <2> QED
    BY <2>1, <2>2
<1>7. queue' \in Seq(JobType) /\ \A k \in DOMAIN queue' : JobInv(k)'
    BY <1>1, <1>5, TailKeepsJobs
<1>8. \A r \in Request : DispatchInv(r)'
    BY <1>1 DEF DispatchInv, CallInv, DeletionInv
<1> QED
    BY <1>1, <1>5, <1>6, <1>7, <1>8 DEF DeletionInv

\* A job ends.
LEMMA EndKeepsDeletions ==
    ASSUME DeletionInv, JobEnds
    PROVE  DeletionInv'
<1>1. queue # <<>> /\ queue' = Tail(queue) /\ UNCHANGED <<rows, request, deletes>>
    BY DEF JobEnds
<1>2. queue' \in Seq(JobType) /\ \A k \in DOMAIN queue' : JobInv(k)'
    BY <1>1, TailKeepsJobs
<1>3. \A r \in Request : DispatchInv(r)'
    BY <1>1 DEF DispatchInv, CallInv, DeletionInv
<1>4. \A i \in DOMAIN rows' : RowInv(i)'
    BY <1>1 DEF RowInv, DeletionInv
<1> QED
    BY <1>1, <1>2, <1>3, <1>4 DEF DeletionInv

\* What a save writes into a row.
LEMMA SavedFields ==
    ASSUME NEW r \in Request, NEW name \in Name, rows \in Seq(InstanceRow),
           request[r].id \in DOMAIN rows
    PROVE  LET row == rows[request[r].id] IN
           /\ Saved(r, name).deleted = row.deleted
           /\ Saved(r, name).status \in {row.status, "DELETING"}
           /\ request[r].call = "update" => Saved(r, name).status = row.status
<1>1. ASSUME NEW row \in InstanceRow
      PROVE  /\ [row EXCEPT !.name = name].status = row.status
             /\ [row EXCEPT !.name = name].deleted = row.deleted
             /\ [row EXCEPT !.status = "DELETING"].status = "DELETING"
             /\ [row EXCEPT !.status = "DELETING"].deleted = row.deleted
    BY DEF InstanceRow
<1>2. rows[request[r].id] \in InstanceRow
    OBVIOUS
<1> QED
    BY <1>1, <1>2 DEF Saved

\* A save counts the deletion that it is, and deletes nothing.
LEMMA SaveKeepsDeletions ==
    ASSUME ContextInv, DeletionInv, NEW r \in Request, NEW name \in Name, Save(r, name)
    PROVE  DeletionInv'
<1> DEFINE i == request[r].id
<1>1. /\ request[r].at = "save" /\ RequestInv(r) /\ DispatchInv(r)
      /\ rows \in Seq(InstanceRow) /\ UNCHANGED queue
    BY DEF Save, At, ContextInv, DeletionInv
<1>2. i \in DOMAIN rows /\ request[r].call \in Saves
    BY <1>1 DEF RequestInv, WorksOnItsOwn, DispatchInv, CallInv
<1>3. CASE Finish(r) /\ UNCHANGED <<rows, deletes>>
    BY <1>1, <1>3, FinishIsQuiet
<1>4. CASE /\ rows' = [rows EXCEPT ![i] = Saved(r, name)]
           /\ deletes' = IF request[r].call = "destroy"
                         THEN [deletes EXCEPT ![i] = @ + 1] ELSE deletes
           /\ Goto(r, "dispatch")
  <2>1. /\ Saved(r, name).deleted = rows[i].deleted
        /\ Saved(r, name).status \in {rows[i].status, "DELETING"}
        /\ request[r].call = "update" => Saved(r, name).status = rows[i].status
    BY <1>1, <1>2, SavedFields
  <2> HIDE DEF i
  <2>2. /\ DOMAIN rows' = DOMAIN rows /\ Len(rows') = Len(rows)
        /\ \A j \in DOMAIN rows : j # i => rows'[j] = rows[j]
        /\ rows'[i].deleted = rows[i].deleted
        /\ rows'[i].status \in {rows[i].status, "DELETING"}
        /\ request[r].call = "update" => rows'[i].status = rows[i].status
    BY <1>1, <1>2, <1>4, <2>1
  <2>3. /\ deletes' \in Seq(Nat) /\ Len(deletes') = Len(deletes)
        /\ \A j \in DOMAIN rows : deletes[j] \in Nat /\ deletes'[j] \in Nat /\ deletes'[j] >= deletes[j]
        /\ \A j \in DOMAIN rows : j # i => deletes'[j] = deletes[j]
        /\ request[r].call = "destroy" => deletes'[i] = deletes[i] + 1
        /\ request[r].call = "update" => deletes' = deletes
    BY <1>1, <1>2, <1>4 DEF DeletionInv
  <2>4. ASSUME NEW j \in DOMAIN rows' PROVE RowInv(j)'
    <3>1. RowInv(j) /\ j \in DOMAIN rows
      BY <2>2 DEF DeletionInv
    <3>2. CASE j # i
      BY <2>2, <2>3, <3>1, <3>2 DEF RowInv
    <3>3. CASE j = i /\ request[r].call = "update"
      BY <2>2, <2>3, <3>1, <3>3 DEF RowInv
    <3>4. CASE j = i /\ request[r].call = "destroy"
      BY <2>2, <2>3, <3>1, <3>4 DEF RowInv
    <3> QED
      BY <1>2, <3>2, <3>3, <3>4 DEF Saves
  <2>5. ASSUME NEW k \in DOMAIN queue' PROVE JobInv(k)'
    <3>1. JobInv(k) /\ queue' = queue
      BY <1>1 DEF DeletionInv
    <3>2. CASE queue[k].row # i
      BY <2>2, <2>3, <3>1, <3>2 DEF JobInv
    <3>3. CASE queue[k].row = i /\ request[r].call = "update"
      BY <2>2, <2>3, <3>1, <3>3 DEF JobInv
    <3>4. CASE queue[k].row = i /\ request[r].call = "destroy"
      <4>1. deletes[i] \in Nat /\ deletes'[i] = deletes[i] + 1
        BY <1>2, <2>3, <3>4
      <4>2. /\ queue[k].kind \in {"destroy", "destroy row"} => deletes[i] >= 1
            /\ queue[k].kind = "destroy row" => k = 1
        BY <3>1, <3>4 DEF JobInv
      <4>. deletes[i] >= 1 => deletes'[i] > 1 /\ deletes'[i] >= 1
        BY <4>1
      <4>3. queue[k].kind \in {"destroy", "destroy row"} => deletes'[i] > 1 /\ deletes'[i] >= 1
        BY <4>2
      <4>4. queue'[k] = queue[k] /\ i \in DOMAIN rows' /\ deletes'[i] \in Nat
        BY <1>2, <2>2, <3>1, <4>1
      <4> QED
        BY <3>4, <4>2, <4>3, <4>4 DEF JobInv
    <3> QED
      BY <1>2, <3>2, <3>3, <3>4 DEF Saves
  <2>6. ASSUME NEW q \in Request PROVE DispatchInv(q)'
    <3>1. DispatchInv(q) /\ RequestInv(q)
      BY DEF DeletionInv, ContextInv
    <3>2. CASE q = r
      <4>1. request'[r] = [request[r] EXCEPT !.at = "dispatch"]
        BY <1>4 DEF Goto, ContextInv
      <4>2. /\ request'[r].at = "dispatch" /\ request'[r].id = i
            /\ request'[r].call = request[r].call
        BY <1>1, <4>1 DEF RequestInv, RequestType, i
      <4>3. deletes[i] \in Nat /\ (request[r].call = "destroy" => deletes'[i] = deletes[i] + 1)
        BY <1>2, <2>3
      <4>4. CallInv(q)'
        BY <1>1, <3>1, <3>2, <4>2 DEF DispatchInv, CallInv
      <4> QED
        BY <3>2, <4>2, <4>3, <4>4 DEF DispatchInv
    <3>3. CASE q # r
      <4>1. request'[q] = request[q]
        BY <1>4, <3>3 DEF Goto, ContextInv
      <4>2. CASE request[q].at = "dispatch" /\ request[q].call = "destroy"
        <5>1. request[q].id \in DOMAIN rows /\ deletes[request[q].id] >= 1
          BY <3>1, <4>2 DEF DispatchInv, RequestInv, WorksOnItsOwn
        <5>2. deletes'[request[q].id] >= 1
          BY <2>3, <5>1
        <5> QED
          BY <3>1, <4>1, <5>2 DEF DispatchInv, CallInv
      <4> QED
        BY <3>1, <4>1, <4>2 DEF DispatchInv, CallInv
    <3> QED
      BY <3>2, <3>3
  <2> QED
    BY <1>1, <2>2, <2>3, <2>4, <2>5, <2>6 DEF DeletionInv
<1> QED
    BY <1>3, <1>4 DEF Save

\* A dispatched deletion was saved.
LEMMA DispatchKeepsDeletions ==
    ASSUME ContextInv, DeletionInv, NEW r \in Request, Dispatch(r)
    PROVE  DeletionInv'
<1> DEFINE new == [kind |-> request[r].call, row |-> request[r].id]
<1>1. /\ request[r].at = "dispatch" /\ RequestInv(r) /\ DispatchInv(r)
      /\ queue' = Append(queue, new) /\ Finish(r) /\ UNCHANGED <<rows, deletes>>
    BY DEF Dispatch, At, ContextInv, DeletionInv
<1>2. request[r].id \in DOMAIN rows /\ request[r].call \in Calls
    BY <1>1 DEF RequestInv, WorksOnItsOwn, DispatchInv, CallInv
<1>3. new \in JobType
  <2>1. DOMAIN rows = 1 .. Len(rows) /\ Len(rows) \in Nat
    BY LenProperties DEF ContextInv
  <2>2. request[r].id \in Nat
    BY <1>2, <2>1
  <2> QED
    BY <1>2, <2>2, Zenon DEF JobType
<1>4. /\ new.row = request[r].id /\ new.kind = request[r].call
      /\ new.kind # "destroy row" /\ (new.kind = "destroy" => deletes[new.row] >= 1)
    BY <1>1, <1>2 DEF Calls, Shows, Saves, DispatchInv
<1> HIDE DEF new
<1>5. /\ queue' \in Seq(JobType) /\ DOMAIN queue' = DOMAIN queue \cup {Len(queue) + 1}
      /\ \A k \in DOMAIN queue : queue'[k] = queue[k]
      /\ queue'[Len(queue) + 1] = new
    BY <1>1, <1>3 DEF DeletionInv
<1>6. ASSUME NEW k \in DOMAIN queue' PROVE JobInv(k)'
  <2>1. CASE k \in DOMAIN queue
    BY <1>1, <1>5, <2>1 DEF JobInv, DeletionInv
  <2>2. CASE k = Len(queue) + 1
    BY <1>1, <1>2, <1>4, <1>5, <2>2 DEF JobInv
  <2> QED
    BY <1>5, <2>1, <2>2
<1>7. ASSUME NEW q \in Request PROVE DispatchInv(q)'
  <2>1. request'[q] = request[q] \/ request'[q] = Idle
    BY <1>1 DEF Finish, ContextInv
  <2> QED
    BY <1>1, <2>1, IdleFacts DEF DispatchInv, CallInv, DeletionInv
<1>8. \A i \in DOMAIN rows' : RowInv(i)'
    BY <1>1 DEF RowInv, DeletionInv
<1> QED
    BY <1>1, <1>5, <1>6, <1>7, <1>8 DEF DeletionInv

-----------------------------------------------------------------------------
(* The steps of a request that are quiet, and all together.                 *)

\* A request that goes on with the same call.
LEMMA SameCall ==
    ASSUME ContextInv, DeletionInv, NEW r \in Request, UNCHANGED <<rows, deletes, queue>>,
           OnlyOf(r), request[r].at # "idle", request'[r].call = request[r].call,
           request'[r].at \in {"body", "connection", "answer", "insert", "save"},
           request'[r].at = "insert" => request[r].call = "store",
           request'[r].at = "save" => request[r].call \in Saves
    PROVE  DeletionInv'
<1>1. CallInv(r)
    BY DEF DeletionInv, DispatchInv
<1>2. CallInv(r)' /\ request'[r].at # "dispatch"
    BY <1>1 DEF CallInv
<1> QED
    BY <1>2, QuietStep DEF OnlyOf

\* A row is found for a call.
LEMMA FindKeepsDeletions ==
    ASSUME ContextInv, DeletionInv, NEW r \in Request, NEW i \in 1 .. MaxRows, NEW call,
           NEW next \in {"answer", "connection", "save"}, FindById(r, i, call, next),
           next = "save" => call \in Saves
    PROVE  DeletionInv'
<1>1. /\ UNCHANGED <<rows, deletes, queue>> /\ request[r].at = "body"
      /\ request[r].call = call /\ RequestInv(r)
    BY DEF FindById, At, ContextInv
<1>2. CASE Finish(r)
    BY <1>1, <1>2, FinishIsQuiet
<1>3. CASE request' = [request EXCEPT ![r].at = next, ![r].id = i, ![r].read = rows[i]]
  <2>1. OnlyOf(r) /\ request'[r] = [request[r] EXCEPT !.at = next, !.id = i, !.read = rows[i]]
    BY <1>3 DEF OnlyOf, ContextInv
  <2>2. request'[r].at = next /\ request'[r].call = request[r].call
    BY <1>1, <2>1 DEF RequestInv, RequestType
  <2> QED
    BY <1>1, <2>1, <2>2, SameCall
<1> QED
    BY <1>2, <1>3 DEF FindById

\* The quiet steps.
LEMMA RequestKeepsDeletions ==
    ASSUME ContextInv, DeletionInv, NEW r \in Request, RequestStep(r)
    PROVE  DeletionInv'
<1>0. RequestInv(r)
    BY DEF ContextInv
<1>1. ASSUME NEW t \in DOMAIN Tokens, NEW call \in Calls, ValidateAccessToken(r, t, call)
      PROVE  DeletionInv'
  <2> DEFINE org == IF Tokens[t].org \in closed THEN NoOrg ELSE Tokens[t].org
  <2>1. /\ UNCHANGED <<rows, deletes, queue>>
        /\ OnlyOf(r) /\ request'[r] = [Idle EXCEPT !.at = "owner", !.token = t,
                                                   !.call = call, !.org = org]
    BY <1>1 DEF ValidateAccessToken, OnlyOf, ContextInv
  <2> HIDE DEF org
  <2>2. request'[r].at = "owner" /\ request'[r].call = call
    BY <2>1 DEF Idle
  <2>3. CallInv(r)' /\ request'[r].at # "dispatch"
    BY <2>2 DEF CallInv
  <2> QED
    BY <2>1, <2>3, QuietStep DEF OnlyOf
<1>2. CASE FindOwner(r)
  <2>1. UNCHANGED <<rows, deletes, queue>> /\ request[r].at = "owner"
    BY <1>2 DEF FindOwner, At
  <2>2. CASE Finish(r)
    BY <2>1, <2>2, FinishIsQuiet
  <2>3. ASSUME NEW o, request' = [request EXCEPT ![r].at = "body", ![r].owner = o]
        PROVE  DeletionInv'
    <3>1. OnlyOf(r) /\ request'[r] = [request[r] EXCEPT !.at = "body", !.owner = o]
      BY <2>3 DEF OnlyOf, ContextInv
    <3>2. request'[r].at = "body" /\ request'[r].call = request[r].call
      BY <1>0, <3>1 DEF RequestInv, RequestType
    <3> QED
      BY <2>1, <3>1, <3>2, SameCall
  <2> QED
    BY <1>2, <2>2, <2>3 DEF FindOwner
<1>3. CASE Index(r)
    BY <1>3, FinishIsQuiet DEF Index
<1>4. CASE FindConnection(r)
  <2>1. UNCHANGED <<rows, deletes, queue>> /\ request[r].at = "connection"
    BY <1>4 DEF FindConnection, At
  <2>2. CASE Finish(r)
    BY <2>1, <2>2, FinishIsQuiet
  <2>3. CASE Goto(r, "answer")
    <3>1. OnlyOf(r) /\ request'[r] = [request[r] EXCEPT !.at = "answer"]
      BY <2>3 DEF Goto, OnlyOf, ContextInv
    <3>2. request'[r].at = "answer" /\ request'[r].call = request[r].call
      BY <1>0, <3>1 DEF RequestInv, RequestType
    <3> QED
      BY <2>1, <3>1, <3>2, SameCall
  <2> QED
    BY <1>4, <2>2, <2>3 DEF FindConnection
<1>5. CASE Answer(r)
    BY <1>5, FinishIsQuiet DEF Answer
<1>6. ASSUME NEW i \in 1 .. MaxRows,
             Show(r, i) \/ ShowConnection(r, i) \/ Update(r, i) \/ MarkAsDeleting(r, i)
      PROVE  DeletionInv'
    BY <1>6, FindKeepsDeletions DEF Show, ShowConnection, Update, MarkAsDeleting, Saves
<1>7. ASSUME NEW name \in Name, NEW s \in Stack, DrawStack(r, name, s) PROVE DeletionInv'
  <2>1. /\ UNCHANGED <<rows, deletes, queue>> /\ request[r].at = "body"
        /\ request[r].call = "store"
    BY <1>7 DEF DrawStack, At
  <2>2. OnlyOf(r) /\ request'[r] = [request[r] EXCEPT !.at = "insert", !.data = name,
                                                      !.read.stack = s]
    BY <1>7 DEF DrawStack, OnlyOf, ContextInv
  <2>3. request'[r].at = "insert" /\ request'[r].call = request[r].call
    BY <1>0, <2>2 DEF RequestInv, RequestType
  <2> QED
    BY <2>1, <2>2, <2>3, SameCall
<1>8. CASE Insert(r)
    BY <1>8, InsertKeepsDeletions
<1>9. ASSUME NEW name \in Name, Save(r, name) PROVE DeletionInv'
    BY <1>9, SaveKeepsDeletions
<1>10. CASE Dispatch(r)
    BY <1>10, DispatchKeepsDeletions
<1>11. CASE RequestFails(r)
    BY <1>11, FinishIsQuiet DEF RequestFails
<1> QED
    BY <1>1, <1>2, <1>3, <1>4, <1>5, <1>6, <1>7, <1>8, <1>9, <1>10, <1>11 DEF RequestStep

\* Every step keeps the invariant.
LEMMA DeletionInvInductive == ContextInv /\ DeletionInv /\ [Next]_vars => DeletionInv'
<1> SUFFICES ASSUME ContextInv, DeletionInv, [Next]_vars PROVE DeletionInv'
    OBVIOUS
<1>1. ASSUME NEW r \in Request, RequestStep(r) PROVE DeletionInv'
    BY <1>1, RequestKeepsDeletions
<1>2. CASE Environment
  <2>1. ASSUME NEW status \in {"DEPLOYING", "RUNNING", "FAILED"}, JobProgresses(status)
        PROVE  DeletionInv'
    BY <2>1, ProgressKeepsDeletions
  <2>2. CASE JobMarksDeleted
    BY <2>2, MarkKeepsDeletions
  <2>3. CASE JobDeletes
    BY <2>3, DeleteKeepsDeletions
  <2>4. CASE JobEnds
    BY <2>4, EndKeepsDeletions
  <2>5. ASSUME NEW o \in Organizations, CloseOrganization(o) PROVE DeletionInv'
    BY <2>5, QuietStep DEF CloseOrganization
  <2> QED
    BY <1>2, <2>1, <2>2, <2>3, <2>4, <2>5 DEF Environment
<1>3. CASE UNCHANGED vars
    BY <1>3, QuietStep DEF vars
<1> QED
    BY <1>1, <1>2, <1>3 DEF Next

\* Neither an update under way nor a job leaves anything but DELETED in a row
\* that is soft-deleted; only a second deletion, saved between the two writes of
\* the first one's job, does.
THEOREM DeletedSayDeleted == Spec => []DeletedRowsSayDeleted
<1>1. ContextInv /\ DeletionInv => DeletedRowsSayDeleted
    BY DEF DeletionInv, RowInv, DeletedRowsSayDeleted
<1> QED
    BY <1>1, ContextInvHolds, ContextInvInductive, DeletionInvHolds, DeletionInvInductive, PTL
    DEF Spec

-----------------------------------------------------------------------------
(* The types, on top of both.                                               *)

ApiBounds ==
    /\ closed \subseteq Organizations
    /\ Len(rows) <= MaxRows
    /\ connected \subseteq DOMAIN rows

\* The owner is not known before it has been looked for.
OwnerUnknown(r) == request[r].at \in {"idle", "owner"} => request[r].owner = NoOwner

\* A row that is written anew stays the same row.
LEMMA RowsStay ==
    ASSUME ContextInv, NEW i, NEW row, rows' = [rows EXCEPT ![i] = row]
    PROVE  DOMAIN rows' = DOMAIN rows /\ Len(rows') = Len(rows)
<1>1. rows \in Seq(InstanceRow)
    BY DEF ContextInv
<1> QED
    BY <1>1

\* A row is inserted only within the bound, and what was connected stays so.
LEMMA BoundsKeep ==
    ASSUME MaxRows \in Nat, ContextInv, ApiBounds, [Next]_vars
    PROVE  ApiBounds'
<1>1. ASSUME UNCHANGED <<closed, rows, connected>> PROVE ApiBounds'
    BY <1>1 DEF ApiBounds
<1>2. ASSUME NEW i, NEW row, rows' = [rows EXCEPT ![i] = row],
             connected' \subseteq DOMAIN rows, UNCHANGED closed
      PROVE  ApiBounds'
    BY <1>2, RowsStay DEF ApiBounds
<1>3. ASSUME NEW r \in Request, Insert(r) PROVE ApiBounds'
  <2>1. CASE UNCHANGED rows
    BY <1>1, <1>3, <2>1 DEF Insert
  <2>2. CASE ~UNCHANGED rows
    <3>1. PICK row : rows' = Append(rows, row) /\ Len(rows) < MaxRows
                     /\ UNCHANGED <<closed, connected>>
      BY <1>3, <2>2 DEF Insert
    <3>2. Len(rows) \in Nat /\ Len(rows') = Len(rows) + 1 /\ DOMAIN rows \subseteq DOMAIN rows'
      BY <3>1 DEF ContextInv
    <3> QED
      BY <3>1, <3>2 DEF ApiBounds
  <2> QED
    BY <2>1, <2>2
<1>4. ASSUME NEW r \in Request, NEW name \in Name, Save(r, name) PROVE ApiBounds'
    BY <1>1, <1>2, <1>4 DEF Save, ApiBounds
<1>5. ASSUME NEW r \in Request, RequestStep(r) PROVE ApiBounds'
  <2>1. CASE Insert(r) \/ \E name \in Name : Save(r, name)
    BY <1>3, <1>4, <2>1
  <2>2. UNCHANGED <<closed, rows, connected>> \/ Insert(r) \/ \E name \in Name : Save(r, name)
    BY <1>5 DEF RequestStep, ValidateAccessToken, FindOwner, Index, FindConnection, Answer,
       Show, ShowConnection, Update, MarkAsDeleting, FindById, DrawStack, Dispatch, RequestFails
  <2> QED
    BY <1>1, <2>1, <2>2
<1>6. ASSUME NEW status, JobProgresses(status) PROVE ApiBounds'
  <2>1. PICK row : rows' = [rows EXCEPT ![Job.row] = row]
    BY <1>6 DEF JobProgresses
  <2> QED
    BY <1>2, <1>6, <2>1 DEF JobProgresses, Live, ApiBounds
<1>7. CASE JobMarksDeleted \/ JobDeletes
  <2>1. PICK row : rows' = [rows EXCEPT ![Job.row] = row]
    BY <1>7 DEF JobMarksDeleted, JobDeletes
  <2> QED
    BY <1>2, <1>7, <2>1 DEF JobMarksDeleted, JobDeletes, ApiBounds
<1>8. CASE JobEnds
    BY <1>1, <1>8 DEF JobEnds
<1>9. ASSUME NEW o \in Organizations, CloseOrganization(o) PROVE ApiBounds'
    BY <1>9 DEF CloseOrganization, ApiBounds
<1>10. CASE UNCHANGED vars
    BY <1>1, <1>10 DEF vars
<1> QED
    BY <1>5, <1>6, <1>7, <1>8, <1>9, <1>10 DEF Next, Environment

\* A step of a request sends the answer, finds its owner or goes on past that.
LEMMA OwnerStaysUnknown ==
    ASSUME ContextInv, \A r \in Request : OwnerUnknown(r), [Next]_vars
    PROVE  \A r \in Request : OwnerUnknown(r)'
<1>1. ASSUME UNCHANGED request PROVE \A r \in Request : OwnerUnknown(r)'
    BY <1>1 DEF OwnerUnknown
<1>2. ASSUME NEW r \in Request, OnlyOf(r), OwnerUnknown(r)'
      PROVE  \A q \in Request : OwnerUnknown(q)'
    BY <1>2 DEF OnlyOf, OwnerUnknown
<1>3. ASSUME NEW r \in Request, Finish(r) PROVE \A q \in Request : OwnerUnknown(q)'
  <2>1. OnlyOf(r) /\ request'[r] = Idle
    BY <1>3 DEF Finish, OnlyOf, ContextInv
  <2>2. Idle.owner = NoOwner
    BY DEF Idle
  <2>3. OwnerUnknown(r)'
    BY <2>1, <2>2 DEF OwnerUnknown
  <2> QED
    BY <1>2, <2>1, <2>3
<1>4. ASSUME NEW r \in Request, RequestStep(r) PROVE \A q \in Request : OwnerUnknown(q)'
  <2>0. /\ request = [q \in Request |-> request[q]]
        /\ request[r] = [at |-> request[r].at, token |-> request[r].token,
                         call |-> request[r].call, org |-> request[r].org,
                         owner |-> request[r].owner, id |-> request[r].id,
                         read |-> request[r].read, data |-> request[r].data]
    BY DEF ContextInv, RequestInv, RequestType
  <2>1. ASSUME OnlyOf(r), request'[r].at \notin {"idle", "owner"}
        PROVE  \A q \in Request : OwnerUnknown(q)'
    BY <1>2, <2>1 DEF OwnerUnknown
  <2>2. ASSUME NEW t \in DOMAIN Tokens, NEW call \in Calls, ValidateAccessToken(r, t, call)
        PROVE  \A q \in Request : OwnerUnknown(q)'
    <3>1. PICK org : request' = [request EXCEPT
                  ![r] = [Idle EXCEPT !.at = "owner", !.token = t, !.call = call, !.org = org]]
      BY <2>2 DEF ValidateAccessToken
    <3>2. OnlyOf(r) /\ request'[r] = [Idle EXCEPT !.at = "owner", !.token = t, !.call = call,
                                                  !.org = org]
      BY <2>0, <3>1 DEF OnlyOf
    <3>3. request'[r].owner = NoOwner
      BY <3>2 DEF Idle
    <3> QED
      BY <1>2, <3>2, <3>3 DEF OwnerUnknown
  <2>3. ASSUME NEW o, request' = [request EXCEPT ![r].at = "body", ![r].owner = o]
        PROVE  \A q \in Request : OwnerUnknown(q)'
    <3>1. OnlyOf(r) /\ request'[r].at = "body"
      BY <2>0, <2>3 DEF OnlyOf
    <3> QED
      BY <2>1, <3>1
  <2>4. CASE FindOwner(r)
    BY <1>3, <2>3, <2>4 DEF FindOwner
  <2>5. ASSUME NEW place \in {"answer", "dispatch"}, Goto(r, place)
        PROVE  \A q \in Request : OwnerUnknown(q)'
    <3>1. OnlyOf(r) /\ request'[r].at = place
      BY <2>0, <2>5 DEF Goto, OnlyOf
    <3> QED
      BY <2>1, <3>1
  <2>6. CASE FindConnection(r)
    BY <1>3, <2>5, <2>6 DEF FindConnection
  <2>7. ASSUME NEW i, NEW call, NEW next \in {"answer", "connection", "save"},
               FindById(r, i, call, next)
        PROVE  \A q \in Request : OwnerUnknown(q)'
    <3>1. CASE request' = [request EXCEPT ![r].at = next, ![r].id = i, ![r].read = rows[i]]
      <4>1. OnlyOf(r) /\ request'[r].at = next
        BY <2>0, <3>1 DEF OnlyOf
      <4> QED
        BY <2>1, <4>1
    <3> QED
      BY <1>3, <2>7, <3>1 DEF FindById
  <2>8. ASSUME NEW i, Show(r, i) \/ ShowConnection(r, i) \/ Update(r, i) \/ MarkAsDeleting(r, i)
        PROVE  \A q \in Request : OwnerUnknown(q)'
    BY <2>7, <2>8 DEF Show, ShowConnection, Update, MarkAsDeleting
  <2>9. ASSUME NEW name, NEW s, DrawStack(r, name, s)
        PROVE  \A q \in Request : OwnerUnknown(q)'
    <3>1. request' = [request EXCEPT ![r].at = "insert", ![r].data = name, ![r].read.stack = s]
      BY <2>9 DEF DrawStack
    <3>2. OnlyOf(r) /\ request'[r] = [request[r] EXCEPT !.at = "insert", !.data = name,
                                                        !.read.stack = s]
      BY <2>0, <3>1 DEF OnlyOf
    <3>3. request'[r].at = "insert"
      BY <2>0, <3>2
    <3> QED
      BY <2>1, <3>2, <3>3
  <2>10. CASE Insert(r)
    <3>1. CASE ~Finish(r)
      <4>1. PICK i : request' = [request EXCEPT ![r].at = "dispatch", ![r].id = i]
        BY <2>10, <3>1 DEF Insert
      <4>2. OnlyOf(r) /\ request'[r].at = "dispatch"
        BY <2>0, <4>1 DEF OnlyOf
      <4> QED
        BY <2>1, <4>2
    <3> QED
      BY <1>3, <3>1
  <2>11. ASSUME NEW name, Save(r, name) PROVE \A q \in Request : OwnerUnknown(q)'
    BY <1>3, <2>5, <2>11 DEF Save
  <2>12. CASE Index(r) \/ Answer(r) \/ Dispatch(r) \/ RequestFails(r)
    BY <1>3, <2>12 DEF Index, Answer, Dispatch, RequestFails
  <2> QED
    BY <1>4, <2>2, <2>4, <2>6, <2>8, <2>9, <2>10, <2>11, <2>12 DEF RequestStep
<1>5. CASE Environment \/ UNCHANGED vars
    BY <1>1, <1>5 DEF Environment, JobProgresses, JobMarksDeleted, JobDeletes, JobEnds,
                      CloseOrganization, vars
<1> QED
    BY <1>4, <1>5 DEF Next

\* The requests on instances are well typed: what is connected, in the queue, or
\* at work in a request is a row that there is, and no owner is made up.
THEOREM RequestsTyped ==
    ASSUME MaxRows \in Nat
    PROVE  Spec => []TypeOK
<1>1. Init => ApiBounds /\ \A r \in Request : OwnerUnknown(r)
  <2>1. Idle.owner = NoOwner
    BY DEF Idle
  <2>2. Init => \A r \in Request : OwnerUnknown(r)
    BY <2>1 DEF Init, OwnerUnknown
  <2>3. Init => ApiBounds
    BY DEF Init, ApiBounds
  <2> QED
    BY <2>2, <2>3
<1>2. ContextInv /\ ApiBounds /\ [Next]_vars => ApiBounds'
    BY BoundsKeep
<1>3. ContextInv /\ (\A r \in Request : OwnerUnknown(r)) /\ [Next]_vars
          => (\A r \in Request : OwnerUnknown(r))'
    BY OwnerStaysUnknown
<1>4. ContextInv /\ DeletionInv /\ ApiBounds /\ (\A r \in Request : OwnerUnknown(r)) => TypeOK
  <2> SUFFICES ASSUME ContextInv, DeletionInv, ApiBounds, \A r \in Request : OwnerUnknown(r)
               PROVE  TypeOK
    OBVIOUS
  <2>1. ASSUME NEW k \in DOMAIN queue PROVE queue[k].row \in DOMAIN rows
    BY DEF DeletionInv, JobInv
  <2>2. ASSUME NEW r \in Request
        PROVE  /\ request[r].at \in {"idle", "owner", "body", "connection", "answer",
                                     "insert", "save", "dispatch"}
               /\ request[r].owner \in HasOwner \cup {NoOwner}
    BY DEF ContextInv, RequestInv, RequestType, ActsFor, OwnerUnknown
  <2>3. ASSUME NEW r \in Request PROVE request[r].id \in 0 .. Len(rows)
    <3>1. request[r].id = 0 \/ request[r].id \in DOMAIN rows
      BY DEF ContextInv, RequestInv, WorksOnItsOwn
    <3>2. DOMAIN rows = 1 .. Len(rows) /\ Len(rows) \in Nat
      BY DEF ContextInv
    <3> QED
      BY <3>1, <3>2
  <2> QED
    BY <2>1, <2>2, <2>3 DEF ContextInv, DeletionInv, ApiBounds, TypeOK
<1> QED
    BY <1>1, <1>2, <1>3, <1>4, ContextInvHolds, ContextInvInductive, DeletionInvHolds,
       DeletionInvInductive, PTL DEF Spec
=============================================================================
