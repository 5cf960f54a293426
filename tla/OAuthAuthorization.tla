------------------------- MODULE OAuthAuthorization -------------------------
(***************************************************************************)
(* The authorization endpoint and the consent page: which authorization    *)
(* codes a browser session is given, over the session's parameters and its *)
(* consent flag, and over the table oauth_consents.                        *)
(*                                                                         *)
(* The session is kept in a cookie: a request works on the copy it came    *)
(* with, and its answer writes the whole copy back over what the browser   *)
(* has by then.  Requests of the session overlap, and interleave at every  *)
(* statement.  There is one user and one browser; a failing statement      *)
(* writes nothing.  What becomes of a code is the subject of OAuthTokens.  *)
(***************************************************************************)
EXTENDS Integers, Sequences

CONSTANTS
    Request,        \* requests of the session that are served at the same time
    Params,         \* what is asked for, [client, scopes], by registered clients
                    \* with the right redirect URI
    TrustedClient,  \* those that are is_trusted
    ConsentLife,    \* how long a consent is stored for (a year)
    MaxNow,         \* bound on the clock
    MaxRequests,    \* bound on the requests that come
    MaxCodes,       \* bound on the codes issued
    MaxApprovals    \* bound on the approvals given

VARIABLES
    now,        \* the clock
    came,       \* how many requests have come
    session,    \* the cookie: oauth_params and consent_granted
    request,    \* what each request is doing, with its copy of the session
    consents,   \* rows of oauth_consents, by client: unique(user_id, client_id)
    approved,   \* history: the parameters approved on the consent page, in order
    issued,     \* history: the codes issued, in order
    spilt       \* history: the approvals whose flag was shared or came back
\* Its property is CodesAreApproved.
INSTANCE ApprovedCodes

vars == <<now, came, session, request, consents, approved, issued, spilt>>
tables == <<now, consents, approved, issued>>

NoParams == [client |-> "none", scopes |-> {}]

\* What a session keeps of the flow.  consent_granted is a Boolean: here it is
\* the number of the approval that set it, or NotSet.
NotSet == 0
SessionData == [params : Params \cup {NoParams}, granted : Nat]
Empty == [params |-> NoParams, granted |-> NotSet]

\* A row is known by the approval that created it.
ConsentRow == [id : Nat, scopes : {p.scopes : p \in Params}, expiresAt : Nat]
NoRow == [id |-> 0, scopes |-> {}, expiresAt |-> 0]

\* A request, with the flag it came with and the approval it carries out.
Work == [at : {"idle", "lookup", "approve", "find", "save", "answer"},
         copy : SessionData, flag : Nat, ground : {"none", "trusted", "session", "stored"},
         approval : Nat, row : ConsentRow \cup {NoRow}]
NoWork == [at |-> "idle", copy |-> Empty, flag |-> NotSet, ground |-> "none",
           approval |-> 0, row |-> NoRow]

At(r, place) == request[r].at = place

\* The request is about to answer with this copy of the session.
Answering(r, copy) ==
    request' = [request EXCEPT ![r] =
        [at |-> "answer", copy |-> copy, flag |-> request[r].flag, ground |-> "none",
         approval |-> request[r].approval, row |-> NoRow]]

\* A request comes with the cookie the browser has: what it makes of it, and a
\* flag that another request is carrying is shared.
With(params) == [session EXCEPT !.params = params]
Enter(r, place, copy, ground, approval) ==
    /\ At(r, "idle")
    /\ came < MaxRequests
    /\ came' = came + 1
    /\ request' = [request EXCEPT ![r] =
                      [at |-> place, copy |-> copy, flag |-> session.granted,
                       ground |-> ground, approval |-> approval, row |-> NoRow]]
    /\ spilt' = IF session.granted # NotSet
                   /\ \E q \in Request : ~At(q, "idle") /\ request[q].flag = session.granted
                THEN spilt \cup {session.granted} ELSE spilt

-----------------------------------------------------------------------------
(* GET /oauth/authorize                                                     *)

\* OAuthConsentRepository.hasConsentForScopes
HasConsent(p) ==
    /\ p.client \in DOMAIN consents
    /\ consents[p.client].expiresAt > now
    /\ p.scopes \subseteq consents[p.client].scopes

\* A trusted client needs no consent.
ApproveTrusted(r, p) ==
    /\ p.client \in TrustedClient
    /\ Enter(r, "approve", With(p), "trusted", 0)

\* The user has just approved.
ApproveGranted(r, p) ==
    /\ p.client \notin TrustedClient
    /\ session.granted # NotSet
    /\ Enter(r, "approve", With(p), "session", 0)

\* Otherwise the consents are looked up.
LookUp(r, p) ==
    /\ p.client \notin TrustedClient
    /\ session.granted = NotSet
    /\ Enter(r, "lookup", With(p), "none", 0)

\* The parameters go into the session, and its flag is read.
Authorize(r, p) ==
    /\ ApproveTrusted(r, p) \/ ApproveGranted(r, p) \/ LookUp(r, p)
    /\ UNCHANGED <<tables, session>>

\* The user has approved at least these scopes of this client before.
ApproveStored(r) ==
    /\ At(r, "lookup")
    /\ HasConsent(request[r].copy.params)
    /\ request' = [request EXCEPT ![r].at = "approve", ![r].ground = "stored"]
    /\ UNCHANGED <<tables, session, spilt, came>>

\* The user is sent to the consent page.
AskConsent(r) ==
    /\ At(r, "lookup")
    /\ ~HasConsent(request[r].copy.params)
    /\ Answering(r, request[r].copy)
    /\ UNCHANGED <<tables, session, spilt, came>>

Code(w) == [params |-> w.copy.params, ground |-> w.ground,
            approval |-> IF w.ground = "session" THEN w.flag ELSE 0]

\* Mutant of Approve: the session forgets what was asked, not that it was granted.
ApproveKeepsFlag(r) ==
    LET w == request[r] IN
    /\ At(r, "approve")
    /\ Len(issued) < MaxCodes
    /\ issued' = Append(issued, Code(w))
    /\ IF w.ground = "session" THEN Answering(r, [w.copy EXCEPT !.params = NoParams])
       ELSE Answering(r, w.copy)
    /\ UNCHANGED <<now, session, consents, approved, spilt, came>>

\* OAuthAutoApprovalService.approve; a request that passed on the flag then forgets
\* it, and the parameters.
Approve(r) ==
    LET w == request[r] IN
    /\ At(r, "approve")
    /\ Len(issued) < MaxCodes
    /\ issued' = Append(issued, Code(w))
    /\ IF w.ground = "session" THEN Answering(r, Empty) ELSE Answering(r, w.copy)
    /\ UNCHANGED <<now, session, consents, approved, spilt, came>>

-----------------------------------------------------------------------------
(* GET and POST /oauth/consent                                              *)

\* The consent page, or any other: what the request came with goes back.
ShowConsent(r) ==
    /\ Enter(r, "answer", session, "none", 0)
    /\ UNCHANGED <<tables, session>>

\* Mutant of ApproveConsent: a session without parameters approves too.
ApproveAnything(r) ==
    /\ Len(approved) < MaxApprovals
    /\ approved' = Append(approved, session.params)
    /\ Enter(r, "find", session, "none", Len(approved) + 1)
    /\ UNCHANGED <<now, session, consents, issued>>

\* "approve": the consent is about to be stored.
ApproveConsent(r) ==
    /\ session.params # NoParams
    /\ Len(approved) < MaxApprovals
    /\ approved' = Append(approved, session.params)
    /\ Enter(r, "find", session, "none", Len(approved) + 1)
    /\ UNCHANGED <<now, session, consents, issued>>

\* createOrUpdate: the row of the client, expired or not.
FindConsent(r) ==
    LET client == request[r].copy.params.client IN
    /\ At(r, "find")
    /\ request' = [request EXCEPT ![r].at = "save",
                      ![r].row = IF client \in DOMAIN consents THEN consents[client] ELSE NoRow]
    /\ UNCHANGED <<tables, session, spilt, came>>

\* What is written for the row that was read: a new one, or its columns that
\* differ from what was read (expires_at always does); a row that was deleted
\* meanwhile takes no update.
Written(w) ==
    LET client == w.copy.params.client
        scopes == w.copy.params.scopes
        expiresAt == now + ConsentLife IN
    [k \in DOMAIN consents \cup (IF w.row = NoRow THEN {client} ELSE {}) |->
        IF k # client THEN consents[k]
        ELSE IF w.row = NoRow
             THEN [id |-> w.approval, scopes |-> scopes, expiresAt |-> expiresAt]
        ELSE IF consents[k].id # w.row.id THEN consents[k]
        ELSE [id |-> w.row.id, expiresAt |-> expiresAt,
              scopes |-> IF w.row.scopes = scopes THEN consents[k].scopes ELSE scopes]]

\* The consent is stored and the flag set; unique(user_id, client_id) refuses a
\* second row.
SaveConsent(r) ==
    LET w == request[r] IN
    /\ At(r, "save")
    /\ IF w.row = NoRow /\ w.copy.params.client \in DOMAIN consents
       THEN /\ Answering(r, w.copy)
            /\ UNCHANGED consents
       ELSE /\ consents' = Written(w)
            /\ Answering(r, [w.copy EXCEPT !.granted = w.approval])
    /\ UNCHANGED <<now, session, approved, issued, spilt, came>>

\* "deny" writes nothing, and forgets both.
DenyConsent(r) ==
    /\ session.params # NoParams
    /\ Enter(r, "answer", Empty, "none", 0)
    /\ UNCHANGED <<tables, session>>

-----------------------------------------------------------------------------
(* Any request                                                              *)

Busy(r) == ~At(r, "idle")
Left(r) == request' = [request EXCEPT ![r] = NoWork]

\* A statement throws: the error page takes the session back as it is by then.
Fail(r) ==
    /\ Busy(r) /\ ~At(r, "answer")
    /\ Answering(r, request[r].copy)
    /\ UNCHANGED <<tables, session, spilt, came>>

\* The browser takes the whole copy.
Answer(r) ==
    /\ At(r, "answer")
    /\ session' = request[r].copy
    /\ Left(r)
    /\ UNCHANGED <<tables, spilt, came>>

\* No answer reaches the browser, which keeps the flag that the request forgot.
Lose(r) ==
    /\ Busy(r)
    /\ Left(r)
    /\ spilt' = spilt \cup {a \in {request[r].flag} :
                               \E c \in DOMAIN issued : OnTheFlag(c) /\ issued[c].approval = a}
    /\ UNCHANGED <<tables, session, came>>

\* The last statement of the hourly cleanup.
CleanConsents ==
    /\ consents' = [k \in {c \in DOMAIN consents : consents[c].expiresAt >= now}
                       |-> consents[k]]
    /\ UNCHANGED <<now, session, request, approved, issued, spilt, came>>

Tick ==
    /\ now < MaxNow
    /\ now' = now + 1
    /\ UNCHANGED <<session, request, consents, approved, issued, spilt, came>>

Init ==
    /\ now = 0 /\ came = 0
    /\ session = Empty
    /\ request = [r \in Request |-> NoWork]
    /\ consents = <<>> /\ approved = <<>> /\ issued = <<>>
    /\ spilt = {}

Next ==
    \/ \E r \in Request :
          \/ \E p \in Params : Authorize(r, p)
          \/ ApproveStored(r) \/ AskConsent(r) \/ Approve(r)
          \/ ShowConsent(r) \/ DenyConsent(r)
          \/ ApproveConsent(r) \/ FindConsent(r) \/ SaveConsent(r)
          \/ Fail(r) \/ Answer(r) \/ Lose(r)
    \/ CleanConsents \/ Tick

Spec == Init /\ [][Next]_vars

-----------------------------------------------------------------------------
TypeOK ==
    /\ now \in 0 .. MaxNow /\ came \in 0 .. MaxRequests
    /\ session \in SessionData
    /\ request \in [Request -> Work]
    /\ DOMAIN consents \subseteq {p.client : p \in Params}
    /\ \A k \in DOMAIN consents : consents[k] \in ConsentRow
    /\ approved \in Seq(Params)
    /\ issued \in Seq([params : Params, ground : {"trusted", "session", "stored"},
                       approval : Nat])
    /\ spilt \subseteq 1 .. Len(approved)
=============================================================================
