----------------------------- MODULE OAuthTokens -----------------------------
(***************************************************************************)
(* The token endpoint with its two grants, and the hourly cleanup, over    *)
(* the tables oauth_authorization_codes, oauth_access_tokens and           *)
(* oauth_refresh_tokens.  Token requests are served concurrently, and each *)
(* of their database calls is a step that may fail or be the last one its  *)
(* process makes.                                                          *)
(*                                                                         *)
(* Rows of a table are numbered in the order of their creation and a       *)
(* deleted row leaves the domain of its table.                             *)
(***************************************************************************)
EXTENDS Integers, Sequences, FiniteSets

CONSTANTS
    Client,           \* registered clients
    Confidential,     \* those that may call the token endpoint
    Scope,            \* OAuth scopes
    Request,          \* token requests the server runs at the same time
    CodeLife, AccessLife, RefreshLife,  \* lifetimes
    MaxNow,           \* bound on the clock
    MaxCodes,         \* bound on the codes issued
    MaxAccess,        \* bound on the access tokens created
    MaxFaults         \* bound on the calls that fail

ASSUME OAuthTokensAssumption ==
    /\ Confidential \subseteq Client
    /\ CodeLife \in Nat /\ AccessLife \in Nat /\ RefreshLife \in Nat
    /\ MaxNow \in Nat /\ MaxCodes \in Nat /\ MaxAccess \in Nat
    /\ MaxFaults \in Nat

VARIABLES
    now,        \* the clock
    codes, access, refresh,   \* rows of the three tables, by number
    request,    \* what each token request is doing
    cleanup,    \* the next statement of the cleanup
    faults,     \* calls that failed
    issued,     \* history: the clients and scopes of the codes issued, in order
    minted      \* history: the access tokens created, in order

tables == <<codes, access, refresh>>
vars == <<now, tables, request, cleanup, faults, issued, minted>>

None == 0

\* Rows, in what the grants and the cleanup read and write of them.
CodeRow == [client : Client, scopes : SUBSET Scope, isUsed : BOOLEAN, expiresAt : Nat]
AccessRow == [scopes : SUBSET Scope, isRevoked : BOOLEAN, expiresAt : Nat]
RefreshRow ==
    [client : Client, accessToken : Nat, scopes : SUBSET Scope, expiresAt : Nat]

Idle == [at |-> "idle", code |-> None, token |-> None, old |-> None,
         new |-> None, client |-> "none", scopes |-> {}, overlaps |-> FALSE]

\* Rows past their expires_at, as each deleteExpired selects them.
Expired(table) == {i \in DOMAIN table : table[i].expiresAt < now}

Without(table, gone) == [i \in DOMAIN table \ gone |-> table[i]]

Insert(table, i, row) ==
    [j \in DOMAIN table \cup {i} |-> IF j = i THEN row ELSE table[j]]

-----------------------------------------------------------------------------
\* OAuthAutoApprovalService.approve: the code OAuthAuthorization issues.
IssueCode(client, scopes) ==
    /\ Len(issued) < MaxCodes
    /\ issued' = Append(issued, [client |-> client, scopes |-> scopes])
    /\ codes' = Insert(codes, Len(issued) + 1,
                       [client |-> client, scopes |-> scopes,
                        isUsed |-> FALSE, expiresAt |-> now + CodeLife])
    /\ UNCHANGED <<now, access, refresh, request, cleanup, faults, minted>>

-----------------------------------------------------------------------------
(* The token endpoint.  A request that is refused changes nothing. *)

\* A request gets to work on a code or a refresh token; whether others are at
\* work on the same one is noted on both sides.
Enter(r, work) ==
    LET rivals == {q \in Request \ {r} : /\ request[q].at # "idle"
                                         /\ request[q].code = work.code
                                         /\ request[q].token = work.token}
    IN  request' = [q \in Request |->
            IF q = r THEN [work EXCEPT !.overlaps = rivals # {}]
            ELSE [request[q] EXCEPT !.overlaps = @ \/ q \in rivals]]

At(r, place) == request[r].at = place
Goto(r, place) == request' = [request EXCEPT ![r].at = place]
Finish(r) == request' = [request EXCEPT ![r] = Idle]

\* The client has shown its secret, and is not a public one.
ValidateCredentials(client) == client \in Confidential

\* Mutant of FindAndValidate: whichever client it was issued for.
FindAndValidateAny(c, client) == c \in DOMAIN codes

\* The code is there, for this client and its redirect URI.
FindAndValidate(c, client) == c \in DOMAIN codes /\ codes[c].client = client

\* Mutant of RedeemCode: a code that is used passes.
RedeemUsed(r) ==
    \E client \in Client, c \in DOMAIN codes :
        /\ At(r, "idle")
        /\ ValidateCredentials(client) /\ FindAndValidate(c, client)
        /\ codes[c].expiresAt >= now
        /\ Enter(r, [Idle EXCEPT !.at = "mark", !.code = c, !.client = client,
                                 !.scopes = codes[c].scopes])
        /\ UNCHANGED <<now, tables, cleanup, faults, issued, minted>>

\* OAuthAuthorizationCodeGrantService.handle up to its last check: the code is
\* there for this client, is not used and has not expired.
RedeemCode(r) ==
    \E client \in Client, c \in DOMAIN codes :
        /\ At(r, "idle")
        /\ ValidateCredentials(client) /\ FindAndValidate(c, client)
        /\ ~codes[c].isUsed
        /\ codes[c].expiresAt >= now
        /\ Enter(r, [Idle EXCEPT !.at = "mark", !.code = c, !.client = client,
                                 !.scopes = codes[c].scopes])
        /\ UNCHANGED <<now, tables, cleanup, faults, issued, minted>>

\* markAsUsed reads the row again and gives up in silence when it is gone.
MarkAsUsed(r) ==
    /\ At(r, "mark")
    /\ codes' = [c \in DOMAIN codes |->
                    [codes[c] EXCEPT !.isUsed = @ \/ c = request[r].code]]
    /\ Goto(r, "mint")
    /\ UNCHANGED <<now, access, refresh, cleanup, faults, issued, minted>>

\* Mutant of Refresh: the requested scopes are taken as they are.
RefreshAsRequested(r) ==
    \E client \in Client, t \in DOMAIN refresh, requested \in SUBSET Scope :
        /\ At(r, "idle")
        /\ ValidateCredentials(client) /\ refresh[t].client = client
        /\ refresh[t].expiresAt >= now
        /\ Enter(r, [Idle EXCEPT !.at = "revoke", !.token = t, !.client = client,
                        !.old = refresh[t].accessToken,
                        !.scopes = IF requested = {} THEN refresh[t].scopes
                                   ELSE requested])
        /\ UNCHANGED <<now, tables, cleanup, faults, issued, minted>>

\* OAuthRefreshTokenGrantService.handle up to the scopes of the new token:
\* those of the refresh token, or the requested ones among them.
Refresh(r) ==
    \E client \in Client, t \in DOMAIN refresh, requested \in SUBSET Scope :
        /\ At(r, "idle")
        /\ ValidateCredentials(client) /\ refresh[t].client = client
        /\ refresh[t].expiresAt >= now
        /\ Enter(r, [Idle EXCEPT !.at = "revoke", !.token = t, !.client = client,
                        !.old = refresh[t].accessToken,
                        !.scopes = IF requested = {} THEN refresh[t].scopes
                                   ELSE requested \cap refresh[t].scopes])
        /\ UNCHANGED <<now, tables, cleanup, faults, issued, minted>>

\* Mutant of RevokeOld: the refresh token is taken for the number of the access
\* token, which it is only until the first refresh.
RevokeFirst(r) ==
    /\ At(r, "revoke")
    /\ access' = [a \in DOMAIN access |->
                     [access[a] EXCEPT !.isRevoked = @ \/ a = request[r].token]]
    /\ Goto(r, "mint")
    /\ UNCHANGED <<now, codes, refresh, cleanup, faults, issued, minted>>

\* revokeAccessToken: the token the refresh token pointed to when it was read.
RevokeOld(r) ==
    /\ At(r, "revoke")
    /\ access' = [a \in DOMAIN access |->
                     [access[a] EXCEPT !.isRevoked = @ \/ a = request[r].old]]
    /\ Goto(r, "mint")
    /\ UNCHANGED <<now, codes, refresh, cleanup, faults, issued, minted>>

\* The first insert of storeTokens, and the one of storeAccessToken.
MintAccess(r) ==
    LET a == Len(minted) + 1 IN
    /\ At(r, "mint")
    /\ a <= MaxAccess
    /\ access' = Insert(access, a, [scopes |-> request[r].scopes,
                                    isRevoked |-> FALSE,
                                    expiresAt |-> now + AccessLife])
    /\ minted' = Append(minted, [client |-> request[r].client, code |-> request[r].code,
                                 token |-> request[r].token,
                                 answered |-> FALSE, overlapped |-> FALSE])
    /\ request' = [request EXCEPT
                      ![r].new = a,
                      ![r].at = IF request[r].code # None THEN "pair" ELSE "link"]
    /\ UNCHANGED <<now, codes, refresh, cleanup, faults, issued>>

\* The client gets its answer: an access token of the refresh token t.
Answer(r, t) ==
    /\ minted' = [minted EXCEPT
                     ![request[r].new].token = t,
                     ![request[r].new].answered = TRUE,
                     ![request[r].new].overlapped = request[r].overlaps]
    /\ Finish(r)

\* The second insert of storeTokens.  A refresh token has the number of the
\* access token it is created with.
CreateRefresh(r) ==
    LET a == request[r].new IN
    /\ At(r, "pair")
    /\ a \in DOMAIN access
    /\ refresh' = Insert(refresh, a,
                         [client |-> request[r].client, accessToken |-> a, scopes |-> request[r].scopes,
                          expiresAt |-> now + RefreshLife])
    /\ Answer(r, a)
    /\ UNCHANGED <<now, codes, access, cleanup, faults, issued>>

\* updateRefreshTokenAccessToken: the update of a row that is gone changes
\* nothing and is no error.
LinkNew(r) ==
    LET a == request[r].new
        t == request[r].token IN
    /\ At(r, "link")
    /\ a \in DOMAIN access \/ t \notin DOMAIN refresh
    /\ refresh' = [u \in DOMAIN refresh |->
                      IF u = t THEN [refresh[u] EXCEPT !.accessToken = a]
                      ELSE refresh[u]]
    /\ Answer(r, t)
    /\ UNCHANGED <<now, codes, access, cleanup, faults, issued>>

\* Both violate the foreign key when the new access token is gone already.
ForeignKeyFails(r) ==
    /\ \/ At(r, "pair")
       \/ At(r, "link") /\ request[r].token \in DOMAIN refresh
    /\ request[r].new \notin DOMAIN access
    /\ Finish(r)
    /\ UNCHANGED <<now, tables, cleanup, faults, issued, minted>>

\* A database call of the request fails, or its process dies: what it has
\* done stays done, and the client gets no token.
RequestFails(r) ==
    /\ ~At(r, "idle")
    /\ faults < MaxFaults
    /\ faults' = faults + 1
    /\ Finish(r)
    /\ UNCHANGED <<now, tables, cleanup, issued, minted>>

-----------------------------------------------------------------------------
(* The hourly cleanup: three statements, in this order (the fourth one, on   *)
(* the consents, is in OAuthAuthorization).                                  *)

CleanCodes ==
    /\ cleanup = "codes"
    /\ codes' = Without(codes, Expired(codes))
    /\ cleanup' = "access"
    /\ UNCHANGED <<now, access, refresh, request, faults, issued, minted>>

\* The foreign key of a refresh token cascades.
CleanAccess ==
    LET gone == Expired(access) IN
    /\ cleanup = "access"
    /\ access' = Without(access, gone)
    /\ refresh' = Without(refresh,
                     {t \in DOMAIN refresh : refresh[t].accessToken \in gone})
    /\ cleanup' = "refresh"
    /\ UNCHANGED <<now, codes, request, faults, issued, minted>>

CleanRefresh ==
    /\ cleanup = "refresh"
    /\ refresh' = Without(refresh, Expired(refresh))
    /\ cleanup' = "codes"
    /\ UNCHANGED <<now, codes, access, request, faults, issued, minted>>

\* A statement fails: the rest is left to the next hour.
CleanupFails ==
    /\ faults < MaxFaults
    /\ faults' = faults + 1
    /\ cleanup' = "codes"
    /\ UNCHANGED <<now, tables, request, issued, minted>>

Tick ==
    /\ now < MaxNow
    /\ now' = now + 1
    /\ UNCHANGED <<tables, request, cleanup, faults, issued, minted>>

-----------------------------------------------------------------------------
Init ==
    /\ now = 0
    /\ codes = <<>> /\ access = <<>> /\ refresh = <<>>
    /\ request = [r \in Request |-> Idle]
    /\ cleanup = "codes"
    /\ faults = 0
    /\ issued = <<>>
    /\ minted = <<>>

TokenStep(r) ==
    \/ RedeemCode(r) \/ MarkAsUsed(r)
    \/ Refresh(r) \/ RevokeOld(r)
    \/ MintAccess(r) \/ CreateRefresh(r) \/ LinkNew(r)
    \/ ForeignKeyFails(r) \/ RequestFails(r)

Cleanup == CleanCodes \/ CleanAccess \/ CleanRefresh

Next ==
    \/ \E client \in Client, scopes \in SUBSET Scope \ {{}} : IssueCode(client, scopes)
    \/ \E r \in Request : TokenStep(r)
    \/ Cleanup \/ CleanupFails \/ Tick

Spec == Init /\ [][Next]_vars

-----------------------------------------------------------------------------
(* Properties *)

TypeOK ==
    /\ now \in 0 .. MaxNow
    /\ DOMAIN codes \subseteq 1 .. Len(issued)
    /\ DOMAIN access \subseteq 1 .. Len(minted)
    /\ DOMAIN refresh \subseteq 1 .. Len(minted)
    /\ \A c \in DOMAIN codes : codes[c] \in CodeRow
    /\ \A a \in DOMAIN access : access[a] \in AccessRow
    /\ \A t \in DOMAIN refresh : refresh[t] \in RefreshRow
    /\ \A r \in Request :
          /\ request[r].at \in {"idle", "mark", "revoke", "mint", "pair", "link"}
          /\ request[r].code \in 0 .. Len(issued)
          /\ request[r].token \in 0 .. Len(minted)
          /\ request[r].new \in 0 .. Len(minted)
          /\ request[r].scopes \subseteq Scope
    /\ cleanup \in {"codes", "access", "refresh"}
    /\ Len(issued) <= MaxCodes /\ Len(minted) <= MaxAccess

\* The code behind an access token: the one it was redeemed from, or the one
\* behind the access token its refresh token was created with.
Origin(a) == IF minted[a].code # None THEN minted[a].code
             ELSE minted[minted[a].token].code

\* No chain of refreshes, whatever scopes they ask for, leads to an access
\* token with a scope that the authorization code did not have.
ScopesNeverWiden ==
    \A a \in DOMAIN access : access[a].scopes \subseteq issued[Origin(a)].scopes

\* ... nor to another client than the one the user approved.
ClientsNeverChange ==
    \A a \in DOMAIN minted : minted[a].client = issued[Origin(a)].client

\* What was approved bounds all that comes of it.
GrantsAreKept == ScopesNeverWiden /\ ClientsNeverChange

\* An access token that validateAccessToken accepts: until it is revoked, or
\* deleted by the cleanup.
Live(a) == a \in DOMAIN access /\ ~access[a].isRevoked

\* A refresh takes the place of the previous access token: one that a client
\* was given, that still works and that its refresh token does not point to
\* any more was given by one of two requests that ran at the same time.
ReplacedTokensAreDead ==
    \A a \in DOMAIN minted :
        (/\ minted[a].answered /\ Live(a)
         /\ minted[a].token \in DOMAIN refresh
         /\ refresh[minted[a].token].accessToken # a)
        => minted[a].overlapped

\* A code is redeemed once: two answers for one code are those of two requests
\* that both read it before either had marked it, never of two in a row.
SecondRedemptionOverlaps ==
    \A a, b \in DOMAIN minted :
        (/\ a # b /\ minted[a].answered /\ minted[b].answered
         /\ minted[a].code # None /\ minted[a].code = minted[b].code)
        => minted[a].overlapped /\ minted[b].overlapped

\* Redeeming and refreshing give a client two working tokens only where two
\* requests for the same code or refresh token run at the same time.
TokensAreSpent == ReplacedTokensAreDead /\ SecondRedemptionOverlaps

\* The code behind what a request is about to create.
Behind(r) == IF request[r].code # None THEN request[r].code
             ELSE minted[request[r].token].code

\* Codes from which an access token may still come: not used and not expired,
\* with a refresh token that has not expired, or with a request at work that
\* has yet to create a token.
OpenCodes ==
    {c \in DOMAIN issued :
        \/ c \in DOMAIN codes /\ ~codes[c].isUsed /\ codes[c].expiresAt >= now
        \/ \E t \in DOMAIN refresh : minted[t].code = c /\ refresh[t].expiresAt >= now
        \/ \E r \in Request : /\ request[r].at \in {"mark", "revoke", "mint", "pair"}
                             /\ Behind(r) = c}

\* The two grants and the cleanup implement GrantLedger: no order of requests,
\* failures and deletions gives a client what was not approved for it, lets an
\* access token work again, or gets one out of a code that is spent and gone.
Ledger == INSTANCE GrantLedger WITH
    approved <- issued,
    open     <- OpenCodes,
    given    <- Len(minted),
    working  <- [a \in {b \in DOMAIN access : Live(b)} |->
                    [client |-> minted[a].client, grant |-> Origin(a),
                     scopes |-> access[a].scopes]]

ImplementsLedger == Ledger!Spec

\* Cleaning up what has expired takes no refresh token that has not.
ValidRefreshTokensStay ==
    [][\A t \in DOMAIN refresh :
          refresh[t].expiresAt >= now => t \in DOMAIN refresh']_vars
=============================================================================
