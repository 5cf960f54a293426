--------------------------- MODULE OAuthTokensProofs ---------------------------
(***************************************************************************)
(* What was approved bounds what comes of it, for any clients, scopes,     *)
(* requests, lifetimes and bounds: whatever chain of refreshes, cleanups   *)
(* and failing calls leads to an access token, its scopes are among those  *)
(* of the authorization code it comes from, and its client is the one the  *)
(* code was issued for.                                                    *)
(*                                                                         *)
(* Rows are deleted and the chain goes through them, so the invariant      *)
(* speaks of the histories issued and minted, which only grow.             *)
(*                                                                         *)
(* The second part follows each request to the row it spends: a code and   *)
(* a refresh token are given to no more than those who read it unspent.    *)
(* The last part shows that every step keeps the ledger of GrantLedger.    *)
(***************************************************************************)
EXTENDS OAuthTokens, SequenceTheorems, TLAPS

IssuedRow == [client : Client, scopes : SUBSET Scope]

\* The codes that are left are as they were issued.
CodesInv ==
    \A c \in DOMAIN codes :
        /\ c \in DOMAIN issued
        /\ codes[c] = [client |-> codes[c].client, scopes |-> codes[c].scopes,
                       isUsed |-> codes[c].isUsed, expiresAt |-> codes[c].expiresAt]
        /\ codes[c].client = issued[c].client /\ codes[c].scopes = issued[c].scopes

\* Every access token comes from a code, at once or by the refresh token that
\* was created with another one.
MintedInv ==
    \A a \in DOMAIN minted :
        /\ minted[a] = [client |-> minted[a].client, code |-> minted[a].code,
                        token |-> minted[a].token, answered |-> minted[a].answered,
                        overlapped |-> minted[a].overlapped]
        /\ minted[a].code = None => minted[a].token \in DOMAIN minted
        /\ Origin(a) \in DOMAIN issued
        /\ minted[a].client = issued[Origin(a)].client

AccessInv ==
    \A a \in DOMAIN access :
        /\ a \in DOMAIN minted
        /\ access[a] = [scopes |-> access[a].scopes, isRevoked |-> access[a].isRevoked,
                        expiresAt |-> access[a].expiresAt]
        /\ access[a].scopes \subseteq issued[Origin(a)].scopes

\* A refresh token has what its code was issued with.
RefreshInv ==
    \A t \in DOMAIN refresh :
        /\ refresh[t] = [client |-> refresh[t].client, accessToken |-> refresh[t].accessToken,
                         scopes |-> refresh[t].scopes, expiresAt |-> refresh[t].expiresAt]
        /\ t \in DOMAIN minted /\ minted[t].code # None
        /\ refresh[t].client = issued[minted[t].code].client
        /\ refresh[t].scopes \subseteq issued[minted[t].code].scopes

RequestInv(r) ==
    LET q == request[r] IN
    /\ q = [at |-> q.at, code |-> q.code, token |-> q.token, old |-> q.old, new |-> q.new,
            client |-> q.client, scopes |-> q.scopes, overlaps |-> q.overlaps]
    /\ q.at # "idle" =>
          /\ q.code = None => q.token \in DOMAIN minted
          /\ Behind(r) \in DOMAIN issued
          /\ q.client = issued[Behind(r)].client
          /\ q.scopes \subseteq issued[Behind(r)].scopes
    /\ q.at \in {"pair", "link"} => q.new \in DOMAIN minted /\ minted[q.new].code = q.code
    /\ q.at = "pair" => q.code # None
    /\ q.at = "link" => q.code = None /\ minted[q.new].token = q.token

HistoryInv ==
    /\ issued \in Seq(IssuedRow)
    /\ \E S : minted \in Seq(S)
    /\ request = [r \in Request |-> request[r]]

GrantInv ==
    /\ HistoryInv /\ CodesInv /\ MintedInv /\ AccessInv /\ RefreshInv
    /\ \A r \in Request : RequestInv(r)

-----------------------------------------------------------------------------
(* What the steps have in common.                                           *)

\* A request that is idle is a record of its parts.
LEMMA IdleFacts ==
    /\ Idle.at = "idle"
    /\ Idle = [at |-> Idle.at, code |-> Idle.code, token |-> Idle.token, old |-> Idle.old,
               new |-> Idle.new, client |-> Idle.client, scopes |-> Idle.scopes,
               overlaps |-> Idle.overlaps]
BY DEF Idle

\* It holds before the first code.
LEMMA GrantInvHolds == Init => GrantInv
<1> SUFFICES ASSUME Init PROVE GrantInv
    OBVIOUS
<1>1. \A r \in Request : RequestInv(r)
    BY IdleFacts DEF Init, RequestInv
<1>2. HistoryInv
  <2>1. issued = <<>> /\ minted = <<>> /\ request = [r \in Request |-> Idle]
    BY DEF Init
  <2>2. issued \in Seq(IssuedRow) /\ minted \in Seq({})
    BY <2>1, EmptySeq
  <2>3. request = [r \in Request |-> request[r]]
    BY <2>1
  <2> QED
    BY <2>2, <2>3 DEF HistoryInv
<1>3. DOMAIN codes = {} /\ DOMAIN access = {} /\ DOMAIN refresh = {} /\ DOMAIN minted = {}
    BY DEF Init
<1> QED
    BY <1>1, <1>2, <1>3 DEF GrantInv, CodesInv, MintedInv, AccessInv, RefreshInv

\* The histories keep what they say; only of an access token that was redeemed
\* from a code the refresh token may be noted later.
HistoriesGrow ==
    /\ \A c \in DOMAIN issued : c \in DOMAIN issued' /\ issued'[c] = issued[c]
    /\ \A a \in DOMAIN minted :
          /\ a \in DOMAIN minted'
          /\ minted'[a].code = minted[a].code /\ minted'[a].client = minted[a].client
          /\ minted'[a].token = minted[a].token \/ minted[a].code # None

\* So every access token keeps its origin.
LEMMA OriginsStay ==
    ASSUME HistoriesGrow, MintedInv
    PROVE  \A a \in DOMAIN minted : Origin(a)' = Origin(a)
BY DEF HistoriesGrow, MintedInv, Origin

\* Two states of a request that differ in the note of its rivals alone.
SameWork(r) ==
    /\ request'[r] = [at |-> request'[r].at, code |-> request'[r].code,
                      token |-> request'[r].token, old |-> request'[r].old,
                      new |-> request'[r].new, client |-> request'[r].client,
                      scopes |-> request'[r].scopes, overlaps |-> request'[r].overlaps]
    /\ request'[r].at = request[r].at /\ request'[r].code = request[r].code
    /\ request'[r].token = request[r].token /\ request'[r].new = request[r].new
    /\ request'[r].client = request[r].client /\ request'[r].scopes = request[r].scopes

\* A step of others does not disturb a request.
LEMMA OthersKeep ==
    ASSUME NEW r \in Request, RequestInv(r), HistoriesGrow, SameWork(r)
    PROVE  RequestInv(r)'
<1>1. CASE request[r].at = "idle"
    BY <1>1 DEF RequestInv, SameWork
<1>2. CASE request[r].at # "idle"
  <2>1. Behind(r)' = Behind(r) /\ issued'[Behind(r)] = issued[Behind(r)]
    BY <1>2 DEF RequestInv, SameWork, HistoriesGrow, Behind
  <2> QED
    BY <1>2, <2>1 DEF RequestInv, SameWork, HistoriesGrow
<1> QED
    BY <1>1, <1>2

\* Nor does it disturb the tokens that were created, or rows that stay.
LEMMA MintedKeeps ==
    ASSUME MintedInv, HistoriesGrow, NEW a \in DOMAIN minted
    PROVE  /\ minted'[a].code = None => minted'[a].token \in DOMAIN minted'
           /\ Origin(a)' \in DOMAIN issued' /\ minted'[a].client = issued'[Origin(a)'].client
           /\ issued'[Origin(a)'] = issued[Origin(a)]
<1>1. Origin(a)' = Origin(a)
    BY OriginsStay
<1> QED
    BY <1>1 DEF MintedInv, HistoriesGrow

-----------------------------------------------------------------------------
(* Tables of which rows go, or change in what the invariant does not see.   *)

CodesKept ==
    \A c \in DOMAIN codes' :
        /\ c \in DOMAIN codes
        /\ codes'[c] = [client |-> codes'[c].client, scopes |-> codes'[c].scopes,
                        isUsed |-> codes'[c].isUsed, expiresAt |-> codes'[c].expiresAt]
        /\ codes'[c].client = codes[c].client /\ codes'[c].scopes = codes[c].scopes

AccessKept ==
    \A a \in DOMAIN access' :
        /\ a \in DOMAIN access
        /\ access'[a] = [scopes |-> access'[a].scopes, isRevoked |-> access'[a].isRevoked,
                         expiresAt |-> access'[a].expiresAt]
        /\ access'[a].scopes = access[a].scopes

RefreshKept ==
    \A t \in DOMAIN refresh' :
        /\ t \in DOMAIN refresh
        /\ refresh'[t] = [client |-> refresh'[t].client,
                          accessToken |-> refresh'[t].accessToken,
                          scopes |-> refresh'[t].scopes, expiresAt |-> refresh'[t].expiresAt]
        /\ refresh'[t].client = refresh[t].client /\ refresh'[t].scopes = refresh[t].scopes

MintedKept ==
    /\ DOMAIN minted' = DOMAIN minted
    /\ \A a \in DOMAIN minted :
          minted'[a] = [client |-> minted'[a].client, code |-> minted'[a].code,
                        token |-> minted'[a].token, answered |-> minted'[a].answered,
                        overlapped |-> minted'[a].overlapped]

\* They keep their part of the invariant.
LEMMA KeptCodes ==
    ASSUME CodesInv, HistoriesGrow, CodesKept
    PROVE  CodesInv'
BY DEF CodesInv, HistoriesGrow, CodesKept

\* Access tokens of the history keep their origin.
LEMMA KeptMinted ==
    ASSUME MintedInv, HistoriesGrow, MintedKept
    PROVE  MintedInv'
BY MintedKeeps DEF MintedInv, MintedKept

\* So do the rows of access tokens that are left,
LEMMA KeptAccess ==
    ASSUME AccessInv, MintedInv, HistoriesGrow, AccessKept
    PROVE  AccessInv'
<1> SUFFICES ASSUME NEW a \in DOMAIN access'
             PROVE  /\ a \in DOMAIN minted'
                    /\ access'[a] = [scopes |-> access'[a].scopes,
                                     isRevoked |-> access'[a].isRevoked,
                                     expiresAt |-> access'[a].expiresAt]
                    /\ access'[a].scopes \subseteq issued'[Origin(a)'].scopes
    BY DEF AccessInv
<1>1. a \in DOMAIN minted /\ access'[a].scopes \subseteq issued[Origin(a)].scopes
    BY DEF AccessInv, AccessKept
<1>2. issued'[Origin(a)'] = issued[Origin(a)]
    BY <1>1, MintedKeeps
<1> QED
    BY <1>1, <1>2 DEF AccessKept, HistoriesGrow

\* and those of refresh tokens.
LEMMA KeptRefresh ==
    ASSUME RefreshInv, MintedInv, HistoriesGrow, RefreshKept
    PROVE  RefreshInv'
<1> SUFFICES ASSUME NEW t \in DOMAIN refresh'
             PROVE  /\ t \in DOMAIN minted' /\ minted'[t].code # None
                    /\ refresh'[t].client = issued'[minted'[t].code].client
                    /\ refresh'[t].scopes \subseteq issued'[minted'[t].code].scopes
    BY DEF RefreshInv, RefreshKept
<1>1. /\ t \in DOMAIN minted /\ minted[t].code # None
      /\ refresh'[t].client = issued[minted[t].code].client
      /\ refresh'[t].scopes \subseteq issued[minted[t].code].scopes
    BY DEF RefreshInv, RefreshKept
<1>2. Origin(t) = minted[t].code /\ minted'[t].code = minted[t].code
    BY <1>1 DEF Origin, HistoriesGrow
<1>3. issued'[minted[t].code] = issued[minted[t].code]
    BY <1>1, <1>2 DEF MintedInv, HistoriesGrow
<1> QED
    BY <1>1, <1>2, <1>3 DEF HistoriesGrow

\* A step without new tokens keeps it all if it keeps the requests' part.
LEMMA KeepsAll ==
    ASSUME GrantInv, HistoriesGrow, HistoryInv', CodesKept, AccessKept, RefreshKept,
           MintedKept, \A r \in Request : RequestInv(r)'
    PROVE  GrantInv'
BY KeptCodes, KeptMinted, KeptAccess, KeptRefresh DEF GrantInv

\* A table that is left alone, or of which rows go.
LEMMA SameTables ==
    ASSUME GrantInv
    PROVE  /\ UNCHANGED codes => CodesKept
           /\ UNCHANGED access => AccessKept
           /\ UNCHANGED refresh => RefreshKept
           /\ UNCHANGED minted => MintedKept
           /\ UNCHANGED <<issued, minted>> => HistoriesGrow
           /\ UNCHANGED <<issued, minted, request>> => HistoryInv'
<1>1. CodesInv /\ AccessInv /\ RefreshInv /\ MintedInv /\ HistoryInv
    BY DEF GrantInv
<1>2. UNCHANGED codes => CodesKept
    BY <1>1 DEF CodesInv, CodesKept
<1>3. UNCHANGED access => AccessKept
    BY <1>1 DEF AccessInv, AccessKept
<1>4. UNCHANGED refresh => RefreshKept
    BY <1>1 DEF RefreshInv, RefreshKept
<1>5. UNCHANGED minted => MintedKept
    BY <1>1 DEF MintedInv, MintedKept
<1>6. UNCHANGED <<issued, minted>> => HistoriesGrow
    BY DEF HistoriesGrow
<1>7. UNCHANGED <<issued, minted, request>> => HistoryInv'
    BY <1>1 DEF HistoryInv
<1> QED
    BY <1>2, <1>3, <1>4, <1>5, <1>6, <1>7

\* What is deleted from the tables.
LEMMA RowsGo ==
    ASSUME GrantInv, NEW gone
    PROVE  /\ codes' = Without(codes, gone) => CodesKept
           /\ access' = Without(access, gone) => AccessKept
           /\ refresh' = Without(refresh, gone) => RefreshKept
<1>1. CodesInv /\ AccessInv /\ RefreshInv
    BY DEF GrantInv
<1>2. codes' = Without(codes, gone) => CodesKept
    BY <1>1 DEF Without, CodesInv, CodesKept
<1>3. access' = Without(access, gone) => AccessKept
    BY <1>1 DEF Without, AccessInv, AccessKept
<1>4. refresh' = Without(refresh, gone) => RefreshKept
    BY <1>1 DEF Without, RefreshInv, RefreshKept
<1> QED
    BY <1>2, <1>3, <1>4

-----------------------------------------------------------------------------
(* What a step does to the requests.                                        *)

OnlyOf(r) ==
    /\ request' = [q \in Request |-> request'[q]]
    /\ \A q \in Request : q # r => SameWork(q)

\* The other requests keep their part.
LEMMA OneRequest ==
    ASSUME GrantInv, HistoriesGrow, NEW r \in Request, OnlyOf(r), RequestInv(r)'
    PROVE  \A q \in Request : RequestInv(q)'
BY OthersKeep DEF OnlyOf, GrantInv

\* A request that is left alone does the same work.
LEMMA SameRequest ==
    ASSUME GrantInv, NEW q \in Request, request'[q] = request[q]
    PROVE  SameWork(q)
BY DEF GrantInv, RequestInv, SameWork

\* Requests that do nothing know what they knew.
LEMMA SameRequests ==
    ASSUME GrantInv, HistoriesGrow, UNCHANGED request
    PROVE  \A q \in Request : RequestInv(q)'
BY SameRequest, OthersKeep DEF GrantInv

\* A step that changes the record of one request.
LEMMA ChangeOne ==
    ASSUME GrantInv, NEW r \in Request, NEW new, request' = [request EXCEPT ![r] = new]
    PROVE  OnlyOf(r) /\ request'[r] = new
<1>1. request = [q \in Request |-> request[q]]
    BY DEF GrantInv, HistoryInv
<1>2. request' = [q \in Request |-> request'[q]] /\ request'[r] = new
    BY <1>1
<1>3. ASSUME NEW q \in Request, q # r PROVE SameWork(q)
  <2>1. request'[q] = request[q]
    BY <1>1, <1>3
  <2> QED
    BY <2>1, SameRequest
<1> QED
    BY <1>2, <1>3 DEF OnlyOf

\* The request is over.
LEMMA FinishKeeps ==
    ASSUME GrantInv, HistoriesGrow, NEW r \in Request, Finish(r)
    PROVE  OnlyOf(r) /\ \A q \in Request : RequestInv(q)'
<1>1. OnlyOf(r) /\ request'[r] = Idle
    BY ChangeOne DEF Finish
<1>2. RequestInv(r)'
    BY <1>1, IdleFacts DEF RequestInv
<1> QED
    BY <1>1, <1>2, OneRequest

\* It goes on to create its access token.
LEMMA GotoKeeps ==
    ASSUME GrantInv, UNCHANGED <<issued, minted>>, NEW r \in Request, Goto(r, "mint"),
           request[r].at \in {"mark", "revoke"}
    PROVE  OnlyOf(r) /\ \A q \in Request : RequestInv(q)'
<1>1. OnlyOf(r) /\ request'[r] = [request[r] EXCEPT !.at = "mint"]
    BY ChangeOne DEF Goto
<1>2. RequestInv(r)
    BY DEF GrantInv
<1>3. /\ request'[r].at = "mint" /\ request'[r].code = request[r].code
      /\ request'[r].token = request[r].token /\ request'[r].client = request[r].client
      /\ request'[r].scopes = request[r].scopes
    BY <1>1, <1>2 DEF RequestInv
<1>4. request'[r] = [at |-> request'[r].at, code |-> request'[r].code,
                     token |-> request'[r].token, old |-> request'[r].old,
                     new |-> request'[r].new, client |-> request'[r].client,
                     scopes |-> request'[r].scopes, overlaps |-> request'[r].overlaps]
    BY <1>1, <1>2 DEF RequestInv
<1>5. Behind(r)' = Behind(r)
    BY <1>3 DEF Behind
<1>6. RequestInv(r)'
    BY <1>2, <1>3, <1>4, <1>5 DEF RequestInv
<1> QED
    BY <1>1, <1>6, OneRequest, SameTables

\* A request gets to work on what its code or refresh token allows.
LEMMA EnterKeeps ==
    ASSUME GrantInv, UNCHANGED <<issued, minted>>, NEW r \in Request, NEW work, Enter(r, work),
           work = [at |-> work.at, code |-> work.code, token |-> work.token,
                   old |-> work.old, new |-> work.new, client |-> work.client,
                   scopes |-> work.scopes, overlaps |-> work.overlaps],
           work.at \in {"mark", "revoke"},
           work.code = None => work.token \in DOMAIN minted,
           NEW origin \in DOMAIN issued,
           origin = IF work.code # None THEN work.code ELSE minted[work.token].code,
           work.client = issued[origin].client, work.scopes \subseteq issued[origin].scopes
    PROVE  OnlyOf(r) /\ \A q \in Request : RequestInv(q)'
<1> DEFINE rivals == {q \in Request \ {r} : /\ request[q].at # "idle"
                                            /\ request[q].code = work.code
                                            /\ request[q].token = work.token}
<1>1. request' = [q \in Request |->
          IF q = r THEN [work EXCEPT !.overlaps = rivals # {}]
          ELSE [request[q] EXCEPT !.overlaps = @ \/ q \in rivals]]
    BY DEF Enter
<1>2. ASSUME NEW q \in Request, q # r PROVE SameWork(q)
  <2>1. request'[q] = [request[q] EXCEPT !.overlaps = request[q].overlaps \/ q \in rivals]
    BY <1>1, <1>2
  <2>2. RequestInv(q)
    BY DEF GrantInv
  <2> HIDE DEF rivals
  <2>3. PICK note : request'[q] = [request[q] EXCEPT !.overlaps = note]
    BY <2>1
  <2> QED
    BY <2>2, <2>3 DEF RequestInv, SameWork
<1>3. PICK note : request'[r] = [work EXCEPT !.overlaps = note]
  <2> HIDE DEF rivals
  <2> QED
    BY <1>1
<1>4. OnlyOf(r)
  <2>1. request' = [q \in Request |-> request'[q]]
    BY <1>1
  <2> QED
    BY <1>2, <2>1 DEF OnlyOf
<1>5. /\ request'[r] = [at |-> request'[r].at, code |-> request'[r].code,
                        token |-> request'[r].token, old |-> request'[r].old,
                        new |-> request'[r].new, client |-> request'[r].client,
                        scopes |-> request'[r].scopes, overlaps |-> request'[r].overlaps]
      /\ request'[r].at = work.at /\ request'[r].code = work.code
      /\ request'[r].token = work.token /\ request'[r].client = work.client
      /\ request'[r].scopes = work.scopes
    BY <1>3
<1>6. Behind(r)' = origin
    BY <1>5 DEF Behind
<1>7. RequestInv(r)'
    BY <1>5, <1>6 DEF RequestInv
<1> QED
    BY <1>4, <1>7, OneRequest, SameTables

\* A step that only requests see, and the rows of the tables that are kept.
LEMMA OldTokens ==
    ASSUME GrantInv, UNCHANGED <<issued, minted>>, CodesKept, AccessKept, RefreshKept,
           request' = [q \in Request |-> request'[q]], \A q \in Request : RequestInv(q)'
    PROVE  GrantInv'
<1>1. HistoryInv'
    BY DEF GrantInv, HistoryInv
<1> QED
    BY <1>1, SameTables, KeepsAll

-----------------------------------------------------------------------------
(* The steps.                                                               *)

\* A code is issued.
LEMMA IssueKeeps ==
    ASSUME GrantInv, NEW client \in Client, NEW scopes \in SUBSET Scope,
           IssueCode(client, scopes)
    PROVE  GrantInv'
<1> DEFINE n == Len(issued) + 1
           row == [client |-> client, scopes |-> scopes, isUsed |-> FALSE,
                   expiresAt |-> now + CodeLife]
<1>1. /\ issued' = Append(issued, [client |-> client, scopes |-> scopes])
      /\ codes' = Insert(codes, n, row)
      /\ UNCHANGED <<access, refresh, request, minted>>
    BY DEF IssueCode
<1>2. issued \in Seq(IssuedRow) /\ [client |-> client, scopes |-> scopes] \in IssuedRow
    BY DEF GrantInv, HistoryInv, IssuedRow
<1>3. /\ issued' \in Seq(IssuedRow) /\ DOMAIN issued' = DOMAIN issued \cup {n}
      /\ n \notin DOMAIN issued
      /\ \A c \in DOMAIN issued : issued'[c] = issued[c]
      /\ issued'[n] = [client |-> client, scopes |-> scopes]
    BY <1>1, <1>2
<1> HIDE DEF n
<1>4. HistoriesGrow
    BY <1>1, <1>3 DEF HistoriesGrow
<1>5. HistoryInv'
    BY <1>1, <1>3 DEF GrantInv, HistoryInv
<1>6. CodesInv'
  <2> SUFFICES ASSUME NEW c \in DOMAIN codes'
               PROVE  /\ c \in DOMAIN issued'
                      /\ codes'[c] = [client |-> codes'[c].client, scopes |-> codes'[c].scopes,
                                      isUsed |-> codes'[c].isUsed,
                                      expiresAt |-> codes'[c].expiresAt]
                      /\ codes'[c].client = issued'[c].client
                      /\ codes'[c].scopes = issued'[c].scopes
    BY DEF CodesInv
  <2>1. CASE c = n
    BY <1>1, <1>3, <2>1 DEF Insert
  <2>2. CASE c # n
    <3>1. c \in DOMAIN codes /\ codes'[c] = codes[c]
      BY <1>1, <2>2 DEF Insert
    <3> QED
      BY <1>3, <3>1 DEF GrantInv, CodesInv
  <2> QED
    BY <2>1, <2>2
<1>7. AccessInv' /\ RefreshInv' /\ MintedInv'
    BY <1>1, <1>4, SameTables, KeptMinted, KeptAccess, KeptRefresh DEF GrantInv
<1>8. \A q \in Request : RequestInv(q)'
    BY <1>1, <1>4, SameRequests
<1> QED
    BY <1>5, <1>6, <1>7, <1>8 DEF GrantInv

\* A code is redeemed.
LEMMA RedeemKeeps ==
    ASSUME GrantInv, NEW r \in Request, RedeemCode(r)
    PROVE  GrantInv'
<1>1. PICK client \in Client, c \in DOMAIN codes :
          /\ FindAndValidate(c, client)
          /\ Enter(r, [Idle EXCEPT !.at = "mark", !.code = c, !.client = client,
                                   !.scopes = codes[c].scopes])
    BY DEF RedeemCode
<1>2. UNCHANGED <<tables, issued, minted>>
    BY DEF RedeemCode
<1>3. /\ c \in DOMAIN issued /\ c # None
      /\ client = issued[c].client /\ codes[c].scopes = issued[c].scopes
  <2>1. c \in DOMAIN issued /\ client = issued[c].client /\ codes[c].scopes = issued[c].scopes
    BY <1>1 DEF GrantInv, CodesInv, FindAndValidate
  <2>2. issued \in Seq(IssuedRow)
    BY DEF GrantInv, HistoryInv
  <2>3. c # None
    BY <2>1, <2>2 DEF None
  <2> QED
    BY <2>1, <2>3
<1>4. PICK work : work = [Idle EXCEPT !.at = "mark", !.code = c, !.client = client,
                                      !.scopes = codes[c].scopes]
    OBVIOUS
<1>5. /\ work = [at |-> work.at, code |-> work.code, token |-> work.token,
                 old |-> work.old, new |-> work.new, client |-> work.client,
                 scopes |-> work.scopes, overlaps |-> work.overlaps]
      /\ work.at = "mark" /\ work.code = c /\ work.client = client
      /\ work.scopes = codes[c].scopes
    BY <1>4 DEF Idle
<1>6. Enter(r, work)
    BY <1>1, <1>4
<1>7. OnlyOf(r) /\ \A q \in Request : RequestInv(q)'
    BY <1>2, <1>3, <1>5, <1>6, EnterKeeps
<1> QED
    BY <1>2, <1>7, OldTokens, SameTables DEF OnlyOf, tables

\* A refresh token is used.
LEMMA RefreshKeeps ==
    ASSUME GrantInv, NEW r \in Request, Refresh(r)
    PROVE  GrantInv'
<1>1. PICK client \in Client, t \in DOMAIN refresh, requested \in SUBSET Scope :
          /\ refresh[t].client = client
          /\ Enter(r, [Idle EXCEPT !.at = "revoke", !.token = t, !.client = client,
                          !.old = refresh[t].accessToken,
                          !.scopes = IF requested = {} THEN refresh[t].scopes
                                     ELSE requested \cap refresh[t].scopes])
    BY DEF Refresh
<1>2. UNCHANGED <<tables, issued, minted>>
    BY DEF Refresh
<1> DEFINE scopes == IF requested = {} THEN refresh[t].scopes
                     ELSE requested \cap refresh[t].scopes
<1>3. /\ t \in DOMAIN minted /\ minted[t].code # None /\ minted[t].code \in DOMAIN issued
      /\ client = issued[minted[t].code].client
      /\ scopes \subseteq issued[minted[t].code].scopes
  <2>1. /\ t \in DOMAIN minted /\ minted[t].code # None
        /\ client = issued[minted[t].code].client
        /\ refresh[t].scopes \subseteq issued[minted[t].code].scopes
    BY <1>1 DEF GrantInv, RefreshInv
  <2>2. minted[t].code \in DOMAIN issued
    BY <2>1 DEF GrantInv, MintedInv, Origin
  <2> QED
    BY <2>1, <2>2
<1> HIDE DEF scopes
<1>4. PICK work : work = [Idle EXCEPT !.at = "revoke", !.token = t, !.client = client,
                                      !.old = refresh[t].accessToken, !.scopes = scopes]
    OBVIOUS
<1>5. /\ work = [at |-> work.at, code |-> work.code, token |-> work.token,
                 old |-> work.old, new |-> work.new, client |-> work.client,
                 scopes |-> work.scopes, overlaps |-> work.overlaps]
      /\ work.at = "revoke" /\ work.code = None /\ work.token = t /\ work.client = client
      /\ work.scopes = scopes
    BY <1>4 DEF Idle
<1>6. Enter(r, work)
    BY <1>1, <1>4 DEF scopes
<1>7. OnlyOf(r) /\ \A q \in Request : RequestInv(q)'
    BY <1>2, <1>3, <1>5, <1>6, EnterKeeps
<1> QED
    BY <1>2, <1>7, OldTokens, SameTables DEF OnlyOf, tables

\* The code is marked, or the old access token revoked.
LEMMA MarkKeeps ==
    ASSUME GrantInv, NEW r \in Request, MarkAsUsed(r)
    PROVE  GrantInv'
<1>1. /\ UNCHANGED <<access, refresh, issued, minted>>
      /\ Goto(r, "mint") /\ request[r].at = "mark"
      /\ codes' = [c \in DOMAIN codes |->
                      [codes[c] EXCEPT !.isUsed = @ \/ c = request[r].code]]
    BY DEF MarkAsUsed, At
<1>2. CodesKept
  <2> SUFFICES ASSUME NEW c \in DOMAIN codes'
               PROVE  /\ c \in DOMAIN codes
                      /\ codes'[c] = [client |-> codes'[c].client, scopes |-> codes'[c].scopes,
                                      isUsed |-> codes'[c].isUsed,
                                      expiresAt |-> codes'[c].expiresAt]
                      /\ codes'[c].client = codes[c].client
                      /\ codes'[c].scopes = codes[c].scopes
    BY DEF CodesKept
  <2>1. c \in DOMAIN codes
    BY <1>1
  <2>2. PICK used : codes'[c] = [codes[c] EXCEPT !.isUsed = used]
    BY <1>1, <2>1
  <2> QED
    BY <2>1, <2>2 DEF GrantInv, CodesInv
<1>3. OnlyOf(r) /\ \A q \in Request : RequestInv(q)'
    BY <1>1, GotoKeeps
<1> QED
    BY <1>1, <1>2, <1>3, OldTokens, SameTables DEF OnlyOf

\* Revoking the old access token widens nothing.
LEMMA RevokeKeeps ==
    ASSUME GrantInv, NEW r \in Request, RevokeOld(r)
    PROVE  GrantInv'
<1>1. /\ UNCHANGED <<codes, refresh, issued, minted>>
      /\ Goto(r, "mint") /\ request[r].at = "revoke"
      /\ access' = [a \in DOMAIN access |->
                       [access[a] EXCEPT !.isRevoked = @ \/ a = request[r].old]]
    BY DEF RevokeOld, At
<1>2. AccessKept
  <2> SUFFICES ASSUME NEW a \in DOMAIN access'
               PROVE  /\ a \in DOMAIN access
                      /\ access'[a] = [scopes |-> access'[a].scopes,
                                       isRevoked |-> access'[a].isRevoked,
                                       expiresAt |-> access'[a].expiresAt]
                      /\ access'[a].scopes = access[a].scopes
    BY DEF AccessKept
  <2>1. a \in DOMAIN access
    BY <1>1
  <2>2. PICK revoked : access'[a] = [access[a] EXCEPT !.isRevoked = revoked]
    BY <1>1, <2>1
  <2> QED
    BY <2>1, <2>2 DEF GrantInv, AccessInv
<1>3. OnlyOf(r) /\ \A q \in Request : RequestInv(q)'
    BY <1>1, GotoKeeps
<1> QED
    BY <1>1, <1>2, <1>3, OldTokens, SameTables DEF OnlyOf

\* An access token is created, with the origin of the request's work.
LEMMA MintKeeps ==
    ASSUME GrantInv, NEW r \in Request, MintAccess(r)
    PROVE  GrantInv'
<1>0. PICK n : n = Len(minted) + 1
    OBVIOUS
<1> DEFINE row == [client |-> request[r].client, code |-> request[r].code,
                   token |-> request[r].token, answered |-> FALSE, overlapped |-> FALSE]
           place == IF request[r].code # None THEN "pair" ELSE "link"
<1>1. /\ UNCHANGED <<codes, refresh, issued>> /\ request[r].at = "mint"
      /\ access' = Insert(access, n, [scopes |-> request[r].scopes, isRevoked |-> FALSE,
                                      expiresAt |-> now + AccessLife])
      /\ minted' = Append(minted, row)
      /\ request' = [request EXCEPT ![r].new = n, ![r].at = place]
    BY <1>0 DEF MintAccess, At
<1>2. /\ RequestInv(r) /\ Behind(r) \in DOMAIN issued
      /\ request[r].code = None => request[r].token \in DOMAIN minted
      /\ request[r].client = issued[Behind(r)].client
      /\ request[r].scopes \subseteq issued[Behind(r)].scopes
    BY <1>1 DEF GrantInv, RequestInv
<1>3. PICK S : minted \in Seq(S)
    BY DEF GrantInv, HistoryInv
<1>4. minted \in Seq(S \cup {row}) /\ row \in S \cup {row}
  <2>1. S \subseteq S \cup {row}
    OBVIOUS
  <2> HIDE DEF row
  <2> QED
    BY <1>3, <2>1
<1>5. /\ minted' \in Seq(S \cup {row}) /\ DOMAIN minted' = DOMAIN minted \cup {n}
      /\ n \notin DOMAIN minted
      /\ \A a \in DOMAIN minted : minted'[a] = minted[a]
      /\ minted'[n] = row
  <2> HIDE DEF row
  <2> QED
    BY <1>0, <1>1, <1>4
<1>5a. /\ minted'[n].client = request[r].client /\ minted'[n].code = request[r].code
       /\ minted'[n].token = request[r].token
       /\ minted'[n] = [client |-> minted'[n].client, code |-> minted'[n].code,
                        token |-> minted'[n].token, answered |-> minted'[n].answered,
                        overlapped |-> minted'[n].overlapped]
    BY <1>5
<1> HIDE DEF row
<1>6. HistoriesGrow
    BY <1>1, <1>5 DEF HistoriesGrow
<1>7. OnlyOf(r) /\ request'[r] = [request[r] EXCEPT !.new = n, !.at = place]
  <2>1. request' = [request EXCEPT ![r] = [request[r] EXCEPT !.new = n, !.at = place]]
    BY <1>1
  <2> QED
    BY <2>1, ChangeOne
<1>8. /\ request'[r] = [at |-> request'[r].at, code |-> request'[r].code,
                        token |-> request'[r].token, old |-> request'[r].old,
                        new |-> request'[r].new, client |-> request'[r].client,
                        scopes |-> request'[r].scopes, overlaps |-> request'[r].overlaps]
      /\ request'[r].at = place /\ request'[r].new = n
      /\ request'[r].code = request[r].code /\ request'[r].token = request[r].token
      /\ request'[r].client = request[r].client /\ request'[r].scopes = request[r].scopes
  <2> HIDE DEF place
  <2> QED
    BY <1>2, <1>7 DEF RequestInv
<1>9. Behind(r)' = Behind(r)
    BY <1>2, <1>5, <1>8 DEF Behind
<1>10. RequestInv(r)'
  <2>1. Behind(r)' \in DOMAIN issued' /\ issued'[Behind(r)'] = issued[Behind(r)]
    BY <1>2, <1>6, <1>9 DEF HistoriesGrow
  <2>2. request[r].code = None => request[r].token \in DOMAIN minted'
    BY <1>2, <1>5
  <2> QED
    BY <1>2, <1>5, <1>5a, <1>8, <2>1, <2>2 DEF RequestInv
<1>11. Origin(n)' = Behind(r)
    BY <1>2, <1>5, <1>5a DEF Origin, Behind
<1>12. MintedInv'
  <2> SUFFICES ASSUME NEW a \in DOMAIN minted'
               PROVE  /\ minted'[a] = [client |-> minted'[a].client, code |-> minted'[a].code,
                                       token |-> minted'[a].token,
                                       answered |-> minted'[a].answered,
                                       overlapped |-> minted'[a].overlapped]
                      /\ minted'[a].code = None => minted'[a].token \in DOMAIN minted'
                      /\ Origin(a)' \in DOMAIN issued'
                      /\ minted'[a].client = issued'[Origin(a)'].client
    BY DEF MintedInv
  <2>1. CASE a = n
    BY <1>1, <1>2, <1>5, <1>5a, <1>11, <2>1
  <2>2. CASE a # n
    <3>1. a \in DOMAIN minted /\ minted'[a] = minted[a]
      BY <1>5, <2>2
    <3> QED
      BY <1>6, <3>1, MintedKeeps DEF GrantInv, MintedInv
  <2> QED
    BY <2>1, <2>2
<1>13. AccessInv'
  <2> SUFFICES ASSUME NEW a \in DOMAIN access'
               PROVE  /\ a \in DOMAIN minted'
                      /\ access'[a] = [scopes |-> access'[a].scopes,
                                       isRevoked |-> access'[a].isRevoked,
                                       expiresAt |-> access'[a].expiresAt]
                      /\ access'[a].scopes \subseteq issued'[Origin(a)'].scopes
    BY DEF AccessInv
  <2>1. CASE a = n
    BY <1>1, <1>2, <1>5, <1>11, <2>1 DEF Insert
  <2>2. CASE a # n
    <3>1. a \in DOMAIN access /\ access'[a] = access[a]
      BY <1>1, <2>2 DEF Insert
    <3>2. a \in DOMAIN minted
      BY <3>1 DEF GrantInv, AccessInv
    <3>3. issued'[Origin(a)'] = issued[Origin(a)]
      BY <1>6, <3>2, MintedKeeps DEF GrantInv
    <3> QED
      BY <1>5, <3>1, <3>2, <3>3 DEF GrantInv, AccessInv
  <2> QED
    BY <2>1, <2>2
<1>14. CodesInv' /\ RefreshInv'
    BY <1>1, <1>6, SameTables, KeptCodes, KeptRefresh DEF GrantInv
<1>15. HistoryInv'
    BY <1>1, <1>5, <1>7 DEF GrantInv, HistoryInv, OnlyOf
<1>16. \A q \in Request : RequestInv(q)'
    BY <1>6, <1>7, <1>10, OneRequest
<1> QED
    BY <1>12, <1>13, <1>14, <1>15, <1>16 DEF GrantInv

\* An answer notes a refresh token that changes no origin.
LEMMA AnswerKeeps ==
    ASSUME GrantInv, NEW r \in Request, NEW t, Answer(r, t), UNCHANGED issued,
           request[r].new \in DOMAIN minted,
           \/ minted[request[r].new].code # None
           \/ minted[request[r].new].token = t
    PROVE  /\ HistoriesGrow /\ HistoryInv' /\ MintedKept
           /\ \A q \in Request : RequestInv(q)'
<1> DEFINE a == request[r].new
<1>1. PICK note : /\ Finish(r)
                  /\ minted' = [minted EXCEPT ![a] = [minted[a] EXCEPT !.token = t,
                                                     !.answered = TRUE, !.overlapped = note]]
    BY DEF Answer
<1> HIDE DEF a
<1>2. MintedInv /\ a \in DOMAIN minted
    BY DEF GrantInv, a
<1>3. minted[a] = [client |-> minted[a].client, code |-> minted[a].code,
                   token |-> minted[a].token, answered |-> minted[a].answered,
                   overlapped |-> minted[a].overlapped]
    BY <1>2 DEF MintedInv
<1>4. PICK new : /\ minted' = [minted EXCEPT ![a] = new]
                 /\ new = [minted[a] EXCEPT !.token = t, !.answered = TRUE, !.overlapped = note]
    BY <1>1
<1>5. /\ new = [client |-> new.client, code |-> new.code, token |-> new.token,
                answered |-> new.answered, overlapped |-> new.overlapped]
      /\ new.client = minted[a].client /\ new.code = minted[a].code /\ new.token = t
    BY <1>3, <1>4
<1>6. PICK S : minted \in Seq(S)
    BY DEF GrantInv, HistoryInv
<1>7. minted \in Seq(S \cup {new}) /\ new \in S \cup {new}
  <2>1. S \subseteq S \cup {new}
    OBVIOUS
  <2> QED
    BY <1>6, <2>1
<1>8. /\ minted' \in Seq(S \cup {new}) /\ DOMAIN minted' = DOMAIN minted
      /\ minted'[a] = new
      /\ \A b \in DOMAIN minted : b # a => minted'[b] = minted[b]
    BY <1>2, <1>4, <1>7
<1>9. HistoriesGrow
  <2>1. new.token = minted[a].token \/ minted[a].code # None
    BY <1>5 DEF a
  <2>2. ASSUME NEW b \in DOMAIN minted
        PROVE  /\ b \in DOMAIN minted'
               /\ minted'[b].code = minted[b].code /\ minted'[b].client = minted[b].client
               /\ minted'[b].token = minted[b].token \/ minted[b].code # None
    BY <1>5, <1>8, <2>1
  <2> QED
    BY <2>2 DEF HistoriesGrow
<1>10. MintedKept
  <2>1. ASSUME NEW b \in DOMAIN minted
        PROVE  minted'[b] = [client |-> minted'[b].client, code |-> minted'[b].code,
                             token |-> minted'[b].token, answered |-> minted'[b].answered,
                             overlapped |-> minted'[b].overlapped]
    BY <1>2, <1>5, <1>8 DEF MintedInv
  <2> QED
    BY <1>8, <2>1 DEF MintedKept
<1>11. OnlyOf(r) /\ \A q \in Request : RequestInv(q)'
    BY <1>1, <1>9, FinishKeeps
<1>12. HistoryInv'
    BY <1>8, <1>11 DEF GrantInv, HistoryInv, OnlyOf
<1> QED
    BY <1>9, <1>10, <1>11, <1>12

\* The refresh token of a redeemed code is created.
LEMMA PairKeeps ==
    ASSUME GrantInv, NEW r \in Request, CreateRefresh(r)
    PROVE  GrantInv'
<1>0. PICK a : a = request[r].new
    OBVIOUS
<1>1. /\ request[r].at = "pair" /\ UNCHANGED <<codes, access, issued>> /\ Answer(r, a)
      /\ refresh' = Insert(refresh, a,
                          [client |-> request[r].client, accessToken |-> a,
                           scopes |-> request[r].scopes, expiresAt |-> now + RefreshLife])
    BY <1>0 DEF CreateRefresh, At
<1>2. /\ a \in DOMAIN minted /\ minted[a].code = request[r].code /\ request[r].code # None
      /\ request[r].code \in DOMAIN issued
      /\ request[r].client = issued[request[r].code].client
      /\ request[r].scopes \subseteq issued[request[r].code].scopes
    BY <1>0, <1>1 DEF GrantInv, RequestInv, Behind
<1>3. /\ HistoriesGrow /\ HistoryInv' /\ MintedKept
      /\ \A q \in Request : RequestInv(q)'
    BY <1>0, <1>1, <1>2, AnswerKeeps
<1>4. /\ a \in DOMAIN minted' /\ minted'[a].code = request[r].code
      /\ issued'[request[r].code] = issued[request[r].code]
    BY <1>2, <1>3 DEF HistoriesGrow
<1>5. RefreshInv'
  <2> SUFFICES ASSUME NEW t \in DOMAIN refresh'
               PROVE  /\ refresh'[t] = [client |-> refresh'[t].client,
                                        accessToken |-> refresh'[t].accessToken,
                                        scopes |-> refresh'[t].scopes,
                                        expiresAt |-> refresh'[t].expiresAt]
                      /\ t \in DOMAIN minted' /\ minted'[t].code # None
                      /\ refresh'[t].client = issued'[minted'[t].code].client
                      /\ refresh'[t].scopes \subseteq issued'[minted'[t].code].scopes
    BY DEF RefreshInv
  <2>1. CASE t = a
    BY <1>1, <1>2, <1>4, <2>1 DEF Insert
  <2>2. CASE t # a
    <3>1. t \in DOMAIN refresh /\ refresh'[t] = refresh[t]
      BY <1>1, <2>2 DEF Insert
    <3>2. /\ t \in DOMAIN minted /\ minted[t].code # None
          /\ refresh[t].client = issued[minted[t].code].client
          /\ refresh[t].scopes \subseteq issued[minted[t].code].scopes
      BY <3>1 DEF GrantInv, RefreshInv
    <3>3. minted[t].code \in DOMAIN issued
      BY <3>2 DEF GrantInv, MintedInv, Origin
    <3>4. /\ t \in DOMAIN minted' /\ minted'[t].code = minted[t].code
          /\ issued'[minted[t].code] = issued[minted[t].code]
      BY <1>3, <3>2, <3>3 DEF HistoriesGrow
    <3> QED
      BY <3>1, <3>2, <3>4 DEF GrantInv, RefreshInv
  <2> QED
    BY <2>1, <2>2
<1>6. CodesInv' /\ AccessInv' /\ MintedInv'
    BY <1>1, <1>3, SameTables, KeptCodes, KeptAccess, KeptMinted DEF GrantInv
<1> QED
    BY <1>3, <1>5, <1>6 DEF GrantInv

\* The refresh token points to the new access token.
LEMMA LinkKeeps ==
    ASSUME GrantInv, NEW r \in Request, LinkNew(r)
    PROVE  GrantInv'
<1> DEFINE a == request[r].new
           t == request[r].token
<1>1. /\ request[r].at = "link" /\ UNCHANGED <<codes, access, issued>> /\ Answer(r, t)
      /\ refresh' = [u \in DOMAIN refresh |->
                        IF u = t THEN [refresh[u] EXCEPT !.accessToken = a] ELSE refresh[u]]
    BY DEF LinkNew, At
<1>2. a \in DOMAIN minted /\ minted[a].token = t
    BY <1>1 DEF GrantInv, RequestInv
<1>3. /\ HistoriesGrow /\ HistoryInv' /\ MintedKept
      /\ \A q \in Request : RequestInv(q)'
    BY <1>1, <1>2, AnswerKeeps
<1> HIDE DEF a, t
<1>4. RefreshKept
  <2> SUFFICES ASSUME NEW u \in DOMAIN refresh'
               PROVE  /\ u \in DOMAIN refresh
                      /\ refresh'[u] = [client |-> refresh'[u].client,
                                        accessToken |-> refresh'[u].accessToken,
                                        scopes |-> refresh'[u].scopes,
                                        expiresAt |-> refresh'[u].expiresAt]
                      /\ refresh'[u].client = refresh[u].client
                      /\ refresh'[u].scopes = refresh[u].scopes
    BY DEF RefreshKept
  <2>1. /\ u \in DOMAIN refresh
        /\ refresh'[u] = refresh[u] \/ refresh'[u] = [refresh[u] EXCEPT !.accessToken = a]
    BY <1>1
  <2>2. refresh[u] = [client |-> refresh[u].client, accessToken |-> refresh[u].accessToken,
                      scopes |-> refresh[u].scopes, expiresAt |-> refresh[u].expiresAt]
    BY <2>1 DEF GrantInv, RefreshInv
  <2> QED
    BY <2>1, <2>2
<1> QED
    BY <1>1, <1>3, <1>4, SameTables, KeepsAll

\* Every step keeps the invariant.
LEMMA GrantInvInductive == GrantInv /\ [Next]_vars => GrantInv'
<1> SUFFICES ASSUME GrantInv, [Next]_vars PROVE GrantInv'
    OBVIOUS
<1>1. ASSUME NEW client \in Client, NEW scopes \in SUBSET Scope \ {{}},
             IssueCode(client, scopes)
      PROVE  GrantInv'
    BY <1>1, IssueKeeps
<1>2. ASSUME NEW r \in Request, TokenStep(r) PROVE GrantInv'
  <2>1. CASE RedeemCode(r)
    BY <2>1, RedeemKeeps
  <2>2. CASE MarkAsUsed(r)
    BY <2>2, MarkKeeps
  <2>3. CASE Refresh(r)
    BY <2>3, RefreshKeeps
  <2>4. CASE RevokeOld(r)
    BY <2>4, RevokeKeeps
  <2>5. CASE MintAccess(r)
    BY <2>5, MintKeeps
  <2>6. CASE CreateRefresh(r)
    BY <2>6, PairKeeps
  <2>7. CASE LinkNew(r)
    BY <2>7, LinkKeeps
  <2>8. CASE ForeignKeyFails(r) \/ RequestFails(r)
    <3>1. Finish(r) /\ UNCHANGED <<tables, issued, minted>>
      BY <2>8 DEF ForeignKeyFails, RequestFails
    <3>2. HistoriesGrow /\ CodesKept /\ AccessKept /\ RefreshKept
      BY <3>1, SameTables DEF tables
    <3>3. OnlyOf(r) /\ \A q \in Request : RequestInv(q)'
      BY <3>1, <3>2, FinishKeeps
    <3> QED
      BY <3>1, <3>2, <3>3, OldTokens DEF OnlyOf
  <2> QED
    BY <1>2, <2>1, <2>2, <2>3, <2>4, <2>5, <2>6, <2>7, <2>8 DEF TokenStep
<1>3. ASSUME UNCHANGED <<issued, minted, request>>, CodesKept, AccessKept, RefreshKept
      PROVE  GrantInv'
    BY <1>3, SameTables, SameRequests, KeepsAll
<1>4. CASE CleanCodes
    BY <1>3, <1>4, RowsGo, SameTables DEF CleanCodes
<1>5. CASE CleanAccess
    BY <1>3, <1>5, RowsGo, SameTables DEF CleanAccess
<1>6. CASE CleanRefresh
    BY <1>3, <1>6, RowsGo, SameTables DEF CleanRefresh
<1>7. CASE CleanupFails \/ Tick
    BY <1>3, <1>7, SameTables DEF CleanupFails, Tick, tables
<1>8. CASE UNCHANGED vars
    BY <1>3, <1>8, SameTables DEF vars, tables
<1> QED
    BY <1>1, <1>2, <1>4, <1>5, <1>6, <1>7, <1>8 DEF Next, Cleanup

\* No chain of refreshes, whatever scopes they ask for, leads to an access token
\* with a scope that the authorization code did not have, or to another client
\* than the one the user approved.
THEOREM GrantsKept == Spec => []GrantsAreKept
<1>1. GrantInv => GrantsAreKept
    BY DEF GrantInv, MintedInv, AccessInv, GrantsAreKept, ScopesNeverWiden, ClientsNeverChange
<1> QED
    BY <1>1, GrantInvHolds, GrantInvInductive, PTL DEF Spec

-----------------------------------------------------------------------------
(* Two tokens where one was asked for.                                      *)

Working(r) == request[r].at # "idle"
Sending(r) == request[r].at \in {"pair", "link"}

\* A code that nobody can redeem any more.
Spent(c) == c \in DOMAIN codes => codes[c].isUsed

\* A request with a code: past its mark nobody redeems the code any more, and
\* an answer for the same code was given while it ran.
Redeeming(r) ==
    LET q == request[r] IN
    /\ q.token = None
    /\ q.at \in {"mint", "pair"} => Spent(q.code)
    /\ \A a \in DOMAIN minted :
          minted[a].answered /\ minted[a].code = q.code
          => q.overlaps /\ minted[a].overlapped

\* A request with a refresh token: when the refresh token does not point any
\* more to the access token that was read, the one it points to was given while
\* the request ran; and past the revocation that access token is dead.
Refreshing(r) ==
    LET q == request[r] IN
    /\ minted[q.token].answered
    /\ q.old \in DOMAIN minted
    /\ q.token \in DOMAIN refresh /\ refresh[q.token].accessToken # q.old
       => q.overlaps /\ minted[refresh[q.token].accessToken].overlapped
    /\ q.at \in {"mint", "link"} => ~Live(q.old)

\* What a request that is at work knows.
WorkInv(r) ==
    /\ Working(r) /\ request[r].code # None => Redeeming(r)
    /\ Working(r) /\ request[r].code = None => Refreshing(r)
    /\ Sending(r) => ~minted[request[r].new].answered
    /\ request[r].at = "mark" => request[r].code # None
    /\ request[r].at = "revoke" => request[r].code = None

\* Two requests for the same code or refresh token know of each other, and no
\* two send the same access token.
RivalsInv(r, q) ==
    /\ /\ Working(r) /\ Working(q)
       /\ request[r].code = request[q].code /\ request[r].token = request[q].token
       => request[r].overlaps
    /\ Sending(r) /\ Sending(q) => request[r].new # request[q].new

\* What was answered, and the refresh tokens that were.
AnsweredInv ==
    /\ \A a \in DOMAIN minted :
          /\ minted[a].code = None => minted[minted[a].token].answered
          /\ minted[a].answered /\ minted[a].code # None
             => minted[a].token = a /\ Spent(minted[a].code)
    /\ \A t \in DOMAIN refresh :
          /\ minted[t].answered
          /\ refresh[t].accessToken \in DOMAIN minted
          /\ minted[refresh[t].accessToken].answered

SpentInv ==
    /\ GrantInv
    /\ AnsweredInv
    /\ \A r \in Request : WorkInv(r)
    /\ \A r, q \in Request : r # q => RivalsInv(r, q)
    /\ ReplacedTokensAreDead /\ SecondRedemptionOverlaps

\* It holds before the first request.
LEMMA SpentInvHolds == Init => SpentInv
<1> SUFFICES ASSUME Init PROVE SpentInv
    OBVIOUS
<1>1. \A r \in Request : request[r].at = "idle"
    BY IdleFacts DEF Init
<1>2. \A r \in Request : WorkInv(r)
    BY <1>1 DEF WorkInv, Working, Sending
<1>3. \A r, q \in Request : RivalsInv(r, q)
    BY <1>1 DEF RivalsInv, Working, Sending
<1>4. DOMAIN refresh = {} /\ DOMAIN minted = {}
    BY DEF Init
<1> QED
    BY <1>2, <1>3, <1>4, GrantInvHolds
    DEF SpentInv, AnsweredInv, ReplacedTokensAreDead, SecondRedemptionOverlaps

-----------------------------------------------------------------------------
(* Steps that answer nothing.                                               *)

\* No token comes to life or is answered, no refresh token is created or moved,
\* and no code becomes redeemable again.
QuietStep ==
    /\ \A c \in DOMAIN issued : Spent(c) => Spent(c)'
    /\ \A a \in DOMAIN minted : /\ a \in DOMAIN minted' /\ minted'[a] = minted[a]
                                /\ Live(a)' => Live(a)
    /\ \A a \in DOMAIN minted' \ DOMAIN minted :
          /\ ~minted'[a].answered
          /\ minted'[a].code = None => /\ minted'[a].token \in DOMAIN minted
                                       /\ minted[minted'[a].token].answered
    /\ \A t \in DOMAIN refresh' :
          t \in DOMAIN refresh /\ refresh'[t].accessToken = refresh[t].accessToken

\* Two states of a request that differ in its rivals alone, if more are noted.
Kept(r) ==
    /\ request'[r].at = request[r].at /\ request'[r].code = request[r].code
    /\ request'[r].token = request[r].token /\ request'[r].old = request[r].old
    /\ request'[r].new = request[r].new
    /\ request[r].overlaps => request'[r].overlaps

\* What an access token was created with is in the histories.
LEMMA MintedKnown ==
    ASSUME GrantInv, NEW a \in DOMAIN minted
    PROVE  /\ minted[a].code # None => minted[a].code \in DOMAIN issued
           /\ minted[a].code = None => minted[a].token \in DOMAIN minted
BY DEF GrantInv, MintedInv, Origin

\* What a request is at work on is in the histories.
LEMMA WorkKnown ==
    ASSUME GrantInv, NEW r \in Request
    PROVE  /\ Working(r) /\ request[r].code # None => request[r].code \in DOMAIN issued
           /\ Working(r) /\ request[r].code = None => request[r].token \in DOMAIN minted
           /\ Sending(r) => /\ request[r].new \in DOMAIN minted /\ Working(r)
                            /\ minted[request[r].new].code = request[r].code
           /\ request[r].at = "pair" => request[r].code # None
           /\ request[r].at = "link" => /\ request[r].code = None
                                        /\ minted[request[r].new].token = request[r].token
BY DEF GrantInv, RequestInv, Behind, Working, Sending

\* A quiet step keeps what was answered as it is.
LEMMA QuietAnswered ==
    ASSUME SpentInv, QuietStep
    PROVE  AnsweredInv' /\ ReplacedTokensAreDead' /\ SecondRedemptionOverlaps'
<1> USE DEF QuietStep
<1>0. GrantInv /\ AnsweredInv /\ ReplacedTokensAreDead /\ SecondRedemptionOverlaps
    BY DEF SpentInv
<1>1. ASSUME NEW a \in DOMAIN minted'
      PROVE  /\ minted'[a].code = None => minted'[minted'[a].token].answered
             /\ minted'[a].answered /\ minted'[a].code # None
                => minted'[a].token = a /\ Spent(minted[a].code)'
  <2>1. CASE a \in DOMAIN minted
    <3>1. minted'[a] = minted[a]
      BY <2>1
    <3>2. minted[a].code = None
          => minted[a].token \in DOMAIN minted /\ minted[minted[a].token].answered
      BY <1>0, <2>1, MintedKnown DEF AnsweredInv
    <3>3. minted[a].answered /\ minted[a].code # None
          => minted[a].token = a /\ Spent(minted[a].code)'
      BY <1>0, <2>1, MintedKnown DEF AnsweredInv
    <3> QED
      BY <3>1, <3>2, <3>3
  <2>2. CASE a \notin DOMAIN minted
    BY <2>2
  <2> QED
    BY <2>1, <2>2
<1>2. ASSUME NEW t \in DOMAIN refresh'
      PROVE  /\ minted'[t].answered /\ refresh'[t].accessToken \in DOMAIN minted'
             /\ minted'[refresh'[t].accessToken].answered
  <2>1. t \in DOMAIN refresh /\ refresh'[t].accessToken = refresh[t].accessToken
    OBVIOUS
  <2>2. t \in DOMAIN minted
    BY <1>0, <2>1 DEF GrantInv, RefreshInv
  <2>3. /\ minted[t].answered /\ refresh[t].accessToken \in DOMAIN minted
        /\ minted[refresh[t].accessToken].answered
    BY <1>0, <2>1 DEF AnsweredInv
  <2> QED
    BY <2>1, <2>2, <2>3
<1>3. AnsweredInv'
    BY <1>1, <1>2 DEF AnsweredInv
<1>4. \A a \in DOMAIN minted' : minted'[a].answered => a \in DOMAIN minted
    OBVIOUS
<1>5. ReplacedTokensAreDead'
    BY <1>0, <1>4 DEF ReplacedTokensAreDead
<1>6. SecondRedemptionOverlaps'
    BY <1>0, <1>4 DEF SecondRedemptionOverlaps
<1> QED
    BY <1>3, <1>5, <1>6

\* And what a request knows, if it leaves it at work on the same.
LEMMA QuietWork ==
    ASSUME SpentInv, QuietStep, NEW r \in Request, Kept(r)
    PROVE  WorkInv(r)'
<1>1. GrantInv /\ WorkInv(r) /\ AnsweredInv
    BY DEF SpentInv
<1>2. \A a \in DOMAIN minted' : minted'[a].answered => a \in DOMAIN minted
    BY DEF QuietStep
<1>3. ASSUME Working(r), request[r].code # None PROVE Redeeming(r)'
  <2>1. request[r].code \in DOMAIN issued
    BY <1>1, <1>3, WorkKnown
  <2>2. Redeeming(r)
    BY <1>1, <1>3 DEF WorkInv
  <2> QED
    BY <1>2, <2>1, <2>2 DEF Redeeming, QuietStep, Kept
<1>4. ASSUME Working(r), request[r].code = None PROVE Refreshing(r)'
  <2>1. request[r].token \in DOMAIN minted
    BY <1>1, <1>4, WorkKnown
  <2>2. Refreshing(r)
    BY <1>1, <1>4 DEF WorkInv
  <2>3. \A t \in DOMAIN refresh : refresh[t].accessToken \in DOMAIN minted
    BY <1>1 DEF AnsweredInv
  <2> QED
    BY <2>1, <2>2, <2>3 DEF Refreshing, QuietStep, Kept
<1>5. ASSUME Sending(r) PROVE ~minted'[request'[r].new].answered
    BY <1>1, <1>5, WorkKnown DEF WorkInv, QuietStep, Kept
<1> QED
    BY <1>1, <1>3, <1>4, <1>5 DEF WorkInv, Working, Sending, Kept

\* Two requests that both stay as they are remain rivals as they were.
LEMMA KeptRivals ==
    ASSUME NEW r, NEW q, RivalsInv(r, q), Kept(r), Kept(q)
    PROVE  RivalsInv(r, q)'
BY DEF RivalsInv, Kept, Working, Sending

\* A quiet step that leaves all requests at work on the same.
LEMMA QuietForAll ==
    ASSUME SpentInv, GrantInv', QuietStep, \A r \in Request : Kept(r)
    PROVE  SpentInv'
<1>1. \A r, q \in Request : r # q => RivalsInv(r, q)'
    BY KeptRivals DEF SpentInv
<1> QED
    BY <1>1, QuietAnswered, QuietWork DEF SpentInv

\* A quiet step of one request.
LEMMA QuietForOthers ==
    ASSUME SpentInv, GrantInv', QuietStep, NEW r \in Request, WorkInv(r)',
           \A q \in Request : q # r => Kept(q) /\ RivalsInv(r, q)' /\ RivalsInv(q, r)'
    PROVE  SpentInv'
<1>1. \A q, p \in Request : q # p => RivalsInv(q, p)'
    BY KeptRivals DEF SpentInv
<1>2. \A q \in Request : WorkInv(q)'
    BY QuietWork
<1> QED
    BY <1>1, <1>2, QuietAnswered DEF SpentInv

\* Requests that are left alone.
LEMMA AloneIsKept ==
    ASSUME NEW r, request'[r] = request[r]
    PROVE  Kept(r)
BY DEF Kept

\* The cleanup, the clock and a new code answer nothing.
LEMMA CleanupSpends ==
    ASSUME SpentInv, GrantInv', Cleanup \/ CleanupFails \/ Tick
    PROVE  SpentInv'
<1>1. UNCHANGED <<issued, minted, request>>
    BY DEF Cleanup, CleanCodes, CleanAccess, CleanRefresh, CleanupFails, Tick
<1>2. \A c : Spent(c) => Spent(c)'
    BY DEF Cleanup, CleanCodes, CleanAccess, CleanRefresh, CleanupFails, Tick, tables,
           Spent, Without
<1>3. \A a : Live(a)' => Live(a)
    BY DEF Cleanup, CleanCodes, CleanAccess, CleanRefresh, CleanupFails, Tick, tables,
           Live, Without
<1>4. \A t \in DOMAIN refresh' :
          t \in DOMAIN refresh /\ refresh'[t].accessToken = refresh[t].accessToken
    BY DEF Cleanup, CleanCodes, CleanAccess, CleanRefresh, CleanupFails, Tick, tables, Without
<1>5. QuietStep
    BY <1>1, <1>2, <1>3, <1>4 DEF QuietStep
<1>6. \A r \in Request : Kept(r)
    BY <1>1, AloneIsKept
<1> QED
    BY <1>5, <1>6, QuietForAll

\* A new code has no token yet.
LEMMA IssueSpends ==
    ASSUME SpentInv, GrantInv', NEW client \in Client, NEW scopes \in SUBSET Scope,
           IssueCode(client, scopes)
    PROVE  SpentInv'
<1> DEFINE row == [client |-> client, scopes |-> scopes, isUsed |-> FALSE,
                   expiresAt |-> now + CodeLife]
<1>1. PICK n : n = Len(issued) + 1
    OBVIOUS
<1>2. UNCHANGED <<access, refresh, request, minted>> /\ codes' = Insert(codes, n, row)
    BY <1>1 DEF IssueCode
<1>3. n \notin DOMAIN issued
    BY <1>1 DEF SpentInv, GrantInv, HistoryInv
<1> HIDE DEF row
<1>4. ASSUME NEW c \in DOMAIN issued, Spent(c) PROVE Spent(c)'
  <2>1. c # n
    BY <1>3
  <2>2. c \in DOMAIN codes' => c \in DOMAIN codes /\ codes'[c] = codes[c]
    BY <1>2, <2>1 DEF Insert
  <2> QED
    BY <1>4, <2>2 DEF Spent
<1>5. QuietStep
    BY <1>2, <1>4 DEF QuietStep, Live
<1>6. \A r \in Request : Kept(r)
    BY <1>2, AloneIsKept
<1> QED
    BY <1>5, <1>6, QuietForAll

\* What a step that changes the record of one request leaves of the others.
LEMMA ChangesOne ==
    ASSUME GrantInv, NEW r \in Request, NEW new, request' = [request EXCEPT ![r] = new]
    PROVE  request'[r] = new /\ \A q \in Request : q # r => request'[q] = request[q] /\ Kept(q)
<1>1. request = [q \in Request |-> request[q]]
    BY DEF GrantInv, HistoryInv
<1>2. request'[r] = new /\ \A q \in Request : q # r => request'[q] = request[q]
    BY <1>1
<1> QED
    BY <1>2, AloneIsKept

\* A request that ends without an answer.
LEMMA FailSpends ==
    ASSUME SpentInv, GrantInv', NEW r \in Request, ForeignKeyFails(r) \/ RequestFails(r)
    PROVE  SpentInv'
<1>1. Finish(r) /\ UNCHANGED <<tables, issued, minted>>
    BY DEF ForeignKeyFails, RequestFails
<1>2. QuietStep
    BY <1>1 DEF QuietStep, Spent, Live, tables
<1>3. request'[r] = Idle /\ \A q \in Request : q # r => Kept(q)
    BY <1>1, ChangesOne DEF Finish, SpentInv
<1>4. request'[r].at = "idle" /\ ~Working(r)' /\ ~Sending(r)'
    BY <1>3, IdleFacts DEF Working, Sending
<1> QED
    BY <1>2, <1>3, <1>4, QuietForOthers DEF WorkInv, RivalsInv

\* A quiet step after which a request creates its access token.
LEMMA GotoSpends ==
    ASSUME SpentInv, GrantInv', QuietStep, NEW r \in Request, Goto(r, "mint"),
           UNCHANGED <<issued, minted>>,
           request[r].at \in {"mark", "revoke"},
           NEW code, code = request[r].code, NEW old, old = request[r].old,
           code # None => Spent(code)', code = None => ~Live(old)'
    PROVE  SpentInv'
<1>1. GrantInv /\ RequestInv(r) /\ WorkInv(r) /\ AnsweredInv
    BY DEF SpentInv, GrantInv
<1>2. /\ request'[r] = [request[r] EXCEPT !.at = "mint"]
      /\ \A q \in Request : q # r => request'[q] = request[q] /\ Kept(q)
    BY <1>1, ChangesOne DEF Goto
<1>3. /\ request'[r].at = "mint" /\ request'[r].code = request[r].code
      /\ request'[r].token = request[r].token /\ request'[r].old = request[r].old
      /\ request'[r].overlaps = request[r].overlaps
    BY <1>1, <1>2 DEF RequestInv
<1>4. ASSUME request[r].code # None PROVE Redeeming(r)'
  <2>1. Redeeming(r)
    BY <1>1, <1>4 DEF WorkInv, Working
  <2> QED
    BY <1>3, <1>4, <2>1 DEF Redeeming
<1>5. ASSUME request[r].code = None PROVE Refreshing(r)'
  <2>1. Refreshing(r)
    BY <1>1, <1>5 DEF WorkInv, Working
  <2> QED
    BY <1>3, <1>5, <2>1 DEF Refreshing, QuietStep
<1>6. WorkInv(r)'
    BY <1>3, <1>4, <1>5 DEF WorkInv, Sending
<1>7. ASSUME NEW q \in Request, q # r PROVE RivalsInv(r, q)' /\ RivalsInv(q, r)'
  <2>1. RivalsInv(r, q) /\ RivalsInv(q, r)
    BY <1>7 DEF SpentInv
  <2> QED
    BY <1>2, <1>3, <1>7, <2>1 DEF RivalsInv, Working, Sending
<1> QED
    BY <1>2, <1>6, <1>7, QuietForOthers

\* The code is marked: nobody redeems it any more.
LEMMA MarkSpends ==
    ASSUME SpentInv, GrantInv', NEW r \in Request, MarkAsUsed(r)
    PROVE  SpentInv'
<1>1. /\ UNCHANGED <<access, refresh, issued, minted>>
      /\ Goto(r, "mint") /\ request[r].at = "mark"
      /\ codes' = [c \in DOMAIN codes |->
                      [codes[c] EXCEPT !.isUsed = @ \/ c = request[r].code]]
    BY DEF MarkAsUsed, At
<1>2. GrantInv /\ request[r].code # None
    BY <1>1 DEF SpentInv, WorkInv
<1>3. \A c \in DOMAIN codes :
          c \in DOMAIN codes' /\ codes'[c].isUsed = (codes[c].isUsed \/ c = request[r].code)
  <2> SUFFICES ASSUME NEW c \in DOMAIN codes
               PROVE  codes'[c].isUsed = (codes[c].isUsed \/ c = request[r].code)
    BY <1>1
  <2>1. PICK used : /\ used = (codes[c].isUsed \/ c = request[r].code)
                    /\ codes'[c] = [codes[c] EXCEPT !.isUsed = used]
    BY <1>1
  <2>2. codes[c] = [client |-> codes[c].client, scopes |-> codes[c].scopes,
                    isUsed |-> codes[c].isUsed, expiresAt |-> codes[c].expiresAt]
    BY <1>2 DEF GrantInv, CodesInv
  <2> QED
    BY <2>1, <2>2
<1>4. \A c : Spent(c) => Spent(c)'
    BY <1>1, <1>3 DEF Spent
<1>5. QuietStep
    BY <1>1, <1>4 DEF QuietStep, Live
<1>6. PICK code : code = request[r].code
    OBVIOUS
<1>7. Spent(code)'
    BY <1>1, <1>3, <1>6 DEF Spent
<1> QED
    BY <1>1, <1>2, <1>5, <1>6, <1>7, GotoSpends

\* The access token that was read is revoked.
LEMMA RevokeSpends ==
    ASSUME SpentInv, GrantInv', NEW r \in Request, RevokeOld(r)
    PROVE  SpentInv'
<1>1. /\ UNCHANGED <<codes, refresh, issued, minted>>
      /\ Goto(r, "mint") /\ request[r].at = "revoke"
      /\ access' = [a \in DOMAIN access |->
                       [access[a] EXCEPT !.isRevoked = @ \/ a = request[r].old]]
    BY DEF RevokeOld, At
<1>2. GrantInv /\ request[r].code = None
    BY <1>1 DEF SpentInv, WorkInv
<1>3. \A a \in DOMAIN access : access'[a].isRevoked = (access[a].isRevoked \/ a = request[r].old)
  <2> SUFFICES ASSUME NEW a \in DOMAIN access
               PROVE  access'[a].isRevoked = (access[a].isRevoked \/ a = request[r].old)
    OBVIOUS
  <2>1. PICK dead : /\ dead = (access[a].isRevoked \/ a = request[r].old)
                    /\ access'[a] = [access[a] EXCEPT !.isRevoked = dead]
    BY <1>1
  <2>2. access[a] = [scopes |-> access[a].scopes, isRevoked |-> access[a].isRevoked,
                     expiresAt |-> access[a].expiresAt]
    BY <1>2 DEF GrantInv, AccessInv
  <2> QED
    BY <2>1, <2>2
<1>4. DOMAIN access' = DOMAIN access
    BY <1>1
<1>5. \A a : Live(a)' => Live(a) /\ a # request[r].old
    BY <1>3, <1>4 DEF Live
<1>6. QuietStep
    BY <1>1, <1>5 DEF QuietStep, Spent
<1> QED
    BY <1>1, <1>2, <1>5, <1>6, GotoSpends

\* A request gets to work: rivals are noted on both sides.
LEMMA EnterNotes ==
    ASSUME GrantInv, NEW r \in Request, NEW work, Enter(r, work),
           work = [at |-> work.at, code |-> work.code, token |-> work.token,
                   old |-> work.old, new |-> work.new, client |-> work.client,
                   scopes |-> work.scopes, overlaps |-> work.overlaps]
    PROVE  /\ request'[r].at = work.at /\ request'[r].code = work.code
           /\ request'[r].token = work.token /\ request'[r].old = work.old
           /\ \A q \in Request : q # r =>
                 /\ Kept(q)
                 /\ /\ Working(q) /\ request[q].code = work.code
                    /\ request[q].token = work.token
                    => request'[q].overlaps /\ request'[r].overlaps
<1> DEFINE rivals == {q \in Request \ {r} : /\ request[q].at # "idle"
                                            /\ request[q].code = work.code
                                            /\ request[q].token = work.token}
<1>1. request' = [q \in Request |->
          IF q = r THEN [work EXCEPT !.overlaps = rivals # {}]
          ELSE [request[q] EXCEPT !.overlaps = @ \/ q \in rivals]]
    BY DEF Enter
<1>2. request'[r] = [work EXCEPT !.overlaps = rivals # {}]
    BY <1>1
<1>3. /\ request'[r].at = work.at /\ request'[r].code = work.code
      /\ request'[r].token = work.token /\ request'[r].old = work.old
      /\ request'[r].overlaps = (rivals # {})
  <2> HIDE DEF rivals
  <2> QED
    BY <1>2
<1>4. ASSUME NEW q \in Request, q # r
      PROVE  /\ Kept(q)
             /\ q \in rivals => request'[q].overlaps /\ request'[r].overlaps
  <2>1. request'[q] = [request[q] EXCEPT !.overlaps = request[q].overlaps \/ q \in rivals]
    BY <1>1, <1>4
  <2>2. RequestInv(q)
    BY DEF GrantInv
  <2>3. q \in rivals => request'[r].overlaps
    BY <1>3
  <2> HIDE DEF rivals
  <2>4. /\ request'[q].at = request[q].at /\ request'[q].code = request[q].code
        /\ request'[q].token = request[q].token /\ request'[q].old = request[q].old
        /\ request'[q].new = request[q].new
        /\ request'[q].overlaps = (request[q].overlaps \/ q \in rivals)
    BY <2>1, <2>2 DEF RequestInv
  <2> QED
    BY <2>3, <2>4 DEF Kept
<1> QED
    BY <1>3, <1>4 DEF Working

\* A request gets to work on a code that nobody has used, or on a refresh token
\* with the access token that it points to.
LEMMA EnterSpends ==
    ASSUME SpentInv, GrantInv', UNCHANGED <<tables, issued, minted>>,
           NEW r \in Request, NEW work, Enter(r, work),
           work = [at |-> work.at, code |-> work.code, token |-> work.token,
                   old |-> work.old, new |-> work.new, client |-> work.client,
                   scopes |-> work.scopes, overlaps |-> work.overlaps],
           work.at = IF work.code # None THEN "mark" ELSE "revoke",
           work.code # None => /\ work.token = None
                               /\ \A a \in DOMAIN minted :
                                     minted[a].code = work.code => ~minted[a].answered,
           work.code = None => /\ work.token \in DOMAIN refresh
                               /\ refresh[work.token].accessToken = work.old
    PROVE  SpentInv'
<1>1. GrantInv /\ AnsweredInv
    BY DEF SpentInv
<1>2. /\ request'[r].at = work.at /\ request'[r].code = work.code
      /\ request'[r].token = work.token /\ request'[r].old = work.old
      /\ \A q \in Request : q # r =>
            /\ Kept(q)
            /\ /\ Working(q) /\ request[q].code = work.code
               /\ request[q].token = work.token
               => request'[q].overlaps /\ request'[r].overlaps
    BY <1>1, EnterNotes
<1>3. QuietStep
    BY DEF QuietStep, tables, Spent, Live
<1>4. ASSUME work.code # None PROVE Redeeming(r)'
    BY <1>2, <1>4 DEF Redeeming
<1>5. ASSUME work.code = None PROVE Refreshing(r)'
  <2>1. /\ minted[work.token].answered /\ work.old \in DOMAIN minted
        /\ refresh'[work.token].accessToken = work.old
    BY <1>1, <1>5 DEF AnsweredInv, tables
  <2>2. request'[r].at = "revoke"
    BY <1>2, <1>5
  <2> QED
    BY <1>2, <2>1, <2>2 DEF Refreshing
<1>6. WorkInv(r)'
    BY <1>2, <1>4, <1>5 DEF WorkInv, Sending
<1>7. ~Sending(r)'
    BY <1>2 DEF Sending
<1>8. ASSUME NEW q \in Request, q # r PROVE Kept(q) /\ RivalsInv(r, q)' /\ RivalsInv(q, r)'
  <2>1. /\ Kept(q)
        /\ /\ Working(q) /\ request[q].code = work.code /\ request[q].token = work.token
           => request'[q].overlaps /\ request'[r].overlaps
    BY <1>2, <1>8
  <2> QED
    BY <1>2, <1>7, <2>1 DEF RivalsInv, Kept, Working
<1> QED
    BY <1>3, <1>6, <1>8, QuietForOthers

\* A request to redeem begins: the code it read was not used.
LEMMA RedeemSpends ==
    ASSUME SpentInv, GrantInv', NEW r \in Request, RedeemCode(r)
    PROVE  SpentInv'
<1>1. PICK client \in Client, c \in DOMAIN codes :
          /\ ~codes[c].isUsed
          /\ Enter(r, [Idle EXCEPT !.at = "mark", !.code = c, !.client = client,
                                   !.scopes = codes[c].scopes])
    BY DEF RedeemCode
<1>2. UNCHANGED <<tables, issued, minted>>
    BY DEF RedeemCode
<1>3. GrantInv /\ AnsweredInv
    BY DEF SpentInv
<1>4. c # None
  <2>1. c \in DOMAIN issued /\ issued \in Seq(IssuedRow)
    BY <1>3 DEF GrantInv, CodesInv, HistoryInv
  <2> QED
    BY <2>1 DEF None
<1>5. PICK work : work = [Idle EXCEPT !.at = "mark", !.code = c, !.client = client,
                                      !.scopes = codes[c].scopes]
    OBVIOUS
<1>6. /\ work = [at |-> work.at, code |-> work.code, token |-> work.token,
                 old |-> work.old, new |-> work.new, client |-> work.client,
                 scopes |-> work.scopes, overlaps |-> work.overlaps]
      /\ work.at = "mark" /\ work.code = c /\ work.token = None
    BY <1>5 DEF Idle
<1>7. \A a \in DOMAIN minted : minted[a].code = c => ~minted[a].answered
    BY <1>1, <1>3, <1>4 DEF AnsweredInv, Spent
<1>8. Enter(r, work)
    BY <1>1, <1>5
<1> QED
    BY <1>2, <1>4, <1>6, <1>7, <1>8, EnterSpends

\* A request to refresh begins: the token it read is there, and is its own.
LEMMA RefreshSpends ==
    ASSUME SpentInv, GrantInv', NEW r \in Request, Refresh(r)
    PROVE  SpentInv'
<1>0. PICK client \in Client, t \in DOMAIN refresh, requested \in SUBSET Scope :
          Enter(r, [Idle EXCEPT !.at = "revoke", !.token = t, !.client = client,
                        !.old = refresh[t].accessToken,
                        !.scopes = IF requested = {} THEN refresh[t].scopes
                                   ELSE requested \cap refresh[t].scopes])
    BY DEF Refresh
<1>1. PICK scopes :
          /\ scopes = IF requested = {} THEN refresh[t].scopes
                      ELSE requested \cap refresh[t].scopes
          /\ Enter(r, [Idle EXCEPT !.at = "revoke", !.token = t, !.client = client,
                                   !.old = refresh[t].accessToken, !.scopes = scopes])
    BY <1>0
<1>2. UNCHANGED <<tables, issued, minted>>
    BY DEF Refresh
<1>3. PICK work : work = [Idle EXCEPT !.at = "revoke", !.token = t, !.client = client,
                                      !.old = refresh[t].accessToken, !.scopes = scopes]
    OBVIOUS
<1>4. /\ work = [at |-> work.at, code |-> work.code, token |-> work.token,
                 old |-> work.old, new |-> work.new, client |-> work.client,
                 scopes |-> work.scopes, overlaps |-> work.overlaps]
      /\ work.at = "revoke" /\ work.code = None /\ work.token = t
      /\ work.old = refresh[t].accessToken
    BY <1>3 DEF Idle
<1>5. Enter(r, work)
    BY <1>1, <1>3
<1> QED
    BY <1>2, <1>4, <1>5, EnterSpends

\* An access token is created; nobody has it yet.
LEMMA MintSpends ==
    ASSUME SpentInv, GrantInv', NEW r \in Request, MintAccess(r)
    PROVE  SpentInv'
<1>1. PICK n : n = Len(minted) + 1
    OBVIOUS
<1>2. PICK row : row = [client |-> request[r].client, code |-> request[r].code,
                        token |-> request[r].token, answered |-> FALSE,
                        overlapped |-> FALSE]
    OBVIOUS
<1>3. PICK place : place = IF request[r].code # None THEN "pair" ELSE "link"
    OBVIOUS
<1>4. PICK fresh : access' = Insert(access, n, fresh)
    BY <1>1 DEF MintAccess
<1>5. /\ UNCHANGED <<codes, refresh, issued>> /\ request[r].at = "mint"
      /\ minted' = Append(minted, row)
      /\ request' = [request EXCEPT ![r] = [request[r] EXCEPT !.new = n, !.at = place]]
    BY <1>1, <1>2, <1>3 DEF MintAccess, At
<1>6. GrantInv /\ RequestInv(r) /\ WorkInv(r) /\ AnsweredInv
    BY DEF SpentInv, GrantInv
<1>7. PICK S : minted \in Seq(S)
    BY <1>6 DEF GrantInv, HistoryInv
<1>8. minted \in Seq(S \cup {row}) /\ row \in S \cup {row}
  <2>1. S \subseteq S \cup {row}
    OBVIOUS
  <2> QED
    BY <1>7, <2>1
<1>9. /\ DOMAIN minted' = DOMAIN minted \cup {n} /\ n \notin DOMAIN minted
      /\ \A a \in DOMAIN minted : minted'[a] = minted[a]
      /\ minted'[n] = row
    BY <1>1, <1>5, <1>8
<1>10. ~row.answered /\ row.code = request[r].code /\ row.token = request[r].token
    BY <1>2
<1>11. Working(r) /\ (request[r].code = None => request[r].token \in DOMAIN minted)
    BY <1>5, <1>6, WorkKnown DEF Working
<1>12. \A a \in DOMAIN minted : Live(a)' => Live(a)
    BY <1>4, <1>9 DEF Live, Insert
<1>13. QuietStep
  <2>1. row.code = None => row.token \in DOMAIN minted /\ minted[row.token].answered
    BY <1>6, <1>10, <1>11 DEF WorkInv, Refreshing
  <2> QED
    BY <1>5, <1>9, <1>10, <1>12, <2>1 DEF QuietStep, Spent
<1>14. /\ request'[r] = [request[r] EXCEPT !.new = n, !.at = place]
       /\ \A q \in Request : q # r => request'[q] = request[q] /\ Kept(q)
    BY <1>5, <1>6, ChangesOne
<1>15. /\ request'[r].at = place /\ request'[r].new = n
       /\ request'[r].code = request[r].code /\ request'[r].token = request[r].token
       /\ request'[r].old = request[r].old /\ request'[r].overlaps = request[r].overlaps
    BY <1>6, <1>14 DEF RequestInv
<1>16. WorkInv(r)'
  <2>1. ASSUME request[r].code # None PROVE Redeeming(r)'
    <3>1. Redeeming(r) /\ Spent(request[r].code)
      BY <1>5, <1>6, <1>11, <2>1 DEF WorkInv, Redeeming
    <3>2. \A c : Spent(c)' <=> Spent(c)
      BY <1>5 DEF Spent
    <3> QED
      BY <1>9, <1>10, <1>15, <2>1, <3>1, <3>2 DEF Redeeming
  <2>2. ASSUME request[r].code = None PROVE Refreshing(r)'
    <3>1. Refreshing(r) /\ ~Live(request[r].old) /\ request[r].old \in DOMAIN minted
      BY <1>5, <1>6, <1>11, <2>2 DEF WorkInv, Refreshing
    <3>2. \A t \in DOMAIN refresh : refresh[t].accessToken \in DOMAIN minted
      BY <1>6 DEF AnsweredInv
    <3> QED
      BY <1>5, <1>9, <1>11, <1>12, <1>15, <2>2, <3>1, <3>2 DEF Refreshing
  <2>3. ~minted'[request'[r].new].answered /\ request'[r].at \in {"pair", "link"}
    BY <1>3, <1>9, <1>10, <1>15
  <2> QED
    BY <1>15, <2>1, <2>2, <2>3 DEF WorkInv
<1>17. ASSUME NEW q \in Request, q # r PROVE RivalsInv(r, q)' /\ RivalsInv(q, r)'
  <2>1. RivalsInv(r, q) /\ RivalsInv(q, r) /\ request'[q] = request[q]
    BY <1>14, <1>17 DEF SpentInv
  <2>2. Sending(q) => request[q].new # n
    BY <1>6, <1>9, WorkKnown
  <2> QED
    BY <1>11, <1>15, <2>1, <2>2 DEF RivalsInv, Working, Sending
<1> QED
    BY <1>13, <1>14, <1>16, <1>17, QuietForOthers

-----------------------------------------------------------------------------
(* Answers.                                                                 *)

\* An access token is answered, of the refresh token t, by the request r, with
\* the note of its rivals; nothing else happens to the histories.
Answered(a, t, r) ==
    /\ DOMAIN minted' = DOMAIN minted
    /\ \A b \in DOMAIN minted : b # a => minted'[b] = minted[b]
    /\ minted'[a].code = minted[a].code /\ minted'[a].token = t
    /\ minted'[a].answered /\ (request[r].overlaps => minted'[a].overlapped)
    /\ request'[r].at = "idle"
    /\ \A q \in Request : q # r => request'[q] = request[q]

\* An answer is noted with the access token it gives.
LEMMA AnswerIsNoted ==
    ASSUME SpentInv, NEW r \in Request, Sending(r), NEW t, Answer(r, t),
           NEW a, a = request[r].new
    PROVE  Answered(a, t, r)
<1>1. GrantInv
    BY DEF SpentInv
<1>2. PICK note : note = request[r].overlaps
    OBVIOUS
<1>3. PICK new : /\ Finish(r)
                 /\ minted' = [minted EXCEPT ![a] = new]
                 /\ new = [minted[a] EXCEPT !.token = t, !.answered = TRUE,
                                            !.overlapped = note]
    BY <1>2 DEF Answer
<1>4. a \in DOMAIN minted
    BY <1>1, WorkKnown
<1>5. minted[a] = [client |-> minted[a].client, code |-> minted[a].code,
                   token |-> minted[a].token, answered |-> minted[a].answered,
                   overlapped |-> minted[a].overlapped]
    BY <1>1, <1>4 DEF GrantInv, MintedInv
<1>6. /\ new.code = minted[a].code /\ new.token = t /\ new.answered
      /\ new.overlapped = note
    BY <1>3, <1>5
<1>7. PICK S : minted \in Seq(S)
    BY <1>1 DEF GrantInv, HistoryInv
<1>8. /\ DOMAIN minted' = DOMAIN minted /\ minted'[a] = new
      /\ \A b \in DOMAIN minted : b # a => minted'[b] = minted[b]
    BY <1>3, <1>4, <1>7
<1>9. request'[r] = Idle /\ \A q \in Request : q # r => request'[q] = request[q]
    BY <1>1, <1>3, ChangesOne DEF Finish
<1> QED
    BY <1>2, <1>6, <1>8, <1>9, IdleFacts DEF Answered

\* The note is what the others at work on the same, and the earlier answers for
\* the same code, call for.
LEMMA AnswerSpends ==
    ASSUME SpentInv, GrantInv', NEW r \in Request, Sending(r), NEW t,
           NEW a, a = request[r].new, Answered(a, t, r), UNCHANGED <<codes, access>>,
           request[r].code # None => request[r].at = "pair" /\ t = a,
           request[r].code = None => request[r].at = "link" /\ t = request[r].token,
           AnsweredInv', ReplacedTokensAreDead',
           \A q \in Request : q # r /\ Working(q) /\ request[q].code = None => Refreshing(q)'
    PROVE  SpentInv'
<1> USE DEF Answered
<1>1. /\ GrantInv /\ AnsweredInv /\ WorkInv(r) /\ SecondRedemptionOverlaps
      /\ a \in DOMAIN minted /\ minted[a].code = request[r].code /\ Working(r)
      /\ ~minted[a].answered
    BY WorkKnown DEF SpentInv, WorkInv
<1>2. ASSUME NEW q \in Request, q # r, Working(q), request[q].code # None
      PROVE  Redeeming(q)'
  <2>1. Redeeming(q) /\ request'[q] = request[q]
    BY <1>2 DEF SpentInv, WorkInv
  <2>2. \A c : Spent(c)' <=> Spent(c)
    BY DEF Spent
  <2>3. ASSUME minted'[a].code = request[q].code
        PROVE  request[q].overlaps /\ minted'[a].overlapped
    <3>1. request[r].code = request[q].code /\ request[r].code # None
      BY <1>1, <1>2, <2>3
    <3>2. request[r].token = None /\ request[q].token = None
      BY <1>1, <2>1, <3>1 DEF WorkInv, Redeeming
    <3>3. RivalsInv(r, q) /\ RivalsInv(q, r)
      BY <1>2 DEF SpentInv
    <3> QED
      BY <1>1, <1>2, <3>1, <3>2, <3>3 DEF RivalsInv
  <2> QED
    BY <1>1, <2>1, <2>2, <2>3 DEF Redeeming
<1>3. ASSUME NEW q \in Request PROVE WorkInv(q)'
  <2>1. CASE q = r
    BY <2>1 DEF WorkInv, Working, Sending
  <2>2. CASE q # r
    <3>1. request'[q] = request[q] /\ WorkInv(q) /\ RivalsInv(r, q)
      BY <2>2 DEF SpentInv
    <3>2. Sending(q) => /\ request[q].new # a /\ request[q].new \in DOMAIN minted
                        /\ ~minted[request[q].new].answered
      BY <1>1, <3>1, WorkKnown DEF RivalsInv, WorkInv
    <3> QED
      BY <1>2, <2>2, <3>1, <3>2 DEF WorkInv, Working, Sending
  <2> QED
    BY <2>1, <2>2
<1>4. ASSUME NEW q \in Request, NEW p \in Request, q # p PROVE RivalsInv(q, p)'
  <2>1. RivalsInv(q, p)
    BY <1>4 DEF SpentInv
  <2> QED
    BY <1>4, <2>1 DEF RivalsInv, Working, Sending
<1>5. SecondRedemptionOverlaps'
  <2> SUFFICES ASSUME NEW b \in DOMAIN minted, NEW c \in DOMAIN minted, b # c,
                      minted'[b].answered, minted'[c].answered,
                      minted'[b].code # None, minted'[b].code = minted'[c].code
               PROVE  minted'[b].overlapped /\ minted'[c].overlapped
    BY DEF SecondRedemptionOverlaps
  <2>1. CASE b # a /\ c # a
    BY <1>1, <2>1 DEF SecondRedemptionOverlaps
  <2>2. ASSUME NEW d \in DOMAIN minted, d # a, minted[d].answered,
               minted[d].code = request[r].code, request[r].code # None
        PROVE  minted'[d].overlapped /\ minted'[a].overlapped
    BY <1>1, <2>2 DEF WorkInv, Redeeming
  <2> QED
    BY <1>1, <2>1, <2>2
<1> QED
    BY <1>3, <1>4, <1>5 DEF SpentInv

\* What an answer leaves of the tokens that were answered before.
LEMMA EarlierAnswers ==
    ASSUME SpentInv, NEW r \in Request, Sending(r), NEW t,
           NEW a, a = request[r].new, Answered(a, t, r)
    PROVE  /\ \A b \in DOMAIN minted : minted[b].answered => b # a /\ minted'[b] = minted[b]
           /\ \A u \in DOMAIN refresh : /\ u \in DOMAIN minted /\ minted[u].answered
                                        /\ refresh[u].accessToken \in DOMAIN minted
                                        /\ minted[refresh[u].accessToken].answered
<1>1. GrantInv /\ AnsweredInv /\ WorkInv(r)
    BY DEF SpentInv
<1>2. ~minted[a].answered
    BY <1>1 DEF WorkInv
<1>3. \A u \in DOMAIN refresh : u \in DOMAIN minted
    BY <1>1 DEF GrantInv, RefreshInv
<1> QED
    BY <1>1, <1>2, <1>3 DEF Answered, AnsweredInv

\* The refresh token of a redeemed code is created.
LEMMA PairSpends ==
    ASSUME SpentInv, GrantInv', NEW r \in Request, CreateRefresh(r)
    PROVE  SpentInv'
<1>1. PICK a : a = request[r].new
    OBVIOUS
<1>2. PICK row : row = [client |-> request[r].client, accessToken |-> a,
                        scopes |-> request[r].scopes, expiresAt |-> now + RefreshLife]
    OBVIOUS
<1>3. /\ request[r].at = "pair" /\ Sending(r) /\ Answer(r, a)
      /\ UNCHANGED <<codes, access>> /\ refresh' = Insert(refresh, a, row)
    BY <1>1, <1>2 DEF CreateRefresh, At, Sending
<1>4. /\ GrantInv /\ AnsweredInv /\ WorkInv(r) /\ ReplacedTokensAreDead
      /\ request[r].code # None
      /\ a \in DOMAIN minted /\ minted[a].code = request[r].code /\ Working(r)
    BY <1>1, <1>3, WorkKnown DEF SpentInv
<1>5. Answered(a, a, r)
    BY <1>1, <1>3, AnswerIsNoted
<1>6. /\ \A b \in DOMAIN minted : minted[b].answered => b # a /\ minted'[b] = minted[b]
      /\ \A u \in DOMAIN refresh : /\ u \in DOMAIN minted /\ minted[u].answered
                                   /\ refresh[u].accessToken \in DOMAIN minted
                                   /\ minted[refresh[u].accessToken].answered
    BY <1>1, <1>3, <1>5, EarlierAnswers
<1>7. /\ refresh'[a].accessToken = a
      /\ \A u \in DOMAIN refresh' : u # a => u \in DOMAIN refresh /\ refresh'[u] = refresh[u]
    BY <1>2, <1>3 DEF Insert
<1>8. \A c : Spent(c)' <=> Spent(c)
    BY <1>3 DEF Spent
<1>9. AnsweredInv'
  <2>1. ASSUME NEW b \in DOMAIN minted'
        PROVE  /\ minted'[b].code = None => minted'[minted'[b].token].answered
               /\ minted'[b].answered /\ minted'[b].code # None
                  => minted'[b].token = b /\ Spent(minted[b].code)'
    <3>1. CASE b = a
      <4>1. Spent(request[r].code)
        BY <1>3, <1>4 DEF WorkInv, Redeeming
      <4> QED
        BY <1>4, <1>5, <1>8, <3>1, <4>1 DEF Answered
    <3>2. CASE b # a
      <4>1. minted'[b] = minted[b] /\ b \in DOMAIN minted
        BY <1>5, <2>1, <3>2 DEF Answered
      <4>2. minted[b].code = None => /\ minted[b].token \in DOMAIN minted
                                     /\ minted[minted[b].token].answered
        BY <1>4, <4>1, MintedKnown DEF AnsweredInv
      <4>3. minted[b].answered /\ minted[b].code # None
            => minted[b].token = b /\ Spent(minted[b].code)
        BY <1>4, <4>1 DEF AnsweredInv
      <4> QED
        BY <1>6, <1>8, <4>1, <4>2, <4>3
    <3> QED
      BY <3>1, <3>2
  <2>2. ASSUME NEW u \in DOMAIN refresh'
        PROVE  /\ minted'[u].answered /\ refresh'[u].accessToken \in DOMAIN minted'
               /\ minted'[refresh'[u].accessToken].answered
    <3>1. CASE u = a
      BY <1>4, <1>5, <1>7, <3>1 DEF Answered
    <3>2. CASE u # a
      BY <1>5, <1>6, <1>7, <3>2 DEF Answered
    <3> QED
      BY <3>1, <3>2
  <2>3. \A b \in DOMAIN minted' : minted'[b].code = minted[b].code
    BY <1>5 DEF Answered
  <2> QED
    BY <2>1, <2>2, <2>3 DEF AnsweredInv
<1>10. ReplacedTokensAreDead'
  <2> SUFFICES ASSUME NEW b \in DOMAIN minted, minted'[b].answered, Live(b)',
                      minted'[b].token \in DOMAIN refresh',
                      refresh'[minted'[b].token].accessToken # b
               PROVE  minted'[b].overlapped
    BY <1>5 DEF ReplacedTokensAreDead, Answered
  <2>1. b # a /\ minted'[b] = minted[b] /\ Live(b)
    BY <1>3, <1>5, <1>7 DEF Answered, Live
  <2>2. minted[b].token # a
  <3>1. CASE minted[b].code = None
    BY <1>4, <1>6, <3>1, MintedKnown DEF AnsweredInv
  <3>2. CASE minted[b].code # None
    BY <1>4, <2>1, <3>2 DEF AnsweredInv
  <3> QED
    BY <3>1, <3>2
  <2> QED
    BY <1>4, <1>7, <2>1, <2>2 DEF ReplacedTokensAreDead
<1>11. ASSUME NEW q \in Request, q # r, Working(q), request[q].code = None
       PROVE  Refreshing(q)'
  <2>1. Refreshing(q) /\ request'[q] = request[q] /\ request[q].token \in DOMAIN minted
    BY <1>4, <1>5, <1>11, WorkKnown DEF SpentInv, WorkInv, Answered
  <2>2. request[q].token # a /\ minted'[request[q].token] = minted[request[q].token]
    BY <1>6, <2>1 DEF Refreshing
  <2>3. \A b : Live(b)' <=> Live(b)
    BY <1>3 DEF Live
  <2> QED
    BY <1>5, <1>6, <1>7, <2>1, <2>2, <2>3 DEF Refreshing, Answered
<1> QED
    BY <1>1, <1>3, <1>4, <1>5, <1>9, <1>10, <1>11, AnswerSpends

\* The refresh token, if it is still there, points to the new access token.
LEMMA LinkSpends ==
    ASSUME SpentInv, GrantInv', NEW r \in Request, LinkNew(r)
    PROVE  SpentInv'
<1>1. PICK a, t : a = request[r].new /\ t = request[r].token
    OBVIOUS
<1>2. /\ request[r].at = "link" /\ Sending(r) /\ Answer(r, t)
      /\ UNCHANGED <<codes, access>>
      /\ refresh' = [u \in DOMAIN refresh |->
                        IF u = t THEN [refresh[u] EXCEPT !.accessToken = a] ELSE refresh[u]]
    BY <1>1 DEF LinkNew, At, Sending
<1>3. /\ GrantInv /\ AnsweredInv /\ WorkInv(r) /\ ReplacedTokensAreDead
      /\ request[r].code = None /\ a \in DOMAIN minted /\ minted[a].code = None
      /\ Working(r) /\ t \in DOMAIN minted /\ minted[t].answered
    BY <1>1, <1>2, WorkKnown DEF SpentInv, WorkInv, Refreshing
<1>4. Answered(a, t, r)
    BY <1>1, <1>2, AnswerIsNoted
<1>5. /\ \A b \in DOMAIN minted : minted[b].answered => b # a /\ minted'[b] = minted[b]
      /\ \A u \in DOMAIN refresh : /\ u \in DOMAIN minted /\ minted[u].answered
                                   /\ refresh[u].accessToken \in DOMAIN minted
                                   /\ minted[refresh[u].accessToken].answered
    BY <1>1, <1>2, <1>4, EarlierAnswers
<1>6. /\ DOMAIN refresh' = DOMAIN refresh
      /\ \A u \in DOMAIN refresh : u # t => refresh'[u] = refresh[u]
      /\ t \in DOMAIN refresh => refresh'[t].accessToken = a
  <2>1. t \in DOMAIN refresh => /\ refresh'[t] = [refresh[t] EXCEPT !.accessToken = a]
                                /\ refresh[t] = [client |-> refresh[t].client,
                                                 accessToken |-> refresh[t].accessToken,
                                                 scopes |-> refresh[t].scopes,
                                                 expiresAt |-> refresh[t].expiresAt]
    BY <1>2, <1>3 DEF GrantInv, RefreshInv
  <2> QED
    BY <1>2, <2>1
<1>7. \A b : (Spent(b)' <=> Spent(b)) /\ (Live(b)' <=> Live(b))
    BY <1>2 DEF Spent, Live
<1>8. AnsweredInv'
  <2>1. ASSUME NEW b \in DOMAIN minted'
        PROVE  /\ minted'[b].code = None => minted'[minted'[b].token].answered
               /\ minted'[b].answered /\ minted'[b].code # None
                  => minted'[b].token = b /\ Spent(minted[b].code)'
    <3>1. CASE b = a
      BY <1>3, <1>4, <1>5, <3>1 DEF Answered
    <3>2. CASE b # a
      <4>1. minted'[b] = minted[b] /\ b \in DOMAIN minted
        BY <1>4, <2>1, <3>2 DEF Answered
      <4>2. minted[b].code = None => /\ minted[b].token \in DOMAIN minted
                                     /\ minted[minted[b].token].answered
        BY <1>3, <4>1, MintedKnown DEF AnsweredInv
      <4>3. minted[b].answered /\ minted[b].code # None
            => minted[b].token = b /\ Spent(minted[b].code)
        BY <1>3, <4>1 DEF AnsweredInv
      <4> QED
        BY <1>5, <1>7, <4>1, <4>2, <4>3
    <3> QED
      BY <3>1, <3>2
  <2>2. ASSUME NEW u \in DOMAIN refresh'
        PROVE  /\ minted'[u].answered /\ refresh'[u].accessToken \in DOMAIN minted'
               /\ minted'[refresh'[u].accessToken].answered
    <3>1. CASE u = t
      BY <1>3, <1>4, <1>5, <1>6, <3>1 DEF Answered
    <3>2. CASE u # t
      BY <1>4, <1>5, <1>6, <3>2 DEF Answered
    <3> QED
      BY <3>1, <3>2
  <2>3. \A b \in DOMAIN minted' : minted'[b].code = minted[b].code
    BY <1>4 DEF Answered
  <2> QED
    BY <2>1, <2>2, <2>3 DEF AnsweredInv
<1>9. t \in DOMAIN refresh /\ refresh[t].accessToken # request[r].old
      => request[r].overlaps /\ minted[refresh[t].accessToken].overlapped
    BY <1>1, <1>3 DEF WorkInv, Refreshing
<1>10. ReplacedTokensAreDead'
  <2> SUFFICES ASSUME NEW b \in DOMAIN minted, minted'[b].answered, Live(b)',
                      minted'[b].token \in DOMAIN refresh',
                      refresh'[minted'[b].token].accessToken # b
               PROVE  minted'[b].overlapped
    BY <1>4 DEF ReplacedTokensAreDead, Answered
  <2>1. b # a /\ minted'[b] = minted[b] /\ Live(b)
    BY <1>4, <1>6, <1>7 DEF Answered
  <2>2. CASE minted[b].token # t \/ refresh[t].accessToken # b
    BY <1>3, <1>6, <2>1, <2>2 DEF ReplacedTokensAreDead
  <2>3. CASE minted[b].token = t /\ refresh[t].accessToken = b
    <3>1. ~Live(request[r].old)
      BY <1>2, <1>3 DEF WorkInv, Refreshing
    <3> QED
      BY <1>6, <1>9, <2>1, <2>3, <3>1
  <2> QED
    BY <2>2, <2>3
<1>11. ASSUME NEW q \in Request, q # r, Working(q), request[q].code = None
       PROVE  Refreshing(q)'
  <2>1. Refreshing(q) /\ request'[q] = request[q] /\ request[q].token \in DOMAIN minted
    BY <1>3, <1>4, <1>11, WorkKnown DEF SpentInv, WorkInv, Answered
  <2>2. minted'[request[q].token] = minted[request[q].token]
    BY <1>5, <2>1 DEF Refreshing
  <2>3. CASE request[q].token # t
    BY <1>4, <1>5, <1>6, <1>7, <2>1, <2>2, <2>3 DEF Refreshing, Answered
  <2>4. CASE request[q].token = t
    <3>1. RivalsInv(r, q) /\ RivalsInv(q, r)
      BY <1>11 DEF SpentInv
    <3>2. request[q].overlaps /\ minted'[a].overlapped
      BY <1>1, <1>3, <1>4, <1>11, <2>4, <3>1 DEF RivalsInv, Answered
    <3> QED
      BY <1>4, <1>6, <1>7, <2>1, <2>2, <2>4, <3>2 DEF Refreshing, Answered
  <2> QED
    BY <2>3, <2>4
<1> QED
    BY <1>1, <1>2, <1>3, <1>4, <1>8, <1>10, <1>11, AnswerSpends

\* Every step keeps the invariant.
LEMMA SpentInvInductive == SpentInv /\ [Next]_vars => SpentInv'
<1> SUFFICES ASSUME SpentInv, [Next]_vars PROVE SpentInv'
    OBVIOUS
<1>1. GrantInv'
    BY GrantInvInductive DEF SpentInv
<1>2. ASSUME NEW r \in Request, TokenStep(r) PROVE SpentInv'
    BY <1>1, <1>2, RedeemSpends, MarkSpends, RefreshSpends, RevokeSpends, MintSpends,
       PairSpends, LinkSpends, FailSpends DEF TokenStep
<1>3. CASE UNCHANGED vars
  <2>1. UNCHANGED <<codes, access, refresh, request, issued, minted>>
    BY <1>3 DEF vars, tables
  <2>2. QuietStep /\ \A r \in Request : Kept(r)
    BY <2>1 DEF QuietStep, Spent, Live, Kept
  <2> QED
    BY <1>1, <2>2, QuietForAll
<1>4. ASSUME NEW client \in Client, NEW scopes \in SUBSET Scope \ {{}},
             IssueCode(client, scopes)
      PROVE  SpentInv'
    BY <1>1, <1>4, IssueSpends
<1> QED
    BY <1>1, <1>2, <1>3, <1>4, CleanupSpends DEF Next

\* A client has two working access tokens of one refresh token, or two answers
\* for one code, only where two of its requests ran at the same time.
THEOREM TokensSpent == Spec => []TokensAreSpent
<1>1. SpentInv => TokensAreSpent
    BY DEF SpentInv, TokensAreSpent
<1> QED
    BY <1>1, SpentInvHolds, SpentInvInductive, PTL DEF Spec

-----------------------------------------------------------------------------
(* The types of the tables and of the requests.                             *)

Longer ==
    /\ Len(issued) \in Nat /\ Len(issued)' \in Nat /\ Len(issued) <= Len(issued)'
    /\ Len(minted) \in Nat /\ Len(minted)' \in Nat /\ Len(minted) <= Len(minted)'

SizesTyped ==
    /\ now \in 0 .. MaxNow /\ cleanup \in {"codes", "access", "refresh"}
    /\ Len(issued) <= MaxCodes /\ Len(minted) <= MaxAccess

CodesTyped ==
    \A c \in DOMAIN codes : c \in 1 .. Len(issued) /\ codes[c] \in CodeRow

AccessTyped ==
    \A a \in DOMAIN access : a \in 1 .. Len(minted) /\ access[a] \in AccessRow

RefreshTyped ==
    \A t \in DOMAIN refresh : t \in 1 .. Len(minted) /\ refresh[t] \in RefreshRow

RequestTyped(r) ==
    /\ request[r].at \in {"idle", "mark", "revoke", "mint", "pair", "link"}
    /\ request[r].code \in 0 .. Len(issued)
    /\ request[r].token \in 0 .. Len(minted)
    /\ request[r].new \in 0 .. Len(minted)
    /\ request[r].scopes \subseteq Scope

\* The type invariant, part by part, before a step and after it.
LEMMA TypeParts ==
    /\ TypeOK <=> /\ SizesTyped /\ CodesTyped /\ AccessTyped /\ RefreshTyped
                  /\ \A r \in Request : RequestTyped(r)
    /\ TypeOK' <=> /\ SizesTyped' /\ CodesTyped' /\ AccessTyped' /\ RefreshTyped'
                   /\ \A r \in Request : RequestTyped(r)'
BY DEF TypeOK, SizesTyped, CodesTyped, AccessTyped, RefreshTyped, RequestTyped

\* The histories are numbered from one.
LEMMA Lengths ==
    ASSUME GrantInv
    PROVE  /\ Len(issued) \in Nat /\ DOMAIN issued = 1 .. Len(issued)
           /\ Len(minted) \in Nat /\ DOMAIN minted = 1 .. Len(minted)
<1>1. issued \in Seq(IssuedRow)
    BY DEF GrantInv, HistoryInv
<1>2. PICK S : minted \in Seq(S)
    BY DEF GrantInv, HistoryInv
<1> QED
    BY <1>1, <1>2

\* A history that is left alone, or of which a row is amended, keeps its length.
LEMMA SameLength ==
    ASSUME GrantInv, GrantInv', UNCHANGED issued, DOMAIN minted' = DOMAIN minted
    PROVE  Longer /\ Len(issued)' = Len(issued) /\ Len(minted)' = Len(minted)
<1>1. /\ Len(issued) \in Nat /\ Len(minted) \in Nat /\ Len(issued)' \in Nat
      /\ Len(minted)' \in Nat
      /\ DOMAIN minted = 1 .. Len(minted) /\ DOMAIN minted' = 1 .. Len(minted)'
    BY Lengths
<1>2. Len(minted)' = Len(minted)
    BY <1>1
<1> QED
    BY <1>1, <1>2 DEF Longer

\* Rows that are left have their type.
LEMMA RowsTyped ==
    ASSUME TypeOK, Longer
    PROVE  /\ (\A c \in DOMAIN codes' : c \in DOMAIN codes /\ codes'[c] \in CodeRow)
              => CodesTyped'
           /\ (\A a \in DOMAIN access' : a \in DOMAIN access /\ access'[a] \in AccessRow)
              => AccessTyped'
           /\ (\A t \in DOMAIN refresh' : t \in DOMAIN refresh /\ refresh'[t] \in RefreshRow)
              => RefreshTyped'
BY TypeParts DEF Longer, CodesTyped, AccessTyped, RefreshTyped

\* So have the tables that are left alone, and those of which rows go,
LEMMA TablesTyped ==
    ASSUME TypeOK, Longer
    PROVE  /\ UNCHANGED codes => CodesTyped'
           /\ UNCHANGED access => AccessTyped'
           /\ UNCHANGED refresh => RefreshTyped'
           /\ \A gone : codes' = Without(codes, gone) => CodesTyped'
           /\ \A gone : access' = Without(access, gone) => AccessTyped'
           /\ \A gone : refresh' = Without(refresh, gone) => RefreshTyped'
<1>1. CodesTyped /\ AccessTyped /\ RefreshTyped
    BY TypeParts
<1>2. ASSUME NEW gone, codes' = Without(codes, gone) PROVE CodesTyped'
    BY <1>1, <1>2, RowsTyped DEF Without, CodesTyped
<1>3. ASSUME NEW gone, access' = Without(access, gone) PROVE AccessTyped'
    BY <1>1, <1>3, RowsTyped DEF Without, AccessTyped
<1>4. ASSUME NEW gone, refresh' = Without(refresh, gone) PROVE RefreshTyped'
    BY <1>1, <1>4, RowsTyped DEF Without, RefreshTyped
<1>5. UNCHANGED codes => CodesTyped'
    BY <1>1, RowsTyped DEF CodesTyped
<1>6. UNCHANGED access => AccessTyped'
    BY <1>1, RowsTyped DEF AccessTyped
<1>7. UNCHANGED refresh => RefreshTyped'
    BY <1>1, RowsTyped DEF RefreshTyped
<1> QED
    BY <1>2, <1>3, <1>4, <1>5, <1>6, <1>7

\* and the requests other than the one that takes the step.
LEMMA OthersTyped ==
    ASSUME TypeOK, Longer, NEW r \in Request, OnlyOf(r), RequestTyped(r)'
    PROVE  \A q \in Request : RequestTyped(q)'
<1> SUFFICES ASSUME NEW q \in Request, q # r PROVE RequestTyped(q)'
    OBVIOUS
<1>1. RequestTyped(q) /\ SameWork(q)
    BY TypeParts DEF OnlyOf
<1> QED
    BY <1>1 DEF RequestTyped, SameWork, Longer

\* A request that is over, one that goes on, and one that gets to work.
LEMMA FinishDoes ==
    ASSUME GrantInv, NEW r \in Request, Finish(r)
    PROVE  OnlyOf(r) /\ request'[r] = Idle
BY ChangeOne DEF Finish

\* Going on changes the place alone.
LEMMA GotoDoes ==
    ASSUME GrantInv, NEW r \in Request, NEW place, Goto(r, place)
    PROVE  /\ OnlyOf(r)
           /\ request'[r].at = place /\ request'[r].code = request[r].code
           /\ request'[r].token = request[r].token /\ request'[r].new = request[r].new
           /\ request'[r].scopes = request[r].scopes
<1>1. OnlyOf(r) /\ request'[r] = [request[r] EXCEPT !.at = place]
    BY ChangeOne DEF Goto
<1>2. RequestInv(r)
    BY DEF GrantInv
<1> QED
    BY <1>1, <1>2 DEF RequestInv

\* Getting to work changes what is noted of the others alone.
LEMMA EnterDoes ==
    ASSUME GrantInv, NEW r \in Request, NEW work, Enter(r, work),
           work = [at |-> work.at, code |-> work.code, token |-> work.token,
                   old |-> work.old, new |-> work.new, client |-> work.client,
                   scopes |-> work.scopes, overlaps |-> work.overlaps]
    PROVE  /\ OnlyOf(r)
           /\ request'[r].at = work.at /\ request'[r].code = work.code
           /\ request'[r].token = work.token /\ request'[r].new = work.new
           /\ request'[r].scopes = work.scopes
<1> DEFINE rivals == {q \in Request \ {r} : /\ request[q].at # "idle"
                                            /\ request[q].code = work.code
                                            /\ request[q].token = work.token}
<1>1. request' = [q \in Request |->
          IF q = r THEN [work EXCEPT !.overlaps = rivals # {}]
          ELSE [request[q] EXCEPT !.overlaps = @ \/ q \in rivals]]
    BY DEF Enter
<1> HIDE DEF rivals
<1>2. ASSUME NEW q \in Request, q # r PROVE SameWork(q)
  <2>1. request'[q] = [request[q] EXCEPT !.overlaps = request[q].overlaps \/ q \in rivals]
    BY <1>1, <1>2
  <2>2. PICK note : request'[q] = [request[q] EXCEPT !.overlaps = note]
    BY <2>1
  <2>3. RequestInv(q)
    BY DEF GrantInv
  <2> QED
    BY <2>2, <2>3 DEF RequestInv, SameWork
<1>3. request' = [q \in Request |-> request'[q]]
    BY <1>1
<1>4. PICK note : request'[r] = [work EXCEPT !.overlaps = note]
    BY <1>1
<1> QED
    BY <1>2, <1>3, <1>4 DEF OnlyOf

\* Before the first code there is nothing of a wrong type.
LEMMA TypesHold == Init => TypeOK
<1> SUFFICES ASSUME Init PROVE TypeOK
    OBVIOUS
<1>1. DOMAIN codes = {} /\ DOMAIN access = {} /\ DOMAIN refresh = {}
    BY DEF Init
<1>2. Len(issued) = 0 /\ Len(minted) = 0
    BY DEF Init
<1>3. \A r \in Request : request[r] = Idle
    BY DEF Init
<1>4. SizesTyped
    BY <1>2, OAuthTokensAssumption DEF Init, SizesTyped
<1>5. \A r \in Request : RequestTyped(r)
    BY <1>2, <1>3 DEF RequestTyped, Idle, None
<1> QED
    BY <1>1, <1>4, <1>5, TypeParts DEF CodesTyped, AccessTyped, RefreshTyped

\* A code is issued.
LEMMA IssueTyped ==
    ASSUME TypeOK, GrantInv, GrantInv', NEW client \in Client, NEW scopes \in SUBSET Scope,
           IssueCode(client, scopes)
    PROVE  TypeOK'
<1>1. PICK n \in Nat : n = Len(issued) + 1
    BY Lengths
<1>2. PICK row \in CodeRow : row = [client |-> client, scopes |-> scopes, isUsed |-> FALSE,
                                    expiresAt |-> now + CodeLife]
  <2>1. now \in Nat /\ CodeLife \in Nat
    BY OAuthTokensAssumption, TypeParts DEF SizesTyped
  <2>2. PICK e \in Nat : e = now + CodeLife
    BY <2>1
  <2>3. [client |-> client, scopes |-> scopes, isUsed |-> FALSE, expiresAt |-> e] \in CodeRow
    BY DEF CodeRow
  <2> QED
    BY <2>2, <2>3
<1>3. /\ codes' = Insert(codes, n, row) /\ UNCHANGED <<now, access, refresh, request, cleanup>>
      /\ issued' = Append(issued, [client |-> client, scopes |-> scopes])
      /\ UNCHANGED minted /\ Len(issued) < MaxCodes
    BY <1>1, <1>2 DEF IssueCode
<1>4. Len(issued)' = n
  <2>1. issued \in Seq(IssuedRow) /\ [client |-> client, scopes |-> scopes] \in IssuedRow
    BY DEF GrantInv, HistoryInv, IssuedRow
  <2> QED
    BY <1>1, <1>3, <2>1
<1>5. Longer
    BY <1>1, <1>3, <1>4, Lengths DEF Longer
<1>6. CodesTyped'
    BY <1>1, <1>3, <1>4, TypeParts DEF CodesTyped, Insert
<1>7. \A r \in Request : RequestTyped(r)'
    BY <1>3, <1>5, TypeParts DEF RequestTyped, Longer
<1>8. SizesTyped'
    BY <1>1, <1>3, <1>4, Lengths, OAuthTokensAssumption, TypeParts DEF SizesTyped
<1> QED
    BY <1>3, <1>5, <1>6, <1>7, <1>8, TablesTyped, TypeParts

\* A step that leaves the clock and the cleanup alone and creates nothing.
LEMMA SizesStay ==
    ASSUME TypeOK, UNCHANGED <<now, cleanup>>, Len(issued)' = Len(issued),
           Len(minted)' = Len(minted)
    PROVE  SizesTyped'
BY TypeParts DEF SizesTyped

\* A code or a refresh token is read.
LEMMA EnterTyped ==
    ASSUME TypeOK, GrantInv, GrantInv', NEW r \in Request, NEW work, Enter(r, work),
           work = [at |-> work.at, code |-> work.code, token |-> work.token,
                   old |-> work.old, new |-> work.new, client |-> work.client,
                   scopes |-> work.scopes, overlaps |-> work.overlaps],
           work.at \in {"mark", "revoke"}, work.code \in 0 .. Len(issued),
           work.token \in 0 .. Len(minted), work.new = None, work.scopes \subseteq Scope,
           UNCHANGED <<now, tables, cleanup, issued, minted>>
    PROVE  TypeOK'
<1>1. Longer /\ SizesTyped'
    BY SameLength, SizesStay
<1>2. /\ OnlyOf(r)
      /\ request'[r].at = work.at /\ request'[r].code = work.code
      /\ request'[r].token = work.token /\ request'[r].new = work.new
      /\ request'[r].scopes = work.scopes
    BY EnterDoes
<1>3. RequestTyped(r)'
    BY <1>2, Lengths DEF RequestTyped, None
<1> QED
    BY <1>1, <1>2, <1>3, OthersTyped, TablesTyped, TypeParts DEF tables

\* A code is read.
LEMMA RedeemTyped ==
    ASSUME TypeOK, GrantInv, GrantInv', NEW r \in Request, RedeemCode(r)
    PROVE  TypeOK'
<1>1. PICK client \in Client, c \in DOMAIN codes :
          Enter(r, [Idle EXCEPT !.at = "mark", !.code = c, !.client = client,
                                !.scopes = codes[c].scopes])
    BY DEF RedeemCode
<1>2. PICK work : work = [Idle EXCEPT !.at = "mark", !.code = c, !.client = client,
                                      !.scopes = codes[c].scopes]
    OBVIOUS
<1>3. /\ work = [at |-> work.at, code |-> work.code, token |-> work.token,
                 old |-> work.old, new |-> work.new, client |-> work.client,
                 scopes |-> work.scopes, overlaps |-> work.overlaps]
      /\ work.at = "mark" /\ work.code = c /\ work.token = None /\ work.new = None
      /\ work.scopes = codes[c].scopes
    BY <1>2 DEF Idle
<1>4. Enter(r, work)
    BY <1>1, <1>2
<1>5. c \in 0 .. Len(issued) /\ codes[c].scopes \subseteq Scope /\ None \in 0 .. Len(minted)
    BY TypeParts, Lengths DEF CodesTyped, CodeRow, None
<1>6. UNCHANGED <<now, tables, cleanup, issued, minted>>
    BY DEF RedeemCode
<1> QED
    BY <1>3, <1>4, <1>5, <1>6, EnterTyped

\* A refresh token is read.
LEMMA RefreshingTyped ==
    ASSUME TypeOK, GrantInv, GrantInv', NEW r \in Request, Refresh(r)
    PROVE  TypeOK'
<1>1. PICK client \in Client, t \in DOMAIN refresh, requested \in SUBSET Scope :
          Enter(r, [Idle EXCEPT !.at = "revoke", !.token = t, !.client = client,
                          !.old = refresh[t].accessToken,
                          !.scopes = IF requested = {} THEN refresh[t].scopes
                                     ELSE requested \cap refresh[t].scopes])
    BY DEF Refresh
<1>2. PICK work : work = [Idle EXCEPT !.at = "revoke", !.token = t, !.client = client,
                          !.old = refresh[t].accessToken,
                          !.scopes = IF requested = {} THEN refresh[t].scopes
                                     ELSE requested \cap refresh[t].scopes]
    OBVIOUS
<1>3. /\ work = [at |-> work.at, code |-> work.code, token |-> work.token,
                 old |-> work.old, new |-> work.new, client |-> work.client,
                 scopes |-> work.scopes, overlaps |-> work.overlaps]
      /\ work.at = "revoke" /\ work.code = None /\ work.token = t /\ work.new = None
      /\ work.scopes \subseteq Scope
  <2>1. refresh[t].scopes \subseteq Scope
    BY TypeParts DEF RefreshTyped, RefreshRow
  <2>2. PICK scopes \in SUBSET Scope :
            work = [Idle EXCEPT !.at = "revoke", !.token = t, !.client = client,
                        !.old = refresh[t].accessToken, !.scopes = scopes]
    BY <1>2, <2>1
  <2> QED
    BY <2>2 DEF Idle
<1>4. Enter(r, work)
    BY <1>1, <1>2
<1>5. t \in 0 .. Len(minted) /\ None \in 0 .. Len(issued)
    BY TypeParts, Lengths DEF RefreshTyped, None
<1>6. UNCHANGED <<now, tables, cleanup, issued, minted>>
    BY DEF Refresh
<1> QED
    BY <1>3, <1>4, <1>5, <1>6, EnterTyped

\* The code is marked.
LEMMA MarkTyped ==
    ASSUME TypeOK, GrantInv, GrantInv', NEW r \in Request, MarkAsUsed(r)
    PROVE  TypeOK'
<1>1. /\ UNCHANGED <<now, access, refresh, cleanup, issued, minted>> /\ Goto(r, "mint")
      /\ codes' = [c \in DOMAIN codes |->
                      [codes[c] EXCEPT !.isUsed = @ \/ c = request[r].code]]
    BY DEF MarkAsUsed
<1>2. Longer /\ SizesTyped'
    BY <1>1, SameLength, SizesStay
<1>3. CodesTyped'
  <2>1. ASSUME NEW c \in DOMAIN codes' PROVE c \in DOMAIN codes /\ codes'[c] \in CodeRow
    <3>1. PICK used \in BOOLEAN : codes'[c] = [codes[c] EXCEPT !.isUsed = used]
      <4>1. (codes[c].isUsed \/ c = request[r].code) \in BOOLEAN
        OBVIOUS
      <4> QED
        BY <1>1, <2>1, <4>1
    <3>2. c \in DOMAIN codes /\ codes[c] \in CodeRow
      BY <1>1, TypeParts DEF CodesTyped
    <3> QED
      BY <3>1, <3>2 DEF CodeRow
  <2> QED
    BY <1>2, <2>1, RowsTyped
<1>4. OnlyOf(r) /\ RequestTyped(r)'
    BY <1>1, <1>2, GotoDoes, TypeParts DEF RequestTyped, Longer
<1> QED
    BY <1>1, <1>2, <1>3, <1>4, OthersTyped, TablesTyped, TypeParts

\* The old access token is revoked.
LEMMA RevokeTyped ==
    ASSUME TypeOK, GrantInv, GrantInv', NEW r \in Request, RevokeOld(r)
    PROVE  TypeOK'
<1>1. /\ UNCHANGED <<now, codes, refresh, cleanup, issued, minted>> /\ Goto(r, "mint")
      /\ access' = [a \in DOMAIN access |->
                       [access[a] EXCEPT !.isRevoked = @ \/ a = request[r].old]]
    BY DEF RevokeOld
<1>2. Longer /\ SizesTyped'
    BY <1>1, SameLength, SizesStay
<1>3. AccessTyped'
  <2>1. ASSUME NEW a \in DOMAIN access' PROVE a \in DOMAIN access /\ access'[a] \in AccessRow
    <3>1. PICK revoked \in BOOLEAN : access'[a] = [access[a] EXCEPT !.isRevoked = revoked]
      <4>1. (access[a].isRevoked \/ a = request[r].old) \in BOOLEAN
        OBVIOUS
      <4> QED
        BY <1>1, <2>1, <4>1
    <3>2. a \in DOMAIN access /\ access[a] \in AccessRow
      BY <1>1, TypeParts DEF AccessTyped
    <3> QED
      BY <3>1, <3>2 DEF AccessRow
  <2> QED
    BY <1>2, <2>1, RowsTyped
<1>4. OnlyOf(r) /\ RequestTyped(r)'
    BY <1>1, <1>2, GotoDoes, TypeParts DEF RequestTyped, Longer
<1> QED
    BY <1>1, <1>2, <1>3, <1>4, OthersTyped, TablesTyped, TypeParts

\* What the creation of an access token does, besides its row.
LEMMA MintDoes ==
    ASSUME GrantInv, GrantInv', NEW r \in Request, MintAccess(r)
    PROVE  /\ Longer /\ Len(minted)' = Len(minted) + 1 /\ Len(issued)' = Len(issued)
           /\ OnlyOf(r) /\ request'[r].at \in {"pair", "link"}
           /\ request'[r].code = request[r].code /\ request'[r].token = request[r].token
           /\ request'[r].scopes = request[r].scopes /\ request'[r].new = Len(minted) + 1
           /\ minted'[Len(minted) + 1].client = request[r].client
           /\ minted'[Len(minted) + 1].code = request[r].code
           /\ minted'[Len(minted) + 1].token = request[r].token
           /\ \A a \in DOMAIN minted : minted'[a] = minted[a]
<1>1. PICK n : n = Len(minted) + 1
    OBVIOUS
<1>2. PICK row : row = [client |-> request[r].client, code |-> request[r].code,
                        token |-> request[r].token, answered |-> FALSE, overlapped |-> FALSE]
    OBVIOUS
<1>3. PICK place \in {"pair", "link"} :
          /\ minted' = Append(minted, row) /\ UNCHANGED issued
          /\ request' = [request EXCEPT ![r] = [request[r] EXCEPT !.new = n, !.at = place]]
  <2>1. PICK place \in {"pair", "link"} :
            place = IF request[r].code # None THEN "pair" ELSE "link"
    OBVIOUS
  <2> QED
    BY <1>1, <1>2, <2>1 DEF MintAccess
<1>4. /\ Len(minted) \in Nat /\ DOMAIN minted = 1 .. Len(minted)
      /\ Len(issued) \in Nat
    BY Lengths
<1>5. Len(minted)' = n /\ minted'[n] = row /\ \A a \in DOMAIN minted : minted'[a] = minted[a]
  <2>1. PICK S : minted \in Seq(S)
    BY DEF GrantInv, HistoryInv
  <2>2. minted \in Seq(S \cup {row}) /\ row \in S \cup {row}
    <3>1. S \subseteq S \cup {row}
      OBVIOUS
    <3> QED
      BY <2>1, <3>1
  <2> QED
    BY <1>1, <1>3, <2>2
<1>6. Longer
    BY <1>1, <1>3, <1>4, <1>5 DEF Longer
<1>7. OnlyOf(r) /\ request'[r] = [request[r] EXCEPT !.new = n, !.at = place]
    BY <1>3, ChangeOne
<1>8. RequestInv(r)
    BY DEF GrantInv
<1>9. /\ request'[r].at = place /\ request'[r].code = request[r].code
      /\ request'[r].token = request[r].token /\ request'[r].scopes = request[r].scopes
      /\ request'[r].new = n
    BY <1>7, <1>8 DEF RequestInv
<1>10. row.client = request[r].client /\ row.code = request[r].code /\ row.token = request[r].token
    BY <1>2
<1> QED
    BY <1>1, <1>3, <1>5, <1>6, <1>7, <1>9, <1>10

\* An access token is created.
LEMMA MintTyped ==
    ASSUME TypeOK, GrantInv, GrantInv', NEW r \in Request, MintAccess(r)
    PROVE  TypeOK'
<1>1. PICK n : n = Len(minted) + 1
    OBVIOUS
<1>2. /\ Longer /\ Len(minted)' = n /\ Len(issued)' = Len(issued)
      /\ OnlyOf(r) /\ request'[r].at \in {"pair", "link"}
      /\ request'[r].code = request[r].code /\ request'[r].token = request[r].token
      /\ request'[r].scopes = request[r].scopes /\ request'[r].new = n
    BY <1>1, MintDoes
<1>3. n \in 1 .. Len(minted)'
    BY <1>1, <1>2 DEF Longer
<1>4. /\ UNCHANGED <<now, codes, refresh, cleanup>> /\ n <= MaxAccess
      /\ access' = Insert(access, n, [scopes |-> request[r].scopes, isRevoked |-> FALSE,
                                      expiresAt |-> now + AccessLife])
    BY <1>1 DEF MintAccess
<1>5. PICK row \in AccessRow : access' = Insert(access, n, row)
  <2>1. request[r].scopes \subseteq Scope
    BY TypeParts DEF RequestTyped
  <2>2. PICK e \in Nat : e = now + AccessLife
    BY OAuthTokensAssumption, TypeParts DEF SizesTyped
  <2>3. [scopes |-> request[r].scopes, isRevoked |-> FALSE, expiresAt |-> e] \in AccessRow
    BY <2>1 DEF AccessRow
  <2> QED
    BY <1>4, <2>2, <2>3
<1>6. AccessTyped'
  <2> SUFFICES ASSUME NEW a \in DOMAIN access'
               PROVE  a \in 1 .. Len(minted)' /\ access'[a] \in AccessRow
    BY DEF AccessTyped
  <2>1. CASE a = n
    BY <1>3, <1>5, <2>1 DEF Insert
  <2>2. CASE a # n
    <3>1. a \in DOMAIN access /\ access'[a] = access[a]
      BY <1>5, <2>2 DEF Insert
    <3> QED
      BY <1>2, <3>1, TypeParts DEF AccessTyped, Longer
  <2> QED
    BY <2>1, <2>2
<1>7. RequestTyped(r)'
    BY <1>2, <1>3, TypeParts DEF RequestTyped, Longer
<1>8. SizesTyped'
    BY <1>2, <1>4, TypeParts DEF SizesTyped
<1> QED
    BY <1>2, <1>4, <1>6, <1>7, <1>8, OthersTyped, TablesTyped, TypeParts

\* What an answer does.
LEMMA AnswerDoes ==
    ASSUME GrantInv, NEW r \in Request, NEW t, Answer(r, t), UNCHANGED issued,
           request[r].new \in DOMAIN minted,
           \/ minted[request[r].new].code # None
           \/ minted[request[r].new].token = t
    PROVE  HistoriesGrow /\ DOMAIN minted' = DOMAIN minted /\ OnlyOf(r) /\ request'[r] = Idle
<1>1. HistoriesGrow /\ MintedKept
    BY AnswerKeeps
<1>2. OnlyOf(r) /\ request'[r] = Idle
    BY FinishDoes DEF Answer
<1> QED
    BY <1>1, <1>2 DEF MintedKept

\* An idle request has its type.
LEMMA IdleTyped ==
    ASSUME Longer, NEW r \in Request, request'[r] = Idle
    PROVE  RequestTyped(r)'
BY DEF RequestTyped, Longer, Idle, None

\* The refresh token of a redeemed code is created.
LEMMA PairTyped ==
    ASSUME TypeOK, GrantInv, GrantInv', NEW r \in Request, CreateRefresh(r)
    PROVE  TypeOK'
<1>1. PICK a : a = request[r].new
    OBVIOUS
<1>2. /\ request[r].at = "pair" /\ UNCHANGED <<now, codes, access, cleanup, issued>>
      /\ Answer(r, a)
      /\ refresh' = Insert(refresh, a, [client |-> request[r].client, accessToken |-> a,
                              scopes |-> request[r].scopes, expiresAt |-> now + RefreshLife])
    BY <1>1 DEF CreateRefresh, At
<1>3. /\ a \in DOMAIN minted /\ minted[a].code # None
      /\ Behind(r) \in DOMAIN issued /\ request[r].client = issued[Behind(r)].client
    BY <1>1, <1>2 DEF GrantInv, RequestInv
<1>4. DOMAIN minted' = DOMAIN minted /\ OnlyOf(r) /\ request'[r] = Idle
    BY <1>1, <1>2, <1>3, AnswerDoes
<1>5. Longer /\ Len(minted)' = Len(minted) /\ SizesTyped'
    BY <1>2, <1>4, SameLength, SizesStay
<1>6. PICK row \in RefreshRow : refresh' = Insert(refresh, a, row)
  <2>1. request[r].scopes \subseteq Scope
    BY TypeParts DEF RequestTyped
  <2>2. PICK e \in Nat : e = now + RefreshLife
    BY OAuthTokensAssumption, TypeParts DEF SizesTyped
  <2>3. request[r].client \in Client
    <3>1. issued \in Seq(IssuedRow)
      BY DEF GrantInv, HistoryInv
    <3>2. issued[Behind(r)] \in IssuedRow
      BY <1>3, <3>1
    <3> QED
      BY <1>3, <3>2 DEF IssuedRow
  <2>4. a \in Nat
    BY <1>3, Lengths
  <2>5. [client |-> request[r].client, accessToken |-> a, scopes |-> request[r].scopes,
         expiresAt |-> e] \in RefreshRow
    BY <2>1, <2>3, <2>4 DEF RefreshRow
  <2> QED
    BY <1>2, <2>2, <2>5
<1>7. RefreshTyped'
  <2> SUFFICES ASSUME NEW t \in DOMAIN refresh'
               PROVE  t \in 1 .. Len(minted)' /\ refresh'[t] \in RefreshRow
    BY DEF RefreshTyped
  <2>1. CASE t = a
    BY <1>3, <1>5, <1>6, <2>1, Lengths DEF Insert
  <2>2. CASE t # a
    <3>1. t \in DOMAIN refresh /\ refresh'[t] = refresh[t]
      BY <1>6, <2>2 DEF Insert
    <3> QED
      BY <1>5, <3>1, TypeParts DEF RefreshTyped
  <2> QED
    BY <2>1, <2>2
<1> QED
    BY <1>2, <1>4, <1>5, <1>7, IdleTyped, OthersTyped, TablesTyped, TypeParts

\* The refresh token points to the new access token.
LEMMA LinkTyped ==
    ASSUME TypeOK, GrantInv, GrantInv', NEW r \in Request, LinkNew(r)
    PROVE  TypeOK'
<1>1. PICK a, t : a = request[r].new /\ t = request[r].token
    OBVIOUS
<1>2. /\ request[r].at = "link" /\ UNCHANGED <<now, codes, access, cleanup, issued>>
      /\ Answer(r, t)
      /\ refresh' = [u \in DOMAIN refresh |->
                        IF u = t THEN [refresh[u] EXCEPT !.accessToken = a] ELSE refresh[u]]
    BY <1>1 DEF LinkNew, At
<1>3. a \in DOMAIN minted /\ minted[a].token = t
    BY <1>1, <1>2 DEF GrantInv, RequestInv
<1>4. DOMAIN minted' = DOMAIN minted /\ OnlyOf(r) /\ request'[r] = Idle
    BY <1>1, <1>2, <1>3, AnswerDoes
<1>5. Longer /\ SizesTyped'
    BY <1>2, <1>4, SameLength, SizesStay
<1>6. RefreshTyped'
  <2>1. a \in Nat
    BY <1>3, Lengths
  <2>2. ASSUME NEW u \in DOMAIN refresh' PROVE u \in DOMAIN refresh /\ refresh'[u] \in RefreshRow
    <3>1. u \in DOMAIN refresh /\ refresh[u] \in RefreshRow
      BY <1>2, TypeParts DEF RefreshTyped
    <3>2. refresh'[u] = refresh[u] \/ refresh'[u] = [refresh[u] EXCEPT !.accessToken = a]
      BY <1>2, <3>1
    <3> QED
      BY <2>1, <3>1, <3>2 DEF RefreshRow
  <2> QED
    BY <1>5, <2>2, RowsTyped
<1> QED
    BY <1>2, <1>4, <1>5, <1>6, IdleTyped, OthersTyped, TablesTyped, TypeParts

\* Every step keeps the types, given what it knows of the grants.
LEMMA TypesInductive == TypeOK /\ GrantInv /\ [Next]_vars => TypeOK'
<1> SUFFICES ASSUME TypeOK, GrantInv, [Next]_vars PROVE TypeOK'
    OBVIOUS
<1>1. GrantInv'
    BY GrantInvInductive
<1>2. ASSUME NEW client \in Client, NEW scopes \in SUBSET Scope \ {{}},
             IssueCode(client, scopes)
      PROVE  TypeOK'
    BY <1>1, <1>2, IssueTyped
<1>3. ASSUME NEW r \in Request, ForeignKeyFails(r) \/ RequestFails(r) PROVE TypeOK'
  <2>1. Finish(r) /\ UNCHANGED <<now, tables, cleanup, issued, minted>>
    BY <1>3 DEF ForeignKeyFails, RequestFails
  <2>2. Longer /\ SizesTyped'
    BY <1>1, <2>1, SameLength, SizesStay
  <2>3. OnlyOf(r) /\ RequestTyped(r)'
    BY <2>1, <2>2, FinishDoes, IdleTyped
  <2> QED
    BY <2>1, <2>2, <2>3, OthersTyped, TablesTyped, TypeParts DEF tables
<1>4. ASSUME NEW r \in Request, TokenStep(r) PROVE TypeOK'
    BY <1>1, <1>3, <1>4, RedeemTyped, MarkTyped, RefreshingTyped, RevokeTyped, MintTyped,
       PairTyped, LinkTyped DEF TokenStep
<1>5. ASSUME UNCHANGED <<issued, minted, request>>
      PROVE  /\ Longer /\ \A r \in Request : RequestTyped(r)'
             /\ Len(issued)' = Len(issued) /\ Len(minted)' = Len(minted)
  <2>1. Longer /\ Len(issued)' = Len(issued) /\ Len(minted)' = Len(minted)
    BY <1>1, <1>5, SameLength
  <2> QED
    BY <1>5, <2>1, TypeParts DEF RequestTyped
<1>6. CASE Cleanup
  <2>1. UNCHANGED <<issued, minted, request, now>>
    BY <1>6 DEF Cleanup, CleanCodes, CleanAccess, CleanRefresh
  <2>2. CodesTyped'
    BY <1>5, <1>6, <2>1, TablesTyped DEF Cleanup, CleanCodes, CleanAccess, CleanRefresh
  <2>3. AccessTyped'
    BY <1>5, <1>6, <2>1, TablesTyped DEF Cleanup, CleanCodes, CleanAccess, CleanRefresh
  <2>4. RefreshTyped'
    BY <1>5, <1>6, <2>1, TablesTyped DEF Cleanup, CleanCodes, CleanAccess, CleanRefresh
  <2>5. cleanup' \in {"codes", "access", "refresh"}
    BY <1>6 DEF Cleanup, CleanCodes, CleanAccess, CleanRefresh
  <2>6. SizesTyped'
    BY <1>5, <2>1, <2>5, TypeParts DEF SizesTyped
  <2> QED
    BY <1>5, <2>1, <2>2, <2>3, <2>4, <2>6, TypeParts
<1>7. CASE CleanupFails \/ Tick \/ UNCHANGED vars
  <2>1. UNCHANGED <<issued, minted, request, codes, access, refresh>>
    BY <1>7 DEF CleanupFails, Tick, vars, tables
  <2>2. now' \in 0 .. MaxNow /\ cleanup' \in {"codes", "access", "refresh"}
    BY <1>7, OAuthTokensAssumption, TypeParts DEF CleanupFails, Tick, vars, SizesTyped
  <2>3. SizesTyped'
    BY <1>5, <2>1, <2>2, TypeParts DEF SizesTyped
  <2> QED
    BY <1>5, <2>1, <2>3, TablesTyped, TypeParts
<1> QED
    BY <1>2, <1>4, <1>6, <1>7 DEF Next

\* The tables, the requests and the histories keep their types; a row or a
\* request speaks of numbers that were given out.
THEOREM TokensTyped == Spec => []TypeOK
BY TypesHold, TypesInductive, GrantInvHolds, GrantInvInductive, PTL DEF Spec

-----------------------------------------------------------------------------
(* The grants and the cleanup implement the ledger.                         *)

Creating(r) == request[r].at \in {"mark", "revoke", "mint", "pair"}

\* What the ledger sees of the access tokens.
WorkingTokens ==
    [a \in {b \in DOMAIN access : Live(b)} |->
        [client |-> minted[a].client, grant |-> Origin(a), scopes |-> access[a].scopes]]

\* No code opens that was closed: no code is added or is unused again, no
\* refresh token is there for longer, and a request works on an open code.
NoneOpens ==
    /\ UNCHANGED issued /\ now <= now'
    /\ \A c \in DOMAIN codes' :
          /\ c \in DOMAIN codes /\ codes'[c].expiresAt = codes[c].expiresAt
          /\ codes[c].isUsed => codes'[c].isUsed
    /\ \A t \in DOMAIN refresh' : refresh'[t].expiresAt >= now' => minted'[t].code \in OpenCodes
    /\ \A r \in Request : Creating(r)' => Behind(r)' \in OpenCodes

\* Times are numbers.
LEMMA Times ==
    ASSUME TypeOK
    PROVE  /\ now \in Nat
           /\ \A c \in DOMAIN codes : codes[c].expiresAt \in Nat
           /\ \A t \in DOMAIN refresh : refresh[t].expiresAt \in Nat
BY TypeParts, OAuthTokensAssumption
DEF SizesTyped, CodesTyped, RefreshTyped, CodeRow, RefreshRow

\* Then no code opens.
LEMMA OpenCodesClose ==
    ASSUME TypeOK, TypeOK', NoneOpens
    PROVE  OpenCodes' \subseteq OpenCodes
<1> SUFFICES ASSUME NEW c \in OpenCodes' PROVE c \in OpenCodes
    OBVIOUS
<1>1. c \in DOMAIN issued
    BY DEF OpenCodes, NoneOpens
<1>2. CASE c \in DOMAIN codes' /\ ~codes'[c].isUsed /\ codes'[c].expiresAt >= now'
  <2>1. c \in DOMAIN codes /\ ~codes[c].isUsed /\ codes'[c].expiresAt = codes[c].expiresAt
    BY <1>2 DEF NoneOpens
  <2>2. now \in Nat /\ now' \in Nat /\ now <= now' /\ codes[c].expiresAt \in Nat
    <3>1. TypeOK' => now' \in Nat
      BY TypeParts, OAuthTokensAssumption DEF SizesTyped
    <3> QED
      BY <2>1, <3>1, Times DEF NoneOpens
  <2>3. codes[c].expiresAt >= now
    BY <1>2, <2>1, <2>2
  <2> QED
    BY <1>1, <2>1, <2>3 DEF OpenCodes
<1>3. CASE \E t \in DOMAIN refresh' : minted'[t].code = c /\ refresh'[t].expiresAt >= now'
    BY <1>3 DEF NoneOpens
<1>4. CASE \E r \in Request : Creating(r)' /\ Behind(r)' = c
    BY <1>4 DEF NoneOpens
<1> QED
    BY <1>2, <1>3, <1>4 DEF OpenCodes, Creating

\* A request that is creating tokens holds its code open.
LEMMA CreatingIsOpen ==
    ASSUME GrantInv, NEW r \in Request, Creating(r)
    PROVE  Behind(r) \in OpenCodes
<1>1. Behind(r) \in DOMAIN issued
    BY DEF GrantInv, RequestInv, Creating
<1> QED
    BY <1>1 DEF OpenCodes, Creating

\* So does a refresh token that can be used,
LEMMA RefreshIsOpen ==
    ASSUME GrantInv, NEW t \in DOMAIN refresh, refresh[t].expiresAt >= now
    PROVE  minted[t].code \in OpenCodes
<1>1. t \in DOMAIN minted /\ minted[t].code # None
    BY DEF GrantInv, RefreshInv
<1>2. minted[t].code \in DOMAIN issued
    BY <1>1 DEF GrantInv, MintedInv, Origin
<1> QED
    BY <1>2 DEF OpenCodes

\* and refresh tokens that are left, as time goes on.
LEMMA OldRefreshIsOpen ==
    ASSUME TypeOK, TypeOK', GrantInv, HistoriesGrow, now <= now',
           NEW t \in DOMAIN refresh', t \in DOMAIN refresh,
           refresh'[t].expiresAt = refresh[t].expiresAt, refresh'[t].expiresAt >= now'
    PROVE  minted'[t].code \in OpenCodes
<1>1. now' \in Nat
    BY TypeParts, OAuthTokensAssumption DEF SizesTyped
<1>2. refresh[t].expiresAt >= now
    BY <1>1, Times
<1>3. minted[t].code \in OpenCodes
    BY <1>2, RefreshIsOpen
<1>4. t \in DOMAIN minted
    BY DEF GrantInv, RefreshInv
<1> QED
    BY <1>3, <1>4 DEF HistoriesGrow

\* The requests other than the one that takes the step open nothing.
LEMMA OthersOpenNothing ==
    ASSUME GrantInv, HistoriesGrow, NEW r \in Request, OnlyOf(r),
           Creating(r)' => Behind(r)' \in OpenCodes
    PROVE  \A q \in Request : Creating(q)' => Behind(q)' \in OpenCodes
<1> SUFFICES ASSUME NEW q \in Request, q # r, Creating(q)' PROVE Behind(q)' \in OpenCodes
    OBVIOUS
<1>1. SameWork(q)
    BY DEF OnlyOf
<1>2. Creating(q)
    BY <1>1 DEF Creating, SameWork
<1>3. request[q].code = None => request[q].token \in DOMAIN minted
    BY <1>2 DEF Creating, GrantInv, RequestInv
<1>4. Behind(q)' = Behind(q)
    BY <1>1, <1>3 DEF Behind, SameWork, HistoriesGrow
<1> QED
    BY <1>2, <1>4, CreatingIsOpen

\* A step in which no token comes to life and no code is opened.
LEMMA Ends ==
    ASSUME TypeOK, TypeOK', GrantInv, HistoriesGrow, NoneOpens, Len(minted)' = Len(minted),
           \A a \in DOMAIN access' :
              ~access'[a].isRevoked => /\ a \in DOMAIN access /\ ~access[a].isRevoked
                                       /\ access'[a].scopes = access[a].scopes
    PROVE  Ledger!End
<1> DEFINE kept == {b \in DOMAIN access' : Live(b)'}
<1>1. ASSUME NEW a \in kept
      PROVE  /\ a \in DOMAIN access /\ Live(a)
             /\ [client |-> minted'[a].client, grant |-> Origin(a)',
                 scopes |-> access'[a].scopes] = WorkingTokens[a]
  <2>1. /\ a \in DOMAIN access /\ Live(a) /\ access'[a].scopes = access[a].scopes
    BY DEF Live
  <2>2. a \in DOMAIN minted
    BY <2>1 DEF GrantInv, AccessInv
  <2>3. Origin(a)' = Origin(a) /\ minted'[a].client = minted[a].client
    BY <2>2, OriginsStay DEF GrantInv, HistoriesGrow
  <2> QED
    BY <2>1, <2>3 DEF WorkingTokens
<1>2. kept \in SUBSET DOMAIN WorkingTokens
    BY <1>1 DEF WorkingTokens
<1>3. WorkingTokens' = [a \in kept |-> WorkingTokens[a]]
  <2>1. WorkingTokens' = [a \in kept |-> [client |-> minted'[a].client, grant |-> Origin(a)',
                                          scopes |-> access'[a].scopes]]
    BY DEF WorkingTokens
  <2> HIDE DEF kept
  <2> QED
    BY <1>1, <2>1
<1>4. OpenCodes' \in SUBSET OpenCodes
    BY OpenCodesClose
<1> HIDE DEF kept
<1> QED
    BY <1>2, <1>3, <1>4 DEF Ledger!End, WorkingTokens, NoneOpens

\* Tables that are left alone open no code and bring no token to life.
LEMMA AloneEnds ==
    ASSUME TypeOK, TypeOK', GrantInv, HistoriesGrow, UNCHANGED <<now, tables, issued>>,
           Len(minted)' = Len(minted),
           \A r \in Request : Creating(r)' => Behind(r)' \in OpenCodes
    PROVE  Ledger!End
<1>1. now <= now' /\ UNCHANGED <<codes, access, refresh>>
    BY Times DEF tables
<1>2. NoneOpens
    BY <1>1, OldRefreshIsOpen DEF NoneOpens
<1> QED
    BY <1>1, <1>2, Ends

\* A code is read that is not used, and a refresh token that has not expired.
LEMMA RedeemEnds ==
    ASSUME TypeOK, TypeOK', GrantInv, GrantInv', NEW r \in Request, RedeemCode(r)
    PROVE  Ledger!End
<1>1. PICK client \in Client, c \in DOMAIN codes :
          /\ ~codes[c].isUsed /\ codes[c].expiresAt >= now
          /\ Enter(r, [Idle EXCEPT !.at = "mark", !.code = c, !.client = client,
                                   !.scopes = codes[c].scopes])
    BY DEF RedeemCode
<1>2. PICK work : work = [Idle EXCEPT !.at = "mark", !.code = c, !.client = client,
                                      !.scopes = codes[c].scopes]
    OBVIOUS
<1>3. /\ work = [at |-> work.at, code |-> work.code, token |-> work.token,
                 old |-> work.old, new |-> work.new, client |-> work.client,
                 scopes |-> work.scopes, overlaps |-> work.overlaps]
      /\ work.code = c
    BY <1>2 DEF Idle
<1>4. Enter(r, work)
    BY <1>1, <1>2
<1>5. OnlyOf(r) /\ request'[r].code = c
    BY <1>3, <1>4, EnterDoes
<1>6. UNCHANGED <<now, tables, issued, minted>>
    BY DEF RedeemCode
<1>7. c \in OpenCodes /\ c # None
  <2>1. c \in DOMAIN issued
    BY DEF GrantInv, CodesInv
  <2> QED
    BY <1>1, <2>1, Lengths DEF OpenCodes, None
<1>8. Behind(r)' = c
    BY <1>5, <1>7 DEF Behind
<1> QED
    BY <1>5, <1>6, <1>7, <1>8, OthersOpenNothing, SameTables, AloneEnds

\* A refresh token is read.
LEMMA RefreshEnds ==
    ASSUME TypeOK, TypeOK', GrantInv, GrantInv', NEW r \in Request, Refresh(r)
    PROVE  Ledger!End
<1>1. PICK client \in Client, t \in DOMAIN refresh, requested \in SUBSET Scope :
          /\ refresh[t].expiresAt >= now
          /\ Enter(r, [Idle EXCEPT !.at = "revoke", !.token = t, !.client = client,
                          !.old = refresh[t].accessToken,
                          !.scopes = IF requested = {} THEN refresh[t].scopes
                                     ELSE requested \cap refresh[t].scopes])
    BY DEF Refresh
<1>2. PICK work, scopes :
          /\ work = [Idle EXCEPT !.at = "revoke", !.token = t, !.client = client,
                         !.old = refresh[t].accessToken, !.scopes = scopes]
          /\ Enter(r, work)
    BY <1>1
<1>3. /\ work = [at |-> work.at, code |-> work.code, token |-> work.token,
                 old |-> work.old, new |-> work.new, client |-> work.client,
                 scopes |-> work.scopes, overlaps |-> work.overlaps]
      /\ work.code = None /\ work.token = t
    BY <1>2 DEF Idle
<1>4. OnlyOf(r) /\ request'[r].code = None /\ request'[r].token = t
    BY <1>2, <1>3, EnterDoes
<1>5. UNCHANGED <<now, tables, issued, minted>>
    BY DEF Refresh
<1>6. minted[t].code \in OpenCodes
    BY <1>1, RefreshIsOpen
<1>7. Behind(r)' = minted[t].code
    BY <1>4, <1>5 DEF Behind
<1> QED
    BY <1>4, <1>5, <1>6, <1>7, OthersOpenNothing, SameTables, AloneEnds

\* A request goes on with what it works on.
LEMMA GotoOpensNothing ==
    ASSUME GrantInv, UNCHANGED <<issued, minted>>, NEW r \in Request, Goto(r, "mint"), Creating(r)
    PROVE  \A q \in Request : Creating(q)' => Behind(q)' \in OpenCodes
<1>1. /\ OnlyOf(r) /\ request'[r].code = request[r].code /\ request'[r].token = request[r].token
    BY GotoDoes
<1>2. Behind(r)' = Behind(r)
    BY <1>1 DEF Behind
<1> QED
    BY <1>1, <1>2, CreatingIsOpen, OthersOpenNothing, SameTables

\* The code is marked.
LEMMA MarkEnds ==
    ASSUME TypeOK, TypeOK', GrantInv, GrantInv', NEW r \in Request, MarkAsUsed(r)
    PROVE  Ledger!End
<1>1. /\ UNCHANGED <<now, access, refresh, issued, minted>> /\ Goto(r, "mint")
      /\ request[r].at = "mark"
      /\ codes' = [c \in DOMAIN codes |->
                      [codes[c] EXCEPT !.isUsed = @ \/ c = request[r].code]]
    BY DEF MarkAsUsed, At
<1>2. \A q \in Request : Creating(q)' => Behind(q)' \in OpenCodes
    BY <1>1, GotoOpensNothing DEF Creating
<1>3. ASSUME NEW c \in DOMAIN codes'
      PROVE  /\ c \in DOMAIN codes /\ codes'[c].expiresAt = codes[c].expiresAt
             /\ codes[c].isUsed => codes'[c].isUsed
  <2>1. c \in DOMAIN codes /\ codes[c] \in CodeRow
    BY <1>1, TypeParts DEF CodesTyped
  <2>2. PICK used \in BOOLEAN : /\ codes'[c] = [codes[c] EXCEPT !.isUsed = used]
                                /\ codes[c].isUsed => used
    <3>1. (codes[c].isUsed \/ c = request[r].code) \in BOOLEAN
      OBVIOUS
    <3> QED
      BY <1>1, <2>1, <3>1
  <2>3. codes'[c].expiresAt = codes[c].expiresAt /\ codes'[c].isUsed = used
    BY <2>1, <2>2 DEF CodeRow
  <2> QED
    BY <2>1, <2>2, <2>3
<1>4. HistoriesGrow /\ now <= now'
    BY <1>1, SameTables, Times
<1>5. NoneOpens
    BY <1>1, <1>2, <1>3, <1>4, OldRefreshIsOpen DEF NoneOpens
<1> QED
    BY <1>1, <1>4, <1>5, Ends

\* The old access token is revoked.
LEMMA RevokeEnds ==
    ASSUME TypeOK, TypeOK', GrantInv, GrantInv', NEW r \in Request, RevokeOld(r)
    PROVE  Ledger!End
<1>1. /\ UNCHANGED <<now, codes, refresh, issued, minted>> /\ Goto(r, "mint")
      /\ request[r].at = "revoke"
      /\ access' = [a \in DOMAIN access |->
                       [access[a] EXCEPT !.isRevoked = @ \/ a = request[r].old]]
    BY DEF RevokeOld, At
<1>2. \A q \in Request : Creating(q)' => Behind(q)' \in OpenCodes
    BY <1>1, GotoOpensNothing DEF Creating
<1>3. ASSUME NEW a \in DOMAIN access', ~access'[a].isRevoked
      PROVE  /\ a \in DOMAIN access /\ ~access[a].isRevoked
             /\ access'[a].scopes = access[a].scopes
  <2>1. a \in DOMAIN access /\ access[a] \in AccessRow
    BY <1>1, TypeParts DEF AccessTyped
  <2>2. PICK revoked \in BOOLEAN : /\ access'[a] = [access[a] EXCEPT !.isRevoked = revoked]
                                   /\ access[a].isRevoked => revoked
    <3>1. (access[a].isRevoked \/ a = request[r].old) \in BOOLEAN
      OBVIOUS
    <3> QED
      BY <1>1, <2>1, <3>1
  <2>3. access'[a].scopes = access[a].scopes /\ access'[a].isRevoked = revoked
    BY <2>1, <2>2 DEF AccessRow
  <2> QED
    BY <1>3, <2>1, <2>2, <2>3
<1>4. HistoriesGrow /\ now <= now'
    BY <1>1, SameTables, Times
<1>5. NoneOpens
    BY <1>1, <1>2, <1>4, OldRefreshIsOpen DEF NoneOpens
<1> QED
    BY <1>1, <1>3, <1>4, <1>5, Ends

\* A refresh token is created for the code of the request, or moved.
LEMMA AnswerEnds ==
    ASSUME TypeOK, TypeOK', GrantInv, GrantInv', NEW r \in Request,
           CreateRefresh(r) \/ LinkNew(r)
    PROVE  Ledger!End
<1>1. PICK a, t : /\ a = request[r].new
                  /\ t = IF request[r].at = "pair" THEN a ELSE request[r].token
    OBVIOUS
<1>2. /\ UNCHANGED <<now, codes, access, issued>> /\ Answer(r, t)
      /\ request[r].at \in {"pair", "link"}
    BY <1>1 DEF CreateRefresh, LinkNew, At
<1>3. /\ a \in DOMAIN minted /\ minted[a].code = request[r].code
      /\ request[r].at = "pair" => request[r].code # None
      /\ request[r].at = "link" => minted[a].token = t
    BY <1>1, <1>2 DEF GrantInv, RequestInv
<1>4. HistoriesGrow /\ DOMAIN minted' = DOMAIN minted /\ OnlyOf(r) /\ request'[r] = Idle
    BY <1>1, <1>2, <1>3, AnswerDoes
<1>5. Len(minted)' = Len(minted) /\ now <= now'
    BY <1>2, <1>4, SameLength, Times
<1>6. \A q \in Request : Creating(q)' => Behind(q)' \in OpenCodes
  <2>1. ~Creating(r)'
    BY <1>4, IdleFacts DEF Creating
  <2> QED
    BY <1>4, <2>1, OthersOpenNothing
<1>7. ASSUME NEW u \in DOMAIN refresh', refresh'[u].expiresAt >= now'
      PROVE  minted'[u].code \in OpenCodes
  <2>1. CASE u \in DOMAIN refresh /\ refresh'[u].expiresAt = refresh[u].expiresAt
    BY <1>4, <1>5, <1>7, <2>1, OldRefreshIsOpen
  <2>2. CASE u = a /\ request[r].at = "pair"
    <3>1. Creating(r) /\ Behind(r) = minted[a].code
      BY <1>3, <2>2 DEF Creating, Behind
    <3> QED
      BY <1>3, <1>4, <2>2, <3>1, CreatingIsOpen DEF HistoriesGrow
  <2>3. CASE CreateRefresh(r)
    BY <1>1, <2>1, <2>2, <2>3 DEF CreateRefresh, Insert, At
  <2>4. CASE LinkNew(r)
    <3>1. u \in DOMAIN refresh
      BY <2>4 DEF LinkNew
    <3>2. refresh[u] \in RefreshRow
      BY <3>1, TypeParts DEF RefreshTyped
    <3>3. refresh'[u] = refresh[u] \/ refresh'[u] = [refresh[u] EXCEPT !.accessToken = a]
      BY <1>1, <2>4, <3>1 DEF LinkNew
    <3> QED
      BY <2>1, <3>1, <3>2, <3>3 DEF RefreshRow
  <2> QED
    BY <2>3, <2>4
<1>8. NoneOpens
    BY <1>2, <1>5, <1>6, <1>7 DEF NoneOpens
<1> QED
    BY <1>2, <1>4, <1>5, <1>8, Ends

\* A request gives up, with what it has done.
LEMMA FailEnds ==
    ASSUME TypeOK, TypeOK', GrantInv, GrantInv', NEW r \in Request,
           ForeignKeyFails(r) \/ RequestFails(r)
    PROVE  Ledger!End
<1>1. Finish(r) /\ UNCHANGED <<now, tables, issued, minted>>
    BY DEF ForeignKeyFails, RequestFails
<1>2. OnlyOf(r) /\ ~Creating(r)' /\ HistoriesGrow
    BY <1>1, FinishDoes, IdleFacts, SameTables DEF Creating
<1> QED
    BY <1>1, <1>2, OthersOpenNothing, AloneEnds

\* Rows are deleted, or time passes.
LEMMA CleanupEnds ==
    ASSUME TypeOK, TypeOK', GrantInv, GrantInv',
           Cleanup \/ CleanupFails \/ Tick \/ UNCHANGED vars
    PROVE  Ledger!End
<1>1. UNCHANGED <<request, issued, minted>>
    BY DEF Cleanup, CleanCodes, CleanAccess, CleanRefresh, CleanupFails, Tick, vars
<1>2. now <= now'
    BY Times DEF Cleanup, CleanCodes, CleanAccess, CleanRefresh, CleanupFails, Tick, vars
<1>3. \A c \in DOMAIN codes' : c \in DOMAIN codes /\ codes'[c] = codes[c]
    BY DEF Cleanup, CleanCodes, CleanAccess, CleanRefresh, CleanupFails, Tick, vars, tables,
           Without
<1>4. \A a \in DOMAIN access' : a \in DOMAIN access /\ access'[a] = access[a]
    BY DEF Cleanup, CleanCodes, CleanAccess, CleanRefresh, CleanupFails, Tick, vars, tables,
           Without
<1>5. \A t \in DOMAIN refresh' : t \in DOMAIN refresh /\ refresh'[t] = refresh[t]
    BY DEF Cleanup, CleanCodes, CleanAccess, CleanRefresh, CleanupFails, Tick, vars, tables,
           Without
<1>6. \A q \in Request : Creating(q)' => Behind(q)' \in OpenCodes
    BY <1>1, CreatingIsOpen DEF Creating, Behind
<1>7. HistoriesGrow
    BY <1>1, SameTables
<1>8. NoneOpens
    BY <1>1, <1>2, <1>3, <1>5, <1>6, <1>7, OldRefreshIsOpen DEF NoneOpens
<1> QED
    BY <1>1, <1>4, <1>7, <1>8, Ends

\* A code is issued: the grant is in the ledger, and open.
LEMMA IssueApproves ==
    ASSUME TypeOK, TypeOK', GrantInv, GrantInv', NEW client \in Client, NEW scopes \in SUBSET Scope,
           IssueCode(client, scopes)
    PROVE  Ledger!Approve(client, scopes)
<1>1. PICK n : n = Len(issued) + 1
    OBVIOUS
<1>2. PICK e : e = now + CodeLife
    OBVIOUS
<1>3. /\ issued' = Append(issued, [client |-> client, scopes |-> scopes])
      /\ codes' = Insert(codes, n, [client |-> client, scopes |-> scopes,
                                    isUsed |-> FALSE, expiresAt |-> e])
      /\ UNCHANGED <<now, access, refresh, request, minted>>
    BY <1>1, <1>2 DEF IssueCode
<1>4. e >= now
    BY <1>2, Times, OAuthTokensAssumption
<1>5. /\ DOMAIN issued' = DOMAIN issued \cup {n} /\ n \notin DOMAIN issued
      /\ \A c \in DOMAIN issued : issued'[c] = issued[c]
  <2>1. issued \in Seq(IssuedRow) /\ [client |-> client, scopes |-> scopes] \in IssuedRow
    BY DEF GrantInv, HistoryInv, IssuedRow
  <2> QED
    BY <1>1, <1>3, <2>1
<1>6. n \in OpenCodes'
  <2>1. n \in DOMAIN codes' /\ ~codes'[n].isUsed /\ codes'[n].expiresAt = e
    BY <1>3 DEF Insert
  <2> QED
    BY <1>3, <1>4, <1>5, <2>1 DEF OpenCodes
<1>7. ASSUME NEW c \in DOMAIN issued PROVE c \in OpenCodes' <=> c \in OpenCodes
  <2>1. c # n /\ c \in DOMAIN issued'
    BY <1>5
  <2>2. /\ c \in DOMAIN codes' <=> c \in DOMAIN codes
        /\ c \in DOMAIN codes => codes'[c] = codes[c]
    BY <1>3, <2>1 DEF Insert
  <2>3. \A q \in Request : Behind(q)' = Behind(q) /\ request'[q] = request[q]
    BY <1>3 DEF Behind
  <2> QED
    BY <1>3, <2>1, <2>2, <2>3 DEF OpenCodes
<1>8. OpenCodes' = OpenCodes \cup {n}
  <2>1. OpenCodes \subseteq DOMAIN issued /\ OpenCodes' \subseteq DOMAIN issued \cup {n}
    BY <1>5 DEF OpenCodes
  <2> QED
    BY <1>6, <1>7, <2>1
<1>9. UNCHANGED WorkingTokens
  <2>1. ASSUME NEW a \in {b \in DOMAIN access : Live(b)}
        PROVE  Origin(a)' = Origin(a) /\ minted'[a] = minted[a] /\ access'[a] = access[a]
    BY <1>3 DEF Origin
  <2>2. {b \in DOMAIN access : Live(b)}' = {b \in DOMAIN access : Live(b)}
    BY <1>3 DEF Live
  <2> QED
    BY <1>3, <2>1, <2>2 DEF WorkingTokens
<1>10. Len(minted)' = Len(minted)
    BY <1>3
<1> QED
    BY <1>1, <1>3, <1>8, <1>9, <1>10 DEF Ledger!Approve, WorkingTokens

\* An access token is created: the ledger's grant is the code behind the request.
LEMMA MintGives ==
    ASSUME TypeOK, TypeOK', GrantInv, GrantInv', NEW r \in Request, MintAccess(r)
    PROVE  \E g \in OpenCodes, scopes \in SUBSET Scope : Ledger!Give(g, scopes)
<1>1. PICK n, g, scopes : /\ n = Len(minted) + 1 /\ g = Behind(r)
                          /\ scopes = request[r].scopes
    OBVIOUS
<1>2. /\ OnlyOf(r) /\ request'[r].code = request[r].code
      /\ request'[r].token = request[r].token /\ request'[r].new = n
      /\ minted'[n].client = request[r].client
      /\ minted'[n].code = request[r].code /\ minted'[n].token = request[r].token
      /\ \A a \in DOMAIN minted : minted'[a] = minted[a]
      /\ Len(minted)' = n
    BY <1>1, MintDoes
<1>3. /\ UNCHANGED <<now, codes, refresh, issued>> /\ request[r].at = "mint"
      /\ access' = Insert(access, n, [scopes |-> scopes, isRevoked |-> FALSE,
                                      expiresAt |-> now + AccessLife])
    BY <1>1 DEF MintAccess, At
<1>4. /\ DOMAIN minted = 1 .. Len(minted) /\ DOMAIN minted' = 1 .. Len(minted)'
      /\ Len(minted) \in Nat
    BY Lengths
<1>5. DOMAIN minted' = DOMAIN minted \cup {n} /\ n \notin DOMAIN minted
    BY <1>1, <1>2, <1>4
<1>6. HistoriesGrow
    BY <1>2, <1>3, <1>5 DEF HistoriesGrow
<1>7. /\ g \in OpenCodes /\ scopes \subseteq issued[g].scopes
      /\ request[r].client = issued[g].client
      /\ request[r].code = None => request[r].token \in DOMAIN minted
  <2>1. Creating(r)
    BY <1>3 DEF Creating
  <2> QED
    BY <1>1, <1>3, <2>1, CreatingIsOpen DEF GrantInv, RequestInv
<1>8. scopes \in SUBSET Scope
    BY <1>1, TypeParts DEF RequestTyped
<1>9. Behind(r)' = g
    BY <1>1, <1>2, <1>7 DEF Behind
<1>10. Origin(n)' = g
    BY <1>1, <1>2, <1>7 DEF Behind, Origin
<1>11. NoneOpens
  <2>1. now <= now'
    BY <1>3, Times
  <2>2. \A q \in Request : Creating(q)' => Behind(q)' \in OpenCodes
    BY <1>2, <1>6, <1>7, <1>9, OthersOpenNothing
  <2> QED
    BY <1>3, <1>6, <2>1, <2>2, OldRefreshIsOpen DEF NoneOpens
<1>12. OpenCodes' \in SUBSET OpenCodes
    BY <1>11, OpenCodesClose
<1>13. PICK row : row = [scopes |-> scopes, isRevoked |-> FALSE, expiresAt |-> now + AccessLife]
    OBVIOUS
<1>14. /\ row.scopes = scopes /\ ~row.isRevoked /\ access' = Insert(access, n, row)
    BY <1>3, <1>13
<1>15. {b \in DOMAIN access' : Live(b)'} = {b \in DOMAIN access : Live(b)} \cup {n}
  <2>1. n \notin DOMAIN access
    BY <1>5 DEF GrantInv, AccessInv
  <2> QED
    BY <1>14, <2>1 DEF Live, Insert
<1>16. ASSUME NEW a \in {b \in DOMAIN access : Live(b)}
       PROVE  /\ a # n
              /\ [client |-> minted'[a].client, grant |-> Origin(a)',
                  scopes |-> access'[a].scopes] = WorkingTokens[a]
  <2>1. a \in DOMAIN minted /\ a # n
    BY <1>5 DEF GrantInv, AccessInv
  <2>2. Origin(a)' = Origin(a) /\ minted'[a] = minted[a]
    BY <1>2, <1>6, <2>1, OriginsStay DEF GrantInv
  <2>3. access'[a] = access[a]
    BY <1>14, <2>1 DEF Insert
  <2> QED
    BY <2>1, <2>2, <2>3 DEF WorkingTokens
<1>17. access'[n].scopes = scopes
    BY <1>14 DEF Insert
<1>18. WorkingTokens' =
          [a \in DOMAIN WorkingTokens \cup {n} |->
              IF a = n THEN [client |-> issued[g].client, grant |-> g, scopes |-> scopes]
              ELSE WorkingTokens[a]]
  <2>1. PICK live : live = {b \in DOMAIN access : Live(b)}
    OBVIOUS
  <2>2. WorkingTokens' = [a \in live \cup {n} |->
            [client |-> minted'[a].client, grant |-> Origin(a)', scopes |-> access'[a].scopes]]
    BY <1>15, <2>1 DEF WorkingTokens
  <2>3. DOMAIN WorkingTokens = live
    BY <2>1 DEF WorkingTokens
  <2>4. ASSUME NEW a \in live \cup {n}
        PROVE  [client |-> minted'[a].client, grant |-> Origin(a)', scopes |-> access'[a].scopes]
               = IF a = n THEN [client |-> issued[g].client, grant |-> g, scopes |-> scopes]
                 ELSE WorkingTokens[a]
    <3>1. CASE a = n
      BY <1>2, <1>7, <1>10, <1>17, <3>1
    <3>2. CASE a # n
      BY <1>16, <2>1, <3>2
    <3> QED
      BY <3>1, <3>2
  <2> QED
    BY <2>2, <2>3, <2>4
<1>19. Ledger!Give(g, scopes)
  <2>1. WorkingTokens' =
            [a \in DOMAIN WorkingTokens \cup {Len(minted) + 1} |->
                IF a = Len(minted) + 1
                THEN [client |-> issued[g].client, grant |-> g, scopes |-> scopes]
                ELSE WorkingTokens[a]]
    BY <1>1, <1>18
  <2>2. Len(minted)' = Len(minted) + 1 /\ UNCHANGED issued
    BY <1>1, <1>2, <1>3
  <2> QED
    BY <1>7, <1>12, <2>1, <2>2 DEF Ledger!Give, WorkingTokens
<1> QED
    BY <1>7, <1>8, <1>19

\* In the beginning the ledger is empty.
LEMMA LedgerBegins ==
    ASSUME Init
    PROVE  Ledger!Init
<1>1. issued = <<>> /\ Len(minted) = 0
    BY DEF Init
<1>2. OpenCodes = {}
    BY <1>1 DEF OpenCodes
<1>3. {b \in DOMAIN access : Live(b)} = {}
    BY DEF Init
<1>4. WorkingTokens = [a \in {} |-> {}]
    BY <1>3 DEF WorkingTokens
<1> QED
    BY <1>1, <1>2, <1>4 DEF Ledger!Init, WorkingTokens

\* Every step is one of the ledger.
LEMMA LedgerSteps == TypeOK /\ GrantInv /\ [Next]_vars => Ledger!Next
<1> SUFFICES ASSUME TypeOK, GrantInv, [Next]_vars PROVE Ledger!Next
    OBVIOUS
<1>1. TypeOK' /\ GrantInv'
    BY TypesInductive, GrantInvInductive
<1>2. ASSUME NEW client \in Client, NEW scopes \in SUBSET Scope \ {{}},
             IssueCode(client, scopes)
      PROVE  Ledger!Next
    BY <1>1, <1>2, IssueApproves DEF Ledger!Next
<1>3. ASSUME NEW r \in Request, MintAccess(r) PROVE Ledger!Next
    BY <1>1, <1>3, MintGives DEF Ledger!Next
<1>4. ASSUME NEW r \in Request, TokenStep(r), ~MintAccess(r) PROVE Ledger!End
    BY <1>1, <1>4, RedeemEnds, MarkEnds, RefreshEnds, RevokeEnds, AnswerEnds, FailEnds
    DEF TokenStep
<1>5. CASE Cleanup \/ CleanupFails \/ Tick \/ UNCHANGED vars
    BY <1>1, <1>5, CleanupEnds DEF Ledger!Next
<1> QED
    BY <1>2, <1>3, <1>4, <1>5 DEF Next, Ledger!Next

\* The token endpoint keeps the ledger's promise: whatever requests run at the
\* same time, fail or are cleaned up, an access token is given for an approved
\* grant that is still open, to its client and within its scopes; a token that
\* stopped working never works again, and no code is redeemed, nor any token
\* refreshed, for a grant that was closed.
THEOREM KeepsTheLedger == Spec => ImplementsLedger
<1>1. Init => Ledger!Init
    BY LedgerBegins
<1>2. TypeOK /\ GrantInv /\ [Next]_vars => [Ledger!Next]_(Ledger!vars)
    BY LedgerSteps
<1>3. Spec => [](TypeOK /\ GrantInv)
    BY TypesHold, TypesInductive, GrantInvHolds, GrantInvInductive, PTL DEF Spec
<1> QED
    BY <1>1, <1>2, <1>3, PTL DEF Spec, ImplementsLedger, Ledger!Spec
=============================================================================
