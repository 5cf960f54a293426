----------------------------- MODULE MC_Service -----------------------------
(* The web application around the databases: the API, the token endpoint, the   *)
(* consent page, just-in-time provisioning, forgotten passwords; and what is read*)
(* of databases and jobs: pages of logs, the history of jobs, queries, charts.  *)
(* These share no table but that of the organizations, of which the API only    *)
(* sees which are deleted: one part is chosen in the initial state, and the      *)
(* others stay as they are.                                                     *)
EXTENDS OAuthTokens, TLC

CONSTANTS Part, m1, m2, Session, NoOrg, NoUser, NoName, Null, Absent
VARIABLES
    part,
    cNow, came, cSession, cRequest, consents, approved, granted, spilt,
    users, orgs, members, session, job,
    pNow, links, reset, resets,
    logs, reader, first, pages, skipped,
    mNow, row, delivery,
    spec, outcome, query,
    answers, charts, failed, response,
    closed, rows, connected, queue, apiRequest, deletes, calls

\* One client asks for one scope, the other or both, and a trusted one for both.
MCParams == {[client |-> m1, scopes |-> s] : s \in SUBSET Scope \ {{}}}
            \cup {[client |-> m2, scopes |-> Scope]}

C == INSTANCE OAuthAuthorization WITH
        Params <- MCParams, TrustedClient <- {m2},
        ConsentLife <- 1, MaxNow <- 2, MaxRequests <- 5, MaxCodes <- 3, MaxApprovals <- 2,
        now <- cNow, session <- cSession, request <- cRequest, issued <- granted
INSTANCE ApprovedCodes WITH issued <- granted

\* Two people with the same name at different addresses, and one of them with a
\* new address.
\* Some tokens are of nobody, of an unknown issuer, for others or not signed.
Of(email, sub, username, name, as) ==
    [issuer |-> "idp", audience |-> "galaxy", signed |-> TRUE, email |-> email,
     username |-> username, sub |-> sub, org |-> [name |-> name, as |-> as]]
MCToken ==
    {Of("jo@a", "1", "jo", "x", as) : as \in {"missing", "given"}}
    \cup {Of("al@a", "2", NoUser, "x", "upper case"), Of("jo@b", "3", NoUser, "x", "given"),
          Of("al@b", "2", "al2", "y", "given"), Of("al@a", "2", "al", "x", "not a string"),
          Of(NoUser, "2", "al", "x", "given"),
          [Of("al@a", "2", "al", "x", "given") EXCEPT !.issuer = "other"],
          [Of("al@a", "2", "al", "x", "given") EXCEPT !.issuer = NoUser],
          [Of("al@a", "2", "al", "x", "given") EXCEPT !.audience = "others"],
          [Of("al@a", "2", "al", "x", "given") EXCEPT !.signed = FALSE]}
MCLocalPart == [e \in {"jo@a", "jo@b", "al@a", "al@b"} |->
                    IF e \in {"jo@a", "jo@b"} THEN "jo" ELSE "al"]

V == INSTANCE Provisioning WITH
        Token <- MCToken, LocalPart <- MCLocalPart, MaxDeletions <- 1,
        Provider <- [i \in {"idp"} |-> [keys |-> TRUE, audience |-> "galaxy"]]
INSTANCE Organizations

P == INSTANCE PasswordReset WITH
        Request <- {m1, m2}, Life <- 1, MaxNow <- 2, MaxLinks <- 3, MaxResets <- 2,
        now <- pNow, request <- reset
INSTANCE ResetLinks WITH now <- pNow

L == INSTANCE LogPaging WITH Limit <- 2, Fine <- 2, MaxTime <- 5, MaxLogs <- 4
INSTANCE LogPages WITH Limit <- 2, Fine <- 2
M == INSTANCE JobMonitor WITH
        Job <- {m1}, LongAfter <- 1, MaxNow <- 2, MaxDeliveries <- 3, now <- mNow,
        Hour <- 0, Day <- 1, FailedPerHour <- 0, FailedPerDay <- 0, ActiveAllowed <- 0,
        SlowAfter <- 1
INSTANCE WorkerHealth WITH
        Job <- {m1}, LongAfter <- 1, now <- mNow,
        Hour <- 0, Day <- 1, FailedPerHour <- 0, FailedPerDay <- 0, ActiveAllowed <- 0,
        SlowAfter <- 1

-----------------------------------------------------------------------------
(* QuerySpecs: each part of one there or not, alone and together, the right     *)
(* side of an operation being a spec that may have each part itself.            *)
B == INSTANCE PromQuery WITH Specs <- {}, None <- Absent

Agg(overTime, interval, by, without) ==
    [overTime |-> overTime, interval |-> interval, by |-> by, without |-> without]
Aggs ==
    {Absent, Agg(FALSE, Absent, Absent, Absent), Agg(TRUE, "1m", Absent, Absent),
     Agg(TRUE, Absent, Absent, Absent), Agg(FALSE, "1m", Absent, Absent),
     Agg(FALSE, Absent, <<"ns">>, Absent), Agg(FALSE, Absent, Absent, <<"ns">>),
     Agg(FALSE, Absent, <<"ns">>, <<"op">>), Agg(FALSE, Absent, <<>>, Absent),
     Agg(FALSE, Absent, <<"ns", "op">>, Absent),
     Agg(TRUE, "1m", <<"ns">>, Absent), Agg(TRUE, "1m", Absent, <<"ns">>)}
Functions == {<<>>, <<"rate()[1m]">>, <<"avg()">>, <<"rate()[1m]", "avg()">>, <<"avg()", "rate()[1m]">>}

Spec1(metric, functions, agg, filter, math) ==
    [B!Metric(metric, functions) EXCEPT
        !.aggregation = agg, !.filter = filter, !.mathExpression = math]

Simple(metric, aggs, functions) ==
    {Spec1(metric, f, agg, filter, math) :
        f \in functions, agg \in aggs, filter \in {Absent, "< +Inf"}, math \in {Absent, "100"}}

SomeAggs == {Absent, Agg(FALSE, Absent, Absent, Absent), Agg(FALSE, Absent, <<>>, Absent)}
RightAggs == SomeAggs \cup {Agg(FALSE, Absent, <<"op">>, Absent)}
Left == Simple("m", Aggs, Functions)
Right0 == Simple("n", RightAggs, {<<>>, <<"rate()[1m]">>})
\* A right side may have one of its own.
Right == Right0 \cup {[B!Metric("n", <<>>) EXCEPT !.dividedBy = B!Metric("o", <<>>)]}

Lefts == Simple("m", SomeAggs, {<<>>, <<"rate()[1m]">>})
Divided == {[l EXCEPT !.dividedBy = r] : l \in Lefts, r \in Right}

Op(sign, on, left, right, r) ==
    [sign |-> sign, on |-> on, groupLeft |-> left, groupRight |-> right, right |-> r]
OnClauses == {Absent, <<"ns">>, <<"ns", "op">>, <<>>}
Combined ==
    {[l EXCEPT !.binaryOp = Op(sign, on, left, right, r)] :
        l \in {s \in Lefts : s.aggregation = Absent}, sign \in {"*", "/", "+", "-"},
        on \in OnClauses, left \in {Absent, <<"op">>}, right \in {Absent, <<"op">>},
        r \in {s \in Right : s.functions = <<>>}}
\* Labels of every form, and functions and metrics that are not in form.
Labelled ==
    {[B!Metric("m", f) EXCEPT !.labels = <<B!Label(key, not, value)>>] :
        f \in Functions, key \in {"ns", "", "__name__"}, not \in BOOLEAN,
        value \in {"plain", "~", "!~"}}
Misformed == {B!Metric(m, f) : m \in {"", "m"}, f \in {<<"avg">>, <<"rate()">>, <<>>}}
Both == {[l EXCEPT !.dividedBy = B!Metric("n", <<>>),
                   !.binaryOp = Op("+", Absent, Absent, Absent, B!Metric("o", <<>>))] : l \in Lefts}

Q == INSTANCE PromQuery WITH
        Specs <- Left \cup Divided \cup Combined \cup Both \cup Labelled \cup Misformed
                 \cup B!Shipped,
        None <- Absent

-----------------------------------------------------------------------------
(* Answers of one or two series, with names that are alike, apart or missing,   *)
(* and values at some of two instants, zero among them.                         *)
Values == {<<>>} \cup [{1} -> {2}] \cup [{2} -> {1}] \cup {v \in [{1, 2} -> {0, 1}] : v[2] = 1}
Series(names) == [name : names, values : Values]
MCReplies ==
    {<<>>} \cup {<<s>> : s \in Series({"a", NoName})}
    \cup {<<s, t>> : s \in Series({"a"}), t \in Series({"a", "b", NoName})}

R == INSTANCE Charts WITH
        Query <- {"cpu", "disk_usage"}, Replies <- MCReplies
INSTANCE ChartRows

-----------------------------------------------------------------------------
(* Anna with a token that may write in her own context, and one that may do     *)
(* everything for an organization.  Names and stack names are any values that   *)
(* are alike, and the symmetry of the scopes and sessions is good for them too. *)
Token(org, scope) == [user |-> "anna", org |-> org, scopes |-> {scope}]
MCTokens == [t \in {m1, m2} |->
                IF t = m1 THEN Token(NoOrg, "database:write") ELSE Token("x", "database:admin")]

A == INSTANCE InstanceApi WITH
        Tokens <- MCTokens, NoOwner <- NoUser, HasOwner <- {"anna", "x"},
        Name <- Scope, Stack <- Session, MaxRows <- 2, MaxCalls <- 3,
        request <- apiRequest
INSTANCE InstanceOwners WITH Tokens <- MCTokens, request <- apiRequest

-----------------------------------------------------------------------------
cVars == <<cNow, came, cSession, cRequest, consents, approved, granted, spilt>>
vVars == <<users, orgs, members, session, job>>
pVars == <<pNow, links, reset, resets>>
aVars == <<closed, rows, connected, queue, apiRequest, deletes, calls>>
accounts == <<vars, cVars, vVars, pVars, aVars>>

lVars == <<logs, reader, first, pages, skipped>>
mVars == <<mNow, row, delivery>>
qVars == <<spec, outcome, query>>
rVars == <<answers, charts, failed, response>>
insights == <<lVars, mVars, qVars, rVars>>

MCInit ==
    /\ part \in Part
    /\ Init /\ C!Init /\ V!Init /\ P!Init /\ A!Init
    /\ L!Init /\ M!Init /\ R!Init
    /\ IF part = "query" THEN Q!Init
       ELSE spec = Absent /\ outcome = "asked" /\ query = <<>>

MCNext ==
    /\ UNCHANGED part
    /\ \/ part = "tokens" /\ Next /\ UNCHANGED <<cVars, vVars, pVars, aVars, insights>>
       \/ part = "consent" /\ C!Next /\ UNCHANGED <<vars, vVars, pVars, aVars, insights>>
       \/ part = "provisioning" /\ V!Next /\ UNCHANGED <<vars, cVars, pVars, aVars, insights>>
       \/ part = "password" /\ P!Next /\ UNCHANGED <<vars, cVars, vVars, aVars, insights>>
       \/ part = "api" /\ A!Next /\ UNCHANGED <<vars, cVars, vVars, pVars, insights>>
       \/ part = "logs" /\ L!Next /\ UNCHANGED <<accounts, mVars, qVars, rVars>>
       \/ part = "monitor" /\ M!Next /\ UNCHANGED <<accounts, lVars, qVars, rVars>>
       \/ part = "query" /\ Q!Next /\ UNCHANGED <<accounts, lVars, mVars, rVars>>
       \/ part = "charts" /\ R!Next /\ UNCHANGED <<accounts, lVars, mVars, qVars>>

MCSpec == MCInit /\ [][MCNext]_<<part, accounts, insights>>

\* The other parts are as they were in the initial state.
AllTypesOK ==
    CASE part = "tokens" -> TypeOK
      [] part = "consent" -> C!TypeOK
      [] part = "provisioning" -> V!TypeOK
      [] part = "password" -> P!TypeOK
      [] part = "api" -> A!TypeOK
      [] part = "logs" -> L!TypeOK
      [] part = "monitor" -> M!TypeOK
      [] part = "query" -> Q!TypeOK
      [] part = "charts" -> R!TypeOK
Symmetry == Permutations(Session) \cup Permutations(Request) \cup Permutations(Scope)
=============================================================================
