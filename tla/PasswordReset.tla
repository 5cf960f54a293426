---------------------------- MODULE PasswordReset ----------------------------
(***************************************************************************)
(* Forgotten passwords of one user: the requests that send a reset link    *)
(* and those that use one, over the table password_reset_tokens.  Each     *)
(* database call of a request is a step, after which its process may die.  *)
(***************************************************************************)
EXTENDS Integers, Sequences, FiniteSets

CONSTANTS
    Request,    \* requests the server runs at the same time
    Life,       \* how long a link is good for (an hour)
    MaxNow,     \* bound on the clock
    MaxLinks,   \* bound on the links made
    MaxResets   \* bound on the passwords set

VARIABLES
    now,        \* the clock
    links,      \* rows of password_reset_tokens, in the order of their creation
    request,    \* what each request is doing
    resets      \* history: the passwords set, in order
\* Its property is LinksAreUsedOnce.
INSTANCE ResetLinks

vars == <<now, links, request, resets>>

\* Whether the request that made a link ran beside another one is history.
LinkRow == [expiresAt : Nat, overlapped : BOOLEAN]

Idle == [at |-> "idle", link |-> 0, overlaps |-> FALSE]
At(r, place) == request[r].at = place
Goto(r, place) == request' = [request EXCEPT ![r].at = place]
Finish(r) == request' = [request EXCEPT ![r] = Idle]

\* A request sets out; which ones it runs beside is noted on both sides.
Enter(r, work) ==
    LET others == {q \in Request \ {r} : request[q].at # "idle"} IN
    request' = [q \in Request |->
        IF q = r THEN [work EXCEPT !.overlaps = others # {}]
        ELSE [request[q] EXCEPT !.overlaps = @ \/ q \in others]]

\* Mutant of Expired: only links that are past their end are written.
ExpiredAlready == [k \in DOMAIN links |->
               IF links[k].expiresAt <= now THEN [links[k] EXCEPT !.expiresAt = now]
               ELSE links[k]]

\* PasswordResetTokenRepository.expire: links that end now are written too.
Expired == [k \in DOMAIN links |->
               IF links[k].expiresAt >= now THEN [links[k] EXCEPT !.expiresAt = now]
               ELSE links[k]]

-----------------------------------------------------------------------------
(* trySendPasswordResetEmail *)

Send(r) ==
    /\ At(r, "idle")
    /\ Len(links) < MaxLinks
    /\ Enter(r, [Idle EXCEPT !.at = "expire"])
    /\ UNCHANGED <<now, links, resets>>

ExpireOld(r) ==
    /\ At(r, "expire")
    /\ links' = Expired
    /\ Goto(r, "create")
    /\ UNCHANGED <<now, resets>>

CreateLink(r) ==
    /\ At(r, "create")
    /\ Len(links) < MaxLinks
    /\ links' = Append(links, [expiresAt |-> now + Life,
                               overlapped |-> request[r].overlaps])
    /\ Finish(r)
    /\ UNCHANGED <<now, resets>>

-----------------------------------------------------------------------------
(* resetPassword *)

\* verifyPasswordResetToken
Verify(r) ==
    \E k \in DOMAIN links :
        /\ At(r, "idle")
        /\ Len(resets) < MaxResets
        /\ Valid(k)
        /\ Enter(r, [Idle EXCEPT !.at = "password", !.link = k])
        /\ UNCHANGED <<now, links, resets>>

SetPassword(r) ==
    /\ At(r, "password")
    /\ Len(resets) < MaxResets
    /\ resets' = Append(resets, [link |-> request[r].link, ended |-> FALSE,
                                 overlapped |-> request[r].overlaps])
    /\ request' = [request EXCEPT ![r].at = "spend", ![r].link = Len(resets) + 1]
    /\ UNCHANGED <<now, links>>

\* The request now knows the number of its reset.
SpendLink(r) ==
    /\ At(r, "spend")
    /\ links' = Expired
    /\ resets' = [resets EXCEPT ![request[r].link].ended = TRUE,
                                ![request[r].link].overlapped = request[r].overlaps]
    /\ Finish(r)
    /\ UNCHANGED now

\* A call fails or the process dies: what was written stays.
Fail(r) ==
    /\ ~At(r, "idle")
    /\ Finish(r)
    /\ UNCHANGED <<now, links, resets>>

Tick ==
    /\ now < MaxNow
    /\ now' = now + 1
    /\ UNCHANGED <<links, request, resets>>

Init ==
    /\ now = 0 /\ links = <<>> /\ resets = <<>>
    /\ request = [r \in Request |-> Idle]

Next ==
    \/ \E r \in Request :
          \/ Send(r) \/ ExpireOld(r) \/ CreateLink(r)
          \/ Verify(r) \/ SetPassword(r) \/ SpendLink(r) \/ Fail(r)
    \/ Tick

Spec == Init /\ [][Next]_vars

-----------------------------------------------------------------------------
TypeOK ==
    /\ now \in 0 .. MaxNow
    /\ links \in Seq(LinkRow)
    /\ Len(links) <= MaxLinks /\ Len(resets) <= MaxResets
    /\ \A r \in Request :
          /\ request[r].at \in {"idle", "expire", "create", "password", "spend"}
          /\ request[r].at = "password" => request[r].link \in DOMAIN links
          /\ request[r].at = "spend" => request[r].link \in DOMAIN resets
=============================================================================
