------------------------------ MODULE ResetLinks ------------------------------
(***************************************************************************)
(* What is promised of the links that reset a forgotten password:          *)
(* PasswordReset is how they are sent and used.                            *)
(***************************************************************************)
EXTENDS Integers, Sequences

VARIABLES
    now,        \* the clock
    links,      \* rows of password_reset_tokens, in the order of their creation
    resets      \* history: the passwords set, in order

\* PasswordResetToken.isValid
Valid(k) == links[k].expiresAt > now

\* A new link takes the place of the older ones: two links work at the same
\* time only when the request that made the later one ran beside another.
OneLinkAtATime ==
    \A k \in DOMAIN links, l \in DOMAIN links :
        k < l /\ Valid(k) /\ Valid(l) => links[l].overlapped

\* A link sets a password once: when a reset has ended, another reset with the
\* same link is one that ran beside it or beside another request, or one that
\* had set the password before and failed to spend the link.
LinkIsSpent ==
    \A i \in DOMAIN resets, j \in DOMAIN resets :
        (i < j /\ resets[i].link = resets[j].link)
            => ~resets[i].ended \/ resets[j].overlapped

\* One link at a time, for one password, where requests come one by one.
LinksAreUsedOnce == OneLinkAtATime /\ LinkIsSpent
=============================================================================
