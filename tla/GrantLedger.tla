---------------------------- MODULE GrantLedger ----------------------------
(***************************************************************************)
(* What the token endpoint promises of what was approved, without codes,   *)
(* refresh tokens, requests or a clock.                                    *)
(*                                                                         *)
(* A grant is approved for a client and some scopes and is open from then  *)
(* on.  While it is open it may give access: a new token, to its client    *)
(* and with no scope that was not approved.  A token that stops working    *)
(* and a grant that is closed stay so, and a token that works is what it   *)
(* was when it was given.                                                  *)
(***************************************************************************)
EXTENDS Naturals, Sequences

CONSTANTS Client, Scope

VARIABLES
    approved,  \* the grants, in the order of their approval
    open,      \* the numbers of those that may still give access
    given,     \* how many tokens were given
    working    \* the tokens that work, by number

vars == <<approved, open, given, working>>

Init ==
    /\ approved = <<>>
    /\ open = {}
    /\ given = 0
    /\ working = [a \in {} |-> {}]

Approve(client, scopes) ==
    /\ approved' = Append(approved, [client |-> client, scopes |-> scopes])
    /\ open' = open \cup {Len(approved) + 1}
    /\ UNCHANGED <<given, working>>

\* The last token of a grant may be the end of it.
Give(g, scopes) ==
    /\ g \in open
    /\ scopes \subseteq approved[g].scopes
    /\ given' = given + 1
    /\ working' = [a \in DOMAIN working \cup {given + 1} |->
                      IF a = given + 1
                      THEN [client |-> approved[g].client, grant |-> g, scopes |-> scopes]
                      ELSE working[a]]
    /\ open' \in SUBSET open
    /\ UNCHANGED approved

\* Tokens stop working, and grants are closed.
End ==
    /\ \E kept \in SUBSET DOMAIN working : working' = [a \in kept |-> working[a]]
    /\ open' \in SUBSET open
    /\ UNCHANGED <<approved, given>>

Next ==
    \/ \E client \in Client, scopes \in SUBSET Scope \ {{}} : Approve(client, scopes)
    \/ \E g \in open, scopes \in SUBSET Scope : Give(g, scopes)
    \/ End

Spec == Init /\ [][Next]_vars
=============================================================================
