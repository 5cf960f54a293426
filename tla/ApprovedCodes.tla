---------------------------- MODULE ApprovedCodes ----------------------------
(***************************************************************************)
(* What the consent page promises of the authorization codes a session is  *)
(* given: OAuthAuthorization is how they are given.                        *)
(***************************************************************************)
EXTENDS Integers, Sequences

VARIABLES
    approved,   \* history: the parameters approved on the consent page, in order
    issued,     \* history: the codes issued, in order
    spilt       \* history: the approvals whose flag requests shared, or whose
                \* code was lost with the answer that took the flag away

OnTheFlag(c) == issued[c].ground = "session"

\* consent_granted lets one request pass: a second code on the approval that set it
\* needs requests that carried the flag at the same time, or a lost answer.
OneCodePerApproval ==
    \A c \in DOMAIN issued : OnTheFlag(c) =>
        /\ issued[c].approval \in DOMAIN approved
        /\ \A d \in DOMAIN issued :
              OnTheFlag(d) /\ issued[d].approval = issued[c].approval /\ c # d
                  => issued[c].approval \in spilt

\* The user has approved these scopes of this client, and maybe more, in one go.
WasApproved(p) ==
    \E i \in DOMAIN approved :
        approved[i].client = p.client /\ p.scopes \subseteq approved[i].scopes

\* What the stored consents allow was approved on the consent page: a row is
\* replaced by each approval, never added up from several.
StoredConsentWasApproved ==
    \A c \in DOMAIN issued : issued[c].ground = "stored" => WasApproved(issued[c].params)

\* Unless its client is trusted, a code is given on the flag of an approval that has
\* given no other, or on a stored consent to its scopes.  What the flag was set for
\* is another matter: BroaderScopesAreAsked.
CodesAreApproved == OneCodePerApproval /\ StoredConsentWasApproved

\* A user who is asked for more than was consented to is sent to the consent page,
\* as tests/functional/oauth_flow.spec.ts:280 has it: nobody but a trusted client has
\* a code for what was not approved.
BroaderScopesAreAsked ==
    \A c \in DOMAIN issued : issued[c].ground # "trusted" => WasApproved(issued[c].params)
=============================================================================
