---------------------------- MODULE Organizations ----------------------------
(***************************************************************************)
(* What provisioning promises of the tables of organizations and of the    *)
(* sessions: Provisioning is how it comes about.                           *)
(***************************************************************************)
CONSTANTS
    Session,    \* browser sessions
    NoOrg,      \* no organization
    NoUser      \* nobody

VARIABLES
    orgs,       \* rows of organizations, the soft-deleted ones included
    members,    \* rows of organization_users
    session     \* the user logged in, oauth_organization_id, and whose login put it there

Member(o, u) == {m \in members : m.org = o /\ m.user = u}

\* "First user becomes owner": however many first users arrive together, an
\* organization has one OWNER, the one owner_user_id names, and each user has
\* one role in it.
OrganizationsHaveOneOwner ==
    \A o \in DOMAIN orgs :
        /\ {m.user : m \in {n \in members : n.org = o /\ n.role = "OWNER"}} =
               {orgs[o].owner}
        /\ \A m, n \in members : m.org = o /\ n.org = o /\ m.user = n.user => m = n

\* A session is only ever given an organization that the user who is then logged
\* in is a member of, although between FindOrg and the login other requests join
\* it and delete it.  Logging out and logging in by the form keep what it was given:
\* who is logged in by then is another matter (OrganizationsAreOnesOwn).
LoginsAreMembers ==
    \A s \in Session :
        session[s].org # NoOrg => Member(session[s].org, session[s].whose) # {}

\* oauth_jit_middleware.ts:51 says "Store organization context in session for OAuth
\* flow": who is logged in acts for an organization it is a member of.
OrganizationsAreOnesOwn ==
    \A s \in Session :
        session[s].user # NoUser /\ session[s].org # NoOrg
            => Member(session[s].org, session[s].user) # {}
=============================================================================
