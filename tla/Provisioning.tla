---------------------------- MODULE Provisioning ----------------------------
(***************************************************************************)
(* Just-in-time provisioning: a request to the OAuth pages that carries an *)
(* id_token_hint creates or links the user it names, creates or joins the  *)
(* organization it names, and logs the session in.  Beside it: the         *)
(* registration form, logging out, and the deletion of an organization,    *)
(* which is a soft one.                                                    *)
(*                                                                         *)
(* Requests of different sessions interleave at every database call; those *)
(* of one session are served one after the other.                          *)
(* Users are named by their e-mail address and are never deleted;          *)
(* organizations are numbered in the order of their creation.              *)
(***************************************************************************)
EXTENDS Integers, Sequences, FiniteSets

CONSTANTS
    Session,      \* browser sessions
    Token,        \* tokens sent as hints: [issuer, audience, signed, email, username,
                  \* sub, org], org being [name, as]
    Provider,     \* the rows of trusted_identity_providers, by issuer: [keys, audience]
    LocalPart,    \* what an e-mail address says before its @
    NoOrg,        \* the org of a hint that names none; no organization
    NoUser,       \* nobody; the sub of a user who is not linked
    MaxDeletions  \* bound on the organizations deleted

\* decodeAndValidateBasicClaims
Decoded(t) == t.issuer # NoUser

\* findTrustedProvider: it is known by the issuer, and its keys are known.
Trusted(t) == t.issuer \in DOMAIN Provider /\ Provider[t.issuer].keys

\* verifyTokenSignature, for the audience the provider is expected to name.
Verified(t) == Trusted(t) /\ t.signed /\ t.audience = Provider[t.issuer].audience

\* extractOrganizationData: a claim that has no name counts for none; a name is
\* taken in lower case.
OrganizationOf(t) == IF t.org.as \in {"missing", "not a string"} THEN NoOrg ELSE t.org.name

\* extractUserData: the name of a user defaults to that of the mailbox.
UserData(t) ==
    [email |-> t.email, sub |-> t.sub, org |-> OrganizationOf(t),
     username |-> IF t.username = NoUser THEN LocalPart[t.email] ELSE t.username]

\* verifyAndExtractUser refuses a token that is not verified or lacks a claim.
Accepted(t) == Decoded(t) /\ Verified(t) /\ t.email # NoUser /\ t.sub # NoUser
Hint == {UserData(t) : t \in {u \in Token : Accepted(u)}}

VARIABLES
    users,      \* rows of users, by e-mail, with their row of owners
    orgs,       \* rows of organizations, the soft-deleted ones included
    members,    \* rows of organization_users
    session,    \* the user logged in, oauth_organization_id, and whose login put it there
    job         \* what the request of each session is doing

\* Its properties are OrganizationsHaveOneOwner and LoginsAreMembers.
INSTANCE Organizations

vars == <<users, orgs, members, session, job>>

\* Rows, in what provisioning reads and writes of them.
UserRow == [username : {h.username : h \in Hint},
            sub : {h.sub : h \in Hint} \cup {NoUser}, owner : BOOLEAN]
OrgRow == [name : {h.org : h \in Hint}, owner : DOMAIN users, deleted : BOOLEAN]
MemberRow == [org : DOMAIN orgs, user : DOMAIN users, role : {"OWNER", "DEVELOPER"}]

NoJob == [at |-> "idle"]
Work(at, hint, org) == [at |-> at, hint |-> hint, org |-> org]

Alive(o) == o \in DOMAIN orgs /\ ~orgs[o].deleted

At(s, place) == job[s].at = place
Goto(s, place, org) == job' = [job EXCEPT ![s] = Work(place, @.hint, org)]
Done(s) == job' = [job EXCEPT ![s] = NoJob]

\* The error is logged, and the request goes on without a login.
Fails(s) ==
    /\ Done(s)
    /\ UNCHANGED <<users, orgs, members, session>>

\* A row that would break unique(email), unique(username) or
\* unique(external_idp_id, external_user_id), the row of this e-mail aside.
Clash(email, username, sub) ==
    \E u \in DOMAIN users \ {email} :
        \/ users[u].username = username
        \/ sub # NoUser /\ users[u].sub = sub

-----------------------------------------------------------------------------
\* OAuthJitMiddleware.handle: a session that is logged in is left alone, and so
\* is one whose token is refused.
Begin(s, t) ==
    /\ At(s, "idle")
    /\ session[s].user = NoUser
    /\ Accepted(t)
    /\ job' = [job EXCEPT ![s] = Work("user", UserData(t), NoOrg)]
    /\ UNCHANGED <<users, orgs, members, session>>

\* UserProvisioningService.provisionUser
FindUser(s) ==
    LET h == job[s].hint IN
    /\ At(s, "user")
    /\ Goto(s, IF h.email \notin DOMAIN users THEN "create"
               ELSE IF users[h.email].sub # NoUser THEN "org" ELSE "link", NoOrg)
    /\ UNCHANGED <<users, orgs, members, session>>

LinkUser(s) ==
    LET h == job[s].hint IN
    /\ At(s, "link")
    /\ IF Clash(h.email, users[h.email].username, h.sub) THEN Fails(s)
       ELSE /\ users' = [users EXCEPT ![h.email].sub = h.sub]
            /\ Goto(s, "org", NoOrg)
            /\ UNCHANGED <<orgs, members, session>>

\* The user and its owner row, in one transaction.
CreateUser(s) ==
    LET h == job[s].hint IN
    /\ At(s, "create")
    /\ IF h.email \in DOMAIN users \/ Clash(h.email, h.username, h.sub) THEN Fails(s)
       ELSE /\ users' = [u \in DOMAIN users \cup {h.email} |->
                            IF u = h.email THEN [username |-> h.username,
                                                 sub |-> h.sub, owner |-> TRUE]
                            ELSE users[u]]
            /\ Goto(s, "org", NoOrg)
            /\ UNCHANGED <<orgs, members, session>>

\* The transaction of provisionOrganizationAndUser, read committed: the
\* organization is looked for among those that are not deleted.
FindOrg(s) ==
    LET h == job[s].hint
        found == {o \in DOMAIN orgs : Alive(o) /\ orgs[o].name = h.org} IN
    /\ At(s, "org")
    /\ \/ h.org = NoOrg /\ Goto(s, "login", NoOrg)
       \/ h.org # NoOrg /\ found = {} /\ Goto(s, "found", NoOrg)
       \/ h.org # NoOrg /\ \E o \in found : Goto(s, "member", o)
    /\ UNCHANGED <<users, orgs, members, session>>

\* assignUserRole
Membership(o, u, role) == [org |-> o, user |-> u, role |-> role]

\* OrganizationRepository.create
NewOrg(name, owner) == Append(orgs, [name |-> name, owner |-> owner, deleted |-> FALSE])

\* Mutant of CreateOrg: a name that is taken is joined as its owner.
CreateOrgJoins(s) ==
    LET h == job[s].hint
        new == Len(orgs) + 1
        taken == {o \in DOMAIN orgs : orgs[o].name = h.org} IN
    /\ At(s, "found")
    /\ orgs' = IF taken # {} THEN orgs
               ELSE NewOrg(h.org, h.email)
    /\ \E o \in IF taken # {} THEN taken ELSE {new} :
          /\ members' = members \cup {Membership(o, h.email, "OWNER")}
          /\ Goto(s, "login", o)
    /\ UNCHANGED <<users, session>>

\* createOrganizationWithOwner: the organization, its owner row and the
\* membership.  unique(username) counts the deleted rows too.
CreateOrg(s) ==
    LET h == job[s].hint
        new == Len(orgs) + 1 IN
    /\ At(s, "found")
    /\ IF \E o \in DOMAIN orgs : orgs[o].name = h.org
       THEN Fails(s)
       ELSE /\ orgs' = NewOrg(h.org, h.email)
            /\ members' = members \cup {Membership(new, h.email, "OWNER")}
            /\ Goto(s, "login", new)
            /\ UNCHANGED <<users, session>>

\* Mutant of FindMember: it is taken that the user is one.
FindMemberSkipsJoining(s) ==
    /\ At(s, "member")
    /\ IF ~Alive(job[s].org) THEN Fails(s)
       ELSE /\ Goto(s, "login", job[s].org)
            /\ UNCHANGED <<users, orgs, members, session>>

\* addUserToExistingOrganization: findOrFail, and the membership.
FindMember(s) ==
    LET o == job[s].org IN
    /\ At(s, "member")
    /\ IF ~Alive(o) THEN Fails(s)
       ELSE /\ Goto(s, IF Member(o, job[s].hint.email) # {} THEN "login" ELSE "join", o)
            /\ UNCHANGED <<users, orgs, members, session>>

\* assignUserToOrganization: firstOrFail, and the row of organization_users.
Join(s) ==
    LET o == job[s].org
        u == job[s].hint.email IN
    /\ At(s, "join")
    /\ IF ~Alive(o) \/ Member(o, u) # {} THEN Fails(s)
       ELSE /\ members' = members \cup {Membership(o, u, "DEVELOPER")}
            /\ Goto(s, "login", o)
            /\ UNCHANGED <<users, orgs, session>>

\* The organization goes into the session only when the hint names one; one that
\* an earlier login left there stays.
Login(s) ==
    LET o == job[s].org IN
    /\ At(s, "login")
    /\ session' = [session EXCEPT ![s].user = job[s].hint.email,
                                  ![s].org = IF o = NoOrg THEN @ ELSE o,
                                  ![s].whose = IF o = NoOrg THEN @ ELSE job[s].hint.email]
    /\ Done(s)
    /\ UNCHANGED <<users, orgs, members>>

-----------------------------------------------------------------------------
\* Logging out forgets the user, not the organization.
Logout(s) ==
    /\ At(s, "idle")
    /\ session[s].user # NoUser
    /\ session' = [session EXCEPT ![s].user = NoUser]
    /\ UNCHANGED <<users, orgs, members, job>>

\* AuthService.login, by the form: the organization of the session stays.
LoginByForm(s, email) ==
    /\ At(s, "idle")
    /\ email \in DOMAIN users
    /\ session' = [session EXCEPT ![s].user = email]
    /\ UNCHANGED <<users, orgs, members, job>>

\* AuthService.register: a user without an owner row.
Register(s, email, username) ==
    /\ At(s, "idle")
    /\ email \notin DOMAIN users
    /\ ~Clash(email, username, NoUser)
    /\ users' = [u \in DOMAIN users \cup {email} |->
                    IF u = email THEN [username |-> username, sub |-> NoUser,
                                       owner |-> FALSE]
                    ELSE users[u]]
    /\ session' = [session EXCEPT ![s].user = email]
    /\ UNCHANGED <<orgs, members, job>>

\* OrganizationRepository.delete
DeleteOrg(o) ==
    /\ Alive(o)
    /\ Cardinality({p \in DOMAIN orgs : orgs[p].deleted}) < MaxDeletions
    /\ orgs' = [orgs EXCEPT ![o].deleted = TRUE]
    /\ UNCHANGED <<users, members, session, job>>

Init ==
    /\ users = <<>> /\ orgs = <<>> /\ members = {}
    /\ session = [s \in Session |-> [user |-> NoUser, org |-> NoOrg, whose |-> NoUser]]
    /\ job = [s \in Session |-> NoJob]

JitStep(s) ==
    \/ \E t \in Token : Begin(s, t)
    \/ FindUser(s) \/ LinkUser(s) \/ CreateUser(s)
    \/ FindOrg(s) \/ CreateOrg(s) \/ FindMember(s) \/ Join(s) \/ Login(s)

Next ==
    \/ \E s \in Session :
          \/ JitStep(s) \/ Logout(s)
          \/ \E h \in Hint : Register(s, h.email, h.username)
          \/ \E email \in DOMAIN users : LoginByForm(s, email)
    \/ \E o \in DOMAIN orgs : DeleteOrg(o)

Spec == Init /\ [][Next]_vars

-----------------------------------------------------------------------------
(* Properties *)

\* Every user has a subject or none and every request is at one of the calls
\* of the middleware, for a hint that was verified.
TypeOK ==
    /\ \A u \in DOMAIN users : users[u] \in UserRow
    /\ \A o \in DOMAIN orgs : orgs[o] \in OrgRow
    /\ members \subseteq MemberRow
    /\ \A s \in Session :
          /\ session[s].user \in DOMAIN users \cup {NoUser}
          /\ session[s].org \in DOMAIN orgs \cup {NoOrg}
          /\ session[s].whose \in DOMAIN users \cup {NoUser}
          /\ job[s] = NoJob \/
                /\ job[s].at \in {"user", "create", "link", "org", "found",
                                  "member", "join", "login"}
                /\ job[s].hint \in Hint
                /\ job[s].org \in DOMAIN orgs \cup {NoOrg}
=============================================================================
