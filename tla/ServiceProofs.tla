----------------------------- MODULE ServiceProofs -----------------------------
(***************************************************************************)
(* Three parts of the web application, for any value of their constants.   *)
(*                                                                         *)
(* Organizations and logins (Provisioning): however many first users       *)
(* arrive together, an organization has one owner and each user one role   *)
(* in it, and a session has an organization only from a login of a member  *)
(* of it.  The consent page (OAuthAuthorization): however the requests of  *)
(* a session overlap, one code for an approval whose flag they do not      *)
(* share.  Forgotten passwords (PasswordReset): one link at a time, for    *)
(* one password.  And the state of each part has its type.                 *)
(***************************************************************************)
EXTENDS Provisioning, FiniteSetTheorems, SequenceTheorems, TLAPS

-----------------------------------------------------------------------------
(* The invariant of the organizations.                                      *)

\* Memberships are of organizations there are.
MembersType ==
    \A m \in members :
        /\ m = [org |-> m.org, user |-> m.user, role |-> m.role]
        /\ m.org \in DOMAIN orgs

OrgsType ==
    /\ \E S : orgs \in Seq(S)
    /\ \A o \in DOMAIN orgs :
          orgs[o] = [name |-> orgs[o].name, owner |-> orgs[o].owner,
                     deleted |-> orgs[o].deleted]

\* One owner, the one that is named, and one role for each user.
OneOwner(o) ==
    /\ \E m \in members : m.org = o /\ m.role = "OWNER"
    /\ \A m \in members : m.org = o /\ m.role = "OWNER" => m.user = orgs[o].owner
    /\ \A m, n \in members : m.org = o /\ n.org = o /\ m.user = n.user => m = n

OrgInv == OrgsType /\ MembersType /\ \A o \in DOMAIN orgs : OneOwner(o)

\* It holds before the first user.
LEMMA OrgInvHolds == Init => OrgInv
<1> SUFFICES ASSUME Init PROVE OrgInv
    OBVIOUS
<1>1. orgs = <<>> /\ members = {} /\ DOMAIN orgs = {}
    BY DEF Init
<1>2. orgs \in Seq({})
    BY <1>1, EmptySeq
<1> QED
    BY <1>1, <1>2 DEF OrgInv, OrgsType, MembersType

\* Only three steps write organizations or memberships.
LEMMA OrgInvUnchanged ==
    ASSUME OrgInv, UNCHANGED <<orgs, members>>
    PROVE  OrgInv'
BY DEF OrgInv, OrgsType, MembersType, OneOwner

\* A new organization has its first user as its owner.
LEMMA CreateKeepsOwners ==
    ASSUME OrgInv, NEW s \in Session, CreateOrg(s)
    PROVE  OrgInv'
<1>0. CASE Fails(s)
    BY <1>0, OrgInvUnchanged DEF Fails
<1>1. CASE ~Fails(s)
  <2>0. PICK new : new = Len(orgs) + 1
    OBVIOUS
  <2>1. PICK row, m :
          /\ row = [name |-> job[s].hint.org, owner |-> job[s].hint.email, deleted |-> FALSE]
          /\ m = [org |-> new, user |-> job[s].hint.email, role |-> "OWNER"]
          /\ orgs' = Append(orgs, row) /\ members' = members \cup {m}
    BY <1>1, <2>0 DEF CreateOrg, NewOrg, Membership
  <2>2. /\ row = [name |-> row.name, owner |-> row.owner, deleted |-> row.deleted]
        /\ m = [org |-> m.org, user |-> m.user, role |-> m.role]
        /\ m.org = new /\ m.role = "OWNER" /\ m.user = row.owner
    BY <2>1
  <2>3. PICK S : orgs \in Seq(S)
    BY DEF OrgInv, OrgsType
  <2>4. orgs \in Seq(S \cup {row}) /\ row \in S \cup {row}
    <3>1. S \subseteq S \cup {row}
      OBVIOUS
    <3> QED
      BY <2>3, <3>1
  <2>5. /\ orgs' \in Seq(S \cup {row}) /\ DOMAIN orgs' = DOMAIN orgs \cup {new}
        /\ new \notin DOMAIN orgs /\ orgs'[new] = row
        /\ \A o \in DOMAIN orgs : orgs'[o] = orgs[o]
    BY <2>0, <2>1, <2>4
  <2>6. OrgsType'
    BY <2>2, <2>5 DEF OrgInv, OrgsType
  <2>7. MembersType'
    BY <2>1, <2>2, <2>5 DEF OrgInv, MembersType
  <2>8. ASSUME NEW o \in DOMAIN orgs' PROVE OneOwner(o)'
    <3>1. CASE o = new
      <4>1. \A n \in members' : n.org = new => n = m
        BY <2>1, <2>5 DEF OrgInv, MembersType
      <4> QED
        BY <2>1, <2>2, <2>5, <3>1, <4>1 DEF OneOwner
    <3>2. CASE o # new
      <4>1. o \in DOMAIN orgs /\ OneOwner(o) /\ orgs'[o] = orgs[o]
        BY <2>5, <3>2 DEF OrgInv
      <4>2. \A n \in members' : n.org = o => n \in members
        BY <2>1, <2>2, <3>2
      <4> QED
        BY <2>1, <4>1, <4>2 DEF OneOwner
    <3> QED
      BY <3>1, <3>2
  <2> QED
    BY <2>6, <2>7, <2>8 DEF OrgInv
<1> QED
    BY <1>0, <1>1

\* One who joins becomes no owner, and had no role before.
LEMMA JoinKeepsOwners ==
    ASSUME OrgInv, NEW s \in Session, Join(s)
    PROVE  OrgInv'
<1>0. CASE Fails(s)
    BY <1>0, OrgInvUnchanged DEF Fails
<1>1. CASE ~Fails(s)
  <2>1. PICK m : /\ m = [org |-> job[s].org, user |-> job[s].hint.email,
                         role |-> "DEVELOPER"]
                 /\ members' = members \cup {m} /\ UNCHANGED orgs
                 /\ job[s].org \in DOMAIN orgs
                 /\ Member(job[s].org, job[s].hint.email) = {}
    BY <1>1 DEF Join, Membership, Alive
  <2>2. /\ m = [org |-> m.org, user |-> m.user, role |-> m.role]
        /\ m.org \in DOMAIN orgs /\ m.role = "DEVELOPER"
    BY <2>1
  <2>3. \A n \in members : ~(n.org = m.org /\ n.user = m.user)
    BY <2>1 DEF Member
  <2>4. OrgsType' /\ MembersType'
    BY <2>1, <2>2 DEF OrgInv, OrgsType, MembersType
  <2>5. ASSUME NEW o \in DOMAIN orgs PROVE OneOwner(o)'
    BY <2>1, <2>2, <2>3 DEF OrgInv, OneOwner
  <2> QED
    BY <2>1, <2>4, <2>5 DEF OrgInv
<1> QED
    BY <1>0, <1>1

\* A deleted organization keeps its owner.
LEMMA DeleteKeepsOwners ==
    ASSUME OrgInv, NEW o \in DOMAIN orgs, DeleteOrg(o)
    PROVE  OrgInv'
<1>1. PICK row : /\ row = [orgs[o] EXCEPT !.deleted = TRUE]
                 /\ orgs' = [orgs EXCEPT ![o] = row] /\ UNCHANGED members
    BY DEF DeleteOrg
<1>2. /\ row = [name |-> row.name, owner |-> row.owner, deleted |-> row.deleted]
      /\ row.owner = orgs[o].owner
  <2>1. orgs[o] = [name |-> orgs[o].name, owner |-> orgs[o].owner,
                   deleted |-> orgs[o].deleted]
    BY DEF OrgInv, OrgsType
  <2>2. PICK gone : row = [orgs[o] EXCEPT !.deleted = gone]
    BY <1>1
  <2> QED
    BY <2>1, <2>2
<1>3. PICK S : orgs \in Seq(S)
    BY DEF OrgInv, OrgsType
<1>4. orgs \in Seq(S \cup {row}) /\ row \in S \cup {row}
  <2>1. S \subseteq S \cup {row}
    OBVIOUS
  <2> QED
    BY <1>3, <2>1
<1>5. /\ orgs' \in Seq(S \cup {row}) /\ DOMAIN orgs' = DOMAIN orgs
      /\ \A p \in DOMAIN orgs : orgs'[p] = IF p = o THEN row ELSE orgs[p]
    BY <1>1, <1>4
<1>6. OrgsType' /\ MembersType'
    BY <1>1, <1>2, <1>5 DEF OrgInv, OrgsType, MembersType
<1>7. ASSUME NEW p \in DOMAIN orgs PROVE OneOwner(p)'
  <2>1. OneOwner(p) /\ orgs'[p].owner = orgs[p].owner /\ members' = members
    BY <1>1, <1>2, <1>5 DEF OrgInv
  <2> QED
    BY <2>1 DEF OneOwner
<1> QED
    BY <1>5, <1>6, <1>7 DEF OrgInv

\* Every step keeps the invariant.
LEMMA OrgInvInductive == OrgInv /\ [Next]_vars => OrgInv'
<1> SUFFICES ASSUME OrgInv, [Next]_vars PROVE OrgInv'
    OBVIOUS
<1>1. ASSUME NEW s \in Session, JitStep(s) PROVE OrgInv'
  <2>1. CASE CreateOrg(s)
    BY <2>1, CreateKeepsOwners
  <2>2. CASE Join(s)
    BY <2>2, JoinKeepsOwners
  <2>3. CASE FindMember(s)
    BY <2>3, OrgInvUnchanged DEF FindMember, Fails
  <2>4. CASE LinkUser(s) \/ CreateUser(s)
    BY <2>4, OrgInvUnchanged DEF LinkUser, CreateUser, Fails
  <2>5. CASE (\E t \in Token : Begin(s, t)) \/ FindUser(s) \/ FindOrg(s) \/ Login(s)
    BY <2>5, OrgInvUnchanged DEF Begin, FindUser, FindOrg, Login
  <2> QED
    BY <1>1, <2>1, <2>2, <2>3, <2>4, <2>5 DEF JitStep
<1>2. ASSUME NEW s \in Session,
             \/ Logout(s)
             \/ \E h \in Hint : Register(s, h.email, h.username)
             \/ \E email \in DOMAIN users : LoginByForm(s, email)
      PROVE  OrgInv'
    BY <1>2, OrgInvUnchanged DEF Logout, Register, LoginByForm
<1>3. ASSUME NEW o \in DOMAIN orgs, DeleteOrg(o) PROVE OrgInv'
    BY <1>3, DeleteKeepsOwners
<1>4. CASE UNCHANGED vars
    BY <1>4, OrgInvUnchanged DEF vars
<1> QED
    BY <1>1, <1>2, <1>3, <1>4 DEF Next

\* However many first users arrive together, an organization has one OWNER, the
\* one owner_user_id names, and each user has one role in it.
THEOREM OneOwnerEach == Spec => []OrganizationsHaveOneOwner
<1>1. OrgInv => OrganizationsHaveOneOwner
  <2> SUFFICES ASSUME OrgInv, NEW o \in DOMAIN orgs
               PROVE  /\ {m.user : m \in {n \in members : n.org = o /\ n.role = "OWNER"}} =
                             {orgs[o].owner}
                      /\ \A m, n \in members :
                            m.org = o /\ n.org = o /\ m.user = n.user => m = n
    BY DEF OrganizationsHaveOneOwner
  <2> QED
    BY DEF OrgInv, OneOwner
<1> QED
    BY <1>1, OrgInvHolds, OrgInvInductive, PTL DEF Spec

-----------------------------------------------------------------------------
(* The invariant of the sessions.                                           *)

\* Only a session without a login provisions, and it comes to its login for an
\* organization by a membership, which outlasts the login.
SessionInv(s) ==
    /\ session[s] = [user |-> session[s].user, org |-> session[s].org,
                     whose |-> session[s].whose]
    /\ session[s].org # NoOrg => Member(session[s].org, session[s].whose) # {}
    /\ job[s].at # "idle" => session[s].user = NoUser
    /\ job[s].at = "login" /\ job[s].org # NoOrg =>
          Member(job[s].org, job[s].hint.email) # {}

LoginInv ==
    /\ session = [s \in Session |-> session[s]]
    /\ job = [s \in Session |-> job[s]]
    /\ \A s \in Session : SessionInv(s)

\* It holds before the first user.
LEMMA LoginInvHolds == Init => LoginInv
BY DEF Init, LoginInv, SessionInv, NoJob

\* A request that has got to work is where Work says.
LEMMA WorkFacts ==
    ASSUME NEW at, NEW hint, NEW org
    PROVE  /\ Work(at, hint, org).at = at /\ Work(at, hint, org).org = org
           /\ Work(at, hint, org).hint = hint
BY DEF Work

\* Memberships are for good.
MembersStay == members \subseteq members'

\* A step of one session, whose part of the invariant it keeps.
LEMMA OneSession ==
    ASSUME LoginInv, MembersStay, NEW s \in Session, SessionInv(s)',
           session' = [q \in Session |-> session'[q]], job' = [q \in Session |-> job'[q]],
           \A q \in Session : q # s => session'[q] = session[q] /\ job'[q] = job[q]
    PROVE  LoginInv'
<1>1. ASSUME NEW q \in Session, q # s PROVE SessionInv(q)'
    BY <1>1 DEF LoginInv, SessionInv, MembersStay, Member
<1> QED
    BY <1>1 DEF LoginInv

\* A request goes on, or comes to its login by a membership.
LEMMA WorkKeeps ==
    ASSUME LoginInv, MembersStay, NEW s \in Session, NEW at, NEW hint, NEW org,
           session[s].user = NoUser, UNCHANGED session,
           job' = [job EXCEPT ![s] = Work(at, hint, org)],
           at = "login" /\ org # NoOrg => \E m \in members' : m.org = org /\ m.user = hint.email
    PROVE  LoginInv'
<1>1. /\ job' = [q \in Session |-> job'[q]] /\ job'[s] = Work(at, hint, org)
      /\ \A q \in Session : q # s => job'[q] = job[q]
    BY DEF LoginInv
<1>2. job'[s].at = at /\ job'[s].org = org /\ job'[s].hint = hint
    BY <1>1, WorkFacts
<1>3. Member(session[s].org, session[s].whose) # {} =>
          Member(session[s].org, session[s].whose)' # {}
    BY DEF Member, MembersStay
<1>4. at = "login" /\ org # NoOrg => Member(org, hint.email)' # {}
  <2> SUFFICES ASSUME NEW m \in members', m.org = org, m.user = hint.email
               PROVE  m \in Member(org, hint.email)'
    OBVIOUS
  <2> QED
    BY DEF Member
<1>5. SessionInv(s)'
    BY <1>2, <1>3, <1>4 DEF LoginInv, SessionInv
<1> QED
    BY <1>1, <1>5, OneSession DEF LoginInv

\* A request ends.
LEMMA DoneKeeps ==
    ASSUME LoginInv, MembersStay, NEW s \in Session, NEW user, NEW org, NEW whose, Done(s),
           \/ UNCHANGED session
           \/ /\ session' = [session EXCEPT ![s].user = user, ![s].org = org, ![s].whose = whose]
              /\ org # NoOrg => Member(org, whose) # {}
    PROVE  LoginInv'
<1>1. /\ job' = [q \in Session |-> job'[q]] /\ job'[s].at = "idle"
      /\ \A q \in Session : q # s => job'[q] = job[q]
    BY DEF LoginInv, Done, NoJob
<1>2. /\ session' = [q \in Session |-> session'[q]]
      /\ session'[s] = [user |-> session'[s].user, org |-> session'[s].org,
                        whose |-> session'[s].whose]
      /\ \A q \in Session : q # s => session'[q] = session[q]
    BY DEF LoginInv, SessionInv
<1>3. session'[s].org # NoOrg => \E m \in members : m.org = session'[s].org /\ m.user = session'[s].whose
  <2>1. CASE UNCHANGED session
    BY <2>1 DEF LoginInv, SessionInv, Member
  <2>2. CASE /\ session' = [session EXCEPT ![s].user = user, ![s].org = org, ![s].whose = whose]
             /\ org # NoOrg => Member(org, whose) # {}
    <3>1. session[s] = [user |-> session[s].user, org |-> session[s].org,
                        whose |-> session[s].whose]
      BY DEF LoginInv, SessionInv
    <3>2. session'[s].org = org /\ session'[s].whose = whose
      BY <2>2, <3>1 DEF LoginInv
    <3> QED
      BY <2>2, <3>2 DEF Member
  <2> QED
    BY <2>1, <2>2
<1>4. SessionInv(s)'
    BY <1>1, <1>2, <1>3 DEF SessionInv, Member, MembersStay
<1> QED
    BY <1>1, <1>2, <1>4, OneSession

\* A session changes its user while no request of it is under way.
LEMMA UserKeeps ==
    ASSUME LoginInv, MembersStay, NEW s \in Session, NEW user, At(s, "idle"), UNCHANGED job,
           session' = [session EXCEPT ![s].user = user]
    PROVE  LoginInv'
<1>1. /\ session' = [q \in Session |-> session'[q]]
      /\ session'[s] = [user |-> session'[s].user, org |-> session'[s].org,
                        whose |-> session'[s].whose]
      /\ \A q \in Session : q # s => session'[q] = session[q]
    BY DEF LoginInv, SessionInv
<1>2. session'[s].org = session[s].org /\ session'[s].whose = session[s].whose
    BY DEF LoginInv, SessionInv
<1>3. SessionInv(s)'
    BY <1>1, <1>2 DEF LoginInv, SessionInv, At, Member, MembersStay
<1> QED
    BY <1>1, <1>3, OneSession DEF LoginInv

\* The next call of a request under way, with what it may come to its login by.
LEMMA GotoKeeps ==
    ASSUME LoginInv, MembersStay, NEW s \in Session, NEW place, NEW org, Goto(s, place, org),
           UNCHANGED session, job[s].at # "idle",
           place = "login" /\ org # NoOrg =>
               \E m \in members' : m.org = org /\ m.user = job[s].hint.email
    PROVE  LoginInv'
<1>1. session[s].user = NoUser
    BY DEF LoginInv, SessionInv
<1>2. job' = [job EXCEPT ![s] = Work(place, job[s].hint, org)]
    BY DEF Goto
<1> QED
    BY <1>1, <1>2, WorkKeeps

\* The steps of the middleware.
LEMMA JitKeeps ==
    ASSUME LoginInv, NEW s \in Session, JitStep(s)
    PROVE  LoginInv'
<1>0. ASSUME Fails(s) PROVE LoginInv'
    BY <1>0, DoneKeeps DEF Fails, MembersStay
<1>1. ASSUME NEW t \in Token, Begin(s, t) PROVE LoginInv'
    BY <1>1, WorkKeeps DEF Begin, MembersStay
<1>2. CASE FindUser(s)
  <2>1. PICK place : Goto(s, place, NoOrg)
    BY <1>2 DEF FindUser
  <2> QED
    BY <1>2, <2>1, GotoKeeps DEF FindUser, At, MembersStay
<1>3. CASE LinkUser(s)
    BY <1>0, <1>3, GotoKeeps DEF LinkUser, At, MembersStay
<1>4. CASE CreateUser(s)
    BY <1>0, <1>4, GotoKeeps DEF CreateUser, At, MembersStay
<1>5. CASE FindOrg(s)
  <2>1. /\ UNCHANGED <<members, session>> /\ job[s].at = "org"
        /\ \/ Goto(s, "login", NoOrg) \/ Goto(s, "found", NoOrg)
           \/ \E o : Goto(s, "member", o)
    BY <1>5 DEF FindOrg, At
  <2> QED
    BY <2>1, GotoKeeps DEF MembersStay
<1>6. CASE CreateOrg(s)
  <2>1. CASE ~Fails(s)
    <3>1. PICK new : /\ members' = members \cup {Membership(new, job[s].hint.email, "OWNER")}
                     /\ Goto(s, "login", new) /\ UNCHANGED session /\ job[s].at = "found"
      BY <1>6, <2>1 DEF CreateOrg, At
    <3>2. /\ Membership(new, job[s].hint.email, "OWNER").org = new
          /\ Membership(new, job[s].hint.email, "OWNER").user = job[s].hint.email
      BY DEF Membership
    <3> QED
      BY <3>1, <3>2, GotoKeeps DEF MembersStay
  <2> QED
    BY <1>0, <2>1
<1>7. CASE FindMember(s)
  <2>1. CASE ~Fails(s)
    <3>1. PICK place : /\ Goto(s, place, job[s].org)
                       /\ place = "login" => Member(job[s].org, job[s].hint.email) # {}
      BY <1>7, <2>1 DEF FindMember
    <3>2. UNCHANGED <<members, session>> /\ job[s].at = "member"
      BY <1>7, <2>1 DEF FindMember, At
    <3> QED
      BY <3>1, <3>2, GotoKeeps DEF MembersStay, Member
  <2> QED
    BY <1>0, <2>1
<1>8. CASE Join(s)
  <2>1. CASE ~Fails(s)
    <3>1. /\ members' = members \cup {Membership(job[s].org, job[s].hint.email, "DEVELOPER")}
          /\ Goto(s, "login", job[s].org) /\ UNCHANGED session /\ job[s].at = "join"
      BY <1>8, <2>1 DEF Join, At
    <3>2. /\ Membership(job[s].org, job[s].hint.email, "DEVELOPER").org = job[s].org
          /\ Membership(job[s].org, job[s].hint.email, "DEVELOPER").user = job[s].hint.email
      BY DEF Membership
    <3> QED
      BY <3>1, <3>2, GotoKeeps DEF MembersStay
  <2> QED
    BY <1>0, <2>1
<1>9. CASE Login(s)
  <2> DEFINE o == job[s].org
             org == IF o = NoOrg THEN session[s].org ELSE o
             whose == IF o = NoOrg THEN session[s].whose ELSE job[s].hint.email
  <2>1. session' = [session EXCEPT ![s].user = job[s].hint.email, ![s].org = org,
                                   ![s].whose = whose]
    BY <1>9 DEF Login
  <2>2. org # NoOrg => Member(org, whose) # {}
    BY <1>9 DEF Login, At, LoginInv, SessionInv
  <2>3. Done(s) /\ MembersStay
    BY <1>9 DEF Login, MembersStay
  <2> QED
    BY <2>1, <2>2, <2>3, DoneKeeps
<1> QED
    BY <1>1, <1>2, <1>3, <1>4, <1>5, <1>6, <1>7, <1>8, <1>9 DEF JitStep

\* Every step keeps the invariant.
LEMMA LoginInvInductive == LoginInv /\ [Next]_vars => LoginInv'
<1> SUFFICES ASSUME LoginInv, [Next]_vars PROVE LoginInv'
    OBVIOUS
<1>1. ASSUME NEW s \in Session, JitStep(s) PROVE LoginInv'
    BY <1>1, JitKeeps
<1>2. ASSUME NEW s \in Session, Logout(s) PROVE LoginInv'
    BY <1>2, UserKeeps DEF Logout, MembersStay
<1>3. ASSUME NEW s \in Session, NEW h \in Hint, Register(s, h.email, h.username) PROVE LoginInv'
    BY <1>3, UserKeeps DEF Register, MembersStay
<1>4. ASSUME NEW s \in Session, NEW email, LoginByForm(s, email) PROVE LoginInv'
    BY <1>4, UserKeeps DEF LoginByForm, MembersStay
<1>5. ASSUME UNCHANGED <<members, session, job>> PROVE LoginInv'
    BY <1>5 DEF LoginInv, SessionInv, Member
<1>6. ASSUME NEW o \in DOMAIN orgs, DeleteOrg(o) PROVE LoginInv'
    BY <1>5, <1>6 DEF DeleteOrg
<1> QED
    BY <1>1, <1>2, <1>3, <1>4, <1>5, <1>6 DEF Next, vars

\* A session has an organization only from a login of a member of it: what its hint
\* named, and what a first login created, joined or found.
THEOREM LoginsOfMembers == Spec => []LoginsAreMembers
<1>1. LoginInv => LoginsAreMembers
    BY DEF LoginInv, SessionInv, LoginsAreMembers
<1> QED
    BY <1>1, LoginInvHolds, LoginInvInductive, PTL DEF Spec

-----------------------------------------------------------------------------
(* The types of the organizations and logins.                               *)

RowsType ==
    /\ \A u \in DOMAIN users : users[u] \in UserRow
    /\ \A o \in DOMAIN orgs : orgs[o] \in OrgRow
    /\ members \subseteq MemberRow

SessionType(s) ==
    /\ session[s].user \in DOMAIN users \cup {NoUser}
    /\ session[s].org \in DOMAIN orgs \cup {NoOrg}
    /\ session[s].whose \in DOMAIN users \cup {NoUser}

\* Once a request is past the creation of its user, there is one.
JobType(s) ==
    \/ job[s] = NoJob
    \/ /\ job[s].at \in {"user", "create", "link", "org", "found", "member", "join", "login"}
       /\ job[s].hint \in Hint
       /\ job[s].org \in DOMAIN orgs \cup {NoOrg}
       /\ job[s].at \in {"user", "create"} \/ job[s].hint.email \in DOMAIN users

ProvisioningInv ==
    /\ LoginInv /\ OrgInv /\ RowsType
    /\ \A s \in Session : SessionType(s) /\ JobType(s)

\* Users and organizations are never taken away.
TablesGrow == DOMAIN users \subseteq DOMAIN users' /\ DOMAIN orgs \subseteq DOMAIN orgs'

\* A step of one session leaves the types of the others as they are.
LEMMA OthersStayTyped ==
    ASSUME ProvisioningInv, LoginInv', OrgInv', RowsType', TablesGrow, NEW s \in Session,
           SessionType(s)', JobType(s)',
           \A q \in Session : q # s => session'[q] = session[q] /\ job'[q] = job[q]
    PROVE  ProvisioningInv'
<1>1. ASSUME NEW q \in Session, q # s PROVE SessionType(q)' /\ JobType(q)'
    BY <1>1 DEF ProvisioningInv, SessionType, JobType, TablesGrow
<1> QED
    BY <1>1 DEF ProvisioningInv

\* Tables that grow leave the sessions as they are.
LEMMA SessionStaysTyped ==
    ASSUME ProvisioningInv, TablesGrow, UNCHANGED session, NEW s \in Session
    PROVE  SessionType(s)'
BY DEF ProvisioningInv, SessionType, TablesGrow

\* A request at work is well typed when its place, hint and organization are.
LEMMA WorkIsTyped ==
    ASSUME LoginInv, NEW s \in Session, NEW hint \in Hint, NEW org \in DOMAIN orgs' \cup {NoOrg},
           NEW at \in {"user", "create", "link", "org", "found", "member", "join", "login"},
           job' = [job EXCEPT ![s] = Work(at, hint, org)],
           at \in {"user", "create"} \/ hint.email \in DOMAIN users'
    PROVE  JobType(s)' /\ \A q \in Session : q # s => job'[q] = job[q]
<1>1. job'[s] = Work(at, hint, org) /\ \A q \in Session : q # s => job'[q] = job[q]
    BY DEF LoginInv
<1>2. job'[s].at = at /\ job'[s].hint = hint /\ job'[s].org = org
    BY <1>1, WorkFacts
<1> QED
    BY <1>1, <1>2 DEF JobType

\* So is one that goes on with the hint it has.
LEMMA GotoIsTyped ==
    ASSUME ProvisioningInv, TablesGrow, NEW s \in Session, job[s].at # "idle",
           NEW org \in DOMAIN orgs' \cup {NoOrg},
           NEW place \in {"user", "create", "link", "org", "found", "member", "join", "login"},
           Goto(s, place, org),
           place \in {"user", "create"} \/ job[s].hint.email \in DOMAIN users'
    PROVE  JobType(s)' /\ \A q \in Session : q # s => job'[q] = job[q]
<1>1. job' = [job EXCEPT ![s] = Work(place, job[s].hint, org)]
    BY DEF Goto
<1>2. job[s].hint \in Hint
    BY DEF ProvisioningInv, JobType, NoJob
<1> QED
    BY <1>1, <1>2, WorkIsTyped DEF ProvisioningInv

\* A request that has ended is idle.
LEMMA DoneIsTyped ==
    ASSUME ProvisioningInv, NEW s \in Session, Done(s)
    PROVE  JobType(s)' /\ \A q \in Session : q # s => job'[q] = job[q]
BY DEF ProvisioningInv, LoginInv, Done, JobType

\* The steps of the middleware that write no row of users or organizations.
LEMMA ReadersStayTyped ==
    ASSUME ProvisioningInv, LoginInv', OrgInv', NEW s \in Session,
           \/ \E t \in Token : Begin(s, t)
           \/ FindUser(s) \/ FindOrg(s) \/ FindMember(s) \/ Login(s) \/ Fails(s)
    PROVE  ProvisioningInv'
<1>1. /\ UNCHANGED <<users, orgs, members>> /\ RowsType' /\ TablesGrow
    BY DEF Begin, FindUser, FindOrg, FindMember, Login, Fails, ProvisioningInv, RowsType,
           UserRow, OrgRow, MemberRow, TablesGrow
<1> DEFINE Typed == JobType(s)' /\ \A q \in Session : q # s => job'[q] = job[q]
<1>2. ASSUME Typed, UNCHANGED session PROVE ProvisioningInv'
    BY <1>1, <1>2, SessionStaysTyped, OthersStayTyped
<1>3. ASSUME NEW t \in Token, Begin(s, t) PROVE ProvisioningInv'
  <2>1. UserData(t) \in Hint /\ job' = [job EXCEPT ![s] = Work("user", UserData(t), NoOrg)]
    BY <1>3 DEF Begin, Hint
  <2>2. Typed
    BY <2>1, WorkIsTyped DEF ProvisioningInv
  <2> QED
    BY <1>2, <1>3, <2>2 DEF Begin
<1>4. CASE FindUser(s)
  <2>1. PICK place \in {"create", "org", "link"} :
          /\ Goto(s, place, NoOrg)
          /\ place = "create" \/ job[s].hint.email \in DOMAIN users
    BY <1>4 DEF FindUser
  <2>2. Typed
    BY <1>1, <1>4, <2>1, GotoIsTyped DEF FindUser, At
  <2> QED
    BY <1>2, <1>4, <2>2 DEF FindUser
<1>5. CASE FindOrg(s)
  <2>1. job[s].at = "org" /\ job[s].hint.email \in DOMAIN users /\ UNCHANGED session
    BY <1>5 DEF FindOrg, At, ProvisioningInv, JobType, NoJob
  <2>2. PICK place \in {"login", "found", "member"}, org \in DOMAIN orgs \cup {NoOrg} :
          Goto(s, place, org)
    BY <1>5 DEF FindOrg
  <2>3. Typed
    BY <1>1, <2>1, <2>2, GotoIsTyped
  <2> QED
    BY <1>2, <2>1, <2>3
<1>6. CASE Fails(s)
    BY <1>2, <1>6, DoneIsTyped DEF Fails
<1>7. CASE FindMember(s) /\ ~Fails(s)
  <2>1. job[s].at = "member" /\ job[s].hint.email \in DOMAIN users /\ UNCHANGED session
    BY <1>7 DEF FindMember, At, ProvisioningInv, JobType, NoJob
  <2>2. PICK place \in {"login", "join"} : Goto(s, place, job[s].org) /\ Alive(job[s].org)
    BY <1>7 DEF FindMember
  <2>3. Typed
    BY <1>1, <2>1, <2>2, GotoIsTyped DEF Alive
  <2> QED
    BY <1>2, <2>1, <2>3
<1>8. CASE Login(s)
  <2>1. /\ job[s].at = "login" /\ job[s].hint.email \in DOMAIN users
        /\ job[s].org \in DOMAIN orgs \cup {NoOrg}
    BY <1>8 DEF Login, At, ProvisioningInv, JobType, NoJob
  <2>2. PICK user \in DOMAIN users, org \in DOMAIN orgs \cup {NoOrg},
             whose \in DOMAIN users \cup {NoUser} :
          session' = [session EXCEPT ![s].user = user, ![s].org = org, ![s].whose = whose]
    <3>1. session[s].org \in DOMAIN orgs \cup {NoOrg} /\ session[s].whose \in DOMAIN users \cup {NoUser}
      BY DEF ProvisioningInv, SessionType
    <3>2. PICK org, whose :
              /\ org = IF job[s].org = NoOrg THEN session[s].org ELSE job[s].org
              /\ whose = IF job[s].org = NoOrg THEN session[s].whose ELSE job[s].hint.email
      OBVIOUS
    <3>3. session' = [session EXCEPT ![s].user = job[s].hint.email, ![s].org = org,
                                     ![s].whose = whose]
      BY <1>8, <3>2 DEF Login
    <3> QED
      BY <2>1, <3>1, <3>2, <3>3
  <2>3. /\ session = [q \in Session |-> session[q]]
        /\ session[s] = [user |-> session[s].user, org |-> session[s].org,
                         whose |-> session[s].whose]
    BY DEF ProvisioningInv, LoginInv, SessionInv
  <2>4. /\ session'[s].user = user /\ session'[s].org = org /\ session'[s].whose = whose
        /\ \A q \in Session : q # s => session'[q] = session[q]
    BY <2>2, <2>3
  <2>5. SessionType(s)'
    BY <1>1, <2>2, <2>4 DEF SessionType
  <2>6. Typed
    BY <1>8, DoneIsTyped DEF Login
  <2> QED
    BY <1>1, <2>4, <2>5, <2>6, OthersStayTyped
<1> QED
    BY <1>3, <1>4, <1>5, <1>6, <1>7, <1>8

\* A new or changed user has the name and the subject of a hint.
LEMMA UsersStayTyped ==
    ASSUME ProvisioningInv, NEW u, NEW row \in UserRow, UNCHANGED <<orgs, members>>,
           DOMAIN users' = DOMAIN users \cup {u}, users'[u] = row,
           \A v \in DOMAIN users : v # u => users'[v] = users[v]
    PROVE  RowsType' /\ TablesGrow
<1>1. TablesGrow
    BY DEF TablesGrow
<1>2. \A v \in DOMAIN users' : users'[v] \in UserRow
    BY DEF ProvisioningInv, RowsType
<1>3. \A o \in DOMAIN orgs' : orgs'[o] \in OrgRow'
    BY <1>1 DEF ProvisioningInv, RowsType, OrgRow, TablesGrow
<1>4. members' \subseteq MemberRow'
    BY <1>1 DEF ProvisioningInv, RowsType, MemberRow, TablesGrow
<1> QED
    BY <1>1, <1>2, <1>3, <1>4 DEF RowsType, UserRow

\* The steps that write users.
LEMMA UserWritersStayTyped ==
    ASSUME ProvisioningInv, LoginInv', OrgInv', NEW s \in Session,
           \/ LinkUser(s) \/ CreateUser(s)
           \/ \E h \in Hint : Register(s, h.email, h.username)
    PROVE  ProvisioningInv'
<1>0. ASSUME Fails(s) PROVE ProvisioningInv'
    BY <1>0, ReadersStayTyped
<1>1. CASE LinkUser(s) /\ ~Fails(s)
  <2>1. PICK h \in Hint : h = job[s].hint /\ h.email \in DOMAIN users /\ job[s].at = "link"
    BY <1>1 DEF LinkUser, At, ProvisioningInv, JobType, NoJob
  <2>2. users[h.email] \in UserRow
    BY <2>1 DEF ProvisioningInv, RowsType
  <2>3. PICK row : /\ row = [users[h.email] EXCEPT !.sub = h.sub]
                   /\ users' = [users EXCEPT ![h.email] = row]
    BY <1>1, <2>1 DEF LinkUser
  <2>4. row \in UserRow
    BY <2>2, <2>3 DEF UserRow
  <2>5. /\ DOMAIN users' = DOMAIN users \cup {h.email} /\ users'[h.email] = row
        /\ \A v \in DOMAIN users : v # h.email => users'[v] = users[v]
    BY <2>1, <2>3
  <2>6. Goto(s, "org", NoOrg) /\ UNCHANGED <<orgs, members, session>>
    BY <1>1 DEF LinkUser
  <2>7. RowsType' /\ TablesGrow
    BY <2>4, <2>5, <2>6, UsersStayTyped
  <2>8. job[s].hint.email \in DOMAIN users' /\ "org" \notin {"user", "create"}
    BY <2>1, <2>5
  <2>9. JobType(s)' /\ \A q \in Session : q # s => job'[q] = job[q]
    BY <2>1, <2>6, <2>7, <2>8, GotoIsTyped
  <2> QED
    BY <2>6, <2>7, <2>9, SessionStaysTyped, OthersStayTyped
<1>2. CASE CreateUser(s) /\ ~Fails(s)
  <2>1. PICK h \in Hint : h = job[s].hint /\ job[s].at = "create"
    BY <1>2 DEF CreateUser, At, ProvisioningInv, JobType, NoJob
  <2>2. PICK row : /\ row = [username |-> h.username, sub |-> h.sub, owner |-> TRUE]
                   /\ users' = [u \in DOMAIN users \cup {h.email} |->
                                   IF u = h.email THEN row ELSE users[u]]
    BY <1>2, <2>1 DEF CreateUser
  <2>3. row \in UserRow
    BY <2>1, <2>2 DEF UserRow
  <2>4. Goto(s, "org", NoOrg) /\ UNCHANGED <<orgs, members, session>>
    BY <1>2 DEF CreateUser
  <2>5. RowsType' /\ TablesGrow
    BY <2>2, <2>3, <2>4, UsersStayTyped
  <2>6. job[s].hint.email \in DOMAIN users'
    BY <2>1, <2>2
  <2>7. JobType(s)' /\ \A q \in Session : q # s => job'[q] = job[q]
    BY <2>1, <2>4, <2>5, <2>6, GotoIsTyped
  <2> QED
    BY <2>4, <2>5, <2>7, SessionStaysTyped, OthersStayTyped
<1>3. ASSUME NEW h \in Hint, Register(s, h.email, h.username) PROVE ProvisioningInv'
  <2>1. PICK row : /\ row = [username |-> h.username, sub |-> NoUser, owner |-> FALSE]
                   /\ users' = [u \in DOMAIN users \cup {h.email} |->
                                   IF u = h.email THEN row ELSE users[u]]
                   /\ session' = [session EXCEPT ![s].user = h.email]
                   /\ UNCHANGED <<orgs, members, job>>
    BY <1>3 DEF Register
  <2>2. row \in UserRow
    BY <2>1 DEF UserRow
  <2>3. RowsType' /\ TablesGrow
    BY <2>1, <2>2, UsersStayTyped
  <2>4. /\ session = [q \in Session |-> session[q]]
        /\ session[s] = [user |-> session[s].user, org |-> session[s].org,
                         whose |-> session[s].whose]
    BY DEF ProvisioningInv, LoginInv, SessionInv
  <2>5. /\ session'[s].user = h.email /\ session'[s].org = session[s].org
        /\ session'[s].whose = session[s].whose
        /\ \A q \in Session : q # s => session'[q] = session[q]
    BY <2>1, <2>4
  <2>6. SessionType(s)'
    BY <2>1, <2>5 DEF ProvisioningInv, SessionType
  <2>7. JobType(s)'
    BY <2>1, <2>3 DEF ProvisioningInv, JobType, TablesGrow
  <2> QED
    BY <2>1, <2>3, <2>5, <2>6, <2>7, OthersStayTyped
<1> QED
    BY <1>0, <1>1, <1>2, <1>3

\* A membership that is added is of a user and an organization that there are.
LEMMA MembersStayTyped ==
    ASSUME ProvisioningInv, NEW o \in DOMAIN orgs', NEW u \in DOMAIN users,
           NEW role \in {"OWNER", "DEVELOPER"}, UNCHANGED users,
           DOMAIN orgs \subseteq DOMAIN orgs', \A p \in DOMAIN orgs' : orgs'[p] \in OrgRow,
           members' = members \cup {Membership(o, u, role)}
    PROVE  RowsType' /\ TablesGrow
<1>1. TablesGrow
    BY DEF TablesGrow
<1>2. Membership(o, u, role) \in MemberRow'
    BY DEF Membership, MemberRow
<1>3. members \subseteq MemberRow'
    BY <1>1 DEF ProvisioningInv, RowsType, MemberRow, TablesGrow
<1> QED
    BY <1>1, <1>2, <1>3 DEF ProvisioningInv, RowsType, UserRow, OrgRow

\* The steps that write organizations and memberships.
LEMMA OrgWritersStayTyped ==
    ASSUME ProvisioningInv, LoginInv', OrgInv', NEW s \in Session, CreateOrg(s) \/ Join(s)
    PROVE  ProvisioningInv'
<1>0. ASSUME Fails(s) PROVE ProvisioningInv'
    BY <1>0, ReadersStayTyped
<1>1. CASE CreateOrg(s) /\ ~Fails(s)
  <2>1. /\ job[s].at = "found" /\ job[s].hint \in Hint /\ job[s].hint.email \in DOMAIN users
        /\ UNCHANGED <<users, session>>
    BY <1>1 DEF CreateOrg, At, ProvisioningInv, JobType, NoJob
  <2>2. PICK new, row :
          /\ new = Len(orgs) + 1
          /\ row = [name |-> job[s].hint.org, owner |-> job[s].hint.email, deleted |-> FALSE]
          /\ orgs' = Append(orgs, row)
          /\ members' = members \cup {Membership(new, job[s].hint.email, "OWNER")}
          /\ Goto(s, "login", new)
    BY <1>1 DEF CreateOrg, NewOrg
  <2>3. row \in OrgRow
    BY <2>1, <2>2 DEF OrgRow
  <2>4. PICK S : orgs \in Seq(S)
    BY DEF ProvisioningInv, OrgInv, OrgsType
  <2>5. orgs \in Seq(S \cup {row}) /\ row \in S \cup {row}
    <3>1. S \subseteq S \cup {row}
      OBVIOUS
    <3> QED
      BY <2>4, <3>1
  <2>6. /\ DOMAIN orgs' = DOMAIN orgs \cup {new} /\ orgs'[new] = row
        /\ \A o \in DOMAIN orgs : orgs'[o] = orgs[o]
    BY <2>2, <2>5
  <2>7. \A p \in DOMAIN orgs' : orgs'[p] \in OrgRow
    BY <2>3, <2>6 DEF ProvisioningInv, RowsType
  <2>8. RowsType' /\ TablesGrow
    BY <2>1, <2>2, <2>6, <2>7, MembersStayTyped
  <2>9. JobType(s)' /\ \A q \in Session : q # s => job'[q] = job[q]
    BY <2>1, <2>2, <2>6, <2>8, GotoIsTyped
  <2> QED
    BY <2>1, <2>8, <2>9, SessionStaysTyped, OthersStayTyped
<1>2. CASE Join(s) /\ ~Fails(s)
  <2>1. /\ job[s].at = "join" /\ job[s].hint.email \in DOMAIN users
        /\ job[s].org \in DOMAIN orgs
        /\ members' = members \cup {Membership(job[s].org, job[s].hint.email, "DEVELOPER")}
        /\ Goto(s, "login", job[s].org) /\ UNCHANGED <<users, orgs, session>>
    BY <1>2 DEF Join, At, Alive, ProvisioningInv, JobType, NoJob
  <2>2. \A p \in DOMAIN orgs' : orgs'[p] \in OrgRow
    BY <2>1 DEF ProvisioningInv, RowsType
  <2>3. RowsType' /\ TablesGrow
    BY <2>1, <2>2, MembersStayTyped
  <2>4. JobType(s)' /\ \A q \in Session : q # s => job'[q] = job[q]
    BY <2>1, <2>3, GotoIsTyped
  <2> QED
    BY <2>1, <2>3, <2>4, SessionStaysTyped, OthersStayTyped
<1> QED
    BY <1>0, <1>1, <1>2

\* The deletion of an organization keeps its row.
LEMMA DeletedOrgStaysTyped ==
    ASSUME ProvisioningInv, LoginInv', OrgInv', NEW o \in DOMAIN orgs, DeleteOrg(o)
    PROVE  ProvisioningInv'
<1>1. PICK row : /\ row = [orgs[o] EXCEPT !.deleted = TRUE]
                 /\ orgs' = [orgs EXCEPT ![o] = row]
                 /\ UNCHANGED <<users, members, session, job>>
    BY DEF DeleteOrg
<1>2. row \in OrgRow
    BY <1>1 DEF ProvisioningInv, RowsType, OrgRow
<1>3. DOMAIN orgs' = DOMAIN orgs /\ \A p \in DOMAIN orgs' : orgs'[p] \in OrgRow
    BY <1>1, <1>2 DEF ProvisioningInv, RowsType
<1>4. RowsType'
    BY <1>1, <1>3 DEF ProvisioningInv, RowsType, UserRow, OrgRow, MemberRow
<1> QED
    BY <1>1, <1>3, <1>4 DEF ProvisioningInv, SessionType, JobType

\* A session that changes its user is logged in as one that there is, or as nobody.
LEMMA UserIsTyped ==
    ASSUME ProvisioningInv, LoginInv', OrgInv', NEW s \in Session,
           NEW user \in DOMAIN users \cup {NoUser},
           session' = [session EXCEPT ![s].user = user],
           UNCHANGED <<users, orgs, members, job>>
    PROVE  ProvisioningInv'
<1>1. /\ session = [q \in Session |-> session[q]]
      /\ session[s] = [user |-> session[s].user, org |-> session[s].org,
                       whose |-> session[s].whose]
    BY DEF ProvisioningInv, LoginInv, SessionInv
<1>2. /\ session'[s].user = user /\ session'[s].org = session[s].org
      /\ session'[s].whose = session[s].whose
      /\ \A q \in Session : q # s => session'[q] = session[q]
    BY <1>1
<1>3. SessionType(s)' /\ JobType(s)' /\ RowsType' /\ TablesGrow
    BY <1>2 DEF ProvisioningInv, SessionType, JobType, RowsType, UserRow, OrgRow, MemberRow,
                TablesGrow
<1> QED
    BY <1>2, <1>3, OthersStayTyped

\* First logins are well typed, whoever arrives together: an organization has a
\* user as its owner, a membership is of a user in an organization, and a session
\* and a request are of users and organizations that there are.
THEOREM LoginsTyped == Spec => []TypeOK
<1>1. Init => RowsType /\ \A s \in Session : SessionType(s) /\ JobType(s)
    BY DEF Init, RowsType, SessionType, JobType
<1>2. ProvisioningInv /\ LoginInv' /\ OrgInv' /\ [Next]_vars => ProvisioningInv'
  <2> SUFFICES ASSUME ProvisioningInv, LoginInv', OrgInv', [Next]_vars PROVE ProvisioningInv'
    OBVIOUS
  <2>1. ASSUME NEW s \in Session, JitStep(s) PROVE ProvisioningInv'
    BY <2>1, ReadersStayTyped, UserWritersStayTyped, OrgWritersStayTyped DEF JitStep
  <2>2. ASSUME NEW s \in Session, Logout(s) PROVE ProvisioningInv'
    BY <2>2, UserIsTyped DEF Logout
  <2>3. ASSUME NEW s \in Session, NEW h \in Hint, Register(s, h.email, h.username)
        PROVE  ProvisioningInv'
    BY <2>3, UserWritersStayTyped
  <2>4. ASSUME NEW s \in Session, NEW email \in DOMAIN users, LoginByForm(s, email)
        PROVE  ProvisioningInv'
    BY <2>4, UserIsTyped DEF LoginByForm
  <2>5. ASSUME NEW o \in DOMAIN orgs, DeleteOrg(o) PROVE ProvisioningInv'
    BY <2>5, DeletedOrgStaysTyped
  <2>6. CASE UNCHANGED vars
    BY <2>6 DEF vars, ProvisioningInv, RowsType, UserRow, OrgRow, MemberRow, SessionType, JobType
  <2> QED
    BY <2>1, <2>2, <2>3, <2>4, <2>5, <2>6 DEF Next
<1>3. Spec => [](LoginInv /\ OrgInv)
    BY LoginInvHolds, LoginInvInductive, OrgInvHolds, OrgInvInductive, PTL DEF Spec
<1>4. LoginInv /\ OrgInv /\ RowsType /\ (\A s \in Session : SessionType(s) /\ JobType(s))
          <=> ProvisioningInv
    BY DEF ProvisioningInv
<1>5. ProvisioningInv => TypeOK
    BY DEF ProvisioningInv, RowsType, SessionType, JobType, TypeOK
<1> QED
    BY <1>1, <1>2, <1>3, <1>4, <1>5, PTL DEF Spec

-----------------------------------------------------------------------------
(* The consent page.                                                        *)

CONSTANTS
    Request,        \* requests the server runs at the same time
    Params,         \* what is asked for: [client, scopes]
    TrustedClient,  \* clients that are is_trusted
    ConsentLife,    \* how long a consent is stored for
    MaxConsentNow, MaxRequests, MaxCodes, MaxApprovals   \* bounds

VARIABLES
    cNow,       \* the clock
    came,       \* how many requests have come
    cSession,   \* the cookie: oauth_params and consent_granted
    cRequest,   \* what each request is doing, with its copy of the session
    consents,   \* rows of oauth_consents, by client
    approved,   \* history: the parameters approved
    granted,    \* history: the codes issued
    spilt       \* history: the approvals whose flag was shared or came back

C == INSTANCE OAuthAuthorization WITH
        MaxNow <- MaxConsentNow, now <- cNow, session <- cSession,
        request <- cRequest, issued <- granted
INSTANCE ApprovedCodes WITH issued <- granted

ConsentBounds == ConsentLife \in Nat /\ MaxConsentNow \in Nat /\ MaxRequests \in Nat

\* The approvals there have been, and those that have given a code.
Approvals == 1 .. Len(approved)
Spent(a) == \E c \in DOMAIN granted : OnTheFlag(c) /\ granted[c].approval = a

\* A row of the table has the scopes of one approval of its client.
ConsentsWereGiven ==
    \A k \in DOMAIN consents : \E i \in DOMAIN approved :
        approved[i].client = k /\ consents[k].scopes = approved[i].scopes

\* What a request at work is about, and on what ground it passes.
RequestIsFor(r) ==
    LET w == cRequest[r] IN
    /\ w.at \in {"lookup", "approve", "find", "save"} => w.copy.params \in Params
    /\ w.at = "approve" => w.ground # "none"
    /\ w.at = "approve" /\ w.ground = "session" => w.flag # 0
    /\ w.at = "approve" /\ w.ground = "stored" => WasApproved(w.copy.params)
    /\ w.at \in {"find", "save"} =>
          w.approval \in Approvals /\ approved[w.approval] = w.copy.params

\* What a request may hand back to the browser: no flag, the one it came with, or
\* that of the approval it carried out.
RequestFlags(r) ==
    LET w == cRequest[r] IN
    /\ w.at = "idle" => w.flag = 0 /\ w.copy.granted = 0 /\ w.approval = 0
    /\ w.flag \in 0 .. Len(approved) /\ w.approval \in 0 .. Len(approved)
    /\ w.copy.granted \in {0, w.flag, w.approval}

\* Until it is answered, nobody else has heard of the approval that a request is
\* carrying out.
IsNew(r) ==
    LET a == cRequest[r].approval IN
    a # 0 =>
        /\ cSession.granted # a /\ ~Spent(a)
        /\ \A q \in Request : cRequest[q].flag # a
        /\ \A q \in Request : q # r =>
              cRequest[q].approval # a /\ cRequest[q].copy.granted # a

\* Of a flag that was not spilt there is one bearer at a time, and once it has given
\* its code, the browser keeps it only until that bearer's answer takes it away.
HasOneBearer(a) ==
    /\ \A q, r \in Request : cRequest[q].flag = a /\ cRequest[r].flag = a => q = r
    /\ Spent(a) =>
          /\ \A r \in Request : cRequest[r].copy.granted # a
          /\ \A r \in Request : cRequest[r].flag = a => cRequest[r].at = "answer"
          /\ cSession.granted = a => \E r \in Request : cRequest[r].flag = a

FlagInv ==
    /\ cSession.granted \in 0 .. Len(approved)
    /\ \A r \in Request : RequestFlags(r) /\ IsNew(r)
    /\ \A a \in Approvals \ spilt : HasOneBearer(a)

ConsentInv ==
    /\ C!TypeOK
    /\ ConsentsWereGiven
    /\ \A r \in Request : RequestIsFor(r)
    /\ FlagInv
    /\ CodesAreApproved

-----------------------------------------------------------------------------
(* One request changes at a time.                                           *)

OthersWait(r) == \A q \in Request : q # r => cRequest'[q] = cRequest[q]

\* The approvals that were given stay.
ApprovalsStay ==
    /\ Approvals \subseteq Approvals' /\ Len(approved) <= Len(approved')
    /\ \A i \in Approvals : approved'[i] = approved[i]

\* What a request turns into is what is left of it.
LEMMA OneRequest ==
    ASSUME C!TypeOK, NEW r \in Request, NEW w \in C!Work,
           cRequest' = [cRequest EXCEPT ![r] = w]
    PROVE  /\ cRequest' \in [Request -> C!Work] /\ cRequest'[r] = w
           /\ OthersWait(r)
BY DEF C!TypeOK, OthersWait

\* A request that has come.
LEMMA EnterFacts ==
    ASSUME C!TypeOK, NEW r \in Request,
           NEW place \in {"lookup", "approve", "find", "answer"}, NEW copy \in C!SessionData,
           NEW ground \in {"none", "trusted", "session", "stored"}, NEW approval \in Nat,
           C!Enter(r, place, copy, ground, approval)
    PROVE  /\ cRequest' \in [Request -> C!Work] /\ OthersWait(r)
           /\ cRequest[r].at = "idle" /\ cRequest'[r].at = place /\ cRequest'[r].copy = copy
           /\ cRequest'[r].flag = cSession.granted /\ cRequest'[r].ground = ground
           /\ cRequest'[r].approval = approval
<1> DEFINE w == [at |-> place, copy |-> copy, flag |-> cSession.granted,
                 ground |-> ground, approval |-> approval, row |-> C!NoRow]
<1>1. cSession.granted \in Nat
    BY DEF C!TypeOK, C!SessionData
<1>2. w \in C!Work
    BY <1>1 DEF C!Work
<1>3. cRequest' = [cRequest EXCEPT ![r] = w] /\ cRequest[r].at = "idle"
    BY DEF C!Enter, C!At
<1> QED
    BY <1>2, <1>3, OneRequest

\* A request that is about to answer.
LEMMA AnsweringFacts ==
    ASSUME C!TypeOK, NEW r \in Request, NEW copy \in C!SessionData, C!Answering(r, copy)
    PROVE  /\ cRequest' \in [Request -> C!Work] /\ OthersWait(r)
           /\ cRequest'[r].at = "answer" /\ cRequest'[r].copy = copy
           /\ cRequest'[r].flag = cRequest[r].flag
           /\ cRequest'[r].approval = cRequest[r].approval
<1> DEFINE w == [at |-> "answer", copy |-> copy, flag |-> cRequest[r].flag, ground |-> "none",
                 approval |-> cRequest[r].approval, row |-> C!NoRow]
<1>1. cRequest[r] \in C!Work
    BY DEF C!TypeOK
<1>2. cRequest[r].flag \in Nat /\ cRequest[r].approval \in Nat
    BY <1>1 DEF C!Work
<1>3. w \in C!Work
    BY <1>2 DEF C!Work
<1>4. cRequest' = [cRequest EXCEPT ![r] = w]
    BY DEF C!Answering
<1> QED
    BY <1>3, <1>4, OneRequest

\* A request that has left.
LEMMA LeftFacts ==
    ASSUME C!TypeOK, NEW r \in Request, C!Left(r)
    PROVE  /\ cRequest' \in [Request -> C!Work] /\ OthersWait(r)
           /\ cRequest'[r].at = "idle" /\ cRequest'[r].flag = 0
           /\ cRequest'[r].copy.granted = 0 /\ cRequest'[r].approval = 0
<1>1. C!NoWork \in C!Work
    BY DEF C!NoWork, C!Work, C!SessionData, C!Empty, C!NotSet
<1>2. cRequest' = [cRequest EXCEPT ![r] = C!NoWork]
    BY DEF C!Left
<1> QED
    BY <1>1, <1>2, OneRequest DEF C!NoWork, C!Empty, C!NotSet

\* What the other requests are about stays what it is.
LEMMA OthersAreFor ==
    ASSUME NEW r \in Request, \A q \in Request : RequestIsFor(q), OthersWait(r),
           ApprovalsStay, approved \in Seq(Params), approved' \in Seq(Params),
           RequestIsFor(r)'
    PROVE  \A q \in Request : RequestIsFor(q)'
<1>1. DOMAIN approved = Approvals /\ (DOMAIN approved)' = Approvals'
    BY DEF Approvals
<1>2. \A p : WasApproved(p) => WasApproved(p)'
    BY <1>1 DEF WasApproved, ApprovalsStay
<1>3. ASSUME NEW q \in Request, q # r PROVE RequestIsFor(q)'
    BY <1>2, <1>3 DEF RequestIsFor, OthersWait, ApprovalsStay
<1> QED
    BY <1>3

-----------------------------------------------------------------------------
(* The flags.                                                               *)

\* A code that is given on no flag, or none at all, spends no approval.
SpendsNothing == \A a : Spent(a)' <=> Spent(a)

\* A request goes on, with the flag it has or that of its own approval.
LEMMA StepKeepsFlags ==
    ASSUME FlagInv, NEW r \in Request, OthersWait(r), SpendsNothing,
           UNCHANGED <<cSession, approved, spilt>>,
           cRequest[r].at # "idle", cRequest'[r].at # "idle",
           cRequest[r].at = "answer" => cRequest'[r].at = "answer",
           cRequest'[r].flag = cRequest[r].flag,
           cRequest'[r].approval = cRequest[r].approval,
           cRequest'[r].copy.granted \in {0, cRequest[r].copy.granted, cRequest[r].approval}
    PROVE  FlagInv'
<1>1. RequestFlags(r)' /\ IsNew(r)'
    BY DEF FlagInv, RequestFlags, IsNew, OthersWait, SpendsNothing
<1>2. ASSUME NEW q \in Request, q # r PROVE RequestFlags(q)' /\ IsNew(q)'
  <2>1. cRequest'[q] = cRequest[q]
    BY <1>2 DEF OthersWait
  <2>2. RequestFlags(q)'
    BY <2>1 DEF FlagInv, RequestFlags
  <2>3. cRequest'[r].copy.granted # cRequest[q].approval \/ cRequest[q].approval = 0
    BY <1>2 DEF FlagInv, RequestFlags, IsNew
  <2>4. IsNew(q)'
    BY <2>1, <2>3, <1>2 DEF FlagInv, IsNew, OthersWait, SpendsNothing
  <2> QED
    BY <2>2, <2>4
<1>3. ASSUME NEW a \in Approvals \ spilt PROVE HasOneBearer(a)'
  <2>1. HasOneBearer(a) /\ a # 0
    BY DEF FlagInv, Approvals
  <2>2. \A q, s \in Request : cRequest'[q].flag = a /\ cRequest'[s].flag = a => q = s
    BY <2>1 DEF HasOneBearer, OthersWait
  <2>3. Spent(a)' => \A q \in Request : cRequest'[q].copy.granted # a
    BY <2>1 DEF HasOneBearer, OthersWait, SpendsNothing, FlagInv, IsNew
  <2>4. Spent(a)' => \A q \in Request : cRequest'[q].flag = a => cRequest'[q].at = "answer"
    BY <2>1 DEF HasOneBearer, OthersWait, SpendsNothing
  <2>5. Spent(a)' /\ cSession'.granted = a => \E q \in Request : cRequest'[q].flag = a
    BY <2>1 DEF HasOneBearer, OthersWait, SpendsNothing
  <2> QED
    BY <2>2, <2>3, <2>4, <2>5 DEF HasOneBearer
<1> QED
    BY <1>1, <1>2, <1>3 DEF FlagInv, Approvals

\* A request passes on its flag, which has not given a code before, and forgets it.
LEMMA PassKeepsFlags ==
    ASSUME FlagInv, NEW r \in Request, OthersWait(r), UNCHANGED <<cSession, approved, spilt>>,
           cRequest[r].at = "approve", cRequest'[r].at = "answer",
           cRequest[r].flag # 0, cRequest'[r].flag = cRequest[r].flag,
           cRequest'[r].approval = cRequest[r].approval, cRequest'[r].copy.granted = 0,
           \A a : Spent(a)' <=> Spent(a) \/ a = cRequest[r].flag
    PROVE  FlagInv'
<1>1. RequestFlags(r)' /\ IsNew(r)'
    BY DEF FlagInv, RequestFlags, IsNew, OthersWait
<1>2. ASSUME NEW q \in Request, q # r PROVE RequestFlags(q)' /\ IsNew(q)'
  <2>1. cRequest'[q] = cRequest[q]
    BY <1>2 DEF OthersWait
  <2> QED
    BY <2>1, <1>2 DEF FlagInv, RequestFlags, IsNew, OthersWait
<1>3. ASSUME NEW a \in Approvals \ spilt PROVE HasOneBearer(a)'
  <2>1. HasOneBearer(a) /\ a # 0
    BY DEF FlagInv, Approvals
  <2>2. \A q, s \in Request : cRequest'[q].flag = a /\ cRequest'[s].flag = a => q = s
    BY <2>1 DEF HasOneBearer, OthersWait
  <2>3. CASE a = cRequest[r].flag
    <3>1. ASSUME NEW q \in Request, q # r
          PROVE  cRequest[q].copy.granted # a /\ cRequest[q].flag # a
      <4>1. cRequest[q].flag # a
        BY <2>1, <2>3, <3>1 DEF HasOneBearer
      <4>2. cRequest[q].approval # a
        BY <2>1, <2>3 DEF FlagInv, IsNew
      <4> QED
        BY <2>1, <4>1, <4>2 DEF FlagInv, RequestFlags
    <3>2. /\ \A q \in Request : cRequest'[q].copy.granted # a
          /\ \A q \in Request : cRequest'[q].flag = a => cRequest'[q].at = "answer"
      BY <2>1, <3>1 DEF OthersWait
    <3> QED
      BY <2>2, <2>3, <3>2 DEF HasOneBearer
  <2>4. CASE a # cRequest[r].flag
    BY <2>1, <2>2, <2>4 DEF HasOneBearer, OthersWait
  <2> QED
    BY <2>3, <2>4
<1> QED
    BY <1>1, <1>2, <1>3 DEF FlagInv, Approvals

\* A request comes with the browser's flag: the only one to do so, or it is spilt.
LEMMA EnterKeepsFlags ==
    ASSUME FlagInv, NEW r \in Request, OthersWait(r), SpendsNothing, UNCHANGED cSession,
           ApprovalsStay, Len(approved) \in Nat, Len(approved') \in Nat,
           cRequest[r].at = "idle", cRequest'[r].at # "idle",
           cRequest'[r].flag = cSession.granted,
           cRequest'[r].copy.granted \in {0, cSession.granted},
           \/ cRequest'[r].approval = 0 /\ UNCHANGED approved
           \/ cRequest'[r].approval = Len(approved) + 1 /\ Len(approved') = Len(approved) + 1,
           spilt \subseteq spilt',
           \A q \in Request : cRequest[q].at # "idle" /\ cRequest[q].flag = cSession.granted
               => cSession.granted \in spilt' \cup {0},
           \A a : Spent(a) => a \in Approvals
    PROVE  FlagInv'
<1> DEFINE f == cSession.granted
           n == Len(approved)
<1>1. f \in 0 .. n /\ n \in Nat /\ n <= Len(approved')
    BY DEF FlagInv, ApprovalsStay
<1>2. RequestFlags(r)'
    BY <1>1 DEF RequestFlags
<1>3. \A q \in Request : /\ cRequest[q].flag \in 0 .. n /\ cRequest[q].approval \in 0 .. n
                         /\ cRequest[q].copy.granted \in 0 .. n
    BY <1>1 DEF FlagInv, RequestFlags
<1>4. IsNew(r)'
  <2> SUFFICES ASSUME NEW a \in {n + 1}, cRequest'[r].approval = a PROVE IsNew(r)'
    BY DEF IsNew
  <2>1. f # a /\ ~Spent(a)' /\ cRequest'[r].flag # a
    BY <1>1 DEF SpendsNothing, Approvals
  <2>2. \A q \in Request : q # r =>
            cRequest'[q].flag # a /\ cRequest'[q].approval # a /\ cRequest'[q].copy.granted # a
    BY <1>1, <1>3 DEF OthersWait
  <2> QED
    BY <2>1, <2>2 DEF IsNew
<1>5. ASSUME NEW q \in Request, q # r PROVE RequestFlags(q)' /\ IsNew(q)'
  <2>1. cRequest'[q] = cRequest[q]
    BY <1>5 DEF OthersWait
  <2>2. RequestFlags(q)'
    BY <1>1, <1>3, <2>1 DEF FlagInv, RequestFlags
  <2>3. cRequest[q].approval # 0 =>
            /\ cRequest'[r].flag # cRequest[q].approval
            /\ cRequest'[r].copy.granted # cRequest[q].approval
            /\ cRequest'[r].approval # cRequest[q].approval
    BY <1>1, <1>3 DEF FlagInv, IsNew
  <2>4. IsNew(q)'
    BY <1>5, <2>1, <2>3 DEF FlagInv, IsNew, OthersWait, SpendsNothing
  <2> QED
    BY <2>2, <2>4
<1>6. ASSUME NEW a \in Approvals' \ spilt' PROVE HasOneBearer(a)'
  <2>1. a # 0 /\ a \in Nat
    BY DEF Approvals
  <2>2. ASSUME NEW q \in Request, q # r, cRequest[q].flag = a PROVE f # a
    <3>1. cRequest[q].at # "idle"
      BY <2>1, <2>2 DEF FlagInv, RequestFlags
    <3> QED
      BY <2>1, <2>2, <3>1
  <2>3. cRequest[r].flag = 0 /\ cRequest[r].copy.granted = 0
    BY DEF FlagInv, RequestFlags
  <2>4. CASE a \in Approvals
    <3>1. HasOneBearer(a)
      BY <2>4 DEF FlagInv
    <3>2. \A q, s \in Request : cRequest'[q].flag = a /\ cRequest'[s].flag = a => q = s
      BY <2>2, <3>1 DEF HasOneBearer, OthersWait
    <3>3. Spent(a) => f # a
      BY <2>1, <2>2, <2>3, <3>1 DEF HasOneBearer
    <3>4. Spent(a)' =>
              /\ \A q \in Request : cRequest'[q].copy.granted # a
              /\ \A q \in Request : cRequest'[q].flag = a => cRequest'[q].at = "answer"
      BY <2>1, <3>1, <3>3 DEF HasOneBearer, OthersWait, SpendsNothing
    <3> QED
      BY <3>2, <3>3, <3>4 DEF HasOneBearer, SpendsNothing
  <2>5. CASE a \notin Approvals
    <3>1. \A q \in Request : cRequest'[q].flag # a
      BY <1>1, <1>3, <2>1, <2>5 DEF Approvals, OthersWait
    <3>2. ~Spent(a)'
      BY <2>5 DEF SpendsNothing
    <3> QED
      BY <3>1, <3>2 DEF HasOneBearer
  <2> QED
    BY <2>4, <2>5
<1> QED
    BY <1>1, <1>2, <1>4, <1>5, <1>6 DEF FlagInv

\* The browser takes what a request made of its flag.
LEMMA AnswerKeepsFlags ==
    ASSUME FlagInv, NEW r \in Request, OthersWait(r), SpendsNothing,
           UNCHANGED <<approved, spilt>>, Len(approved) \in Nat,
           cSession' = cRequest[r].copy, cRequest'[r].at = "idle", cRequest'[r].flag = 0,
           cRequest'[r].copy.granted = 0, cRequest'[r].approval = 0
    PROVE  FlagInv'
<1>1. cSession'.granted \in 0 .. Len(approved)
    BY DEF FlagInv, RequestFlags
<1>2. RequestFlags(r)' /\ IsNew(r)'
    BY DEF RequestFlags, IsNew
<1>3. ASSUME NEW q \in Request, q # r PROVE RequestFlags(q)' /\ IsNew(q)'
  <2>1. cRequest'[q] = cRequest[q]
    BY <1>3 DEF OthersWait
  <2> QED
    BY <1>3, <2>1 DEF FlagInv, RequestFlags, IsNew, OthersWait, SpendsNothing
<1>4. ASSUME NEW a \in Approvals \ spilt PROVE HasOneBearer(a)'
  <2>1. HasOneBearer(a) /\ a # 0
    BY DEF FlagInv, Approvals
  <2> QED
    BY <2>1 DEF HasOneBearer, OthersWait, SpendsNothing
<1> QED
    BY <1>1, <1>2, <1>3, <1>4 DEF FlagInv, Approvals

\* An answer is lost: a flag that has given a code in it is spilt.
LEMMA LoseKeepsFlags ==
    ASSUME FlagInv, NEW r \in Request, OthersWait(r), SpendsNothing,
           UNCHANGED <<cSession, approved>>, Len(approved) \in Nat,
           cRequest'[r].at = "idle", cRequest'[r].flag = 0,
           cRequest'[r].copy.granted = 0, cRequest'[r].approval = 0,
           spilt \subseteq spilt', Spent(cRequest[r].flag) => cRequest[r].flag \in spilt'
    PROVE  FlagInv'
<1>1. RequestFlags(r)' /\ IsNew(r)'
    BY DEF RequestFlags, IsNew
<1>2. ASSUME NEW q \in Request, q # r PROVE RequestFlags(q)' /\ IsNew(q)'
  <2>1. cRequest'[q] = cRequest[q]
    BY <1>2 DEF OthersWait
  <2> QED
    BY <1>2, <2>1 DEF FlagInv, RequestFlags, IsNew, OthersWait, SpendsNothing
<1>3. ASSUME NEW a \in Approvals \ spilt' PROVE HasOneBearer(a)'
  <2>1. HasOneBearer(a) /\ a # 0
    BY DEF FlagInv, Approvals
  <2> QED
    BY <2>1 DEF HasOneBearer, OthersWait, SpendsNothing
<1> QED
    BY <1>1, <1>2, <1>3 DEF FlagInv, Approvals

-----------------------------------------------------------------------------
(* The rest of the invariant.                                               *)

\* What every step keeps of the codes and the approvals there were.
LEMMA CodesStay ==
    ASSUME CodesAreApproved, ApprovalsStay, UNCHANGED granted, spilt \subseteq spilt',
           approved \in Seq(Params), approved' \in Seq(Params)
    PROVE  CodesAreApproved' /\ SpendsNothing
<1>1. DOMAIN approved = Approvals /\ (DOMAIN approved)' = Approvals'
    BY DEF Approvals
<1>2. \A p : WasApproved(p) => WasApproved(p)'
    BY <1>1 DEF WasApproved, ApprovalsStay
<1>3. OneCodePerApproval'
    BY <1>1 DEF CodesAreApproved, OneCodePerApproval, OnTheFlag, ApprovalsStay
<1>4. StoredConsentWasApproved'
    BY <1>2 DEF CodesAreApproved, StoredConsentWasApproved
<1>5. SpendsNothing
    BY DEF SpendsNothing, Spent, OnTheFlag
<1> QED
    BY <1>3, <1>4, <1>5 DEF CodesAreApproved

\* The history of the approvals grows by the one given, if one is.
LEMMA ApprovalGiven ==
    ASSUME approved \in Seq(Params),
           \/ UNCHANGED approved
           \/ \E p \in Params : approved' = Append(approved, p)
    PROVE  /\ ApprovalsStay /\ approved' \in Seq(Params)
           /\ Len(approved) \in Nat /\ Len(approved') \in Nat
<1>1. CASE UNCHANGED approved
    BY <1>1 DEF ApprovalsStay, Approvals
<1>2. CASE \E p \in Params : approved' = Append(approved, p)
    BY <1>2 DEF ApprovalsStay, Approvals
<1> QED
    BY <1>1, <1>2

\* The rows there were are those of approvals still.
LEMMA RowsStay ==
    ASSUME ConsentsWereGiven, ApprovalsStay, approved \in Seq(Params), approved' \in Seq(Params),
           DOMAIN consents' \subseteq DOMAIN consents,
           \A k \in DOMAIN consents' : consents'[k] = consents[k]
    PROVE  ConsentsWereGiven'
<1>1. DOMAIN approved = Approvals /\ (DOMAIN approved)' = Approvals'
    BY DEF Approvals
<1> QED
    BY <1>1 DEF ConsentsWereGiven, ApprovalsStay

\* A request comes.
LEMMA EnterKeeps ==
    ASSUME ConsentBounds, ConsentInv, NEW r \in Request,
           NEW place \in {"lookup", "approve", "find", "answer"}, NEW copy \in C!SessionData,
           NEW ground \in {"none", "trusted", "session"}, NEW approval \in Nat,
           C!Enter(r, place, copy, ground, approval),
           UNCHANGED <<cNow, cSession, consents, granted>>,
           copy.granted \in {0, cSession.granted},
           place # "answer" => copy.params \in Params,
           place = "approve" => ground # "none",
           place = "approve" /\ ground = "session" => cSession.granted # 0,
           \/ approval = 0 /\ place # "find" /\ UNCHANGED approved
           \/ /\ approval = Len(approved) + 1 /\ place = "find"
              /\ approved' = Append(approved, copy.params)
    PROVE  ConsentInv'
<1>1. approved \in Seq(Params) /\ came \in Nat /\ C!TypeOK
    BY DEF ConsentInv, C!TypeOK
<1>2. ApprovalsStay /\ approved' \in Seq(Params) /\ Len(approved) \in Nat /\ Len(approved') \in Nat
    BY <1>1, ApprovalGiven
<1>3. /\ cRequest' \in [Request -> C!Work] /\ OthersWait(r)
      /\ cRequest[r].at = "idle" /\ cRequest'[r].at = place /\ cRequest'[r].copy = copy
      /\ cRequest'[r].flag = cSession.granted /\ cRequest'[r].ground = ground
      /\ cRequest'[r].approval = approval
    BY <1>1, EnterFacts
<1>4. /\ spilt \subseteq spilt' /\ spilt' \subseteq spilt \cup ({cSession.granted} \ {0})
      /\ \A q \in Request : cRequest[q].at # "idle" /\ cRequest[q].flag = cSession.granted
             => cSession.granted \in spilt' \cup {0}
    BY DEF C!Enter, C!At, C!NotSet
<1>5. came' \in 0 .. MaxRequests
    BY <1>1 DEF C!Enter, ConsentBounds
<1>6. CodesAreApproved' /\ SpendsNothing
    BY <1>1, <1>2, <1>4, CodesStay DEF ConsentInv
<1>7. ConsentsWereGiven'
    BY <1>1, <1>2, RowsStay DEF ConsentInv
<1>8. RequestIsFor(r)'
  <2>1. place = "find" => approval \in Approvals' /\ approved'[approval] = copy.params
    BY <1>1, <1>2 DEF Approvals
  <2> QED
    BY <1>3, <2>1 DEF RequestIsFor
<1>9. \A q \in Request : RequestIsFor(q)'
    BY <1>1, <1>2, <1>3, <1>8, OthersAreFor DEF ConsentInv
<1>10. FlagInv'
  <2>1. \A a : Spent(a) => a \in Approvals
    BY <1>1 DEF Spent, Approvals, ConsentInv, CodesAreApproved, OneCodePerApproval
  <2>2. \/ cRequest'[r].approval = 0 /\ UNCHANGED approved
        \/ cRequest'[r].approval = Len(approved) + 1 /\ Len(approved') = Len(approved) + 1
    BY <1>1, <1>3
  <2> QED
    BY <1>2, <1>3, <1>4, <1>6, <2>1, <2>2, EnterKeepsFlags DEF ConsentInv
<1>11. C!TypeOK'
  <2>1. spilt' \subseteq 1 .. Len(approved')
    BY <1>1, <1>2, <1>4 DEF ConsentInv, FlagInv, C!TypeOK, ApprovalsStay, Approvals
  <2> QED
    BY <1>1, <1>2, <1>3, <1>5, <2>1 DEF C!TypeOK
<1> QED
    BY <1>6, <1>7, <1>9, <1>10, <1>11 DEF ConsentInv

\* A request goes on, whatever it writes to the table.
LEMMA StepKeeps ==
    ASSUME ConsentInv, NEW r \in Request, OthersWait(r),
           cRequest' \in [Request -> C!Work],
           UNCHANGED <<cNow, came, cSession, approved, granted, spilt>>,
           cRequest[r].at \notin {"idle", "answer"}, cRequest'[r].at # "idle",
           cRequest'[r].flag = cRequest[r].flag,
           cRequest'[r].approval = cRequest[r].approval,
           cRequest'[r].copy.granted \in {0, cRequest[r].copy.granted, cRequest[r].approval},
           RequestIsFor(r)', ConsentsWereGiven',
           DOMAIN consents' \subseteq {p.client : p \in Params},
           \A k \in DOMAIN consents' : consents'[k] \in C!ConsentRow
    PROVE  ConsentInv'
<1>1. approved \in Seq(Params) /\ C!TypeOK
    BY DEF ConsentInv, C!TypeOK
<1>2. ApprovalsStay
    BY <1>1, ApprovalGiven
<1>3. CodesAreApproved' /\ SpendsNothing
    BY <1>1, <1>2, CodesStay DEF ConsentInv
<1>4. \A q \in Request : RequestIsFor(q)'
    BY <1>1, <1>2, OthersAreFor DEF ConsentInv
<1>5. FlagInv'
    BY <1>3, StepKeepsFlags DEF ConsentInv
<1>6. C!TypeOK'
    BY <1>1 DEF C!TypeOK
<1> QED
    BY <1>3, <1>4, <1>5, <1>6 DEF ConsentInv

-----------------------------------------------------------------------------
(* The operations.                                                          *)

\* The requests that come.
LEMMA RequestsComeKeeps ==
    ASSUME ConsentBounds, ConsentInv, NEW r \in Request,
           \/ \E p \in Params : C!Authorize(r, p)
           \/ C!ShowConsent(r) \/ C!DenyConsent(r) \/ C!ApproveConsent(r)
    PROVE  ConsentInv'
<1> DEFINE With(p) == [cSession EXCEPT !.params = p]
<1>1. cSession \in C!SessionData /\ C!Empty \in C!SessionData /\ C!Empty.granted = 0
    BY DEF ConsentInv, C!TypeOK, C!SessionData, C!Empty, C!NotSet
<1>2. ASSUME NEW p \in Params, C!Authorize(r, p) PROVE ConsentInv'
  <2>1. With(p) \in C!SessionData /\ With(p).params = p /\ With(p).granted = cSession.granted
    BY <1>1 DEF C!SessionData
  <2>2. UNCHANGED <<cNow, cSession, consents, granted, approved>>
    BY <1>2 DEF C!Authorize, C!tables
  <2>3. CASE C!Enter(r, "approve", With(p), "trusted", 0)
    BY <2>1, <2>2, <2>3, EnterKeeps
  <2>4. CASE C!Enter(r, "approve", With(p), "session", 0) /\ cSession.granted # 0
    BY <2>1, <2>2, <2>4, EnterKeeps
  <2>5. CASE C!Enter(r, "lookup", With(p), "none", 0)
    BY <2>1, <2>2, <2>5, EnterKeeps
  <2> QED
    BY <1>2, <2>3, <2>4, <2>5 DEF C!Authorize, C!ApproveTrusted, C!ApproveGranted, C!LookUp,
        C!With, C!NotSet
<1>3. CASE C!ShowConsent(r)
  <2>1. C!Enter(r, "answer", cSession, "none", 0) /\ UNCHANGED <<cNow, cSession, consents, granted, approved>>
    BY <1>3 DEF C!ShowConsent, C!tables
  <2> QED
    BY <1>1, <2>1, EnterKeeps
<1>4. CASE C!DenyConsent(r)
  <2>1. C!Enter(r, "answer", C!Empty, "none", 0) /\ UNCHANGED <<cNow, cSession, consents, granted, approved>>
    BY <1>4 DEF C!DenyConsent, C!tables
  <2> QED
    BY <1>1, <2>1, EnterKeeps
<1>5. CASE C!ApproveConsent(r)
  <2>1. /\ C!Enter(r, "find", cSession, "none", Len(approved) + 1)
        /\ approved' = Append(approved, cSession.params) /\ cSession.params # C!NoParams
        /\ UNCHANGED <<cNow, cSession, consents, granted>>
    BY <1>5 DEF C!ApproveConsent
  <2>2. cSession.params \in Params /\ Len(approved) + 1 \in Nat
    BY <1>1, <2>1 DEF C!SessionData, ConsentInv, C!TypeOK
  <2> QED
    BY <1>1, <2>1, <2>2, EnterKeeps
<1> QED
    BY <1>2, <1>3, <1>4, <1>5

\* A request works on a copy of the session, and on a row of the table.
LEMMA RequestFacts ==
    ASSUME ConsentInv, NEW r \in Request
    PROVE  /\ C!TypeOK /\ approved \in Seq(Params) /\ RequestIsFor(r)
           /\ cRequest[r] \in C!Work /\ cRequest[r].copy \in C!SessionData
           /\ cRequest[r].flag \in Nat /\ cRequest[r].approval \in Nat
BY DEF ConsentInv, C!TypeOK, C!Work

\* The table stays.
LEMMA TableStays ==
    ASSUME ConsentInv, UNCHANGED <<consents, approved>>
    PROVE  /\ ConsentsWereGiven' /\ DOMAIN consents' \subseteq {p.client : p \in Params}
           /\ \A k \in DOMAIN consents' : consents'[k] \in C!ConsentRow
BY DEF ConsentInv, ConsentsWereGiven, C!TypeOK

\* A request that looks up the consents, and passes or not.
LEMMA LookUpKeeps ==
    ASSUME ConsentInv, NEW r \in Request, C!ApproveStored(r) \/ C!AskConsent(r) \/ C!Fail(r)
    PROVE  ConsentInv'
<1>1. /\ C!TypeOK /\ approved \in Seq(Params) /\ RequestIsFor(r)
      /\ cRequest[r] \in C!Work /\ cRequest[r].copy \in C!SessionData
    BY RequestFacts
<1>2. UNCHANGED <<cNow, came, cSession, consents, approved, granted, spilt>>
    BY DEF C!ApproveStored, C!AskConsent, C!Fail, C!tables
<1>3. /\ ConsentsWereGiven' /\ DOMAIN consents' \subseteq {p.client : p \in Params}
      /\ \A k \in DOMAIN consents' : consents'[k] \in C!ConsentRow
    BY <1>2, TableStays
<1>4. CASE C!ApproveStored(r)
  <2> DEFINE w == [cRequest[r] EXCEPT !.at = "approve", !.ground = "stored"]
  <2>1. cRequest' = [cRequest EXCEPT ![r] = w] /\ cRequest[r].at = "lookup"
    BY <1>1, <1>4 DEF C!ApproveStored, C!At, C!TypeOK
  <2>2. /\ w \in C!Work /\ w.at = "approve" /\ w.ground = "stored" /\ w.copy = cRequest[r].copy
        /\ w.flag = cRequest[r].flag /\ w.approval = cRequest[r].approval
    BY <1>1 DEF C!Work
  <2>3. cRequest' \in [Request -> C!Work] /\ cRequest'[r] = w /\ OthersWait(r)
    BY <1>1, <2>1, <2>2, OneRequest
  <2>4. WasApproved(cRequest[r].copy.params)
    BY <1>4 DEF C!ApproveStored, C!HasConsent, WasApproved, ConsentInv, ConsentsWereGiven
  <2>5. RequestIsFor(r)'
    BY <1>1, <1>2, <2>1, <2>2, <2>3, <2>4 DEF RequestIsFor, WasApproved
  <2> QED
    BY <1>2, <1>3, <2>1, <2>2, <2>3, <2>5, StepKeeps
<1>5. CASE C!AskConsent(r) \/ C!Fail(r)
  <2>1. C!Answering(r, cRequest[r].copy) /\ cRequest[r].at \notin {"idle", "answer"}
    BY <1>5 DEF C!AskConsent, C!Fail, C!Busy, C!At
  <2>2. /\ cRequest' \in [Request -> C!Work] /\ OthersWait(r)
        /\ cRequest'[r].at = "answer" /\ cRequest'[r].copy = cRequest[r].copy
        /\ cRequest'[r].flag = cRequest[r].flag /\ cRequest'[r].approval = cRequest[r].approval
    BY <1>1, <2>1, AnsweringFacts
  <2>3. RequestIsFor(r)'
    BY <2>2 DEF RequestIsFor
  <2> QED
    BY <1>2, <1>3, <2>1, <2>2, <2>3, StepKeeps
<1> QED
    BY <1>4, <1>5

\* The consent that was approved is looked for.
LEMMA FindConsentKeeps ==
    ASSUME ConsentInv, NEW r \in Request, C!FindConsent(r)
    PROVE  ConsentInv'
<1> DEFINE client == cRequest[r].copy.params.client
           row == IF client \in DOMAIN consents THEN consents[client] ELSE C!NoRow
           w == [cRequest[r] EXCEPT !.at = "save", !.row = row]
<1>1. /\ C!TypeOK /\ approved \in Seq(Params) /\ RequestIsFor(r)
      /\ cRequest[r] \in C!Work /\ cRequest[r].copy \in C!SessionData
    BY RequestFacts
<1>2. UNCHANGED <<cNow, came, cSession, consents, approved, granted, spilt>>
    BY DEF C!FindConsent, C!tables
<1>3. /\ ConsentsWereGiven' /\ DOMAIN consents' \subseteq {p.client : p \in Params}
      /\ \A k \in DOMAIN consents' : consents'[k] \in C!ConsentRow
    BY <1>2, TableStays
<1>4. cRequest' = [cRequest EXCEPT ![r] = w] /\ cRequest[r].at = "find"
    BY <1>1 DEF C!FindConsent, C!At, C!TypeOK
<1>5. row \in C!ConsentRow \cup {C!NoRow}
    BY <1>1 DEF C!TypeOK
<1>6. /\ w \in C!Work /\ w.at = "save" /\ w.copy = cRequest[r].copy
      /\ w.flag = cRequest[r].flag /\ w.approval = cRequest[r].approval
    BY <1>1, <1>5 DEF C!Work
<1>7. cRequest' \in [Request -> C!Work] /\ cRequest'[r] = w /\ OthersWait(r)
    BY <1>1, <1>4, <1>6, OneRequest
<1>8. RequestIsFor(r)'
    BY <1>1, <1>2, <1>4, <1>6, <1>7 DEF RequestIsFor, Approvals
<1> QED
    BY <1>2, <1>3, <1>4, <1>6, <1>7, <1>8, StepKeeps

\* What is stored for a client is what the approval carried out is for.
LEMMA WrittenFacts ==
    ASSUME ConsentBounds, ConsentInv, NEW r \in Request, cRequest[r].at = "save",
           UNCHANGED approved, consents' = C!Written(cRequest[r])
    PROVE  /\ ConsentsWereGiven' /\ DOMAIN consents' \subseteq {p.client : p \in Params}
           /\ \A k \in DOMAIN consents' : consents'[k] \in C!ConsentRow
<1> DEFINE w == cRequest[r]
           p == w.copy.params
           expiresAt == cNow + ConsentLife
<1>1. /\ C!TypeOK /\ approved \in Seq(Params) /\ RequestIsFor(r) /\ w \in C!Work
      /\ w.approval \in Nat /\ w.row \in C!ConsentRow \cup {C!NoRow}
    BY RequestFacts DEF C!Work
<1>2. p \in Params /\ w.approval \in DOMAIN approved /\ approved[w.approval] = p
    BY <1>1 DEF RequestIsFor, Approvals
<1>3. expiresAt \in Nat
    BY <1>1 DEF C!TypeOK, ConsentBounds
<1>4. DOMAIN consents' \subseteq DOMAIN consents \cup {p.client}
    BY DEF C!Written
<1>5. ASSUME NEW k \in DOMAIN consents'
      PROVE  /\ consents'[k] \in C!ConsentRow
             /\ \/ k \in DOMAIN consents /\ consents'[k].scopes = consents[k].scopes
                \/ k = p.client /\ consents'[k].scopes = p.scopes
  <2>1. CASE k # p.client
    <3>1. k \in DOMAIN consents /\ consents'[k] = consents[k]
      BY <1>5, <2>1 DEF C!Written
    <3> QED
      BY <1>1, <3>1 DEF C!TypeOK
  <2>2. CASE k = p.client /\ w.row = C!NoRow
    <3>1. consents'[k] = [id |-> w.approval, scopes |-> p.scopes, expiresAt |-> expiresAt]
      BY <1>5, <2>2 DEF C!Written
    <3> QED
      BY <1>1, <1>2, <1>3, <2>2, <3>1 DEF C!ConsentRow
  <2>3. CASE k = p.client /\ w.row # C!NoRow
    <3>1. k \in DOMAIN consents /\ consents[k] \in C!ConsentRow /\ w.row \in C!ConsentRow
      BY <1>1, <1>4, <1>5, <2>3 DEF C!TypeOK, C!Written
    <3>2. \/ consents'[k] = consents[k]
          \/ consents'[k] = [id |-> w.row.id, expiresAt |-> expiresAt,
                             scopes |-> IF w.row.scopes = p.scopes THEN consents[k].scopes
                                        ELSE p.scopes]
      BY <1>5, <2>3, <3>1 DEF C!Written
    <3> QED
      BY <1>2, <1>3, <2>3, <3>1, <3>2 DEF C!ConsentRow
  <2> QED
    BY <2>1, <2>2, <2>3
<1>6. ConsentsWereGiven'
    BY <1>2, <1>5 DEF ConsentInv, ConsentsWereGiven
<1>7. DOMAIN consents' \subseteq {q.client : q \in Params}
    BY <1>1, <1>2, <1>4 DEF C!TypeOK
<1> QED
    BY <1>5, <1>6, <1>7

\* It is stored, or the row of another request is there.
LEMMA SaveConsentKeeps ==
    ASSUME ConsentBounds, ConsentInv, NEW r \in Request, C!SaveConsent(r)
    PROVE  ConsentInv'
<1> DEFINE w == cRequest[r]
           flagged == [w.copy EXCEPT !.granted = w.approval]
<1>1. /\ C!TypeOK /\ w.copy \in C!SessionData /\ w.approval \in Nat
    BY RequestFacts
<1>2. /\ UNCHANGED <<cNow, came, cSession, approved, granted, spilt>> /\ w.at = "save"
    BY DEF C!SaveConsent, C!At
<1>3. flagged \in C!SessionData /\ flagged.granted = w.approval
    BY <1>1 DEF C!SessionData
<1>4. /\ ConsentsWereGiven' /\ DOMAIN consents' \subseteq {p.client : p \in Params}
      /\ \A k \in DOMAIN consents' : consents'[k] \in C!ConsentRow
    BY <1>2, TableStays, WrittenFacts DEF C!SaveConsent
<1>5. PICK copy \in {w.copy, flagged} : C!Answering(r, copy)
    BY DEF C!SaveConsent
<1>6. /\ cRequest' \in [Request -> C!Work] /\ OthersWait(r)
      /\ cRequest'[r].at = "answer" /\ cRequest'[r].copy = copy
      /\ cRequest'[r].flag = w.flag /\ cRequest'[r].approval = w.approval
    BY <1>1, <1>3, <1>5, AnsweringFacts
<1>7. RequestIsFor(r)'
    BY <1>6 DEF RequestIsFor
<1>8. cRequest'[r].copy.granted \in {0, w.copy.granted, w.approval}
    BY <1>3, <1>5, <1>6
<1> QED
    BY <1>2, <1>4, <1>6, <1>7, <1>8, StepKeeps

\* A code is given: on the flag of the request, which has given none, or on another
\* ground.
LEMMA ApproveKeeps ==
    ASSUME ConsentInv, NEW r \in Request, C!Approve(r)
    PROVE  ConsentInv'
<1> DEFINE w == cRequest[r]
           copy == IF w.ground = "session" THEN C!Empty ELSE w.copy
           n == Len(granted) + 1
<1>1. /\ C!TypeOK /\ approved \in Seq(Params) /\ RequestIsFor(r) /\ w \in C!Work
      /\ w.copy \in C!SessionData /\ w.flag \in Nat
    BY RequestFacts
<1>2. /\ UNCHANGED <<cNow, came, cSession, consents, approved, spilt>> /\ w.at = "approve"
      /\ granted' = Append(granted, C!Code(w)) /\ C!Answering(r, copy)
    BY DEF C!Approve, C!At
<1>3. copy \in C!SessionData /\ copy.granted \in {0, w.copy.granted}
      /\ (w.ground = "session" => copy.granted = 0)
    BY <1>1 DEF C!SessionData, C!Empty, C!NotSet
<1>4. /\ cRequest' \in [Request -> C!Work] /\ OthersWait(r)
      /\ cRequest'[r].at = "answer" /\ cRequest'[r].copy = copy
      /\ cRequest'[r].flag = w.flag /\ cRequest'[r].approval = w.approval
    BY <1>1, <1>2, <1>3, AnsweringFacts
<1>5. /\ w.copy.params \in Params /\ w.ground \in {"trusted", "session", "stored"}
      /\ w.ground = "session" => w.flag \in DOMAIN approved
      /\ w.ground = "stored" => WasApproved(w.copy.params)
  <2>1. w.flag \in 0 .. Len(approved)
    BY DEF ConsentInv, FlagInv, RequestFlags
  <2> QED
    BY <1>1, <1>2, <2>1 DEF RequestIsFor, C!Work
<1>6. C!Code(w) \in [params : Params, ground : {"trusted", "session", "stored"}, approval : Nat]
    BY <1>1, <1>5 DEF C!Code
<1>7. /\ DOMAIN granted' = DOMAIN granted \cup {n} /\ n \notin DOMAIN granted
      /\ granted'[n] = C!Code(w) /\ \A c \in DOMAIN granted : granted'[c] = granted[c]
    BY <1>1, <1>2, <1>6 DEF C!TypeOK
<1>8. /\ C!Code(w).params = w.copy.params /\ C!Code(w).ground = w.ground
      /\ w.ground = "session" => C!Code(w).approval = w.flag
    BY DEF C!Code
<1>9. \A a : Spent(a)' <=> Spent(a) \/ (w.ground = "session" /\ a = w.flag)
    BY <1>7, <1>8 DEF Spent, OnTheFlag
<1>10. CodesAreApproved'
  <2>1. w.ground = "session" => w.flag \in spilt \/ ~Spent(w.flag)
    BY <1>1, <1>2, <1>5 DEF ConsentInv, FlagInv, HasOneBearer, Approvals
  <2>2. OneCodePerApproval'
    BY <1>2, <1>5, <1>7, <1>8, <2>1
       DEF ConsentInv, CodesAreApproved, OneCodePerApproval, OnTheFlag, Spent
  <2>3. \A p : WasApproved(p)' <=> WasApproved(p)
    BY <1>2 DEF WasApproved
  <2>4. StoredConsentWasApproved'
    BY <1>5, <1>7, <1>8, <2>3 DEF ConsentInv, CodesAreApproved, StoredConsentWasApproved
  <2> QED
    BY <2>2, <2>4 DEF CodesAreApproved
<1>11. FlagInv'
  <2>1. CASE w.ground = "session"
    <3>1. w.flag # 0 /\ \A a : Spent(a)' <=> Spent(a) \/ a = w.flag
      BY <1>1, <1>2, <1>9, <2>1 DEF RequestIsFor
    <3> QED
      BY <1>2, <1>3, <1>4, <2>1, <3>1, PassKeepsFlags DEF ConsentInv
  <2>2. CASE w.ground # "session"
    <3>1. SpendsNothing
      BY <1>9, <2>2 DEF SpendsNothing
    <3> QED
      BY <1>2, <1>3, <1>4, <2>2, <3>1, StepKeepsFlags DEF ConsentInv
  <2> QED
    BY <2>1, <2>2
<1>12. \A q \in Request : RequestIsFor(q)'
  <2>1. RequestIsFor(r)'
    BY <1>4 DEF RequestIsFor
  <2>2. ApprovalsStay
    BY <1>1, <1>2, ApprovalGiven
  <2> QED
    BY <1>1, <1>2, <1>4, <2>1, <2>2, OthersAreFor DEF ConsentInv
<1>13. ConsentsWereGiven'
    BY <1>2 DEF ConsentInv, ConsentsWereGiven
<1>14. C!TypeOK'
    BY <1>1, <1>2, <1>4, <1>6 DEF C!TypeOK
<1> QED
    BY <1>10, <1>11, <1>12, <1>13, <1>14 DEF ConsentInv

\* A request is over, and the browser has its copy or nothing.
LEMMA LeavingKeeps ==
    ASSUME ConsentInv, NEW r \in Request, C!Answer(r) \/ C!Lose(r)
    PROVE  ConsentInv'
<1>1. /\ C!TypeOK /\ approved \in Seq(Params) /\ cRequest[r].copy \in C!SessionData
      /\ Len(approved) \in Nat
    BY RequestFacts
<1>2. C!Left(r) /\ UNCHANGED <<cNow, came, consents, approved, granted>>
    BY DEF C!Answer, C!Lose, C!tables
<1>3. /\ cRequest' \in [Request -> C!Work] /\ OthersWait(r)
      /\ cRequest'[r].at = "idle" /\ cRequest'[r].flag = 0
      /\ cRequest'[r].copy.granted = 0 /\ cRequest'[r].approval = 0
    BY <1>1, <1>2, LeftFacts
<1>4. ApprovalsStay
    BY <1>1, <1>2, ApprovalGiven
<1>5. /\ spilt \subseteq spilt' /\ spilt' \subseteq 1 .. Len(approved)
      /\ cSession' \in C!SessionData
  <2>1. CASE C!Answer(r)
    BY <1>1, <2>1 DEF C!Answer, C!TypeOK
  <2>2. CASE C!Lose(r)
    <3>1. \A c \in DOMAIN granted : OnTheFlag(c) => granted[c].approval \in 1 .. Len(approved)
      BY <1>1 DEF ConsentInv, CodesAreApproved, OneCodePerApproval
    <3> QED
      BY <1>1, <2>2, <3>1 DEF C!Lose, C!TypeOK, C!OnTheFlag, OnTheFlag
  <2> QED
    BY <2>1, <2>2
<1>6. CodesAreApproved' /\ SpendsNothing
    BY <1>1, <1>2, <1>4, <1>5, CodesStay DEF ConsentInv
<1>7. FlagInv'
  <2>1. CASE C!Answer(r)
    BY <1>1, <1>2, <1>3, <1>6, <2>1, AnswerKeepsFlags DEF C!Answer, ConsentInv
  <2>2. CASE C!Lose(r)
    <3>1. UNCHANGED cSession /\ (Spent(cRequest[r].flag) => cRequest[r].flag \in spilt')
      BY <2>2 DEF C!Lose, Spent, C!OnTheFlag, OnTheFlag
    <3> QED
      BY <1>1, <1>2, <1>3, <1>5, <1>6, <3>1, LoseKeepsFlags DEF ConsentInv
  <2> QED
    BY <2>1, <2>2
<1>8. RequestIsFor(r)'
    BY <1>3 DEF RequestIsFor
<1>9. \A q \in Request : RequestIsFor(q)'
    BY <1>1, <1>2, <1>3, <1>4, <1>8, OthersAreFor DEF ConsentInv
<1>10. ConsentsWereGiven'
    BY <1>2 DEF ConsentInv, ConsentsWereGiven
<1>11. C!TypeOK'
    BY <1>1, <1>2, <1>3, <1>5 DEF C!TypeOK
<1> QED
    BY <1>6, <1>7, <1>9, <1>10, <1>11 DEF ConsentInv

\* The cleanup and the clock leave the session and its requests alone.
LEMMA OthersKeepConsent ==
    ASSUME ConsentBounds, ConsentInv, C!CleanConsents \/ C!Tick \/ UNCHANGED C!vars
    PROVE  ConsentInv'
<1>1. C!TypeOK /\ approved \in Seq(Params)
    BY DEF ConsentInv, C!TypeOK
<1>2. UNCHANGED <<came, cSession, cRequest, approved, granted, spilt>>
    BY DEF C!CleanConsents, C!Tick, C!vars
<1>3. /\ DOMAIN consents' \subseteq DOMAIN consents
      /\ \A k \in DOMAIN consents' : consents'[k] = consents[k]
    BY DEF C!CleanConsents, C!Tick, C!vars
<1>4. cNow' \in 0 .. MaxConsentNow
    BY <1>1 DEF C!TypeOK, C!CleanConsents, C!Tick, C!vars, ConsentBounds
<1>5. ApprovalsStay
    BY <1>1, <1>2, ApprovalGiven
<1>6. CodesAreApproved'
    BY <1>1, <1>2, <1>5, CodesStay DEF ConsentInv
<1>7. ConsentsWereGiven'
    BY <1>1, <1>2, <1>3, <1>5, RowsStay DEF ConsentInv
<1>8. FlagInv'
    BY <1>2 DEF ConsentInv, FlagInv, RequestFlags, IsNew, HasOneBearer, Spent, OnTheFlag, Approvals
<1>9. \A q \in Request : RequestIsFor(q)'
    BY <1>2 DEF ConsentInv, RequestIsFor, WasApproved, Approvals
<1>10. C!TypeOK'
    BY <1>1, <1>2, <1>3, <1>4 DEF C!TypeOK
<1> QED
    BY <1>6, <1>7, <1>8, <1>9, <1>10 DEF ConsentInv

\* At first nothing was asked or approved.
LEMMA ConsentInitially ==
    ASSUME ConsentBounds, C!Init PROVE ConsentInv
<1>1. /\ cRequest = [r \in Request |-> C!NoWork] /\ C!NoWork \in C!Work
      /\ cSession = C!Empty /\ C!Empty \in C!SessionData
    BY DEF C!Init, C!NoWork, C!Work, C!SessionData, C!Empty, C!NotSet
<1>2. approved = <<>> /\ granted = <<>> /\ consents = <<>> /\ spilt = {} /\ Len(approved) = 0
    BY DEF C!Init
<1>3. C!TypeOK
    BY <1>1, <1>2 DEF C!Init, C!TypeOK, ConsentBounds
<1>4. ASSUME NEW r \in Request
      PROVE  /\ cRequest[r].at = "idle" /\ cRequest[r].flag = 0 /\ cRequest[r].approval = 0
             /\ cRequest[r].copy.granted = 0
    BY <1>1 DEF C!NoWork, C!Empty, C!NotSet
<1>5. \A r \in Request : RequestIsFor(r) /\ RequestFlags(r) /\ IsNew(r)
    BY <1>2, <1>4 DEF RequestIsFor, RequestFlags, IsNew
<1>6. cSession.granted = 0
    BY <1>1 DEF C!Empty, C!NotSet
<1>7. FlagInv
    BY <1>2, <1>5, <1>6 DEF FlagInv, Approvals
<1>8. ConsentsWereGiven /\ CodesAreApproved
    BY <1>2 DEF ConsentsWereGiven, CodesAreApproved, OneCodePerApproval, StoredConsentWasApproved
<1> QED
    BY <1>3, <1>5, <1>7, <1>8 DEF ConsentInv

LEMMA ConsentInvHolds ==
    ASSUME ConsentBounds PROVE C!Spec => []ConsentInv
<1>1. C!Init => ConsentInv
    BY ConsentInitially
<1>2. ASSUME ConsentInv, [C!Next]_(C!vars) PROVE ConsentInv'
  <2>1. CASE UNCHANGED C!vars \/ C!CleanConsents \/ C!Tick
    BY <1>2, <2>1, OthersKeepConsent
  <2>2. ASSUME NEW r \in Request,
               \/ \E p \in Params : C!Authorize(r, p)
               \/ C!ShowConsent(r) \/ C!DenyConsent(r) \/ C!ApproveConsent(r)
        PROVE  ConsentInv'
    BY <1>2, <2>2, RequestsComeKeeps
  <2>3. ASSUME NEW r \in Request, C!ApproveStored(r) \/ C!AskConsent(r) \/ C!Fail(r)
        PROVE  ConsentInv'
    BY <1>2, <2>3, LookUpKeeps
  <2>4. ASSUME NEW r \in Request, C!FindConsent(r) PROVE ConsentInv'
    BY <1>2, <2>4, FindConsentKeeps
  <2>5. ASSUME NEW r \in Request, C!SaveConsent(r) PROVE ConsentInv'
    BY <1>2, <2>5, SaveConsentKeeps
  <2>6. ASSUME NEW r \in Request, C!Approve(r) PROVE ConsentInv'
    BY <1>2, <2>6, ApproveKeeps
  <2>7. ASSUME NEW r \in Request, C!Answer(r) \/ C!Lose(r) PROVE ConsentInv'
    BY <1>2, <2>7, LeavingKeeps
  <2> QED
    BY <1>2, <2>1, <2>2, <2>3, <2>4, <2>5, <2>6, <2>7 DEF C!Next
<1> QED
    BY <1>1, <1>2, PTL DEF C!Spec

\* Types of the session, its requests, the consents and the codes, however many
\* requests of the session overlap.
THEOREM ConsentsTyped ==
    ASSUME ConsentBounds PROVE C!Spec => []C!TypeOK
<1>1. ConsentInv => C!TypeOK
    BY DEF ConsentInv
<1> QED
    BY <1>1, ConsentInvHolds, PTL

\* However many requests of the session overlap, whatever they ask for, and whichever
\* statements fail and answers are lost: an approval whose flag was not shared, and
\* did not come back with a lost answer, gives one code, and what is given on a stored
\* consent was approved in one go.
THEOREM CodesWereApproved ==
    ASSUME ConsentBounds PROVE C!Spec => []CodesAreApproved
<1>1. ConsentInv => CodesAreApproved
    BY DEF ConsentInv
<1> QED
    BY <1>1, ConsentInvHolds, PTL

-----------------------------------------------------------------------------
(* Forgotten passwords.                                                     *)

CONSTANTS
    Life,       \* how long a link is good for
    MaxResetNow, MaxLinks, MaxResets    \* bounds

VARIABLES
    pNow,       \* the clock
    links,      \* rows of password_reset_tokens
    reset,      \* what each request is doing
    resets      \* history: the passwords set

P == INSTANCE PasswordReset WITH
        MaxNow <- MaxResetNow, now <- pNow, request <- reset
INSTANCE ResetLinks WITH now <- pNow

RequestRow == [at : {"idle", "expire", "create", "password", "spend"},
               link : Nat, overlaps : BOOLEAN]
ResetRow == [link : Nat, ended : BOOLEAN, overlapped : BOOLEAN]

ResetType ==
    /\ pNow \in Nat
    /\ links \in Seq(P!LinkRow)
    /\ reset \in [Request -> RequestRow]
    /\ resets \in Seq(ResetRow)

Underway(r) == reset[r].at # "idle"

\* Two requests that are under way know of each other.
RivalsAreKnown ==
    \A r, q \in Request : r # q /\ Underway(r) /\ Underway(q) => reset[r].overlaps

\* A request that is alone finds no link that works when it makes its own.
OldLinksEnded ==
    \A r \in Request :
        reset[r].at = "create" /\ ~reset[r].overlaps => \A k \in DOMAIN links : ~Valid(k)

\* A reset that ended has spent its link for good.
LinksStaySpent ==
    \A i \in DOMAIN resets :
        /\ resets[i].link \in DOMAIN links
        /\ resets[i].ended => ~Valid(resets[i].link)

\* A request that is alone and has verified a link is the first to use it up.
LinkIsFresh(r) ==
    reset[r].at = "password" =>
        /\ reset[r].link \in DOMAIN links
        /\ ~reset[r].overlaps =>
              \A i \in DOMAIN resets : resets[i].link = reset[r].link => ~resets[i].ended

\* While a request is about to spend its link, other resets run beside it; and it
\* never forgets that it ran beside others.
ResetIsKnown(r) ==
    reset[r].at = "spend" =>
        /\ reset[r].link \in DOMAIN resets
        /\ resets[reset[r].link].overlapped => reset[r].overlaps
        /\ \A j \in DOMAIN resets : j > reset[r].link => resets[j].overlapped

ResetInv ==
    /\ ResetType /\ RivalsAreKnown /\ OldLinksEnded /\ LinksStaySpent
    /\ \A r \in Request : LinkIsFresh(r) /\ ResetIsKnown(r)
    /\ LinksAreUsedOnce

\* A link works for the instance when it works here.
LEMMA SameValidity == ASSUME NEW k PROVE P!Valid(k) <=> Valid(k)
BY DEF P!Valid, Valid

\* A request that sets out is known to those it runs beside.
LEMMA EnterNotesOthers ==
    ASSUME ResetType, NEW r \in Request, NEW at \in {"expire", "password"}, NEW link \in Nat,
           P!Enter(r, [at |-> at, link |-> link, overlaps |-> FALSE])
    PROVE  /\ reset' \in [Request -> RequestRow]
           /\ reset'[r].at = at /\ reset'[r].link = link
           /\ (\E q \in Request \ {r} : Underway(q)) => reset'[r].overlaps
           /\ \A q \in Request \ {r} :
                 /\ reset'[q].at = reset[q].at /\ reset'[q].link = reset[q].link
                 /\ reset'[q].overlaps <=> (reset[q].overlaps \/ Underway(q))
<1> DEFINE others == {q \in Request \ {r} : reset[q].at # "idle"}
           work == [at |-> at, link |-> link, overlaps |-> others # {}]
<1>1. reset' = [q \in Request |->
            IF q = r THEN work
            ELSE [reset[q] EXCEPT !.overlaps = reset[q].overlaps \/ q \in others]]
    BY DEF P!Enter
<1>2. work \in RequestRow /\ (others # {}) \in BOOLEAN
    BY DEF RequestRow
<1>3. ASSUME NEW q \in Request
      PROVE  /\ reset[q] \in RequestRow
             /\ (reset[q].overlaps \/ q \in others) \in BOOLEAN
    BY DEF ResetType, RequestRow
<1>4. ASSUME NEW q \in Request \ {r}
      PROVE  /\ reset'[q] = [at |-> reset[q].at, link |-> reset[q].link,
                             overlaps |-> (reset[q].overlaps \/ q \in others)]
             /\ reset'[q] \in RequestRow
  <2>1. reset'[q] = [reset[q] EXCEPT !.overlaps = reset[q].overlaps \/ q \in others]
    BY <1>1
  <2> QED
    BY <2>1, <1>3 DEF RequestRow
<1>5. reset'[r] = work
    BY <1>1
<1>6. reset' \in [Request -> RequestRow]
  <2>1. \A q \in Request : reset'[q] \in RequestRow
    BY <1>2, <1>4, <1>5
  <2> HIDE DEF work, others
  <2> QED
    BY <1>1, <2>1
<1>7. reset'[r].at = at /\ reset'[r].link = link /\ reset'[r].overlaps = (others # {})
  <2> HIDE DEF others
  <2> QED
    BY <1>5
<1>8. (\E q \in Request \ {r} : Underway(q)) => others # {}
    BY DEF Underway
<1>9. ASSUME NEW q \in Request \ {r}
      PROVE  /\ reset'[q].at = reset[q].at /\ reset'[q].link = reset[q].link
             /\ reset'[q].overlaps <=> (reset[q].overlaps \/ Underway(q))
  <2>1. q \in others <=> Underway(q)
    BY DEF Underway
  <2>2. PICK b \in BOOLEAN : b = (reset[q].overlaps \/ q \in others)
    BY <1>3
  <2>3. reset'[q] = [at |-> reset[q].at, link |-> reset[q].link, overlaps |-> b]
    BY <1>4, <2>2
  <2>4. /\ reset'[q].at = reset[q].at /\ reset'[q].link = reset[q].link
        /\ reset'[q].overlaps = b
    BY <2>3
  <2> HIDE DEF others
  <2> QED
    BY <2>1, <2>2, <2>4
<1> QED
    BY <1>6, <1>7, <1>8, <1>9

\* One that goes on stays what it is but for its place.
LEMMA GotoMovesOne ==
    ASSUME ResetType, NEW r \in Request,
           NEW place \in {"create"}, P!Goto(r, place)
    PROVE  /\ reset' \in [Request -> RequestRow]
           /\ reset'[r].at = place /\ reset'[r].link = reset[r].link
           /\ reset'[r].overlaps = reset[r].overlaps
           /\ \A q \in Request \ {r} : reset'[q] = reset[q]
BY DEF ResetType, RequestRow, P!Goto

\* One that ends leaves the others as they are.
LEMMA FinishFreesOne ==
    ASSUME ResetType, NEW r \in Request, P!Finish(r)
    PROVE  /\ reset' \in [Request -> RequestRow]
           /\ reset'[r].at = "idle"
           /\ \A q \in Request \ {r} : reset'[q] = reset[q]
BY DEF ResetType, RequestRow, P!Finish, P!Idle

\* After expire no link works.
LEMMA ExpireEndsAll ==
    ASSUME ResetType, links' = P!Expired, pNow' = pNow
    PROVE  /\ links' \in Seq(P!LinkRow) /\ DOMAIN links' = DOMAIN links
           /\ \A k \in DOMAIN links : /\ ~Valid(k)'
                                      /\ links'[k].overlapped = links[k].overlapped
<1>1. links' = [k \in DOMAIN links |-> links'[k]] /\ DOMAIN links' = DOMAIN links
    BY DEF P!Expired
<1>2. ASSUME NEW k \in DOMAIN links
      PROVE  /\ links'[k] \in P!LinkRow /\ ~Valid(k)'
             /\ links'[k].overlapped = links[k].overlapped
  <2>1. links[k] \in P!LinkRow /\ pNow \in Nat
    BY DEF ResetType
  <2>2. links'[k] = IF links[k].expiresAt >= pNow THEN [links[k] EXCEPT !.expiresAt = pNow]
                    ELSE links[k]
    BY DEF P!Expired
  <2> QED
    BY <2>1, <2>2 DEF P!LinkRow, Valid
<1>3. DOMAIN links = 1 .. Len(links) /\ Len(links) \in Nat
    BY DEF ResetType
<1>4. links' \in Seq(P!LinkRow)
    BY <1>1, <1>2, <1>3
<1> QED
    BY <1>1, <1>2, <1>4

\* A request that sets out, for a link that works if for any, changes nothing else.
LEMMA EnterKeepsResets ==
    ASSUME ResetInv, NEW r \in Request, ~Underway(r),
           NEW at \in {"expire", "password"}, NEW link \in Nat,
           P!Enter(r, [at |-> at, link |-> link, overlaps |-> FALSE]),
           at = "password" => link \in DOMAIN links /\ Valid(link),
           UNCHANGED <<pNow, links, resets>>
    PROVE  ResetInv'
<1>1. /\ reset' \in [Request -> RequestRow]
      /\ reset'[r].at = at /\ reset'[r].link = link
      /\ (\E q \in Request \ {r} : Underway(q)) => reset'[r].overlaps
      /\ \A q \in Request \ {r} :
            /\ reset'[q].at = reset[q].at /\ reset'[q].link = reset[q].link
            /\ reset'[q].overlaps <=> (reset[q].overlaps \/ Underway(q))
    BY EnterNotesOthers DEF ResetInv
<1>2. ResetType'
    BY <1>1 DEF ResetInv, ResetType
<1>3. RivalsAreKnown'
    BY <1>1 DEF ResetInv, RivalsAreKnown, Underway
<1>4. OldLinksEnded'
    BY <1>1 DEF ResetInv, OldLinksEnded, Valid
<1>5. LinksStaySpent' /\ LinksAreUsedOnce'
    BY DEF ResetInv, LinksStaySpent, LinksAreUsedOnce, OneLinkAtATime, LinkIsSpent, Valid
<1>6. ASSUME NEW q \in Request PROVE LinkIsFresh(q)' /\ ResetIsKnown(q)'
  <2>1. CASE q = r
    <3>1. at = "password" => \A i \in DOMAIN resets : resets[i].link = link => ~resets[i].ended
      BY DEF ResetInv, LinksStaySpent
    <3> QED
      BY <2>1, <3>1, <1>1 DEF LinkIsFresh, ResetIsKnown
  <2>2. CASE q # r
    BY <2>2, <1>1 DEF ResetInv, LinkIsFresh, ResetIsKnown
  <2> QED
    BY <2>1, <2>2
<1> QED
    BY <1>2, <1>3, <1>4, <1>5, <1>6 DEF ResetInv

\* After the expiry of all links what holds of links that work holds of none.
LEMMA ExpireOldKeepsResets ==
    ASSUME ResetInv, NEW r \in Request, P!ExpireOld(r)
    PROVE  ResetInv'
<1>1. /\ reset[r].at = "expire" /\ links' = P!Expired /\ pNow' = pNow /\ resets' = resets
      /\ P!Goto(r, "create")
    BY DEF P!ExpireOld, P!At
<1>2. /\ links' \in Seq(P!LinkRow) /\ DOMAIN links' = DOMAIN links
      /\ \A k \in DOMAIN links : ~Valid(k)' /\ links'[k].overlapped = links[k].overlapped
    BY <1>1, ExpireEndsAll DEF ResetInv
<1>3. /\ reset' \in [Request -> RequestRow]
      /\ reset'[r].at = "create" /\ reset'[r].link = reset[r].link
      /\ reset'[r].overlaps = reset[r].overlaps
      /\ \A q \in Request \ {r} : reset'[q] = reset[q]
    BY <1>1, GotoMovesOne DEF ResetInv
<1>4. ResetType'
    BY <1>1, <1>2, <1>3 DEF ResetInv, ResetType
<1>5. RivalsAreKnown'
    BY <1>1, <1>3 DEF ResetInv, RivalsAreKnown, Underway
<1>6. OldLinksEnded'
    BY <1>2 DEF OldLinksEnded
<1>7. LinksStaySpent'
    BY <1>1, <1>2 DEF ResetInv, LinksStaySpent
<1>8. LinksAreUsedOnce'
    BY <1>1, <1>2 DEF ResetInv, LinksAreUsedOnce, OneLinkAtATime, LinkIsSpent
<1>9. ASSUME NEW q \in Request PROVE LinkIsFresh(q)' /\ ResetIsKnown(q)'
    BY <1>1, <1>2, <1>3 DEF ResetInv, LinkIsFresh, ResetIsKnown
<1> QED
    BY <1>4, <1>5, <1>6, <1>7, <1>8, <1>9 DEF ResetInv

\* A new link works beside an older one only if its request knows of another.
LEMMA CreateLinkKeepsResets ==
    ASSUME Life \in Nat, ResetInv, NEW r \in Request, P!CreateLink(r)
    PROVE  ResetInv'
<1> DEFINE new == Len(links) + 1
           link == [expiresAt |-> pNow + Life, overlapped |-> reset[r].overlaps]
<1>1. /\ reset[r].at = "create" /\ links' = Append(links, link) /\ P!Finish(r)
      /\ pNow' = pNow /\ resets' = resets
    BY DEF P!CreateLink, P!At
<1>2. link \in P!LinkRow /\ links \in Seq(P!LinkRow)
    BY DEF ResetInv, ResetType, RequestRow, P!LinkRow
<1>3. /\ links' \in Seq(P!LinkRow) /\ DOMAIN links' = DOMAIN links \cup {new}
      /\ \A k \in DOMAIN links : links'[k] = links[k] /\ k < new
      /\ links'[new] = link /\ new \notin DOMAIN links
    BY <1>1, <1>2
<1>4. \A k \in DOMAIN links : Valid(k)' <=> Valid(k)
    BY <1>1, <1>3 DEF Valid
<1>5. /\ reset' \in [Request -> RequestRow] /\ reset'[r].at = "idle"
      /\ \A q \in Request \ {r} : reset'[q] = reset[q]
    BY <1>1, FinishFreesOne DEF ResetInv
<1>6. ~reset[r].overlaps => \A k \in DOMAIN links : ~Valid(k)
    BY <1>1 DEF ResetInv, OldLinksEnded
<1>7. links'[new].overlapped = reset[r].overlaps
    BY <1>3
<1> HIDE DEF new, link
<1>8. ResetType'
    BY <1>1, <1>3, <1>5 DEF ResetInv, ResetType
<1>9. RivalsAreKnown'
    BY <1>5 DEF ResetInv, RivalsAreKnown, Underway
<1>10. OldLinksEnded'
  <2> SUFFICES ASSUME NEW q \in Request, reset'[q].at = "create", ~reset'[q].overlaps
               PROVE  FALSE
    BY DEF OldLinksEnded
  <2>1. q # r /\ reset[q].at = "create" /\ ~reset[q].overlaps
    BY <1>5
  <2> QED
    BY <1>1, <2>1 DEF ResetInv, RivalsAreKnown, Underway
<1>11. LinksStaySpent'
    BY <1>1, <1>3, <1>4 DEF ResetInv, LinksStaySpent
<1>12. OneLinkAtATime'
  <2> SUFFICES ASSUME NEW k \in DOMAIN links', NEW l \in DOMAIN links', k < l,
                      Valid(k)', Valid(l)'
               PROVE  links'[l].overlapped
    BY DEF OneLinkAtATime
  <2>1. k \in DOMAIN links
    BY <1>3, <1>2 DEF new
  <2>2. CASE l = new
    BY <2>1, <2>2, <1>4, <1>6, <1>7
  <2>3. CASE l \in DOMAIN links
    BY <2>1, <2>3, <1>3, <1>4 DEF ResetInv, LinksAreUsedOnce, OneLinkAtATime
  <2> QED
    BY <2>2, <2>3, <1>3
<1>13. LinkIsSpent'
    BY <1>1 DEF ResetInv, LinksAreUsedOnce, LinkIsSpent
<1>14. ASSUME NEW q \in Request PROVE LinkIsFresh(q)' /\ ResetIsKnown(q)'
    BY <1>1, <1>3, <1>5 DEF ResetInv, LinkIsFresh, ResetIsKnown
<1> QED
    BY <1>8, <1>9, <1>10, <1>11, <1>12, <1>13, <1>14 DEF ResetInv, LinksAreUsedOnce

\* A password that is set with a used link is set beside another request.
LEMMA SetPasswordKeepsResets ==
    ASSUME ResetInv, NEW r \in Request, P!SetPassword(r)
    PROVE  ResetInv'
<1> DEFINE new == Len(resets) + 1
           row == [link |-> reset[r].link, ended |-> FALSE, overlapped |-> reset[r].overlaps]
<1>1. /\ reset[r].at = "password" /\ resets' = Append(resets, row)
      /\ reset' = [reset EXCEPT ![r].at = "spend", ![r].link = new]
      /\ pNow' = pNow /\ links' = links
    BY DEF P!SetPassword, P!At
<1>2. row \in ResetRow /\ resets \in Seq(ResetRow) /\ new \in Nat
    BY DEF ResetInv, ResetType, RequestRow, ResetRow
<1>3. /\ resets' \in Seq(ResetRow) /\ DOMAIN resets' = DOMAIN resets \cup {new}
      /\ \A i \in DOMAIN resets : resets'[i] = resets[i] /\ i < new /\ i \in Nat
      /\ resets'[new] = row /\ new \notin DOMAIN resets
    BY <1>1, <1>2
<1>4. /\ reset' \in [Request -> RequestRow]
      /\ reset'[r].at = "spend" /\ reset'[r].link = new
      /\ reset'[r].overlaps = reset[r].overlaps
      /\ \A q \in Request \ {r} : reset'[q] = reset[q]
    BY <1>1, <1>2 DEF ResetInv, ResetType, RequestRow
<1>5. /\ reset[r].link \in DOMAIN links
      /\ ~reset[r].overlaps =>
            \A i \in DOMAIN resets : resets[i].link = reset[r].link => ~resets[i].ended
    BY <1>1 DEF ResetInv, LinkIsFresh
<1>6. /\ resets'[new].link = reset[r].link /\ resets'[new].ended = FALSE
      /\ resets'[new].overlapped = reset[r].overlaps
    BY <1>3
<1> HIDE DEF new, row
<1>7. ResetType'
    BY <1>1, <1>3, <1>4 DEF ResetInv, ResetType
<1>8. RivalsAreKnown'
    BY <1>1, <1>4 DEF ResetInv, RivalsAreKnown, Underway
<1>9. OldLinksEnded'
    BY <1>1, <1>4 DEF ResetInv, OldLinksEnded, Valid
<1>10. LinksStaySpent'
    BY <1>1, <1>3, <1>5, <1>6 DEF ResetInv, LinksStaySpent, Valid
<1>11. OneLinkAtATime'
    BY <1>1 DEF ResetInv, LinksAreUsedOnce, OneLinkAtATime, Valid
<1>12. LinkIsSpent'
  <2> SUFFICES ASSUME NEW i \in DOMAIN resets', NEW j \in DOMAIN resets', i < j,
                      resets'[i].link = resets'[j].link, resets'[i].ended
               PROVE  resets'[j].overlapped
    BY DEF LinkIsSpent
  <2>1. i \in DOMAIN resets
    BY <1>3, <1>6
  <2>2. CASE j = new
    BY <2>1, <2>2, <1>3, <1>5, <1>6
  <2>3. CASE j \in DOMAIN resets
    BY <2>1, <2>3, <1>3 DEF ResetInv, LinksAreUsedOnce, LinkIsSpent
  <2> QED
    BY <2>2, <2>3, <1>3
<1>13. ASSUME NEW q \in Request PROVE LinkIsFresh(q)' /\ ResetIsKnown(q)'
  <2>1. CASE q = r
    <3>1. \A j \in DOMAIN resets' : ~(j > new)
      BY <1>2, <1>3
    <3> QED
      BY <2>1, <3>1, <1>3, <1>4, <1>6 DEF LinkIsFresh, ResetIsKnown
  <2>2. CASE q # r
    <3>1. reset'[q] = reset[q]
      BY <2>2, <1>4
    <3>2. Underway(q) => reset[r].overlaps /\ reset[q].overlaps
      BY <1>1, <2>2 DEF ResetInv, RivalsAreKnown, Underway
    <3>3. LinkIsFresh(q)'
      BY <1>1, <3>1, <3>2 DEF ResetInv, LinkIsFresh, Underway
    <3>4. ResetIsKnown(q)'
      BY <1>3, <1>6, <3>1, <3>2 DEF ResetInv, ResetIsKnown, Underway
    <3> QED
      BY <3>3, <3>4
  <2> QED
    BY <2>1, <2>2
<1> QED
    BY <1>7, <1>8, <1>9, <1>10, <1>11, <1>12, <1>13 DEF ResetInv, LinksAreUsedOnce

\* A reset that ends has spent its link, and no other has come past it unseen.
LEMMA SpendLinkKeepsResets ==
    ASSUME ResetInv, NEW r \in Request, P!SpendLink(r)
    PROVE  ResetInv'
<1> DEFINE n == reset[r].link
<1>1. /\ reset[r].at = "spend" /\ links' = P!Expired /\ P!Finish(r) /\ pNow' = pNow
      /\ resets' = [resets EXCEPT ![n].ended = TRUE, ![n].overlapped = reset[r].overlaps]
    BY DEF P!SpendLink, P!At
<1>2. /\ links' \in Seq(P!LinkRow) /\ DOMAIN links' = DOMAIN links
      /\ \A k \in DOMAIN links : ~Valid(k)' /\ links'[k].overlapped = links[k].overlapped
    BY <1>1, ExpireEndsAll DEF ResetInv
<1>3. /\ reset' \in [Request -> RequestRow] /\ reset'[r].at = "idle"
      /\ \A q \in Request \ {r} : reset'[q] = reset[q]
    BY <1>1, FinishFreesOne DEF ResetInv
<1>4. /\ n \in DOMAIN resets
      /\ resets[n].overlapped => reset[r].overlaps
      /\ \A j \in DOMAIN resets : j > n => resets[j].overlapped
    BY <1>1 DEF ResetInv, ResetIsKnown
<1>5. reset[r].overlaps \in BOOLEAN /\ resets \in Seq(ResetRow)
    BY DEF ResetInv, ResetType, RequestRow
<1>6. /\ resets' \in Seq(ResetRow) /\ DOMAIN resets' = DOMAIN resets
      /\ resets'[n].link = resets[n].link /\ resets'[n].overlapped = reset[r].overlaps
      /\ \A i \in DOMAIN resets \ {n} : resets'[i] = resets[i]
  <2> DEFINE row == [resets[n] EXCEPT !.ended = TRUE, !.overlapped = reset[r].overlaps]
  <2>1. resets' = [resets EXCEPT ![n] = row]
    BY <1>1, <1>4, <1>5
  <2>2. resets[n] \in ResetRow
    BY <1>4, <1>5
  <2>3. /\ row \in ResetRow /\ row.link = resets[n].link
        /\ row.overlapped = reset[r].overlaps
    BY <2>2, <1>5 DEF ResetRow
  <2> HIDE DEF row
  <2> QED
    BY <2>1, <2>3, <1>4, <1>5
<1> HIDE DEF n
<1>7. ResetType'
    BY <1>1, <1>2, <1>3, <1>6 DEF ResetInv, ResetType
<1>8. RivalsAreKnown'
    BY <1>3 DEF ResetInv, RivalsAreKnown, Underway
<1>9. OldLinksEnded'
    BY <1>2 DEF OldLinksEnded
<1>10. LinksStaySpent'
    BY <1>2, <1>6 DEF ResetInv, LinksStaySpent
<1>11. OneLinkAtATime'
    BY <1>2 DEF OneLinkAtATime
<1>12. LinkIsSpent'
  <2> SUFFICES ASSUME NEW i \in DOMAIN resets, NEW j \in DOMAIN resets, i < j,
                      resets'[i].link = resets'[j].link, resets'[i].ended
               PROVE  resets'[j].overlapped
    BY <1>6 DEF LinkIsSpent
  <2>0. i \in Nat /\ j \in Nat
    BY <1>5
  <2>1. resets[i].link = resets[j].link
    BY <1>6
  <2>2. CASE i = n
    BY <2>0, <2>2, <1>4, <1>6
  <2>3. CASE i # n
    <3>1. resets[j].overlapped
      BY <2>1, <2>3, <1>6 DEF ResetInv, LinksAreUsedOnce, LinkIsSpent
    <3> QED
      BY <3>1, <1>4, <1>6
  <2> QED
    BY <2>2, <2>3
<1>13. ASSUME NEW q \in Request PROVE LinkIsFresh(q)' /\ ResetIsKnown(q)'
  <2>1. CASE q = r
    BY <2>1, <1>3 DEF LinkIsFresh, ResetIsKnown
  <2>2. CASE q # r
    <3>1. reset'[q] = reset[q]
      BY <2>2, <1>3
    <3>2. Underway(q) => reset[r].overlaps /\ reset[q].overlaps
      BY <1>1, <2>2 DEF ResetInv, RivalsAreKnown, Underway
    <3>3. LinkIsFresh(q)'
      BY <1>2, <3>1, <3>2 DEF ResetInv, LinkIsFresh, Underway
    <3>4. ResetIsKnown(q)'
      BY <1>4, <1>6, <3>1, <3>2 DEF ResetInv, ResetIsKnown, Underway
    <3> QED
      BY <3>3, <3>4
  <2> QED
    BY <2>1, <2>2
<1> QED
    BY <1>7, <1>8, <1>9, <1>10, <1>11, <1>12, <1>13 DEF ResetInv, LinksAreUsedOnce

\* A request that ends early leaves what it wrote, and nobody relies on it.
LEMMA FailKeepsResets ==
    ASSUME ResetInv, NEW r \in Request, P!Finish(r), UNCHANGED <<pNow, links, resets>>
    PROVE  ResetInv'
<1>1. /\ reset' \in [Request -> RequestRow] /\ reset'[r].at = "idle"
      /\ \A q \in Request \ {r} : reset'[q] = reset[q]
    BY FinishFreesOne DEF ResetInv
<1>2. ResetType'
    BY <1>1 DEF ResetInv, ResetType
<1>3. RivalsAreKnown' /\ OldLinksEnded'
    BY <1>1 DEF ResetInv, RivalsAreKnown, OldLinksEnded, Underway, Valid
<1>4. LinksStaySpent' /\ LinksAreUsedOnce'
    BY DEF ResetInv, LinksStaySpent, LinksAreUsedOnce, OneLinkAtATime, LinkIsSpent, Valid
<1>5. ASSUME NEW q \in Request PROVE LinkIsFresh(q)' /\ ResetIsKnown(q)'
    BY <1>1 DEF ResetInv, LinkIsFresh, ResetIsKnown
<1> QED
    BY <1>2, <1>3, <1>4, <1>5 DEF ResetInv

\* As time passes links end, and none begins to work again.
LEMMA TickKeepsResets ==
    ASSUME ResetInv, pNow' = pNow + 1, UNCHANGED <<links, reset, resets>>
    PROVE  ResetInv'
<1>1. ASSUME NEW k \in DOMAIN links PROVE Valid(k)' => Valid(k)
  <2>1. links[k] \in P!LinkRow /\ pNow \in Nat
    BY DEF ResetInv, ResetType
  <2>2. links[k].expiresAt \in Nat
    BY <2>1 DEF P!LinkRow
  <2> QED
    BY <2>1, <2>2 DEF Valid
<1>2. ResetType'
    BY DEF ResetInv, ResetType
<1>3. RivalsAreKnown'
    BY DEF ResetInv, RivalsAreKnown, Underway
<1>4. OldLinksEnded' /\ LinksStaySpent' /\ LinksAreUsedOnce'
    BY <1>1 DEF ResetInv, OldLinksEnded, LinksStaySpent, LinksAreUsedOnce, OneLinkAtATime,
                LinkIsSpent
<1>5. ASSUME NEW q \in Request PROVE LinkIsFresh(q)' /\ ResetIsKnown(q)'
    BY DEF ResetInv, LinkIsFresh, ResetIsKnown
<1> QED
    BY <1>2, <1>3, <1>4, <1>5 DEF ResetInv

\* The invariant of the links and of the requests for them holds in every state.
LEMMA ResetInvHolds ==
    ASSUME Life \in Nat
    PROVE  P!Spec => []ResetInv
<1>1. P!Init => ResetInv
  <2> SUFFICES ASSUME P!Init PROVE ResetInv
    OBVIOUS
  <2>1. /\ pNow = 0 /\ links = <<>> /\ resets = <<>>
        /\ reset = [r \in Request |-> [at |-> "idle", link |-> 0, overlaps |-> FALSE]]
    BY DEF P!Init, P!Idle
  <2>2. DOMAIN links = {} /\ DOMAIN resets = {}
    BY <2>1
  <2>3. ResetType
    BY <2>1 DEF ResetType, RequestRow
  <2>4. /\ RivalsAreKnown /\ OldLinksEnded /\ LinksStaySpent /\ LinksAreUsedOnce
        /\ \A r \in Request : LinkIsFresh(r) /\ ResetIsKnown(r)
    BY <2>1, <2>2 DEF RivalsAreKnown, OldLinksEnded, LinksStaySpent, LinksAreUsedOnce,
       OneLinkAtATime, LinkIsSpent, LinkIsFresh, ResetIsKnown, Underway
  <2> QED
    BY <2>3, <2>4 DEF ResetInv
<1>2. ResetInv /\ [P!Next]_P!vars => ResetInv'
  <2> SUFFICES ASSUME ResetInv, [P!Next]_P!vars PROVE ResetInv'
    OBVIOUS
  <2>1. ASSUME NEW r \in Request, P!Send(r) PROVE ResetInv'
    <3>1. PICK work : work = [P!Idle EXCEPT !.at = "expire"] /\ P!Enter(r, work)
      BY <2>1 DEF P!Send
    <3>2. work = [at |-> "expire", link |-> 0, overlaps |-> FALSE]
      BY <3>1 DEF P!Idle
    <3> QED
      <4>1. ~Underway(r) /\ UNCHANGED <<pNow, links, resets>>
        BY <2>1 DEF P!Send, P!At, Underway
      <4>2. P!Enter(r, [at |-> "expire", link |-> 0, overlaps |-> FALSE])
        BY <3>1, <3>2
      <4> QED
        BY <4>1, <4>2, EnterKeepsResets
  <2>2. ASSUME NEW r \in Request, P!ExpireOld(r) PROVE ResetInv'
    BY <2>2, ExpireOldKeepsResets
  <2>3. ASSUME NEW r \in Request, P!CreateLink(r) PROVE ResetInv'
    BY <2>3, CreateLinkKeepsResets
  <2>4. ASSUME NEW r \in Request, P!Verify(r) PROVE ResetInv'
    <3>1. PICK k \in DOMAIN links :
            /\ P!Valid(k) /\ ~Underway(r)
            /\ P!Enter(r, [P!Idle EXCEPT !.at = "password", !.link = k])
            /\ UNCHANGED <<pNow, links, resets>>
      BY <2>4 DEF P!Verify, P!At, Underway
    <3>2. k \in Nat
      BY DEF ResetInv, ResetType
    <3>3. PICK work : work = [P!Idle EXCEPT !.at = "password", !.link = k] /\ P!Enter(r, work)
      BY <3>1
    <3>4. work = [at |-> "password", link |-> k, overlaps |-> FALSE]
      BY <3>3 DEF P!Idle
    <3> QED
      <4>1. P!Enter(r, [at |-> "password", link |-> k, overlaps |-> FALSE])
        BY <3>3, <3>4
      <4>2. Valid(k)
        BY <3>1, SameValidity
      <4> QED
        BY <3>1, <3>2, <4>1, <4>2, EnterKeepsResets
  <2>5. ASSUME NEW r \in Request, P!SetPassword(r) PROVE ResetInv'
    BY <2>5, SetPasswordKeepsResets
  <2>6. ASSUME NEW r \in Request, P!SpendLink(r) PROVE ResetInv'
    BY <2>6, SpendLinkKeepsResets
  <2>7. ASSUME NEW r \in Request, P!Fail(r) PROVE ResetInv'
    BY <2>7, FailKeepsResets DEF P!Fail
  <2>8. CASE P!Tick
    BY <2>8, TickKeepsResets DEF P!Tick
  <2>9. CASE UNCHANGED P!vars
    BY <2>9 DEF P!vars, ResetInv, ResetType, RivalsAreKnown, OldLinksEnded, LinksStaySpent,
       LinksAreUsedOnce, OneLinkAtATime, LinkIsSpent, LinkIsFresh, ResetIsKnown, Underway, Valid
  <2> QED
    BY <2>1, <2>2, <2>3, <2>4, <2>5, <2>6, <2>7, <2>8, <2>9 DEF P!Next
<1> QED
    BY <1>1, <1>2, PTL DEF P!Spec

\* For any requests and bounds: two links work at the same time, or one link sets
\* two passwords, only where requests ran beside each other or one ended early.
THEOREM LinksWereUsedOnce ==
    ASSUME Life \in Nat
    PROVE  P!Spec => []LinksAreUsedOnce
<1>1. ResetInv => LinksAreUsedOnce
    BY DEF ResetInv
<1>2. P!Spec => []ResetInv
    BY ResetInvHolds
<1> QED
    BY <1>1, <1>2, PTL

\* The clock and the two tables stay within their bounds.
ResetBounds == pNow <= MaxResetNow /\ Len(links) <= MaxLinks /\ Len(resets) <= MaxResets

\* Forgotten passwords are well typed: a request that is about to set a password
\* or to spend a link names a link, or a reset, that there is.
THEOREM LinksTyped ==
    ASSUME Life \in Nat, MaxResetNow \in Nat, MaxLinks \in Nat, MaxResets \in Nat
    PROVE  P!Spec => []P!TypeOK
<1>1. P!Init => ResetBounds
    BY DEF P!Init, ResetBounds
<1>2. ResetInv /\ ResetBounds /\ [P!Next]_(P!vars) => ResetBounds'
  <2> SUFFICES ASSUME ResetInv, ResetBounds, [P!Next]_(P!vars) PROVE ResetBounds'
    OBVIOUS
  <2>1. ResetType
    BY DEF ResetInv
  <2>2. Len(P!Expired) = Len(links)
    <3>1. DOMAIN P!Expired = 1 .. Len(links) /\ Len(links) \in Nat
      BY <2>1 DEF P!Expired, ResetType
    <3> QED
      BY <3>1
  <2>3. ASSUME NEW r \in Request, P!ExpireOld(r) PROVE ResetBounds'
    BY <2>2, <2>3 DEF P!ExpireOld, ResetBounds
  <2>4. ASSUME NEW r \in Request, P!CreateLink(r) PROVE ResetBounds'
    <3>1. PICK row : links' = Append(links, row) /\ Len(links) < MaxLinks
                     /\ UNCHANGED <<pNow, resets>>
      BY <2>4 DEF P!CreateLink
    <3>2. Len(links') = Len(links) + 1 /\ Len(links) \in Nat
      BY <2>1, <3>1 DEF ResetType
    <3> QED
      BY <3>1, <3>2 DEF ResetBounds
  <2>5. ASSUME NEW r \in Request, P!SetPassword(r) PROVE ResetBounds'
    <3>1. PICK row : resets' = Append(resets, row) /\ Len(resets) < MaxResets
                     /\ UNCHANGED <<pNow, links>>
      BY <2>5 DEF P!SetPassword
    <3>2. Len(resets') = Len(resets) + 1 /\ Len(resets) \in Nat
      BY <2>1, <3>1 DEF ResetType
    <3> QED
      BY <3>1, <3>2 DEF ResetBounds
  <2>6. ASSUME NEW r \in Request, P!SpendLink(r) PROVE ResetBounds'
    <3>1. PICK ended, overlapped : resets' = [resets EXCEPT ![reset[r].link].ended = ended,
                                                ![reset[r].link].overlapped = overlapped]
      BY <2>6 DEF P!SpendLink
    <3>2. Len(resets') = Len(resets)
      BY <2>1, <3>1 DEF ResetType
    <3> QED
      BY <2>2, <2>6, <3>2 DEF P!SpendLink, ResetBounds
  <2>7. ASSUME NEW r \in Request, P!Send(r) \/ P!Verify(r) \/ P!Fail(r) PROVE ResetBounds'
    BY <2>7 DEF P!Send, P!Verify, P!Fail, ResetBounds
  <2>8. CASE P!Tick
    BY <2>1, <2>8 DEF P!Tick, ResetType, ResetBounds
  <2>9. CASE UNCHANGED P!vars
    BY <2>9 DEF P!vars, ResetBounds
  <2> QED
    BY <2>3, <2>4, <2>5, <2>6, <2>7, <2>8, <2>9 DEF P!Next
<1>3. ResetInv /\ ResetBounds => P!TypeOK
    BY DEF ResetInv, ResetType, RequestRow, LinkIsFresh, ResetIsKnown, ResetBounds, P!TypeOK
<1>4. P!Spec => []ResetInv
    BY ResetInvHolds
<1> QED
    BY <1>1, <1>2, <1>3, <1>4, PTL DEF P!Spec
=============================================================================
