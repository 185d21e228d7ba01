------------------------------ MODULE Accounts ------------------------------
(***************************************************************************)
(* Authentication: sign-up, login by password or by Google, and the check  *)
(* of the bearer token that the requests about users and tenants, of the   *)
(* workspace, of connections and of scaffolding pass first.  The v1 routes *)
(* that resolve, mutate, keep patterns and show the metering have no user. *)
(* Each read of the database is a step, so two requests interleave between *)
(* a look and the write that relies on it.  A refused request leaves no    *)
(* trace and is not a step.                                                *)
(***************************************************************************)
EXTENDS Naturals, Sequences, FiniteSets

CONSTANTS
  Clients,    \* coroutines that may be under way at once
  Boxes,      \* mailboxes, whatever the case an address is written in
  Passwords,
  Google,     \* ID tokens: the subject, its address, is the address verified
  Names,      \* what a tenant's slug is made from
  Slugs,
  SlugLimit,  \* candidates _unique_slug tries (1000)
  Candidates, \* which they are for a name, in their order: base, base-2, ...
  MaxUsers, MaxCalls, MaxEdits,  \* bounds: accounts, requests, outside edits
  None        \* null

Address == [box : Boxes, mixed : BOOLEAN]  \* mixed: not all in lower case
Subjects == {g.subject : g \in Google}
Roles == {"owner", "admin", "member", "viewer"}
Secrets == Passwords \union Subjects

ASSUME AccountsAssumption ==
  /\ MaxUsers \in Nat /\ MaxCalls \in Nat /\ MaxEdits \in Nat /\ SlugLimit \in Nat \ {0}
  /\ \A g \in Google : g.email \in Address /\ g.verified \in BOOLEAN
  /\ Passwords \intersect Subjects = {} /\ None \notin Secrets \union Roles \union Nat

ASSUME CandidatesAssumption == Candidates \in [Names -> [1 .. SlugLimit -> Slugs]]

VARIABLES
  users,       \* auth_users, numbered in the order they were inserted
  slugs,       \* auth_tenants: the slug of the tenant made for each user
  members,     \* auth_tenant_users
  identities,  \* auth_oauth_identities: the user each subject is linked to
  tokens,      \* claims of the bearer tokens handed out, and for which secret
  calls,       \* what each client's request is doing and holds in its locals
  made, edits, \* how many requests were made, and edits from outside
  contested    \* history: mailboxes two requests found free at once

tableVars == <<users, slugs, members, identities>>
vars == <<tableVars, tokens, calls, made, edits, contested>>

User == [email : Address, password : Passwords \union {None}, active : BOOLEAN]
Try == [base : Names, n : 1 .. SlugLimit]
Ids == 1 .. MaxUsers
Membership == [user : Ids, tenant : Ids, role : Roles]
Token == [user : Ids, tenant : Ids, role : Roles, box : Boxes, secret : Secrets]
Access == {"any", "members", "admins"}  \* routes by who may use them

Idle == [pc |-> "idle"]
(* The address and the secret are free to use: a slug is looked for.       *)
Creating(pc, email, secret, base, n) ==
  [pc |-> pc, email |-> email, secret |-> secret, try |-> [base |-> base, n |-> n]]
(* The user of the request is known: by which secret, and for which box.   *)
Known(pc, u, box, secret) == [pc |-> pc, user |-> u, box |-> box, secret |-> secret]
Guarded(pc, token, route, role, held) ==
  [pc |-> pc, token |-> token, route |-> route, role |-> role, held |-> held]

Init ==
  /\ users = <<>> /\ slugs = <<>> /\ members = {}
  /\ identities = [s \in Subjects |-> None]
  /\ tokens = {} /\ calls = [c \in Clients |-> Idle]
  /\ made = 0 /\ edits = 0 /\ contested = {}

Goto(c, call) == calls' = [calls EXCEPT ![c] = call] /\ UNCHANGED made
Return(c) == Goto(c, Idle)
Begin(c, call) ==
  /\ calls[c] = Idle /\ made < MaxCalls
  /\ made' = made + 1 /\ calls' = [calls EXCEPT ![c] = call]

(* get_user_by_email compares in lower case; .first() takes any that match.*)
UsersByEmail_Exact(email) ==  \* variant: the addresses compared as they are
  {u \in DOMAIN users : users[u].email = email}
UsersByEmail(email) == {u \in DOMAIN users : users[u].email.box = email.box}

FoundFree(c, email) ==
  contested' = IF \E d \in Clients \ {c} :
                    calls[d].pc \in {"slug", "create"} /\ calls[d].email.box = email.box
               THEN contested \union {email.box} ELSE contested

(* POST /signup lower-cases the address, and refuses one that has a user.  *)
Signup(c) ==
  \E box \in Boxes, password \in Passwords, name \in Names :
    LET email == [box |-> box, mixed |-> FALSE] IN
    /\ UsersByEmail(email) = {}
    /\ Begin(c, Creating("slug", email, password, name, 1))
    /\ FoundFree(c, email)
    /\ UNCHANGED <<tableVars, tokens, edits>>

(* POST /login: the address, then the password against that of the user;   *)
(* a user who came from Google has none.                                   *)
Login(c) ==
  \E box \in Boxes, password \in Passwords :
    \E u \in UsersByEmail([box |-> box, mixed |-> FALSE]) :
      /\ users[u].password = password
      /\ Begin(c, Known("memberships", u, box, password))
      /\ UNCHANGED <<tableVars, tokens, edits, contested>>

(* POST /google: the token's claims, then the identity of its subject.     *)
AcceptedToken(g) == g.verified
GoogleLogin(c) ==
  \E g \in Google :
    /\ AcceptedToken(g)
    /\ Begin(c, IF identities[g.subject] # None
                THEN Known("memberships", identities[g.subject], g.email.box, g.subject)
                ELSE [pc |-> "address", google |-> g])
    /\ UNCHANGED <<tableVars, tokens, edits, contested>>

(* Of a subject that is not linked: the user with its address, if any, is  *)
(* linked, and a new account is made otherwise.                            *)
GoogleExisting_NoLink(c, g) ==  \* variant: the identity is not linked
  \E u \in UsersByEmail(g.email) : Goto(c, Known("memberships", u, g.email.box, g.subject))
GoogleExisting(c, g) ==
  \E u \in UsersByEmail(g.email) : Goto(c, Known("link", u, g.email.box, g.subject))
GoogleAddress(c) ==
  LET g == calls[c].google IN
  /\ calls[c].pc = "address"
  /\ \/ GoogleExisting(c, g) /\ UNCHANGED contested
     \/ /\ UsersByEmail(g.email) = {}
        /\ \E name \in Names : Goto(c, Creating("slug", g.email, g.subject, name, 1))
        /\ FoundFree(c, g.email)
  /\ UNCHANGED <<tableVars, tokens, edits>>

(* One probe of _unique_slug, an error after the last.  Another name may   *)
(* have the same candidate: acme-2 is one of Acme and of Acme 2.           *)
SlugOf(try) == Candidates[try.base][try.n]
Taken(slug) == \E t \in DOMAIN slugs : slugs[t] = slug
NoMoreSlugs_Off(try) == try.n > SlugLimit  \* variant: off by one
NoMoreSlugs(try) == try.n >= SlugLimit
ProbeSlug(c) ==
  LET call == calls[c] IN
  /\ call.pc = "slug"
  /\ \/ ~Taken(SlugOf(call.try)) /\ Goto(c, [call EXCEPT !.pc = "create"])
     \/ Taken(SlugOf(call.try)) /\ ~NoMoreSlugs(call.try) /\ Goto(c, [call EXCEPT !.try.n = @ + 1])
     \/ Taken(SlugOf(call.try)) /\ NoMoreSlugs(call.try) /\ Return(c)
  /\ UNCHANGED <<tableVars, tokens, edits, contested>>

Issue(m, box, secret) ==
  tokens' = tokens \union {[user |-> m.user, tenant |-> m.tenant, role |-> m.role,
                            box |-> box, secret |-> secret]}

(* create_user_and_tenant: user, tenant and owner in one transaction; the  *)
(* unique constraints (on the address as it is written) undo it, and the   *)
(* request is answered 500.  A sign-up has its token, unless its commit    *)
(* was not seen; Google is linked.                                         *)
CreateAccount(c) ==
  LET call == calls[c]
      id == Len(users) + 1
      owner == [user |-> id, tenant |-> id, role |-> "owner"]
      clash == Taken(SlugOf(call.try)) \/ \E u \in DOMAIN users : users[u].email = call.email
  IN
  /\ call.pc = "create"
  /\ \/ clash /\ Return(c) /\ UNCHANGED <<tableVars, tokens>>
     \/ /\ ~clash /\ id <= MaxUsers
        /\ users' = Append(users, [email |-> call.email, active |-> TRUE,
              password |-> IF call.secret \in Passwords THEN call.secret ELSE None])
        /\ slugs' = Append(slugs, SlugOf(call.try))
        /\ members' = members \union {owner}
        /\ \/ /\ call.secret \in Passwords
              /\ Issue(owner, call.email.box, call.secret) \/ UNCHANGED tokens
              /\ Return(c)
           \/ /\ call.secret \in Subjects
              /\ Goto(c, Known("link", id, call.email.box, call.secret))
              /\ UNCHANGED tokens
        /\ UNCHANGED identities
  /\ UNCHANGED <<edits, contested>>

(* link_oauth_identity, a transaction of its own: 500 if the subject is    *)
(* linked by now, and an account just made stays without an identity.      *)
LinkIdentity(c) ==
  LET call == calls[c] IN
  /\ call.pc = "link"
  /\ \/ identities[call.secret] # None /\ Return(c) /\ UNCHANGED identities
     \/ /\ identities[call.secret] = None
        /\ identities' = [identities EXCEPT ![call.secret] = call.user]
        /\ Goto(c, [call EXCEPT !.pc = "memberships"])
  /\ UNCHANGED <<users, slugs, members, tokens, edits, contested>>

(* list_memberships, oldest tenant first: the token is for the first; a    *)
(* user without one is refused.                                            *)
IssueToken(c) ==
  LET call == calls[c]
      mine == {m \in members : m.user = call.user}
  IN
  /\ call.pc = "memberships"
  /\ \/ mine = {} /\ UNCHANGED tokens
     \/ \E first \in mine : /\ \A m \in mine : first.tenant <= m.tenant
                            /\ Issue(first, call.box, call.secret)
  /\ Return(c)
  /\ UNCHANGED <<tableVars, edits, contested>>

(* get_current_context: the claims name a user that is active ...          *)
RolesOf(token) ==
  {m.role : m \in {n \in members : n.user = token.user /\ n.tenant = token.tenant}}
Authenticate(c) ==
  \E token \in tokens, route \in Access :
    /\ users[token.user].active
    /\ Begin(c, Guarded("membership", token, route, None, RolesOf(token)))
    /\ UNCHANGED <<tableVars, tokens, edits, contested>>

(* ... and is a member of the token's tenant now; require_role then asks   *)
(* for the role of the membership.  The handler may begin.                 *)
Allowed(route) ==
  CASE route = "any" -> Roles
    [] route = "members" -> {"owner", "admin", "member"}
    [] route = "admins" -> {"owner", "admin"}
ContextRole_Claims(token) == {token.role}  \* variant: the role of the claims
ContextRole(token) == RolesOf(token)
Authorise(c) ==
  LET call == calls[c] IN
  /\ call.pc = "membership"
  /\ \/ \E role \in ContextRole(call.token) \intersect Allowed(call.route) :
          Goto(c, [call EXCEPT !.pc = "acting", !.role = role])
     \/ ContextRole(call.token) \intersect Allowed(call.route) = {} /\ Return(c)
  /\ UNCHANGED <<tableVars, tokens, edits, contested>>

Handled(c) == calls[c].pc = "acting" /\ Return(c) /\ UNCHANGED <<tableVars, tokens, edits, contested>>

(* A statement fails, or the process stops at it: the request is lost and  *)
(* what it has committed stays.                                            *)
Cut(c) == calls[c] # Idle /\ Return(c) /\ UNCHANGED <<tableVars, tokens, edits, contested>>

(* From outside, as no handler does: a membership is given, changed or     *)
(* revoked (role None), and a user is deactivated.                         *)
EditMembership(u, t, role) ==
  /\ members' = {m \in members : m.user # u \/ m.tenant # t}
                  \union {[user |-> u, tenant |-> t, role |-> r] : r \in {role} \ {None}}
  /\ calls' = [c \in Clients |->
       IF calls[c].pc = "membership" /\ calls[c].token.user = u /\ calls[c].token.tenant = t
       THEN [calls[c] EXCEPT !.held = @ \union ({role} \ {None})] ELSE calls[c]]
  /\ UNCHANGED users
Deactivate(u) ==
  /\ users' = [users EXCEPT ![u].active = FALSE]
  /\ UNCHANGED <<members, calls>>
Edit ==
  /\ edits < MaxEdits /\ edits' = edits + 1
  /\ \E u \in DOMAIN users :
       Deactivate(u) \/ \E t \in DOMAIN slugs, role \in Roles \union {None} :
                          EditMembership(u, t, role)
  /\ UNCHANGED <<slugs, identities, tokens, made, contested>>

Step(c) ==
  \/ Signup(c) \/ Login(c) \/ GoogleLogin(c) \/ GoogleAddress(c) \/ ProbeSlug(c)
  \/ CreateAccount(c) \/ LinkIdentity(c) \/ IssueToken(c)
  \/ Authenticate(c) \/ Authorise(c) \/ Handled(c) \/ Cut(c)
Next == Edit \/ \E c \in Clients : Step(c)
Spec == Init /\ [][Next]_vars
-----------------------------------------------------------------------------
CallType ==
  {Idle} \union [pc : {"address"}, google : Google]
    \union [pc : {"slug", "create"}, email : Address, secret : Secrets, try : Try]
    \union [pc : {"link", "memberships"}, user : Ids, box : Boxes, secret : Secrets]
    \union [pc : {"membership", "acting"}, token : Token, route : Access,
            role : Roles \union {None}, held : SUBSET Roles]

(* The tables and the requests have the shape the handlers rely on: every  *)
(* user has a tenant of its own, memberships, identities, tokens and       *)
(* requests name users that exist, and a pair of user and tenant has one   *)
(* role at most (the keys of the migration).                               *)
TypeOK ==
  /\ users \in Seq(User) /\ slugs \in Seq(Slugs)
  /\ Len(users) = Len(slugs) /\ Len(users) <= MaxUsers
  /\ members \subseteq Membership /\ tokens \subseteq Token
  /\ identities \in [Subjects -> Ids \union {None}]
  /\ calls \in [Clients -> CallType]
  /\ \A m, n \in members : m.user = n.user /\ m.tenant = n.tenant => m = n
  /\ \A m \in members : {m.user, m.tenant} \subseteq DOMAIN users
  /\ \A s \in Subjects : identities[s] \in DOMAIN users \union {None}
  /\ \A t \in tokens : t.user \in DOMAIN users /\ t.tenant \in DOMAIN slugs
  /\ \A c \in Clients : calls[c].pc \in {"link", "memberships"} => calls[c].user \in DOMAIN users
  /\ made \in 0 .. MaxCalls /\ edits \in 0 .. MaxEdits /\ contested \subseteq Boxes

(* No two accounts have one slug or one mailbox, however it is written.    *)
(* The look-up ignores case, the constraint does not: the exception is a   *)
(* mailbox that two requests found free at the same time and one of them,  *)
(* a Google login, writes with capitals.                                   *)
AccountsDistinct ==
  \A u, v \in DOMAIN users : u # v =>
    /\ slugs[u] # slugs[v] /\ users[u].email # users[v].email
    /\ users[u].email.box = users[v].email.box => users[u].email.box \in contested

(* A token answers for what was presented: the password of the account     *)
(* with that mailbox, or a Google subject linked to the account; and a     *)
(* subject is linked only to an account whose address Google verified for  *)
(* it.  So a first login cut between its two transactions is completed by  *)
(* the next one, and a subject keeps its account when its address changes. *)
TokensFollowCredentials ==
  /\ \A t \in tokens :
       IF t.secret \in Passwords
       THEN users[t.user].password = t.secret /\ users[t.user].email.box = t.box
       ELSE identities[t.secret] = t.user
  /\ \A s \in Subjects : identities[s] # None =>
       \E g \in Google : /\ g.subject = s /\ g.verified
                         /\ g.email.box = users[identities[s]].email.box

(* "A revoked role must take effect on the next request": a handler acts   *)
(* with a role that its user held in the token's tenant after the request  *)
(* came in, never with what the token says, and one its route allows.      *)
RevocationTakesEffect ==
  \A c \in Clients : calls[c].pc = "acting" =>
    calls[c].role \in calls[c].held \intersect Allowed(calls[c].route)
=============================================================================
