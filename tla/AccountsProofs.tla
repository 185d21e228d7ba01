---------------------------- MODULE AccountsProofs ----------------------------
(***************************************************************************)
(* For any number of requests, mailboxes, Google subjects and slugs: the   *)
(* tables keep their shape, accounts stay distinct, a token answers for    *)
(* the secret that was presented, and a revoked role takes effect.         *)
(***************************************************************************)
EXTENDS Accounts, TLAPS

(* What a request is doing tells which locals it holds.                    *)
LEMMA CallKinds ==
  ASSUME NEW call \in CallType
  PROVE  /\ call.pc = "address" => call \in [pc : {"address"}, google : Google]
         /\ call.pc \in {"slug", "create"} =>
              call \in [pc : {"slug", "create"}, email : Address, secret : Secrets, try : Try]
         /\ call.pc \in {"link", "memberships"} =>
              call \in [pc : {"link", "memberships"}, user : Ids, box : Boxes, secret : Secrets]
         /\ call.pc \in {"membership", "acting"} =>
              call \in [pc : {"membership", "acting"}, token : Token, route : Access,
                        role : Roles \union {None}, held : SUBSET Roles]
BY DEF CallType, Idle

(* The locals a request may go on with.                                    *)
LEMMA CallsMade ==
  /\ Idle \in CallType /\ Idle.pc = "idle"
  /\ \A g \in Google : [pc |-> "address", google |-> g] \in CallType
  /\ \A pc \in {"slug", "create"}, email \in Address, secret \in Secrets,
        base \in Names, n \in 1 .. SlugLimit :
       Creating(pc, email, secret, base, n) \in CallType
  /\ \A pc \in {"link", "memberships"}, u \in Ids, box \in Boxes, secret \in Secrets :
       Known(pc, u, box, secret) \in CallType
  /\ \A pc \in {"membership", "acting"}, token \in Token, route \in Access,
        role \in Roles \union {None}, held \in SUBSET Roles :
       Guarded(pc, token, route, role, held) \in CallType
BY DEF CallType, Idle, Creating, Known, Guarded, Try

(* A step of a request changes its own locals only.                        *)
LEMMA OwnCall ==
  ASSUME calls \in [Clients -> CallType], NEW c \in Clients, NEW call \in CallType,
         calls' = [calls EXCEPT ![c] = call]
  PROVE  /\ calls' \in [Clients -> CallType] /\ calls'[c] = call
         /\ \A d \in Clients \ {c} : calls'[d] = calls[d]
OBVIOUS

(* A login knows its user at once, or has a Google address to look up.     *)
LEMMA LoginCalls ==
  ASSUME NEW c \in Clients, Login(c) \/ GoogleLogin(c)
  PROVE  \E call : calls' = [calls EXCEPT ![c] = call] /\ call.pc \in {"memberships", "address"}
<1>1. CASE Login(c)
  <2>1. PICK box \in Boxes, password \in Passwords, u \in DOMAIN users :
          calls' = [calls EXCEPT ![c] = Known("memberships", u, box, password)]
    BY <1>1 DEF Login, Begin, UsersByEmail
  <2>2. Known("memberships", u, box, password).pc = "memberships"
    BY DEF Known
  <2> QED BY <2>1, <2>2
<1>2. CASE GoogleLogin(c)
  <2>1. PICK g \in Google :
          calls' = [calls EXCEPT ![c] =
            IF identities[g.subject] # None
            THEN Known("memberships", identities[g.subject], g.email.box, g.subject)
            ELSE [pc |-> "address", google |-> g]]
    BY <1>2 DEF GoogleLogin, Begin
  <2>2. Known("memberships", identities[g.subject], g.email.box, g.subject).pc = "memberships"
    BY DEF Known
  <2>3. CASE identities[g.subject] # None
    BY <2>1, <2>2, <2>3
  <2>4. CASE identities[g.subject] = None
    <3> DEFINE call == [pc |-> "address", google |-> g]
    <3>1. calls' = [calls EXCEPT ![c] = call] /\ call.pc = "address"
      BY <2>1, <2>4
    <3> HIDE DEF call
    <3> QED BY <3>1
  <2> QED BY <2>3, <2>4
<1> QED BY <1>1, <1>2

(* A request that goes on without touching the tables keeps the types, if  *)
(* its new locals are well formed and name a user that exists.             *)
LEMMA LocalStep ==
  ASSUME TypeOK, NEW c \in Clients, NEW call \in CallType,
         calls' = [calls EXCEPT ![c] = call],
         call.pc \in {"link", "memberships"} => call.user \in DOMAIN users,
         UNCHANGED <<tableVars, tokens>>,
         made' \in 0 .. MaxCalls, edits' \in 0 .. MaxEdits, contested' \subseteq Boxes
  PROVE  TypeOK'
<1>1. calls \in [Clients -> CallType]
  BY DEF TypeOK
<1>2. /\ calls' \in [Clients -> CallType] /\ calls'[c] = call
      /\ \A d \in Clients \ {c} : calls'[d] = calls[d]
  BY <1>1, OwnCall
<1>3. \A d \in Clients : calls'[d].pc \in {"link", "memberships"} => calls'[d].user \in DOMAIN users
  BY <1>2 DEF TypeOK
<1> QED BY <1>2, <1>3 DEF TypeOK, tableVars

(* The first half of the steps: a request reads, and writes nothing.       *)
LEMMA ReadsKeepTypes ==
  ASSUME TypeOK, NEW c \in Clients,
         \/ Signup(c) \/ Login(c) \/ GoogleLogin(c) \/ GoogleAddress(c) \/ ProbeSlug(c)
         \/ Authenticate(c) \/ Authorise(c) \/ Handled(c) \/ Cut(c)
  PROVE  TypeOK'
<1> USE AccountsAssumption DEF Begin, Goto, Return
<1>1. /\ calls \in [Clients -> CallType] /\ calls[c] \in CallType
      /\ made \in 0 .. MaxCalls /\ edits \in 0 .. MaxEdits /\ contested \subseteq Boxes
      /\ Len(users) \in Nat /\ DOMAIN users = 1 .. Len(users) /\ DOMAIN users \subseteq Ids
      /\ \A u \in DOMAIN users : users[u] \in User
  BY DEF TypeOK, Ids
<1>2. made < MaxCalls => made + 1 \in 0 .. MaxCalls
  BY <1>1
<1>3. CASE Signup(c)
  <2>1. PICK box \in Boxes, password \in Passwords, name \in Names :
          /\ Begin(c, Creating("slug", [box |-> box, mixed |-> FALSE], password, name, 1))
          /\ FoundFree(c, [box |-> box, mixed |-> FALSE])
          /\ UNCHANGED <<tableVars, tokens, edits>>
    BY <1>3 DEF Signup
  <2> DEFINE call == Creating("slug", [box |-> box, mixed |-> FALSE], password, name, 1)
  <2>2. call \in CallType /\ call.pc = "slug"
    <3>1. [box |-> box, mixed |-> FALSE] \in Address /\ password \in Secrets /\ 1 \in 1 .. SlugLimit
      BY DEF Address, Secrets
    <3> QED BY <3>1, CallsMade DEF Creating
  <2>3. contested' \subseteq Boxes
    BY <2>1, <1>1 DEF FoundFree
  <2> QED BY <1>1, <1>2, <2>1, <2>2, <2>3, LocalStep
<1>4. CASE Login(c)
  <2>1. PICK box \in Boxes, password \in Passwords :
          \E u \in UsersByEmail([box |-> box, mixed |-> FALSE]) :
            /\ Begin(c, Known("memberships", u, box, password))
            /\ UNCHANGED <<tableVars, tokens, edits, contested>>
    BY <1>4 DEF Login
  <2>2. PICK u \in UsersByEmail([box |-> box, mixed |-> FALSE]) :
          /\ Begin(c, Known("memberships", u, box, password))
          /\ UNCHANGED <<tableVars, tokens, edits, contested>>
    BY <2>1
  <2>3. u \in DOMAIN users /\ u \in Ids /\ password \in Secrets
    BY <1>1, <2>2 DEF UsersByEmail, User, Secrets
  <2> DEFINE call == Known("memberships", u, box, password)
  <2>4. call \in CallType /\ call.user = u
    BY <2>3, CallsMade DEF Known
  <2> QED BY <1>1, <1>2, <2>2, <2>3, <2>4, LocalStep
<1>5. CASE GoogleLogin(c)
  <2>1. PICK g \in Google :
          /\ Begin(c, IF identities[g.subject] # None
                      THEN Known("memberships", identities[g.subject], g.email.box, g.subject)
                      ELSE [pc |-> "address", google |-> g])
          /\ UNCHANGED <<tableVars, tokens, edits, contested>>
    BY <1>5 DEF GoogleLogin
  <2> DEFINE call == IF identities[g.subject] # None
                      THEN Known("memberships", identities[g.subject], g.email.box, g.subject)
                      ELSE [pc |-> "address", google |-> g]
  <2>2. call \in CallType /\ (call.pc \in {"link", "memberships"} => call.user \in DOMAIN users)
    <3>1. g.subject \in Subjects /\ g.subject \in Secrets /\ g.email.box \in Boxes
      BY DEF Subjects, Secrets, Address
    <3>2. identities[g.subject] # None =>
            identities[g.subject] \in DOMAIN users /\ identities[g.subject] \in Ids
      BY <1>1, <3>1 DEF TypeOK
    <3>3. CASE identities[g.subject] # None
      BY <3>1, <3>2, <3>3, CallsMade DEF Known
    <3>4. CASE identities[g.subject] = None
      BY <3>4, CallsMade
    <3> QED BY <3>3, <3>4
  <2>3. calls' = [calls EXCEPT ![c] = call] /\ made' = made + 1 /\ made < MaxCalls
    BY <2>1
  <2> QED BY <1>1, <1>2, <2>1, <2>2, <2>3, LocalStep
<1>6. CASE GoogleAddress(c)
  <2> DEFINE g == calls[c].google
  <2>1. g \in Google
    BY <1>1, <1>6, CallKinds DEF GoogleAddress
  <2>2. g.email \in Address /\ g.email.box \in Boxes /\ g.subject \in Secrets
    BY <2>1 DEF Subjects, Secrets, Address
  <2>3. /\ UNCHANGED <<tableVars, tokens, edits>> /\ made' = made
        /\ contested' \subseteq Boxes
    BY <1>1, <1>6, <2>2 DEF GoogleAddress, GoogleExisting, FoundFree
  <2>4. CASE GoogleExisting(c, g)
    <3>1. PICK u \in UsersByEmail(g.email) :
            calls' = [calls EXCEPT ![c] = Known("link", u, g.email.box, g.subject)]
      BY <2>4 DEF GoogleExisting
    <3>2. u \in DOMAIN users /\ u \in Ids
      BY <1>1, <3>1 DEF UsersByEmail
    <3> DEFINE call == Known("link", u, g.email.box, g.subject)
    <3>3. call \in CallType /\ call.user = u
      BY <2>2, <3>2, CallsMade DEF Known
    <3> HIDE DEF g
    <3> QED BY <1>1, <2>3, <3>1, <3>2, <3>3, LocalStep
  <2>5. CASE \E name \in Names : Goto(c, Creating("slug", g.email, g.subject, name, 1))
    <3>1. PICK name \in Names : calls' = [calls EXCEPT ![c] = Creating("slug", g.email, g.subject, name, 1)]
      BY <2>5
    <3> DEFINE call == Creating("slug", g.email, g.subject, name, 1)
    <3>2. call \in CallType /\ call.pc = "slug"
      <4>1. 1 \in 1 .. SlugLimit
        OBVIOUS
      <4> QED BY <2>2, <4>1, CallsMade DEF Creating
    <3> HIDE DEF g
    <3> QED BY <1>1, <2>3, <3>1, <3>2, LocalStep
  <2> QED BY <1>6, <2>4, <2>5 DEF GoogleAddress
<1>7. CASE ProbeSlug(c)
  <2>1. /\ calls[c].pc = "slug" /\ calls[c].email \in Address /\ calls[c].secret \in Secrets
        /\ calls[c].try \in Try
        /\ calls[c] \in [pc : {"slug", "create"}, email : Address, secret : Secrets, try : Try]
    BY <1>1, <1>7, CallKinds DEF ProbeSlug
  <2>2. UNCHANGED <<tableVars, tokens, edits, contested>> /\ made' = made
    BY <1>7 DEF ProbeSlug
  <2>3. CASE calls' = [calls EXCEPT ![c] = [calls[c] EXCEPT !.pc = "create"]]
    <3> DEFINE call == [calls[c] EXCEPT !.pc = "create"]
    <3>1. call \in CallType /\ call.pc = "create"
      BY <2>1 DEF CallType
    <3> QED BY <1>1, <2>2, <2>3, <3>1, LocalStep
  <2>4. CASE /\ ~NoMoreSlugs(calls[c].try)
             /\ calls' = [calls EXCEPT ![c] = [calls[c] EXCEPT !.try.n = @ + 1]]
    <3> DEFINE call == [calls[c] EXCEPT !.try.n = @ + 1]
    <3>1. calls[c].try.n \in 1 .. SlugLimit /\ calls[c].try.n < SlugLimit
      BY <2>1, <2>4 DEF NoMoreSlugs, Try
    <3>2. [calls[c].try EXCEPT !.n = @ + 1] \in Try
      BY <2>1, <3>1 DEF Try
    <3>3. call \in CallType /\ call.pc = "slug"
      BY <2>1, <3>2 DEF CallType
    <3> QED BY <1>1, <2>2, <2>4, <3>3, LocalStep
  <2>5. CASE calls' = [calls EXCEPT ![c] = Idle]
    BY <1>1, <2>2, <2>5, CallsMade, LocalStep
  <2> QED BY <1>7, <2>3, <2>4, <2>5 DEF ProbeSlug
<1>8. CASE Authenticate(c)
  <2>1. PICK token \in tokens, route \in Access :
          /\ Begin(c, Guarded("membership", token, route, None, RolesOf(token)))
          /\ UNCHANGED <<tableVars, tokens, edits, contested>>
    BY <1>8 DEF Authenticate
  <2> DEFINE call == Guarded("membership", token, route, None, RolesOf(token))
  <2>2. token \in Token /\ RolesOf(token) \in SUBSET Roles
    BY DEF TypeOK, RolesOf, Membership
  <2>3. call \in CallType /\ call.pc = "membership"
    BY <2>2, CallsMade DEF Guarded
  <2> QED BY <1>1, <1>2, <2>1, <2>3, LocalStep
<1>9. CASE Authorise(c)
  <2>1. /\ calls[c] \in [pc : {"membership", "acting"}, token : Token, route : Access,
                         role : Roles \union {None}, held : SUBSET Roles]
        /\ UNCHANGED <<tableVars, tokens, edits, contested>> /\ made' = made
    BY <1>1, <1>9, CallKinds DEF Authorise
  <2>2. CASE \E role \in ContextRole(calls[c].token) \intersect Allowed(calls[c].route) :
               calls' = [calls EXCEPT ![c] = [calls[c] EXCEPT !.pc = "acting", !.role = role]]
    <3>1. PICK role \in RolesOf(calls[c].token) :
            calls' = [calls EXCEPT ![c] = [calls[c] EXCEPT !.pc = "acting", !.role = role]]
      BY <2>2 DEF ContextRole
    <3>2. role \in Roles
      BY DEF TypeOK, RolesOf, Membership
    <3> DEFINE call == [calls[c] EXCEPT !.pc = "acting", !.role = role]
    <3>3. call \in CallType /\ call.pc = "acting"
      BY <2>1, <3>2 DEF CallType
    <3> QED BY <1>1, <2>1, <3>1, <3>3, LocalStep
  <2>3. CASE calls' = [calls EXCEPT ![c] = Idle]
    BY <1>1, <2>1, <2>3, CallsMade, LocalStep
  <2> QED BY <1>9, <2>2, <2>3 DEF Authorise
<1>10. CASE Handled(c) \/ Cut(c)
  BY <1>1, <1>10, CallsMade, LocalStep DEF Handled, Cut
<1> QED BY <1>3, <1>4, <1>5, <1>6, <1>7, <1>8, <1>9, <1>10

LEMMA TriedSlugs ==
  ASSUME NEW try \in Try
  PROVE  SlugOf(try) \in Slugs
BY CandidatesAssumption DEF Try, SlugOf

(* A new account: one user, one tenant and its owner, under the next id.   *)
LEMMA NewAccount ==
  ASSUME TypeOK, NEW email \in Address, NEW password \in Passwords \union {None},
         NEW slug \in Slugs, Len(users) + 1 <= MaxUsers,
         users' = Append(users, [email |-> email, active |-> TRUE, password |-> password]),
         slugs' = Append(slugs, slug),
         members' = members \union
           {[user |-> Len(users) + 1, tenant |-> Len(users) + 1, role |-> "owner"]}
  PROVE  /\ users' \in Seq(User) /\ slugs' \in Seq(Slugs)
         /\ Len(users') = Len(users) + 1 /\ Len(slugs') = Len(users')
         /\ DOMAIN users' = DOMAIN users \union {Len(users) + 1}
         /\ DOMAIN slugs' = DOMAIN users'
         /\ \A u \in DOMAIN users : users'[u] = users[u] /\ slugs'[u] = slugs[u]
         /\ users'[Len(users) + 1] = [email |-> email, active |-> TRUE, password |-> password]
         /\ slugs'[Len(users) + 1] = slug
         /\ Len(users) + 1 \in Ids /\ Len(users) + 1 \notin DOMAIN users
         /\ members' \subseteq Membership
         /\ \A m, n \in members' : m.user = n.user /\ m.tenant = n.tenant => m = n
         /\ \A m \in members' : {m.user, m.tenant} \subseteq DOMAIN users'
<1> DEFINE id == Len(users) + 1
           user == [email |-> email, active |-> TRUE, password |-> password]
           owner == [user |-> id, tenant |-> id, role |-> "owner"]
<1>1. user \in User
  BY DEF User
<1>2. /\ users \in Seq(User) /\ slugs \in Seq(Slugs) /\ Len(users) = Len(slugs)
      /\ Len(users) \in Nat /\ DOMAIN users = 1 .. Len(users) /\ DOMAIN slugs = DOMAIN users
  BY DEF TypeOK
<1>3. /\ users' \in Seq(User) /\ Len(users') = id /\ DOMAIN users' = 1 .. id
      /\ \A u \in DOMAIN users : users'[u] = users[u]
      /\ users'[id] = user
  <2> HIDE DEF user
  <2> QED BY <1>1, <1>2 DEF user
<1>4. /\ slugs' \in Seq(Slugs) /\ Len(slugs') = id /\ DOMAIN slugs' = 1 .. id
      /\ \A u \in DOMAIN users : slugs'[u] = slugs[u]
      /\ slugs'[id] = slug
  BY <1>2
<1>5. id \in Ids /\ id \notin DOMAIN users /\ 1 .. id = DOMAIN users \union {id}
  BY <1>2, AccountsAssumption DEF Ids
<1>6. owner \in Membership
  BY <1>5 DEF Membership, Roles
<1> HIDE DEF id, owner
<1>7. \A m \in members : m \in Membership /\ {m.user, m.tenant} \subseteq DOMAIN users
  BY DEF TypeOK
<1>8. members' = members \union {owner}
  BY DEF owner, id
<1>9. owner.user = id /\ owner.tenant = id
  BY DEF owner
<1>10. \A m, n \in members' : m.user = n.user /\ m.tenant = n.tenant => m = n
  <2>1. \A m, n \in members : m.user = n.user /\ m.tenant = n.tenant => m = n
    BY DEF TypeOK
  <2>2. \A m \in members : m.user # owner.user
    BY <1>5, <1>7, <1>9
  <2> QED BY <2>1, <2>2, <1>8
<1>11. \A m \in members' : {m.user, m.tenant} \subseteq DOMAIN users'
  BY <1>3, <1>5, <1>7, <1>8, <1>9
<1>12. members' \subseteq Membership
  BY <1>6, <1>7, <1>8
<1> QED BY <1>3, <1>4, <1>5, <1>10, <1>11, <1>12 DEF id

(* A token for a membership that exists is a token.                        *)
LEMMA IssueType ==
  ASSUME NEW m \in Membership, NEW box \in Boxes, NEW secret \in Secrets,
         tokens \subseteq Token, Issue(m, box, secret)
  PROVE  /\ tokens' \subseteq Token
         /\ \A t \in tokens' : t \in tokens \/ (t.user = m.user /\ t.tenant = m.tenant
                                                 /\ t.secret = secret /\ t.box = box)
BY DEF Issue, Membership, Token

LEMMA WritesKeepTypes ==
  ASSUME TypeOK, NEW c \in Clients, CreateAccount(c) \/ LinkIdentity(c) \/ IssueToken(c)
  PROVE  TypeOK'
<1> USE AccountsAssumption DEF Goto, Return
<1>1. /\ calls \in [Clients -> CallType] /\ calls[c] \in CallType
      /\ made \in 0 .. MaxCalls /\ edits \in 0 .. MaxEdits /\ contested \subseteq Boxes
      /\ DOMAIN users = 1 .. Len(users) /\ DOMAIN users \subseteq Ids
      /\ tokens \subseteq Token /\ DOMAIN slugs = DOMAIN users
  BY DEF TypeOK, Ids
<1>2. CASE CreateAccount(c)
  <2> DEFINE id == Len(users) + 1
             password == IF calls[c].secret \in Passwords THEN calls[c].secret ELSE None
             owner == [user |-> id, tenant |-> id, role |-> "owner"]
  <2>1. calls[c].email \in Address /\ calls[c].secret \in Secrets /\ calls[c].try \in Try
    BY <1>1, <1>2, CallKinds DEF CreateAccount
  <2>2. UNCHANGED <<edits, contested, made>>
    BY <1>2 DEF CreateAccount
  <2>3. CASE calls' = [calls EXCEPT ![c] = Idle] /\ UNCHANGED <<tableVars, tokens>>
    BY <1>1, <2>2, <2>3, CallsMade, LocalStep
  <2>4. CASE /\ id <= MaxUsers
             /\ users' = Append(users, [email |-> calls[c].email, active |-> TRUE,
                                        password |-> password])
             /\ slugs' = Append(slugs, SlugOf(calls[c].try))
             /\ members' = members \union {owner}
             /\ UNCHANGED identities
             /\ \/ /\ calls[c].secret \in Passwords
                   /\ Issue(owner, calls[c].email.box, calls[c].secret) \/ UNCHANGED tokens
                   /\ calls' = [calls EXCEPT ![c] = Idle]
                \/ /\ calls[c].secret \in Subjects
                   /\ calls' = [calls EXCEPT ![c] =
                        Known("link", id, calls[c].email.box, calls[c].secret)]
                   /\ UNCHANGED tokens
    <3>1. password \in Passwords \union {None}
      OBVIOUS
    <3>2. /\ users' \in Seq(User) /\ slugs' \in Seq(Slugs)
          /\ Len(users') = id /\ Len(slugs') = Len(users') /\ id <= MaxUsers
          /\ DOMAIN users' = DOMAIN users \union {id} /\ DOMAIN slugs' = DOMAIN users'
          /\ id \in Ids
          /\ members' \subseteq Membership
          /\ \A m, n \in members' : m.user = n.user /\ m.tenant = n.tenant => m = n
          /\ \A m \in members' : {m.user, m.tenant} \subseteq DOMAIN users'
      <4> HIDE DEF password
      <4> QED BY <2>1, <2>4, <3>1, TriedSlugs, NewAccount
    <3>3. owner \in Membership /\ calls[c].email.box \in Boxes
      BY <2>1, <3>2 DEF Membership, Roles, Address
    <3>4. /\ tokens' \subseteq Token
          /\ \A t \in tokens' : t.user \in DOMAIN users' /\ t.tenant \in DOMAIN slugs'
      <4>1. \A t \in tokens : t.user \in DOMAIN users /\ t.tenant \in DOMAIN slugs
        BY DEF TypeOK
      <4>2. owner.user = id /\ owner.tenant = id
        OBVIOUS
      <4> HIDE DEF owner, id
      <4>3. CASE Issue(owner, calls[c].email.box, calls[c].secret)
        <5>1. calls[c].secret \in Secrets
          BY <2>1
        <5>2. /\ tokens' \subseteq Token
              /\ \A t \in tokens' : t \in tokens \/ (t.user = owner.user /\ t.tenant = owner.tenant)
          BY <1>1, <3>3, <4>3, <5>1, IssueType
        <5>3. DOMAIN users \subseteq DOMAIN users' /\ DOMAIN slugs \subseteq DOMAIN slugs'
              /\ id \in DOMAIN users' /\ id \in DOMAIN slugs'
          BY <1>1, <3>2
        <5> QED BY <4>1, <4>2, <5>2, <5>3
      <4>4. CASE UNCHANGED tokens
        BY <1>1, <3>2, <4>1, <4>4
      <4> QED BY <2>4, <4>3, <4>4
    <3>5. /\ calls' \in [Clients -> CallType]
          /\ \A d \in Clients : calls'[d].pc \in {"link", "memberships"} => calls'[d].user \in DOMAIN users'
      <4>1. PICK call \in CallType :
              /\ calls' = [calls EXCEPT ![c] = call]
              /\ call.pc \in {"link", "memberships"} => call.user = id
        <5>1. Known("link", id, calls[c].email.box, calls[c].secret) \in CallType
          BY <2>1, <3>2, <3>3, CallsMade
        <5>2. Known("link", id, calls[c].email.box, calls[c].secret).user = id
          BY DEF Known
        <5> HIDE DEF id
        <5> QED BY <2>4, <5>1, <5>2, CallsMade
      <4>2. \A d \in Clients : calls[d].pc \in {"link", "memberships"} => calls[d].user \in DOMAIN users
        BY DEF TypeOK
      <4> HIDE DEF id
      <4> QED BY <1>1, <3>2, <4>1, <4>2, OwnCall
    <3>6. /\ identities' \in [Subjects -> Ids \union {None}]
          /\ \A s \in Subjects : identities'[s] \in DOMAIN users' \union {None}
      BY <2>4, <3>2 DEF TypeOK
    <3>7. made' \in 0 .. MaxCalls /\ edits' \in 0 .. MaxEdits /\ contested' \subseteq Boxes
      BY <1>1, <2>2
    <3> QED BY <3>2, <3>4, <3>5, <3>6, <3>7 DEF TypeOK
  <2> QED BY <1>2, <2>3, <2>4 DEF CreateAccount
<1>3. CASE LinkIdentity(c)
  <2>1. /\ calls[c] \in [pc : {"link", "memberships"}, user : Ids, box : Boxes, secret : Secrets]
        /\ calls[c].user \in DOMAIN users
        /\ UNCHANGED <<users, slugs, members, tokens, edits, contested, made>>
    BY <1>1, <1>3, CallKinds DEF LinkIdentity, TypeOK
  <2>2. CASE calls' = [calls EXCEPT ![c] = Idle] /\ UNCHANGED identities
    BY <1>1, <2>1, <2>2, CallsMade, LocalStep DEF tableVars
  <2>3. CASE /\ identities' = [identities EXCEPT ![calls[c].secret] = calls[c].user]
             /\ calls' = [calls EXCEPT ![c] = [calls[c] EXCEPT !.pc = "memberships"]]
    <3> DEFINE call == [calls[c] EXCEPT !.pc = "memberships"]
    <3>1. call \in CallType /\ call.user = calls[c].user
      BY <2>1 DEF CallType
    <3>2. /\ calls' \in [Clients -> CallType]
          /\ \A d \in Clients : calls'[d].pc \in {"link", "memberships"} => calls'[d].user \in DOMAIN users
      <4>1. \A d \in Clients : calls[d].pc \in {"link", "memberships"} => calls[d].user \in DOMAIN users
        BY DEF TypeOK
      <4> HIDE DEF call
      <4> QED BY <1>1, <2>1, <2>3, <3>1, <4>1, OwnCall DEF call
    <3>3. /\ identities' \in [Subjects -> Ids \union {None}]
          /\ \A s \in Subjects : identities'[s] \in DOMAIN users \union {None}
      BY <1>1, <2>1, <2>3 DEF TypeOK
    <3> QED BY <2>1, <3>2, <3>3 DEF TypeOK
  <2> QED BY <1>3, <2>2, <2>3 DEF LinkIdentity
<1>4. CASE IssueToken(c)
  <2>1. calls[c] \in [pc : {"link", "memberships"}, user : Ids, box : Boxes, secret : Secrets]
    BY <1>1, <1>4, CallKinds DEF IssueToken
  <2>2. calls' = [calls EXCEPT ![c] = Idle] /\ UNCHANGED <<tableVars, edits, contested, made>>
    BY <1>4 DEF IssueToken
  <2>3. CASE UNCHANGED tokens
    BY <1>1, <2>2, <2>3, CallsMade, LocalStep
  <2>4. CASE \E m \in members : Issue(m, calls[c].box, calls[c].secret)
    <3>1. PICK m \in members : Issue(m, calls[c].box, calls[c].secret)
      BY <2>4
    <3>2. m \in Membership /\ m.user \in DOMAIN users /\ m.tenant \in DOMAIN users
      BY DEF TypeOK
    <3>3. /\ tokens' \subseteq Token
          /\ \A t \in tokens' : t.user \in DOMAIN users /\ t.tenant \in DOMAIN slugs
      <4>1. \A t \in tokens : t.user \in DOMAIN users /\ t.tenant \in DOMAIN slugs
        BY DEF TypeOK
      <4> QED BY <1>1, <2>1, <3>1, <3>2, <4>1, IssueType
    <3>4. /\ calls' \in [Clients -> CallType]
          /\ \A d \in Clients : calls'[d].pc \in {"link", "memberships"} => calls'[d].user \in DOMAIN users
      BY <1>1, <2>2, CallsMade, OwnCall DEF TypeOK
    <3> QED BY <2>2, <3>3, <3>4 DEF TypeOK, tableVars
  <2> QED BY <1>4, <2>3, <2>4 DEF IssueToken
<1> QED BY <1>2, <1>3, <1>4

(* An edit of a membership leaves the locals of a request alone but for    *)
(* the roles its user has held.                                            *)
LEMMA EditedCalls ==
  ASSUME calls \in [Clients -> CallType], NEW u, NEW t, NEW role \in Roles \union {None},
         EditMembership(u, t, role), NEW d \in Clients
  PROVE  /\ DOMAIN calls' = Clients
         /\ calls'[d] \in CallType
         /\ calls'[d].pc = calls[d].pc
         /\ calls[d].pc \notin {"membership"} => calls'[d] = calls[d]
         /\ calls[d].pc = "membership" =>
              /\ calls'[d].token = calls[d].token /\ calls'[d].route = calls[d].route
              /\ calls[d].held \subseteq calls'[d].held
              /\ calls[d].token.user = u /\ calls[d].token.tenant = t =>
                   {role} \ {None} \subseteq calls'[d].held
<1> DEFINE concerned == calls[d].pc = "membership" /\ calls[d].token.user = u
                          /\ calls[d].token.tenant = t
           new == [calls[d] EXCEPT !.held = @ \union ({role} \ {None})]
<1>1. calls'[d] = (IF concerned THEN new ELSE calls[d]) /\ DOMAIN calls' = Clients
  BY DEF EditMembership
<1>2. calls[d] \in CallType
  OBVIOUS
<1>3. CASE calls[d].pc = "membership"
  <2>1. calls[d] \in [pc : {"membership", "acting"}, token : Token, route : Access,
                      role : Roles \union {None}, held : SUBSET Roles]
    BY <1>2, <1>3, CallKinds
  <2>2. new \in CallType /\ new.pc = "membership" /\ new.token = calls[d].token
        /\ new.route = calls[d].route /\ new.held = calls[d].held \union ({role} \ {None})
    BY <1>3, <2>1 DEF CallType
  <2> HIDE DEF new
  <2> QED BY <1>1, <1>2, <1>3, <2>2
<1>4. CASE calls[d].pc # "membership"
  BY <1>1, <1>2, <1>4
<1> QED BY <1>3, <1>4

LEMMA EditsKeepTypes ==
  ASSUME TypeOK, Edit
  PROVE  TypeOK'
<1> USE AccountsAssumption
<1>1. /\ users \in Seq(User) /\ DOMAIN users = 1 .. Len(users) /\ DOMAIN users \subseteq Ids
      /\ DOMAIN slugs = DOMAIN users /\ calls \in [Clients -> CallType]
      /\ edits' \in 0 .. MaxEdits /\ UNCHANGED <<slugs, identities, tokens, made, contested>>
  BY DEF TypeOK, Ids, Edit
<1>2. CASE \E u \in DOMAIN users : Deactivate(u)
  <2>1. PICK u \in DOMAIN users : Deactivate(u)
    BY <1>2
  <2>2. [users[u] EXCEPT !.active = FALSE] \in User
    <3>1. users[u] \in User
      BY <1>1
    <3> QED BY <3>1 DEF User
  <2>3. users' = [users EXCEPT ![u] = [users[u] EXCEPT !.active = FALSE]]
    BY <2>1 DEF Deactivate
  <2> DEFINE new == [users[u] EXCEPT !.active = FALSE]
  <2>4. users' = [users EXCEPT ![u] = new] /\ new \in User
    BY <2>2, <2>3
  <2> HIDE DEF new
  <2>5. users' \in Seq(User) /\ Len(users') = Len(users) /\ DOMAIN users' = DOMAIN users
    BY <1>1, <2>4
  <2> QED BY <1>1, <2>1, <2>5 DEF TypeOK, Deactivate
<1>3. CASE \E u \in DOMAIN users : \E t \in DOMAIN slugs, role \in Roles \union {None} :
             EditMembership(u, t, role)
  <2>1. PICK u \in DOMAIN users, t \in DOMAIN slugs, role \in Roles \union {None} :
          EditMembership(u, t, role)
    BY <1>3
  <2> DEFINE kept == {m \in members : m.user # u \/ m.tenant # t}
             given == {[user |-> u, tenant |-> t, role |-> r] : r \in {role} \ {None}}
  <2>2. members' = kept \union given /\ UNCHANGED users
    BY <2>1 DEF EditMembership
  <2>3. /\ \A m \in kept : m \in members /\ ~(m.user = u /\ m.tenant = t)
        /\ \A m \in given : m = [user |-> u, tenant |-> t, role |-> role] /\ role \in Roles
    OBVIOUS
  <2>4. \A m \in given : m \in Membership /\ m.user = u /\ m.tenant = t
    BY <1>1, <2>3 DEF Membership
  <2> HIDE DEF kept, given
  <2>5. /\ members' \subseteq Membership
        /\ \A m \in members' : {m.user, m.tenant} \subseteq DOMAIN users
    <3>1. \A m \in members : m \in Membership /\ {m.user, m.tenant} \subseteq DOMAIN users
      BY DEF TypeOK
    <3> QED BY <1>1, <2>1, <2>2, <2>3, <2>4, <3>1
  <2>6. \A m, n \in members' : m.user = n.user /\ m.tenant = n.tenant => m = n
    <3>1. \A m, n \in members : m.user = n.user /\ m.tenant = n.tenant => m = n
      BY DEF TypeOK
    <3> QED BY <2>2, <2>3, <2>4, <3>1
  <2>7. calls' \in [Clients -> CallType]
    <3>1. \A d \in Clients : calls'[d] \in CallType
      BY <1>1, <2>1, EditedCalls
    <3>2. calls' = [d \in Clients |-> calls'[d]]
      BY <2>1 DEF EditMembership
    <3> QED BY <3>1, <3>2
  <2>8. \A d \in Clients : calls'[d].pc \in {"link", "memberships"} => calls'[d].user \in DOMAIN users
    <3>1. \A d \in Clients : calls[d].pc \in {"link", "memberships"} => calls[d].user \in DOMAIN users
      BY DEF TypeOK
    <3>2. \A d \in Clients : calls[d].pc \in {"link", "memberships"} => calls'[d] = calls[d]
      BY <1>1, <2>1, EditedCalls
    <3>3. \A d \in Clients : calls'[d].pc = calls[d].pc
      BY <1>1, <2>1, EditedCalls
    <3> QED BY <3>1, <3>2, <3>3
  <2> QED BY <1>1, <2>2, <2>5, <2>6, <2>7, <2>8 DEF TypeOK
<1> QED BY <1>2, <1>3 DEF Edit

LEMMA TypeStep == TypeOK /\ [Next]_vars => TypeOK'
<1> SUFFICES ASSUME TypeOK, [Next]_vars PROVE TypeOK'
  OBVIOUS
<1>1. CASE Edit
  BY <1>1, EditsKeepTypes
<1>2. ASSUME NEW c \in Clients, Step(c) PROVE TypeOK'
  BY <1>2, ReadsKeepTypes, WritesKeepTypes DEF Step
<1>3. CASE UNCHANGED vars
  BY <1>3 DEF TypeOK, vars, tableVars
<1> QED BY <1>1, <1>2, <1>3 DEF Next

LEMMA TypeInit == Init => TypeOK
BY CallsMade, AccountsAssumption DEF Init, TypeOK, Subjects

(* The tables and the requests keep their shape: every user has a tenant,  *)
(* and whatever names a user or a tenant names one that exists.            *)
THEOREM AccountsTypeOK == Spec => []TypeOK
BY TypeInit, TypeStep, PTL DEF Spec
-----------------------------------------------------------------------------
(* Distinct accounts: who looks for a slug found its mailbox free, so that *)
(* a user or another request that has the mailbox by now contested it.     *)
LooksForSlug(c) == calls[c].pc \in {"slug", "create"}
Contention ==
  \A c \in Clients : LooksForSlug(c) =>
    /\ \A u \in DOMAIN users :
         users[u].email.box = calls[c].email.box => calls[c].email.box \in contested
    /\ \A d \in Clients \ {c} : LooksForSlug(d) /\ calls[d].email.box = calls[c].email.box =>
         calls[c].email.box \in contested
DistinctInv == AccountsDistinct /\ Contention

(* Whatever makes no account and takes up no new address keeps them apart. *)
LEMMA QuietStep ==
  ASSUME DistinctInv, contested \subseteq contested', UNCHANGED slugs,
         DOMAIN users' = DOMAIN users,
         \A u \in DOMAIN users : users'[u].email = users[u].email,
         \A c \in Clients : calls'[c].pc \in {"slug", "create"} =>
           LooksForSlug(c) /\ calls'[c].email = calls[c].email
  PROVE  DistinctInv'
<1>1. AccountsDistinct'
  BY DEF DistinctInv, AccountsDistinct
<1>2. Contention'
  BY DEF DistinctInv, Contention, LooksForSlug
<1> QED BY <1>1, <1>2 DEF DistinctInv

(* A request that finds its mailbox free, and marks it if another one has. *)
LEMMA TakeUpAddress ==
  ASSUME DistinctInv, TypeOK, NEW c \in Clients, NEW email, NEW secret, NEW base,
         calls' = [calls EXCEPT ![c] = Creating("slug", email, secret, base, 1)],
         UsersByEmail(email) = {}, FoundFree(c, email), UNCHANGED <<users, slugs>>
  PROVE  DistinctInv'
<1>1. /\ calls'[c].pc = "slug" /\ calls'[c].email = email
      /\ \A d \in Clients \ {c} : calls'[d] = calls[d]
  BY DEF TypeOK, Creating
<1>2. contested \subseteq contested'
  BY DEF FoundFree
<1>3. \A u \in DOMAIN users : users[u].email.box # email.box
  BY DEF UsersByEmail
<1>4. \A d \in Clients \ {c} : LooksForSlug(d) /\ calls[d].email.box = email.box =>
        email.box \in contested'
  BY DEF FoundFree, LooksForSlug
<1>5. AccountsDistinct'
  BY <1>2 DEF DistinctInv, AccountsDistinct
<1>6. Contention'
  BY <1>1, <1>2, <1>3, <1>4 DEF DistinctInv, Contention, LooksForSlug
<1> QED BY <1>5, <1>6 DEF DistinctInv

(* The transaction that makes an account: the constraints refuse what is   *)
(* there as it is written, and the mailbox of another user is contested.   *)
LEMMA AccountMade ==
  ASSUME DistinctInv, TypeOK, NEW c \in Clients, LooksForSlug(c), NEW id,
         id \notin DOMAIN users, DOMAIN users' = DOMAIN users \union {id},
         \A u \in DOMAIN users : users'[u] = users[u] /\ slugs'[u] = slugs[u],
         users'[id].email = calls[c].email, slugs'[id] = SlugOf(calls[c].try),
         \A u \in DOMAIN users : /\ slugs[u] # SlugOf(calls[c].try)
                                 /\ users[u].email # calls[c].email,
         \A d \in Clients : calls'[d].pc \in {"slug", "create"} =>
           d # c /\ calls'[d] = calls[d],
         UNCHANGED contested
  PROVE  DistinctInv'
<1>1. \A u \in DOMAIN users : users[u].email.box = calls[c].email.box =>
        calls[c].email.box \in contested
  BY DEF DistinctInv, Contention
<1>2. AccountsDistinct'
  <2> SUFFICES ASSUME NEW u \in DOMAIN users', NEW v \in DOMAIN users', u # v
               PROVE  /\ slugs'[u] # slugs'[v] /\ users'[u].email # users'[v].email
                      /\ users'[u].email.box = users'[v].email.box =>
                           users'[u].email.box \in contested'
    BY DEF AccountsDistinct
  <2>1. CASE u \in DOMAIN users /\ v \in DOMAIN users
    BY <2>1 DEF DistinctInv, AccountsDistinct
  <2>2. CASE u = id /\ v \in DOMAIN users
    BY <1>1, <2>2
  <2>3. CASE u \in DOMAIN users /\ v = id
    BY <1>1, <2>3
  <2> QED BY <2>1, <2>2, <2>3
<1>3. \A d \in Clients \ {c} : LooksForSlug(d) /\ calls[d].email.box = calls[c].email.box =>
        calls[d].email.box \in contested
  BY DEF DistinctInv, Contention
<1>4. Contention'
  BY <1>3 DEF DistinctInv, Contention, LooksForSlug
<1> QED BY <1>2, <1>4 DEF DistinctInv

LEMMA DistinctStep == TypeOK /\ DistinctInv /\ [Next]_vars => DistinctInv'
<1> SUFFICES ASSUME TypeOK, DistinctInv, [Next]_vars PROVE DistinctInv'
  OBVIOUS
<1>1. /\ calls \in [Clients -> CallType] /\ Idle.pc = "idle"
      /\ \A c \in Clients : \A call : calls' = [calls EXCEPT ![c] = call] =>
           calls'[c] = call /\ \A d \in Clients \ {c} : calls'[d] = calls[d]
  BY CallsMade DEF TypeOK
<1>2. ASSUME NEW c \in Clients, NEW call, calls' = [calls EXCEPT ![c] = call],
             call.pc \in {"slug", "create"} => LooksForSlug(c) /\ call.email = calls[c].email,
             UNCHANGED <<users, slugs, contested>>
      PROVE  DistinctInv'
  <2>1. \A d \in Clients : calls'[d].pc \in {"slug", "create"} =>
          LooksForSlug(d) /\ calls'[d].email = calls[d].email
    BY <1>1, <1>2 DEF LooksForSlug
  <2> QED BY <1>2, <2>1, QuietStep
<1> USE DEF Begin, Goto, Return, tableVars
<1>3. ASSUME NEW c \in Clients, Signup(c) PROVE DistinctInv'
  <2>1. PICK box \in Boxes, password \in Passwords, name \in Names :
          LET email == [box |-> box, mixed |-> FALSE] IN
          /\ UsersByEmail(email) = {} /\ FoundFree(c, email)
          /\ calls' = [calls EXCEPT ![c] = Creating("slug", email, password, name, 1)]
          /\ UNCHANGED tableVars
    BY <1>3 DEF Signup
  <2> QED BY <2>1, TakeUpAddress
<1>4. ASSUME NEW c \in Clients, Login(c) \/ GoogleLogin(c) PROVE DistinctInv'
  <2>1. PICK call : /\ calls' = [calls EXCEPT ![c] = call]
                    /\ call.pc \in {"memberships", "address"}
    BY <1>4, LoginCalls
  <2>2. UNCHANGED <<tableVars, contested>>
    BY <1>4 DEF Login, GoogleLogin
  <2> QED BY <1>2, <2>1, <2>2
<1>5. ASSUME NEW c \in Clients, GoogleAddress(c) PROVE DistinctInv'
  <2> DEFINE g == calls[c].google
  <2>1. UNCHANGED tableVars
    BY <1>5 DEF GoogleAddress
  <2>2. CASE GoogleExisting(c, g) /\ UNCHANGED contested
    <3>1. PICK u : calls' = [calls EXCEPT ![c] = Known("link", u, g.email.box, g.subject)]
      BY <2>2 DEF GoogleExisting
    <3>2. Known("link", u, g.email.box, g.subject).pc = "link"
      BY DEF Known
    <3> HIDE DEF g
    <3> QED BY <1>2, <2>1, <2>2, <3>1, <3>2
  <2>3. CASE /\ UsersByEmail(g.email) = {} /\ FoundFree(c, g.email)
             /\ \E name \in Names : Goto(c, Creating("slug", g.email, g.subject, name, 1))
    <3>1. PICK name \in Names :
            calls' = [calls EXCEPT ![c] = Creating("slug", g.email, g.subject, name, 1)]
      BY <2>3
    <3> HIDE DEF g
    <3> QED BY <2>1, <2>3, <3>1, TakeUpAddress
  <2> QED BY <1>5, <2>2, <2>3 DEF GoogleAddress
<1>6. ASSUME NEW c \in Clients, ProbeSlug(c) PROVE DistinctInv'
  <2>1. /\ calls[c] \in [pc : {"slug", "create"}, email : Address, secret : Secrets, try : Try]
        /\ LooksForSlug(c) /\ UNCHANGED <<tableVars, contested>>
    BY <1>1, <1>6, CallKinds DEF ProbeSlug, LooksForSlug
  <2>2. PICK call : /\ calls' = [calls EXCEPT ![c] = call]
                    /\ call.pc \in {"slug", "create"} => call.email = calls[c].email
    <3>1. \/ calls' = [calls EXCEPT ![c] = [calls[c] EXCEPT !.pc = "create"]]
          \/ calls' = [calls EXCEPT ![c] = [calls[c] EXCEPT !.try.n = @ + 1]]
          \/ calls' = [calls EXCEPT ![c] = Idle]
      BY <1>6 DEF ProbeSlug
    <3>2. /\ [calls[c] EXCEPT !.pc = "create"].email = calls[c].email
          /\ [calls[c] EXCEPT !.try.n = @ + 1].email = calls[c].email
      BY <2>1
    <3> QED BY <1>1, <3>1, <3>2
  <2> QED BY <1>2, <2>1, <2>2
<1>7. ASSUME NEW c \in Clients, CreateAccount(c) PROVE DistinctInv'
  <2>1. LooksForSlug(c) /\ UNCHANGED contested /\ calls[c].email \in Address
        /\ calls[c].try \in Try
    BY <1>1, <1>7, CallKinds DEF CreateAccount, LooksForSlug
  <2>2. CASE calls' = [calls EXCEPT ![c] = Idle] /\ UNCHANGED tableVars
    BY <1>1, <1>2, <2>1, <2>2
  <2>3. CASE ~(calls' = [calls EXCEPT ![c] = Idle] /\ UNCHANGED tableVars)
    <3> DEFINE id == Len(users) + 1
               password == IF calls[c].secret \in Passwords THEN calls[c].secret ELSE None
    <3>1. /\ \A u \in DOMAIN slugs : slugs[u] # SlugOf(calls[c].try)
          /\ \A u \in DOMAIN users : users[u].email # calls[c].email
          /\ id <= MaxUsers
          /\ users' = Append(users, [email |-> calls[c].email, active |-> TRUE,
                                     password |-> password])
          /\ slugs' = Append(slugs, SlugOf(calls[c].try))
          /\ members' = members \union {[user |-> id, tenant |-> id, role |-> "owner"]}
      BY <1>7, <2>3 DEF CreateAccount, Taken
    <3>2. PICK call : calls' = [calls EXCEPT ![c] = call] /\ call.pc \notin {"slug", "create"}
      BY <1>1, <1>7, <2>3 DEF CreateAccount, Known
    <3>3. password \in Passwords \union {None}
      OBVIOUS
    <3> HIDE DEF password
    <3>4. /\ DOMAIN users' = DOMAIN users \union {id} /\ id \notin DOMAIN users
          /\ \A u \in DOMAIN users : users'[u] = users[u] /\ slugs'[u] = slugs[u]
          /\ users'[id] = [email |-> calls[c].email, active |-> TRUE, password |-> password]
          /\ slugs'[id] = SlugOf(calls[c].try)
      BY <2>1, <3>1, <3>3, TriedSlugs, NewAccount
    <3>5. users'[id].email = calls[c].email /\ DOMAIN slugs = DOMAIN users
      BY <3>4 DEF TypeOK
    <3>6. \A d \in Clients : calls'[d].pc \in {"slug", "create"} => d # c /\ calls'[d] = calls[d]
      BY <1>1, <3>2
    <3> HIDE DEF id
    <3> QED BY <2>1, <3>1, <3>4, <3>5, <3>6, AccountMade
  <2> QED BY <2>2, <2>3
<1>8. ASSUME NEW c \in Clients, LinkIdentity(c) \/ IssueToken(c) PROVE DistinctInv'
  <2>1. /\ calls[c] \in [pc : {"link", "memberships"}, user : Ids, box : Boxes, secret : Secrets]
        /\ UNCHANGED <<users, slugs, contested>>
    BY <1>1, <1>8, CallKinds DEF LinkIdentity, IssueToken
  <2>2. PICK call : calls' = [calls EXCEPT ![c] = call] /\ call.pc \notin {"slug", "create"}
    <3>1. [calls[c] EXCEPT !.pc = "memberships"].pc = "memberships"
      BY <2>1
    <3> QED BY <1>1, <1>8, <3>1 DEF LinkIdentity, IssueToken
  <2> QED BY <1>2, <2>1, <2>2
<1>9. ASSUME NEW c \in Clients, Authenticate(c) \/ Authorise(c) \/ Handled(c) \/ Cut(c)
      PROVE  DistinctInv'
  <2>1. UNCHANGED <<tableVars, contested>>
    BY <1>9 DEF Authenticate, Authorise, Handled, Cut
  <2>2. PICK call : calls' = [calls EXCEPT ![c] = call] /\ call.pc \notin {"slug", "create"}
    <3>1. CASE Authenticate(c)
      <4>1. PICK token \in tokens, route \in Access :
              calls' = [calls EXCEPT ![c] = Guarded("membership", token, route, None, RolesOf(token))]
        BY <3>1 DEF Authenticate
      <4>2. Guarded("membership", token, route, None, RolesOf(token)).pc = "membership"
        BY DEF Guarded
      <4> QED BY <4>1, <4>2
    <3>2. CASE Authorise(c)
      <4>1. calls[c] \in [pc : {"membership", "acting"}, token : Token, route : Access,
                          role : Roles \union {None}, held : SUBSET Roles]
        BY <1>1, <3>2, CallKinds DEF Authorise
      <4>2. \A role : [calls[c] EXCEPT !.pc = "acting", !.role = role].pc = "acting"
        BY <4>1
      <4> QED BY <1>1, <3>2, <4>2 DEF Authorise
    <3>3. CASE Handled(c) \/ Cut(c)
      BY <1>1, <3>3 DEF Handled, Cut
    <3> QED BY <1>9, <3>1, <3>2, <3>3
  <2> QED BY <1>2, <2>1, <2>2
<1>10. CASE Edit
  <2>1. UNCHANGED <<slugs, contested>>
    BY <1>10 DEF Edit
  <2>2. CASE \E u \in DOMAIN users : Deactivate(u)
    <3>1. PICK u \in DOMAIN users : users' = [users EXCEPT ![u].active = FALSE] /\ UNCHANGED calls
      BY <2>2 DEF Deactivate
    <3>2. \A v \in DOMAIN users : users[v] \in User
      BY DEF TypeOK
    <3>3. DOMAIN users' = DOMAIN users /\ \A v \in DOMAIN users : users'[v].email = users[v].email
      BY <3>1, <3>2 DEF User
    <3> QED BY <2>1, <3>1, <3>3, QuietStep DEF LooksForSlug
  <2>3. CASE \E u \in DOMAIN users, t \in DOMAIN slugs, role \in Roles \union {None} :
               EditMembership(u, t, role)
    <3>1. UNCHANGED users
      BY <2>3 DEF EditMembership
    <3>2. \A c \in Clients : calls'[c].pc \in {"slug", "create"} => calls'[c] = calls[c]
      BY <1>1, <2>3, EditedCalls
    <3> QED BY <2>1, <3>1, <3>2, QuietStep DEF LooksForSlug
  <2> QED BY <1>10, <2>2, <2>3 DEF Edit
<1>11. CASE UNCHANGED vars
  BY <1>11, QuietStep DEF vars, LooksForSlug
<1> QED BY <1>3, <1>4, <1>5, <1>6, <1>7, <1>8, <1>9, <1>10, <1>11 DEF Next, Step

LEMMA DistinctInit == Init => DistinctInv
BY CallsMade DEF Init, DistinctInv, AccountsDistinct, Contention, LooksForSlug

(* Accounts stay distinct, but for a mailbox that two requests found free  *)
(* at the same time, however sign-ups and Google logins interleave.        *)
THEOREM AccountsStayDistinct == Spec => []AccountsDistinct
<1>1. TypeOK /\ DistinctInv /\ [Next]_vars => (TypeOK /\ DistinctInv)'
  BY TypeStep, DistinctStep
<1>2. Init => TypeOK /\ DistinctInv
  BY TypeInit, DistinctInit
<1>3. DistinctInv => AccountsDistinct
  BY DEF DistinctInv
<1> QED BY <1>1, <1>2, <1>3, PTL DEF Spec
-----------------------------------------------------------------------------
(* Revocation: between the two reads of a check, what the user held since  *)
(* the request came in includes every role the user has now.               *)
RequestsKnowRoles ==
  \A c \in Clients : calls[c].pc = "membership" =>
    /\ calls[c].token \in tokens
    /\ \A m \in members :
         m.user = calls[c].token.user /\ m.tenant = calls[c].token.tenant => m.role \in calls[c].held
RevocationInv == RevocationTakesEffect /\ RequestsKnowRoles

(* Steps that take no request through the check; those of a new account    *)
(* add a membership, of nobody who has a token already.                    *)
LEMMA UncheckedStep ==
  ASSUME RevocationInv, TypeOK, NEW c \in Clients, NEW call,
         calls' = [calls EXCEPT ![c] = call], call.pc \notin {"membership", "acting"},
         tokens \subseteq tokens',
         \A m \in members' : m \in members \/ m.user \notin DOMAIN users
  PROVE  RevocationInv'
<1>1. calls'[c] = call /\ \A d \in Clients \ {c} : calls'[d] = calls[d]
  BY DEF TypeOK
<1>2. \A t \in tokens : t.user \in DOMAIN users
  BY DEF TypeOK
<1>3. RevocationTakesEffect'
  BY <1>1 DEF RevocationInv, RevocationTakesEffect
<1>4. RequestsKnowRoles'
  <2> SUFFICES ASSUME NEW d \in Clients, calls'[d].pc = "membership"
               PROVE  /\ calls'[d].token \in tokens'
                      /\ \A m \in members' :
                           m.user = calls'[d].token.user /\ m.tenant = calls'[d].token.tenant
                             => m.role \in calls'[d].held
    BY DEF RequestsKnowRoles
  <2>1. calls'[d] = calls[d] /\ calls[d].pc = "membership"
    BY <1>1
  <2>2. /\ calls[d].token \in tokens
        /\ \A m \in members :
             m.user = calls[d].token.user /\ m.tenant = calls[d].token.tenant => m.role \in calls[d].held
    BY <2>1 DEF RevocationInv, RequestsKnowRoles
  <2> QED BY <1>2, <2>1, <2>2
<1> QED BY <1>3, <1>4 DEF RevocationInv

LEMMA RevocationStep == TypeOK /\ RevocationInv /\ [Next]_vars => RevocationInv'
<1> SUFFICES ASSUME TypeOK, RevocationInv, [Next]_vars PROVE RevocationInv'
  OBVIOUS
<1> USE DEF Begin, Goto, Return, tableVars
<1>1. /\ calls \in [Clients -> CallType] /\ Idle.pc = "idle"
      /\ \A c \in Clients : \A call : calls' = [calls EXCEPT ![c] = call] =>
           calls'[c] = call /\ \A d \in Clients \ {c} : calls'[d] = calls[d]
  BY CallsMade DEF TypeOK
<1>2. ASSUME NEW c \in Clients,
             \/ Signup(c) \/ Login(c) \/ GoogleLogin(c) \/ GoogleAddress(c) \/ ProbeSlug(c)
             \/ LinkIdentity(c) \/ IssueToken(c) \/ Handled(c) \/ Cut(c)
      PROVE  RevocationInv'
  <2>1. tokens \subseteq tokens' /\ UNCHANGED members
    BY <1>2 DEF Signup, Login, GoogleLogin, GoogleAddress, ProbeSlug, LinkIdentity, IssueToken,
                Handled, Cut, Issue
  <2>2. PICK call : calls' = [calls EXCEPT ![c] = call] /\ call.pc \notin {"membership", "acting"}
    <3>1. CASE Signup(c)
      <4>1. PICK box \in Boxes, password \in Passwords, name \in Names :
              calls' = [calls EXCEPT ![c] =
                Creating("slug", [box |-> box, mixed |-> FALSE], password, name, 1)]
        BY <3>1 DEF Signup
      <4>2. Creating("slug", [box |-> box, mixed |-> FALSE], password, name, 1).pc = "slug"
        BY DEF Creating
      <4> QED BY <4>1, <4>2
    <3>6. CASE Login(c) \/ GoogleLogin(c)
      BY <3>6, LoginCalls
    <3>2. CASE GoogleAddress(c)
      <4> DEFINE g == calls[c].google
      <4>1. CASE GoogleExisting(c, g)
        <5>1. PICK u : calls' = [calls EXCEPT ![c] = Known("link", u, g.email.box, g.subject)]
          BY <4>1 DEF GoogleExisting
        <5>2. Known("link", u, g.email.box, g.subject).pc = "link"
          BY DEF Known
        <5> QED BY <5>1, <5>2
      <4>2. CASE \E name \in Names : Goto(c, Creating("slug", g.email, g.subject, name, 1))
        <5>1. PICK name : calls' = [calls EXCEPT ![c] = Creating("slug", g.email, g.subject, name, 1)]
          BY <4>2
        <5>2. Creating("slug", g.email, g.subject, name, 1).pc = "slug"
          BY DEF Creating
        <5> QED BY <5>1, <5>2
      <4> QED BY <3>2, <4>1, <4>2 DEF GoogleAddress
    <3>3. CASE ProbeSlug(c)
      <4>1. calls[c] \in [pc : {"slug", "create"}, email : Address, secret : Secrets, try : Try]
            /\ calls[c].pc = "slug"
        BY <1>1, <3>3, CallKinds DEF ProbeSlug
      <4>2. /\ [calls[c] EXCEPT !.pc = "create"].pc = "create"
            /\ [calls[c] EXCEPT !.try.n = @ + 1].pc = "slug"
        BY <4>1
      <4> QED BY <1>1, <3>3, <4>2 DEF ProbeSlug
    <3>4. CASE LinkIdentity(c)
      <4>1. calls[c] \in [pc : {"link", "memberships"}, user : Ids, box : Boxes, secret : Secrets]
        BY <1>1, <3>4, CallKinds DEF LinkIdentity
      <4>2. [calls[c] EXCEPT !.pc = "memberships"].pc = "memberships"
        BY <4>1
      <4> QED BY <1>1, <3>4, <4>2 DEF LinkIdentity
    <3>5. CASE IssueToken(c) \/ Handled(c) \/ Cut(c)
      BY <1>1, <3>5 DEF IssueToken, Handled, Cut
    <3> QED BY <1>2, <3>1, <3>2, <3>3, <3>4, <3>5, <3>6
  <2> QED BY <2>1, <2>2, UncheckedStep
<1>3. ASSUME NEW c \in Clients, CreateAccount(c) PROVE RevocationInv'
  <2> DEFINE id == Len(users) + 1
  <2>1. tokens \subseteq tokens'
    BY <1>3 DEF CreateAccount, Issue
  <2>2. \A m \in members' : m \in members \/ m.user = id
    BY <1>3 DEF CreateAccount
  <2>3. id \notin DOMAIN users
    BY DEF TypeOK
  <2>4. PICK call : calls' = [calls EXCEPT ![c] = call] /\ call.pc \notin {"membership", "acting"}
    BY <1>1, <1>3 DEF CreateAccount, Known
  <2> HIDE DEF id
  <2> QED BY <2>1, <2>2, <2>3, <2>4, UncheckedStep
<1>4. ASSUME NEW c \in Clients, Authenticate(c) PROVE RevocationInv'
  <2>1. PICK token \in tokens, route \in Access :
          /\ calls' = [calls EXCEPT ![c] = Guarded("membership", token, route, None, RolesOf(token))]
          /\ UNCHANGED <<tableVars, tokens>>
    BY <1>4 DEF Authenticate
  <2> DEFINE call == Guarded("membership", token, route, None, RolesOf(token))
  <2>2. /\ call.pc = "membership" /\ call.token = token
        /\ \A m \in members :
             m.user = call.token.user /\ m.tenant = call.token.tenant => m.role \in call.held
    BY DEF Guarded, RolesOf
  <2> HIDE DEF call
  <2>3. calls'[c] = call /\ \A d \in Clients \ {c} : calls'[d] = calls[d]
    BY <1>1, <2>1 DEF call
  <2>4. RevocationTakesEffect'
    BY <2>2, <2>3 DEF RevocationInv, RevocationTakesEffect
  <2>5. RequestsKnowRoles'
    BY <2>1, <2>2, <2>3 DEF RevocationInv, RequestsKnowRoles
  <2> QED BY <2>4, <2>5 DEF RevocationInv
<1>5. ASSUME NEW c \in Clients, Authorise(c) PROVE RevocationInv'
  <2>1. /\ calls[c] \in [pc : {"membership", "acting"}, token : Token, route : Access,
                         role : Roles \union {None}, held : SUBSET Roles]
        /\ calls[c].pc = "membership" /\ UNCHANGED <<tableVars, tokens>>
    BY <1>1, <1>5, CallKinds DEF Authorise
  <2>2. CASE calls' = [calls EXCEPT ![c] = Idle]
    BY <1>1, <2>1, <2>2, UncheckedStep
  <2>3. CASE \E role \in ContextRole(calls[c].token) \intersect Allowed(calls[c].route) :
               calls' = [calls EXCEPT ![c] = [calls[c] EXCEPT !.pc = "acting", !.role = role]]
    <3>1. PICK role \in RolesOf(calls[c].token) \intersect Allowed(calls[c].route) :
            calls' = [calls EXCEPT ![c] = [calls[c] EXCEPT !.pc = "acting", !.role = role]]
      BY <2>3 DEF ContextRole
    <3>2. role \in calls[c].held
      BY <2>1 DEF RevocationInv, RequestsKnowRoles, RolesOf
    <3> DEFINE call == [calls[c] EXCEPT !.pc = "acting", !.role = role]
    <3>3. /\ call.pc = "acting" /\ call.role = role /\ call.held = calls[c].held
          /\ call.route = calls[c].route
      BY <2>1
    <3> HIDE DEF call
    <3>4. calls'[c] = call /\ \A d \in Clients \ {c} : calls'[d] = calls[d]
      BY <1>1, <3>1 DEF call
    <3>5. RevocationTakesEffect'
      <4> SUFFICES ASSUME NEW d \in Clients, calls'[d].pc = "acting"
                   PROVE  calls'[d].role \in calls'[d].held \intersect Allowed(calls'[d].route)
        BY DEF RevocationTakesEffect
      <4>1. CASE d = c
        BY <3>1, <3>2, <3>3, <3>4, <4>1
      <4>2. CASE d # c
        BY <3>4, <4>2 DEF RevocationInv, RevocationTakesEffect
      <4> QED BY <4>1, <4>2
    <3>6. RequestsKnowRoles'
      BY <2>1, <3>3, <3>4 DEF RevocationInv, RequestsKnowRoles
    <3> QED BY <3>5, <3>6 DEF RevocationInv
  <2> QED BY <1>5, <2>2, <2>3 DEF Authorise
<1>6. CASE Edit
  <2>1. UNCHANGED tokens
    BY <1>6 DEF Edit
  <2>2. CASE \E u \in DOMAIN users : Deactivate(u)
    BY <2>1, <2>2 DEF Deactivate, RevocationInv, RevocationTakesEffect, RequestsKnowRoles
  <2>3. CASE \E u \in DOMAIN users, t \in DOMAIN slugs, role \in Roles \union {None} :
               EditMembership(u, t, role)
    <3>1. PICK u \in DOMAIN users, t \in DOMAIN slugs, role \in Roles \union {None} :
            EditMembership(u, t, role)
      BY <2>3
    <3>2. \A m \in members' : m \in members \/
            (m.user = u /\ m.tenant = t /\ m.role \in {role} \ {None})
      BY <3>1 DEF EditMembership
    <3>3. \A d \in Clients :
            /\ calls'[d].pc = calls[d].pc
            /\ calls[d].pc # "membership" => calls'[d] = calls[d]
            /\ calls[d].pc = "membership" =>
                 /\ calls'[d].token = calls[d].token
                 /\ calls[d].held \subseteq calls'[d].held
                 /\ calls[d].token.user = u /\ calls[d].token.tenant = t =>
                      {role} \ {None} \subseteq calls'[d].held
      BY <1>1, <3>1, EditedCalls
    <3>4. RevocationTakesEffect'
      BY <3>3 DEF RevocationInv, RevocationTakesEffect
    <3>5. RequestsKnowRoles'
      BY <2>1, <3>2, <3>3 DEF RevocationInv, RequestsKnowRoles
    <3> QED BY <3>4, <3>5 DEF RevocationInv
  <2> QED BY <1>6, <2>2, <2>3 DEF Edit
<1>7. CASE UNCHANGED vars
  BY <1>7 DEF vars, RevocationInv, RevocationTakesEffect, RequestsKnowRoles
<1> QED BY <1>2, <1>3, <1>4, <1>5, <1>6, <1>7 DEF Next, Step

LEMMA RevocationInit == Init => RevocationInv
BY CallsMade DEF Init, RevocationInv, RevocationTakesEffect, RequestsKnowRoles

(* A handler never acts with a role that was revoked before its request    *)
(* came in, whatever the claims of the token say.                          *)
THEOREM RevocationAlwaysTakesEffect == Spec => []RevocationTakesEffect
<1>1. TypeOK /\ RevocationInv /\ [Next]_vars => (TypeOK /\ RevocationInv)'
  BY TypeStep, RevocationStep
<1>2. Init => TypeOK /\ RevocationInv
  BY TypeInit, RevocationInit
<1>3. RevocationInv => RevocationTakesEffect
  BY DEF RevocationInv
<1> QED BY <1>1, <1>2, <1>3, PTL DEF Spec
-----------------------------------------------------------------------------
(* Credentials: what a request holds of them is as good as what a token    *)
(* claims, and it stays good while other requests write the tables.        *)
Verified(subject, box) ==
  \E g \in Google : g.subject = subject /\ g.verified /\ g.email.box = box
Presented(us, ids, u, box, secret) ==
  IF secret \in Passwords THEN us[u].password = secret /\ us[u].email.box = box
  ELSE ids[secret] = u
GoodCall(us, ids, call) ==
  /\ call.pc = "memberships" => Presented(us, ids, call.user, call.box, call.secret)
  /\ call.pc = "link" => call.secret \in Subjects /\ Verified(call.secret, us[call.user].email.box)
  /\ call.pc \in {"slug", "create"} /\ call.secret \in Subjects =>
       Verified(call.secret, call.email.box)
  /\ call.pc = "address" => call.google.verified
CredentialsInv ==
  TokensFollowCredentials /\ \A c \in Clients : GoodCall(users, identities, calls[c])

(* The tables change so that no password, no address and no link is lost.  *)
TablesGrow ==
  /\ \A u \in DOMAIN users :
       /\ u \in DOMAIN users'
       /\ users'[u].password = users[u].password /\ users'[u].email = users[u].email
  /\ \A s \in Subjects :
       \/ identities'[s] = identities[s]
       \/ /\ identities[s] = None
          /\ identities'[s] # None => Verified(s, users'[identities'[s]].email.box)

(* What was presented stays presented.                                     *)
LEMMA StaysPresented ==
  ASSUME TypeOK, TablesGrow, NEW u \in DOMAIN users, NEW box, NEW secret \in Secrets,
         Presented(users, identities, u, box, secret)
  PROVE  Presented(users', identities', u, box, secret)
<1>1. CASE secret \in Passwords
  BY <1>1 DEF Presented, TablesGrow
<1>2. CASE secret \notin Passwords
  <2>1. secret \in Subjects /\ u \in Nat
    BY <1>2 DEF Secrets, TypeOK
  <2>2. identities[secret] # None
    BY <1>2, <2>1, AccountsAssumption DEF Presented
  <2> QED BY <1>2, <2>1, <2>2 DEF Presented, TablesGrow
<1> QED BY <1>1, <1>2

(* So do the locals of a request.                                          *)
LEMMA StaysGood ==
  ASSUME TypeOK, TablesGrow, NEW c \in Clients, GoodCall(users, identities, calls[c])
  PROVE  GoodCall(users', identities', calls[c])
<1>1. calls[c] \in CallType
  BY DEF TypeOK
<1>2. CASE calls[c].pc \in {"link", "memberships"}
  <2>1. calls[c].secret \in Secrets /\ calls[c].user \in DOMAIN users
    BY <1>1, <1>2, CallKinds DEF TypeOK
  <2>2. CASE calls[c].pc = "memberships"
    BY <2>1, <2>2, StaysPresented DEF GoodCall
  <2>3. CASE calls[c].pc = "link"
    BY <2>1, <2>3 DEF GoodCall, TablesGrow
  <2> QED BY <1>2, <2>2, <2>3
<1>3. CASE calls[c].pc \notin {"link", "memberships"}
  BY <1>3 DEF GoodCall
<1> QED BY <1>2, <1>3

(* New tokens and new locals that are good keep the invariant.             *)
LEMMA GoodStep ==
  ASSUME TypeOK, CredentialsInv, TablesGrow,
         \A t \in tokens' : t \in tokens \/ Presented(users', identities', t.user, t.box, t.secret),
         \A c \in Clients : calls'[c] = calls[c] \/ GoodCall(users', identities', calls'[c])
  PROVE  CredentialsInv'
<1>1. \A c \in Clients : GoodCall(users', identities', calls'[c])
  BY StaysGood DEF CredentialsInv
<1>2. \A t \in tokens' : Presented(users', identities', t.user, t.box, t.secret)
  <2> SUFFICES ASSUME NEW t \in tokens PROVE Presented(users', identities', t.user, t.box, t.secret)
    OBVIOUS
  <2>1. t.user \in DOMAIN users /\ t.secret \in Secrets
    BY DEF TypeOK, Token
  <2>2. Presented(users, identities, t.user, t.box, t.secret)
    BY DEF CredentialsInv, TokensFollowCredentials, Presented
  <2> QED BY <2>1, <2>2, StaysPresented
<1>3. \A s \in Subjects : identities'[s] # None => Verified(s, users'[identities'[s]].email.box)
  <2> SUFFICES ASSUME NEW s \in Subjects, identities'[s] # None
               PROVE  Verified(s, users'[identities'[s]].email.box)
    OBVIOUS
  <2>1. CASE identities'[s] = identities[s]
    <3>1. identities[s] \in DOMAIN users
      BY <2>1 DEF TypeOK
    <3>2. Verified(s, users[identities[s]].email.box)
      BY <2>1 DEF CredentialsInv, TokensFollowCredentials, Verified
    <3> QED BY <2>1, <3>1, <3>2 DEF TablesGrow
  <2> QED BY <2>1 DEF TablesGrow
<1>4. TokensFollowCredentials'
  BY <1>2, <1>3 DEF TokensFollowCredentials, Presented, Verified
<1> QED BY <1>1, <1>4 DEF CredentialsInv

LEMMA CredentialsStep == TypeOK /\ CredentialsInv /\ [Next]_vars => CredentialsInv'
<1> SUFFICES ASSUME TypeOK, CredentialsInv, [Next]_vars PROVE CredentialsInv'
  OBVIOUS
<1> USE AccountsAssumption DEF Begin, Goto, Return, tableVars
<1>1. /\ calls \in [Clients -> CallType] /\ \A c \in Clients : calls[c] \in CallType
      /\ \A c \in Clients : \A call : calls' = [calls EXCEPT ![c] = call] =>
           calls'[c] = call /\ \A d \in Clients \ {c} : calls'[d] = calls[d]
      /\ \A c \in Clients : GoodCall(users, identities, calls[c])
  BY CallsMade DEF TypeOK, CredentialsInv
<1>2. GoodCall(users', identities', Idle)
  BY DEF GoodCall, Idle
<1>3. ASSUME NEW c \in Clients, NEW call, calls' = [calls EXCEPT ![c] = call],
             GoodCall(users, identities, call), UNCHANGED <<users, identities, tokens>>
      PROVE  CredentialsInv'
  <2>1. TablesGrow
    BY <1>3 DEF TablesGrow
  <2>2. \A d \in Clients : calls'[d] = calls[d] \/ GoodCall(users', identities', calls'[d])
    BY <1>1, <1>3
  <2> QED BY <1>3, <2>1, <2>2, GoodStep
<1>4. ASSUME NEW c \in Clients, Signup(c) PROVE CredentialsInv'
  <2>1. PICK box \in Boxes, password \in Passwords, name \in Names :
          /\ calls' = [calls EXCEPT ![c] =
               Creating("slug", [box |-> box, mixed |-> FALSE], password, name, 1)]
          /\ UNCHANGED <<users, identities, tokens>>
    BY <1>4 DEF Signup
  <2>2. GoodCall(users, identities, Creating("slug", [box |-> box, mixed |-> FALSE], password, name, 1))
    BY DEF GoodCall, Creating
  <2> QED BY <1>3, <2>1, <2>2
<1>5. ASSUME NEW c \in Clients, Login(c) PROVE CredentialsInv'
  <2>1. PICK box \in Boxes, password \in Passwords, u \in DOMAIN users :
          /\ users[u].email.box = box /\ users[u].password = password
          /\ calls' = [calls EXCEPT ![c] = Known("memberships", u, box, password)]
          /\ UNCHANGED <<users, identities, tokens>>
    BY <1>5 DEF Login, UsersByEmail
  <2>2. GoodCall(users, identities, Known("memberships", u, box, password))
    BY <2>1 DEF GoodCall, Known, Presented
  <2> QED BY <1>3, <2>1, <2>2
<1>6. ASSUME NEW c \in Clients, GoogleLogin(c) PROVE CredentialsInv'
  <2>1. PICK g \in Google :
          /\ g.verified
          /\ calls' = [calls EXCEPT ![c] =
               IF identities[g.subject] # None
               THEN Known("memberships", identities[g.subject], g.email.box, g.subject)
               ELSE [pc |-> "address", google |-> g]]
          /\ UNCHANGED <<users, identities, tokens>>
    BY <1>6 DEF GoogleLogin, AcceptedToken
  <2>2. g.subject \notin Passwords
    BY DEF Subjects
  <2>3. GoodCall(users, identities, Known("memberships", identities[g.subject], g.email.box, g.subject))
    BY <2>2 DEF GoodCall, Known, Presented
  <2>4. GoodCall(users, identities, [pc |-> "address", google |-> g])
    BY <2>1 DEF GoodCall
  <2>5. CASE identities[g.subject] # None
    BY <1>3, <2>1, <2>3, <2>5
  <2>6. CASE identities[g.subject] = None
    BY <1>3, <2>1, <2>4, <2>6
  <2> QED BY <2>5, <2>6
<1>7. ASSUME NEW c \in Clients, GoogleAddress(c) PROVE CredentialsInv'
  <2> DEFINE g == calls[c].google
  <2>1. g \in Google /\ g.verified /\ g.subject \in Subjects /\ UNCHANGED <<users, identities, tokens>>
    <3>1. calls[c].pc = "address" /\ g \in Google
      BY <1>1, <1>7, CallKinds DEF GoogleAddress
    <3>2. g.verified
      BY <1>1, <3>1 DEF GoodCall
    <3> QED BY <1>7, <3>1, <3>2 DEF GoogleAddress, Subjects
  <2>2. Verified(g.subject, g.email.box)
    BY <2>1 DEF Verified
  <2>3. CASE GoogleExisting(c, g)
    <3>1. PICK u \in DOMAIN users :
            /\ users[u].email.box = g.email.box
            /\ calls' = [calls EXCEPT ![c] = Known("link", u, g.email.box, g.subject)]
      BY <2>3 DEF GoogleExisting, UsersByEmail
    <3>2. GoodCall(users, identities, Known("link", u, g.email.box, g.subject))
      BY <2>1, <2>2, <3>1 DEF GoodCall, Known
    <3> HIDE DEF g
    <3> QED BY <1>3, <2>1, <3>1, <3>2
  <2>4. CASE \E name \in Names : Goto(c, Creating("slug", g.email, g.subject, name, 1))
    <3>1. PICK name \in Names :
            calls' = [calls EXCEPT ![c] = Creating("slug", g.email, g.subject, name, 1)]
      BY <2>4
    <3>2. GoodCall(users, identities, Creating("slug", g.email, g.subject, name, 1))
      BY <2>2 DEF GoodCall, Creating
    <3> HIDE DEF g
    <3> QED BY <1>3, <2>1, <3>1, <3>2
  <2> QED BY <1>7, <2>3, <2>4 DEF GoogleAddress
<1>8. ASSUME NEW c \in Clients, ProbeSlug(c) PROVE CredentialsInv'
  <2>1. /\ calls[c] \in [pc : {"slug", "create"}, email : Address, secret : Secrets, try : Try]
        /\ calls[c].pc = "slug" /\ UNCHANGED <<users, identities, tokens>>
    BY <1>1, <1>8, CallKinds DEF ProbeSlug
  <2>2. ASSUME NEW call, calls' = [calls EXCEPT ![c] = call], call.pc \in {"slug", "create"},
               call.email = calls[c].email, call.secret = calls[c].secret
        PROVE  CredentialsInv'
    <3>1. GoodCall(users, identities, call)
      BY <1>1, <2>1, <2>2 DEF GoodCall
    <3> QED BY <1>3, <2>1, <2>2, <3>1
  <2>3. CASE calls' = [calls EXCEPT ![c] = [calls[c] EXCEPT !.pc = "create"]]
    <3> DEFINE call == [calls[c] EXCEPT !.pc = "create"]
    <3>1. call.pc = "create" /\ call.email = calls[c].email /\ call.secret = calls[c].secret
      BY <2>1
    <3> HIDE DEF call
    <3> QED BY <2>2, <2>3, <3>1 DEF call
  <2>4. CASE calls' = [calls EXCEPT ![c] = [calls[c] EXCEPT !.try.n = @ + 1]]
    <3> DEFINE call == [calls[c] EXCEPT !.try.n = @ + 1]
    <3>1. call.pc = "slug" /\ call.email = calls[c].email /\ call.secret = calls[c].secret
      BY <2>1
    <3> HIDE DEF call
    <3> QED BY <2>2, <2>4, <3>1 DEF call
  <2>5. CASE calls' = [calls EXCEPT ![c] = Idle]
    BY <1>2, <1>3, <2>1, <2>5
  <2> QED BY <1>8, <2>3, <2>4, <2>5 DEF ProbeSlug
<1>9. ASSUME NEW c \in Clients, CreateAccount(c) PROVE CredentialsInv'
  <2> DEFINE id == Len(users) + 1
             password == IF calls[c].secret \in Passwords THEN calls[c].secret ELSE None
             box == calls[c].email.box
             owner == [user |-> id, tenant |-> id, role |-> "owner"]
             linking == Known("link", id, box, calls[c].secret)
  <2>1. /\ calls[c].pc = "create" /\ calls[c].email \in Address /\ calls[c].try \in Try
        /\ UNCHANGED identities
    BY <1>1, <1>9, CallKinds DEF CreateAccount
  <2>2. CASE calls' = [calls EXCEPT ![c] = Idle] /\ UNCHANGED <<tableVars, tokens>>
    BY <1>2, <1>3, <2>2
  <2>3. CASE ~(calls' = [calls EXCEPT ![c] = Idle] /\ UNCHANGED <<tableVars, tokens>>)
    <3>1. /\ id <= MaxUsers
          /\ users' = Append(users, [email |-> calls[c].email, active |-> TRUE,
                                     password |-> password])
          /\ slugs' = Append(slugs, SlugOf(calls[c].try))
          /\ members' = members \union {[user |-> id, tenant |-> id, role |-> "owner"]}
          /\ \/ /\ calls[c].secret \in Passwords
                /\ Issue(owner, box, calls[c].secret) \/ UNCHANGED tokens
                /\ calls' = [calls EXCEPT ![c] = Idle]
             \/ /\ calls[c].secret \in Subjects /\ UNCHANGED tokens
                /\ calls' = [calls EXCEPT ![c] = linking]
      BY <1>9, <2>3 DEF CreateAccount
    <3>2. password \in Passwords \union {None}
      OBVIOUS
    <3>3. /\ DOMAIN users' = DOMAIN users \union {id} /\ id \notin DOMAIN users
          /\ \A u \in DOMAIN users : users'[u] = users[u]
          /\ users'[id] = [email |-> calls[c].email, active |-> TRUE, password |-> password]
      <4> HIDE DEF password
      <4> QED BY <2>1, <3>1, <3>2, TriedSlugs, NewAccount
    <3>4. users'[id].email.box = box /\ users'[id].password = password
      BY <3>3
    <3>5. TablesGrow
      BY <2>1, <3>3 DEF TablesGrow
    <3>6. CASE /\ calls[c].secret \in Passwords
               /\ Issue(owner, box, calls[c].secret) \/ UNCHANGED tokens
               /\ calls' = [calls EXCEPT ![c] = Idle]
      <4>1. \A t \in tokens' : t \in tokens \/
              (t.user = id /\ t.box = box /\ t.secret = calls[c].secret)
        BY <3>6 DEF Issue
      <4>2. Presented(users', identities', id, box, calls[c].secret)
        BY <3>4, <3>6 DEF Presented
      <4>3. \A d \in Clients : calls'[d] = calls[d] \/ GoodCall(users', identities', calls'[d])
        BY <1>1, <1>2, <3>6
      <4> HIDE DEF id, box
      <4> QED BY <3>5, <4>1, <4>2, <4>3, GoodStep
    <3>7. CASE /\ calls[c].secret \in Subjects /\ UNCHANGED tokens
               /\ calls' = [calls EXCEPT ![c] = linking]
      <4>1. Verified(calls[c].secret, box)
        BY <1>1, <2>1, <3>7 DEF GoodCall
      <4>2. GoodCall(users', identities', linking)
        <5>1. linking.pc = "link" /\ linking.secret = calls[c].secret /\ linking.user = id
          BY DEF Known
        <5> HIDE DEF linking, id, box
        <5> QED BY <3>4, <3>7, <4>1, <5>1 DEF GoodCall
      <4>3. \A d \in Clients : calls'[d] = calls[d] \/ GoodCall(users', identities', calls'[d])
        <5> HIDE DEF linking
        <5> QED BY <1>1, <3>7, <4>2
      <4> QED BY <3>5, <3>7, <4>3, GoodStep
    <3> QED BY <3>1, <3>6, <3>7
  <2> QED BY <2>2, <2>3
<1>10. ASSUME NEW c \in Clients, LinkIdentity(c) PROVE CredentialsInv'
  <2>1. /\ calls[c] \in [pc : {"link", "memberships"}, user : Ids, box : Boxes, secret : Secrets]
        /\ calls[c].pc = "link" /\ UNCHANGED <<users, tokens>> /\ calls[c].user \in DOMAIN users
    BY <1>1, <1>10, CallKinds DEF LinkIdentity, TypeOK
  <2>2. calls[c].secret \in Subjects /\ Verified(calls[c].secret, users[calls[c].user].email.box)
    BY <1>1, <2>1 DEF GoodCall
  <2>3. CASE calls' = [calls EXCEPT ![c] = Idle] /\ UNCHANGED identities
    <3>1. GoodCall(users, identities, Idle)
      BY DEF GoodCall, Idle
    <3> QED BY <1>3, <2>1, <2>3, <3>1
  <2>4. CASE /\ identities[calls[c].secret] = None
             /\ identities' = [identities EXCEPT ![calls[c].secret] = calls[c].user]
             /\ calls' = [calls EXCEPT ![c] = [calls[c] EXCEPT !.pc = "memberships"]]
    <3> DEFINE call == [calls[c] EXCEPT !.pc = "memberships"]
    <3>1. /\ identities'[calls[c].secret] = calls[c].user
          /\ \A s \in Subjects \ {calls[c].secret} : identities'[s] = identities[s]
      BY <2>2, <2>4 DEF TypeOK
    <3>2. TablesGrow
      BY <2>1, <2>2, <2>4, <3>1 DEF TablesGrow
    <3>3. call.pc = "memberships" /\ call.user = calls[c].user /\ call.secret = calls[c].secret
      BY <2>1
    <3> HIDE DEF call
    <3>4. GoodCall(users', identities', call)
      BY <2>2, <3>1, <3>3 DEF GoodCall, Presented
    <3>5. \A d \in Clients : calls'[d] = calls[d] \/ GoodCall(users', identities', calls'[d])
      BY <1>1, <2>4, <3>4 DEF call
    <3> QED BY <2>1, <3>2, <3>5, GoodStep
  <2> QED BY <1>10, <2>3, <2>4 DEF LinkIdentity
<1>11. ASSUME NEW c \in Clients, IssueToken(c) PROVE CredentialsInv'
  <2>1. /\ calls[c].pc = "memberships" /\ calls' = [calls EXCEPT ![c] = Idle]
        /\ UNCHANGED <<users, identities>>
    BY <1>11 DEF IssueToken
  <2>2. Presented(users', identities', calls[c].user, calls[c].box, calls[c].secret)
    BY <1>1, <2>1 DEF GoodCall, Presented
  <2>3. \A t \in tokens' : t \in tokens \/
          (t.user = calls[c].user /\ t.box = calls[c].box /\ t.secret = calls[c].secret)
    BY <1>11 DEF IssueToken, Issue
  <2>4. TablesGrow
    BY <2>1 DEF TablesGrow
  <2>5. \A d \in Clients : calls'[d] = calls[d] \/ GoodCall(users', identities', calls'[d])
    BY <1>1, <1>2, <2>1
  <2> QED BY <2>2, <2>3, <2>4, <2>5, GoodStep
<1>12. ASSUME NEW c \in Clients, Authenticate(c) \/ Authorise(c) \/ Handled(c) \/ Cut(c)
       PROVE  CredentialsInv'
  <2>1. UNCHANGED <<users, identities, tokens>>
    BY <1>12 DEF Authenticate, Authorise, Handled, Cut
  <2>2. ASSUME NEW call, calls' = [calls EXCEPT ![c] = call], call.pc \in {"membership", "acting"}
        PROVE  CredentialsInv'
    <3>1. GoodCall(users, identities, call)
      BY <2>2 DEF GoodCall
    <3> QED BY <1>3, <2>1, <2>2, <3>1
  <2>3. CASE Authenticate(c)
    <3>1. PICK token \in tokens, route \in Access :
            calls' = [calls EXCEPT ![c] = Guarded("membership", token, route, None, RolesOf(token))]
      BY <2>3 DEF Authenticate
    <3>2. Guarded("membership", token, route, None, RolesOf(token)).pc = "membership"
      BY DEF Guarded
    <3> QED BY <2>2, <3>1, <3>2
  <2>4. CASE calls' = [calls EXCEPT ![c] = Idle]
    <3>1. GoodCall(users, identities, Idle)
      BY DEF GoodCall, Idle
    <3> QED BY <1>3, <2>1, <2>4, <3>1
  <2>5. CASE Authorise(c) /\ calls' # [calls EXCEPT ![c] = Idle]
    <3>1. calls[c] \in [pc : {"membership", "acting"}, token : Token, route : Access,
                        role : Roles \union {None}, held : SUBSET Roles]
      BY <1>1, <2>5, CallKinds DEF Authorise
    <3>2. PICK role :
            calls' = [calls EXCEPT ![c] = [calls[c] EXCEPT !.pc = "acting", !.role = role]]
      BY <2>5 DEF Authorise
    <3>3. [calls[c] EXCEPT !.pc = "acting", !.role = role].pc = "acting"
      BY <3>1
    <3> QED BY <2>2, <3>2, <3>3
  <2> QED BY <1>12, <2>3, <2>4, <2>5 DEF Handled, Cut
<1>13. CASE Edit
  <2>1. UNCHANGED <<identities, tokens>>
    BY <1>13 DEF Edit
  <2>2. CASE \E u \in DOMAIN users : Deactivate(u)
    <3>1. PICK u \in DOMAIN users : users' = [users EXCEPT ![u].active = FALSE] /\ UNCHANGED calls
      BY <2>2 DEF Deactivate
    <3>2. \A v \in DOMAIN users : users[v] \in User
      BY DEF TypeOK
    <3>3. \A v \in DOMAIN users :
            /\ v \in DOMAIN users' /\ users'[v].email = users[v].email
            /\ users'[v].password = users[v].password
      BY <3>1, <3>2 DEF User
    <3>4. TablesGrow
      BY <2>1, <3>3 DEF TablesGrow
    <3> QED BY <2>1, <3>1, <3>4, GoodStep
  <2>3. CASE \E u \in DOMAIN users, t \in DOMAIN slugs, role \in Roles \union {None} :
               EditMembership(u, t, role)
    <3>1. UNCHANGED users
      BY <2>3 DEF EditMembership
    <3>2. \A c \in Clients : calls'[c] = calls[c] \/ calls'[c].pc = "membership"
      BY <1>1, <2>3, EditedCalls
    <3>3. \A c \in Clients : calls'[c] = calls[c] \/ GoodCall(users', identities', calls'[c])
      BY <3>2 DEF GoodCall
    <3>4. TablesGrow
      BY <2>1, <3>1 DEF TablesGrow
    <3> QED BY <2>1, <3>3, <3>4, GoodStep
  <2> QED BY <1>13, <2>2, <2>3 DEF Edit
<1>14. CASE UNCHANGED vars
  <2>1. TablesGrow
    BY <1>14 DEF vars, TablesGrow
  <2> QED BY <1>14, <2>1, GoodStep DEF vars
<1> QED BY <1>4, <1>5, <1>6, <1>7, <1>8, <1>9, <1>10, <1>11, <1>12, <1>13, <1>14 DEF Next, Step

LEMMA CredentialsInit == Init => CredentialsInv
BY DEF Init, CredentialsInv, TokensFollowCredentials, GoodCall, Idle

(* Every token answers for the password of its account or for a Google     *)
(* subject linked to it, and links follow verified addresses only.         *)
THEOREM TokensAlwaysFollowCredentials == Spec => []TokensFollowCredentials
<1>1. TypeOK /\ CredentialsInv /\ [Next]_vars => (TypeOK /\ CredentialsInv)'
  BY TypeStep, CredentialsStep
<1>2. Init => TypeOK /\ CredentialsInv
  BY TypeInit, CredentialsInit
<1>3. CredentialsInv => TokensFollowCredentials
  BY DEF CredentialsInv
<1> QED BY <1>1, <1>2, <1>3, PTL DEF Spec
=============================================================================
