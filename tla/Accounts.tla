------------------------------ MODULE Accounts ------------------------------
(***************************************************************************)
(* Control-plane accounts: signing in (passwords, OpenID, command line,    *)
(* refresh tokens), organizations with members and invitations, and        *)
(* personal access tokens.  A request runs in a thread of the API server   *)
(* and is suspended at every repository call: requests of other threads,   *)
(* possibly of another process on the same database, run in between.       *)
(* Each call is made on both implementations of the repository; the        *)
(* service continues with the answer of the store.                         *)
(***************************************************************************)
EXTENDS IdentityRepository, TLC

CONSTANTS Threads,      \* requests in progress at the same time
          Emails,       \* addresses of people
          Identities,   \* (issuer, subject) pairs of the OpenID provider
          MaxTokens, MaxCodes, MaxInvites, MaxPats   \* rows of each kind

ASSUME AccountsAssumption == {MaxTokens, MaxCodes, MaxInvites, MaxPats} \subseteq Nat

VARIABLES idStore, idPg,  \* contents of the two repositories
          idAgreed,       \* both gave the same answers so far
          idReq,          \* what each thread is doing
          idNow,          \* the clock: 0, then 1 once everything issued before has expired
          codes,          \* controlOIDCCodes and controlCLICodes of the server
          logins,         \* history: <<identity, user>> of completed OpenID logins
          redeemedFor     \* history: refresh token -> the token it was obtained with, 0 if none

accountsVars == <<idStore, idPg, idAgreed, idReq, idNow, codes, logins, redeemedFor>>

NoReq == [op |-> "idle"]
NoIdentity == [identity |-> "none"]
Roles == {"owner", "admin", "viewer"}
Scopes == {"workers:read", "members:write", "members:owner"}

(* What a role grants, restricted to the scopes the model tells apart.     *)
RoleScopes(role) ==
    CASE role = "owner" -> Scopes
      [] role = "admin" -> {"workers:read", "members:write"}
      [] OTHER -> {"workers:read"}

(* A repository call that writes, on both implementations.                 *)
IdCall(s, p) ==
    /\ idStore' = s.db /\ idPg' = p.db
    /\ idAgreed' = (idAgreed /\ s.out = p.out)

Goto(t, r) == idReq' = [idReq EXCEPT ![t] = r]
Finish(t) == Goto(t, NoReq)
Is(t, op) == idReq[t].op = op
Read(t, op, r) == Is(t, op) /\ Goto(t, r) /\ UNCHANGED <<idStore, idPg, idAgreed>>

SigninRest == <<idNow, logins, redeemedFor>>

---------------------------------------------------------------------------
(* Signing in.                                                             *)

InSession(user, via, token) == [op |-> "session", user |-> user, via |-> via, token |-> token]
FreshUser(e) == [id |-> Cardinality(DOMAIN idStore.users) + 1, email |-> e]

(* POST /v1/auth/signup: the account, then its session.                    *)
Signup(t, e) ==
    /\ Is(t, "idle")
    /\ LET u == FreshUser(e)
           s == StoreCreateUser(idStore, u)
       IN  /\ IdCall(s, PgCreateUser(idPg, u))
           /\ Goto(t, IF s.out = "ok" THEN InSession(u.id, NoIdentity, 0) ELSE NoReq)
    /\ UNCHANGED <<codes, SigninRest>>

(* POST /v1/auth/login with the right password of an account.              *)
Login(t, e) ==
    /\ StoreUserByEmail(idStore, e) # NotFound
    /\ Read(t, "idle", InSession(StoreUserByEmail(idStore, e).id, NoIdentity, 0))
    /\ UNCHANGED <<codes, SigninRest>>

(* The provider's callback keeps the verified claims under a one-time code *)
(* in the memory of the server; so does a signed-in user's request for a   *)
(* command-line code.                                                      *)
KeepCode(c) ==
    /\ Cardinality(codes) < MaxCodes
    /\ codes' = codes \cup {c @@ [expires |-> idNow + 1]}
    /\ UNCHANGED <<idStore, idPg, idAgreed, idReq, SigninRest>>

ControlOIDCCallback(i, e) == KeepCode([kind |-> "oidc", identity |-> i, email |-> e])
ControlCLICode(user) ==
    /\ user \in DOMAIN idStore.users
    /\ KeepCode([kind |-> "cli", user |-> user])

(* Redeeming a code deletes it under the server's mutex, expired or not.   *)
TakeCode(t, c, r) ==
    /\ c \in codes /\ codes' = codes \ {c}
    /\ Read(t, "idle", IF c.expires > idNow THEN r ELSE NoReq)
    /\ UNCHANGED SigninRest

ControlOIDCSession(t, c) ==
    /\ c.kind = "oidc"
    /\ TakeCode(t, c, [op |-> "oidc identity", identity |-> c.identity, email |-> c.email])

ControlCLISession(t, c) ==
    /\ c.kind = "cli"
    /\ TakeCode(t, c, [op |-> "user", user |-> c.user, token |-> 0])

LoginOIDC(t) ==
    /\ Is(t, "oidc identity")
    /\ LET r == idReq[t]
           u == StoreUserByOIDCIdentity(idStore, r.identity)
       IN  Read(t, "oidc identity",
                IF u # NotFound THEN InSession(u.id, [identity |-> r.identity], 0)
                ELSE [r EXCEPT !.op = "oidc email"])
    /\ UNCHANGED <<codes, SigninRest>>

Linking(r, user) == [op |-> "oidc link", identity |-> r.identity, user |-> user]

LoginOIDCByEmail(t) ==
    /\ Is(t, "oidc email")
    /\ LET r == idReq[t]
           u == StoreUserByEmail(idStore, r.email)
       IN  Read(t, "oidc email",
                IF u # NotFound THEN Linking(r, u.id) ELSE [r EXCEPT !.op = "oidc create"])
    /\ UNCHANGED <<codes, SigninRest>>

(* Another request may have created the account since the lookup.          *)
LoginOIDCCreate(t) ==
    /\ Is(t, "oidc create")
    /\ LET r == idReq[t]
           u == FreshUser(r.email)
           s == StoreCreateUser(idStore, u)
       IN  /\ IdCall(s, PgCreateUser(idPg, u))
           /\ Goto(t, IF s.out = "ok" THEN Linking(r, u.id) ELSE [r EXCEPT !.op = "oidc email"])
    /\ UNCHANGED <<codes, SigninRest>>

(* Or have linked the identity first: then its account is the one used.    *)
LoginOIDCLink(t) ==
    /\ Is(t, "oidc link")
    /\ LET r == idReq[t]
           s == StoreCreateOIDCIdentity(idStore, r.identity, r.user)
       IN  /\ IdCall(s, PgCreateOIDCIdentity(idPg, r.identity, r.user))
           /\ Goto(t, IF s.out = "ok" THEN InSession(r.user, [identity |-> r.identity], 0)
                      ELSE [op |-> "oidc winner", identity |-> r.identity, user |-> r.user])
    /\ UNCHANGED <<codes, SigninRest>>

\* Mutant: the account of the losing request, not the linked one.
OwnUser(r) == r.user

LinkedUser(r) == StoreUserByOIDCIdentity(idStore, r.identity).id

LoginOIDCWinner(t) ==
    /\ Is(t, "oidc winner")
    /\ Read(t, "oidc winner", InSession(LinkedUser(idReq[t]), [identity |-> idReq[t].identity], 0))
    /\ UNCHANGED <<codes, SigninRest>>

(* POST /v1/auth/refresh: look the token up, revoke it, open a session.    *)
Refresh(t, k) ==
    /\ Is(t, "idle") /\ StoreControlRefreshToken(idStore, k) # NotFound
    /\ LET token == StoreControlRefreshToken(idStore, k)
       IN  /\ ~token.revoked /\ token.expires > idNow
           /\ Read(t, "idle", [op |-> "refresh", token |-> token])
    /\ UNCHANGED <<codes, SigninRest>>

RefreshRevoke(t) ==
    /\ Is(t, "refresh")
    /\ LET token == [idReq[t].token EXCEPT !.revoked = TRUE]
           s == StoreUpdateControlRefreshToken(idStore, token)
       IN  /\ IdCall(s, PgUpdateControlRefreshToken(idPg, token))
           /\ Goto(t, IF s.out = "ok" THEN [op |-> "user", user |-> token.user, token |-> token.hash]
                      ELSE NoReq)
    /\ UNCHANGED <<codes, SigninRest>>

SessionForUserID(t) ==
    /\ Is(t, "user") /\ StoreUserByID(idStore, idReq[t].user) # NotFound
    /\ Read(t, "user", InSession(idReq[t].user, NoIdentity, idReq[t].token))
    /\ UNCHANGED <<codes, SigninRest>>

(* The session's own refresh token: issueRefreshToken.                     *)
SessionForUser(t) ==
    /\ Is(t, "session") /\ Cardinality(DOMAIN idStore.controlRefresh) < MaxTokens
    /\ LET r == idReq[t]
           k == [hash |-> Cardinality(DOMAIN idStore.controlRefresh) + 1, user |-> r.user,
                 expires |-> idNow + 1, revoked |-> FALSE]
       IN  /\ IdCall(StoreCreateControlRefreshToken(idStore, k), PgCreateControlRefreshToken(idPg, k))
           /\ redeemedFor' = Put(redeemedFor, k.hash, r.token)
           /\ logins' = IF r.via = NoIdentity THEN logins
                        ELSE logins \cup {<<r.via.identity, r.user>>}
    /\ Finish(t)
    /\ UNCHANGED <<codes, idNow>>

(* Everything issued so far runs out.                                      *)
TimePasses ==
    /\ idNow = 0 /\ idNow' = 1
    /\ UNCHANGED <<idStore, idPg, idAgreed, idReq, codes, logins, redeemedFor>>

SigninNext ==
    \/ \E t \in Threads :
        \/ \E e \in Emails : Signup(t, e)
        \/ \E c \in codes : ControlOIDCSession(t, c)
        \/ LoginOIDC(t) \/ LoginOIDCByEmail(t) \/ LoginOIDCCreate(t) \/ LoginOIDCLink(t)
        \/ LoginOIDCWinner(t) \/ SessionForUser(t)
    \/ \E i \in Identities, e \in Emails : ControlOIDCCallback(i, e)
    \/ TimePasses

SessionNext ==
    \/ \E t \in Threads :
        \/ \E e \in Emails : Login(t, e)
        \/ \E c \in codes : ControlCLISession(t, c)
        \/ \E k \in DOMAIN idStore.controlRefresh : Refresh(t, k)
        \/ RefreshRevoke(t) \/ SessionForUserID(t) \/ SessionForUser(t)
    \/ \E u \in DOMAIN idStore.users : ControlCLICode(u)
    \/ TimePasses

---------------------------------------------------------------------------
(* Organizations and members.                                              *)

MembersRest == <<codes, SigninRest>>
Role(user, org) == StoreOrganizationMembership(idStore, user, org)

(* authenticateControlRequest with a session token: the scopes of the      *)
(* caller's membership are read once, when the request starts.             *)
AuthenticateControlRequest(t, user, org) ==
    /\ Role(user, org) # NotFound
    /\ Read(t, "idle", [op |-> "authenticated", user |-> user, org |-> org,
                        scopes |-> Role(user, org).scopes])
    /\ UNCHANGED MembersRest

RequireScope(t, scope) == scope \in idReq[t].scopes

(* POST /v1/organizations: the organization, then its owner.               *)
CreateOrganization(t, user) ==
    /\ Is(t, "idle") /\ user \in DOMAIN idStore.users /\ DOMAIN idStore.organizations = {}
    /\ LET o == [id |-> 1, usage |-> "default"]
       IN  IdCall(StoreCreateOrganization(idStore, o), PgCreateOrganization(idPg, o))
    /\ Goto(t, [op |-> "first owner", user |-> user, org |-> 1])
    /\ UNCHANGED MembersRest

Upsert(m) == IdCall(StoreUpsertOrganizationMembership(idStore, m),
                    PgUpsertOrganizationMembership(idPg, m))
Membership(user, org, role) ==
    [user |-> user, org |-> org, role |-> role, scopes |-> RoleScopes(role)]

CreateOrganizationOwner(t) ==
    /\ Is(t, "first owner")
    /\ Upsert(Membership(idReq[t].user, idReq[t].org, "owner"))
    /\ Finish(t) /\ UNCHANGED MembersRest

CreateOrganizationInvite(t, e, role) ==
    /\ Is(t, "authenticated") /\ RequireScope(t, "members:write")
    /\ role = "owner" => RequireScope(t, "members:owner")
    /\ Cardinality(DOMAIN idStore.invites) < MaxInvites
    /\ LET n == Cardinality(DOMAIN idStore.invites) + 1
           v == [id |-> n, hash |-> n, org |-> idReq[t].org, email |-> e, role |-> role,
                 inviter |-> idReq[t].user, expires |-> idNow + 1, accepted |-> FALSE,
                 revoked |-> FALSE]
       IN  IdCall(StoreCreateOrganizationInvite(idStore, v), PgCreateOrganizationInvite(idPg, v))
    /\ Finish(t) /\ UNCHANGED MembersRest

(* Revoking and accepting both write back the invitation they read.        *)
RevokeInvite(t, id) ==
    /\ Is(t, "authenticated") /\ RequireScope(t, "members:write")
    /\ LET v == StoreOrganizationInviteByID(idStore, idReq[t].org, id)
       IN  /\ v # NotFound
           /\ Read(t, "authenticated",
                   IF v.accepted \/ v.revoked THEN NoReq
                   ELSE [op |-> "invite", invite |-> [v EXCEPT !.revoked = TRUE]])
    /\ UNCHANGED MembersRest

AcceptInvite(t, hash) ==
    /\ LET v == StoreOrganizationInviteByTokenHash(idStore, hash)
       IN  /\ v # NotFound /\ ~v.revoked /\ ~v.accepted /\ v.expires > idNow
           /\ StoreUserByEmail(idStore, v.email) # NotFound
           /\ Read(t, "idle", [op |-> "accept", invite |-> v,
                               user |-> StoreUserByEmail(idStore, v.email).id])
    /\ UNCHANGED MembersRest

AcceptInviteJoin(t) ==
    /\ Is(t, "accept")
    /\ LET r == idReq[t]
       IN  /\ Upsert(Membership(r.user, r.invite.org, r.invite.role))
           /\ Goto(t, [op |-> "invite", invite |-> [r.invite EXCEPT !.accepted = TRUE]])
    /\ UNCHANGED MembersRest

UpdateInvite(t) ==
    /\ Is(t, "invite")
    /\ LET v == idReq[t].invite
       IN  IdCall(StoreUpdateOrganizationInvite(idStore, v), PgUpdateOrganizationInvite(idPg, v))
    /\ Finish(t) /\ UNCHANGED MembersRest

(* PATCH and DELETE of a member: the handler reads the membership to       *)
(* decide whether the change concerns an owner.                            *)
TouchesOwner(current, role) == current.role = "owner" \/ role = "owner"

UpdateOrganizationMember(t, user, role) ==
    /\ Is(t, "authenticated") /\ RequireScope(t, "members:write")
    /\ LET current == Role(user, idReq[t].org)
       IN  /\ current # NotFound
           /\ TouchesOwner(current, role) => RequireScope(t, "members:owner")
    /\ Read(t, "authenticated",
            [op |-> "change member", user |-> user, org |-> idReq[t].org, role |-> role])
    /\ UNCHANGED MembersRest

(* UpdateMembership and DeleteMembership (role "none") read the membership *)
(* again, count the owners when one would be lost, and write.              *)
ReadMembership(t) ==
    /\ Is(t, "change member")
    /\ LET r == idReq[t]
           existing == Role(r.user, r.org)
       IN  Read(t, "change member",
                IF existing = NotFound THEN NoReq
                ELSE IF existing.role = "owner" /\ r.role # "owner"
                THEN [r EXCEPT !.op = "count owners"]
                ELSE [r EXCEPT !.op = "write member"])
    /\ UNCHANGED MembersRest

KeepsAnOwner(t) ==
    /\ Is(t, "count owners")
    /\ Read(t, "count owners",
            IF StoreOwnerCount(idStore, idReq[t].org) <= 1 THEN NoReq
            ELSE [idReq[t] EXCEPT !.op = "write member"])
    /\ UNCHANGED MembersRest

UpdateMembership(t) ==
    /\ Is(t, "write member") /\ idReq[t].role # "none"
    /\ Upsert(Membership(idReq[t].user, idReq[t].org, idReq[t].role))
    /\ Finish(t) /\ UNCHANGED MembersRest

DeleteMembership(t) ==
    /\ Is(t, "write member") /\ idReq[t].role = "none"
    /\ LET r == idReq[t]
       IN  IdCall(StoreDeleteOrganizationMembership(idStore, r.user, r.org),
                  PgDeleteOrganizationMembership(idPg, r.user, r.org))
    /\ Finish(t) /\ UNCHANGED MembersRest

Users == DOMAIN idStore.users
Orgs == DOMAIN idStore.organizations

MembersNext ==
    \/ \E t \in Threads :
        \/ \E u \in Users : \/ CreateOrganization(t, u)
                            \/ \E o \in Orgs : AuthenticateControlRequest(t, u, o)
                            \/ \E role \in Roles \cup {"none"} : UpdateOrganizationMember(t, u, role)
        \/ \E e \in Emails, role \in Roles : CreateOrganizationInvite(t, e, role)
        \/ \E v \in DOMAIN idStore.invites : RevokeInvite(t, v) \/ AcceptInvite(t, v)
        \/ CreateOrganizationOwner(t) \/ AcceptInviteJoin(t) \/ UpdateInvite(t)
        \/ ReadMembership(t) \/ KeepsAnOwner(t) \/ UpdateMembership(t) \/ DeleteMembership(t)
    \/ TimePasses

---------------------------------------------------------------------------
(* Personal access tokens.                                                 *)

UserWide == 0   \* the organization of a token that is good for all of its user's

CreatePersonalAccessToken(t, user, org, scopes) ==
    /\ Is(t, "idle") /\ user \in Users /\ Cardinality(DOMAIN idStore.pats) < MaxPats
    /\ org # UserWide => /\ Role(user, org) # NotFound
                         /\ scopes \subseteq Role(user, org).scopes
    /\ LET n == Cardinality(DOMAIN idStore.pats) + 1
           p == [id |-> n, hash |-> n, user |-> user, org |-> org, scopes |-> scopes,
                 expires |-> idNow + 1, used |-> FALSE, revoked |-> FALSE]
       IN  IdCall(StoreCreatePersonalAccessToken(idStore, p), PgCreatePersonalAccessToken(idPg, p))
    /\ UNCHANGED <<idReq, MembersRest>>

RevokePersonalAccessToken(t, user, id) ==
    /\ \E p \in StorePersonalAccessTokensByUser(idStore, user) :
          /\ p.id = id
          /\ Read(t, "idle", [op |-> "pat", pat |-> [p EXCEPT !.revoked = TRUE]])
    /\ UNCHANGED MembersRest

(* A request carrying the token, for an organization; and the session the  *)
(* command line opens with one.  Both write back the record they read,     *)
(* with the time of use, once the token's user and membership are read.    *)
ScopeIntersection(p, org) ==
    IF p.org # UserWide THEN p.scopes
    ELSE IF Role(p.user, org) = NotFound THEN {} ELSE p.scopes \cap Role(p.user, org).scopes

ValidatePersonalAccessToken(t, hash, org) ==
    /\ LET p == StorePersonalAccessTokenByHash(idStore, hash)
       IN  /\ p # NotFound /\ ~p.revoked /\ p.expires > idNow
           /\ Read(t, "idle", [op |-> "validate pat", pat |-> p, org |-> org])
    /\ UNCHANGED MembersRest

SessionForPersonalAccessToken(t, hash) ==
    /\ LET p == StorePersonalAccessTokenByHash(idStore, hash)
       IN  /\ p # NotFound /\ ~p.revoked /\ p.expires > idNow
           /\ Read(t, "idle", [op |-> "pat", pat |-> [p EXCEPT !.used = TRUE]])
    /\ UNCHANGED MembersRest

ValidateScopes(t) ==
    /\ Is(t, "validate pat")
    /\ LET p == idReq[t].pat
       IN  Read(t, "validate pat",
                IF ScopeIntersection(p, idReq[t].org) = {} /\ p.org = UserWide THEN NoReq
                ELSE [op |-> "pat", pat |-> [p EXCEPT !.used = TRUE]])
    /\ UNCHANGED MembersRest

UpdatePersonalAccessToken(t) ==
    /\ Is(t, "pat")
    /\ LET p == idReq[t].pat
       IN  IdCall(StoreUpdatePersonalAccessToken(idStore, p), PgUpdatePersonalAccessToken(idPg, p))
    /\ Finish(t) /\ UNCHANGED MembersRest

PatsNext ==
    \/ \E t \in Threads :
        \/ \E u \in Users :
            \/ \E o \in Orgs \cup {UserWide}, s \in {{"workers:read"}, Scopes} :
                  CreatePersonalAccessToken(t, u, o, s)
            \/ \E p \in DOMAIN idStore.pats : RevokePersonalAccessToken(t, u, p)
        \/ \E p \in DOMAIN idStore.pats : \/ SessionForPersonalAccessToken(t, p)
                                          \/ \E o \in Orgs : ValidatePersonalAccessToken(t, p, o)
        \/ ValidateScopes(t) \/ UpdatePersonalAccessToken(t)
    \/ TimePasses

---------------------------------------------------------------------------
(* The accounts a flow starts from: none, or the given ones, who signed up *)
(* before, with the first an owner of the organization when there is one.  *)
Seeded(users, owner) ==
    LET rows == {[id |-> n, email |-> users[n]] : n \in DOMAIN users}
        orgs == IF owner THEN {[id |-> 1, usage |-> "default"]} ELSE {}
        members == IF owner THEN {Membership(1, 1, "owner"), Membership(2, 1, "viewer")} ELSE {}
    IN  /\ idStore = [StoreIdentity EXCEPT
                !.users = [n \in DOMAIN users |-> [id |-> n, email |-> users[n]]],
                !.usersByEmail = [e \in {users[n] : n \in DOMAIN users} |->
                                     CHOOSE n \in DOMAIN users : users[n] = e],
                !.organizations = [o \in (IF owner THEN {1} ELSE {}) |-> [id |-> 1, usage |-> "default"]],
                !.memberships = [k \in {<<m.user, m.org>> : m \in members} |->
                                     CHOOSE m \in members : <<m.user, m.org>> = k]]
        /\ idPg = [PgIdentity EXCEPT !.users = rows, !.organizations = orgs,
                                     !.user_organizations = members]

AccountsInit ==
    /\ idAgreed = TRUE /\ idNow = 0 /\ codes = {} /\ logins = {}
    /\ redeemedFor = None
    /\ idReq = [t \in Threads |-> NoReq]

---------------------------------------------------------------------------
(* Every lookup and listing the services make finds the same in the maps   *)
(* of the store, through whichever index it goes, and in the tables of     *)
(* PostgreSQL, and every write was accepted or refused by both.            *)
IdentityBackendsAgree ==
    /\ idAgreed
    /\ StoreUserCount(idStore) = PgUserCount(idPg)
    /\ StoreListOrganizations(idStore) = PgListOrganizations(idPg)
    /\ \A e \in Emails : StoreUserByEmail(idStore, e) = PgUserByEmail(idPg, e)
    /\ \A i \in Identities : StoreUserByOIDCIdentity(idStore, i) = PgUserByOIDCIdentity(idPg, i)
    /\ \A k \in 1..MaxTokens : StoreControlRefreshToken(idStore, k) = PgControlRefreshToken(idPg, k)
    /\ \A p \in 1..MaxPats :
          StorePersonalAccessTokenByHash(idStore, p) = PgPersonalAccessTokenByHash(idPg, p)
    /\ \A u \in Users :
          /\ StoreUserByID(idStore, u) = PgUserByID(idPg, u)
          /\ StorePersonalAccessTokensByUser(idStore, u) = PgPersonalAccessTokensByUser(idPg, u)
          /\ StoreListOrganizationsForUser(idStore, u) = PgListOrganizationsForUser(idPg, u)
          /\ StoreCountOwnedOrganizationsByUser(idStore, u) = PgCountOwnedOrganizationsByUser(idPg, u)
          /\ \A o \in Orgs :
                /\ StoreOrganizationMembership(idStore, u, o) = PgOrganizationMembership(idPg, u, o)
                /\ StoreUserBelongsToOrganization(idStore, u, o)
                     = PgUserBelongsToOrganization(idPg, u, o)
    /\ \A o \in Orgs :
          /\ StoreGetOrganization(idStore, o) = PgGetOrganization(idPg, o)
          /\ StoreListOrganizationMembers(idStore, o) = PgListOrganizationMembers(idPg, o)
          /\ StoreOwnerCount(idStore, o) = PgOwnerCount(idPg, o)
          /\ StoreOrganizationInvitesByOrg(idStore, o) = PgOrganizationInvitesByOrg(idPg, o)
          /\ \A v \in 1..MaxInvites :
                StoreOrganizationInviteByID(idStore, o, v) = PgOrganizationInviteByID(idPg, o, v)
    /\ \A v \in 1..MaxInvites :
          StoreOrganizationInviteByTokenHash(idStore, v) = PgOrganizationInviteByTokenHash(idPg, v)

(* However many requests present a refresh token at the same time, at most *)
(* one session comes of it: ControlAuthService.Refresh.                    *)
RefreshRedeemedOnce ==
    \A a, b \in DOMAIN redeemedFor : redeemedFor[a] = redeemedFor[b] /\ redeemedFor[a] # 0 => a = b

(* Whatever address the provider reports and whoever else is signing in,   *)
(* an identity always opens sessions of the same account, the one it is    *)
(* linked to, and no address has two accounts: LoginOIDC.                  *)
OneAccountPerIdentity ==
    /\ \A x, y \in logins : x[1] = y[1] => x[2] = y[2]
    /\ \A x \in logins : StoreUserByOIDCIdentity(idStore, x[1]).id = x[2]
    /\ \A x, y \in Users : idStore.users[x].email = idStore.users[y].email => x = y
=============================================================================
